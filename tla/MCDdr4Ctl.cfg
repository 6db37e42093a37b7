SPECIFICATION LoadSpec
CONSTANTS BG = 1 Rows = {0, 1} QN = 2
  T_RCD = 2 T_RAS = 7 T_RP = 2 T_RTP = 2 T_WRP = 4 T_RRD_S = 2 T_RRD_L = 3 T_FAW = 33
  T_CCD_L = 2 T_WTR_L = 4 T_WTR_S = 3 T_RTW = 2 T_RPREF = 2 T_RFC = 5 T_ZQCS = 3
  T_REFI = 54 PER_INTVL = 36 VT_INJ = 5 VT_GAP = 24 ZQ_EVERY = 1 READ_LAT = 3
  NREQ = 26 READS = 5 CALM = 2 Spells = {4, 8, 26}
INVARIANTS RowsExact TimingSafe Maintained
PROPERTY RequestServed
