SPECIFICATION MCSpec
CONSTANTS BG = 1 Rows = {0, 1} QN = 2 NR = 2 NW = 2 Ids = {1, 2, 3}
  T_RCD = 2 T_RAS = 4 T_RP = 2 T_RTP = 2 T_WRP = 4 T_RRD_S = 2 T_RRD_L = 3 T_FAW = 8
  T_CCD_L = 2 T_WTR_L = 4 T_WTR_S = 3 T_RTW = 2 T_RPREF = 2 T_RFC = 5 T_ZQCS = 3
  T_REFI = 36 PER_INTVL = 36 VT_INJ = 8 VT_GAP = 26 ZQ_EVERY = 1 READ_LAT = 4
  WRITE_LAT = 2 NREQ = 3
INVARIANT LineInv
PROPERTY ServesAsAssumed
