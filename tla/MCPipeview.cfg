SPECIFICATION MCSpec
CONSTANTS
  FrontCodes = {"f", "i"}
  BackCodes = {"w", "a"}
  Lanes = {"a"}
  FetchCauses = {"itlb"}
  StallCauses = {"be:rob-full"}
  Labels <- MCLabels
  trace_from = 1
  trace_to = 5
  NCYC = 6
  NROWS = 2
  FW = 1
  BODY = 2
  Keys <- MCKeys
  NKEYS = 4
  CELLS = 4
  CAUSED = 2
INVARIANTS CellsExact HeaderExact ViewInRange KeysWhole
PROPERTY EofQuits
CHECK_DEADLOCK FALSE
