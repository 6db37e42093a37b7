SPECIFICATION RobSpec
CONSTANTS
  ROWS = 3
  CAP = 2
  IW = 2
  NW = 2
  Ops = {w}
  Writes = {w}
INVARIANTS RobType PointersExact KillAgrees KillExact WalkExact
PROPERTY ImplementsWindow
