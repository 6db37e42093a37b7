SPECIFICATION MCLiveSpec
CONSTANTS
  a1 = a1
  a2 = a2
  a3 = a3
  a4 = a4
  b1 = b1
  b2 = b2
  b3 = b3
  IW = 1
  Regs = {1, 2}
  FpRegs = {}
  Shards = {0}
  FpShards = {}
  SH_FL = 2
  Phys <- OnePhys
  LOWAT = 2
  Junk = Junk
  QCAP = 3
INVARIANTS SweepAlone
PROPERTIES RestartEnds StallEnds
