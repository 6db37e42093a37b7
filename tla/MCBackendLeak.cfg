SPECIFICATION ResetSpec
CONSTANTS
  a1 = a1
  a2 = a2
  a3 = a3
  a4 = a4
  b1 = b1
  b2 = b2
  b3 = b3
  IW = 2
  Regs = {1}
  FpRegs = {}
  Shards = {0, 1}
  FpShards = {}
  SH_FL = 2
  Phys <- LanePhys
  LOWAT = 2
  Junk = Junk
  QCAP = 4
SYMMETRY LaneSymmetry
INVARIANTS RegistersConserved
