SPECIFICATION LiveFifoSpec
CONSTANTS
  Data = {d1, d2}
  DEPTH = 4
INVARIANT FifoInv
PROPERTIES ImplementsFifo ViewsCatchUp
