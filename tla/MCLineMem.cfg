SPECIFICATION MemLive
CONSTANTS NR = 2 NW = 1 Ids = {1, 2, 3}
INVARIANTS StreamExact BuffersExact WritesExact
PROPERTY RequestsAnswered
