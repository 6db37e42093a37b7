SPECIFICATION LiveSyncSpec
CONSTANTS
  Requests = {q1}
  ReadBeats = {b1}
  Dones = {}
  Cleans = {}
  Flushes = {l1, l2}
INVARIANTS RequestsExact BeatsExact SnoopExact
PROPERTY CrossingEnds
