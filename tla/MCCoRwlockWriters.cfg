SPECIFICATION SpecLock
CONSTANTS
  Readers = {r1}
  Writers = {w1, w2}
  Timed = {}
  Nobody = Nobody
INVARIANTS
  WokenOwns
CHECK_DEADLOCK FALSE
