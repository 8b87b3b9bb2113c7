SPECIFICATION SpecLock
CONSTANTS
  Readers = {r1, r2}
  Writers = {w1}
  Timed = {w1}
  Nobody = Nobody
INVARIANTS
  NoReaderLeft
CHECK_DEADLOCK FALSE
