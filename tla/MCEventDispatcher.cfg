SPECIFICATION MCSpec
CONSTANTS
  Threads = {t1, t2}
  None = None
  Handlers = 2
  SerialValues = 4
  MaxPosts = 3
  Readers = {r1, r2}
  Writers = {w1, w2}
  Timed = {r1, w1}
  Nobody = Nobody
INVARIANTS
  OnlyInitialEvents
  NoLostWakeup
  Exclusion
  NoWaitForFreeLock
PROPERTIES
  PostedIsTaken
  WriterGetsLock
CHECK_DEADLOCK FALSE
