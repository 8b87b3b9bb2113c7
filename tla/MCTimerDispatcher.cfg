SPECIFICATION Spec
CONSTANTS
  Threads = {th1, th2}
  Slots = {s1, s2, s3}
  MaxTime = 3
  Durations = {1}
  MaxPosts = 3
  MaxMoves = 1
  SerialValues = 3
  None = None
INVARIANTS
  TimersAccountedFor
PROPERTIES
  FiresInitialOnly
  ImplementsTimers
  PostedFires
CHECK_DEADLOCK FALSE
