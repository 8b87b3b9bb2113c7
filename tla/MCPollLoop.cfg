SPECIFICATION Spec
CONSTANTS
  Threads = {main, t1}
  Main = main
  Pollables = {p1, p2}
  Entries = {e1, e2, e3}
  None = None
INVARIANTS
  OnlyPollingThreadServes
  VacantOnlyWhenAllBusy
  IteratorsValid
PROPERTIES
  WorkIsPolled
CHECK_DEADLOCK TRUE
