CONSTANTS
  t1 = t1
  t2 = t2
  ft = ft
  f = f
  Threads = {t1, t2, ft}
  Fsms = {f}
  FsmThread = ft
  Free = Free
  Kinds = {"cond", "mutex", "sema", "completion", "barrier"}
  MaxValue = 1
  Parties = 2
SPECIFICATION Spec
INVARIANTS InOnePlace WaitersServed
PROPERTIES ImplementsOneRunner ReadyRuns
CHECK_DEADLOCK FALSE
