------------------------------- MODULE CoSync -------------------------------
(***************************************************************************)
(* The synchronisation objects of cooperative.cc, each a value and a wait  *)
(* queue, used by the threads and FSMs of a cooperative group (CoGroup).   *)
(* A behaviour has one object, of any kind.  (Co_rwlock, with its two      *)
(* queues, is a module of its own.)                                        *)
(***************************************************************************)
EXTENDS CoGroup

CONSTANTS
  Kinds,      \* kinds of object: a subset of AllKinds
  MaxValue,   \* bound on the value of a semaphore
  Parties,    \* the number of threads a barrier waits for
  Free        \* no owner

AllKinds == {"cond", "mutex", "sema", "completion", "barrier"}

ASSUME SyncAssumption ==
  /\ Kinds \subseteq AllKinds
  /\ MaxValue \in Nat /\ Parties \in Nat \ {0}
  /\ Free \notin Tasks

VARIABLES
  kind,
  value  \* the semaphore's value, the mutex's owner, the barrier's count, or
         \* 1 if the completion is complete

varsS == <<vars, kind, value>>

-----------------------------------------------------------------------------
(* The operations on a queue q.  Each is a set of what it may do: the new   *)
(* value, and the number n of waiting tasks it wakes, in order.            *)

\* One task is woken if one waits.
One(q) == IF q = << >> THEN 0 ELSE 1

Op(v, n) == {[value |-> v, n |-> n]}

\* signal, broadcast.
CondOps(q) == Op(value, One(q)) \cup Op(value, Len(q))

\* up: a task that waits is given the unit.
SemaOps(q) ==
  IF q # << >> THEN Op(value, 1)
  ELSE IF value < MaxValue THEN Op(value + 1, 0) ELSE {}

\* Faulty unlock: the next in line is woken to try again.
MutexOps_NoOwner(k, q) == IF value = k THEN Op(Free, One(q)) ELSE {}

\* unlock, by the owner k: the next in line becomes the owner.
MutexOps(k, q) ==
  IF value = k THEN Op(IF q = << >> THEN Free ELSE Head(q), One(q)) ELSE {}

\* release, unless it is complete; latch.
CompletionOps(q) == Op(0, 0) \cup (IF value = 0 THEN Op(1, Len(q)) ELSE {})

\* block, by the last thread to come.
BarrierOps(k, q) == IF k \in Threads /\ value = 1 THEN Op(0, Len(q)) ELSE {}

\* What task k may do without blocking.  (An FSM that runs is no longer in the
\* queue, nor is a running thread.)
WakeOps(k) ==
  LET q == Without(wq, {k}) IN
  CASE kind = "cond" -> CondOps(q)
    [] kind = "sema" -> SemaOps(q)
    [] kind = "mutex" -> MutexOps(k, q)
    [] kind = "completion" -> CompletionOps(q)
    [] kind = "barrier" -> BarrierOps(k, q)

\* Whether a wait by k succeeds at once, and the value after a wait.
Immediate ==
  \/ kind = "sema" /\ value > 0
  \/ kind = "mutex" /\ value = Free
  \/ kind = "completion" /\ value = 1

AfterWait(k) ==
  CASE kind = "sema" /\ value > 0 -> value - 1
    [] kind = "mutex" /\ value = Free -> k
    [] kind = "barrier" -> value - 1
    [] OTHER -> value

\* A mutex is not locked again by its owner, nor a barrier by FSMs, or when
\* all have come.
MayWait(k) ==
  /\ kind = "mutex" => value # k
  /\ kind = "barrier" => value > 1 /\ k \in Threads

-----------------------------------------------------------------------------
(* Steps of tasks                                                          *)

\* The running thread calls an operation that does not block.
Signal(t) ==
  /\ pc[t] = "running" /\ t # FsmThread
  /\ \E op \in WakeOps(t) : value' = op.value /\ wake_n(op.n)
  /\ UNCHANGED <<tokens, kind>>

\* down, lock, try_down and try_lock that succeed go on at once.
TryWait(t) ==
  /\ pc[t] = "running" /\ t # FsmThread
  /\ kind \in {"sema", "mutex"} /\ MayWait(t) /\ Immediate
  /\ value' = AfterWait(t)
  /\ UNCHANGED <<vars, kind>>

\* wait, perhaps for a descriptor or a timer as well, and co_block.
Wait(t, onIo) ==
  /\ pc[t] = "running" /\ t # FsmThread
  /\ MayWait(t)
  /\ kind = "barrier" => ~onIo
  /\ value' = AfterWait(t)
  /\ \/ Immediate /\ BlockReady(t, onIo)
     \/ ~Immediate /\ Block(t, onIo, TRUE)
  /\ UNCHANGED kind

\* An FSM's function calls an operation that does not block, and ends.
FsmSignals(t, f) ==
  /\ RunsFsm(t, f)
  /\ \E op \in WakeOps(f), e \in {"yield", "exit", "rest", "io"} :
       value' = op.value /\ run_fsm(f, op.n, e)
  /\ UNCHANGED kind

\* An FSM waits for the object; if it need not wait, it is ready again.
FsmWaits(t, f) ==
  /\ RunsFsm(t, f) /\ MayWait(f)
  /\ value' = AfterWait(f)
  /\ \E onIo \in BOOLEAN :
       run_fsm(f, 0, IF Immediate THEN "yield" ELSE IF onIo THEN "io+queue" ELSE "queue")
  /\ UNCHANGED kind

-----------------------------------------------------------------------------
Init ==
  /\ InitGroup
  /\ kind \in Kinds
  /\ value = CASE kind = "mutex" -> Free
               [] kind = "barrier" -> Parties
               [] OTHER -> 0

Next ==
  \/ \E t \in Threads : GroupStep(t) /\ UNCHANGED <<kind, value>>
  \/ fsm_thread /\ UNCHANGED <<kind, value>>
  \/ \E t \in Threads : Signal(t) \/ TryWait(t) \/ Wait(t, TRUE) \/ Wait(t, FALSE)
  \/ \E t \in Threads, f \in Fsms : FsmSignals(t, f) \/ FsmWaits(t, f)

\* The scheduler's own steps, of threads and of the FSM in line.
Schedules(t) ==
  \/ StartPoll(t) \/ EndPoll(t) \/ ScheduleSelf(t) \/ ScheduleOther(t) \/ Awake(t)
  \/ \E f \in Fsms, e \in Endings \ {"queue", "io+queue"} :
       pc[t] = "schedule" /\ RunsFsm(t, f) /\ run_fsm(f, 0, e)

\* A running thread blocks, yields or leaves.
GivesWay(t) ==
  \/ co_yield(t) \/ leave_coop_group(t)
  \/ (pc[t] = "running" /\ t # FsmThread /\ Block(t, TRUE, FALSE))
  \/ (t = FsmThread /\ fsm_thread)

\* The operating system runs whoever is not blocked, and cooperative threads
\* cooperate: they do not keep running for ever while others are ready.
Fairness == \A t \in Threads :
  /\ WF_varsS(Schedules(t) /\ UNCHANGED <<kind, value>>)
  /\ WF_varsS(GivesWay(t) /\ UNCHANGED <<kind, value>>)

Spec == Init /\ [][Next]_varsS /\ Fairness

-----------------------------------------------------------------------------
(* Properties                                                              *)

\* Whoever waits for the object is served: nobody is left waiting for what is
\* to be had (a unit of a semaphore, a free mutex, a complete completion), and
\* who is woken gets it.  The assertion of Co_mutex::lock after co_block, for
\* all who can wait: a task that is woken by a mutex is its owner until it
\* runs; and that of Co_barrier::block: it passes only when the last thread has
\* come.
WaitersServed ==
  /\ kind \in AllKinds
  /\ value \in IF kind = "mutex" THEN Tasks \cup {Free}
                 ELSE 0..(MaxValue + Parties + 1)
  /\ Immediate => wq = << >>
  /\ \A k \in members \cup fsms :
       woken[k] = "queue" /\ ~(k \in Threads /\ pc[k] = "running") =>
         /\ kind = "mutex" => value = k
         /\ kind = "barrier" => value = 0

\* The group is what its threads may take it for: one of them runs.
OneRunnerSpec == INSTANCE OneRunner WITH running <- {t \in Threads : HasToken(t)}
ImplementsOneRunner == OneRunnerSpec!Spec

\* A thread that is ready gets to run, also one that has just joined while all
\* the others were waiting in poll.
ReadyRuns == \A t \in Threads :
  Contains(ready_list, t) ~> ~Contains(ready_list, t)
=============================================================================
