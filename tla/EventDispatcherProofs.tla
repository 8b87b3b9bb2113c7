----------------------- MODULE EventDispatcherProofs -----------------------
(***************************************************************************)
(* Proofs about EventDispatcher, for any number of threads, handlers and   *)
(* events and any width of serial.                                         *)
(*                                                                         *)
(* The argument: of the polls in progress only the latest has the number   *)
(* serial holds (Unique), and only a poll with that number takes another   *)
(* event (Current).  What it still has to take is at the front of the      *)
(* queue (Remaining).                                                      *)
(***************************************************************************)
EXTENDS EventDispatcher, TLAPS

\* Events the poll of t has yet to take off the queue.
ToTake(t) == IF pc[t] = "next" THEN left[t] ELSE left[t] - 1

RunningInv == \A t \in Threads : pc[t] \in {"next", "handler"} <=> running = t

\* What is dispatched was posted before the poll began.
EventsInitial == \A t \in Threads : event[t] <= limit[t]

Counted == \A t \in Threads : pc[t] \in {"handler", "blocked"} => left[t] > 0

Unique == \A t, u \in Threads :
  InPoll(t) /\ InPoll(u) /\ mine[t] = serial /\ mine[u] = serial => t = u

Current == \A t \in Threads : pc[t] = "next" /\ left[t] > 0 => mine[t] = serial

Remaining == \A t \in Threads : InPoll(t) /\ mine[t] = serial =>
  /\ ToTake(t) <= Len(queue)
  /\ posted - Len(queue) + ToTake(t) <= limit[t]

Limits == \A t \in Threads : limit[t] <= posted

InOrder ==
  /\ Len(queue) <= posted
  /\ \A i \in 1..Len(queue) : queue[i] = posted - Len(queue) + i

IInv == /\ TypeOK /\ RunningInv /\ Counted /\ Unique /\ Current /\ Remaining
        /\ InOrder /\ Limits /\ EventsInitial /\ NoLostWakeup

-----------------------------------------------------------------------------
\* Appending the next number keeps the queue numbered in order.
LEMMA AppendInOrder ==
  ASSUME NEW q \in Seq(Nat), NEW p \in Nat, Len(q) <= p,
         \A i \in 1..Len(q) : q[i] = p - Len(q) + i
  PROVE  LET r == Append(q, p + 1) IN
         /\ r \in Seq(Nat) /\ Len(r) = Len(q) + 1 /\ r # << >>
         /\ \A i \in 1..Len(r) : r[i] = p + 1 - Len(r) + i
  <1>1. Append(q, p + 1) \in Seq(Nat) /\ Len(Append(q, p + 1)) = Len(q) + 1
    OBVIOUS
  <1>2. \A i \in 1..Len(q) : Append(q, p + 1)[i] = q[i]
    OBVIOUS
  <1>3. Append(q, p + 1)[Len(q) + 1] = p + 1
    OBVIOUS
  <1>4. Append(q, p + 1) # << >>
    BY <1>1
  <1>5. ASSUME NEW i \in 1..Len(Append(q, p + 1))
        PROVE  Append(q, p + 1)[i] = p + 1 - Len(Append(q, p + 1)) + i
    <2>1. CASE i \in 1..Len(q)
      BY <2>1, <1>1, <1>2
    <2>2. CASE i = Len(q) + 1
      BY <2>2, <1>1, <1>3
    <2> QED BY <2>1, <2>2, <1>1
  <1> QED BY <1>1, <1>4, <1>5

\* Taking the head off does, too, and the head is the number that comes first.
LEMMA TailInOrder ==
  ASSUME NEW q \in Seq(Nat), NEW p \in Nat, q # << >>, Len(q) <= p,
         \A i \in 1..Len(q) : q[i] = p - Len(q) + i
  PROVE  LET r == Tail(q) IN
         /\ r \in Seq(Nat) /\ Len(r) = Len(q) - 1
         /\ Head(q) \in Nat /\ Head(q) = p - Len(q) + 1
         /\ \A i \in 1..Len(r) : r[i] = p - Len(r) + i
  <1>1. Len(q) \in Nat /\ Len(q) > 0
    OBVIOUS
  <1>2. Tail(q) \in Seq(Nat) /\ Len(Tail(q)) = Len(q) - 1
    OBVIOUS
  <1>3. Head(q) = q[1] /\ q[1] \in Nat
    BY <1>1
  <1>4. \A i \in 1..Len(Tail(q)) : Tail(q)[i] = q[i + 1]
    BY <1>2
  <1> QED BY <1>1, <1>2, <1>3, <1>4

LEMMA InitIInv == Init => IInv
  BY NoneAssumption, NumberAssumption
  DEF Init, IInv, TypeOK, Limits, RunningInv, Counted, Unique, Current, Remaining,
      InOrder, EventsInitial, NoLostWakeup, InPoll, Pcs

\* post adds an event at the end and wakes whoever waits.
LEMMA PostStep == IInv /\ post => IInv'
  <1> SUFFICES ASSUME IInv, post PROVE IInv'
    OBVIOUS
  <1> USE DEF IInv
  <1>1. /\ queue' \in Seq(Nat) /\ Len(queue') = Len(queue) + 1 /\ queue' # << >>
        /\ \A i \in 1..Len(queue') : queue'[i] = posted + 1 - Len(queue') + i
    BY AppendInOrder DEF post, TypeOK, InOrder
  <1>2. posted' = posted + 1 /\ posted \in Nat /\ UNCHANGED <<serial, running, pollVars>>
    BY DEF post, TypeOK
  <1>3. /\ pc' \in [Threads -> Pcs]
        /\ \A t \in Threads : pc'[t] # "waiting"
        /\ \A t \in Threads : pc'[t] = pc[t] \/ (pc[t] = "waiting" /\ pc'[t] = "out")
    BY DEF post, TypeOK, NoLostWakeup, Pcs
  <1>4. TypeOK'
    BY <1>1, <1>2, <1>3 DEF TypeOK, pollVars
  <1>5. RunningInv' /\ Counted' /\ Unique' /\ Current'
    BY <1>2, <1>3 DEF RunningInv, Counted, Unique, Current, InPoll, pollVars
  <1>6. Remaining'
    <2> SUFFICES ASSUME NEW t \in Threads, InPoll(t)', mine[t] = serial
                 PROVE  /\ ToTake(t)' <= Len(queue')
                        /\ posted' - Len(queue') + ToTake(t)' <= limit[t]
      BY <1>2 DEF Remaining, pollVars
    <2>1. pc'[t] = pc[t] /\ InPoll(t)
      BY <1>3 DEF InPoll
    <2>2. ToTake(t)' = ToTake(t) /\ ToTake(t) \in Int
      BY <2>1, <1>2 DEF ToTake, pollVars, TypeOK
    <2>3. ToTake(t) <= Len(queue) /\ posted - Len(queue) + ToTake(t) <= limit[t]
      BY <2>1 DEF Remaining
    <2>4. Len(queue) \in Nat /\ limit[t] \in Nat
      BY DEF TypeOK
    <2> QED BY <1>1, <1>2, <2>2, <2>3, <2>4
  <1>7. InOrder' /\ Limits'
    BY <1>1, <1>2 DEF InOrder, Limits, TypeOK, pollVars
  <1>8. EventsInitial' /\ NoLostWakeup'
    BY <1>2, <1>3 DEF EventsInitial, NoLostWakeup, pollVars
  <1> QED BY <1>4, <1>5, <1>6, <1>7, <1>8

\* poll starts with a number no poll in progress has, and counts the queue.
LEMMA PollStep == ASSUME NEW t \in Threads PROVE IInv /\ poll(t) => IInv'
  <1> SUFFICES ASSUME IInv, poll(t) PROVE IInv'
    OBVIOUS
  <1> USE DEF IInv
  <1>1. /\ running = None /\ running' = t /\ t # None /\ pc[t] = "out"
        /\ queue' = queue /\ posted' = posted /\ event' = event
        /\ Len(queue) \in Nat /\ handler' = handler
    BY NoneAssumption DEF poll, CanPoll, TypeOK
  <1>2. /\ pc' = [pc EXCEPT ![t] = "next"] /\ mine' = [mine EXCEPT ![t] = serial']
        /\ left' = [left EXCEPT ![t] = Len(queue)]
        /\ limit' = [limit EXCEPT ![t] = posted]
    BY DEF poll
  <1>3. /\ serial' \in 0..(SerialValues - 1)
        /\ \A u \in Threads : InPoll(u) => mine[u] # serial'
    BY NumberAssumption DEF poll, NoWrap, TypeOK
  <1>4. TypeOK'
    BY <1>1, <1>2, <1>3 DEF TypeOK, Pcs
  <1>6. \A u \in Threads : u # t => /\ pc'[u] = pc[u] /\ mine'[u] = mine[u]
                                    /\ left'[u] = left[u] /\ limit'[u] = limit[u]
    BY <1>2 DEF TypeOK
  <1>7. /\ pc'[t] = "next" /\ mine'[t] = serial' /\ left'[t] = Len(queue)
        /\ limit'[t] = posted
    BY <1>2 DEF TypeOK
  <1>5. RunningInv'
    <2>1. \A u \in Threads : pc[u] \notin {"next", "handler"}
      BY <1>1, NoneAssumption DEF RunningInv
    <2> QED BY <2>1, <1>1, <1>6, <1>7 DEF RunningInv
  <1>8. \A u \in Threads : InPoll(u)' /\ mine'[u] = serial' => u = t
    BY <1>3, <1>6 DEF InPoll
  <1>9. Counted' /\ Unique'
    BY <1>6, <1>7, <1>8 DEF Counted, Unique
  <1>10. Current'
    <2> SUFFICES ASSUME NEW u \in Threads, u # t, pc[u] = "next" PROVE FALSE
      BY <1>6, <1>7 DEF Current
    <2> QED BY <1>1, NoneAssumption DEF RunningInv
  <1>11. Remaining'
    <2> SUFFICES ASSUME TRUE PROVE /\ ToTake(t)' <= Len(queue')
                                   /\ posted' - Len(queue') + ToTake(t)' <= limit'[t]
      BY <1>8 DEF Remaining
    <2>1. ToTake(t)' = Len(queue)
      BY <1>7 DEF ToTake
    <2> QED BY <2>1, <1>1, <1>7 DEF TypeOK
  <1>12. InOrder' /\ Limits' /\ EventsInitial' /\ NoLostWakeup'
    <2>1. event[t] <= posted /\ posted \in Nat
      BY DEF EventsInitial, Limits, TypeOK
    <2> QED BY <1>1, <1>6, <1>7, <2>1
            DEF InOrder, Limits, EventsInitial, NoLostWakeup
  <1> QED BY <1>4, <1>5, <1>9, <1>10, <1>11, <1>12

\* pop takes the event at the front, one of those the poll has counted.
LEMMA PopStep == ASSUME NEW t \in Threads PROVE IInv /\ pop(t) => IInv'
  <1> SUFFICES ASSUME IInv, pop(t) PROVE IInv'
    OBVIOUS
  <1> USE DEF IInv
  <1>1. /\ running = t /\ pc[t] = "next" /\ left[t] > 0 /\ queue # << >>
        /\ UNCHANGED <<serial, running, mine, left, posted, limit>>
        /\ left[t] \in Nat /\ limit[t] \in Nat /\ posted \in Nat
        /\ Len(queue) \in Nat
    BY DEF pop, TypeOK
  <1>2. /\ Tail(queue) \in Seq(Nat) /\ Len(Tail(queue)) = Len(queue) - 1
        /\ Head(queue) \in Nat /\ Head(queue) = posted - Len(queue) + 1
        /\ \A i \in 1..Len(Tail(queue)) :
             Tail(queue)[i] = posted - Len(Tail(queue)) + i
    BY <1>1, TailInOrder DEF TypeOK, InOrder
  <1>3. /\ queue' = Tail(queue) /\ pc' = [pc EXCEPT ![t] = "handler"]
        /\ event' = [event EXCEPT ![t] = Head(queue)]
        /\ handler' = [handler EXCEPT ![t] = 1]
    BY DEF pop
  <1>4. /\ pc'[t] = "handler" /\ event'[t] = Head(queue)
        /\ \A u \in Threads : u # t => pc'[u] = pc[u] /\ event'[u] = event[u]
    BY <1>3 DEF TypeOK
  <1>5. mine[t] = serial
    BY <1>1 DEF Current
  <1>6. /\ left[t] <= Len(queue) /\ posted - Len(queue) + left[t] <= limit[t]
    BY <1>1, <1>5 DEF Remaining, InPoll, ToTake
  <1>7. TypeOK'
    BY <1>1, <1>2, <1>3 DEF TypeOK, Pcs
  <1>8. RunningInv' /\ Counted' /\ Unique' /\ Current'
    BY <1>1, <1>4 DEF RunningInv, Counted, Unique, Current, InPoll
  <1>9. Remaining'
    <2> SUFFICES ASSUME NEW u \in Threads, InPoll(u)', mine[u] = serial
                 PROVE  /\ ToTake(u)' <= Len(queue')
                        /\ posted' - Len(queue') + ToTake(u)' <= limit[u]
      BY <1>1 DEF Remaining
    <2>1. u = t
      BY <1>1, <1>4, <1>5 DEF Unique, InPoll
    <2>2. ToTake(t)' = left[t] - 1
      BY <1>1, <1>4 DEF ToTake
    <2> QED BY <2>1, <2>2, <1>1, <1>2, <1>3, <1>6
  <1>10. InOrder' /\ Limits'
    BY <1>1, <1>2, <1>3 DEF InOrder, Limits
  <1>11. EventsInitial'
    <2>1. Head(queue) <= limit[t]
      BY <1>1, <1>2, <1>6
    <2> QED BY <2>1, <1>1, <1>4 DEF EventsInitial
  <1>12. NoLostWakeup'
    BY <1>1, <1>4 DEF NoLostWakeup
  <1> QED BY <1>7, <1>8, <1>9, <1>10, <1>11, <1>12

\* block and resume move a thread between its handler and co_block.
LEMMA SwitchStep ==
  ASSUME NEW t \in Threads PROVE IInv /\ (block(t) \/ resume(t)) => IInv'
  <1> SUFFICES ASSUME IInv, block(t) \/ resume(t) PROVE IInv'
    OBVIOUS
  <1> USE DEF IInv
  <1>1. UNCHANGED <<queue, serial, posted, mine, left, event, handler, limit>>
    BY DEF block, resume, pollVars
  <1>2. \/ /\ running = t /\ pc[t] = "handler" /\ running' = None
           /\ pc' = [pc EXCEPT ![t] = "blocked"]
        \/ /\ running = None /\ pc[t] = "blocked" /\ running' = t
           /\ pc' = [pc EXCEPT ![t] = "handler"]
    BY DEF block, resume
  <1>3. /\ pc'[t] \in {"handler", "blocked"} /\ pc[t] \in {"handler", "blocked"}
        /\ \A u \in Threads : u # t => pc'[u] = pc[u]
    BY <1>2 DEF TypeOK
  <1>4. TypeOK'
    BY <1>1, <1>2 DEF TypeOK, Pcs
  <1>5. RunningInv'
    BY <1>2, NoneAssumption DEF RunningInv, TypeOK
  <1>6. Counted' /\ Unique' /\ Current'
    BY <1>1, <1>3 DEF Counted, Unique, Current, InPoll
  <1>7. Remaining'
    <2>1. \A u \in Threads : InPoll(u)' = InPoll(u) /\ ToTake(u)' = ToTake(u)
      BY <1>1, <1>3 DEF InPoll, ToTake
    <2> QED BY <2>1, <1>1 DEF Remaining
  <1>8. InOrder' /\ Limits' /\ EventsInitial' /\ NoLostWakeup'
    BY <1>1, <1>3 DEF InOrder, Limits, EventsInitial, NoLostWakeup
  <1> QED BY <1>4, <1>5, <1>6, <1>7, <1>8

\* After a handler a poll that was overtaken has nothing left to take.
LEMMA HandledStep == ASSUME NEW t \in Threads PROVE IInv /\ handled(t) => IInv'
  <1> SUFFICES ASSUME IInv, handled(t) PROVE IInv'
    OBVIOUS
  <1> USE DEF IInv
  <1>1. /\ running = t /\ pc[t] = "handler"
        /\ UNCHANGED <<queue, serial, running, mine, posted, limit>>
        /\ left[t] \in Nat /\ left[t] > 0 /\ handler[t] \in Nat
    BY DEF handled, TypeOK, Counted
  <1>2. CASE /\ handler' = [handler EXCEPT ![t] = @ + 1]
             /\ UNCHANGED <<pc, left, event>>
    <2>1. TypeOK'
      BY <1>1, <1>2 DEF TypeOK
    <2>2. RunningInv' /\ Counted' /\ Unique' /\ Current'
      BY <1>1, <1>2 DEF RunningInv, Counted, Unique, Current, InPoll
    <2>3. Remaining'
      BY <1>1, <1>2 DEF Remaining, InPoll, ToTake
    <2>4. InOrder' /\ Limits' /\ EventsInitial' /\ NoLostWakeup'
      BY <1>1, <1>2 DEF InOrder, Limits, EventsInitial, NoLostWakeup
    <2> QED BY <2>1, <2>2, <2>3, <2>4
  <1>3. CASE /\ dispatched(t) /\ event' = [event EXCEPT ![t] = 0]
             /\ UNCHANGED handler
    <2> DEFINE n == IF mine[t] = serial THEN left[t] - 1 ELSE 0
    <2>1. n \in Nat /\ pc' = [pc EXCEPT ![t] = "next"]
          /\ left' = [left EXCEPT ![t] = n]
      BY <1>1, <1>3 DEF dispatched
    <2>2. /\ pc'[t] = "next" /\ left'[t] = n /\ event'[t] = 0
          /\ \A u \in Threads : u # t =>
               pc'[u] = pc[u] /\ left'[u] = left[u] /\ event'[u] = event[u]
      BY <2>1, <1>3 DEF TypeOK
    <2>3. TypeOK'
      BY <1>1, <1>3, <2>1 DEF TypeOK, Pcs
    <2>4. RunningInv' /\ Counted'
      BY <1>1, <2>2 DEF RunningInv, Counted
    <2>5. Unique' /\ Current'
      BY <1>1, <2>2 DEF Unique, Current, InPoll
    <2>6. Remaining'
      <3> SUFFICES ASSUME NEW u \in Threads, InPoll(u)', mine[u] = serial
                   PROVE  /\ ToTake(u)' <= Len(queue)
                          /\ posted - Len(queue) + ToTake(u)' <= limit[u]
        BY <1>1 DEF Remaining
      <3>1. InPoll(u) /\ ToTake(u)' = ToTake(u)
        BY <1>1, <2>2 DEF InPoll, ToTake
      <3> QED BY <3>1 DEF Remaining
    <2>7. InOrder' /\ Limits' /\ EventsInitial' /\ NoLostWakeup'
      <3>1. limit[t] \in Nat
        BY DEF TypeOK
      <3> QED BY <1>1, <2>2, <3>1
              DEF InOrder, Limits, EventsInitial, NoLostWakeup
    <2> QED BY <2>3, <2>4, <2>5, <2>6, <2>7
  <1> QED BY <1>2, <1>3 DEF handled

\* return and wait take no event.
LEMMA LeaveStep ==
  ASSUME NEW t \in Threads PROVE IInv /\ (return(t) \/ wait(t)) => IInv'
  <1> SUFFICES ASSUME IInv, return(t) \/ wait(t) PROVE IInv'
    OBVIOUS
  <1> USE DEF IInv
  <1>1. UNCHANGED <<queue, serial, posted, mine, left, event, handler, limit>>
    BY DEF return, wait, pollVars
  <1>2. /\ pc[t] \in {"next", "out"} /\ pc'[t] \in {"out", "waiting"}
        /\ pc'[t] = "waiting" => queue = << >>
        /\ running \in {t, None} /\ running' = None
        /\ pc' \in [Threads -> Pcs]
        /\ \A u \in Threads : u # t => pc'[u] = pc[u]
    BY DEF return, wait, CanPoll, TypeOK, Pcs
  <1>3. TypeOK'
    BY <1>1, <1>2 DEF TypeOK
  <1>4. RunningInv'
    BY <1>2, NoneAssumption DEF RunningInv
  <1>5. Counted' /\ Unique' /\ Current' /\ Remaining'
    BY <1>1, <1>2 DEF Counted, Unique, Current, Remaining, InPoll, ToTake
  <1>6. InOrder' /\ Limits' /\ EventsInitial' /\ NoLostWakeup'
    BY <1>1, <1>2 DEF InOrder, Limits, EventsInitial, NoLostWakeup
  <1> QED BY <1>3, <1>4, <1>5, <1>6

LEMMA NextIInv == IInv /\ [Next]_vars => IInv'
  <1> SUFFICES ASSUME IInv, [Next]_vars PROVE IInv'
    OBVIOUS
  <1>1. CASE post
    BY <1>1, PostStep
  <1>2. ASSUME NEW t \in Threads,
               poll(t) \/ Polling(t) \/ block(t) \/ resume(t) \/ wait(t)
        PROVE  IInv'
    BY <1>2, PollStep, PopStep, SwitchStep, HandledStep, LeaveStep DEF Polling
  <1>3. CASE UNCHANGED vars
    BY <1>3 DEF vars, pollVars, IInv, TypeOK, RunningInv, Counted, Unique,
         Current, Remaining, InOrder, Limits, EventsInitial, NoLostWakeup,
         InPoll, ToTake
  <1> QED BY <1>1, <1>2, <1>3 DEF Next

\* The invariant of the dispatcher: whichever handlers block, and for however
\* long, the queue belongs to the poll that began last.
THEOREM InvariantED == Spec => []IInv
  BY InitIInv, NextIInv, PTL DEF Spec

\* Every variable keeps its type; serial stays within its width.
THEOREM TypeCorrectED == Spec => []TypeOK
  BY InvariantED, PTL DEF IInv

\* A poll dispatches only events that were queued when it began, and never calls
\* pop_front on an empty queue, although handlers that block let other polls
\* empty it.
THEOREM NoStarvingPoll == Spec => []OnlyInitialEvents
  <1>1. IInv => OnlyInitialEvents
    <2>1. ASSUME IInv, NEW t \in Threads, pc[t] = "next" PROVE left[t] <= Len(queue)
      <3>1. left[t] \in Nat /\ Len(queue) \in Nat
        BY <2>1 DEF IInv, TypeOK
      <3>2. left[t] > 0 => mine[t] = serial
        BY <2>1 DEF IInv, Current
      <3>3. mine[t] = serial => left[t] <= Len(queue)
        BY <2>1 DEF IInv, Remaining, InPoll, ToTake
      <3> QED BY <3>1, <3>2, <3>3
    <2> QED BY <2>1 DEF OnlyInitialEvents, IInv, EventsInitial
  <1> QED BY <1>1, InvariantED, PTL

\* Nobody sleeps while there are events to dispatch.
THEOREM WakeupsKept == Spec => []NoLostWakeup
  BY InvariantED, PTL DEF IInv
=============================================================================
