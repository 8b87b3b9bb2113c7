--------------------------- MODULE EventDispatcher ---------------------------
(***************************************************************************)
(* The queue of NOX events and the polls that dispatch it.                 *)
(*                                                                         *)
(* Event_dispatcher is one of the main loop's Pollables (module PollLoop). *)
(* A handler may block; the loop then polls the dispatcher again from      *)
(* another thread, and "serial" tells the first poll, when its handler     *)
(* returns, that it was overtaken.                                         *)
(***************************************************************************)
EXTENDS Integers, Sequences

CONSTANTS
  Threads,     \* the threads of the main loop
  None,
  Handlers,    \* number of handlers of every event
  SerialValues, \* number of values serial takes, 2^32 of an unsigned int
  MaxPosts     \* bound: events posted

ASSUME NoneAssumption   == None \notin Threads
ASSUME NumberAssumption ==
  Handlers \in Nat /\ SerialValues \in Nat \ {0} /\ MaxPosts \in Nat

VARIABLES
  queue,       \* posted events, by number, oldest first
  serial,
  running,     \* the thread that runs, None when code outside polls may
  pc,          \* where each thread is
  mine,        \* serial of each thread's poll
  left,        \* max - i of each thread's poll
  event,       \* the event each thread is dispatching, 0 if none
  handler,     \* the handler it calls, counted from 1
  posted,      \* history: number of events posted
  limit        \* history: the last event posted when the poll began

pollVars == <<mine, left, event, handler, limit>>
vars == <<queue, serial, running, pc, posted, pollVars>>

Pcs == {"out",       \* in no poll and not waiting
        "next",      \* in poll, between two events
        "handler",   \* in a handler
        "blocked",   \* in a handler that has blocked
        "waiting"}   \* in co_block, nonempty_queue registered by wait()

-----------------------------------------------------------------------------
\* Faulty post: wakes nobody up.
post_Silent ==
  /\ posted < MaxPosts
  /\ running # None => pc[running] = "handler"
  /\ queue' = Append(queue, posted + 1)
  /\ posted' = posted + 1
  /\ UNCHANGED <<serial, running, pc, pollVars>>

\* post, from a handler or from code outside polls.
post ==
  /\ posted < MaxPosts
  /\ running # None => pc[running] = "handler"
  /\ queue' = Append(queue, posted + 1)
  /\ posted' = posted + 1
  /\ pc' = IF queue = << >>
           THEN [t \in Threads |-> IF pc[t] = "waiting" THEN "out" ELSE pc[t]]
           ELSE pc
  /\ UNCHANGED <<serial, running, pollVars>>

\* t may be the loop's polling thread: a thread that waits would be (PollLoop).
CanPoll(t) ==
  /\ running = None /\ pc[t] = "out"
  /\ \A u \in Threads : pc[u] # "waiting"

\* Faulty poll: the number of events is not limited to those in the queue.
poll_Unlimited(t) ==
  /\ CanPoll(t)
  /\ running' = t
  /\ pc' = [pc EXCEPT ![t] = "next"]
  /\ serial' = (serial + 1) % SerialValues
  /\ mine' = [mine EXCEPT ![t] = serial']
  /\ left' = [left EXCEPT ![t] = MaxPosts]
  /\ limit' = [limit EXCEPT ![t] = posted]
  /\ UNCHANGED <<queue, event, handler, posted>>

\* Bound: serial does not come round to the number of a poll that is still
\* blocked, which takes SerialValues polls.
InPoll(t) == pc[t] \in {"next", "handler", "blocked"}
NoWrap == \A t \in Threads : InPoll(t) => mine[t] # (serial + 1) % SerialValues

\* poll is called by the polling thread.
poll(t) ==
  /\ CanPoll(t) /\ NoWrap
  /\ running' = t
  /\ pc' = [pc EXCEPT ![t] = "next"]
  /\ serial' = (serial + 1) % SerialValues
  /\ mine' = [mine EXCEPT ![t] = serial']
  /\ left' = [left EXCEPT ![t] = Len(queue)]
  /\ limit' = [limit EXCEPT ![t] = posted]
  /\ UNCHANGED <<queue, event, handler, posted>>

\* The next event is taken off the queue.  (pop_front of an empty queue is
\* undefined; OnlyInitialEvents.)
pop(t) ==
  /\ running = t /\ pc[t] = "next" /\ left[t] > 0 /\ queue # << >>
  /\ event' = [event EXCEPT ![t] = Head(queue)]
  /\ handler' = [handler EXCEPT ![t] = 1]
  /\ queue' = Tail(queue)
  /\ pc' = [pc EXCEPT ![t] = "handler"]
  /\ UNCHANGED <<serial, running, mine, left, posted, limit>>

\* A handler blocks, which lets other threads run, and goes on later.
block(t) ==
  /\ running = t /\ pc[t] = "handler" /\ handler[t] <= Handlers
  /\ pc' = [pc EXCEPT ![t] = "blocked"]
  /\ running' = None
  /\ UNCHANGED <<queue, serial, posted, pollVars>>

resume(t) ==
  /\ running = None /\ pc[t] = "blocked"
  /\ pc' = [pc EXCEPT ![t] = "handler"]
  /\ running' = t
  /\ UNCHANGED <<queue, serial, posted, pollVars>>

\* Faulty poll: serial is not compared after dispatch.
dispatched_NoSerial(t) ==
  /\ pc' = [pc EXCEPT ![t] = "next"]
  /\ left' = [left EXCEPT ![t] = @ - 1]

\* Back in poll: one event fewer to go, or none if another poll has begun.
dispatched(t) ==
  /\ pc' = [pc EXCEPT ![t] = "next"]
  /\ left' = [left EXCEPT ![t] = IF mine[t] = serial THEN @ - 1 ELSE 0]

\* dispatch: the handler returns; after STOP, an exception or the last handler
\* the event is done.
handled(t) ==
  /\ running = t /\ pc[t] = "handler"
  /\ \/ /\ handler[t] < Handlers
        /\ handler' = [handler EXCEPT ![t] = @ + 1]
        /\ UNCHANGED <<pc, left, event>>
     \/ /\ dispatched(t)
        /\ event' = [event EXCEPT ![t] = 0]
        /\ UNCHANGED handler
  /\ UNCHANGED <<queue, serial, running, mine, posted, limit>>

\* poll returns; the loop gives way before it polls again.
return(t) ==
  /\ running = t /\ pc[t] = "next" /\ left[t] = 0
  /\ pc' = [pc EXCEPT ![t] = "out"]
  /\ running' = None
  /\ UNCHANGED <<queue, serial, posted, pollVars>>

\* The polling thread calls wait and blocks; with events in the queue it wakes
\* up at once.
wait(t) ==
  /\ CanPoll(t) /\ queue = << >>
  /\ pc' = [pc EXCEPT ![t] = "waiting"]
  /\ UNCHANGED <<queue, serial, running, posted, pollVars>>

-----------------------------------------------------------------------------
Init ==
  /\ queue = << >> /\ serial = 0 /\ running = None /\ posted = 0
  /\ pc = [t \in Threads |-> "out"]
  /\ mine = [t \in Threads |-> 0] /\ left = [t \in Threads |-> 0]
  /\ event = [t \in Threads |-> 0] /\ handler = [t \in Threads |-> 0]
  /\ limit = [t \in Threads |-> 0]

\* What the thread does once poll has been called.
Polling(t) == pop(t) \/ handled(t) \/ return(t)

Next == post \/ \E t \in Threads : poll(t) \/ Polling(t) \/ block(t)
                                   \/ resume(t) \/ wait(t)

\* The main loop polls its Pollables again and again while there is work
\* (PollLoop, WorkIsPolled); handlers return, and block finitely often.
Fairness ==
  /\ SF_vars(\E t \in Threads : queue # << >> /\ poll(t))
  /\ \A t \in Threads : /\ WF_vars(Polling(t) /\ pc[t] # "handler")
                        /\ SF_vars(handled(t))
                        /\ SF_vars(resume(t))

Spec == Init /\ [][Next]_vars /\ Fairness

-----------------------------------------------------------------------------
(* Properties                                                              *)

\* The type of every variable.
TypeOK ==
  /\ queue \in Seq(Nat) /\ serial \in 0..(SerialValues - 1)
  /\ running \in Threads \cup {None} /\ pc \in [Threads -> Pcs]
  /\ mine \in [Threads -> 0..(SerialValues - 1)]
  /\ left \in [Threads -> Nat]
  /\ event \in [Threads -> Nat] /\ handler \in [Threads -> Nat]
  /\ posted \in Nat /\ limit \in [Threads -> Nat]

\* "Dispatch all the events initially in the queue, but not any events queued
\* by processing those events", also when handlers block and polls overtake one
\* another: no poll dispatches an event posted after it began, and what it counted
\* then is still in the queue (or its serial has told it that it was overtaken),
\* so that it never takes an event off an empty queue.
OnlyInitialEvents ==
  /\ TypeOK
  /\ \A t \in Threads :
       /\ event[t] <= limit[t]
       /\ pc[t] = "next" => left[t] <= Len(queue)

\* A thread waits in co_block only while there is nothing to dispatch, although
\* post signals only when it finds the queue empty.
NoLostWakeup ==
  \A t \in Threads : pc[t] = "waiting" => queue = << >>

\* Every event posted is taken up, also while handlers of earlier ones block.
PostedIsTaken ==
  \A n \in 1..MaxPosts : posted = n ~> posted - Len(queue) >= n
=============================================================================
