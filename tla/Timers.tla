------------------------------- MODULE Timers -------------------------------
(***************************************************************************)
(* What a timer dispatcher promises its clients (abstract): the callback   *)
(* of a timer is called at most once, not before the time the timer was    *)
(* last set to has passed, and not after the timer was cancelled.  Who sets *)
(* or cancels a timer names it, and touches no other.  A new timer is due  *)
(* when its duration has passed, or sooner: its time is counted from when  *)
(* the clock was last read.                                                *)
(***************************************************************************)
EXTENDS Integers, Functions

CONSTANTS
  Callers,     \* threads that call callbacks
  Durations    \* durations of new timers

VARIABLES
  now,
  posted,   \* how many timers have been posted: each is named by its number
  due,      \* the times of those that are neither called nor cancelled
  calling,  \* the threads that are in a callback
  named     \* the timer that was named in the last step, or 0

vars == <<now, posted, due, calling, named>>

Init == now = 0 /\ posted = 0 /\ due = << >> /\ calling = {} /\ named = 0

Pending == DOMAIN due

Post(duration) ==
  /\ posted' = posted + 1
  /\ DOMAIN due' = Pending \cup {posted'}
  /\ due'[posted'] \in Int /\ due'[posted'] <= now + duration
  /\ due' = [g \in Pending \cup {posted'} |-> IF g = posted' THEN due'[g] ELSE due[g]]
  /\ named' = 0
  /\ UNCHANGED <<now, calling>>

Cancel(g) ==
  /\ named' = g
  /\ due' = Restrict(due, Pending \ {g})
  /\ UNCHANGED <<now, posted, calling>>

\* delay or reset, to any time.
Set(g) ==
  /\ named' = g
  /\ DOMAIN due' = Pending
  /\ due'[g] \in Int
  /\ due' = [due EXCEPT ![g] = due'[g]]
  /\ UNCHANGED <<now, posted, calling>>

\* The callback of timer g is called.
Call(th, g) ==
  /\ th \notin calling /\ due[g] < now
  /\ due' = Restrict(due, Pending \ {g})
  /\ calling' = calling \cup {th}
  /\ named' = 0
  /\ UNCHANGED <<now, posted>>

\* A callback returns.
Return(th) ==
  /\ th \in calling
  /\ calling' = calling \ {th}
  /\ named' = 0
  /\ UNCHANGED <<now, posted, due>>

Tick ==
  /\ now' = now + 1
  /\ named' = 0
  /\ UNCHANGED <<posted, due, calling>>

\* A step that is not the clients' to see.
Internal == named' = 0 /\ UNCHANGED <<now, posted, due, calling>>

Next ==
  \/ Tick \/ Internal
  \/ \E duration \in Durations : Post(duration)
  \/ \E g \in Pending : Cancel(g) \/ Set(g)
  \/ \E th \in Callers : Return(th) \/ \E g \in Pending : Call(th, g)

Spec == Init /\ [][Next]_vars
=============================================================================
