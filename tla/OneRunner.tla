----------------------------- MODULE OneRunner -----------------------------
(***************************************************************************)
(* What a cooperative group promises its threads (abstract): as long as it *)
(* has members exactly one of them runs, and only that one can hand the    *)
(* group on, by letting another member run or by leaving.                  *)
(***************************************************************************)
EXTENDS FiniteSets

CONSTANT Threads

VARIABLES members, running

vars == <<members, running>>

Init == members = {} /\ running = {}

\* A thread comes in; it runs at once if it is alone.
Join(t) ==
  /\ t \notin members
  /\ members' = members \cup {t}
  /\ running' = IF members = {} THEN {t} ELSE running

\* The running thread lets a member run.
HandOn ==
  /\ running # {}
  /\ \E t \in members : running' = {t}
  /\ UNCHANGED members

\* The running thread goes, and another runs if there is one.
Leave(t) ==
  /\ running = {t}
  /\ members' = members \ {t}
  /\ \/ members' = {} /\ running' = {}
     \/ \E u \in members' : running' = {u}

Next == HandOn \/ \E t \in Threads : Join(t) \/ Leave(t)

Spec == Init /\ [][Next]_vars
=============================================================================
