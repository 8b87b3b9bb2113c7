-------------------------- MODULE MCEventDispatcher --------------------------
(* A behaviour is either that of the dispatcher's posts and polls, or that of *)
(* the threads of a cooperative group on a reader-writer lock.                *)
EXTENDS EventDispatcher, CoRwlock

VARIABLE part

MCInit == Init /\ InitLock /\ part \in {"dispatcher", "lock"}

MCNext ==
  \/ part = "dispatcher" /\ Next /\ UNCHANGED <<part, lockVars>>
  \/ part = "lock" /\ NextLock /\ UNCHANGED <<part, vars>>

\* (Neither part has a fair action before its first step.)
MCSpec == MCInit /\ [][MCNext]_<<part, vars, lockVars>> /\ Fairness /\ FairLock
=============================================================================
