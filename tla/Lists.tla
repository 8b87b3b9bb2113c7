------------------------------- MODULE Lists -------------------------------
(***************************************************************************)
(* Taking elements out of a list: the lists of the scheduler and the wait  *)
(* queues, as they are when threads are woken or stop waiting.             *)
(***************************************************************************)
EXTENDS Integers, Sequences, FiniteSets, SequencesExt

\* What is left of a list without the elements of a set, in the same order.
Without(list, set) ==
  LET kept == {i \in DOMAIN list : list[i] \notin set}
      Nth(n) == CHOOSE i \in kept : Cardinality({j \in kept : j <= i}) = n
  IN  [n \in 1..Cardinality(kept) |-> list[Nth(n)]]
=============================================================================
