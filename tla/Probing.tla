------------------------------ MODULE Probing ------------------------------
(***************************************************************************)
(* Time as the probes of an Openflow_connection see it, which is the same  *)
(* for a connection over a stream and for the wrapper of a reliable one.   *)
(***************************************************************************)
EXTENDS Integers

CONSTANT ProbeInterval    \* probe_interval, in ticks

ASSUME IntervalAssumption == ProbeInterval \in Nat \ {0}

\* What is left of n ticks after one.
Less(n) == IF n = 0 THEN 0 ELSE n - 1
=============================================================================
