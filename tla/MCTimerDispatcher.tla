------------------------- MODULE MCTimerDispatcher -------------------------
(* Timer_dispatcher instance. *)
EXTENDS TimerDispatcher
=============================================================================
