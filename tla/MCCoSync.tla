------------------------------ MODULE MCCoSync ------------------------------
(* Co_group instance: two threads that come and go, the FSM thread, one FSM. *)
EXTENDS CoSync
=============================================================================
