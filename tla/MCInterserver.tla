--------------------------- MODULE MCInterserver ---------------------------
(* A small instance of Interserver for TLC.                                *)
EXTENDS Interserver

MCDpids == {1}

\* A query, and a modification that waits for errors.
Good(tp, ce, a) == [kind |-> "json", type |-> tp, dpid |-> 1, checkerror |-> ce,
                    args |-> a]
MCBodies == {Good("port_desc", FALSE, NoArgs),
             Good("flow_mod", TRUE, [command |-> Text("add")])}
=============================================================================
