--------------------------- MODULE MCConnections ---------------------------
(* Small instances of Connections for TLC.                                 *)
EXTENDS Connections

MCDpids == {1, 2}
=============================================================================
