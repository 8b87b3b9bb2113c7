------------------------ MODULE MCReliableConnection ------------------------
(* A limit that is no power of two, and probes that fit between attempts.  *)
EXTENDS ReliableConnection
=============================================================================
