----------------------------- MODULE MCCoRwlock -----------------------------
(* Small instances of CoRwlock for TLC.                                    *)
EXTENDS CoRwlock
=============================================================================
