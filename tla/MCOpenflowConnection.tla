------------------------ MODULE MCOpenflowConnection ------------------------
(* A behaviour is either that of a connection whose socket takes less than two *)
(* messages, or that of a reliable connection, with a limit that is no power   *)
(* of two.                                                                     *)
EXTENDS OpenflowConnection, ReliableConnection

VARIABLE part

MCInit ==
  /\ Init /\ InitReliable
  /\ \/ part = "reliable"
     \/ part = "stream" /\ failures = 0

MCNext ==
  \/ part = "stream" /\ Next /\ UNCHANGED <<part, reliableVars>>
  \/ part = "reliable" /\ NextReliable /\ UNCHANGED <<part, vars>>

\* FairReliable, in a behaviour of the reliable connection.  (The other has no
\* fair action before its first step.)
Reliable == part = "reliable"
MCFairReliable ==
  /\ WF_reliableVars(Reliable /\ reconnect_run) /\ WF_reliableVars(Reliable /\ ReliableTick)
  /\ SF_reliableVars(Reliable /\ reconnect_run /\ Attempt)
  /\ SF_reliableVars(Reliable /\ Accepted)
  /\ SF_reliableVars(Reliable /\ reconnect_run /\ Connected)

MCSpec ==
  MCInit /\ [][MCNext]_<<part, vars, reliableVars>> /\ FairStream /\ MCFairReliable
=============================================================================
