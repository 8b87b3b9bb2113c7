--------------------------- MODULE SwitchPresence ---------------------------
(***************************************************************************)
(* What NOX promises its components about switches: the join and leave     *)
(* events of a dpid alternate, starting with a join, whatever connections  *)
(* come, go and replace one another.                                       *)
(***************************************************************************)
EXTENDS Sequences

CONSTANTS Dpids

VARIABLES
  connected,   \* the dpids that have a connection
  events       \* join and leave events not yet dispatched, oldest first

Joined(d) == [kind |-> "join", dpid |-> d]
Left(d)   == [kind |-> "leave", dpid |-> d]

Init == connected = {} /\ events = << >>

Connect(d) ==
  /\ d \notin connected
  /\ connected' = connected \cup {d}
  /\ events' = Append(events, Joined(d))

\* A new connection takes the place of one of the same dpid.
Replace(d) ==
  /\ d \in connected
  /\ events' = events \o <<Left(d), Joined(d)>>
  /\ UNCHANGED connected

Disconnect(d) ==
  /\ d \in connected
  /\ connected' = connected \ {d}
  /\ events' = Append(events, Left(d))

Take ==
  /\ events # << >>
  /\ events' = Tail(events)
  /\ UNCHANGED connected

Next == Take \/ \E d \in Dpids : Connect(d) \/ Replace(d) \/ Disconnect(d)

Spec == Init /\ [][Next]_<<connected, events>>
=============================================================================
