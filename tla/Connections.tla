----------------------------- MODULE Connections -----------------------------
(***************************************************************************)
(* NOX's switch connections: the handshake state machine each new          *)
(* connection starts with, the Conn object an accepted one becomes, and    *)
(* connection_map, which holds one Conn per dpid.                          *)
(*                                                                         *)
(* Handshakes, polls and closes run in NOX's main cooperative group, so    *)
(* each stretch between two points where a thread may yield is one action. *)
(* A poll yields when the handlers it dispatches a message to do: it is    *)
(* two actions.                                                            *)
(***************************************************************************)
EXTENDS Integers, Sequences, FiniteSets

CONSTANTS
  Conns,      \* the connections made, each used once
  Dpids,      \* datapath ids the switches report (a switch may also report 0)
  None,       \* no connection
  MaxPolls    \* bound: threads polling the same connection at once

ASSUME ConnsAssumption == None \notin Conns /\ IsFiniteSet(Conns)
ASSUME DpidsAssumption == Dpids \subseteq Nat \ {0}
ASSUME PollsAssumption == MaxPolls \in Nat \ {0}

VARIABLES
  phase,       \* of each connection's objects
  state,       \* Handshake_fsm::state
  wake,        \* what the handshake's FSM waits for
  expired,     \* now > Handshake_fsm::timeout
  approved,    \* Handshake_fsm::switch_approved
  dpid,        \* the dpid in the features reply, or oconn's datapath id
  polls,       \* Conn::poll_cnt
  connection_map,
  events,      \* posted join and leave events
  switch_authenticator  \* whether a Switch_Auth is registered

handshake == <<state, wake, expired, approved>>
connVars  == <<phase, dpid, polls, connection_map, events, switch_authenticator>>
vars == <<connVars, handshake>>

Phases == {"none", "handshake", "failed", "open", "closing", "deleted"}
States == {"SEND_FEATURES_REQ", "SEND_CONFIG", "RECV_FEATURES_REPLY",
           "CHECK_SWITCH_AUTH", "REGISTER_SWITCH"}

Join(d)  == [kind |-> "join", dpid |-> d]
Leave(d) == [kind |-> "leave", dpid |-> d]

-----------------------------------------------------------------------------
(* Handshake_fsm                                                           *)

\* do_connect or connect: a connection exists and its handshake starts.
StartHandshake(c) ==
  /\ phase[c] = "none"
  /\ phase' = [phase EXCEPT ![c] = "handshake"]
  /\ UNCHANGED <<dpid, polls, connection_map, events, switch_authenticator,
                 handshake>>

\* What run finds when the FSM is scheduled before the deadline, in state s.
Runs(c, s) ==
  /\ phase[c] = "handshake" /\ wake[c] = "ready"
  /\ ~expired[c] /\ state[c] = s

\* do_exit of a handshake that did not lead to a Conn.
Fails(c) ==
  /\ phase' = [phase EXCEPT ![c] = "failed"]
  /\ UNCHANGED <<dpid, polls, connection_map, events, switch_authenticator>>

GiveUp(c) ==
  /\ phase[c] = "handshake" /\ wake[c] = "ready" /\ expired[c]
  /\ Fails(c)
  /\ UNCHANGED handshake

\* EAGAIN: the FSM blocks until the connection is ready or the time is up.
BlockOnIO(c) ==
  /\ \E s \in {"SEND_FEATURES_REQ", "SEND_CONFIG", "RECV_FEATURES_REPLY"} : Runs(c, s)
  /\ wake' = [wake EXCEPT ![c] = "io"]
  /\ UNCHANGED <<connVars, state, expired, approved>>

\* The send or receive fails, or the switch reports an error.
IOFails(c) ==
  /\ \E s \in {"SEND_FEATURES_REQ", "SEND_CONFIG", "RECV_FEATURES_REPLY"} : Runs(c, s)
  /\ Fails(c)
  /\ UNCHANGED handshake

SendFeaturesRequest(c) ==
  /\ Runs(c, "SEND_FEATURES_REQ")
  /\ state' = [state EXCEPT ![c] = "SEND_CONFIG"]
  /\ UNCHANGED <<connVars, wake, expired, approved>>

SendConfig(c) ==
  /\ Runs(c, "SEND_CONFIG")
  /\ state' = [state EXCEPT ![c] = "RECV_FEATURES_REPLY"]
  /\ UNCHANGED <<connVars, wake, expired, approved>>

\* recv_message gets the features reply.  Any other message leaves the state
\* as it is, and the FSM yields.
RecvFeaturesReply(c, d) ==
  /\ Runs(c, "RECV_FEATURES_REPLY")
  /\ dpid' = [dpid EXCEPT ![c] = d]
  /\ state' = [state EXCEPT ![c] = "CHECK_SWITCH_AUTH"]
  /\ UNCHANGED <<phase, polls, connection_map, events, switch_authenticator,
                 wake, expired, approved>>

\* A component registers an authenticator; a second one is ignored.
register_switch_auth ==
  /\ ~switch_authenticator
  /\ switch_authenticator' = TRUE
  /\ UNCHANGED <<phase, dpid, polls, connection_map, events, handshake>>

\* check_switch_auth with an authenticator: from here the FSM waits for
\* completion alone, and for no time.
AskAuth(c) ==
  /\ switch_authenticator /\ Runs(c, "CHECK_SWITCH_AUTH")
  /\ wake' = [wake EXCEPT ![c] = "auth"]
  /\ UNCHANGED <<connVars, state, expired, approved>>

\* switch_auth_cb, called by the authenticator.
switch_auth_cb(c, ok) ==
  /\ phase[c] = "handshake" /\ wake[c] = "auth"
  /\ approved' = [approved EXCEPT ![c] = ok]
  /\ state' = [state EXCEPT ![c] = "REGISTER_SWITCH"]
  /\ wake' = [wake EXCEPT ![c] = "ready"]
  /\ UNCHANGED <<connVars, expired>>

\* Faulty recv_message and send_message: no timer is set with the wait.
WakeUp_NoTimer(c) ==
  /\ phase[c] = "handshake" /\ wake[c] = "io" /\ ~expired[c]
  /\ wake' = [wake EXCEPT ![c] = "ready"]
  /\ UNCHANGED <<connVars, state, expired, approved>>

\* The FSM wakes because its descriptor is ready or its timer has gone off.
WakeUp(c) ==
  /\ phase[c] = "handshake" /\ wake[c] = "io"
  /\ wake' = [wake EXCEPT ![c] = "ready"]
  /\ UNCHANGED <<connVars, state, expired, approved>>

\* The deadline passes.
Expire(c) ==
  /\ phase[c] = "handshake" /\ ~expired[c]
  /\ expired' = [expired EXCEPT ![c] = TRUE]
  /\ UNCHANGED <<connVars, state, wake, approved>>

-----------------------------------------------------------------------------
(* Conn and connection_map                                                 *)

\* Faulty close: poll_cnt is not looked at.
Closed_AtOnce(n) == "deleted"

\* What close leaves of a connection that is polled n times.
Closed(n) == IF n = 0 THEN "deleted" ELSE "closing"

\* Faulty register_conn: the new Conn is not inserted again after the close.
Registered_NoReinsert(c) == LET d   == dpid[c]
                                old == connection_map[d] IN
  /\ IF old = None
     THEN /\ phase' = [phase EXCEPT ![c] = "open"]
          /\ events' = Append(events, Join(d))
          /\ connection_map' = [connection_map EXCEPT ![d] = c]
     ELSE /\ phase' = [phase EXCEPT ![c] = "open", ![old] = Closed(polls[old])]
          /\ events' = events \o <<Leave(d), Join(d)>>
          /\ connection_map' = [connection_map EXCEPT ![d] = None]
  /\ UNCHANGED <<dpid, polls, switch_authenticator>>

\* register_conn and the join event: the connection becomes a Conn.  A Conn
\* already mapped to the dpid is closed first, with all that close does, and
\* the new one inserted after that.
Registered(c) == LET d   == dpid[c]
                     old == connection_map[d] IN
  /\ IF old = None
     THEN /\ phase' = [phase EXCEPT ![c] = "open"]
          /\ events' = Append(events, Join(d))
     ELSE /\ phase' = [phase EXCEPT ![c] = "open", ![old] = Closed(polls[old])]
          /\ events' = events \o <<Leave(d), Join(d)>>
  /\ connection_map' = [connection_map EXCEPT ![d] = c]
  /\ UNCHANGED <<dpid, polls, switch_authenticator>>

RegisterSwitch(c) ==
  /\ Runs(c, "REGISTER_SWITCH")
  /\ IF approved[c] /\ dpid[c] # 0 THEN Registered(c) ELSE Fails(c)
  /\ UNCHANGED handshake

\* check_switch_auth without an authenticator: the switch is approved and run
\* called again in the same step, which may find that the time is up by now.
AutoApprove(c) ==
  /\ ~switch_authenticator /\ Runs(c, "CHECK_SWITCH_AUTH")
  /\ approved' = [approved EXCEPT ![c] = TRUE]
  /\ state' = [state EXCEPT ![c] = "REGISTER_SWITCH"]
  /\ \/ /\ IF dpid[c] # 0 THEN Registered(c) ELSE Fails(c)
        /\ UNCHANGED expired
     \/ /\ Fails(c)
        /\ expired' = [expired EXCEPT ![c] = TRUE]
  /\ UNCHANGED wake

\* Faulty close: not guarded by closing.
Close_Again(c, n) ==
  /\ phase[c] \in {"open", "closing"}
  /\ phase' = [phase EXCEPT ![c] = Closed(n)]
  /\ connection_map' = [connection_map EXCEPT ![dpid[c]] = None]
  /\ events' = Append(events, Leave(dpid[c]))

\* Conn::close on a connection that is polled n times once the caller is done.
Close(c, n) ==
  /\ phase[c] = "open"
  /\ phase' = [phase EXCEPT ![c] = Closed(n)]
  /\ connection_map' = [connection_map EXCEPT ![dpid[c]] = None]
  /\ events' = Append(events, Leave(dpid[c]))

\* The poll loop polls a connection: a message arrives, and its dispatch to
\* the handlers begins.  Only open connections are in the loop.
PollBegins(c) ==
  /\ phase[c] = "open" /\ polls[c] < MaxPolls
  /\ polls' = [polls EXCEPT ![c] = @ + 1]
  /\ UNCHANGED <<phase, dpid, connection_map, events, switch_authenticator,
                 handshake>>

\* Faulty poll: a Conn closed by its handlers is not deleted.
PollEnds_Kept(c) ==
  /\ polls[c] > 0
  /\ polls' = [polls EXCEPT ![c] = @ - 1]
  /\ UNCHANGED <<phase, dpid, connection_map, events, switch_authenticator,
                 handshake>>

\* The handlers are done; the last poll of a closed Conn deletes it.
PollEnds(c) ==
  /\ polls[c] > 0
  /\ polls' = [polls EXCEPT ![c] = @ - 1]
  /\ phase' = [phase EXCEPT ![c] =
                 IF @ = "closing" /\ polls[c] = 1 THEN "deleted" ELSE @]
  /\ UNCHANGED <<dpid, connection_map, events, switch_authenticator, handshake>>

\* A poll finds the connection closed or broken.
PollFails(c) ==
  /\ Close(c, polls[c])
  /\ UNCHANGED <<dpid, polls, switch_authenticator, handshake>>

\* A component calls close_openflow_connection, a handler of a message of this
\* very connection included.
close_openflow_connection(d) ==
  /\ connection_map[d] # None
  /\ Close(connection_map[d], polls[connection_map[d]])
  /\ UNCHANGED <<dpid, polls, switch_authenticator, handshake>>

DispatchEvent ==
  /\ events # << >>
  /\ events' = Tail(events)
  /\ UNCHANGED <<phase, dpid, polls, connection_map, switch_authenticator,
                 handshake>>

-----------------------------------------------------------------------------
Init ==
  /\ phase = [c \in Conns |-> "none"]
  /\ state = [c \in Conns |-> "SEND_FEATURES_REQ"]
  /\ wake = [c \in Conns |-> "ready"]
  /\ expired = [c \in Conns |-> FALSE]
  /\ approved = [c \in Conns |-> FALSE]
  /\ dpid = [c \in Conns |-> 0]
  /\ polls = [c \in Conns |-> 0]
  /\ connection_map = [d \in Dpids |-> None]
  /\ events = << >> /\ switch_authenticator = FALSE

\* One run of the handshake's FSM.
FsmRun(c) ==
  \/ GiveUp(c) \/ BlockOnIO(c) \/ IOFails(c)
  \/ SendFeaturesRequest(c) \/ SendConfig(c)
  \/ \E d \in Dpids \cup {0} : RecvFeaturesReply(c, d)
  \/ AskAuth(c) \/ AutoApprove(c) \/ RegisterSwitch(c)

ConnStep(c) == PollBegins(c) \/ PollEnds(c) \/ PollFails(c)

Next ==
  \/ \E c \in Conns : StartHandshake(c) \/ FsmRun(c) \/ WakeUp(c) \/ Expire(c)
                      \/ ConnStep(c)
  \/ \E c \in Conns, ok \in BOOLEAN : switch_auth_cb(c, ok)
  \/ \E d \in Dpids : close_openflow_connection(d)
  \/ DispatchEvent \/ register_switch_auth

\* A ready FSM is run, time passes and timers go off, and the event dispatcher
\* and the handlers of a poll do not stop.  Switches and the authenticator owe
\* nothing.
Fairness ==
  /\ \A c \in Conns : /\ WF_vars(FsmRun(c))
                      /\ WF_vars(Expire(c))
                      /\ WF_vars(expired[c] /\ WakeUp(c))
                      /\ WF_vars(PollEnds(c))
  /\ WF_vars(DispatchEvent)

Spec == Init /\ [][Next]_vars /\ Fairness

-----------------------------------------------------------------------------
(* Properties                                                              *)

\* The type of every variable.
TypeOK ==
  /\ phase \in [Conns -> Phases]
  /\ state \in [Conns -> States]
  /\ wake \in [Conns -> {"ready", "io", "auth"}]
  /\ expired \in [Conns -> BOOLEAN] /\ approved \in [Conns -> BOOLEAN]
  /\ dpid \in [Conns -> Dpids \cup {0}]
  /\ polls \in [Conns -> 0..MaxPolls]
  /\ connection_map \in [Dpids -> Conns \cup {None}]
  /\ events \in Seq([kind: {"join", "leave"}, dpid: Dpids])
  /\ switch_authenticator \in BOOLEAN

\* connection_map and the live Conn objects agree: an entry is an open Conn of
\* that dpid, and every open Conn has its entry.  Closing one connection never
\* unmaps the one that has replaced it.  What is mapped was approved: the
\* approval comes by callback, in another state than it is looked at, and an
\* authenticator may be registered while handshakes are under way.
MapIsOpenConns ==
  /\ TypeOK
  /\ \A d \in Dpids : connection_map[d] # None =>
       phase[connection_map[d]] = "open" /\ dpid[connection_map[d]] = d
  /\ \A c \in Conns : phase[c] = "open" =>
       /\ dpid[c] \in Dpids /\ connection_map[dpid[c]] = c
       /\ approved[c] /\ state[c] = "REGISTER_SWITCH"

\* A Conn is deleted only when it is closed and no thread is inside its poll,
\* and it is not kept once that is so.
DeletedWhenUnused ==
  \A c \in Conns :
    /\ phase[c] = "deleted" => polls[c] = 0
    /\ phase[c] = "closing" => polls[c] > 0
    /\ polls[c] > 0 => phase[c] \in {"open", "closing"}

\* The events and the map do what SwitchPresence promises.
Presence == INSTANCE SwitchPresence WITH
  connected <- {d \in Dpids : connection_map[d] # None}
ImplementsPresence == Presence!Spec

\* A handshake ends, by success, failure or its deadline, unless it is the
\* authenticator that is being waited for.
HandshakeEnds ==
  \A c \in Conns :
    phase[c] = "handshake" ~> phase[c] # "handshake" \/ wake[c] = "auth"

\* A closed connection is deleted in the end.
ClosedIsDeleted ==
  \A c \in Conns : phase[c] = "closing" ~> phase[c] = "deleted"
=============================================================================
