------------------------- MODULE ConnectionsProofs -------------------------
(***************************************************************************)
(* Proofs about Connections, for any connections, any dpids and any number *)
(* of polls: connection_map holds exactly the open Conns, a Conn is deleted*)
(* exactly when it is closed and nobody is inside its poll, and together   *)
(* the map and the events implement SwitchPresence.                        *)
(*                                                                         *)
(* The argument: a mapped Conn is open and of the dpid it is mapped to, so *)
(* a Conn is mapped once and what close erases is its own entry; the       *)
(* Conn that register_conn closes is another than the one it inserts.      *)
(***************************************************************************)
EXTENDS Connections, TLAPS

IInv == MapIsOpenConns /\ DeletedWhenUnused

Event == [kind: {"join", "leave"}, dpid: Dpids]

\* The type invariant, with the events under a name.
Types ==
  /\ phase \in [Conns -> Phases] /\ state \in [Conns -> States]
  /\ wake \in [Conns -> {"ready", "io", "auth"}]
  /\ expired \in [Conns -> BOOLEAN] /\ approved \in [Conns -> BOOLEAN]
  /\ dpid \in [Conns -> Dpids \cup {0}] /\ polls \in [Conns -> 0..MaxPolls]
  /\ connection_map \in [Dpids -> Conns \cup {None}]
  /\ events \in Seq(Event) /\ switch_authenticator \in BOOLEAN

\* The dpids that have a connection, as SwitchPresence is told.
Mapped == {d \in Dpids : connection_map[d] # None}

-----------------------------------------------------------------------------
\* No dpid is zero, and None is no connection.
LEMMA Constants ==
  None \notin Conns /\ 0 \notin Dpids /\ Dpids \subseteq Nat /\ MaxPolls \in Nat \ {0}
  BY ConnsAssumption, DpidsAssumption, PollsAssumption

\* Types says what TypeOK says, now and after a step.
LEMMA TypesAreTypeOK == (TypeOK <=> Types) /\ (TypeOK' <=> Types')
  BY Zenon DEF TypeOK, Types, Event

\* The events of joins and leaves are events.
LEMMA EventTypes == \A d \in Dpids : Join(d) \in Event /\ Leave(d) \in Event
  BY DEF Join, Leave, Event

\* Adding a leave and a join keeps the queue a queue of events.
LEMMA Posting ==
  ASSUME events \in Seq(Event), NEW d \in Dpids
  PROVE  /\ Append(events, Join(d)) \in Seq(Event)
         /\ Append(events, Leave(d)) \in Seq(Event)
         /\ events \o <<Leave(d), Join(d)>> \in Seq(Event)
<1>1. Join(d) \in Event /\ Leave(d) \in Event
  BY EventTypes
<1>2. <<Leave(d), Join(d)>> \in Seq(Event)
  BY <1>1
<1> HIDE DEF Event
<1> QED BY <1>1, <1>2

\* What closing a Conn polled n times leaves of it.
LEMMA ClosedPhase ==
  \A n \in Nat : /\ Closed(n) \in {"closing", "deleted"}
                 /\ Closed(n) = "deleted" <=> n = 0
  BY DEF Closed

-----------------------------------------------------------------------------
\* NOX starts without connections.
LEMMA InitHolds == Init => IInv
<1> SUFFICES ASSUME Init PROVE IInv
  OBVIOUS
<1>1. TypeOK
  <2>1. /\ phase \in [Conns -> Phases] /\ state \in [Conns -> States]
        /\ wake \in [Conns -> {"ready", "io", "auth"}]
    BY DEF Init, Phases, States
  <2>2. expired \in [Conns -> BOOLEAN] /\ approved \in [Conns -> BOOLEAN]
    BY DEF Init
  <2>3. /\ dpid \in [Conns -> Dpids \cup {0}] /\ polls \in [Conns -> 0..MaxPolls]
        /\ connection_map \in [Dpids -> Conns \cup {None}]
    BY Constants DEF Init
  <2>4. events \in Seq(Event)
    BY DEF Init
  <2>5. switch_authenticator \in BOOLEAN
    BY DEF Init
  <2> QED BY <2>1, <2>2, <2>3, <2>4, <2>5, TypesAreTypeOK DEF Types
<1>2. MapIsOpenConns
  BY <1>1 DEF Init, MapIsOpenConns
<1>3. DeletedWhenUnused
  BY DEF Init, DeletedWhenUnused
<1> QED BY <1>2, <1>3 DEF IInv

\* A step of handshakes alone: no Conn comes, goes or changes.
LEMMA HandshakeKeeps ==
  ASSUME IInv, TypeOK',
         UNCHANGED <<polls, connection_map>>,
         \A c \in Conns :
           \/ /\ phase'[c] = phase[c] /\ dpid'[c] = dpid[c]
              /\ approved'[c] = approved[c] /\ state'[c] = state[c]
           \/ /\ phase[c] \in {"none", "handshake"}
              /\ phase'[c] \in {"handshake", "failed"}
  PROVE  IInv'
<1>1. TypeOK /\ MapIsOpenConns /\ DeletedWhenUnused
  BY DEF IInv, MapIsOpenConns
<1>2. MapIsOpenConns'
  <2>1. ASSUME NEW d \in Dpids, connection_map'[d] # None
        PROVE  phase'[connection_map'[d]] = "open" /\ dpid'[connection_map'[d]] = d
    <3>1. connection_map'[d] \in Conns /\ phase[connection_map[d]] = "open"
          /\ dpid[connection_map[d]] = d
      BY <1>1, <2>1 DEF MapIsOpenConns, TypeOK
    <3> QED BY <3>1 DEF MapIsOpenConns, TypeOK
  <2>2. ASSUME NEW c \in Conns, phase'[c] = "open"
        PROVE  /\ dpid'[c] \in Dpids /\ connection_map'[dpid'[c]] = c
               /\ approved'[c] /\ state'[c] = "REGISTER_SWITCH"
    <3>1. /\ phase[c] = "open" /\ dpid'[c] = dpid[c]
          /\ approved'[c] = approved[c] /\ state'[c] = state[c]
      BY <2>2
    <3>2. /\ dpid[c] \in Dpids /\ connection_map[dpid[c]] = c
          /\ approved[c] /\ state[c] = "REGISTER_SWITCH"
      BY <1>1, <3>1 DEF MapIsOpenConns
    <3>3. approved'[c]
      BY <3>1, <3>2, Zenon
    <3> QED BY <3>1, <3>2, <3>3
  <2> QED BY <2>1, <2>2, <1>1 DEF MapIsOpenConns
<1>3. DeletedWhenUnused'
  BY <1>1 DEF DeletedWhenUnused, TypeOK
<1> QED BY <1>2, <1>3 DEF IInv

\* register_conn: the new Conn takes the entry of its dpid, and the Conn that
\* had it is closed.
LEMMA RegisterKeeps ==
  ASSUME IInv, NEW c \in Conns, phase[c] = "handshake", dpid[c] # 0,
         approved'[c], state'[c] = "REGISTER_SWITCH",
         approved' \in [Conns -> BOOLEAN], state' \in [Conns -> States],
         \A b \in Conns \ {c} : approved'[b] = approved[b] /\ state'[b] = state[b],
         wake' \in [Conns -> {"ready", "io", "auth"}], expired' \in [Conns -> BOOLEAN],
         Registered(c)
  PROVE  IInv'
<1> DEFINE d == dpid[c]
           old == connection_map[d]
<1>1. TypeOK /\ MapIsOpenConns /\ DeletedWhenUnused
  BY DEF IInv, MapIsOpenConns
<1>2. d \in Dpids /\ old \in Conns \cup {None}
  BY <1>1 DEF TypeOK
<1>3. old # None => old \in Conns /\ old # c /\ phase[old] = "open" /\ dpid[old] = d
  BY <1>1, <1>2 DEF MapIsOpenConns
<1>4. /\ connection_map' = [connection_map EXCEPT ![d] = c]
      /\ UNCHANGED <<dpid, polls, switch_authenticator>>
      /\ phase' = IF old = None THEN [phase EXCEPT ![c] = "open"]
                  ELSE [phase EXCEPT ![c] = "open", ![old] = Closed(polls[old])]
      /\ events' = IF old = None THEN Append(events, Join(d))
                   ELSE events \o <<Leave(d), Join(d)>>
  BY DEF Registered
<1> HIDE DEF old, d
<1>5. \A n \in Conns : polls[n] \in Nat
  BY <1>1, Constants DEF TypeOK
<1>6. events' \in Seq(Event)
  BY <1>1, <1>2, <1>4, Posting, TypesAreTypeOK DEF Types
<1>7. /\ phase' \in [Conns -> Phases] /\ phase'[c] = "open"
      /\ \A b \in Conns \ {c} : b # old => phase'[b] = phase[b]
      /\ old # None => phase'[old] = Closed(polls[old])
  <2>1. old # None => Closed(polls[old]) \in Phases
    BY <1>3, <1>5, ClosedPhase DEF Phases
  <2>2. "open" \in Phases
    BY DEF Phases
  <2> QED BY <1>1, <1>3, <1>4, <2>1, <2>2 DEF TypeOK
<1>8. connection_map' \in [Dpids -> Conns \cup {None}]
  BY <1>1, <1>2, <1>4 DEF TypeOK
<1>9. TypeOK'
  BY <1>1, <1>4, <1>6, <1>7, <1>8, TypesAreTypeOK DEF Types
<1>10. \A b \in Conns : phase'[b] = "open" => b = c \/ (b # old /\ phase[b] = "open")
  BY <1>3, <1>5, <1>7, ClosedPhase, Constants
<1>11. ASSUME NEW e \in Dpids, connection_map'[e] # None
       PROVE  phase'[connection_map'[e]] = "open" /\ dpid'[connection_map'[e]] = e
  <2>1. CASE e = d
    BY <1>1, <1>2, <1>4, <1>7, <2>1 DEF TypeOK, d
  <2>2. CASE e # d
    <3> DEFINE b == connection_map[e]
    <3>1. connection_map'[e] = b /\ b \in Conns
      BY <1>1, <1>4, <1>11, <2>2 DEF TypeOK
    <3>2. phase[b] = "open" /\ dpid[b] = e
      BY <1>1, <1>11, <3>1, Constants DEF MapIsOpenConns
    <3>3. b # c /\ b # old
      BY <1>2, <1>3, <2>2, <3>1, <3>2, Constants
    <3> QED BY <1>4, <1>7, <3>1, <3>2, <3>3
  <2> QED BY <2>1, <2>2
<1>12. ASSUME NEW b \in Conns, phase'[b] = "open"
       PROVE  /\ dpid'[b] \in Dpids /\ connection_map'[dpid'[b]] = b
              /\ approved'[b] /\ state'[b] = "REGISTER_SWITCH"
  <2>1. CASE b = c
    BY <1>1, <1>2, <1>4, <2>1 DEF TypeOK, d
  <2>2. CASE b # c
    <3>1. b # old /\ phase[b] = "open"
      BY <1>10, <1>12, <2>2
    <3>2. dpid[b] \in Dpids /\ connection_map[dpid[b]] = b
      BY <1>1, <3>1 DEF MapIsOpenConns
    <3>3. dpid[b] # d
      BY <3>1, <3>2 DEF old
    <3> QED BY <1>1, <1>4, <2>2, <3>1, <3>2, <3>3 DEF MapIsOpenConns, TypeOK
  <2> QED BY <2>1, <2>2
<1>13. MapIsOpenConns'
  BY <1>9, <1>11, <1>12 DEF MapIsOpenConns
<1>14. DeletedWhenUnused'
  <2> SUFFICES ASSUME NEW b \in Conns
               PROVE  /\ phase'[b] = "deleted" => polls'[b] = 0
                      /\ phase'[b] = "closing" => polls'[b] > 0
                      /\ polls'[b] > 0 => phase'[b] \in {"open", "closing"}
    BY DEF DeletedWhenUnused
  <2>1. CASE b = c \/ b # old
    BY <1>1, <1>4, <1>7, <2>1 DEF DeletedWhenUnused
  <2>2. CASE b = old
    BY <1>3, <1>4, <1>5, <1>7, <2>2, ClosedPhase, Constants
  <2> QED BY <2>1, <2>2
<1> QED BY <1>13, <1>14 DEF IInv

\* close, of an open Conn.
LEMMA CloseKeeps ==
  ASSUME IInv, NEW c \in Conns, Close(c, polls[c]),
         UNCHANGED <<dpid, polls, switch_authenticator, handshake>>
  PROVE  IInv'
<1>1. TypeOK /\ MapIsOpenConns /\ DeletedWhenUnused
  BY DEF IInv, MapIsOpenConns
<1>2. phase[c] = "open" /\ dpid[c] \in Dpids /\ connection_map[dpid[c]] = c
  BY <1>1 DEF Close, MapIsOpenConns
<1>3. /\ phase' = [phase EXCEPT ![c] = Closed(polls[c])]
      /\ connection_map' = [connection_map EXCEPT ![dpid[c]] = None]
      /\ events' = Append(events, Leave(dpid[c]))
      /\ UNCHANGED <<state, wake, expired, approved>>
  BY DEF Close, handshake
<1>4. polls[c] \in Nat
  BY <1>1, Constants DEF TypeOK
<1>5. Closed(polls[c]) \in Phases /\ Closed(polls[c]) # "open"
  BY <1>4, ClosedPhase DEF Phases
<1>6. TypeOK'
  <2>1. events' \in Seq(Event)
    BY <1>1, <1>2, <1>3, Posting, TypesAreTypeOK DEF Types
  <2> QED BY <1>1, <1>3, <1>5, <2>1, TypesAreTypeOK DEF Types
<1>7. ASSUME NEW e \in Dpids, connection_map'[e] # None
      PROVE  phase'[connection_map'[e]] = "open" /\ dpid'[connection_map'[e]] = e
  <2>1. e # dpid[c] /\ connection_map'[e] = connection_map[e]
    BY <1>1, <1>3, <1>7 DEF TypeOK
  <2>2. connection_map[e] \in Conns /\ connection_map[e] # c
    BY <1>1, <1>7, <2>1 DEF TypeOK, MapIsOpenConns
  <2> QED BY <1>1, <1>3, <1>7, <2>1, <2>2 DEF TypeOK, MapIsOpenConns
<1>8. ASSUME NEW b \in Conns, phase'[b] = "open"
      PROVE  /\ dpid'[b] \in Dpids /\ connection_map'[dpid'[b]] = b
             /\ approved'[b] /\ state'[b] = "REGISTER_SWITCH"
  <2>1. b # c /\ phase[b] = "open"
    BY <1>1, <1>3, <1>5, <1>8 DEF TypeOK
  <2>2. dpid[b] # dpid[c]
    BY <1>1, <1>2, <2>1 DEF MapIsOpenConns
  <2> QED BY <1>1, <1>3, <2>1, <2>2 DEF MapIsOpenConns, TypeOK
<1>9. MapIsOpenConns'
  BY <1>6, <1>7, <1>8 DEF MapIsOpenConns
<1>10. DeletedWhenUnused'
  BY <1>1, <1>3, <1>4, ClosedPhase DEF DeletedWhenUnused, TypeOK
<1> QED BY <1>9, <1>10 DEF IInv

\* A poll begins or ends.
LEMMA PollKeeps ==
  ASSUME IInv, NEW c \in Conns, PollBegins(c) \/ PollEnds(c)
  PROVE  IInv'
<1>1. TypeOK /\ MapIsOpenConns /\ DeletedWhenUnused
  BY DEF IInv, MapIsOpenConns
<1>2. /\ UNCHANGED <<dpid, connection_map, events, switch_authenticator,
                     state, wake, expired, approved>>
      /\ \/ /\ phase[c] = "open" /\ polls[c] < MaxPolls /\ phase' = phase
            /\ polls' = [polls EXCEPT ![c] = polls[c] + 1]
         \/ /\ polls[c] > 0
            /\ polls' = [polls EXCEPT ![c] = polls[c] - 1]
            /\ phase' = [phase EXCEPT ![c] =
                 IF phase[c] = "closing" /\ polls[c] = 1 THEN "deleted" ELSE phase[c]]
  BY DEF PollBegins, PollEnds, handshake
<1>3. polls[c] \in 0..MaxPolls /\ phase[c] \in Phases
  BY <1>1 DEF TypeOK
<1>4. polls' \in [Conns -> 0..MaxPolls] /\ phase' \in [Conns -> Phases]
  <2>1. polls[c] < MaxPolls => polls[c] + 1 \in 0..MaxPolls
    BY <1>3, Constants
  <2>2. polls[c] > 0 => polls[c] - 1 \in 0..MaxPolls
    BY <1>3, Constants
  <2>3. polls' \in [Conns -> 0..MaxPolls]
    BY <1>1, <1>2, <2>1, <2>2 DEF TypeOK
  <2>4. phase' \in [Conns -> Phases]
    BY <1>1, <1>2 DEF TypeOK, Phases
  <2> QED BY <2>3, <2>4
<1>5. TypeOK'
  BY <1>1, <1>2, <1>4 DEF TypeOK
<1>6. \A b \in Conns : phase'[b] = "open" <=> phase[b] = "open"
  BY <1>1, <1>2 DEF TypeOK
<1>7. MapIsOpenConns'
  BY <1>1, <1>2, <1>5, <1>6 DEF MapIsOpenConns, TypeOK
<1>8. DeletedWhenUnused'
  BY <1>1, <1>2, <1>3, Constants DEF DeletedWhenUnused, TypeOK
<1> QED BY <1>7, <1>8 DEF IInv

-----------------------------------------------------------------------------
\* Every step of handshakes, Conns, their clients and the event dispatcher
\* keeps the map and the Conns in agreement.
LEMMA StepHolds == IInv /\ [Next]_vars => IInv'
<1> SUFFICES ASSUME IInv, [Next]_vars PROVE IInv'
  OBVIOUS
<1> USE DEF vars, connVars, handshake
<1>1. TypeOK /\ MapIsOpenConns /\ DeletedWhenUnused /\ Types
  BY TypesAreTypeOK DEF IInv, MapIsOpenConns
<1>2. ASSUME NEW c \in Conns, StartHandshake(c) PROVE IInv'
  <2>1. Types'
    BY <1>1, <1>2 DEF StartHandshake, Types, Phases
  <2> QED BY <1>1, <1>2, <2>1, TypesAreTypeOK, HandshakeKeeps DEF StartHandshake, Types
<1>3. ASSUME NEW c \in Conns, GiveUp(c) \/ IOFails(c) PROVE IInv'
  <2>1. /\ phase[c] = "handshake" /\ phase' = [phase EXCEPT ![c] = "failed"]
        /\ UNCHANGED <<dpid, polls, connection_map, events, switch_authenticator,
                       state, wake, expired, approved>>
    BY <1>3 DEF GiveUp, IOFails, Fails, Runs
  <2>2. Types'
    BY <1>1, <2>1 DEF Types, Phases
  <2> QED BY <1>1, <2>1, <2>2, TypesAreTypeOK, HandshakeKeeps DEF Types
<1>4. ASSUME NEW c \in Conns,
             BlockOnIO(c) \/ AskAuth(c) \/ WakeUp(c) \/ Expire(c)
      PROVE  IInv'
  <2>1. /\ UNCHANGED <<phase, state, approved, dpid, polls, connection_map, events,
                       switch_authenticator>>
        /\ \E w \in {"ready", "io", "auth"} : wake' = wake \/ wake' = [wake EXCEPT ![c] = w]
        /\ expired' = expired \/ expired' = [expired EXCEPT ![c] = TRUE]
    BY <1>4 DEF BlockOnIO, AskAuth, WakeUp, Expire
  <2>2. Types'
    BY <1>1, <2>1 DEF Types
  <2> QED BY <1>1, <2>1, <2>2, TypesAreTypeOK, HandshakeKeeps
<1>5. ASSUME NEW c \in Conns, SendFeaturesRequest(c) \/ SendConfig(c) PROVE IInv'
  <2>1. /\ phase[c] = "handshake"
        /\ \E s \in States : state' = [state EXCEPT ![c] = s]
        /\ UNCHANGED <<connVars, wake, expired, approved>>
    BY <1>5 DEF SendFeaturesRequest, SendConfig, Runs, States
  <2>2. Types'
    BY <1>1, <2>1 DEF Types
  <2>3. MapIsOpenConns'
    BY <1>1, <2>1, <2>2, TypesAreTypeOK DEF MapIsOpenConns, Types
  <2>4. DeletedWhenUnused'
    BY <1>1, <2>1 DEF DeletedWhenUnused
  <2> QED BY <2>3, <2>4 DEF IInv
<1>6. ASSUME NEW c \in Conns, NEW d \in Dpids \cup {0}, RecvFeaturesReply(c, d)
      PROVE  IInv'
  <2>1. /\ phase[c] = "handshake"
        /\ state' = [state EXCEPT ![c] = "CHECK_SWITCH_AUTH"]
        /\ dpid' = [dpid EXCEPT ![c] = d]
        /\ UNCHANGED <<phase, polls, connection_map, events, switch_authenticator,
                       wake, expired, approved>>
    BY <1>6 DEF RecvFeaturesReply, Runs
  <2>2. Types'
    BY <1>1, <2>1 DEF Types, States
  <2>3. \A b \in Conns : phase[b] = "open" => dpid'[b] = dpid[b] /\ state'[b] = state[b]
    BY <1>1, <2>1 DEF Types
  <2>4. MapIsOpenConns'
    BY <1>1, <2>1, <2>2, <2>3, TypesAreTypeOK DEF MapIsOpenConns, Types
  <2>5. DeletedWhenUnused'
    BY <1>1, <2>1 DEF DeletedWhenUnused
  <2> QED BY <2>4, <2>5 DEF IInv
<1>7. ASSUME NEW c \in Conns, NEW ok \in BOOLEAN, switch_auth_cb(c, ok) PROVE IInv'
  <2>1. /\ phase[c] = "handshake"
        /\ state' = [state EXCEPT ![c] = "REGISTER_SWITCH"]
        /\ approved' = [approved EXCEPT ![c] = ok]
        /\ wake' = [wake EXCEPT ![c] = "ready"]
        /\ UNCHANGED <<connVars, expired>>
    BY <1>7 DEF switch_auth_cb
  <2>2. Types'
    BY <1>1, <2>1 DEF Types, States
  <2>3. \A b \in Conns : phase[b] = "open" => approved'[b] = approved[b] /\ state'[b] = state[b]
    BY <1>1, <2>1 DEF Types
  <2>4. MapIsOpenConns'
    BY <1>1, <2>1, <2>2, <2>3, TypesAreTypeOK DEF MapIsOpenConns, Types
  <2>5. DeletedWhenUnused'
    BY <1>1, <2>1 DEF DeletedWhenUnused
  <2> QED BY <2>4, <2>5 DEF IInv
<1>8. ASSUME NEW c \in Conns, RegisterSwitch(c) PROVE IInv'
  <2>1. phase[c] = "handshake" /\ state[c] = "REGISTER_SWITCH"
        /\ UNCHANGED <<state, wake, expired, approved>>
    BY <1>8 DEF RegisterSwitch, Runs
  <2>2. CASE approved[c] /\ dpid[c] # 0
    <3>1. Registered(c)
      BY <1>8, <2>2 DEF RegisterSwitch
    <3>2. approved'[c] /\ state'[c] = "REGISTER_SWITCH"
      BY <2>1, <2>2
    <3> QED BY <1>1, <2>1, <2>2, <3>1, <3>2, RegisterKeeps DEF Types
  <2>3. CASE ~(approved[c] /\ dpid[c] # 0)
    <3>1. /\ phase' = [phase EXCEPT ![c] = "failed"]
          /\ UNCHANGED <<dpid, polls, connection_map, events, switch_authenticator>>
      BY <1>8, <2>3 DEF RegisterSwitch, Fails
    <3>2. Types'
      BY <1>1, <2>1, <3>1 DEF Types, Phases
    <3> QED BY <1>1, <2>1, <3>1, <3>2, TypesAreTypeOK, HandshakeKeeps DEF Types
  <2> QED BY <2>2, <2>3
<1>9. ASSUME NEW c \in Conns, AutoApprove(c) PROVE IInv'
  <2>1. /\ phase[c] = "handshake"
        /\ approved' = [approved EXCEPT ![c] = TRUE]
        /\ state' = [state EXCEPT ![c] = "REGISTER_SWITCH"]
        /\ wake' = wake /\ (expired' = expired \/ expired' = [expired EXCEPT ![c] = TRUE])
        /\ Fails(c) \/ (dpid[c] # 0 /\ Registered(c))
    BY <1>9 DEF AutoApprove, Runs
  <2>2. /\ approved' \in [Conns -> BOOLEAN] /\ state' \in [Conns -> States]
        /\ wake' \in [Conns -> {"ready", "io", "auth"}] /\ expired' \in [Conns -> BOOLEAN]
        /\ approved'[c] /\ state'[c] = "REGISTER_SWITCH"
        /\ \A b \in Conns \ {c} : approved'[b] = approved[b] /\ state'[b] = state[b]
    BY <1>1, <2>1 DEF Types, States
  <2>3. CASE Fails(c)
    <3>1. /\ phase' = [phase EXCEPT ![c] = "failed"]
          /\ UNCHANGED <<dpid, polls, connection_map, events, switch_authenticator>>
      BY <2>3 DEF Fails
    <3>2. Types'
      BY <1>1, <2>2, <3>1 DEF Types, Phases
    <3> QED BY <1>1, <2>1, <2>2, <3>1, <3>2, TypesAreTypeOK, HandshakeKeeps DEF Types
  <2>4. CASE dpid[c] # 0 /\ Registered(c)
    BY <2>1, <2>2, <2>4, RegisterKeeps
  <2> QED BY <2>1, <2>3, <2>4
<1>10. ASSUME NEW c \in Conns, PollBegins(c) \/ PollEnds(c) PROVE IInv'
  BY <1>10, PollKeeps
<1>11. ASSUME NEW c \in Conns, PollFails(c) PROVE IInv'
  BY <1>11, CloseKeeps DEF PollFails
<1>12. ASSUME NEW d \in Dpids, close_openflow_connection(d) PROVE IInv'
  <2>1. connection_map[d] \in Conns
    BY <1>1, <1>12 DEF close_openflow_connection, Types
  <2> QED BY <1>12, <2>1, CloseKeeps DEF close_openflow_connection
<1>13. ASSUME events' \in Seq(Event), switch_authenticator' \in BOOLEAN,
              UNCHANGED <<phase, dpid, polls, connection_map, handshake>>
       PROVE  IInv'
  <2>1. Types'
    BY <1>1, <1>13 DEF Types
  <2> QED BY <1>1, <1>13, <2>1, TypesAreTypeOK, HandshakeKeeps
<1>14. CASE DispatchEvent
  <2>1. events' \in Seq(Event)
    BY <1>1, <1>14 DEF DispatchEvent, Types
  <2> QED BY <1>1, <1>13, <1>14, <2>1 DEF DispatchEvent, Types
<1>15. CASE register_switch_auth
  BY <1>1, <1>13, <1>15 DEF register_switch_auth, Types
<1>16. CASE UNCHANGED vars
  BY <1>1, <1>13, <1>16 DEF Types
<1> QED BY <1>2, <1>3, <1>4, <1>5, <1>6, <1>7, <1>8, <1>9, <1>10, <1>11, <1>12, <1>14,
           <1>15, <1>16 DEF Next, FsmRun, ConnStep

\* The inductive invariant behind the theorems below.
THEOREM Invariance == Spec => []IInv
  BY InitHolds, StepHolds, PTL DEF Spec

\* connection_map is exactly the open Conns, each approved, whatever
\* connections replace one another or are closed inside their own polls.
THEOREM MapAgrees == Spec => []MapIsOpenConns
  BY Invariance, PTL DEF IInv

\* No Conn is deleted under a thread that polls it, and none is kept closed
\* and unused.
THEOREM NoUseAfterDelete == Spec => []DeletedWhenUnused
  BY Invariance, PTL DEF IInv

-----------------------------------------------------------------------------
\* register_conn is a Connect or a Replace of its dpid.
LEMMA RegisterPresence ==
  ASSUME IInv, NEW c \in Conns, NEW d \in Dpids, dpid[c] = d, Registered(c)
  PROVE  Presence!Connect(d) \/ Presence!Replace(d)
<1>1. dpid[c] \in Dpids /\ connection_map \in [Dpids -> Conns \cup {None}]
  BY DEF IInv, MapIsOpenConns, TypeOK
<1>2. connection_map' = [connection_map EXCEPT ![dpid[c]] = c]
  BY DEF Registered
<1>3. Mapped' = Mapped \cup {dpid[c]}
  BY <1>1, <1>2, Constants DEF Mapped
<1>4. CASE connection_map[dpid[c]] = None
  BY <1>1, <1>3, <1>4 DEF Registered, Presence!Connect, Presence!Joined, Join, Mapped
<1>5. CASE connection_map[dpid[c]] # None
  <2>1. Mapped' = Mapped /\ dpid[c] \in Mapped
    BY <1>1, <1>3, <1>5 DEF Mapped
  <2> QED BY <1>5, <2>1 DEF Registered, Presence!Replace, Presence!Joined,
             Presence!Left, Join, Leave, Mapped
<1> QED BY <1>4, <1>5

\* close is a Disconnect of the dpid of the Conn.
LEMMA ClosePresence ==
  ASSUME IInv, NEW c \in Conns, NEW d, dpid[c] = d, Close(c, polls[c])
  PROVE  Presence!Disconnect(d)
<1>1. /\ dpid[c] \in Dpids /\ connection_map[dpid[c]] = c
      /\ connection_map \in [Dpids -> Conns \cup {None}]
  BY DEF IInv, MapIsOpenConns, TypeOK, Close
<1>2. connection_map' = [connection_map EXCEPT ![dpid[c]] = None]
  BY DEF Close
<1>3. Mapped' = Mapped \ {dpid[c]} /\ dpid[c] \in Mapped
  BY <1>1, <1>2, Constants DEF Mapped
<1> QED BY <1>3 DEF Close, Presence!Disconnect, Presence!Left, Leave, Mapped

\* Every step is one of SwitchPresence, or leaves the map and the events alone.
LEMMA StepPresence ==
  ASSUME IInv, [Next]_vars
  PROVE  Presence!Next \/ UNCHANGED <<connection_map, events>>
<1> USE DEF vars, connVars, handshake
<1>1. \/ UNCHANGED <<connection_map, events>>
      \/ \E c \in Conns : dpid[c] # 0 /\ Registered(c)
      \/ \E c \in Conns : Close(c, polls[c])
      \/ DispatchEvent
  <2>1. ASSUME NEW c \in Conns, RegisterSwitch(c) \/ AutoApprove(c)
        PROVE  UNCHANGED <<connection_map, events>> \/ (dpid[c] # 0 /\ Registered(c))
    BY <2>1 DEF RegisterSwitch, AutoApprove, Fails
  <2>2. ASSUME NEW d \in Dpids, close_openflow_connection(d)
        PROVE  \E c \in Conns : Close(c, polls[c])
    <3>1. connection_map[d] \in Conns
      BY <2>2 DEF close_openflow_connection, IInv, MapIsOpenConns, TypeOK
    <3> QED BY <2>2, <3>1 DEF close_openflow_connection
  <2>3. ASSUME NEW c \in Conns,
               \/ StartHandshake(c) \/ GiveUp(c) \/ BlockOnIO(c) \/ IOFails(c)
               \/ SendFeaturesRequest(c) \/ SendConfig(c) \/ AskAuth(c)
               \/ WakeUp(c) \/ Expire(c) \/ PollBegins(c) \/ PollEnds(c)
        PROVE  UNCHANGED <<connection_map, events>>
    BY <2>3 DEF StartHandshake, GiveUp, BlockOnIO, IOFails, SendFeaturesRequest,
                SendConfig, AskAuth, WakeUp, Expire, PollBegins, PollEnds, Fails
  <2>4. ASSUME NEW c \in Conns, NEW d, RecvFeaturesReply(c, d)
        PROVE  UNCHANGED <<connection_map, events>>
    BY <2>4 DEF RecvFeaturesReply
  <2>5. ASSUME NEW c \in Conns, NEW ok, switch_auth_cb(c, ok)
        PROVE  UNCHANGED <<connection_map, events>>
    BY <2>5 DEF switch_auth_cb
  <2>6. CASE register_switch_auth
    BY <2>6 DEF register_switch_auth
  <2>7. ASSUME NEW c \in Conns, PollFails(c) PROVE Close(c, polls[c])
    BY <2>7 DEF PollFails
  <2>8. CASE UNCHANGED vars
    BY <2>8
  <2> QED BY <2>1, <2>2, <2>3, <2>4, <2>5, <2>6, <2>7, <2>8 DEF Next, FsmRun, ConnStep
<1>2. ASSUME NEW c \in Conns, dpid[c] # 0, Registered(c) PROVE Presence!Next
  <2>1. PICK d \in Dpids : dpid[c] = d
    BY <1>2 DEF IInv, MapIsOpenConns, TypeOK
  <2> QED BY <1>2, <2>1, RegisterPresence DEF Presence!Next
<1>3. ASSUME NEW c \in Conns, Close(c, polls[c]) PROVE Presence!Next
  <2>1. PICK d \in Dpids : dpid[c] = d
    BY <1>3 DEF Close, IInv, MapIsOpenConns
  <2> QED BY <1>3, <2>1, ClosePresence DEF Presence!Next
<1>4. CASE DispatchEvent
  BY <1>4 DEF DispatchEvent, Presence!Next, Presence!Take
<1> QED BY <1>1, <1>2, <1>3, <1>4

\* Join and leave events alternate for every dpid, as SwitchPresence promises.
THEOREM PresenceKept == Spec => ImplementsPresence
<1>1. Init => Presence!Init
  BY DEF Init, Presence!Init
<1>2. IInv /\ [Next]_vars => [Presence!Next]_<<Mapped, events>>
  BY StepPresence DEF Mapped
<1> QED BY <1>1, <1>2, Invariance, PTL DEF Spec, ImplementsPresence, Presence!Spec, Mapped
=============================================================================
