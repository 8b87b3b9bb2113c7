------------------------- MODULE OpenflowConnection -------------------------
(***************************************************************************)
(* An Openflow_connection over a stream: the states of the connection, the *)
(* one message it buffers for sending and the FSM that sends it, the       *)
(* message it puts together from what it reads, and the FSM that probes a  *)
(* silent peer.                                                            *)
(*                                                                         *)
(* The stream carries units: a message has Header units and perhaps a body *)
(* of one unit.  Time is what is left until a deadline.  connect's loop is *)
(* taken one state at a time; the user calls again, as the callers do.     *)
(***************************************************************************)
EXTENDS Integers, Sequences, SequencesExt, Probing

CONSTANTS
  MaxSend,        \* bound on the messages the user sends
  MaxPeer,        \* bound on the messages the peer sends
  Capacity        \* the units the socket takes when the peer has read everything

ASSUME ConnectionAssumption ==
  MaxSend \in Nat /\ MaxPeer \in Nat /\ Capacity \in Nat \ {0}

Header == 2

VARIABLES
  state,     \* of the connection; "deleted" when it is gone
  stream,    \* "connecting", "open", "reset" by the peer, "eof" (the peer has
             \* closed it), or "closed"
  tx_buf,    \* the units left of the message being sent
  room,      \* how many units the socket takes now
  tx_fsm,    \* "ready", "write" (waiting for room) or "rest"
  rx,        \* the units read of the message being received
  in,        \* the units the peer has sent that are not read yet
  left,      \* time left until timeout
  fsm,       \* the probing FSM: "ready", "timer", "write" or "rest"
  alarm,     \* time left until its timer goes off
  accepted,  \* history: the messages do_send_openflow has begun to send
  wire,      \* history: the units written
  peer,      \* history: the messages sent by the peer
  received,  \* history: the messages returned by do_recv_openflow
  quiet      \* history: the time since the last of them, at most 2 intervals

sending == <<tx_buf, room, tx_fsm, accepted, wire>>
receiving == <<rx, in, peer, received>>
probing == <<left, fsm, alarm, quiet>>
vars == <<state, stream, sending, receiving, probing>>

HasBody(kind) == kind \in {"data", "error"}

\* The units of the messages of a sequence, each with its place in it.
Units(messages) ==
  FlattenSeq([i \in DOMAIN messages |->
    [part \in 1..(Header + IF HasBody(messages[i]) THEN 1 ELSE 0) |-> <<i, part>>]])

\* The units of the message that is appended to a sequence of messages.
UnitsOfNext(messages, kind) ==
  SubSeq(Units(Append(messages, kind)), Len(Units(messages)) + 1,
         Len(Units(Append(messages, kind))))

Established == state \in {"S_CONNECTED", "S_IDLE"}
Writable == room > 0 \/ stream \in {"reset", "closed"}

-----------------------------------------------------------------------------
(* Sending                                                                 *)

\* The first n of some units are written.
Write(units, n) ==
  /\ wire' = wire \o SubSeq(units, 1, n)
  /\ tx_buf' = SubSeq(units, n + 1, Len(units))
  /\ room' = room - n

\* write_fully of some units: as many as there is room for.
WriteOut(units) == Write(units, IF room < Len(units) THEN room ELSE Len(units))

CanWrite == stream \in {"open", "eof"}

\* write_fully that fails, perhaps after a part that was written: at least
\* least units.
WritePart(units, least) ==
  \E n \in least..(Len(units) - 1) :
    n <= room /\ (CanWrite \/ n = 0) /\ Write(units, n)

\* Faulty do_send_openflow: tx_buf is not sent first.
Accept_Overwrite(kind) ==
  /\ CanWrite
  /\ WriteOut(UnitsOfNext(accepted, kind))
  /\ accepted' = Append(accepted, kind)
  /\ tx_fsm' = IF tx_buf' # << >> THEN "ready" ELSE tx_fsm
  /\ UNCHANGED stream

\* Faulty do_send_openflow: tx_fsm is not woken.
Accept_NoWake(kind) ==
  /\ CanWrite /\ room >= Len(tx_buf)
  /\ WriteOut(tx_buf \o UnitsOfNext(accepted, kind))
  /\ accepted' = Append(accepted, kind)
  /\ UNCHANGED <<tx_fsm, stream>>

\* do_send_openflow that returns 0: what is left of the last message is
\* written, then the new one; the rest of it is left to tx_fsm.
Accept(kind) ==
  /\ CanWrite /\ room >= Len(tx_buf)
  /\ WriteOut(tx_buf \o UnitsOfNext(accepted, kind))
  /\ accepted' = Append(accepted, kind)
  /\ tx_fsm' = IF tx_buf' # << >> THEN "ready" ELSE tx_fsm
  /\ UNCHANGED stream

\* do_send_openflow that returns EAGAIN.
Again ==
  /\ CanWrite /\ room < Len(tx_buf)
  /\ WriteOut(tx_buf)
  /\ UNCHANGED <<accepted, tx_fsm, stream>>

\* do_send_openflow that fails, over what was left of the last message or over
\* the new one: the stream is closed, and what tx_buf holds is never written.
SendFails(kind) ==
  /\ \/ WritePart(tx_buf, 0) /\ UNCHANGED accepted
     \/ /\ WritePart(tx_buf \o UnitsOfNext(accepted, kind), Len(tx_buf))
        /\ accepted' = Append(accepted, kind)
  /\ stream' = "closed"
  /\ UNCHANGED tx_fsm

\* tx_run, when tx_fsm is ready or the socket takes more or is closed.
tx_run ==
  /\ tx_fsm = "ready" \/ (tx_fsm = "write" /\ Writable)
  /\ \/ /\ tx_buf # << >> /\ CanWrite
        /\ WriteOut(tx_buf)
        /\ tx_fsm' = IF tx_buf' # << >> THEN "write" ELSE "rest"
        /\ UNCHANGED stream
     \/ /\ tx_buf = << >>
        /\ tx_fsm' = "rest"
        /\ UNCHANGED <<stream, tx_buf, room, wire>>
     \/ /\ WritePart(tx_buf, 0)
        /\ tx_fsm' = "rest" /\ stream' = "closed"
  /\ UNCHANGED <<state, accepted, receiving, probing>>

\* The user sends a message on an established connection.
send_openflow ==
  /\ Established /\ Len(SelectSeq(accepted, LAMBDA k : k = "data")) < MaxSend
  /\ Accept("data") \/ Again \/ SendFails("data")
  /\ UNCHANGED <<state, receiving, probing>>

-----------------------------------------------------------------------------
(* Receiving                                                               *)

\* The message being received.
Kind == LET units == rx \o in IN peer[units[1][1]]

\* do_recv_openflow when avail units can be read, all that is sent or less.
Message(avail) ==
  /\ stream \in {"open", "eof"}
  /\ LET units == UnitsOfNext(received, Kind) IN
       /\ Len(rx) + avail >= Len(units) /\ Kind # "short"
       /\ in' = SubSeq(in, Len(units) - Len(rx) + 1, Len(in))
  /\ rx' = << >>
  /\ received' = Append(received, Kind)
  /\ UNCHANGED <<stream, peer>>

\* It returns EAGAIN: the message is not complete, and no read has found the
\* end of the stream.
Incomplete(avail) ==
  /\ stream \in {"open", "eof"}
  /\ avail > 0 => Len(rx) + avail < Len(UnitsOfNext(received, Kind))
  /\ stream = "eof" => avail > 0 /\ ~(Len(rx) < Header /\ Len(rx) + avail = Header)
  /\ rx' = rx \o SubSeq(in, 1, avail)
  /\ in' = SubSeq(in, avail + 1, Len(in))
  /\ UNCHANGED <<stream, peer, received>>

\* It fails: the end of the stream, an error, or a length that is too short.
RecvFails(avail) ==
  /\ \/ stream \in {"reset", "closed"}
     \/ /\ stream = "eof" /\ avail = Len(in)
        /\ avail > 0 => Len(rx) + avail < Len(UnitsOfNext(received, Kind))
        /\ avail = 0 \/ (Len(rx) < Header /\ Len(rx) + avail = Header)
     \/ avail > 0 /\ Len(rx) + avail >= Header /\ Kind = "short"
  /\ stream' = "closed"
  /\ UNCHANGED receiving

Avail == 0..Len(in)

\* Faulty recv_openflow: the connection stays idle.
recv_openflow_StaysIdle ==
  /\ Established
  /\ \E avail \in Avail :
       \/ /\ avail > 0 /\ Message(avail)
          /\ left' = ProbeInterval /\ quiet' = 0
          /\ UNCHANGED <<fsm, alarm>>
       \/ (Incomplete(avail) \/ RecvFails(avail)) /\ UNCHANGED probing
  /\ UNCHANGED <<state, sending>>

\* The user receives on an established connection.
recv_openflow ==
  /\ Established
  /\ \E avail \in Avail :
       \/ /\ avail > 0 /\ Message(avail)
          /\ state' = "S_CONNECTED"
          /\ left' = ProbeInterval /\ quiet' = 0
          /\ UNCHANGED <<fsm, alarm>>
       \/ (Incomplete(avail) \/ RecvFails(avail)) /\ UNCHANGED <<state, probing>>
  /\ UNCHANGED sending

-----------------------------------------------------------------------------
(* Connecting                                                              *)

\* The stream is connected, or failed to.
s_connecting ==
  /\ state = "S_CONNECTING" /\ stream # "connecting"
  /\ state' = IF CanWrite THEN "S_SEND_HELLO" ELSE "S_DISCONNECTED"
  /\ UNCHANGED <<stream, sending, receiving, probing>>

s_send_hello ==
  /\ state = "S_SEND_HELLO"
  /\ \/ Accept("hello") /\ state' = "S_RECV_HELLO"
     \/ Again /\ UNCHANGED state
     \/ SendFails("hello") /\ state' = "S_DISCONNECTED"
  /\ UNCHANGED <<receiving, probing>>

\* Faulty s_recv_hello: the probing FSM is not woken.
Agreed_NoWake ==
  /\ state' = "S_CONNECTED"
  /\ left' = ProbeInterval /\ quiet' = 0
  /\ UNCHANGED <<fsm, alarm>>

\* The versions agree.
Agreed ==
  /\ state' = "S_CONNECTED"
  /\ left' = ProbeInterval /\ quiet' = 0
  /\ fsm' = "ready"
  /\ UNCHANGED alarm

\* "old" is the hello of a peer whose version is below min_version.
s_recv_hello ==
  /\ state = "S_RECV_HELLO"
  /\ \E avail \in Avail :
       \/ /\ avail > 0 /\ Message(avail)
          /\ \/ Kind = "hello" /\ Agreed
             \/ Kind = "old" /\ state' = "S_SEND_ERROR" /\ UNCHANGED probing
             \/ /\ Kind \notin {"hello", "old"}
                /\ state' = "S_DISCONNECTED" /\ UNCHANGED probing
       \/ Incomplete(avail) /\ UNCHANGED <<state, probing>>
       \/ RecvFails(avail) /\ state' = "S_DISCONNECTED" /\ UNCHANGED probing
  /\ UNCHANGED sending

s_send_error ==
  /\ state = "S_SEND_ERROR"
  /\ \/ (Accept("error") \/ SendFails("error")) /\ state' = "S_DISCONNECTED"
     \/ Again /\ UNCHANGED state
  /\ UNCHANGED <<receiving, probing>>

\* One pass of connect's loop.
connect == s_connecting \/ s_send_hello \/ s_recv_hello \/ s_send_error

\* The user deletes the connection, at any time; its FSMs are killed.
Delete ==
  /\ state # "deleted"
  /\ state' = "deleted" /\ stream' = "closed"
  /\ fsm' = "rest" /\ tx_fsm' = "rest"
  /\ left' = 0 /\ alarm' = 0 /\ quiet' = 0
  /\ UNCHANGED <<tx_buf, room, accepted, wire, receiving>>

-----------------------------------------------------------------------------
(* Probing                                                                 *)

\* The connection is still alive, or the FSM has nothing to do.
NotExpired ==
  /\ ~Established \/ left > 0
  /\ fsm' = IF Established THEN "timer" ELSE "rest"
  /\ alarm' = IF Established THEN left ELSE alarm
  /\ UNCHANGED <<state, stream, sending, left>>

\* Nothing has been received for an interval: send_echo_request.
SendProbe ==
  /\ state = "S_CONNECTED" /\ left = 0
  /\ \/ /\ Accept("echo")
        /\ state' = "S_IDLE"
        /\ left' = ProbeInterval
        /\ fsm' = "timer" /\ alarm' = ProbeInterval
     \/ Again /\ fsm' = "write" /\ UNCHANGED <<state, left, alarm>>
     \/ /\ SendFails("echo")
        /\ state' = "S_DISCONNECTED" /\ fsm' = "rest"
        /\ UNCHANGED <<left, alarm>>

\* Nothing has been received since the probe.
Disconnect ==
  /\ state = "S_IDLE" /\ left = 0
  /\ state' = "S_DISCONNECTED" /\ stream' = "closed"
  /\ fsm' = "rest"
  /\ UNCHANGED <<sending, left, alarm>>

\* run, when what the FSM waits for has come.
run ==
  /\ \/ fsm = "ready"
     \/ fsm = "timer" /\ alarm = 0
     \/ fsm = "write" /\ Writable
  /\ NotExpired \/ SendProbe \/ Disconnect
  /\ UNCHANGED <<receiving, quiet>>

Tick ==
  /\ left' = Less(left) /\ alarm' = Less(alarm)
  /\ quiet' = IF Established /\ quiet < 2 * ProbeInterval THEN quiet + 1 ELSE quiet
  /\ UNCHANGED <<state, stream, sending, receiving, fsm>>

-----------------------------------------------------------------------------
(* The peer                                                                *)

\* The stream connects, or fails to; later it may break.
StreamChanges ==
  /\ \/ stream = "connecting" /\ stream' \in {"open", "reset"}
     \/ stream = "open" /\ stream' \in {"eof", "reset"}
  /\ UNCHANGED <<state, sending, receiving, probing>>

\* It reads all it was sent.
PeerReads ==
  /\ room < Capacity /\ CanWrite
  /\ room' = Capacity
  /\ UNCHANGED <<state, stream, tx_buf, tx_fsm, accepted, wire, receiving, probing>>

\* It sends a message, "short" being one whose length is less than a header's.
PeerSends ==
  /\ stream = "open" /\ Len(peer) < MaxPeer
  /\ \E kind \in {"hello", "old", "data", "short"} :
       /\ in' = in \o UnitsOfNext(peer, kind)
       /\ peer' = Append(peer, kind)
  /\ UNCHANGED <<state, stream, sending, rx, received, probing>>

-----------------------------------------------------------------------------
Init ==
  /\ state = "S_CONNECTING" /\ stream = "connecting"
  /\ tx_buf = << >> /\ room = Capacity /\ tx_fsm = "rest"
  /\ rx = << >> /\ in = << >>
  /\ left = 0 /\ fsm = "rest" /\ alarm = 0 /\ quiet = 0
  /\ accepted = << >> /\ wire = << >> /\ peer = << >> /\ received = << >>

Next ==
  \/ connect \/ send_openflow \/ recv_openflow \/ Delete
  \/ tx_run \/ run \/ Tick
  \/ StreamChanges \/ PeerReads \/ PeerSends

\* The FSMs are scheduled (ReadyRuns of CoSync), time passes, and the peer
\* reads what it is sent.
FairStream ==
  WF_vars(tx_run) /\ WF_vars(run) /\ WF_vars(Tick) /\ WF_vars(PeerReads)

Spec == Init /\ [][Next]_vars /\ FairStream

-----------------------------------------------------------------------------
(* Properties                                                              *)

\* The type of every variable.
TypeOK ==
  /\ state \in {"S_CONNECTING", "S_SEND_HELLO", "S_RECV_HELLO", "S_CONNECTED", "S_IDLE",
                "S_SEND_ERROR", "S_DISCONNECTED", "deleted"}
  /\ stream \in {"connecting", "open", "reset", "eof", "closed"}
  /\ tx_fsm \in {"ready", "write", "rest"} /\ fsm \in {"ready", "timer", "write", "rest"}
  /\ room \in 0..Capacity
  /\ left \in 0..ProbeInterval /\ alarm \in 0..ProbeInterval /\ quiet \in 0..(2 * ProbeInterval)

\* Neither partial writes nor partial reads lose, repeat or mix anything, and
\* whoever sends (the user, the handshake, the probe) sends whole messages: what
\* was written, followed by what is buffered, is the messages accepted, one
\* after the other; what was received, followed by what was read and what is
\* still unread, is what the peer has sent.
FramingKept ==
  /\ TypeOK
  /\ wire \o tx_buf = Units(accepted)
  /\ Units(received) \o rx \o in = Units(peer)

\* A message of which a part is left behind by do_send_openflow is sent in
\* full, unless the stream breaks or the connection is deleted.
AcceptedIsSent == tx_buf # << >> ~> tx_buf = << >> \/ ~CanWrite

\* A peer that has stopped sending, but reads, is found out: the connection
\* does not stay connected or idle.
SilentPeerDropped == Established ~> ~Established

\* A connection is dropped for inactivity only when no message has been received
\* during two intervals, one before and one after the probe.
DropsOnlySilent ==
  [][state = "S_IDLE" /\ state' = "S_DISCONNECTED" => quiet = 2 * ProbeInterval]_vars
=============================================================================
