------------------------- MODULE ReliableConnection -------------------------
(***************************************************************************)
(* A Reliable_openflow_connection: an Openflow_connection whose do_connect,*)
(* do_send_openflow and do_recv_openflow pass everything to an underlying  *)
(* connection c, and an FSM that makes a new c, after a growing delay, when*)
(* the old one has failed.  The wrapper goes through the states of an      *)
(* Openflow_connection itself, hello and probes included.                  *)
(*                                                                         *)
(* The user is the handshake's FSM, or later the Conn: it sends, receives  *)
(* and waits, and may delete the wrapper.  Everything runs in NOX's main   *)
(* cooperative group, and nothing here yields: each call is one step.      *)
(* Time is what is left until a deadline.                                  *)
(***************************************************************************)
EXTENDS Integers, FiniteSetsExt, Probing

CONSTANT backoff_limit

ASSUME ReliableAssumption == backoff_limit \in Nat \ {0}

VARIABLES
  wrapper_state,  \* "deleted" by the user, or "crashed"
  wrapper_left,   \* time left until the wrapper's timeout
  status,    \* Reliable_openflow_connection::status
  c,         \* "none" (NULL), "connecting", "up", or "down" (failed or closed)
  backoff,
  reconnect_fsm,  \* run's FSM: "ready", "timer", "io" (waiting for c) or "rest"
  delay,     \* time left until its timer goes off
  user,      \* "run", or waiting for "io" on c or for the condition "connected"
  failures,  \* history: the failures since a message was received, at most the limit
  since      \* history: the time since the last of them, at most the limit

wrapper == <<wrapper_state, wrapper_left>>
reliable == <<status, c, backoff, reconnect_fsm, delay, failures, since>>
reliableVars == <<wrapper, reliable, user>>

AtMost(n) == Min({backoff_limit, n})

Alive == wrapper_state \notin {"deleted", "crashed"}
Usable == wrapper_state \in {"S_CONNECTED", "S_IDLE"}

-----------------------------------------------------------------------------
(* The reliable connection                                                 *)

\* Faulty reconnect: the delay is only doubled.
Dropped_OnlyDoubled ==
  /\ c' = "none"
  /\ backoff' = AtMost(backoff * 2)
  /\ failures' = AtMost(failures + 1) /\ since' = 0

\* reconnect, but for status.  Closing c's stream wakes who waits for it.
Dropped ==
  /\ c' = "none"
  /\ backoff' = AtMost(IF backoff = 0 THEN 1 ELSE backoff * 2)
  /\ failures' = AtMost(failures + 1) /\ since' = 0

Sleeps ==
  /\ status' = "CONN_WAKING"
  /\ reconnect_fsm' = "timer" /\ delay' = backoff'

\* Faulty do_send_openflow and do_recv_openflow: the FSM is not run.
Reconnect_NotRun ==
  /\ status = "CONN_CONNECTED" /\ c = "down"
  /\ Dropped
  /\ status' = "CONN_SLEEPING"
  /\ UNCHANGED <<reconnect_fsm, delay>>

\* do_send_openflow or do_recv_openflow finds c failed: reconnect, and the FSM
\* is run at once, up to its timer.
Reconnect ==
  /\ status = "CONN_CONNECTED" /\ c = "down"
  /\ Dropped /\ Sleeps

\* do_send_openflow that returns 0: sent, or dropped for want of a connection.
Sent ==
  \/ status = "CONN_CONNECTED" /\ c = "up" /\ UNCHANGED reliable
  \/ status # "CONN_CONNECTED" /\ UNCHANGED reliable
  \/ Reconnect

\* do_send_openflow that returns EAGAIN.
SendAgain == status = "CONN_CONNECTED" /\ c = "up" /\ UNCHANGED reliable

\* do_recv_openflow that returns a message.
Received ==
  /\ status = "CONN_CONNECTED" /\ c = "up"
  /\ backoff' = 0 /\ failures' = 0
  /\ UNCHANGED <<status, c, reconnect_fsm, delay, since>>

\* do_recv_openflow that returns EAGAIN.
RecvAgain ==
  \/ (status = "CONN_CONNECTED" => c = "up") /\ UNCHANGED reliable
  \/ Reconnect

\* run, woken from the wait after a failure in run itself: it waits again.
Sleep ==
  /\ status = "CONN_SLEEPING"
  /\ UNCHANGED <<backoff, c, failures, since, user>>
  /\ Sleeps

\* f->connect fails.
AttemptFails ==
  /\ Dropped
  /\ status' = "CONN_SLEEPING" /\ reconnect_fsm' = "ready"
  /\ UNCHANGED delay

\* f->connect gives a connection, whose connect returns EAGAIN at first.
Attempt ==
  /\ c' = "connecting"
  /\ status' = "CONN_CONNECTING" /\ reconnect_fsm' = "io"
  /\ UNCHANGED <<backoff, delay, failures, since>>

WakeUp ==
  /\ status = "CONN_WAKING"
  /\ Attempt \/ AttemptFails
  /\ UNCHANGED user

\* Faulty run: the users are not told.
Connected_NoBroadcast ==
  /\ status = "CONN_CONNECTING" /\ c = "up"
  /\ status' = "CONN_CONNECTED" /\ reconnect_fsm' = "rest"
  /\ UNCHANGED <<c, backoff, delay, failures, since, user>>

\* c->connect is done.
Connected ==
  /\ status = "CONN_CONNECTING" /\ c = "up"
  /\ status' = "CONN_CONNECTED" /\ reconnect_fsm' = "rest"
  /\ user' = IF user = "connected" THEN "run" ELSE user
  /\ UNCHANGED <<c, backoff, delay, failures, since>>

\* c->connect has failed.
ConnectFails ==
  /\ status = "CONN_CONNECTING" /\ c = "down"
  /\ AttemptFails
  /\ UNCHANGED user

\* run, when what the FSM waits for has come.
reconnect_run ==
  /\ Alive
  /\ \/ reconnect_fsm = "ready"
     \/ reconnect_fsm = "timer" /\ delay = 0
     \/ reconnect_fsm = "io" /\ c # "connecting"
  /\ Sleep \/ WakeUp \/ Connected \/ ConnectFails
  /\ UNCHANGED wrapper

-----------------------------------------------------------------------------
(* The wrapper, called by its user                                         *)

\* Who waits for c's stream wakes when it is closed.
Woken == user' = IF user = "io" /\ c' = "none" THEN "run" ELSE user

\* One pass of connect's loop.  do_connect returns 0.
wrapper_connect ==
  \/ /\ wrapper_state = "S_CONNECTING" /\ wrapper_state' = "S_SEND_HELLO"
     /\ UNCHANGED <<wrapper_left, reliable>>
  \/ /\ wrapper_state = "S_SEND_HELLO"
     /\ \/ Sent /\ wrapper_state' = "S_RECV_HELLO"
        \/ SendAgain /\ UNCHANGED wrapper_state
     /\ UNCHANGED wrapper_left
  \/ /\ wrapper_state = "S_RECV_HELLO"
     /\ \/ Received /\ wrapper_state' = "S_CONNECTED" /\ wrapper_left' = ProbeInterval
        \/ /\ Received /\ wrapper_state' \in {"S_SEND_ERROR", "S_DISCONNECTED"}
           /\ UNCHANGED wrapper_left
        \/ RecvAgain /\ UNCHANGED wrapper
  \/ /\ wrapper_state = "S_SEND_ERROR"
     /\ \/ Sent /\ wrapper_state' = "S_DISCONNECTED"
        \/ SendAgain /\ UNCHANGED wrapper_state
     /\ UNCHANGED wrapper_left

wrapper_send == Usable /\ (Sent \/ SendAgain) /\ UNCHANGED wrapper

wrapper_recv ==
  /\ Usable
  /\ \/ Received /\ wrapper_state' = "S_CONNECTED" /\ wrapper_left' = ProbeInterval
     \/ RecvAgain /\ UNCHANGED wrapper

\* What the user does when it is not waiting.
Call ==
  /\ Alive /\ user = "run"
  /\ wrapper_connect \/ wrapper_send \/ wrapper_recv
  /\ UNCHANGED user

\* do_send_openflow_wait and do_recv_openflow_wait, and the user blocks.
Wait ==
  /\ Alive /\ wrapper_state # "S_CONNECTING" /\ user = "run"
  /\ user' = IF status = "CONN_CONNECTED" THEN "io" ELSE "connected"
  /\ UNCHANGED <<wrapper, reliable>>

\* c's stream is ready, or closed.
UserWakes ==
  /\ Alive /\ user = "io"
  /\ user' = "run"
  /\ UNCHANGED <<wrapper, reliable>>

wrapper_delete ==
  /\ Alive
  /\ wrapper_state' = "deleted"
  /\ UNCHANGED <<wrapper_left, reliable, user>>

-----------------------------------------------------------------------------
(* The wrapper's probes.  (The alarm of their FSM may go off earlier, which *)
(* only sets it again: OpenflowConnection.)                                *)

\* Nothing has been received for an interval: send_echo_request.
wrapper_probe ==
  /\ wrapper_state = "S_CONNECTED" /\ wrapper_left = 0
  /\ \/ Sent /\ wrapper_state' = "S_IDLE" /\ wrapper_left' = ProbeInterval
     \/ SendAgain /\ UNCHANGED wrapper
  /\ Woken

\* Nothing has been received since the probe: close, which calls c->close()
\* whether there is a c or not.
wrapper_close ==
  /\ wrapper_state = "S_IDLE" /\ wrapper_left = 0
  /\ IF c = "none"
     THEN wrapper_state' = "crashed" /\ UNCHANGED <<c, user>>
     ELSE /\ wrapper_state' = "S_DISCONNECTED" /\ c' = "down"
          /\ user' = IF user = "io" THEN "run" ELSE user
  /\ UNCHANGED <<wrapper_left, status, backoff, reconnect_fsm, delay, failures, since>>

-----------------------------------------------------------------------------
(* The network, and time                                                   *)

Accepted ==
  /\ Alive /\ c = "connecting"
  /\ c' = "up"
  /\ UNCHANGED <<wrapper, status, backoff, reconnect_fsm, delay, failures, since, user>>

Breaks ==
  /\ Alive /\ c \in {"connecting", "up"}
  /\ c' = "down"
  /\ UNCHANGED <<wrapper, status, backoff, reconnect_fsm, delay, failures, since, user>>

ReliableTick ==
  /\ Alive
  /\ wrapper_left' = Less(wrapper_left) /\ delay' = Less(delay)
  /\ since' = AtMost(since + 1)
  /\ UNCHANGED <<wrapper_state, status, c, backoff, reconnect_fsm, failures, user>>

-----------------------------------------------------------------------------
\* The constructor has run the FSM once.
InitReliable ==
  /\ wrapper_state = "S_CONNECTING" /\ wrapper_left = 0 /\ delay = 0
  /\ user = "run" /\ since = 0
  /\ \/ /\ status = "CONN_CONNECTING" /\ c = "connecting" /\ reconnect_fsm = "io"
        /\ backoff = 0 /\ failures = 0
     \/ /\ status = "CONN_SLEEPING" /\ c = "none" /\ reconnect_fsm = "ready"
        /\ backoff = 1 /\ failures = 1

NextReliable ==
  \/ reconnect_run \/ Call \/ Wait \/ UserWakes \/ wrapper_delete
  \/ wrapper_probe \/ wrapper_close
  \/ Accepted \/ Breaks \/ ReliableTick

\* FSMs are scheduled (ReadyRuns of CoSync) and time passes.  About the peer:
\* of attempts made again and again one starts, one is accepted, and one such
\* connection lasts until the FSM has seen it.
FairReliable ==
  /\ WF_reliableVars(reconnect_run) /\ WF_reliableVars(ReliableTick)
  /\ SF_reliableVars(reconnect_run /\ Attempt) /\ SF_reliableVars(Accepted)
  /\ SF_reliableVars(reconnect_run /\ Connected)

SpecReliable == InitReliable /\ [][NextReliable]_reliableVars /\ FairReliable

-----------------------------------------------------------------------------
(* Properties                                                              *)

\* The type of every variable.
TypeOKReliable ==
  /\ wrapper_state \in {"S_CONNECTING", "S_SEND_HELLO", "S_RECV_HELLO", "S_CONNECTED", "S_IDLE",
                "S_SEND_ERROR", "S_DISCONNECTED", "deleted", "crashed"}
  /\ wrapper_left \in 0..ProbeInterval
  /\ status \in {"CONN_SLEEPING", "CONN_WAKING", "CONN_CONNECTING", "CONN_CONNECTED"}
  /\ c \in {"none", "connecting", "up", "down"}
  /\ reconnect_fsm \in {"ready", "timer", "io", "rest"} /\ user \in {"run", "io", "connected"}
  /\ {backoff, delay, failures, since} \subseteq 0..backoff_limit

TwoTo[n \in 0..backoff_limit] == IF n = 0 THEN 1 ELSE 2 * TwoTo[n - 1]

\* The delays double from one second up to the limit, as long as no message
\* comes, however attempts, sends and receives fail; the delay has passed when
\* a new connection is made; and there is a connection exactly when status
\* lets it be used.
BackoffKept ==
  /\ TypeOKReliable
  /\ backoff = IF failures = 0 THEN 0 ELSE AtMost(TwoTo[failures - 1])
  /\ status \in {"CONN_CONNECTING", "CONN_CONNECTED"} => since >= backoff
  /\ status \in {"CONN_CONNECTING", "CONN_CONNECTED"} <=> c # "none"

\* The states of the wrapper in which no probe is due: of the hellos, and when
\* it has been closed.
Unprobed == wrapper_state \in
  {"S_SEND_HELLO", "S_RECV_HELLO", "S_SEND_ERROR", "S_DISCONNECTED"}

\* A user that waits for a connection during the hellos, or once the wrapper has
\* been closed, is woken by the attempt that succeeds, unless it deletes the
\* wrapper.
UserServed ==
  user = "connected" /\ Unprobed ~> user # "connected" \/ wrapper_state = "deleted"

\* "But it'll keep trying to reconnect" (openflow.hh), whatever the wrapper's
\* state: a user that waits for a connection is woken.
KeepsTrying ==
  user = "connected" ~> user # "connected" \/ wrapper_state = "deleted"
=============================================================================
