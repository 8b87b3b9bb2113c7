-------------------------- MODULE RequestProcessor --------------------------
(***************************************************************************)
(* Request_processor of the interserver application, with the parts of NOX *)
(* it talks to: the event queue, the switches' connections and the replies *)
(* the switches send.                                                      *)
(*                                                                         *)
(* Every handler and both co-threads run in NOX's main cooperative group,  *)
(* so a handler, or a stretch of a co-thread between two sleeps, is one    *)
(* atomic action.  The HTTP side (module Interserver) meets this component *)
(* only through Http_request_event and Http_response_event.                *)
(***************************************************************************)
EXTENDS Integers, Sequences, FiniteSets, InteractBuilders, SequencesExt

CONSTANTS
  Dpids,         \* datapath ids of the switches that may connect
  Urls,          \* the urls clients ask for
  Bodies,        \* the POST bodies clients send
  IntHalf,       \* an int is from -IntHalf to IntHalf - 1: 2^31 in the code
  DpidValues,    \* how many values a datapathid has: 2^64 in the code
  MaxRequests,   \* bound: request events, without module Interserver
  MaxReplies,    \* bound: messages a switch sends back for one request
  MaxConnects    \* bound: switch connections made

\* What the handler can tell of a POST body.  "dpid" is the number written in
\* the dpid field, 0 when the field is missing or not a number; "args" are the
\* other fields (module InteractBuilders).
IsBody(b) ==
  /\ b.kind \in {"empty", "text", "json"}
  /\ b.type \in Types \cup {"absent", "other"}
  /\ b.dpid \in Int /\ b.checkerror \in BOOLEAN
  /\ DOMAIN b.args \subseteq STRING

ASSUME DpidsAssumption  == Dpids \subseteq Nat \ {0}
ASSUME UrlsAssumption   == Urls \subseteq STRING
ASSUME BodiesAssumption == \A b \in Bodies : IsBody(b)
ASSUME WidthAssumption  ==
  IntHalf \in Nat \ {0} /\ DpidValues \in Nat /\ 2 * IntHalf <= DpidValues
ASSUME BoundAssumption  ==
  MaxRequests \in Nat /\ MaxReplies \in Nat \ {0} /\ MaxConnects \in Nat

EmptyBody == [kind |-> "empty", type |-> "absent", dpid |-> 0,
              checkerror |-> FALSE, args |-> NoArgs]

\* A Request_msg: url and body, and the HTTP request (from 1) its body is from.
Msg == [id: Nat, url: Urls \cup {"cleared"}, body: Bodies \cup {EmptyBody}]
NoMsg == [id |-> 0, url |-> "cleared", body |-> EmptyBody]

VARIABLES
  queue,       \* posted events not yet dispatched, oldest first
  replyState,  \* _reply_state: the current request still wants a response
  autoMutex,   \* _auto_mutex: the delayed "Accepted" is armed
  autoPc,      \* auto_set_reply: "tick" (polling) or "sleep" (its 2 seconds)
  dpids,       \* _dpids
  tempPtr,     \* Msg_resolver::_temp_ptr: a type or "none"
  wire,        \* requests at the switches, with the replies still to come
  connected,   \* dpids in NOX's connection_map
  connects,    \* connections made so far
  current,     \* history: the Request_msg last given to handle_request
  responses,   \* history: for each request event handled, its response events
  armed,       \* history: id of the request that last set _auto_mutex, or 0
  late         \* history: some time a switch's message, or the "Accepted",
               \* was still to come for a request that was not the last handled

\* A request at a switch: the request event it is from (its number), the id of
\* that request and how many messages the switch may still send back.
Outstanding == [for: Nat, id: Nat, dpid: Dpids, left: 1..MaxReplies]

procVars == <<replyState, autoMutex, autoPc, tempPtr>>
netVars  == <<dpids, wire, connected, connects>>
histVars == <<current, responses, armed, late>>
rpVars   == <<queue, procVars, netVars, histVars>>

-----------------------------------------------------------------------------
(* Events.  No event of the code says which request it is about; in the     *)
(* model a message of a switch and a response carry, for the properties, the *)
(* id of the request that their text is about.                               *)

Request(m)      == [kind |-> "request", msg |-> m]
Response(i, st) == [kind |-> "response", id |-> i, status |-> st]
Reply(i)        == [kind |-> "reply", id |-> i]
Join(d)         == [kind |-> "join", dpid |-> d]
Leave(d)        == [kind |-> "leave", dpid |-> d]

\* A message of a switch that is about no request of the interserver.
Stray == Reply(0)

Statuses == {200, 400, 404, 500, 501}

Event ==
       [kind: {"request"}, msg: Msg]
  \cup [kind: {"response"}, id: Nat, status: Statuses]
  \cup [kind: {"reply"}, id: Nat]
  \cup [kind: {"join", "leave"}, dpid: Dpids]

At(kind) == queue # << >> /\ Head(queue).kind = kind

-----------------------------------------------------------------------------
(* Interpreting a request                                                  *)

\* atoi into an int: the low bits, read as two's complement.
Atoi(n) == ((n + IntHalf) % (2 * IntHalf)) - IntHalf

\* The datapathid built from that int: sign-extended to the width of a dpid.
interpret_dpid(n) == Atoi(n) % DpidValues

\* dpid_check: whether the switch is one of _dpids.
dpid_check(d) == \E i \in DOMAIN dpids : dpids[i] = d

\* The checks of handle_request in their order, with the status each failure
\* throws.  The last one is request_msg_creator's check of the arguments.
Checks(m) ==
  <<[ok |-> m.url = "/switches/info",                   status |-> 501],
    [ok |-> m.body.kind # "empty",                      status |-> 404],
    [ok |-> m.body.kind = "json",                       status |-> 400],
    [ok |-> m.body.type \in Types,                      status |-> 400],
    [ok |-> Atoi(m.body.dpid) # 0,                      status |-> 400],
    [ok |-> dpid_check(interpret_dpid(m.body.dpid)),    status |-> 404],
    [ok |-> request_msg_creator(m.body.type, m.body.args), status |-> 500]>>

\* The number of the check that init_interactor follows.
TypeCheck == 4

Passes(m, n) == \A i \in 1..n : Checks(m)[i].ok
FirstFailure(m, i) == ~Checks(m)[i].ok /\ Passes(m, i - 1)
-----------------------------------------------------------------------------
(* Request_processor's operations                                          *)

\* How many request events have been handled.
Handled == Len(responses)

\* postResponse with _reply_state set: "rest" is the queue it posts to, i the
\* id of the request that the response is about.
Post(rest, i, st) ==
  /\ replyState' = FALSE
  /\ queue' = Append(rest, Response(i, st))

\* Faulty postResponse: _reply_state is not looked at.
postResponse_NoGuard(rest, i, st) ==
  /\ Post(rest, i, st)
  /\ responses' = [responses EXCEPT ![Handled] = @ + 1]

\* postResponse, some time after handle_request: nothing is posted when no
\* response is wanted.
postResponse(rest, i, st) ==
  \/ /\ replyState
     /\ Post(rest, i, st)
     /\ responses' = [responses EXCEPT ![Handled] = @ + 1]
  \/ ~replyState /\ queue' = rest /\ UNCHANGED <<replyState, responses>>

\* What every path of handle_request does first.
Begin(m) ==
  /\ At("request") /\ m = Head(queue).msg
  /\ current' = m
  /\ late' = (late \/ autoMutex \/ \E n \in DOMAIN queue : queue[n].kind = "reply")

\* postResponse by handle_request itself, which has just set _reply_state.
Answer(m, st) ==
  /\ Post(Tail(queue), m.id, st)
  /\ responses' = Append(responses, 1)
  /\ UNCHANGED <<autoMutex, armed>>

\* handle_request, when check i throws.
RequestRejected(i) == LET m == Head(queue).msg IN
  /\ Begin(m)
  /\ FirstFailure(m, i)
  /\ Answer(m, Checks(m)[i].status)
  /\ tempPtr' = IF i > TypeCheck THEN m.body.type ELSE tempPtr
  /\ UNCHANGED <<autoPc, netVars>>

\* handle_request, when send_openflow_msg fails: the switch has gone (ESRCH),
\* its queue is full (EAGAIN) or the message cannot be packed.
RequestNotSent == LET m == Head(queue).msg IN
  /\ Begin(m)
  /\ Passes(m, Len(Checks(m)))
  /\ Answer(m, 500)
  /\ tempPtr' = "none"
  /\ UNCHANGED <<autoPc, netVars>>

\* handle_request, when the message is sent.  A modification is accepted at
\* once, or with checkerror armed for auto_set_reply; a query waits.
RequestSent == LET m == Head(queue).msg
                   d == interpret_dpid(m.body.dpid) IN
  /\ Begin(m)
  /\ Passes(m, Len(Checks(m)))
  /\ d \in connected
  /\ wire' = wire \cup {[for |-> Handled + 1, id |-> m.id, dpid |-> d,
                         left |-> MaxReplies]}
  /\ tempPtr' = "none"
  /\ \/ is_modify(m.body.type) /\ ~m.body.checkerror /\ Answer(m, 200)
     \/ /\ is_modify(m.body.type) => m.body.checkerror
        /\ replyState' = TRUE
        /\ queue' = Tail(queue)
        /\ responses' = Append(responses, 0)
        /\ autoMutex' = (autoMutex \/ is_modify(m.body.type))
        /\ armed' = IF is_modify(m.body.type) THEN m.id ELSE armed
  /\ UNCHANGED <<autoPc, dpids, connected, connects>>

\* Handler of Http_request_event.
handle_request ==
  \/ At("request") /\ \E i \in DOMAIN Checks(Head(queue).msg) : RequestRejected(i)
  \/ RequestNotSent
  \/ RequestSent

\* Handler of Interact_reply_event: whatever the switch said is the response.
handle_reply ==
  /\ At("reply")
  /\ postResponse(Tail(queue), Head(queue).id, 200)
  /\ UNCHANGED <<autoMutex, autoPc, tempPtr, netVars, current, armed, late>>

\* Faulty datapath_join_handler: the switch is not added to _dpids.
datapath_join_handler_NotAdded ==
  /\ At("join")
  /\ queue' = Tail(queue)
  /\ UNCHANGED <<procVars, netVars, histVars>>

\* Handler of Datapath_join_event.
datapath_join_handler ==
  /\ At("join")
  /\ dpids' = Append(dpids, Head(queue).dpid)
  /\ queue' = Tail(queue)
  /\ UNCHANGED <<procVars, wire, connected, connects, histVars>>

\* Handler of Datapath_leave_event: erases the first matching element.  With
\* none, erase(end()) is undefined: here the action has no step.
datapath_leave_handler == LET d == Head(queue).dpid IN
  /\ At("leave")
  /\ \E i \in DOMAIN dpids :
       /\ dpids[i] = d
       /\ \A j \in 1..(i - 1) : dpids[j] # d
       /\ dpids' = RemoveAt(dpids, i)
  /\ queue' = Tail(queue)
  /\ UNCHANGED <<procVars, wire, connected, connects, histVars>>

\* Faulty auto_set_reply: _auto_mutex is cleared before the sleep.
auto_sleep_DisarmFirst ==
  /\ autoPc = "tick" /\ autoMutex
  /\ autoPc' = "sleep"
  /\ autoMutex' = FALSE
  /\ UNCHANGED <<queue, replyState, tempPtr, netVars, histVars>>

\* auto_set_reply finds _auto_mutex set and goes to sleep for 2 seconds.
auto_sleep ==
  /\ autoPc = "tick" /\ autoMutex
  /\ autoPc' = "sleep"
  /\ UNCHANGED <<queue, replyState, autoMutex, tempPtr, netVars, histVars>>

\* Faulty auto_set_reply: disarms without a response.
auto_fire_Silent ==
  /\ autoPc = "sleep"
  /\ autoMutex' = FALSE
  /\ autoPc' = "tick"
  /\ UNCHANGED <<queue, replyState, tempPtr, netVars, histVars>>

\* auto_set_reply wakes up: it accepts whatever request is waiting, and disarms.
auto_fire ==
  /\ autoPc = "sleep"
  /\ postResponse(queue, armed, 200)
  /\ autoMutex' = FALSE
  /\ autoPc' = "tick"
  /\ armed' = 0
  /\ UNCHANGED <<tempPtr, netVars, current, late>>

-----------------------------------------------------------------------------
(* NOX and the switches                                                    *)

\* listen_state posts an Http_request_event.
PostRequest(m) ==
  /\ queue' = Append(queue, Request(m))
  /\ UNCHANGED <<procVars, netVars, histVars>>

\* Http_response_event is dispatched to its only handler, Interserver's.
TakeResponse ==
  /\ At("response")
  /\ queue' = Tail(queue)
  /\ UNCHANGED <<procVars, netVars, histVars>>

\* A switch sends a message for request w: an error, or one part of a query's
\* reply.  Each is an Ofp_msg_event, dispatched to its handler in
\* Interact_answer, which posts an Interact_reply_event.
SwitchReplies(w) ==
  /\ w \in wire
  /\ queue' = Append(queue, Reply(w.id))
  /\ wire' = (wire \ {w}) \cup (IF w.left = 1 THEN {} ELSE {[w EXCEPT !.left = @ - 1]})
  /\ late' = (late \/ w.for # Handled)
  /\ UNCHANGED <<procVars, dpids, connected, connects, current, responses, armed>>

\* A switch sends a message of these kinds that NOX itself or another
\* application asked for: Interact_answer cannot tell.  (Bound: only while
\* a response is wanted and nothing has been late.)
SwitchSaysElse ==
  /\ connected # {} /\ replyState /\ ~late
  /\ queue' = Append(queue, Stray)
  /\ late' = TRUE
  /\ UNCHANGED <<procVars, netVars, current, responses, armed>>

\* Faulty register_conn: the connection of the same dpid is not closed.
SwitchConnects_KeepOld(d) ==
  /\ connects < MaxConnects
  /\ connects' = connects + 1
  /\ connected' = connected \cup {d}
  /\ queue' = Append(queue, Join(d))
  /\ UNCHANGED <<procVars, dpids, wire, histVars>>

\* A switch finishes its handshake (register_conn): a connection already made
\* under its dpid is closed first, which posts a leave before the join.
SwitchConnects(d) ==
  /\ connects < MaxConnects
  /\ connects' = connects + 1
  /\ connected' = connected \cup {d}
  /\ queue' = queue \o (IF d \in connected THEN <<Leave(d), Join(d)>>
                                            ELSE <<Join(d)>>)
  /\ wire' = {w \in wire : w.dpid # d}
  /\ UNCHANGED <<procVars, dpids, histVars>>

\* A connection is lost or closed (Conn::close).
SwitchCloses(d) ==
  /\ d \in connected
  /\ connected' = connected \ {d}
  /\ queue' = Append(queue, Leave(d))
  /\ wire' = {w \in wire : w.dpid # d}
  /\ UNCHANGED <<procVars, dpids, connects, histVars>>

-----------------------------------------------------------------------------
InitRP ==
  /\ queue = << >> /\ replyState = FALSE /\ autoMutex = FALSE
  /\ autoPc = "tick" /\ dpids = << >> /\ tempPtr = "none" /\ wire = {}
  /\ connected = {} /\ connects = 0
  /\ current = NoMsg /\ responses = << >> /\ armed = 0 /\ late = FALSE

\* The steps that need no HTTP client: handlers, co-threads and switches.
Dispatch == handle_request \/ handle_reply
            \/ datapath_join_handler \/ datapath_leave_handler
AutoThread == auto_sleep \/ auto_fire
Switches ==
  \/ \E w \in wire : SwitchReplies(w)
  \/ SwitchSaysElse
  \/ \E d \in Dpids : SwitchConnects(d) \/ SwitchCloses(d)

\* The ids of the request handled last and of those that wait.
Asked == {current.id} \cup
         {queue[n].msg.id : n \in {m \in DOMAIN queue : queue[m].kind = "request"}}

\* The next client's request, in place of module Interserver.
ClientRequest ==
  \E i \in 1..MaxRequests, u \in Urls, b \in Bodies :
    /\ i \notin Asked /\ i - 1 \in Asked
    /\ PostRequest([id |-> i, url |-> u, body |-> b])

NextRP == Dispatch \/ AutoThread \/ TakeResponse \/ Switches \/ ClientRequest

\* The poll loop keeps dispatching and the co-threads keep waking up; clients
\* and switches owe nothing.
FairRP == WF_rpVars(Dispatch) /\ WF_rpVars(TakeResponse) /\ WF_rpVars(AutoThread)

SpecRP == InitRP /\ [][NextRP]_rpVars /\ FairRP

-----------------------------------------------------------------------------
(* Properties                                                              *)

\* The type of every variable of Request_processor and of its surroundings.
TypeOKRP ==
  /\ queue \in Seq(Event)
  /\ replyState \in BOOLEAN /\ autoMutex \in BOOLEAN
  /\ autoPc \in {"tick", "sleep"}
  /\ dpids \in Seq(Dpids)
  /\ tempPtr \in Types \cup {"none"}
  /\ wire \subseteq Outstanding
  /\ connected \subseteq Dpids
  /\ connects \in 0..MaxConnects
  /\ current \in Msg
  /\ responses \in Seq(Nat) /\ armed \in Nat /\ late \in BOOLEAN

\* No request event is answered twice, whatever comes for it and in whatever
\* order: a check's failure, several messages from the switch, messages for
\* other requests, the delayed "Accepted"; and one that _reply_state says is
\* still to be answered has not been.  A second response would release
\* _http_sync under the next client.
OneResponsePerRequest ==
  /\ \A n \in DOMAIN responses : responses[n] <= 1
  /\ replyState => responses # << >> /\ responses[Handled] = 0

\* A modification that is still without its response always has the delayed
\* "Accepted" armed, also when auto_set_reply was already sleeping for an
\* earlier request: nothing else is sure to answer it.
PendingModifyArmed ==
  replyState /\ is_modify(current.body.type) => autoMutex

\* Whether switch d is there once the first n events of q have been handled: it
\* was listed before, or has joined, and has not left since.
UpAfter(q, listed, d, n) ==
  \/ \E j \in 1..n : q[j] = Join(d) /\ \A k \in (j + 1)..n : q[k] # Leave(d)
  \/ listed /\ \A k \in 1..n : q[k] # Leave(d)

\* The events of q about switch d alternate, starting from whether it is listed
\* and ending at whether it is connected.
Alternate(q, listed, d, isConnected) ==
  /\ \A i \in DOMAIN q :
       /\ q[i] = Join(d)  => ~UpAfter(q, listed, d, i - 1)
       /\ q[i] = Leave(d) => UpAfter(q, listed, d, i - 1)
  /\ isConnected = UpAfter(q, listed, d, Len(q))

\* _dpids never lists a switch twice, and a queued leave always finds its
\* dpid: the events of a dpid alternate, starting from what _dpids says and
\* ending at what connection_map says.
DpidsFollowConnections ==
  /\ TypeOKRP
  /\ \A i, j \in DOMAIN dpids : dpids[i] = dpids[j] => i = j
  /\ \A d \in Dpids : Alternate(queue, dpid_check(d), d, d \in connected)

\* A modification is always answered, by the check, the switch or, two
\* seconds later, by auto_set_reply: the processor never waits for a switch
\* that has nothing to say.
ModifyAnswered ==
  replyState /\ is_modify(current.body.type) ~> ~replyState
=============================================================================
