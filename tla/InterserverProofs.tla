-------------------------- MODULE InterserverProofs --------------------------
(***************************************************************************)
(* Proofs about Interserver and the RequestProcessor it extends, for any   *)
(* requests, switches, bodies, widths and bounds: first what holds of      *)
(* Request_processor by itself (SpecRP); then that it still holds with the *)
(* HTTP thread before it, and that up to the first time-out the two        *)
(* threads move in step.                                                   *)
(***************************************************************************)
EXTENDS Interserver, SequenceTheorems, TLAPS

-----------------------------------------------------------------------------
(* What the operators return                                               *)

\* The queued event a handler takes has its type, and the rest is a queue.
LEMMA HeadOfQueue ==
  ASSUME queue \in Seq(Event), queue # << >>
  PROVE  Head(queue) \in Event /\ Tail(queue) \in Seq(Event)
  OBVIOUS

\* A dispatched request event carries a Request_msg.
LEMMA RequestHead ==
  ASSUME queue \in Seq(Event), At("request")
  PROVE  /\ Head(queue).msg \in Msg
         /\ Tail(queue) \in Seq(Event)
<1>1. Head(queue) \in Event /\ Tail(queue) \in Seq(Event)
  BY HeadOfQueue DEF At
<1>2. Head(queue) \in [kind: {"request"}, msg: Msg]
  BY <1>1 DEF At, Event
<1>3. QED BY <1>1, <1>2

\* A dispatched reply event carries the id of the request it is about.
LEMMA ReplyHead ==
  ASSUME queue \in Seq(Event), At("reply")
  PROVE  Head(queue).id \in Nat /\ Tail(queue) \in Seq(Event)
<1>1. Head(queue) \in Event /\ Tail(queue) \in Seq(Event)
  BY HeadOfQueue DEF At
<1>2. Head(queue) \in [kind: {"reply"}, id: Nat]
  BY <1>1 DEF At, Event
<1>3. QED BY <1>1, <1>2

\* Every failure of handle_request has one of the statuses.
LEMMA ChecksStatus ==
  ASSUME NEW m, NEW i \in DOMAIN Checks(m)
  PROVE  i \in 1..7 /\ Checks(m)[i].status \in Statuses
  BY DEF Checks, Statuses

\* Past the type check, the type is one the resolver knows.
LEMMA TypeChecked ==
  ASSUME NEW m, NEW n \in Nat, n >= TypeCheck, Passes(m, n)
  PROVE  m.body.type \in Types
<1>1. 4 \in 1..n
  BY DEF TypeCheck
<1>2. Checks(m)[4].ok
  BY <1>1 DEF Passes
<1>3. Checks(m)[4] = [ok |-> m.body.type \in Types, status |-> 400]
  BY DEF Checks
<1>4. Checks(m)[4].ok = (m.body.type \in Types)
  BY <1>3
<1>5. QED BY <1>2, <1>4

\* Every event that can be queued is an Event.
LEMMA EventTypes ==
  /\ \A msg \in Msg : Request(msg) \in Event
  /\ \A i \in Nat, st \in Statuses : Response(i, st) \in Event
  /\ \A n \in Nat : Reply(n) \in Event
  /\ \A d \in Dpids : Join(d) \in Event /\ Leave(d) \in Event
  BY DEF Event, Request, Response, Reply, Join, Leave

-----------------------------------------------------------------------------
(* The inductive invariant                                                 *)

\* What is shown to hold in every state.
InvRP == TypeOKRP /\ OneResponsePerRequest /\ PendingModifyArmed

\* Post, on a queue, keeps the type invariant's part about what it changes.
LEMMA PostTypes ==
  ASSUME NEW rest \in Seq(Event), NEW i \in Nat, NEW st \in Statuses,
         Post(rest, i, st)
  PROVE  queue' \in Seq(Event) /\ replyState' = FALSE
  BY EventTypes DEF Post

\* One more request event has been handled, with n responses so far.
LEMMA OneMoreHandled ==
  ASSUME InvRP, NEW n \in {0, 1}, responses' = Append(responses, n),
         replyState' => n = 0
  PROVE  responses' \in Seq(Nat) /\ OneResponsePerRequest'
<1>1. responses \in Seq(Nat) /\ \A i \in DOMAIN responses : responses[i] <= 1
  BY DEF InvRP, TypeOKRP, OneResponsePerRequest
<1>2. /\ responses' \in Seq(Nat) /\ responses' # << >>
      /\ Len(responses') = Len(responses) + 1
      /\ responses'[Len(responses) + 1] = n
      /\ \A i \in DOMAIN responses' :
           (i \in DOMAIN responses /\ responses'[i] = responses[i])
           \/ i = Len(responses) + 1
  BY <1>1
<1>3. QED BY <1>1, <1>2 DEF OneResponsePerRequest, Handled

\* A request that is answered on the spot leaves the invariant true.
LEMMA AnsweredAtOnce ==
  ASSUME InvRP, NEW m \in Msg, NEW st \in Statuses,
         Tail(queue) \in Seq(Event), Answer(m, st),
         current' \in Msg, late' \in BOOLEAN,
         tempPtr' \in Types \cup {"none"},
         wire' \subseteq Outstanding,
         UNCHANGED <<autoPc, dpids, connected, connects>>
  PROVE  InvRP'
<1>1. queue' \in Seq(Event) /\ replyState' = FALSE
  <2>1. m.id \in Nat
    BY DEF Msg
  <2>2. QED BY <2>1, PostTypes DEF Answer
<1>2. responses' \in Seq(Nat) /\ OneResponsePerRequest'
  BY <1>1, OneMoreHandled DEF Answer
<1>3. TypeOKRP'
  BY <1>1, <1>2 DEF Answer, InvRP, TypeOKRP
<1>4. PendingModifyArmed'
  BY <1>1 DEF PendingModifyArmed
<1>5. QED BY <1>2, <1>3, <1>4 DEF InvRP

\* handle_request keeps the invariant on each of its paths.
LEMMA RequestStep ==
  ASSUME InvRP, handle_request
  PROVE  InvRP'
<1> DEFINE m == Head(queue).msg
<1>1. At("request")
  BY DEF handle_request, RequestNotSent, RequestSent, Begin
<1>2. m \in Msg /\ Tail(queue) \in Seq(Event)
  BY <1>1, RequestHead DEF InvRP, TypeOKRP
<1>3. 500 \in Statuses /\ 200 \in Statuses /\ responses \in Seq(Nat)
  BY DEF InvRP, TypeOKRP, Statuses
<1>4. current' = m /\ late' \in BOOLEAN
  <2>1. Begin(m)
    BY DEF handle_request, RequestRejected, RequestNotSent, RequestSent
  <2>2. late \in BOOLEAN /\ autoMutex \in BOOLEAN
    BY DEF InvRP, TypeOKRP
  <2>3. QED BY <2>1, <2>2 DEF Begin
<1>a. CASE \E i \in DOMAIN Checks(m) : RequestRejected(i)
  <2>1. PICK i \in DOMAIN Checks(m) : RequestRejected(i)
    BY <1>a
  <2>2. i \in 1..7 /\ Checks(m)[i].status \in Statuses
    BY ChecksStatus
  <2>3. Answer(m, Checks(m)[i].status)
    BY <2>1 DEF RequestRejected
  <2>4. tempPtr' \in Types \cup {"none"}
    <3>1. CASE i > TypeCheck
      <4>1. Passes(m, i - 1) /\ i - 1 \in Nat /\ i - 1 >= TypeCheck
        BY <2>1, <2>2, <3>1 DEF RequestRejected, FirstFailure, TypeCheck
      <4>2. m.body.type \in Types
        BY <4>1, TypeChecked
      <4>3. QED BY <2>1, <3>1, <4>2 DEF RequestRejected
    <3>2. CASE ~(i > TypeCheck)
      BY <2>1, <3>2 DEF RequestRejected, InvRP, TypeOKRP
    <3>3. QED BY <3>1, <3>2
  <2>5. UNCHANGED <<autoPc, dpids, wire, connected, connects>>
    BY <2>1 DEF RequestRejected, netVars
  <2>6. wire' \subseteq Outstanding
    BY <2>5 DEF InvRP, TypeOKRP
  <2>7. QED
    BY <1>2, <1>4, <2>2, <2>3, <2>4, <2>5, <2>6, AnsweredAtOnce
<1>b. CASE RequestNotSent
  <2>1. /\ tempPtr' = "none" /\ Answer(m, 500)
        /\ UNCHANGED <<autoPc, dpids, wire, connected, connects>>
    BY <1>b DEF RequestNotSent, netVars
  <2>2. wire' \subseteq Outstanding
    BY <2>1 DEF InvRP, TypeOKRP
  <2>3. QED
    BY <1>2, <1>3, <1>4, <2>1, <2>2, AnsweredAtOnce
<1>c. CASE RequestSent
  <2> DEFINE d == interpret_dpid(m.body.dpid)
             w == [for |-> Handled + 1, id |-> m.id, dpid |-> d,
                   left |-> MaxReplies]
  <2>1. d \in Dpids
    <3>1. d \in connected
      BY <1>c DEF RequestSent
    <3>2. connected \subseteq Dpids
      BY DEF InvRP, TypeOKRP
    <3>3. QED BY <3>1, <3>2
  <2>2. w \in Outstanding
    <3>1. Handled + 1 \in Nat
      BY <1>3 DEF Handled
    <3>2. MaxReplies \in 1..MaxReplies
      BY BoundAssumption
    <3>3. m.id \in Nat
      BY <1>2 DEF Msg
    <3> HIDE DEF d, m
    <3>4. QED BY <2>1, <3>1, <3>2, <3>3 DEF Outstanding
  <2>3. wire' = wire \cup {w}
    BY <1>c DEF RequestSent
  <2>4. wire' \subseteq Outstanding
    BY <2>2, <2>3 DEF InvRP, TypeOKRP
  <2>5. /\ tempPtr' = "none"
        /\ UNCHANGED <<autoPc, dpids, connected, connects>>
    BY <1>c DEF RequestSent
  <2>6. CASE Answer(m, 200)
    BY <1>2, <1>3, <1>4, <2>4, <2>5, <2>6, AnsweredAtOnce
  <2>7. CASE /\ replyState' = TRUE
             /\ queue' = Tail(queue)
             /\ responses' = Append(responses, 0)
             /\ autoMutex' = (autoMutex \/ is_modify(m.body.type))
             /\ armed' = IF is_modify(m.body.type) THEN m.id ELSE armed
    <3>1. autoMutex' \in BOOLEAN /\ armed' \in Nat
      <4>1. m.id \in Nat /\ armed \in Nat
        BY <1>2 DEF Msg, InvRP, TypeOKRP
      <4>2. QED BY <2>7, <4>1
    <3>2. responses' \in Seq(Nat) /\ OneResponsePerRequest'
      BY <2>7, OneMoreHandled
    <3>3. TypeOKRP'
      BY <1>2, <1>4, <2>4, <2>5, <2>7, <3>1, <3>2 DEF InvRP, TypeOKRP
    <3>4. PendingModifyArmed'
      BY <1>4, <2>7 DEF PendingModifyArmed
    <3>5. QED BY <3>2, <3>3, <3>4 DEF InvRP
  <2>8. QED BY <1>c, <2>6, <2>7 DEF RequestSent
<1>d. QED BY <1>a, <1>b, <1>c DEF handle_request

\* postResponse posts at most the first response of the last request, and
\* leaves a queue.
LEMMA ResponseStep ==
  ASSUME InvRP, NEW rest \in Seq(Event), NEW i \in Nat, postResponse(rest, i, 200)
  PROVE  /\ queue' \in Seq(Event)
         /\ replyState' = FALSE
         /\ responses' \in Seq(Nat)
         /\ OneResponsePerRequest'
<1>1. /\ responses \in Seq(Nat) /\ replyState \in BOOLEAN
      /\ \A n \in DOMAIN responses : responses[n] <= 1
      /\ replyState => responses # << >> /\ responses[Len(responses)] = 0
  BY DEF InvRP, TypeOKRP, OneResponsePerRequest, Handled
<1>2. CASE /\ replyState /\ Post(rest, i, 200)
           /\ responses' = [responses EXCEPT ![Handled] = @ + 1]
  <2>1. queue' \in Seq(Event) /\ replyState' = FALSE
    <3>1. 200 \in Statuses
      BY DEF Statuses
    <3>2. QED BY <1>2, <3>1, PostTypes
  <2>2. /\ Len(responses) \in DOMAIN responses
        /\ responses' = [responses EXCEPT ![Len(responses)] = 1]
    <3>1. responses # << >> /\ responses[Len(responses)] = 0
      BY <1>1, <1>2
    <3>2. responses' = [responses EXCEPT ![Len(responses)] = responses[Len(responses)] + 1]
      BY <1>2 DEF Handled
    <3>3. Len(responses) \in DOMAIN responses
      BY <1>1, <3>1
    <3>4. QED BY <3>1, <3>2, <3>3
  <2>3. responses' \in Seq(Nat) /\ \A n \in DOMAIN responses' : responses'[n] <= 1
    BY <1>1, <2>2
  <2>4. QED BY <2>1, <2>3 DEF OneResponsePerRequest
<1>3. CASE ~replyState /\ queue' = rest /\ UNCHANGED <<replyState, responses>>
  BY <1>1, <1>3 DEF OneResponsePerRequest
<1>4. QED BY <1>2, <1>3 DEF postResponse

\* Steps that leave the processor's own variables alone keep the invariant
\* when they keep the types.
LEMMA ElsewhereStep ==
  ASSUME InvRP, UNCHANGED <<replyState, autoMutex, autoPc, tempPtr>>,
         UNCHANGED <<current, responses, armed>>, late' \in BOOLEAN,
         queue' \in Seq(Event), dpids' \in Seq(Dpids),
         wire' \subseteq Outstanding,
         connected' \subseteq Dpids, connects' \in 0..MaxConnects
  PROVE  InvRP'
<1>1. TypeOKRP'
  BY DEF InvRP, TypeOKRP
<1>2. OneResponsePerRequest'
  BY DEF InvRP, OneResponsePerRequest, Handled
<1>3. PendingModifyArmed'
  BY DEF InvRP, PendingModifyArmed
<1>4. QED BY <1>1, <1>2, <1>3 DEF InvRP

\* handle_reply, the connection handlers and auto_set_reply keep it.
LEMMA HandlerStep ==
  ASSUME InvRP,
         \/ handle_reply \/ datapath_join_handler \/ datapath_leave_handler
         \/ auto_sleep \/ auto_fire \/ TakeResponse
  PROVE  InvRP'
<1> USE DEF procVars, netVars, histVars
<1>0. TypeOKRP
  BY DEF InvRP
<1>1. CASE handle_reply
  <2>1. Tail(queue) \in Seq(Event) /\ Head(queue).id \in Nat
    BY <1>0, <1>1, ReplyHead DEF handle_reply, TypeOKRP
  <2>2. postResponse(Tail(queue), Head(queue).id, 200)
    BY <1>1 DEF handle_reply
  <2>3. UNCHANGED <<autoMutex, autoPc, tempPtr, dpids, wire, connected,
                    connects, current, armed, late>>
    BY <1>1 DEF handle_reply
  <2>4. /\ queue' \in Seq(Event) /\ replyState' = FALSE /\ responses' \in Seq(Nat)
        /\ OneResponsePerRequest'
    BY <2>1, <2>2, ResponseStep
  <2>5. TypeOKRP' BY <1>0, <2>3, <2>4 DEF TypeOKRP
  <2>6. PendingModifyArmed' BY <2>4 DEF PendingModifyArmed
  <2>7. QED BY <2>4, <2>5, <2>6 DEF InvRP
<1>2. CASE datapath_join_handler
  <2>1. Head(queue) \in Event /\ Tail(queue) \in Seq(Event)
    BY <1>0, <1>2, HeadOfQueue DEF datapath_join_handler, At, TypeOKRP
  <2>2. Head(queue).dpid \in Dpids
    BY <1>2, <2>1 DEF datapath_join_handler, At, Event
  <2>3. dpids' \in Seq(Dpids)
    BY <1>0, <1>2, <2>2 DEF datapath_join_handler, TypeOKRP
  <2>4. QED
    BY <1>0, <1>2, <2>1, <2>3, ElsewhereStep DEF datapath_join_handler, TypeOKRP
<1>3. CASE datapath_leave_handler
  <2>1. Tail(queue) \in Seq(Event)
    BY <1>0, <1>3, HeadOfQueue DEF datapath_leave_handler, At, TypeOKRP
  <2>2. PICK i \in DOMAIN dpids : dpids' = RemoveAt(dpids, i)
    BY <1>3 DEF datapath_leave_handler
  <2>3. i \in 1..Len(dpids) /\ dpids \in Seq(Dpids)
    BY <1>0 DEF TypeOKRP
  <2>4. /\ SubSeq(dpids, 1, i - 1) \in Seq(Dpids)
        /\ SubSeq(dpids, i + 1, Len(dpids)) \in Seq(Dpids)
    BY <2>3
  <2>5. dpids' \in Seq(Dpids)
    BY <2>2, <2>4 DEF RemoveAt
  <2>6. QED
    BY <1>0, <1>3, <2>1, <2>5, ElsewhereStep DEF datapath_leave_handler, TypeOKRP
<1>4. CASE auto_sleep
  <2>1. TypeOKRP' BY <1>0, <1>4 DEF auto_sleep, TypeOKRP
  <2>2. OneResponsePerRequest'
    BY <1>4 DEF InvRP, auto_sleep, OneResponsePerRequest, Handled
  <2>3. PendingModifyArmed'
    BY <1>4 DEF InvRP, auto_sleep, PendingModifyArmed
  <2>4. QED BY <2>1, <2>2, <2>3 DEF InvRP
<1>5. CASE auto_fire
  <2>1. postResponse(queue, armed, 200) /\ autoMutex' = FALSE /\ autoPc' = "tick"
    BY <1>5 DEF auto_fire
  <2>2. /\ UNCHANGED <<tempPtr, dpids, wire, connected, connects, current, late>>
        /\ armed' = 0
    BY <1>5 DEF auto_fire
  <2>3. /\ queue' \in Seq(Event) /\ replyState' = FALSE /\ responses' \in Seq(Nat)
        /\ OneResponsePerRequest'
    BY <1>0, <2>1, ResponseStep DEF TypeOKRP
  <2>4. TypeOKRP' BY <1>0, <2>1, <2>2, <2>3 DEF TypeOKRP
  <2>5. PendingModifyArmed' BY <2>3 DEF PendingModifyArmed
  <2>6. QED BY <2>3, <2>4, <2>5 DEF InvRP
<1>6. CASE TakeResponse
  <2>1. Tail(queue) \in Seq(Event)
    BY <1>0, <1>6, HeadOfQueue DEF TakeResponse, At, TypeOKRP
  <2>2. QED BY <1>0, <1>6, <2>1, ElsewhereStep DEF TakeResponse, TypeOKRP
<1>7. QED BY <1>1, <1>2, <1>3, <1>4, <1>5, <1>6

\* What clients and switches do keeps the invariant.
LEMMA EnvironmentStep ==
  ASSUME InvRP, Switches \/ ClientRequest
  PROVE  InvRP'
<1> USE DEF procVars, netVars, histVars
<1>0. TypeOKRP
  BY DEF InvRP
<1>1. ASSUME NEW w \in wire, SwitchReplies(w) PROVE InvRP'
  <2>1. w \in Outstanding
    BY <1>0 DEF TypeOKRP
  <2>2. Reply(w.id) \in Event
    BY <2>1, EventTypes DEF Outstanding
  <2>3. w.left # 1 => [w EXCEPT !.left = @ - 1] \in Outstanding
    BY <2>1, BoundAssumption DEF Outstanding
  <2>4. queue' \in Seq(Event)
    BY <1>0, <1>1, <2>2 DEF SwitchReplies, TypeOKRP
  <2>5. wire' \subseteq Outstanding /\ late' \in BOOLEAN
    BY <1>0, <1>1, <2>3 DEF SwitchReplies, TypeOKRP
  <2>6. QED
    BY <1>0, <1>1, <2>4, <2>5, ElsewhereStep DEF SwitchReplies, TypeOKRP
<1>e. CASE SwitchSaysElse
  <2>1. queue' \in Seq(Event) /\ late' \in BOOLEAN
    <3>1. Stray \in Event
      BY EventTypes DEF Stray
    <3>2. QED BY <1>0, <1>e, <3>1 DEF SwitchSaysElse, TypeOKRP
  <2>2. QED BY <1>0, <1>e, <2>1, ElsewhereStep DEF SwitchSaysElse, TypeOKRP
<1>2. ASSUME NEW d \in Dpids, SwitchConnects(d) PROVE InvRP'
  <2>1. Leave(d) \in Event /\ Join(d) \in Event
    BY EventTypes
  <2>2. queue' \in Seq(Event)
    BY <1>0, <1>2, <2>1 DEF SwitchConnects, TypeOKRP
  <2>3. wire' \subseteq Outstanding /\ connected' \subseteq Dpids
    BY <1>0, <1>2 DEF SwitchConnects, TypeOKRP
  <2>4. connects' \in 0..MaxConnects
    BY <1>0, <1>2, BoundAssumption DEF SwitchConnects, TypeOKRP
  <2>5. QED
    BY <1>0, <1>2, <2>2, <2>3, <2>4, ElsewhereStep DEF SwitchConnects, TypeOKRP
<1>3. ASSUME NEW d \in Dpids, SwitchCloses(d) PROVE InvRP'
  <2>1. queue' \in Seq(Event)
    BY <1>0, <1>3, EventTypes DEF SwitchCloses, TypeOKRP
  <2>2. wire' \subseteq Outstanding /\ connected' \subseteq Dpids
    BY <1>0, <1>3 DEF SwitchCloses, TypeOKRP
  <2>3. QED
    BY <1>0, <1>3, <2>1, <2>2, ElsewhereStep DEF SwitchCloses, TypeOKRP
<1>4. CASE ClientRequest
  <2>1. PICK i \in 1..MaxRequests, u \in Urls, b \in Bodies :
          PostRequest([id |-> i, url |-> u, body |-> b])
    BY <1>4 DEF ClientRequest
  <2> DEFINE msg == [id |-> i, url |-> u, body |-> b]
  <2>2. msg \in Msg
    BY BoundAssumption DEF Msg
  <2>3. queue' \in Seq(Event)
    <3>1. Request(msg) \in Event
      BY <2>2, EventTypes
    <3>2. queue' = Append(queue, Request(msg)) /\ queue \in Seq(Event)
      BY <1>0, <2>1 DEF PostRequest, TypeOKRP
    <3> HIDE DEF msg
    <3>3. QED BY <3>1, <3>2
  <2>4. QED BY <1>0, <2>1, <2>3, ElsewhereStep DEF PostRequest, TypeOKRP
<1>5. QED BY <1>1, <1>e, <1>2, <1>3, <1>4 DEF Switches

-----------------------------------------------------------------------------
(* The switches of _dpids and the events about them                        *)

\* The events can be told apart.
LEMMA EventsDiffer ==
  /\ \A d, c : Join(d) # Leave(c)
  /\ \A d, c : (Join(d) = Join(c) \/ Leave(d) = Leave(c)) => d = c
  /\ \A d, i, st : Join(d) # Response(i, st) /\ Leave(d) # Response(i, st)
  /\ \A d, n : Join(d) # Reply(n) /\ Leave(d) # Reply(n)
  /\ \A d, m : Join(d) # Request(m) /\ Leave(d) # Request(m)
<1>1. \A d : Join(d).kind = "join" /\ Leave(d).kind = "leave"
             /\ Join(d).dpid = d /\ Leave(d).dpid = d
  BY DEF Join, Leave
<1>2. \A n, i, st, m : /\ Response(i, st).kind = "response"
                       /\ Reply(n).kind = "reply" /\ Request(m).kind = "request"
  BY DEF Response, Reply, Request
<1>3. QED BY <1>1, <1>2

\* What one more event does to a switch's presence, and what none does.
LEMMA UpOneMore ==
  ASSUME NEW q, NEW d, NEW listed \in BOOLEAN, NEW n \in Nat
  PROVE  UpAfter(q, listed, d, n + 1) =
           (q[n + 1] = Join(d)
            \/ (UpAfter(q, listed, d, n) /\ q[n + 1] # Leave(d)))
<1>0. /\ n + 1 \in 1..(n + 1)
      /\ \A k \in 1..(n + 1) : k = n + 1 \/ k \in 1..n
      /\ \A k \in 1..n : k \in 1..(n + 1) /\ n + 1 \in (k + 1)..(n + 1)
      /\ \A j \in 1..n : \A k \in (j + 1)..(n + 1) : k = n + 1 \/ k \in (j + 1)..n
      /\ \A j \in 1..n : \A k \in (j + 1)..n : k \in (j + 1)..(n + 1)
      /\ \A k : k \notin (n + 1 + 1)..(n + 1)
  OBVIOUS
<1>1. ASSUME UpAfter(q, listed, d, n + 1)
      PROVE  q[n + 1] = Join(d) \/ (UpAfter(q, listed, d, n) /\ q[n + 1] # Leave(d))
  BY <1>0, <1>1, Zenon DEF UpAfter
<1>2. ASSUME q[n + 1] = Join(d)
      PROVE  UpAfter(q, listed, d, n + 1)
  BY <1>0, <1>2 DEF UpAfter
<1>3. ASSUME UpAfter(q, listed, d, n), q[n + 1] # Leave(d)
      PROVE  UpAfter(q, listed, d, n + 1)
  BY <1>0, <1>3, Zenon DEF UpAfter
<1>4. UpAfter(q, listed, d, n + 1) \in BOOLEAN
  BY DEF UpAfter
<1>5. QED BY <1>1, <1>2, <1>3, <1>4

LEMMA UpAtStart ==
  ASSUME NEW q, NEW d, NEW listed \in BOOLEAN
  PROVE  UpAfter(q, listed, d, 0) = listed
<1>1. \A k : k \notin 1..0
  OBVIOUS
<1>2. QED BY <1>1 DEF UpAfter

\* An event appended to the queue: if it is about d, it has to fit.
LEMMA AppendAlternates ==
  ASSUME NEW q \in Seq(Event), NEW e \in Event, NEW d, NEW listed, NEW was, NEW is,
         listed \in BOOLEAN, was \in BOOLEAN, is \in BOOLEAN,
         Alternate(q, listed, d, was),
         e = Join(d) => ~was, e = Leave(d) => was,
         is <=> (e = Join(d) \/ (was /\ e # Leave(d)))
  PROVE  Alternate(Append(q, e), listed, d, is)
<1> DEFINE r == Append(q, e)
<1>1. /\ r \in Seq(Event) /\ Len(r) = Len(q) + 1 /\ Len(q) \in Nat
      /\ \A i \in 1..Len(q) : r[i] = q[i]
      /\ r[Len(q) + 1] = e
      /\ DOMAIN r = 1..(Len(q) + 1) /\ DOMAIN q = 1..Len(q)
  OBVIOUS
<1> HIDE DEF r
<1>2. \A n \in 0..Len(q) : UpAfter(r, listed, d, n) = UpAfter(q, listed, d, n)
  BY <1>1 DEF UpAfter
<1>3. was = UpAfter(q, listed, d, Len(q))
  BY DEF Alternate
<1>4. UpAfter(r, listed, d, Len(q) + 1) =
        (e = Join(d) \/ (UpAfter(r, listed, d, Len(q)) /\ e # Leave(d)))
  <2>1. Len(q) \in Nat /\ r[Len(q) + 1] = e
    BY <1>1
  <2>2. UpAfter(r, listed, d, Len(q) + 1) =
          (r[Len(q) + 1] = Join(d)
           \/ (UpAfter(r, listed, d, Len(q)) /\ r[Len(q) + 1] # Leave(d)))
    BY <2>1, UpOneMore, Zenon
  <2>3. QED BY <2>1, <2>2, Zenon
<1>5. ASSUME NEW i \in DOMAIN r
      PROVE  /\ r[i] = Join(d)  => ~UpAfter(r, listed, d, i - 1)
             /\ r[i] = Leave(d) => UpAfter(r, listed, d, i - 1)
  <2>1. CASE i \in 1..Len(q)
    <3>1. i - 1 \in 0..Len(q) /\ r[i] = q[i] /\ i \in DOMAIN q
      BY <1>1, <2>1
    <3>2. QED BY <3>1, <1>2 DEF Alternate
  <2>2. CASE i = Len(q) + 1
    BY <2>2, <1>1, <1>2, <1>3
  <2>3. QED BY <1>1, <2>1, <2>2
<1>6. is = UpAfter(r, listed, d, Len(r))
  BY <1>1, <1>2, <1>3, <1>4
<1>7. Alternate(r, listed, d, is)
  BY <1>5, <1>6 DEF Alternate
<1>8. QED BY <1>7 DEF r

\* The first event leaves the queue, and is taken account of in the list.
LEMMA TailAlternates ==
  ASSUME NEW q \in Seq(Event), q # << >>, NEW d, NEW listed, NEW now, NEW conn,
         listed \in BOOLEAN, now \in BOOLEAN, conn \in BOOLEAN,
         Alternate(q, listed, d, conn),
         now <=> (Head(q) = Join(d) \/ (listed /\ Head(q) # Leave(d)))
  PROVE  /\ Alternate(Tail(q), now, d, conn)
         /\ Head(q) = Join(d)  => ~listed
         /\ Head(q) = Leave(d) => listed
<1> DEFINE r == Tail(q)
<1>1. /\ r \in Seq(Event) /\ Len(r) = Len(q) - 1 /\ Len(r) \in Nat
      /\ \A i \in 1..Len(r) : r[i] = q[i + 1]
      /\ Head(q) = q[1] /\ DOMAIN r = 1..Len(r) /\ DOMAIN q = 1..(Len(r) + 1)
  OBVIOUS
<1> HIDE DEF r
<1>2. ASSUME NEW n \in 0..Len(r)
      PROVE  UpAfter(r, now, d, n) = UpAfter(q, listed, d, n + 1)
  <2>1. ASSUME UpAfter(r, now, d, n) PROVE UpAfter(q, listed, d, n + 1)
    <3>1. CASE \E j \in 1..n : r[j] = Join(d) /\ \A k \in (j + 1)..n : r[k] # Leave(d)
      <4>1. PICK j \in 1..n : r[j] = Join(d) /\ \A k \in (j + 1)..n : r[k] # Leave(d)
        BY <3>1
      <4>2. j + 1 \in 1..(n + 1) /\ q[j + 1] = Join(d)
        BY <1>1, <4>1
      <4>3. \A k \in (j + 1 + 1)..(n + 1) : q[k] # Leave(d)
        <5>1. ASSUME NEW k \in (j + 1 + 1)..(n + 1) PROVE q[k] # Leave(d)
          <6>1. k - 1 \in (j + 1)..n /\ k - 1 \in 1..Len(r)
            BY <4>1
          <6>2. q[k - 1 + 1] = r[k - 1] /\ k - 1 + 1 = k
            BY <6>1, <1>1
          <6>3. QED BY <6>1, <6>2, <4>1
        <5>2. QED BY <5>1
      <4>4. QED BY <4>2, <4>3 DEF UpAfter
    <3>2. CASE now /\ \A k \in 1..n : r[k] # Leave(d)
      <4>1. \A k \in 2..(n + 1) : q[k] # Leave(d)
        <5>1. ASSUME NEW k \in 2..(n + 1) PROVE q[k] # Leave(d)
          <6>1. k - 1 \in 1..n /\ k - 1 \in 1..Len(r)
            OBVIOUS
          <6>2. q[k - 1 + 1] = r[k - 1] /\ k - 1 + 1 = k
            BY <6>1, <1>1
          <6>3. QED BY <6>1, <6>2, <3>2
        <5>2. QED BY <5>1
      <4>2. CASE Head(q) = Join(d)
        <5>1. 1 \in 1..(n + 1) /\ q[1] = Join(d) /\ 1 + 1 = 2
          BY <4>2, <1>1
        <5>2. QED BY <5>1, <4>1 DEF UpAfter
      <4>3. CASE listed /\ Head(q) # Leave(d)
        <5>1. \A k \in 1..(n + 1) : k = 1 \/ k \in 2..(n + 1)
          OBVIOUS
        <5>2. QED BY <5>1, <4>1, <4>3, <1>1 DEF UpAfter
      <4>4. QED BY <3>2, <4>2, <4>3
    <3>3. QED BY <2>1, <3>1, <3>2 DEF UpAfter
  <2>2. ASSUME UpAfter(q, listed, d, n + 1) PROVE UpAfter(r, now, d, n)
    <3>0. \A k \in 1..n : r[k] = q[k + 1] /\ k + 1 \in 1..(n + 1)
      BY <1>1
    <3>1. CASE \E j \in 1..(n + 1) :
                 q[j] = Join(d) /\ \A k \in (j + 1)..(n + 1) : q[k] # Leave(d)
      <4>1. PICK j \in 1..(n + 1) :
                 q[j] = Join(d) /\ \A k \in (j + 1)..(n + 1) : q[k] # Leave(d)
        BY <3>1
      <4>2. CASE j = 1
        <5>1. now
          BY <4>1, <4>2, <1>1
        <5>2. \A k \in 1..n : r[k] # Leave(d)
          BY <3>0, <4>1, <4>2
        <5>3. QED BY <5>1, <5>2 DEF UpAfter
      <4>3. CASE j # 1
        <5>1. j - 1 \in 1..n /\ r[j - 1] = Join(d)
          <6>1. j - 1 \in 1..n /\ j - 1 + 1 = j
            BY <4>3
          <6>2. QED BY <6>1, <3>0, <4>1
        <5>2. ASSUME NEW k \in (j - 1 + 1)..n PROVE r[k] # Leave(d)
          <6>1. k \in 1..n /\ k + 1 \in (j + 1)..(n + 1)
            BY <4>3
          <6>2. QED BY <6>1, <3>0, <4>1
        <5>3. QED BY <5>1, <5>2 DEF UpAfter
      <4>4. QED BY <4>2, <4>3
    <3>2. CASE listed /\ \A k \in 1..(n + 1) : q[k] # Leave(d)
      <4>1. now
        BY <3>2, <1>1
      <4>2. \A k \in 1..n : r[k] # Leave(d)
        BY <3>0, <3>2
      <4>3. QED BY <4>1, <4>2 DEF UpAfter
    <3>3. QED BY <2>2, <3>1, <3>2 DEF UpAfter
  <2>3. QED BY <2>1, <2>2 DEF UpAfter
<1>3. UpAfter(q, listed, d, 0) = listed
  BY UpAtStart
<1>4. /\ Head(q) = Join(d)  => ~listed
      /\ Head(q) = Leave(d) => listed
  <2>1. 1 \in DOMAIN q /\ 1 - 1 = 0
    BY <1>1
  <2>2. QED BY <1>1, <1>3, <2>1 DEF Alternate
<1>5. ASSUME NEW i \in DOMAIN r
      PROVE  /\ r[i] = Join(d)  => ~UpAfter(r, now, d, i - 1)
             /\ r[i] = Leave(d) => UpAfter(r, now, d, i - 1)
  <2>1. i - 1 \in 0..Len(r) /\ i + 1 \in DOMAIN q /\ r[i] = q[i + 1]
        /\ i - 1 + 1 = i /\ i + 1 - 1 = i
    BY <1>1
  <2>2. UpAfter(r, now, d, i - 1) = UpAfter(q, listed, d, i)
    BY <1>2, <2>1
  <2>3. /\ q[i + 1] = Join(d)  => ~UpAfter(q, listed, d, i)
        /\ q[i + 1] = Leave(d) => UpAfter(q, listed, d, i)
    BY <2>1 DEF Alternate
  <2>4. QED BY <2>1, <2>2, <2>3
<1>6. conn = UpAfter(r, now, d, Len(r))
  <2>1. Len(r) \in 0..Len(r) /\ Len(r) + 1 = Len(q)
    BY <1>1
  <2>2. QED BY <1>2, <2>1 DEF Alternate
<1>7. Alternate(r, now, d, conn)
  BY <1>5, <1>6 DEF Alternate
<1>8. QED BY <1>4, <1>7 DEF r

\* The events of q about every switch alternate, from _dpids to connection_map.
Alternates(q) == \A d \in Dpids : Alternate(q, dpid_check(d), d, d \in connected)

DistinctDpids == \A i, j \in DOMAIN dpids : dpids[i] = dpids[j] => i = j

\* Events that are not about a connection change nothing for the switches.
LEMMA AppendOther ==
  ASSUME NEW q \in Seq(Event), Alternates(q),
         NEW e \in Event, e.kind \notin {"join", "leave"}
  PROVE  Alternates(Append(q, e))
<1>1. ASSUME NEW d \in Dpids
      PROVE  Alternate(Append(q, e), dpid_check(d), d, d \in connected)
  <2>1. e # Join(d) /\ e # Leave(d)
    BY DEF Join, Leave
  <2>2. Alternate(q, dpid_check(d), d, d \in connected)
    BY DEF Alternates
  <2>3. dpid_check(d) \in BOOLEAN /\ (d \in connected) \in BOOLEAN
    BY DEF dpid_check
  <2>4. QED BY <2>1, <2>2, <2>3, AppendAlternates
<1>2. QED BY <1>1 DEF Alternates

LEMMA TailOther ==
  ASSUME NEW q \in Seq(Event), Alternates(q), q # << >>,
         Head(q).kind \notin {"join", "leave"}
  PROVE  Alternates(Tail(q))
<1>1. ASSUME NEW d \in Dpids
      PROVE  Alternate(Tail(q), dpid_check(d), d, d \in connected)
  <2>1. Head(q) # Join(d) /\ Head(q) # Leave(d)
    BY DEF Join, Leave
  <2>2. Alternate(q, dpid_check(d), d, d \in connected)
    BY DEF Alternates
  <2>3. dpid_check(d) \in BOOLEAN /\ (d \in connected) \in BOOLEAN
    BY DEF dpid_check
  <2>4. QED BY <2>1, <2>2, <2>3, TailAlternates
<1>2. QED BY <1>1 DEF Alternates

\* A step that leaves _dpids and connection_map alone only has to keep the
\* queue's events in order.
LEMMA QuietStep ==
  ASSUME TypeOKRP', DistinctDpids, UNCHANGED <<dpids, connected>>,
         Alternates(queue')
  PROVE  DpidsFollowConnections'
  BY DEF DistinctDpids, Alternates, DpidsFollowConnections, dpid_check

\* A response is posted or not: either way the connections' events are as in
\* "rest".
LEMMA PostQuiet ==
  ASSUME NEW rest \in Seq(Event), Alternates(rest), NEW i \in Nat,
         NEW st \in Statuses, Post(rest, i, st)
  PROVE  Alternates(queue')
<1>1. Response(i, st) \in Event /\ Response(i, st).kind = "response"
  BY EventTypes DEF Response
<1>2. QED BY <1>1, AppendOther DEF Post

\* The steps of the processor that are not about a connection.
LEMMA ProcessorFollow ==
  ASSUME InvRP, TypeOKRP', DpidsFollowConnections,
         handle_request \/ handle_reply \/ TakeResponse \/ auto_sleep \/ auto_fire
  PROVE  DpidsFollowConnections'
<1> USE DEF procVars, netVars, histVars
<1>0. /\ queue \in Seq(Event) /\ DistinctDpids /\ Alternates(queue)
      /\ armed \in Nat /\ 200 \in Statuses /\ 500 \in Statuses
  BY DEF InvRP, TypeOKRP, DpidsFollowConnections, DistinctDpids, Alternates, Statuses
<1>1. \A kind : At(kind) /\ kind \notin {"join", "leave"}
        => Alternates(Tail(queue)) /\ Tail(queue) \in Seq(Event)
  BY <1>0, TailOther, HeadOfQueue DEF At
<1>2. CASE handle_request
  <2> DEFINE m == Head(queue).msg
  <2>1. At("request")
    BY <1>2 DEF handle_request, RequestNotSent, RequestSent, Begin
  <2>2. m \in Msg /\ Alternates(Tail(queue)) /\ Tail(queue) \in Seq(Event)
    BY <2>1, <1>0, <1>1, RequestHead
  <2>3. UNCHANGED <<dpids, connected>>
    BY <1>2 DEF handle_request, RequestRejected, RequestNotSent, RequestSent
  <2>4. \/ queue' = Tail(queue)
        \/ \E st \in Statuses : Post(Tail(queue), m.id, st)
    <3>1. CASE \E i \in DOMAIN Checks(m) : RequestRejected(i)
      BY <3>1, ChecksStatus DEF RequestRejected, Answer
    <3>2. CASE RequestNotSent
      BY <3>2, <1>0 DEF RequestNotSent, Answer
    <3>3. CASE RequestSent
      BY <3>3, <1>0 DEF RequestSent, Answer
    <3>4. QED BY <1>2, <3>1, <3>2, <3>3 DEF handle_request
  <2>5. Alternates(queue')
    <3>1. m.id \in Nat
      BY <2>2 DEF Msg
    <3>2. QED BY <2>2, <2>4, <3>1, PostQuiet
  <2>6. QED BY <2>3, <2>5, <1>0, QuietStep
<1>3. CASE handle_reply
  <2>1. /\ Alternates(Tail(queue)) /\ Tail(queue) \in Seq(Event)
        /\ Head(queue).id \in Nat
    BY <1>0, <1>3, <1>1, ReplyHead DEF handle_reply
  <2>2. Alternates(queue')
    BY <1>0, <1>3, <2>1, PostQuiet DEF handle_reply, postResponse
  <2>3. QED BY <1>0, <1>3, <2>2, QuietStep DEF handle_reply
<1>4. CASE TakeResponse
  <2>1. Alternates(queue')
    BY <1>1, <1>4 DEF TakeResponse
  <2>2. QED BY <1>0, <1>4, <2>1, QuietStep DEF TakeResponse
<1>5. CASE auto_sleep
  BY <1>0, <1>5, QuietStep DEF auto_sleep
<1>6. CASE auto_fire
  <2>1. Alternates(queue')
    BY <1>0, <1>6, PostQuiet DEF auto_fire, postResponse
  <2>2. QED BY <1>0, <1>6, <2>1, QuietStep DEF auto_fire
<1>7. QED BY <1>2, <1>3, <1>4, <1>5, <1>6

\* What RemoveAt leaves.
LEMMA AfterRemoveAt ==
  ASSUME NEW S, NEW s \in Seq(S), NEW p \in DOMAIN s
  PROVE  /\ p \in 1..Len(s) /\ Len(s) \in Nat /\ DOMAIN s = 1..Len(s)
         /\ RemoveAt(s, p) \in Seq(S) /\ Len(RemoveAt(s, p)) = Len(s) - 1
         /\ DOMAIN RemoveAt(s, p) = 1..(Len(s) - 1)
         /\ \A i \in 1..(Len(s) - 1) :
              RemoveAt(s, p)[i] = IF i < p THEN s[i] ELSE s[i + 1]
<1>1. p \in 1..Len(s) /\ Len(s) \in Nat /\ DOMAIN s = 1..Len(s)
  OBVIOUS
<1> DEFINE a == SubSeq(s, 1, p - 1)
           b == SubSeq(s, p + 1, Len(s))
<1>2. /\ a \in Seq(S) /\ Len(a) = p - 1
      /\ \A i \in 1..(p - 1) : a[i] = s[i]
  BY <1>1
<1>3. /\ b \in Seq(S) /\ Len(b) = Len(s) - p
      /\ \A i \in 1..(Len(s) - p) : b[i] = s[i + p]
  BY <1>1
<1> HIDE DEF a, b
<1>4. /\ a \o b \in Seq(S) /\ Len(a \o b) = Len(s) - 1
      /\ DOMAIN (a \o b) = 1..(Len(s) - 1)
  <2>1. a \o b \in Seq(S) /\ Len(a \o b) = Len(a) + Len(b)
    BY <1>2, <1>3, ConcatProperties
  <2>2. Len(a \o b) = Len(s) - 1
    BY <1>1, <1>2, <1>3, <2>1
  <2>3. \A r \in Seq(S) : DOMAIN r = 1..Len(r)
    OBVIOUS
  <2>4. QED BY <2>1, <2>2, <2>3, Zenon
<1>5. ASSUME NEW i \in 1..(Len(s) - 1)
      PROVE  (a \o b)[i] = IF i < p THEN s[i] ELSE s[i + 1]
  <2>0. \A k \in 1..(Len(a) + Len(b)) :
          (a \o b)[k] = IF k <= Len(a) THEN a[k] ELSE b[k - Len(a)]
    BY <1>2, <1>3, ConcatProperties
  <2>1. CASE i < p
    <3>1. i \in 1..(p - 1) /\ i <= p - 1 /\ i \in 1..((p - 1) + (Len(s) - p))
      BY <1>1, <2>1
    <3>2. QED BY <1>2, <1>3, <2>0, <2>1, <3>1
  <2>2. CASE ~(i < p)
    <3>1. /\ i - (p - 1) \in 1..(Len(s) - p) /\ i - (p - 1) + p = i + 1
          /\ ~(i <= p - 1) /\ i \in 1..((p - 1) + (Len(s) - p))
      BY <1>1, <2>2
    <3>2. (a \o b)[i] = b[i - (p - 1)]
      BY <1>2, <1>3, <2>0, <3>1
    <3>3. QED BY <1>3, <2>2, <3>1, <3>2
  <2>3. QED BY <2>1, <2>2
<1>6. QED BY <1>1, <1>4, <1>5 DEF RemoveAt, a, b

\* The connection handlers: the event taken from the queue is what _dpids
\* learns.
LEMMA JoinFollow ==
  ASSUME InvRP, TypeOKRP', DpidsFollowConnections, datapath_join_handler
  PROVE  DpidsFollowConnections'
<1> DEFINE c == Head(queue).dpid
<1>0. /\ queue \in Seq(Event) /\ queue # << >> /\ Head(queue).kind = "join"
      /\ dpids \in Seq(Dpids) /\ dpids' = Append(dpids, c)
      /\ queue' = Tail(queue) /\ connected' = connected
  BY DEF datapath_join_handler, At, InvRP, TypeOKRP
<1>1. c \in Dpids /\ Head(queue) = Join(c)
  <2>1. Head(queue) \in [kind: {"join", "leave"}, dpid: Dpids]
    BY <1>0, HeadOfQueue DEF Event
  <2>2. QED BY <1>0, <2>1 DEF Join
<1> HIDE DEF c
<1>2. ASSUME NEW d \in Dpids
      PROVE  /\ Alternate(Tail(queue), d = c \/ dpid_check(d), d, d \in connected)
             /\ d = c => ~dpid_check(d)
  <2>1. /\ dpid_check(d) \in BOOLEAN /\ (d \in connected) \in BOOLEAN
        /\ Alternate(queue, dpid_check(d), d, d \in connected)
    <3>1. dpid_check(d) \in BOOLEAN
      BY DEF dpid_check
    <3>2. QED BY <3>1 DEF DpidsFollowConnections
  <2>2. (Head(queue) = Join(d) <=> d = c) /\ Head(queue) # Leave(d)
    BY <1>1, EventsDiffer
  <2>3. (d = c \/ dpid_check(d)) \in BOOLEAN
    OBVIOUS
  <2>4. QED BY <1>0, <2>1, <2>2, <2>3, TailAlternates
<1>3. /\ \A i \in DOMAIN dpids : dpids'[i] = dpids[i] /\ i \in 1..Len(dpids)
      /\ dpids'[Len(dpids) + 1] = c /\ Len(dpids) + 1 \in DOMAIN dpids'
      /\ \A i \in DOMAIN dpids' : i = Len(dpids) + 1 \/ i \in DOMAIN dpids
      /\ \A i \in DOMAIN dpids : i \in DOMAIN dpids'
  BY <1>0
<1>4. \A d : dpid_check(d)' = (d = c \/ dpid_check(d))
  BY <1>3 DEF dpid_check
<1>5. ~dpid_check(c)
  BY <1>1, <1>2
<1>6. ASSUME NEW i \in DOMAIN dpids', NEW j \in DOMAIN dpids', dpids'[i] = dpids'[j]
      PROVE  i = j
  BY <1>3, <1>5, <1>6 DEF dpid_check, DpidsFollowConnections
<1>7. ASSUME NEW d \in Dpids
      PROVE  Alternate(queue', dpid_check(d)', d, d \in connected')
  BY <1>0, <1>2, <1>4
<1>8. QED BY <1>6, <1>7 DEF DpidsFollowConnections

LEMMA LeaveFollow ==
  ASSUME InvRP, TypeOKRP', DpidsFollowConnections, datapath_leave_handler
  PROVE  DpidsFollowConnections'
<1> DEFINE c == Head(queue).dpid
<1>0. /\ queue \in Seq(Event) /\ queue # << >> /\ Head(queue).kind = "leave"
      /\ dpids \in Seq(Dpids) /\ queue' = Tail(queue) /\ connected' = connected
  BY DEF datapath_leave_handler, At, InvRP, TypeOKRP
<1>1. c \in Dpids /\ Head(queue) = Leave(c)
  <2>1. Head(queue) \in [kind: {"join", "leave"}, dpid: Dpids]
    BY <1>0, HeadOfQueue DEF Event
  <2>2. QED BY <1>0, <2>1 DEF Leave
<1>2. PICK p \in DOMAIN dpids : dpids[p] = c /\ dpids' = RemoveAt(dpids, p)
  BY DEF datapath_leave_handler
<1> HIDE DEF c
<1>3. ASSUME NEW d \in Dpids
      PROVE  Alternate(Tail(queue), dpid_check(d) /\ d # c, d, d \in connected)
  <2>1. /\ dpid_check(d) \in BOOLEAN /\ (d \in connected) \in BOOLEAN
        /\ Alternate(queue, dpid_check(d), d, d \in connected)
    <3>1. dpid_check(d) \in BOOLEAN
      BY DEF dpid_check
    <3>2. QED BY <3>1 DEF DpidsFollowConnections
  <2>2. (Head(queue) = Leave(d) <=> d = c) /\ Head(queue) # Join(d)
    BY <1>1, EventsDiffer
  <2>3. (dpid_check(d) /\ d # c) \in BOOLEAN
    OBVIOUS
  <2>4. QED BY <1>0, <2>1, <2>2, <2>3, TailAlternates
<1>4. /\ p \in 1..Len(dpids) /\ Len(dpids) \in Nat
      /\ DOMAIN dpids = 1..Len(dpids) /\ DOMAIN dpids' = 1..(Len(dpids) - 1)
      /\ \A i \in 1..(Len(dpids) - 1) :
           dpids'[i] = IF i < p THEN dpids[i] ELSE dpids[i + 1]
  BY <1>0, <1>2, AfterRemoveAt
<1>5. \A i, j \in DOMAIN dpids : dpids[i] = dpids[j] => i = j
  BY DEF DpidsFollowConnections
<1>6. ASSUME NEW i \in DOMAIN dpids', NEW j \in DOMAIN dpids', dpids'[i] = dpids'[j]
      PROVE  i = j
  BY <1>4, <1>5, <1>6
<1>7. ASSUME NEW d \in Dpids
      PROVE  dpid_check(d)' = (dpid_check(d) /\ d # c)
  <2>1. ASSUME NEW i \in DOMAIN dpids', dpids'[i] = d
        PROVE  dpid_check(d) /\ d # c
    BY <1>2, <1>4, <1>5, <2>1 DEF dpid_check
  <2>2. ASSUME NEW i \in DOMAIN dpids, dpids[i] = d, d # c
        PROVE  \E j \in DOMAIN dpids' : dpids'[j] = d
    <3>1. CASE i < p
      BY <1>4, <2>2, <3>1
    <3>2. CASE i > p
      <4>1. i - 1 \in 1..(Len(dpids) - 1) /\ ~(i - 1 < p) /\ i - 1 + 1 = i
        BY <1>4, <3>2
      <4>2. QED BY <1>4, <2>2, <4>1
    <3>3. QED BY <1>2, <1>4, <2>2, <3>1, <3>2
  <2>3. QED BY <2>1, <2>2 DEF dpid_check
<1>8. ASSUME NEW d \in Dpids
      PROVE  Alternate(queue', dpid_check(d)', d, d \in connected')
  BY <1>0, <1>3, <1>7
<1>9. QED BY <1>6, <1>8 DEF DpidsFollowConnections

\* What clients and switches add to the queue fits what came before.
LEMMA ConnectFollow ==
  ASSUME InvRP, TypeOKRP', DpidsFollowConnections,
         NEW c \in Dpids, SwitchConnects(c) \/ SwitchCloses(c)
  PROVE  DpidsFollowConnections'
<1>0. /\ queue \in Seq(Event) /\ dpids' = dpids
      /\ Join(c) \in Event /\ Leave(c) \in Event
  BY EventTypes DEF SwitchConnects, SwitchCloses, InvRP, TypeOKRP
<1> DEFINE gone == Append(queue, Leave(c))
<1>1. ASSUME NEW d \in Dpids
      PROVE  /\ dpid_check(d) \in BOOLEAN /\ (d \in connected) \in BOOLEAN
             /\ Alternate(queue, dpid_check(d), d, d \in connected)
             /\ Leave(c) # Join(d) /\ Join(c) # Leave(d)
             /\ (Leave(c) = Leave(d) <=> c = d) /\ (Join(c) = Join(d) <=> c = d)
  <2>1. dpid_check(d) \in BOOLEAN
    BY DEF dpid_check
  <2>2. QED BY <2>1, EventsDiffer DEF DpidsFollowConnections
<1>2. ASSUME c \in connected, NEW d \in Dpids
      PROVE  Alternate(gone, dpid_check(d), d, d \in connected \ {c})
  <2> DEFINE others == connected \ {c}
  <2>1. /\ Leave(c) = Join(d) => ~(d \in connected)
        /\ Leave(c) = Leave(d) => d \in connected
        /\ (d \in others)
             <=> (Leave(c) = Join(d) \/ (d \in connected /\ Leave(c) # Leave(d)))
    BY <1>1, <1>2
  <2>2. Leave(c) \in Event /\ (d \in others) \in BOOLEAN
    BY <1>0
  <2> HIDE DEF others
  <2>3. Alternate(gone, dpid_check(d), d, d \in others)
    BY <1>0, <1>1, <2>1, <2>2, AppendAlternates
  <2>4. QED BY <2>3 DEF others
<1>3. gone \in Seq(Event)
  BY <1>0
<1> HIDE DEF gone
<1>4. ASSUME NEW q \in Seq(Event), NEW S \in SUBSET Dpids, c \notin S, NEW d \in Dpids,
             Alternate(q, dpid_check(d), d, d \in S)
      PROVE  Alternate(Append(q, Join(c)), dpid_check(d), d, d \in S \cup {c})
  <2>1. (d \in S) \in BOOLEAN /\ (d \in S \cup {c}) \in BOOLEAN
    OBVIOUS
  <2>2. QED BY <1>0, <1>1, <1>4, <2>1, AppendAlternates
<1>5. connected \in SUBSET Dpids
  BY DEF InvRP, TypeOKRP
<1>6. \A d \in Dpids : Alternate(queue', dpid_check(d), d, d \in connected')
  <2>1. CASE SwitchCloses(c)
    <3>1. queue' = gone /\ connected' = connected \ {c} /\ c \in connected
      BY <2>1 DEF SwitchCloses, gone
    <3>2. QED BY <1>2, <3>1
  <2>2. CASE SwitchConnects(c) /\ c \in connected
    <3>1. queue' = Append(gone, Join(c))
      BY <2>2, <1>0 DEF SwitchConnects, gone
    <3>2. connected' = (connected \ {c}) \cup {c} /\ c \notin connected \ {c}
          /\ connected \ {c} \in SUBSET Dpids
      BY <2>2, <1>5 DEF SwitchConnects
    <3>3. QED BY <1>2, <1>3, <1>4, <2>2, <3>1, <3>2
  <2>3. CASE SwitchConnects(c) /\ c \notin connected
    <3>1. queue' = Append(queue, Join(c)) /\ connected' = connected \cup {c}
      BY <2>3, <1>0 DEF SwitchConnects
    <3>2. QED BY <1>0, <1>1, <1>4, <1>5, <2>3, <3>1
  <2>4. QED BY <2>1, <2>2, <2>3
<1>7. QED BY <1>0, <1>6 DEF DpidsFollowConnections, dpid_check

LEMMA OutsideFollow ==
  ASSUME InvRP, TypeOKRP', DpidsFollowConnections, Switches \/ ClientRequest
  PROVE  DpidsFollowConnections'
<1>0. queue \in Seq(Event) /\ DistinctDpids /\ Alternates(queue)
  BY DEF InvRP, TypeOKRP, DpidsFollowConnections, DistinctDpids, Alternates
<1>1. ASSUME NEW w \in wire, SwitchReplies(w) PROVE DpidsFollowConnections'
  <2>1. w.id \in Nat
    BY DEF InvRP, TypeOKRP, Outstanding
  <2>2. Reply(w.id) \in Event /\ Reply(w.id).kind = "reply"
    BY <2>1, EventTypes DEF Reply
  <2>3. Alternates(queue') /\ UNCHANGED <<dpids, connected>>
    BY <1>0, <1>1, <2>2, AppendOther DEF SwitchReplies
  <2>4. QED BY <1>0, <2>3, QuietStep
<1>e. CASE SwitchSaysElse
  <2>1. Stray \in Event /\ Stray.kind = "reply"
    BY EventTypes DEF Stray, Reply
  <2>2. Alternates(queue') /\ UNCHANGED <<dpids, connected>>
    BY <1>0, <1>e, <2>1, AppendOther DEF SwitchSaysElse, netVars
  <2>3. QED BY <1>0, <2>2, QuietStep
<1>2. CASE ClientRequest
  <2>1. PICK i \in 1..MaxRequests, u \in Urls, b \in Bodies :
          PostRequest([id |-> i, url |-> u, body |-> b])
    BY <1>2 DEF ClientRequest
  <2> DEFINE m == [id |-> i, url |-> u, body |-> b]
  <2>2. m \in Msg
    BY BoundAssumption DEF Msg
  <2>3. Request(m) \in Event /\ Request(m).kind = "request"
    BY <2>2, EventTypes DEF Request
  <2> HIDE DEF m
  <2>4. PostRequest(m)
    BY <2>1 DEF m
  <2>5. Alternates(queue') /\ UNCHANGED <<dpids, connected>>
    BY <1>0, <2>3, <2>4, AppendOther DEF PostRequest, netVars
  <2>6. QED BY <1>0, <2>5, QuietStep
<1>3. QED BY <1>1, <1>e, <1>2, ConnectFollow DEF Switches

-----------------------------------------------------------------------------
(* Theorems                                                                *)

\* Nothing is known and nothing queued at the start.
LEMMA InvariantStart ==
  ASSUME InitRP
  PROVE  InvRP
<1>1. NoMsg \in Msg
  BY DEF NoMsg, Msg
<1>2. TypeOKRP
  <2>1. 0 \in 0..MaxConnects /\ 0 \in Nat
    BY BoundAssumption
  <2>2. << >> \in Seq(Event) /\ << >> \in Seq(Dpids) /\ << >> \in Seq(Nat)
    OBVIOUS
  <2>3. QED BY <1>1, <2>1, <2>2 DEF InitRP, TypeOKRP
<1>3. OneResponsePerRequest /\ PendingModifyArmed
  BY DEF InitRP, OneResponsePerRequest, PendingModifyArmed
<1>4. QED BY <1>2, <1>3 DEF InvRP

LEMMA FollowStart ==
  ASSUME InitRP
  PROVE  DpidsFollowConnections
<1>1. TypeOKRP
  BY InvariantStart DEF InvRP
<1>2. DOMAIN dpids = {} /\ DOMAIN queue = {} /\ Len(queue) = 0 /\ connected = {}
  BY DEF InitRP
<1>3. ASSUME NEW d \in Dpids
      PROVE  Alternate(queue, dpid_check(d), d, d \in connected)
  <2>1. dpid_check(d) = FALSE
    BY <1>2 DEF dpid_check
  <2>2. UpAfter(queue, FALSE, d, 0) = FALSE
    BY UpAtStart
  <2>3. (d \in connected) = FALSE
    BY <1>2
  <2>4. Alternate(queue, FALSE, d, FALSE)
    BY <1>2, <2>2 DEF Alternate
  <2>5. QED BY <2>1, <2>3, <2>4, Zenon
<1>4. QED BY <1>1, <1>2, <1>3 DEF DpidsFollowConnections

\* InvRP holds initially and every step of NextRP keeps it.
THEOREM InvariantRP == SpecRP => []InvRP
<1>1. InitRP => InvRP
  BY InvariantStart
<1>2. InvRP /\ [NextRP]_rpVars => InvRP'
  <2>1. ASSUME InvRP, NextRP PROVE InvRP'
    BY <2>1, RequestStep, HandlerStep, EnvironmentStep
    DEF NextRP, Dispatch, AutoThread
  <2>2. ASSUME InvRP, UNCHANGED rpVars PROVE InvRP'
    BY <2>2 DEF rpVars, procVars, netVars, histVars, InvRP, TypeOKRP,
                OneResponsePerRequest, Handled, PendingModifyArmed
  <2>3. QED BY <2>1, <2>2
<1>3. QED BY <1>1, <1>2, PTL DEF SpecRP

\* The variables keep their types.
THEOREM TypeCorrectRP == SpecRP => []TypeOKRP
<1>1. InvRP => TypeOKRP
  BY DEF InvRP
<1>2. QED BY <1>1, InvariantRP, PTL

\* No request event is ever answered twice: handle_request, handle_reply and
\* auto_set_reply post at most one response each time handle_request is called,
\* for any number of requests, of messages that switches send for each, and of
\* their messages about something else.
THEOREM AtMostOneResponse == SpecRP => []OneResponsePerRequest
<1>1. InvRP => OneResponsePerRequest
  BY DEF InvRP
<1>2. QED BY <1>1, InvariantRP, PTL

\* A modification waiting for its response always has auto_set_reply armed.
THEOREM ModifyStaysArmed == SpecRP => []PendingModifyArmed
<1>1. InvRP => PendingModifyArmed
  BY DEF InvRP
<1>2. QED BY <1>1, InvariantRP, PTL

\* A queued leave always finds its dpid and a queued join never doubles one,
\* however connections come, go and replace each other while the events wait:
\* datapath_leave_handler's erase(end()) is never reached.
THEOREM DpidsFollow == SpecRP => []DpidsFollowConnections
<1>1. InitRP => DpidsFollowConnections
  BY FollowStart
<1>2. InvRP /\ InvRP' /\ DpidsFollowConnections /\ [NextRP]_rpVars
        => DpidsFollowConnections'
  <2>1. SUFFICES ASSUME InvRP, InvRP', DpidsFollowConnections, [NextRP]_rpVars
                 PROVE  DpidsFollowConnections'
    OBVIOUS
  <2>2. TypeOKRP'
    BY <2>1 DEF InvRP
  <2>3. CASE NextRP
    BY <2>1, <2>2, <2>3, ProcessorFollow, JoinFollow, LeaveFollow, OutsideFollow
    DEF NextRP, Dispatch, AutoThread
  <2>4. CASE UNCHANGED rpVars
    BY <2>1, <2>2, <2>4 DEF rpVars, procVars, netVars, histVars,
       DpidsFollowConnections, dpid_check
  <2>5. QED BY <2>1, <2>3, <2>4
<1>3. QED BY <1>1, <1>2, InvariantRP, PTL DEF SpecRP

-----------------------------------------------------------------------------
(* Which switches a request can name                                       *)

LEMMA Widths ==
  IntHalf \in Nat \ {0} /\ 2 * IntHalf \in Nat \ {0} /\ DpidValues \in Nat \ {0}
    /\ 2 * IntHalf <= DpidValues
  BY WidthAssumption

\* What remainders the provers need, about numbers alone.
LEMMA RemainderIs ==
  ASSUME NEW b \in Nat \ {0}, NEW a \in Int
  PROVE  a % b \in 0..(b - 1) /\ a = b * (a \div b) + (a % b) /\ a \div b \in Int
  BY SMT

LEMMA RemainderOfSmall ==
  ASSUME NEW b \in Nat \ {0}, NEW a \in (-b)..(b - 1)
  PROVE  a % b = IF a >= 0 THEN a ELSE a + b
<1>1. CASE a >= 0
  <2>1. a \in 0..(b - 1)
    BY <1>1
  <2>2. a % b = a
    BY <2>1, SMT
  <2> QED BY <1>1, <2>2
<1>2. CASE ~(a >= 0)
  <2>1. a \in (-b)..(-1)
    BY <1>2
  <2>2. a % b = a + b
    BY <2>1, SMT
  <2> QED BY <1>2, <2>2
<1> QED BY <1>1, <1>2

\* The datapath ids that an int, sign-extended, can be.
Nameable == 0..(IntHalf - 1) \cup (DpidValues - IntHalf)..(DpidValues - 1)

LEMMA AtoiIsInt ==
  ASSUME NEW n \in Int
  PROVE  Atoi(n) \in (-IntHalf)..(IntHalf - 1)
<1>1. (n + IntHalf) % (2 * IntHalf) \in 0..(2 * IntHalf - 1)
  <2>1. n + IntHalf \in Int
    BY Widths
  <2> QED BY <2>1, Widths, RemainderIs
<1> DEFINE r == (n + IntHalf) % (2 * IntHalf)
<1>2. r \in 0..(2 * IntHalf - 1)
  BY <1>1
<1> HIDE DEF r
<1>3. r - IntHalf \in (-IntHalf)..(IntHalf - 1)
  BY <1>2, Widths
<1> QED BY <1>3 DEF Atoi, r

\* Whatever number a request gives, the id it stands for is one of those.
LEMMA InterpretedIsNameable ==
  ASSUME NEW n \in Int
  PROVE  interpret_dpid(n) \in Nameable
<1> DEFINE a == Atoi(n)
<1>1. a \in (-IntHalf)..(IntHalf - 1)
  BY AtoiIsInt
<1>2. interpret_dpid(n) = a % DpidValues
  BY DEF interpret_dpid
<1> HIDE DEF a
<1>3. a \in (-DpidValues)..(DpidValues - 1)
  BY <1>1, Widths
<1>4. a % DpidValues = IF a >= 0 THEN a ELSE a + DpidValues
  BY <1>3, Widths, RemainderOfSmall
<1>5. (IF a >= 0 THEN a ELSE a + DpidValues) \in Nameable
  BY <1>1, Widths DEF Nameable
<1> QED BY <1>2, <1>4, <1>5

\* Requests are at switches that requests can name.
AskedAreNameable == \A w \in wire : w.dpid \in Nameable

\* A switch whose datapath id does not fit an int is out of reach: it may be
\* connected and in _dpids, but no request is ever sent to it.
THEOREM LongDpidsOutOfReach == SpecRP => []AskedAreNameable
<1>1. InitRP => AskedAreNameable
  BY DEF InitRP, AskedAreNameable
<1>2. ASSUME InvRP, AskedAreNameable, [NextRP]_rpVars PROVE AskedAreNameable'
  <2>1. CASE RequestSent
    <3> DEFINE m == Head(queue).msg
               d == interpret_dpid(m.body.dpid)
               w == [for |-> Handled + 1, id |-> m.id, dpid |-> d,
                     left |-> MaxReplies]
    <3>1. m \in Msg
      BY <1>2, <2>1, RequestHead DEF RequestSent, Begin, InvRP, TypeOKRP
    <3>2. m.body.dpid \in Int
      BY <3>1, BodiesAssumption DEF Msg, EmptyBody, IsBody
    <3>3. wire' = wire \cup {w}
      BY <2>1 DEF RequestSent
    <3>4. w.dpid \in Nameable
      BY <3>2, InterpretedIsNameable
    <3> HIDE DEF w
    <3> QED BY <1>2, <3>3, <3>4 DEF AskedAreNameable
  <2>2. ASSUME NEW w \in wire, SwitchReplies(w) PROVE AskedAreNameable'
    <3>1. w \in Outstanding
      BY <1>2 DEF InvRP, TypeOKRP
    <3>2. [w EXCEPT !.left = @ - 1].dpid = w.dpid
      BY <3>1 DEF Outstanding
    <3>3. wire' \subseteq wire \cup {[w EXCEPT !.left = @ - 1]}
      BY <2>2 DEF SwitchReplies
    <3> QED BY <1>2, <3>2, <3>3 DEF AskedAreNameable
  <2>3. ASSUME NEW d \in Dpids, SwitchConnects(d) \/ SwitchCloses(d)
        PROVE  AskedAreNameable'
    BY <1>2, <2>3 DEF SwitchConnects, SwitchCloses, AskedAreNameable
  <2>4. CASE wire' = wire
    BY <1>2, <2>4 DEF AskedAreNameable
  <2>5. \/ RequestSent \/ wire' = wire
        \/ \E w \in wire : SwitchReplies(w)
        \/ \E d \in Dpids : SwitchConnects(d) \/ SwitchCloses(d)
    BY <1>2 DEF NextRP, Dispatch, AutoThread, Switches, SwitchSaysElse,
                ClientRequest, PostRequest,
                handle_request, RequestRejected, RequestNotSent, handle_reply,
                datapath_join_handler, datapath_leave_handler, auto_sleep, auto_fire,
                TakeResponse, netVars, rpVars
  <2> QED BY <2>1, <2>2, <2>3, <2>4, <2>5
<1> QED BY <1>1, <1>2, InvariantRP, PTL DEF SpecRP

-----------------------------------------------------------------------------
(* Request_processor inside Interserver                                    *)

\* A step of Next changes Request_processor's state by one of its steps, or
\* posts a request, or leaves it alone.
LEMMA StepOfProcessor ==
  ASSUME Next
  PROVE  \/ Dispatch \/ AutoThread \/ TakeResponse \/ Switches
         \/ PostRequest(requestMsg)
         \/ UNCHANGED rpVars
  BY DEF Next, HttpCall, HttpThread, ListenThread, listen_test, listen_copy,
         response_handler, response_store, response_unlock, NoxDispatch, NoxAuto, SwitchIO

\* A posted request leaves the invariant of Request_processor true.
LEMMA PostRequestStep ==
  ASSUME InvRP, NEW m \in Msg, PostRequest(m)
  PROVE  /\ InvRP'
         /\ DpidsFollowConnections => DpidsFollowConnections'
<1> USE DEF procVars, netVars, histVars
<1>1. /\ TypeOKRP /\ queue \in Seq(Event) /\ Request(m) \in Event
      /\ Request(m).kind = "request"
  BY EventTypes DEF InvRP, TypeOKRP, Request
<1>2. queue' = Append(queue, Request(m)) /\ queue' \in Seq(Event)
  BY <1>1 DEF PostRequest
<1>3. InvRP'
  BY <1>1, <1>2, ElsewhereStep DEF PostRequest, TypeOKRP
<1>4. ASSUME DpidsFollowConnections PROVE DpidsFollowConnections'
  <2>1. DistinctDpids /\ Alternates(queue)
    BY <1>4 DEF DpidsFollowConnections, DistinctDpids, Alternates
  <2>2. Alternates(queue') /\ UNCHANGED <<dpids, connected>>
    BY <1>1, <1>2, <2>1, AppendOther DEF PostRequest
  <2>3. QED BY <1>3, <2>1, <2>2, QuietStep DEF InvRP
<1>5. QED BY <1>3, <1>4

\* The types of the HTTP side.
HttpTypes ==
  /\ httpPc \in HttpPcs
  /\ httpReq \in Msg /\ requestMsg \in Msg
  /\ acceptPost \in BOOLEAN /\ locked \in BOOLEAN
  /\ response \in ReturnMsg /\ res \in ReturnMsg
  /\ noxPc \in {"free", "copy", "unlock"}
  /\ answers \in Seq(ReturnMsg)

\* The response handler stores what it is given: an answer.
LEMMA ResponseHead ==
  ASSUME queue \in Seq(Event), At("response")
  PROVE  [id |-> Head(queue).id, status |-> Head(queue).status] \in ReturnMsg
<1>1. Head(queue) \in Event
  BY HeadOfQueue DEF At
<1>2. Head(queue) \in [kind: {"response"}, id: Nat, status: Statuses]
  BY <1>1 DEF At, Event
<1>3. QED BY <1>2 DEF ReturnMsg

LEMMA HttpTypesStep ==
  ASSUME InvRP, HttpTypes, Next
  PROVE  HttpTypes'
<1> USE DEF HttpPcs
<1>1. ASSUME NEW u \in Urls, NEW b \in Bodies, http_url(u, b)
      PROVE  HttpTypes'
  <2>1. [id |-> Len(answers) + 1, url |-> u, body |-> b] \in Msg
    BY DEF HttpTypes, Msg
  <2>2. [requestMsg EXCEPT !.url = u] \in Msg
    BY DEF HttpTypes, Msg
  <2>3. QED BY <1>1, <2>1, <2>2 DEF HttpTypes, http_url
<1>2. CASE http_data
  <2>1. [requestMsg EXCEPT !.id = httpReq.id, !.body = httpReq.body] \in Msg
    BY DEF HttpTypes, Msg
  <2>2. QED BY <1>2, <2>1 DEF HttpTypes, http_data
<1>3. CASE http_lock
  BY <1>3 DEF HttpTypes, http_lock
<1>4. CASE http_post
  BY <1>4 DEF HttpTypes, http_post
<1>5. CASE http_woken
  BY <1>5 DEF HttpTypes, http_woken
<1>6. CASE http_timeout
  <2>1. Expired \in ReturnMsg
    BY DEF Expired, ReturnMsg
  <2>2. QED BY <1>6, <2>1 DEF HttpTypes, http_timeout
<1>7. CASE http_read
  BY <1>7 DEF HttpTypes, http_read
<1>8. CASE http_unlock
  BY <1>8 DEF HttpTypes, http_unlock
<1>9. CASE http_clear
  <2>1. NoMsg \in Msg
    BY DEF NoMsg, Msg
  <2>2. QED BY <1>9, <2>1 DEF HttpTypes, http_clear
<1>10. CASE listen_test
  BY <1>10 DEF HttpTypes, listen_test
<1>11. CASE listen_copy
  BY <1>11 DEF HttpTypes, listen_copy
<1>12. CASE response_store
  <2>1. [id |-> Head(queue).id, status |-> Head(queue).status] \in ReturnMsg
    BY <1>12, ResponseHead DEF response_store, TakeResponse, InvRP, TypeOKRP
  <2>2. QED BY <1>12, <2>1 DEF HttpTypes, response_store
<1>13. CASE response_unlock
  BY <1>13 DEF HttpTypes, response_unlock
<1>14. CASE NoxDispatch \/ NoxAuto \/ SwitchIO
  BY <1>14 DEF HttpTypes, NoxDispatch, NoxAuto, SwitchIO, httpVars
<1>15. QED
  BY <1>1, <1>2, <1>3, <1>4, <1>5, <1>6, <1>7, <1>8, <1>9, <1>10, <1>11, <1>12, <1>13,
     <1>14
  DEF Next, HttpCall, HttpThread, ListenThread, response_handler

-----------------------------------------------------------------------------
(* Which request the messages that are still to come are about             *)

RepliesAre(q, i) == \A n \in DOMAIN q : q[n].kind = "reply" => q[n].id = i

\* As long as nothing has been late, the replies that are queued, the messages
\* that the switches still owe to the last request, and the "Accepted" that is
\* armed, are all about the request handled last.
Recent ==
  /\ autoPc = "sleep" => autoMutex
  /\ \A w \in wire : w.for <= Handled
  /\ ~late => /\ autoMutex => armed = current.id
              /\ RepliesAre(queue, current.id)
              /\ \A w \in wire : w.for = Handled => w.id = current.id

LEMMA AppendReplies ==
  ASSUME NEW q \in Seq(Event), NEW i, RepliesAre(q, i), NEW e \in Event,
         e.kind = "reply" => e.id = i
  PROVE  RepliesAre(Append(q, e), i) /\ Append(q, e) \in Seq(Event)
<1>1. \A n \in DOMAIN Append(q, e) :
        (n \in DOMAIN q /\ Append(q, e)[n] = q[n]) \/ Append(q, e)[n] = e
  OBVIOUS
<1>2. QED BY <1>1 DEF RepliesAre

LEMMA TailReplies ==
  ASSUME NEW q \in Seq(Event), q # << >>, NEW i, RepliesAre(q, i)
  PROVE  /\ RepliesAre(Tail(q), i) /\ Tail(q) \in Seq(Event)
         /\ Head(q).kind = "reply" => Head(q).id = i
<1>1. /\ Tail(q) \in Seq(Event) /\ 1 \in DOMAIN q /\ Head(q) = q[1]
      /\ \A n \in DOMAIN Tail(q) : n + 1 \in DOMAIN q /\ Tail(q)[n] = q[n + 1]
  OBVIOUS
<1>2. QED BY <1>1 DEF RepliesAre

\* Events of the other kinds leave the replies as they are.
LEMMA OtherReplies ==
  ASSUME NEW q \in Seq(Event), NEW i, RepliesAre(q, i)
  PROVE  /\ \A k \in Nat, st \in Statuses : RepliesAre(Append(q, Response(k, st)), i)
         /\ \A m \in Msg : RepliesAre(Append(q, Request(m)), i)
         /\ \A d \in Dpids : /\ RepliesAre(Append(q, Join(d)), i)
                              /\ RepliesAre(Append(q, Leave(d)), i)
                              /\ RepliesAre(q \o <<Leave(d), Join(d)>>, i)
<1>1. /\ \A k \in Nat, st \in Statuses :
           Response(k, st) \in Event /\ Response(k, st).kind # "reply"
      /\ \A m \in Msg : Request(m) \in Event /\ Request(m).kind # "reply"
      /\ \A d \in Dpids : /\ Join(d) \in Event /\ Join(d).kind # "reply"
                           /\ Leave(d) \in Event /\ Leave(d).kind # "reply"
  BY EventTypes DEF Response, Request, Join, Leave
<1>2. ASSUME NEW d \in Dpids PROVE RepliesAre(q \o <<Leave(d), Join(d)>>, i)
  <2>1. q \o <<Leave(d), Join(d)>> = Append(Append(q, Leave(d)), Join(d))
    BY <1>1
  <2>2. RepliesAre(Append(Append(q, Leave(d)), Join(d)), i)
    BY <1>1, AppendReplies
  <2>3. QED BY <2>1, <2>2
<1>3. QED BY <1>1, <1>2, AppendReplies

\* Steps after which the last request is the same, nothing more is owed to it
\* and nothing more is armed.
LEMMA RecentKept ==
  ASSUME Recent,
         ~late' /\ RepliesAre(queue, current.id) => RepliesAre(queue', current.id),
         late => late', current' = current, Handled' = Handled,
         autoMutex' => autoMutex /\ armed' = armed,
         autoPc' = "sleep" => autoMutex',
         \A w \in wire' : w \in wire
  PROVE  Recent'
  BY DEF Recent

\* handle_request: the next request is the last one, and what was still to
\* come for an earlier one is late.
LEMMA RecentRequest ==
  ASSUME InvRP, Recent, handle_request
  PROVE  Recent' /\ (late => late')
<1> DEFINE m == Head(queue).msg
<1>1. /\ queue \in Seq(Event) /\ responses \in Seq(Nat) /\ wire \subseteq Outstanding
      /\ autoMutex \in BOOLEAN /\ late \in BOOLEAN
  BY DEF InvRP, TypeOKRP
<1>2. Begin(m)
  BY DEF handle_request, RequestRejected, RequestNotSent, RequestSent
<1>3. m \in Msg /\ m.id \in Nat /\ Tail(queue) \in Seq(Event) /\ queue # << >>
  BY <1>1, <1>2, RequestHead DEF Begin, Msg, At
<1>4. 500 \in Statuses /\ 200 \in Statuses
  BY DEF Statuses
<1>5. /\ \E n \in {0, 1} : responses' = Append(responses, n)
      /\ autoPc' = autoPc /\ (autoMutex => autoMutex')
      /\ autoMutex' => autoMutex \/ armed' = m.id
      /\ \A w \in wire' : w \in wire \/ (w.for = Handled + 1 /\ w.id = m.id)
      /\ queue' = Tail(queue)
         \/ \E st \in Statuses : queue' = Append(Tail(queue), Response(m.id, st))
  <2>1. CASE \E i \in DOMAIN Checks(m) : RequestRejected(i)
    <3>1. PICK i \in DOMAIN Checks(m) : RequestRejected(i)
      BY <2>1
    <3>2. Checks(m)[i].status \in Statuses
      BY ChecksStatus
    <3>3. QED BY <3>1, <3>2 DEF RequestRejected, Answer, Post, netVars
  <2>2. CASE RequestNotSent
    BY <1>4, <2>2 DEF RequestNotSent, Answer, Post, netVars
  <2>3. CASE RequestSent
    BY <1>1, <1>4, <2>3 DEF RequestSent, Answer, Post
  <2>4. QED BY <2>1, <2>2, <2>3 DEF handle_request
<1>6. Handled' = Handled + 1 /\ Handled \in Nat
  BY <1>1, <1>5 DEF Handled
<1>7. \A w \in wire : w.for \in Nat /\ w.for <= Handled
  BY <1>1 DEF Outstanding, Recent
<1>8. current' = m /\ (late => late')
  BY <1>2 DEF Begin
<1>9. ~late' => ~autoMutex /\ \A n \in DOMAIN queue : queue[n].kind # "reply"
  BY <1>1, <1>2 DEF Begin
<1>10. ~late' => RepliesAre(queue', m.id)
  <2>1. SUFFICES ASSUME ~late' PROVE RepliesAre(queue', m.id)
    OBVIOUS
  <2>2. RepliesAre(queue, m.id)
    BY <1>9, <2>1 DEF RepliesAre
  <2>3. RepliesAre(Tail(queue), m.id)
    BY <1>1, <1>3, <2>2, TailReplies
  <2>4. QED BY <1>3, <1>5, <2>3, OtherReplies
<1> HIDE DEF m
<1>11. \A w \in wire' : w.for <= Handled'
  BY <1>5, <1>6, <1>7
<1>12. autoPc' = "sleep" => autoMutex'
  BY <1>5 DEF Recent
<1>13. ASSUME ~late' PROVE /\ autoMutex' => armed' = current'.id
                          /\ \A w \in wire' : w.for = Handled' => w.id = current'.id
  BY <1>5, <1>6, <1>7, <1>8, <1>9, <1>13
<1>14. QED BY <1>8, <1>10, <1>11, <1>12, <1>13 DEF Recent

\* The other steps, of the processor and around it.
LEMMA RecentElsewhere ==
  ASSUME InvRP, Recent,
         \/ handle_reply \/ datapath_join_handler \/ datapath_leave_handler
         \/ AutoThread \/ TakeResponse \/ Switches \/ \E m \in Msg : PostRequest(m)
  PROVE  Recent' /\ (late => late')
<1> USE DEF procVars, netVars, histVars
<1>0. /\ queue \in Seq(Event) /\ wire \subseteq Outstanding /\ armed \in Nat
      /\ responses \in Seq(Nat) /\ 200 \in Statuses /\ late \in BOOLEAN
  BY DEF InvRP, TypeOKRP, Statuses
<1>1. \A kind, i : At(kind) /\ RepliesAre(queue, i) =>
        /\ RepliesAre(Tail(queue), i) /\ Tail(queue) \in Seq(Event)
  BY <1>0, TailReplies DEF At
<1>2. ASSUME NEW rest \in Seq(Event), NEW i \in Nat, postResponse(rest, i, 200)
      PROVE  /\ Handled' = Handled
             /\ \A k : RepliesAre(rest, k) => RepliesAre(queue', k)
  <2>1. Len(responses') = Len(responses)
    BY <1>0, <1>2 DEF postResponse
  <2>2. queue' = rest \/ queue' = Append(rest, Response(i, 200))
    BY <1>2 DEF postResponse, Post
  <2>3. ASSUME NEW k, RepliesAre(rest, k) PROVE RepliesAre(queue', k)
    <3>1. RepliesAre(Append(rest, Response(i, 200)), k)
      BY <1>0, <2>3, OtherReplies
    <3>2. QED BY <2>2, <2>3, <3>1
  <2>4. QED BY <2>1, <2>3 DEF Handled
<1>3. CASE handle_reply
  <2>1. Tail(queue) \in Seq(Event) /\ Head(queue).id \in Nat
    BY <1>0, <1>3, ReplyHead DEF handle_reply
  <2>2. Handled' = Handled /\ \A k : RepliesAre(Tail(queue), k) => RepliesAre(queue', k)
    BY <1>2, <1>3, <2>1 DEF handle_reply
  <2>3. \A k : RepliesAre(queue, k) => RepliesAre(queue', k)
    BY <1>1, <1>3, <2>2 DEF handle_reply
  <2>4. QED BY <1>3, <2>2, <2>3, RecentKept DEF handle_reply, Recent
<1>4. CASE datapath_join_handler
  <2>1. \A k : RepliesAre(queue, k) => RepliesAre(queue', k)
    BY <1>1, <1>4 DEF datapath_join_handler
  <2>2. QED BY <1>4, <2>1, RecentKept DEF datapath_join_handler, Recent, Handled
<1>5. CASE datapath_leave_handler
  <2>1. \A k : RepliesAre(queue, k) => RepliesAre(queue', k)
    BY <1>1, <1>5 DEF datapath_leave_handler
  <2>2. QED BY <1>5, <2>1, RecentKept DEF datapath_leave_handler, Recent, Handled
<1>6. CASE TakeResponse
  <2>1. \A k : RepliesAre(queue, k) => RepliesAre(queue', k)
    BY <1>1, <1>6 DEF TakeResponse
  <2>2. QED BY <1>6, <2>1, RecentKept DEF TakeResponse, Recent, Handled
<1>7. CASE auto_sleep
  BY <1>7, RecentKept DEF auto_sleep, Recent, Handled
<1>8. CASE auto_fire
  <2>1. Handled' = Handled /\ \A k : RepliesAre(queue, k) => RepliesAre(queue', k)
    BY <1>0, <1>2, <1>8 DEF auto_fire
  <2>2. QED BY <1>8, <2>1, RecentKept DEF auto_fire
<1>9. ASSUME NEW w \in wire, SwitchReplies(w) PROVE Recent' /\ (late => late')
  <2>1. /\ queue' = Append(queue, Reply(w.id)) /\ Handled' = Handled
        /\ current' = current /\ (late => late')
        /\ late' = (late \/ w.for # Handled)
    BY <1>0, <1>9 DEF SwitchReplies, Handled
  <2>2. Reply(w.id) \in Event /\ Reply(w.id).id = w.id
    BY <1>0, EventTypes DEF Outstanding, Reply
  <2>3. ASSUME ~late' PROVE RepliesAre(queue', current'.id)
    <3>1. w.id = current.id /\ RepliesAre(queue, current.id)
      BY <2>1, <2>3 DEF Recent
    <3>2. QED BY <1>0, <2>1, <2>2, <3>1, AppendReplies
  <2>4. \A x \in wire' : \E y \in wire : x.for = y.for /\ x.id = y.id
    <3>1. [w EXCEPT !.left = @ - 1].for = w.for /\ [w EXCEPT !.left = @ - 1].id = w.id
      BY <1>0 DEF Outstanding
    <3>2. \A x \in wire' : x \in wire \/ x = [w EXCEPT !.left = @ - 1]
      BY <1>9 DEF SwitchReplies
    <3>3. QED BY <3>1, <3>2
  <2>5. UNCHANGED <<autoPc, autoMutex, armed>>
    BY <1>9 DEF SwitchReplies
  <2>6. QED BY <2>1, <2>3, <2>4, <2>5 DEF Recent
<1>10. CASE SwitchSaysElse
  BY <1>10, RecentKept DEF SwitchSaysElse, Recent, Handled
<1>11. ASSUME NEW d \in Dpids, SwitchConnects(d) PROVE Recent' /\ (late => late')
  <2>1. \A k : RepliesAre(queue, k) => RepliesAre(queue', k)
    <3>1. \/ queue' = queue \o <<Leave(d), Join(d)>>
          \/ queue' = Append(queue, Join(d))
      <4>1. queue \o <<Join(d)>> = Append(queue, Join(d))
        BY <1>0, EventTypes
      <4>2. QED BY <1>11, <4>1 DEF SwitchConnects
    <3>2. QED BY <1>0, <3>1, OtherReplies
  <2>2. QED BY <1>11, <2>1, RecentKept DEF SwitchConnects, Recent, Handled
<1>12. ASSUME NEW d \in Dpids, SwitchCloses(d) PROVE Recent' /\ (late => late')
  <2>1. \A k : RepliesAre(queue, k) => RepliesAre(queue', k)
    BY <1>0, <1>12, OtherReplies DEF SwitchCloses
  <2>2. QED BY <1>12, <2>1, RecentKept DEF SwitchCloses, Recent, Handled
<1>13. ASSUME NEW m \in Msg, PostRequest(m) PROVE Recent' /\ (late => late')
  <2>1. \A k : RepliesAre(queue, k) => RepliesAre(queue', k)
    BY <1>0, <1>13, OtherReplies DEF PostRequest
  <2>2. QED BY <1>13, <2>1, RecentKept DEF PostRequest, Recent, Handled
<1>14. QED
  BY <1>3, <1>4, <1>5, <1>6, <1>7, <1>8, <1>9, <1>10, <1>11, <1>12, <1>13
  DEF AutoThread, Switches

LEMMA RecentStep ==
  ASSUME InvRP, Recent,
         \/ Dispatch \/ AutoThread \/ TakeResponse \/ Switches
         \/ \E m \in Msg : PostRequest(m)
  PROVE  Recent' /\ (late => late')
<1>1. CASE handle_request
  BY <1>1, RecentRequest
<1>2. CASE ~handle_request
  BY <1>2, RecentElsewhere DEF Dispatch
<1>3. QED BY <1>1, <1>2

\* What is shown first: the types, and what is shown above of Request_processor
\* alone.
Base == InvRP /\ HttpTypes /\ DpidsFollowConnections /\ Recent

LEMMA BaseStep ==
  ASSUME Base, [Next]_vars
  PROVE  Base'
<1>1. CASE Next
  <2>1. HttpTypes'
    BY <1>1, HttpTypesStep DEF Base
  <2>2. CASE Dispatch \/ AutoThread \/ TakeResponse \/ Switches
    <3>1. InvRP'
      BY <2>2, RequestStep, HandlerStep, EnvironmentStep
      DEF Base, Dispatch, AutoThread
    <3>2. TypeOKRP'
      BY <3>1 DEF InvRP
    <3>3. DpidsFollowConnections'
      BY <2>2, <3>2, ProcessorFollow, JoinFollow, LeaveFollow, OutsideFollow
      DEF Base, Dispatch, AutoThread
    <3>4. Recent'
      BY <2>2, RecentStep DEF Base
    <3>5. QED BY <2>1, <3>1, <3>3, <3>4 DEF Base
  <2>3. CASE PostRequest(requestMsg)
    BY <2>1, <2>3, PostRequestStep, RecentStep DEF Base, HttpTypes
  <2>4. CASE UNCHANGED rpVars
    <3>1. InvRP' /\ DpidsFollowConnections' /\ Recent'
      BY <2>4 DEF Base, rpVars, procVars, netVars, histVars, InvRP, TypeOKRP,
         OneResponsePerRequest, Handled, PendingModifyArmed, DpidsFollowConnections,
         dpid_check, Recent, RepliesAre
    <3>2. QED BY <2>1, <3>1 DEF Base
  <2>5. QED BY <1>1, <2>2, <2>3, <2>4, StepOfProcessor
<1>2. CASE UNCHANGED vars
  <2>1. InvRP' /\ DpidsFollowConnections' /\ Recent'
    BY <1>2 DEF vars, Base, rpVars, procVars, netVars, histVars, InvRP, TypeOKRP,
       OneResponsePerRequest, Handled, PendingModifyArmed, DpidsFollowConnections,
         dpid_check, Recent, RepliesAre
  <2>2. HttpTypes'
    BY <1>2 DEF vars, httpVars, Base, HttpTypes
  <2>3. QED BY <2>1, <2>2 DEF Base
<1>3. QED BY <1>1, <1>2

-----------------------------------------------------------------------------
(* Request and response events in the queue                                *)

NoneOf(q, kind) == \A n \in DOMAIN q : q[n].kind # kind

\* The only request event is for m; the only response event is about HTTP
\* request id, unless a message was late.
OnlyRequest(q, m) ==
  \E p \in DOMAIN q : /\ q[p].kind = "request" /\ q[p].msg = m
                      /\ \A n \in DOMAIN q : q[n].kind = "request" => n = p
OnlyResponse(q, lt, id) ==
  \E p \in DOMAIN q : /\ q[p].kind = "response" /\ (lt \/ q[p].id = id)
                      /\ \A n \in DOMAIN q : q[n].kind = "response" => n = p

\* As far as they go, queue r is as queue q.
SameTraffic(q, r) ==
  /\ \A kind \in {"request", "response"} : NoneOf(q, kind) => NoneOf(r, kind)
  /\ \A m : OnlyRequest(q, m) => OnlyRequest(r, m)
  /\ \A lt \in BOOLEAN : \A id : OnlyResponse(q, lt, id) => OnlyResponse(r, lt, id)

\* The positions of a queue that an event was appended to, or taken from.
LEMMA AppendPositions ==
  ASSUME NEW q \in Seq(Event), NEW e \in Event
  PROVE  /\ Append(q, e) \in Seq(Event) /\ Len(q) \in Nat
         /\ DOMAIN q = 1..Len(q) /\ DOMAIN Append(q, e) = 1..(Len(q) + 1)
         /\ Len(q) + 1 \in DOMAIN Append(q, e) /\ Append(q, e)[Len(q) + 1] = e
         /\ \A n \in DOMAIN q : n \in DOMAIN Append(q, e) /\ Append(q, e)[n] = q[n]
         /\ \A n \in DOMAIN Append(q, e) : n \in DOMAIN q \/ n = Len(q) + 1
  OBVIOUS

LEMMA TailPositions ==
  ASSUME NEW q \in Seq(Event), q # << >>
  PROVE  /\ Tail(q) \in Seq(Event) /\ 1 \in DOMAIN q /\ Head(q) = q[1]
         /\ \A n \in DOMAIN Tail(q) :
              /\ n \in Nat /\ n + 1 \in DOMAIN q /\ n + 1 # 1
              /\ Tail(q)[n] = q[n + 1]
         /\ \A n \in DOMAIN q : n \in Nat /\ (n # 1 =>
              n - 1 \in DOMAIN Tail(q) /\ Tail(q)[n - 1] = q[n])
  OBVIOUS

\* Other events come and go without a trace.
LEMMA AppendTraffic ==
  ASSUME NEW q \in Seq(Event), NEW e \in Event, e.kind \notin {"request", "response"}
  PROVE  SameTraffic(q, Append(q, e)) /\ Append(q, e) \in Seq(Event)
<1> DEFINE r == Append(q, e)
<1>1. /\ r \in Seq(Event)
      /\ Len(q) + 1 \in DOMAIN r /\ r[Len(q) + 1] = e
      /\ \A n \in DOMAIN q : n \in DOMAIN r /\ r[n] = q[n]
      /\ \A n \in DOMAIN r : n \in DOMAIN q \/ n = Len(q) + 1
  BY AppendPositions
<1> HIDE DEF r
<1>2. ASSUME NEW kind \in {"request", "response"}, NoneOf(q, kind)
      PROVE  NoneOf(r, kind)
  BY <1>1, <1>2 DEF NoneOf
<1>3. ASSUME NEW m, OnlyRequest(q, m) PROVE OnlyRequest(r, m)
  BY <1>1, <1>3 DEF OnlyRequest
<1>4. ASSUME NEW lt \in BOOLEAN, NEW id, OnlyResponse(q, lt, id)
      PROVE  OnlyResponse(r, lt, id)
  BY <1>1, <1>4 DEF OnlyResponse
<1>5. QED BY <1>1, <1>2, <1>3, <1>4 DEF SameTraffic, r

LEMMA TailNone ==
  ASSUME NEW q \in Seq(Event), q # << >>, NEW kind, NoneOf(q, kind)
  PROVE  NoneOf(Tail(q), kind)
  BY TailPositions DEF NoneOf

LEMMA TailTraffic ==
  ASSUME NEW q \in Seq(Event), q # << >>, Head(q).kind \notin {"request", "response"}
  PROVE  SameTraffic(q, Tail(q)) /\ Tail(q) \in Seq(Event)
<1> DEFINE r == Tail(q)
<1>1. /\ r \in Seq(Event) /\ 1 \in DOMAIN q /\ Head(q) = q[1]
      /\ \A n \in DOMAIN r : n \in Nat /\ n + 1 \in DOMAIN q /\ r[n] = q[n + 1]
      /\ \A n \in DOMAIN q : n \in Nat /\ (n # 1 => n - 1 \in DOMAIN r /\ r[n - 1] = q[n])
  BY TailPositions
<1>2. \A kind : NoneOf(q, kind) => NoneOf(r, kind)
  BY TailNone
<1> HIDE DEF r
<1>3. ASSUME NEW m, OnlyRequest(q, m) PROVE OnlyRequest(r, m)
  <2>1. PICK p \in DOMAIN q : /\ q[p].kind = "request" /\ q[p].msg = m
                              /\ \A n \in DOMAIN q : q[n].kind = "request" => n = p
    BY <1>3 DEF OnlyRequest
  <2>2. p - 1 \in DOMAIN r /\ r[p - 1] = q[p]
    BY <1>1, <2>1
  <2>3. ASSUME NEW n \in DOMAIN r, r[n].kind = "request" PROVE n = p - 1
    <3>1. n \in Nat /\ n + 1 = p
      BY <1>1, <2>1, <2>3
    <3>2. QED BY <3>1
  <2>4. QED BY <2>1, <2>2, <2>3 DEF OnlyRequest
<1>4. ASSUME NEW lt \in BOOLEAN, NEW id, OnlyResponse(q, lt, id)
      PROVE  OnlyResponse(r, lt, id)
  <2>1. PICK p \in DOMAIN q : /\ q[p].kind = "response" /\ (lt \/ q[p].id = id)
                              /\ \A n \in DOMAIN q : q[n].kind = "response" => n = p
    BY <1>4 DEF OnlyResponse
  <2>2. p - 1 \in DOMAIN r /\ r[p - 1] = q[p]
    BY <1>1, <2>1
  <2>3. ASSUME NEW n \in DOMAIN r, r[n].kind = "response" PROVE n = p - 1
    <3>1. n \in Nat /\ n + 1 = p
      BY <1>1, <2>1, <2>3
    <3>2. QED BY <3>1
  <2>4. QED BY <2>1, <2>2, <2>3 DEF OnlyResponse
<1>5. QED BY <1>1, <1>2, <1>3, <1>4 DEF SameTraffic, r

\* The one that there is, is taken.
LEMMA TakeRequest ==
  ASSUME NEW q \in Seq(Event), q # << >>, Head(q).kind = "request",
         NEW m, OnlyRequest(q, m)
  PROVE  Head(q).msg = m /\ NoneOf(Tail(q), "request")
<1>1. \A n \in DOMAIN q : q[n].kind = "request" => n = 1
  BY TailPositions DEF OnlyRequest
<1>2. Head(q).msg = m
  BY TailPositions DEF OnlyRequest
<1>3. QED BY <1>1, <1>2, TailPositions DEF NoneOf

LEMMA TakeAnswer ==
  ASSUME NEW q \in Seq(Event), q # << >>, Head(q).kind = "response",
         NEW lt \in BOOLEAN, NEW id, OnlyResponse(q, lt, id)
  PROVE  (lt \/ Head(q).id = id) /\ NoneOf(Tail(q), "response")
<1>1. \A n \in DOMAIN q : q[n].kind = "response" => n = 1
  BY TailPositions DEF OnlyResponse
<1>2. lt \/ Head(q).id = id
  BY TailPositions DEF OnlyResponse
<1>3. QED BY <1>1, <1>2, TailPositions DEF NoneOf

\* The first one is posted.
LEMMA PostedRequest ==
  ASSUME NEW q \in Seq(Event), NoneOf(q, "request"), NEW m \in Msg
  PROVE  /\ OnlyRequest(Append(q, Request(m)), m)
         /\ NoneOf(q, "response") => NoneOf(Append(q, Request(m)), "response")
<1> DEFINE e == Request(m)
<1>1. e \in Event /\ e.kind = "request" /\ e.msg = m
  BY EventTypes DEF Request
<1> HIDE DEF e
<1>2. /\ Len(q) + 1 \in DOMAIN Append(q, e) /\ Append(q, e)[Len(q) + 1] = e
      /\ \A n \in DOMAIN q : Append(q, e)[n] = q[n]
      /\ \A n \in DOMAIN Append(q, e) : n \in DOMAIN q \/ n = Len(q) + 1
  BY <1>1, AppendPositions
<1>3. OnlyRequest(Append(q, e), m)
  BY <1>1, <1>2 DEF OnlyRequest, NoneOf
<1>4. NoneOf(q, "response") => NoneOf(Append(q, e), "response")
  BY <1>1, <1>2 DEF NoneOf
<1>5. QED BY <1>3, <1>4 DEF e

LEMMA PostedResponse ==
  ASSUME NEW q \in Seq(Event), NoneOf(q, "response"),
         NEW lt \in BOOLEAN, NEW i \in Nat, NEW id, lt \/ i = id, NEW st \in Statuses
  PROVE  /\ OnlyResponse(Append(q, Response(i, st)), lt, id)
         /\ NoneOf(q, "request") => NoneOf(Append(q, Response(i, st)), "request")
<1> DEFINE e == Response(i, st)
<1>1. e \in Event /\ e.kind = "response" /\ e.id = i
  BY EventTypes DEF Response
<1> HIDE DEF e
<1>2. /\ Len(q) + 1 \in DOMAIN Append(q, e) /\ Append(q, e)[Len(q) + 1] = e
      /\ \A k \in DOMAIN q : Append(q, e)[k] = q[k]
      /\ \A k \in DOMAIN Append(q, e) : k \in DOMAIN q \/ k = Len(q) + 1
  BY <1>1, AppendPositions
<1>3. OnlyResponse(Append(q, e), lt, id)
  BY <1>1, <1>2 DEF OnlyResponse, NoneOf
<1>4. NoneOf(q, "request") => NoneOf(Append(q, e), "request")
  BY <1>1, <1>2 DEF NoneOf
<1>5. QED BY <1>3, <1>4 DEF e

-----------------------------------------------------------------------------
(* What Request_processor and the switches do to these events              *)

\* Nothing; or the response to the current request is posted.
Unrelated == UNCHANGED <<replyState, current>> /\ SameTraffic(queue, queue')

Replied ==
  /\ replyState /\ ~replyState' /\ current' = current
  /\ \E rest \in Seq(Event), i \in Nat, st \in Statuses :
       /\ SameTraffic(queue, rest) /\ (late \/ i = current.id)
       /\ queue' = Append(rest, Response(i, st))

\* Or a request is taken, and waits for its response or gets it.
Taken ==
  /\ At("request") /\ Head(queue).msg \in Msg
  /\ current' = Head(queue).msg
  /\ \/ replyState' /\ queue' = Tail(queue)
     \/ /\ ~replyState'
        /\ \E st \in Statuses :
             queue' = Append(Tail(queue), Response(Head(queue).msg.id, st))

LEMMA PostedOrNot ==
  ASSUME InvRP, NEW rest \in Seq(Event), SameTraffic(queue, rest),
         NEW i \in Nat, replyState => late \/ i = current.id,
         postResponse(rest, i, 200), UNCHANGED current
  PROVE  Unrelated \/ Replied
<1>1. 200 \in Statuses
  BY DEF Statuses
<1>2. QED BY <1>1 DEF postResponse, Post, Unrelated, Replied

LEMMA RequestTraffic ==
  ASSUME InvRP, handle_request
  PROVE  Taken
<1> DEFINE m == Head(queue).msg
<1>1. At("request") /\ current' = m
  BY DEF handle_request, RequestRejected, RequestNotSent, RequestSent, Begin
<1>2. m \in Msg
  BY <1>1, RequestHead DEF InvRP, TypeOKRP
<1>3. 200 \in Statuses /\ 500 \in Statuses
  BY DEF Statuses
<1>4. \/ replyState' = TRUE /\ queue' = Tail(queue)
      \/ \E st \in Statuses : Post(Tail(queue), m.id, st)
  <2>1. CASE \E i \in DOMAIN Checks(m) : RequestRejected(i)
    BY <2>1, ChecksStatus DEF RequestRejected, Answer
  <2>2. CASE RequestNotSent
    BY <1>3, <2>2 DEF RequestNotSent, Answer
  <2>3. CASE RequestSent
    BY <1>3, <2>3 DEF RequestSent, Answer
  <2>4. QED BY <2>1, <2>2, <2>3 DEF handle_request
<1>5. QED BY <1>1, <1>2, <1>4 DEF Taken, Post

LEMMA ProcessorTraffic ==
  ASSUME InvRP, Recent, Dispatch \/ AutoThread \/ Switches
  PROVE  Unrelated \/ Replied \/ Taken
<1> USE DEF procVars, netVars, histVars
<1>0. queue \in Seq(Event)
  BY DEF InvRP, TypeOKRP
<1>a. \A q \in Seq(Event) : SameTraffic(q, q)
  BY DEF SameTraffic
<1>b. \A kind : At(kind) /\ kind \notin {"request", "response"}
        => SameTraffic(queue, Tail(queue)) /\ Tail(queue) \in Seq(Event)
  BY <1>0, TailTraffic DEF At
<1>1. CASE handle_request
  BY <1>1, RequestTraffic
<1>2. CASE handle_reply
  <2>1. Head(queue).id \in Nat
    BY <1>0, <1>2, ReplyHead DEF handle_reply
  <2>2. late \/ Head(queue).id = current.id
    BY <1>0, <1>2, TailReplies DEF handle_reply, At, Recent
  <2>3. QED BY <1>2, <1>b, <2>1, <2>2, PostedOrNot DEF handle_reply
<1>3. CASE datapath_join_handler \/ datapath_leave_handler
  <2>1. At("join") \/ At("leave")
    BY <1>3 DEF datapath_join_handler, datapath_leave_handler
  <2>2. SameTraffic(queue, Tail(queue))
    BY <1>b, <2>1
  <2>3. QED BY <1>3, <2>2 DEF datapath_join_handler, datapath_leave_handler, Unrelated
<1>4. CASE auto_sleep
  BY <1>0, <1>4, <1>a DEF auto_sleep, Unrelated
<1>5. CASE auto_fire
  <2>1. armed \in Nat /\ (late \/ armed = current.id)
    BY <1>5 DEF auto_fire, Recent, InvRP, TypeOKRP
  <2>2. QED BY <1>0, <1>5, <1>a, <2>1, PostedOrNot DEF auto_fire
<1>6. ASSUME NEW w \in wire, SwitchReplies(w) PROVE Unrelated
  <2>1. w.id \in Nat
    BY DEF InvRP, TypeOKRP, Outstanding
  <2>2. Reply(w.id) \in Event /\ Reply(w.id).kind = "reply"
    BY <2>1, EventTypes DEF Reply
  <2>3. SameTraffic(queue, queue')
    BY <1>0, <1>6, <2>2, AppendTraffic DEF SwitchReplies
  <2>4. QED BY <1>6, <2>3 DEF SwitchReplies, Unrelated
<1>e. CASE SwitchSaysElse
  <2>1. Stray \in Event /\ Stray.kind = "reply"
    BY EventTypes DEF Stray, Reply
  <2>2. SameTraffic(queue, queue')
    BY <1>0, <1>e, <2>1, AppendTraffic DEF SwitchSaysElse
  <2>3. QED BY <1>e, <2>2 DEF SwitchSaysElse, Unrelated
<1>7. ASSUME NEW d \in Dpids, SwitchConnects(d) \/ SwitchCloses(d) PROVE Unrelated
  <2>1. /\ Join(d) \in Event /\ Leave(d) \in Event
        /\ Join(d).kind = "join" /\ Leave(d).kind = "leave"
    BY EventTypes DEF Join, Leave
  <2> DEFINE gone == Append(queue, Leave(d))
  <2>2. SameTraffic(queue, gone) /\ gone \in Seq(Event)
    BY <1>0, <2>1, AppendTraffic
  <2>3. SameTraffic(queue, Append(queue, Join(d)))
    BY <1>0, <2>1, AppendTraffic
  <2>4. SameTraffic(gone, Append(gone, Join(d)))
    BY <2>1, <2>2, AppendTraffic
  <2>5. queue' \in {gone, Append(queue, Join(d)), Append(gone, Join(d))}
    BY <1>0, <1>7, <2>1 DEF SwitchConnects, SwitchCloses
  <2> HIDE DEF gone
  <2>6. SameTraffic(queue, Append(gone, Join(d)))
    BY <2>2, <2>4 DEF SameTraffic
  <2>7. SameTraffic(queue, queue')
    BY <2>2, <2>3, <2>5, <2>6
  <2>8. QED BY <1>7, <2>7 DEF SwitchConnects, SwitchCloses, Unrelated
<1>8. QED
  BY <1>1, <1>2, <1>3, <1>4, <1>5, <1>6, <1>e, <1>7 DEF Dispatch, AutoThread, Switches

-----------------------------------------------------------------------------
(* The two threads in step                                                 *)

Quiet == NoneOf(queue, "request") /\ NoneOf(queue, "response") /\ ~replyState

\* The flag has been taken down and the request event posted, or neither has
\* been raised.
Past == ~acceptPost /\ noxPc = "free"

\* Where the request is while the HTTP thread waits: in the flag, between the
\* two halves of listen_state, in a request event, with the processor, in a
\* response event, between the two halves of response_handler, or back.  The
\* response is about that request unless a message was late.
Flagged   == acceptPost /\ noxPc = "free" /\ locked /\ Quiet
Copying   == ~acceptPost /\ noxPc = "copy" /\ locked /\ Quiet
Requested == /\ Past /\ locked /\ ~replyState
             /\ OnlyRequest(queue, httpReq) /\ NoneOf(queue, "response")
Processed == /\ Past /\ locked /\ replyState /\ current = httpReq
             /\ NoneOf(queue, "request") /\ NoneOf(queue, "response")
Answered  == /\ Past /\ locked /\ ~replyState /\ current = httpReq
             /\ NoneOf(queue, "request") /\ OnlyResponse(queue, late, httpReq.id)
Storing   == /\ ~acceptPost /\ noxPc = "unlock" /\ locked /\ Quiet
             /\ current = httpReq /\ (late \/ response.id = httpReq.id)
Delivered == /\ Past /\ ~locked /\ Quiet
             /\ current = httpReq /\ (late \/ response.id = httpReq.id)

OnItsWay == Flagged \/ Copying \/ Requested \/ Processed \/ Answered \/ Storing
            \/ Delivered

InStep ==
  /\ late \/ \A n \in DOMAIN answers : answers[n].id = n
  /\ httpPc # "idle" => httpReq.id = Len(answers) + 1
  /\ httpPc = "data" => requestMsg.url = httpReq.url
  /\ httpPc \in {"lock", "post", "wait", "read", "unlock"} => requestMsg = httpReq
  /\ httpPc # "wait" => /\ Past /\ Quiet
                        /\ locked <=> httpPc \in {"post", "read", "unlock"}
  /\ httpPc = "wait" => OnItsWay
  /\ httpPc = "read" => late \/ response.id = httpReq.id
  /\ httpPc \in {"unlock", "clear"} => late \/ res.id = httpReq.id

\* A time-out is not forgotten.
ExpiredKept ==
  res = Expired => \/ httpPc \in {"unlock", "clear"}
                   \/ \E n \in DOMAIN answers : answers[n] = Expired

InvI == Base /\ ExpiredKept /\ (~TimedOut => InStep)

\* A message that comes late only makes less be claimed.
LEMMA LaterIsWeaker ==
  ASSUME NEW q, NEW id, NEW a \in BOOLEAN, NEW b \in BOOLEAN, a => b,
         OnlyResponse(q, a, id)
  PROVE  OnlyResponse(q, b, id)
  BY DEF OnlyResponse

\* Steps of NOX's thread, with the HTTP side unchanged, take the request on.
LEMMA NoxInStep ==
  ASSUME Base, InStep, noxPc = "free", UNCHANGED httpVars,
         Dispatch \/ AutoThread \/ Switches
  PROVE  InStep'
<1>0. /\ UNCHANGED <<httpPc, httpReq, requestMsg, acceptPost, response, locked, noxPc,
                     res, answers>>
      /\ queue \in Seq(Event) /\ late \in BOOLEAN
      /\ current \in Msg /\ httpReq \in Msg
  BY DEF httpVars, Base, InvRP, TypeOKRP, HttpTypes
<1>a. \A m \in Msg : m.id \in Nat
  BY DEF Msg
<1>b. Quiet \/ Requested \/ Processed \/ Answered
  BY DEF InStep, OnItsWay, Flagged, Copying, Storing, Delivered
<1>c. (late => late') /\ late' \in BOOLEAN
  <2>1. late => late'
    BY RecentStep DEF Base
  <2>2. InvRP'
    BY RequestStep, HandlerStep, EnvironmentStep DEF Base, Dispatch, AutoThread
  <2>3. QED BY <2>1, <2>2 DEF InvRP, TypeOKRP
<1>d. \A q : OnlyResponse(q, late, httpReq.id) => OnlyResponse(q, late', httpReq.id)
  BY <1>0, <1>c, LaterIsWeaker
<1>1. /\ Quiet => Quiet' /\ current' = current
      /\ Requested => Requested' \/ Processed' \/ Answered'
      /\ Processed => Processed' \/ Answered'
      /\ Answered => Answered'
  <2>1. CASE Unrelated
    <3>1. ASSUME Answered PROVE Answered'
      <4>1. OnlyResponse(queue', late, httpReq.id) /\ NoneOf(queue', "request")
        BY <1>0, <2>1, <3>1 DEF Unrelated, SameTraffic, Answered
      <4>2. OnlyResponse(queue', late', httpReq.id)
        BY <1>d, <4>1
      <4>3. QED BY <1>0, <2>1, <3>1, <4>1, <4>2 DEF Unrelated, Answered, Past
    <3>2. QED
      BY <1>0, <2>1, <3>1 DEF Unrelated, SameTraffic, Quiet, Requested, Processed, Past
  <2>2. CASE Replied
    <3>1. PICK rest \in Seq(Event), i \in Nat, st \in Statuses :
            /\ SameTraffic(queue, rest) /\ (late \/ i = current.id)
            /\ queue' = Append(rest, Response(i, st))
      BY <2>2 DEF Replied
    <3>2. ~Quiet /\ ~Requested /\ ~Answered
      BY <2>2 DEF Replied, Quiet, Requested, Answered
    <3>3. ASSUME Processed PROVE Answered'
      <4>1. NoneOf(rest, "request") /\ NoneOf(rest, "response") /\ current = httpReq
        BY <3>1, <3>3 DEF SameTraffic, Processed
      <4>2. OnlyResponse(queue', late, httpReq.id) /\ NoneOf(queue', "request")
        BY <1>0, <3>1, <4>1, PostedResponse
      <4>3. OnlyResponse(queue', late', httpReq.id)
        BY <1>d, <4>2
      <4>4. QED BY <1>0, <2>2, <3>3, <4>2, <4>3 DEF Replied, Processed, Answered, Past
    <3>4. QED BY <3>2, <3>3
  <2>3. CASE Taken
    <3>1. /\ queue # << >> /\ Head(queue).kind = "request"
          /\ current' = Head(queue).msg /\ Head(queue).msg \in Msg
      BY <2>3 DEF Taken, At
    <3>2. ~NoneOf(queue, "request")
      BY <1>0, <3>1, TailPositions DEF NoneOf
    <3>3. ASSUME Requested PROVE Processed' \/ Answered'
      <4>1. /\ Head(queue).msg = httpReq /\ NoneOf(Tail(queue), "request")
            /\ NoneOf(Tail(queue), "response") /\ Tail(queue) \in Seq(Event)
        BY <1>0, <3>1, <3>3, TakeRequest, TailNone, TailPositions DEF Requested
      <4>2. CASE replyState' /\ queue' = Tail(queue)
        BY <1>0, <3>1, <3>3, <4>1, <4>2 DEF Requested, Processed, Past
      <4>3. CASE /\ ~replyState'
                 /\ \E st \in Statuses :
                      queue' = Append(Tail(queue), Response(Head(queue).msg.id, st))
        <5>1. PICK st \in Statuses :
                queue' = Append(Tail(queue), Response(httpReq.id, st))
          BY <4>1, <4>3
        <5>2. OnlyResponse(queue', late', httpReq.id) /\ NoneOf(queue', "request")
          BY <1>0, <1>a, <1>c, <4>1, <5>1, PostedResponse
        <5>3. QED BY <1>0, <3>1, <3>3, <4>1, <4>3, <5>2 DEF Requested, Answered, Past
      <4>4. QED BY <2>3, <4>2, <4>3 DEF Taken
    <3>4. QED BY <3>2, <3>3 DEF Quiet, Processed, Answered
  <2>4. QED BY <2>1, <2>2, <2>3, ProcessorTraffic DEF Base
<1>2. httpPc' = "wait" => OnItsWay'
  <2>1. SUFFICES ASSUME httpPc = "wait" PROVE OnItsWay'
    BY <1>0
  <2>2. Flagged \/ Requested \/ Processed \/ Answered \/ Delivered
    BY <2>1 DEF InStep, OnItsWay, Copying, Storing
  <2>3. (Flagged => Flagged') /\ (Delivered => Delivered')
    BY <1>0, <1>1, <1>c DEF Flagged, Delivered, Past
  <2>4. QED BY <1>1, <2>2, <2>3 DEF OnItsWay
<1>3. httpPc' # "wait" => Past' /\ Quiet'
  BY <1>0, <1>1 DEF InStep, Past
<1>4. QED BY <1>0, <1>2, <1>3, <1>c DEF InStep

\* So do the steps of the HTTP thread, unless one of them is a time-out.
LEMMA HttpInStep ==
  ASSUME InvRP, HttpTypes, InStep, HttpCall \/ HttpThread, ~http_timeout
  PROVE  InStep'
<1>0. /\ UNCHANGED <<queue, replyState, current, late>>
      /\ queue \in Seq(Event) /\ answers \in Seq(ReturnMsg) /\ Len(answers) \in Nat
      /\ httpReq \in Msg /\ requestMsg \in Msg /\ res \in ReturnMsg
      /\ locked \in BOOLEAN /\ acceptPost \in BOOLEAN
  BY DEF HttpCall, HttpThread, rpVars, procVars, netVars, histVars, InvRP, TypeOKRP,
     HttpTypes
<1>a. Quiet' <=> Quiet
  BY <1>0 DEF Quiet
<1>1. ASSUME NEW u \in Urls, NEW b \in Bodies, http_url(u, b)
      PROVE  InStep'
  <2>1. Past' /\ Quiet' /\ ~locked' /\ httpPc' = "data" /\ UNCHANGED answers
    BY <1>0, <1>a, <1>1 DEF http_url, InStep, Past
  <2>2. httpReq'.id = Len(answers) + 1 /\ httpReq'.url = u
    BY <1>1 DEF http_url
  <2>3. requestMsg'.url = u
    BY <1>0, <1>1 DEF http_url, Msg
  <2>4. QED BY <1>0, <2>1, <2>2, <2>3 DEF InStep
<1>2. CASE http_data
  <2>1. requestMsg' = httpReq
    BY <1>0, <1>2 DEF http_data, Msg, InStep
  <2>2. Past' /\ Quiet' /\ ~locked' /\ httpPc' = "lock" /\ UNCHANGED <<answers, httpReq>>
    BY <1>0, <1>a, <1>2 DEF http_data, InStep, Past
  <2>3. QED BY <1>0, <1>2, <2>1, <2>2 DEF InStep, http_data
<1>3. CASE http_lock
  BY <1>0, <1>a, <1>3 DEF http_lock, InStep, Past
<1>4. CASE http_post
  <2>1. OnItsWay'
    BY <1>0, <1>a, <1>4 DEF http_post, InStep, Past, OnItsWay, Flagged
  <2>2. httpPc' = "wait" /\ UNCHANGED <<answers, httpReq, requestMsg>>
    BY <1>4 DEF http_post
  <2>3. QED BY <1>0, <1>4, <2>1, <2>2 DEF InStep, http_post
<1>5. CASE http_woken
  <2>1. Delivered
    BY <1>5 DEF http_woken, InStep, OnItsWay, Flagged, Copying, Requested, Processed,
       Answered, Storing
  <2>2. /\ Past' /\ Quiet' /\ locked' /\ httpPc' = "read"
        /\ late' \/ response'.id = httpReq'.id
    BY <1>0, <1>a, <1>5, <2>1 DEF http_woken, Delivered, Past
  <2>3. UNCHANGED <<answers, httpReq, requestMsg>>
    BY <1>5 DEF http_woken
  <2>4. QED BY <1>0, <1>5, <2>2, <2>3 DEF InStep, http_woken
<1>6. CASE http_read
  BY <1>0, <1>a, <1>6 DEF http_read, InStep, Past
<1>7. CASE http_unlock
  BY <1>0, <1>a, <1>7 DEF http_unlock, InStep, Past
<1>8. CASE http_clear
  <2>1. /\ Past' /\ Quiet' /\ ~locked' /\ httpPc' = "idle"
    BY <1>0, <1>a, <1>8 DEF http_clear, InStep, Past
  <2>2. ~late => /\ res.id = Len(answers) + 1
                /\ \A n \in DOMAIN answers : answers[n].id = n
    BY <1>8 DEF http_clear, InStep
  <2>3. ~late' => \A n \in DOMAIN answers' : answers'[n].id = n
    BY <1>0, <1>8, <2>2 DEF http_clear
  <2>4. QED BY <2>1, <2>3 DEF InStep
<1>9. QED BY <1>1, <1>2, <1>3, <1>4, <1>5, <1>6, <1>7, <1>8 DEF HttpCall, HttpThread

\* And those of the listening co-thread and the handler of responses.
LEMMA ListenInStep ==
  ASSUME InvRP, HttpTypes, InStep, ListenThread \/ response_handler
  PROVE  InStep'
<1>0. /\ queue \in Seq(Event) /\ httpReq \in Msg /\ httpReq.id \in Nat
      /\ locked \in BOOLEAN /\ acceptPost \in BOOLEAN /\ late \in BOOLEAN
  BY DEF InvRP, TypeOKRP, HttpTypes, Msg
<1>1. CASE listen_test
  <2>1. httpPc = "wait" /\ Flagged
    BY <1>1 DEF listen_test, InStep, OnItsWay, Past, Copying, Requested, Processed,
       Answered, Storing, Delivered
  <2>2. Copying'
    BY <1>1, <2>1 DEF listen_test, rpVars, procVars, netVars, Flagged, Copying, Quiet
  <2>3. /\ OnItsWay' /\ httpPc' = "wait"
        /\ UNCHANGED <<httpReq, requestMsg, answers, late>>
    BY <1>1, <2>1, <2>2 DEF listen_test, OnItsWay, rpVars, histVars
  <2>4. QED BY <2>1, <2>3 DEF InStep
<1>2. CASE listen_copy
  <2>1. httpPc = "wait" /\ Copying /\ requestMsg = httpReq
    BY <1>2 DEF listen_copy, InStep, OnItsWay, Past, Flagged, Requested, Processed,
       Answered, Storing, Delivered
  <2>2. queue' = Append(queue, Request(httpReq)) /\ UNCHANGED replyState
    BY <1>2, <2>1 DEF listen_copy, PostRequest, procVars, netVars
  <2>3. OnlyRequest(queue', httpReq) /\ NoneOf(queue', "response")
    BY <1>0, <2>1, <2>2, PostedRequest DEF Copying, Quiet
  <2>4. Requested'
    BY <1>2, <2>1, <2>2, <2>3 DEF listen_copy, Copying, Quiet, Requested, Past
  <2>5. /\ OnItsWay' /\ httpPc' = "wait"
        /\ UNCHANGED <<httpReq, requestMsg, answers, late>>
    BY <1>2, <2>1, <2>4 DEF listen_copy, OnItsWay, PostRequest, histVars
  <2>6. QED BY <2>1, <2>5 DEF InStep
<1>3. CASE response_store
  <2>1. /\ queue # << >> /\ Head(queue).kind = "response"
        /\ queue' = Tail(queue) /\ UNCHANGED <<replyState, current, late>>
    BY <1>3 DEF response_store, TakeResponse, At, procVars, netVars, histVars
  <2>2. ~NoneOf(queue, "response")
    BY <1>0, <2>1, TailPositions DEF NoneOf
  <2>3. httpPc = "wait" /\ Answered
    BY <1>3, <2>2 DEF response_store, InStep, OnItsWay, Quiet, Flagged, Copying,
       Requested, Processed, Storing, Delivered
  <2>4. (late \/ Head(queue).id = httpReq.id) /\ Quiet'
    BY <1>0, <2>1, <2>3, TakeAnswer, TailNone DEF Answered, Quiet
  <2>5. Storing'
    BY <1>3, <2>1, <2>3, <2>4 DEF response_store, Storing, Answered, Past
  <2>6. /\ OnItsWay' /\ httpPc' = "wait"
        /\ UNCHANGED <<httpReq, requestMsg, answers>>
    BY <1>3, <2>3, <2>5 DEF response_store, OnItsWay
  <2>7. QED BY <2>1, <2>3, <2>6 DEF InStep
<1>4. CASE response_unlock
  <2>1. httpPc = "wait" /\ Storing
    BY <1>4 DEF response_unlock, InStep, OnItsWay, Past, Flagged, Copying, Requested,
       Processed, Answered, Delivered
  <2>2. UNCHANGED <<queue, replyState, current, late>>
    BY <1>4 DEF response_unlock, rpVars, procVars, histVars
  <2>3. Delivered'
    BY <1>4, <2>1, <2>2 DEF response_unlock, Storing, Delivered, Past, Quiet
  <2>4. /\ OnItsWay' /\ httpPc' = "wait"
        /\ UNCHANGED <<httpReq, requestMsg, answers>>
    BY <1>4, <2>1, <2>3 DEF response_unlock, OnItsWay
  <2>5. QED BY <2>1, <2>2, <2>4 DEF InStep
<1>5. QED BY <1>1, <1>2, <1>3, <1>4 DEF ListenThread, response_handler

\* Once a request has run into its time-out, the system remembers.
LEMMA TimedOutKept ==
  ASSUME HttpTypes, ExpiredKept, Next
  PROVE  ExpiredKept' /\ (TimedOut => TimedOut') /\ (http_timeout => TimedOut')
<1>0. answers \in Seq(ReturnMsg) /\ res \in ReturnMsg
  BY DEF HttpTypes
<1> DEFINE Told == \E n \in DOMAIN answers : answers[n] = Expired
<1>a. TimedOut <=> res = Expired \/ Told
  BY DEF TimedOut
<1>b. (answers' = answers) => (Told' <=> Told)
  OBVIOUS
<1>1. CASE http_clear
  <2>1. answers' = Append(answers, res) /\ UNCHANGED res
    BY <1>1 DEF http_clear
  <2>2. (res = Expired \/ Told) => Told'
    BY <1>0, <2>1
  <2>3. httpPc = "clear"
    BY <1>1 DEF http_clear
  <2>4. QED BY <2>1, <2>2, <2>3 DEF TimedOut, ExpiredKept, http_timeout
<1>2. CASE http_timeout
  BY <1>2 DEF http_timeout, TimedOut, ExpiredKept
<1>3. CASE http_read
  BY <1>3 DEF http_read, http_timeout, TimedOut, ExpiredKept
<1>4. CASE http_unlock
  BY <1>4 DEF http_unlock, http_timeout, TimedOut, ExpiredKept
<1>5. CASE \/ HttpCall \/ http_data \/ http_lock \/ http_post \/ http_woken
           \/ ListenThread \/ response_handler \/ NoxDispatch \/ NoxAuto \/ SwitchIO
  <2>1. UNCHANGED <<res, answers>>
    BY <1>5 DEF HttpCall, http_url, http_data, http_lock, http_post, http_woken,
       ListenThread, listen_test, listen_copy, response_handler, response_store,
       response_unlock, NoxDispatch, NoxAuto, SwitchIO, httpVars
  <2>2. httpPc \in {"unlock", "clear"} => httpPc' \in {"unlock", "clear"}
    BY <1>5 DEF HttpCall, http_url, http_data, http_lock, http_post, http_woken,
       ListenThread, listen_test, listen_copy, response_handler, response_store,
       response_unlock, NoxDispatch, NoxAuto, SwitchIO, httpVars
  <2>3. http_timeout => TimedOut'
    BY DEF http_timeout, TimedOut
  <2>4. QED BY <2>1, <2>2, <2>3 DEF TimedOut, ExpiredKept
<1>6. QED BY <1>1, <1>2, <1>3, <1>4, <1>5 DEF Next, HttpThread

LEMMA InvIStep ==
  ASSUME InvI, [Next]_vars
  PROVE  InvI'
<1>1. Base'
  BY BaseStep DEF InvI
<1>2. CASE Next
  <2>1. ExpiredKept' /\ (TimedOut => TimedOut') /\ (http_timeout => TimedOut')
    BY <1>2, TimedOutKept DEF InvI, Base
  <2>2. ASSUME ~TimedOut' PROVE InStep'
    <3>1. InStep /\ Base /\ InvRP /\ HttpTypes /\ ~http_timeout
      BY <2>1, <2>2 DEF InvI, Base
    <3>2. QED BY <1>2, <3>1, HttpInStep, ListenInStep, NoxInStep
           DEF Next, NoxDispatch, NoxAuto, SwitchIO
  <2>3. QED BY <1>1, <2>1, <2>2 DEF InvI
<1>3. CASE UNCHANGED vars
  <2>1. UNCHANGED <<queue, replyState, current, late>> /\ UNCHANGED httpVars
    BY <1>3 DEF vars, rpVars, procVars, histVars
  <2>2. (ExpiredKept' <=> ExpiredKept) /\ (TimedOut' <=> TimedOut)
    BY <2>1 DEF httpVars, ExpiredKept, TimedOut
  <2>3. InStep => InStep'
    <3>1. (Quiet' <=> Quiet) /\ (Past' <=> Past)
      BY <2>1 DEF httpVars, Quiet, Past
    <3>2. OnItsWay => OnItsWay'
      BY <2>1, <3>1 DEF httpVars, OnItsWay, Flagged, Copying, Requested, Processed,
         Answered, Storing, Delivered
    <3>3. QED BY <2>1, <3>1, <3>2 DEF httpVars, InStep
  <2>4. QED BY <1>1, <2>2, <2>3 DEF InvI
<1>4. QED BY <1>2, <1>3

-----------------------------------------------------------------------------
(* The theorems                                                            *)

LEMMA InvIStart ==
  ASSUME Init
  PROVE  InvI
<1>1. InvRP /\ DpidsFollowConnections
  BY InvariantStart, FollowStart DEF Init
<1>2. NoMsg \in Msg /\ NoAnswer \in ReturnMsg /\ Expired # NoAnswer
  BY DEF NoMsg, Msg, NoAnswer, Expired, ReturnMsg, Statuses
<1>3. HttpTypes
  <2>1. << >> \in Seq(ReturnMsg)
    OBVIOUS
  <2>2. QED BY <1>2, <2>1 DEF Init, HttpTypes, HttpPcs
<1>4. ExpiredKept
  BY <1>2 DEF Init, ExpiredKept
<1>5. InStep
  <2>1. queue = << >> /\ replyState = FALSE
    BY DEF Init, InitRP
  <2>2. Past /\ Quiet
    BY <2>1 DEF Init, Past, Quiet, NoneOf
  <2>3. QED BY <2>2 DEF Init, InStep
<1>6. Recent
  BY DEF Init, InitRP, Recent, RepliesAre
<1>7. QED BY <1>1, <1>3, <1>4, <1>5, <1>6 DEF InvI, Base

\* The invariant of the composed system: Request_processor's own, and, until a
\* request runs into the 10 seconds, every request is in exactly one of the
\* places between http_handler and response_handler.
THEOREM ThreadsInStep == Spec => []InvI
<1>1. Init => InvI
  BY InvIStart
<1>2. InvI /\ [Next]_vars => InvI'
  BY InvIStep
<1>3. QED BY <1>1, <1>2, PTL DEF Spec

\* What is shown above of the processor for any posted requests holds behind
\* the HTTP thread: at most one response for each request event, the armed
\* "Accepted", and _dpids in step with the connections.
THEOREM ProcessorKeptByHttp ==
  Spec => [](OneResponsePerRequest /\ PendingModifyArmed /\ DpidsFollowConnections)
<1>1. InvI => OneResponsePerRequest /\ PendingModifyArmed /\ DpidsFollowConnections
  BY DEF InvI, Base, InvRP
<1>2. QED BY <1>1, ThreadsInStep, PTL

\* Up to the first time-out, and up to the first time that a switch's message,
\* or the "Accepted", is still to come for another request than the last, every
\* client gets the response that is about its own request, although no event of
\* http_handler, listen_state or response_handler says which one it belongs to.
THEOREM ClientsGetTheirOwn == Spec => []CorrelatedUntilTimeout
<1>1. InvI => CorrelatedUntilTimeout
  BY DEF InvI, InStep, CorrelatedUntilTimeout
<1>2. QED BY <1>1, ThreadsInStep, PTL

\* Up to the first time-out a flagged request is never lost, whatever comes
\* late: it stays in _request_msg, then in a request event, until it has been
\* handled.
THEOREM FlaggedIsKept == Spec => []OnRecordUntilTimeout
<1>1. ASSUME InvI, ~TimedOut, httpPc = "wait" PROVE OnRecord
  <2>1. OnItsWay /\ requestMsg = httpReq /\ queue \in Seq(Event)
    BY <1>1 DEF InvI, InStep, Base, InvRP, TypeOKRP
  <2>2. CASE Requested
    <3>1. PICK p \in DOMAIN queue : queue[p].kind = "request" /\ queue[p].msg = httpReq
      BY <2>2 DEF Requested, OnlyRequest
    <3>2. queue[p] \in [kind: {"request"}, msg: Msg]
      BY <2>1, <3>1 DEF Event
    <3>3. queue[p] = Request(httpReq)
      BY <3>1, <3>2 DEF Request
    <3>4. QED BY <3>3 DEF OnRecord
  <2>3. CASE ~Requested
    BY <2>1, <2>3 DEF OnItsWay, Flagged, Copying, Processed, Answered, Storing,
       Delivered, OnRecord
  <2>4. QED BY <2>2, <2>3
<1>2. InvI => OnRecordUntilTimeout
  BY <1>1 DEF OnRecordUntilTimeout
<1>3. QED BY <1>2, ThreadsInStep, PTL

\* Up to the first time-out listen_state copies a whole request: http_handler,
\* which writes and clears it without the lock, is waiting then.
THEOREM RequestsAreWhole == Spec => []RequestNotTornUntilTimeout
<1>1. InvI => RequestNotTornUntilTimeout
  BY DEF InvI, Base, InvRP, HttpTypes, TypeOK, InStep, Past, RequestNotTornUntilTimeout
<1>2. QED BY <1>1, ThreadsInStep, PTL
=============================================================================
