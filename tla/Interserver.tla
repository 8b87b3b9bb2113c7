----------------------------- MODULE Interserver -----------------------------
(***************************************************************************)
(* The HTTP side of the interserver application, composed with             *)
(* RequestProcessor.                                                       *)
(*                                                                         *)
(* cpp-netlib runs http_handler in a native thread of its own, one request *)
(* after the other.  The handler writes the request into _rp_info, raises  *)
(* _accept_post, and waits for an answer by locking _http_sync a second    *)
(* time: response_handler, in NOX's thread, unlocks it.  The wait ends     *)
(* after 10 seconds whatever happens, and nothing recalls the request from *)
(* NOX then: its response may arrive during a later request.               *)
(***************************************************************************)
EXTENDS RequestProcessor

CONSTANTS MaxHttp   \* bound: HTTP requests

ASSUME HttpBound == MaxHttp \in Nat

VARIABLES
  httpPc,      \* the statement of http_handler the HTTP thread is at
  httpReq,     \* the request http_handler was called with
  requestMsg,  \* _rp_info._request_msg
  acceptPost,  \* _rp_info._accept_post
  response,    \* _rp_info._response
  locked,      \* _rp_info._http_sync
  noxPc,       \* NOX's thread: "copy" and "unlock" are half-way through
               \* listen_state and response_handler, "free" is elsewhere
  res,         \* http_handler's res and res_type
  answers      \* history: what the clients got, in the order of their requests

httpVars == <<httpPc, httpReq, requestMsg, acceptPost, response, locked,
              noxPc, res, answers>>
vars == <<rpVars, httpVars>>

HttpPcs == {"idle", "data", "lock", "post", "wait", "read", "unlock", "clear"}

\* A Return_msg: its status, and the id of the HTTP request its text is about.
ReturnMsg == [id: Nat, status: Statuses \cup {503}]
NoAnswer == [id |-> 0, status |-> 500]
Expired == [id |-> 0, status |-> 503]

-----------------------------------------------------------------------------
(* http_handler::operator(), in the HTTP thread                            *)

\* Faulty http_handler: the flag is raised before the request is stored.
http_url_FlagFirst(u, b) ==
  /\ httpPc = "idle" /\ Len(answers) < MaxHttp
  /\ httpReq' = [id |-> Len(answers) + 1, url |-> u, body |-> b]
  /\ requestMsg' = [requestMsg EXCEPT !.url = u]
  /\ acceptPost' = TRUE
  /\ httpPc' = "data"
  /\ UNCHANGED <<response, locked, noxPc, res, answers>>

\* The handler is called: it stores the url ...
http_url(u, b) ==
  /\ httpPc = "idle" /\ Len(answers) < MaxHttp
  /\ httpReq' = [id |-> Len(answers) + 1, url |-> u, body |-> b]
  /\ requestMsg' = [requestMsg EXCEPT !.url = u]
  /\ httpPc' = "data"
  /\ UNCHANGED <<acceptPost, response, locked, noxPc, res, answers>>

\* ... then the body, and only then takes the lock.
http_data ==
  /\ httpPc = "data"
  /\ requestMsg' = [requestMsg EXCEPT !.id = httpReq.id, !.body = httpReq.body]
  /\ httpPc' = "lock"
  /\ UNCHANGED <<httpReq, acceptPost, response, locked, noxPc, res, answers>>

\* _http_sync.lock(), without a time limit.
http_lock ==
  /\ httpPc = "lock" /\ ~locked
  /\ locked' = TRUE
  /\ httpPc' = "post"
  /\ UNCHANGED <<httpReq, requestMsg, acceptPost, response, noxPc, res, answers>>

http_post ==
  /\ httpPc = "post"
  /\ acceptPost' = TRUE
  /\ httpPc' = "wait"
  /\ UNCHANGED <<httpReq, requestMsg, response, locked, noxPc, res, answers>>

\* timed_lock returns true.
http_woken ==
  /\ httpPc = "wait" /\ ~locked
  /\ locked' = TRUE
  /\ httpPc' = "read"
  /\ UNCHANGED <<httpReq, requestMsg, acceptPost, response, noxPc, res, answers>>

\* timed_lock returns false: the mutex may have been released at that moment.
http_timeout ==
  /\ httpPc = "wait"
  /\ res' = Expired
  /\ httpPc' = "unlock"
  /\ UNCHANGED <<httpReq, requestMsg, acceptPost, response, locked, noxPc, answers>>

http_read ==
  /\ httpPc = "read"
  /\ res' = response
  /\ httpPc' = "unlock"
  /\ UNCHANGED <<httpReq, requestMsg, acceptPost, response, locked, noxPc, answers>>

\* Faulty http_handler: the mutex is released only when it was acquired twice.
http_unlock_IfAnswered ==
  /\ httpPc = "unlock"
  /\ locked' = (locked /\ res = Expired)
  /\ httpPc' = "clear"
  /\ UNCHANGED <<httpReq, requestMsg, acceptPost, response, noxPc, res, answers>>

http_unlock ==
  /\ httpPc = "unlock"
  /\ locked' = FALSE
  /\ httpPc' = "clear"
  /\ UNCHANGED <<httpReq, requestMsg, acceptPost, response, noxPc, res, answers>>

\* _request_msg.clear(), and the reply goes to the client.
http_clear ==
  /\ httpPc = "clear"
  /\ requestMsg' = NoMsg
  /\ answers' = Append(answers, res)
  /\ httpPc' = "idle"
  /\ UNCHANGED <<httpReq, acceptPost, response, locked, noxPc, res>>

\* The handler once it has been called.
HttpThread ==
  /\ http_data \/ http_lock \/ http_post \/ http_woken \/ http_timeout
     \/ http_read \/ http_unlock \/ http_clear
  /\ UNCHANGED rpVars

HttpCall ==
  /\ \E u \in Urls, b \in Bodies : http_url(u, b)
  /\ UNCHANGED rpVars

-----------------------------------------------------------------------------
(* Interserver's co-thread and handler, in NOX's thread                    *)

\* listen_state sees the flag and resets it ...
listen_test ==
  /\ noxPc = "free" /\ acceptPost
  /\ acceptPost' = FALSE
  /\ noxPc' = "copy"
  /\ UNCHANGED <<rpVars, httpPc, httpReq, requestMsg, response, locked, res, answers>>

\* ... and posts a copy of _request_msg, as it is now.
listen_copy ==
  /\ noxPc = "copy"
  /\ PostRequest(requestMsg)
  /\ noxPc' = "free"
  /\ UNCHANGED <<httpPc, httpReq, requestMsg, acceptPost, response, locked, res, answers>>

\* Handler of Http_response_event: it stores the response ...
response_store ==
  /\ noxPc = "free"
  /\ TakeResponse
  /\ response' = [id |-> Head(queue).id, status |-> Head(queue).status]
  /\ noxPc' = "unlock"
  /\ UNCHANGED <<httpPc, httpReq, requestMsg, acceptPost, locked, res, answers>>

\* ... and unlocks _http_sync, which the HTTP thread locked.  When nobody holds
\* it, POSIX leaves open what the unlock does; the mutex of the build (the
\* default kind, without a check of its owner) then stays unlocked.
response_unlock ==
  /\ noxPc = "unlock"
  /\ locked' = FALSE
  /\ noxPc' = "free"
  /\ UNCHANGED <<rpVars, httpPc, httpReq, requestMsg, acceptPost, response, res,
                 answers>>

\* The rest of NOX's thread, which does not run between the two halves of
\* listen_state or of response_handler.
NoxDispatch == noxPc = "free" /\ Dispatch /\ UNCHANGED httpVars
NoxAuto == noxPc = "free" /\ AutoThread /\ UNCHANGED httpVars

SwitchIO == noxPc = "free" /\ Switches /\ UNCHANGED httpVars

-----------------------------------------------------------------------------
Init ==
  /\ InitRP
  /\ httpPc = "idle" /\ httpReq = NoMsg /\ requestMsg = NoMsg
  /\ acceptPost = FALSE /\ response = NoAnswer /\ locked = FALSE
  /\ noxPc = "free" /\ res = NoAnswer /\ answers = << >>

ListenThread == listen_test \/ listen_copy

response_handler == response_store \/ response_unlock

Next == HttpCall \/ HttpThread \/ ListenThread \/ response_handler
        \/ NoxDispatch \/ NoxAuto \/ SwitchIO

\* Both threads keep running; timed_lock's clock is part of the HTTP thread.
\* Clients and switches owe nothing.
Fairness == /\ WF_vars(HttpThread)
            /\ WF_vars(ListenThread)
            /\ WF_vars(response_handler)
            /\ WF_vars(NoxDispatch)
            /\ WF_vars(NoxAuto)

Spec == Init /\ [][Next]_vars /\ Fairness

-----------------------------------------------------------------------------
(* Properties                                                              *)

\* The type of every variable of the composed system.
TypeOK ==
  /\ TypeOKRP
  /\ httpPc \in HttpPcs
  /\ httpReq \in Msg /\ requestMsg \in Msg
  /\ acceptPost \in BOOLEAN /\ locked \in BOOLEAN
  /\ response \in ReturnMsg /\ res \in ReturnMsg
  /\ noxPc \in {"free", "copy", "unlock"}
  /\ answers \in Seq(ReturnMsg)

\* Whether some request has run into the 10 seconds so far.
TimedOut == res = Expired \/ \E n \in DOMAIN answers : answers[n] = Expired

\* Every client gets the response that is about its own request, up to the
\* first time-out, and up to the first time that a switch says something about
\* another request than the one handled last, or that a request is handled with
\* the "Accepted" or a message of an earlier one still to come.  Nothing in
\* Interact_reply_event or Http_response_event says which request it is for, so
\* this rests on the two threads moving in step: one flag, one request event,
\* one response event, one unlock per request.
CorrelatedUntilTimeout ==
  ~TimedOut /\ ~late => \A n \in DOMAIN answers : answers[n].id = n

\* Up to the first time-out, listen_state copies _request_msg only while the
\* HTTP thread waits: it never posts half of one request and half of another,
\* although the handler writes it before taking the lock and clears it after
\* releasing it.
RequestNotTornUntilTimeout ==
  /\ TypeOK
  /\ ~TimedOut /\ noxPc = "copy" => httpPc = "wait" /\ requestMsg = httpReq

\* A client is always answered, if only with 503: the handler's first lock(),
\* which has no time limit, finds _http_sync free, also after a response that
\* came too late.
HttpReturns == httpPc # "idle" ~> httpPc = "idle"

\* Where the request of the waiting HTTP thread is: in _request_msg with the
\* flag up, or being copied, in a request event, or handled.
OnRecord ==
  \/ (acceptPost \/ noxPc = "copy") /\ requestMsg = httpReq
  \/ \E n \in DOMAIN queue : queue[n] = Request(httpReq)
  \/ current = httpReq

OnRecordUntilTimeout == ~TimedOut /\ httpPc = "wait" => OnRecord

\* Up to the first time-out, a request that was flagged is handled by
\* Request_processor, as its client sent it: no other request and no clear()
\* takes its place in _request_msg or its flag down before listen_state has
\* copied it, and the request event gets to handle_request.  (After a time-out
\* the request left behind may be handled in the place of the next one.)
FlaggedIsHandled ==
  /\ []OnRecordUntilTimeout
  /\ acceptPost ~> ~acceptPost
  /\ \A i \in 1..MaxHttp :
       (\E n \in DOMAIN queue : queue[n].kind = "request" /\ queue[n].msg.id = i)
         ~> current.id = i
=============================================================================
