# TLA+ models of NOX 1.3 with the interserver application

NOX is an OpenFlow controller: a process that switches connect to and that
runs *components* (applications) which react to events.  This repository adds
the component `interserver`, an HTTP server through which a client can query
and modify the switches.  The modules in this directory model the parts of the
program that run concurrently or keep state over time, say what should hold of
them, check it with TLC on small instances and prove part of it with TLAPS for
instances of every size.

All paths below are relative to `src/`; `interserver/` is
`src/nox/coreapps/interserver/`, `nox.cc` is `src/builtin/nox.cc`.

## 1. The system and its components

| component | state | operations | talks to |
|---|---|---|---|
| **Cooperative scheduler** `src/lib/threads/impl.cc` | groups of threads with one running thread each, ready and blocked lists, timers, poll set, FSMs | create, block, yield, wake, migrate between groups, FSM transitions | everything: all of NOX's threads are in one group, `co_group_coop` |
| **Synchronisation** `src/lib/threads/cooperative.cc` | wait queues, owners, counts | condition, mutex, rwlock, semaphore, barrier, completion | scheduler |
| **Poll_loop** `src/lib/poll-loop.cc` | pool of threads, which one polls, list of Pollables with reference counts | `run`, `add_pollable`, `remove_pollable`, the pre-block hook | Pollables: event dispatcher, timers, connections |
| **Event_dispatcher** `src/lib/event-dispatcher.cc` | queue of events, `serial`, handlers | `post`, `poll`, `dispatch`, `wait` | components' handlers |
| **Timer_dispatcher** `src/lib/timer-dispatcher.cc` | ordered set of timers | `post`, `poll`, `wait`, cancel, delay, reset | components' callbacks |
| **OpenFlow connections** `src/lib/openflow.cc` | stream and reliable connection state, transmit queues | connect, send, receive | sockets |
| **Switch connections** `nox.cc` | `Handshake_fsm` of new connections, `Conn` objects, `connection_map` | handshake, `register_conn`, poll and close of a `Conn` | OpenFlow connections, poll loop, event dispatcher (join and leave events) |
| **Kernel, deployers, components** `src/builtin/` | component contexts and their states | configure, install, dependency resolution | components |
| **Interserver** `interserver/interserver.cc` | `_rp_info`: request, flag, response, mutex, shared by two native threads | `http_handler` (HTTP thread), `listen_state`, `response_handler` | request processor, by two events |
| **Request_processor** `interserver/request_processor.cc` | `_reply_state`, `_auto_mutex`, `_dpids` | `handle_request`, `handle_reply`, join and leave handlers, `auto_set_reply` | interserver, Msg_resolver, Interact_answer |
| **Msg_resolver, interact_builders** | `_temp_ptr`, registered types and their arguments | `init_interactor`, `resolve_request` and the interactors' `request_msg_creator` | switches |
| **Interact_answer, facade_answer** | none | turns switches' messages into text | request processor |
| learning switch, hub, messenger | MAC tables; none; client connections | packet and connection handlers | |
| classifier, packets, buffers, sockets, logging, JSON, oflib | data structures and wrappers | | |

How a request travels.  The HTTP thread writes it into `_rp_info`, locks
`_http_sync`, raises `_accept_post` and waits by locking `_http_sync` again, for
10 seconds at most.  In NOX's thread the co-thread `listen_state` sees the flag
and posts an `Http_request_event`; the event dispatcher, one of the main loop's
Pollables, gives it to `handle_request`, which sends an OpenFlow message on the
switch's `Conn` or posts an `Http_response_event` at once.  What the switch
sends back arrives in the poll of its `Conn`, becomes an
`Interact_reply_event` and then, if a response is still wanted, an
`Http_response_event`, whose handler stores it and unlocks `_http_sync`.

What is hard here, and what each part must get right (the full list with source
lines is under `hazards` in `PROJECT.json`):

* two native threads share unprotected fields, and the mutex between them is
  unlocked by the thread that does not hold it;
* nothing connects a response, or a switch's message, with its request, and the
  HTTP side gives up after 10 seconds while the rest of the system goes on;
* many sources answer the same request: checks, errors, parts of a reply, the
  delayed "Accepted";
* switches connect again before their old connection is gone, and connections
  are closed from inside their own polls;
* whatever blocks inside a poll hands the polling position to another thread,
  which may poll the same objects while the first is suspended in the middle of
  them;
* synchronisation objects hand themselves over to threads that have not run yet;
* native threads join and leave the cooperative group while its thread in charge
  is in `ppoll`;
* timers are moved and cancelled, by callbacks too, while a poll that fires them
  is suspended;
* sockets take and give parts of messages, and silent peers have to be told from
  slow ones;
* components are found, moved from state to state and fail while the kernel goes
  over the lists they are in.

## 2. Modules

| module | models | composed of |
|---|---|---|
| `MsgResolver` | the request types | |
| `InteractBuilders` | which arguments the interactors take | extends `MsgResolver` |
| `RequestProcessor` | Request_processor, the event queue, and the switches as far as it sees them | extends `InteractBuilders` |
| `Interserver` | the HTTP side | extends `RequestProcessor` |
| `SwitchPresence` | abstract: join and leave events alternate | |
| `Connections` | handshakes, `Conn`, `connection_map` | implements `SwitchPresence` |
| `Probing` | the interval of both kinds of probes | |
| `OpenflowConnection` | one OpenFlow connection over a stream | extends `Probing` |
| `ReliableConnection` | a connection that reconnects with a growing delay | extends `Probing` |
| `PollLoop` | the main loop | |
| `EventDispatcher` | the event queue and its polls | |
| `Timers` | abstract: what becomes of a timer that is posted | |
| `TimerDispatcher` | the timers and their polls | implements `Timers` |
| `OneRunner` | abstract: one thread of a group runs | |
| `Lists` | taking elements out of lists and wait queues | |
| `CoGroup` | the scheduler of one cooperative group | |
| `CoSync` | condition, mutex, semaphore, completion, barrier | extends `CoGroup`, implements `OneRunner` |
| `CoRwlock` | `Co_rwlock` and its two wait queues | |
| `Kernel` | the installation of components at start-up | |
| `InterserverProofs`, `OpenflowConnectionProofs`, `ConnectionsProofs`, `PollLoopProofs`, `EventDispatcherProofs`, `TimerDispatcherProofs`, `CoSyncProofs`, `KernelProofs` | theorems | extend the modules they are about |
| `MC...` | instances for TLC | |

Names are those of the source.  An operator named `x_Something`, introduced by
a comment that begins with "Faulty", is a plausible bug in `x`; no
specification uses it.  It shows that the properties depend on what the code
does: with `x` replaced by it, TLC finds the property violated.

### RequestProcessor

Handlers and co-threads run in one cooperative group, so a handler is one
action, as is a stretch of `auto_set_reply` between two sleeps.  The clock is
abstracted: a sleep ends at any time.  `handle_request` is split by how it
ends.  `Checks(m)` lists its checks in their order with the status of each
failure; `RequestRejected(i)` is the path on which check `i` throws,
`RequestNotSent` the one on which the message cannot be sent, `RequestSent` the
other.  A body is reduced to what the checks tell apart; its arguments are those
of `InteractBuilders`.  The number in `dpid` keeps its width (`Atoi`,
`interpret_dpid`: `atoi` into an `int` of `2 * IntHalf` values, sign-extended to a
datapath id of `DpidValues`).  `wire` holds the messages that are at a switch; a switch may
answer each up to `MaxReplies` times, at any time while it is connected: errors
and the parts of multipart replies all arrive as `Interact_reply_event`s, as do
messages that NOX or another application asked for (`SwitchSaysElse`).

The program does not know which request a switch's message is about.  For the
properties the model does: a `Reply` and a `Response` carry the id of the request that
their text is about (0 for none), which no handler looks at.  The history variables are
`current`, the request handled last; `responses`, how many response events each
request event has got; `armed`, the request that the delayed "Accepted" is for; and
`late`, whether some time a message or the "Accepted" was still to come for a request that
was not the last one handled, or came unasked.  From then on the code may give one client
another's text.

### InteractBuilders

`request_msg_creator` of every type, and the builders of matches, actions,
instructions, buckets and bands that it calls on the items of nested arrays, as
predicates: they hold if no `invalid_argument` is thrown.  A JSON object is a
function from field names to texts, a text is its form (`"num"`, `"ip4"`,
`"mac"`, ..., an array with its items).  The asymmetries of the code are kept:
`arp_spa` is an address in a match and a number in an action, `meter_id` is any
string in `meter_mod` and a number in the queries, an unknown action, instruction
or flow command is taken and does nothing or deletes.  Assumptions of
`MCRequestProcessor` evaluate the predicates on sample requests of both kinds.

### Interserver

`http_handler` is modelled statement by statement, since it runs in a thread of
its own: `http_url`, `http_data`, `http_lock`, `http_post`, then `http_woken` or
`http_timeout`, `http_read`, `http_unlock`, `http_clear`.  cpp-netlib's `run` is
called in one thread, so handlers do not overlap.  `listen_state` and
`response_handler` are two actions each, between which nothing else in NOX's thread can
run but the HTTP thread can.  Unlocking the mutex when nobody holds it is left open by
POSIX; the model leaves it unlocked, as the mutex of the build does.  The values of the flag and the request are those of sequentially
consistent memory; the data race itself is not given its own outcomes.

### Connections

One action per state of `Handshake_fsm::run` and outcome.  An FSM that waits
has `wake[c]`: for its descriptor or timer (`"io"`), or for the authenticator
(`"auth"`), where the code sets no timer.  A `Conn` is polled by several threads
at once when the handlers of its messages block (`PollLoop`): a poll is
`PollBegins` and `PollEnds`, and `Conn::close` may come between, from a handler
or from another connection of the same dpid.  `expired` abstracts the clock.
`SwitchPresence` is what components see of all this; `ImplementsPresence` maps
the dpids with an entry in `connection_map` to its `connected`.

### PollLoop

`pc` says where each thread of the pool is, `running` which one runs (all are in
one group), `hook` whether its pre-block hook is set.  A poll is `EnterPoll`,
any number of `PollBlocks` and `Resume`, and `PollReturns`; while it runs, or while
no thread of the pool does, pollables are added and removed and work comes up.
The list keeps its elements (`Pollable_ref`) apart from the pollables, because a
removed pollable's element stays as long as polls refer to it.

### EventDispatcher

Events are numbered as they are posted.  Each poll has its copy of `serial`
(`mine`), the number of events to go (`left`) and the handler it is in.
`serial` wraps at `SerialValues`, 2^32 in the code.

### TimerDispatcher

A `Timer_impl` is a slot of memory, a client's `Timer` a slot and a generation, of
any age.  `Begin`, `Fire`, `Return` and `End` are the stretches of `poll` between
callbacks; a callback is any number of `Callback` (post, cancel, delay, reset),
`Block` and `Resume`, and while it is blocked other threads poll and other
co-threads (`Client`) use the dispatcher.  `End` may go on to `wait`: then
`sleeping`, until `alarm`.  A moved timer signals nobody, as in the code.
`cached` is the clock as `do_gettimeofday` last read it, when a thread was scheduled or a
poll began: `post` and `reset` count from it, so that a timer may be due sooner than its
duration from now, which `Timers` allows.
`Timers` keeps only the times of the timers that are neither called nor cancelled, by
generation, and who is in a callback: neither queues, polls nor memory.  `named` is the
generation that a client's facade was of in the last step, or 0: a step of `Timers` that
cancels or moves a timer moves the one that was named, so a facade that reached a later
timer in the same memory would be no step of it.

### OpenflowConnection

Messages are sequences of units so that the socket can take and give parts of
them.  `connect` is one action per state.  `do_send_openflow` is `Accept`, `Again`
or `SendFails`, by how it returns (which may be with a part of the message written before
the error), and is used by the user, the handshake and the
probe; `tx_run` is the FSM that sends what is left.  `do_recv_openflow` is
`Message`, `Incomplete` or `RecvFails`.  `run` is the probing FSM; time is what is
left until a deadline.

### ReliableConnection

A `Reliable_openflow_connection` is an `Openflow_connection` itself: it has a
handshake (`wrapper_connect`) and probes (`wrapper_probe`, `wrapper_close`) of its own, whose
messages go through an underlying connection `c`, of which only the condition is
kept: none, connecting, up, or down.  `Sent`, `SendAgain`, `Received` and
`RecvAgain` are the ways its `do_send_openflow` and `do_recv_openflow` return;
finding `c` failed they take the step `Reconnect`, which runs the FSM up to its
timer.  `reconnect_run` is that FSM.  A user that waits does so on `c` (`"io"`) or on the
condition `connected`.  The handshake of `c` consumes the peer's hello, so the
wrapper's own handshake waits for a second one, and its first hello is dropped if
`c` is not up yet; the model leaves open whether a second hello comes.

### CoGroup and CoSync

`CoGroup` is the scheduler.  `pc[t]` says where a thread is: `"native"` (outside
the group), `"running"`, in the loop of `do_schedule`, in `ppoll`, or waiting for
its `sched_sem`.  What is done under the group's mutex is one step; `ppoll` is
entered and left in two, between which native threads join (`join_coop_group`
interrupts it).  FSMs run inside the thread that schedules or calls them, in one
step.  `CoSync` adds one object with a value and a wait queue, of any of the five
kinds: `WakeOps` is what each operation that wakes does to the value and how many
it wakes, `MayWait` and `AfterWait` what a waiter looks at before and after
`co_block`.  `OneRunner` is what the other modules take for granted: at most one
thread of a group runs, threads join and leave, and the position is handed on
only to members.

### Kernel

`finish_booting` installs the applications of a list; `Kernel::resolve` is
modelled component by component (`AllSatisfied`, `Waits`, `Finds`, `NotFound` in the
scan of a state's list, then `Install` of those that were resolved), because
resolving a dependency changes the lists that are being gone over.  A component may
fail at any state, or be unknown to the deployers.

### CoRwlock

Each operation runs to its `co_block` uninterrupted.  `acquired` is the flag the
wait passes to the queue; a thread in `Timed` also waits for a timer.
`co_block` returning takes a thread off its queue (`cancel_events`).  Two history
variables mark what the lock does not survive: `handed`, `write_unlock` has woken
another writer, and `stranded`, a writer has given up and left readers behind.

## 3. Runs

Every passing run checks its properties on all reachable states.  Bounds are
CONSTANTS, named in the module.

| run | instance | shows |
|---|---|---|
| `request_processor` | 2 switches, 2 requests, 2 urls, 3 kinds of body, 2 connects, 2 messages per request, 1 that nobody asked for | no request event is answered twice; modifications are always armed and answered; `_dpids` follows the connections |
| `interserver` | 1 switch, 2 HTTP requests, 2 kinds of body, 2 messages per request | until the first time-out or late message every client gets its own answer; until the first time-out requests are not torn, overwritten or cleared; clients always return; flagged requests are handled |
| `connections` | 2 connections, 2 dpids, 2 polls of one connection | map, objects and events agree; handshakes end; closed connections are freed; the refinement of `SwitchPresence` |
| `poll_loop` | 2 threads, 2 pollables, 3 list elements | one polling thread, never vacant with a thread to spare, no dangling iterator, work is polled, no deadlock |
| `event_dispatcher` | 2 threads, 3 events, 2 handlers, serial modulo 4; and a reader-writer lock with 2 readers and 2 writers, one of each timed | no pop of an empty queue and no event posted after the poll began, no lost wake-up, every event taken up; exclusion, nobody left behind, no starved writer |
| `timers` | 2 threads, 3 slots, 3 posts of 1 tick, 1 move, clock to 3, serial modulo 3 | no timer lost or queued twice; a poll fires only what was queued and due when it began; the refinement of `Timers`; every timer fires or is cancelled |
| `openflow` | 2 messages each way, socket of 3 units, probe interval 2; and a reliable connection with delays up to 11 ticks | framing in both directions; accepted messages are sent; silent peers are dropped, and only they; the delays double up to the limit and are kept; a user that waits for a connection is woken |
| `co_group` | 2 threads, the FSM thread, 1 FSM, one object of each kind | every task in one place; objects serve whom they wake; the refinement of `OneRunner`; who is ready runs |
| `kernel` | 3 components, every graph of dependencies, every combination of failing and missing components, 3 lists of applications | nothing runs before its dependencies; success exactly when possible; the start-up ends |

The type invariant of a module is the first conjunct of one of its safety
properties (`TypeOK` of `Connections` in `MapIsOpenConns`, `TypeOKRP` in
`DpidsFollowConnections`, and so on).  `MCEventDispatcher` and `MCOpenflowConnection` hold
two components each, which have nothing in common: a behaviour is that of one of them (`part`), the
other's variables stay as they are.

Three more runs show the program not doing what it says of itself (see `findings`):

* `co_rwlock_writers`, 2 writers: one that another writer's unlock has woken is not the
  owner, against the assertion after its `co_block` (`cooperative.cc:213`);
* `co_rwlock_timed`, 2 readers and a writer with a timer: readers that queued behind the
  writer are not woken when it gives up, and go on waiting for a lock that nobody has
  (`NoReaderLeft`), though they are to block "as necessary" (`cooperative.cc:141`);
* `reliable_crash`: `Reliable_openflow_connection::close` calls `c->close()` whether there
  is a `c` or not (`openflow.cc:848`), though "it'll keep trying to reconnect"
  (`openflow.hh:202-203`).  When the wrapper's handshake is over, its connection is lost
  and none comes for two probe intervals, the probe is dropped, taken for unanswered,
  and the controller crashes (`wrapper_close`, to state `"crashed"`), which `KeepsTrying`
  does not allow.

What the passing runs except is named in the properties: `Exclusion` and `WriterGetsLock`
hold until a lock is `handed` on, `NoWaitForFreeLock` until then or until a writer has
`stranded` readers, and `UserServed` is about a user that waits while the wrapper is not
yet, or no longer, probed.

More was met that has no run of its own:

* after a time-out the next client may get the answer to the request given up, its own
  request may be cleared or overwritten before `listen_state` reads it, and the
  empty request is then handled in its place; `CorrelatedUntilTimeout`,
  `RequestNotTornUntilTimeout` and the first part of `FlaggedIsHandled` end there.
  `HttpReturns` and the rest of `FlaggedIsHandled` go on;
* without a time-out too, a switch's second message, an error for an accepted
  modification, or a message that another application asked for is taken as the
  response to whatever request waits (`handle_reply`), and so is the "Accepted" of an
  earlier one;
* while the authenticator is asked, the FSM of a handshake waits for it alone
  (`nox.cc:700`), so that the "time to give up on the connection"
  (`nox.cc:548`) passes unnoticed; `HandshakeEnds` excepts that state;
* the `true` of a poll that blocked is dropped (`poll-loop.cc:175`) when another
  thread has become the polling thread, though `poll-loop.hh:57-59` promises
  that such a Pollable is called again without waiting.

Why the bounds are enough.  Two requests let every kind of late answer meet a
later request, and let `auto_set_reply` be armed again while it sleeps; two messages
of a switch let the second come for the next request; two
connects of a switch let a dpid be replaced.  Two connections are an old and a
new one.  With two threads of the pool one polls while the other is blocked,
and both may be blocked; the third list element lets a pollable be added again
while its former element is still referred to.  Two threads let one poll of the
dispatcher overtake another, and the modulus 4 lets `serial` wrap; likewise for
timers, where a clock up to 3 lets a timer of one tick be early, due and late, and three
slots let memory be given out again.  A socket of three units is full in the
middle of a message.  A limit of 11, no power of two, lets the delay double
through four values, and probes every 2 ticks fall into delays, between attempts and
into connections.  Two writers let the lock be handed from one to the other, and one
timed thread of each kind lets it give up, alone or behind another.  Two threads and the FSM thread let one poll while the
other joins or leaves, and let a waiter that was woken be overtaken.  Three
components have every kind of chain, fork and circle that two passes over the
lists can meet.  What is
proved does not depend on bounds.

`EventDispatcher` and `TimerDispatcher` have one bound that excludes behaviour:
`NoWrap`, a poll does not take the serial of a poll that is still blocked, which in the code takes 2^32
polls during one handler or callback.  Without it `OnlyInitialEvents` fails.

Deadlock is not checked where the system may stop: when clients, switches or
posted events have run out.  It is checked in `poll_loop`.

### Fairness

* `RequestProcessor`, `Interserver`: weak fairness of dispatching, of the
  co-threads and of the HTTP thread, whose `timed_lock` ends in any case.
  Clients and switches owe nothing.
* `Connections`: a ready FSM runs, time passes and timers go off, polls end.
  The authenticator and the switches owe nothing.
* `PollLoop`: strong fairness of `Resume`, because the group's ready list is first
  in, first out, and of a poll's return.  `WorkIsPolled` also assumes that
  pollables are not added for ever: a pass in which polls keep adding pollables
  at the end of the list need not end.
* `EventDispatcher`: the loop polls while there are events (`WorkIsPolled` of
  `PollLoop`), handlers return and do not block for ever.
* `TimerDispatcher`: time passes, the scheduler's timer works, the loop polls
  while it does not sleep; strong fairness of `Resume` and `Return`, as callbacks end
  and the ready list is first in, first out.  Nothing is assumed of other Pollables
  or of clients.
* `OpenflowConnection`: the FSMs are scheduled, time passes, and the peer reads
  what it is sent.  (Of a peer that neither reads nor sends the code does not
  get rid: the probe is not accepted, `EAGAIN`, and the FSM waits to send it.)
  The user owes nothing: a connection whose user does not read for two intervals
  is dropped like a silent one.
* `ReliableConnection`: the FSM is scheduled and time passes; of attempts made again
  and again one starts, one is accepted, and one such connection lasts until the FSM
  has seen it.  The user owes nothing.
* `CoSync`: threads in `do_schedule` go on, and running threads give way, by
  blocking, yielding or leaving the group.
* `CoRwlock`: a ready thread runs, and owners unlock.
* `Kernel`: the booting thread runs.

## 4. Proofs

TLAPS checks the following for every value of the constants.

* `InterserverProofs`, of the request processor by itself (`SpecRP`):
  `TypeCorrectRP`, `AtMostOneResponse`, `ModifyStaysArmed`, `DpidsFollow` and
  `LongDpidsOutOfReach`.  `OneResponsePerRequest` counts the responses of each request event
  by itself and is inductive with
  `PendingModifyArmed` given the types: a response is posted only while
  `replyState` holds, when the request handled last has none, and posting it clears it.  `PendingModifyArmed` needs that
  `auto_set_reply` disarms only after it has posted, and that arming is
  never taken back by a second request.  `DpidsFollowConnections` is inductive by
  itself: each step adds an event at the end of the queue or takes the first one,
  and the lemmas on `UpAfter` and `Alternate` say what that does to the alternation
  of joins and leaves, which other events in between do not disturb.
  The dpid of a request is what `atoi` makes of it;
  `LongDpidsOutOfReach` says that no request is sent to a switch whose id is none of
  `Nameable`, by an invariant on the messages at the switches.
* `InterserverProofs`, of the processor behind the HTTP thread (`Spec`):
  `ThreadsInStep`, `ProcessorKeptByHttp`, `ClientsGetTheirOwn`, `FlaggedIsKept` and
  `RequestsAreWhole`.  Up to the first time-out the HTTP thread's request is in
  exactly one place (`InvI`): being written, flagged, copied by `listen_state`,
  posted, with the processor, as a response in the queue, or with a response being stored; in every place
  it is the client's latest request, and while `listen_state` copies, the client
  is waiting on `_http_sync`.  Until something is late, every message
  and response that can still be taken for it, and the "Accepted" that is armed, is about
  the request handled last (`Recent`), so the response that is posted is its own.  `FlaggedIsKept` is the part of
  `FlaggedIsHandled` that rests on no fairness.  The steps of the processor are used through what
  the lemmas on `NextRP` say of them, for whatever requests are posted.
* `EventDispatcherProofs`: `TypeCorrectED`, `NoStarvingPoll`,
  `WakeupsKept`.  The inductive invariant `IInv` says that the
  blocked polls have different serials (`Unique`), that only the poll whose
  serial is current can still have events to go when it looks at the queue, and
  that it has at most as many to go as there are (`Current`, `Remaining`); that the
  queue holds consecutive numbers (`InOrder`), of which the first `left` are not
  above the poll's `limit` (`Limits`).
* `TimerDispatcherProofs`: `NoTimerLost`, `NoNewTimerFires` and `TimersAsPromised`.  A generation belongs
  to one timer (`Issued`), so a facade cannot reach a later timer in the same
  memory.  While a poll has the current serial, whatever is queued for its pass was
  queued when it began (`StillInitial`); timers that are posted or moved meanwhile
  wait for the next poll, whose serial no poll in progress has (`NoWrap`).
  `TimersAsPromised` is the refinement of `Timers`: a timer that is neither called nor
  cancelled is named by its generation and has a time (`Due`, a function because
  generations differ: `DueOfIs`, `SameDue`), and an operation through a valid facade
  changes it at the generation it names, and at that alone (`OneLess`, `MoveSets`).  That the one called is
  due follows from `NowPassed`: a poll's time of day is never ahead of the clock,
  however long the poll has been suspended.
* `ConnectionsProofs`: `MapAgrees`, `NoUseAfterDelete` and `PresenceKept`.  A `Conn`
  that is mapped is open and of the dpid it is mapped under, so it is mapped once:
  `close` can only erase its own entry, and `register_conn` closes another `Conn` than
  the one it inserts.  With that each step on map and events is a step of
  `SwitchPresence`, which states no fairness, or a stutter.
* `PollLoopProofs`: `OnePollingThread`, `PositionNotLost`, `ReferencesCount` and
  `IteratorsStayValid`.  The polling position
  is a token: `TokenInv` adds to the two properties that one thread runs
  (`OneRuns`), what holds before `run()` (`BeforeRun`), and that
  `dormant_threads` is exactly the set of dormant threads, each once
  (`DormantInLine`).  With nobody in line, a polling thread that blocks leaves only
  threads blocked in polls behind; that is why taking the vacant position
  back never makes a second polling thread.  `RefsInv` says that an element's count
  is the number of polls that refer to it and that a counted element is in the list,
  once; so an iterator held by a poll or by a hook, and the successor taken
  when the poll returns, are elements of the list.  Rotating, erasing and appending
  keep that by the lemmas on positions and segments of lists.
* `CoSyncProofs`: `OneThreadHasTheGroup`, `GroupImplementsOneRunner`,
  `TasksInOnePlace` and `NobodyIsLeftWaiting`.  The group is a token too (`InvG`):
  nobody is in it, or one thread holds it (`Holds`: it runs, schedules or polls, and
  all other members wait with no wake-up pending), or it has been handed to one
  thread (`Handed`: the one pending wake-up is that thread's).  With it go
  the places of all tasks (`Placed`): `TasksInOnePlace` does not follow
  without it, since a thread woken by `leave_coop_group` only to schedule stays
  ready or blocked.  Each step is then a step of `OneRunner` or a stutter.
  `InvW` adds, for each kind of object, the values it can have, that a queue is empty
  while there is something to be had, and that who was made ready by the queue is
  served until it goes on; steps that touch neither object nor queue are `Quiet`.
  Then, of `CoRwlock`, `ReadersOrWriter` and `FreeLockIsTaken`.
  `LockInv` says that the queues hold, once, exactly those who wait and have not been given
  the lock (`Queues`) and that the fields say who has it (`Owners`); `LinesMove`
  that readers wait only for a writer, and a writer in line for readers.  Neither assumes
  anything of the number of writers or of who has a timer: `LockInv` holds until a writer is
  `handed` the lock by another, and `LinesMove` until then or until a writer has left
  readers `stranded`; the runs `co_rwlock_writers` and `co_rwlock_timed` show that they
  do not hold afterwards.
* `OpenflowConnectionProofs`: `MessagesStayWhole` and `OnlyTheSilentAreDropped`.  `Inv`
  says that what was written and what is buffered are together whole messages
  (`SendingWhole`); that the messages received are the first ones of the peer, and that
  the receive buffer, unless empty, is the beginning of the peer's next one, not the
  whole of it (`ReceivingWhole`); and that the deadlines of the probe never run ahead of
  the silence they measure (`Silence`).  It needs what `FlattenSeq`, by a function defined
  recursively on positions, returns (`FlattenIs`, `FlattenAppend`): shown
  by induction on a bounded interval, as a statement about sets (`Climb`), which the
  pigeonhole principle gives, since the library's induction theorems take an operator.
  Then, of `ReliableConnection`, `DelaysDouble`: `Retries` adds to
  `BackoffKept` that while the FSM waits to try again the time passed and the delay left
  are together no less than `backoff`.  That doubling and the two caps, on `backoff`
  and on the count of failures, agree is `Doubled`, by what `TwoTo` returns (`TwoToIs`).
* `KernelProofs`: `KernelInvariant`, `DependenciesAlwaysFirst` and
  `BootSucceedsIffItCan`.  `Inv` says that what is about to be installed has its
  dependencies installed (`ResolvedReady`), that while an application is being
  installed every other known component is installed or needed by it
  (`NeededOnly`), and that a pass over the lists which has found nothing to do has
  only passed over blocked components (`PassBlocked`).  So when `resolve` gives up,
  the components that are left wait for one another or have a flaw: what remains is
  disjoint from `Installable`, the application among it.  Conversely an installed
  component is in every set closed under `Installable`'s rule (`StatesHonest`).

Assumptions are those stated as ASSUME in the modules: `None` and `Nobody` are not
threads, readers are not writers, `Main` is one,
 pools are finite, counts are naturals, a datapath id is at least as wide as an int.  No theorem has other hypotheses.

Only model-checked: everything that rests on fairness and ENABLED (`ModifyAnswered`,
`HttpReturns`, `FlaggedIsHandled`, `HandshakeEnds`, `ClosedIsDeleted`, `WorkIsPolled`,
`PostedIsTaken`, `PostedFires`, `AcceptedIsSent`, `SilentPeerDropped`, `UserServed`,
`ReadyRuns`, `WriterGetsLock`, `BootEnds`).  Every other property of a passing run is a
theorem.

Some operators are defined in the way proofs can use: `Without`, `Position`
and `Erase` take elements out of lists by their positions, `Installable` is the least
closed set and not a fixed number of rounds, and `Alternate` looks at positions
of the queue instead of at a filtered one.

## 5. Not modelled

* **Scheduler**: the native pool and its semaphores, threads that move between
  several groups, FSMs run inside an FSM, `co_join_completion`, and
  `co_fsm_transition`, which nothing calls.  `make_ready` takes no mutex; the model
  takes its change of the lists as one step.
* **Passive OpenFlow connections** and the connection factories, and the composition
  of `ReliableConnection` with `Connections`.  A reliable connection reports success
  for a message it drops, which is why `Connections` lets a features request go
  unanswered.
* **Kernel**: reading descriptions, interfaces, the static deployer (the built-in
  components are taken as installed, which also means that `per_state` has a list
  for every state).
* **Interactors**: the messages they build from accepted arguments, and the texts of
  replies (data without behaviour over time).  Of the hub and the learning
  switch, the messenger, and the packet classifier nothing yet.
* `shutdown_handler`; sockets, files, signals, logging (system calls); JSON and
  command-line parsing; oflib and libopenflow, which are third-party code.

Memory is sequentially consistent.

## 6. Plan

1. *(done)* request processor and HTTP side; connections with their abstract
   specification; main loop; event dispatcher; reader-writer lock; theorems for
   the three components with the most intricate sequential hand-overs.
2. *(done)* scheduler and synchronisation objects with the abstract specification
   of one running thread; timers; OpenFlow connections, plain and reliable; kernel; the
   arguments of requests; theorems for timers and for switch connections, with the
   refinement of `SwitchPresence`.
3. *(done)* theorems for the kernel, the HTTP side, the scheduler and its objects with
   the refinement of `OneRunner`; `DpidsFollowConnections`; `IteratorsValid` with
   lemmas on positions; `FramingKept` with lemmas on flattened sequences;
   `BackoffKept`; `Exclusion` and `NoWaitForFreeLock`; the refinement of
   `Timers`; which switches no request can reach.
4. Models: `ReliableConnection` under `Connections`; several cooperative
   groups and the native pool; the MAC table of the learning switch; the
   messenger's connections and their idle timers.
