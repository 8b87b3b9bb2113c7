------------------------------ MODULE CoGroup ------------------------------
(***************************************************************************)
(* A group of cooperative threads and finite state machines (FSMs), as     *)
(* impl.cc schedules them: the ready and blocked lists, the thread that    *)
(* polls, native threads that join and leave, and a wait queue.            *)
(*                                                                         *)
(* What a thread does under the group's mutex is one step, and so is what  *)
(* it does between two blocking calls.  (make_ready without the mutex is   *)
(* taken to be atomic.)  An FSM's function runs in the thread that         *)
(* schedules it and is one step; an FSM that runs another one is left out. *)
(* Descriptors and timers are one kind of event, "io"; they come at any    *)
(* time.                                                                   *)
(***************************************************************************)
EXTENDS Integers, Sequences, FiniteSets, SequencesExt, Lists

CONSTANTS
  Threads,     \* threads, in the group or native
  Fsms,        \* finite state machines
  FsmThread    \* the thread that stays in the group for the FSMs' sake

ASSUME GroupAssumption ==
  /\ FsmThread \in Threads
  /\ Threads \cap Fsms = {}
  /\ IsFiniteSet(Threads) /\ IsFiniteSet(Fsms)

Tasks == Threads \cup Fsms

VARIABLES
  members,        \* the threads counted in n_threads
  pc,             \* "native"; "running"; "schedule", in the loop of do_schedule;
                  \* "poll", in ppoll; "wait", in wait_sem(sched_sem)
  ready_list, block_list,
  sched_sem,
  need_schedule,  \* the threads with COTF_NEED_SCHEDULE
  interrupted,    \* a ppoll->interrupt is pending
  fsms,           \* the FSMs that exist
  io,             \* the tasks with an event on a descriptor or a timer
  wq,             \* a Co_waitqueue: the tasks with an event on it, in order
  woken           \* why a task was made ready: "queue" if the queue's event
                  \* has occurred, otherwise "other"; "not" since it blocked

lists == <<ready_list, block_list>>
tokens == <<members, pc, sched_sem, need_schedule, interrupted>>
events == <<io, wq, woken>>
vars == <<lists, tokens, events, fsms>>

-----------------------------------------------------------------------------
(* Lists and wake-ups                                                      *)

\* make_ready of a sequence of tasks; those with COTF_READY stay in place.
Readied(list, seq) == list \o Without(seq, ToSet(list))

\* The tasks of a set are made ready for another reason than the queue.
WokenOther(set) ==
  [k \in Tasks |-> IF k \in set /\ woken[k] = "not" THEN "other" ELSE woken[k]]

\* Those of a set are made ready by the queue.
WokenQueue(set) == [k \in Tasks |-> IF k \in set THEN "queue" ELSE woken[k]]

\* The orders in which events of some of the tasks waiting for io may come.
IoEvents(set) == UNION {SetToSeqs(S) : S \in SUBSET set}

\* do_event_wake of tasks, in order.
Wake(seq) ==
  /\ ready_list' = Readied(ready_list, seq)
  /\ block_list' = Without(block_list, ToSet(seq))

\* The first n events of the queue are woken and taken off.
wake_n(n) ==
  LET first == SubSeq(wq, 1, n) IN
  /\ Wake(first)
  /\ wq' = SubSeq(wq, n + 1, Len(wq))
  /\ woken' = WokenQueue(ToSet(first))
  /\ UNCHANGED <<io, fsms>>

-----------------------------------------------------------------------------
(* Joining and leaving                                                     *)

\* Faulty join_coop_group: the thread that polls is not interrupted.
join_coop_group_NoInterrupt(t) ==
  /\ t # FsmThread /\ pc[t] = "native"
  /\ members' = members \cup {t}
  /\ \/ /\ members = {}
        /\ pc' = [pc EXCEPT ![t] = "running"]
        /\ UNCHANGED ready_list
     \/ /\ members # {}
        /\ ready_list' = Append(ready_list, t)
        /\ pc' = [pc EXCEPT ![t] = "wait"]
  /\ woken' = [woken EXCEPT ![t] = "other"]
  /\ UNCHANGED <<block_list, sched_sem, need_schedule, interrupted, fsms, io, wq>>

\* co_migrate into the group and join_coop_group, by a native thread.
join_coop_group(t) ==
  /\ t # FsmThread /\ pc[t] = "native"
  /\ members' = members \cup {t}
  /\ \/ /\ members = {}
        /\ pc' = [pc EXCEPT ![t] = "running"]
        /\ UNCHANGED <<ready_list, interrupted>>
     \/ /\ members # {}
        /\ ready_list' = Append(ready_list, t)
        /\ pc' = [pc EXCEPT ![t] = "wait"]
        /\ interrupted' = (interrupted \/ \E u \in Threads : pc[u] = "poll")
  /\ woken' = [woken EXCEPT ![t] = "other"]
  /\ UNCHANGED <<block_list, sched_sem, need_schedule, fsms, io, wq>>

\* wake_thread_on_list: the threads it may choose.
FirstThread(list) ==
  {list[i] : i \in {i \in DOMAIN list :
    list[i] \in Threads /\ \A j \in 1..(i - 1) : list[j] \in Fsms}}

\* Faulty choice: blocked threads are not considered.
NextInCharge_ReadyOnly == FirstThread(ready_list)

\* The thread that leave_coop_group wakes, if there is one.
NextInCharge ==
  IF FirstThread(ready_list) # {} THEN FirstThread(ready_list) ELSE FirstThread(block_list)

\* Faulty leave_coop_group: the thread that is woken is not told to schedule.
leave_coop_group_NoFlag(t) ==
  /\ t # FsmThread /\ pc[t] = "running"
  /\ members' = members \ {t}
  /\ pc' = [pc EXCEPT ![t] = "native"]
  /\ sched_sem' = [u \in Threads |-> sched_sem[u] + IF u \in NextInCharge THEN 1 ELSE 0]
  /\ UNCHANGED <<lists, need_schedule, interrupted, events, fsms>>

\* co_migrate out of the group, or the end of thread_main: leave_coop_group
\* has another thread do the scheduling, without making it ready.
leave_coop_group(t) ==
  /\ t # FsmThread /\ pc[t] = "running"
  /\ members' = members \ {t}
  /\ pc' = [pc EXCEPT ![t] = "native"]
  /\ need_schedule' = need_schedule \cup NextInCharge
  /\ sched_sem' = [u \in Threads |-> sched_sem[u] + IF u \in NextInCharge THEN 1 ELSE 0]
  /\ UNCHANGED <<lists, interrupted, events, fsms>>

\* co_thread_create by the running thread, into its own group.
co_thread_create(t, new) ==
  /\ pc[t] = "running" /\ t # FsmThread
  /\ pc[new] = "native" /\ new # FsmThread
  /\ members' = members \cup {new}
  /\ ready_list' = Append(ready_list, new)
  /\ pc' = [pc EXCEPT ![new] = "wait"]
  /\ woken' = [woken EXCEPT ![new] = "other"]
  /\ UNCHANGED <<block_list, sched_sem, need_schedule, interrupted, fsms, io, wq>>

\* co_fsm_create; the first FSM brings FsmThread into the group.
co_fsm_create(t, f) ==
  LET thread == IF FsmThread \in members THEN << >> ELSE <<FsmThread>> IN
  /\ pc[t] = "running" /\ t # FsmThread
  /\ f \notin fsms
  /\ fsms' = fsms \cup {f}
  /\ members' = members \cup {FsmThread}
  /\ ready_list' = ready_list \o <<f>> \o thread
  /\ pc' = IF thread = << >> THEN pc ELSE [pc EXCEPT ![FsmThread] = "wait"]
  /\ woken' = [k \in Tasks |-> IF k = f \/ Contains(thread, k) THEN "other" ELSE woken[k]]
  /\ UNCHANGED <<block_list, sched_sem, need_schedule, interrupted, io, wq>>

-----------------------------------------------------------------------------
(* Blocking                                                                *)

\* Wait functions, then co_block, when none of the events has occurred.
Block(t, onIo, onQueue) ==
  /\ io' = IF onIo THEN io \cup {t} ELSE io
  /\ wq' = IF onQueue THEN Append(wq, t) ELSE wq
  /\ woken' = [woken EXCEPT ![t] = "not"]
  /\ block_list' = Append(block_list, t)
  /\ pc' = [pc EXCEPT ![t] = "schedule"]
  /\ UNCHANGED <<ready_list, members, sched_sem, need_schedule, interrupted, fsms>>

\* co_block after co_immediate_wake: co_poll, then co_yield.
BlockReady(t, onIo) ==
  \E seq \in IoEvents(IF onIo THEN io \cup {t} ELSE io) :
    LET ready == Readied(ready_list, seq) IN
    /\ block_list' = Without(block_list, ToSet(seq))
    /\ woken' = [WokenOther(ToSet(seq)) EXCEPT ![t] = "queue"]
    /\ \/ /\ ready = << >>
          /\ io' = io \ ({t} \cup ToSet(seq))
          /\ UNCHANGED <<ready_list, pc>>
       \/ /\ ready # << >>
          /\ ready_list' = Readied(ready, <<t>>)
          /\ io' = (IF onIo THEN io \cup {t} ELSE io) \ ToSet(seq)
          /\ pc' = [pc EXCEPT ![t] = "schedule"]
    /\ UNCHANGED <<wq, members, sched_sem, need_schedule, interrupted, fsms>>

\* co_yield, when another task is ready; otherwise it does nothing.
co_yield(t) ==
  /\ pc[t] = "running" /\ t # FsmThread
  /\ ready_list # << >>
  /\ ready_list' = Append(ready_list, t)
  /\ woken' = [woken EXCEPT ![t] = "other"]
  /\ pc' = [pc EXCEPT ![t] = "schedule"]
  /\ UNCHANGED <<block_list, members, sched_sem, need_schedule, interrupted, fsms, io, wq>>

\* fsm_thread: co_block without events.
fsm_thread ==
  /\ pc[FsmThread] = "running"
  /\ Block(FsmThread, FALSE, FALSE)

-----------------------------------------------------------------------------
(* do_schedule                                                             *)

\* cancel_events, when t goes on.
Resumed(t) ==
  /\ pc' = [pc EXCEPT ![t] = "running"]
  /\ io' = io \ {t}
  /\ wq' = Without(wq, {t})

\* The list is empty and no timer is due: the thread polls without the mutex.
StartPoll(t) ==
  /\ pc[t] = "schedule" /\ ready_list = << >>
  /\ pc' = [pc EXCEPT ![t] = "poll"]
  /\ UNCHANGED <<lists, members, sched_sem, need_schedule, interrupted, events, fsms>>

\* wakeup_timers and process_poll_results, for the io events of a sequence of
\* tasks.
PollResults(seq) ==
  /\ Wake(seq)
  /\ io' = io \ ToSet(seq)
  /\ woken' = WokenOther(ToSet(seq))
  /\ UNCHANGED <<members, sched_sem, need_schedule, fsms, wq>>

\* Some timer is due, and the thread does not go and poll.
DueTimers(t) ==
  /\ pc[t] = "schedule" /\ ready_list = << >>
  /\ \E seq \in IoEvents(io) \ {<< >>} : PollResults(seq)
  /\ UNCHANGED <<pc, interrupted>>

\* The running thread calls co_poll, or co_fd_closed for some descriptor.
co_poll(t) ==
  /\ pc[t] = "running" /\ t # FsmThread
  /\ \E seq \in IoEvents(io) \ {<< >>} : PollResults(seq)
  /\ UNCHANGED <<pc, interrupted>>

\* ppoll returns: events have come, or a thread has joined.
EndPoll(t) ==
  /\ pc[t] = "poll"
  /\ \/ \E seq \in IoEvents(io) \ {<< >>} : PollResults(seq) /\ UNCHANGED interrupted
     \/ interrupted /\ PollResults(<< >>) /\ interrupted' = FALSE
  /\ pc' = [pc EXCEPT ![t] = "schedule"]

\* The first in line is the scheduling thread itself.
ScheduleSelf(t) ==
  /\ pc[t] = "schedule" /\ ready_list # << >> /\ Head(ready_list) = t
  /\ ready_list' = Tail(ready_list)
  /\ Resumed(t)
  /\ UNCHANGED <<block_list, members, sched_sem, need_schedule, interrupted, fsms, woken>>

\* It is another thread, which is started.
ScheduleOther(t) ==
  /\ pc[t] = "schedule" /\ ready_list # << >>
  /\ Head(ready_list) \in Threads \ {t}
  /\ ready_list' = Tail(ready_list)
  /\ sched_sem' = [sched_sem EXCEPT ![Head(ready_list)] = @ + 1]
  /\ pc' = [pc EXCEPT ![t] = "wait"]
  /\ UNCHANGED <<block_list, members, need_schedule, interrupted, events, fsms>>

\* wait_sem returns; a thread with COTF_NEED_SCHEDULE schedules again
\* (reschedule_while_needed), another one goes on.
Awake(t) ==
  /\ pc[t] = "wait" /\ sched_sem[t] > 0
  /\ sched_sem' = [sched_sem EXCEPT ![t] = @ - 1]
  /\ need_schedule' = need_schedule \ {t}
  /\ \/ /\ t \in need_schedule
        /\ pc' = [pc EXCEPT ![t] = "schedule"]
        /\ UNCHANGED <<io, wq>>
     \/ t \notin need_schedule /\ Resumed(t)
  /\ UNCHANGED <<lists, members, interrupted, woken, fsms>>

-----------------------------------------------------------------------------
(* Finite state machines                                                   *)

\* How the function of an FSM may end: co_fsm_yield, co_fsm_exit, or
\* co_fsm_block after wait functions (for no event at all it is co_fsm_rest).
Endings == {"yield", "exit", "rest", "io", "queue", "io+queue"}

\* run_fsm: cancel_events, then the function, which wakes n tasks of the queue
\* and ends.  Before it f has been taken off the lists (remove_from_lists).
run_fsm(f, n, ending) ==
  LET queue == Without(wq, {f})
      first == SubSeq(queue, 1, n)
      rest == SubSeq(queue, n + 1, Len(queue))
      ready == Readied(Without(ready_list, {f}), first)
      blocked == Without(block_list, {f} \cup ToSet(first))
      blocks == ending \in {"rest", "io", "queue", "io+queue"} IN
  /\ ready_list' = IF ending = "yield" THEN Append(ready, f) ELSE ready
  /\ block_list' = IF blocks THEN Append(blocked, f) ELSE blocked
  /\ io' = IF ending \in {"io", "io+queue"} THEN io \cup {f} ELSE io \ {f}
  /\ wq' = IF ending \in {"queue", "io+queue"} THEN Append(rest, f) ELSE rest
  /\ woken' = [WokenQueue(ToSet(first)) EXCEPT
                 ![f] = IF ending = "yield" THEN "other" ELSE "not"]
  /\ fsms' = IF ending = "exit" THEN fsms \ {f} ELSE fsms
  /\ UNCHANGED <<members, pc, sched_sem, need_schedule, interrupted>>

\* An FSM runs because it is the first in line, or by co_fsm_run or
\* co_fsm_invoke from the running thread.
RunsFsm(t, f) ==
  \/ pc[t] = "schedule" /\ ready_list # << >> /\ Head(ready_list) = f
  \/ pc[t] = "running" /\ t # FsmThread /\ f \in fsms

\* co_fsm_wake.
co_fsm_wake(t, f) ==
  /\ pc[t] = "running" /\ t # FsmThread
  /\ f \in fsms /\ ~Contains(ready_list, f)
  /\ Wake(<<f>>)
  /\ woken' = WokenOther({f})
  /\ UNCHANGED <<tokens, fsms, io, wq>>

\* co_fsm_kill.
co_fsm_kill(t, f) ==
  /\ pc[t] = "running" /\ t # FsmThread
  /\ f \in fsms
  /\ fsms' = fsms \ {f}
  /\ ready_list' = Without(ready_list, {f})
  /\ block_list' = Without(block_list, {f})
  /\ io' = io \ {f}
  /\ wq' = Without(wq, {f})
  /\ woken' = [woken EXCEPT ![f] = "not"]
  /\ UNCHANGED <<tokens>>

-----------------------------------------------------------------------------
\* A group before any thread is in it.
InitGroup ==
  /\ members = {} /\ fsms = {}
  /\ pc = [t \in Threads |-> "native"]
  /\ ready_list = << >> /\ block_list = << >>
  /\ sched_sem = [t \in Threads |-> 0]
  /\ need_schedule = {} /\ interrupted = FALSE
  /\ io = {} /\ wq = << >>
  /\ woken = [k \in Tasks |-> "not"]

\* What threads do that does not concern the synchronisation object.
GroupStep(t) ==
  \/ join_coop_group(t) \/ leave_coop_group(t) \/ co_yield(t) \/ co_poll(t)
  \/ StartPoll(t) \/ DueTimers(t) \/ EndPoll(t)
  \/ ScheduleSelf(t) \/ ScheduleOther(t) \/ Awake(t)
  \/ (pc[t] = "running" /\ t # FsmThread /\ Block(t, TRUE, FALSE))
  \/ \E new \in Threads : co_thread_create(t, new)
  \/ \E f \in Fsms : co_fsm_create(t, f) \/ co_fsm_wake(t, f) \/ co_fsm_kill(t, f)
  \/ \E f \in Fsms, e \in Endings \ {"queue", "io+queue"} :
       RunsFsm(t, f) /\ run_fsm(f, 0, e)

-----------------------------------------------------------------------------
(* Properties of the lists                                                 *)

\* The thread that has the group: it runs, schedules, or has been woken to.
HasToken(t) ==
  \/ pc[t] \in {"running", "schedule", "poll"}
  \/ pc[t] = "wait" /\ sched_sem[t] > 0

\* Whether a task has been popped from the ready list and not blocked since.
Chosen(k) == k \in Threads /\ HasToken(k) /\
  (pc[k] = "running" \/ (pc[k] = "wait" /\ k \notin need_schedule))

\* Types, with the semaphores' values: no thread is woken twice.
TypeOKGroup ==
  /\ members \subseteq Threads /\ fsms \subseteq Fsms
  /\ pc \in [Threads -> {"native", "running", "schedule", "poll", "wait"}]
  /\ \A t \in Threads : pc[t] = "native" <=> t \notin members
  /\ ready_list \in Seq(Tasks) /\ block_list \in Seq(Tasks) /\ wq \in Seq(Tasks)
  /\ sched_sem \in [Threads -> 0..1]
  /\ need_schedule \subseteq {t \in Threads : pc[t] = "wait" /\ sched_sem[t] = 1}
  /\ interrupted \in BOOLEAN
  /\ io \subseteq Tasks
  /\ woken \in [Tasks -> {"not", "queue", "other"}]

\* Every task of the group is in exactly one place: it has been chosen to run,
\* or it is ready, or it is blocked and then none of the events it waits for
\* has occurred.  In particular co_block returns only to those with an event
\* (the assertions after the co_block of co_fd_block and Co_sema::down), also
\* when a thread was woken only to schedule.
InOnePlace ==
  /\ TypeOKGroup
  /\ \A i, j \in DOMAIN ready_list : ready_list[i] = ready_list[j] => i = j
  /\ \A i, j \in DOMAIN block_list : block_list[i] = block_list[j] => i = j
  /\ ToSet(ready_list) \cap ToSet(block_list) = {}
  /\ \A k \in members \cup fsms :
       /\ Chosen(k) \/ Contains(ready_list, k) \/ Contains(block_list, k)
       /\ Chosen(k) \/ Contains(ready_list, k) <=> woken[k] # "not"
       /\ Chosen(k) => ~Contains(ready_list, k) /\ ~Contains(block_list, k)
  /\ ToSet(ready_list) \cup ToSet(block_list) \subseteq (members \cup fsms)
=============================================================================
