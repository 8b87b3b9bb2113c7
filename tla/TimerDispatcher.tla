-------------------------- MODULE TimerDispatcher --------------------------
(***************************************************************************)
(* Timer_dispatcher: timers that are posted, moved and cancelled by        *)
(* co-threads and by the timers' own callbacks, and the polls of the main  *)
(* loop that fire them.  A callback that blocks hands the main loop to     *)
(* another thread, which polls again in the middle of the first poll.      *)
(*                                                                         *)
(* A Timer_impl is a slot, which the heap may give out again after its     *)
(* deletion; a Timer, the client's facade, is a slot and a generation.     *)
(***************************************************************************)
EXTENDS Integers, FiniteSets

CONSTANTS
  Threads,       \* the main loop's threads
  Slots,         \* places in memory for a Timer_impl
  MaxTime,       \* bound on the clock
  Durations,     \* the durations of post, delay and reset
  MaxPosts,      \* bound on the number of timers posted
  MaxMoves,      \* bound on the number of times a timer is moved
  SerialValues,  \* how many values serial has: 2^32 in the code
  None

ASSUME TimerAssumption ==
  /\ IsFiniteSet(Threads) /\ IsFiniteSet(Slots)
  /\ MaxTime \in Nat /\ MaxPosts \in Nat /\ MaxMoves \in Nat
  /\ Durations \subseteq Nat
  /\ SerialValues \in Nat \ {0}
  /\ None \notin Slots

VARIABLES
  clock,
  cached,  \* what do_gettimeofday returns: the clock when it was last read
  timers, applicants, all_timers,  \* sets of slots
  time, admitted, generation,      \* of each slot
  next_generation,
  moves,                           \* how many timers have been moved
  serial,
  sleeping, alarm,  \* whether the polling thread is in co_block, and until when
  pc,       \* "out" of poll, "firing", in a callback ("func"), or "blocked" in it
  now, mine,        \* the copies of the time and of serial that a poll has
  slot,             \* the timer whose callback a thread is in
  initial,  \* history: the generations a poll may fire: in the queue when it
            \* began, and not moved since
  named     \* history: the generation of the facade whose timer a client has
            \* cancelled or moved in the last step, or 0

objects == <<timers, applicants, all_timers, time, admitted, generation,
             next_generation, moves>>
polls == <<serial, pc, now, mine, slot>>
vars == <<clock, cached, objects, sleeping, alarm, polls, initial, named>>

Generations == 1..MaxPosts

-----------------------------------------------------------------------------
(* Operations of clients                                                   *)

\* The contents of a Timer_impl that is deleted, or will be when its callback
\* returns: no facade may look at it any more.
Gone(t) ==
  /\ time' = [time EXCEPT ![t] = 0] /\ admitted' = [admitted EXCEPT ![t] = FALSE]
  /\ generation' = [generation EXCEPT ![t] = 0]

\* Free memory for a Timer_impl: not queued, nor in use by a poll that fires it.
Free == {t \in Slots : t \notin all_timers /\ \A th \in Threads : slot[th] # t}

\* post: the sleeping thread is signalled.  Which slot the heap gives makes no
\* difference.
post(d) ==
  LET t == CHOOSE t \in Free : TRUE IN
  /\ next_generation < MaxPosts /\ cached + d < MaxTime /\ Free # {}
  /\ next_generation' = next_generation + 1
  /\ applicants' = applicants \cup {t}
  /\ all_timers' = all_timers \cup {t}
  /\ time' = [time EXCEPT ![t] = cached + d]
  /\ admitted' = [admitted EXCEPT ![t] = FALSE]
  /\ generation' = [generation EXCEPT ![t] = next_generation']
  /\ sleeping' = FALSE /\ alarm' = None /\ named' = 0
  /\ UNCHANGED <<timers, moves, initial>>

\* Faulty check_validity: a facade is valid if its slot has a timer.
check_validity_AnyGeneration(t, g) == t \in all_timers

\* check_validity of a facade.
check_validity(t, g) == t \in all_timers /\ generation[t] = g

\* Timer_impl::cancel: off the set it is taken to be in.
Unqueue(t) ==
  /\ timers' = IF admitted[t] THEN timers \ {t} ELSE timers
  /\ applicants' = IF admitted[t] THEN applicants ELSE applicants \ {t}

\* Timer::cancel.
cancel(t, g) ==
  /\ check_validity(t, g)
  /\ Unqueue(t)
  /\ all_timers' = all_timers \ {t}
  /\ Gone(t)
  /\ named' = g
  /\ UNCHANGED <<next_generation, moves, sleeping, alarm, initial>>

\* Faulty set_timeout: the timer is still marked as admitted.
set_timeout_Admitted(t, g, when) ==
  /\ moves < MaxMoves
  /\ check_validity(t, g)
  /\ timers' = timers \ {t}
  /\ applicants' = applicants \cup {t}
  /\ time' = [time EXCEPT ![t] = when]
  /\ moves' = moves + 1
  /\ initial' = [th \in Threads |-> initial[th] \ {g}]
  /\ named' = g
  /\ UNCHANGED <<all_timers, admitted, generation, next_generation, sleeping,
                 alarm>>

\* Timer::delay and reset: set_timeout.  Nobody is signalled.
set_timeout(t, g, when) ==
  /\ moves < MaxMoves
  /\ check_validity(t, g)
  /\ timers' = timers \ {t}
  /\ applicants' = applicants \cup {t}
  /\ time' = [time EXCEPT ![t] = when]
  /\ admitted' = [admitted EXCEPT ![t] = FALSE]
  /\ moves' = moves + 1
  /\ initial' = [th \in Threads |-> initial[th] \ {g}]
  /\ named' = g
  /\ UNCHANGED <<all_timers, generation, next_generation, sleeping, alarm>>

\* The times to which delay, in both directions, and reset move a timer.
MovedTo(t) ==
  {time[t] + d : d \in Durations} \cup {time[t] - d : d \in Durations}
    \cup {cached + d : d \in Durations}

\* What a client may do: with a facade of any age.
ClientOp ==
  \/ \E d \in Durations : post(d)
  \/ \E t \in Slots, g \in 1..next_generation :
       \/ cancel(t, g)
       \/ \E when \in MovedTo(t) : when < MaxTime /\ set_timeout(t, g, when)

-----------------------------------------------------------------------------
(* Polling                                                                 *)

Running(th) == pc[th] \in {"firing", "func"}
Idle == \A th \in Threads : ~Running(th)

\* A co-thread that is not one of the main loop's.
Client ==
  /\ Idle
  /\ ClientOp
  /\ UNCHANGED <<clock, cached, polls>>

\* Such a thread is scheduled, which reads the clock.
Schedule ==
  /\ Idle
  /\ cached' = clock /\ named' = 0
  /\ UNCHANGED <<clock, objects, sleeping, alarm, polls, initial>>

\* The serial of a poll that is still blocked is not used again (a bound: in
\* the code it takes 2^32 polls during one callback).
NoWrap(value) == \A th \in Threads : pc[th] = "blocked" => mine[th] # value

\* The beginning of poll: applicants are admitted.
Begin(th) ==
  LET next == (serial + 1) % SerialValues IN
  /\ pc[th] = "out" /\ Idle /\ ~sleeping /\ NoWrap(next)
  /\ admitted' = [t \in Slots |-> admitted[t] \/ t \in applicants]
  /\ timers' = timers \cup applicants
  /\ applicants' = {}
  /\ serial' = next
  /\ mine' = [mine EXCEPT ![th] = next]
  /\ cached' = clock /\ now' = [now EXCEPT ![th] = cached'] /\ named' = 0
  /\ initial' = [initial EXCEPT ![th] = {generation[t] : t \in timers'}]
  /\ pc' = [pc EXCEPT ![th] = "firing"]
  /\ UNCHANGED <<clock, all_timers, time, generation, next_generation, moves,
                 sleeping, alarm, slot>>

\* The first timer of the queue.
First(t) ==
  /\ t \in timers
  /\ \A u \in timers :
       \/ time[t] < time[u]
       \/ time[t] = time[u] /\ generation[t] <= generation[u]

\* The first timer has expired: its callback is called.
Fire(th) ==
  /\ pc[th] = "firing"
  /\ \E t \in timers :
       /\ First(t) /\ time[t] < now[th]
       /\ timers' = timers \ {t}
       /\ all_timers' = all_timers \ {t}
       /\ slot' = [slot EXCEPT ![th] = t]
       /\ Gone(t)
  /\ pc' = [pc EXCEPT ![th] = "func"]
  /\ named' = 0
  /\ UNCHANGED <<clock, cached, applicants, next_generation, moves, sleeping, alarm, serial,
                 now, mine, initial>>

\* A callback uses the dispatcher.
Callback(th) ==
  /\ pc[th] = "func"
  /\ ClientOp
  /\ UNCHANGED <<clock, cached, polls>>

\* It blocks, and goes on when no other thread runs: another thread is
\* scheduled, and later this one again.
Block(th) ==
  /\ pc[th] = "func"
  /\ pc' = [pc EXCEPT ![th] = "blocked"]
  /\ cached' = clock /\ named' = 0
  /\ UNCHANGED <<clock, objects, sleeping, alarm, serial, now, mine, slot, initial>>

Resume(th) ==
  /\ pc[th] = "blocked" /\ Idle
  /\ pc' = [pc EXCEPT ![th] = "func"]
  /\ cached' = clock /\ named' = 0
  /\ UNCHANGED <<clock, objects, sleeping, alarm, serial, now, mine, slot, initial>>

\* poll returns, and its variables are gone.
Ends(th) ==
  /\ pc' = [pc EXCEPT ![th] = "out"]
  /\ now' = [now EXCEPT ![th] = 0] /\ mine' = [mine EXCEPT ![th] = 0]
  /\ initial' = [initial EXCEPT ![th] = {}]

\* Faulty end of a callback: the poll goes on although it was overtaken.
Return_NoSerial(th) ==
  /\ pc[th] = "func"
  /\ slot' = [slot EXCEPT ![th] = None]
  /\ pc' = [pc EXCEPT ![th] = "firing"]
  /\ named' = 0
  /\ UNCHANGED <<clock, cached, objects, sleeping, alarm, serial, now, mine, initial>>

\* The callback returns and the timer is deleted; the poll goes on unless it
\* was overtaken by another one.
Return(th) ==
  /\ pc[th] = "func"
  /\ slot' = [slot EXCEPT ![th] = None]
  /\ IF serial = mine[th]
       THEN pc' = [pc EXCEPT ![th] = "firing"] /\ UNCHANGED <<now, mine, initial>>
       ELSE Ends(th)
  /\ named' = 0
  /\ UNCHANGED <<clock, cached, objects, sleeping, alarm, serial>>

\* Faulty wait: no alarm although there are timers.
Alarms_None == {None}

\* wait: the alarm is at the time of the first timer, if there is one.
Alarms == IF timers = {} THEN {None} ELSE {time[t] : t \in {u \in timers : First(u)}}

\* No more timers have expired.  When no Pollable had any work the main loop
\* goes on to wait (no other thread has run since this poll began).
End(th) ==
  /\ pc[th] = "firing"
  /\ \A t \in timers : First(t) => time[t] >= now[th]
  /\ Ends(th)
  /\ \/ UNCHANGED <<sleeping, alarm, cached>>
     \/ /\ applicants = {}
        /\ sleeping' = TRUE /\ alarm' \in Alarms /\ cached' = clock
  /\ named' = 0
  /\ UNCHANGED <<clock, objects, serial, slot>>

\* The alarm goes off, at its time and not after it; the scheduler reads the
\* clock.
WakeUp ==
  /\ sleeping /\ alarm # None /\ alarm <= clock
  /\ sleeping' = FALSE /\ alarm' = None
  /\ cached' = clock /\ named' = 0
  /\ UNCHANGED <<clock, objects, polls, initial>>

\* Another Pollable has work.
Disturb ==
  /\ sleeping
  /\ sleeping' = FALSE /\ alarm' = None
  /\ named' = 0
  /\ UNCHANGED <<clock, cached, objects, polls, initial>>

Tick ==
  /\ clock < MaxTime
  /\ clock' = clock + 1
  /\ named' = 0
  /\ UNCHANGED <<cached, objects, sleeping, alarm, polls, initial>>

-----------------------------------------------------------------------------
Init ==
  /\ clock = 0 /\ cached = 0 /\ named = 0
  /\ timers = {} /\ applicants = {} /\ all_timers = {}
  /\ time = [t \in Slots |-> 0]
  /\ admitted = [t \in Slots |-> FALSE]
  /\ generation = [t \in Slots |-> 0]
  /\ next_generation = 0 /\ moves = 0
  /\ serial = 0 /\ sleeping = FALSE /\ alarm = None
  /\ pc = [th \in Threads |-> "out"]
  /\ now = [th \in Threads |-> 0] /\ mine = [th \in Threads |-> 0]
  /\ slot = [th \in Threads |-> None]
  /\ initial = [th \in Threads |-> {}]

Next ==
  \/ Client \/ Schedule \/ WakeUp \/ Disturb \/ Tick
  \/ \E th \in Threads :
       Begin(th) \/ Fire(th) \/ Callback(th) \/ Block(th) \/ Resume(th)
         \/ Return(th) \/ End(th)

\* Time passes, the alarm works, the main loop polls while it is not asleep
\* (WorkIsPolled of PollLoop), and callbacks return.
Fairness ==
  /\ WF_vars(Tick) /\ WF_vars(WakeUp)
  /\ WF_vars(\E th \in Threads : Begin(th))
  /\ \A th \in Threads :
       /\ WF_vars(Fire(th)) /\ WF_vars(End(th))
       /\ SF_vars(Resume(th)) /\ SF_vars(Return(th))

Spec == Init /\ [][Next]_vars /\ Fairness

-----------------------------------------------------------------------------
(* Properties                                                              *)

\* The type of every variable.
TypeOK ==
  /\ clock \in 0..MaxTime /\ cached \in 0..clock /\ named \in 0..MaxPosts
  /\ timers \subseteq Slots /\ applicants \subseteq Slots /\ all_timers \subseteq Slots
  /\ time \in [Slots -> Int] /\ admitted \in [Slots -> BOOLEAN]
  /\ next_generation \in 0..MaxPosts /\ generation \in [Slots -> 0..MaxPosts]
  /\ moves \in 0..MaxMoves /\ serial \in 0..(SerialValues - 1)
  /\ sleeping \in BOOLEAN /\ alarm \in Int \cup {None}
  /\ pc \in [Threads -> {"out", "firing", "func", "blocked"}]
  /\ now \in [Threads -> 0..MaxTime] /\ mine \in [Threads -> 0..(SerialValues - 1)]
  /\ slot \in [Threads -> Slots \cup {None}]
  /\ initial \in [Threads -> SUBSET Generations]

\* The timers that are neither fired nor cancelled.
Pending == {generation[t] : t \in all_timers}

\* What the facades go by is true: every timer of all_timers is in one of the
\* two sets, the one that its admitted flag says, no two have one generation,
\* and no timer that is being fired, and will be deleted, can be found.
TimersAccountedFor ==
  /\ TypeOK
  /\ timers \cap applicants = {} /\ timers \cup applicants = all_timers
  /\ \A t \in all_timers : admitted[t] <=> t \in timers
  /\ \A t, u \in all_timers : generation[t] = generation[u] => t = u
  /\ \A th \in Threads : slot[th] \notin all_timers

\* "Execute all expired timers initially in the queue, but no new or modified
\* timers": what a poll fires was in the queue when it began and has not been
\* moved since, and its time has passed.
FiresInitialOnly ==
  [][\A th \in Threads, t \in Slots :
       slot'[th] = t /\ slot[th] # t =>
         generation[t] \in initial[th] /\ time[t] < clock]_vars

\* The timers are what clients take them for (Timers): a facade, however old,
\* cancels or moves the timer it was made for and no other, whatever has become
\* of its slot.  A timer's time is looked up by its generation.
TimeOf(g) == time[CHOOSE t \in all_timers : generation[t] = g]

TimersSpec == INSTANCE Timers WITH
  Callers <- Threads,
  now <- clock,
  posted <- next_generation,
  named <- named,
  due <- [g \in Pending |-> TimeOf(g)],
  calling <- {th \in Threads : pc[th] \in {"func", "blocked"}}

ImplementsTimers == TimersSpec!Spec

\* Every timer that is posted, moved a bounded number of times or not at all, is
\* fired or cancelled in the end, however the callbacks of others block.
PostedFires == \A g \in Generations : g \in Pending ~> g \notin Pending
=============================================================================
