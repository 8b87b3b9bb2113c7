----------------------- MODULE TimerDispatcherProofs -----------------------
(***************************************************************************)
(* Proofs about TimerDispatcher, for any number of threads, slots, posts   *)
(* and moves and any width of serial.                                      *)
(*                                                                         *)
(* The argument: a generation belongs to one timer (Issued), and the timers*)
(* that are queued while a poll has the current serial were queued when it *)
(* began (StillInitial): new and moved ones wait for the next poll, which  *)
(* takes a serial that no poll still in progress has.                      *)
(***************************************************************************)
EXTENDS TimerDispatcher, TLAPS

\* The generations of the timers there are have been given out.
Issued == \A t \in all_timers : generation[t] \in 1..next_generation

\* A poll about to fire a timer was not overtaken.
CurrentFires == \A th \in Threads : pc[th] = "firing" => mine[th] = serial

\* A poll that was not overtaken may fire whatever is queued.
StillInitial == \A th \in Threads : pc[th] # "out" /\ mine[th] = serial =>
  \A t \in timers : generation[t] \in initial[th]

\* A poll's time of day has passed.
NowPassed == \A th \in Threads : now[th] <= clock

\* The type invariant of the parts that clients change, and the two sets and
\* the facades in agreement: what an operation has to keep.
Queues ==
  /\ timers \subseteq Slots /\ applicants \subseteq Slots /\ all_timers \subseteq Slots
  /\ time \in [Slots -> Int] /\ admitted \in [Slots -> BOOLEAN]
  /\ next_generation \in 0..MaxPosts /\ generation \in [Slots -> 0..MaxPosts]
  /\ moves \in 0..MaxMoves
  /\ sleeping \in BOOLEAN /\ alarm \in Int \cup {None}
  /\ initial \in [Threads -> SUBSET Generations]
  /\ timers \cap applicants = {} /\ timers \cup applicants = all_timers
  /\ \A t \in all_timers : admitted[t] <=> t \in timers
  /\ \A t, u \in all_timers : generation[t] = generation[u] => t = u
  /\ \A th \in Threads : slot[th] \notin all_timers
  /\ Issued

\* The rest of the type invariant.
PollTypes ==
  /\ clock \in 0..MaxTime /\ cached \in 0..clock
  /\ serial \in 0..(SerialValues - 1)
  /\ pc \in [Threads -> {"out", "firing", "func", "blocked"}]
  /\ now \in [Threads -> 0..MaxTime] /\ mine \in [Threads -> 0..(SerialValues - 1)]
  /\ slot \in [Threads -> Slots \cup {None}]

IInv == Queues /\ PollTypes /\ CurrentFires /\ StillInitial /\ NowPassed

\* The history variable is 0 or a generation that has been given out.
Named == named \in 0..MaxPosts

-----------------------------------------------------------------------------
\* What a poll in progress may count on after an operation.
Polls ==
  \A th \in Threads :
    (\A t \in timers : generation[t] \in initial[th]) =>
      \A t \in timers' : generation'[t] \in initial'[th]

\* What the assumption says of the constants, for the SMT solver.
LEMMA Constants ==
  /\ MaxTime \in Nat /\ MaxPosts \in Nat /\ MaxMoves \in Nat
  /\ Durations \subseteq Nat /\ SerialValues \in Nat \ {0} /\ None \notin Slots
  BY TimerAssumption

\* post.
LEMMA PostKeeps ==
  ASSUME Queues, cached \in Nat, slot' = slot, NEW d \in Durations, post(d)
  PROVE  Queues' /\ Polls
<1> DEFINE s == CHOOSE t \in Free : TRUE
<1>1. s \in Free
  BY DEF post
<1>2. s \in Slots /\ s \notin all_timers /\ \A th \in Threads : slot[th] # s
  BY <1>1 DEF Free
<1>3. /\ next_generation < MaxPosts
      /\ next_generation' = next_generation + 1
      /\ applicants' = applicants \cup {s}
      /\ all_timers' = all_timers \cup {s}
      /\ time' = [time EXCEPT ![s] = cached + d]
      /\ admitted' = [admitted EXCEPT ![s] = FALSE]
      /\ generation' = [generation EXCEPT ![s] = next_generation']
      /\ sleeping' = FALSE /\ alarm' = None
      /\ timers' = timers /\ moves' = moves /\ initial' = initial
  BY DEF post
<1> HIDE DEF s
<1>4. next_generation \in Nat /\ next_generation' \in 1..MaxPosts /\ cached + d \in Int
  BY <1>3, Constants DEF Queues
<1>5. /\ time' \in [Slots -> Int] /\ admitted' \in [Slots -> BOOLEAN]
      /\ generation' \in [Slots -> 0..MaxPosts]
  BY <1>2, <1>3, <1>4 DEF Queues
<1>6. /\ generation'[s] = next_generation + 1 /\ admitted'[s] = FALSE
      /\ \A t \in all_timers : generation'[t] = generation[t] /\ admitted'[t] = admitted[t]
      /\ \A t \in all_timers : generation[t] \in 1..next_generation
  BY <1>2, <1>3 DEF Queues, Issued
<1>7. Issued'
  BY <1>3, <1>4, <1>6 DEF Issued
<1>8. \A t, u \in all_timers' : generation'[t] = generation'[u] => t = u
  BY <1>3, <1>4, <1>6 DEF Queues
<1>9. \A t \in all_timers' : admitted'[t] <=> t \in timers'
  BY <1>2, <1>3, <1>6 DEF Queues
<1>10. Queues'
  BY <1>2, <1>3, <1>4, <1>5, <1>7, <1>8, <1>9 DEF Queues
<1>11. Polls
  BY <1>3, <1>6 DEF Polls, Queues
<1> QED BY <1>10, <1>11

\* cancel.
LEMMA CancelKeeps ==
  ASSUME Queues, slot' = slot, NEW t \in Slots, NEW g, cancel(t, g)
  PROVE  Queues' /\ Polls
<1>1. /\ t \in all_timers
      /\ all_timers' = all_timers \ {t}
      /\ timers' = IF admitted[t] THEN timers \ {t} ELSE timers
      /\ applicants' = IF admitted[t] THEN applicants ELSE applicants \ {t}
      /\ time' = [time EXCEPT ![t] = 0]
      /\ admitted' = [admitted EXCEPT ![t] = FALSE]
      /\ generation' = [generation EXCEPT ![t] = 0]
      /\ UNCHANGED <<next_generation, moves, sleeping, alarm, initial>>
  BY DEF cancel, check_validity, Unqueue, Gone
<1>2. timers' = timers \ {t} /\ applicants' = applicants \ {t}
  BY <1>1 DEF Queues
<1>3. /\ time' \in [Slots -> Int] /\ admitted' \in [Slots -> BOOLEAN]
      /\ generation' \in [Slots -> 0..MaxPosts]
  BY <1>1, Constants DEF Queues
<1>4. \A u \in all_timers' : generation'[u] = generation[u] /\ admitted'[u] = admitted[u]
  BY <1>1 DEF Queues
<1>5. Queues'
  BY <1>1, <1>2, <1>3, <1>4 DEF Queues, Issued
<1>6. Polls
  BY <1>1, <1>2, <1>4 DEF Polls, Queues
<1> QED BY <1>5, <1>6

\* delay and reset.
LEMMA MoveKeeps ==
  ASSUME Queues, cached \in Nat, slot' = slot,
         NEW t \in Slots, NEW g, NEW when \in MovedTo(t), set_timeout(t, g, when)
  PROVE  Queues' /\ Polls
<1>1. when \in Int
  BY Constants DEF MovedTo, Queues
<1>2. /\ t \in all_timers /\ g = generation[t]
      /\ moves < MaxMoves /\ moves' = moves + 1
      /\ timers' = timers \ {t} /\ applicants' = applicants \cup {t}
      /\ time' = [time EXCEPT ![t] = when]
      /\ admitted' = [admitted EXCEPT ![t] = FALSE]
      /\ initial' = [th \in Threads |-> initial[th] \ {g}]
      /\ UNCHANGED <<all_timers, generation, next_generation, sleeping, alarm>>
  BY DEF set_timeout, check_validity
<1>3. /\ time' \in [Slots -> Int] /\ admitted' \in [Slots -> BOOLEAN]
      /\ moves' \in 0..MaxMoves
      /\ initial' \in [Threads -> SUBSET Generations]
  BY <1>1, <1>2, Constants DEF Queues
<1>4. \A u \in all_timers : admitted'[u] <=> u \in timers'
  BY <1>2 DEF Queues
<1>5. Queues'
  BY <1>2, <1>3, <1>4 DEF Queues, Issued
<1>6. Polls
  BY <1>2 DEF Polls, Queues
<1> QED BY <1>5, <1>6

\* Whatever a client does.
LEMMA ClientKeeps ==
  ASSUME Queues, cached \in Nat, slot' = slot, ClientOp
  PROVE  Queues' /\ Polls
<1>1. CASE \E d \in Durations : post(d)
  BY <1>1, PostKeeps
<1>2. CASE \E t \in Slots, g \in 1..next_generation : cancel(t, g)
  BY <1>2, CancelKeeps
<1>3. CASE \E t \in Slots, g \in 1..next_generation :
             \E when \in MovedTo(t) : when < MaxTime /\ set_timeout(t, g, when)
  BY <1>3, MoveKeeps
<1> QED BY <1>1, <1>2, <1>3 DEF ClientOp

-----------------------------------------------------------------------------
\* A dispatcher with no timers, of which nothing is queued or being polled.
LEMMA InitHolds == Init => IInv
<1> SUFFICES ASSUME Init PROVE IInv
  OBVIOUS
<1>1. Queues
  <2>1. /\ time \in [Slots -> Int] /\ admitted \in [Slots -> BOOLEAN]
        /\ generation \in [Slots -> 0..MaxPosts]
        /\ initial \in [Threads -> SUBSET Generations]
    BY Constants DEF Init
  <2>2. next_generation \in 0..MaxPosts /\ moves \in 0..MaxMoves
    BY Constants DEF Init
  <2>4. sleeping \in BOOLEAN /\ alarm \in Int \cup {None}
    BY DEF Init
  <2>3. timers = {} /\ applicants = {} /\ all_timers = {}
    BY DEF Init
  <2> QED BY <2>1, <2>2, <2>3, <2>4 DEF Queues, Issued
<1>3. PollTypes
  BY Constants DEF Init, PollTypes
<1>2. CurrentFires /\ StillInitial /\ NowPassed
  BY Constants DEF Init, CurrentFires, StillInitial, NowPassed
<1> QED BY <1>1, <1>2, <1>3 DEF IInv

\* A client's operation, or a callback's: no poll moves.
LEMMA OperationStep ==
  ASSUME IInv, ClientOp, UNCHANGED <<clock, cached, polls>>
  PROVE  IInv'
<1>1. Queues /\ PollTypes /\ CurrentFires /\ StillInitial /\ NowPassed
  BY DEF IInv
<1>2. /\ clock' = clock /\ cached' = cached /\ serial' = serial /\ pc' = pc /\ now' = now
      /\ mine' = mine /\ slot' = slot
  BY DEF polls
<1>3. Queues' /\ Polls
  BY <1>1, <1>2, ClientKeeps DEF PollTypes
<1>4. PollTypes' /\ CurrentFires' /\ NowPassed'
  BY <1>1, <1>2 DEF PollTypes, CurrentFires, NowPassed
<1>5. StillInitial'
  BY <1>1, <1>2, <1>3 DEF StillInitial, Polls
<1> QED BY <1>3, <1>4, <1>5 DEF IInv

\* A poll moves the new and the moved timers to the queue, under a serial of
\* its own: the polls it overtakes no longer count as current.
LEMMA BeginStep ==
  ASSUME IInv, NEW th \in Threads, Begin(th)
  PROVE  IInv'
<1> DEFINE next == (serial + 1) % SerialValues
<1>1. Queues /\ PollTypes /\ CurrentFires /\ StillInitial /\ NowPassed
  BY DEF IInv
<1>2. /\ pc[th] = "out" /\ Idle /\ NoWrap(next)
      /\ admitted' = [t \in Slots |-> admitted[t] \/ t \in applicants]
      /\ timers' = timers \cup applicants
      /\ applicants' = {}
      /\ serial' = next
      /\ mine' = [mine EXCEPT ![th] = next]
      /\ cached' = clock /\ now' = [now EXCEPT ![th] = clock]
      /\ initial' = [initial EXCEPT ![th] = {generation[t] : t \in timers'}]
      /\ pc' = [pc EXCEPT ![th] = "firing"]
      /\ UNCHANGED <<clock, all_timers, time, generation, next_generation, moves,
                     sleeping, alarm, slot>>
  BY DEF Begin
<1>3. next \in 0..(SerialValues - 1)
  BY <1>1, Constants DEF PollTypes
<1> HIDE DEF next
<1>4. {generation[t] : t \in timers'} \subseteq Generations
  BY <1>1, <1>2, Constants DEF Queues, Issued, Generations
<1>5. initial' \in [Threads -> SUBSET Generations]
  BY <1>1, <1>2, <1>4 DEF Queues
<1>6. admitted' \in [Slots -> BOOLEAN] /\ \A t \in all_timers : admitted'[t] <=> t \in timers'
  <2>1. \A t \in all_timers : t \in timers' /\ (admitted[t] \/ t \in applicants)
    BY <1>1, <1>2 DEF Queues
  <2>2. \A t \in Slots : admitted'[t] = (admitted[t] \/ t \in applicants)
    BY <1>2
  <2>3. \A t \in Slots : (admitted[t] \/ t \in applicants) \in BOOLEAN
    OBVIOUS
  <2>4. admitted' \in [Slots -> BOOLEAN]
    BY <1>2, <2>3
  <2> QED BY <2>1, <2>2, <2>4, <1>1 DEF Queues
<1>7. Queues'
  BY <1>1, <1>2, <1>5, <1>6 DEF Queues, Issued
<1>8. PollTypes'
  BY <1>1, <1>2, <1>3 DEF PollTypes
<1>9. \A u \in Threads \ {th} : pc'[u] = pc[u] /\ (pc'[u] # "out" => mine'[u] # serial')
  BY <1>1, <1>2 DEF PollTypes, Idle, Running, NoWrap
<1>10. CurrentFires'
  BY <1>1, <1>2 DEF CurrentFires, PollTypes, Idle, Running
<1>11. StillInitial'
  BY <1>1, <1>2, <1>9 DEF StillInitial, Queues
<1>12. NowPassed'
  BY <1>1, <1>2 DEF NowPassed, PollTypes
<1> QED BY <1>7, <1>8, <1>10, <1>11, <1>12 DEF IInv

\* A poll takes a queued timer out of the dispatcher and calls it.
LEMMA FireStep ==
  ASSUME IInv, NEW th \in Threads, Fire(th)
  PROVE  IInv'
<1>1. Queues /\ PollTypes /\ CurrentFires /\ StillInitial /\ NowPassed
  BY DEF IInv
<1>2. PICK t \in timers :
        /\ timers' = timers \ {t} /\ all_timers' = all_timers \ {t}
        /\ slot' = [slot EXCEPT ![th] = t]
        /\ time' = [time EXCEPT ![t] = 0]
        /\ admitted' = [admitted EXCEPT ![t] = FALSE]
        /\ generation' = [generation EXCEPT ![t] = 0]
  BY DEF Fire, Gone
<1>3. /\ pc[th] = "firing" /\ pc' = [pc EXCEPT ![th] = "func"]
      /\ UNCHANGED <<clock, cached, applicants, next_generation, moves, sleeping, alarm,
                     serial, now, mine, initial>>
  BY DEF Fire
<1>4. t \in Slots /\ t \in all_timers /\ t \notin applicants
  BY <1>1, <1>2 DEF Queues
<1>5. \A u \in all_timers' : /\ u # t /\ generation'[u] = generation[u]
                             /\ admitted'[u] = admitted[u]
  BY <1>1, <1>2, <1>4 DEF Queues
<1>6. /\ time' \in [Slots -> Int] /\ admitted' \in [Slots -> BOOLEAN]
      /\ generation' \in [Slots -> 0..MaxPosts]
  BY <1>1, <1>2, <1>4, Constants DEF Queues
<1>7. \A u \in Threads : slot'[u] \notin all_timers'
  BY <1>1, <1>2 DEF Queues, PollTypes
<1>8. Queues'
  BY <1>1, <1>2, <1>3, <1>4, <1>5, <1>6, <1>7 DEF Queues, Issued
<1>9. PollTypes' /\ CurrentFires' /\ NowPassed'
  BY <1>1, <1>2, <1>3, <1>4 DEF PollTypes, CurrentFires, NowPassed
<1>10. timers' \subseteq timers /\ timers' \subseteq all_timers'
  BY <1>1, <1>2 DEF Queues
<1>11. \A u \in Threads : pc'[u] # "out" => pc[u] # "out"
  BY <1>1, <1>3 DEF PollTypes
<1>12. StillInitial'
  BY <1>1, <1>3, <1>5, <1>10, <1>11 DEF StillInitial
<1> QED BY <1>8, <1>9, <1>12 DEF IInv

\* A callback blocks or goes on, or the dispatcher's wait ends, or time passes.
LEMMA QuietStep ==
  ASSUME IInv, UNCHANGED <<objects, serial, now, mine, slot, initial>>,
         sleeping' \in BOOLEAN, alarm' \in Int \cup {None},
         clock' \in 0..MaxTime, clock' >= clock, cached' \in 0..clock',
         pc' \in [Threads -> {"out", "firing", "func", "blocked"}],
         \A th \in Threads : /\ pc'[th] = "out" <=> pc[th] = "out"
                             /\ pc'[th] = "firing" => pc[th] = "firing"
  PROVE  IInv'
<1>1. Queues /\ PollTypes /\ CurrentFires /\ StillInitial /\ NowPassed
  BY DEF IInv
<1>2. Queues'
  BY <1>1 DEF Queues, Issued, objects
<1>3. PollTypes' /\ CurrentFires' /\ NowPassed'
  BY <1>1, Constants DEF PollTypes, CurrentFires, NowPassed
<1>4. StillInitial'
  BY <1>1 DEF StillInitial, objects
<1> QED BY <1>2, <1>3, <1>4 DEF IInv

\* A callback returns to a poll that ends or goes on, or a poll ends.
LEMMA ReturnStep ==
  ASSUME IInv, NEW th \in Threads, Return(th) \/ End(th)
  PROVE  IInv'
<1>1. Queues /\ PollTypes /\ CurrentFires /\ StillInitial /\ NowPassed
  BY DEF IInv
<1>2. /\ UNCHANGED <<clock, objects, serial>>
      /\ cached' \in {cached, clock}
      /\ slot' = slot \/ slot' = [slot EXCEPT ![th] = None]
  BY DEF Return, End
<1>3. sleeping' \in BOOLEAN /\ alarm' \in Int \cup {None}
  <2>1. Alarms \subseteq Int \cup {None}
    BY <1>1 DEF Alarms, Queues
  <2>2. UNCHANGED <<sleeping, alarm>> \/ (sleeping' = TRUE /\ alarm' \in Alarms)
    BY DEF Return, End
  <2> QED BY <1>1, <2>1, <2>2 DEF Queues
<1>4. \/ /\ pc' = [pc EXCEPT ![th] = "firing"] /\ serial = mine[th] /\ pc[th] = "func"
         /\ UNCHANGED <<now, mine, initial>>
      \/ Ends(th)
  BY DEF Return, End
<1>5. initial' \in [Threads -> SUBSET Generations]
  BY <1>1, <1>4 DEF Ends, Queues
<1>6. \A u \in Threads : slot'[u] \notin all_timers
  BY <1>1, <1>2, Constants DEF Queues, PollTypes
<1>7. Queues'
  BY <1>1, <1>2, <1>3, <1>5, <1>6 DEF Queues, Issued, objects
<1>8. PollTypes'
  BY <1>1, <1>2, <1>4, Constants DEF PollTypes, Ends
<1>9. CurrentFires'
  BY <1>1, <1>2, <1>4 DEF CurrentFires, PollTypes, Ends
<1>10. NowPassed'
  BY <1>1, <1>2, <1>4, Constants DEF NowPassed, PollTypes, Ends
<1>11. StillInitial'
  BY <1>1, <1>2, <1>4 DEF StillInitial, PollTypes, Ends, objects, Queues
<1> QED BY <1>7, <1>8, <1>9, <1>10, <1>11 DEF IInv

\* Every step of the dispatcher and of its clients keeps the invariant.
LEMMA StepHolds == IInv /\ [Next]_vars => IInv'
<1> SUFFICES ASSUME IInv, [Next]_vars PROVE IInv'
  OBVIOUS
<1>1. Queues /\ PollTypes
  BY DEF IInv
<1>2. CASE Client
  BY <1>2, OperationStep DEF Client
<1>3. CASE WakeUp \/ Disturb \/ Schedule
  <2>1. /\ (sleeping' = FALSE /\ alarm' = None) \/ UNCHANGED <<sleeping, alarm>>
        /\ cached' \in {cached, clock}
        /\ UNCHANGED <<clock, objects, polls, initial>>
    BY <1>3 DEF WakeUp, Disturb, Schedule
  <2>2. sleeping' \in BOOLEAN /\ alarm' \in Int \cup {None}
    BY <1>1, <2>1 DEF Queues
  <2>4. clock' \in 0..MaxTime /\ clock' >= clock /\ cached' \in 0..clock'
    BY <1>1, <2>1, Constants DEF PollTypes
  <2>5. pc' = pc /\ pc \in [Threads -> {"out", "firing", "func", "blocked"}]
    BY <1>1, <2>1 DEF polls, PollTypes
  <2>3. UNCHANGED <<objects, serial, now, mine, slot, initial>>
    BY <2>1 DEF polls
  <2> QED BY <2>2, <2>3, <2>4, <2>5, QuietStep
<1>4. CASE Tick
  BY <1>1, <1>4, QuietStep, Constants DEF Tick, polls, PollTypes, Queues
<1>5. ASSUME NEW th \in Threads, Begin(th) PROVE IInv'
  BY <1>5, BeginStep
<1>6. ASSUME NEW th \in Threads, Fire(th) PROVE IInv'
  BY <1>6, FireStep
<1>7. ASSUME NEW th \in Threads, Callback(th) PROVE IInv'
  BY <1>7, OperationStep DEF Callback
<1>8. ASSUME NEW th \in Threads, Block(th) \/ Resume(th) PROVE IInv'
  BY <1>1, <1>8, QuietStep DEF Block, Resume, PollTypes, Queues
<1>9. ASSUME NEW th \in Threads, Return(th) \/ End(th) PROVE IInv'
  BY <1>9, ReturnStep
<1>10. CASE UNCHANGED vars
  BY <1>1, <1>10, QuietStep DEF vars, polls, PollTypes, Queues
<1> QED BY <1>2, <1>3, <1>4, <1>5, <1>6, <1>7, <1>8, <1>9, <1>10 DEF Next

\* The inductive invariant behind both theorems: what is queued during a poll
\* with the current serial was queued when poll() took that serial.
THEOREM Invariance == Spec => []IInv
  BY InitHolds, StepHolds, PTL DEF Spec

LEMMA NamedHolds == Spec => []Named
<1>1. Init => Named
  BY Constants DEF Init, Named
<1>2. ASSUME Named, IInv, [Next]_vars PROVE Named'
  <2>1. next_generation \in 0..MaxPosts
    BY <1>2 DEF IInv, Queues
  <2>2. ASSUME ClientOp PROVE Named'
    <3>1. CASE \E d \in Durations : post(d)
      BY <3>1, Constants DEF post, Named
    <3>2. CASE \E t \in Slots, g \in 1..next_generation : cancel(t, g)
      BY <2>1, <3>2, Constants DEF cancel, Named
    <3>3. CASE \E t \in Slots, g \in 1..next_generation :
                 \E when \in MovedTo(t) : when < MaxTime /\ set_timeout(t, g, when)
      BY <2>1, <3>3, Constants DEF set_timeout, Named
    <3> QED BY <2>2, <3>1, <3>2, <3>3 DEF ClientOp
  <2>3. CASE named' = 0
    BY <2>3, Constants DEF Named
  <2>4. CASE UNCHANGED vars
    BY <1>2, <2>4 DEF Named, vars
  <2>5. named' = 0 \/ ClientOp \/ UNCHANGED vars
    BY <1>2 DEF Next, Client, Schedule, WakeUp, Disturb, Tick, Begin, Fire, Callback,
                Block, Resume, Return, End
  <2> QED BY <2>2, <2>3, <2>4, <2>5
<1> QED BY <1>1, <1>2, Invariance, PTL DEF Spec

\* The facades can trust what they find, and no timer is lost or queued twice,
\* whatever callbacks do while they are suspended.
THEOREM NoTimerLost == Spec => []TimersAccountedFor
<1>1. IInv /\ Named => TimersAccountedFor
  BY DEF IInv, Queues, PollTypes, Named, TimersAccountedFor, TypeOK
<1> QED BY <1>1, Invariance, NamedHolds, PTL

\* A poll fires only timers that were queued when it began, have not been moved
\* since, and are due, whoever overtakes it.
THEOREM NoNewTimerFires == Spec => FiresInitialOnly
<1> DEFINE Fires ==
      \A th \in Threads, t \in Slots :
        slot'[th] = t /\ slot[th] # t => generation[t] \in initial[th] /\ time[t] < clock
<1>1. ASSUME IInv, [Next]_vars PROVE [Fires]_vars
  <2>1. Queues /\ PollTypes /\ CurrentFires /\ StillInitial /\ NowPassed
    BY <1>1 DEF IInv
  <2>2. ASSUME NEW th \in Threads, Fire(th) PROVE Fires
    <3>1. PICK t \in timers : time[t] < now[th] /\ slot' = [slot EXCEPT ![th] = t]
      BY <2>2 DEF Fire
    <3>2. pc[th] = "firing" /\ mine[th] = serial
      BY <2>1, <2>2 DEF Fire, CurrentFires
    <3>3. generation[t] \in initial[th]
      BY <2>1, <3>2 DEF StillInitial
    <3>4. time[t] < clock
      BY <2>1, <3>1 DEF NowPassed, PollTypes, Queues
    <3> QED BY <2>1, <3>1, <3>3, <3>4 DEF PollTypes
  <2>3. ASSUME NEW th \in Threads, Return(th) PROVE Fires
    BY <2>1, <2>3, Constants DEF Return, PollTypes
  <2>4. CASE slot' = slot
    BY <2>4
  <2>5. \/ slot' = slot
        \/ \E th \in Threads : Fire(th) \/ Return(th)
    BY <1>1 DEF Next, Client, Schedule, WakeUp, Disturb, Tick, Begin, Callback, Block,
                Resume, End, polls, vars
  <2> QED BY <2>2, <2>3, <2>4, <2>5
<1> QED BY <1>1, Invariance, PTL DEF Spec, FiresInitialOnly

-----------------------------------------------------------------------------
(* What clients may rely on                                                *)

\* The times by generation, of a set of slots whose generations differ.
DueOf(set, gen, times) ==
  [g \in {gen[t] : t \in set} |-> times[CHOOSE t \in set : gen[t] = g]]

\* The generations of a set of slots differ, and a function gives their times.
Differ(set, gen) == \A t, u \in set : gen[t] = gen[u] => t = u
Gives(f, set, gen, times) ==
  /\ DOMAIN f = {gen[t] : t \in set}
  /\ \A t \in set : f[gen[t]] = times[t]

LEMMA DueOfIs ==
  ASSUME NEW set, NEW gen, NEW times, Differ(set, gen)
  PROVE  Gives(DueOf(set, gen, times), set, gen, times)
<1>1. DOMAIN DueOf(set, gen, times) = {gen[t] : t \in set}
  BY DEF DueOf
<1>2. ASSUME NEW t \in set PROVE DueOf(set, gen, times)[gen[t]] = times[t]
  <2>1. (CHOOSE u \in set : gen[u] = gen[t]) = t
    BY DEF Differ
  <2>2. DueOf(set, gen, times)[gen[t]] = times[CHOOSE u \in set : gen[u] = gen[t]]
    BY DEF DueOf
  <2> QED BY <2>1, <2>2
<1> QED BY <1>1, <1>2 DEF Gives

\* Two functions that have the times of the same timers are one.
LEMMA SameDue ==
  ASSUME NEW set, NEW gen, NEW times, Differ(set, gen),
         NEW f, f = [g \in DOMAIN f |-> f[g]], Gives(f, set, gen, times)
  PROVE  DueOf(set, gen, times) = f
<1>1. Gives(DueOf(set, gen, times), set, gen, times)
  BY DueOfIs
<1> DEFINE e == DueOf(set, gen, times)
<1>2. e = [g \in DOMAIN e |-> e[g]]
  BY DEF DueOf
<1>3. Gives(e, set, gen, times)
  BY <1>1
<1> HIDE DEF e
<1>4. DOMAIN e = DOMAIN f /\ \A g \in DOMAIN f : e[g] = f[g]
  BY <1>3 DEF Gives
<1>5. e = f
  BY <1>2, <1>4
<1> QED BY <1>5 DEF e

\* The times by generation, and whose callbacks have been called.
Due == DueOf(all_timers, generation, time)
InCallback == {th \in Threads : pc[th] \in {"func", "blocked"}}

LEMMA Mapping ==
  /\ TimersSpec!Init <=> /\ clock = 0 /\ next_generation = 0 /\ Due = << >>
                         /\ InCallback = {} /\ named = 0
  /\ TimersSpec!vars = <<clock, next_generation, Due, InCallback, named>>
  /\ TimersSpec!Pending = Pending
BY DEF TimersSpec!Init, TimersSpec!vars, TimersSpec!Pending, Due, DueOf, InCallback, Pending, TimeOf

LEMMA PendingIs ==
  ASSUME Queues
  PROVE  /\ DOMAIN Due = Pending
         /\ \A t \in all_timers : Due[generation[t]] = time[t]
<1>1. Differ(all_timers, generation)
  BY DEF Queues, Differ
<1>2. Gives(Due, all_timers, generation, time)
  BY <1>1, DueOfIs DEF Due
<1> QED BY <1>2 DEF Gives, Pending

\* The steps of Timers, in these terms.
LEMMA MappedPost ==
  ASSUME NEW d, next_generation' = next_generation + 1, UNCHANGED <<clock, InCallback>>,
         named' = 0, NEW when \in Int, when <= clock + d,
         Due' = [g \in Pending \cup {next_generation'} |->
                   IF g = next_generation' THEN when ELSE Due[g]]
  PROVE  TimersSpec!Post(d)
<1> DEFINE new == Pending \cup {next_generation'}
<1>1. Due'[next_generation'] = when /\ DOMAIN Due' = new
  OBVIOUS
<1>2. Due' = [g \in new |-> IF g = next_generation' THEN Due'[g] ELSE Due[g]]
  BY <1>1
<1>3. /\ [g \in Pending |-> TimeOf(g)] = Due /\ TimersSpec!Pending = Pending
      /\ [g \in Pending |-> TimeOf(g)]' = Due'
      /\ {th \in Threads : pc[th] \in {"func", "blocked"}} = InCallback
      /\ {th \in Threads : pc'[th] \in {"func", "blocked"}} = InCallback'
  BY Mapping DEF Due, DueOf, InCallback, Pending, TimeOf
<1> HIDE DEF new
<1>4. Due'[next_generation'] \in Int /\ Due'[next_generation'] <= clock + d
  BY <1>1
<1> QED
  <2>1. /\ DOMAIN [g \in Pending |-> TimeOf(g)]' = TimersSpec!Pending \cup {next_generation'}
        /\ [g \in Pending |-> TimeOf(g)]'[next_generation'] \in Int
        /\ [g \in Pending |-> TimeOf(g)]'[next_generation'] <= clock + d
    BY <1>1, <1>3, <1>4 DEF new
  <2>2. [g \in Pending |-> TimeOf(g)]' =
          [g \in TimersSpec!Pending \cup {next_generation'} |->
             IF g = next_generation' THEN [h \in Pending |-> TimeOf(h)]'[g]
                                     ELSE [h \in Pending |-> TimeOf(h)][g]]
    BY <1>2, <1>3 DEF new
  <2>3. UNCHANGED <<clock, {th \in Threads : pc[th] \in {"func", "blocked"}}>>
    BY <1>3
  <2> QED BY <2>1, <2>2, <2>3 DEF TimersSpec!Post

LEMMA MappedCancel ==
  ASSUME NEW h, UNCHANGED <<clock, next_generation, InCallback>>, named' = h,
         Due' = [g \in Pending \ {h} |-> Due[g]]
  PROVE  TimersSpec!Cancel(h)
BY Mapping DEF TimersSpec!Cancel, TimersSpec!Pending, TimersSpec!Restrict, Due, DueOf, InCallback, Pending, TimeOf

LEMMA MappedSet ==
  ASSUME NEW h, UNCHANGED <<clock, next_generation, InCallback>>, named' = h,
         NEW when \in Int, h \in Pending, Pending' = Pending,
         Due' = [Due EXCEPT ![h] = when], Due'[h] = when
  PROVE  TimersSpec!Set(h)
BY Mapping DEF TimersSpec!Set, TimersSpec!Pending, Due, DueOf, InCallback, Pending, TimeOf

LEMMA MappedCall ==
  ASSUME NEW th, NEW h, UNCHANGED <<clock, next_generation>>, named' = 0,
         th \notin InCallback, InCallback' = InCallback \cup {th},
         Due[h] < clock, Due' = [g \in Pending \ {h} |-> Due[g]]
  PROVE  TimersSpec!Call(th, h)
BY Mapping DEF TimersSpec!Call, TimersSpec!Pending, TimersSpec!Restrict, Due, DueOf, InCallback, Pending, TimeOf

\* A function that has the times of the timers there are after a step.
LEMMA NextDue ==
  ASSUME Queues', NEW f, f = [g \in DOMAIN f |-> f[g]],
         Gives(f, all_timers', generation', time')
  PROVE  Due' = f
<1>1. Differ(all_timers', generation')
  BY DEF Queues, Differ
<1>2. DueOf(all_timers', generation', time') = f
  BY <1>1, SameDue
<1> QED BY <1>2 DEF Due

\* A new timer: no other has its number.
LEMMA PostPosts ==
  ASSUME Queues, Queues', clock \in Nat, cached \in 0..clock,
         UNCHANGED <<clock, InCallback>>, NEW d \in Durations, post(d)
  PROVE  TimersSpec!Post(d)
<1> DEFINE s == CHOOSE t \in Free : TRUE
           f == [g \in Pending \cup {next_generation'} |->
                   IF g = next_generation' THEN cached + d ELSE Due[g]]
<1>1. s \in Free
  BY DEF post
<1>2. s \in Slots /\ s \notin all_timers
  BY <1>1 DEF Free
<1>3. /\ next_generation' = next_generation + 1
      /\ all_timers' = all_timers \cup {s}
      /\ time' = [time EXCEPT ![s] = cached + d]
      /\ generation' = [generation EXCEPT ![s] = next_generation']
      /\ named' = 0
  BY DEF post
<1> HIDE DEF s
<1>4. /\ generation'[s] = next_generation' /\ time'[s] = cached + d
      /\ \A t \in all_timers : generation'[t] = generation[t] /\ time'[t] = time[t]
  BY <1>2, <1>3 DEF Queues
<1>5. \A t \in all_timers : generation[t] # next_generation'
  BY <1>3 DEF Queues, Issued
<1>6. Pending = {generation[t] : t \in all_timers}
  BY DEF Pending
<1>7. DOMAIN f = {generation'[t] : t \in all_timers'}
  BY <1>3, <1>4, <1>6
<1>8. \A t \in all_timers' : f[generation'[t]] = time'[t]
  BY <1>3, <1>4, <1>5, <1>6, PendingIs
<1>9. f = [g \in DOMAIN f |-> f[g]] /\ Gives(f, all_timers', generation', time')
  BY <1>7, <1>8 DEF Gives
<1>10. Due' = f
  <2> HIDE DEF f
  <2> QED BY <1>9, NextDue
<1>11. cached + d \in Int /\ cached + d <= clock + d
  BY Constants
<1> QED BY <1>3, <1>10, <1>11, MappedPost

\* A timer is taken away, and no other is touched.
LEMMA OneLess ==
  ASSUME Queues, Queues', NEW t \in all_timers, all_timers' = all_timers \ {t},
         \A u \in all_timers' : generation'[u] = generation[u] /\ time'[u] = time[u]
  PROVE  Due' = [g \in Pending \ {generation[t]} |-> Due[g]]
<1> DEFINE f == [g \in Pending \ {generation[t]} |-> Due[g]]
<1>1. Pending = {generation[u] : u \in all_timers}
  BY DEF Pending
<1>2. \A u \in all_timers : generation[u] = generation[t] => u = t
  BY DEF Queues
<1>3. DOMAIN f = {generation'[u] : u \in all_timers'}
  BY <1>1, <1>2
<1>4. \A u \in all_timers' : f[generation'[u]] = time'[u]
  BY <1>1, <1>2, PendingIs
<1>5. f = [g \in DOMAIN f |-> f[g]] /\ Gives(f, all_timers', generation', time')
  BY <1>3, <1>4 DEF Gives
<1> HIDE DEF f
<1>6. Due' = f
  BY <1>5, NextDue
<1> QED BY <1>6 DEF f

\* A facade that is valid cancels its own timer.
LEMMA CancelCancels ==
  ASSUME Queues, Queues', UNCHANGED <<clock, InCallback>>,
         NEW t \in Slots, NEW g, cancel(t, g)
  PROVE  g \in Pending /\ TimersSpec!Cancel(g)
<1>1. /\ t \in all_timers /\ generation[t] = g
      /\ all_timers' = all_timers \ {t}
      /\ time' = [time EXCEPT ![t] = 0] /\ generation' = [generation EXCEPT ![t] = 0]
      /\ next_generation' = next_generation /\ named' = g
  BY DEF cancel, check_validity, Gone
<1>2. \A u \in all_timers' : generation'[u] = generation[u] /\ time'[u] = time[u]
  BY <1>1 DEF Queues
<1>3. Due' = [h \in Pending \ {g} |-> Due[h]]
  BY <1>1, <1>2, OneLess
<1>4. g \in Pending
  BY <1>1 DEF Pending
<1> QED BY <1>1, <1>3, <1>4, MappedCancel

\* A facade that is valid moves its own timer.
LEMMA MoveSets ==
  ASSUME Queues, Queues', UNCHANGED <<clock, InCallback>>,
         NEW t \in Slots, NEW g, NEW when \in Int, set_timeout(t, g, when)
  PROVE  g \in Pending /\ TimersSpec!Set(g)
<1> DEFINE f == [Due EXCEPT ![g] = when]
<1>1. /\ t \in all_timers /\ generation[t] = g
      /\ all_timers' = all_timers
      /\ time' = [time EXCEPT ![t] = when] /\ generation' = generation
      /\ next_generation' = next_generation /\ named' = g
  BY DEF set_timeout, check_validity
<1>2. DOMAIN Due = Pending /\ \A u \in all_timers : Due[generation[u]] = time[u]
  BY PendingIs
<1>3. Pending = {generation[u] : u \in all_timers} /\ Pending' = Pending /\ g \in Pending
  BY <1>1 DEF Pending
<1>4. DOMAIN f = {generation'[u] : u \in all_timers'}
  BY <1>1, <1>2, <1>3
<1>5. \A u \in all_timers : generation[u] = g => u = t
  BY <1>1 DEF Queues
<1>6. \A u \in all_timers' : f[generation'[u]] = time'[u]
  <2> SUFFICES ASSUME NEW u \in all_timers PROVE f[generation[u]] = time'[u]
    BY <1>1
  <2>1. generation[u] \in DOMAIN Due
    BY <1>2, <1>3
  <2>2. CASE u = t
    BY <1>1, <2>1, <2>2 DEF Queues
  <2>3. CASE u # t
    BY <1>1, <1>2, <1>5, <2>1, <2>3 DEF Queues
  <2> QED BY <2>2, <2>3
<1>7. f = [h \in DOMAIN f |-> f[h]] /\ Gives(f, all_timers', generation', time')
  BY <1>4, <1>6 DEF Gives
<1>8. f[g] = when
  BY <1>2, <1>3
<1>9. Due' = f
  <2> HIDE DEF f
  <2> QED BY <1>7, NextDue
<1> QED BY <1>1, <1>3, <1>8, <1>9, MappedSet

LEMMA ClientImplements ==
  ASSUME Queues, Queues', clock \in Nat, cached \in 0..clock,
         UNCHANGED <<clock, pc>>, ClientOp
  PROVE  TimersSpec!Next
<1>1. UNCHANGED InCallback
  BY DEF InCallback
<1>2. ASSUME NEW d \in Durations, post(d) PROVE TimersSpec!Next
  BY <1>1, <1>2, PostPosts DEF TimersSpec!Next
<1>3. ASSUME NEW t \in Slots, NEW g, cancel(t, g) PROVE TimersSpec!Next
  <2>1. g \in Pending /\ TimersSpec!Cancel(g)
    BY <1>1, <1>3, CancelCancels
  <2> QED BY <2>1, Mapping DEF TimersSpec!Next
<1>4. ASSUME NEW t \in Slots, NEW g, NEW when \in MovedTo(t), set_timeout(t, g, when)
      PROVE  TimersSpec!Next
  <2>1. when \in Int
    <3>1. time[t] \in Int /\ Durations \subseteq Nat
      BY Constants DEF Queues
    <3> QED BY <3>1 DEF MovedTo
  <2>2. g \in Pending /\ TimersSpec!Set(g)
    BY <1>1, <1>4, <2>1, MoveSets
  <2> QED BY <2>2, Mapping DEF TimersSpec!Next
<1> QED BY <1>2, <1>3, <1>4 DEF ClientOp

\* The first timer is called when its time has passed, and is gone by then:
\* neither the callback nor another poll can have it called again.
LEMMA FireCalls ==
  ASSUME IInv, IInv', NEW th \in Threads, Fire(th)
  PROVE  TimersSpec!Next
<1>1. Queues /\ PollTypes /\ NowPassed /\ Queues'
  BY DEF IInv
<1>2. PICK t \in timers :
        /\ time[t] < now[th]
        /\ all_timers' = all_timers \ {t}
        /\ time' = [time EXCEPT ![t] = 0] /\ generation' = [generation EXCEPT ![t] = 0]
  BY DEF Fire, Gone
<1>3. /\ clock' = clock /\ next_generation' = next_generation /\ named' = 0
      /\ pc[th] = "firing" /\ pc' = [pc EXCEPT ![th] = "func"]
  BY DEF Fire
<1>4. t \in all_timers /\ t \in Slots
  BY <1>1 DEF Queues
<1>5. th \notin InCallback /\ InCallback' = InCallback \cup {th}
  BY <1>1, <1>3 DEF InCallback, PollTypes
<1>6. \A u \in all_timers' : generation'[u] = generation[u] /\ time'[u] = time[u]
  BY <1>1, <1>2 DEF Queues
<1>7. Due' = [g \in Pending \ {generation[t]} |-> Due[g]]
  BY <1>1, <1>2, <1>4, <1>6, OneLess
<1>8. Due[generation[t]] < clock
  <2>1. Due[generation[t]] = time[t]
    BY <1>1, <1>4, PendingIs
  <2>2. time[t] \in Int /\ now[th] \in Int /\ clock \in Int
    BY <1>1, <1>4 DEF Queues, PollTypes
  <2>3. now[th] <= clock
    BY <1>1 DEF NowPassed
  <2> QED BY <1>2, <2>1, <2>2, <2>3
<1>9. generation[t] \in Pending
  BY <1>4 DEF Pending
<1>10. PICK g \in Pending : g = generation[t]
  BY <1>9
<1>11. Due[g] < clock /\ Due' = [h \in Pending \ {g} |-> Due[h]]
  BY <1>7, <1>8, <1>10
<1>12. TimersSpec!Call(th, g)
  BY <1>3, <1>5, <1>11, MappedCall
<1> QED BY <1>12, Mapping DEF TimersSpec!Next

\* When no timer is touched, the times are what they were.
LEMMA SameTimers ==
  ASSUME UNCHANGED <<all_timers, generation, time>>
  PROVE  UNCHANGED Due
BY DEF Due

\* A thread returns from a callback, whatever becomes of its poll.
LEMMA ReturnReturns ==
  ASSUME IInv, NEW th \in Threads, Return(th)
  PROVE  TimersSpec!Next
<1>1. pc \in [Threads -> {"out", "firing", "func", "blocked"}]
  BY DEF IInv, PollTypes
<1>2. /\ pc[th] = "func" /\ named' = 0
      /\ UNCHANGED <<clock, next_generation, all_timers, generation, time>>
      /\ pc' = [pc EXCEPT ![th] = "firing"] \/ pc' = [pc EXCEPT ![th] = "out"]
  BY DEF Return, Ends, objects
<1>3. th \in InCallback /\ InCallback' = InCallback \ {th}
  BY <1>1, <1>2 DEF InCallback
<1>4. UNCHANGED Due
  BY <1>2, SameTimers
<1>5. TimersSpec!Return(th)
  BY <1>2, <1>3, <1>4 DEF TimersSpec!Return, Due, DueOf, InCallback, Pending, TimeOf
<1> QED BY <1>5 DEF TimersSpec!Next

\* What the main loop does else, clients do not see.
LEMMA QuietImplements ==
  ASSUME UNCHANGED <<clock, next_generation, all_timers, generation, time>>, named' = 0,
         \A th \in Threads :
           pc'[th] \in {"func", "blocked"} <=> pc[th] \in {"func", "blocked"}
  PROVE  TimersSpec!Internal
<1>1. UNCHANGED InCallback
  BY DEF InCallback
<1>2. UNCHANGED Due
  BY SameTimers
<1> QED BY <1>1, <1>2 DEF TimersSpec!Internal, Due, DueOf, InCallback, Pending, TimeOf

LEMMA ImplementsStep ==
  ASSUME IInv, IInv', [Next]_vars
  PROVE  [TimersSpec!Next]_(TimersSpec!vars)
<1> USE DEF IInv
<1>1. /\ pc \in [Threads -> {"out", "firing", "func", "blocked"}]
      /\ clock \in Nat /\ cached \in 0..clock
  BY DEF PollTypes
<1> DEFINE Calls ==
      \A th \in Threads :
        pc'[th] \in {"func", "blocked"} <=> pc[th] \in {"func", "blocked"}
<1>2. CASE Client
  BY <1>1, <1>2, ClientImplements DEF Client, polls
<1>3. CASE Tick
  <2>1. clock' = clock + 1 /\ named' = 0
        /\ UNCHANGED <<next_generation, all_timers, generation, time, pc>>
    BY <1>3 DEF Tick, objects, polls
  <2>2. UNCHANGED Due /\ UNCHANGED InCallback
    BY <2>1, SameTimers DEF InCallback
  <2>3. TimersSpec!Tick
    BY <2>1, <2>2 DEF TimersSpec!Tick, Due, DueOf, InCallback, Pending, TimeOf
  <2> QED BY <2>3 DEF TimersSpec!Next
<1>4. CASE WakeUp \/ Disturb \/ Schedule
  <2>1. TimersSpec!Internal
    BY <1>4, QuietImplements DEF WakeUp, Disturb, Schedule, objects, polls
  <2> QED BY <2>1 DEF TimersSpec!Next
<1>9. CASE UNCHANGED vars
  <2>1. UNCHANGED Due /\ UNCHANGED InCallback
    BY <1>9, SameTimers DEF InCallback, vars, objects, polls
  <2>2. UNCHANGED <<clock, next_generation, named>>
    BY <1>9 DEF vars, objects
  <2> QED BY <2>1, <2>2 DEF TimersSpec!vars, Due, DueOf, InCallback, Pending, TimeOf
<1>5. ASSUME NEW th \in Threads, Fire(th) PROVE TimersSpec!Next
  BY <1>5, FireCalls
<1>6. ASSUME NEW th \in Threads, Return(th) PROVE TimersSpec!Next
  BY <1>6, ReturnReturns
<1>7. ASSUME NEW th \in Threads, Callback(th) PROVE TimersSpec!Next
  BY <1>1, <1>7, ClientImplements DEF Callback, polls
<1>8. ASSUME NEW th \in Threads, Begin(th) \/ Block(th) \/ Resume(th) \/ End(th)
      PROVE  TimersSpec!Next
  <2>1. UNCHANGED <<clock, next_generation, all_timers, generation, time>> /\ named' = 0
    BY <1>8 DEF Begin, Block, Resume, End, objects
  <2>2. Calls
    BY <1>1, <1>8 DEF Begin, Block, Resume, End, Ends
  <2>3. TimersSpec!Internal
    BY <2>1, <2>2, QuietImplements
  <2> QED BY <2>3 DEF TimersSpec!Next
<1> QED BY <1>2, <1>3, <1>4, <1>5, <1>6, <1>7, <1>8, <1>9 DEF Next

\* Clients are promised what Timers says, whichever facades they use, whatever
\* their callbacks do with the dispatcher and however polls overtake each other:
\* every step is a step of Timers or touches nothing that clients see.
THEOREM TimersAsPromised == Spec => ImplementsTimers
<1>1. Init => TimersSpec!Init
  <2>1. ASSUME Init PROVE Due = << >>
    BY <2>1 DEF Init, Due, DueOf
  <2>2. ASSUME Init PROVE InCallback = {}
    BY <2>2 DEF Init, InCallback
  <2>3. Init => clock = 0 /\ next_generation = 0 /\ named = 0
    BY DEF Init
  <2> QED BY <2>1, <2>2, <2>3, Mapping
<1>2. IInv /\ IInv' /\ [Next]_vars => [TimersSpec!Next]_(TimersSpec!vars)
  BY ImplementsStep
<1> QED BY <1>1, <1>2, Invariance, PTL DEF Spec, ImplementsTimers, TimersSpec!Spec
=============================================================================
