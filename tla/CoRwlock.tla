------------------------------ MODULE CoRwlock ------------------------------
(***************************************************************************)
(* Co_rwlock, the reader-writer lock for the threads of one cooperative    *)
(* group, on its two wait queues.                                          *)
(*                                                                         *)
(* An operation runs to its co_block() without interruption.  A thread     *)
(* waits for the lock alone (read_lock, write_lock) or for the lock and a  *)
(* timer (read_wait or write_wait with co_timer_wait, then co_block).      *)
(***************************************************************************)
EXTENDS Integers, Sequences, FiniteSets, SequencesExt, Lists

CONSTANTS
  Readers, Writers,  \* threads that lock for reading, and for writing
  Timed,             \* those that also set a timer
  Nobody             \* write_owner, when no writer has the lock

ASSUME ThreadAssumption ==
  /\ Readers \cap Writers = {}
  /\ Timed \subseteq Readers \cup Writers
  /\ Nobody \notin Readers \cup Writers
  /\ IsFiniteSet(Readers) /\ IsFiniteSet(Writers)

VARIABLES
  write_owner, read_owners, read_wq, write_wq,
  lock_pc,        \* "out", "waiting" in co_block, or "in": the lock is acquired
  ready,     \* whether the thread has been made ready
  acquired,  \* the flag its event points to
  handed,    \* history: whether write_unlock has woken another writer
  stranded   \* history: whether a writer gave up and left readers behind

lockHistory == <<handed, stranded>>
lockVars == <<write_owner, read_owners, read_wq, write_wq, lock_pc, ready, acquired,
              handed, stranded>>

Lockers == Readers \cup Writers

\* do_event_wake of the events of a set of threads.
WakeAll(set) ==
  /\ ready' = [t \in Lockers |-> ready[t] \/ t \in set]
  /\ acquired' = [t \in Lockers |-> acquired[t] \/ t \in set]

Sleep(t) ==
  /\ lock_pc' = [lock_pc EXCEPT ![t] = "waiting"]
  /\ ready' = [ready EXCEPT ![t] = FALSE]
  /\ acquired' = [acquired EXCEPT ![t] = FALSE]

Enter(t) == lock_pc' = [lock_pc EXCEPT ![t] = "in"] /\ UNCHANGED <<ready, acquired>>

\* Faulty read_try_lock: waiting writers are not looked at.
MayRead_Barging == write_owner = Nobody

\* The condition of read_try_lock.
MayRead == write_owner = Nobody /\ write_wq = << >>

\* read_lock and read_wait.
read_lock(t) ==
  /\ t \in Readers /\ lock_pc[t] = "out"
  /\ \/ /\ MayRead
        /\ read_owners' = read_owners + 1
        /\ Enter(t)
        /\ UNCHANGED read_wq
     \/ /\ ~MayRead
        /\ read_wq' = Append(read_wq, t)
        /\ Sleep(t)
        /\ UNCHANGED read_owners
  /\ UNCHANGED <<write_owner, write_wq, lockHistory>>

\* The first writer in line is woken, if there is one.
WakeWriter ==
  /\ write_wq' = IF write_wq = << >> THEN << >> ELSE Tail(write_wq)
  /\ WakeAll(IF write_wq = << >> THEN {} ELSE {Head(write_wq)})

\* Faulty read_unlock: the writer is woken while other readers remain.
read_unlock_Early(t) ==
  /\ t \in Readers /\ lock_pc[t] = "in"
  /\ read_owners' = read_owners - 1
  /\ write_owner' = IF write_wq = << >> THEN Nobody ELSE Head(write_wq)
  /\ WakeWriter
  /\ lock_pc' = [lock_pc EXCEPT ![t] = "out"]
  /\ UNCHANGED <<read_wq, lockHistory>>

\* read_unlock: the last reader hands the lock to the first writer in line.
read_unlock(t) ==
  /\ t \in Readers /\ lock_pc[t] = "in"
  /\ read_owners' = read_owners - 1
  /\ \/ /\ read_owners = 1
        /\ write_owner' = IF write_wq = << >> THEN Nobody ELSE Head(write_wq)
        /\ WakeWriter
     \/ /\ read_owners # 1
        /\ UNCHANGED <<write_owner, write_wq, ready, acquired>>
  /\ lock_pc' = [lock_pc EXCEPT ![t] = "out"]
  /\ UNCHANGED <<read_wq, lockHistory>>

\* write_lock and write_wait.
write_lock(t) ==
  /\ t \in Writers /\ lock_pc[t] = "out"
  /\ \/ /\ read_owners = 0 /\ write_owner = Nobody
        /\ write_owner' = t
        /\ Enter(t)
        /\ UNCHANGED write_wq
     \/ /\ ~(read_owners = 0 /\ write_owner = Nobody)
        /\ write_wq' = Append(write_wq, t)
        /\ Sleep(t)
        /\ UNCHANGED write_owner
  /\ UNCHANGED <<read_owners, read_wq, lockHistory>>

\* Faulty write_unlock: only the next writer is looked for.
write_unlock_SkipReaders(t) ==
  /\ t \in Writers /\ lock_pc[t] = "in"
  /\ write_owner' = Nobody
  /\ WakeWriter
  /\ lock_pc' = [lock_pc EXCEPT ![t] = "out"]
  /\ UNCHANGED <<read_owners, read_wq, lockHistory>>

\* write_unlock: all the waiting readers are let in, or else the next writer is
\* woken.
write_unlock(t) ==
  /\ t \in Writers /\ lock_pc[t] = "in"
  /\ write_owner' = Nobody
  /\ \/ /\ read_wq # << >>
        /\ read_owners' = Len(read_wq)
        /\ read_wq' = << >>
        /\ WakeAll(ToSet(read_wq))
        /\ UNCHANGED <<write_wq, handed>>
     \/ /\ read_wq = << >>
        /\ WakeWriter
        /\ handed' = (handed \/ write_wq # << >>)
        /\ UNCHANGED <<read_owners, read_wq>>
  /\ lock_pc' = [lock_pc EXCEPT ![t] = "out"]
  /\ UNCHANGED stranded

\* The timer of a waiting thread goes off.
Expire(t) ==
  /\ t \in Timed /\ lock_pc[t] = "waiting" /\ ~ready[t]
  /\ ready' = [ready EXCEPT ![t] = TRUE]
  /\ UNCHANGED <<write_owner, read_owners, read_wq, write_wq, lock_pc, acquired, lockHistory>>

\* The last writer in line gives up, with the lock in the hands of readers, or
\* free: nobody will look at the readers that it kept out.
LeavesReaders(t) ==
  /\ t \in Writers /\ ~acquired[t] /\ write_owner = Nobody
  /\ Without(write_wq, {t}) = << >> /\ read_wq # << >>

\* co_block returns, and cancel_events takes the thread off its queue.
Return(t) ==
  /\ lock_pc[t] = "waiting" /\ ready[t]
  /\ read_wq' = Without(read_wq, {t})
  /\ write_wq' = Without(write_wq, {t})
  /\ lock_pc' = [lock_pc EXCEPT ![t] = IF acquired[t] THEN "in" ELSE "out"]
  /\ stranded' = (stranded \/ LeavesReaders(t))
  /\ UNCHANGED <<write_owner, read_owners, ready, acquired, handed>>

-----------------------------------------------------------------------------
InitLock ==
  /\ write_owner = Nobody /\ read_owners = 0
  /\ read_wq = << >> /\ write_wq = << >>
  /\ lock_pc = [t \in Lockers |-> "out"]
  /\ ready = [t \in Lockers |-> FALSE]
  /\ acquired = [t \in Lockers |-> FALSE]
  /\ handed = FALSE /\ stranded = FALSE

Unlock(t) == read_unlock(t) \/ write_unlock(t)

NextLock == \E t \in Lockers :
  read_lock(t) \/ write_lock(t) \/ Unlock(t) \/ Expire(t) \/ Return(t)

\* A ready thread gets to run, and whoever has the lock unlocks it.
FairLock == \A t \in Lockers : WF_lockVars(Unlock(t)) /\ WF_lockVars(Return(t))

SpecLock == InitLock /\ [][NextLock]_lockVars /\ FairLock

-----------------------------------------------------------------------------
(* Properties                                                              *)

\* The type of every variable.
TypeOKLock ==
  /\ write_owner \in Writers \cup {Nobody} /\ read_owners \in 0..Cardinality(Readers)
  /\ read_wq \in Seq(Readers) /\ write_wq \in Seq(Writers)
  /\ lock_pc \in [Lockers -> {"out", "waiting", "in"}]
  /\ ready \in [Lockers -> BOOLEAN] /\ acquired \in [Lockers -> BOOLEAN]

\* Those who have the lock, on their way out of co_block included.
Has(t) == lock_pc[t] = "in" \/ (lock_pc[t] = "waiting" /\ acquired[t])

\* Writers exclude everyone else, and the lock's fields say who has it, from
\* the moment a wake-up hands it over: until write_unlock wakes another writer,
\* which it does not make write_owner.
Exclusion == ~handed =>
  /\ TypeOKLock
  /\ read_owners = Cardinality({t \in Readers : Has(t)})
  /\ \A t \in Writers : Has(t) =>
       read_owners = 0 /\ \A u \in Writers \ {t} : ~Has(u)

\* The assertions of read_lock and write_lock after co_block: a thread that has
\* been woken with the lock finds itself among the lock's owners.
WokenOwns ==
  /\ \A t \in Writers : lock_pc[t] = "in" => write_owner = t
  /\ \A t \in Readers : lock_pc[t] = "in" => read_owners > 0

Unlocked == write_owner = Nobody /\ \A t \in Lockers : ~Has(t)

\* read_unlock and write_unlock leave nobody waiting for a lock that is free,
\* unless write_unlock has woken another writer, or a writer's timer went off
\* while readers were waiting behind it.
NoWaitForFreeLock == Unlocked /\ ~handed /\ ~stranded =>
  \A t \in Lockers : lock_pc[t] = "waiting" => ready[t]

\* "Locks 'this' for reading, blocking as necessary" (read_lock): no reader is
\* left waiting for a lock that is free.
NoReaderLeft == Unlocked => \A t \in Readers : lock_pc[t] = "waiting" => ready[t]

\* A waiting writer without a timer gets the lock, although readers keep coming.
WriterGetsLock ==
  \A t \in Writers \ Timed : lock_pc[t] = "waiting" ~> lock_pc[t] = "in" \/ handed
=============================================================================
