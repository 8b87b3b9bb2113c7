------------------------------ MODULE PollLoop ------------------------------
(***************************************************************************)
(* NOX's main loop: a pool of cooperative threads, one of which at a time, *)
(* the polling thread, polls the Pollables in turn.  When the poll it is   *)
(* in blocks, the loop's pre-block hook appoints a dormant thread in its   *)
(* place; a thread whose poll ends later goes dormant, or takes the place  *)
(* back if nobody could be appointed.                                      *)
(*                                                                         *)
(* All the threads are in one cooperative group, so one runs at a time and *)
(* gives way only where it blocks or yields.                               *)
(***************************************************************************)
EXTENDS Integers, Sequences, FiniteSets, SequencesExt

CONSTANTS
  Threads,     \* the threads of the pool
  Main,        \* the one that called run()
  Pollables,
  Entries,     \* elements of the list of pollables (Pollable_ref)
  None

ASSUME MainAssumption == Main \in Threads /\ IsFiniteSet(Threads)
ASSUME NoneAssumption == None \notin Threads \cup Pollables \cup Entries

VARIABLES
  running,     \* the thread of the pool that runs, None when others may
  polling,     \* polling_thread
  dormant,     \* dormant_threads, front first
  pc,          \* where each thread is
  hook,        \* whether the thread's pre-block hook is set
  it,          \* i of service_pollables: an element, or None at the end
  progress,    \* progress of service_pollables
  list,        \* pollables: the elements in their order
  pollable,    \* Pollable_ref::pollable
  refs,        \* Pollable_ref::ref_cnt
  work         \* Pollables with work to do

threadVars == <<running, polling, dormant, pc, hook, it, progress>>
listVars   == <<list, pollable, refs>>
vars       == <<threadVars, listVars, work>>

Pcs == {"new",       \* run() is not called yet
        "top",       \* at the head of poll_thread_main's loop
        "dormant",   \* in wakeup.down()
        "appointed", \* ... and up
        "service",   \* in service_pollables, between two polls
        "poll",      \* in a poll
        "blocked",   \* in a poll that has blocked or yielded
        "yield",     \* in co_yield after a pass that made progress
        "idle",      \* in co_block, waiting for work
        "woken"}     \* ... and ready

-----------------------------------------------------------------------------
(* The list                                                                *)

Begin == IF list = << >> THEN None ELSE Head(list)

\* Where the iterator to element e of list l stands.
Position(l, e) == CHOOSE n \in DOMAIN l : l[n] = e

\* ++i in list l.
After(l, e) == IF Position(l, e) = Len(l) THEN None ELSE l[Position(l, e) + 1]

\* pollables.erase(i).
Erase(l, e) == RemoveAt(l, Position(l, e))

\* Faulty appoint_polling_thread: the list is not rotated.
Rotate_Not(l, e) == l

\* The splice of appoint_polling_thread: what follows e comes to the front.
Rotate(l, e) == LET n == Position(l, e)
                IN  SubSeq(l, n + 1, Len(l)) \o SubSeq(l, 1, n)

\* The elements of p: one at most, the others stand for its earlier stays.
InLoop(p) == \E e \in ToSet(list) : pollable[e] = p

\* The end of NEXT_WITH_REFERENCE, once e is left with r references.
Pass(t, e, r) ==
  /\ refs' = [refs EXCEPT ![e] = r]
  /\ it' = [it EXCEPT ![t] = After(list, e)]
  /\ list' = IF r = 0 /\ pollable[e] = None THEN Erase(list, e) ELSE list
  /\ UNCHANGED pollable

\* Other code runs: a poll, or a thread that is not of the pool.
OutsideLoop == running # None => pc[running] = "poll"

\* Threads that the condition variables waited on in co_block wake up.
WakeIdle == [t \in Threads |-> IF pc[t] = "idle" THEN "woken" ELSE pc[t]]

AddPollable(p) ==
  /\ OutsideLoop /\ ~InLoop(p)
  /\ \E e \in Entries \ ToSet(list) :
       /\ list' = Append(list, e)
       /\ pollable' = [pollable EXCEPT ![e] = p]
       /\ refs' = [refs EXCEPT ![e] = 0]
  /\ pc' = WakeIdle
  /\ UNCHANGED <<running, polling, dormant, hook, it, progress, work>>

\* Faulty remove_pollable: the element goes although a poll still refers to it.
RemovePollable_Dangling(p) ==
  /\ OutsideLoop
  /\ \E e \in ToSet(list) :
       /\ pollable[e] = p
       /\ pollable' = [pollable EXCEPT ![e] = None]
       /\ list' = Erase(list, e)
  /\ work' = work \ {p}
  /\ UNCHANGED <<threadVars, refs>>

RemovePollable(p) ==
  /\ OutsideLoop
  /\ \E e \in ToSet(list) :
       /\ pollable[e] = p
       /\ pollable' = [pollable EXCEPT ![e] = None]
       /\ list' = IF refs[e] = 0 THEN Erase(list, e) ELSE list
  /\ work' = work \ {p}
  /\ UNCHANGED <<threadVars, refs>>

\* Work comes up for p, which wakes the thread that waits for it.
WorkComes(p) ==
  /\ OutsideLoop /\ InLoop(p) /\ p \notin work
  /\ work' = work \cup {p}
  /\ pc' = WakeIdle
  /\ UNCHANGED <<running, polling, dormant, hook, it, progress, listVars>>

-----------------------------------------------------------------------------
(* The threads                                                             *)

\* run(): the caller becomes the first polling thread.
Run ==
  /\ running = None /\ pc[Main] = "new"
  /\ running' = Main /\ polling' = Main
  /\ pc' = [pc EXCEPT ![Main] = "top"]
  /\ UNCHANGED <<dormant, hook, it, progress, listVars, work>>

\* A thread that is not the polling thread waits until it is appointed.
GoDormant(t) ==
  /\ running = t /\ pc[t] = "top" /\ polling # t
  /\ dormant' = <<t>> \o dormant
  /\ pc' = [pc EXCEPT ![t] = "dormant"]
  /\ running' = None
  /\ UNCHANGED <<polling, hook, it, progress, listVars, work>>

\* service_pollables is called.
Serve(t) ==
  /\ pc' = [pc EXCEPT ![t] = "service"]
  /\ it' = [it EXCEPT ![t] = Begin]
  /\ progress' = [progress EXCEPT ![t] = FALSE]
  /\ running' = t
  /\ UNCHANGED <<polling, dormant, hook, listVars, work>>

StartPass(t) == running = t /\ pc[t] = "top" /\ polling = t /\ Serve(t)

\* A pollable that was removed while it was being polled is passed over.
SkipRemoved(t) ==
  /\ running = t /\ pc[t] = "service" /\ it[t] # None /\ pollable[it[t]] = None
  /\ Pass(t, it[t], refs[it[t]])
  /\ UNCHANGED <<running, polling, dormant, pc, hook, progress, work>>

\* poll() is called, with the pre-block hook set.
EnterPoll(t) ==
  /\ running = t /\ pc[t] = "service" /\ it[t] # None /\ pollable[it[t]] # None
  /\ refs' = [refs EXCEPT ![it[t]] = @ + 1]
  /\ hook' = [hook EXCEPT ![t] = TRUE]
  /\ pc' = [pc EXCEPT ![t] = "poll"]
  /\ work' = work \ {pollable[it[t]]}
  /\ UNCHANGED <<running, polling, dormant, it, progress, list, pollable>>

\* appoint_polling_thread, the pre-block hook.
Appoint(t) ==
  /\ list' = Rotate(list, it[t])
  /\ \/ /\ dormant = << >>
        /\ polling' = None
        /\ UNCHANGED dormant
        /\ pc' = [pc EXCEPT ![t] = "blocked"]
     \/ /\ dormant # << >>
        /\ polling' = Head(dormant)
        /\ dormant' = Tail(dormant)
        /\ pc' = [pc EXCEPT ![t] = "blocked", ![Head(dormant)] = "appointed"]

\* Faulty do_schedule: the hook is called every time the thread blocks.
PollBlocks_HookKept(t) ==
  /\ running = t /\ pc[t] = "poll"
  /\ Appoint(t)
  /\ running' = None
  /\ UNCHANGED <<hook, it, progress, pollable, refs, work>>

\* The poll blocks or yields; the hook is called the first time only.
PollBlocks(t) ==
  /\ running = t /\ pc[t] = "poll"
  /\ \/ hook[t] /\ Appoint(t)
     \/ /\ ~hook[t]
        /\ pc' = [pc EXCEPT ![t] = "blocked"]
        /\ UNCHANGED <<polling, dormant, list>>
  /\ hook' = [hook EXCEPT ![t] = FALSE]
  /\ running' = None
  /\ UNCHANGED <<it, progress, pollable, refs, work>>

\* Faulty service_pollables: the position is not reclaimed.
Continue_NoReclaim(t, r) ==
  \/ /\ polling = t
     /\ pc' = [pc EXCEPT ![t] = "service"]
     /\ progress' = [progress EXCEPT ![t] = @ \/ r]
     /\ UNCHANGED <<polling, running>>
  \/ /\ polling # t
     /\ pc' = [pc EXCEPT ![t] = "top"]
     /\ UNCHANGED <<polling, progress, running>>

\* How service_pollables goes on after a poll that returned r.
Continue(t, r) ==
  \/ /\ polling = t
     /\ pc' = [pc EXCEPT ![t] = "service"]
     /\ progress' = [progress EXCEPT ![t] = @ \/ r]
     /\ UNCHANGED <<polling, running>>
  \/ /\ polling = None
     /\ polling' = t
     /\ pc' = [pc EXCEPT ![t] = "yield"]
     /\ running' = None
     /\ UNCHANGED progress
  \/ /\ polling \notin {t, None}
     /\ pc' = [pc EXCEPT ![t] = "top"]
     /\ UNCHANGED <<polling, progress, running>>

PollReturns(t, r) ==
  /\ running = t /\ pc[t] = "poll"
  /\ Pass(t, it[t], refs[it[t]] - 1)
  /\ hook' = [hook EXCEPT ![t] = FALSE]
  /\ Continue(t, r)
  /\ UNCHANGED <<dormant, work>>

\* A pass that made progress is followed by co_yield and another pass.
EndPass(t) ==
  /\ running = t /\ pc[t] = "service" /\ it[t] = None /\ progress[t]
  /\ pc' = [pc EXCEPT ![t] = "yield"]
  /\ running' = None
  /\ UNCHANGED <<polling, dormant, hook, it, progress, listVars, work>>

\* After one without progress every pollable's wait() is called: with work to
\* do it asks for an immediate wake-up.
Idle(t) ==
  /\ running = t /\ pc[t] = "service" /\ it[t] = None /\ ~progress[t]
  /\ pc' = [pc EXCEPT ![t] =
              IF \E p \in work : InLoop(p) THEN "woken" ELSE "idle"]
  /\ running' = None
  /\ UNCHANGED <<polling, dormant, hook, it, progress, listVars, work>>

\* A thread that is ready gets to run.
Resume(t) ==
  /\ running = None
  /\ \/ pc[t] \in {"appointed", "yield"} /\ Serve(t)
     \/ /\ pc[t] \in {"blocked", "woken"}
        /\ pc' = [pc EXCEPT ![t] = IF @ = "blocked" THEN "poll" ELSE "top"]
        /\ running' = t
        /\ UNCHANGED <<polling, dormant, hook, it, progress, listVars, work>>

-----------------------------------------------------------------------------
\* The orders in which a set of threads can be in a queue.
Orders(S) == {s \in [1..Cardinality(S) -> S] :
                /\ \A t \in S : \E i \in DOMAIN s : s[i] = t
                /\ \A i, j \in DOMAIN s : s[i] = s[j] => i = j}

\* The constructor has created all the threads but Main; the last one comes
\* first in dormant_threads.
Init ==
  /\ running = None /\ polling = None
  /\ dormant \in Orders(Threads \ {Main})
  /\ pc = [t \in Threads |-> IF t = Main THEN "new" ELSE "dormant"]
  /\ hook = [t \in Threads |-> FALSE]
  /\ it = [t \in Threads |-> None]
  /\ progress = [t \in Threads |-> FALSE]
  /\ list = << >>
  /\ pollable = [e \in Entries |-> None]
  /\ refs = [e \in Entries |-> 0]
  /\ work = {}

\* What a thread does by itself when it runs.
Loop(t) == GoDormant(t) \/ StartPass(t) \/ SkipRemoved(t) \/ EnterPoll(t)
           \/ EndPass(t) \/ Idle(t)

Next ==
  \/ Run
  \/ \E t \in Threads : Loop(t) \/ Resume(t) \/ PollBlocks(t)
  \/ \E t \in Threads, r \in BOOLEAN : PollReturns(t, r)
  \/ \E p \in Pollables : AddPollable(p) \/ RemovePollable(p) \/ WorkComes(p)

\* The group's ready list is first in, first out, so a thread that is ready
\* again and again gets to run; what a poll waits for comes, and polls end.
Fairness ==
  /\ WF_vars(Run)
  /\ \A t \in Threads : /\ WF_vars(Loop(t))
                        /\ SF_vars(Resume(t))
                        /\ SF_vars(\E r \in BOOLEAN : PollReturns(t, r))

Spec == Init /\ [][Next]_vars /\ Fairness

-----------------------------------------------------------------------------
(* Properties                                                              *)

\* The type of every variable.
TypeOK ==
  /\ running \in Threads \cup {None} /\ polling \in Threads \cup {None}
  /\ dormant \in Seq(Threads)
  /\ pc \in [Threads -> Pcs] /\ hook \in [Threads -> BOOLEAN]
  /\ it \in [Threads -> Entries \cup {None}]
  /\ progress \in [Threads -> BOOLEAN]
  /\ list \in Seq(Entries)
  /\ pollable \in [Entries -> Pollables \cup {None}]
  /\ refs \in [Entries -> Nat]
  /\ work \subseteq Pollables

\* The asserts of poll_thread_main and service_pollables: a thread that comes
\* out of wakeup.down() or starts a pass is the polling thread, and so is one
\* that waits for work.  A hook left set, or called twice, would appoint a
\* second thread behind its back.
OnlyPollingThreadServes ==
  \A t \in Threads :
    pc[t] \in {"appointed", "service", "yield", "idle", "woken"} \/ hook[t]
      => polling = t

\* The place is vacant only while every thread of the pool is in a poll that
\* has blocked: the loop never stands still with a thread to spare.
VacantOnlyWhenAllBusy ==
  polling = None /\ pc[Main] # "new" =>
    dormant = << >> /\ \A t \in Threads : pc[t] \in {"poll", "blocked"}

\* A removed pollable's element stays in the list as long as some poll is to
\* come back to it, and not longer: no iterator is left dangling, whatever the
\* polls remove, themselves included, and however the list is rotated.
IteratorsValid ==
  /\ TypeOK
  /\ \A t \in Threads : pc[t] \in {"service", "poll", "blocked"} =>
       it[t] \in ToSet(list) \cup {None}
  /\ \A e \in ToSet(list) : refs[e] = 0 => pollable[e] # None

\* Nothing starves: a pollable with work to do is polled, or removed.  The list
\* is rotated so that pollables that block do not shut out those after them.
\* (Pollables that are added without end, by the polls of one pass, can make
\* that pass endless.)
AdditionsEnd == <>[][\A p \in Pollables : ~AddPollable(p)]_vars
WorkIsPolled ==
  AdditionsEnd => \A p \in Pollables : p \in work ~> p \notin work
=============================================================================
