--------------------------- MODULE PollLoopProofs ---------------------------
(***************************************************************************)
(* Proofs about PollLoop, for any pool and any pollables: the position of  *)
(* polling thread is handed on like a token.  Whoever is about to poll, to *)
(* go on polling or to wait for work holds it, the dormant threads are     *)
(* exactly those in line for it, and it is vacant only while there is no   *)
(* such thread.                                                            *)
(***************************************************************************)
EXTENDS PollLoop, FiniteSetTheorems, SequenceTheorems, TLAPS

ThreadTypes ==
  /\ running \in Threads \cup {None} /\ polling \in Threads \cup {None}
  /\ dormant \in Seq(Threads)
  /\ pc \in [Threads -> Pcs] /\ hook \in [Threads -> BOOLEAN]

\* A thread that has been scheduled and has not given way is the one running.
OneRuns == \A t \in Threads : pc[t] \in {"top", "service", "poll"} <=> running = t

\* Before run() everyone but Main is dormant, and only Main is ever new.
BeforeRun ==
  /\ \A t \in Threads \ {Main} : pc[t] # "new"
  /\ pc[Main] = "new" =>
       polling = None /\ \A t \in Threads \ {Main} : pc[t] = "dormant"

Once(s) == \A i, j \in 1..Len(s) : s[i] = s[j] => i = j
In(s, t) == \E i \in 1..Len(s) : s[i] = t

\* dormant_threads has every dormant thread once, and no other.
DormantInLine ==
  Once(dormant) /\ \A t \in Threads : pc[t] = "dormant" <=> In(dormant, t)

TokenInv == /\ ThreadTypes /\ OneRuns /\ BeforeRun /\ DormantInLine
            /\ OnlyPollingThreadServes /\ VacantOnlyWhenAllBusy

-----------------------------------------------------------------------------
(* dormant_threads as a stack                                              *)

LEMMA PushFront ==
  ASSUME NEW s \in Seq(Threads), NEW t \in Threads, Once(s), ~In(s, t)
  PROVE  LET r == <<t>> \o s IN
         r \in Seq(Threads) /\ Once(r) /\ \A u \in Threads : In(r, u) <=> u = t \/ In(s, u)
  <1> DEFINE r == <<t>> \o s
  <1>1. r \in Seq(Threads) /\ Len(r) = Len(s) + 1 /\ Len(s) \in Nat
    OBVIOUS
  <1>2. r[1] = t /\ \A i \in 1..Len(s) : r[i + 1] = s[i]
    OBVIOUS
  <1>3. \A i \in 2..Len(r) : i - 1 \in 1..Len(s) /\ r[i] = s[i - 1]
    BY <1>1, <1>2
  <1> HIDE DEF r
  <1>4. Once(r)
    <2> SUFFICES ASSUME NEW i \in 1..Len(r), NEW j \in 1..Len(r), r[i] = r[j]
                 PROVE  i = j
      BY DEF Once
    <2>1. CASE i = 1 /\ j \in 2..Len(r)
      BY <2>1, <1>2, <1>3 DEF In
    <2>2. CASE j = 1 /\ i \in 2..Len(r)
      BY <2>2, <1>2, <1>3 DEF In
    <2>3. CASE i \in 2..Len(r) /\ j \in 2..Len(r)
      <3>1. s[i - 1] = s[j - 1] /\ i - 1 \in 1..Len(s) /\ j - 1 \in 1..Len(s)
        BY <2>3, <1>3
      <3>2. i - 1 = j - 1
        BY <3>1 DEF Once
      <3> QED BY <3>2, <2>3, <1>1
    <2>4. CASE i = 1 /\ j = 1
      BY <2>4
    <2>5. \A k \in 1..Len(r) : k = 1 \/ k \in 2..Len(r)
      BY <1>1
    <2> QED BY <2>1, <2>2, <2>3, <2>4, <2>5
  <1>5. ASSUME NEW u \in Threads PROVE In(r, u) <=> u = t \/ In(s, u)
    <2>1. In(r, u) => u = t \/ In(s, u)
      BY <1>1, <1>2, <1>3 DEF In
    <2>2. u = t => In(r, u)
      BY <1>1, <1>2 DEF In
    <2>3. In(s, u) => In(r, u)
      BY <1>1, <1>2 DEF In
    <2> QED BY <2>1, <2>2, <2>3
  <1> QED BY <1>1, <1>4, <1>5 DEF r

LEMMA PopFront ==
  ASSUME NEW s \in Seq(Threads), s # << >>, Once(s)
  PROVE  /\ Head(s) \in Threads /\ In(s, Head(s))
         /\ Tail(s) \in Seq(Threads) /\ Once(Tail(s))
         /\ \A u \in Threads : In(Tail(s), u) <=> u # Head(s) /\ In(s, u)
  <1>1. Len(s) \in Nat /\ Len(s) > 0 /\ Head(s) = s[1] /\ Head(s) \in Threads
    OBVIOUS
  <1>2. Tail(s) \in Seq(Threads) /\ Len(Tail(s)) = Len(s) - 1
    OBVIOUS
  <1>3. \A i \in 1..Len(Tail(s)) : i + 1 \in 1..Len(s) /\ Tail(s)[i] = s[i + 1]
    BY <1>1, <1>2
  <1>4. Once(Tail(s))
    BY <1>2, <1>3, <1>1 DEF Once
  <1>5. In(s, Head(s))
    BY <1>1 DEF In
  <1>6. ASSUME NEW u \in Threads PROVE In(Tail(s), u) <=> u # Head(s) /\ In(s, u)
    <2>1. In(Tail(s), u) => In(s, u)
      BY <1>3 DEF In
    <2>2. In(Tail(s), u) => u # Head(s)
      BY <1>1, <1>2, <1>3 DEF In, Once
    <2>3. ASSUME u # Head(s), In(s, u) PROVE In(Tail(s), u)
      <3>1. PICK i \in 1..Len(s) : s[i] = u
        BY <2>3 DEF In
      <3>2. i - 1 \in 1..Len(Tail(s))
        BY <3>1, <2>3, <1>1, <1>2
      <3>3. Tail(s)[i - 1] = u
        BY <3>1, <3>2, <1>3
      <3> QED BY <3>2, <3>3 DEF In
    <2> QED BY <2>1, <2>2, <2>3
  <1> QED BY <1>1, <1>2, <1>4, <1>5, <1>6

-----------------------------------------------------------------------------
(* The invariant                                                           *)

LEMMA TokenInit == Init => TokenInv
  <1> SUFFICES ASSUME Init PROVE TokenInv
    OBVIOUS
  <1> USE DEF Init
  <1> DEFINE others == Threads \ {Main}
  <1>1. Cardinality(others) \in Nat
    BY MainAssumption, FS_Difference, FS_CardinalityType
  <1>2. /\ dormant \in [1..Cardinality(others) -> others]
        /\ \A t \in others : \E i \in 1..Cardinality(others) : dormant[i] = t
        /\ \A i, j \in 1..Cardinality(others) : dormant[i] = dormant[j] => i = j
    BY DEF Orders
  <1> HIDE DEF others
  <1>3. dormant \in Seq(others) /\ Len(dormant) = Cardinality(others)
    BY <1>1, <1>2
  <1>4. dormant \in Seq(Threads)
    BY <1>3 DEF others
  <1>5. ThreadTypes
    BY <1>4 DEF ThreadTypes, Pcs
  <1>6. DormantInLine
    <2>1. Once(dormant)
      BY <1>2, <1>3 DEF Once
    <2>2. ASSUME NEW t \in Threads PROVE In(dormant, t) <=> t # Main
      BY <1>2, <1>3 DEF In, others
    <2> QED BY <2>1, <2>2 DEF DormantInLine
  <1>7. OneRuns /\ BeforeRun /\ OnlyPollingThreadServes /\ VacantOnlyWhenAllBusy
    BY MainAssumption, NoneAssumption
       DEF OneRuns, BeforeRun, OnlyPollingThreadServes, VacantOnlyWhenAllBusy
  <1> QED BY <1>5, <1>6, <1>7 DEF TokenInv

\* Nobody joins the line or leaves it.
LEMMA SameLine ==
  ASSUME DormantInLine, UNCHANGED dormant,
         \A t \in Threads : pc'[t] = "dormant" <=> pc[t] = "dormant"
  PROVE  DormantInLine'
  BY DEF DormantInLine

LEMMA RunStep == TokenInv /\ Run => TokenInv'
  <1> SUFFICES ASSUME TokenInv, Run PROVE TokenInv'
    OBVIOUS
  <1> USE DEF TokenInv, Run
  <1>1. ThreadTypes'
    BY MainAssumption DEF ThreadTypes, Pcs
  <1>2. OneRuns' /\ BeforeRun' /\ OnlyPollingThreadServes' /\ VacantOnlyWhenAllBusy'
    BY MainAssumption, NoneAssumption
       DEF ThreadTypes, OneRuns, BeforeRun, OnlyPollingThreadServes, VacantOnlyWhenAllBusy
  <1>3. DormantInLine'
    BY SameLine DEF ThreadTypes
  <1> QED BY <1>1, <1>2, <1>3

LEMMA GoDormantStep == ASSUME TokenInv, NEW t \in Threads, GoDormant(t) PROVE TokenInv'
  <1> USE DEF TokenInv, GoDormant
  <1>1. ~In(dormant, t)
    BY DEF DormantInLine
  <1>2. /\ dormant' \in Seq(Threads) /\ Once(dormant')
        /\ \A u \in Threads : In(dormant', u) <=> u = t \/ In(dormant, u)
    BY <1>1, PushFront DEF ThreadTypes, DormantInLine
  <1>3. ThreadTypes'
    BY <1>2 DEF ThreadTypes, Pcs
  <1>4. DormantInLine'
    BY <1>2 DEF ThreadTypes, DormantInLine
  <1>5. polling # None
    BY MainAssumption DEF VacantOnlyWhenAllBusy, OneRuns, BeforeRun
  <1>6. OneRuns' /\ BeforeRun' /\ OnlyPollingThreadServes' /\ VacantOnlyWhenAllBusy'
    BY <1>5, MainAssumption, NoneAssumption
       DEF ThreadTypes, OneRuns, BeforeRun, OnlyPollingThreadServes, VacantOnlyWhenAllBusy
  <1> QED BY <1>3, <1>4, <1>6

\* The steps of the running thread that leave the position and the line alone.
LEMMA LoopStep ==
  ASSUME TokenInv, NEW t \in Threads,
         StartPass(t) \/ SkipRemoved(t) \/ EnterPoll(t) \/ EndPass(t) \/ Idle(t)
  PROVE  TokenInv'
  <1> USE DEF TokenInv, StartPass, Serve, SkipRemoved, EnterPoll, EndPass, Idle
  <1>1. ThreadTypes'
    BY DEF ThreadTypes, Pcs
  <1>2. OneRuns' /\ BeforeRun' /\ DormantInLine'
    <2>1. OneRuns' /\ BeforeRun'
      BY MainAssumption, NoneAssumption DEF ThreadTypes, OneRuns, BeforeRun
    <2>2. DormantInLine'
      BY SameLine DEF ThreadTypes
    <2> QED BY <2>1, <2>2
  <1>3. polling = t
    BY DEF OnlyPollingThreadServes
  <1>4. OnlyPollingThreadServes' /\ VacantOnlyWhenAllBusy'
    BY <1>3, NoneAssumption
       DEF ThreadTypes, OnlyPollingThreadServes, VacantOnlyWhenAllBusy
  <1> QED BY <1>1, <1>2, <1>4

LEMMA ResumeStep == ASSUME TokenInv, NEW t \in Threads, Resume(t) PROVE TokenInv'
  <1> USE DEF TokenInv, Resume, Serve
  <1>1. ThreadTypes'
    BY DEF ThreadTypes, Pcs
  <1>2. OneRuns' /\ BeforeRun'
    BY MainAssumption, NoneAssumption DEF ThreadTypes, OneRuns, BeforeRun
  <1>3. DormantInLine'
    BY SameLine DEF ThreadTypes
  <1>4. OnlyPollingThreadServes' /\ VacantOnlyWhenAllBusy'
    BY MainAssumption, NoneAssumption
       DEF ThreadTypes, OnlyPollingThreadServes, VacantOnlyWhenAllBusy
  <1> QED BY <1>1, <1>2, <1>3, <1>4

\* The poll of the running thread blocks.  Its hook hands the position to the
\* first thread in line; with nobody in line every other thread is in a poll.
LEMMA PollBlocksStep ==
  ASSUME TokenInv, NEW t \in Threads, PollBlocks(t) PROVE TokenInv'
  <1> USE DEF TokenInv, PollBlocks
  <1>1. CASE ~hook[t]
    <2>1. ThreadTypes'
      BY <1>1 DEF ThreadTypes, Pcs
    <2>2. OneRuns' /\ BeforeRun'
      BY <1>1, MainAssumption, NoneAssumption DEF ThreadTypes, OneRuns, BeforeRun
    <2>3. DormantInLine'
      BY <1>1, SameLine DEF ThreadTypes
    <2>4. OnlyPollingThreadServes' /\ VacantOnlyWhenAllBusy'
      BY <1>1, MainAssumption, NoneAssumption
         DEF ThreadTypes, OnlyPollingThreadServes, VacantOnlyWhenAllBusy
    <2> QED BY <2>1, <2>2, <2>3, <2>4
  <1>2. CASE hook[t] /\ dormant = << >>
    <2>1. /\ polling' = None /\ dormant' = dormant /\ running' = None
          /\ pc' = [pc EXCEPT ![t] = "blocked"] /\ hook' = [hook EXCEPT ![t] = FALSE]
      BY <1>2 DEF Appoint
    <2>2. polling = t
      BY <1>2 DEF OnlyPollingThreadServes
    <2>3. \A u \in Threads : pc[u] # "dormant"
      BY <1>2 DEF DormantInLine, In
    <2>4. \A u \in Threads \ {t} : pc[u] = "blocked"
      BY <2>2, <2>3 DEF ThreadTypes, Pcs, OneRuns, BeforeRun, OnlyPollingThreadServes
    <2>5. ThreadTypes'
      BY <2>1 DEF ThreadTypes, Pcs
    <2>6. OneRuns' /\ BeforeRun'
      BY <2>1, MainAssumption, NoneAssumption DEF ThreadTypes, OneRuns, BeforeRun
    <2>7. DormantInLine'
      BY <2>1, SameLine DEF ThreadTypes
    <2>8. OnlyPollingThreadServes' /\ VacantOnlyWhenAllBusy'
      BY <2>1, <2>2, <2>4, <1>2
         DEF ThreadTypes, OnlyPollingThreadServes, VacantOnlyWhenAllBusy
    <2> QED BY <2>5, <2>6, <2>7, <2>8
  <1>3. CASE hook[t] /\ dormant # << >>
    <2> DEFINE h == Head(dormant)
    <2>1. /\ h \in Threads /\ In(dormant, h)
          /\ Tail(dormant) \in Seq(Threads) /\ Once(Tail(dormant))
          /\ \A u \in Threads : In(Tail(dormant), u) <=> u # h /\ In(dormant, u)
      BY <1>3, PopFront DEF ThreadTypes, DormantInLine
    <2>2. /\ polling' = h /\ dormant' = Tail(dormant) /\ running' = None
          /\ pc' = [pc EXCEPT ![t] = "blocked", ![h] = "appointed"]
          /\ hook' = [hook EXCEPT ![t] = FALSE]
      BY <1>3 DEF Appoint
    <2> HIDE DEF h
    <2>3. polling = t
      BY <1>3 DEF OnlyPollingThreadServes
    <2>4. pc[h] = "dormant" /\ h # t
      BY <2>1 DEF DormantInLine
    <2>5. ThreadTypes'
      BY <2>1, <2>2 DEF ThreadTypes, Pcs
    <2>6. OneRuns' /\ BeforeRun'
      BY <2>1, <2>2, <2>3, <2>4, MainAssumption, NoneAssumption
         DEF ThreadTypes, OneRuns, BeforeRun
    <2>7. DormantInLine'
      BY <2>1, <2>2, <2>4 DEF ThreadTypes, DormantInLine
    <2>8. OnlyPollingThreadServes' /\ VacantOnlyWhenAllBusy'
      BY <2>1, <2>2, <2>3, <2>4, NoneAssumption
         DEF ThreadTypes, OnlyPollingThreadServes, VacantOnlyWhenAllBusy
    <2> QED BY <2>5, <2>6, <2>7, <2>8
  <1> QED BY <1>1, <1>2, <1>3 DEF ThreadTypes

\* A poll ends.  Its thread takes the position back only if it is vacant, and
\* then nobody else is doing more than wait in a poll.
LEMMA PollReturnsStep ==
  ASSUME TokenInv, NEW t \in Threads, NEW r \in BOOLEAN, PollReturns(t, r)
  PROVE  TokenInv'
  <1> USE DEF TokenInv, PollReturns, Continue
  <1>1. ThreadTypes'
    BY DEF ThreadTypes, Pcs
  <1>2. pc[Main] # "new"
    BY MainAssumption DEF BeforeRun
  <1>3. OneRuns' /\ BeforeRun'
    BY <1>2, MainAssumption, NoneAssumption DEF ThreadTypes, OneRuns, BeforeRun
  <1>4. DormantInLine'
    BY SameLine DEF ThreadTypes
  <1>5. OnlyPollingThreadServes'
    BY <1>2, NoneAssumption DEF ThreadTypes, OnlyPollingThreadServes, VacantOnlyWhenAllBusy
  <1>6. VacantOnlyWhenAllBusy'
    BY <1>2, NoneAssumption DEF ThreadTypes, VacantOnlyWhenAllBusy
  <1> QED BY <1>1, <1>3, <1>4, <1>5, <1>6

LEMMA OtherStep ==
  ASSUME TokenInv,
         \/ \E p \in Pollables : AddPollable(p) \/ RemovePollable(p) \/ WorkComes(p)
         \/ UNCHANGED vars
  PROVE  TokenInv'
  <1> USE DEF TokenInv
  <1>1. /\ UNCHANGED <<running, polling, dormant, hook>>
        /\ pc' = pc \/ pc' = WakeIdle
    BY DEF AddPollable, RemovePollable, WorkComes, vars, threadVars
  <1> USE DEF WakeIdle
  <1>2. ThreadTypes' /\ OneRuns' /\ BeforeRun'
    BY <1>1, MainAssumption DEF ThreadTypes, Pcs, OneRuns, BeforeRun
  <1>3. DormantInLine'
    BY <1>1, SameLine DEF ThreadTypes
  <1>4. OnlyPollingThreadServes' /\ VacantOnlyWhenAllBusy'
    BY <1>1, MainAssumption
       DEF ThreadTypes, OnlyPollingThreadServes, VacantOnlyWhenAllBusy
  <1> QED BY <1>2, <1>3, <1>4

-----------------------------------------------------------------------------
(* The list of pollables as a list without repetitions                     *)

LEMMA PositionOf ==
  ASSUME NEW s, NEW e \in ToSet(s)
  PROVE  Position(s, e) \in DOMAIN s /\ s[Position(s, e)] = e
  BY DEF ToSet, Position

\* A segment of it.
LEMMA Segment ==
  ASSUME NEW S, NEW s \in Seq(S), Once(s),
         NEW m \in Int, NEW n \in Int, 1 <= m, n <= Len(s)
  PROVE  /\ SubSeq(s, m, n) \in Seq(S) /\ Once(SubSeq(s, m, n))
         /\ ToSet(SubSeq(s, m, n)) = {s[i] : i \in m..n}
<1> DEFINE r == SubSeq(s, m, n)
<1>1. \A i \in m..n : i \in 1..Len(s) /\ s[i] \in S
  OBVIOUS
<1>2. /\ r \in Seq(S) /\ Len(r) = IF m <= n THEN n - m + 1 ELSE 0
      /\ \A i \in 1..(n - m + 1) : r[i] = s[m + i - 1]
  BY <1>1, SubSeqProperties
<1> HIDE DEF r
<1>3. DOMAIN r = 1..Len(r)
  BY <1>2
<1>4. \A i \in 1..Len(r) : m + i - 1 \in m..n /\ r[i] = s[m + i - 1]
  BY <1>2
<1>5. Once(r)
  BY <1>1, <1>4 DEF Once
<1>6. ASSUME NEW i \in m..n
      PROVE  i - m + 1 \in 1..Len(r) /\ r[i - m + 1] = s[i]
  <2>1. i - m + 1 \in 1..(n - m + 1) /\ m + (i - m + 1) - 1 = i
    OBVIOUS
  <2>2. QED BY <1>2, <2>1
<1>7. ToSet(r) = {s[i] : i \in m..n}
  <2>1. ASSUME NEW x \in ToSet(r) PROVE \E i \in m..n : x = s[i]
    <3>1. PICK k \in 1..Len(r) : r[k] = x
      BY <1>3 DEF ToSet
    <3>2. QED BY <1>4, <3>1
  <2>2. ASSUME NEW i \in m..n PROVE s[i] \in ToSet(r)
    BY <1>3, <1>6 DEF ToSet
  <2>3. QED BY <2>1, <2>2
<1>8. QED BY <1>2, <1>5, <1>7 DEF r

\* Two lists put together.
LEMMA Joined ==
  ASSUME NEW S, NEW a \in Seq(S), NEW b \in Seq(S), Once(a), Once(b),
         ToSet(a) \cap ToSet(b) = {}
  PROVE  /\ a \o b \in Seq(S) /\ Once(a \o b)
         /\ ToSet(a \o b) = ToSet(a) \cup ToSet(b)
<1> DEFINE r == a \o b
<1>1. /\ r \in Seq(S) /\ Len(r) = Len(a) + Len(b) /\ Len(a) \in Nat /\ Len(b) \in Nat
      /\ \A i \in 1..(Len(a) + Len(b)) :
           r[i] = IF i <= Len(a) THEN a[i] ELSE b[i - Len(a)]
  BY ConcatProperties
<1>2. DOMAIN r = 1..Len(r) /\ DOMAIN a = 1..Len(a) /\ DOMAIN b = 1..Len(b)
  OBVIOUS
<1> HIDE DEF r
<1>3. \A i \in 1..Len(a) : i \in DOMAIN r /\ r[i] = a[i]
  BY <1>1, <1>2
<1>4. ASSUME NEW i \in 1..Len(b)
      PROVE  i + Len(a) \in DOMAIN r /\ r[i + Len(a)] = b[i]
  <2>1. /\ i + Len(a) \in 1..(Len(a) + Len(b)) /\ ~(i + Len(a) <= Len(a))
        /\ (i + Len(a)) - Len(a) = i
    BY <1>1
  <2>2. QED BY <1>1, <1>2, <2>1
<1>5. \A i \in DOMAIN r : \/ i \in 1..Len(a) /\ r[i] = a[i]
                          \/ i - Len(a) \in 1..Len(b) /\ r[i] = b[i - Len(a)]
  BY <1>1, <1>2
<1>6. ToSet(r) = ToSet(a) \cup ToSet(b)
  BY <1>2, <1>3, <1>4, <1>5 DEF ToSet
<1>7. \A i \in 1..Len(a), j \in 1..Len(b) : a[i] # b[j]
  BY <1>2 DEF ToSet
<1>8. Once(r)
  <2> SUFFICES ASSUME NEW i \in 1..Len(r), NEW j \in 1..Len(r), r[i] = r[j]
               PROVE  i = j
    BY DEF Once
  <2>1. CASE i \in 1..Len(a) /\ j \in 1..Len(a)
    BY <2>1, <1>3 DEF Once
  <2>2. CASE i - Len(a) \in 1..Len(b) /\ j - Len(a) \in 1..Len(b)
    <3>1. b[i - Len(a)] = b[j - Len(a)]
      BY <2>2, <1>1
    <3>2. i - Len(a) = j - Len(a)
      BY <2>2, <3>1 DEF Once
    <3>3. QED BY <3>2, <1>1
  <2>3. QED BY <2>1, <2>2, <1>1, <1>2, <1>5, <1>7
<1>9. QED BY <1>1, <1>6, <1>8 DEF r

LEMMA Rotated ==
  ASSUME NEW S, NEW s \in Seq(S), Once(s), NEW e \in ToSet(s)
  PROVE  Rotate(s, e) \in Seq(S) /\ Once(Rotate(s, e)) /\ ToSet(Rotate(s, e)) = ToSet(s)
<1> DEFINE n == Position(s, e)
           a == SubSeq(s, n + 1, Len(s))
           b == SubSeq(s, 1, n)
<1>1. n \in 1..Len(s) /\ DOMAIN s = 1..Len(s) /\ Len(s) \in Nat
  BY PositionOf
<1> HIDE DEF n
<1>2. /\ a \in Seq(S) /\ Once(a) /\ ToSet(a) = {s[i] : i \in (n + 1)..Len(s)}
      /\ b \in Seq(S) /\ Once(b) /\ ToSet(b) = {s[i] : i \in 1..n}
  BY <1>1, Segment
<1>3. ToSet(a) \cap ToSet(b) = {} /\ ToSet(a) \cup ToSet(b) = ToSet(s)
  <2>1. \A i \in (n + 1)..Len(s), j \in 1..n : s[i] # s[j]
    BY <1>1 DEF Once
  <2>2. \A i \in 1..Len(s) : i \in (n + 1)..Len(s) \/ i \in 1..n
    BY <1>1
  <2>3. \A i : i \in (n + 1)..Len(s) \/ i \in 1..n => i \in 1..Len(s)
    BY <1>1
  <2>4. QED BY <1>1, <1>2, <2>1, <2>2, <2>3 DEF ToSet
<1>4. QED BY <1>2, <1>3, Joined DEF Rotate, n

LEMMA Erased ==
  ASSUME NEW S, NEW s \in Seq(S), Once(s), NEW e \in ToSet(s)
  PROVE  Erase(s, e) \in Seq(S) /\ Once(Erase(s, e)) /\ ToSet(Erase(s, e)) = ToSet(s) \ {e}
<1> DEFINE n == Position(s, e)
           a == SubSeq(s, 1, n - 1)
           b == SubSeq(s, n + 1, Len(s))
<1>1. n \in 1..Len(s) /\ DOMAIN s = 1..Len(s) /\ Len(s) \in Nat /\ s[n] = e
  BY PositionOf
<1> HIDE DEF n
<1>2. /\ a \in Seq(S) /\ Once(a) /\ ToSet(a) = {s[i] : i \in 1..(n - 1)}
      /\ b \in Seq(S) /\ Once(b) /\ ToSet(b) = {s[i] : i \in (n + 1)..Len(s)}
  BY <1>1, Segment
<1>3. ToSet(a) \cap ToSet(b) = {} /\ ToSet(a) \cup ToSet(b) = ToSet(s) \ {e}
  <2>1. \A i \in (n + 1)..Len(s), j \in 1..(n - 1) : s[i] # s[j]
    BY <1>1 DEF Once
  <2>2. \A i \in 1..Len(s) : s[i] # e <=> i \in (n + 1)..Len(s) \/ i \in 1..(n - 1)
    BY <1>1 DEF Once
  <2>3. \A i : i \in (n + 1)..Len(s) \/ i \in 1..(n - 1) => i \in 1..Len(s)
    BY <1>1
  <2>4. QED BY <1>1, <1>2, <2>1, <2>2, <2>3 DEF ToSet
<1>4. QED BY <1>2, <1>3, Joined DEF Erase, RemoveAt, n

LEMMA Appended ==
  ASSUME NEW S, NEW s \in Seq(S), Once(s), NEW e \in S \ ToSet(s)
  PROVE  /\ Append(s, e) \in Seq(S) /\ Once(Append(s, e))
         /\ ToSet(Append(s, e)) = ToSet(s) \cup {e}
<1> DEFINE r == Append(s, e)
<1>1. /\ r \in Seq(S) /\ Len(r) = Len(s) + 1 /\ Len(s) \in Nat /\ r[Len(s) + 1] = e
      /\ \A i \in 1..Len(s) : r[i] = s[i]
      /\ DOMAIN r = 1..(Len(s) + 1) /\ DOMAIN s = 1..Len(s)
  OBVIOUS
<1> HIDE DEF r
<1>2. \A i \in 1..Len(s) : s[i] # e
  BY <1>1 DEF ToSet
<1>3. Once(r)
  BY <1>1, <1>2 DEF Once
<1>4. ToSet(r) = ToSet(s) \cup {e}
  BY <1>1 DEF ToSet
<1>5. QED BY <1>1, <1>3, <1>4 DEF r

\* ++i finds another element, or the end.
LEMMA AfterIt ==
  ASSUME NEW S, NEW s \in Seq(S), Once(s), NEW e \in ToSet(s)
  PROVE  After(s, e) \in (ToSet(s) \ {e}) \cup {None}
<1> DEFINE n == Position(s, e)
<1>1. n \in 1..Len(s) /\ DOMAIN s = 1..Len(s) /\ Len(s) \in Nat /\ s[n] = e
  BY PositionOf
<1> HIDE DEF n
<1>2. ASSUME n # Len(s) PROVE n + 1 \in 1..Len(s) /\ s[n + 1] # e
  <2> DEFINE l == Len(s)
  <2>a. l \in Nat /\ n \in 1..l /\ n # l
    BY <1>1, <1>2
  <2> HIDE DEF l
  <2>b. n + 1 \in 1..l /\ n + 1 # n
    BY <2>a
  <2>1. n + 1 \in 1..Len(s) /\ n + 1 # n
    BY <2>b DEF l
  <2>2. \A i, j \in 1..Len(s) : i # j => s[i] # s[j]
    BY DEF Once
  <2> DEFINE k == n + 1
  <2>3. k \in 1..Len(s) /\ k # n
    BY <2>1
  <2> HIDE DEF k
  <2>4. s[k] # s[n]
    BY <1>1, <2>2, <2>3
  <2>5. QED BY <1>1, <2>1, <2>4 DEF k
<1>3. QED BY <1>1, <1>2 DEF After, ToSet, n

-----------------------------------------------------------------------------
(* References and iterators                                                *)

ListTypes ==
  /\ it \in [Threads -> Entries \cup {None}] /\ progress \in [Threads -> BOOLEAN]
  /\ list \in Seq(Entries) /\ pollable \in [Entries -> Pollables \cup {None}]
  /\ refs \in [Entries -> Nat] /\ work \subseteq Pollables

\* The threads in a poll that will come back to e.
InPoll(t) == pc[t] \in {"poll", "blocked"}
PollsOf(e) == {t \in Threads : InPoll(t) /\ it[t] = e}

\* ref_cnt counts the polls that will come back to an element, and until they
\* have it stays in the list; one that nobody comes back to is not a removed one.
RefsInv ==
  /\ ListTypes
  /\ Once(list)
  /\ \A e \in Entries : refs[e] = Cardinality(PollsOf(e))
  /\ \A t \in Threads : /\ InPoll(t) => it[t] \in ToSet(list)
                        /\ pc[t] = "service" => it[t] \in ToSet(list) \cup {None}
  /\ \A e \in ToSet(list) : refs[e] = 0 => pollable[e] # None

\* PollsOf as numbers.
LEMMA PollsCount ==
  ASSUME NEW e
  PROVE  /\ IsFiniteSet(PollsOf(e)) /\ Cardinality(PollsOf(e)) \in Nat
         /\ Cardinality(PollsOf(e)) = 0 <=> PollsOf(e) = {}
<1>1. IsFiniteSet(PollsOf(e))
  BY MainAssumption, FS_Subset DEF PollsOf
<1>2. QED BY <1>1, FS_CardinalityType, FS_EmptySet

LEMMA ListedEntries ==
  ASSUME NEW s \in Seq(Entries)
  PROVE  ToSet(s) \subseteq Entries
  BY DEF ToSet

\* Nobody enters a poll or leaves one, and the list keeps its elements.
LEMMA SamePolls ==
  ASSUME RefsInv, ListTypes', UNCHANGED <<pollable, refs>>,
         Once(list'), ToSet(list') = ToSet(list),
         \A t \in Threads :
           /\ InPoll(t)' <=> InPoll(t)
           /\ InPoll(t) => it'[t] = it[t]
           /\ pc'[t] = "service" => it'[t] \in ToSet(list) \cup {None}
  PROVE  RefsInv'
<1>1. \A e \in Entries : PollsOf(e)' = PollsOf(e)
  BY DEF PollsOf, InPoll
<1>2. \A e \in Entries : refs'[e] = Cardinality(PollsOf(e)')
  BY <1>1 DEF RefsInv
<1>3. \A t \in Threads : InPoll(t)' => it'[t] \in ToSet(list')
  BY DEF RefsInv
<1>4. QED BY <1>2, <1>3 DEF RefsInv

LEMMA RefsInit == Init => RefsInv
<1> SUFFICES ASSUME Init PROVE RefsInv
  OBVIOUS
<1>1. /\ it = [t \in Threads |-> None] /\ list = << >> /\ refs = [e \in Entries |-> 0]
      /\ \A t \in Threads : pc[t] \in {"new", "dormant"}
  BY DEF Init
<1>2. ListTypes
  BY DEF Init, ListTypes
<1>3. \A e \in Entries : PollsOf(e) = {}
  BY <1>1 DEF PollsOf, InPoll
<1>4. ToSet(list) = {} /\ Once(list)
  BY <1>1 DEF ToSet, Once
<1>5. QED BY <1>1, <1>2, <1>3, <1>4, PollsCount DEF RefsInv, InPoll

\* Steps that leave the polls and the elements alone.
LEMMA RefsQuiet ==
  ASSUME TokenInv, RefsInv, NEW t \in Threads,
         \/ Run \/ GoDormant(t) \/ StartPass(t) \/ EndPass(t) \/ Idle(t) \/ Resume(t)
         \/ PollBlocks(t) \/ (\E p \in Pollables : WorkComes(p)) \/ UNCHANGED vars
  PROVE  RefsInv'
<1> USE DEF listVars
<1>0. /\ pc \in [Threads -> Pcs] /\ it \in [Threads -> Entries \cup {None}]
      /\ list \in Seq(Entries)
  BY DEF TokenInv, ThreadTypes, RefsInv, ListTypes
<1>1. CASE Run
  <2>1. ListTypes'
    BY <1>1 DEF Run, RefsInv, ListTypes
  <2>2. \A u \in Threads :
          /\ InPoll(u)' <=> InPoll(u)
          /\ pc'[u] = "service" => pc[u] = "service"
    BY <1>0, <1>1, MainAssumption DEF Run, InPoll
  <2>3. UNCHANGED <<it, list, pollable, refs>>
    BY <1>1 DEF Run
  <2>4. QED BY <2>1, <2>2, <2>3, SamePolls DEF RefsInv
<1>2. CASE GoDormant(t) \/ EndPass(t) \/ Idle(t)
  <2>1. ListTypes'
    BY <1>2 DEF GoDormant, EndPass, Idle, RefsInv, ListTypes
  <2>2. \A u \in Threads :
          /\ InPoll(u)' <=> InPoll(u)
          /\ pc'[u] = "service" => pc[u] = "service"
    BY <1>0, <1>2 DEF GoDormant, EndPass, Idle, InPoll
  <2>3. UNCHANGED <<it, list, pollable, refs>>
    BY <1>2 DEF GoDormant, EndPass, Idle
  <2>4. QED BY <2>1, <2>2, <2>3, SamePolls DEF RefsInv
<1>3. ASSUME Serve(t), pc[t] \in {"top", "appointed", "yield"}
      PROVE  RefsInv'
  <2>1. Begin \in ToSet(list) \cup {None}
    BY <1>0 DEF Begin, ToSet
  <2>2. Begin \in Entries \cup {None}
    BY <1>0, <2>1, ListedEntries
  <2>3. ListTypes'
    BY <1>3, <2>2 DEF Serve, RefsInv, ListTypes
  <2>4. \A u \in Threads :
          /\ InPoll(u)' <=> InPoll(u)
          /\ InPoll(u) => it'[u] = it[u]
          /\ pc'[u] = "service" => it'[u] \in ToSet(list) \cup {None}
    BY <1>0, <1>3, <2>1 DEF Serve, InPoll, RefsInv
  <2>5. UNCHANGED <<list, pollable, refs>>
    BY <1>3 DEF Serve
  <2>6. QED BY <2>3, <2>4, <2>5, SamePolls DEF RefsInv
<1>4. CASE Resume(t) /\ pc[t] \in {"blocked", "woken"}
  <2>1. ListTypes' /\ UNCHANGED <<it, list, pollable, refs>>
    BY <1>4 DEF Resume, RefsInv, ListTypes
  <2>2. \A u \in Threads :
          /\ InPoll(u)' <=> InPoll(u)
          /\ pc'[u] = "service" => pc[u] = "service"
    BY <1>0, <1>4 DEF Resume, InPoll
  <2>3. QED BY <2>1, <2>2, SamePolls DEF RefsInv
<1>5. CASE PollBlocks(t)
  <2>1. UNCHANGED <<it, progress, pollable, refs, work>> /\ pc[t] = "poll"
    BY <1>5 DEF PollBlocks
  <2>2. \A u \in Threads :
          /\ InPoll(u)' <=> InPoll(u)
          /\ pc'[u] = "service" => pc[u] = "service"
    <3>1. CASE dormant = << >> \/ ~hook[t]
      <4>1. pc' = [pc EXCEPT ![t] = "blocked"]
        BY <1>5, <3>1 DEF PollBlocks, Appoint, TokenInv, ThreadTypes
      <4>2. QED BY <1>0, <2>1, <4>1 DEF InPoll
    <3>2. CASE dormant # << >> /\ hook[t]
      <4>1. Head(dormant) \in Threads /\ pc[Head(dormant)] = "dormant"
        BY <3>2, PopFront DEF TokenInv, ThreadTypes, DormantInLine
      <4>2. pc' = [pc EXCEPT ![t] = "blocked", ![Head(dormant)] = "appointed"]
        BY <1>5, <3>2 DEF PollBlocks, Appoint
      <4>3. QED BY <1>0, <2>1, <4>1, <4>2 DEF InPoll
    <3>3. QED BY <3>1, <3>2
  <2>3. list' = list \/ list' = Rotate(list, it[t])
    BY <1>5 DEF PollBlocks, Appoint
  <2>4. it[t] \in ToSet(list)
    BY <2>1 DEF RefsInv, InPoll
  <2>5. list' \in Seq(Entries) /\ Once(list') /\ ToSet(list') = ToSet(list)
    BY <1>0, <2>3, <2>4, Rotated DEF RefsInv
  <2>6. ListTypes'
    BY <2>1, <2>5 DEF RefsInv, ListTypes
  <2>7. QED BY <2>1, <2>2, <2>5, <2>6, SamePolls DEF RefsInv
<1>6. ASSUME NEW p \in Pollables, WorkComes(p) PROVE RefsInv'
  <2>1. UNCHANGED <<it, progress, list, pollable, refs>> /\ work' \subseteq Pollables
    BY <1>6 DEF WorkComes, RefsInv, ListTypes
  <2>2. \A u \in Threads :
          /\ InPoll(u)' <=> InPoll(u)
          /\ pc'[u] = "service" => pc[u] = "service"
    BY <1>0, <1>6 DEF WorkComes, WakeIdle, InPoll
  <2>3. ListTypes'
    BY <2>1 DEF RefsInv, ListTypes
  <2>4. QED BY <2>1, <2>2, <2>3, SamePolls DEF RefsInv
<1>7. CASE UNCHANGED vars
  <2>1. UNCHANGED <<pc, it, progress, list, pollable, refs, work>>
    BY <1>7 DEF vars, threadVars
  <2>2. ListTypes'
    BY <2>1 DEF RefsInv, ListTypes
  <2>3. \A u \in Threads : InPoll(u)' <=> InPoll(u)
    BY <2>1 DEF InPoll
  <2>4. QED BY <2>1, <2>2, <2>3, SamePolls DEF RefsInv
<1>8. Resume(t) => \/ Serve(t) /\ pc[t] \in {"appointed", "yield"}
                   \/ pc[t] \in {"blocked", "woken"}
  BY DEF Resume
<1>9. StartPass(t) => Serve(t) /\ pc[t] = "top"
  BY DEF StartPass
<1>10. QED BY <1>1, <1>2, <1>3, <1>4, <1>5, <1>6, <1>7, <1>8, <1>9

\* A removed element is passed over.
LEMMA SkipStep ==
  ASSUME TokenInv, RefsInv, NEW t \in Threads, SkipRemoved(t)
  PROVE  RefsInv'
<1> DEFINE e == it[t]
<1>0. /\ pc \in [Threads -> Pcs] /\ it \in [Threads -> Entries \cup {None}]
      /\ list \in Seq(Entries) /\ refs \in [Entries -> Nat]
      /\ Once(list)
  BY DEF TokenInv, ThreadTypes, RefsInv, ListTypes
<1>1. e \in ToSet(list) /\ e \in Entries
  BY <1>0, ListedEntries DEF SkipRemoved, RefsInv
<1>2. refs[e] # 0
  BY <1>1 DEF SkipRemoved, RefsInv
<1>3. UNCHANGED <<list, pollable, refs, pc, progress, work>>
  BY <1>0, <1>1, <1>2 DEF SkipRemoved, Pass
<1>4. it' = [it EXCEPT ![t] = After(list, e)]
  BY DEF SkipRemoved, Pass
<1> HIDE DEF e
<1>5. After(list, e) \in ToSet(list) \cup {None}
  BY <1>0, <1>1, AfterIt
<1>6. ListTypes'
  <2>1. After(list, e) \in Entries \cup {None}
    BY <1>0, <1>5, ListedEntries
  <2>2. QED BY <1>3, <1>4, <2>1 DEF RefsInv, ListTypes
<1>7. \A u \in Threads :
        /\ InPoll(u)' <=> InPoll(u)
        /\ InPoll(u) => it'[u] = it[u]
        /\ pc'[u] = "service" => it'[u] \in ToSet(list) \cup {None}
  <2>1. ~InPoll(t)
    BY DEF SkipRemoved, InPoll
  <2>2. QED BY <1>0, <1>3, <1>4, <1>5, <2>1 DEF InPoll, RefsInv
<1>8. QED BY <1>0, <1>3, <1>6, <1>7, SamePolls

\* A poll begins: its element is referred to once more.
LEMMA EnterStep ==
  ASSUME TokenInv, RefsInv, NEW t \in Threads, EnterPoll(t)
  PROVE  RefsInv'
<1>0. /\ pc \in [Threads -> Pcs] /\ it \in [Threads -> Entries \cup {None}]
      /\ list \in Seq(Entries) /\ refs \in [Entries -> Nat]
  BY DEF TokenInv, ThreadTypes, RefsInv, ListTypes
<1>1. PICK e \in Entries : e = it[t] /\ e \in ToSet(list)
  BY <1>0, ListedEntries DEF EnterPoll, RefsInv
<1>2. /\ refs' = [refs EXCEPT ![e] = refs[e] + 1] /\ pc' = [pc EXCEPT ![t] = "poll"]
      /\ UNCHANGED <<it, progress, list, pollable>> /\ work' \subseteq work
      /\ pc[t] = "service"
  BY <1>1 DEF EnterPoll
<1>3. PollsOf(e)' = PollsOf(e) \cup {t} /\ t \notin PollsOf(e)
  BY <1>0, <1>1, <1>2 DEF PollsOf, InPoll
<1>4. \A o \in Entries \ {e} : PollsOf(o)' = PollsOf(o)
  BY <1>0, <1>1, <1>2 DEF PollsOf, InPoll
<1>5. ListTypes'
  BY <1>0, <1>1, <1>2 DEF RefsInv, ListTypes
<1>6. ASSUME NEW o \in Entries PROVE refs'[o] = Cardinality(PollsOf(o)')
  <2>1. CASE o = e
    <3>1. Cardinality(PollsOf(e)') = Cardinality(PollsOf(e)) + 1
      BY <1>3, PollsCount, FS_AddElement
    <3>2. refs'[e] = refs[e] + 1 /\ refs[e] = Cardinality(PollsOf(e))
      BY <1>0, <1>1, <1>2 DEF RefsInv
    <3>3. QED BY <2>1, <3>1, <3>2
  <2>2. CASE o # e
    <3>1. refs'[o] = refs[o]
      BY <1>0, <1>2, <2>2
    <3>2. QED BY <1>4, <2>2, <3>1 DEF RefsInv
  <2>3. QED BY <2>1, <2>2
<1>7. \A u \in Threads : /\ InPoll(u)' => it'[u] \in ToSet(list')
                         /\ pc'[u] = "service" => it'[u] \in ToSet(list') \cup {None}
  BY <1>0, <1>1, <1>2 DEF InPoll, RefsInv
<1>8. \A o \in ToSet(list') : refs'[o] = 0 => pollable'[o] # None
  <2>1. refs'[e] # 0
    BY <1>0, <1>1, <1>2
  <2>2. \A o \in ToSet(list) : o # e => refs'[o] = refs[o]
    BY <1>0, <1>2, ListedEntries
  <2>3. QED BY <1>2, <2>1, <2>2 DEF RefsInv
<1>9. QED BY <1>2, <1>5, <1>6, <1>7, <1>8 DEF RefsInv

\* A poll ends.  If the pollable was removed meanwhile and this was the last
\* poll to come back, the element goes, which no other thread is at.
LEMMA ReturnStep ==
  ASSUME TokenInv, RefsInv, NEW t \in Threads, NEW r \in BOOLEAN, PollReturns(t, r)
  PROVE  RefsInv'
<1>0. /\ pc \in [Threads -> Pcs] /\ it \in [Threads -> Entries \cup {None}]
      /\ list \in Seq(Entries) /\ refs \in [Entries -> Nat]
      /\ progress \in [Threads -> BOOLEAN]
      /\ Once(list)
  BY DEF TokenInv, ThreadTypes, RefsInv, ListTypes
<1>1. PICK e \in Entries : e = it[t] /\ e \in ToSet(list) /\ InPoll(t)
  BY <1>0, ListedEntries DEF PollReturns, InPoll, RefsInv
<1>2. /\ refs' = [refs EXCEPT ![e] = refs[e] - 1]
      /\ it' = [it EXCEPT ![t] = After(list, e)]
      /\ list' = IF refs[e] - 1 = 0 /\ pollable[e] = None THEN Erase(list, e) ELSE list
      /\ UNCHANGED <<pollable, work>>
  BY <1>1 DEF PollReturns, Pass
<1>3. /\ pc' \in {[pc EXCEPT ![t] = "service"], [pc EXCEPT ![t] = "yield"],
                  [pc EXCEPT ![t] = "top"]}
      /\ progress' \in [Threads -> BOOLEAN]
  BY <1>0 DEF PollReturns, Continue
<1>4. PollsOf(e)' = PollsOf(e) \ {t} /\ t \in PollsOf(e)
  BY <1>0, <1>1, <1>2, <1>3 DEF PollsOf, InPoll
<1>5. \A o \in Entries \ {e} : PollsOf(o)' = PollsOf(o)
  BY <1>0, <1>1, <1>2, <1>3 DEF PollsOf, InPoll
<1>6. \A u \in Threads \ {t} : /\ InPoll(u)' => InPoll(u) /\ it'[u] = it[u]
                               /\ pc[u] # "service" /\ pc'[u] # "service"
  BY <1>0, <1>2, <1>3 DEF InPoll, PollReturns, TokenInv, OneRuns
<1>7. ~InPoll(t)'
  BY <1>0, <1>3 DEF InPoll
<1>8. refs[e] = Cardinality(PollsOf(e)) /\ refs[e] \in Nat /\ refs[e] # 0
  BY <1>0, <1>1, <1>4, PollsCount DEF RefsInv
<1>9. After(list, e) \in (ToSet(list) \ {e}) \cup {None}
  BY <1>0, <1>1, AfterIt
<1>10. /\ list' \in Seq(Entries) /\ Once(list')
       /\ \/ ToSet(list') = ToSet(list) \ {e} /\ refs[e] = 1
          \/ ToSet(list') = ToSet(list) /\ ~(refs[e] = 1 /\ pollable[e] = None)
  <2>1. Erase(list, e) \in Seq(Entries) /\ Once(Erase(list, e))
        /\ ToSet(Erase(list, e)) = ToSet(list) \ {e}
    BY <1>0, <1>1, Erased
  <2>2. refs[e] - 1 = 0 <=> refs[e] = 1
    BY <1>8
  <2>3. QED BY <1>0, <1>2, <2>1, <2>2
<1>11. ListTypes'
  <2>1. After(list, e) \in Entries \cup {None}
    BY <1>0, <1>9, ListedEntries
  <2>2. refs[e] - 1 \in Nat
    BY <1>8
  <2>3. it' \in [Threads -> Entries \cup {None}] /\ refs' \in [Entries -> Nat]
    BY <1>0, <1>2, <2>1, <2>2
  <2>4. QED BY <1>2, <1>3, <1>10, <2>3 DEF RefsInv, ListTypes
<1>12. ASSUME NEW o \in Entries PROVE refs'[o] = Cardinality(PollsOf(o)')
  <2>1. CASE o = e
    <3>1. Cardinality(PollsOf(e)') = Cardinality(PollsOf(e)) - 1
      BY <1>4, PollsCount, FS_RemoveElement
    <3>2. refs'[e] = refs[e] - 1
      BY <1>0, <1>1, <1>2
    <3>3. QED BY <1>8, <2>1, <3>1, <3>2
  <2>2. CASE o # e
    <3>1. refs'[o] = refs[o]
      BY <1>0, <1>2, <2>2
    <3>2. QED BY <1>5, <2>2, <3>1 DEF RefsInv
  <2>3. QED BY <2>1, <2>2
<1>13. ASSUME NEW u \in Threads, InPoll(u)' PROVE it'[u] \in ToSet(list')
  <2>1. u # t /\ InPoll(u) /\ it'[u] = it[u] /\ it[u] \in ToSet(list)
    BY <1>6, <1>7, <1>13 DEF RefsInv
  <2>2. CASE it[u] = e
    <3>1. u \in PollsOf(e)'
      BY <1>13, <2>1, <2>2, <1>4 DEF PollsOf
    <3>2. PollsOf(e)' # {} /\ PollsOf(e)' = PollsOf(e) \ {t}
      BY <3>1, <1>4
    <3>3. Cardinality(PollsOf(e) \ {t}) # 0
      BY <3>2, PollsCount, FS_RemoveElement, FS_EmptySet
    <3>4. Cardinality(PollsOf(e) \ {t}) = Cardinality(PollsOf(e)) - 1
      BY <1>4, PollsCount, FS_RemoveElement
    <3>5. refs[e] # 1
      BY <1>8, <3>3, <3>4
    <3>6. QED BY <1>10, <2>1, <3>5
  <2>3. QED BY <1>10, <2>1, <2>2
<1>14. ASSUME NEW u \in Threads, pc'[u] = "service"
       PROVE  it'[u] \in ToSet(list') \cup {None}
  <2>1. u = t
    BY <1>6, <1>14
  <2>2. it'[u] = After(list, e)
    BY <1>0, <1>2, <2>1
  <2>3. QED BY <1>9, <1>10, <2>2
<1>15. ASSUME NEW o \in ToSet(list'), refs'[o] = 0 PROVE pollable'[o] # None
  <2>1. o \in ToSet(list) /\ o \in Entries
    BY <1>0, <1>10, ListedEntries
  <2>2. CASE o # e
    <3>1. refs'[o] = refs[o]
      BY <1>0, <1>2, <2>1, <2>2
    <3>2. QED BY <1>2, <1>15, <2>1, <3>1 DEF RefsInv
  <2>3. CASE o = e
    <3>1. refs[e] = 1
      BY <1>0, <1>1, <1>2, <1>8, <1>15, <2>3
    <3>2. QED BY <1>2, <1>10, <2>3, <3>1
  <2>4. QED BY <2>2, <2>3
<1>16. QED BY <1>10, <1>11, <1>12, <1>13, <1>14, <1>15 DEF RefsInv

\* A pollable is added, with an element that is not in the list, so no poll is
\* to come back to it.
LEMMA AddStep ==
  ASSUME TokenInv, RefsInv, NEW p \in Pollables, AddPollable(p)
  PROVE  RefsInv'
<1>0. /\ pc \in [Threads -> Pcs] /\ it \in [Threads -> Entries \cup {None}]
      /\ list \in Seq(Entries) /\ refs \in [Entries -> Nat]
      /\ pollable \in [Entries -> Pollables \cup {None}]
      /\ Once(list)
  BY DEF TokenInv, ThreadTypes, RefsInv, ListTypes
<1>1. PICK e \in Entries \ ToSet(list) :
        /\ list' = Append(list, e)
        /\ pollable' = [pollable EXCEPT ![e] = p]
        /\ refs' = [refs EXCEPT ![e] = 0]
  BY DEF AddPollable
<1>2. /\ list' \in Seq(Entries) /\ Once(list') /\ ToSet(list') = ToSet(list) \cup {e}
      /\ UNCHANGED <<it, progress, work>>
  BY <1>0, <1>1, Appended DEF AddPollable
<1>3. \A u \in Threads : /\ InPoll(u)' <=> InPoll(u)
                         /\ pc'[u] = "service" => pc[u] = "service"
  BY <1>0 DEF AddPollable, WakeIdle, InPoll
<1>4. ListTypes'
  BY <1>0, <1>1, <1>2 DEF RefsInv, ListTypes
<1>5. ASSUME NEW o \in Entries PROVE refs'[o] = Cardinality(PollsOf(o)')
  <2>1. PollsOf(o)' = PollsOf(o)
    BY <1>2, <1>3 DEF PollsOf
  <2>2. CASE o = e
    <3>1. PollsOf(o) = {}
      BY <1>1, <2>2 DEF PollsOf, RefsInv
    <3>2. QED BY <1>0, <1>1, <2>1, <2>2, <3>1, FS_EmptySet
  <2>3. CASE o # e
    BY <1>0, <1>1, <2>1, <2>3 DEF RefsInv
  <2>4. QED BY <2>2, <2>3
<1>6. \A u \in Threads : /\ InPoll(u)' => it'[u] \in ToSet(list')
                         /\ pc'[u] = "service" => it'[u] \in ToSet(list') \cup {None}
  BY <1>2, <1>3 DEF RefsInv
<1>7. ASSUME NEW o \in ToSet(list'), refs'[o] = 0 PROVE pollable'[o] # None
  <2>1. CASE o = e
    BY <1>0, <1>1, <2>1, NoneAssumption
  <2>2. CASE o # e
    <3>1. o \in ToSet(list) /\ refs'[o] = refs[o] /\ pollable'[o] = pollable[o]
      BY <1>0, <1>1, <1>2, <2>2, ListedEntries
    <3>2. QED BY <1>7, <3>1 DEF RefsInv
  <2>3. QED BY <2>1, <2>2
<1>8. QED BY <1>2, <1>4, <1>5, <1>6, <1>7 DEF RefsInv

\* A pollable is removed.  Its element goes unless some poll is to come back to
\* it; no thread is between two polls then.
LEMMA RemoveStep ==
  ASSUME TokenInv, RefsInv, NEW p \in Pollables, RemovePollable(p)
  PROVE  RefsInv'
<1>0. /\ it \in [Threads -> Entries \cup {None}]
      /\ list \in Seq(Entries) /\ refs \in [Entries -> Nat]
      /\ pollable \in [Entries -> Pollables \cup {None}]
      /\ Once(list)
  BY DEF RefsInv, ListTypes
<1>1. PICK e \in ToSet(list) :
        /\ pollable' = [pollable EXCEPT ![e] = None]
        /\ list' = IF refs[e] = 0 THEN Erase(list, e) ELSE list
  BY DEF RemovePollable
<1>2. e \in Entries
  BY <1>0, ListedEntries
<1>3. UNCHANGED <<running, pc, it, progress, refs>> /\ work' \subseteq Pollables
  BY DEF RemovePollable, threadVars, RefsInv, ListTypes
<1>4. /\ list' \in Seq(Entries) /\ Once(list')
      /\ \/ ToSet(list') = ToSet(list) \ {e} /\ refs[e] = 0
         \/ ToSet(list') = ToSet(list) /\ refs[e] # 0
  BY <1>0, <1>1, Erased
<1>5. ListTypes'
  BY <1>0, <1>1, <1>2, <1>3, <1>4 DEF RefsInv, ListTypes
<1>6. \A o \in Entries : refs'[o] = Cardinality(PollsOf(o)')
  <2>1. \A o : PollsOf(o)' = PollsOf(o)
    BY <1>3 DEF PollsOf, InPoll
  <2>2. QED BY <1>3, <2>1 DEF RefsInv
<1>7. \A u \in Threads : pc[u] # "service"
  <2>1. ASSUME NEW u \in Threads, pc[u] = "service" PROVE FALSE
    <3>1. running = u /\ u # None
      BY <2>1, NoneAssumption DEF TokenInv, OneRuns
    <3>2. pc[u] = "poll"
      BY <3>1 DEF RemovePollable, OutsideLoop
    <3>3. QED BY <2>1, <3>2
  <2>2. QED BY <2>1
<1>8. ASSUME NEW u \in Threads, InPoll(u) PROVE it[u] \in ToSet(list')
  <2>1. it[u] \in ToSet(list)
    BY <1>8 DEF RefsInv
  <2>2. it[u] = e => refs[e] # 0
    <3>1. ASSUME it[u] = e PROVE refs[e] # 0
      <4>1. u \in PollsOf(e)
        BY <1>8, <3>1 DEF PollsOf
      <4>2. Cardinality(PollsOf(e)) # 0
        BY <4>1, PollsCount
      <4>3. QED BY <1>2, <4>2 DEF RefsInv
    <3>2. QED BY <3>1
  <2>3. QED BY <1>4, <2>1, <2>2
<1>9. ASSUME NEW o \in ToSet(list'), refs'[o] = 0 PROVE pollable'[o] # None
  <2>1. o \in ToSet(list) /\ o # e
    BY <1>3, <1>4, <1>9
  <2>2. pollable'[o] = pollable[o] /\ refs[o] = 0
    BY <1>0, <1>1, <1>3, <1>9, <2>1, ListedEntries
  <2>3. QED BY <2>1, <2>2 DEF RefsInv
<1>10. \A u \in Threads : /\ InPoll(u)' => it'[u] \in ToSet(list')
                          /\ pc'[u] = "service" => it'[u] \in ToSet(list') \cup {None}
  BY <1>3, <1>7, <1>8 DEF InPoll
<1>11. QED BY <1>4, <1>5, <1>6, <1>9, <1>10 DEF RefsInv

-----------------------------------------------------------------------------
(* The theorems                                                            *)

\* The token invariant holds in every run of the main loop.
THEOREM InvariantPL == Spec => []TokenInv
  <1>1. TokenInv /\ [Next]_vars => TokenInv'
    BY RunStep, GoDormantStep, LoopStep, ResumeStep, PollBlocksStep,
       PollReturnsStep, OtherStep DEF Next, Loop
  <1> QED BY TokenInit, <1>1, PTL DEF Spec

\* appoint_polling_thread and the reclaiming in service_pollables never make a
\* second polling thread: whoever starts or continues a pass, waits for work or
\* may still appoint a successor is polling_thread.
THEOREM OnePollingThread == Spec => []OnlyPollingThreadServes
  <1>1. TokenInv => OnlyPollingThreadServes
    BY DEF TokenInv
  <1> QED BY InvariantPL, <1>1, PTL

\* polling_thread is NULL only while every thread of the pool is in a poll.
THEOREM PositionNotLost == Spec => []VacantOnlyWhenAllBusy
  <1>1. TokenInv => VacantOnlyWhenAllBusy
    BY DEF TokenInv
  <1> QED BY InvariantPL, <1>1, PTL

\* The references in the list of pollables are those of the polls under way.
THEOREM ReferencesCount == Spec => [](TokenInv /\ RefsInv)
  <1>1. TokenInv /\ RefsInv /\ [Next]_vars => RefsInv'
    <2>1. SUFFICES ASSUME TokenInv, RefsInv, [Next]_vars PROVE RefsInv'
      OBVIOUS
    <2>2. CASE Next
      BY <2>1, <2>2, MainAssumption, RefsQuiet, SkipStep, EnterStep, ReturnStep, AddStep,
         RemoveStep DEF Next, Loop
    <2>3. CASE UNCHANGED vars
      BY <2>1, <2>3, MainAssumption, RefsQuiet
    <2> QED BY <2>1, <2>2, <2>3
  <1> QED BY InvariantPL, RefsInit, <1>1, PTL DEF Spec

\* No iterator of service_pollables is left dangling, and no removed pollable
\* is kept, whatever is added, removed and rotated while polls are blocked.
THEOREM IteratorsStayValid == Spec => []IteratorsValid
  <1>1. TokenInv /\ RefsInv => IteratorsValid
    <2>1. SUFFICES ASSUME TokenInv, RefsInv PROVE IteratorsValid
      OBVIOUS
    <2>2. TypeOK
      BY <2>1 DEF TokenInv, RefsInv, ThreadTypes, ListTypes, TypeOK
    <2> QED BY <2>1, <2>2 DEF RefsInv, InPoll, IteratorsValid
  <1> QED BY ReferencesCount, <1>1, PTL
=============================================================================
