---------------------------- MODULE CoSyncProofs ----------------------------
(***************************************************************************)
(* Proofs about CoSync, for any threads, FSMs and objects: a cooperative   *)
(* group gives its token to one thread at a time, as OneRunner has it,     *)
(* keeps every task in one place, and the objects serve those they wake.   *)
(* Then about CoRwlock, for any readers and one writer.                    *)
(***************************************************************************)
EXTENDS CoSync, CoRwlock, FiniteSetTheorems, SequenceTheorems, TLAPS

-----------------------------------------------------------------------------
(* Lists                                                                   *)

Once(s) == \A i, j \in DOMAIN s : s[i] = s[j] => i = j

LEMMA ContainsIs ==
  ASSUME NEW S, NEW s \in Seq(S), NEW k
  PROVE  Contains(s, k) <=> k \in ToSet(s)
<1>1. DOMAIN s = 1..Len(s)
  OBVIOUS
<1>2. QED BY <1>1 DEF Contains, ToSet

LEMMA OfType ==
  ASSUME NEW S, NEW s \in Seq(S)
  PROVE  ToSet(s) \subseteq S /\ DOMAIN s = 1..Len(s) /\ Len(s) \in Nat
  BY DEF ToSet

LEMMA EmptyList ==
  ASSUME NEW S, NEW s \in Seq(S)
  PROVE  ToSet(s) = {} <=> s = << >>
<1>1. s # << >> => 1 \in DOMAIN s
  OBVIOUS
<1>2. s = << >> => DOMAIN s = {}
  OBVIOUS
<1>3. QED BY <1>1, <1>2 DEF ToSet

\* Counting through a finite set of numbers in ascending order.
Rank(K, i) == Cardinality({j \in K : j <= i})

LEMMA Ranks ==
  ASSUME NEW K \in SUBSET Int, IsFiniteSet(K)
  PROVE  /\ Cardinality(K) \in Nat
         /\ \A i \in K : Rank(K, i) \in 1..Cardinality(K)
         /\ \A i, j \in K : Rank(K, i) = Rank(K, j) => i = j
         /\ \A n \in 1..Cardinality(K) : \E i \in K : Rank(K, i) = n
<1> DEFINE Upto(i) == {j \in K : j <= i}
           T == 1..Cardinality(K)
           f == [i \in K |-> Rank(K, i)]
<1>1. Cardinality(K) \in Nat
  BY FS_CardinalityType
<1>2. ASSUME NEW i \in K
      PROVE  /\ IsFiniteSet(Upto(i)) /\ Rank(K, i) = Cardinality(Upto(i))
             /\ Rank(K, i) \in T
  <2>1. IsFiniteSet(Upto(i)) /\ Cardinality(Upto(i)) <= Cardinality(K)
    BY FS_Subset
  <2>2. Upto(i) # {}
    BY <1>2
  <2>3. Cardinality(Upto(i)) \in Nat /\ Cardinality(Upto(i)) # 0
    BY <2>1, <2>2, FS_CardinalityType, FS_EmptySet
  <2>4. QED BY <1>1, <2>1, <2>3 DEF Rank
<1>3. ASSUME NEW i \in K, NEW j \in K, i < j PROVE Rank(K, i) # Rank(K, j)
  <2>1. Upto(i) \subseteq Upto(j) /\ Upto(i) # Upto(j)
    <3>1. j \in Upto(j) /\ j \notin Upto(i)
      BY <1>3
    <3>2. \A x \in K : x <= i => x <= j
      <4>1. i \in Int /\ j \in Int /\ \A x \in K : x \in Int
        OBVIOUS
      <4>2. QED BY <1>3, <4>1
    <3>3. Upto(i) \subseteq Upto(j)
      BY <3>2
    <3>4. QED BY <3>1, <3>3
  <2> HIDE DEF Upto
  <2>2. Cardinality(Upto(i)) # Cardinality(Upto(j))
    BY <1>2, <2>1, FS_Subset
  <2>3. QED BY <1>2, <2>2
<1>4. \A i, j \in K : Rank(K, i) = Rank(K, j) => i = j
  <2>1. \A i, j \in K : i = j \/ i < j \/ j < i
    OBVIOUS
  <2>2. QED BY <1>3, <2>1
<1>5. IsFiniteSet(T) /\ Cardinality(T) = Cardinality(K)
  BY <1>1, FS_Interval
<1> HIDE DEF T
<1>6. f \in Injection(K, T)
  BY <1>2, <1>4 DEF Injection, IsInjective
<1>7. f \in Surjection(K, T)
  BY <1>5, <1>6, FS_Injection
<1>8. \A n \in T : \E i \in K : Rank(K, i) = n
  BY <1>7 DEF Surjection
<1>9. QED BY <1>1, <1>2, <1>4, <1>8 DEF T

\* What Without leaves.
LEMMA WithoutIs ==
  ASSUME NEW S, NEW s \in Seq(S), NEW set
  PROVE  /\ Without(s, set) \in Seq(S)
         /\ ToSet(Without(s, set)) = ToSet(s) \ set
         /\ Once(s) => Once(Without(s, set))
         /\ Len(Without(s, set)) <= Len(s)
         /\ ToSet(s) \cap set = {} => Len(Without(s, set)) = Len(s)
<1> DEFINE K == {i \in DOMAIN s : s[i] \notin set}
           N == Cardinality(K)
           Nth(n) == CHOOSE i \in K : Rank(K, i) = n
           w == Without(s, set)
<1>1. DOMAIN s = 1..Len(s) /\ Len(s) \in Nat
  OBVIOUS
<1>2. /\ K \in SUBSET Int /\ IsFiniteSet(K) /\ N \in Nat /\ N <= Len(s)
      /\ K = 1..Len(s) => N = Len(s)
  <2>1. IsFiniteSet(1..Len(s)) /\ Cardinality(1..Len(s)) = Len(s)
    BY <1>1, FS_Interval
  <2>2. K \in SUBSET (1..Len(s))
    BY <1>1
  <2>3. K \in SUBSET Int
    BY <1>1
  <2> HIDE DEF K
  <2>4. IsFiniteSet(K) /\ N <= Len(s) /\ N \in Nat
    BY <2>1, <2>2, FS_Subset, FS_CardinalityType
  <2>5. QED BY <2>1, <2>3, <2>4
<1>3. w = [n \in 1..N |-> s[Nth(n)]]
  BY DEF Without, Rank
<1>4. ASSUME NEW n \in 1..N PROVE Nth(n) \in K /\ Rank(K, Nth(n)) = n
  BY <1>2, Ranks
<1>5. ASSUME NEW i \in K PROVE Rank(K, i) \in 1..N /\ Nth(Rank(K, i)) = i
  BY <1>2, Ranks
<1>6. \A i \in K : i \in DOMAIN s /\ s[i] \notin set /\ s[i] \in S
  BY <1>1
<1>7. \A i \in DOMAIN s : s[i] \notin set => i \in K
  OBVIOUS
<1>8. ToSet(s) \cap set = {} => K = 1..Len(s)
  BY <1>1 DEF ToSet
<1> HIDE DEF K, N, Nth, w
<1>9. w \in Seq(S) /\ Len(w) = N /\ DOMAIN w = 1..N
  <2>1. \A n \in 1..N : s[Nth(n)] \in S
    BY <1>4, <1>6
  <2>2. w \in [1..N -> S]
    BY <1>3, <2>1
  <2>3. QED BY <1>2, <2>2
<1>10. ToSet(w) = ToSet(s) \ set
  <2>1. ASSUME NEW n \in 1..N PROVE w[n] \in ToSet(s) \ set
    BY <1>3, <1>4, <1>6 DEF ToSet
  <2>2. ASSUME NEW i \in DOMAIN s, s[i] \notin set PROVE s[i] \in ToSet(w)
    <3>1. i \in K
      BY <1>7, <2>2
    <3>2. w[Rank(K, i)] = s[i] /\ Rank(K, i) \in DOMAIN w
      BY <1>3, <1>5, <1>9, <3>1
    <3>3. QED BY <3>2 DEF ToSet
  <2>3. QED BY <1>9, <2>1, <2>2 DEF ToSet
<1>11. Once(s) => Once(w)
  <2>1. ASSUME Once(s), NEW m \in 1..N, NEW n \in 1..N, w[m] = w[n] PROVE m = n
    <3>1. s[Nth(m)] = s[Nth(n)] /\ Nth(m) \in DOMAIN s /\ Nth(n) \in DOMAIN s
      BY <1>3, <1>4, <1>6, <2>1
    <3>2. Nth(m) = Nth(n)
      BY <2>1, <3>1 DEF Once
    <3>3. QED BY <1>4, <3>2
  <2>2. QED BY <1>9, <2>1 DEF Once
<1>12. QED BY <1>2, <1>8, <1>9, <1>10, <1>11 DEF w

\* Segments of a list, and lists put together.
LEMMA SegmentIs ==
  ASSUME NEW S, NEW s \in Seq(S), Once(s),
         NEW m \in Int, NEW n \in Int, 1 <= m, n <= Len(s)
  PROVE  /\ SubSeq(s, m, n) \in Seq(S) /\ Once(SubSeq(s, m, n))
         /\ ToSet(SubSeq(s, m, n)) = {s[i] : i \in m..n}
<1> DEFINE r == SubSeq(s, m, n)
<1>1. \A i \in m..n : i \in DOMAIN s /\ s[i] \in S
  OBVIOUS
<1>2. /\ r \in Seq(S) /\ Len(r) = IF m <= n THEN n - m + 1 ELSE 0
      /\ \A i \in 1..(n - m + 1) : r[i] = s[m + i - 1]
  BY <1>1, SubSeqProperties
<1> HIDE DEF r
<1>3. DOMAIN r = 1..Len(r)
  BY <1>2
<1>4. \A i \in DOMAIN r : i \in Int /\ m + i - 1 \in m..n /\ r[i] = s[m + i - 1]
  BY <1>2, <1>3
<1>5. Once(r)
  BY <1>1, <1>4 DEF Once
<1>6. ASSUME NEW i \in m..n
      PROVE  i - m + 1 \in DOMAIN r /\ r[i - m + 1] = s[i]
  <2>1. i - m + 1 \in 1..(n - m + 1) /\ m + (i - m + 1) - 1 = i
    OBVIOUS
  <2>2. QED BY <1>2, <1>3, <2>1
<1>7. ToSet(r) = {s[i] : i \in m..n}
  <2>1. ASSUME NEW x \in ToSet(r) PROVE \E i \in m..n : x = s[i]
    BY <1>4 DEF ToSet
  <2>2. ASSUME NEW i \in m..n PROVE s[i] \in ToSet(r)
    BY <1>6 DEF ToSet
  <2>3. QED BY <2>1, <2>2
<1>8. QED BY <1>2, <1>5, <1>7 DEF r

LEMMA JoinedIs ==
  ASSUME NEW S, NEW a \in Seq(S), NEW b \in Seq(S), Once(a), Once(b),
         ToSet(a) \cap ToSet(b) = {}
  PROVE  /\ a \o b \in Seq(S) /\ Once(a \o b)
         /\ ToSet(a \o b) = ToSet(a) \cup ToSet(b)
<1> DEFINE r == a \o b
<1>1. /\ r \in Seq(S) /\ Len(r) = Len(a) + Len(b) /\ Len(a) \in Nat /\ Len(b) \in Nat
      /\ \A i \in 1..(Len(a) + Len(b)) :
           r[i] = IF i <= Len(a) THEN a[i] ELSE b[i - Len(a)]
  BY ConcatProperties
<1>2. DOMAIN r = 1..Len(r) /\ DOMAIN a = 1..Len(a) /\ DOMAIN b = 1..Len(b)
  OBVIOUS
<1> HIDE DEF r
<1>3. \A i \in DOMAIN a : i \in DOMAIN r /\ r[i] = a[i]
  BY <1>1, <1>2
<1>4. ASSUME NEW i \in DOMAIN b
      PROVE  i + Len(a) \in DOMAIN r /\ r[i + Len(a)] = b[i]
  <2>1. /\ i + Len(a) \in 1..(Len(a) + Len(b)) /\ ~(i + Len(a) <= Len(a))
        /\ (i + Len(a)) - Len(a) = i
    BY <1>1, <1>2
  <2>2. QED BY <1>1, <1>2, <2>1
<1>5. \A i \in DOMAIN r : \/ i \in DOMAIN a /\ r[i] = a[i]
                          \/ i - Len(a) \in DOMAIN b /\ r[i] = b[i - Len(a)]
  BY <1>1, <1>2
<1>6. ToSet(r) = ToSet(a) \cup ToSet(b)
  BY <1>3, <1>4, <1>5 DEF ToSet
<1>7. \A i \in DOMAIN a, j \in DOMAIN b : a[i] # b[j]
  BY DEF ToSet
<1>8. Once(r)
  <2> SUFFICES ASSUME NEW i \in DOMAIN r, NEW j \in DOMAIN r, r[i] = r[j]
               PROVE  i = j
    BY DEF Once
  <2>1. CASE i \in DOMAIN a /\ j \in DOMAIN a
    BY <2>1, <1>3 DEF Once
  <2>2. CASE /\ i - Len(a) \in DOMAIN b /\ r[i] = b[i - Len(a)]
             /\ j - Len(a) \in DOMAIN b /\ r[j] = b[j - Len(a)]
    <3>1. i - Len(a) = j - Len(a)
      BY <2>2 DEF Once
    <3>2. QED BY <3>1, <1>1, <1>2
  <2>3. QED BY <2>1, <2>2, <1>5, <1>7
<1>9. QED BY <1>1, <1>6, <1>8 DEF r

\* The first n elements and the rest.
LEMMA CutIs ==
  ASSUME NEW S, NEW s \in Seq(S), Once(s), NEW n \in 0..Len(s)
  PROVE  LET a == SubSeq(s, 1, n)
             b == SubSeq(s, n + 1, Len(s)) IN
         /\ a \in Seq(S) /\ Once(a) /\ b \in Seq(S) /\ Once(b)
         /\ ToSet(a) \cap ToSet(b) = {} /\ ToSet(a) \cup ToSet(b) = ToSet(s)
<1> DEFINE a == SubSeq(s, 1, n)
           b == SubSeq(s, n + 1, Len(s))
<1>1. DOMAIN s = 1..Len(s) /\ Len(s) \in Nat /\ n \in Int /\ n + 1 \in Int
  OBVIOUS
<1>2. /\ a \in Seq(S) /\ Once(a) /\ ToSet(a) = {s[i] : i \in 1..n}
      /\ b \in Seq(S) /\ Once(b) /\ ToSet(b) = {s[i] : i \in (n + 1)..Len(s)}
  BY <1>1, SegmentIs
<1> HIDE DEF a, b
<1>3. ToSet(a) \cap ToSet(b) = {} /\ ToSet(a) \cup ToSet(b) = ToSet(s)
  <2>1. \A i \in (n + 1)..Len(s), j \in 1..n : s[i] # s[j]
    BY <1>1 DEF Once
  <2>2. \A i \in 1..Len(s) : i \in (n + 1)..Len(s) \/ i \in 1..n
    BY <1>1
  <2>3. \A i : i \in (n + 1)..Len(s) \/ i \in 1..n => i \in 1..Len(s)
    BY <1>1
  <2>4. QED BY <1>1, <1>2, <2>1, <2>2, <2>3 DEF ToSet
<1>4. QED BY <1>2, <1>3 DEF a, b

LEMMA AppendIs ==
  ASSUME NEW S, NEW s \in Seq(S), Once(s), NEW e \in S, e \notin ToSet(s)
  PROVE  /\ Append(s, e) \in Seq(S) /\ Once(Append(s, e))
         /\ ToSet(Append(s, e)) = ToSet(s) \cup {e}
<1> DEFINE r == Append(s, e)
<1>1. /\ r \in Seq(S) /\ Len(s) \in Nat /\ r[Len(s) + 1] = e
      /\ \A i \in 1..Len(s) : r[i] = s[i]
      /\ DOMAIN r = 1..(Len(s) + 1) /\ DOMAIN s = 1..Len(s)
  OBVIOUS
<1> HIDE DEF r
<1>2. \A i \in 1..Len(s) : s[i] # e
  BY <1>1 DEF ToSet
<1>3. Once(r)
  BY <1>1, <1>2 DEF Once
<1>4. ToSet(r) = ToSet(s) \cup {e}
  BY <1>1 DEF ToSet
<1>5. QED BY <1>1, <1>3, <1>4 DEF r

LEMMA TailIs ==
  ASSUME NEW S, NEW s \in Seq(S), Once(s), s # << >>
  PROVE  /\ Head(s) \in ToSet(s) /\ Head(s) \in S
         /\ Tail(s) \in Seq(S) /\ Once(Tail(s)) /\ ToSet(Tail(s)) = ToSet(s) \ {Head(s)}
<1>1. /\ Tail(s) \in Seq(S) /\ 1 \in DOMAIN s /\ Head(s) = s[1] /\ s[1] \in S
      /\ \A i \in DOMAIN Tail(s) :
           i \in Nat /\ i + 1 \in DOMAIN s /\ i + 1 # 1 /\ Tail(s)[i] = s[i + 1]
      /\ \A i \in DOMAIN s : i \in Nat /\ (i # 1 =>
           i - 1 \in DOMAIN Tail(s) /\ Tail(s)[i - 1] = s[i])
  OBVIOUS
<1> DEFINE r == Tail(s)
<1> HIDE DEF r
<1>2. Once(r)
  <2> SUFFICES ASSUME NEW i \in DOMAIN r, NEW j \in DOMAIN r, r[i] = r[j]
               PROVE  i = j
    BY DEF Once
  <2>1. s[i + 1] = s[j + 1] /\ i + 1 \in DOMAIN s /\ j + 1 \in DOMAIN s
    BY <1>1 DEF r
  <2>2. i + 1 = j + 1
    BY <2>1 DEF Once
  <2>3. QED BY <1>1, <2>2 DEF r
<1>3. \A x : x \in ToSet(r) <=> x \in ToSet(s) /\ x # s[1]
  <2>1. ASSUME NEW i \in DOMAIN r PROVE r[i] \in ToSet(s) /\ r[i] # s[1]
    BY <1>1 DEF r, ToSet, Once
  <2>2. ASSUME NEW i \in DOMAIN s, s[i] # s[1] PROVE s[i] \in ToSet(r)
    BY <1>1, <2>2 DEF r, ToSet
  <2>3. QED BY <2>1, <2>2 DEF ToSet
<1>4. ToSet(r) = ToSet(s) \ {s[1]} /\ s[1] \in ToSet(s)
  BY <1>1, <1>3 DEF ToSet
<1>5. QED BY <1>1, <1>2, <1>4 DEF r

LEMMA ReadiedIs ==
  ASSUME NEW S, NEW list \in Seq(S), NEW seq \in Seq(S), Once(list), Once(seq)
  PROVE  /\ Readied(list, seq) \in Seq(S) /\ Once(Readied(list, seq))
         /\ ToSet(Readied(list, seq)) = ToSet(list) \cup ToSet(seq)
<1> DEFINE more == Without(seq, ToSet(list))
<1>1. more \in Seq(S) /\ Once(more) /\ ToSet(more) = ToSet(seq) \ ToSet(list)
  BY WithoutIs
<1> HIDE DEF more
<1>2. /\ list \o more \in Seq(S) /\ Once(list \o more)
      /\ ToSet(list \o more) = ToSet(list) \cup ToSet(more)
  BY <1>1, JoinedIs
<1>3. QED BY <1>1, <1>2 DEF Readied, more

\* The sequences of events.
LEMMA IoEventsAre ==
  ASSUME NEW set \in SUBSET Tasks, NEW seq \in IoEvents(set)
  PROVE  seq \in Seq(Tasks) /\ Once(seq) /\ ToSet(seq) \subseteq set
<1>1. IsFiniteSet(Tasks)
  BY GroupAssumption, FS_Union DEF Tasks
<1>2. PICK S \in SUBSET set : seq \in SetToSeqs(S)
  BY DEF IoEvents
<1>3. Cardinality(S) \in Nat
  BY <1>1, <1>2, FS_Subset, FS_CardinalityType
<1>4. seq \in [1..Cardinality(S) -> S] /\ Once(seq)
  BY <1>2 DEF SetToSeqs, Once
<1>5. QED BY <1>3, <1>4 DEF ToSet

\* The first thread of a list.
LEMMA FirstThreadIs ==
  ASSUME NEW s \in Seq(Tasks)
  PROVE  /\ FirstThread(s) \subseteq ToSet(s) \cap Threads
         /\ \A u, v \in FirstThread(s) : u = v
         /\ ToSet(s) \cap Threads # {} => FirstThread(s) # {}
<1> DEFINE K == {i \in DOMAIN s : s[i] \in Threads}
<1>1. DOMAIN s = 1..Len(s) /\ Len(s) \in Nat /\ \A i \in DOMAIN s : s[i] \in Tasks
  OBVIOUS
<1>2. K \in SUBSET Int /\ IsFiniteSet(K)
  <2>1. IsFiniteSet(1..Len(s)) /\ K \in SUBSET (1..Len(s)) /\ K \in SUBSET Int
    BY <1>1, FS_Interval
  <2>2. QED BY <2>1, FS_Subset
<1>3. FirstThread(s) \subseteq ToSet(s) \cap Threads
  BY DEF FirstThread, ToSet
<1>4. ASSUME NEW i \in DOMAIN s, NEW j \in DOMAIN s, s[i] \in Threads, s[j] \in Threads,
             \A l \in 1..(i - 1) : s[l] \in Fsms, \A l \in 1..(j - 1) : s[l] \in Fsms
      PROVE  i = j
  <2>1. ~(i < j) /\ ~(j < i)
    BY <1>1, <1>4, GroupAssumption
  <2>2. QED BY <1>1, <2>1
<1>5. \A u, v \in FirstThread(s) : u = v
  BY <1>4 DEF FirstThread
<1>6. ASSUME ToSet(s) \cap Threads # {} PROVE FirstThread(s) # {}
  <2>1. K # {}
    BY <1>6 DEF ToSet
  <2> HIDE DEF K
  <2>2. Cardinality(K) \in Nat /\ Cardinality(K) # 0
    BY <1>2, <2>1, FS_CardinalityType, FS_EmptySet
  <2>3. PICK i \in K : Rank(K, i) = 1
    BY <1>2, <2>2, Ranks
  <2>4. ASSUME NEW j \in K, j < i PROVE FALSE
    <3>1. {i, j} \subseteq {l \in K : l <= i} /\ i # j
      BY <1>2, <2>4
    <3>2. PICK x : {l \in K : l <= i} = {x}
      <4>1. IsFiniteSet({l \in K : l <= i})
        BY <1>2, FS_Subset
      <4>2. QED BY <2>3, <4>1, FS_Singleton DEF Rank
    <3>3. QED BY <3>1, <3>2
  <2>5. i \in DOMAIN s /\ s[i] \in Threads
    BY DEF K
  <2>6. ASSUME NEW j \in 1..(i - 1) PROVE s[j] \in Fsms
    <3>1. j \in DOMAIN s /\ j < i
      BY <1>1, <2>5
    <3>2. j \notin K
      BY <2>4, <3>1
    <3>3. QED BY <1>1, <3>1, <3>2 DEF K, Tasks
  <2>7. s[i] \in FirstThread(s)
    BY <2>5, <2>6 DEF FirstThread
  <2>8. QED BY <2>7
<1>7. QED BY <1>3, <1>5, <1>6

-----------------------------------------------------------------------------
(* The invariant of the group                                              *)

Ready   == ToSet(ready_list)
Blocked == ToSet(block_list)
Queued  == ToSet(wq)

\* The lists have every task once.
Lists ==
  /\ ready_list \in Seq(Tasks) /\ block_list \in Seq(Tasks) /\ wq \in Seq(Tasks)
  /\ Once(ready_list) /\ Once(block_list) /\ Once(wq)

Types ==
  /\ members \subseteq Threads /\ fsms \subseteq Fsms
  /\ pc \in [Threads -> {"native", "running", "schedule", "poll", "wait"}]
  /\ sched_sem \in [Threads -> 0..1]
  /\ need_schedule \subseteq Threads
  /\ interrupted \in BOOLEAN
  /\ io \subseteq Tasks
  /\ woken \in [Tasks -> {"not", "queue", "other"}]

\* Every task is ready or blocked, but for the thread that is chosen to run;
\* and those that are ready, or chosen, are those with a reason.
Placed(chosen) ==
  /\ Ready \cap Blocked = {}
  /\ Ready \cup Blocked = (members \cup fsms) \ chosen
  /\ \A k \in members \cup fsms : k \in Ready \cup chosen <=> woken[k] # "not"

\* Thread t has the group: it runs, schedules or polls.
Holds(t) ==
  /\ t \in members /\ pc[t] \in {"running", "schedule", "poll"}
  /\ \A u \in Threads \ {t} : pc[u] = IF u \in members THEN "wait" ELSE "native"
  /\ \A u \in Threads : sched_sem[u] = 0
  /\ need_schedule = {}
  /\ Placed(IF pc[t] = "running" THEN {t} ELSE {})
  /\ io \cup Queued \subseteq Ready \cup Blocked

\* The group has been handed to thread t, to run or only to schedule.
Handed(t) ==
  /\ t \in members
  /\ \A u \in Threads : pc[u] = IF u \in members THEN "wait" ELSE "native"
  /\ \A u \in Threads : sched_sem[u] = IF u = t THEN 1 ELSE 0
  /\ need_schedule \subseteq {t}
  /\ Placed({t} \ need_schedule)
  /\ io \cup Queued \subseteq members \cup fsms

\* No thread is in the group.
Vacant ==
  /\ members = {}
  /\ \A u \in Threads : pc[u] = "native" /\ sched_sem[u] = 0
  /\ need_schedule = {}
  /\ Placed({})
  /\ io \cup Queued \subseteq Ready \cup Blocked

InvG == Lists /\ Types /\ (Vacant \/ \E t \in Threads : Holds(t) \/ Handed(t))

\* Who runs, schedules or polls has the group, and who waits and is woken is
\* handed it; nobody else has it.
LEMMA WhoHolds ==
  ASSUME InvG, NEW t \in Threads
  PROVE  /\ pc[t] \in {"running", "schedule", "poll"} => Holds(t)
         /\ pc[t] = "wait" /\ sched_sem[t] > 0 => Handed(t)
<1>1. pc \in [Threads -> {"native", "running", "schedule", "poll", "wait"}]
  BY DEF InvG, Types
<1>2. CASE Vacant
  BY <1>2 DEF Vacant
<1>3. ASSUME NEW u \in Threads, Holds(u), u # t
      PROVE  pc[t] \in {"wait", "native"} /\ sched_sem[t] = 0
  BY <1>3 DEF Holds
<1>4. ASSUME NEW u \in Threads, Handed(u), u # t
      PROVE  pc[t] \in {"wait", "native"} /\ sched_sem[t] = 0
  BY <1>4 DEF Handed
<1>5. Holds(t) => pc[t] \in {"running", "schedule", "poll"}
  BY DEF Holds
<1>6. Handed(t) => pc[t] \in {"wait", "native"}
  BY DEF Handed
<1>7. QED BY <1>2, <1>3, <1>4, <1>5, <1>6 DEF InvG

HasIt == {t \in Threads : HasToken(t)}

LEMMA HasItIs ==
  ASSUME Types
  PROVE  /\ \A t \in Threads : Holds(t) \/ Handed(t) => HasIt = {t}
         /\ Vacant => HasIt = {}
<1>1. ASSUME NEW t \in Threads, Holds(t) PROVE HasIt = {t}
  <2>1. HasToken(t) /\ \A u \in Threads \ {t} : ~HasToken(u)
    BY <1>1 DEF Holds, HasToken
  <2>2. QED BY <2>1 DEF HasIt
<1>2. ASSUME NEW t \in Threads, Handed(t) PROVE HasIt = {t}
  <2>1. HasToken(t) /\ \A u \in Threads \ {t} : ~HasToken(u)
    BY <1>2 DEF Handed, HasToken, Types
  <2>2. QED BY <2>1 DEF HasIt
<1>3. ASSUME Vacant PROVE HasIt = {}
  BY <1>3 DEF Vacant, HasToken, HasIt
<1>4. QED BY <1>1, <1>2, <1>3

LEMMA HasItAfter ==
  ASSUME Types'
  PROVE  /\ \A t \in Threads : Holds(t)' \/ Handed(t)' => HasIt' = {t}
         /\ Vacant' => HasIt' = {}
<1>1. ASSUME NEW t \in Threads, Holds(t)' PROVE HasIt' = {t}
  <2>1. HasToken(t)' /\ \A u \in Threads \ {t} : ~HasToken(u)'
    BY <1>1 DEF Holds, HasToken
  <2>2. QED BY <2>1 DEF HasIt
<1>2. ASSUME NEW t \in Threads, Handed(t)' PROVE HasIt' = {t}
  <2>1. HasToken(t)' /\ \A u \in Threads \ {t} : ~HasToken(u)'
    BY <1>2 DEF Handed, HasToken, Types
  <2>2. QED BY <2>1 DEF HasIt
<1>3. ASSUME Vacant' PROVE HasIt' = {}
  BY <1>3 DEF Vacant, HasToken, HasIt
<1>4. QED BY <1>1, <1>2, <1>3

Held(t) == Lists /\ Types /\ Holds(t)

\* The properties the invariant is for.
LEMMA HeldPlaces ==
  ASSUME NEW t \in Threads, Holds(t)
  PROVE  /\ t \in Tasks
         /\ pc[t] = "running" => t \notin Ready \cup Blocked \cup Queued \cup io
         /\ pc[t] # "running" => t \in Ready \cup Blocked
  BY GroupAssumption DEF Holds, Placed, Tasks

\* co_block of the running thread.
LEMMA BlockStep ==
  ASSUME NEW t \in Threads, Held(t), pc[t] = "running",
         NEW onIo \in BOOLEAN, NEW onQueue \in BOOLEAN, Block(t, onIo, onQueue)
  PROVE  Held(t)' /\ UNCHANGED members
<1> USE DEF Held, Block
<1>1. t \in Tasks /\ t \notin Ready \cup Blocked \cup Queued \cup io
  BY HeldPlaces
<1>2. /\ block_list' \in Seq(Tasks) /\ Once(block_list')
      /\ Blocked' = Blocked \cup {t}
  BY <1>1, AppendIs DEF Lists, Blocked
<1>3. /\ wq' \in Seq(Tasks) /\ Once(wq')
      /\ Queued' \subseteq Queued \cup {t}
  BY <1>1, AppendIs DEF Lists, Queued
<1>4. Ready' = Ready
  BY DEF Ready
<1>5. Lists'
  BY <1>2, <1>3 DEF Lists
<1>6. Types'
  BY <1>1 DEF Types
<1>7. Placed({})' /\ pc'[t] = "schedule"
  <2>1. Placed({t})
    BY DEF Holds
  <2>2. woken' = [woken EXCEPT ![t] = "not"] /\ woken \in [Tasks -> {"not", "queue", "other"}]
    BY DEF Types
  <2>3. members \cup fsms \subseteq Tasks
    BY DEF Types, Tasks
  <2>4. QED BY <1>1, <1>2, <1>4, <2>1, <2>2, <2>3 DEF Placed, Types, Holds
<1>8. Holds(t)'
  BY <1>2, <1>3, <1>4, <1>7 DEF Holds, Types
<1>9. QED BY <1>5, <1>6, <1>8

\* co_yield.
LEMMA YieldStep ==
  ASSUME NEW t \in Threads, Held(t), co_yield(t)
  PROVE  Held(t)' /\ UNCHANGED members
<1> USE DEF Held, co_yield
<1>1. t \in Tasks /\ t \notin Ready \cup Blocked \cup Queued \cup io
  BY HeldPlaces
<1>2. /\ ready_list' \in Seq(Tasks) /\ Once(ready_list')
      /\ Ready' = Ready \cup {t}
  BY <1>1, AppendIs DEF Lists, Ready
<1>3. Blocked' = Blocked /\ Queued' = Queued
  BY DEF Blocked, Queued
<1>4. Lists' /\ Types'
  BY <1>1, <1>2 DEF Lists, Types
<1>5. Placed({})' /\ pc'[t] = "schedule"
  <2>1. Placed({t})
    BY DEF Holds
  <2>2. woken' = [woken EXCEPT ![t] = "other"] /\ woken \in [Tasks -> {"not", "queue", "other"}]
    BY DEF Types
  <2>3. members \cup fsms \subseteq Tasks
    BY DEF Types, Tasks
  <2>4. QED BY <1>1, <1>2, <1>3, <2>1, <2>2, <2>3 DEF Placed, Types, Holds
<1>6. Holds(t)'
  BY <1>2, <1>3, <1>5 DEF Holds, Types
<1>7. QED BY <1>4, <1>6

\* Tasks that are woken stay in place if they are ready, and move if they are
\* blocked.
LEMMA WakeIs ==
  ASSUME Lists, NEW seq \in Seq(Tasks), Once(seq), Wake(seq)
  PROVE  /\ ready_list' \in Seq(Tasks) /\ Once(ready_list')
         /\ block_list' \in Seq(Tasks) /\ Once(block_list')
         /\ Ready' = Ready \cup ToSet(seq) /\ Blocked' = Blocked \ ToSet(seq)
  BY ReadiedIs, WithoutIs DEF Lists, Wake, Ready, Blocked

LEMMA WokenPlaced ==
  ASSUME Types, NEW set \in SUBSET (Ready \cup Blocked),
         NEW chosen, Placed(chosen),
         Ready' = Ready \cup set, Blocked' = Blocked \ set,
         UNCHANGED <<members, fsms>>,
         \/ woken' = WokenOther(set)
         \/ woken' = WokenQueue(set)
  PROVE  /\ woken' \in [Tasks -> {"not", "queue", "other"}]
         /\ Placed(chosen)'
<1>1. woken' \in [Tasks -> {"not", "queue", "other"}]
  BY DEF Types, WokenOther, WokenQueue
<1>2. members \cup fsms \subseteq Tasks
  BY DEF Types, Tasks
<1>3. \A k \in Tasks : woken'[k] # "not" <=> woken[k] # "not" \/ k \in set
  BY DEF Types, WokenOther, WokenQueue
<1>4. QED BY <1>1, <1>2, <1>3 DEF Placed

\* What makes a thread that holds the group hold it after a step.
LEMMA StillHeld ==
  ASSUME NEW t \in Threads, Held(t), Lists', Types',
         UNCHANGED <<members, sched_sem, need_schedule>>,
         \A u \in Threads \ {t} : pc'[u] = pc[u],
         pc'[t] \in {"running", "schedule", "poll"},
         pc'[t] = "running" => Placed({t})',
         pc'[t] # "running" => Placed({})',
         io' \cup Queued' \subseteq Ready' \cup Blocked'
  PROVE  Held(t)'
<1>1. Placed(IF pc[t] = "running" THEN {t} ELSE {})'
  <2>1. CASE pc'[t] = "running"
    BY <2>1
  <2>2. CASE pc'[t] # "running"
    BY <2>2
  <2>3. QED BY <2>1, <2>2
<1>2. QED BY <1>1 DEF Held, Holds

LEMMA HeldIs ==
  ASSUME NEW t \in Threads, Held(t)
  PROVE  /\ pc[t] = "running" => Placed({t})
         /\ pc[t] # "running" => Placed({})
  BY DEF Held, Holds

\* Polling: some of the tasks with an event become ready.
LEMMA PollStep ==
  ASSUME NEW t \in Threads, Held(t), NEW seq \in Seq(Tasks), Once(seq),
         ToSet(seq) \subseteq io, PollResults(seq), interrupted' \in BOOLEAN,
         \/ UNCHANGED pc
         \/ pc[t] # "running" /\ pc' = [pc EXCEPT ![t] = "schedule"]
  PROVE  Held(t)' /\ UNCHANGED members
<1>1. io \cup Queued \subseteq Ready \cup Blocked /\ Lists /\ Types
  BY DEF Held, Holds
<1>2. /\ ready_list' \in Seq(Tasks) /\ Once(ready_list')
      /\ block_list' \in Seq(Tasks) /\ Once(block_list')
      /\ Ready' = Ready \cup ToSet(seq) /\ Blocked' = Blocked \ ToSet(seq)
  BY <1>1, WakeIs DEF PollResults
<1>3. Lists'
  BY <1>1, <1>2 DEF Lists, PollResults
<1>4. ASSUME NEW chosen, Placed(chosen)
      PROVE  woken' \in [Tasks -> {"not", "queue", "other"}] /\ Placed(chosen)'
  BY <1>1, <1>2, <1>4, WokenPlaced DEF PollResults
<1>5. Types'
  BY <1>1, <1>4, HeldIs DEF Types, PollResults
<1>6. io' \cup Queued' \subseteq Ready' \cup Blocked'
  BY <1>1, <1>2 DEF PollResults, Queued
<1>7. /\ \A u \in Threads \ {t} : pc'[u] = pc[u]
      /\ pc'[t] \in {"running", "schedule", "poll"}
      /\ pc'[t] = "running" <=> pc[t] = "running"
  BY DEF Held, Holds, Types
<1>8. Held(t)'
  BY <1>3, <1>4, <1>5, <1>6, <1>7, HeldIs, StillHeld DEF PollResults
<1>9. QED BY <1>8 DEF PollResults

LEMMA NoEvents ==
  ASSUME PollResults(<< >>), NEW t \in Threads, Held(t)
  PROVE  << >> \in Seq(Tasks) /\ Once(<< >>) /\ ToSet(<< >>) \subseteq io
  BY DEF Once, ToSet

LEMMA PollSteps ==
  ASSUME NEW t \in Threads, Held(t),
         co_poll(t) \/ DueTimers(t) \/ EndPoll(t)
  PROVE  Held(t)' /\ UNCHANGED members
<1>1. io \subseteq Tasks /\ interrupted \in BOOLEAN
  BY DEF Held, Types
<1>2. \A seq \in IoEvents(io) : seq \in Seq(Tasks) /\ Once(seq) /\ ToSet(seq) \subseteq io
  BY <1>1, IoEventsAre
<1>3. CASE co_poll(t)
  BY <1>1, <1>2, <1>3, PollStep DEF co_poll
<1>4. CASE DueTimers(t)
  BY <1>1, <1>2, <1>4, PollStep DEF DueTimers
<1>5. CASE EndPoll(t)
  <2>1. PICK seq \in Seq(Tasks) :
          /\ Once(seq) /\ ToSet(seq) \subseteq io /\ PollResults(seq)
          /\ interrupted' \in BOOLEAN
    BY <1>1, <1>2, <1>5, NoEvents DEF EndPoll
  <2>2. pc[t] # "running" /\ pc' = [pc EXCEPT ![t] = "schedule"]
    BY <1>5 DEF EndPoll
  <2>3. QED BY <2>1, <2>2, PollStep
<1>6. QED BY <1>3, <1>4, <1>5

LEMMA StartPollStep ==
  ASSUME NEW t \in Threads, Held(t), StartPoll(t)
  PROVE  Held(t)' /\ UNCHANGED members
<1>1. /\ Ready' = Ready /\ Blocked' = Blocked /\ Queued' = Queued
      /\ UNCHANGED <<lists, members, sched_sem, need_schedule, interrupted, io, wq, woken, fsms>>
  BY DEF StartPoll, Ready, Blocked, Queued, events, lists
<1>2. Lists' /\ Types'
  BY <1>1 DEF Lists, Types, Held, StartPoll, lists
<1>3. Placed({}) /\ io \cup Queued \subseteq Ready \cup Blocked
  BY DEF Held, Holds, StartPoll
<1>4. Placed({})'
  BY <1>1, <1>3 DEF Placed
<1>5. pc'[t] = "poll" /\ \A u \in Threads \ {t} : pc'[u] = pc[u]
  BY DEF StartPoll, Held, Types
<1>6. QED BY <1>1, <1>2, <1>3, <1>4, <1>5, StillHeld

\* Tasks made ready by what the running thread calls.
LEMMA WakeStep ==
  ASSUME NEW t \in Threads, Held(t), NEW seq \in Seq(Tasks), Once(seq),
         ToSet(seq) \subseteq Ready \cup Blocked, Wake(seq),
         woken' = WokenOther(ToSet(seq)) \/ woken' = WokenQueue(ToSet(seq)),
         UNCHANGED <<tokens, fsms, io>>,
         wq' \in Seq(Tasks), Once(wq'), Queued' \subseteq Queued
  PROVE  Held(t)' /\ UNCHANGED members
<1>1. io \cup Queued \subseteq Ready \cup Blocked /\ Lists /\ Types
  BY DEF Held, Holds
<1>2. /\ ready_list' \in Seq(Tasks) /\ Once(ready_list')
      /\ block_list' \in Seq(Tasks) /\ Once(block_list')
      /\ Ready' = Ready \cup ToSet(seq) /\ Blocked' = Blocked \ ToSet(seq)
  BY <1>1, WakeIs
<1>3. UNCHANGED <<members, pc, sched_sem, need_schedule, interrupted>>
  BY DEF tokens
<1>4. Lists'
  BY <1>2 DEF Lists
<1>5. ASSUME NEW chosen, Placed(chosen)
      PROVE  woken' \in [Tasks -> {"not", "queue", "other"}] /\ Placed(chosen)'
  BY <1>1, <1>2, <1>3, <1>5, WokenPlaced
<1>6. Types'
  BY <1>1, <1>3, <1>5, HeldIs DEF Types
<1>7. io' \cup Queued' \subseteq Ready' \cup Blocked'
  BY <1>1, <1>2
<1>8. pc'[t] \in {"running", "schedule", "poll"}
  BY <1>3 DEF Held, Holds
<1>9. QED BY <1>3, <1>4, <1>5, <1>6, <1>7, <1>8, HeldIs, StillHeld

LEMMA WakeNStep ==
  ASSUME NEW t \in Threads, Held(t), NEW n \in 0..Len(wq), wake_n(n),
         UNCHANGED tokens
  PROVE  Held(t)' /\ UNCHANGED members
<1> DEFINE first == SubSeq(wq, 1, n)
           rest == SubSeq(wq, n + 1, Len(wq))
<1>1. wq \in Seq(Tasks) /\ Once(wq) /\ Queued \subseteq Ready \cup Blocked
  BY DEF Held, Holds, Lists
<1>2. /\ first \in Seq(Tasks) /\ Once(first) /\ rest \in Seq(Tasks) /\ Once(rest)
      /\ ToSet(first) \subseteq Queued /\ ToSet(rest) \subseteq Queued
  BY <1>1, CutIs DEF Queued
<1>3. /\ Wake(first) /\ wq' = rest /\ woken' = WokenQueue(ToSet(first))
      /\ UNCHANGED <<io, fsms>>
  BY DEF wake_n
<1> HIDE DEF first, rest
<1>4. Queued' = ToSet(rest)
  BY <1>3 DEF Queued
<1>5. QED BY <1>1, <1>2, <1>3, <1>4, WakeStep

LEMMA FsmWakeStep ==
  ASSUME NEW t \in Threads, Held(t), NEW f \in Fsms, co_fsm_wake(t, f)
  PROVE  Held(t)' /\ UNCHANGED members
<1>1. f \in Tasks /\ <<f>> \in Seq(Tasks) /\ Once(<<f>>) /\ ToSet(<<f>>) = {f}
  BY DEF Once, ToSet, Tasks
<1>2. pc[t] = "running" /\ f \in fsms /\ f # t
  BY GroupAssumption DEF co_fsm_wake
<1>3. f \in Ready \cup Blocked
  BY <1>2, HeldIs DEF Placed
<1>4. Queued' = Queued /\ wq' \in Seq(Tasks) /\ Once(wq')
  BY DEF Queued, co_fsm_wake, Held, Lists
<1>5. /\ Wake(<<f>>) /\ woken' = WokenOther(ToSet(<<f>>))
      /\ UNCHANGED <<tokens, fsms, io>>
  BY <1>1 DEF co_fsm_wake
<1>6. QED BY <1>1, <1>3, <1>4, <1>5, WakeStep

\* The scheduling thread goes on itself.
LEMMA ScheduleSelfStep ==
  ASSUME NEW t \in Threads, Held(t), ScheduleSelf(t)
  PROVE  Held(t)' /\ UNCHANGED members
<1>1. /\ Lists /\ Types /\ Placed({}) /\ io \cup Queued \subseteq Ready \cup Blocked
  BY HeldIs DEF Held, Holds, ScheduleSelf
<1>2. /\ ready_list' \in Seq(Tasks) /\ Once(ready_list')
      /\ t \in Ready /\ Ready' = Ready \ {t}
  BY <1>1, TailIs DEF ScheduleSelf, Lists, Ready
<1>3. wq' \in Seq(Tasks) /\ Once(wq') /\ Queued' = Queued \ {t}
  BY <1>1, WithoutIs DEF ScheduleSelf, Resumed, Lists, Queued
<1>4. Blocked' = Blocked
  BY DEF Blocked, ScheduleSelf
<1>5. /\ Lists' /\ Types'
  BY <1>1, <1>2, <1>3 DEF Lists, Types, ScheduleSelf, Resumed
<1>6. Placed({t})'
  BY <1>1, <1>2, <1>4 DEF Placed, ScheduleSelf
<1>7. io' \cup Queued' \subseteq Ready' \cup Blocked'
  BY <1>1, <1>2, <1>3, <1>4 DEF ScheduleSelf, Resumed
<1>8. pc'[t] = "running" /\ \A u \in Threads \ {t} : pc'[u] = pc[u]
  BY <1>1 DEF ScheduleSelf, Resumed, Types
<1>9. UNCHANGED <<members, sched_sem, need_schedule>>
  BY DEF ScheduleSelf
<1>10. QED BY <1>5, <1>6, <1>7, <1>8, <1>9, StillHeld

\* It starts another one.
LEMMA ScheduleOtherStep ==
  ASSUME NEW t \in Threads, Held(t), ScheduleOther(t)
  PROVE  /\ Lists' /\ Types' /\ UNCHANGED members
         /\ \E h \in members : Handed(h)'
<1> PICK h \in Threads : h = Head(ready_list) /\ h # t
  BY DEF ScheduleOther
<1>1. /\ Lists /\ Types /\ Placed({}) /\ io \cup Queued \subseteq Ready \cup Blocked
  BY HeldIs DEF Held, Holds, ScheduleOther
<1>2. /\ ready_list' \in Seq(Tasks) /\ Once(ready_list')
      /\ h \in Ready /\ Ready' = Ready \ {h}
  BY <1>1, TailIs DEF ScheduleOther, Lists, Ready
<1>3. Blocked' = Blocked /\ Queued' = Queued
  BY DEF Blocked, Queued, ScheduleOther, events
<1>4. h \in members
  BY <1>1, <1>2, GroupAssumption DEF Placed, Types
<1>5. Lists'
  BY <1>1, <1>2 DEF Lists, ScheduleOther, events
<1>6. /\ \A u \in Threads : sched_sem[u] = 0 /\ need_schedule = {}
      /\ \A u \in Threads \ {t} : pc[u] = IF u \in members THEN "wait" ELSE "native"
      /\ t \in members
  BY DEF Held, Holds
<1>7. \A u \in Threads : sched_sem'[u] = IF u = h THEN 1 ELSE 0
  BY <1>1, <1>6 DEF Types, ScheduleOther
<1>8. Types'
  BY <1>1, <1>6 DEF Types, ScheduleOther, events
<1>9. \A u \in Threads : pc'[u] = IF u \in members' THEN "wait" ELSE "native"
  BY <1>1, <1>6 DEF Types, ScheduleOther
<1>10. Placed({h} \ need_schedule)'
  BY <1>1, <1>2, <1>3, <1>4, <1>6 DEF Placed, ScheduleOther, events
<1>11. /\ need_schedule' \subseteq {h} /\ h \in members' /\ UNCHANGED members
       /\ io' \cup Queued' \subseteq members' \cup fsms'
  BY <1>1, <1>3, <1>4, <1>6 DEF ScheduleOther, Placed, events
<1>12. Handed(h)'
  BY <1>7, <1>9, <1>10, <1>11 DEF Handed
<1>13. QED BY <1>4, <1>5, <1>8, <1>11, <1>12

\* The running thread leaves, and the group is vacant or another one has it.
LEMMA LeaveStep ==
  ASSUME NEW t \in Threads, Held(t), leave_coop_group(t)
  PROVE  /\ Lists' /\ Types' /\ t \in members /\ members' = members \ {t}
         /\ Vacant' \/ \E u \in members' : Handed(u)'
<1>1. /\ Lists /\ Types /\ Placed({t}) /\ t \in members
      /\ io \cup Queued \subseteq Ready \cup Blocked
  BY HeldIs DEF Held, Holds, leave_coop_group
<1>2. /\ \A u \in Threads : sched_sem[u] = 0 /\ need_schedule = {}
      /\ \A u \in Threads \ {t} : pc[u] = IF u \in members THEN "wait" ELSE "native"
  BY DEF Held, Holds
<1>3. /\ Ready' = Ready /\ Blocked' = Blocked /\ Queued' = Queued
      /\ UNCHANGED <<ready_list, block_list, wq, interrupted, io, woken, fsms>>
      /\ members' = members \ {t} /\ pc' = [pc EXCEPT ![t] = "native"]
      /\ need_schedule' = need_schedule \cup NextInCharge
      /\ sched_sem' = [u \in Threads |-> sched_sem[u] + IF u \in NextInCharge THEN 1 ELSE 0]
  BY DEF leave_coop_group, Ready, Blocked, Queued, lists, events
<1>4. /\ NextInCharge \subseteq (Ready \cup Blocked) \cap Threads
      /\ \A u, v \in NextInCharge : u = v
      /\ (Ready \cup Blocked) \cap Threads # {} => NextInCharge # {}
  BY <1>1, FirstThreadIs DEF NextInCharge, Ready, Blocked, Lists
<1>5. (Ready \cup Blocked) \cap Threads = members'
  BY <1>1, <1>3, GroupAssumption DEF Placed, Types
<1>6. Lists'
  BY <1>1, <1>3 DEF Lists
<1>7. Types'
  <2>1. \A u \in Threads : sched_sem[u] + (IF u \in NextInCharge THEN 1 ELSE 0) \in 0..1
    BY <1>2
  <2>2. QED BY <1>1, <1>2, <1>3, <1>4, <2>1 DEF Types
<1>8. \A u \in Threads : pc'[u] = IF u \in members' THEN "wait" ELSE "native"
  BY <1>1, <1>2, <1>3 DEF Types
<1>9. Placed({})' /\ io' \cup Queued' \subseteq members' \cup fsms'
  <2>1. t \notin fsms
    BY <1>1, GroupAssumption DEF Types
  <2>2. QED BY <1>1, <1>3, <2>1 DEF Placed
<1>10. CASE NextInCharge = {}
  <2>1. members' = {} /\ need_schedule' = {} /\ \A u \in Threads : sched_sem'[u] = 0
    BY <1>2, <1>3, <1>4, <1>5, <1>10
  <2>2. Vacant'
    BY <1>1, <1>3, <1>8, <1>9, <2>1 DEF Vacant, Placed
  <2>3. QED BY <1>1, <1>3, <1>6, <1>7, <2>2
<1>11. CASE NextInCharge # {}
  <2>1. PICK u \in members' : NextInCharge = {u}
    BY <1>4, <1>5, <1>11
  <2>2. need_schedule' = {u} /\ \A v \in Threads : sched_sem'[v] = IF v = u THEN 1 ELSE 0
    BY <1>2, <1>3, <2>1
  <2>3. Placed({u} \ need_schedule)'
    BY <1>9, <2>2 DEF Placed
  <2>4. Handed(u)'
    BY <1>8, <1>9, <2>1, <2>2, <2>3 DEF Handed
  <2>5. QED BY <1>1, <1>3, <1>6, <1>7, <2>4
<1>12. QED BY <1>10, <1>11

\* co_block of the running thread when it need not wait.
LEMMA BlockReadyStep ==
  ASSUME NEW t \in Threads, Held(t), pc[t] = "running",
         NEW onIo \in BOOLEAN, BlockReady(t, onIo)
  PROVE  Held(t)' /\ UNCHANGED members
<1> DEFINE Io == IF onIo THEN io \cup {t} ELSE io
<1>1. /\ Lists /\ Types /\ Placed({t}) /\ t \in members /\ t \in Tasks
      /\ io \cup Queued \subseteq Ready \cup Blocked
      /\ t \notin Ready \cup Blocked
  BY HeldIs, HeldPlaces DEF Held, Holds
<1>2. PICK seq \in IoEvents(Io) :
        LET readied == Readied(ready_list, seq) IN
        /\ block_list' = Without(block_list, ToSet(seq))
        /\ woken' = [WokenOther(ToSet(seq)) EXCEPT ![t] = "queue"]
        /\ \/ /\ readied = << >>
              /\ io' = io \ ({t} \cup ToSet(seq))
              /\ UNCHANGED <<ready_list, pc>>
           \/ /\ readied # << >>
              /\ ready_list' = Readied(readied, <<t>>)
              /\ io' = Io \ ToSet(seq)
              /\ pc' = [pc EXCEPT ![t] = "schedule"]
        /\ UNCHANGED <<wq, members, sched_sem, need_schedule, interrupted, fsms>>
  BY DEF BlockReady
<1>3. Io \subseteq Tasks /\ io \subseteq Io /\ Io \subseteq io \cup {t}
  BY <1>1 DEF Types
<1> HIDE DEF Io
<1> DEFINE S == ToSet(seq)
           readied == Readied(ready_list, seq)
<1>4. seq \in Seq(Tasks) /\ Once(seq) /\ S \subseteq Io
  BY <1>3, IoEventsAre
<1>5. readied \in Seq(Tasks) /\ Once(readied) /\ ToSet(readied) = Ready \cup S
  BY <1>1, <1>4, ReadiedIs DEF Lists, Ready
<1>6. block_list' \in Seq(Tasks) /\ Once(block_list') /\ Blocked' = Blocked \ S
  BY <1>1, <1>2, WithoutIs DEF Lists, Blocked
<1>7. /\ woken' = [WokenOther(S) EXCEPT ![t] = "queue"] /\ Queued' = Queued
      /\ UNCHANGED <<wq, members, sched_sem, need_schedule, interrupted, fsms>>
  BY <1>2 DEF Queued
<1>8. /\ woken' \in [Tasks -> {"not", "queue", "other"}]
      /\ \A k \in Tasks : woken'[k] # "not" <=> woken[k] # "not" \/ k \in S \cup {t}
  BY <1>1, <1>7 DEF Types, WokenOther
<1>9. members \cup fsms \subseteq Tasks /\ t \notin fsms
  BY <1>1, GroupAssumption DEF Types, Tasks
<1>10. CASE readied = << >> /\ io' = io \ ({t} \cup S) /\ UNCHANGED <<ready_list, pc>>
  <2>1. Ready = {} /\ S = {} /\ Ready' = Ready
    <3>1. ToSet(readied) = {}
      BY <1>5, <1>10, EmptyList
    <3>2. QED BY <1>5, <1>10, <3>1 DEF Ready
  <2>2. Placed({t})'
    BY <1>1, <1>6, <1>7, <1>8, <1>9, <2>1 DEF Placed
  <2>3. Lists' /\ Types'
    BY <1>1, <1>6, <1>7, <1>8, <1>10 DEF Lists, Types
  <2>4. io' \cup Queued' \subseteq Ready' \cup Blocked'
    BY <1>1, <1>6, <1>7, <1>10, <2>1
  <2>5. /\ pc'[t] = "running" /\ \A u \in Threads \ {t} : pc'[u] = pc[u]
        /\ UNCHANGED <<members, sched_sem, need_schedule>>
    BY <1>7, <1>10
  <2>6. Held(t)'
    BY <2>2, <2>3, <2>4, <2>5, StillHeld
  <2>7. QED BY <1>7, <2>6
<1>11. CASE /\ ready_list' = Readied(readied, <<t>>) /\ io' = Io \ S
            /\ pc' = [pc EXCEPT ![t] = "schedule"]
  <2>1. <<t>> \in Seq(Tasks) /\ Once(<<t>>) /\ ToSet(<<t>>) = {t}
    BY <1>1 DEF Once, ToSet
  <2>2. /\ ready_list' \in Seq(Tasks) /\ Once(ready_list')
        /\ Ready' = Ready \cup S \cup {t}
    <3> HIDE DEF S, readied
    <3>1. /\ Readied(readied, <<t>>) \in Seq(Tasks) /\ Once(Readied(readied, <<t>>))
          /\ ToSet(Readied(readied, <<t>>)) = ToSet(readied) \cup {t}
      <4> DEFINE self == <<t>>
      <4>1. /\ readied \in Seq(Tasks) /\ Once(readied)
            /\ self \in Seq(Tasks) /\ Once(self) /\ ToSet(self) = {t}
        BY <1>5, <2>1
      <4> HIDE DEF self
      <4>2. /\ Readied(readied, self) \in Seq(Tasks) /\ Once(Readied(readied, self))
            /\ ToSet(Readied(readied, self)) = ToSet(readied) \cup ToSet(self)
        BY <4>1, ReadiedIs
      <4>3. QED BY <4>1, <4>2 DEF self
    <3>2. QED BY <1>5, <1>11, <3>1 DEF Ready
  <2>3. Placed({})'
    BY <1>1, <1>3, <1>4, <1>6, <1>7, <1>8, <1>9, <2>2 DEF Placed
  <2>4. Lists' /\ Types'
    BY <1>1, <1>3, <1>6, <1>7, <1>8, <1>11, <2>2 DEF Lists, Types
  <2>5. io' \cup Queued' \subseteq Ready' \cup Blocked'
    BY <1>1, <1>3, <1>6, <1>7, <1>11, <2>2
  <2>6. pc'[t] = "schedule" /\ \A u \in Threads \ {t} : pc'[u] = pc[u]
    BY <1>1, <1>11 DEF Types
  <2>7. Held(t)'
    BY <1>7, <2>3, <2>4, <2>5, <2>6, StillHeld
  <2>8. QED BY <1>7, <2>7
<1>12. QED BY <1>2, <1>10, <1>11

\* A task that exists and is not placed yet becomes ready.
LEMMA ComesIn ==
  ASSUME Lists, Types, NEW chosen, Placed(chosen), chosen \subseteq Threads,
         NEW k \in Tasks, k \notin members \cup fsms,
         ready_list' = Append(ready_list, k),
         woken' = [woken EXCEPT ![k] = "other"],
         members' \cup fsms' = members \cup fsms \cup {k},
         chosen \subseteq members,
         UNCHANGED block_list
  PROVE  /\ ready_list' \in Seq(Tasks) /\ Once(ready_list')
         /\ Ready' = Ready \cup {k} /\ Blocked' = Blocked
         /\ woken' \in [Tasks -> {"not", "queue", "other"}]
         /\ Placed(chosen)'
<1>1. k \notin Ready \cup Blocked
  BY DEF Placed
<1>2. /\ ready_list' \in Seq(Tasks) /\ Once(ready_list') /\ Ready' = Ready \cup {k}
  BY <1>1, AppendIs DEF Lists, Ready
<1>3. Blocked' = Blocked
  BY DEF Blocked
<1>4. woken' \in [Tasks -> {"not", "queue", "other"}]
  BY DEF Types
<1>5. \A j \in members \cup fsms \cup {k} :
        woken'[j] = IF j = k THEN "other" ELSE woken[j]
  BY DEF Types, Tasks
<1>6. Placed(chosen)'
  BY <1>1, <1>2, <1>3, <1>5 DEF Placed
<1>7. QED BY <1>2, <1>3, <1>4, <1>6

\* co_thread_create.
LEMMA ThreadCreateStep ==
  ASSUME NEW t \in Threads, NEW new \in Threads, Held(t), co_thread_create(t, new)
  PROVE  Held(t)' /\ new \notin members /\ members' = members \cup {new}
<1>1. /\ Lists /\ Types /\ Placed({t}) /\ t \in members
      /\ io \cup Queued \subseteq Ready \cup Blocked
      /\ \A u \in Threads \ {t} : pc[u] = IF u \in members THEN "wait" ELSE "native"
      /\ \A u \in Threads : sched_sem[u] = 0
      /\ need_schedule = {} /\ pc[t] = "running"
  BY HeldIs DEF Held, Holds, co_thread_create
<1>2. new \in Tasks /\ new \notin members \cup fsms /\ new # t
  BY <1>1, GroupAssumption DEF co_thread_create, Types, Tasks
<1>3. /\ members' = members \cup {new} /\ pc' = [pc EXCEPT ![new] = "wait"]
      /\ ready_list' = Append(ready_list, new)
      /\ woken' = [woken EXCEPT ![new] = "other"]
      /\ UNCHANGED <<block_list, sched_sem, need_schedule, interrupted, fsms, io, wq>>
  BY DEF co_thread_create
<1>4. /\ ready_list' \in Seq(Tasks) /\ Once(ready_list')
      /\ Ready' = Ready \cup {new} /\ Blocked' = Blocked
      /\ woken' \in [Tasks -> {"not", "queue", "other"}]
      /\ Placed({t})'
  BY <1>1, <1>2, <1>3, ComesIn
<1>5. Lists' /\ Types' /\ Queued' = Queued
  BY <1>1, <1>3, <1>4 DEF Lists, Types, Queued
<1>6. /\ pc'[t] = "running"
      /\ \A u \in Threads \ {t} : pc'[u] = IF u \in members' THEN "wait" ELSE "native"
  BY <1>1, <1>2, <1>3 DEF Types
<1>7. Placed(IF pc[t] = "running" THEN {t} ELSE {})'
  BY <1>4, <1>6 DEF Placed
<1>8. io' \cup Queued' \subseteq Ready' \cup Blocked' /\ t \in members'
  BY <1>1, <1>3, <1>4, <1>5
<1>9. QED BY <1>1, <1>2, <1>3, <1>5, <1>6, <1>7, <1>8 DEF Held, Holds

\* A native thread joins the group: alone it runs, and otherwise it waits.
LEMMA JoinStep ==
  ASSUME NEW t \in Threads, InvG, join_coop_group(t)
  PROVE  /\ t \notin members /\ members' = members \cup {t}
         /\ Lists' /\ Types'
         /\ members = {} => Holds(t)'
         /\ \A u \in Threads : (Holds(u) => Holds(u)') /\ (Handed(u) => Handed(u)')
<1>1. Lists /\ Types
  BY DEF InvG
<1>2. /\ pc[t] = "native" /\ members' = members \cup {t}
      /\ woken' = [woken EXCEPT ![t] = "other"]
      /\ UNCHANGED <<block_list, sched_sem, need_schedule, fsms, io, wq>>
      /\ Blocked' = Blocked /\ Queued' = Queued
  BY DEF join_coop_group, Blocked, Queued
<1>3. t \notin members /\ t \in Tasks /\ t \notin members \cup fsms
  BY <1>1, <1>2, GroupAssumption DEF InvG, Types, Tasks, Holds, Handed, Vacant
<1>4. CASE members = {}
  <2>1. Vacant
    BY <1>4 DEF InvG, Holds, Handed
  <2>2. /\ pc' = [pc EXCEPT ![t] = "running"] /\ Ready' = Ready
        /\ UNCHANGED <<ready_list, interrupted>>
    BY <1>4 DEF join_coop_group, Ready
  <2>3. Lists' /\ Types'
    BY <1>1, <1>2, <1>3, <2>2 DEF Lists, Types
  <2>4. Placed({t})'
    <3>1. \A j \in members \cup fsms \cup {t} :
            woken'[j] = IF j = t THEN "other" ELSE woken[j]
      BY <1>1, <1>2, <1>3 DEF Types, Tasks
    <3>2. QED BY <1>2, <1>3, <2>1, <2>2, <3>1 DEF Placed, Vacant
  <2>5. /\ pc'[t] = "running" /\ t \in members'
        /\ \A u \in Threads \ {t} : pc'[u] = IF u \in members' THEN "wait" ELSE "native"
    BY <1>1, <1>2, <1>4, <2>1, <2>2 DEF Types, Vacant
  <2>6. Placed(IF pc[t] = "running" THEN {t} ELSE {})'
    BY <2>4, <2>5 DEF Placed
  <2>7. /\ \A u \in Threads : sched_sem'[u] = 0
        /\ need_schedule' = {} /\ io' \cup Queued' \subseteq Ready' \cup Blocked'
    BY <1>2, <2>1, <2>2 DEF Vacant
  <2>8. Holds(t)'
    BY <2>5, <2>6, <2>7 DEF Holds
  <2>9. QED BY <1>2, <1>3, <1>4, <2>3, <2>8 DEF Holds, Handed
<1>5. CASE members # {}
  <2>1. /\ pc' = [pc EXCEPT ![t] = "wait"] /\ ready_list' = Append(ready_list, t)
        /\ interrupted' \in BOOLEAN
    BY <1>1, <1>5 DEF join_coop_group, Types
  <2>2. ASSUME NEW chosen \in SUBSET members, Placed(chosen)
        PROVE  /\ ready_list' \in Seq(Tasks) /\ Once(ready_list')
               /\ Ready' = Ready \cup {t} /\ Blocked' = Blocked
               /\ woken' \in [Tasks -> {"not", "queue", "other"}]
               /\ Placed(chosen)'
    <3>1. chosen \subseteq Threads
      BY <1>1 DEF Types
    <3>2. QED BY <1>1, <1>2, <1>3, <2>1, <2>2, <3>1, ComesIn
  <2>3. \A u \in Threads \ {t} : pc'[u] = pc[u] /\ (u \in members' <=> u \in members)
    BY <1>2, <2>1, <1>1 DEF Types
  <2>4. pc'[t] = "wait" /\ t \in members'
    BY <1>1, <1>2, <2>1 DEF Types
  <2>5. ASSUME NEW u \in Threads, Holds(u)
        PROVE  Lists' /\ Types' /\ Holds(u)'
    <3>1. PICK chosen \in SUBSET members :
            Placed(chosen) /\ chosen = IF pc[u] = "running" THEN {u} ELSE {}
      BY <2>5 DEF Holds
    <3>2. Lists' /\ Types'
      BY <1>1, <1>2, <1>3, <2>1, <2>2, <3>1 DEF Lists, Types
    <3>3. u # t /\ pc'[u] = pc[u] /\ u \in members'
      BY <1>3, <2>3, <2>5 DEF Holds
    <3>4. Placed(IF pc[u] = "running" THEN {u} ELSE {})'
      BY <2>2, <3>1, <3>3 DEF Placed
    <3>5. io' \cup Queued' \subseteq Ready' \cup Blocked'
      BY <1>2, <2>2, <2>5, <3>1 DEF Holds
    <3>6. \A v \in Threads \ {u} : pc'[v] = IF v \in members' THEN "wait" ELSE "native"
      BY <2>3, <2>4, <2>5 DEF Holds
    <3>7. QED BY <1>2, <2>5, <3>2, <3>3, <3>4, <3>5, <3>6 DEF Holds
  <2>6. ASSUME NEW u \in Threads, Handed(u)
        PROVE  Lists' /\ Types' /\ Handed(u)'
    <3>1. PICK chosen \in SUBSET members :
            Placed(chosen) /\ chosen = {u} \ need_schedule
      BY <2>6 DEF Handed
    <3>2. Lists' /\ Types'
      BY <1>1, <1>2, <1>3, <2>1, <2>2, <3>1 DEF Lists, Types
    <3>3. Placed({u} \ need_schedule)'
      <4>1. Placed(chosen)'
        BY <2>2, <3>1
      <4>2. chosen = {u} \ need_schedule'
        BY <1>2, <3>1
      <4>3. QED BY <4>1, <4>2 DEF Placed
    <3>4. \A v \in Threads : pc'[v] = IF v \in members' THEN "wait" ELSE "native"
      BY <2>3, <2>4, <2>6 DEF Handed
    <3>5. QED BY <1>2, <2>6, <3>2, <3>3, <3>4 DEF Handed
  <2>7. QED BY <1>2, <1>3, <1>5, <2>5, <2>6 DEF InvG, Vacant
<1>6. QED BY <1>4, <1>5

\* co_fsm_create, and the thread for FSMs comes in with the first one.
LEMMA FsmCreateStep ==
  ASSUME NEW t \in Threads, NEW f \in Fsms, Held(t), co_fsm_create(t, f)
  PROVE  Held(t)' /\ members' = members \cup {FsmThread}
<1> DEFINE T == {FsmThread} \ members
           thread == IF FsmThread \in members THEN << >> ELSE <<FsmThread>>
<1>1. /\ Lists /\ Types /\ Placed({t}) /\ t \in members
      /\ io \cup Queued \subseteq Ready \cup Blocked
      /\ \A u \in Threads \ {t} : pc[u] = IF u \in members THEN "wait" ELSE "native"
      /\ \A u \in Threads : sched_sem[u] = 0
      /\ need_schedule = {} /\ pc[t] = "running"
  BY HeldIs DEF Held, Holds, co_fsm_create
<1>2. /\ f \in Tasks /\ f \notin members \cup fsms /\ FsmThread \in Threads
      /\ FsmThread \in Tasks /\ FsmThread # t /\ f # FsmThread /\ FsmThread \notin fsms
  BY <1>1, GroupAssumption DEF co_fsm_create, Types, Tasks
<1>3. /\ fsms' = fsms \cup {f} /\ members' = members \cup {FsmThread}
      /\ ready_list' = ready_list \o <<f>> \o thread
      /\ pc' = IF thread = << >> THEN pc ELSE [pc EXCEPT ![FsmThread] = "wait"]
      /\ woken' = [k \in Tasks |-> IF k = f \/ Contains(thread, k) THEN "other" ELSE woken[k]]
      /\ UNCHANGED <<block_list, sched_sem, need_schedule, interrupted, io, wq>>
  BY DEF co_fsm_create
<1>4. /\ <<f>> \in Seq(Tasks) /\ Once(<<f>>) /\ ToSet(<<f>>) = {f}
      /\ thread \in Seq(Tasks) /\ Once(thread) /\ ToSet(thread) = T
  BY <1>2 DEF Once, ToSet
<1>5. thread = << >> <=> FsmThread \in members
  BY <1>4, EmptyList
<1> HIDE DEF thread
<1>6. Ready \cap (T \cup {f}) = {} /\ Blocked \cap (T \cup {f}) = {} /\ f \notin T
  BY <1>1, <1>2 DEF Placed
<1>7. /\ ready_list' \in Seq(Tasks) /\ Once(ready_list')
      /\ Ready' = Ready \cup {f} \cup T
  <2> DEFINE one == <<f>>
             both == ready_list \o one
  <2>1. (Ready \cup {f}) \cap T = {} /\ Ready \cap {f} = {}
    BY <1>6
  <2>2. one \in Seq(Tasks) /\ Once(one) /\ ToSet(one) = {f}
    BY <1>4
  <2>3. ready_list' = both \o thread
    BY <1>3
  <2> HIDE DEF T, one
  <2>4. both \in Seq(Tasks) /\ Once(both) /\ ToSet(both) = Ready \cup {f}
    BY <1>1, <2>1, <2>2, JoinedIs DEF Lists, Ready
  <2> HIDE DEF both
  <2>5. /\ both \o thread \in Seq(Tasks) /\ Once(both \o thread)
        /\ ToSet(both \o thread) = (Ready \cup {f}) \cup T
    BY <1>4, <2>1, <2>4, JoinedIs
  <2>6. QED BY <2>3, <2>5 DEF Ready
<1>8. \A k \in Tasks : woken'[k] = IF k \in T \cup {f} THEN "other" ELSE woken[k]
  <2>1. \A k \in Tasks : Contains(thread, k) <=> k \in T
    BY <1>4, ContainsIs
  <2> HIDE DEF T
  <2>2. QED BY <1>3, <2>1
<1>9. woken' \in [Tasks -> {"not", "queue", "other"}]
  BY <1>1, <1>3 DEF Types
<1>10. Blocked' = Blocked /\ Queued' = Queued
  BY <1>3 DEF Blocked, Queued
<1>11. Lists' /\ Types'
  <2>1. pc' \in [Threads -> {"native", "running", "schedule", "poll", "wait"}]
    BY <1>1, <1>3 DEF Types
  <2>2. QED BY <1>1, <1>2, <1>3, <1>7, <1>9, <2>1 DEF Lists, Types
<1>12. members \cup fsms \subseteq Tasks /\ members' \cup fsms' = (members \cup fsms) \cup (T \cup {f})
  BY <1>1, <1>3 DEF Types, Tasks
<1>13. Placed({t})'
  <2>1. T \cup {f} \subseteq Tasks /\ t \notin T \cup {f}
    BY <1>1, <1>2
  <2> HIDE DEF T
  <2>2. \A k \in members \cup fsms : k \in Ready \cup {t} <=> woken[k] # "not"
    BY <1>1 DEF Placed
  <2>3. \A k \in members' \cup fsms' : k \in Ready' \cup {t} <=> woken'[k] # "not"
    BY <1>6, <1>7, <1>8, <1>12, <2>1, <2>2
  <2>4. Ready' \cap Blocked' = {}
    BY <1>1, <1>6, <1>7, <1>10 DEF Placed
  <2>5. Ready' \cup Blocked' = (members' \cup fsms') \ {t}
    BY <1>1, <1>7, <1>10, <1>12, <2>1 DEF Placed
  <2>6. QED BY <2>3, <2>4, <2>5 DEF Placed
<1>14. /\ pc'[t] = "running"
       /\ \A u \in Threads \ {t} : pc'[u] = IF u \in members' THEN "wait" ELSE "native"
  BY <1>1, <1>2, <1>3, <1>5 DEF Types
<1>15. Placed(IF pc[t] = "running" THEN {t} ELSE {})'
  BY <1>13, <1>14 DEF Placed
<1>16. io' \cup Queued' \subseteq Ready' \cup Blocked' /\ t \in members'
  BY <1>1, <1>3, <1>7, <1>10
<1>17. QED BY <1>1, <1>3, <1>11, <1>14, <1>15, <1>16 DEF Held, Holds

\* co_fsm_kill.
LEMMA FsmKillStep ==
  ASSUME NEW t \in Threads, NEW f \in Fsms, Held(t), co_fsm_kill(t, f)
  PROVE  Held(t)' /\ UNCHANGED members
<1>1. /\ Lists /\ Types /\ Placed({t}) /\ io \cup Queued \subseteq Ready \cup Blocked
      /\ pc[t] = "running"
  BY HeldIs DEF Held, Holds, co_fsm_kill
<1>2. /\ fsms' = fsms \ {f} /\ ready_list' = Without(ready_list, {f})
      /\ block_list' = Without(block_list, {f}) /\ io' = io \ {f}
      /\ wq' = Without(wq, {f}) /\ woken' = [woken EXCEPT ![f] = "not"]
      /\ UNCHANGED <<members, pc, sched_sem, need_schedule, interrupted>>
  BY DEF co_fsm_kill, tokens
<1>3. /\ Lists'
      /\ Ready' = Ready \ {f} /\ Blocked' = Blocked \ {f} /\ Queued' = Queued \ {f}
  BY <1>1, <1>2, WithoutIs DEF Lists, Ready, Blocked, Queued
<1>4. Types'
  BY <1>1, <1>2 DEF Types
<1>5. f # t /\ f \notin members /\ members \cup fsms \subseteq Tasks
  BY <1>1, GroupAssumption DEF Types, Tasks
<1>6. Placed({t})'
  BY <1>1, <1>2, <1>3, <1>5 DEF Placed, Types
<1>7. io' \cup Queued' \subseteq Ready' \cup Blocked'
  BY <1>1, <1>2, <1>3
<1>8. pc'[t] = "running" /\ \A u \in Threads \ {t} : pc'[u] = pc[u]
  BY <1>1, <1>2
<1>9. QED BY <1>2, <1>3, <1>4, <1>6, <1>7, <1>8, StillHeld

\* wait_sem returns, in the thread that has been handed the group.
LEMMA AwakeStep ==
  ASSUME NEW t \in Threads, Lists, Types, Handed(t), Awake(t)
  PROVE  Held(t)' /\ UNCHANGED members
<1>1. /\ Placed({t} \ need_schedule) /\ need_schedule \subseteq {t} /\ t \in members
      /\ io \cup Queued \subseteq members \cup fsms
      /\ \A u \in Threads \ {t} : pc[u] = IF u \in members THEN "wait" ELSE "native"
      /\ \A u \in Threads : sched_sem[u] = IF u = t THEN 1 ELSE 0
  BY DEF Handed
<1>2. /\ sched_sem' = [sched_sem EXCEPT ![t] = @ - 1]
      /\ need_schedule' = need_schedule \ {t}
      /\ UNCHANGED <<ready_list, block_list, members, interrupted, woken, fsms>>
      /\ Ready' = Ready /\ Blocked' = Blocked
  BY DEF Awake, lists, Ready, Blocked
<1>3. /\ need_schedule' = {} /\ \A u \in Threads : sched_sem'[u] = 0
      /\ sched_sem' \in [Threads -> 0..1]
  BY <1>1, <1>2 DEF Types
<1>4. CASE t \in need_schedule
  <2>1. pc' = [pc EXCEPT ![t] = "schedule"] /\ UNCHANGED <<io, wq>> /\ Queued' = Queued
    BY <1>4 DEF Awake, Queued
  <2>2. Placed({})
    BY <1>1, <1>4 DEF Placed
  <2>3. Placed(IF pc[t] = "running" THEN {t} ELSE {})'
    BY <1>2, <2>1, <2>2 DEF Placed, Types
  <2>4. io' \cup Queued' \subseteq Ready' \cup Blocked'
    BY <1>1, <1>2, <2>1, <2>2 DEF Placed
  <2>5. Lists' /\ Types'
    BY <1>2, <1>3, <2>1 DEF Lists, Types
  <2>6. /\ pc'[t] = "schedule" /\ t \in members'
        /\ \A u \in Threads \ {t} : pc'[u] = IF u \in members' THEN "wait" ELSE "native"
    BY <1>1, <1>2, <2>1 DEF Types
  <2>7. QED BY <1>2, <1>3, <2>3, <2>4, <2>5, <2>6 DEF Held, Holds
<1>5. CASE t \notin need_schedule
  <2>1. /\ pc' = [pc EXCEPT ![t] = "running"] /\ io' = io \ {t} /\ wq' = Without(wq, {t})
    BY <1>5 DEF Awake, Resumed
  <2>2. Placed({t})
    BY <1>1, <1>5 DEF Placed
  <2>3. Placed(IF pc[t] = "running" THEN {t} ELSE {})'
    BY <1>2, <2>1, <2>2 DEF Placed, Types
  <2>4. wq' \in Seq(Tasks) /\ Once(wq') /\ Queued' = Queued \ {t}
    BY <2>1, WithoutIs DEF Lists, Queued
  <2>5. io' \cup Queued' \subseteq Ready' \cup Blocked'
    BY <1>1, <1>2, <2>1, <2>2, <2>4 DEF Placed
  <2>6. Lists' /\ Types'
    BY <1>2, <1>3, <2>1, <2>4 DEF Lists, Types
  <2>7. /\ pc'[t] = "running" /\ t \in members'
        /\ \A u \in Threads \ {t} : pc'[u] = IF u \in members' THEN "wait" ELSE "native"
    BY <1>1, <1>2, <2>1 DEF Types
  <2>8. QED BY <1>2, <1>3, <2>3, <2>5, <2>6, <2>7 DEF Held, Holds
<1>6. QED BY <1>4, <1>5

\* The FSM that runs exists and is ready or blocked.
LEMMA RunsIs ==
  ASSUME NEW t \in Threads, NEW f \in Fsms, Held(t), RunsFsm(t, f)
  PROVE  /\ f \in fsms /\ f \in Tasks /\ f # t /\ f \notin members
         /\ f \in Ready \cup Blocked
         /\ pc[t] \in {"running", "schedule"}
<1>1. Types /\ Lists
  BY DEF Held
<1>2. f \in Tasks /\ f \notin Threads
  BY GroupAssumption DEF Tasks
<1>3. pc[t] \in {"running", "schedule"}
  BY DEF RunsFsm
<1>4. f \in fsms
  <2>1. CASE pc[t] = "schedule" /\ ready_list # << >> /\ Head(ready_list) = f
    <3>1. f \in Ready /\ Placed({})
      BY <1>1, <2>1, TailIs, HeldIs DEF Lists, Ready
    <3>2. QED BY <1>1, <1>2, <3>1 DEF Placed, Types
  <2>2. CASE f \in fsms
    BY <2>2
  <2>3. QED BY <2>1, <2>2 DEF RunsFsm
<1>5. f # t /\ f \notin members
  BY <1>1, <1>2 DEF Types
<1>6. f \in Ready \cup Blocked
  BY <1>3, <1>4, <1>5, HeldIs DEF Placed
<1>7. QED BY <1>2, <1>3, <1>4, <1>5, <1>6

\* An FSM's function runs: it wakes the first n others in the queue, and ends.
LEMMA RunFsmStep ==
  ASSUME NEW t \in Threads, NEW f \in Fsms, Held(t), RunsFsm(t, f),
         NEW n \in 0..Len(Without(wq, {f})), NEW ending \in Endings,
         run_fsm(f, n, ending)
  PROVE  Held(t)' /\ UNCHANGED members
<1> DEFINE queue == Without(wq, {f})
           first == SubSeq(queue, 1, n)
           rest == SubSeq(queue, n + 1, Len(queue))
           F == ToSet(first)
           readied == Readied(Without(ready_list, {f}), first)
           blocked == Without(block_list, {f} \cup F)
           blocks == ending \in {"rest", "io", "queue", "io+queue"}
<1>1. /\ ready_list' = IF ending = "yield" THEN Append(readied, f) ELSE readied
      /\ block_list' = IF blocks THEN Append(blocked, f) ELSE blocked
      /\ io' = IF ending \in {"io", "io+queue"} THEN io \cup {f} ELSE io \ {f}
      /\ wq' = IF ending \in {"queue", "io+queue"} THEN Append(rest, f) ELSE rest
      /\ woken' = [WokenQueue(F) EXCEPT ![f] = IF ending = "yield" THEN "other" ELSE "not"]
      /\ fsms' = IF ending = "exit" THEN fsms \ {f} ELSE fsms
      /\ UNCHANGED <<members, pc, sched_sem, need_schedule, interrupted>>
  BY DEF run_fsm
<1>2. /\ Lists /\ Types /\ io \cup Queued \subseteq Ready \cup Blocked
      /\ pc[t] \in {"running", "schedule", "poll"}
  BY DEF Held, Holds
<1>3. f \in fsms /\ f \in Tasks /\ f # t /\ f \notin members /\ f \in Ready \cup Blocked
  BY RunsIs
<1>4. queue \in Seq(Tasks) /\ Once(queue) /\ ToSet(queue) = Queued \ {f}
  BY <1>2, WithoutIs DEF Lists, Queued
<1> HIDE DEF queue
<1>5. /\ first \in Seq(Tasks) /\ Once(first) /\ rest \in Seq(Tasks) /\ Once(rest)
      /\ F \cup ToSet(rest) = Queued \ {f} /\ F \cap ToSet(rest) = {}
  <2>1. n \in 0..Len(queue)
    BY DEF queue
  <2>2. /\ first \in Seq(Tasks) /\ Once(first) /\ rest \in Seq(Tasks) /\ Once(rest)
        /\ F \cap ToSet(rest) = {} /\ F \cup ToSet(rest) = ToSet(queue)
    BY <1>4, <2>1, CutIs
  <2>3. QED BY <1>4, <2>2
<1> HIDE DEF first, rest
<1>6. /\ readied \in Seq(Tasks) /\ Once(readied) /\ ToSet(readied) = (Ready \ {f}) \cup F
      /\ blocked \in Seq(Tasks) /\ Once(blocked)
      /\ ToSet(blocked) = (Blocked \ {f}) \ F
  <2> DEFINE others == Without(ready_list, {f})
  <2>1. others \in Seq(Tasks) /\ Once(others) /\ ToSet(others) = Ready \ {f}
    BY <1>2, WithoutIs DEF Lists, Ready
  <2>2. readied = Readied(others, first)
    OBVIOUS
  <2> HIDE DEF others, readied
  <2>3. readied \in Seq(Tasks) /\ Once(readied) /\ ToSet(readied) = (Ready \ {f}) \cup F
    BY <1>5, <2>1, <2>2, ReadiedIs
  <2>4. /\ blocked \in Seq(Tasks) /\ Once(blocked)
        /\ ToSet(blocked) = Blocked \ ({f} \cup F)
    BY <1>2, WithoutIs DEF Lists, Blocked
  <2>5. QED BY <2>3, <2>4
<1> HIDE DEF readied, blocked
<1>7. f \notin F /\ F \subseteq Tasks /\ f \notin ToSet(rest)
  BY <1>4, <1>5, OfType
<1> HIDE DEF F
<1> DEFINE yields == ending = "yield"
           queues == ending \in {"queue", "io+queue"}
<1>8. /\ ready_list' \in Seq(Tasks) /\ Once(ready_list')
      /\ Ready' = (Ready \ {f}) \cup F \cup (IF yields THEN {f} ELSE {})
  <2>1. /\ Append(readied, f) \in Seq(Tasks) /\ Once(Append(readied, f))
        /\ ToSet(Append(readied, f)) = ToSet(readied) \cup {f}
    BY <1>3, <1>6, <1>7, AppendIs
  <2>2. QED BY <1>1, <1>6, <2>1 DEF Ready
<1>9. /\ block_list' \in Seq(Tasks) /\ Once(block_list')
      /\ Blocked' = ((Blocked \ {f}) \ F) \cup (IF blocks THEN {f} ELSE {})
  <2>1. /\ Append(blocked, f) \in Seq(Tasks) /\ Once(Append(blocked, f))
        /\ ToSet(Append(blocked, f)) = ToSet(blocked) \cup {f}
    BY <1>3, <1>6, AppendIs
  <2>2. QED BY <1>1, <1>6, <2>1 DEF Blocked
<1>10. /\ wq' \in Seq(Tasks) /\ Once(wq')
       /\ Queued' \subseteq (Queued \ {f}) \cup (IF queues THEN {f} ELSE {})
  <2>1. /\ Append(rest, f) \in Seq(Tasks) /\ Once(Append(rest, f))
        /\ ToSet(Append(rest, f)) = ToSet(rest) \cup {f}
    BY <1>3, <1>5, <1>7, AppendIs
  <2>2. QED BY <1>1, <1>5, <2>1 DEF Queued
<1>11. /\ yields => ~blocks /\ ~queues
       /\ queues \/ ending \in {"io", "io+queue"} => blocks
       /\ ending = "exit" => ~yields /\ ~blocks
       /\ yields \/ blocks \/ ending = "exit"
  BY DEF Endings
<1>12. woken' \in [Tasks -> {"not", "queue", "other"}]
  BY <1>1, <1>2 DEF Types, WokenQueue
<1>13. \A k \in Tasks : woken'[k] # "not" <=>
         IF k = f THEN yields ELSE woken[k] # "not" \/ k \in F
  BY <1>1, <1>2, <1>3 DEF Types, WokenQueue
<1>14. Lists' /\ Types'
  BY <1>1, <1>2, <1>3, <1>8, <1>9, <1>10, <1>12 DEF Lists, Types
<1>15. members \cup fsms \subseteq Tasks /\ F \subseteq (Ready \cup Blocked) \ {f}
  BY <1>2, <1>5, <1>7 DEF Types, Tasks
<1>16. fsms' = fsms \ (IF ending = "exit" THEN {f} ELSE {})
  BY <1>1
<1>17. ASSUME NEW chosen \in SUBSET {t}, Placed(chosen) PROVE Placed(chosen)'
  <2>1. /\ Ready \cap Blocked = {} /\ Ready \cup Blocked = (members \cup fsms) \ chosen
        /\ \A k \in members \cup fsms : k \in Ready \cup chosen <=> woken[k] # "not"
    BY <1>17 DEF Placed
  <2> HIDE DEF yields, blocks, queues
  <2>2. Ready' \cap Blocked' = {}
    BY <1>7, <1>8, <1>9, <1>11, <2>1
  <2>3. Ready' \cup Blocked' = (members' \cup fsms') \ chosen
    BY <1>1, <1>3, <1>8, <1>9, <1>11, <1>15, <1>16, <2>1
  <2>4. \A k \in members' \cup fsms' : k \in Ready' \cup chosen <=> woken'[k] # "not"
    BY <1>1, <1>3, <1>8, <1>11, <1>13, <1>15, <1>16, <2>1
  <2>5. QED BY <2>2, <2>3, <2>4 DEF Placed
<1>18. io' \cup Queued' \subseteq Ready' \cup Blocked'
  <2>1. io' \subseteq (io \ {f}) \cup (IF blocks THEN {f} ELSE {})
    BY <1>1
  <2>2. queues => blocks
    OBVIOUS
  <2> HIDE DEF yields, blocks, queues
  <2>3. QED BY <1>2, <1>8, <1>9, <1>10, <2>1, <2>2
<1>19. pc'[t] = pc[t] /\ \A u \in Threads \ {t} : pc'[u] = pc[u]
  BY <1>1
<1>20. Held(t)'
  <2>1. pc'[t] = "running" => Placed({t})'
    BY <1>17, <1>19, HeldIs
  <2>2. pc'[t] # "running" => Placed({})'
    BY <1>17, <1>19, HeldIs
  <2>3. UNCHANGED <<members, sched_sem, need_schedule>>
    BY <1>1
  <2>4. QED BY <1>2, <1>14, <1>18, <1>19, <2>1, <2>2, <2>3, StillHeld
<1>21. QED BY <1>1, <1>20

-----------------------------------------------------------------------------
(* Steps of the group and of the objects                                   *)

\* An operation wakes no more tasks than wait.
LEMMA WakesWaiting ==
  ASSUME Lists, kind \in AllKinds, NEW k \in Tasks, NEW op \in WakeOps(k)
  PROVE  /\ op.n \in 0..Len(Without(wq, {k}))
         /\ op.n \in 0..Len(wq)
<1> DEFINE q == Without(wq, {k})
<1>1. q \in Seq(Tasks) /\ Len(q) <= Len(wq) /\ Len(wq) \in Nat
  BY WithoutIs DEF Lists
<1>2. op \in CondOps(q) \/ op \in SemaOps(q) \/ op \in MutexOps(k, q)
      \/ op \in CompletionOps(q) \/ op \in BarrierOps(k, q)
  BY DEF WakeOps, AllKinds
<1> HIDE DEF q
<1>3. Len(q) \in Nat /\ (q # << >> => Len(q) > 0) /\ One(q) \in 0..Len(q)
  BY <1>1 DEF One
<1>4. op.n \in {0, One(q), Len(q)} \/ (op.n = 1 /\ q # << >>)
  BY <1>2 DEF CondOps, SemaOps, MutexOps, CompletionOps, BarrierOps, Op
<1>5. op.n \in 0..Len(q)
  BY <1>3, <1>4
<1>6. QED BY <1>1, <1>5 DEF q

InvS == InvG /\ kind \in AllKinds

\* Steps that leave the group to the thread that has it.
LEMMA StaysStep ==
  ASSUME InvS, NEW t \in Threads, Held(t), Held(t)', UNCHANGED <<members, kind>>
  PROVE  InvS' /\ UNCHANGED <<members, HasIt>>
<1>1. HasIt = {t} /\ HasIt' = {t}
  BY HasItIs, HasItAfter DEF Held
<1>2. QED BY <1>1 DEF InvS, InvG, Held

\* What the running thread does without giving way, and blocking.
LEMMA RunningStep ==
  ASSUME InvS, NEW t \in Threads, pc[t] \in {"running", "schedule", "poll"},
         UNCHANGED kind,
         \/ co_yield(t) \/ co_poll(t) \/ StartPoll(t) \/ DueTimers(t) \/ EndPoll(t)
         \/ ScheduleSelf(t) \/ Signal(t) \/ TryWait(t)
         \/ Wait(t, TRUE) \/ Wait(t, FALSE)
         \/ (pc[t] = "running" /\ Block(t, TRUE, FALSE))
         \/ (pc[t] = "running" /\ Block(t, FALSE, FALSE))
         \/ \E f \in Fsms : \/ co_fsm_wake(t, f) \/ co_fsm_kill(t, f)
                            \/ FsmSignals(t, f) \/ FsmWaits(t, f)
                            \/ \E e \in Endings : RunsFsm(t, f) /\ run_fsm(f, 0, e)
  PROVE  InvS' /\ UNCHANGED <<members, HasIt>>
<1>1. Held(t) /\ Lists /\ kind \in AllKinds /\ t \in Tasks
  <2>1. InvG /\ kind \in AllKinds
    BY DEF InvS
  <2>2. Holds(t)
    BY <2>1, WhoHolds
  <2>3. QED BY <2>1, <2>2 DEF InvG, Held, Tasks
<1>2. Held(t)' /\ UNCHANGED members => InvS' /\ UNCHANGED <<members, HasIt>>
  BY <1>1, StaysStep
<1>3. CASE co_yield(t)
  BY <1>1, <1>2, <1>3, YieldStep
<1>4. CASE co_poll(t) \/ DueTimers(t) \/ EndPoll(t)
  BY <1>1, <1>2, <1>4, PollSteps
<1>5. CASE StartPoll(t)
  BY <1>1, <1>2, <1>5, StartPollStep
<1>6. CASE ScheduleSelf(t)
  BY <1>1, <1>2, <1>6, ScheduleSelfStep
<1>7. CASE Signal(t)
  <2>1. PICK op \in WakeOps(t) : wake_n(op.n) /\ UNCHANGED tokens
    BY <1>7 DEF Signal
  <2>2. op.n \in 0..Len(wq)
    BY <1>1, WakesWaiting
  <2>3. QED BY <1>1, <1>2, <2>1, <2>2, WakeNStep
<1>8. CASE TryWait(t)
  <2>1. UNCHANGED <<ready_list, block_list, wq, members, pc, sched_sem, need_schedule,
                    interrupted, fsms, io, woken>>
    BY <1>8 DEF TryWait, vars, lists, tokens, events
  <2>2. Ready' = Ready /\ Blocked' = Blocked /\ Queued' = Queued
    BY <2>1 DEF Ready, Blocked, Queued
  <2>3. Held(t)'
    BY <1>1, <2>1, <2>2 DEF Held, Lists, Types, Holds, Placed
  <2>4. QED BY <1>2, <2>1, <2>3
<1>9. CASE Wait(t, TRUE) \/ Wait(t, FALSE)
  <2>1. PICK onIo \in BOOLEAN : Wait(t, onIo)
    BY <1>9
  <2>2. CASE BlockReady(t, onIo)
    BY <1>1, <1>2, <2>1, <2>2, BlockReadyStep DEF Wait
  <2>3. CASE Block(t, onIo, TRUE)
    BY <1>1, <1>2, <2>1, <2>3, BlockStep DEF Wait
  <2>4. QED BY <2>1, <2>2, <2>3 DEF Wait
<1>10. CASE pc[t] = "running" /\ Block(t, TRUE, FALSE)
  BY <1>1, <1>2, <1>10, BlockStep
<1>11. CASE pc[t] = "running" /\ Block(t, FALSE, FALSE)
  BY <1>1, <1>2, <1>11, BlockStep
<1>12. ASSUME NEW f \in Fsms, co_fsm_wake(t, f)
       PROVE  InvS' /\ UNCHANGED <<members, HasIt>>
  BY <1>1, <1>2, <1>12, FsmWakeStep
<1>13. ASSUME NEW f \in Fsms, co_fsm_kill(t, f)
       PROVE  InvS' /\ UNCHANGED <<members, HasIt>>
  BY <1>1, <1>2, <1>13, FsmKillStep
<1>14. ASSUME NEW f \in Fsms, NEW e \in Endings, RunsFsm(t, f), run_fsm(f, 0, e)
       PROVE  InvS' /\ UNCHANGED <<members, HasIt>>
  <2>1. 0 \in 0..Len(Without(wq, {f}))
    BY <1>1, WithoutIs DEF Lists
  <2>2. QED BY <1>1, <1>2, <1>14, <2>1, RunFsmStep
<1>15. ASSUME NEW f \in Fsms, FsmSignals(t, f)
       PROVE  InvS' /\ UNCHANGED <<members, HasIt>>
  <2>1. PICK op \in WakeOps(f), e \in Endings : run_fsm(f, op.n, e) /\ RunsFsm(t, f)
    BY <1>15 DEF FsmSignals, Endings
  <2>2. op.n \in 0..Len(Without(wq, {f}))
    BY <1>1, WakesWaiting DEF Tasks
  <2>3. QED BY <1>1, <1>2, <2>1, <2>2, RunFsmStep
<1>16. ASSUME NEW f \in Fsms, FsmWaits(t, f)
       PROVE  InvS' /\ UNCHANGED <<members, HasIt>>
  <2>1. PICK e \in Endings : run_fsm(f, 0, e) /\ RunsFsm(t, f)
    BY <1>16 DEF FsmWaits, Endings
  <2>2. QED BY <1>14, <2>1
<1>17. QED BY <1>3, <1>4, <1>5, <1>6, <1>7, <1>8, <1>9, <1>10, <1>11, <1>12, <1>13,
              <1>14, <1>15, <1>16

\* Every step keeps the invariant, and is one that OneRunner allows.
LEMMA NextStep ==
  ASSUME InvS, [Next]_varsS
  PROVE  InvS' /\ [OneRunnerSpec!Next]_(OneRunnerSpec!vars)
<1> DEFINE Allowed == [OneRunnerSpec!Next]_(OneRunnerSpec!vars)
<1>1. UNCHANGED <<members, HasIt>> => Allowed
  BY DEF OneRunnerSpec!vars, HasIt
<1>2. ASSUME NEW t \in Threads, t \notin members, members' = members \cup {t},
             HasIt' = IF members = {} THEN {t} ELSE HasIt
      PROVE  Allowed
  BY <1>2 DEF OneRunnerSpec!Next, OneRunnerSpec!Join, HasIt
<1>3. ASSUME HasIt # {}, NEW t \in members, HasIt' = {t}, UNCHANGED members
      PROVE  Allowed
  BY <1>3 DEF OneRunnerSpec!Next, OneRunnerSpec!HandOn, HasIt
<1>4. ASSUME NEW t \in Threads, HasIt = {t}, members' = members \ {t},
             \/ members' = {} /\ HasIt' = {}
             \/ \E u \in members' : HasIt' = {u}
      PROVE  Allowed
  BY <1>4 DEF OneRunnerSpec!Next, OneRunnerSpec!Leave, HasIt
<1> HIDE DEF Allowed
<1>5. InvG /\ Lists /\ Types /\ kind \in AllKinds
  BY DEF InvS, InvG
<1>6. ASSUME NEW t \in Threads, pc[t] \in {"running", "schedule", "poll"}
      PROVE  Held(t) /\ HasIt = {t} /\ t \in members
  <2>1. Holds(t)
    BY <1>5, <1>6, WhoHolds
  <2>2. QED BY <1>5, <2>1, HasItIs DEF Held, Holds
<1>7. ASSUME NEW t \in Threads, join_coop_group(t), UNCHANGED kind
      PROVE  InvS' /\ Allowed
  <2>1. /\ t \notin members /\ members' = members \cup {t} /\ Lists' /\ Types'
        /\ members = {} => Holds(t)'
        /\ \A u \in Threads : (Holds(u) => Holds(u)') /\ (Handed(u) => Handed(u)')
    BY <1>5, <1>7, JoinStep
  <2>2. CASE members = {}
    <3>1. InvS'
      BY <1>5, <1>7, <2>1, <2>2 DEF InvS, InvG
    <3>2. HasIt' = {t}
      BY <2>1, <2>2, HasItAfter
    <3>3. QED BY <1>2, <2>1, <2>2, <3>1, <3>2
  <2>3. CASE members # {}
    <3>1. PICK u \in Threads : Holds(u) \/ Handed(u)
      BY <1>5, <2>3 DEF InvG, Vacant
    <3>2. Holds(u)' \/ Handed(u)'
      BY <2>1, <3>1
    <3>3. HasIt = {u} /\ HasIt' = {u}
      BY <1>5, <2>1, <3>1, <3>2, HasItIs, HasItAfter
    <3>4. InvS'
      BY <1>5, <1>7, <2>1, <3>2 DEF InvS, InvG
    <3>5. QED BY <1>2, <2>1, <2>3, <3>3, <3>4
  <2>4. QED BY <2>2, <2>3
<1>8. ASSUME NEW t \in Threads, leave_coop_group(t), UNCHANGED kind
      PROVE  InvS' /\ Allowed
  <2>1. Held(t) /\ HasIt = {t}
    BY <1>6, <1>8 DEF leave_coop_group
  <2>2. /\ Lists' /\ Types' /\ members' = members \ {t}
        /\ Vacant' \/ \E u \in members' : Handed(u)'
    BY <1>8, <2>1, LeaveStep
  <2>3. members' \subseteq Threads
    BY <2>2 DEF Types
  <2>4. InvS'
    BY <1>5, <1>8, <2>2, <2>3 DEF InvS, InvG
  <2>5. CASE Vacant'
    <3>1. members' = {} /\ HasIt' = {}
      BY <2>2, <2>5, HasItAfter DEF Vacant
    <3>2. QED BY <1>4, <2>1, <2>2, <2>4, <3>1
  <2>6. ASSUME NEW u \in members', Handed(u)' PROVE InvS' /\ Allowed
    <3>1. HasIt' = {u}
      BY <2>2, <2>3, <2>6, HasItAfter
    <3>2. QED BY <1>4, <2>1, <2>2, <2>4, <3>1
  <2>7. QED BY <2>2, <2>5, <2>6
<1>9. ASSUME NEW t \in Threads, ScheduleOther(t), UNCHANGED kind
      PROVE  InvS' /\ Allowed
  <2>1. Held(t) /\ HasIt = {t}
    BY <1>6, <1>9 DEF ScheduleOther
  <2>2. Lists' /\ Types' /\ UNCHANGED members /\ \E h \in members : Handed(h)'
    BY <1>9, <2>1, ScheduleOtherStep
  <2>3. PICK h \in members : Handed(h)'
    BY <2>2
  <2>4. h \in Threads
    BY <1>5 DEF Types
  <2>5. HasIt' = {h}
    BY <2>2, <2>3, <2>4, HasItAfter
  <2>6. InvS'
    BY <1>5, <1>9, <2>2, <2>3, <2>4 DEF InvS, InvG
  <2>7. QED BY <1>3, <2>1, <2>2, <2>5, <2>6
<1>10. ASSUME NEW t \in Threads, Awake(t), UNCHANGED kind
       PROVE  InvS' /\ Allowed
  <2>1. Handed(t) /\ HasIt = {t}
    BY <1>5, <1>10, WhoHolds, HasItIs DEF Awake
  <2>2. Held(t)' /\ UNCHANGED members
    BY <1>5, <1>10, <2>1, AwakeStep
  <2>3. HasIt' = {t}
    BY <2>2, HasItAfter DEF Held
  <2>4. InvS'
    BY <1>5, <1>10, <2>2 DEF InvS, InvG, Held
  <2>5. QED BY <1>1, <2>1, <2>2, <2>3, <2>4
<1>11. ASSUME NEW t \in Threads, NEW new \in Threads, co_thread_create(t, new),
              UNCHANGED kind
       PROVE  InvS' /\ Allowed
  <2>1. Held(t) /\ HasIt = {t} /\ t \in members
    BY <1>6, <1>11 DEF co_thread_create
  <2>2. Held(t)' /\ new \notin members /\ members' = members \cup {new}
    BY <1>11, <2>1, ThreadCreateStep
  <2>3. HasIt' = {t} /\ InvS'
    BY <1>5, <1>11, <2>2, HasItAfter DEF InvS, InvG, Held
  <2>4. QED BY <1>2, <2>1, <2>2, <2>3
<1>12. ASSUME NEW t \in Threads, NEW f \in Fsms, co_fsm_create(t, f), UNCHANGED kind
       PROVE  InvS' /\ Allowed
  <2>1. Held(t) /\ HasIt = {t} /\ t \in members
    BY <1>6, <1>12 DEF co_fsm_create
  <2>2. Held(t)' /\ members' = members \cup {FsmThread}
    BY <1>12, <2>1, FsmCreateStep
  <2>3. HasIt' = {t} /\ InvS'
    BY <1>5, <1>12, <2>2, HasItAfter DEF InvS, InvG, Held
  <2>4. CASE FsmThread \in members
    BY <1>1, <2>1, <2>2, <2>3, <2>4
  <2>5. CASE FsmThread \notin members
    BY <1>2, <2>1, <2>2, <2>3, <2>5, GroupAssumption
  <2>6. QED BY <2>4, <2>5
<1>13. ASSUME UNCHANGED varsS
       PROVE  InvS' /\ Allowed
  <2>1. UNCHANGED <<ready_list, block_list, wq, members, pc, sched_sem, need_schedule,
                    interrupted, fsms, io, woken, kind>>
    BY <1>13 DEF varsS, vars, lists, tokens, events
  <2>2. Ready' = Ready /\ Blocked' = Blocked /\ Queued' = Queued /\ HasIt' = HasIt
    BY <2>1 DEF Ready, Blocked, Queued, HasIt, HasToken
  <2>3. InvS'
    BY <1>5, <2>1, <2>2 DEF InvS, InvG, Lists, Types, Vacant, Holds, Handed, Placed
  <2>4. QED BY <1>1, <2>1, <2>2, <2>3
<1>14. ASSUME NEW t \in Threads, GroupStep(t), UNCHANGED kind
       PROVE  InvS' /\ Allowed
  <2>1. CASE co_yield(t) \/ co_poll(t) \/ StartPoll(t) \/ DueTimers(t) \/ EndPoll(t)
             \/ ScheduleSelf(t)
    <3>1. pc[t] \in {"running", "schedule", "poll"}
      BY <2>1 DEF co_yield, co_poll, StartPoll, DueTimers, EndPoll, ScheduleSelf
    <3>2. QED BY <1>1, <1>14, <2>1, <3>1, RunningStep
  <2>2. CASE pc[t] = "running" /\ t # FsmThread /\ Block(t, TRUE, FALSE)
    BY <1>1, <1>14, <2>2, RunningStep
  <2>3. ASSUME NEW f \in Fsms, co_fsm_wake(t, f) \/ co_fsm_kill(t, f)
        PROVE  InvS' /\ Allowed
    <3>1. pc[t] = "running"
      BY <2>3 DEF co_fsm_wake, co_fsm_kill
    <3>2. QED BY <1>1, <1>14, <2>3, <3>1, RunningStep
  <2>4. ASSUME NEW f \in Fsms, NEW e \in Endings, RunsFsm(t, f), run_fsm(f, 0, e)
        PROVE  InvS' /\ Allowed
    <3>1. pc[t] \in {"running", "schedule"}
      BY <2>4 DEF RunsFsm
    <3>2. QED BY <1>1, <1>14, <2>4, <3>1, RunningStep
  <2>5. QED BY <1>7, <1>8, <1>9, <1>10, <1>11, <1>12, <1>14, <2>1, <2>2, <2>3, <2>4
            DEF GroupStep
<1>15. ASSUME fsm_thread, UNCHANGED kind
       PROVE  InvS' /\ Allowed
  BY <1>1, <1>15, GroupAssumption, RunningStep DEF fsm_thread
<1>16. ASSUME NEW t \in Threads,
              Signal(t) \/ TryWait(t) \/ Wait(t, TRUE) \/ Wait(t, FALSE)
       PROVE  InvS' /\ Allowed
  <2>1. pc[t] = "running" /\ UNCHANGED kind
    BY <1>16 DEF Signal, TryWait, Wait
  <2>2. QED BY <1>1, <1>16, <2>1, RunningStep
<1>17. ASSUME NEW t \in Threads, NEW f \in Fsms, FsmSignals(t, f) \/ FsmWaits(t, f)
       PROVE  InvS' /\ Allowed
  <2>1. pc[t] \in {"running", "schedule"} /\ UNCHANGED kind
    BY <1>17 DEF FsmSignals, FsmWaits, RunsFsm
  <2>2. QED BY <1>1, <1>17, <2>1, RunningStep
<1>18. InvS' /\ Allowed
  <2>1. CASE \E t \in Threads : GroupStep(t) /\ UNCHANGED kind
    BY <1>14, <2>1
  <2>2. CASE fsm_thread /\ UNCHANGED kind
    BY <1>15, <2>2
  <2>3. CASE \E t \in Threads : Signal(t) \/ TryWait(t) \/ Wait(t, TRUE) \/ Wait(t, FALSE)
    BY <1>16, <2>3
  <2>4. CASE \E t \in Threads, f \in Fsms : FsmSignals(t, f) \/ FsmWaits(t, f)
    BY <1>17, <2>4
  <2>5. Next => \/ \E t \in Threads : GroupStep(t) /\ UNCHANGED kind
                \/ fsm_thread /\ UNCHANGED kind
                \/ \E t \in Threads : Signal(t) \/ TryWait(t) \/ Wait(t, TRUE) \/ Wait(t, FALSE)
                \/ \E t \in Threads, f \in Fsms : FsmSignals(t, f) \/ FsmWaits(t, f)
    BY DEF Next
  <2>6. QED BY <1>13, <2>1, <2>2, <2>3, <2>4, <2>5
<1>19. QED BY <1>18 DEF Allowed

LEMMA Start ==
  ASSUME Init
  PROVE  InvS /\ OneRunnerSpec!Init
<1>1. /\ << >> \in Seq(Tasks) /\ Once(<< >>) /\ ToSet(<< >>) = {}
      /\ InitGroup /\ kind \in Kinds
  BY DEF Once, ToSet, Init
<1>2. Lists /\ Ready = {} /\ Blocked = {} /\ Queued = {}
  BY <1>1 DEF InitGroup, Lists, Ready, Blocked, Queued
<1>3. Types
  <2>1. pc \in [Threads -> {"native", "running", "schedule", "poll", "wait"}]
    BY <1>1 DEF InitGroup
  <2>2. sched_sem \in [Threads -> 0..1]
    BY <1>1 DEF InitGroup
  <2>3. woken \in [Tasks -> {"not", "queue", "other"}]
    BY <1>1 DEF InitGroup
  <2>4. QED BY <1>1, <2>1, <2>2, <2>3 DEF InitGroup, Types
<1>4. Vacant
  BY <1>1, <1>2 DEF InitGroup, Vacant, Placed
<1>5. InvS
  BY <1>1, <1>2, <1>3, <1>4, SyncAssumption DEF InvS, InvG
<1>6. HasIt = {} /\ members = {}
  BY <1>3, <1>4, HasItIs DEF Vacant
<1>7. QED BY <1>5, <1>6 DEF OneRunnerSpec!Init, HasIt

-----------------------------------------------------------------------------
(* Theorems                                                                *)

\* The group of threads that schedule one another (do_schedule,
\* leave_coop_group, join_coop_group) is always with one thread, and the lists
\* hold everybody else.
THEOREM OneThreadHasTheGroup == Spec => []InvS
<1>1. InvS /\ [Next]_varsS => InvS'
  BY NextStep
<1>2. QED BY <1>1, Start, PTL DEF Spec

\* The group keeps OneRunner's promise: exactly one member runs, and only that
\* one hands the group on.
THEOREM GroupImplementsOneRunner == Spec => ImplementsOneRunner
<1>1. InvS /\ [Next]_varsS => [OneRunnerSpec!Next]_(OneRunnerSpec!vars)
  BY NextStep
<1>2. QED
  BY <1>1, Start, OneThreadHasTheGroup, PTL
  DEF Spec, ImplementsOneRunner, OneRunnerSpec!Spec

\* The tasks that are chosen, as InOnePlace has it, and where the others are.
LEMMA ChosenIs ==
  ASSUME InvG
  PROVE  /\ \E c \in SUBSET Threads : Placed(c) /\ \A k : Chosen(k) <=> k \in c
         /\ \A t \in Threads : pc[t] = "native" <=> t \notin members
         /\ need_schedule \subseteq {t \in Threads : pc[t] = "wait" /\ sched_sem[t] = 1}
<1>1. Types /\ members \subseteq Threads
  BY DEF InvG, Types
<1>2. \A k : Chosen(k) <=> /\ k \in HasIt
                           /\ pc[k] = "running" \/ (pc[k] = "wait" /\ k \notin need_schedule)
  BY DEF Chosen, HasIt
<1>3. CASE Vacant
  <2>1. HasIt = {} /\ Placed({})
    BY <1>1, <1>3, HasItIs DEF Vacant
  <2>2. \A k : Chosen(k) <=> k \in {}
    BY <1>2, <2>1
  <2>3. QED BY <1>3, <2>1, <2>2 DEF Vacant
<1>4. ASSUME NEW t \in Threads, Holds(t)
      PROVE  /\ \E c \in SUBSET Threads : Placed(c) /\ \A k : Chosen(k) <=> k \in c
             /\ \A u \in Threads : pc[u] = "native" <=> u \notin members
             /\ need_schedule \subseteq {u \in Threads : pc[u] = "wait" /\ sched_sem[u] = 1}
  <2>1. HasIt = {t}
    BY <1>1, <1>4, HasItIs
  <2>2. PICK c \in SUBSET Threads :
          Placed(c) /\ c = IF pc[t] = "running" THEN {t} ELSE {}
    BY <1>4 DEF Holds
  <2>3. pc[t] # "wait"
    BY <1>4 DEF Holds
  <2>4. \A k : Chosen(k) <=> k \in c
    BY <1>2, <2>1, <2>2, <2>3
  <2>5. QED BY <1>4, <2>2, <2>4 DEF Holds
<1>5. ASSUME NEW t \in Threads, Handed(t)
      PROVE  /\ \E c \in SUBSET Threads : Placed(c) /\ \A k : Chosen(k) <=> k \in c
             /\ \A u \in Threads : pc[u] = "native" <=> u \notin members
             /\ need_schedule \subseteq {u \in Threads : pc[u] = "wait" /\ sched_sem[u] = 1}
  <2>1. HasIt = {t}
    BY <1>1, <1>5, HasItIs
  <2>2. PICK c \in SUBSET Threads : Placed(c) /\ c = {t} \ need_schedule
    BY <1>5 DEF Handed
  <2>3. pc[t] = "wait"
    BY <1>5 DEF Handed
  <2>4. \A k : Chosen(k) <=> k \in c
    BY <1>2, <2>1, <2>2, <2>3
  <2>5. QED BY <1>5, <2>2, <2>4 DEF Handed
<1>6. QED BY <1>3, <1>4, <1>5 DEF InvG

\* Every task of the group is chosen, or ready with a reason, or blocked with
\* none, and never in two places.
LEMMA PlacesKept ==
  ASSUME InvG
  PROVE  InOnePlace
<1>1. Lists /\ Types
  BY DEF InvG
<1>2. PICK c \in SUBSET Threads : Placed(c) /\ \A k : Chosen(k) <=> k \in c
  BY ChosenIs
<1>3. \A k : /\ Contains(ready_list, k) <=> k \in Ready
             /\ Contains(block_list, k) <=> k \in Blocked
  BY <1>1, ContainsIs DEF Lists, Ready, Blocked
<1>4. TypeOKGroup
  BY <1>1, ChosenIs DEF TypeOKGroup, Types, Lists
<1>5. ASSUME NEW k \in members \cup fsms
      PROVE  /\ Chosen(k) \/ Contains(ready_list, k) \/ Contains(block_list, k)
             /\ Chosen(k) \/ Contains(ready_list, k) <=> woken[k] # "not"
             /\ Chosen(k) => ~Contains(ready_list, k) /\ ~Contains(block_list, k)
  BY <1>2, <1>3 DEF Placed
<1>6. Ready \cap Blocked = {} /\ Ready \cup Blocked \subseteq members \cup fsms
  BY <1>2 DEF Placed
<1>7. QED BY <1>1, <1>4, <1>5, <1>6 DEF InOnePlace, Lists, Once, Ready, Blocked

\* co_block returns only to those with an event, and a thread that is woken
\* only to schedule stays in its place.
THEOREM TasksInOnePlace == Spec => []InOnePlace
<1>1. InvS => InOnePlace
  BY PlacesKept DEF InvS
<1>2. QED BY <1>1, OneThreadHasTheGroup, PTL

-----------------------------------------------------------------------------
(* The objects                                                             *)

\* The first n elements and the rest, at the ends.
LEMMA CutEnds ==
  ASSUME NEW S, NEW s \in Seq(S), Once(s), NEW n \in 0..Len(s)
  PROVE  /\ n = 0 => ToSet(SubSeq(s, 1, n)) = {}
         /\ n = 1 => ToSet(SubSeq(s, 1, n)) = {Head(s)}
         /\ n = Len(s) => SubSeq(s, n + 1, Len(s)) = << >>
         /\ s = << >> => n = Len(s)
<1> DEFINE a == SubSeq(s, 1, n)
           b == SubSeq(s, n + 1, Len(s))
<1>1. Len(s) \in Nat /\ n \in Int /\ n + 1 \in Int /\ n <= Len(s) /\ 1 <= n + 1
  OBVIOUS
<1>2. /\ ToSet(a) = {s[i] : i \in 1..n}
      /\ b \in Seq(S) /\ ToSet(b) = {s[i] : i \in (n + 1)..Len(s)}
  BY <1>1, SegmentIs
<1>3. n = 1 => Head(s) = s[1]
  OBVIOUS
<1>4. s = << >> => n = Len(s)
  OBVIOUS
<1> HIDE DEF a, b
<1>5. n = 0 => ToSet(a) = {}
  BY <1>2
<1>6. n = 1 => ToSet(a) = {Head(s)}
  <2>1. n = 1 => 1..n = {1}
    OBVIOUS
  <2>2. QED BY <1>2, <1>3, <2>1
<1>7. n = Len(s) => b = << >>
  <2>1. n = Len(s) => (n + 1)..Len(s) = {}
    BY <1>1
  <2>2. n = Len(s) => ToSet(b) = {}
    BY <1>2, <2>1
  <2>3. QED BY <1>2, <2>2, EmptyList
<1>8. QED BY <1>4, <1>5, <1>6, <1>7 DEF a, b

\* Taking out what is not there.
LEMMA WithoutNothing ==
  ASSUME NEW S, NEW s \in Seq(S), NEW set, ToSet(s) \cap set = {}
  PROVE  Without(s, set) = s
<1> DEFINE K == {i \in DOMAIN s : s[i] \notin set}
           Nth(n) == CHOOSE i \in K : Rank(K, i) = n
<1>1. DOMAIN s = 1..Len(s) /\ Len(s) \in Nat /\ K = 1..Len(s)
  BY DEF ToSet
<1>2. IsFiniteSet(K) /\ Cardinality(K) = Len(s) /\ K \in SUBSET Int
  <2>1. IsFiniteSet(1..Len(s)) /\ Cardinality(1..Len(s)) = Len(s)
    BY <1>1, FS_Interval
  <2> HIDE DEF K
  <2>2. QED BY <1>1, <2>1
<1>3. Without(s, set) = [n \in 1..Cardinality(K) |-> s[Nth(n)]]
  BY DEF Without, Rank
<1> HIDE DEF K
<1>4. ASSUME NEW n \in 1..Len(s) PROVE Nth(n) = n
  <2>1. {j \in K : j <= n} = 1..n
    BY <1>1
  <2>2. Cardinality(1..n) = n
    BY FS_Interval
  <2>3. Rank(K, n) = n /\ n \in K
    BY <1>1, <2>1, <2>2 DEF Rank
  <2>4. \A i \in K : Rank(K, i) = n => i = n
    BY <1>2, <2>3, Ranks
  <2>5. QED BY <2>3, <2>4
<1> HIDE DEF Nth
<1>5. [n \in 1..Cardinality(K) |-> s[Nth(n)]] = [n \in 1..Len(s) |-> s[n]]
  BY <1>2, <1>4
<1>6. s = [n \in 1..Len(s) |-> s[n]]
  BY <1>1
<1>7. QED BY <1>3, <1>5, <1>6

\* Whom the queue has made ready, and who has not gone on yet.
Waiting(k) == woken[k] = "queue" /\ ~(k \in Threads /\ pc[k] = "running")

TypedValue ==
  /\ kind \in AllKinds
  /\ kind = "cond" => value = 0
  /\ kind = "mutex" => value \in Tasks \cup {Free}
  /\ kind = "sema" => value \in 0..MaxValue
  /\ kind = "barrier" => value \in 0..Parties
  /\ kind = "completion" => value \in 0..1

\* Whether a wait succeeds at once when the object's value is v.
ToBeHad(v) ==
  \/ kind = "sema" /\ v > 0
  \/ kind = "mutex" /\ v = Free
  \/ kind = "completion" /\ v = 1

\* What whoever is made ready by the queue is served with.
Served(k, v) == (kind = "mutex" => v = k) /\ (kind = "barrier" => v = 0)

InvW ==
  /\ TypedValue
  /\ ToBeHad(value) => wq = << >>
  /\ \A k \in members \cup fsms : Waiting(k) => Served(k, value)

\* Steps that serve nobody and leave the object alone.
Quiet ==
  /\ UNCHANGED <<kind, value>>
  /\ wq = << >> => wq' = << >>
  /\ \A k \in members' \cup fsms' : Waiting(k)' => k \in members \cup fsms /\ Waiting(k)

LEMMA QuietStep ==
  ASSUME InvW, Quiet
  PROVE  InvW'
  BY DEF InvW, Quiet, TypedValue, ToBeHad, Served

\* An FSM's function that wakes nobody.
LEMMA QuietFsm ==
  ASSUME Lists, Types, NEW f \in Fsms, f \in fsms,
         NEW e \in Endings, run_fsm(f, 0, e)
  PROVE  /\ e \notin {"queue", "io+queue"} /\ wq = << >> => wq' = << >>
         /\ \A k \in members' \cup fsms' :
              Waiting(k)' => k \in members \cup fsms /\ Waiting(k)
<1> DEFINE queue == Without(wq, {f})
           first == SubSeq(queue, 1, 0)
           rest == SubSeq(queue, 1, Len(queue))
<1>1. /\ queue \in Seq(Tasks) /\ Once(queue) /\ Len(queue) <= Len(wq)
      /\ f \in Tasks /\ wq \in Seq(Tasks)
  BY WithoutIs DEF Lists, Tasks
<1>2. /\ wq' = IF e \in {"queue", "io+queue"} THEN Append(rest, f) ELSE rest
      /\ woken' = [WokenQueue(ToSet(first)) EXCEPT ![f] = IF e = "yield" THEN "other" ELSE "not"]
      /\ fsms' = IF e = "exit" THEN fsms \ {f} ELSE fsms
      /\ UNCHANGED <<members, pc>>
  BY DEF run_fsm
<1> HIDE DEF queue
<1>3. ToSet(first) = {} /\ (queue = << >> => rest = << >>)
  <2>1. 0 \in 0..Len(queue)
    BY <1>1
  <2>2. QED BY <1>1, <2>1, CutEnds
<1>4. wq = << >> => queue = << >>
  BY <1>1
<1> HIDE DEF first, rest
<1>5. \A k \in Tasks : woken'[k] = "queue" => k # f /\ woken[k] = "queue"
  BY <1>1, <1>2, <1>3 DEF WokenQueue, Types
<1>6. members' \cup fsms' \subseteq members \cup fsms /\ members \cup fsms \subseteq Tasks
  BY <1>2 DEF Types, Tasks
<1>7. QED BY <1>2, <1>3, <1>4, <1>5, <1>6 DEF Waiting

\* What threads and the group do besides.
LEMMA QuietGroup ==
  ASSUME InvG, UNCHANGED <<kind, value>>, NEW t \in Threads,
         GroupStep(t) \/ (t = FsmThread /\ fsm_thread)
  PROVE  Quiet
<1> DEFINE Same == \A k \in members' \cup fsms' :
                     Waiting(k)' => k \in members \cup fsms /\ Waiting(k)
<1>1. Lists /\ Types /\ members \cup fsms \subseteq Tasks
  BY DEF InvG, Types, Tasks
<1>2. Quiet <=> (wq = << >> => wq' = << >>) /\ Same
  BY DEF Quiet
<1>3. \A k \in Tasks : Without(wq, {k}) = << >> \/ wq # << >>
  BY <1>1, WithoutIs DEF Lists
<1>4. CASE join_coop_group(t)
  BY <1>1, <1>2, <1>4 DEF join_coop_group, Waiting, Types, Tasks
<1>5. CASE leave_coop_group(t)
  <2>1. /\ members' = members \ {t} /\ pc' = [pc EXCEPT ![t] = "native"]
        /\ UNCHANGED <<fsms, wq, woken>>
    BY <1>5 DEF leave_coop_group, events
  <2>2. QED BY <1>1, <1>2, <2>1, GroupAssumption DEF Waiting, Types
<1>6. CASE co_yield(t)
  BY <1>1, <1>2, <1>6 DEF co_yield, Waiting, Types, Tasks
<1>7. CASE co_poll(t) \/ DueTimers(t) \/ EndPoll(t)
  <2>1. PICK seq : PollResults(seq)
    <3>1. co_poll(t) \/ DueTimers(t) => \E seq : PollResults(seq)
      BY DEF co_poll, DueTimers
    <3>2. EndPoll(t) => \E seq : PollResults(seq)
      BY DEF EndPoll
    <3>3. QED BY <1>7, <3>1, <3>2
  <2>2. woken' = WokenOther(ToSet(seq)) /\ UNCHANGED <<members, fsms, wq>>
    BY <2>1 DEF PollResults
  <2>3. UNCHANGED pc \/ (pc[t] = "poll" /\ pc' = [pc EXCEPT ![t] = "schedule"])
    <3>1. co_poll(t) \/ DueTimers(t) => UNCHANGED pc
      BY DEF co_poll, DueTimers
    <3>2. EndPoll(t) => pc[t] = "poll" /\ pc' = [pc EXCEPT ![t] = "schedule"]
      BY DEF EndPoll
    <3>3. QED BY <1>7, <3>1, <3>2
  <2>4. QED BY <1>1, <1>2, <2>2, <2>3 DEF Waiting, WokenOther, Types
<1>8. CASE StartPoll(t)
  BY <1>1, <1>2, <1>8 DEF StartPoll, events, Waiting, Types
<1>9. CASE ScheduleSelf(t)
  BY <1>1, <1>2, <1>3, <1>9 DEF ScheduleSelf, Resumed, Waiting, Types, Tasks
<1>10. CASE ScheduleOther(t)
  BY <1>1, <1>2, <1>10 DEF ScheduleOther, events, Waiting, Types
<1>11. CASE Awake(t)
  BY <1>1, <1>2, <1>3, <1>11 DEF Awake, Resumed, Waiting, Types, Tasks
<1>12. ASSUME NEW onIo \in BOOLEAN, Block(t, onIo, FALSE)
       PROVE  Quiet
  BY <1>1, <1>2, <1>12 DEF Block, Waiting, Types, Tasks
<1>13. ASSUME NEW new \in Threads, co_thread_create(t, new)
       PROVE  Quiet
  BY <1>1, <1>2, <1>13 DEF co_thread_create, Waiting, Types, Tasks
<1>14. ASSUME NEW f \in Fsms, co_fsm_create(t, f)
       PROVE  Quiet
  <2> DEFINE thread == IF FsmThread \in members THEN << >> ELSE <<FsmThread>>
  <2>1. /\ fsms' = fsms \cup {f} /\ members' = members \cup {FsmThread}
        /\ pc' = IF thread = << >> THEN pc ELSE [pc EXCEPT ![FsmThread] = "wait"]
        /\ woken' = [k \in Tasks |-> IF k = f \/ Contains(thread, k) THEN "other" ELSE woken[k]]
        /\ UNCHANGED wq
    BY <1>14 DEF co_fsm_create
  <2>2. /\ FsmThread \notin members => Contains(thread, FsmThread)
        /\ FsmThread \in members => thread = << >>
    BY DEF Contains
  <2> HIDE DEF thread
  <2>3. FsmThread \in Tasks /\ f \in Tasks
    BY GroupAssumption DEF Tasks
  <2>4. QED BY <1>1, <1>2, <2>1, <2>2, <2>3 DEF Waiting, Types
<1>15. ASSUME NEW f \in Fsms, co_fsm_wake(t, f)
       PROVE  Quiet
  BY <1>1, <1>2, <1>15 DEF co_fsm_wake, tokens, WokenOther, Waiting, Types
<1>16. ASSUME NEW f \in Fsms, co_fsm_kill(t, f)
       PROVE  Quiet
  BY <1>1, <1>2, <1>3, <1>16 DEF co_fsm_kill, tokens, Waiting, Types, Tasks
<1>17. ASSUME NEW f \in Fsms, NEW e \in Endings \ {"queue", "io+queue"},
              RunsFsm(t, f), run_fsm(f, 0, e)
       PROVE  Quiet
  <2>1. pc[t] \in {"running", "schedule"}
    BY <1>17 DEF RunsFsm
  <2>2. Held(t)
    BY <1>1, <2>1, WhoHolds DEF Held
  <2>3. f \in fsms
    BY <1>17, <2>2, RunsIs
  <2>4. QED BY <1>1, <1>2, <1>17, <2>3, QuietFsm
<1>18. QED BY <1>4, <1>5, <1>6, <1>7, <1>8, <1>9, <1>10, <1>11, <1>12, <1>13, <1>14,
              <1>15, <1>16, <1>17 DEF GroupStep, fsm_thread

\* An operation hands what there is to those it wakes, and leaves nothing to be
\* had while somebody waits.
LEMMA OpServes ==
  ASSUME Lists, InvW, NEW k \in Tasks, NEW op \in WakeOps(k)
  PROVE  LET q == Without(wq, {k})
             first == SubSeq(q, 1, op.n)
             rest == SubSeq(q, op.n + 1, Len(q)) IN
         /\ kind = "cond" => op.value = 0
         /\ kind = "mutex" => op.value \in Tasks \cup {Free}
         /\ kind = "sema" => op.value \in 0..MaxValue
         /\ kind = "barrier" => op.value \in 0..Parties
         /\ kind = "completion" => op.value \in 0..1
         /\ ToBeHad(op.value) => rest = << >>
         /\ kind = "mutex" => value = k
         /\ \A x \in ToSet(first) : Served(x, op.value)
         /\ kind = "barrier" => op.value = 0
<1> DEFINE q == Without(wq, {k})
           first == SubSeq(q, 1, op.n)
           rest == SubSeq(q, op.n + 1, Len(q))
<1>1. q \in Seq(Tasks) /\ Once(q) /\ Len(q) <= Len(wq) /\ wq \in Seq(Tasks)
  BY WithoutIs DEF Lists
<1>2. kind \in AllKinds /\ op.n \in 0..Len(q)
  BY WakesWaiting DEF InvW, TypedValue
<1>3. /\ kind = "cond" => op \in CondOps(q)
      /\ kind = "sema" => op \in SemaOps(q)
      /\ kind = "mutex" => op \in MutexOps(k, q)
      /\ kind = "completion" => op \in CompletionOps(q)
      /\ kind = "barrier" => op \in BarrierOps(k, q)
  BY DEF WakeOps
<1> HIDE DEF q
<1>4. /\ op.n = 0 => ToSet(first) = {}
      /\ op.n = 1 => ToSet(first) = {Head(q)}
      /\ op.n = Len(q) => rest = << >>
      /\ q = << >> => op.n = Len(q)
  BY <1>1, <1>2, CutEnds
<1> HIDE DEF first, rest
<1>5. wq = << >> => q = << >>
  BY <1>1
<1>6. MaxValue \in Nat /\ Parties \in Nat \ {0} /\ Free \notin Tasks
  BY SyncAssumption
<1>7. CASE kind = "cond"
  <2>1. op.value = value /\ value = 0
    BY <1>3, <1>7 DEF CondOps, Op, InvW, TypedValue
  <2>2. QED BY <1>7, <2>1 DEF ToBeHad, Served, q, first, rest
<1>8. CASE kind = "sema"
  <2>1. value \in 0..MaxValue /\ (value > 0 => wq = << >>)
    BY <1>8 DEF InvW, TypedValue, ToBeHad
  <2>2. CASE q # << >>
    <3>1. op.value = value /\ value = 0
      BY <1>3, <1>5, <1>6, <1>8, <2>1, <2>2 DEF SemaOps, Op
    <3>2. QED BY <1>6, <1>8, <3>1 DEF ToBeHad, Served, q, first, rest
  <2>3. CASE q = << >>
    <3>1. op.value = value + 1 /\ value < MaxValue
      BY <1>3, <1>8, <2>3 DEF SemaOps, Op
    <3>2. op.value \in 0..MaxValue /\ rest = << >>
      BY <1>4, <1>6, <2>1, <2>3, <3>1
    <3>3. QED BY <1>8, <3>2 DEF ToBeHad, Served, q, first, rest
  <2>4. QED BY <2>2, <2>3
<1>9. CASE kind = "mutex"
  <2>1. value = k /\ op \in Op(IF q = << >> THEN Free ELSE Head(q), One(q))
    BY <1>3, <1>9 DEF MutexOps
  <2>2. op.value = (IF q = << >> THEN Free ELSE Head(q)) /\ op.n = One(q)
    BY <2>1 DEF Op
  <2>3. CASE q = << >>
    <3>1. op.value = Free /\ rest = << >> /\ ToSet(first) = {}
      BY <1>4, <2>2, <2>3 DEF One
    <3>2. QED BY <1>9, <2>1, <3>1 DEF ToBeHad, Served, q, first, rest
  <2>4. CASE q # << >>
    <3>1. op.value = Head(q) /\ Head(q) \in Tasks /\ ToSet(first) = {Head(q)}
      BY <1>1, <1>4, <2>2, <2>4, TailIs DEF One
    <3>2. QED BY <1>6, <1>9, <2>1, <3>1 DEF ToBeHad, Served, q, first, rest
  <2>5. QED BY <2>3, <2>4
<1>10. CASE kind = "completion"
  <2>1. (op.value = 0 /\ op.n = 0) \/ (op.value = 1 /\ op.n = Len(q))
    BY <1>3, <1>10 DEF CompletionOps, Op
  <2>2. op.value \in 0..1 /\ (ToBeHad(op.value) => rest = << >>)
    BY <1>4, <1>10, <2>1 DEF ToBeHad
  <2>3. QED BY <1>10, <2>2 DEF Served, q, first, rest
<1>11. CASE kind = "barrier"
  <2>1. op.value = 0
    BY <1>3, <1>11 DEF BarrierOps, Op
  <2>2. QED BY <1>6, <1>11, <2>1 DEF ToBeHad, Served, q, first, rest
<1>12. QED BY <1>2, <1>7, <1>8, <1>9, <1>10, <1>11 DEF AllKinds

\* A wait that succeeds at once takes what it waits for, and another one
\* leaves nothing to be had.
LEMMA AfterWaitIs ==
  ASSUME InvW, NEW k \in Tasks, MayWait(k)
  PROVE  /\ kind = "cond" => AfterWait(k) = 0
         /\ kind = "mutex" => AfterWait(k) = IF value = Free THEN k ELSE value
         /\ kind = "sema" => AfterWait(k) \in 0..MaxValue
         /\ kind = "barrier" => AfterWait(k) \in 0..Parties /\ value # 0 /\ k \in Threads
         /\ kind = "completion" => AfterWait(k) = value
         /\ ~Immediate => ~ToBeHad(AfterWait(k))
<1>1. /\ TypedValue /\ MaxValue \in Nat /\ Parties \in Nat \ {0} /\ Free \notin Tasks
  BY SyncAssumption DEF InvW
<1>2. CASE kind = "cond"
  <2>1. AfterWait(k) = value
    BY <1>2 DEF AfterWait
  <2>2. QED BY <1>1, <1>2, <2>1 DEF TypedValue, ToBeHad
<1>3. CASE kind = "mutex"
  <2>1. AfterWait(k) = IF value = Free THEN k ELSE value
    BY <1>3 DEF AfterWait
  <2>2. QED BY <1>1, <1>3, <2>1 DEF ToBeHad, Immediate
<1>4. CASE kind = "sema"
  <2>1. value \in 0..MaxValue
    BY <1>1, <1>4 DEF TypedValue
  <2>2. AfterWait(k) = IF value > 0 THEN value - 1 ELSE value
    BY <1>4 DEF AfterWait
  <2>3. QED BY <1>1, <1>4, <2>1, <2>2 DEF ToBeHad, Immediate
<1>5. CASE kind = "barrier"
  <2>1. value \in 0..Parties /\ value > 1 /\ k \in Threads
    BY <1>1, <1>5 DEF TypedValue, MayWait
  <2>2. AfterWait(k) = value - 1
    BY <1>5 DEF AfterWait
  <2>3. QED BY <1>1, <1>5, <2>1, <2>2 DEF ToBeHad
<1>6. CASE kind = "completion"
  <2>1. AfterWait(k) = value
    BY <1>6 DEF AfterWait
  <2>2. QED BY <1>1, <1>6, <2>1 DEF ToBeHad, Immediate
<1>7. kind \in {"cond", "mutex", "sema", "completion", "barrier"}
  BY <1>1 DEF TypedValue, AllKinds
<1>8. QED BY <1>2, <1>3, <1>4, <1>5, <1>6, <1>7

LEMMA ImmediateIs == Immediate <=> ToBeHad(value)
  BY DEF Immediate, ToBeHad

\* The running thread signals.
LEMMA SignalServes ==
  ASSUME InvG, InvW, NEW t \in Threads, Signal(t)
  PROVE  InvW'
<1>1. Lists /\ Types /\ t \in Tasks /\ members \cup fsms \subseteq Tasks
  BY DEF InvG, Types, Tasks
<1>2. pc[t] = "running" /\ t \notin Queued
  <2>1. Holds(t) /\ pc[t] = "running"
    BY WhoHolds DEF Signal
  <2>2. QED BY <2>1, HeldPlaces
<1>3. PICK op \in WakeOps(t) : value' = op.value /\ wake_n(op.n)
  BY DEF Signal
<1> DEFINE first == SubSeq(wq, 1, op.n)
           rest == SubSeq(wq, op.n + 1, Len(wq))
<1>4. UNCHANGED <<kind, members, pc, fsms>>
  BY <1>3 DEF Signal, tokens, wake_n
<1>5. Without(wq, {t}) = wq
  BY <1>1, <1>2, WithoutNothing DEF Lists, Queued
<1>6. /\ kind = "cond" => op.value = 0
      /\ kind = "mutex" => op.value \in Tasks \cup {Free}
      /\ kind = "sema" => op.value \in 0..MaxValue
      /\ kind = "barrier" => op.value \in 0..Parties
      /\ kind = "completion" => op.value \in 0..1
      /\ ToBeHad(op.value) => rest = << >>
      /\ kind = "mutex" => value = t
      /\ \A x \in ToSet(first) : Served(x, op.value)
      /\ kind = "barrier" => op.value = 0
  BY <1>1, <1>5, OpServes
<1>7. wq' = rest /\ woken' = WokenQueue(ToSet(first))
  BY <1>3 DEF wake_n
<1> HIDE DEF first, rest
<1>8. TypedValue'
  BY <1>3, <1>4, <1>6 DEF InvW, TypedValue
<1>9. ToBeHad(value)' => wq' = << >>
  BY <1>3, <1>4, <1>6, <1>7 DEF ToBeHad
<1>10. ASSUME NEW k \in members' \cup fsms', Waiting(k)' PROVE Served(k, value)'
  <2>1. k \in ToSet(first) \/ Waiting(k)
    BY <1>1, <1>4, <1>7, <1>10 DEF Waiting, WokenQueue
  <2>2. CASE k \in ToSet(first)
    BY <1>3, <1>4, <1>6, <2>2 DEF Served
  <2>3. CASE Waiting(k)
    <3>1. k # t /\ Served(k, value)
      BY <1>2, <1>4, <1>10, <2>3 DEF Waiting, InvW
    <3>2. kind # "mutex"
      BY <1>6, <3>1 DEF Served
    <3>3. QED BY <1>3, <1>4, <1>6, <3>2 DEF Served
  <2>4. QED BY <2>1, <2>2, <2>3
<1>11. QED BY <1>8, <1>9, <1>10 DEF InvW

\* Whoever waits before a task takes the object is in nobody's way.
LEMMA NobodyServed ==
  ASSUME InvW, NEW k \in members \cup fsms, k \in Tasks, Waiting(k),
         NEW w \in Tasks, MayWait(w)
  PROVE  /\ kind = "mutex" => value = k /\ ~Immediate
         /\ kind # "barrier"
<1>1. Served(k, value) /\ Free \notin Tasks
  BY SyncAssumption DEF InvW
<1>2. kind = "barrier" => value # 0
  BY AfterWaitIs
<1>3. QED BY <1>1, <1>2 DEF Served, Immediate

\* The running thread waits, and succeeds or blocks.
LEMMA WaitServes ==
  ASSUME InvG, InvW, NEW t \in Threads,
         TryWait(t) \/ Wait(t, TRUE) \/ Wait(t, FALSE)
  PROVE  InvW'
<1>1. Lists /\ Types /\ t \in Tasks /\ members \cup fsms \subseteq Tasks
  BY DEF InvG, Types, Tasks
<1>2. MayWait(t) /\ value' = AfterWait(t) /\ UNCHANGED kind
  BY DEF TryWait, Wait
<1>3. /\ kind = "cond" => AfterWait(t) = 0
      /\ kind = "mutex" => AfterWait(t) = IF value = Free THEN t ELSE value
      /\ kind = "sema" => AfterWait(t) \in 0..MaxValue
      /\ kind = "barrier" => AfterWait(t) \in 0..Parties
      /\ kind = "completion" => AfterWait(t) = value
      /\ ~Immediate => ~ToBeHad(AfterWait(t))
  BY <1>1, <1>2, AfterWaitIs
<1>4. TypedValue'
  BY <1>1, <1>2, <1>3 DEF InvW, TypedValue
<1>5. ASSUME UNCHANGED <<members, fsms>>,
             \A k \in members \cup fsms :
               Waiting(k)' => Waiting(k) \/ (k = t /\ Immediate)
      PROVE  \A k \in members' \cup fsms' : Waiting(k)' => Served(k, value)'
  <2> SUFFICES ASSUME NEW k \in members \cup fsms, Waiting(k)'
               PROVE  Served(k, value)'
    BY <1>5
  <2>1. k \in Tasks
    BY <1>1
  <2>2. CASE Waiting(k)
    <3>1. kind # "barrier" /\ (kind = "mutex" => value = k /\ ~Immediate)
      BY <1>1, <1>2, <2>1, <2>2, NobodyServed
    <3>2. kind = "mutex" => value # Free
      BY <3>1 DEF Immediate
    <3>3. QED BY <1>2, <1>3, <3>1, <3>2 DEF Served
  <2>3. CASE k = t /\ Immediate
    <3>1. kind # "barrier" /\ (kind = "mutex" => value = Free)
      BY <2>3 DEF Immediate
    <3>2. QED BY <1>2, <1>3, <2>3, <3>1 DEF Served
  <2>4. QED BY <1>5, <2>2, <2>3
<1>6. CASE Immediate /\ UNCHANGED vars
  <2>1. UNCHANGED <<members, pc, fsms, wq, woken>>
    BY <1>6 DEF vars, tokens, events
  <2>2. wq' = << >>
    BY <1>6, <2>1, ImmediateIs DEF InvW
  <2>3. QED BY <1>4, <1>5, <2>1, <2>2 DEF InvW, Waiting
<1>7. ASSUME Immediate, pc[t] = "running", NEW onIo \in BOOLEAN, BlockReady(t, onIo)
      PROVE  InvW'
  <2>1. PICK set : /\ woken' = [WokenOther(set) EXCEPT ![t] = "queue"]
                   /\ UNCHANGED <<wq, members, fsms>>
                   /\ UNCHANGED pc \/ pc' = [pc EXCEPT ![t] = "schedule"]
    BY <1>7 DEF BlockReady
  <2>2. wq' = << >>
    BY <1>7, <2>1, ImmediateIs DEF InvW
  <2>3. \A k \in Tasks : Waiting(k)' => Waiting(k) \/ k = t
    BY <1>1, <2>1 DEF Waiting, WokenOther, Types
  <2>4. QED BY <1>1, <1>4, <1>5, <1>7, <2>1, <2>2, <2>3 DEF InvW
<1>8. ASSUME ~Immediate, NEW onIo \in BOOLEAN, Block(t, onIo, TRUE)
      PROVE  InvW'
  <2>1. /\ woken' = [woken EXCEPT ![t] = "not"] /\ pc' = [pc EXCEPT ![t] = "schedule"]
        /\ UNCHANGED <<members, fsms>>
    BY <1>8 DEF Block
  <2>2. \A k \in Tasks : Waiting(k)' => Waiting(k)
    BY <1>1, <2>1 DEF Waiting, Types
  <2>3. ~ToBeHad(value)'
    BY <1>2, <1>3, <1>8 DEF ToBeHad
  <2>4. QED BY <1>1, <1>4, <1>5, <2>1, <2>2, <2>3 DEF InvW
<1>9. QED BY <1>6, <1>7, <1>8 DEF TryWait, Wait

\* The function of an FSM signals.
LEMMA FsmSignalServes ==
  ASSUME InvG, InvW, NEW t \in Threads, NEW f \in Fsms, FsmSignals(t, f)
  PROVE  InvW'
<1>1. Lists /\ Types /\ f \in Tasks /\ members \cup fsms \subseteq Tasks
  BY DEF InvG, Types, Tasks
<1>2. PICK op \in WakeOps(f), e \in {"yield", "exit", "rest", "io"} :
        value' = op.value /\ run_fsm(f, op.n, e)
  BY DEF FsmSignals
<1> DEFINE queue == Without(wq, {f})
           first == SubSeq(queue, 1, op.n)
           rest == SubSeq(queue, op.n + 1, Len(queue))
<1>3. /\ kind = "cond" => op.value = 0
      /\ kind = "mutex" => op.value \in Tasks \cup {Free}
      /\ kind = "sema" => op.value \in 0..MaxValue
      /\ kind = "barrier" => op.value \in 0..Parties
      /\ kind = "completion" => op.value \in 0..1
      /\ ToBeHad(op.value) => rest = << >>
      /\ kind = "mutex" => value = f
      /\ \A x \in ToSet(first) : Served(x, op.value)
      /\ kind = "barrier" => op.value = 0
  BY <1>1, OpServes
<1>4. /\ wq' = rest
      /\ woken' = [WokenQueue(ToSet(first)) EXCEPT ![f] = IF e = "yield" THEN "other" ELSE "not"]
      /\ UNCHANGED <<members, pc, kind>>
      /\ fsms' \subseteq fsms
  BY <1>2 DEF run_fsm, FsmSignals
<1> HIDE DEF queue, first, rest
<1>5. TypedValue'
  BY <1>2, <1>3, <1>4 DEF InvW, TypedValue
<1>6. ToBeHad(value)' => wq' = << >>
  BY <1>2, <1>3, <1>4 DEF ToBeHad
<1>7. ASSUME NEW k \in members' \cup fsms', Waiting(k)' PROVE Served(k, value)'
  <2>1. k # f /\ (k \in ToSet(first) \/ Waiting(k)) /\ k \in members \cup fsms
    BY <1>1, <1>4, <1>7 DEF Waiting, WokenQueue
  <2>2. CASE k \in ToSet(first)
    BY <1>2, <1>3, <1>4, <2>2 DEF Served
  <2>3. CASE Waiting(k)
    <3>1. Served(k, value)
      BY <2>1, <2>3 DEF InvW
    <3>2. kind # "mutex"
      BY <1>3, <2>1, <3>1 DEF Served
    <3>3. QED BY <1>2, <1>3, <1>4, <3>2 DEF Served
  <2>4. QED BY <2>1, <2>2, <2>3
<1>8. QED BY <1>5, <1>6, <1>7 DEF InvW

\* The function of an FSM waits.
LEMMA FsmWaitServes ==
  ASSUME InvG, InvW, NEW t \in Threads, NEW f \in Fsms, FsmWaits(t, f)
  PROVE  InvW'
<1>1. Lists /\ Types /\ f \in Tasks /\ members \cup fsms \subseteq Tasks
  BY DEF InvG, Types, Tasks
<1>2. MayWait(f) /\ value' = AfterWait(f) /\ UNCHANGED kind /\ RunsFsm(t, f)
  BY DEF FsmWaits
<1>3. f \in fsms
  <2>1. pc[t] \in {"running", "schedule"}
    BY <1>2 DEF RunsFsm
  <2>2. Held(t)
    BY <1>1, <2>1, WhoHolds DEF Held
  <2>3. QED BY <1>2, <2>2, RunsIs
<1>4. PICK e \in Endings : run_fsm(f, 0, e) /\ (Immediate => e = "yield")
  BY DEF FsmWaits, Endings
<1>5. /\ e = "yield" /\ wq = << >> => wq' = << >>
      /\ \A k \in members' \cup fsms' :
           Waiting(k)' => k \in members \cup fsms /\ Waiting(k)
  BY <1>1, <1>3, <1>4, QuietFsm
<1>6. /\ kind = "cond" => AfterWait(f) = 0
      /\ kind = "mutex" => AfterWait(f) = IF value = Free THEN f ELSE value
      /\ kind = "sema" => AfterWait(f) \in 0..MaxValue
      /\ kind = "barrier" => AfterWait(f) \in 0..Parties
      /\ kind = "completion" => AfterWait(f) = value
      /\ ~Immediate => ~ToBeHad(AfterWait(f))
  BY <1>1, <1>2, AfterWaitIs
<1>7. TypedValue'
  BY <1>1, <1>2, <1>6 DEF InvW, TypedValue
<1>8. ToBeHad(value)' => wq' = << >>
  <2>1. CASE Immediate
    BY <1>4, <1>5, <2>1, ImmediateIs DEF InvW
  <2>2. CASE ~Immediate
    BY <1>2, <1>6, <2>2 DEF ToBeHad
  <2>3. QED BY <2>1, <2>2
<1>9. ASSUME NEW k \in members' \cup fsms', Waiting(k)' PROVE Served(k, value)'
  <2>1. k \in members \cup fsms /\ k \in Tasks /\ Waiting(k)
    BY <1>1, <1>5, <1>9
  <2>2. kind # "barrier" /\ (kind = "mutex" => value = k /\ ~Immediate)
    BY <1>1, <1>2, <2>1, NobodyServed
  <2>3. kind = "mutex" => value # Free
    BY <2>2 DEF Immediate
  <2>4. QED BY <1>2, <1>6, <2>2, <2>3 DEF Served
<1>10. QED BY <1>7, <1>8, <1>9 DEF InvW

LEMMA ObjectStep ==
  ASSUME InvS, InvW, [Next]_varsS
  PROVE  InvW'
<1>1. InvG
  BY DEF InvS
<1>2. ASSUME UNCHANGED varsS PROVE InvW'
  <2>1. UNCHANGED <<members, pc, fsms, wq, woken, kind, value>>
    BY <1>2 DEF varsS, vars, tokens, events
  <2>2. Quiet
    BY <2>1 DEF Quiet, Waiting
  <2>3. QED BY <2>2, QuietStep
<1>3. ASSUME NEW t \in Threads, GroupStep(t), UNCHANGED <<kind, value>> PROVE InvW'
  BY <1>1, <1>3, QuietGroup, QuietStep
<1>4. ASSUME fsm_thread, UNCHANGED <<kind, value>> PROVE InvW'
  BY <1>1, <1>4, GroupAssumption, QuietGroup, QuietStep
<1>5. ASSUME NEW t \in Threads,
             Signal(t) \/ TryWait(t) \/ Wait(t, TRUE) \/ Wait(t, FALSE)
      PROVE  InvW'
  BY <1>1, <1>5, SignalServes, WaitServes
<1>6. ASSUME NEW t \in Threads, NEW f \in Fsms, FsmSignals(t, f) \/ FsmWaits(t, f)
      PROVE  InvW'
  BY <1>1, <1>6, FsmSignalServes, FsmWaitServes
<1>7. Next => \/ \E t \in Threads : GroupStep(t) /\ UNCHANGED <<kind, value>>
              \/ fsm_thread /\ UNCHANGED <<kind, value>>
              \/ \E t \in Threads : Signal(t) \/ TryWait(t) \/ Wait(t, TRUE) \/ Wait(t, FALSE)
              \/ \E t \in Threads, f \in Fsms : FsmSignals(t, f) \/ FsmWaits(t, f)
  BY DEF Next
<1>8. CASE Next
  BY <1>3, <1>4, <1>5, <1>6, <1>7, <1>8
<1>9. QED BY <1>2, <1>8

LEMMA ObjectStart ==
  ASSUME Init
  PROVE  InvW
<1>1. InitGroup /\ kind \in AllKinds /\ MaxValue \in Nat /\ Parties \in Nat \ {0}
  BY SyncAssumption DEF Init
<1>2. /\ kind = "mutex" => value = Free
      /\ kind = "barrier" => value = Parties
      /\ kind \notin {"mutex", "barrier"} => value = 0
  BY DEF Init
<1>3. TypedValue
  BY <1>1, <1>2 DEF TypedValue
<1>4. wq = << >> /\ members \cup fsms = {}
  BY <1>1 DEF InitGroup
<1>5. QED BY <1>3, <1>4 DEF InvW

LEMMA ServedIs ==
  ASSUME InvW
  PROVE  WaitersServed
<1>1. TypedValue /\ MaxValue \in Nat /\ Parties \in Nat \ {0}
  BY SyncAssumption DEF InvW
<1>2. kind # "mutex" => value \in 0..(MaxValue + Parties + 1)
  <2>1. kind = "cond" => value = 0
    BY <1>1 DEF TypedValue
  <2>2. kind = "sema" => value \in 0..MaxValue
    BY <1>1 DEF TypedValue
  <2>3. kind = "barrier" => value \in 0..Parties
    BY <1>1 DEF TypedValue
  <2>4. kind = "completion" => value \in 0..1
    BY <1>1 DEF TypedValue
  <2>5. kind \in {"cond", "mutex", "sema", "completion", "barrier"}
    BY <1>1 DEF TypedValue, AllKinds
  <2>6. QED BY <1>1, <2>1, <2>2, <2>3, <2>4, <2>5
<1>3. kind \in AllKinds /\ (kind = "mutex" => value \in Tasks \cup {Free})
  BY <1>1 DEF TypedValue
<1>4. value \in IF kind = "mutex" THEN Tasks \cup {Free} ELSE 0..(MaxValue + Parties + 1)
  BY <1>2, <1>3
<1>5. Immediate => wq = << >>
  BY ImmediateIs DEF InvW
<1>6. ASSUME NEW k \in members \cup fsms,
             woken[k] = "queue" /\ ~(k \in Threads /\ pc[k] = "running")
      PROVE  (kind = "mutex" => value = k) /\ (kind = "barrier" => value = 0)
  BY <1>6 DEF InvW, Waiting, Served
<1>7. QED BY <1>3, <1>4, <1>5, <1>6 DEF WaitersServed

\* A lock that is waited for is not free, a unit of a semaphore or a complete
\* completion is not left while somebody waits, and a task that a mutex or a
\* barrier has woken owns the mutex, or has all parties at the barrier, until
\* it goes on (the assertions of Co_mutex::lock and Co_barrier::block).
THEOREM NobodyIsLeftWaiting == Spec => []WaitersServed
<1>1. InvS /\ InvW /\ [Next]_varsS => InvW'
  BY ObjectStep
<1>2. InvW => WaitersServed
  BY ServedIs
<1>3. QED BY <1>1, <1>2, ObjectStart, OneThreadHasTheGroup, PTL DEF Spec

-----------------------------------------------------------------------------
(* The reader-writer lock                                                  *)

\* As many as a list has elements, when each is in it once.
LEMMA LengthIs ==
  ASSUME NEW S, NEW s \in Seq(S), Once(s)
  PROVE  IsFiniteSet(ToSet(s)) /\ Cardinality(ToSet(s)) = Len(s)
<1>1. Len(s) \in Nat /\ DOMAIN s = 1..Len(s)
  OBVIOUS
<1> DEFINE f == [i \in 1..Len(s) |-> s[i]]
<1>2. f \in [1..Len(s) -> ToSet(s)]
  BY <1>1 DEF ToSet
<1>3. \A e \in ToSet(s) : \E i \in 1..Len(s) : f[i] = e
  BY <1>1 DEF ToSet
<1>4. \A i, j \in 1..Len(s) : f[i] = f[j] => i = j
  BY <1>1 DEF Once
<1> HIDE DEF f
<1>5. f \in Bijection(1..Len(s), ToSet(s))
  BY <1>2, <1>3, <1>4 DEF Bijection, Injection, IsInjective, Surjection
<1>6. ExistsBijection(1..Len(s), ToSet(s))
  BY <1>5 DEF ExistsBijection
<1>7. QED
  BY <1>1, <1>6, FS_CountingElements, FS_NatBijection DEF ExistsBijection

ReadersIn == {t \in Readers : Has(t)}

LockTypes ==
  /\ write_owner \in Writers \cup {Nobody} /\ read_owners \in Nat
  /\ read_wq \in Seq(Readers) /\ write_wq \in Seq(Writers)
  /\ lock_pc \in [Lockers -> {"out", "waiting", "in"}]
  /\ ready \in [Lockers -> BOOLEAN] /\ acquired \in [Lockers -> BOOLEAN]

\* The queues hold, once, those that wait and have not been given the lock.
Queues ==
  /\ Once(read_wq) /\ Once(write_wq)
  /\ \A t \in Readers : t \in ToSet(read_wq) <=> lock_pc[t] = "waiting" /\ ~acquired[t]
  /\ \A t \in Writers : t \in ToSet(write_wq) <=> lock_pc[t] = "waiting" /\ ~acquired[t]

\* The fields say who has the lock, and a writer has it alone.
Owners ==
  /\ read_owners = Cardinality(ReadersIn)
  /\ \A t \in Writers : Has(t) <=> write_owner = t
  /\ write_owner # Nobody => read_owners = 0

LockInv == LockTypes /\ Queues /\ Owners

\* They hold until write_unlock wakes another writer, which is not made
\* write_owner.
Sound == ~handed => LockInv

LEMMA LockTypesKept ==
  ASSUME ThreadAssumption, LockTypes, NEW t \in Lockers, NEW v \in {"out", "waiting", "in"}
  PROVE  /\ [lock_pc EXCEPT ![t] = v] \in [Lockers -> {"out", "waiting", "in"}]
         /\ \A u \in Lockers : [lock_pc EXCEPT ![t] = v][u] = IF u = t THEN v ELSE lock_pc[u]
         /\ \A b \in BOOLEAN :
              /\ [ready EXCEPT ![t] = b] \in [Lockers -> BOOLEAN]
              /\ [acquired EXCEPT ![t] = b] \in [Lockers -> BOOLEAN]
              /\ \A u \in Lockers : [acquired EXCEPT ![t] = b][u] = IF u = t THEN b ELSE acquired[u]
              /\ \A u \in Lockers : [ready EXCEPT ![t] = b][u] = IF u = t THEN b ELSE ready[u]
  BY DEF LockTypes

\* What a wake-up changes.
LEMMA LockWake ==
  ASSUME LockTypes, NEW set, WakeAll(set)
  PROVE  /\ ready' \in [Lockers -> BOOLEAN] /\ acquired' \in [Lockers -> BOOLEAN]
         /\ \A u \in Lockers : ready'[u] = (ready[u] \/ u \in set)
         /\ \A u \in Lockers : acquired'[u] = (acquired[u] \/ u \in set)
<1>1. /\ ready' = [t \in Lockers |-> ready[t] \/ t \in set]
      /\ acquired' = [t \in Lockers |-> acquired[t] \/ t \in set]
  BY DEF WakeAll, Lockers
<1>2. /\ \A u \in Lockers : ready'[u] = (ready[u] \/ u \in set)
      /\ \A u \in Lockers : acquired'[u] = (acquired[u] \/ u \in set)
  BY <1>1, Zenon
<1>3. \A u \in Lockers : (ready[u] \/ u \in set) \in BOOLEAN /\ (acquired[u] \/ u \in set) \in BOOLEAN
  OBVIOUS
<1>4. ready' \in [Lockers -> BOOLEAN] /\ acquired' \in [Lockers -> BOOLEAN]
  BY <1>1, <1>3
<1>5. QED BY <1>2, <1>4

\* The readers that have the lock are finitely many, and counted.
LEMMA ReadersCounted ==
  ASSUME ThreadAssumption
  PROVE  /\ IsFiniteSet(ReadersIn) /\ Cardinality(ReadersIn) \in Nat
         /\ Cardinality(ReadersIn) <= Cardinality(Readers) /\ Cardinality(Readers) \in Nat
         /\ Cardinality(ReadersIn) = 0 <=> ReadersIn = {}
<1>1. ReadersIn \subseteq Readers /\ IsFiniteSet(Readers)
  BY DEF ReadersIn, ThreadAssumption
<1>2. QED BY <1>1, FS_Subset, FS_CardinalityType, FS_EmptySet

LEMMA ReadLockStep ==
  ASSUME ThreadAssumption, LockInv, NEW t \in Lockers, read_lock(t)
  PROVE  LockInv'
<1> USE DEF LockInv
<1>1. /\ t \in Readers /\ t \notin Writers /\ lock_pc[t] = "out" /\ t \notin ToSet(read_wq)
      /\ ~Has(t) /\ UNCHANGED <<write_owner, write_wq>>
      /\ Readers \subseteq Lockers /\ Writers \subseteq Lockers
  BY DEF read_lock, ThreadAssumption, Queues, Has, Lockers
<1>2. CASE MayRead
  <2>1. /\ write_owner = Nobody /\ read_owners' = read_owners + 1
        /\ lock_pc' = [lock_pc EXCEPT ![t] = "in"]
        /\ UNCHANGED <<ready, acquired, read_wq>>
    BY <1>2 DEF read_lock, MayRead, Enter
  <2>2. /\ \A u \in Lockers : lock_pc'[u] = IF u = t THEN "in" ELSE lock_pc[u]
        /\ lock_pc' \in [Lockers -> {"out", "waiting", "in"}]
    BY <2>1, LockTypesKept
  <2>3. \A u \in Lockers : Has(u)' <=> Has(u) \/ u = t
    BY <2>1, <2>2 DEF Has
  <2>4. ReadersIn' = ReadersIn \cup {t} /\ t \notin ReadersIn
    BY <1>1, <2>3 DEF ReadersIn
  <2>5. Cardinality(ReadersIn') = Cardinality(ReadersIn) + 1
    BY <2>4, ReadersCounted, FS_AddElement
  <2>6. LockTypes'
    BY <1>1, <2>1, <2>2 DEF LockTypes
  <2>7. Queues'
    BY <1>1, <2>1, <2>2 DEF Queues
  <2>8. Owners'
    BY <1>1, <2>1, <2>3, <2>5 DEF Owners
  <2>9. QED BY <2>6, <2>7, <2>8
<1>3. CASE ~MayRead
  <2>1. /\ read_wq' = Append(read_wq, t) /\ UNCHANGED read_owners
        /\ lock_pc' = [lock_pc EXCEPT ![t] = "waiting"]
        /\ ready' = [ready EXCEPT ![t] = FALSE]
        /\ acquired' = [acquired EXCEPT ![t] = FALSE]
    BY <1>3 DEF read_lock, Sleep
  <2>2. /\ \A u \in Lockers : lock_pc'[u] = IF u = t THEN "waiting" ELSE lock_pc[u]
        /\ \A u \in Lockers : acquired'[u] = IF u = t THEN FALSE ELSE acquired[u]
        /\ lock_pc' \in [Lockers -> {"out", "waiting", "in"}]
        /\ ready' \in [Lockers -> BOOLEAN] /\ acquired' \in [Lockers -> BOOLEAN]
    BY <2>1, LockTypesKept
  <2>3. \A u \in Lockers : Has(u)' <=> Has(u)
    BY <1>1, <2>2 DEF Has
  <2>4. ReadersIn' = ReadersIn
    BY <1>1, <2>3 DEF ReadersIn
  <2>5. /\ read_wq' \in Seq(Readers) /\ Once(read_wq')
        /\ ToSet(read_wq') = ToSet(read_wq) \cup {t}
    <3>1. read_wq \in Seq(Readers) /\ Once(read_wq)
      BY DEF LockTypes, Queues
    <3>2. QED BY <1>1, <2>1, <3>1, AppendIs
  <2>6. LockTypes'
    BY <1>1, <2>1, <2>2, <2>5 DEF LockTypes
  <2>7. Queues'
    BY <1>1, <2>2, <2>5 DEF Queues
  <2>8. Owners'
    BY <1>1, <2>1, <2>3, <2>4 DEF Owners
  <2>9. QED BY <2>6, <2>7, <2>8
<1>4. QED BY <1>2, <1>3

\* Who is woken by the last reader is the first in line, and loses its place.
LEMMA WriterInLine ==
  ASSUME ThreadAssumption, LockInv, write_wq # << >>
  PROVE  LET h == Head(write_wq) IN
         /\ h \in Writers /\ h \in ToSet(write_wq) /\ lock_pc[h] = "waiting" /\ ~acquired[h]
         /\ Tail(write_wq) \in Seq(Writers) /\ Once(Tail(write_wq))
         /\ ToSet(Tail(write_wq)) = ToSet(write_wq) \ {h}
<1> DEFINE h == Head(write_wq)
<1>1. write_wq \in Seq(Writers) /\ Once(write_wq)
  BY DEF LockInv, LockTypes, Queues
<1>2. /\ h \in ToSet(write_wq) /\ h \in Writers
      /\ Tail(write_wq) \in Seq(Writers) /\ Once(Tail(write_wq))
      /\ ToSet(Tail(write_wq)) = ToSet(write_wq) \ {h}
  BY <1>1, TailIs
<1>3. lock_pc[h] = "waiting" /\ ~acquired[h]
  BY <1>2 DEF LockInv, Queues
<1>4. QED BY <1>2, <1>3

LEMMA ReadUnlockStep ==
  ASSUME ThreadAssumption, LockInv, NEW t \in Lockers, read_unlock(t)
  PROVE  LockInv'
<1> USE DEF LockInv
<1>1. /\ t \in Readers /\ t \notin Writers /\ Nobody \notin Writers /\ lock_pc[t] = "in" /\ Has(t)
      /\ Readers \subseteq Lockers /\ Writers \subseteq Lockers
      /\ Readers \cap Writers = {}
  BY DEF read_unlock, ThreadAssumption, Has, Lockers
<1>2. /\ read_owners' = read_owners - 1 /\ UNCHANGED read_wq
      /\ lock_pc' = [lock_pc EXCEPT ![t] = "out"]
  BY DEF read_unlock
<1>3. /\ \A u \in Lockers : lock_pc'[u] = IF u = t THEN "out" ELSE lock_pc[u]
      /\ lock_pc' \in [Lockers -> {"out", "waiting", "in"}]
  BY <1>2, LockTypesKept
<1>4. t \in ReadersIn /\ read_owners \in Nat /\ read_owners # 0 /\ write_owner = Nobody
      /\ read_owners = Cardinality(ReadersIn)
  BY <1>1, ReadersCounted DEF ReadersIn, Owners, LockTypes
<1>5. Cardinality(ReadersIn \ {t}) = Cardinality(ReadersIn) - 1
  BY <1>4, ReadersCounted, FS_RemoveElement
<1>6. \A u \in Readers : acquired'[u] = acquired[u] => (Has(u)' <=> Has(u) /\ u # t)
  BY <1>1, <1>3 DEF Has
<1>7. CASE UNCHANGED <<write_owner, write_wq, ready, acquired>>
  <2>1. ReadersIn' = ReadersIn \ {t}
    BY <1>6, <1>7 DEF ReadersIn
  <2>2. \A u \in Writers : Has(u)' <=> Has(u)
    BY <1>1, <1>3, <1>7 DEF Has
  <2>3. LockTypes'
    BY <1>2, <1>3, <1>4, <1>7 DEF LockTypes
  <2>4. Queues'
    BY <1>1, <1>2, <1>3, <1>7 DEF Queues
  <2>5. Owners'
    BY <1>2, <1>4, <1>5, <1>7, <2>1, <2>2 DEF Owners
  <2>6. QED BY <2>3, <2>4, <2>5
<1>8. CASE read_owners = 1 /\ WakeWriter /\ write_wq = << >>
           /\ write_owner' = Nobody
  <2>1. WakeAll({}) /\ write_wq' = << >>
    BY <1>8 DEF WakeWriter
  <2>2. /\ ready' \in [Lockers -> BOOLEAN] /\ acquired' \in [Lockers -> BOOLEAN]
        /\ \A u \in Lockers : acquired'[u] = (acquired[u] \/ u \in {})
    BY <2>1, LockWake
  <2>3. acquired \in [Lockers -> BOOLEAN]
    BY DEF LockTypes
  <2>4. \A u \in Lockers : acquired'[u] = acquired[u]
    BY <2>2, <2>3
  <2>5. ReadersIn' = ReadersIn \ {t}
    BY <1>1, <1>6, <2>4 DEF ReadersIn
  <2>6. \A u \in Writers : Has(u)' <=> Has(u)
    BY <1>1, <1>3, <2>4 DEF Has
  <2>7. LockTypes'
    BY <1>2, <1>3, <1>4, <1>8, <2>1, <2>2 DEF LockTypes
  <2>8. Queues'
    BY <1>1, <1>2, <1>3, <1>8, <2>1, <2>4 DEF Queues
  <2>9. Owners'
    BY <1>2, <1>4, <1>5, <1>8, <2>5, <2>6 DEF Owners
  <2>10. QED BY <2>7, <2>8, <2>9
<1>9. CASE read_owners = 1 /\ WakeWriter /\ write_wq # << >>
           /\ write_owner' = Head(write_wq)
  <2> DEFINE h == Head(write_wq)
  <2>1. WakeAll({h}) /\ write_wq' = Tail(write_wq)
    BY <1>9 DEF WakeWriter
  <2>2. /\ h \in Writers /\ lock_pc[h] = "waiting" /\ ~acquired[h]
        /\ Tail(write_wq) \in Seq(Writers) /\ Once(Tail(write_wq))
        /\ ToSet(Tail(write_wq)) = ToSet(write_wq) \ {h}
    BY <1>9, WriterInLine
  <2> HIDE DEF h
  <2>3. /\ ready' \in [Lockers -> BOOLEAN] /\ acquired' \in [Lockers -> BOOLEAN]
        /\ \A u \in Lockers : acquired'[u] = (acquired[u] \/ u \in {h})
    BY <2>1, LockWake
  <2>4. acquired \in [Lockers -> BOOLEAN]
    BY DEF LockTypes
  <2>5. \A u \in Lockers : acquired'[u] <=> acquired[u] \/ u = h
    BY <2>3, <2>4
  <2>6. \A u \in Readers : acquired'[u] = acquired[u]
    <3>1. \A u \in Readers : u \in Lockers /\ u # h
      BY <1>1, <2>2
    <3>2. QED BY <2>3, <2>4, <3>1
  <2>7. ReadersIn' = ReadersIn \ {t}
    BY <1>6, <2>6 DEF ReadersIn
  <2>8. \A u \in Writers : Has(u)' <=> u = h
    <3>1. \A u \in Writers : ~Has(u)
      BY <1>1, <1>4 DEF Owners
    <3>2. QED BY <1>1, <1>3, <2>2, <2>5, <3>1 DEF Has
  <2>9. LockTypes'
    BY <1>2, <1>3, <1>4, <1>9, <2>1, <2>2, <2>3 DEF LockTypes, h
  <2>10. Queues'
    <3>1. \A u \in Writers : lock_pc'[u] = "waiting" /\ ~acquired'[u] <=> u \in ToSet(write_wq) /\ u # h
      BY <1>1, <1>3, <2>5 DEF Queues
    <3>2. \A u \in Readers : lock_pc'[u] = "waiting" /\ ~acquired'[u] <=> lock_pc[u] = "waiting" /\ ~acquired[u]
      BY <1>1, <1>3, <2>6
    <3>3. QED BY <1>2, <2>1, <2>2, <3>1, <3>2 DEF Queues
  <2>11. Owners'
    <3>1. write_owner' = h /\ read_owners' = 0
      BY <1>2, <1>9 DEF h
    <3>2. read_owners' = Cardinality(ReadersIn')
      BY <1>2, <1>4, <1>5, <2>7
    <3>3. \A u \in Writers : Has(u)' <=> write_owner' = u
      BY <2>8, <3>1
    <3>4. QED BY <3>1, <3>2, <3>3 DEF Owners
  <2>12. QED BY <2>9, <2>10, <2>11
<1>10. QED BY <1>7, <1>8, <1>9 DEF read_unlock

LEMMA WriteLockStep ==
  ASSUME ThreadAssumption, LockInv, NEW t \in Lockers, write_lock(t)
  PROVE  LockInv'
<1> USE DEF LockInv
<1>1. /\ t \in Writers /\ t \notin Readers /\ Nobody # t /\ lock_pc[t] = "out" /\ t \notin ToSet(write_wq)
      /\ ~Has(t) /\ UNCHANGED <<read_owners, read_wq>>
      /\ Readers \subseteq Lockers /\ Writers \subseteq Lockers /\ Nobody \notin Writers
  BY DEF write_lock, ThreadAssumption, Queues, Has, Lockers
<1>2. CASE read_owners = 0 /\ write_owner = Nobody
  <2>1. /\ write_owner' = t
        /\ lock_pc' = [lock_pc EXCEPT ![t] = "in"]
        /\ UNCHANGED <<ready, acquired, write_wq>>
    BY <1>2 DEF write_lock, Enter
  <2>2. /\ \A u \in Lockers : lock_pc'[u] = IF u = t THEN "in" ELSE lock_pc[u]
        /\ lock_pc' \in [Lockers -> {"out", "waiting", "in"}]
    BY <2>1, LockTypesKept
  <2>3. \A u \in Lockers : Has(u)' <=> Has(u) \/ u = t
    BY <2>1, <2>2 DEF Has
  <2>4. ReadersIn' = ReadersIn
    BY <1>1, <2>3 DEF ReadersIn
  <2>5. LockTypes'
    BY <1>1, <2>1, <2>2 DEF LockTypes
  <2>6. Queues'
    BY <1>1, <2>1, <2>2 DEF Queues
  <2>7. Owners'
    BY <1>1, <1>2, <2>1, <2>3, <2>4 DEF Owners
  <2>8. QED BY <2>5, <2>6, <2>7
<1>3. CASE ~(read_owners = 0 /\ write_owner = Nobody)
  <2>1. /\ write_wq' = Append(write_wq, t) /\ UNCHANGED write_owner
        /\ lock_pc' = [lock_pc EXCEPT ![t] = "waiting"]
        /\ ready' = [ready EXCEPT ![t] = FALSE]
        /\ acquired' = [acquired EXCEPT ![t] = FALSE]
    BY <1>3 DEF write_lock, Sleep
  <2>2. /\ \A u \in Lockers : lock_pc'[u] = IF u = t THEN "waiting" ELSE lock_pc[u]
        /\ \A u \in Lockers : acquired'[u] = IF u = t THEN FALSE ELSE acquired[u]
        /\ lock_pc' \in [Lockers -> {"out", "waiting", "in"}]
        /\ ready' \in [Lockers -> BOOLEAN] /\ acquired' \in [Lockers -> BOOLEAN]
    BY <2>1, LockTypesKept
  <2>3. \A u \in Lockers : Has(u)' <=> Has(u)
    BY <1>1, <2>2 DEF Has
  <2>4. ReadersIn' = ReadersIn
    BY <1>1, <2>3 DEF ReadersIn
  <2>5. /\ write_wq' \in Seq(Writers) /\ Once(write_wq')
        /\ ToSet(write_wq') = ToSet(write_wq) \cup {t}
    <3>1. write_wq \in Seq(Writers) /\ Once(write_wq)
      BY DEF LockTypes, Queues
    <3>2. QED BY <1>1, <2>1, <3>1, AppendIs
  <2>6. LockTypes'
    BY <1>1, <2>1, <2>2, <2>5 DEF LockTypes
  <2>7. Queues'
    BY <1>1, <2>2, <2>5 DEF Queues
  <2>8. Owners'
    BY <1>1, <2>1, <2>3, <2>4 DEF Owners
  <2>9. QED BY <2>6, <2>7, <2>8
<1>4. QED BY <1>2, <1>3

\* Readers are let in, or nobody is waiting.
LEMMA WriteUnlockStep ==
  ASSUME ThreadAssumption, LockInv, NEW t \in Lockers, write_unlock(t), ~handed'
  PROVE  /\ LockInv'
         /\ read_wq' = << >> /\ write_wq' = write_wq
         /\ write_wq # << >> => read_owners' # 0
<1> USE DEF LockInv
<1>1. /\ t \in Writers /\ t \notin Readers /\ Nobody \notin Writers /\ lock_pc[t] = "in" /\ Has(t)
      /\ Readers \subseteq Lockers /\ Writers \subseteq Lockers
      /\ Readers \cap Writers = {}
  BY DEF write_unlock, ThreadAssumption, Has, Lockers
<1>2. write_owner' = Nobody /\ lock_pc' = [lock_pc EXCEPT ![t] = "out"]
  BY DEF write_unlock
<1>3. /\ \A u \in Lockers : lock_pc'[u] = IF u = t THEN "out" ELSE lock_pc[u]
      /\ lock_pc' \in [Lockers -> {"out", "waiting", "in"}]
  BY <1>2, LockTypesKept
<1>4. write_owner = t /\ read_owners = 0 /\ ReadersIn = {}
  BY <1>1, ReadersCounted DEF Owners
<1>5. read_wq # << >> \/ write_wq = << >>
  BY DEF write_unlock
<1>6. acquired \in [Lockers -> BOOLEAN] /\ read_wq \in Seq(Readers) /\ Once(read_wq)
      /\ ToSet(read_wq) \subseteq Readers /\ write_wq \in Seq(Writers)
  BY OfType DEF LockTypes, Queues
<1>7. write_wq' = write_wq /\ read_wq' = << >>
  BY <1>5 DEF write_unlock, WakeWriter
<1>8. WakeAll(ToSet(read_wq)) /\ read_owners' = Len(read_wq)
  <2>1. CASE read_wq # << >>
    BY <2>1 DEF write_unlock
  <2>2. CASE read_wq = << >>
    <3>1. ToSet(read_wq) = {}
      BY <1>6, <2>2, EmptyList
    <3>2. WakeAll({}) /\ read_owners' = read_owners
      BY <1>5, <2>2 DEF write_unlock, WakeWriter
    <3>3. Len(read_wq) = 0
      BY <2>2
    <3>4. QED BY <1>4, <3>1, <3>2, <3>3
  <2>3. QED BY <2>1, <2>2
<1>9. /\ ready' \in [Lockers -> BOOLEAN] /\ acquired' \in [Lockers -> BOOLEAN]
      /\ \A u \in Lockers : acquired'[u] = (acquired[u] \/ u \in ToSet(read_wq))
  BY <1>8, LockWake
<1>10. \A u \in Lockers : acquired'[u] <=> acquired[u] \/ u \in ToSet(read_wq)
  BY <1>6, <1>9
<1>11. \A u \in Readers : (Has(u)' <=> u \in ToSet(read_wq)) /\ ~(lock_pc'[u] = "waiting" /\ ~acquired'[u])
  <2> SUFFICES ASSUME NEW u \in Readers
               PROVE  (Has(u)' <=> u \in ToSet(read_wq)) /\ ~(lock_pc'[u] = "waiting" /\ ~acquired'[u])
    OBVIOUS
  <2>1. u \in Lockers /\ u # t /\ ~Has(u)
    BY <1>1, <1>4 DEF ReadersIn
  <2>2. lock_pc'[u] = lock_pc[u] /\ (acquired'[u] <=> acquired[u] \/ u \in ToSet(read_wq))
    BY <1>3, <1>10, <2>1
  <2>3. u \in ToSet(read_wq) <=> lock_pc[u] = "waiting" /\ ~acquired[u]
    BY DEF Queues
  <2>4. QED BY <2>1, <2>2, <2>3 DEF Has
<1>12. \A u \in Writers :
         /\ ~Has(u)'
         /\ u \in ToSet(write_wq) <=> lock_pc'[u] = "waiting" /\ ~acquired'[u]
  <2> SUFFICES ASSUME NEW u \in Writers
               PROVE  ~Has(u)' /\ (u \in ToSet(write_wq) <=> lock_pc'[u] = "waiting" /\ ~acquired'[u])
    OBVIOUS
  <2>1. u \in Lockers /\ u \notin ToSet(read_wq)
    BY <1>1, <1>6
  <2>2. acquired'[u] <=> acquired[u]
    BY <1>10, <2>1
  <2>3. u \in ToSet(write_wq) <=> lock_pc[u] = "waiting" /\ ~acquired[u]
    BY DEF Queues
  <2>4. u # t => ~Has(u)
    BY <1>4 DEF Owners
  <2>5. CASE u = t
    BY <1>1, <1>3, <2>1, <2>3, <2>5 DEF Has
  <2>6. CASE u # t
    BY <1>3, <2>1, <2>2, <2>3, <2>4, <2>6 DEF Has
  <2>7. QED BY <2>5, <2>6
<1>13. ReadersIn' = ToSet(read_wq)
  BY <1>6, <1>11 DEF ReadersIn
<1>14. Len(read_wq) \in Nat /\ Cardinality(ToSet(read_wq)) = Len(read_wq)
  BY <1>6, LengthIs
<1>15. LockTypes'
  <2>1. << >> \in Seq(Readers) /\ << >> \in Seq(Writers)
    BY EmptySeq
  <2>2. QED BY <1>2, <1>3, <1>6, <1>7, <1>8, <1>9, <1>14, <2>1 DEF LockTypes
<1>16. Queues'
  <2>1. Once(<< >>) /\ ToSet(<< >>) = {}
    BY DEF Once, ToSet
  <2>2. QED BY <1>7, <1>11, <1>12, <2>1 DEF Queues
<1>17. Owners'
  <2>1. read_owners' = Cardinality(ReadersIn')
    BY <1>8, <1>13, <1>14
  <2>2. QED BY <1>1, <1>2, <1>12, <2>1 DEF Owners
<1>18. write_wq # << >> => read_owners' # 0
  <2>1. read_wq # << >> => Len(read_wq) # 0
    BY <1>6
  <2>2. QED BY <1>5, <1>8, <2>1
<1>19. QED BY <1>7, <1>15, <1>16, <1>17, <1>18

LEMMA ExpireStep ==
  ASSUME ThreadAssumption, LockInv, NEW t \in Lockers, Expire(t)
  PROVE  LockInv'
<1>1. /\ ready' = [ready EXCEPT ![t] = TRUE]
      /\ UNCHANGED <<write_owner, read_owners, read_wq, write_wq, lock_pc, acquired>>
  BY DEF Expire
<1>2. ready' \in [Lockers -> BOOLEAN]
  BY <1>1, LockTypesKept DEF LockInv
<1>3. QED
  BY <1>1, <1>2 DEF LockInv, LockTypes, Queues, Owners, ReadersIn, Has

LEMMA ReturnStep ==
  ASSUME ThreadAssumption, LockInv, NEW t \in Lockers, Return(t)
  PROVE  LockInv'
<1> USE DEF LockInv
<1>1. /\ lock_pc[t] = "waiting"
      /\ read_wq' = Without(read_wq, {t}) /\ write_wq' = Without(write_wq, {t})
      /\ lock_pc' = [lock_pc EXCEPT ![t] = IF acquired[t] THEN "in" ELSE "out"]
      /\ UNCHANGED <<write_owner, read_owners, ready, acquired>>
  BY DEF Return
<1>2. /\ \A u \in Lockers : lock_pc'[u] = IF u = t THEN IF acquired[t] THEN "in" ELSE "out" ELSE lock_pc[u]
      /\ lock_pc' \in [Lockers -> {"out", "waiting", "in"}]
  BY <1>1, LockTypesKept
<1>3. \A u \in Lockers : Has(u)' <=> Has(u)
  BY <1>1, <1>2 DEF Has
<1>4. Readers \subseteq Lockers /\ Writers \subseteq Lockers
  BY DEF Lockers
<1>5. ReadersIn' = ReadersIn
  BY <1>3, <1>4 DEF ReadersIn
<1>6. /\ read_wq \in Seq(Readers) /\ Once(read_wq) /\ write_wq \in Seq(Writers) /\ Once(write_wq)
  BY DEF LockTypes, Queues
<1>7. /\ read_wq' \in Seq(Readers) /\ Once(read_wq') /\ ToSet(read_wq') = ToSet(read_wq) \ {t}
      /\ write_wq' \in Seq(Writers) /\ Once(write_wq') /\ ToSet(write_wq') = ToSet(write_wq) \ {t}
  BY <1>1, <1>6, WithoutIs
<1>8. LockTypes'
  BY <1>1, <1>2, <1>7 DEF LockTypes
<1>9. Queues'
  BY <1>1, <1>2, <1>4, <1>7 DEF Queues
<1>10. Owners'
  BY <1>1, <1>3, <1>4, <1>5 DEF Owners
<1>11. QED BY <1>8, <1>9, <1>10

LEMMA LockStep ==
  ASSUME ThreadAssumption, Sound, [NextLock]_lockVars
  PROVE  Sound'
<1> SUFFICES ASSUME ~handed'
             PROVE  LockInv'
  BY DEF Sound
<1>1. CASE UNCHANGED lockVars
  BY <1>1 DEF Sound, lockVars, LockInv, LockTypes, Queues, Owners, ReadersIn, Has
<1>2. CASE NextLock
  <2>1. PICK t \in Lockers :
          \/ read_lock(t) \/ write_lock(t) \/ read_unlock(t) \/ write_unlock(t)
          \/ Expire(t) \/ Return(t)
    BY <1>2 DEF NextLock, Unlock, Lockers
  <2>2. ~handed
    BY <2>1 DEF read_lock, write_lock, read_unlock, write_unlock, Expire, Return, lockHistory
  <2>3. LockInv
    BY <2>2 DEF Sound
  <2>4. QED
    BY <2>1, <2>3, ReadLockStep, WriteLockStep, ReadUnlockStep, WriteUnlockStep, ExpireStep,
       ReturnStep
<1>3. QED BY <1>1, <1>2

LEMMA LockStart ==
  ASSUME ThreadAssumption, InitLock
  PROVE  LockInv
<1>1. /\ write_owner = Nobody /\ read_owners = 0 /\ read_wq = << >> /\ write_wq = << >>
      /\ lock_pc = [t \in Lockers |-> "out"]
      /\ ready = [t \in Lockers |-> FALSE] /\ acquired = [t \in Lockers |-> FALSE]
  BY DEF InitLock, Lockers
<1>2. Nobody \notin Writers /\ Readers \subseteq Lockers /\ Writers \subseteq Lockers
  BY DEF ThreadAssumption, Lockers
<1>3. \A u \in Lockers : ~Has(u)
  BY <1>1 DEF Has
<1>4. ReadersIn = {}
  BY <1>2, <1>3 DEF ReadersIn
<1>5. << >> \in Seq(Readers) /\ << >> \in Seq(Writers) /\ Once(<< >>) /\ ToSet(<< >>) = {}
  BY EmptySeq DEF Once, ToSet
<1>6. LockTypes
  BY <1>1, <1>5 DEF LockTypes
<1>7. Queues
  BY <1>1, <1>2, <1>5 DEF Queues
<1>8. Owners
  BY <1>1, <1>2, <1>3, <1>4, ReadersCounted DEF Owners
<1>9. QED BY <1>6, <1>7, <1>8 DEF LockInv

LEMMA LockExcludes ==
  ASSUME ThreadAssumption, Sound
  PROVE  Exclusion
<1> SUFFICES ASSUME LockInv
             PROVE  /\ TypeOKLock
                    /\ read_owners = Cardinality({t \in Readers : Has(t)})
                    /\ \A t \in Writers : Has(t) =>
                         read_owners = 0 /\ \A u \in Writers \ {t} : ~Has(u)
  BY DEF Sound, Exclusion
<1>1. /\ read_owners = Cardinality(ReadersIn) /\ read_owners <= Cardinality(Readers)
      /\ Cardinality(Readers) \in Nat /\ read_owners \in Nat
  BY ReadersCounted DEF LockInv, Owners
<1>2. TypeOKLock
  BY <1>1 DEF LockInv, LockTypes, TypeOKLock
<1>3. \A t \in Writers : Has(t) => read_owners = 0 /\ \A u \in Writers \ {t} : ~Has(u)
  BY DEF LockInv, Owners, ThreadAssumption
<1>4. QED BY <1>1, <1>2, <1>3 DEF ReadersIn

\* Co_rwlock excludes readers from writers and writers from each other, and
\* counts the readers, from the moment a wake-up hands the lock over, for any
\* readers, writers and timers: as long as write_unlock has not woken another
\* writer, the one step that gives the lock away without its owner.
THEOREM ReadersOrWriter == SpecLock => []Exclusion
<1> USE ThreadAssumption
<1>1. InitLock => Sound
  BY LockStart DEF Sound
<1>2. Sound /\ [NextLock]_lockVars => Sound'
  BY LockStep
<1>3. Sound => Exclusion
  BY LockExcludes
<1>4. QED BY <1>1, <1>2, <1>3, PTL DEF SpecLock

-----------------------------------------------------------------------------
(* Nobody is left waiting for a free lock                                  *)

\* Readers wait only for a writer, which waits for those that have the lock.
LinesMove ==
  /\ read_wq # << >> => write_owner # Nobody \/ write_wq # << >>
  /\ write_wq # << >> => read_owners # 0 \/ write_owner # Nobody

\* So it is until a writer is woken by another, or gives up and leaves readers.
Moving == ~handed /\ ~stranded => LinesMove

LEMMA LinesStart ==
  ASSUME ThreadAssumption, InitLock
  PROVE  LinesMove
<1>1. read_wq = << >> /\ write_wq = << >>
  BY DEF InitLock
<1>2. QED BY <1>1 DEF LinesMove

LEMMA LinesReadUnlock ==
  ASSUME ThreadAssumption, LockInv, LockInv', LinesMove, NEW t \in Lockers, read_unlock(t)
  PROVE  LinesMove'
<1>1. /\ t \in Readers /\ lock_pc[t] = "in" /\ Nobody \notin Writers
      /\ read_owners' = read_owners - 1 /\ UNCHANGED read_wq /\ read_owners \in Nat
  BY DEF read_unlock, ThreadAssumption, LockInv, LockTypes
<1>2. t \in ReadersIn
  BY <1>1 DEF ReadersIn, Has
<1>3. read_owners # 0 /\ write_owner = Nobody
  BY <1>2, ReadersCounted DEF LockInv, Owners
<1>4. CASE read_owners # 1
  <2>1. UNCHANGED <<write_owner, write_wq>>
    BY <1>4 DEF read_unlock
  <2>2. read_owners' # 0
    BY <1>1, <1>4
  <2>3. QED BY <1>1, <2>1, <2>2 DEF LinesMove
<1>5. CASE read_owners = 1 /\ write_wq = << >>
  <2>1. write_wq' = << >>
    BY <1>5 DEF read_unlock, WakeWriter
  <2>2. read_wq = << >>
    BY <1>3, <1>5 DEF LinesMove
  <2>3. QED BY <1>1, <2>1, <2>2 DEF LinesMove
<1>6. CASE read_owners = 1 /\ write_wq # << >>
  <2>1. write_owner' = Head(write_wq)
    BY <1>6 DEF read_unlock
  <2>2. Head(write_wq) \in Writers
    BY <1>6, WriterInLine
  <2>3. write_owner' # Nobody
    BY <1>1, <2>1, <2>2
  <2>4. QED BY <2>3 DEF LinesMove
<1>7. QED BY <1>4, <1>5, <1>6

LEMMA LinesReturn ==
  ASSUME ThreadAssumption, LockInv, LinesMove, NEW t \in Lockers, Return(t), ~stranded'
  PROVE  LinesMove'
<1>1. /\ lock_pc[t] = "waiting"
      /\ read_wq' = Without(read_wq, {t}) /\ write_wq' = Without(write_wq, {t})
      /\ UNCHANGED <<write_owner, read_owners>>
      /\ ~LeavesReaders(t)
  BY DEF Return
<1>2. /\ read_wq \in Seq(Readers) /\ write_wq \in Seq(Writers)
      /\ Readers \cap Writers = {}
  BY DEF LockInv, LockTypes, ThreadAssumption
<1>3. /\ read_wq' \in Seq(Readers) /\ ToSet(read_wq') = ToSet(read_wq) \ {t}
      /\ write_wq' \in Seq(Writers) /\ ToSet(write_wq') = ToSet(write_wq) \ {t}
  BY <1>1, <1>2, WithoutIs
<1>4. /\ read_wq' # << >> => read_wq # << >>
      /\ write_wq' # << >> => write_wq # << >>
  BY <1>2, <1>3, EmptyList
<1>5. ASSUME read_wq' # << >>, write_owner' = Nobody
      PROVE  write_wq' # << >>
  <2>1. write_wq # << >> /\ read_wq # << >>
    BY <1>1, <1>4, <1>5 DEF LinesMove
  <2>2. CASE t \in Writers /\ ~acquired[t]
    BY <1>1, <1>5, <2>1, <2>2 DEF LeavesReaders
  <2>3. CASE ~(t \in Writers /\ ~acquired[t])
    <3>1. ToSet(write_wq) \subseteq Writers
      BY <1>2, OfType
    <3>2. t \notin ToSet(write_wq)
      BY <2>3, <3>1 DEF LockInv, Queues
    <3>3. ToSet(write_wq') = ToSet(write_wq)
      BY <1>3, <3>2
    <3>4. QED BY <1>2, <1>3, <2>1, <3>3, EmptyList
  <2>4. QED BY <2>2, <2>3
<1>6. QED BY <1>1, <1>4, <1>5 DEF LinesMove

LEMMA LinesStep ==
  ASSUME ThreadAssumption, Sound, Sound', Moving, [NextLock]_lockVars
  PROVE  Moving'
<1> SUFFICES ASSUME ~handed', ~stranded'
             PROVE  LinesMove'
  BY DEF Moving
<1>1. CASE UNCHANGED lockVars
  BY <1>1 DEF lockVars, Moving, LinesMove
<1>2. CASE NextLock
  <2>1. PICK t \in Lockers :
          \/ read_lock(t) \/ write_lock(t) \/ read_unlock(t) \/ write_unlock(t)
          \/ Expire(t) \/ Return(t)
    BY <1>2 DEF NextLock, Unlock, Lockers
  <2>2. ~handed /\ ~stranded
    <3>1. CASE write_unlock(t)
      <4>1. stranded' = stranded
        BY <3>1 DEF write_unlock
      <4>2. handed' = handed \/ handed' = (handed \/ write_wq # << >>)
        BY <3>1 DEF write_unlock
      <4>3. ~stranded
        BY <4>1
      <4>4. CASE handed' = handed
        BY <4>3, <4>4
      <4>5. CASE handed' = (handed \/ write_wq # << >>)
        BY <4>3, <4>5, Zenon
      <4>6. QED BY <4>2, <4>4, <4>5
    <3>2. CASE Return(t)
      BY <3>2, Zenon DEF Return
    <3>3. CASE read_lock(t) \/ write_lock(t) \/ read_unlock(t) \/ Expire(t)
      <4>1. UNCHANGED lockHistory
        BY <3>3 DEF read_lock, write_lock, read_unlock, Expire
      <4>2. handed' = handed /\ stranded' = stranded
        BY <4>1 DEF lockHistory
      <4>3. QED BY <4>2
    <3>4. QED BY <2>1, <3>1, <3>2, <3>3
  <2>3. LockInv /\ LockInv' /\ LinesMove
    BY <2>2 DEF Sound, Moving
  <2>4. Nobody \notin Writers /\ read_owners \in Nat
    BY <2>3 DEF ThreadAssumption, LockInv, LockTypes
  <2>5. ASSUME read_lock(t) PROVE LinesMove'
    <3>1. UNCHANGED <<write_owner, write_wq>>
      BY <2>5 DEF read_lock
    <3>2. CASE MayRead
      <4>1. read_wq = << >> /\ write_wq = << >> /\ UNCHANGED read_wq
        BY <2>3, <2>5, <3>2 DEF read_lock, MayRead, LinesMove
      <4>2. QED BY <3>1, <4>1 DEF LinesMove
    <3>3. CASE ~MayRead
      <4>1. UNCHANGED read_owners
        BY <2>5, <3>3 DEF read_lock
      <4>2. QED BY <2>3, <3>1, <3>3, <4>1 DEF MayRead, LinesMove
    <3>4. QED BY <3>2, <3>3
  <2>6. ASSUME write_lock(t) PROVE LinesMove'
    <3>1. t \in Writers /\ UNCHANGED <<read_owners, read_wq>>
      BY <2>6 DEF write_lock
    <3>2. CASE read_owners = 0 /\ write_owner = Nobody
      <4>1. write_owner' = t /\ UNCHANGED write_wq
        BY <2>6, <3>2 DEF write_lock
      <4>2. QED BY <2>4, <3>1, <4>1 DEF LinesMove
    <3>3. CASE ~(read_owners = 0 /\ write_owner = Nobody)
      <4>1. write_wq' = Append(write_wq, t) /\ UNCHANGED write_owner
        BY <2>6, <3>3 DEF write_lock
      <4>2. write_wq' # << >>
        BY <2>3, <3>1, <4>1 DEF LockInv, LockTypes
      <4>3. QED BY <3>1, <3>3, <4>1, <4>2 DEF LinesMove
    <3>4. QED BY <3>2, <3>3
  <2>7. ASSUME write_unlock(t) PROVE LinesMove'
    <3>1. read_wq' = << >> /\ (write_wq' # << >> => read_owners' # 0)
      BY <2>3, <2>7, WriteUnlockStep
    <3>2. QED BY <3>1 DEF LinesMove
  <2>8. ASSUME Expire(t) PROVE LinesMove'
    BY <2>3, <2>8 DEF Expire, LinesMove
  <2>9. QED BY <2>1, <2>3, <2>5, <2>6, <2>7, <2>8, LinesReadUnlock, LinesReturn
<1>3. QED BY <1>1, <1>2

LEMMA NobodyWaits ==
  ASSUME ThreadAssumption, Sound, Moving
  PROVE  NoWaitForFreeLock
<1> SUFFICES ASSUME Unlocked, LockInv, LinesMove, NEW t \in Lockers,
                    lock_pc[t] = "waiting"
             PROVE  ready[t]
  BY DEF NoWaitForFreeLock, Sound, Moving
<1>1. write_owner = Nobody /\ \A u \in Lockers : ~Has(u)
  BY DEF Unlocked, Lockers, Has
<1>2. ReadersIn = {}
  BY <1>1 DEF ReadersIn, Lockers
<1>3. read_owners = 0
  BY <1>2, ReadersCounted DEF LockInv, Owners
<1>4. write_wq = << >> /\ read_wq = << >>
  BY <1>1, <1>3 DEF LinesMove
<1>5. ToSet(<< >>) = {}
  BY DEF ToSet
<1>6. ~acquired[t]
  BY <1>1 DEF Has
<1>7. QED BY <1>4, <1>5, <1>6 DEF LockInv, Queues, Lockers

\* read_unlock and write_unlock leave nobody waiting for a lock that is free,
\* for any readers, writers and timers.  There are two steps after which they
\* may: write_unlock wakes another writer, and the last writer in line gives up
\* while readers wait behind it.
THEOREM FreeLockIsTaken == SpecLock => []NoWaitForFreeLock
<1> USE ThreadAssumption
<1>1. InitLock => Sound /\ Moving
  BY LockStart, LinesStart DEF Sound, Moving
<1>2. Sound /\ Moving /\ [NextLock]_lockVars => Sound' /\ Moving'
  BY LockStep, LinesStep
<1>3. Sound /\ Moving => NoWaitForFreeLock
  BY NobodyWaits
<1>4. QED BY <1>1, <1>2, <1>3, PTL DEF SpecLock
=============================================================================
