---------------------- MODULE OpenflowConnectionProofs ----------------------
(***************************************************************************)
(* Proofs about OpenflowConnection, for any numbers of messages, capacity  *)
(* of the socket and probe interval: messages stay whole in both           *)
(* directions, and only a silent peer is dropped.  Then about              *)
(* ReliableConnection, for any limit: the delays between attempts.         *)
(***************************************************************************)
EXTENDS OpenflowConnection, ReliableConnection, FiniteSetTheorems, SequenceTheorems, TLAPS

-----------------------------------------------------------------------------
(* Induction on the numbers up to N, for a set                             *)

\* A set of numbers from m to N that contains m, and with every number the next
\* one, contains N: else it could be mapped into itself without m.
LEMMA Climb ==
  ASSUME NEW m \in Int, NEW N \in Int, m <= N,
         NEW K \in SUBSET (m..N), m \in K,
         \A n \in K : n < N => n + 1 \in K
  PROVE  N \in K
<1> SUFFICES ASSUME N \notin K PROVE FALSE
  OBVIOUS
<1> DEFINE f == [n \in K |-> n + 1]
<1>1. IsFiniteSet(K)
  BY FS_Interval, FS_Subset
<1>2. IsFiniteSet(K \ {m}) /\ Cardinality(K \ {m}) = Cardinality(K) - 1
  BY <1>1, FS_RemoveElement
<1>3. Cardinality(K) \in Nat
  BY <1>1, FS_CardinalityType
<1>4. \A n \in K : n \in Int /\ m <= n /\ n < N
  OBVIOUS
<1>5. f \in [K -> K \ {m}]
  BY <1>4
<1>6. \A i, j \in K : f[i] = f[j] => i = j
  BY <1>4
<1>7. Cardinality(K \ {m}) < Cardinality(K)
  BY <1>2, <1>3
<1> HIDE DEF f
<1>8. \E i, j \in K : i # j /\ f[i] = f[j]
  BY <1>1, <1>2, <1>5, <1>7, FS_PigeonHole
<1>9. QED BY <1>6, <1>8

-----------------------------------------------------------------------------
(* Parts of sequences                                                      *)

LEMMA SplitIs ==
  ASSUME NEW S, NEW s \in Seq(S), NEW n \in 0..Len(s)
  PROVE  LET a == SubSeq(s, 1, n)
             b == SubSeq(s, n + 1, Len(s)) IN
         a \in Seq(S) /\ b \in Seq(S) /\ Len(a) = n /\ Len(b) = Len(s) - n
         /\ a \o b = s /\ \A i \in 1..Len(b) : b[i] = s[n + i]
<1> DEFINE a == SubSeq(s, 1, n)
           b == SubSeq(s, n + 1, Len(s))
           N == Len(s)
<1>1. /\ N \in Nat /\ 1 \in Int /\ n \in Int /\ n + 1 \in Int /\ N \in Int /\ 0 <= n /\ n <= N
      /\ \A i \in 1..N : s[i] \in S
  OBVIOUS
<1> HIDE DEF N
<1>2. /\ a \in Seq(S) /\ Len(a) = IF 1 <= n THEN n - 1 + 1 ELSE 0
  <2>1. \A i \in 1..n : s[i] \in S
    BY <1>1
  <2>2. QED BY <1>1, <2>1, SubSeqProperties
<1>3. /\ b \in Seq(S) /\ Len(b) = IF n + 1 <= N THEN N - (n + 1) + 1 ELSE 0
      /\ \A i \in 1..(N - (n + 1) + 1) : b[i] = s[(n + 1) + i - 1]
  <2>1. \A i \in (n + 1)..N : s[i] \in S
    BY <1>1
  <2>2. QED BY <1>1, <2>1, SubSeqProperties DEF N
<1>4. a \o b = s
  <2>1. 1 \in 1..(N + 1) /\ n \in (1 - 1)..N /\ N \in n..N
    BY <1>1
  <2>2. a \o b = SubSeq(s, 1, N)
    BY <2>1, ConcatAdjacentSubSeq DEF N
  <2>3. QED BY <2>2, SubSeqFull DEF N
<1> HIDE DEF a, b
<1>5. Len(a) = n /\ Len(b) = N - n
  BY <1>1, <1>2, <1>3
<1>6. \A i \in 1..Len(b) : b[i] = s[n + i]
  <2> SUFFICES ASSUME NEW i \in 1..Len(b) PROVE b[i] = s[n + i]
    OBVIOUS
  <2>1. i \in 1..(N - (n + 1) + 1) /\ (n + 1) + i - 1 = n + i
    BY <1>1, <1>5
  <2>2. b[i] = s[(n + 1) + i - 1]
    BY <1>3, <2>1
  <2>3. QED BY <2>1, <2>2
<1>7. QED BY <1>2, <1>3, <1>4, <1>5, <1>6 DEF a, b, N

\* What follows u, when a and b together begin with u and b completes it.
LEMMA RestIs ==
  ASSUME NEW S, NEW a \in Seq(S), NEW b \in Seq(S), NEW u \in Seq(S), NEW r \in Seq(S),
         a \o b = u \o r, Len(a) <= Len(u), Len(u) <= Len(a) + Len(b)
  PROVE  SubSeq(b, Len(u) - Len(a) + 1, Len(b)) = r
<1> DEFINE n == Len(u) - Len(a)
           last == SubSeq(b, n + 1, Len(b))
<1>1. Len(a) \in Nat /\ Len(b) \in Nat /\ Len(u) \in Nat /\ Len(r) \in Nat
  OBVIOUS
<1>2. /\ Len(a \o b) = Len(a) + Len(b)
      /\ \A i \in 1..(Len(a) + Len(b)) : (a \o b)[i] = IF i <= Len(a) THEN a[i] ELSE b[i - Len(a)]
  BY ConcatProperties
<1>3. /\ Len(u \o r) = Len(u) + Len(r)
      /\ \A i \in 1..(Len(u) + Len(r)) : (u \o r)[i] = IF i <= Len(u) THEN u[i] ELSE r[i - Len(u)]
  BY ConcatProperties
<1>4. n \in 0..Len(b) /\ Len(r) = Len(b) - n
  BY <1>1, <1>2, <1>3
<1>5. last \in Seq(S) /\ Len(last) = Len(b) - n /\ \A i \in 1..Len(last) : last[i] = b[n + i]
  <2> HIDE DEF n
  <2>1. QED BY <1>4, SplitIs
<1>6. ASSUME NEW i \in 1..Len(r) PROVE r[i] = b[n + i]
  <2>1. /\ i + Len(u) \in 1..(Len(u) + Len(r)) /\ ~(i + Len(u) <= Len(u))
        /\ (i + Len(u)) - Len(u) = i
    BY <1>1
  <2>2. /\ i + Len(u) \in 1..(Len(a) + Len(b)) /\ ~(i + Len(u) <= Len(a))
        /\ (i + Len(u)) - Len(a) = n + i
    BY <1>1, <1>4
  <2>3. (u \o r)[i + Len(u)] = r[i]
    BY <1>3, <2>1
  <2>4. (a \o b)[i + Len(u)] = b[n + i]
    BY <1>2, <2>2
  <2>5. QED BY <2>3, <2>4
<1> HIDE DEF n, last
<1>7. last = r
  <2>1. Len(last) = Len(r) /\ \A i \in 1..Len(last) : last[i] = r[i]
    BY <1>4, <1>5, <1>6
  <2>2. QED BY <1>5, <2>1, SeqEqual
<1>8. QED BY <1>7 DEF last, n

-----------------------------------------------------------------------------
(* The units of a sequence of messages                                     *)

\* What FlattenSeq's recursive function is, for a sequence that is not empty.
LEMMA FlattenIs ==
  ASSUME NEW S, NEW s \in Seq(Seq(S)), s # << >>
  PROVE  \E f \in [1..Len(s) -> Seq(S)] :
           /\ FlattenSeq(s) = f[Len(s)]
           /\ f[1] = s[1]
           /\ \A i \in 2..Len(s) : f[i] = f[i - 1] \o s[i]
<1> DEFINE N == Len(s)
           fl[i \in 1..Len(s)] == IF i = 1 THEN s[i] ELSE fl[i-1] \o s[i]
           Rec(f, n) == f = [i \in 1..n |-> IF i = 1 THEN s[i] ELSE f[i-1] \o s[i]]
<1>1. N \in Nat /\ N # 0 /\ \A i \in 1..N : s[i] \in Seq(S)
  OBVIOUS
<1>2. FlattenSeq(s) = fl[Len(s)]
  BY <1>1 DEF FlattenSeq
<1>3. \E f : Rec(f, N)
  <2> DEFINE K == {n \in 1..N : \E f : Rec(f, n)}
  <2>1. 1 \in K
    <3> DEFINE f == [i \in 1..1 |-> s[1]]
    <3>1. Rec(f, 1)
      OBVIOUS
    <3>2. \E g : Rec(g, 1)
      <4> HIDE DEF Rec
      <4>1. QED BY <3>1
    <3>3. 1 \in 1..N
      BY <1>1
    <3> HIDE DEF Rec
    <3>4. QED BY <3>2, <3>3
  <2>2. ASSUME NEW n \in K, n < N PROVE n + 1 \in K
    <3>1. PICK f : Rec(f, n)
      OBVIOUS
    <3> DEFINE g == [i \in 1..(n + 1) |-> IF i = n + 1 THEN f[n] \o s[n + 1] ELSE f[i]]
    <3>2. n \in Int /\ 1 <= n /\ n + 1 \in 1..N
      BY <2>2, <1>1
    <3>3. \A i \in 1..n : f[i] = IF i = 1 THEN s[i] ELSE f[i-1] \o s[i]
      BY <3>1
    <3> HIDE DEF Rec
    <3>4. \A i \in 1..(n + 1) : g[i] = IF i = 1 THEN s[i] ELSE g[i-1] \o s[i]
      <4>1. ASSUME NEW i \in 1..n PROVE g[i] = f[i] /\ (i # 1 => g[i - 1] = f[i - 1])
        BY <3>2
      <4>2. /\ n + 1 \in 1..(n + 1) /\ n \in 1..n /\ n + 1 # 1
            /\ (n + 1) - 1 = n
        BY <3>2
      <4>3. \A i \in 1..(n + 1) : i \in 1..n \/ i = n + 1
        BY <3>2
      <4>4. g[n + 1] = f[n] \o s[n + 1] /\ g[n] = f[n]
        BY <4>1, <4>2
      <4> HIDE DEF g
      <4>5. QED BY <3>3, <4>1, <4>2, <4>3, <4>4
    <3>5. Rec(g, n + 1)
      <4>1. g = [i \in 1..(n + 1) |-> g[i]]
        OBVIOUS
      <4> HIDE DEF g
      <4>2. QED BY <3>4, <4>1 DEF Rec
    <3>6. QED BY <3>2, <3>5
  <2> HIDE DEF Rec
  <2>3. N \in K
    <3> HIDE DEF N
    <3>1. K \in SUBSET (1..N) /\ 1 \in Int /\ N \in Int /\ 1 <= N
      BY <1>1
    <3> HIDE DEF K
    <3>2. QED BY <2>1, <2>2, <3>1, Climb
  <2>4. QED BY <2>3
<1>4. Rec(fl, N)
  BY <1>3
<1>5. \A i \in 1..N : fl[i] = IF i = 1 THEN s[i] ELSE fl[i-1] \o s[i]
  <2> HIDE DEF fl
  <2>1. QED BY <1>4
<1>6. fl = [i \in 1..N |-> fl[i]]
  <2> HIDE DEF fl
  <2>1. QED BY <1>4
<1> HIDE DEF fl, Rec
<1>7. ASSUME NEW n \in 1..N PROVE fl[n] \in Seq(S)
  <2> DEFINE K == {k \in 1..n : fl[k] \in Seq(S)}
  <2>1. 1 \in K
    <3>1. 1 \in 1..n /\ 1 \in 1..N
      BY <1>1
    <3>2. fl[1] = s[1]
      BY <1>5, <3>1
    <3>3. QED BY <1>1, <3>1, <3>2
  <2>2. ASSUME NEW k \in K, k < n PROVE k + 1 \in K
    <3>1. k + 1 \in 1..n /\ k + 1 \in 1..N /\ k + 1 # 1 /\ (k + 1) - 1 = k
      BY <2>2, <1>1
    <3>2. fl[k] \in Seq(S) /\ s[k + 1] \in Seq(S)
      BY <1>1, <3>1
    <3>3. fl[k + 1] = fl[k] \o s[k + 1]
      BY <1>5, <3>1
    <3>4. QED BY <3>1, <3>2, <3>3, ConcatProperties
  <2>3. K \in SUBSET (1..n) /\ 1 \in Int /\ n \in Int /\ 1 <= n
    BY <1>1
  <2> HIDE DEF K
  <2>4. n \in K
    BY <2>1, <2>2, <2>3, Climb
  <2>5. QED BY <2>4 DEF K
<1>8. fl \in [1..N -> Seq(S)]
  BY <1>6, <1>7
<1>9. \A i \in 2..N : i \in 1..N /\ i # 1
  BY <1>1
<1>10. fl[1] = s[1] /\ \A i \in 2..N : fl[i] = fl[i - 1] \o s[i]
  <2> HIDE DEF N
  <2>1. 1 \in 1..N
    BY <1>1
  <2>2. QED BY <1>5, <1>9, <2>1
<1>11. QED BY <1>2, <1>8, <1>10

LEMMA FlattenType ==
  ASSUME NEW S, NEW s \in Seq(Seq(S))
  PROVE  FlattenSeq(s) \in Seq(S)
<1>1. CASE s = << >>
  BY <1>1 DEF FlattenSeq
<1>2. CASE s # << >>
  <2>1. Len(s) \in 1..Len(s)
    BY <1>2
  <2>2. PICK f \in [1..Len(s) -> Seq(S)] : FlattenSeq(s) = f[Len(s)]
    BY <1>2, FlattenIs
  <2>3. QED BY <2>1, <2>2
<1>3. QED BY <1>1, <1>2

LEMMA FlattenAppend ==
  ASSUME NEW S, NEW s \in Seq(Seq(S)), NEW u \in Seq(S)
  PROVE  FlattenSeq(Append(s, u)) = FlattenSeq(s) \o u
<1> DEFINE t == Append(s, u)
           N == Len(s)
<1>1. /\ t \in Seq(Seq(S)) /\ t # << >> /\ Len(t) = N + 1 /\ N \in Nat
      /\ t[N + 1] = u /\ \A i \in 1..N : t[i] = s[i]
  BY AppendProperties
<1> HIDE DEF t
<1>2. PICK g \in [1..(N + 1) -> Seq(S)] :
        /\ FlattenSeq(t) = g[N + 1] /\ g[1] = t[1]
        /\ \A i \in 2..(N + 1) : g[i] = g[i - 1] \o t[i]
  <2>1. \E g \in [1..Len(t) -> Seq(S)] :
          /\ FlattenSeq(t) = g[Len(t)] /\ g[1] = t[1]
          /\ \A i \in 2..Len(t) : g[i] = g[i - 1] \o t[i]
    <3> HIDE DEF N
    <3>1. t \in Seq(Seq(S)) /\ t # << >>
      BY <1>1
    <3>2. QED BY <3>1, FlattenIs
  <2>2. QED BY <1>1, <2>1
<1>3. CASE s = << >>
  <2>1. FlattenSeq(s) = << >> /\ N = 0
    BY <1>3 DEF FlattenSeq
  <2>2. FlattenSeq(t) = u
    BY <1>1, <1>2, <2>1
  <2>3. QED BY <2>1, <2>2, ConcatEmptySeq DEF t
<1>4. CASE s # << >>
  <2>1. PICK f \in [1..N -> Seq(S)] :
          /\ FlattenSeq(s) = f[N] /\ f[1] = s[1]
          /\ \A i \in 2..N : f[i] = f[i - 1] \o s[i]
    BY <1>4, FlattenIs
  <2>2. N # 0
    BY <1>4
  <2> HIDE DEF N
  <2> DEFINE K == {n \in 1..N : f[n] = g[n]}
  <2>3. 1 \in K
    BY <1>1, <1>2, <2>1, <2>2
  <2>4. ASSUME NEW n \in K, n < N PROVE n + 1 \in K
    <3>1. /\ n \in Int /\ n + 1 \in 1..N /\ n + 1 \in 2..N /\ n + 1 \in 2..(N + 1)
          /\ (n + 1) - 1 = n
      BY <2>4, <1>1
    <3>2. f[n + 1] = f[n] \o s[n + 1] /\ g[n + 1] = g[n] \o t[n + 1]
      BY <1>2, <2>1, <3>1
    <3>3. QED BY <1>1, <3>1, <3>2
  <2>5. K \in SUBSET (1..N) /\ 1 \in Int /\ N \in Int /\ 1 <= N
    BY <1>1, <2>2
  <2> HIDE DEF K
  <2>6. N \in K
    BY <2>3, <2>4, <2>5, Climb
  <2>7. f[N] = g[N]
    BY <2>6 DEF K
  <2>8. N + 1 \in 2..(N + 1) /\ (N + 1) - 1 = N
    BY <1>1, <2>2
  <2>9. g[N + 1] = g[N] \o u
    BY <1>1, <1>2, <2>8
  <2>10. QED BY <1>2, <2>1, <2>7, <2>9 DEF t
<1>5. QED BY <1>3, <1>4

\* A unit: the number of a message, and its place in it.
Unit == Nat \X Nat

\* The i-th message, when it is of some kind.
Size(kind) == Header + IF HasBody(kind) THEN 1 ELSE 0
UnitsOf(i, kind) == [part \in 1..Size(kind) |-> <<i, part>>]

LEMMA SizeIs ==
  ASSUME NEW kind
  PROVE  Size(kind) \in Nat /\ Size(kind) >= 2
  BY DEF Size, Header

LEMMA MessageIs ==
  ASSUME NEW i \in Nat, NEW kind
  PROVE  /\ UnitsOf(i, kind) \in Seq(Unit) /\ Len(UnitsOf(i, kind)) = Size(kind)
         /\ UnitsOf(i, kind)[1] = <<i, 1>>
<1>1. Size(kind) \in Nat /\ 1 \in 1..Size(kind)
  BY SizeIs
<1>2. \A part \in 1..Size(kind) : <<i, part>> \in Unit
  BY <1>1 DEF Unit
<1>3. QED BY <1>1, <1>2 DEF UnitsOf

\* The messages as a sequence of sequences of units.
Parts(messages) == [i \in DOMAIN messages |-> UnitsOf(i, messages[i])]

LEMMA PartsIs ==
  ASSUME NEW M, NEW m \in Seq(M)
  PROVE  Parts(m) \in Seq(Seq(Unit)) /\ Len(Parts(m)) = Len(m) /\ Units(m) = FlattenSeq(Parts(m))
<1>1. DOMAIN m = 1..Len(m) /\ Len(m) \in Nat
  OBVIOUS
<1>2. \A i \in DOMAIN m : UnitsOf(i, m[i]) \in Seq(Unit)
  BY <1>1, MessageIs
<1>3. Parts(m) \in Seq(Seq(Unit)) /\ Len(Parts(m)) = Len(m)
  BY <1>1, <1>2 DEF Parts
<1>4. Units(m) = FlattenSeq(Parts(m))
  BY DEF Units, Parts, UnitsOf, Size
<1>5. QED BY <1>3, <1>4

LEMMA UnitsIs ==
  ASSUME NEW M, NEW m \in Seq(M)
  PROVE  Units(m) \in Seq(Unit)
  BY PartsIs, FlattenType

LEMMA NoUnits == Units(<< >>) = << >>
<1>1. << >> \in Seq({})
  OBVIOUS
<1>2. Len(Parts(<< >>)) = 0 /\ Parts(<< >>) \in Seq(Seq(Unit))
  BY <1>1, PartsIs
<1>3. Units(<< >>) = FlattenSeq(Parts(<< >>))
  BY <1>1, PartsIs
<1>4. Parts(<< >>) = << >>
  BY <1>2, EmptySeq
<1>5. FlattenSeq(<< >>) = << >>
  BY DEF FlattenSeq
<1>6. QED BY <1>3, <1>4, <1>5

LEMMA UnitsAppend ==
  ASSUME NEW M, NEW m \in Seq(M), NEW kind \in M
  PROVE  /\ Units(Append(m, kind)) = Units(m) \o UnitsOf(Len(m) + 1, kind)
         /\ UnitsOfNext(m, kind) = UnitsOf(Len(m) + 1, kind)
<1> DEFINE n == Append(m, kind)
           u == UnitsOf(Len(m) + 1, kind)
<1>1. /\ n \in Seq(M) /\ Len(n) = Len(m) + 1 /\ Len(m) \in Nat
      /\ n[Len(m) + 1] = kind /\ \A i \in 1..Len(m) : n[i] = m[i]
      /\ DOMAIN n = 1..(Len(m) + 1) /\ DOMAIN m = 1..Len(m)
  BY AppendProperties
<1>2. u \in Seq(Unit) /\ Len(u) = Size(kind) /\ Size(kind) \in Nat /\ Size(kind) >= 2
  BY <1>1, MessageIs, SizeIs
<1>3. Parts(m) \in Seq(Seq(Unit)) /\ Parts(n) \in Seq(Seq(Unit))
      /\ Len(Parts(m)) = Len(m) /\ Len(Parts(n)) = Len(m) + 1
  BY <1>1, PartsIs
<1> HIDE DEF n, u
<1>4. Parts(n) = Append(Parts(m), u)
  <2>1. \A i \in 1..Len(m) : Parts(n)[i] = Parts(m)[i]
    BY <1>1 DEF Parts
  <2>2. Parts(n)[Len(m) + 1] = u
    BY <1>1 DEF Parts, u
  <2>3. /\ Append(Parts(m), u) \in Seq(Seq(Unit)) /\ Len(Append(Parts(m), u)) = Len(m) + 1
        /\ Append(Parts(m), u)[Len(m) + 1] = u
        /\ \A i \in 1..Len(m) : Append(Parts(m), u)[i] = Parts(m)[i]
    BY <1>2, <1>3, AppendProperties
  <2>4. \A i \in 1..(Len(m) + 1) : Parts(n)[i] = Append(Parts(m), u)[i]
    <3>1. \A i \in 1..(Len(m) + 1) : i \in 1..Len(m) \/ i = Len(m) + 1
      BY <1>1
    <3>2. QED BY <2>1, <2>2, <2>3, <3>1
  <2>5. QED BY <1>3, <2>3, <2>4, SeqEqual
<1>5. Units(n) = Units(m) \o u
  <2>1. FlattenSeq(Append(Parts(m), u)) = FlattenSeq(Parts(m)) \o u
    BY <1>2, <1>3, FlattenAppend
  <2>2. QED BY <1>1, <1>4, <2>1, PartsIs
<1>6. Units(m) \in Seq(Unit)
  BY UnitsIs
<1>7. UnitsOfNext(m, kind) = u
  <2> DEFINE a == Units(m)
  <2>1. UnitsOfNext(m, kind) = SubSeq(a \o u, Len(a) + 1, Len(a \o u))
    BY <1>5 DEF UnitsOfNext, n
  <2>2. a \in Seq(Unit)
    BY <1>6
  <2> HIDE DEF a
  <2>3. Len(a \o u) = Len(a) + Len(u) /\ Len(a) \in Nat
    <3>1. Len(a \o u) = Len(a) + Len(u)
      BY <1>2, <2>2, ConcatProperties
    <3>2. QED BY <2>2, <3>1
  <2>4. Len(a) + 1 \in (Len(a) + 1)..(Len(a) + Len(u)) /\ Len(a) + Len(u) \in (Len(a) + 1)..(Len(a) + Len(u))
    BY <1>2, <2>3
  <2>5. SubSeq(a \o u, Len(a) + 1, Len(a) + Len(u))
          = SubSeq(u, (Len(a) + 1) - Len(a), (Len(a) + Len(u)) - Len(a))
    BY <1>2, <2>2, <2>4, SubSeqOfConcat2
  <2>6. (Len(a) + 1) - Len(a) = 1 /\ (Len(a) + Len(u)) - Len(a) = Len(u)
    BY <1>2, <2>3
  <2>7. SubSeq(u, 1, Len(u)) = u
    BY <1>2, SubSeqFull
  <2>8. QED BY <2>1, <2>3, <2>5, <2>6, <2>7
<1>8. QED BY <1>5, <1>7 DEF n, u

\* The units of the first messages are the first units.
LEMMA UnitsPrefix ==
  ASSUME NEW M, NEW m \in Seq(M), NEW p \in Seq(M), Len(p) <= Len(m),
         \A i \in 1..Len(p) : p[i] = m[i]
  PROVE  \E r \in Seq(Unit) : Units(m) = Units(p) \o r
<1> DEFINE Pre(n) == SubSeq(m, 1, n)
           K == {n \in Len(p)..Len(m) : \E r \in Seq(Unit) : Units(Pre(n)) = Units(p) \o r}
<1>1. Len(p) \in Nat /\ Len(m) \in Nat
  OBVIOUS
<1>2. ASSUME NEW n \in 0..Len(m)
      PROVE  Pre(n) \in Seq(M) /\ Len(Pre(n)) = n /\ \A i \in 1..n : Pre(n)[i] = m[i]
  <2>1. \A i \in 1..n : m[i] \in M
    BY <1>1
  <2>2. /\ Pre(n) \in Seq(M) /\ Len(Pre(n)) = IF 1 <= n THEN n - 1 + 1 ELSE 0
        /\ \A i \in 1..(n - 1 + 1) : Pre(n)[i] = m[1 + i - 1]
    BY <1>1, <2>1, SubSeqProperties
  <2>3. n - 1 + 1 = n /\ \A i \in 1..n : 1 + i - 1 = i
    BY <1>1
  <2>4. QED BY <2>2, <2>3
<1> HIDE DEF Pre
<1>3. Pre(Len(p)) = p
  <2>1. Len(p) \in 0..Len(m)
    BY <1>1
  <2>2. QED BY <1>1, <1>2, <2>1, SeqEqual
<1>4. Pre(Len(m)) = m
  BY <1>1, <1>2, SeqEqual
<1>5. Units(p) \in Seq(Unit)
  BY UnitsIs
<1>6. Len(p) \in K
  <2>1. Units(p) = Units(p) \o << >> /\ << >> \in Seq(Unit)
    BY <1>5, ConcatEmptySeq
  <2>2. Units(Pre(Len(p))) = Units(p) \o << >>
    BY <1>3, <2>1
  <2>3. Len(p) \in Len(p)..Len(m)
    BY <1>1
  <2>4. QED BY <2>1, <2>2, <2>3
<1>7. ASSUME NEW n \in K, n < Len(m) PROVE n + 1 \in K
  <2>1. /\ n \in Nat /\ n \in 0..Len(m) /\ n + 1 \in 0..Len(m) /\ n + 1 \in 1..Len(m)
        /\ n + 1 \in Len(p)..Len(m)
    BY <1>1, <1>7
  <2>2. PICK r \in Seq(Unit) : Units(Pre(n)) = Units(p) \o r
    OBVIOUS
  <2>3. m[n + 1] \in M
    BY <2>1
  <2>4. Pre(n + 1) = Append(Pre(n), m[n + 1])
    <3>1. /\ Append(Pre(n), m[n + 1]) \in Seq(M) /\ Len(Append(Pre(n), m[n + 1])) = n + 1
          /\ \A i \in 1..n : Append(Pre(n), m[n + 1])[i] = m[i]
          /\ Append(Pre(n), m[n + 1])[n + 1] = m[n + 1]
      BY <1>2, <2>1, <2>3, AppendProperties
    <3>2. \A i \in 1..(n + 1) : i \in 1..n \/ i = n + 1
      BY <2>1
    <3>3. Pre(n + 1) \in Seq(M) /\ Len(Pre(n + 1)) = n + 1 /\ \A i \in 1..(n + 1) : Pre(n + 1)[i] = m[i]
      BY <1>2, <2>1
    <3>4. QED BY <3>1, <3>2, <3>3, SeqEqual
  <2>5. Units(Pre(n + 1)) = (Units(p) \o r) \o UnitsOf(n + 1, m[n + 1])
    <3>1. Pre(n) \in Seq(M) /\ Len(Pre(n)) = n
      BY <1>2, <2>1
    <3>2. QED BY <2>2, <2>3, <2>4, <3>1, UnitsAppend
  <2>6. UnitsOf(n + 1, m[n + 1]) \in Seq(Unit)
    BY <2>1, MessageIs
  <2>7. /\ r \o UnitsOf(n + 1, m[n + 1]) \in Seq(Unit)
        /\ Units(Pre(n + 1)) = Units(p) \o (r \o UnitsOf(n + 1, m[n + 1]))
    <3> DEFINE u == UnitsOf(n + 1, m[n + 1])
               q == Units(p)
    <3>1. u \in Seq(Unit) /\ q \in Seq(Unit) /\ r \in Seq(Unit)
      BY <1>5, <2>6
    <3>2. Units(Pre(n + 1)) = (q \o r) \o u
      BY <2>5
    <3> HIDE DEF u, q, K
    <3>3. r \o u \in Seq(Unit)
      BY <3>1, ConcatProperties
    <3>4. (q \o r) \o u = q \o (r \o u)
      BY <3>1, ConcatAssociative
    <3>5. QED BY <3>2, <3>3, <3>4 DEF u, q
  <2>8. QED BY <2>1, <2>7
<1>8. K \in SUBSET (Len(p)..Len(m))
  OBVIOUS
<1> HIDE DEF K
<1>9. Len(m) \in K
  BY <1>1, <1>6, <1>7, <1>8, Climb
<1>10. QED BY <1>4, <1>9 DEF K

-----------------------------------------------------------------------------
(* The inductive invariant                                                 *)

Kinds == {"hello", "old", "data", "short", "error", "echo"}

\* What is sent: the messages accepted, in whole units.
SendingWhole ==
  /\ accepted \in Seq(Kinds)
  /\ wire \in Seq(Unit) /\ tx_buf \in Seq(Unit)
  /\ room \in 0..Capacity
  /\ wire \o tx_buf = Units(accepted)

\* What is received: the first messages of the peer, then part of the next one.
ReceivingWhole ==
  /\ peer \in Seq(Kinds) /\ received \in Seq(Kinds)
  /\ rx \in Seq(Unit) /\ in \in Seq(Unit)
  /\ Units(received) \o (rx \o in) = Units(peer)
  /\ Len(received) <= Len(peer)
  /\ \A i \in 1..Len(received) : received[i] = peer[i]
  /\ rx # << >> =>
       Len(received) < Len(peer) /\ Len(rx) < Size(peer[Len(received) + 1])

\* How long nothing has been received, at least.
Silence ==
  /\ state = "S_CONNECTED" => quiet + left >= ProbeInterval
  /\ state = "S_IDLE" => quiet + left >= 2 * ProbeInterval

Inv == TypeOK /\ SendingWhole /\ ReceivingWhole /\ Silence

-----------------------------------------------------------------------------
(* Sending                                                                 *)

\* However much is written, of some units.
Written(units) == \E n \in 0..Len(units) : n <= room /\ Write(units, n)

LEMMA WriteOutIs ==
  ASSUME SendingWhole, NEW units \in Seq(Unit), WriteOut(units)
  PROVE  Written(units)
<1> DEFINE n == IF room < Len(units) THEN room ELSE Len(units)
<1>1. Len(units) \in Nat /\ room \in Nat
  BY ConnectionAssumption DEF SendingWhole
<1>2. n \in 0..Len(units) /\ n <= room
  BY <1>1
<1>3. Write(units, n)
  BY DEF WriteOut
<1> HIDE DEF n
<1>4. QED BY <1>2, <1>3 DEF Written

LEMMA WritePartIs ==
  ASSUME NEW units \in Seq(Unit), NEW least \in Nat, WritePart(units, least)
  PROVE  Written(units)
<1>1. PICK n \in least..(Len(units) - 1) : n <= room /\ Write(units, n)
  BY DEF WritePart
<1>2. n \in 0..Len(units)
  BY <1>1
<1>3. QED BY <1>1, <1>2 DEF Written

LEMMA WriteStep ==
  ASSUME SendingWhole, NEW units \in Seq(Unit), Written(units)
  PROVE  /\ wire' \in Seq(Unit) /\ tx_buf' \in Seq(Unit) /\ room' \in 0..Capacity
         /\ wire' \o tx_buf' = wire \o units
<1>0. PICK n \in 0..Len(units) : n <= room /\ Write(units, n)
  BY DEF Written
<1> DEFINE a == SubSeq(units, 1, n)
           b == SubSeq(units, n + 1, Len(units))
<1>1. /\ Len(units) \in Nat /\ n \in 0..Len(units) /\ room - n \in 0..Capacity
  BY <1>0, ConnectionAssumption, IntervalAssumption DEF SendingWhole
<1>2. wire' = wire \o a /\ tx_buf' = b /\ room' = room - n
  BY <1>0 DEF Write
<1>3. a \in Seq(Unit) /\ b \in Seq(Unit) /\ a \o b = units
  BY <1>1, SplitIs
<1>4. wire \in Seq(Unit)
  BY DEF SendingWhole
<1> HIDE DEF a, b
<1>5. wire \o a \in Seq(Unit)
  BY <1>3, <1>4, ConcatProperties
<1>6. (wire \o a) \o b = wire \o (a \o b)
  <2>1. a \in Seq(Unit) /\ b \in Seq(Unit)
    BY <1>3
  <2>2. QED BY <1>4, <2>1, ConcatAssociative
<1>7. QED BY <1>1, <1>2, <1>3, <1>5, <1>6

\* A message is begun, after what was left of the last one.
LEMMA BegunStep ==
  ASSUME SendingWhole, NEW kind \in Kinds,
         tx_buf \o UnitsOfNext(accepted, kind) \in Seq(Unit)
           => Written(tx_buf \o UnitsOfNext(accepted, kind)),
         accepted' = Append(accepted, kind)
  PROVE  SendingWhole'
<1> DEFINE u == UnitsOf(Len(accepted) + 1, kind)
           units == tx_buf \o u
<1>1. accepted \in Seq(Kinds) /\ wire \in Seq(Unit) /\ tx_buf \in Seq(Unit)
      /\ wire \o tx_buf = Units(accepted) /\ Len(accepted) + 1 \in Nat
  BY DEF SendingWhole
<1>2. u \in Seq(Unit)
  BY <1>1, MessageIs
<1>3. /\ Units(Append(accepted, kind)) = Units(accepted) \o u
      /\ UnitsOfNext(accepted, kind) = u
  BY <1>1, UnitsAppend
<1> HIDE DEF u
<1>5. units \in Seq(Unit)
  BY <1>1, <1>2, ConcatProperties
<1>4. Written(units)
  BY <1>3, <1>5
<1>6. wire \o units = (wire \o tx_buf) \o u
  <2>1. wire \in Seq(Unit) /\ tx_buf \in Seq(Unit)
    BY <1>1
  <2>2. (wire \o tx_buf) \o u = wire \o (tx_buf \o u)
    BY <1>2, <2>1, ConcatAssociative
  <2>3. QED BY <2>2
<1>7. Append(accepted, kind) \in Seq(Kinds)
  BY <1>1
<1> HIDE DEF units
<1>8. /\ wire' \in Seq(Unit) /\ tx_buf' \in Seq(Unit) /\ room' \in 0..Capacity
      /\ wire' \o tx_buf' = wire \o units
  BY <1>4, <1>5, WriteStep
<1>9. QED BY <1>1, <1>3, <1>4, <1>6, <1>7, <1>8 DEF SendingWhole

LEMMA RewriteStep ==
  ASSUME SendingWhole, WriteOut(tx_buf) \/ WritePart(tx_buf, 0), UNCHANGED accepted
  PROVE  SendingWhole'
<1>1. tx_buf \in Seq(Unit)
  BY DEF SendingWhole
<1>2. Written(tx_buf)
  BY <1>1, WriteOutIs, WritePartIs
<1>3. QED BY <1>1, <1>2, WriteStep DEF SendingWhole

LEMMA UnsentStep ==
  ASSUME SendingWhole, UNCHANGED <<accepted, wire, tx_buf, room>>
  PROVE  SendingWhole'
  BY DEF SendingWhole

\* Every way do_send_openflow may end.
LEMMA SendStep ==
  ASSUME TypeOK, SendingWhole, NEW kind \in Kinds, Accept(kind) \/ Again \/ SendFails(kind)
  PROVE  /\ SendingWhole' /\ tx_fsm' \in {"ready", "write", "rest"}
         /\ stream' \in {"connecting", "open", "reset", "eof", "closed"}
<1> DEFINE units == tx_buf \o UnitsOfNext(accepted, kind)
<1>1. CASE Accept(kind)
  <2>1. WriteOut(units) /\ accepted' = Append(accepted, kind)
    BY <1>1 DEF Accept
  <2>2. units \in Seq(Unit) => Written(units)
    BY <2>1, WriteOutIs
  <2>3. SendingWhole'
    BY <2>1, <2>2, BegunStep
  <2>4. QED BY <1>1, <2>3 DEF Accept, TypeOK
<1>2. CASE Again
  BY <1>2, RewriteStep DEF Again, TypeOK
<1>3. CASE SendFails(kind)
  <2>1. stream' = "closed" /\ tx_fsm' = tx_fsm
    BY <1>3 DEF SendFails
  <2>2. CASE WritePart(tx_buf, 0) /\ UNCHANGED accepted
    BY <2>1, <2>2, RewriteStep DEF TypeOK
  <2>3. CASE WritePart(units, Len(tx_buf)) /\ accepted' = Append(accepted, kind)
    <3>1. Len(tx_buf) \in Nat
      BY DEF SendingWhole
    <3>2. units \in Seq(Unit) => Written(units)
      BY <2>3, <3>1, WritePartIs
    <3>3. SendingWhole'
      BY <2>3, <3>2, BegunStep
    <3>4. QED BY <2>1, <3>3 DEF TypeOK
  <2>4. QED BY <1>3, <2>2, <2>3 DEF SendFails
<1>4. QED BY <1>1, <1>2, <1>3

-----------------------------------------------------------------------------
(* Receiving                                                               *)

\* What can be read begins with the message that Kind names.
LEMMA NextMessage ==
  ASSUME ReceivingWhole, rx # << >> \/ in # << >>
  PROVE  /\ Len(received) < Len(peer) /\ Kind = peer[Len(received) + 1] /\ Kind \in Kinds
         /\ UnitsOfNext(received, Kind) = UnitsOf(Len(received) + 1, Kind)
         /\ Units(Append(received, Kind))
              = Units(received) \o UnitsOf(Len(received) + 1, Kind)
         /\ \E r \in Seq(Unit) : rx \o in = UnitsOf(Len(received) + 1, Kind) \o r
<1> DEFINE n == Len(received)
           k == peer[n + 1]
           all == rx \o in
           u == UnitsOf(n + 1, k)
           got == Units(received)
<1>1. /\ peer \in Seq(Kinds) /\ received \in Seq(Kinds)
      /\ rx \in Seq(Unit) /\ in \in Seq(Unit)
      /\ got \o all = Units(peer)
      /\ n <= Len(peer) /\ n \in Nat /\ Len(peer) \in Nat
      /\ \A i \in 1..n : received[i] = peer[i]
  <2>1. /\ peer \in Seq(Kinds) /\ received \in Seq(Kinds)
        /\ rx \in Seq(Unit) /\ in \in Seq(Unit)
        /\ n <= Len(peer)
        /\ \A i \in 1..n : received[i] = peer[i]
    BY Zenon DEF ReceivingWhole
  <2>2. got \o all = Units(peer)
    BY Zenon DEF ReceivingWhole
  <2>3. n \in Nat /\ Len(peer) \in Nat
    BY <2>1
  <2> HIDE DEF got, all, n
  <2>4. QED BY <2>1, <2>2, <2>3
<1>2. got \in Seq(Unit)
  BY <1>1, UnitsIs
<1>3. all \in Seq(Unit) /\ all # << >>
  BY <1>1, ConcatProperties, ConcatEqualIffEmpty
<1> HIDE DEF all, got
<1>4. n < Len(peer)
  <2>1. SUFFICES ASSUME n = Len(peer) PROVE FALSE
    BY <1>1
  <2>2. received = peer
    BY <1>1, <2>1, SeqEqual
  <2>3. got \o all = got
    BY <1>1, <2>2 DEF got
  <2>4. QED BY <1>2, <1>3, <2>3, ConcatEqualIffEmpty
<1>5. n + 1 \in 1..Len(peer) /\ k \in Kinds
  BY <1>1, <1>4
<1>6. u \in Seq(Unit) /\ Len(u) >= 2 /\ Len(u) \in Nat /\ u[1] = <<n + 1, 1>>
  BY <1>1, MessageIs, SizeIs
<1> HIDE DEF k, u
<1>7. /\ Units(Append(received, k)) = got \o u /\ UnitsOfNext(received, k) = u
  BY <1>1, <1>5, UnitsAppend DEF u, got
<1>8. PICK r \in Seq(Unit) : Units(peer) = (got \o u) \o r
  <2> DEFINE p == Append(received, k)
  <2>1. /\ p \in Seq(Kinds) /\ Len(p) = n + 1 /\ p[n + 1] = k
        /\ \A i \in 1..n : p[i] = received[i]
    BY <1>1, <1>5, AppendProperties
  <2> HIDE DEF p
  <2>2. \A i \in 1..Len(p) : p[i] = peer[i]
    <3>1. \A i \in 1..(n + 1) : i \in 1..n \/ i = n + 1
      BY <1>1
    <3>2. QED BY <1>1, <2>1, <3>1 DEF k
  <2>3. Len(p) <= Len(peer)
    BY <1>1, <1>4, <2>1
  <2>4. \E r \in Seq(Unit) : Units(peer) = Units(p) \o r
    BY <1>1, <2>1, <2>2, <2>3, UnitsPrefix
  <2>5. QED BY <1>7, <2>4 DEF p
<1>9. all = u \o r
  <2>1. (got \o u) \o r = got \o (u \o r)
    BY <1>2, <1>6, ConcatAssociative
  <2>2. u \o r \in Seq(Unit)
    BY <1>6, ConcatProperties
  <2>3. got \o all = got \o (u \o r)
    BY <1>1, <1>8, <2>1
  <2>4. \A S : \A s, t, v \in Seq(S) : s \o t = s \o v => t = v
    BY ConcatSimplifications
  <2>5. QED BY <1>2, <1>3, <2>2, <2>3, <2>4
<1>10. Kind = k
  <2>1. all[1] = u[1]
    <3>1. 1 \in 1..(Len(u) + Len(r)) /\ 1 <= Len(u)
      BY <1>6
    <3>2. QED BY <1>6, <1>9, <3>1, ConcatProperties
  <2>2. all[1][1] = n + 1
    BY <1>6, <2>1
  <2>3. QED BY <2>2 DEF Kind, all, k
<1>11. QED BY <1>4, <1>5, <1>7, <1>9, <1>10 DEF all, got, k, u

\* A whole message has come.
LEMMA MessageStep ==
  ASSUME ReceivingWhole, NEW avail \in Avail, avail > 0, Message(avail)
  PROVE  ReceivingWhole'
<1> DEFINE k == Kind
           u == UnitsOf(Len(received) + 1, k)
           cut == SubSeq(in, Len(u) - Len(rx) + 1, Len(in))
<1>1. /\ peer \in Seq(Kinds) /\ received \in Seq(Kinds)
      /\ rx \in Seq(Unit) /\ in \in Seq(Unit)
      /\ Units(received) \o (rx \o in) = Units(peer)
      /\ Len(received) \in Nat /\ Len(peer) \in Nat /\ Len(rx) \in Nat /\ Len(in) \in Nat
      /\ \A i \in 1..Len(received) : received[i] = peer[i]
      /\ rx # << >> => Len(rx) < Size(peer[Len(received) + 1])
  BY DEF ReceivingWhole
<1>2. rx # << >> \/ in # << >>
  <2>1. Len(in) # 0
    BY <1>1 DEF Avail
  <2>2. QED BY <2>1
<1>3. /\ Len(received) < Len(peer) /\ k = peer[Len(received) + 1] /\ k \in Kinds
      /\ UnitsOfNext(received, k) = u
      /\ Units(Append(received, k)) = Units(received) \o u
      /\ \E r \in Seq(Unit) : rx \o in = u \o r
  BY <1>2, NextMessage
<1>4. u \in Seq(Unit) /\ Len(u) = Size(k) /\ Len(u) \in Nat
  <2>1. Len(received) + 1 \in Nat /\ Size(k) \in Nat
    BY <1>1, SizeIs
  <2> HIDE DEF k
  <2>2. QED BY <2>1, MessageIs
<1>5. /\ in' = cut /\ rx' = << >> /\ received' = Append(received, k) /\ peer' = peer
      /\ Len(rx) + avail >= Len(u)
  BY <1>3 DEF Message
<1> HIDE DEF k, u
<1>6. Len(rx) <= Len(u) /\ Len(u) <= Len(rx) + Len(in)
  <2>1. rx = << >> => Len(rx) = 0
    OBVIOUS
  <2>2. avail \in Nat /\ avail <= Len(in) /\ (rx # << >> => Len(rx) < Len(u))
    BY <1>1, <1>3, <1>4 DEF Avail
  <2> HIDE DEF cut
  <2>3. Len(rx) <= Len(u)
    BY <1>1, <1>4, <2>1, <2>2
  <2>4. QED BY <1>1, <1>4, <1>5, <2>2, <2>3
<1>7. PICK r \in Seq(Unit) : rx \o in = u \o r
  BY <1>3
<1>8. cut = r
  <2>1. rx \in Seq(Unit) /\ in \in Seq(Unit)
    BY <1>1
  <2>2. QED BY <1>4, <1>6, <1>7, <2>1, RestIs
<1> DEFINE got == Append(received, k)
<1>9. /\ got \in Seq(Kinds) /\ Len(got) = Len(received) + 1 /\ got[Len(received) + 1] = k
      /\ \A i \in 1..Len(received) : got[i] = received[i]
  BY <1>1, <1>3, AppendProperties
<1>10. \A i \in 1..Len(got) : got[i] = peer[i]
  <2> HIDE DEF got
  <2>1. \A i \in 1..(Len(received) + 1) : i \in 1..Len(received) \/ i = Len(received) + 1
    BY <1>1
  <2>2. QED BY <1>1, <1>3, <1>9, <2>1
<1>11. Units(got) \o (<< >> \o r) = Units(peer)
  <2> DEFINE a == Units(received)
  <2>1. a \in Seq(Unit)
    BY <1>1, UnitsIs
  <2>2. a \o (u \o r) = Units(peer) /\ Units(got) = a \o u
    BY <1>1, <1>3, <1>7
  <2> HIDE DEF a, got
  <2>3. << >> \o r = r
    BY ConcatEmptySeq
  <2>4. (a \o u) \o r = a \o (u \o r)
    BY <1>4, <2>1, ConcatAssociative
  <2>5. QED BY <2>2, <2>3, <2>4
<1> HIDE DEF cut
<1>12. << >> \in Seq(Unit)
  OBVIOUS
<1>13. QED
  <2>1. Len(got) <= Len(peer)
    BY <1>1, <1>3, <1>9
  <2> HIDE DEF got
  <2>2. received' = got
    BY <1>5 DEF got
  <2>3. QED BY <1>1, <1>5, <1>8, <1>9, <1>10, <1>11, <1>12, <2>1, <2>2 DEF ReceivingWhole

\* More of the message has come.
LEMMA IncompleteStep ==
  ASSUME ReceivingWhole, NEW avail \in Avail, Incomplete(avail)
  PROVE  ReceivingWhole'
<1> DEFINE a == SubSeq(in, 1, avail)
           b == SubSeq(in, avail + 1, Len(in))
<1>1. /\ peer \in Seq(Kinds) /\ received \in Seq(Kinds)
      /\ rx \in Seq(Unit) /\ in \in Seq(Unit)
      /\ Units(received) \o (rx \o in) = Units(peer)
      /\ Len(in) \in Nat /\ avail \in 0..Len(in)
  BY DEF ReceivingWhole, Avail
<1>2. a \in Seq(Unit) /\ b \in Seq(Unit) /\ Len(a) = avail /\ a \o b = in
  BY <1>1, SplitIs
<1>3. rx \in Seq(Unit)
  BY <1>1
<1>4. /\ rx' = rx \o a /\ in' = b /\ UNCHANGED <<peer, received>>
      /\ avail > 0 => Len(rx) + avail < Len(UnitsOfNext(received, Kind))
  BY DEF Incomplete
<1> HIDE DEF a, b
<1>5. rx' \in Seq(Unit) /\ Len(rx') = Len(rx) + avail /\ (rx \o a) \o b = rx \o (a \o b)
  <2>1. rx \o a \in Seq(Unit) /\ Len(rx \o a) = Len(rx) + Len(a)
    BY <1>2, <1>3, ConcatProperties
  <2>2. (rx \o a) \o b = rx \o (a \o b)
    <3>1. a \in Seq(Unit) /\ b \in Seq(Unit)
      BY <1>2
    <3>2. QED BY <1>3, <3>1, ConcatAssociative
  <2>3. QED BY <1>2, <1>4, <2>1, <2>2
<1>6. rx' # << >> => Len(received) < Len(peer) /\ Len(rx') < Size(peer[Len(received) + 1])
  <2>1. CASE avail = 0
    <3>1. Len(rx') = Len(rx) /\ Len(rx) \in Nat
      BY <1>1, <1>5, <2>1
    <3>2. rx' # << >> => rx # << >>
      BY <1>1, <1>5, <3>1
    <3>3. QED BY <3>1, <3>2 DEF ReceivingWhole
  <2>2. CASE avail # 0
    <3>1. avail > 0 /\ in # << >>
      BY <1>1, <2>2
    <3>2. /\ Len(received) < Len(peer) /\ Kind = peer[Len(received) + 1]
          /\ UnitsOfNext(received, Kind) = UnitsOf(Len(received) + 1, Kind)
      BY <3>1, NextMessage
    <3>3. Len(received) + 1 \in Nat
      BY <1>1
    <3>4. Len(UnitsOf(Len(received) + 1, Kind)) = Size(Kind)
      BY <3>3, MessageIs
    <3>5. QED BY <1>4, <1>5, <3>1, <3>2, <3>4
  <2>3. QED BY <2>1, <2>2
<1>7. Units(received) \o (rx' \o in') = Units(peer)
  BY <1>1, <1>2, <1>4, <1>5
<1>8. Len(received) <= Len(peer) /\ \A i \in 1..Len(received) : received[i] = peer[i]
  BY DEF ReceivingWhole
<1>9. in' \in Seq(Unit)
  BY <1>2, <1>4
<1>10. QED BY <1>1, <1>4, <1>5, <1>6, <1>7, <1>8, <1>9 DEF ReceivingWhole

\* Nothing is received, and the peer sends nothing.
LEMMA UnreceivedStep ==
  ASSUME ReceivingWhole, UNCHANGED receiving
  PROVE  ReceivingWhole'
  BY DEF ReceivingWhole, receiving

\* The peer sends a message.
LEMMA PeerSendsStep ==
  ASSUME ReceivingWhole, PeerSends
  PROVE  ReceivingWhole'
<1>1. PICK kind \in {"hello", "old", "data", "short"} :
        in' = in \o UnitsOfNext(peer, kind) /\ peer' = Append(peer, kind)
  BY DEF PeerSends
<1> DEFINE u == UnitsOf(Len(peer) + 1, kind)
           got == Units(received)
<1>2. /\ peer \in Seq(Kinds) /\ received \in Seq(Kinds)
      /\ rx \in Seq(Unit) /\ in \in Seq(Unit)
      /\ got \o (rx \o in) = Units(peer)
      /\ Len(received) <= Len(peer) /\ Len(received) \in Nat /\ Len(peer) \in Nat
      /\ \A i \in 1..Len(received) : received[i] = peer[i]
      /\ kind \in Kinds /\ UNCHANGED <<rx, received>>
  BY DEF ReceivingWhole, PeerSends, Kinds
<1>3. /\ peer' \in Seq(Kinds) /\ Len(peer') = Len(peer) + 1
      /\ \A i \in 1..Len(peer) : peer'[i] = peer[i]
  BY <1>1, <1>2, AppendProperties
<1>4. u \in Seq(Unit)
  <2>1. Len(peer) + 1 \in Nat
    BY <1>2
  <2>2. QED BY <2>1, MessageIs
<1>5. UnitsOfNext(peer, kind) = u /\ Units(peer') = Units(peer) \o u
  BY <1>1, <1>2, UnitsAppend
<1>6. got \in Seq(Unit)
  BY <1>2, UnitsIs
<1> HIDE DEF u
<1>7. in \o u \in Seq(Unit)
  BY <1>2, <1>4, ConcatProperties
<1>8. got \o (rx \o (in \o u)) = Units(peer) \o u
  <2>1. rx \in Seq(Unit) /\ in \in Seq(Unit)
    BY <1>2
  <2> HIDE DEF got
  <2>2. rx \o (in \o u) = (rx \o in) \o u
    BY <1>4, <2>1, ConcatAssociative
  <2>3. rx \o in \in Seq(Unit)
    BY <2>1, ConcatProperties
  <2>4. got \o ((rx \o in) \o u) = (got \o (rx \o in)) \o u
    <3> DEFINE b == rx \o in
    <3>1. b \in Seq(Unit)
      BY <2>3
    <3> HIDE DEF b
    <3>2. got \o (b \o u) = (got \o b) \o u
      BY <1>4, <1>6, <3>1, ConcatAssociative
    <3>3. QED BY <3>2 DEF b
  <2>5. QED BY <1>2, <2>2, <2>4
<1>9. /\ Len(received) <= Len(peer') /\ \A i \in 1..Len(received) : received[i] = peer'[i]
  BY <1>2, <1>3
<1>10. rx # << >> =>
         Len(received) < Len(peer') /\ Len(rx) < Size(peer'[Len(received) + 1])
  <2>1. rx # << >> => Len(received) < Len(peer) /\ Len(rx) < Size(peer[Len(received) + 1])
    BY DEF ReceivingWhole
  <2>2. Len(received) < Len(peer) => peer'[Len(received) + 1] = peer[Len(received) + 1]
    <3>1. Len(received) < Len(peer) => Len(received) + 1 \in 1..Len(peer)
      BY <1>2
    <3>2. QED BY <1>3, <3>1
  <2>3. QED BY <1>2, <1>3, <2>1, <2>2
<1>11. Units(received)' \o (rx' \o in') = Units(peer')
  BY <1>1, <1>2, <1>5, <1>8
<1>12. in' \in Seq(Unit)
  BY <1>1, <1>5, <1>7
<1>13. QED
  <2> HIDE DEF got
  <2>1. QED BY <1>2, <1>3, <1>9, <1>10, <1>11, <1>12 DEF ReceivingWhole

-----------------------------------------------------------------------------
(* Every step                                                              *)

Streams == {"connecting", "open", "reset", "eof", "closed"}

LEMMA ProbeTypes ==
  ASSUME TypeOK
  PROVE  /\ ProbeInterval \in Nat \ {0}
         /\ left \in Nat /\ left <= ProbeInterval /\ alarm \in Nat /\ alarm <= ProbeInterval
         /\ quiet \in Nat /\ quiet <= 2 * ProbeInterval
  BY ConnectionAssumption, IntervalAssumption DEF TypeOK

\* A receive by someone: what it does to what is received and to the stream.
LEMMA RecvStep ==
  ASSUME TypeOK, ReceivingWhole, NEW avail \in Avail,
         (avail > 0 /\ Message(avail)) \/ Incomplete(avail) \/ RecvFails(avail)
  PROVE  ReceivingWhole' /\ stream' \in Streams
<1>1. CASE avail > 0 /\ Message(avail)
  BY <1>1, MessageStep DEF Message, TypeOK, Streams
<1>2. CASE Incomplete(avail)
  BY <1>2, IncompleteStep DEF Incomplete, TypeOK, Streams
<1>3. CASE RecvFails(avail)
  BY <1>3, UnreceivedStep DEF RecvFails, Streams
<1>4. QED BY <1>1, <1>2, <1>3

LEMMA SendOpenflowStep ==
  ASSUME Inv, send_openflow
  PROVE  Inv'
<1>1. "data" \in Kinds
  BY DEF Kinds
<1>2. /\ SendingWhole' /\ tx_fsm' \in {"ready", "write", "rest"} /\ stream' \in Streams
  BY <1>1, SendStep DEF Inv, send_openflow, Streams
<1>3. ReceivingWhole'
  BY UnreceivedStep DEF Inv, send_openflow
<1>4. UNCHANGED <<state, probing>>
  BY DEF send_openflow
<1>5. QED BY <1>2, <1>3, <1>4 DEF Inv, TypeOK, Silence, probing, SendingWhole, Streams

LEMMA RecvOpenflowStep ==
  ASSUME Inv, recv_openflow
  PROVE  Inv'
<1>1. PICK avail \in Avail :
       \/ /\ avail > 0 /\ Message(avail)
          /\ state' = "S_CONNECTED"
          /\ left' = ProbeInterval /\ quiet' = 0
          /\ UNCHANGED <<fsm, alarm>>
       \/ (Incomplete(avail) \/ RecvFails(avail)) /\ UNCHANGED <<state, probing>>
  BY DEF recv_openflow
<1>2. ReceivingWhole' /\ stream' \in Streams
  BY <1>1, RecvStep DEF Inv
<1>3. SendingWhole' /\ UNCHANGED <<room, tx_fsm>>
  BY UnsentStep DEF Inv, recv_openflow, sending
<1>4. ProbeInterval \in Nat \ {0}
  BY ConnectionAssumption, IntervalAssumption
<1>5. TypeOK'
  BY <1>1, <1>2, <1>3, <1>4 DEF Inv, TypeOK, probing, Streams
<1>6. Silence'
  BY <1>1, <1>4 DEF Inv, Silence, probing
<1>7. QED BY <1>2, <1>3, <1>5, <1>6 DEF Inv

LEMMA ConnectStep ==
  ASSUME Inv, connect
  PROVE  Inv'
<1>1. "hello" \in Kinds /\ "error" \in Kinds /\ ProbeInterval \in Nat \ {0}
  BY ConnectionAssumption, IntervalAssumption DEF Kinds
<1>2. CASE s_connecting
  BY <1>2, UnsentStep, UnreceivedStep
     DEF Inv, s_connecting, TypeOK, Silence, sending, probing, Streams
<1>3. CASE s_send_hello
  <2>1. SendingWhole' /\ tx_fsm' \in {"ready", "write", "rest"} /\ stream' \in Streams
    BY <1>1, <1>3, SendStep DEF Inv, s_send_hello, Streams
  <2>2. ReceivingWhole'
    BY <1>3, UnreceivedStep DEF Inv, s_send_hello
  <2>3. UNCHANGED probing /\ state' \in {"S_RECV_HELLO", "S_SEND_HELLO", "S_DISCONNECTED"}
    BY <1>3 DEF s_send_hello
  <2>4. QED BY <2>1, <2>2, <2>3 DEF Inv, TypeOK, Silence, probing, SendingWhole, Streams
<1>4. CASE s_recv_hello
  <2>1. PICK avail \in Avail :
          \/ avail > 0 /\ Message(avail)
          \/ Incomplete(avail)
          \/ RecvFails(avail)
    BY <1>4 DEF s_recv_hello
  <2>2. ReceivingWhole' /\ stream' \in Streams
    BY <2>1, RecvStep DEF Inv
  <2>3. SendingWhole' /\ UNCHANGED <<room, tx_fsm>>
    BY <1>4, UnsentStep DEF Inv, s_recv_hello, sending
  <2>4. \/ Agreed
        \/ UNCHANGED probing
             /\ state' \in {"S_RECV_HELLO", "S_SEND_ERROR", "S_DISCONNECTED"}
    BY <1>4 DEF s_recv_hello
  <2>5. TypeOK' /\ Silence'
    BY <1>1, <2>2, <2>3, <2>4 DEF Inv, TypeOK, Silence, probing, Agreed, Streams
  <2>6. QED BY <2>2, <2>3, <2>5 DEF Inv
<1>5. CASE s_send_error
  <2>1. SendingWhole' /\ tx_fsm' \in {"ready", "write", "rest"} /\ stream' \in Streams
    BY <1>1, <1>5, SendStep DEF Inv, s_send_error, Streams
  <2>2. ReceivingWhole'
    BY <1>5, UnreceivedStep DEF Inv, s_send_error
  <2>3. UNCHANGED probing /\ state' \in {"S_SEND_ERROR", "S_DISCONNECTED"}
    BY <1>5 DEF s_send_error
  <2>4. QED BY <2>1, <2>2, <2>3 DEF Inv, TypeOK, Silence, probing, SendingWhole, Streams
<1>6. QED BY <1>2, <1>3, <1>4, <1>5 DEF connect

LEMMA DeleteStep ==
  ASSUME Inv, Delete
  PROVE  Inv'
  BY UnsentStep, UnreceivedStep, ConnectionAssumption, IntervalAssumption
     DEF Inv, Delete, TypeOK, Silence, SendingWhole

LEMMA TxRunStep ==
  ASSUME Inv, tx_run
  PROVE  Inv'
<1>1. SendingWhole'
  BY RewriteStep, UnsentStep DEF Inv, tx_run
<1>2. ReceivingWhole'
  BY UnreceivedStep DEF Inv, tx_run
<1>3. UNCHANGED <<state, probing>> /\ tx_fsm' \in {"write", "rest"} /\ stream' \in Streams
  BY DEF Inv, TypeOK, tx_run, Streams
<1>4. QED BY <1>1, <1>2, <1>3 DEF Inv, TypeOK, Silence, probing, SendingWhole, Streams

LEMMA RunStep ==
  ASSUME Inv, run
  PROVE  Inv'
<1>1. "echo" \in Kinds
  BY DEF Kinds
<1>2. /\ ProbeInterval \in Nat \ {0} /\ left \in Nat /\ left <= ProbeInterval
      /\ alarm \in Nat /\ alarm <= ProbeInterval /\ quiet \in Nat /\ quiet <= 2 * ProbeInterval
  BY ProbeTypes DEF Inv
<1>3. ReceivingWhole' /\ UNCHANGED quiet
  BY UnreceivedStep DEF Inv, run
<1>4. CASE NotExpired
  <2>1. SendingWhole'
    BY <1>4, UnsentStep DEF Inv, NotExpired, sending
  <2>2. UNCHANGED <<state, stream, room, tx_fsm, left>> /\ fsm' \in {"timer", "rest"}
        /\ alarm' \in {left, alarm}
    BY <1>4 DEF NotExpired, sending
  <2>3. QED BY <1>2, <1>3, <2>1, <2>2 DEF Inv, TypeOK, Silence
<1>5. CASE SendProbe
  <2>1. SendingWhole' /\ tx_fsm' \in {"ready", "write", "rest"} /\ stream' \in Streams
    BY <1>1, <1>5, SendStep DEF Inv, SendProbe, Streams
  <2>2. state = "S_CONNECTED" /\ left = 0 /\ quiet >= ProbeInterval
    BY <1>2, <1>5 DEF SendProbe, Inv, Silence
  <2>3. \/ state' = "S_IDLE" /\ left' = ProbeInterval /\ fsm' = "timer" /\ alarm' = ProbeInterval
        \/ fsm' = "write" /\ UNCHANGED <<state, left, alarm>>
        \/ state' = "S_DISCONNECTED" /\ fsm' = "rest" /\ UNCHANGED <<left, alarm>>
    BY <1>5 DEF SendProbe
  <2>4. TypeOK'
    BY <1>2, <1>3, <2>1, <2>3 DEF Inv, TypeOK, SendingWhole, Streams
  <2>5. Silence'
    BY <1>2, <1>3, <2>2, <2>3 DEF Inv, Silence
  <2>6. QED BY <1>3, <2>1, <2>4, <2>5 DEF Inv
<1>6. CASE Disconnect
  <2>1. SendingWhole' /\ UNCHANGED <<room, tx_fsm>>
    BY <1>6, UnsentStep DEF Inv, Disconnect, sending
  <2>2. QED BY <1>2, <1>3, <1>6, <2>1 DEF Inv, TypeOK, Silence, Disconnect
<1>7. QED BY <1>4, <1>5, <1>6 DEF run

\* A tick takes at most one unit of the time left, and adds one to the silence
\* unless it has reached p.
LEMMA LaterSum ==
  ASSUME NEW q \in Nat, NEW l \in Nat, NEW q2 \in Nat, NEW l2 \in Nat, NEW n \in Nat, NEW p \in Nat,
         n <= p, q + l >= n, l2 + 1 >= l, q2 >= q + 1 \/ q2 >= p
  PROVE  q2 + l2 >= n
  OBVIOUS

LEMMA TickStep ==
  ASSUME Inv, Tick
  PROVE  Inv'
<1>1. /\ ProbeInterval \in Nat \ {0} /\ left \in Nat /\ left <= ProbeInterval
      /\ alarm \in Nat /\ alarm <= ProbeInterval /\ quiet \in Nat /\ quiet <= 2 * ProbeInterval
  BY ProbeTypes DEF Inv
<1>2. SendingWhole' /\ ReceivingWhole'
  BY UnsentStep, UnreceivedStep DEF Inv, Tick, sending
<1>3. UNCHANGED <<state, stream, room, tx_fsm, fsm>>
  BY DEF Tick, sending
<1>4. left' \in Nat /\ left' <= ProbeInterval /\ left' + 1 >= left /\ (left = 0 => left' = 0)
  BY <1>1 DEF Tick, Less
<1>5. alarm' \in Nat /\ alarm' <= ProbeInterval
  BY <1>1 DEF Tick, Less
<1>6. /\ quiet' \in Nat /\ quiet' <= 2 * ProbeInterval /\ quiet' >= quiet
      /\ Established => quiet' = quiet + 1 \/ quiet' = 2 * ProbeInterval
  BY <1>1 DEF Tick
<1>7. TypeOK'
  BY <1>1, <1>3, <1>4, <1>5, <1>6 DEF Inv, TypeOK
<1>8. Silence'
  <2> DEFINE p == 2 * ProbeInterval
  <2>1. left \in Nat /\ left' \in Nat /\ quiet \in Nat /\ quiet' \in Nat
    BY <1>1, <1>4, <1>6
  <2>2. left' + 1 >= left
    BY <1>4
  <2>3. ProbeInterval \in Nat /\ p \in Nat /\ ProbeInterval <= p /\ p <= p
    <3>1. ProbeInterval \in Nat
      BY <1>1
    <3>2. QED BY <3>1
  <2>4. ASSUME state \in {"S_CONNECTED", "S_IDLE"} PROVE quiet' >= quiet + 1 \/ quiet' >= p
    <3>1. quiet' = quiet + 1 \/ quiet' = p
      BY <1>6, <2>4 DEF Established
    <3>2. QED BY <2>1, <2>3, <3>1
  <2> HIDE DEF p
  <2>5. ASSUME state = "S_CONNECTED" PROVE quiet' + left' >= ProbeInterval
    <3>1. quiet + left >= ProbeInterval
      BY <2>5 DEF Inv, Silence
    <3>2. quiet' >= quiet + 1 \/ quiet' >= p
      BY <2>4, <2>5
    <3>3. QED BY <2>1, <2>2, <2>3, <3>1, <3>2, LaterSum
  <2>6. ASSUME state = "S_IDLE" PROVE quiet' + left' >= p
    <3>1. quiet + left >= p
      BY <2>6 DEF Inv, Silence, p
    <3>2. quiet' >= quiet + 1 \/ quiet' >= p
      BY <2>4, <2>6
    <3>3. QED BY <2>1, <2>2, <2>3, <3>1, <3>2, LaterSum
  <2>7. QED BY <1>3, <2>5, <2>6 DEF Silence, p
<1>9. QED BY <1>2, <1>7, <1>8 DEF Inv

LEMMA NextStep ==
  ASSUME Inv, [Next]_vars
  PROVE  Inv'
<1>1. CASE StreamChanges
  BY <1>1, UnsentStep, UnreceivedStep
     DEF Inv, StreamChanges, TypeOK, Silence, sending, probing
<1>2. CASE PeerReads
  BY <1>2, UnreceivedStep, ConnectionAssumption, IntervalAssumption
     DEF Inv, PeerReads, TypeOK, Silence, SendingWhole, probing
<1>3. CASE PeerSends
  BY <1>3, UnsentStep, PeerSendsStep
     DEF Inv, PeerSends, TypeOK, Silence, sending, probing
<1>4. CASE UNCHANGED vars
  BY <1>4, UnsentStep, UnreceivedStep
     DEF Inv, vars, TypeOK, Silence, sending, probing
<1>5. QED
  BY <1>1, <1>2, <1>3, <1>4, SendOpenflowStep, RecvOpenflowStep, ConnectStep, DeleteStep,
     TxRunStep, RunStep, TickStep DEF Next

LEMMA Start == Init => Inv
<1> SUFFICES ASSUME Init PROVE Inv
  OBVIOUS
<1>1. TypeOK
  BY ConnectionAssumption, IntervalAssumption DEF Init, TypeOK
<1>2. << >> \in Seq(Kinds) /\ << >> \in Seq(Unit) /\ Len(<< >>) = 0 /\ << >> \o << >> = << >>
  BY ConcatEmptySeq, EmptySeq
<1>3. SendingWhole
  BY <1>1, <1>2, NoUnits DEF Init, SendingWhole, TypeOK
<1>4. ReceivingWhole
  BY <1>2, NoUnits DEF Init, ReceivingWhole
<1>5. Silence
  BY DEF Init, Silence
<1>6. QED BY <1>1, <1>3, <1>4, <1>5 DEF Inv

LEMMA InvariantHolds == Spec => []Inv
  BY Start, NextStep, PTL DEF Spec

\* Neither partial writes by do_send_openflow and tx_run nor partial reads by
\* do_recv_openflow lose, repeat or mix parts of messages, for any number of
\* messages and any room in the socket.
THEOREM MessagesStayWhole == Spec => []FramingKept
<1>1. Inv => FramingKept
  <2> SUFFICES ASSUME Inv PROVE FramingKept
    OBVIOUS
  <2> DEFINE a == Units(received)
  <2>1. a \in Seq(Unit) /\ rx \in Seq(Unit) /\ in \in Seq(Unit)
    BY UnitsIs DEF Inv, ReceivingWhole
  <2>2. (a \o rx) \o in = a \o (rx \o in)
    <3> HIDE DEF a
    <3>1. QED BY <2>1, ConcatAssociative
  <2>3. a \o (rx \o in) = Units(peer)
    BY DEF Inv, ReceivingWhole
  <2>4. QED BY <2>2, <2>3 DEF FramingKept, Inv, SendingWhole
<1>2. QED BY <1>1, InvariantHolds, PTL

\* run drops a connection only when nothing has been received for two probe
\* intervals, whatever the interval is.
THEOREM OnlyTheSilentAreDropped == Spec => DropsOnlySilent
<1>1. ASSUME Inv, Inv', [Next]_vars, state = "S_IDLE", state' = "S_DISCONNECTED"
      PROVE  quiet = 2 * ProbeInterval
  <2>1. state # state'
    BY <1>1
  <2>2. run /\ Disconnect
    BY <1>1, <2>1
       DEF Next, vars, connect, s_connecting, s_send_hello, s_recv_hello, s_send_error,
           send_openflow, recv_openflow, Delete, tx_run, run, NotExpired, SendProbe, Tick,
           StreamChanges, PeerReads, PeerSends, Established
  <2>3. left = 0
    BY <2>2 DEF Disconnect
  <2>4. quiet + left >= 2 * ProbeInterval
    BY <1>1 DEF Inv, Silence
  <2>5. QED BY <1>1, <2>3, <2>4, ProbeTypes DEF Inv
<1>2. Inv /\ Inv' /\ [Next]_vars => [state = "S_IDLE" /\ state' = "S_DISCONNECTED" => quiet = 2 * ProbeInterval]_vars
  BY <1>1
<1>3. QED BY <1>2, InvariantHolds, PTL DEF Spec, DropsOnlySilent

-----------------------------------------------------------------------------
(* The reliable connection                                                 *)

\* What AtMost and the recursive function TwoTo return.
LEMMA AtMostIs ==
  ASSUME NEW n \in Nat
  PROVE  AtMost(n) = IF n <= backoff_limit THEN n ELSE backoff_limit
<1> DEFINE m == IF n <= backoff_limit THEN n ELSE backoff_limit
<1>1. /\ m \in {backoff_limit, n} /\ \A y \in {backoff_limit, n} : m <= y
      /\ \A x \in {backoff_limit, n} : (\A y \in {backoff_limit, n} : x <= y) => x = m
  BY ReliableAssumption
<1> HIDE DEF m
<1>2. (CHOOSE x \in {backoff_limit, n} : \A y \in {backoff_limit, n} : x <= y) = m
  BY <1>1
<1>3. QED BY <1>2 DEF m, AtMost, Min

LEMMA TwoToIs ==
  /\ TwoTo \in [0..backoff_limit -> Nat]
  /\ TwoTo[0] = 1
  /\ \A n \in 1..backoff_limit : TwoTo[n] = 2 * TwoTo[n - 1]
  /\ \A n \in 0..backoff_limit : TwoTo[n] > n
<1> DEFINE N == backoff_limit
           Rec(f, n) == f = [i \in 0..n |-> IF i = 0 THEN 1 ELSE 2 * f[i - 1]]
<1>1. N \in Nat /\ 0 \in Int /\ 0 \in 0..N /\ N \in Int
  BY ReliableAssumption
<1>2. \E f : Rec(f, N)
  <2> DEFINE K == {n \in 0..N : \E f : Rec(f, n)}
  <2>1. 0 \in K
    <3> DEFINE f == [i \in 0..0 |-> 1]
    <3>1. Rec(f, 0)
      OBVIOUS
    <3> HIDE DEF f, Rec
    <3>2. QED BY <1>1, <3>1
  <2>2. ASSUME NEW n \in K, n < N PROVE n + 1 \in K
    <3>1. PICK f : Rec(f, n)
      OBVIOUS
    <3> DEFINE g == [i \in 0..(n + 1) |-> IF i = n + 1 THEN 2 * f[n] ELSE f[i]]
    <3>2. n \in Int /\ 0 <= n /\ n + 1 \in 0..N
      BY <2>2, <1>1
    <3>3. \A i \in 0..n : f[i] = IF i = 0 THEN 1 ELSE 2 * f[i - 1]
      BY <3>1
    <3> HIDE DEF Rec
    <3>4. \A i \in 0..(n + 1) : g[i] = IF i = 0 THEN 1 ELSE 2 * g[i - 1]
      <4>1. ASSUME NEW i \in 0..n PROVE g[i] = f[i] /\ (i # 0 => g[i - 1] = f[i - 1])
        BY <3>2
      <4>2. n + 1 \in 0..(n + 1) /\ n \in 0..n /\ n + 1 # 0 /\ (n + 1) - 1 = n
        BY <3>2
      <4>3. \A i \in 0..(n + 1) : i \in 0..n \/ i = n + 1
        BY <3>2
      <4>4. g[n + 1] = 2 * f[n] /\ g[n] = f[n]
        BY <4>1, <4>2
      <4> HIDE DEF g
      <4>5. QED BY <3>3, <4>1, <4>2, <4>3, <4>4
    <3>5. Rec(g, n + 1)
      <4>1. g = [i \in 0..(n + 1) |-> g[i]]
        OBVIOUS
      <4> HIDE DEF g
      <4>2. QED BY <3>4, <4>1 DEF Rec
    <3>6. QED BY <3>2, <3>5
  <2> HIDE DEF Rec
  <2>3. N \in K
    <3> HIDE DEF N
    <3>1. K \in SUBSET (0..N) /\ 0 <= N
      BY <1>1
    <3> HIDE DEF K
    <3>2. QED BY <1>1, <2>1, <2>2, <3>1, Climb
  <2>4. QED BY <2>3
<1>3. Rec(TwoTo, N)
  BY <1>2 DEF TwoTo
<1>4. \A i \in 0..N : TwoTo[i] = IF i = 0 THEN 1 ELSE 2 * TwoTo[i - 1]
  BY <1>3
<1>5. TwoTo = [i \in 0..N |-> TwoTo[i]]
  BY <1>3
<1> HIDE DEF Rec
<1>6. ASSUME NEW n \in 0..N PROVE TwoTo[n] \in Nat /\ TwoTo[n] > n
  <2> DEFINE K == {k \in 0..n : TwoTo[k] \in Nat /\ TwoTo[k] > k}
  <2>1. 0 \in K
    BY <1>1, <1>4
  <2>2. ASSUME NEW k \in K, k < n PROVE k + 1 \in K
    <3>1. k \in Nat /\ k + 1 \in 0..n /\ k + 1 \in 0..N /\ k + 1 # 0 /\ (k + 1) - 1 = k
      BY <2>2, <1>1
    <3>2. TwoTo[k + 1] = 2 * TwoTo[k]
      BY <1>4, <3>1
    <3>3. TwoTo[k] \in Nat /\ TwoTo[k] > k
      OBVIOUS
    <3>4. \A x, y \in Nat : x > y => 2 * x \in Nat /\ 2 * x > y + 1
      OBVIOUS
    <3>5. QED BY <3>1, <3>2, <3>3, <3>4
  <2>3. K \in SUBSET (0..n) /\ n \in Int /\ 0 <= n
    BY <1>1
  <2> HIDE DEF K
  <2>4. n \in K
    BY <1>1, <2>1, <2>2, <2>3, Climb
  <2>5. QED BY <2>4 DEF K
<1>7. TwoTo \in [0..N -> Nat]
  BY <1>5, <1>6
<1>8. QED BY <1>1, <1>4, <1>6, <1>7

\* The delay after n failures in a row.
DelayAfter(n) == IF n = 0 THEN 0 ELSE AtMost(TwoTo[n - 1])

LEMMA DelayType ==
  ASSUME NEW n \in 0..backoff_limit
  PROVE  /\ DelayAfter(n) \in 0..backoff_limit
         /\ DelayAfter(n) = 0 <=> n = 0
<1>1. CASE n = 0
  BY <1>1, ReliableAssumption DEF DelayAfter
<1>2. CASE n # 0
  <2>1. n - 1 \in 0..backoff_limit /\ backoff_limit \in Nat \ {0}
    BY <1>2, ReliableAssumption
  <2>2. TwoTo[n - 1] \in Nat /\ TwoTo[n - 1] > n - 1
    BY <2>1, TwoToIs
  <2>3. QED BY <1>2, <2>1, <2>2, AtMostIs DEF DelayAfter
<1>3. QED BY <1>1, <1>2

\* Doubling the delay of n failures gives that of one more, up to the limit of
\* both.
LEMMA Doubled ==
  ASSUME NEW n \in 0..backoff_limit
  PROVE  /\ AtMost(n + 1) \in 1..backoff_limit
         /\ AtMost(IF DelayAfter(n) = 0 THEN 1 ELSE DelayAfter(n) * 2) = DelayAfter(AtMost(n + 1))
<1> DEFINE N == backoff_limit
           p == TwoTo[n - 1]
<1>1. N \in Nat /\ N >= 1 /\ n \in Nat /\ n <= N
  BY ReliableAssumption
<1>2. AtMost(n + 1) = IF n < N THEN n + 1 ELSE N
  BY <1>1, AtMostIs
<1>3. CASE n = 0
  <2>1. AtMost(n + 1) = 1 /\ AtMost(1) = 1 /\ 1 - 1 = 0 /\ 1 # 0
    BY <1>1, <1>2, <1>3, AtMostIs
  <2>2. DelayAfter(n) = 0
    BY <1>3 DEF DelayAfter
  <2>3. DelayAfter(1) = AtMost(TwoTo[0])
    BY <2>1 DEF DelayAfter
  <2>4. QED BY <1>1, <2>1, <2>2, <2>3, TwoToIs
<1>4. CASE n # 0
  <2>1. n - 1 \in 0..N /\ n - 1 \in Nat
    BY <1>1, <1>4
  <2>2. p \in Nat /\ p > n - 1
    BY <2>1, TwoToIs
  <2>3. DelayAfter(n) = IF p <= N THEN p ELSE N
    BY <1>4, <2>2, AtMostIs DEF DelayAfter
  <2>4. AtMost(IF DelayAfter(n) = 0 THEN 1 ELSE DelayAfter(n) * 2) = IF 2 * p <= N THEN 2 * p ELSE N
    <3> DEFINE d == DelayAfter(n)
    <3>1. d \in Nat /\ d # 0 /\ d * 2 \in Nat
      BY <1>1, <1>4, <2>1, <2>2, <2>3
    <3>2. AtMost(d * 2) = IF d * 2 <= N THEN d * 2 ELSE N
      BY <3>1, AtMostIs
    <3>3. d = IF p <= N THEN p ELSE N
      BY <2>3
    <3> HIDE DEF d, p, N
    <3>4. (IF d * 2 <= N THEN d * 2 ELSE N) = IF 2 * p <= N THEN 2 * p ELSE N
      BY <1>1, <2>2, <3>1, <3>3
    <3>5. QED BY <3>1, <3>2, <3>4 DEF d
  <2>5. CASE n < N
    <3>1. n + 1 # 0 /\ (n + 1) - 1 = n /\ n \in 1..N
      BY <1>1, <1>4, <2>5
    <3>2. DelayAfter(n + 1) = AtMost(2 * p)
      BY <3>1, TwoToIs DEF DelayAfter
    <3>3. AtMost(2 * p) = IF 2 * p <= N THEN 2 * p ELSE N
      BY <2>2, AtMostIs
    <3>4. AtMost(n + 1) = n + 1 /\ n + 1 \in 1..N
      BY <1>1, <1>2, <2>5
    <3>5. QED BY <2>4, <3>2, <3>3, <3>4
  <2>6. CASE n = N
    <3>1. p >= N /\ 2 * p >= N
      BY <1>1, <2>2, <2>6
    <3>2. DelayAfter(N) = N
      BY <1>1, <2>2, <2>3, <2>6, <3>1
    <3>3. (IF 2 * p <= N THEN 2 * p ELSE N) = N
      BY <1>1, <2>2, <3>1
    <3>4. AtMost(n + 1) = N /\ N \in 1..N
      BY <1>1, <1>2, <2>6
    <3>5. QED BY <2>4, <3>2, <3>3, <3>4
  <2>7. QED BY <1>1, <2>5, <2>6
<1>5. QED BY <1>3, <1>4

\* The inductive invariant: the types of the wrapper's own variables, which most
\* steps leave alone, and what is kept of the connection below.
WrapperTypes ==
  /\ wrapper_state \in {"S_CONNECTING", "S_SEND_HELLO", "S_RECV_HELLO", "S_CONNECTED",
                        "S_IDLE", "S_SEND_ERROR", "S_DISCONNECTED", "deleted", "crashed"}
  /\ wrapper_left \in 0..ProbeInterval
  /\ user \in {"run", "io", "connected"}

\* BackoffKept, and that the FSM which waits to try again does not go on before
\* the delay since the last failure has passed.
Retries ==
  /\ status \in {"CONN_SLEEPING", "CONN_WAKING", "CONN_CONNECTING", "CONN_CONNECTED"}
  /\ c \in {"none", "connecting", "up", "down"}
  /\ reconnect_fsm \in {"ready", "timer", "io", "rest"}
  /\ backoff \in 0..backoff_limit /\ delay \in 0..backoff_limit
  /\ failures \in 0..backoff_limit /\ since \in 0..backoff_limit
  /\ backoff = DelayAfter(failures)
  /\ status \in {"CONN_CONNECTING", "CONN_CONNECTED"} => since >= backoff
  /\ status \in {"CONN_CONNECTING", "CONN_CONNECTED"} <=> c # "none"
  /\ status = "CONN_WAKING" => reconnect_fsm = "timer" /\ since + delay >= backoff

LEMMA DroppedStep ==
  ASSUME Retries, Dropped
  PROVE  /\ c' = "none"
         /\ failures' \in 0..backoff_limit /\ since' = 0
         /\ backoff' \in 0..backoff_limit /\ backoff' = DelayAfter(failures')
<1>1. failures \in 0..backoff_limit /\ backoff = DelayAfter(failures)
  BY DEF Retries
<1>2. failures' = AtMost(failures + 1) /\ failures' \in 0..backoff_limit
  <2>1. failures' = AtMost(failures + 1)
    BY DEF Dropped
  <2>2. AtMost(failures + 1) \in 1..backoff_limit
    BY <1>1, Doubled
  <2>3. QED BY <2>1, <2>2, ReliableAssumption
<1>3. backoff' = DelayAfter(failures')
  BY <1>1, <1>2, Doubled DEF Dropped
<1>4. QED BY <1>2, <1>3, DelayType DEF Dropped

LEMMA UnchangedRetries ==
  ASSUME Retries, UNCHANGED <<reliable>>
  PROVE  Retries'
  BY DEF Retries, reliable, DelayAfter, AtMost, TwoTo

LEMMA ReconnectStep ==
  ASSUME Retries, Reconnect
  PROVE  Retries'
<1>1. /\ c' = "none" /\ failures' \in 0..backoff_limit /\ since' = 0
      /\ backoff' \in 0..backoff_limit /\ backoff' = DelayAfter(failures')
  BY DroppedStep DEF Reconnect
<1>2. status' = "CONN_WAKING" /\ reconnect_fsm' = "timer" /\ delay' = backoff'
  BY DEF Reconnect, Sleeps
<1>3. QED BY <1>1, <1>2, ReliableAssumption DEF Retries

\* What do_send_openflow and do_recv_openflow do, whatever they return.
LEMMA SendRecvStep ==
  ASSUME Retries,
         Sent \/ SendAgain \/ Received \/ RecvAgain
  PROVE  Retries'
<1>1. CASE Received
  <2>1. 0 \in 0..backoff_limit /\ DelayAfter(0) = 0
    BY ReliableAssumption DEF DelayAfter
  <2>2. since \in Nat /\ since' = since /\ failures' = 0 /\ backoff' = 0
        /\ UNCHANGED <<status, c, reconnect_fsm, delay>>
    BY <1>1 DEF Received, Retries
  <2>3. backoff' = DelayAfter(failures')
    BY <2>1, <2>2
  <2>4. status = "CONN_CONNECTED"
    BY <1>1 DEF Received
  <2>5. QED BY <2>1, <2>2, <2>3, <2>4 DEF Retries
<1>2. CASE UNCHANGED reliable
  BY <1>2, UnchangedRetries
<1>3. CASE Reconnect
  BY <1>3, ReconnectStep
<1>4. QED BY <1>1, <1>2, <1>3 DEF Sent, SendAgain, RecvAgain

LEMMA AttemptStep ==
  ASSUME Retries, AttemptFails
  PROVE  Retries'
<1>1. /\ c' = "none" /\ failures' \in 0..backoff_limit /\ since' = 0
      /\ backoff' \in 0..backoff_limit /\ backoff' = DelayAfter(failures')
  BY DroppedStep DEF AttemptFails
<1>2. status' = "CONN_SLEEPING" /\ reconnect_fsm' = "ready" /\ delay' = delay
  BY DEF AttemptFails
<1>3. QED BY <1>1, <1>2, ReliableAssumption DEF Retries

LEMMA RunRetries ==
  ASSUME Retries, reconnect_run
  PROVE  Retries'
<1>1. CASE Sleep
  <2>1. /\ UNCHANGED <<backoff, c, failures, since>>
        /\ status = "CONN_SLEEPING" /\ status' = "CONN_WAKING"
        /\ reconnect_fsm' = "timer" /\ delay' = backoff'
    BY <1>1 DEF Sleep, Sleeps
  <2>2. backoff' = DelayAfter(failures')
    BY <2>1 DEF Retries
  <2>3. QED BY <2>1, <2>2, ReliableAssumption DEF Retries
<1>2. CASE WakeUp /\ Attempt
  <2>1. /\ UNCHANGED <<backoff, delay, failures, since>>
        /\ status = "CONN_WAKING" /\ status' = "CONN_CONNECTING"
        /\ reconnect_fsm' = "io" /\ c' = "connecting"
    BY <1>2 DEF WakeUp, Attempt
  <2>2. delay = 0
    BY <2>1 DEF reconnect_run, Retries
  <2>3. backoff' = DelayAfter(failures')
    BY <2>1 DEF Retries
  <2>4. QED BY <2>1, <2>2, <2>3, ReliableAssumption DEF Retries
<1>3. CASE Connected
  <2>1. /\ UNCHANGED <<c, backoff, delay, failures, since>>
        /\ status = "CONN_CONNECTING" /\ status' = "CONN_CONNECTED"
        /\ reconnect_fsm' = "rest"
    BY <1>3 DEF Connected
  <2>2. backoff' = DelayAfter(failures')
    BY <2>1 DEF Retries
  <2>3. QED BY <2>1, <2>2 DEF Retries
<1>4. QED
  BY <1>1, <1>2, <1>3, AttemptStep DEF reconnect_run, WakeUp, ConnectFails

\* The clocks: what is taken off the delay is added to the time passed, unless
\* that has reached the limit.
LEMMA ClockSum ==
  ASSUME NEW N \in Nat, NEW s \in 0..N, NEW d \in 0..N, NEW b \in 0..N, NEW s2 \in 0..N, NEW d2 \in 0..N,
         s2 = IF s + 1 <= N THEN s + 1 ELSE N,
         d2 = IF d = 0 THEN 0 ELSE d - 1
  PROVE  (s >= b => s2 >= b) /\ (s + d >= b => s2 + d2 >= b)
  OBVIOUS

LEMMA TickRetries ==
  ASSUME Retries, ReliableTick
  PROVE  Retries'
<1>1. /\ backoff_limit \in Nat /\ since \in 0..backoff_limit /\ delay \in 0..backoff_limit
      /\ backoff \in 0..backoff_limit
      /\ UNCHANGED <<status, c, backoff, reconnect_fsm, failures>>
  BY ReliableAssumption DEF ReliableTick, Retries
<1>2. since' = IF since + 1 <= backoff_limit THEN since + 1 ELSE backoff_limit
  BY <1>1, AtMostIs DEF ReliableTick
<1>3. delay' = IF delay = 0 THEN 0 ELSE delay - 1
  BY DEF ReliableTick, Less
<1>4. since' \in 0..backoff_limit /\ delay' \in 0..backoff_limit
  BY <1>1, <1>2, <1>3
<1>5. (since >= backoff => since' >= backoff) /\ (since + delay >= backoff => since' + delay' >= backoff)
  BY <1>1, <1>2, <1>3, <1>4, ClockSum
<1>6. backoff' = DelayAfter(failures')
  BY <1>1 DEF Retries
<1>7. QED BY <1>1, <1>4, <1>5, <1>6 DEF Retries

\* Every step keeps the invariant.
LEMMA RetriesStep ==
  ASSUME WrapperTypes, Retries, [NextReliable]_reliableVars
  PROVE  WrapperTypes' /\ Retries'
<1>0. ProbeInterval \in Nat \ {0}
  BY IntervalAssumption
<1>1. CASE reconnect_run
  <2>1. WrapperTypes'
    BY <1>1 DEF WrapperTypes, reconnect_run, Sleep, WakeUp, Connected, ConnectFails, wrapper
  <2>2. QED BY <1>1, <2>1, RunRetries
<1>2. CASE Call
  <2>1. Sent \/ SendAgain \/ Received \/ RecvAgain \/ UNCHANGED reliable
    BY <1>2 DEF Call, wrapper_connect, wrapper_send, wrapper_recv
  <2>2. WrapperTypes'
    BY <1>0, <1>2
       DEF WrapperTypes, Call, wrapper_connect, wrapper_send, wrapper_recv, wrapper
  <2>3. QED BY <2>1, <2>2, SendRecvStep, UnchangedRetries
<1>3. CASE Wait \/ UserWakes \/ wrapper_delete \/ UNCHANGED reliableVars
  <2>1. WrapperTypes' /\ UNCHANGED reliable
    BY <1>3 DEF WrapperTypes, Wait, UserWakes, wrapper_delete, reliableVars, wrapper
  <2>2. QED BY <2>1, UnchangedRetries
<1>4. CASE wrapper_probe
  <2>1. Sent \/ SendAgain
    BY <1>4 DEF wrapper_probe
  <2>2. WrapperTypes'
    BY <1>0, <1>4 DEF WrapperTypes, wrapper_probe, Woken, wrapper
  <2>3. QED BY <2>1, <2>2, SendRecvStep
<1>5. CASE wrapper_close \/ Accepted \/ Breaks
  <2>1. /\ UNCHANGED <<status, backoff, reconnect_fsm, delay, failures, since>>
        /\ c' \in {"none", "connecting", "up", "down"} /\ (c' = "none" <=> c = "none")
    BY <1>5 DEF wrapper_close, Accepted, Breaks, Retries
  <2>2. WrapperTypes'
    BY <1>5 DEF WrapperTypes, wrapper_close, Accepted, Breaks, wrapper
  <2>3. backoff' = DelayAfter(failures')
    BY <2>1 DEF Retries
  <2>4. Retries'
    BY <2>1, <2>3 DEF Retries
  <2>5. QED BY <2>2, <2>4
<1>6. CASE ReliableTick
  <2>1. WrapperTypes'
    BY <1>0, <1>6 DEF WrapperTypes, ReliableTick, Less
  <2>2. QED BY <1>6, <2>1, TickRetries
<1>7. QED BY <1>1, <1>2, <1>3, <1>4, <1>5, <1>6 DEF NextReliable

LEMMA RetriesStart ==
  ASSUME InitReliable
  PROVE  WrapperTypes /\ Retries
<1>1. 0 \in 0..backoff_limit /\ 1 \in 0..backoff_limit /\ 0 \in 0..ProbeInterval
  BY ReliableAssumption, IntervalAssumption
<1>2. DelayAfter(0) = 0 /\ DelayAfter(1) = 1
  <2>1. 1 - 1 = 0 /\ TwoTo[0] = 1 /\ 1 \in Nat /\ 1 <= backoff_limit
    BY TwoToIs, ReliableAssumption
  <2>2. QED BY <2>1, AtMostIs DEF DelayAfter
<1>3. QED BY <1>1, <1>2 DEF InitReliable, WrapperTypes, Retries

\* reconnect and run space the attempts of a reliable connection by delays that
\* double with every failure, up to the limit, and c is used only while there is
\* one, for any limit and any order of failing attempts, sends and receives.
THEOREM DelaysDouble ==
  SpecReliable => []BackoffKept
<1>1. InitReliable => WrapperTypes /\ Retries
  BY RetriesStart
<1>2. WrapperTypes /\ Retries /\ [NextReliable]_reliableVars => WrapperTypes' /\ Retries'
  BY RetriesStep
<1>3. WrapperTypes /\ Retries => BackoffKept
  BY DEF WrapperTypes, Retries, BackoffKept, TypeOKReliable, DelayAfter
<1>4. QED BY <1>1, <1>2, <1>3, PTL DEF SpecReliable
=============================================================================
