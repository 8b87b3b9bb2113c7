---------------------------- MODULE KernelProofs ----------------------------
(***************************************************************************)
(* Proofs about Kernel, for any components, dependencies among them, flaws *)
(* and lists of applications: nothing runs before what it depends on, and  *)
(* the start-up succeeds exactly when it can.                              *)
(***************************************************************************)
EXTENDS Kernel, SequenceTheorems, TLAPS

-----------------------------------------------------------------------------
(* Lists                                                                   *)

\* What RemoveFirst leaves of a list that has an element once.
LEMMA AfterRemoveFirst ==
  ASSUME NEW S, NEW s \in Seq(S), NEW p \in DOMAIN s, NEW c, s[p] = c,
         \A m \in DOMAIN s : s[m] = c => m = p
  PROVE  /\ RemoveFirst(s, c) \in Seq(S)
         /\ DOMAIN RemoveFirst(s, c) = 1..(Len(s) - 1)
         /\ p \in 1..Len(s) /\ Len(s) \in Nat /\ DOMAIN s = 1..Len(s)
         /\ \A k \in 1..(Len(s) - 1) :
              RemoveFirst(s, c)[k] = IF k < p THEN s[k] ELSE s[k + 1]
<1>1. p \in 1..Len(s) /\ Len(s) \in Nat /\ DOMAIN s = 1..Len(s)
  OBVIOUS
<1> DEFINE a == SubSeq(s, 1, p - 1)
           b == SubSeq(s, p + 1, Len(s))
<1>2. RemoveFirst(s, c) = a \o b
  <2>1. {k \in 1..Len(s) : s[k] = c} = {p}
    BY <1>1
  <2>2. Min({p}) = p
    BY <1>1 DEF Min
  <2>3. SelectInSeq(s, LAMBDA v : v = c) = p
    BY <2>1, <2>2 DEF SelectInSeq
  <2>4. QED BY <1>1, <2>3 DEF RemoveFirst, RemoveAt
<1>3. /\ a \in Seq(S) /\ Len(a) = p - 1
      /\ \A k \in 1..(p - 1) : a[k] = s[k]
  BY <1>1
<1>4. /\ b \in Seq(S) /\ Len(b) = Len(s) - p
      /\ \A k \in 1..(Len(s) - p) : b[k] = s[k + p]
  BY <1>1
<1> HIDE DEF a, b
<1>5. /\ a \o b \in Seq(S) /\ DOMAIN (a \o b) = 1..(Len(s) - 1)
  <2>1. a \o b \in Seq(S) /\ Len(a \o b) = Len(a) + Len(b)
    BY <1>3, <1>4, ConcatProperties
  <2>2. Len(a \o b) = Len(s) - 1
    BY <1>1, <1>3, <1>4, <2>1
  <2>3. \A r \in Seq(S) : DOMAIN r = 1..Len(r)
    OBVIOUS
  <2>4. QED BY <2>1, <2>2, <2>3, Zenon
<1>6. ASSUME NEW k \in 1..(Len(s) - 1)
      PROVE  (a \o b)[k] = IF k < p THEN s[k] ELSE s[k + 1]
  <2>0. \A m \in 1..(Len(a) + Len(b)) :
          (a \o b)[m] = IF m <= Len(a) THEN a[m] ELSE b[m - Len(a)]
    BY <1>3, <1>4, ConcatProperties
  <2>1. CASE k < p
    <3>1. k \in 1..(p - 1) /\ k <= p - 1 /\ k \in 1..((p - 1) + (Len(s) - p))
      BY <1>1, <2>1
    <3>2. QED BY <1>3, <1>4, <2>0, <2>1, <3>1
  <2>2. CASE ~(k < p)
    <3>1. /\ k - (p - 1) \in 1..(Len(s) - p) /\ k - (p - 1) + p = k + 1
          /\ ~(k <= p - 1) /\ k \in 1..((p - 1) + (Len(s) - p))
      BY <1>1, <2>2
    <3>2. (a \o b)[k] = b[k - (p - 1)]
      BY <1>3, <1>4, <2>0, <3>1
    <3>3. QED BY <1>4, <2>2, <3>1, <3>2
  <2>3. QED BY <2>1, <2>2
<1>7. QED BY <1>1, <1>2, <1>5, <1>6

\* Its elements: all but the removed one, each still once.
LEMMA RemovedOnce ==
  ASSUME NEW S, NEW s \in Seq(S), NEW c,
         \A m, n \in DOMAIN s : s[m] = s[n] => m = n,
         \E p \in DOMAIN s : s[p] = c
  PROVE  /\ RemoveFirst(s, c) \in Seq(S)
         /\ \A k \in DOMAIN RemoveFirst(s, c) :
              /\ RemoveFirst(s, c)[k] # c
              /\ \E m \in DOMAIN s : s[m] = RemoveFirst(s, c)[k]
         /\ \A m, n \in DOMAIN RemoveFirst(s, c) :
              RemoveFirst(s, c)[m] = RemoveFirst(s, c)[n] => m = n
         /\ \A m \in DOMAIN s : s[m] # c =>
              \E k \in DOMAIN RemoveFirst(s, c) : RemoveFirst(s, c)[k] = s[m]
<1>1. PICK p \in DOMAIN s : s[p] = c
  OBVIOUS
<1> DEFINE r == RemoveFirst(s, c)
<1>2. /\ r \in Seq(S) /\ DOMAIN r = 1..(Len(s) - 1)
      /\ p \in 1..Len(s) /\ Len(s) \in Nat /\ DOMAIN s = 1..Len(s)
      /\ \A k \in 1..(Len(s) - 1) : r[k] = IF k < p THEN s[k] ELSE s[k + 1]
  BY <1>1, AfterRemoveFirst
<1> HIDE DEF r
<1>3. ASSUME NEW k \in DOMAIN r
      PROVE  r[k] # c /\ \E m \in DOMAIN s : s[m] = r[k]
  BY <1>1, <1>2
<1>4. ASSUME NEW m \in DOMAIN r, NEW n \in DOMAIN r, r[m] = r[n]
      PROVE  m = n
  <2> DEFINE at(k) == IF k < p THEN k ELSE k + 1
  <2>1. \A k \in DOMAIN r : at(k) \in DOMAIN s /\ r[k] = s[at(k)]
    BY <1>2
  <2>2. at(m) = at(n)
    BY <1>4, <2>1
  <2>3. QED BY <1>2, <2>2
<1>5. ASSUME NEW m \in DOMAIN s, s[m] # c
      PROVE  \E k \in DOMAIN r : r[k] = s[m]
  <2>1. CASE m < p
    BY <1>2, <2>1
  <2>2. CASE m > p
    <3>1. m - 1 \in 1..(Len(s) - 1) /\ ~(m - 1 < p) /\ m - 1 + 1 = m
      BY <1>2, <2>2
    <3>2. QED BY <1>2, <3>1
  <2>3. QED BY <1>1, <1>2, <1>5, <2>1, <2>2
<1>6. QED BY <1>2, <1>3, <1>4, <1>5 DEF r

\* Appending and taking the first.
LEMMA AfterAppend ==
  ASSUME NEW S, NEW s \in Seq(S), NEW c \in S
  PROVE  /\ Append(s, c) \in Seq(S)
         /\ DOMAIN s = 1..Len(s) /\ Len(s) \in Nat /\ Len(Append(s, c)) = Len(s) + 1
         /\ DOMAIN Append(s, c) = 1..(Len(s) + 1)
         /\ \A k \in 1..Len(s) : Append(s, c)[k] = s[k]
         /\ Append(s, c)[Len(s) + 1] = c
         /\ Last(Append(s, c)) = c
  BY DEF Last

LEMMA AfterTail ==
  ASSUME NEW S, NEW s \in Seq(S), s # << >>
  PROVE  /\ Head(s) \in S /\ Tail(s) \in Seq(S) /\ Head(s) = s[1]
         /\ 1 \in DOMAIN s /\ DOMAIN s = 1..Len(s) /\ Len(s) \in Nat
         /\ DOMAIN Tail(s) = 1..(Len(s) - 1)
         /\ \A k \in 1..(Len(s) - 1) : Tail(s)[k] = s[k + 1]
  OBVIOUS

-----------------------------------------------------------------------------
(* The inductive invariant                                                 *)

Resolving == pc \in {"scan", "install"}
Installed == {c \in Names : current_state[c] = INSTALLED}
Blocked(c) == \E d \in dependencies[c] : Known(d) /\ ~Satisfied(d)

\* What a component's state says of its flaw, and of the deployer.
StatesHonest ==
  /\ uninstalled_contexts = {c \in Names : ~Known(c) /\ flaw[c] # "missing"}
  /\ \A c \in Names :
       /\ Known(c) => flaw[c] # "missing"
       /\ current_state[c] = INSTALLED => flaw[c] = "no"
       /\ current_state[c] = ERROR => flaw[c] = "fails"

\* What is about to be installed is still where it was found, and all it
\* depends on is installed.
ResolvedReady ==
  /\ \A m, n \in DOMAIN resolved : resolved[m] = resolved[n] => m = n
  /\ \A n \in DOMAIN resolved :
       /\ current_state[resolved[n]] = from
       /\ \A d \in dependencies[resolved[n]] : Satisfied(d)
  /\ pc = "scan" => \A n \in DOMAIN resolved :
       \E k \in DOMAIN per_state[from] : k < i /\ per_state[from][k] = resolved[n]

\* While an application is being installed, the components that are known are
\* installed or are needed for it: they are in every set that has it, all that
\* is installed, and what its own members depend on.
NeededOnly ==
  /\ asked # << >>
  /\ \A n \in DOMAIN asked : Known(asked[n])
  /\ \A S \in SUBSET Names :
       /\ Installed \subseteq S /\ Last(asked) \in S
       /\ \A c \in S : dependencies[c] \subseteq S
       => \A c \in Names : Known(c) => c \in S

\* Between two applications everything known is installed.
AllInstalled ==
  /\ \A c \in Names : Known(c) => c \in Installed
  /\ \A n \in DOMAIN asked : Known(asked[n])

\* A pass over the states that has found nothing to do so far has only passed
\* over components that are blocked.
PassedOver(c) ==
  \/ current_state[c] \in NOT_INSTALLED..(from - 1)
  \/ \E k \in DOMAIN per_state[from] : k < i /\ per_state[from][k] = c

PassBlocked ==
  /\ pc = "scan" => ~progress
  /\ pc = "install" /\ resolved # << >> => progress
  /\ pc = "scan" /\ ~state_requirements_changed =>
       \A c \in Names : PassedOver(c) =>
         Blocked(c) \/ \E n \in DOMAIN resolved : resolved[n] = c
  /\ pc = "install" /\ ~state_requirements_changed /\ ~progress =>
       \A c \in Names : current_state[c] \in NOT_INSTALLED..from => Blocked(c)

Inv ==
  /\ DependenciesFirst /\ StatesHonest /\ ResolvedReady
  /\ Resolving => NeededOnly
  /\ pc \in {"boot", "booted"} => AllInstalled /\ resolved = << >>
  /\ PassBlocked
  /\ BootResult

-----------------------------------------------------------------------------
(* The components that can be installed                                    *)

\* All that such a component depends on can be installed, and it has no flaw.
LEMMA InstallableNeeds ==
  ASSUME TypeOK, NEW c \in Installable
  PROVE  flaw[c] = "no" /\ dependencies[c] \subseteq Installable
<1> DEFINE T == {e \in Installable : flaw[e] = "no" /\ dependencies[e] \subseteq Installable}
<1>1. Closed(T)
  <2>1. ASSUME NEW e \in Names, flaw[e] = "no", dependencies[e] \subseteq T
        PROVE  e \in T
    <3>1. dependencies[e] \subseteq Installable
      BY <2>1
    <3>2. ASSUME NEW S \in SUBSET Names, Closed(S) PROVE e \in S
      <4>1. Installable \subseteq S
        BY <3>2 DEF Installable
      <4>2. QED BY <2>1, <3>1, <3>2, <4>1 DEF Closed
    <3>3. e \in Installable
      BY <3>2 DEF Installable
    <3>4. QED BY <2>1, <3>1, <3>3
  <2>2. QED BY <2>1 DEF Closed
<1>2. T \in SUBSET Names
  BY DEF Installable
<1>3. c \in T
  BY <1>1, <1>2 DEF Installable
<1>4. QED BY <1>3

\* While an application that can be installed is being installed, no component
\* is known that cannot.
LEMMA KnownInstallable ==
  ASSUME TypeOK, NeededOnly, BootResult, Last(asked) \in Installable,
         NEW c \in Names, Known(c)
  PROVE  c \in Installable
<1>1. Installable \in SUBSET Names
  BY DEF Installable
<1>2. Installed \subseteq Installable
  BY DEF Installed, BootResult
<1>3. \A e \in Installable : dependencies[e] \subseteq Installable
  BY InstallableNeeds
<1>4. QED BY <1>1, <1>2, <1>3 DEF NeededOnly

\* A component that has a flaw cannot be installed.
LEMMA FlawedNot ==
  ASSUME NEW c \in Names, flaw[c] # "no"
  PROVE  c \notin Installable
<1>1. Closed(Names \ {c})
  BY DEF Closed
<1>2. QED BY <1>1 DEF Installable

-----------------------------------------------------------------------------
(* Steps                                                                   *)

\* The third part of DependenciesFirst.
DepsInstalled ==
  \A c \in Names : current_state[c] > NOT_INSTALLED =>
    \A d \in dependencies[c] : current_state[d] = INSTALLED

\* The states, as numbers.
LEMMA States ==
  /\ UNKNOWN = -1 /\ NOT_INSTALLED = 0 /\ LOADED = 2 /\ INSTALLED = 6 /\ ERROR = 7
  BY DEF UNKNOWN, NOT_INSTALLED, LOADED, INSTALLED, ERROR

\* What deploying a component changes.
LEMMA DeployStep ==
  ASSUME TypeOK, ListsAgree, DepsInstalled, StatesHonest, UNCHANGED fixed,
         NEW c, deploy(c)
  PROVE  /\ c \in Names /\ ~Known(c)
         /\ uninstalled_contexts' \subseteq Names
         /\ current_state' \in [Names -> UNKNOWN..ERROR]
         /\ per_state' \in [NOT_INSTALLED..ERROR -> Seq(Names)]
         /\ \A e \in Names : e # c => current_state'[e] = current_state[e]
         /\ current_state'[c] = NOT_INSTALLED
         /\ \A s \in NOT_INSTALLED..ERROR : \A n \in DOMAIN per_state[s] :
              n \in DOMAIN per_state'[s] /\ per_state'[s][n] = per_state[s][n]
         /\ \A s \in NOT_INSTALLED..ERROR : \A n \in DOMAIN per_state'[s] :
              n \in DOMAIN per_state[s] \/ per_state'[s][n] = c
         /\ ListsAgree' /\ DepsInstalled' /\ StatesHonest'
<1> USE DEF fixed
<1>1. /\ c \in Names /\ ~Known(c) /\ current_state[c] = UNKNOWN
      /\ uninstalled_contexts' = uninstalled_contexts \ {c}
      /\ uninstalled_contexts' \subseteq Names /\ flaw[c] # "missing"
  BY DEF deploy, TypeOK, StatesHonest, Known
<1>2. /\ current_state' = [current_state EXCEPT ![c] = NOT_INSTALLED]
      /\ current_state \in [Names -> UNKNOWN..ERROR]
      /\ NOT_INSTALLED \in UNKNOWN..ERROR
  BY States DEF deploy, TypeOK
<1>3. /\ current_state' \in [Names -> UNKNOWN..ERROR]
      /\ \A e \in Names : e # c => current_state'[e] = current_state[e]
      /\ current_state'[c] = NOT_INSTALLED
  BY <1>1, <1>2
<1>4. /\ NOT_INSTALLED \in NOT_INSTALLED..ERROR
      /\ per_state \in [NOT_INSTALLED..ERROR -> Seq(Names)]
      /\ per_state' = [per_state EXCEPT ![NOT_INSTALLED] =
                         Append(per_state[NOT_INSTALLED], c)]
  BY States DEF deploy, TypeOK
<1> DEFINE l == per_state[NOT_INSTALLED]
<1>5. /\ l \in Seq(Names) /\ Append(l, c) \in Seq(Names)
      /\ DOMAIN l = 1..Len(l) /\ Len(l) \in Nat
      /\ DOMAIN Append(l, c) = 1..(Len(l) + 1)
      /\ \A k \in 1..Len(l) : Append(l, c)[k] = l[k]
      /\ Append(l, c)[Len(l) + 1] = c
  BY <1>1, <1>4, AfterAppend
<1>6. /\ per_state' \in [NOT_INSTALLED..ERROR -> Seq(Names)]
      /\ \A s \in NOT_INSTALLED..ERROR : s # NOT_INSTALLED => per_state'[s] = per_state[s]
      /\ per_state'[NOT_INSTALLED] = Append(l, c)
  BY <1>4, <1>5
<1>7. /\ \A s \in NOT_INSTALLED..ERROR : \A n \in DOMAIN per_state[s] :
              n \in DOMAIN per_state'[s] /\ per_state'[s][n] = per_state[s][n]
      /\ \A s \in NOT_INSTALLED..ERROR : \A n \in DOMAIN per_state'[s] :
              n \in DOMAIN per_state[s] \/ per_state'[s][n] = c
  <2>1. ASSUME NEW s \in NOT_INSTALLED..ERROR
        PROVE  /\ \A n \in DOMAIN per_state[s] :
                    n \in DOMAIN per_state'[s] /\ per_state'[s][n] = per_state[s][n]
               /\ \A n \in DOMAIN per_state'[s] :
                    n \in DOMAIN per_state[s] \/ per_state'[s][n] = c
    <3>1. CASE s = NOT_INSTALLED
      <4>1. \A n \in 1..(Len(l) + 1) : n \in 1..Len(l) \/ n = Len(l) + 1
        BY <1>5
      <4>2. \A n \in 1..Len(l) : n \in 1..(Len(l) + 1)
        BY <1>5
      <4>3. QED BY <1>5, <1>6, <3>1, <4>1, <4>2
    <3>2. CASE s # NOT_INSTALLED
      BY <1>6, <3>2
    <3>3. QED BY <3>1, <3>2
  <2>2. QED BY <2>1
<1>8. ListsAgree'
  <2>1. ASSUME NEW s \in NOT_INSTALLED..ERROR, NEW n \in DOMAIN per_state'[s]
        PROVE  current_state'[per_state'[s][n]] = s
    <3>1. CASE s = NOT_INSTALLED
      <4>1. n \in 1..Len(l) \/ n = Len(l) + 1
        BY <1>5, <1>6, <2>1, <3>1
      <4>2. CASE n \in 1..Len(l)
        <5>1. per_state'[s][n] = l[n] /\ current_state[l[n]] = s /\ l[n] \in Names
          BY <1>4, <1>5, <1>6, <3>1, <4>2 DEF ListsAgree
        <5>2. QED BY <1>3, <5>1, <3>1
      <4>3. CASE n = Len(l) + 1
        BY <1>3, <1>5, <1>6, <3>1, <4>3
      <4>4. QED BY <4>1, <4>2, <4>3
    <3>2. CASE s # NOT_INSTALLED
      <4>1. per_state'[s] = per_state[s] /\ n \in DOMAIN per_state[s]
        BY <1>6, <2>1, <3>2
      <4>2. current_state[per_state[s][n]] = s /\ per_state[s][n] \in Names
        BY <1>4, <4>1 DEF ListsAgree
      <4>3. per_state[s][n] # c
        BY <1>1, <4>2, States
      <4>4. QED BY <1>3, <4>1, <4>2, <4>3
    <3>3. QED BY <3>1, <3>2
  <2>2. ASSUME NEW s \in NOT_INSTALLED..ERROR, NEW m \in DOMAIN per_state'[s],
               NEW n \in DOMAIN per_state'[s], per_state'[s][m] = per_state'[s][n]
        PROVE  m = n
    <3>1. CASE s = NOT_INSTALLED
      <4>1. ASSUME NEW k \in 1..Len(l) PROVE l[k] # c
        <5>1. current_state[l[k]] = NOT_INSTALLED
          BY <1>4, <1>5 DEF ListsAgree
        <5>2. NOT_INSTALLED # UNKNOWN
          BY States
        <5>3. QED BY <1>1, <5>1, <5>2
      <4>2. \A k \in 1..(Len(l) + 1) : k \in 1..Len(l) \/ k = Len(l) + 1
        BY <1>5
      <4>3. \A k, j \in 1..Len(l) : l[k] = l[j] => k = j
        BY <1>4, <1>5 DEF ListsAgree
      <4>4. QED BY <1>5, <1>6, <2>2, <3>1, <4>1, <4>2, <4>3
    <3>2. CASE s # NOT_INSTALLED
      BY <1>6, <2>2, <3>2 DEF ListsAgree
    <3>3. QED BY <3>1, <3>2
  <2>3. ASSUME NEW e \in Names, current_state'[e] # UNKNOWN
        PROVE  \E n \in DOMAIN per_state'[current_state'[e]] :
                 per_state'[current_state'[e]][n] = e
    <3>1. CASE e = c
      <4>1. Len(l) + 1 \in 1..(Len(l) + 1)
        BY <1>5
      <4>2. QED BY <1>3, <1>5, <1>6, <3>1, <4>1
    <3>2. CASE e # c
      <4>1. current_state'[e] = current_state[e] /\ current_state[e] \in NOT_INSTALLED..ERROR
        BY <1>2, <1>3, <2>3, <3>2, States
      <4>2. PICK n \in DOMAIN per_state[current_state[e]] : per_state[current_state[e]][n] = e
        BY <2>3, <4>1 DEF ListsAgree, Known
      <4>3. /\ n \in DOMAIN per_state'[current_state[e]]
            /\ per_state'[current_state[e]][n] = e
        BY <1>7, <4>1, <4>2
      <4>4. QED BY <4>1, <4>3
    <3>3. QED BY <3>1, <3>2
  <2>4. QED BY <2>1, <2>2, <2>3 DEF ListsAgree, Known
<1>9. DepsInstalled'
  <2>1. ASSUME NEW e \in Names, current_state'[e] > NOT_INSTALLED,
               NEW d \in dependencies[e]
        PROVE  current_state'[d] = INSTALLED
    <3>1. e # c /\ current_state[e] > NOT_INSTALLED
      BY <1>3, <2>1, States
    <3>2. current_state[d] = INSTALLED /\ d \in Names
      BY <2>1, <3>1 DEF DepsInstalled, TypeOK
    <3>3. d # c
      BY <1>1, <3>2, States
    <3>4. QED BY <1>3, <3>2, <3>3
  <2>2. QED BY <2>1 DEF DepsInstalled
<1>10. StatesHonest'
  <2>1. \A e \in Names : (e \in uninstalled_contexts')
          <=> (~(current_state'[e] # UNKNOWN) /\ flaw[e] # "missing")
    BY <1>1, <1>3, States DEF StatesHonest, Known
  <2>2. ASSUME NEW e \in Names
        PROVE  /\ current_state'[e] # UNKNOWN => flaw[e] # "missing"
               /\ current_state'[e] = INSTALLED => flaw[e] = "no"
               /\ current_state'[e] = ERROR => flaw[e] = "fails"
    BY <1>1, <1>3, States DEF StatesHonest, Known
  <2>3. uninstalled_contexts' = {e \in Names : ~(current_state'[e] # UNKNOWN)
                                                    /\ flaw[e] # "missing"}
    BY <1>1, <2>1
  <2>4. QED BY <2>2, <2>3 DEF StatesHonest, Known
<1>11. QED BY <1>1, <1>3, <1>6, <1>7, <1>8, <1>9, <1>10

\* Steps that move no component keep what is said of the components.
LEMMA ContextsKept ==
  ASSUME ListsAgree, DepsInstalled, StatesHonest, UNCHANGED <<fixed, contexts>>
  PROVE  ListsAgree' /\ DepsInstalled' /\ StatesHonest'
  BY DEF fixed, contexts, ListsAgree, DepsInstalled, StatesHonest, Known

\* Component_context::install of the next component.
LEMMA InstallStep ==
  ASSUME Inv, Install
  PROVE  Inv'
<1> USE DEF fixed, boot
<1> DEFINE c == Head(resolved)
<1>0. /\ TypeOK /\ ListsAgree /\ DepsInstalled /\ StatesHonest /\ ResolvedReady
      /\ NeededOnly /\ PassBlocked /\ BootResult
      /\ pc = "install" /\ resolved # << >>
  BY DEF Inv, Install, Resolving, DependenciesFirst, DepsInstalled
<1>1. PICK to \in {from + 1} \cup
           (IF flaw[c] = "fails" /\ from + 1 >= LOADED THEN {ERROR} ELSE {}) :
         /\ flaw[c] = "fails" => to # INSTALLED
         /\ current_state' = [current_state EXCEPT ![c] = to]
         /\ per_state' = [per_state EXCEPT
              ![from] = RemoveFirst(@, c), ![to] = Append(@, c)]
  BY DEF Install
<1>2. /\ c \in Names /\ Tail(resolved) \in Seq(Names) /\ resolved' = Tail(resolved)
      /\ c = resolved[1] /\ 1 \in DOMAIN resolved /\ DOMAIN resolved = 1..Len(resolved)
      /\ Len(resolved) \in Nat /\ DOMAIN resolved' = 1..(Len(resolved) - 1)
      /\ \A k \in 1..(Len(resolved) - 1) : resolved'[k] = resolved[k + 1]
  BY <1>0, AfterTail DEF TypeOK, Install
<1>3. /\ current_state[c] = from
      /\ \A d \in dependencies[c] : current_state[d] = INSTALLED
  BY <1>0, <1>2 DEF ResolvedReady, Satisfied
<1>4. /\ from \in 0..5 /\ from \in NOT_INSTALLED..ERROR /\ to \in NOT_INSTALLED..ERROR
      /\ to # from /\ to > NOT_INSTALLED /\ to \in UNKNOWN..ERROR
      /\ to = from + 1 \/ (to = ERROR /\ flaw[c] = "fails")
      /\ to # UNKNOWN
  <2>1. from \in 0..5
    BY <1>0, States DEF TypeOK
  <2>2. to = from + 1 \/ (to = ERROR /\ flaw[c] = "fails")
    BY <1>1
  <2>3. QED BY <2>1, <2>2, States
<1> HIDE DEF c
<1>5. /\ current_state \in [Names -> UNKNOWN..ERROR]
      /\ current_state' \in [Names -> UNKNOWN..ERROR]
      /\ current_state'[c] = to
      /\ \A e \in Names : e # c => current_state'[e] = current_state[e]
  BY <1>0, <1>1, <1>2, <1>4 DEF TypeOK
<1>6. UNCHANGED <<dependencies, flaw, apps, asked, uninstalled_contexts,
                  state_requirements_changed, progress, installing, from, i, pc>>
  BY DEF Install
<1> DEFINE l == per_state[from]
           r == RemoveFirst(l, c)
           t == per_state[to]
<1>7. /\ per_state \in [NOT_INSTALLED..ERROR -> Seq(Names)]
      /\ l \in Seq(Names) /\ t \in Seq(Names)
  BY <1>0, <1>4 DEF TypeOK
<1>8. \E p \in DOMAIN l : l[p] = c
  <2>1. from # UNKNOWN
    BY <1>4, States
  <2>2. QED BY <1>0, <1>2, <1>3, <2>1 DEF ListsAgree, Known
<1>9. \A m, n \in DOMAIN l : l[m] = l[n] => m = n
  BY <1>0, <1>4 DEF ListsAgree
<1>10. /\ r \in Seq(Names)
       /\ \A k \in DOMAIN r : r[k] # c /\ \E m \in DOMAIN l : l[m] = r[k]
       /\ \A m, n \in DOMAIN r : r[m] = r[n] => m = n
       /\ \A m \in DOMAIN l : l[m] # c => \E k \in DOMAIN r : r[k] = l[m]
  <2> HIDE DEF l, r
  <2>1. /\ l \in Seq(Names) /\ \A m, n \in DOMAIN l : l[m] = l[n] => m = n
        /\ \E p \in DOMAIN l : l[p] = c
    BY <1>7, <1>8, <1>9
  <2>2. QED BY <2>1, RemovedOnce DEF r
<1>11. /\ Append(t, c) \in Seq(Names)
       /\ DOMAIN t = 1..Len(t) /\ Len(t) \in Nat
       /\ DOMAIN Append(t, c) = 1..(Len(t) + 1)
       /\ \A k \in 1..Len(t) : Append(t, c)[k] = t[k]
       /\ Append(t, c)[Len(t) + 1] = c
  BY <1>2, <1>7, AfterAppend
<1>12. /\ per_state' \in [NOT_INSTALLED..ERROR -> Seq(Names)]
       /\ per_state'[from] = r /\ per_state'[to] = Append(t, c)
       /\ \A s \in NOT_INSTALLED..ERROR : s # from /\ s # to => per_state'[s] = per_state[s]
  BY <1>1, <1>4, <1>7, <1>10, <1>11
<1> HIDE DEF l, r, t
<1>13. TypeOK'
  BY <1>0, <1>2, <1>5, <1>6, <1>12 DEF TypeOK
<1>14. ListsAgree'
  <2>1. ASSUME NEW s \in NOT_INSTALLED..ERROR, NEW n \in DOMAIN per_state'[s]
        PROVE  current_state'[per_state'[s][n]] = s
    <3>1. CASE s = from
      <4>1. PICK m \in DOMAIN l : l[m] = r[n] /\ r[n] # c
        BY <1>10, <1>12, <2>1, <3>1
      <4>2. current_state[l[m]] = from /\ l[m] \in Names
        BY <1>0, <1>4, <1>7, <4>1 DEF ListsAgree, l
      <4>3. QED BY <1>5, <1>12, <3>1, <4>1, <4>2
    <3>2. CASE s = to
      <4>1. n \in 1..Len(t) \/ n = Len(t) + 1
        BY <1>11, <1>12, <2>1, <3>2
      <4>2. CASE n \in 1..Len(t)
        <5>1. per_state'[s][n] = t[n] /\ current_state[t[n]] = to /\ t[n] \in Names
          BY <1>0, <1>4, <1>7, <1>11, <1>12, <3>2, <4>2 DEF ListsAgree, t
        <5>2. t[n] # c
          BY <1>3, <1>4, <5>1
        <5>3. QED BY <1>5, <3>2, <5>1, <5>2
      <4>3. CASE n = Len(t) + 1
        BY <1>5, <1>11, <1>12, <3>2, <4>3
      <4>4. QED BY <4>1, <4>2, <4>3
    <3>3. CASE s # from /\ s # to
      <4>1. per_state'[s] = per_state[s] /\ n \in DOMAIN per_state[s]
        BY <1>12, <2>1, <3>3
      <4>2. current_state[per_state[s][n]] = s /\ per_state[s][n] \in Names
        BY <1>0, <1>7, <4>1 DEF ListsAgree
      <4>3. per_state[s][n] # c
        BY <1>3, <3>3, <4>2
      <4>4. QED BY <1>5, <4>1, <4>2, <4>3
    <3>4. QED BY <3>1, <3>2, <3>3
  <2>2. ASSUME NEW s \in NOT_INSTALLED..ERROR, NEW m \in DOMAIN per_state'[s],
               NEW n \in DOMAIN per_state'[s], per_state'[s][m] = per_state'[s][n]
        PROVE  m = n
    <3>1. CASE s = from
      BY <1>10, <1>12, <2>2, <3>1
    <3>2. CASE s = to
      <4>1. ASSUME NEW k \in 1..Len(t) PROVE t[k] # c
        <5>1. current_state[t[k]] = to
          BY <1>0, <1>4, <1>11 DEF ListsAgree, t
        <5>2. QED BY <1>3, <1>4, <5>1
      <4>2. \A k \in 1..(Len(t) + 1) : k \in 1..Len(t) \/ k = Len(t) + 1
        BY <1>11
      <4>3. \A k, j \in 1..Len(t) : t[k] = t[j] => k = j
        BY <1>0, <1>4, <1>11 DEF ListsAgree, t
      <4>4. QED BY <1>11, <1>12, <2>2, <3>2, <4>1, <4>2, <4>3
    <3>3. CASE s # from /\ s # to
      BY <1>0, <1>12, <2>2, <3>3 DEF ListsAgree
    <3>4. QED BY <3>1, <3>2, <3>3
  <2>3. ASSUME NEW e \in Names, current_state'[e] # UNKNOWN
        PROVE  \E n \in DOMAIN per_state'[current_state'[e]] :
                 per_state'[current_state'[e]][n] = e
    <3>1. CASE e = c
      <4>1. Len(t) + 1 \in 1..(Len(t) + 1)
        BY <1>11
      <4>2. QED BY <1>5, <1>11, <1>12, <3>1, <4>1
    <3>2. CASE e # c
      <4>1. current_state'[e] = current_state[e] /\ current_state[e] \in NOT_INSTALLED..ERROR
        BY <1>5, <2>3, <3>2, States
      <4>2. PICK n \in DOMAIN per_state[current_state[e]] : per_state[current_state[e]][n] = e
        BY <1>0, <2>3, <4>1 DEF ListsAgree, Known
      <4>3. CASE current_state[e] = from
        BY <1>10, <1>12, <3>2, <4>1, <4>2, <4>3 DEF l
      <4>4. CASE current_state[e] = to
        <5>1. n \in 1..Len(t) /\ t[n] = e
          BY <1>11, <4>2, <4>4 DEF t
        <5>2. n \in 1..(Len(t) + 1)
          BY <1>11, <5>1
        <5>3. QED BY <1>11, <1>12, <4>1, <4>4, <5>1, <5>2
      <4>5. CASE current_state[e] # from /\ current_state[e] # to
        <5>1. per_state'[current_state[e]] = per_state[current_state[e]]
          BY <1>12, <4>1, <4>5
        <5>2. QED BY <4>1, <4>2, <5>1
      <4>6. QED BY <4>3, <4>4, <4>5
    <3>3. QED BY <3>1, <3>2
  <2>4. QED BY <2>1, <2>2, <2>3 DEF ListsAgree, Known
<1>15. Installed \subseteq Installed'
  <2>1. from # INSTALLED
    BY <1>4, States
  <2>2. QED BY <1>3, <1>5, <2>1 DEF Installed
<1>16. DepsInstalled'
  <2>1. ASSUME NEW e \in Names, current_state'[e] > NOT_INSTALLED,
               NEW d \in dependencies[e]
        PROVE  current_state'[d] = INSTALLED
    <3>1. d \in Names
      BY <1>0, <2>1 DEF TypeOK
    <3>2. current_state[d] = INSTALLED
      BY <1>0, <1>3, <1>5, <2>1 DEF DepsInstalled
    <3>3. QED BY <1>15, <3>1, <3>2 DEF Installed
  <2>2. QED BY <1>6, <2>1 DEF DepsInstalled
<1>17. StatesHonest'
  <2>1. Known(c) /\ flaw[c] # "missing"
    BY <1>0, <1>2, <1>3, <1>4, States DEF StatesHonest, Known
  <2>2. \A e \in Names : current_state'[e] # UNKNOWN <=> current_state[e] # UNKNOWN
    BY <1>3, <1>4, <1>5, <2>1 DEF Known
  <2>3. to = INSTALLED => flaw[c] = "no"
    BY <1>0, <1>1, <1>2, <2>1 DEF TypeOK
  <2>4. to = ERROR => flaw[c] = "fails"
    BY <1>4, States
  <2>5. ASSUME NEW e \in Names
        PROVE  /\ current_state'[e] # UNKNOWN => flaw[e] # "missing"
               /\ current_state'[e] = INSTALLED => flaw[e] = "no"
               /\ current_state'[e] = ERROR => flaw[e] = "fails"
    BY <1>0, <1>5, <2>1, <2>3, <2>4 DEF StatesHonest, Known
  <2>6. uninstalled_contexts = {e \in Names : ~(current_state'[e] # UNKNOWN)
                                              /\ flaw[e] # "missing"}
    BY <1>0, <2>2 DEF StatesHonest, Known
  <2>7. QED BY <1>6, <2>5, <2>6 DEF StatesHonest, Known
<1>18. ResolvedReady'
  <2>1. ASSUME NEW k \in DOMAIN resolved'
        PROVE  /\ k + 1 \in DOMAIN resolved /\ resolved'[k] = resolved[k + 1]
               /\ resolved[k + 1] # c /\ resolved[k + 1] \in Names
    <3>1. k \in 1..(Len(resolved) - 1) /\ k + 1 \in DOMAIN resolved /\ k + 1 # 1
      BY <1>2
    <3>2. resolved'[k] = resolved[k + 1]
      BY <1>2, <3>1
    <3>3. resolved[k + 1] \in Names
      BY <1>0, <3>1 DEF TypeOK
    <3>4. resolved[k + 1] # c
      BY <1>0, <1>2, <3>1 DEF ResolvedReady
    <3>5. QED BY <3>1, <3>2, <3>3, <3>4
  <2>2. ASSUME NEW m \in DOMAIN resolved', NEW n \in DOMAIN resolved',
               resolved'[m] = resolved'[n]
        PROVE  m = n
    <3>1. m + 1 = n + 1
      BY <1>0, <2>1, <2>2 DEF ResolvedReady
    <3>2. QED BY <1>2, <3>1
  <2>3. ASSUME NEW n \in DOMAIN resolved'
        PROVE  /\ current_state'[resolved'[n]] = from
               /\ \A d \in dependencies[resolved'[n]] : current_state'[d] = INSTALLED
    <3>1. /\ current_state[resolved'[n]] = from /\ resolved'[n] # c
          /\ resolved'[n] \in Names
          /\ \A d \in dependencies[resolved'[n]] : current_state[d] = INSTALLED
      BY <1>0, <2>1 DEF ResolvedReady, Satisfied
    <3>2. \A d \in dependencies[resolved'[n]] : d \in Names
      BY <1>0, <3>1 DEF TypeOK
    <3>3. QED BY <1>5, <1>15, <3>1, <3>2 DEF Installed
  <2>4. QED BY <1>0, <1>6, <2>2, <2>3 DEF ResolvedReady, Satisfied
<1>19. NeededOnly'
  <2>1. \A e \in Names : current_state'[e] # UNKNOWN <=> Known(e)
    BY <1>3, <1>4, <1>5, States DEF Known
  <2>2. \A n \in DOMAIN asked : asked[n] \in Names
    BY <1>0 DEF TypeOK
  <2>3. QED BY <1>0, <1>6, <1>15, <2>1, <2>2 DEF NeededOnly, Known, Last
<1>20. PassBlocked'
  BY <1>0, <1>6 DEF PassBlocked
<1>21. BootResult'
  <2>1. ASSUME NEW e \in Names, current_state'[e] = INSTALLED,
               NEW S \in SUBSET Names, Closed(S)
        PROVE  e \in S
    <3>1. Installed \subseteq S
      BY <1>0, <2>1 DEF BootResult, Installable, Installed
    <3>2. CASE e # c
      BY <1>5, <2>1, <3>1, <3>2 DEF Installed
    <3>3. CASE e = c
      <4>1. flaw[c] = "no"
        BY <1>6, <1>17, <2>1, <3>3 DEF StatesHonest
      <4>2. dependencies[c] \subseteq Installed
        BY <1>0, <1>2, <1>3 DEF Installed, TypeOK
      <4>3. QED BY <1>2, <2>1, <3>1, <3>3, <4>1, <4>2 DEF Closed
    <3>4. QED BY <3>2, <3>3
  <2>2. \A e \in Names : current_state'[e] = INSTALLED => e \in Installable
    BY <2>1 DEF Installable
  <2>3. Installable' = Installable
    BY <1>6 DEF Installable, Closed
  <2>4. QED BY <1>0, <1>6, <2>2, <2>3 DEF BootResult
<1>22. QED
  BY <1>0, <1>6, <1>13, <1>14, <1>16, <1>17, <1>18, <1>19, <1>20, <1>21
  DEF Inv, DependenciesFirst, DepsInstalled, Resolving

\* The same of what is needed, and of the components that can be installed.
LEMMA NeededKept ==
  ASSUME UNCHANGED <<dependencies, current_state, asked>>
  PROVE  /\ NeededOnly => NeededOnly'
         /\ AllInstalled => AllInstalled'
  BY DEF NeededOnly, AllInstalled, Installed, Known, Last

LEMMA InstallableKept ==
  ASSUME UNCHANGED fixed
  PROVE  Installable' = Installable
  BY DEF fixed, Installable, Closed

\* The component a scan is at.
LEMMA AtScanned ==
  ASSUME TypeOK, ListsAgree, i <= Len(per_state[from])
  PROVE  /\ from \in 0..5 /\ from \in NOT_INSTALLED..ERROR /\ i \in Nat
         /\ per_state[from] \in Seq(Names) /\ i \in DOMAIN per_state[from]
         /\ Scanned = per_state[from][i] /\ Scanned \in Names
         /\ current_state[Scanned] = from /\ Known(Scanned)
         /\ dependencies[Scanned] \subseteq Names
<1>1. from \in 0..5 /\ from \in NOT_INSTALLED..ERROR /\ from # UNKNOWN
  <2>1. from \in 0..5
    BY States DEF TypeOK
  <2>2. QED BY <2>1, States
<1>2. per_state[from] \in Seq(Names) /\ i \in Nat \ {0}
  BY <1>1 DEF TypeOK
<1>3. i \in DOMAIN per_state[from] /\ per_state[from][i] \in Names
  BY <1>2
<1>4. current_state[per_state[from][i]] = from
  BY <1>1, <1>3 DEF ListsAgree
<1>5. QED BY <1>1, <1>2, <1>3, <1>4 DEF Scanned, Known, TypeOK

\* Component_context::resolve returns true.
LEMMA AllSatisfiedStep ==
  ASSUME Inv, AllSatisfied
  PROVE  Inv'
<1>0. /\ TypeOK /\ ListsAgree /\ DepsInstalled /\ StatesHonest /\ ResolvedReady
      /\ NeededOnly /\ PassBlocked /\ BootResult
      /\ pc = "scan" /\ i <= Len(per_state[from]) /\ pc' = pc
      /\ UNCHANGED <<fixed, contexts>> /\ asked' = asked
  BY DEF Inv, AllSatisfied, Resolving, DependenciesFirst, DepsInstalled, boot
<1>1. UNCHANGED <<dependencies, flaw, apps, asked, uninstalled_contexts, current_state,
                  per_state, state_requirements_changed, progress, installing, from, pc>>
  BY DEF AllSatisfied, fixed, boot, contexts
<1>2. /\ resolved' = Append(resolved, Scanned) /\ i' = i + 1
      /\ \A d \in dependencies[Scanned] : Satisfied(d)
  BY DEF AllSatisfied
<1>3. /\ i \in Nat /\ i \in DOMAIN per_state[from] /\ from \in NOT_INSTALLED..ERROR
      /\ Scanned = per_state[from][i] /\ Scanned \in Names
      /\ current_state[Scanned] = from
  BY <1>0, AtScanned
<1>4. /\ resolved \in Seq(Names) /\ resolved' \in Seq(Names)
      /\ DOMAIN resolved = 1..Len(resolved) /\ Len(resolved) \in Nat
      /\ DOMAIN resolved' = 1..(Len(resolved) + 1)
      /\ \A k \in 1..Len(resolved) : resolved'[k] = resolved[k]
      /\ resolved'[Len(resolved) + 1] = Scanned
  <2>1. resolved \in Seq(Names)
    BY <1>0 DEF TypeOK
  <2>2. QED BY <1>2, <1>3, <2>1, AfterAppend
<1>5. TypeOK'
  BY <1>0, <1>1, <1>2, <1>3, <1>4 DEF TypeOK
<1>6. ListsAgree' /\ DepsInstalled' /\ StatesHonest'
  BY <1>0, ContextsKept
<1>7. ASSUME NEW n \in DOMAIN resolved'
      PROVE  \/ n \in DOMAIN resolved /\ resolved'[n] = resolved[n]
             \/ n = Len(resolved) + 1 /\ resolved'[n] = Scanned
  BY <1>4
<1>8. \A n \in DOMAIN resolved : resolved[n] # Scanned
  <2>1. ASSUME NEW n \in DOMAIN resolved PROVE resolved[n] # Scanned
    <3>1. PICK k \in DOMAIN per_state[from] : k < i /\ per_state[from][k] = resolved[n]
      BY <1>0 DEF ResolvedReady
    <3>2. k # i
      BY <1>3, <3>1
    <3>3. QED BY <1>0, <1>3, <3>1, <3>2 DEF ListsAgree
  <2>2. QED BY <2>1
<1>9. ResolvedReady'
  <2>1. \A m, n \in DOMAIN resolved' : resolved'[m] = resolved'[n] => m = n
    BY <1>0, <1>7, <1>8 DEF ResolvedReady
  <2>2. \A n \in DOMAIN resolved' :
          /\ current_state[resolved'[n]] = from
          /\ \A d \in dependencies[resolved'[n]] : Satisfied(d)
    BY <1>0, <1>2, <1>3, <1>7 DEF ResolvedReady
  <2>3. ASSUME NEW n \in DOMAIN resolved'
        PROVE  \E k \in DOMAIN per_state[from] :
                 k < i + 1 /\ per_state[from][k] = resolved'[n]
    <3>1. CASE n \in DOMAIN resolved /\ resolved'[n] = resolved[n]
      <4>1. PICK k \in DOMAIN per_state[from] : k < i /\ per_state[from][k] = resolved[n]
        BY <1>0, <3>1 DEF ResolvedReady
      <4>2. k \in Int
        BY <1>0, <1>3, <4>1 DEF TypeOK
      <4>3. k < i + 1
        BY <1>3, <4>1, <4>2
      <4>4. QED BY <3>1, <4>1, <4>3
    <3>2. CASE resolved'[n] = Scanned
      BY <1>3, <3>2
    <3>3. QED BY <1>7, <3>1, <3>2
  <2>4. QED BY <1>1, <1>2, <2>1, <2>2, <2>3 DEF ResolvedReady, Satisfied
<1>10. NeededOnly'
  BY <1>0, <1>1, NeededKept
<1>11. PassBlocked'
  <2>1. ASSUME ~state_requirements_changed, NEW c \in Names, PassedOver(c)'
        PROVE  Blocked(c) \/ \E n \in DOMAIN resolved' : resolved'[n] = c
    <3>1. CASE PassedOver(c)
      <4>1. Blocked(c) \/ \E n \in DOMAIN resolved : resolved[n] = c
        BY <1>0, <2>1, <3>1 DEF PassBlocked
      <4>2. \A n \in DOMAIN resolved : n \in DOMAIN resolved' /\ resolved'[n] = resolved[n]
        BY <1>4
      <4>3. QED BY <4>1, <4>2
    <3>2. CASE ~PassedOver(c)
      <4>1. PICK k \in DOMAIN per_state[from] : k < i + 1 /\ per_state[from][k] = c
        BY <1>1, <1>2, <2>1, <3>2 DEF PassedOver
      <4>2. k \in Int
        BY <1>0, <1>3, <4>1 DEF TypeOK
      <4>3. k = i
        BY <1>3, <3>2, <4>1, <4>2 DEF PassedOver
      <4>4. Len(resolved) + 1 \in DOMAIN resolved'
        BY <1>4
      <4>5. QED BY <1>3, <1>4, <4>1, <4>3, <4>4
    <3>3. QED BY <3>1, <3>2
  <2>2. \A c \in Names : Blocked(c)' = Blocked(c)
    BY <1>1 DEF Blocked, Known, Satisfied
  <2>3. QED BY <1>0, <1>1, <2>1, <2>2 DEF PassBlocked
<1>12. BootResult'
  BY <1>0, <1>1, InstallableKept DEF BootResult
<1>13. QED
  BY <1>0, <1>5, <1>6, <1>9, <1>10, <1>11, <1>12
  DEF Inv, DependenciesFirst, DepsInstalled, Resolving

\* It returns false: a dependency that is known is not installed.
LEMMA WaitsStep ==
  ASSUME Inv, Waits
  PROVE  Inv'
<1>0. /\ TypeOK /\ ListsAgree /\ DepsInstalled /\ StatesHonest /\ ResolvedReady
      /\ NeededOnly /\ PassBlocked /\ BootResult
      /\ pc = "scan" /\ i <= Len(per_state[from]) /\ pc' = pc
      /\ UNCHANGED <<fixed, contexts>> /\ asked' = asked
  BY DEF Inv, Waits, Resolving, DependenciesFirst, DepsInstalled, boot
<1>1. UNCHANGED <<dependencies, flaw, apps, asked, uninstalled_contexts, current_state,
                  per_state, state_requirements_changed, progress, installing, from,
                  resolved, pc>>
  BY DEF Waits, fixed, boot, contexts
<1>2. i' = i + 1 /\ Blocked(Scanned)
  BY DEF Waits, Blocked
<1>3. /\ i \in Nat /\ i \in DOMAIN per_state[from] /\ from \in NOT_INSTALLED..ERROR
      /\ Scanned = per_state[from][i] /\ per_state[from] \in Seq(Names)
  BY <1>0, AtScanned
<1>4. TypeOK'
  BY <1>0, <1>1, <1>2, <1>3 DEF TypeOK
<1>5. ListsAgree' /\ DepsInstalled' /\ StatesHonest'
  BY <1>0, ContextsKept
<1>6. \A k \in DOMAIN per_state[from] : k \in Int
  BY <1>3
<1>7. ResolvedReady'
  <2>1. \A k \in DOMAIN per_state[from] : k < i => k < i + 1
    BY <1>3, <1>6
  <2>2. QED BY <1>0, <1>1, <1>2, <2>1 DEF ResolvedReady, Satisfied
<1>8. NeededOnly'
  BY <1>0, <1>1, NeededKept
<1>9. PassBlocked'
  <2>1. ASSUME ~state_requirements_changed, NEW c \in Names, PassedOver(c)'
        PROVE  Blocked(c) \/ \E n \in DOMAIN resolved : resolved[n] = c
    <3>1. CASE PassedOver(c)
      BY <1>0, <2>1, <3>1 DEF PassBlocked
    <3>2. CASE ~PassedOver(c)
      <4>1. PICK k \in DOMAIN per_state[from] : k < i + 1 /\ per_state[from][k] = c
        BY <1>1, <1>2, <2>1, <3>2 DEF PassedOver
      <4>2. k = i
        BY <1>3, <1>6, <3>2, <4>1 DEF PassedOver
      <4>3. QED BY <1>2, <1>3, <4>1, <4>2
    <3>3. QED BY <3>1, <3>2
  <2>2. \A c \in Names : Blocked(c)' = Blocked(c)
    BY <1>1 DEF Blocked, Known, Satisfied
  <2>3. QED BY <1>0, <1>1, <2>1, <2>2 DEF PassBlocked
<1>10. BootResult'
  BY <1>0, <1>1, InstallableKept DEF BootResult
<1>11. QED
  BY <1>0, <1>4, <1>5, <1>7, <1>8, <1>9, <1>10
  DEF Inv, DependenciesFirst, DepsInstalled, Resolving

\* It finds a component, which is deployed.
LEMMA FindsStep ==
  ASSUME Inv, Finds
  PROVE  Inv'
<1>0. /\ TypeOK /\ ListsAgree /\ DepsInstalled /\ StatesHonest /\ ResolvedReady
      /\ NeededOnly /\ PassBlocked /\ BootResult
      /\ pc = "scan" /\ i <= Len(per_state[from]) /\ pc' = pc /\ UNCHANGED fixed
  BY DEF Inv, Finds, Resolving, DependenciesFirst, DepsInstalled
<1>1. /\ UNCHANGED <<dependencies, flaw, apps, asked, progress, installing, from,
                     resolved, pc>>
      /\ i' = i + 1 /\ state_requirements_changed' = TRUE
  BY DEF Finds, fixed, boot
<1>2. PICK d \in dependencies[Scanned] : deploy(d)
  BY DEF Finds
<1>3. /\ i \in Nat /\ i \in DOMAIN per_state[from] /\ from \in NOT_INSTALLED..ERROR
      /\ from \in 0..5
      /\ per_state[from] \in Seq(Names) /\ Scanned \in Names /\ Known(Scanned)
  BY <1>0, AtScanned
<1>4. /\ d \in Names /\ ~Known(d)
      /\ uninstalled_contexts' \subseteq Names
      /\ current_state' \in [Names -> UNKNOWN..ERROR]
      /\ per_state' \in [NOT_INSTALLED..ERROR -> Seq(Names)]
      /\ \A e \in Names : e # d => current_state'[e] = current_state[e]
      /\ current_state'[d] = NOT_INSTALLED
      /\ \A s \in NOT_INSTALLED..ERROR : \A n \in DOMAIN per_state[s] :
           n \in DOMAIN per_state'[s] /\ per_state'[s][n] = per_state[s][n]
      /\ ListsAgree' /\ DepsInstalled' /\ StatesHonest'
  BY <1>0, <1>2, DeployStep
<1>5. TypeOK'
  BY <1>0, <1>1, <1>3, <1>4 DEF TypeOK
<1>6. \A e \in Names : (e \in Installed') <=> (e \in Installed)
  BY <1>4, States DEF Installed, Known
<1>7. ResolvedReady'
  <2>1. ASSUME NEW n \in DOMAIN resolved
        PROVE  /\ current_state'[resolved[n]] = from
               /\ \A e \in dependencies[resolved[n]] : current_state'[e] = INSTALLED
               /\ \E k \in DOMAIN per_state'[from] :
                    k < i + 1 /\ per_state'[from][k] = resolved[n]
    <3>1. PICK k \in DOMAIN per_state[from] : k < i /\ per_state[from][k] = resolved[n]
      BY <1>0 DEF ResolvedReady
    <3>2. k \in Int /\ k < i + 1 /\ resolved[n] \in Names
      BY <1>3, <3>1
    <3>3. k \in DOMAIN per_state'[from] /\ per_state'[from][k] = resolved[n]
      BY <1>3, <1>4, <3>1
    <3>4. current_state[resolved[n]] = from /\ resolved[n] # d
      <4>1. current_state[resolved[n]] = from
        BY <1>0 DEF ResolvedReady
      <4>2. from # UNKNOWN
        BY <1>3, States
      <4>3. QED BY <1>4, <4>1, <4>2 DEF Known
    <3>5. \A e \in dependencies[resolved[n]] : current_state[e] = INSTALLED /\ e \in Names
      BY <1>0, <3>2 DEF ResolvedReady, Satisfied, TypeOK
    <3>6. \A e \in dependencies[resolved[n]] : current_state'[e] = INSTALLED
      BY <1>6, <3>5 DEF Installed
    <3>7. QED BY <1>4, <3>2, <3>3, <3>4, <3>6
  <2>2. QED BY <1>0, <1>1, <2>1 DEF ResolvedReady, Satisfied
<1>8. NeededOnly'
  <2>1. ASSUME NEW S \in SUBSET Names, Installed' \subseteq S, Last(asked) \in S,
               \A c \in S : dependencies[c] \subseteq S,
               NEW c \in Names, current_state'[c] # UNKNOWN
        PROVE  c \in S
    <3>1. Installed \subseteq S
      BY <1>6, <2>1 DEF Installed
    <3>2. \A e \in Names : Known(e) => e \in S
      BY <1>0, <2>1, <3>1 DEF NeededOnly
    <3>3. CASE c = d
      BY <1>2, <1>3, <2>1, <3>2, <3>3
    <3>4. CASE c # d
      BY <1>4, <2>1, <3>2, <3>4 DEF Known
    <3>5. QED BY <3>3, <3>4
  <2>2. \A n \in DOMAIN asked : current_state'[asked[n]] # UNKNOWN
    <3>1. \A n \in DOMAIN asked : asked[n] \in Names /\ Known(asked[n])
      BY <1>0 DEF NeededOnly, TypeOK
    <3>2. QED BY <1>4, <3>1 DEF Known
  <2>3. QED BY <1>0, <1>1, <2>1, <2>2 DEF NeededOnly, Known, Last
<1>9. PassBlocked'
  BY <1>0, <1>1 DEF PassBlocked
<1>10. BootResult'
  <2>1. \A e \in Names : current_state'[e] = INSTALLED => e \in Installable
    BY <1>0, <1>6 DEF BootResult, Installed
  <2>2. QED BY <1>0, <1>1, <2>1, InstallableKept DEF BootResult
<1>11. QED
  BY <1>0, <1>4, <1>5, <1>7, <1>8, <1>9, <1>10
  DEF Inv, DependenciesFirst, DepsInstalled, Resolving

\* There is no such component: the application cannot be installed.
LEMMA NotFoundStep ==
  ASSUME Inv, NotFound
  PROVE  Inv'
<1>0. /\ TypeOK /\ ListsAgree /\ DepsInstalled /\ StatesHonest /\ ResolvedReady
      /\ NeededOnly /\ PassBlocked /\ BootResult
      /\ pc = "scan" /\ i <= Len(per_state[from]) /\ pc' = "failed"
      /\ UNCHANGED <<fixed, contexts>>
  BY DEF Inv, NotFound, Resolving, DependenciesFirst, DepsInstalled
<1>1. UNCHANGED <<dependencies, flaw, apps, asked, uninstalled_contexts, current_state,
                  per_state, state_requirements_changed, progress, installing, from, i,
                  resolved>>
  BY DEF NotFound, fixed, boot, contexts, loop
<1>2. PICK d \in dependencies[Scanned] : ~Known(d) /\ d \notin uninstalled_contexts
  BY DEF NotFound
<1>3. Scanned \in Names /\ Known(Scanned) /\ d \in Names
  BY <1>0, AtScanned
<1>4. flaw[d] # "no"
  BY <1>0, <1>2, <1>3 DEF StatesHonest
<1>5. Last(asked) \notin Installable
  <2>1. SUFFICES ASSUME Last(asked) \in Installable PROVE FALSE
    OBVIOUS
  <2>2. Scanned \in Installable
    BY <1>0, <1>3, <2>1, KnownInstallable
  <2>3. d \in Installable
    BY <1>0, <2>2, InstallableNeeds
  <2>4. QED BY <1>0, <1>4, <2>3, InstallableNeeds
<1>6. TypeOK'
  BY <1>0, <1>1 DEF TypeOK
<1>7. ListsAgree' /\ DepsInstalled' /\ StatesHonest'
  BY <1>0, ContextsKept
<1>8. ResolvedReady'
  BY <1>0, <1>1 DEF ResolvedReady, Satisfied
<1>9. PassBlocked'
  BY <1>0 DEF PassBlocked
<1>10. BootResult'
  BY <1>0, <1>1, <1>5, InstallableKept DEF BootResult
<1>11. QED
  BY <1>0, <1>6, <1>7, <1>8, <1>9, <1>10
  DEF Inv, DependenciesFirst, DepsInstalled, Resolving

\* All components of the state have been looked at.
LEMMA ScanStep ==
  ASSUME Inv, Scan
  PROVE  Inv'
<1>0. /\ TypeOK /\ ListsAgree /\ DepsInstalled /\ StatesHonest /\ ResolvedReady
      /\ NeededOnly /\ PassBlocked /\ BootResult
      /\ pc = "scan" /\ i > Len(per_state[from]) /\ pc' = "install"
      /\ progress' = (resolved # << >>) /\ UNCHANGED <<fixed, contexts>>
  BY DEF Inv, Scan, Resolving, DependenciesFirst, DepsInstalled
<1>1. UNCHANGED <<dependencies, flaw, apps, asked, uninstalled_contexts, current_state,
                  per_state, state_requirements_changed, installing, from, i, resolved>>
  BY DEF Scan, fixed, boot, contexts
<1>2. TypeOK'
  <2>1. progress' \in BOOLEAN
    BY <1>0
  <2>2. QED BY <1>0, <1>1, <2>1 DEF TypeOK
<1>3. ListsAgree' /\ DepsInstalled' /\ StatesHonest'
  BY <1>0, ContextsKept
<1>4. ResolvedReady'
  BY <1>0, <1>1 DEF ResolvedReady, Satisfied
<1>5. NeededOnly'
  BY <1>0, <1>1, NeededKept
<1>6. PassBlocked'
  <2>1. ASSUME ~state_requirements_changed, resolved = << >>, NEW c \in Names,
               current_state[c] \in NOT_INSTALLED..from
        PROVE  Blocked(c)
    <3>1. from \in 0..5 /\ from \in NOT_INSTALLED..ERROR /\ from # UNKNOWN
      <4>1. from \in 0..5
        BY <1>0, States DEF TypeOK
      <4>2. QED BY <4>1, States
    <3>2. DOMAIN resolved = {}
      BY <2>1
    <3>3. PassedOver(c)
      <4>1. CASE current_state[c] = from
        <5>1. PICK n \in DOMAIN per_state[from] : per_state[from][n] = c
          BY <1>0, <3>1, <4>1 DEF ListsAgree, Known
        <5>2. per_state[from] \in Seq(Names) /\ i \in Nat
          BY <1>0, <3>1 DEF TypeOK
        <5>3. n < i
          BY <1>0, <5>1, <5>2
        <5>4. QED BY <5>1, <5>3 DEF PassedOver
      <4>2. CASE current_state[c] # from
        BY <2>1, <3>1, <4>2, States DEF PassedOver
      <4>3. QED BY <4>1, <4>2
    <3>4. QED BY <1>0, <2>1, <3>2, <3>3 DEF PassBlocked
  <2>2. \A c \in Names : Blocked(c)' = Blocked(c)
    BY <1>1 DEF Blocked, Known, Satisfied
  <2>3. QED BY <1>0, <1>1, <2>1, <2>2 DEF PassBlocked
<1>7. BootResult'
  BY <1>0, <1>1, InstallableKept DEF BootResult
<1>8. QED
  BY <1>0, <1>2, <1>3, <1>4, <1>5, <1>6, <1>7
  DEF Inv, DependenciesFirst, DepsInstalled, Resolving

\* The next state, or the next pass: a pass that goes on has found nothing.
LEMMA NextStateStep ==
  ASSUME Inv, Next_state
  PROVE  Inv'
<1>0. /\ TypeOK /\ ListsAgree /\ DepsInstalled /\ StatesHonest /\ ResolvedReady
      /\ NeededOnly /\ PassBlocked /\ BootResult
      /\ pc = "install" /\ resolved = << >> /\ pc' = "scan" /\ i' = 1
      /\ UNCHANGED <<fixed, contexts>>
  BY DEF Inv, Next_state, Resolving, DependenciesFirst, DepsInstalled
<1>1. UNCHANGED <<dependencies, flaw, apps, asked, uninstalled_contexts, current_state,
                  per_state, installing, resolved>>
  BY DEF Next_state, fixed, boot, contexts
<1>2. \/ from' = NOT_INSTALLED /\ progress' = FALSE /\ state_requirements_changed' = FALSE
      \/ /\ ~progress /\ from + 1 < INSTALLED /\ from' = from + 1
         /\ UNCHANGED <<progress, state_requirements_changed>>
  BY DEF Next_state, PassEnds
<1>3. TypeOK'
  <2>1. from \in 0..5
    BY <1>0, States DEF TypeOK
  <2>2. from' \in NOT_INSTALLED..(INSTALLED - 1)
    BY <1>2, <2>1, States
  <2>3. progress' \in BOOLEAN /\ state_requirements_changed' \in BOOLEAN /\ 1 \in Nat \ {0}
    <3>1. progress \in BOOLEAN /\ state_requirements_changed \in BOOLEAN
      BY <1>0, Zenon DEF TypeOK
    <3>2. /\ progress' = FALSE \/ progress' = progress
          /\ \/ state_requirements_changed' = FALSE
             \/ state_requirements_changed' = state_requirements_changed
      BY <1>2, Zenon
    <3>3. 1 \in Nat \ {0}
      OBVIOUS
    <3>4. QED BY <3>1, <3>2, <3>3, Zenon
  <2>4. QED BY <1>0, <1>1, <2>2, <2>3 DEF TypeOK
<1>4. ListsAgree' /\ DepsInstalled' /\ StatesHonest'
  BY <1>0, ContextsKept
<1>5. DOMAIN resolved = {} /\ DOMAIN resolved' = {}
  BY <1>0, <1>1
<1>6. ResolvedReady'
  BY <1>5 DEF ResolvedReady
<1>7. NeededOnly'
  BY <1>0, <1>1, NeededKept
<1>8. PassBlocked'
  <2>0. from \in 0..5
    BY <1>0, States DEF TypeOK
  <2>1. progress' = FALSE
    BY <1>0, <1>2 DEF TypeOK
  <2>2. ASSUME NEW k \in DOMAIN per_state[from'], k < 1 PROVE FALSE
    <3>1. from' \in NOT_INSTALLED..ERROR
      BY <1>3, States DEF TypeOK
    <3>2. per_state[from'] \in Seq(Names)
      BY <1>0, <3>1 DEF TypeOK
    <3>3. QED BY <2>2, <3>2
  <2>3. ASSUME ~state_requirements_changed', NEW c \in Names,
               current_state[c] \in NOT_INSTALLED..(from' - 1)
        PROVE  Blocked(c)
    <3>1. CASE from' = NOT_INSTALLED
      BY <1>0, <2>3, <3>1, States DEF TypeOK
    <3>2. CASE from' = from + 1 /\ ~progress /\ UNCHANGED state_requirements_changed
      <4>1. current_state[c] \in NOT_INSTALLED..from
        BY <2>0, <2>3, <3>2, States
      <4>2. QED BY <1>0, <2>3, <3>2, <4>1 DEF PassBlocked
    <3>3. QED BY <1>2, <3>1, <3>2
  <2>4. \A c \in Names : PassedOver(c)' => current_state[c] \in NOT_INSTALLED..(from' - 1)
    BY <1>0, <1>1, <2>2 DEF PassedOver
  <2>5. \A c \in Names : Blocked(c)' = Blocked(c)
    BY <1>1 DEF Blocked, Known, Satisfied
  <2>6. QED BY <1>0, <2>1, <2>3, <2>4, <2>5 DEF PassBlocked
<1>9. BootResult'
  BY <1>0, <1>1, InstallableKept DEF BootResult
<1>10. QED
  BY <1>0, <1>3, <1>4, <1>6, <1>7, <1>8, <1>9
  DEF Inv, DependenciesFirst, DepsInstalled, Resolving

\* resolve returns: what is known and not installed then is blocked for good.
LEMMA ResolvedStep ==
  ASSUME Inv, Resolved
  PROVE  Inv'
<1>0. /\ TypeOK /\ ListsAgree /\ DepsInstalled /\ StatesHonest /\ ResolvedReady
      /\ NeededOnly /\ PassBlocked /\ BootResult
      /\ pc = "install" /\ resolved = << >> /\ UNCHANGED <<fixed, contexts>>
  BY DEF Inv, Resolved, Resolving, DependenciesFirst, DepsInstalled
<1>1. /\ UNCHANGED <<dependencies, flaw, apps, asked, uninstalled_contexts,
                     current_state, per_state, state_requirements_changed, progress,
                     from, i, resolved>>
      /\ installing' = FALSE
  BY DEF Resolved, fixed, boot, contexts
<1>2. /\ ~progress /\ from + 1 = INSTALLED /\ ~state_requirements_changed
      /\ pc' = IF current_state[Last(asked)] = INSTALLED THEN "boot" ELSE "failed"
  BY DEF Resolved
<1>3. TypeOK'
  BY <1>0, <1>1, <1>2 DEF TypeOK
<1>4. ListsAgree' /\ DepsInstalled' /\ StatesHonest'
  BY <1>0, ContextsKept
<1>5. DOMAIN resolved = {} /\ DOMAIN resolved' = {}
  BY <1>0, <1>1
<1>6. ResolvedReady'
  BY <1>5 DEF ResolvedReady
<1>7. Last(asked) \in Names /\ Len(asked) \in DOMAIN asked /\ Known(Last(asked))
  <2>1. asked \in Seq(Names) /\ asked # << >>
    BY <1>0 DEF TypeOK, NeededOnly
  <2>2. Len(asked) \in DOMAIN asked /\ Last(asked) \in Names
    BY <2>1 DEF Last
  <2>3. Known(asked[Len(asked)])
    BY <1>0, <2>2 DEF NeededOnly
  <2>4. QED BY <2>2, <2>3 DEF Last
<1>8. PassBlocked'
  BY <1>2 DEF PassBlocked
<1>9. CASE current_state[Last(asked)] = INSTALLED
  <2>1. Installed \in SUBSET Names /\ Last(asked) \in Installed
    BY <1>7, <1>9 DEF Installed
  <2>2. \A c \in Installed : dependencies[c] \subseteq Installed
    <3>1. INSTALLED > NOT_INSTALLED
      BY States
    <3>2. QED BY <1>0, <3>1 DEF Installed, DepsInstalled, TypeOK
  <2>3. \A c \in Names : Known(c) => c \in Installed
    BY <1>0, <2>1, <2>2 DEF NeededOnly
  <2>4. \A n \in DOMAIN asked : Known(asked[n])
    BY <1>0 DEF NeededOnly
  <2>5. AllInstalled'
    BY <1>1, <2>3, <2>4 DEF AllInstalled, Installed, Known
  <2>6. BootResult'
    BY <1>0, <1>1, <1>2, <1>9, InstallableKept DEF BootResult
  <2>7. QED
    BY <1>0, <1>1, <1>2, <1>3, <1>4, <1>6, <1>8, <1>9, <2>5, <2>6
    DEF Inv, DependenciesFirst, DepsInstalled, Resolving
<1>10. CASE current_state[Last(asked)] # INSTALLED
  <2> DEFINE S == {c \in Names : ~Known(c) \/ current_state[c] = INSTALLED}
  <2>1. ASSUME NEW c \in Names, flaw[c] = "no", dependencies[c] \subseteq S
        PROVE  c \in S
    <3>1. SUFFICES ASSUME Known(c), current_state[c] # INSTALLED PROVE FALSE
      BY <2>1
    <3>2. current_state[c] # ERROR
      BY <1>0, <2>1 DEF StatesHonest
    <3>3. current_state[c] \in NOT_INSTALLED..from
      <4>1. current_state[c] \in -1..7 /\ current_state[c] \notin {-1, 6, 7} /\ from = 5
        BY <1>0, <1>2, <2>1, <3>1, <3>2, States DEF TypeOK, Known
      <4>2. QED BY <4>1, States
    <3>4. Blocked(c)
      BY <1>0, <1>2, <2>1, <3>3 DEF PassBlocked
    <3>5. QED BY <2>1, <3>4 DEF Blocked, Satisfied
  <2>2. Closed(S)
    BY <2>1 DEF Closed
  <2>3. Last(asked) \notin S
    BY <1>7, <1>10
  <2>4. Last(asked) \notin Installable
    BY <2>2, <2>3 DEF Installable
  <2>5. BootResult'
    BY <1>0, <1>1, <1>2, <1>10, <2>4, InstallableKept DEF BootResult
  <2>6. QED
    BY <1>0, <1>2, <1>3, <1>4, <1>6, <1>8, <1>10, <2>5
    DEF Inv, DependenciesFirst, DepsInstalled, Resolving
<1>11. QED BY <1>9, <1>10

\* Between two applications: a known one is passed over, an unknown one is
\* deployed, or there is none.
LEMMA BootStep ==
  ASSUME Inv, Booted \/ AlreadyKnown \/ InstallApp \/ AppNotFound
  PROVE  Inv'
<1>0. /\ TypeOK /\ ListsAgree /\ DepsInstalled /\ StatesHonest /\ ResolvedReady
      /\ AllInstalled /\ resolved = << >> /\ PassBlocked /\ BootResult
      /\ pc = "boot" /\ DOMAIN resolved = {} /\ UNCHANGED <<dependencies, flaw>>
  <2>1. pc = "boot" /\ UNCHANGED <<dependencies, flaw>>
    BY DEF Booted, AlreadyKnown, InstallApp, AppNotFound, fixed
  <2>2. QED BY <2>1 DEF Inv, Resolving, DependenciesFirst, DepsInstalled
<1>1. CASE Booted
  <2>1. /\ UNCHANGED <<apps, asked, uninstalled_contexts, current_state, per_state,
                       state_requirements_changed, progress, installing, from, i,
                       resolved>>
        /\ UNCHANGED <<fixed, contexts>> /\ pc' = "booted"
    BY <1>1 DEF Booted, fixed, boot, contexts, loop
  <2>2. TypeOK' /\ ResolvedReady' /\ PassBlocked'
    BY <1>0, <2>1 DEF TypeOK, ResolvedReady, PassBlocked
  <2>3. AllInstalled'
    BY <1>0, <2>1, NeededKept
  <2>4. \A n \in DOMAIN asked : current_state[asked[n]] = INSTALLED
    BY <1>0 DEF AllInstalled, Installed, TypeOK
  <2>5. BootResult'
    BY <1>0, <2>1, <2>4, InstallableKept DEF BootResult
  <2>6. QED
    BY <1>0, <2>1, <2>2, <2>3, <2>5, ContextsKept
    DEF Inv, DependenciesFirst, DepsInstalled, Resolving
<1>2. ASSUME apps # << >>, asked' = Append(asked, Head(apps)), apps' = Tail(apps)
      PROVE  /\ Head(apps) \in Names /\ apps' \in Seq(Names) /\ asked' \in Seq(Names)
             /\ asked' # << >> /\ Last(asked') = Head(apps)
             /\ \A n \in DOMAIN asked' : asked'[n] = Head(apps) \/ Known(asked'[n])
  <2>1. Head(apps) \in Names /\ Tail(apps) \in Seq(Names)
    BY <1>0, <1>2, AfterTail DEF TypeOK
  <2> DEFINE h == Head(apps)
             a == Append(asked, h)
  <2> HIDE DEF h
  <2>2. /\ asked \in Seq(Names) /\ a \in Seq(Names) /\ DOMAIN asked = 1..Len(asked)
        /\ Len(asked) \in Nat /\ Len(a) = Len(asked) + 1
        /\ DOMAIN a = 1..(Len(asked) + 1) /\ a[Len(asked) + 1] = h /\ Last(a) = h
        /\ \A k \in 1..Len(asked) : a[k] = asked[k]
    <3>1. asked \in Seq(Names) /\ h \in Names
      BY <1>0, <2>1 DEF TypeOK, h
    <3>2. QED BY <3>1, AfterAppend
  <2> HIDE DEF a
  <2>3. a # << >>
    BY <2>2
  <2>4. ASSUME NEW n \in DOMAIN a PROVE a[n] = h \/ Known(a[n])
    <3>1. n = Len(asked) + 1 \/ n \in DOMAIN asked
      BY <2>2
    <3>2. QED BY <1>0, <2>2, <3>1 DEF AllInstalled
  <2>5. QED BY <1>2, <2>1, <2>2, <2>3, <2>4 DEF a, h
<1>3. CASE AlreadyKnown
  <2>1. /\ UNCHANGED <<uninstalled_contexts, current_state, per_state,
                       state_requirements_changed, progress, installing, from, i,
                       resolved, pc>>
        /\ UNCHANGED <<fixed, contexts>> /\ Known(Head(apps))
        /\ apps # << >> /\ asked' = Append(asked, Head(apps)) /\ apps' = Tail(apps)
    BY <1>3 DEF AlreadyKnown, fixed, contexts, loop
  <2>2. apps' \in Seq(Names) /\ asked' \in Seq(Names)
        /\ \A n \in DOMAIN asked' : Known(asked'[n])
    BY <1>2, <2>1
  <2>3. TypeOK'
    BY <1>0, <2>1, <2>2 DEF TypeOK
  <2>4. ResolvedReady' /\ PassBlocked'
    BY <1>0, <2>1 DEF ResolvedReady, PassBlocked
  <2>5. AllInstalled'
    BY <1>0, <2>1, <2>2 DEF AllInstalled, Installed, Known
  <2>6. BootResult'
    BY <1>0, <2>1, InstallableKept DEF BootResult
  <2>7. QED
    BY <1>0, <2>1, <2>3, <2>4, <2>5, <2>6, ContextsKept
    DEF Inv, DependenciesFirst, DepsInstalled, Resolving
<1>4. CASE InstallApp
  <2> DEFINE h == Head(apps)
  <2>1. /\ apps # << >> /\ asked' = Append(asked, h) /\ apps' = Tail(apps)
        /\ deploy(h) /\ UNCHANGED fixed
        /\ installing' = TRUE /\ state_requirements_changed' = FALSE
        /\ progress' = FALSE /\ from' = NOT_INSTALLED /\ i' = 1
        /\ resolved' = << >> /\ pc' = "scan"
    BY <1>4 DEF InstallApp
  <2>2. /\ h \in Names /\ apps' \in Seq(Names) /\ asked' \in Seq(Names)
        /\ asked' # << >> /\ Last(asked') = h
        /\ \A n \in DOMAIN asked' : asked'[n] = h \/ Known(asked'[n])
    BY <1>2, <2>1
  <2> HIDE DEF h
  <2>3. /\ ~Known(h)
        /\ uninstalled_contexts' \subseteq Names
        /\ current_state' \in [Names -> UNKNOWN..ERROR]
        /\ per_state' \in [NOT_INSTALLED..ERROR -> Seq(Names)]
        /\ \A e \in Names : e # h => current_state'[e] = current_state[e]
        /\ current_state'[h] = NOT_INSTALLED
        /\ ListsAgree' /\ DepsInstalled' /\ StatesHonest'
    BY <1>0, <2>1, DeployStep
  <2>4. TypeOK'
    <3>1. NOT_INSTALLED \in NOT_INSTALLED..(INSTALLED - 1) /\ 1 \in Nat \ {0}
          /\ << >> \in Seq(Names)
      BY States
    <3>2. QED BY <1>0, <2>1, <2>2, <2>3, <3>1 DEF TypeOK
  <2>5. \A e \in Names : e \in Installed' <=> e \in Installed
    BY <2>3, States DEF Installed, Known
  <2>6. DOMAIN resolved' = {}
    BY <2>1
  <2>7. ResolvedReady'
    BY <2>6 DEF ResolvedReady
  <2>8. NeededOnly'
    <3>1. ASSUME NEW S \in SUBSET Names, Installed' \subseteq S, h \in S,
                 NEW c \in Names, current_state'[c] # UNKNOWN
          PROVE  c \in S
      <4>1. CASE c = h
        BY <3>1, <4>1
      <4>2. CASE c # h
        <5>1. c \in Installed
          BY <1>0, <2>3, <3>1, <4>2 DEF AllInstalled, Known
        <5>2. QED BY <2>5, <3>1, <5>1
      <4>3. QED BY <4>1, <4>2
    <3>2. ASSUME NEW n \in DOMAIN asked' PROVE current_state'[asked'[n]] # UNKNOWN
      <4>1. asked'[n] \in Names
        BY <2>2, <3>2
      <4>2. asked'[n] = h \/ Known(asked'[n])
        BY <2>2, <3>2
      <4>3. QED BY <2>3, <4>1, <4>2, States DEF Known
    <3>3. QED BY <2>2, <3>1, <3>2 DEF NeededOnly, Known
  <2>9. PassBlocked'
    <3>1. ASSUME NEW c \in Names PROVE ~(PassedOver(c)')
      <4>1. NOT_INSTALLED \in NOT_INSTALLED..ERROR
        BY States
      <4>2. per_state'[NOT_INSTALLED] \in Seq(Names)
        BY <2>3, <4>1
      <4>3. \A k \in DOMAIN per_state'[NOT_INSTALLED] : ~(k < 1)
        BY <4>2
      <4>4. current_state'[c] \notin NOT_INSTALLED..(NOT_INSTALLED - 1)
        BY States
      <4>5. QED BY <2>1, <4>3, <4>4 DEF PassedOver
    <3>2. QED BY <2>1, <3>1 DEF PassBlocked
  <2>10. BootResult'
    <3>1. \A e \in Names : current_state'[e] = INSTALLED => e \in Installable
      BY <1>0, <2>5 DEF BootResult, Installed
    <3>2. QED BY <1>0, <2>1, <3>1, InstallableKept DEF BootResult
  <2>11. QED
    BY <2>1, <2>3, <2>4, <2>7, <2>8, <2>9, <2>10
    DEF Inv, DependenciesFirst, DepsInstalled, Resolving
<1>5. CASE AppNotFound
  <2>1. /\ UNCHANGED <<uninstalled_contexts, current_state, per_state,
                       state_requirements_changed, progress, installing, from, i,
                       resolved>>
        /\ UNCHANGED <<fixed, contexts>> /\ pc' = "failed"
        /\ ~Known(Head(apps)) /\ Head(apps) \notin uninstalled_contexts
        /\ apps # << >> /\ asked' = Append(asked, Head(apps)) /\ apps' = Tail(apps)
    BY <1>5 DEF AppNotFound, fixed, contexts, loop
  <2>2. /\ Head(apps) \in Names /\ apps' \in Seq(Names) /\ asked' \in Seq(Names)
        /\ Last(asked') = Head(apps)
    BY <1>2, <2>1
  <2>3. Head(apps) \notin Installable
    <3>1. flaw[Head(apps)] # "no"
      BY <1>0, <2>1, <2>2 DEF StatesHonest
    <3>2. QED BY <2>2, <3>1, FlawedNot
  <2>4. TypeOK'
    BY <1>0, <2>1, <2>2 DEF TypeOK
  <2>5. ResolvedReady' /\ PassBlocked'
    BY <1>0, <2>1 DEF ResolvedReady, PassBlocked, Satisfied
  <2>6. BootResult'
    BY <1>0, <2>1, <2>2, <2>3, InstallableKept DEF BootResult
  <2>7. QED
    BY <1>0, <2>1, <2>4, <2>5, <2>6, ContextsKept
    DEF Inv, DependenciesFirst, DepsInstalled, Resolving
<1>6. QED BY <1>1, <1>3, <1>4, <1>5

-----------------------------------------------------------------------------
(* Theorems                                                                *)

\* Inv holds initially and every step keeps it.
THEOREM KernelInvariant == Spec => []Inv
<1>1. ASSUME Init PROVE Inv
  <2>1. /\ dependencies \in [Names -> SUBSET Names]
        /\ flaw \in [Names -> {"no", "fails", "missing"}] /\ apps \in Seq(Names)
    BY <1>1, KernelAssumption DEF Init
  <2>2. /\ asked = << >> /\ resolved = << >> /\ DOMAIN resolved = {} /\ DOMAIN asked = {}
        /\ << >> \in Seq(Names)
        /\ uninstalled_contexts = {c \in Names : flaw[c] # "missing"}
        /\ current_state = [c \in Names |-> UNKNOWN]
        /\ per_state = [s \in NOT_INSTALLED..ERROR |-> << >>]
        /\ state_requirements_changed = FALSE /\ progress = FALSE /\ installing = FALSE
        /\ pc = "boot" /\ from = NOT_INSTALLED /\ i = 1
    BY <1>1 DEF Init
  <2>3. \A c \in Names : ~Known(c) /\ current_state[c] = UNKNOWN
    BY <2>2 DEF Known
  <2>4. TypeOK
    <3>1. /\ current_state \in [Names -> UNKNOWN..ERROR]
          /\ from \in NOT_INSTALLED..(INSTALLED - 1) /\ i \in Nat \ {0}
      BY <2>2, States
    <3>2. per_state \in [NOT_INSTALLED..ERROR -> Seq(Names)]
      BY <2>2
    <3>3. QED BY <2>1, <2>2, <3>1, <3>2 DEF TypeOK
  <2>5. ListsAgree
    <3>1. \A s \in NOT_INSTALLED..ERROR : DOMAIN per_state[s] = {}
      BY <2>2
    <3>2. QED BY <2>3, <3>1 DEF ListsAgree
  <2>6. DepsInstalled
    BY <2>3, States DEF DepsInstalled
  <2>7. StatesHonest
    BY <2>2, <2>3, States DEF StatesHonest
  <2>8. ResolvedReady /\ PassBlocked
    BY <2>2 DEF ResolvedReady, PassBlocked
  <2>9. AllInstalled
    BY <2>2, <2>3 DEF AllInstalled
  <2>10. BootResult
    BY <2>2, <2>3, States DEF BootResult
  <2>11. QED
    BY <2>2, <2>4, <2>5, <2>6, <2>7, <2>8, <2>9, <2>10
    DEF Inv, DependenciesFirst, DepsInstalled, Resolving
<1>2. Inv /\ [Next]_vars => Inv'
  <2>1. ASSUME Inv, Next PROVE Inv'
    BY <2>1, BootStep, AllSatisfiedStep, WaitsStep, FindsStep, NotFoundStep, ScanStep,
       InstallStep, NextStateStep, ResolvedStep DEF Next
  <2>2. ASSUME Inv, UNCHANGED vars PROVE Inv'
    <3>1. UNCHANGED <<dependencies, flaw, apps, asked, uninstalled_contexts,
                      current_state, per_state, state_requirements_changed, progress,
                      installing, from, i, resolved, pc>>
      BY <2>2 DEF vars, fixed, boot, contexts, loop
    <3>2. TypeOK' = TypeOK
      BY <3>1 DEF TypeOK
    <3>3. /\ ListsAgree' = ListsAgree /\ DepsInstalled' = DepsInstalled
          /\ StatesHonest' = StatesHonest /\ ResolvedReady' = ResolvedReady
      BY <3>1 DEF ListsAgree, DepsInstalled, StatesHonest, ResolvedReady, Known, Satisfied
    <3>4. NeededOnly' = NeededOnly /\ AllInstalled' = AllInstalled
      BY <3>1 DEF NeededOnly, AllInstalled, Known, Installed, Last
    <3>5. PassBlocked' = PassBlocked
      BY <3>1 DEF PassBlocked, PassedOver, Blocked, Known, Satisfied
    <3>6. BootResult' = BootResult
      BY <3>1 DEF BootResult, Installable, Closed, Last
    <3>7. QED
      BY <2>2, <3>1, <3>2, <3>3, <3>4, <3>5, <3>6
      DEF Inv, DependenciesFirst, DepsInstalled, Resolving
  <2>3. QED BY <2>1, <2>2
<1>3. QED BY <1>1, <1>2, PTL DEF Spec

\* No code of a component runs before what it depends on is installed, and each
\* component is once in the list of its state, whatever the dependencies are and
\* however many components are found while others are being installed.
THEOREM DependenciesAlwaysFirst == Spec => []DependenciesFirst
<1>1. Inv => DependenciesFirst
  BY DEF Inv
<1>2. QED BY <1>1, KernelInvariant, PTL

\* resolve gives up on an application only if the application cannot be
\* installed, and start-up ends well only with every application installed.
THEOREM BootSucceedsIffItCan == Spec => []BootResult
<1>1. Inv => BootResult
  BY DEF Inv
<1>2. QED BY <1>1, KernelInvariant, PTL
=============================================================================
