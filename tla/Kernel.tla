------------------------------- MODULE Kernel -------------------------------
(***************************************************************************)
(* The kernel's installation of components at start-up: finish_booting     *)
(* asks for the applications in turn, and Kernel::resolve moves every      *)
(* component that is known from state to state, once what it depends on is *)
(* installed, finding on the way the components that others depend on.     *)
(*                                                                         *)
(* The built-in components are installed already (so per_state has a list  *)
(* for every state); the DSO deployer has the others.                      *)
(***************************************************************************)
EXTENDS Integers, Sequences, FiniteSets, SequencesExt

CONSTANTS
  Names,      \* names of components
  AppLists,   \* the lists of applications that may be asked for
  Graphs,     \* the dependencies there may be: functions from Names to sets
  Flaws       \* what may be wrong: functions from Names to {"no", "fails", "missing"}

ASSUME KernelAssumption ==
  /\ IsFiniteSet(Names)
  /\ AppLists \subseteq Seq(Names)
  /\ Graphs \subseteq [Names -> SUBSET Names]
  /\ Flaws \subseteq [Names -> {"no", "fails", "missing"}]

\* Component_state; UNKNOWN is that of a component that is not in contexts.
UNKNOWN == -1
NOT_INSTALLED == 0
LOADED == 2
INSTALLED == 6
ERROR == 7

VARIABLES
  dependencies, flaw,   \* fixed from the beginning
  apps,                 \* the applications still to be asked for
  asked,                \* and those that have been
  uninstalled_contexts, \* of the deployer
  current_state,
  per_state,            \* sequences of components
  state_requirements_changed, progress, installing,
  pc,        \* "boot"; in resolve "scan" or "install"; "booted" or "failed"
  from,      \* the state from which components are being moved
  i,         \* the index in per_state[from] of the component to look at
  resolved   \* those whose dependencies were found to be resolved

fixed == <<dependencies, flaw>>
boot == <<apps, asked>>
contexts == <<uninstalled_contexts, current_state, per_state>>
loop == <<progress, installing, from, i, resolved>>
vars == <<fixed, boot, contexts, state_requirements_changed, loop, pc>>

Known(c) == current_state[c] # UNKNOWN

-----------------------------------------------------------------------------
(* Finding components                                                      *)

\* Kernel::install of a name the deployer has: Deployer::deploy.
deploy(c) ==
  /\ c \in uninstalled_contexts
  /\ uninstalled_contexts' = uninstalled_contexts \ {c}
  /\ current_state' = [current_state EXCEPT ![c] = NOT_INSTALLED]
  /\ per_state' = [per_state EXCEPT ![NOT_INSTALLED] = Append(@, c)]

\* finish_booting has installed all applications.
Booted ==
  /\ pc = "boot" /\ apps = << >>
  /\ pc' = "booted"
  /\ UNCHANGED <<fixed, boot, contexts, state_requirements_changed, loop>>

\* The next application is known already, whatever its state.
AlreadyKnown ==
  /\ pc = "boot" /\ apps # << >> /\ Known(Head(apps))
  /\ asked' = Append(asked, Head(apps)) /\ apps' = Tail(apps)
  /\ UNCHANGED <<fixed, contexts, state_requirements_changed, loop, pc>>

\* It is deployed, and change calls resolve.
InstallApp ==
  /\ pc = "boot" /\ apps # << >>
  /\ deploy(Head(apps))
  /\ asked' = Append(asked, Head(apps)) /\ apps' = Tail(apps)
  /\ installing' = TRUE
  /\ state_requirements_changed' = FALSE /\ progress' = FALSE
  /\ from' = NOT_INSTALLED /\ i' = 1 /\ resolved' = << >>
  /\ pc' = "scan"
  /\ UNCHANGED fixed

\* No deployer has it: "description not found".
AppNotFound ==
  /\ pc = "boot" /\ apps # << >>
  /\ ~Known(Head(apps)) /\ Head(apps) \notin uninstalled_contexts
  /\ asked' = Append(asked, Head(apps)) /\ apps' = Tail(apps)
  /\ pc' = "failed"
  /\ UNCHANGED <<fixed, contexts, state_requirements_changed, loop>>

-----------------------------------------------------------------------------
(* Kernel::resolve                                                         *)

Scanned == per_state[from][i]

\* Faulty Name_dependency::resolve: a component that is known will do.
Satisfied_Known(d) == Known(d)

\* Name_dependency::resolve returns true.
Satisfied(d) == current_state[d] = INSTALLED

\* Component_context::resolve returns true.
AllSatisfied ==
  /\ pc = "scan" /\ i <= Len(per_state[from])
  /\ \A d \in dependencies[Scanned] : Satisfied(d)
  /\ resolved' = Append(resolved, Scanned)
  /\ i' = i + 1
  /\ UNCHANGED <<fixed, boot, contexts, state_requirements_changed, progress,
                 installing, from, pc>>

\* It returns false at the first dependency that is not satisfied.
Waits ==
  /\ pc = "scan" /\ i <= Len(per_state[from])
  /\ \E d \in dependencies[Scanned] : Known(d) /\ ~Satisfied(d)
  /\ i' = i + 1
  /\ UNCHANGED <<fixed, boot, contexts, state_requirements_changed, progress,
                 installing, from, resolved, pc>>

\* The first one is not known: it is installed, or will be when this call of
\* resolve gets there.
Finds ==
  /\ pc = "scan" /\ i <= Len(per_state[from])
  /\ \E d \in dependencies[Scanned] : deploy(d)
  /\ state_requirements_changed' = TRUE
  /\ i' = i + 1
  /\ UNCHANGED <<fixed, boot, progress, installing, from, resolved, pc>>

\* Or there is no such component: the exception ends the program.
NotFound ==
  /\ pc = "scan" /\ i <= Len(per_state[from])
  /\ \E d \in dependencies[Scanned] : ~Known(d) /\ d \notin uninstalled_contexts
  /\ pc' = "failed"
  /\ UNCHANGED <<fixed, boot, contexts, state_requirements_changed, loop>>

\* All components of the state have been looked at.
Scan ==
  /\ pc = "scan" /\ i > Len(per_state[from])
  /\ pc' = "install"
  /\ progress' = (resolved # << >>)
  /\ UNCHANGED <<fixed, boot, contexts, state_requirements_changed, installing, from,
                 i, resolved>>

\* Component_context::install of the next one that is resolved: it reaches the
\* next state, unless it fails.
Install ==
  /\ pc = "install" /\ resolved # << >>
  /\ LET c == Head(resolved) IN
       \E to \in {from + 1} \cup
           (IF flaw[c] = "fails" /\ from + 1 >= LOADED THEN {ERROR} ELSE {}) :
         /\ flaw[c] = "fails" => to # INSTALLED
         /\ current_state' = [current_state EXCEPT ![c] = to]
         /\ per_state' = [per_state EXCEPT
              ![from] = RemoveFirst(@, c), ![to] = Append(@, c)]
  /\ resolved' = Tail(resolved)
  /\ UNCHANGED <<fixed, boot, uninstalled_contexts, state_requirements_changed,
                 progress, installing, from, i, pc>>

\* Faulty passes: state_requirements_changed is never reset.
PassEnds_NoReset ==
  /\ progress \/ (from + 1 = INSTALLED /\ state_requirements_changed)
  /\ from' = NOT_INSTALLED
  /\ progress' = FALSE /\ UNCHANGED state_requirements_changed

\* After progress, or when new components were found, all begins again.
PassEnds ==
  /\ progress \/ (from + 1 = INSTALLED /\ state_requirements_changed)
  /\ from' = NOT_INSTALLED
  /\ progress' = FALSE /\ state_requirements_changed' = FALSE

\* The next state, or the next pass over the states.
Next_state ==
  /\ pc = "install" /\ resolved = << >>
  /\ \/ PassEnds
     \/ /\ ~progress /\ from + 1 < INSTALLED
        /\ from' = from + 1
        /\ UNCHANGED <<progress, state_requirements_changed>>
  /\ i' = 1
  /\ pc' = "scan"
  /\ UNCHANGED <<fixed, boot, contexts, installing, resolved>>

\* Faulty end of change: the state reached is not looked at.
Resolved_Unchecked ==
  /\ pc = "install" /\ resolved = << >>
  /\ ~progress /\ from + 1 = INSTALLED /\ ~state_requirements_changed
  /\ installing' = FALSE
  /\ pc' = "boot"
  /\ UNCHANGED <<fixed, boot, contexts, state_requirements_changed, progress, from, i,
                 resolved>>

\* resolve returns to change: "Cannot change the state", if the application is
\* not installed.
Resolved ==
  /\ pc = "install" /\ resolved = << >>
  /\ ~progress /\ from + 1 = INSTALLED /\ ~state_requirements_changed
  /\ installing' = FALSE
  /\ pc' = IF current_state[Last(asked)] = INSTALLED THEN "boot" ELSE "failed"
  /\ UNCHANGED <<fixed, boot, contexts, state_requirements_changed, progress, from, i,
                 resolved>>

-----------------------------------------------------------------------------
Init ==
  /\ dependencies \in Graphs /\ flaw \in Flaws /\ apps \in AppLists
  /\ asked = << >>
  /\ uninstalled_contexts = {c \in Names : flaw[c] # "missing"}
  /\ current_state = [c \in Names |-> UNKNOWN]
  /\ per_state = [s \in NOT_INSTALLED..ERROR |-> << >>]
  /\ state_requirements_changed = FALSE /\ progress = FALSE /\ installing = FALSE
  /\ pc = "boot" /\ from = NOT_INSTALLED /\ i = 1 /\ resolved = << >>

Next ==
  \/ Booted \/ AlreadyKnown \/ InstallApp \/ AppNotFound
  \/ AllSatisfied \/ Waits \/ Finds \/ NotFound
  \/ Scan \/ Install \/ Next_state \/ Resolved

\* finish_booting's thread runs.
Spec == Init /\ [][Next]_vars /\ WF_vars(Next)

-----------------------------------------------------------------------------
(* Properties                                                              *)

\* A set that has each component without a flaw whose dependencies it has.
Closed(S) == \A c \in Names : flaw[c] = "no" /\ dependencies[c] \subseteq S => c \in S

\* The components that can be installed: the least such set.
Installable == {c \in Names : \A S \in SUBSET Names : Closed(S) => c \in S}

\* The type of every variable.
TypeOK ==
  /\ dependencies \in [Names -> SUBSET Names]
  /\ flaw \in [Names -> {"no", "fails", "missing"}]
  /\ apps \in Seq(Names) /\ asked \in Seq(Names)
  /\ uninstalled_contexts \subseteq Names
  /\ current_state \in [Names -> UNKNOWN..ERROR]
  /\ per_state \in [NOT_INSTALLED..ERROR -> Seq(Names)]
  /\ {state_requirements_changed, progress, installing} \subseteq BOOLEAN
  /\ from \in NOT_INSTALLED..(INSTALLED - 1) /\ i \in Nat \ {0} /\ resolved \in Seq(Names)
  /\ pc \in {"boot", "scan", "install", "booted", "failed"}

\* Each component is in the list of its state, once, and in no other.
ListsAgree ==
  /\ \A s \in NOT_INSTALLED..ERROR :
       /\ \A n \in DOMAIN per_state[s] : current_state[per_state[s][n]] = s
       /\ \A m, n \in DOMAIN per_state[s] : per_state[s][m] = per_state[s][n] => m = n
  /\ \A c \in Names : Known(c) =>
       \E n \in DOMAIN per_state[current_state[c]] : per_state[current_state[c]][n] = c

\* No code of a component runs before everything it depends on is installed,
\* and the lists the kernel keeps while components come in agree with their
\* states.
DependenciesFirst ==
  /\ TypeOK /\ ListsAgree
  /\ \A c \in Names : current_state[c] > NOT_INSTALLED =>
       \A d \in dependencies[c] : current_state[d] = INSTALLED

\* The start-up succeeds if and only if it can: when it has, every application
\* asked for is installed, also those that were known and passed over; when it
\* has not, some application cannot be installed, because something it needs,
\* directly or not, fails, is missing, or is part of a circle.
BootResult ==
  /\ pc = "booted" => \A n \in DOMAIN asked : current_state[asked[n]] = INSTALLED
  /\ pc = "failed" => Last(asked) \notin Installable
  /\ \A c \in Names : current_state[c] = INSTALLED => c \in Installable

\* The start-up comes to an end: circles do not keep resolve from ending.
BootEnds == <>(pc \in {"booted", "failed"})
=============================================================================
