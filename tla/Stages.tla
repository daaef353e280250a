------------------------------- MODULE Stages -------------------------------
(***************************************************************************)
(* IfState._stages (libifstate/__init__.py): the order in which an apply   *)
(* configures the links.  The dependencies of the links are resolved into  *)
(* a sequence of stages; _apply goes through them one after the other.     *)
(***************************************************************************)
EXTENDS Naturals, Sequences, FiniteSets

CONSTANTS
  Item,   \* LinkDependency: interface name and network namespace
  Modes   \* values of continue_on_circualar: `apply' passes TRUE, `check' FALSE

ASSUME ModesAssumption == Modes \subseteq BOOLEAN

VARIABLES
  deps,      \* the dependencies of every link of the configuration
  continue,  \* the argument of _stages
  d,         \* the links still to be resolved and what each still waits for
  r,         \* the stages found so far
  pc         \* "resolve", "return" or "raise"

vars == <<deps, continue, d, r, pc>>

\* Items that are keys of a dictionary of dependencies need not be the only
\* ones: a link may depend on one that is not configured.
Dictionary == UNION {[K -> SUBSET Item] : K \in SUBSET Item}

Init ==
  /\ deps \in Dictionary
  /\ continue \in Modes
  /\ d = deps
  /\ r = <<>>
  /\ pc = "resolve"

Values(f) == UNION {f[k] : k \in DOMAIN f}

\* (mutant of Ready: waiting for items that are not keys does not count)
ReadyEarly(f) == (Values(f) \ DOMAIN f) \cup {k \in DOMAIN f : f[k] \cap DOMAIN f = {}}

\* items nothing has to be done for first: those that are not keys and those
\* that wait for nothing
Ready(f) == (Values(f) \ DOMAIN f) \cup {k \in DOMAIN f : f[k] = {}}

\* (mutant of Remaining: keys that wait for nothing more are dropped at once)
RemainingWaiting(f, t) == [k \in {x \in DOMAIN f : f[x] \ t # {}} |-> f[k] \ t]

Remaining(f, t) == [k \in {x \in DOMAIN f : f[x] # {}} |-> f[k] \ t]

\* (mutant of Stage: a stage may be empty)
StageUnchecked ==
  /\ pc = "resolve"
  /\ DOMAIN d # {}
  /\ Len(r) <= Cardinality(Item)
  /\ r' = Append(r, Ready(d))
  /\ d' = Remaining(d, Ready(d))
  /\ UNCHANGED <<deps, continue, pc>>

Stage ==
  /\ pc = "resolve"
  /\ DOMAIN d # {}
  /\ Ready(d) # {}
  /\ r' = Append(r, Ready(d))
  /\ d' = Remaining(d, Ready(d))
  /\ UNCHANGED <<deps, continue, pc>>

Done ==
  /\ pc = "resolve"
  /\ DOMAIN d = {}
  /\ pc' = "return"
  /\ UNCHANGED <<deps, continue, d, r>>

\* (mutant of Circular: `apply' does not return)
CircularRaise ==
  /\ pc = "resolve"
  /\ DOMAIN d # {}
  /\ Ready(d) = {}
  /\ ~ continue
  /\ pc' = "raise"
  /\ UNCHANGED <<deps, continue, d, r>>

\* every remaining link waits for another one: `apply' drops them all
Circular ==
  /\ pc = "resolve"
  /\ DOMAIN d # {}
  /\ Ready(d) = {}
  /\ pc' = IF continue THEN "return" ELSE "raise"
  /\ UNCHANGED <<deps, continue, d, r>>

Next == Stage \/ Done \/ Circular

\* the resolver is a loop of one process
Spec == Init /\ [][Next]_vars /\ WF_vars(Next)

-----------------------------------------------------------------------------
(* Properties                                                              *)

Items   == DOMAIN deps \cup Values(deps)
Needs(x) == IF x \in DOMAIN deps THEN deps[x] ELSE {}
Staged  == UNION {r[i] : i \in 1 .. Len(r)}

\* The dictionary only loses keys and dependencies; no stage is empty.
TypeOK ==
  /\ DOMAIN deps \subseteq Item /\ deps \in [DOMAIN deps -> SUBSET Item]
  /\ continue \in Modes
  /\ DOMAIN d \subseteq DOMAIN deps /\ d \in [DOMAIN d -> SUBSET Item]
  /\ \A k \in DOMAIN d : d[k] \subseteq deps[k]
  /\ r \in Seq((SUBSET Item) \ {{}})
  /\ pc \in {"resolve", "return", "raise"}

\* A link is configured in a later stage than everything it depends on, and
\* only once.
DependenciesFirst ==
  \A i \in 1 .. Len(r) : \A x \in r[i] :
    /\ \A y \in Needs(x) : \E j \in 1 .. i - 1 : y \in r[j]
    /\ \A j \in 1 .. i - 1 : x \notin r[j]

\* S is a set of links each of which waits for another one of the set
Deadlocked(S) == \A x \in S : Needs(x) \cap S # {}

\* What is missing from the stages in the end is exactly the largest set of
\* links that wait for each other, and `check' raises just when there is one.
OnlyCircularDropped ==
  pc # "resolve" =>
    /\ Deadlocked(Items \ Staged)
    /\ \A S \in SUBSET Items : Deadlocked(S) => S \subseteq Items \ Staged
    /\ pc = "raise" <=> ~ continue /\ Staged # Items

\* Resolving ends, with circular dependencies too.
Terminates == <>(pc # "resolve")
=============================================================================
