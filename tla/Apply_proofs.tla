---------------------------- MODULE Apply_proofs ----------------------------
(* Theorems about Stages, for every set of items and every dictionary, and *)
(* about Apply, for any links, groups, namespaces and configurations, and  *)
(* any number of notifications.                                            *)
EXTENDS Apply, SequenceTheorems, TLAPS

-----------------------------------------------------------------------------
(* The stages                                                              *)

\* d is deps without the links that have a stage and without what they have
\* been waited for; links without an entry in deps get a stage first of all.
Resolution ==
  /\ DOMAIN d \cap Staged = {}
  /\ \A k \in DOMAIN deps : k \in Staged \/ k \in DOMAIN d
  /\ \A k \in DOMAIN d : d[k] = deps[k] \ Staged
  /\ \A x \in Items : x \in Staged \/ x \in DOMAIN deps \/ x \in Values(d)
  /\ Staged \subseteq Items

\* links that wait for each other never get a stage
NoneCircular == \A S \in SUBSET Items : Deadlocked(S) => S \cap Staged = {}

\* the reasons to end
Ended ==
  /\ pc # "resolve" => Ready(d) = {}
  /\ pc = "raise" => ~ continue /\ DOMAIN d # {}
  /\ pc = "return" => continue \/ DOMAIN d = {}

IInv == TypeOK /\ Resolution /\ DependenciesFirst /\ NoneCircular /\ Ended

\* What a new stage adds: links that had none, and nothing they need is left.
LEMMA ReadyFacts ==
  ASSUME TypeOK, Resolution, NEW x \in Ready(d)
  PROVE  x \in Items /\ x \notin Staged /\ Needs(x) \subseteq Staged
<1>1. CASE x \in DOMAIN d /\ d[x] = {}
  BY <1>1 DEF Resolution, TypeOK, Items, Needs
<1>2. CASE x \in Values(d) /\ x \notin DOMAIN d
  <2>1. PICK k \in DOMAIN d : x \in d[k]
    BY <1>2 DEF Values
  <2>2. x \in deps[k] /\ x \notin Staged /\ k \in DOMAIN deps
    BY <2>1 DEF Resolution, TypeOK
  <2>3. x \notin DOMAIN deps
    BY <2>2, <1>2 DEF Resolution
  <2>4. x \in Items
    BY <2>2 DEF Items, Values
  <2> QED BY <2>2, <2>3, <2>4 DEF Needs
<1> QED BY <1>1, <1>2 DEF Ready

\* The stages after a step of the loop.
LEMMA StagedStep ==
  ASSUME TypeOK, Stage
  PROVE  /\ Len(r') = Len(r) + 1
         /\ r'[Len(r) + 1] = Ready(d)
         /\ \A i \in 1 .. Len(r) : r'[i] = r[i]
         /\ Staged' = Staged \cup Ready(d)
<1>1. /\ Len(r') = Len(r) + 1
      /\ r'[Len(r) + 1] = Ready(d)
      /\ \A i \in 1 .. Len(r) : r'[i] = r[i]
      /\ Len(r) \in Nat
  BY DEF TypeOK, Stage
<1>2. 1 .. Len(r') = (1 .. Len(r)) \cup {Len(r) + 1}
  BY <1>1
<1> QED BY <1>1, <1>2 DEF Staged

\* Every initial state satisfies the invariant.
LEMMA InitIInv == Init => IInv
<1> SUFFICES ASSUME Init PROVE IInv
  OBVIOUS
<1>1. DOMAIN deps \subseteq Item /\ deps \in [DOMAIN deps -> SUBSET Item]
  BY DEF Init, Dictionary
<1>2. r = <<>> /\ Staged = {} /\ d = deps /\ pc = "resolve" /\ continue \in Modes
  BY DEF Init, Staged
<1>3. TypeOK
  BY <1>1, <1>2 DEF TypeOK
<1>4. Resolution
  BY <1>1, <1>2 DEF Resolution, Items, Values
<1>5. DependenciesFirst
  BY <1>2 DEF DependenciesFirst
<1>6. NoneCircular /\ Ended
  BY <1>2 DEF NoneCircular, Ended
<1> QED BY <1>3, <1>4, <1>5, <1>6 DEF IInv

\* A step of the loop preserves it.
LEMMA StageIInv == ASSUME IInv, Stage PROVE IInv'
<1>1. /\ TypeOK /\ Resolution /\ DependenciesFirst /\ NoneCircular /\ Ended
      /\ pc = "resolve" /\ Ready(d) # {} /\ r' = Append(r, Ready(d))
      /\ d' = Remaining(d, Ready(d)) /\ deps' = deps /\ continue' = continue /\ pc' = pc
  BY DEF IInv, Stage
<1>2. \A x \in Ready(d) : x \in Items /\ x \notin Staged /\ Needs(x) \subseteq Staged
  BY <1>1, ReadyFacts
<1>3. /\ Len(r') = Len(r) + 1
      /\ r'[Len(r) + 1] = Ready(d)
      /\ \A i \in 1 .. Len(r) : r'[i] = r[i]
      /\ Staged' = Staged \cup Ready(d)
  BY <1>1, StagedStep
<1>4. Items' = Items /\ Items \subseteq Item /\ \A x : Needs(x)' = Needs(x)
  BY <1>1 DEF Items, Values, Needs, TypeOK
<1>5. /\ DOMAIN d' = {x \in DOMAIN d : d[x] # {}}
      /\ \A k \in DOMAIN d' : d'[k] = d[k] \ Ready(d)
      /\ d' = [k \in DOMAIN d' |-> d'[k]]
  BY <1>1 DEF Remaining
<1>6. TypeOK'
  <2>1. Ready(d) \in (SUBSET Item) \ {{}}
    BY <1>1, <1>2, <1>4
  <2>2. r' \in Seq((SUBSET Item) \ {{}})
    BY <1>1, <2>1 DEF TypeOK
  <2>3. DOMAIN d' \subseteq DOMAIN deps /\ \A k \in DOMAIN d' : d'[k] \subseteq deps[k]
    BY <1>1, <1>5 DEF TypeOK
  <2>4. d' \in [DOMAIN d' -> SUBSET Item]
    BY <1>1, <1>5, <2>3 DEF TypeOK
  <2> QED BY <1>1, <2>2, <2>3, <2>4 DEF TypeOK
<1>7. Resolution'
  <2>1. DOMAIN d' \cap Staged' = {}
    BY <1>1, <1>3, <1>5 DEF Resolution, Ready
  <2>2. \A k \in DOMAIN deps : k \in Staged' \/ k \in DOMAIN d'
    BY <1>1, <1>3, <1>5 DEF Resolution, Ready
  <2>3. \A k \in DOMAIN d' : d'[k] = deps[k] \ Staged'
    BY <1>1, <1>3, <1>5 DEF Resolution
  <2>4. \A x \in Items : x \in Staged' \/ x \in DOMAIN deps
    <3> SUFFICES ASSUME NEW x \in Items, x \notin Staged', x \notin DOMAIN deps
                 PROVE  FALSE
      OBVIOUS
    <3>1. x \in Values(d) /\ x \notin DOMAIN d
      BY <1>1, <1>3 DEF Resolution, TypeOK
    <3> QED BY <3>1, <1>3 DEF Ready
  <2>5. Staged' \subseteq Items
    BY <1>1, <1>2, <1>3 DEF Resolution
  <2> QED BY <1>1, <1>4, <2>1, <2>2, <2>3, <2>4, <2>5 DEF Resolution
<1>8. DependenciesFirst'
  <2> SUFFICES ASSUME NEW i \in 1 .. Len(r'), NEW x \in r'[i]
               PROVE  /\ \A y \in Needs(x) : \E j \in 1 .. i - 1 : y \in r'[j]
                      /\ \A j \in 1 .. i - 1 : x \notin r'[j]
    BY <1>4 DEF DependenciesFirst
  <2>1. Len(r) \in Nat
    BY <1>1 DEF TypeOK
  <2>2. CASE i \in 1 .. Len(r)
    <3>1. \A j \in 1 .. i - 1 : r'[j] = r[j]
      BY <1>3, <2>1, <2>2
    <3> QED BY <1>1, <1>3, <2>2, <3>1 DEF DependenciesFirst
  <2>3. CASE i = Len(r) + 1
    <3>1. 1 .. i - 1 = 1 .. Len(r)
      BY <2>1, <2>3
    <3>2. x \in Ready(d) /\ x \notin Staged /\ Needs(x) \subseteq Staged
      BY <1>2, <1>3, <2>3
    <3>3. \A y \in Staged : \E j \in 1 .. Len(r) : y \in r[j]
      BY DEF Staged
    <3>4. \A j \in 1 .. Len(r) : r[j] \subseteq Staged
      BY DEF Staged
    <3> QED BY <1>3, <3>1, <3>2, <3>3, <3>4
  <2> QED BY <1>3, <2>1, <2>2, <2>3
<1>9. NoneCircular'
  <2> SUFFICES ASSUME NEW S \in SUBSET Items, Deadlocked(S)
               PROVE  S \cap Staged' = {}
    BY <1>4 DEF NoneCircular, Deadlocked
  <2>1. S \cap Staged = {}
    BY <1>1 DEF NoneCircular
  <2>2. \A x \in Ready(d) : x \notin S
    BY <1>2, <2>1 DEF Deadlocked
  <2> QED BY <1>3, <2>1, <2>2
<1>10. Ended'
  BY <1>1 DEF Ended
<1> QED BY <1>6, <1>7, <1>8, <1>9, <1>10 DEF IInv

\* So does every step, and a step that changes nothing.
LEMMA NextIInv == IInv /\ [Next]_vars => IInv'
<1> SUFFICES ASSUME IInv, [Next]_vars PROVE IInv'
  OBVIOUS
<1>1. CASE Stage
  BY <1>1, StageIInv
<1>2. CASE Done \/ Circular \/ UNCHANGED vars
  <2>1. /\ d' = d /\ r' = r /\ deps' = deps /\ continue' = continue
        /\ pc' \in {"resolve", "return", "raise"}
    BY <1>2 DEF Done, Circular, vars, IInv, TypeOK
  <2>2. TypeOK' /\ Resolution' /\ DependenciesFirst' /\ NoneCircular'
    BY <2>1 DEF IInv, TypeOK, Resolution, DependenciesFirst, NoneCircular, Staged,
                Items, Values, Needs, Deadlocked
  <2>3. Ended'
    <3>1. CASE Done
      <4>1. DOMAIN d = {} /\ pc' = "return"
        BY <3>1 DEF Done
      <4>2. Ready(d) = {}
        BY <4>1 DEF Ready, Values
      <4> QED BY <2>1, <4>1, <4>2 DEF Ended, Ready, Values
    <3>2. CASE Circular
      <4>1. DOMAIN d # {} /\ Ready(d) = {} /\ pc' = IF continue THEN "return" ELSE "raise"
        BY <3>2 DEF Circular
      <4> QED BY <2>1, <4>1 DEF Ended, Ready, Values
    <3>3. CASE UNCHANGED vars
      BY <3>3 DEF vars, IInv, Ended, Ready, Values
    <3> QED BY <1>2, <3>1, <3>2, <3>3
  <2> QED BY <2>2, <2>3 DEF IInv
<1> QED BY <1>1, <1>2 DEF Next

\* The inductive invariant holds in every reachable state.
THEOREM Invariance == Spec => []IInv
BY InitIInv, NextIInv, PTL DEF Spec

\* _stages never has an empty stage and works on a part of the dictionary.
THEOREM TypeCorrect == Spec => []TypeOK
<1>1. IInv => TypeOK
  BY DEF IInv
<1> QED BY Invariance, <1>1, PTL

\* Whatever the links and their dependencies are, a link is configured after
\* everything it depends on and only once.
THEOREM DependenciesFirstHolds == Spec => []DependenciesFirst
<1>1. IInv => DependenciesFirst
  BY DEF IInv
<1> QED BY Invariance, <1>1, PTL

\* What `apply' drops, and `check' refuses, are the links that wait for each
\* other, directly or through others, and no more.
THEOREM OnlyCircularDroppedHolds == Spec => []OnlyCircularDropped
<1>1. IInv => OnlyCircularDropped
  <2> SUFFICES ASSUME IInv, pc # "resolve"
               PROVE  /\ Deadlocked(Items \ Staged)
                      /\ \A S \in SUBSET Items : Deadlocked(S) => S \subseteq Items \ Staged
                      /\ pc = "raise" <=> ~ continue /\ Staged # Items
    BY DEF OnlyCircularDropped
  <2>1. TypeOK /\ Resolution /\ NoneCircular /\ Ended /\ Ready(d) = {}
    BY DEF IInv, Ended
  <2>2. Values(d) \subseteq DOMAIN d /\ \A k \in DOMAIN d : d[k] # {}
    BY <2>1 DEF Ready
  <2>3. DOMAIN d = Items \ Staged
    BY <2>1, <2>2 DEF Resolution, TypeOK, Items
  <2>4. Deadlocked(Items \ Staged)
    BY <2>1, <2>2, <2>3 DEF Deadlocked, Needs, Values, Resolution, TypeOK
  <2>5. \A S \in SUBSET Items : Deadlocked(S) => S \subseteq Items \ Staged
    BY <2>1 DEF NoneCircular
  <2>6. pc = "raise" <=> ~ continue /\ Staged # Items
    BY <2>1, <2>3 DEF Ended, TypeOK, Resolution
  <2> QED BY <2>4, <2>5, <2>6
<1> QED BY Invariance, <1>1, PTL

-----------------------------------------------------------------------------
(* The configuration, the kernel and the processes                         *)

\* what the scenarios promise holds of the configuration, which nothing changes
ConfigOK ==
  /\ config \in Scenario
  /\ deps = [x \in Configured |-> UsedBy(config.links[x].uses)]

KernelOK ==
  /\ kernel = [spaces |-> kernel.spaces, links |-> kernel.links]
  /\ Existing \subseteq Item /\ kernel.links \in [Existing -> KernelLink]
  /\ \A x \in Existing : UsedBy(kernel.links[x].over) \subseteq Existing

ProcOK ==
  /\ at \in [Process -> {"idle", "spaces", "orphans", "links", "done", "gaveup", "raised", "ended"}]
  /\ left \in [Process -> SUBSET Item] /\ reg \in [Process -> SUBSET Item]
  /\ stage \in [Process -> Nat]
  /\ down \in [Process -> SUBSET Configured] /\ down[Cli] = {}
  /\ taken \in [Process -> State \cup {None}]
  /\ queue \in [Worker -> Seq(State \cup {None})]
  /\ states \in [Group -> State \cup {None}]

\* a process is somewhere in the stages, or before or after them
Position ==
  \A p \in Process :
    /\ stage[p] <= Len(r)
    /\ at[p] \in {"links", "done"} => pc = "return"
    /\ left[p] # {} => at[p] = "links" /\ stage[p] > 0 /\ left[p] \subseteq r[stage[p]]

-----------------------------------------------------------------------------
(* What `ifstate apply' has done                                           *)

\* the links it has been at
Visited == {x \in Item : x \notin left[Cli] /\ \E i \in 1 .. stage[Cli] : x \in r[i]}

NotStarted == at[Cli] \in {"idle", "spaces", "orphans"} => stage[Cli] = 0

\* its registry misses only what workers have created since
RegistryKnows ==
  at[Cli] # "idle" => \A x \in Existing : x \in reg[Cli] \/ (x \in Configured /\ IsVrrp(x))

Cleaned ==
  at[Cli] \in {"links", "done"} /\ continue => \A x \in Existing \ Configured : ~ IsOrphan(x)

Spaces ==
  /\ at[Cli] # "idle" => config.spaces \subseteq kernel.spaces
  /\ at[Cli] \in {"orphans", "links", "done"} /\ continue /\ config.manages =>
       kernel.spaces = config.spaces

\* x depends on links of `ifstate apply' only
OwnUses(x) == \A y \in UsedBy(config.links[x].uses) : y \in Configured /\ ~ IsVrrp(y)

VisitedRight ==
  at[Cli] \in {"links", "done"} /\ continue =>
    \A x \in Visited \cap Configured : ~ IsVrrp(x) =>
      x \in Existing /\ (OwnUses(x) => Complete(x))

AllVisited  == at[Cli] = "done" => left[Cli] = {} /\ stage[Cli] = Len(r)
EndedEarly  == at[Cli] \in {"gaveup", "raised"} => \E x \in Items : ~ Known(x)

CliInv ==
  /\ NotStarted /\ RegistryKnows /\ Cleaned /\ Spaces /\ VisitedRight
  /\ AllVisited /\ EndedEarly

Base     == IInv /\ ConfigOK /\ KernelOK /\ ProcOK /\ Position
ApplyInv == Base /\ CliInv

-----------------------------------------------------------------------------
(* References and the kernel                                               *)

LEMMA RefsFacts ==
  ASSUME NEW f \in Refs
  PROVE  DOMAIN f \subseteq Attr /\ f = [a \in DOMAIN f |-> f[a]] /\ UsedBy(f) \subseteq Item
BY DEF Refs, UsedBy

LEMMA RefsIntro ==
  ASSUME NEW A \in SUBSET Attr, NEW f \in [A -> Item]
  PROVE  f \in Refs
BY DEF Refs

LEMMA ConfigFacts ==
  ASSUME ConfigOK
  PROVE  /\ Configured \subseteq Item
         /\ \A x \in Configured : /\ config.links[x] \in LinkConfig
                                  /\ config.links[x].uses \in Refs
                                  /\ deps[x] = UsedBy(config.links[x].uses)
         /\ DOMAIN deps = Configured
<1>1. Configured \subseteq Item /\ config.links \in [Configured -> LinkConfig]
  BY ScenarioAssumption DEF ConfigOK, Configured
<1> QED BY <1>1 DEF ConfigOK, LinkConfig

\* What removing a link does to the others.
LEMMA WithoutFacts ==
  ASSUME KernelOK, NEW x
  PROVE  /\ DOMAIN LinksWithout(x) = Existing \ {x}
         /\ LinksWithout(x) \in [Existing \ {x} -> KernelLink]
         /\ \A y \in Existing \ {x} :
              /\ UsedBy(LinksWithout(x)[y].over) \subseteq Existing \ {x}
              /\ LinksWithout(x)[y].up = kernel.links[y].up
              /\ \A a \in DOMAIN kernel.links[y].over : kernel.links[y].over[a] # x =>
                   /\ a \in DOMAIN LinksWithout(x)[y].over
                   /\ LinksWithout(x)[y].over[a] = kernel.links[y].over[a]
<1> DEFINE Kept(y) == {a \in DOMAIN kernel.links[y].over : kernel.links[y].over[a] # x}
           Over(y) == [a \in Kept(y) |-> kernel.links[y].over[a]]
<1>1. \A y \in Existing \ {x} :
        LinksWithout(x)[y] = [kernel.links[y] EXCEPT !.over = Over(y)]
  BY DEF LinksWithout
<1>2. \A y \in Existing : kernel.links[y] \in KernelLink
  BY DEF KernelOK
<1>3. \A y \in Existing \ {x} :
        LinksWithout(x)[y] = [up |-> kernel.links[y].up, over |-> Over(y)]
  BY <1>1, <1>2 DEF KernelLink
<1>4. ASSUME NEW y \in Existing \ {x}
      PROVE  Over(y) \in Refs /\ UsedBy(Over(y)) \subseteq Existing \ {x}
  <2>1. kernel.links[y].over \in Refs
    BY <1>2 DEF KernelLink
  <2>2. Kept(y) \in SUBSET Attr /\ Over(y) \in [Kept(y) -> Item]
    BY <2>1, RefsFacts DEF UsedBy
  <2>3. Over(y) \in Refs
    BY <2>2, RefsIntro
  <2>4. UsedBy(kernel.links[y].over) \subseteq Existing
    BY DEF KernelOK
  <2> QED BY <2>3, <2>4 DEF UsedBy
<1>5. DOMAIN LinksWithout(x) = Existing \ {x}
  BY DEF LinksWithout
<1>6. \A y \in Existing \ {x} :
        \A a \in DOMAIN kernel.links[y].over : kernel.links[y].over[a] # x =>
          a \in DOMAIN Over(y) /\ Over(y)[a] = kernel.links[y].over[a]
  OBVIOUS
<1> HIDE DEF Over
<1>7. ASSUME NEW y \in Existing \ {x}
      PROVE  /\ LinksWithout(x)[y].up = kernel.links[y].up
             /\ LinksWithout(x)[y].over = Over(y)
             /\ LinksWithout(x)[y] \in KernelLink
  <2>1. kernel.links[y].up \in BOOLEAN /\ Over(y) \in Refs
    BY <1>2, <1>4 DEF KernelLink
  <2>2. LinksWithout(x)[y] = [up |-> kernel.links[y].up, over |-> Over(y)]
    BY <1>3
  <2> DEFINE u == kernel.links[y].up
             o == Over(y)
             k == LinksWithout(x)[y]
  <2>3. k = [up |-> u, over |-> o] /\ u \in BOOLEAN /\ o \in Refs
    BY <2>1, <2>2
  <2> HIDE DEF u, o, k
  <2>4. k.up = u /\ k.over = o /\ k \in KernelLink
    BY <2>3 DEF KernelLink
  <2> QED BY <2>4 DEF u, o, k
<1>8. LinksWithout(x) \in [Existing \ {x} -> KernelLink]
  BY <1>7 DEF LinksWithout
<1>9. ASSUME NEW y \in Existing \ {x}
      PROVE  /\ UsedBy(LinksWithout(x)[y].over) \subseteq Existing \ {x}
             /\ LinksWithout(x)[y].up = kernel.links[y].up
             /\ \A a \in DOMAIN kernel.links[y].over : kernel.links[y].over[a] # x =>
                  /\ a \in DOMAIN LinksWithout(x)[y].over
                  /\ LinksWithout(x)[y].over[a] = kernel.links[y].over[a]
  <2>1. LinksWithout(x)[y].over = Over(y) /\ LinksWithout(x)[y].up = kernel.links[y].up
    BY <1>7
  <2>2. UsedBy(Over(y)) \subseteq Existing \ {x}
    BY <1>4
  <2> QED BY <1>6, <2>1, <2>2
<1> QED BY <1>5, <1>8, <1>9

LEMMA AttachedFacts ==
  ASSUME KernelOK, ConfigOK, NEW x \in Configured
  PROVE  /\ Attached(x) \in Refs
         /\ UsedBy(Attached(x)) \subseteq Existing
         /\ x \in Existing => DOMAIN kernel.links[x].over \subseteq DOMAIN Attached(x)
         /\ \A a \in Found(x) : /\ a \in DOMAIN Attached(x)
                                /\ Attached(x)[a] = config.links[x].uses[a]
<1> DEFINE uses == config.links[x].uses
           old  == IF x \in Existing THEN kernel.links[x].over ELSE [a \in {} |-> x]
<1>1. uses \in Refs
  BY ConfigFacts
<1>2. old \in Refs /\ UsedBy(old) \subseteq Existing
  <2>1. CASE x \in Existing
    BY <2>1 DEF KernelOK, KernelLink
  <2>2. CASE x \notin Existing
    <3>1. old = [a \in {} |-> x]
      BY <2>2
    <3>2. old \in [{} -> Item] /\ UsedBy(old) = {}
      BY <3>1 DEF UsedBy
    <3> QED BY <3>2, RefsIntro
  <2> QED BY <2>1, <2>2
<1>3. Attached(x) = [a \in Found(x) \cup DOMAIN old |-> IF a \in Found(x) THEN uses[a] ELSE old[a]]
  BY DEF Attached
<1>4. Found(x) \subseteq DOMAIN uses /\ \A a \in Found(x) : uses[a] \in Existing
  BY DEF Found
<1> HIDE DEF uses, old
<1>5. Found(x) \cup DOMAIN old \in SUBSET Attr
  BY <1>1, <1>2, <1>4, RefsFacts
<1>6. \A a \in DOMAIN Attached(x) : Attached(x)[a] \in Existing
  BY <1>2, <1>3, <1>4 DEF UsedBy
<1>7. Attached(x) \in [Found(x) \cup DOMAIN old -> Item]
  BY <1>3, <1>6 DEF KernelOK
<1>8. Attached(x) \in Refs
  BY <1>5, <1>7, RefsIntro
<1>9. UsedBy(Attached(x)) \subseteq Existing
  BY <1>6 DEF UsedBy
<1> QED BY <1>3, <1>8, <1>9 DEF uses, old

\* Applying a link does nothing to the others.
LEMMA EffectElsewhere ==
  ASSUME NEW x, NEW p, NEW off, NEW y \in Existing \ {x}
  PROVE  Effect(p, x, off)[y] = kernel.links[y]
BY DEF Effect

\* What applying a link does to it.
LEMMA EffectFacts ==
  ASSUME KernelOK, ConfigOK, NEW x \in Configured, NEW p, NEW off
  PROVE  /\ Effect(p, x, off) \in [Existing \cup {x} -> KernelLink]
         /\ \A y \in Existing \cup {x} :
              UsedBy(Effect(p, x, off)[y].over) \subseteq Existing \cup {x}
         /\ x \in Existing =>
              /\ DOMAIN kernel.links[x].over \subseteq DOMAIN Effect(p, x, off)[x].over
              /\ Effect(p, x, off)[x].up /\ ~ kernel.links[x].up => x \notin off
<1> DEFINE K  == Effect(p, x, off)
           up == Found(x) = DOMAIN config.links[x].uses /\ x \notin off
<1>0. /\ Attached(x) \in Refs
      /\ UsedBy(Attached(x)) \subseteq Existing
      /\ x \in Existing => DOMAIN kernel.links[x].over \subseteq DOMAIN Attached(x)
      /\ \A a \in Found(x) : /\ a \in DOMAIN Attached(x)
                             /\ Attached(x)[a] = config.links[x].uses[a]
  BY AttachedFacts
<1>1. CASE x \in Existing /\ x \notin reg[p]
  <2>1. K = kernel.links /\ Existing \cup {x} = Existing
    BY <1>1 DEF Effect
  <2> QED BY <1>1, <2>1 DEF KernelOK, Existing
<1>2. CASE ~ (x \in Existing /\ x \notin reg[p])
  <2>1. K = [y \in Existing \cup {x} |->
              IF y = x THEN [up |-> up, over |-> Attached(x)] ELSE kernel.links[y]]
    BY <1>2 DEF Effect
  <2>2. /\ DOMAIN K = Existing \cup {x}
        /\ K[x] = [up |-> up, over |-> Attached(x)]
        /\ \A y \in Existing \ {x} : K[y] = kernel.links[y]
    BY <2>1
  <2>3. up \in BOOLEAN
    OBVIOUS
  <2>4. K[x] \in KernelLink
    BY <1>0, <2>2, <2>3 DEF KernelLink
  <2>5. \A y \in Existing \cup {x} : K[y] \in KernelLink
    BY <2>2, <2>4 DEF KernelOK
  <2>6. K \in [Existing \cup {x} -> KernelLink]
    BY <2>1, <2>5
  <2>7. \A y \in Existing \cup {x} : UsedBy(K[y].over) \subseteq Existing \cup {x}
    BY <1>0, <2>2 DEF KernelOK
  <2>8. K[x].up = up /\ K[x].over = Attached(x)
    BY <2>2
  <2>9. x \in Existing =>
           /\ DOMAIN kernel.links[x].over \subseteq DOMAIN K[x].over
           /\ K[x].up /\ ~ kernel.links[x].up => x \notin off
    BY <1>0, <2>8
  <2> HIDE DEF K
  <2> QED BY <2>2, <2>6, <2>7, <2>9 DEF K
<1> QED BY <1>1, <1>2

\* With all that it depends on, and unless it is disabled, it is complete.
LEMMA EffectComplete ==
  ASSUME KernelOK, ConfigOK, NEW x \in Configured, NEW p, NEW off,
         x \in Existing => x \in reg[p], x \notin off,
         UsedBy(config.links[x].uses) \subseteq Existing
  PROVE  /\ Effect(p, x, off)[x].up
         /\ \A a \in DOMAIN config.links[x].uses :
              /\ a \in DOMAIN Effect(p, x, off)[x].over
              /\ Effect(p, x, off)[x].over[a] = config.links[x].uses[a]
<1>1. Found(x) = DOMAIN config.links[x].uses
  BY DEF Found, UsedBy
<1>2. Effect(p, x, off)[x] = [up |-> TRUE, over |-> Attached(x)]
  BY <1>1 DEF Effect
<1>3. Effect(p, x, off)[x].up /\ Effect(p, x, off)[x].over = Attached(x)
  BY <1>2
<1>4. \A a \in Found(x) : /\ a \in DOMAIN Attached(x)
                          /\ Attached(x)[a] = config.links[x].uses[a]
  BY AttachedFacts
<1> QED BY <1>1, <1>3, <1>4

-----------------------------------------------------------------------------
(* Types and positions                                                     *)

LEMMA ProcessFacts ==
  /\ Cli \in Process /\ Worker \subseteq Process /\ Cli \notin Worker
  /\ \A p \in Process : p # Cli => p \in Worker
  /\ \A w \in Worker : w[1] \in Group
BY ProcessAssumption DEF Process, Worker

\* A step on the namespaces leaves the links alone, and one on links the namespaces.
LEMMA SpacesStep ==
  ASSUME KernelOK, NEW S, kernel' = [kernel EXCEPT !.spaces = S]
  PROVE  KernelOK' /\ kernel'.links = kernel.links /\ kernel'.spaces = S
<1>1. kernel' = [spaces |-> S, links |-> kernel.links]
  BY DEF KernelOK
<1>2. kernel'.links = kernel.links /\ kernel'.spaces = S
  BY <1>1
<1> QED BY <1>1, <1>2 DEF KernelOK, Existing

LEMMA LinksStep ==
  ASSUME KernelOK, NEW D \in SUBSET Item, NEW K \in [D -> KernelLink],
         kernel' = [kernel EXCEPT !.links = K],
         \A y \in D : UsedBy(K[y].over) \subseteq D
  PROVE  KernelOK' /\ kernel'.links = K /\ kernel'.spaces = kernel.spaces
<1>1. kernel' = [spaces |-> kernel.spaces, links |-> K]
  BY DEF KernelOK
<1>2. kernel'.links = K /\ kernel'.spaces = kernel.spaces /\ DOMAIN K = D
  BY <1>1
<1> QED BY <1>1, <1>2 DEF KernelOK, Existing

\* Configuring a link.
LEMMA ConfigureStep ==
  ASSUME KernelOK, ConfigOK, NEW p \in Process, NEW x \in Configured, Configure(p, x)
  PROVE  /\ KernelOK' /\ kernel'.spaces = kernel.spaces
         /\ continue => kernel'.links = Effect(p, x, down'[p]) /\ Existing' = Existing \cup {x}
         /\ ~ continue => kernel' = kernel
<1>1. CASE continue
  <2>0. PICK off : off = down'[p]
    OBVIOUS
  <2> DEFINE K == Effect(p, x, off)
             D == Existing \cup {x}
  <2>1. kernel' = [kernel EXCEPT !.links = K]
    BY <1>1, <2>0 DEF Configure
  <2>2. D \in SUBSET Item
    BY ConfigFacts DEF KernelOK
  <2>3. DOMAIN K = D /\ K \in [D -> KernelLink] /\ \A y \in D : UsedBy(K[y].over) \subseteq D
    <3>1. K \in [D -> KernelLink]
      BY EffectFacts
    <3>2. \A y \in D : UsedBy(K[y].over) \subseteq D
      BY EffectFacts
    <3> QED BY <3>1, <3>2
  <2>4. K = Effect(p, x, down'[p]) /\ D = Existing \cup {x}
    BY <2>0
  <2> HIDE DEF K, D
  <2>5. KernelOK' /\ kernel'.spaces = kernel.spaces /\ kernel'.links = K
    BY <2>1, <2>2, <2>3, LinksStep
  <2> QED BY <1>1, <2>3, <2>4, <2>5 DEF Existing
<1>2. CASE ~ continue
  <2>1. kernel' = kernel
    BY <1>2 DEF Configure
  <2> QED BY <1>2, <2>1 DEF KernelOK, Existing
<1> QED BY <1>1, <1>2

LEMMA RemoveStep ==
  ASSUME KernelOK, NEW x, RemoveOrphan(x)
  PROVE  /\ KernelOK' /\ kernel'.spaces = kernel.spaces
         /\ kernel'.links = LinksWithout(x) /\ Existing' = Existing \ {x}
<1>1. kernel' = [kernel EXCEPT !.links = LinksWithout(x)]
  BY DEF RemoveOrphan
<1>2. Existing \ {x} \in SUBSET Item
  BY DEF KernelOK
<1>3. /\ DOMAIN LinksWithout(x) = Existing \ {x}
      /\ LinksWithout(x) \in [Existing \ {x} -> KernelLink]
      /\ \A y \in Existing \ {x} : UsedBy(LinksWithout(x)[y].over) \subseteq Existing \ {x}
  BY WithoutFacts
<1>4. KernelOK' /\ kernel'.spaces = kernel.spaces /\ kernel'.links = LinksWithout(x)
  BY <1>1, <1>2, <1>3, LinksStep
<1> QED BY <1>3, <1>4 DEF Existing

\* Only the resolver works on the stages, and nothing changes the configuration.
LEMMA ResolverStep ==
  ASSUME IInv, ConfigOK, ApplyNext
  PROVE  /\ IInv' /\ ConfigOK' /\ config' = config /\ deps' = deps /\ continue' = continue
         /\ Configured' = Configured /\ Items' = Items
         /\ Resolve \/ UNCHANGED resolver
<1>1. Resolve \/ UNCHANGED <<resolver, config>>
  BY DEF ApplyNext, Step, Update, PrepareNetns, RemoveOrphan, BeginLinks, Notify, Reload,
         Terminate, Take, NextStage, Finish, Configure, Skip, UnknownNetns
<1>2. [Next]_vars /\ config' = config
  BY <1>1 DEF Resolve, resolver, vars
<1>3. deps' = deps /\ continue' = continue
  BY <1>2 DEF Next, Stage, Done, Circular, vars
<1>4. IInv'
  BY <1>2, NextIInv
<1> QED BY <1>1, <1>2, <1>3, <1>4 DEF ConfigOK, Configured, Items, Values

LEMMA InitBase == ApplyInit => Base
<1> SUFFICES ASSUME ApplyInit PROVE Base
  OBVIOUS
<1>1. ConfigOK
  BY DEF ApplyInit, ConfigOK, Configured
<1>2. deps \in Dictionary
  <2>1. \A x \in Configured : UsedBy(config.links[x].uses) \in SUBSET Item
    BY <1>1, ConfigFacts, RefsFacts
  <2>2. deps \in [Configured -> SUBSET Item] /\ Configured \subseteq Item
    BY <1>1, <2>1, ConfigFacts DEF ConfigOK
  <2> QED BY <2>2 DEF Dictionary
<1>3. Init
  <2>1. continue \in Modes
    BY ApplyModesAssumption DEF ApplyInit
  <2> QED BY <1>2, <2>1 DEF ApplyInit, Init
<1>4. IInv
  BY <1>3, InitIInv
<1>5. KernelOK
  BY <1>1, ScenarioAssumption DEF ApplyInit, KernelOK, Existing, ConfigOK
<1>6. ProcOK
  BY ProcessFacts DEF ApplyInit, ProcOK
<1>7. Position
  BY DEF ApplyInit, Position
<1> QED BY <1>1, <1>4, <1>5, <1>6, <1>7 DEF Base

\* Processes keep to their types ...
LEMMA ProcStep ==
  ASSUME Base, ApplyNext
  PROVE  ProcOK'
<1>0. /\ ProcOK /\ Configured' = Configured
      /\ Cli \in Process /\ Worker \subseteq Process /\ Cli \notin Worker
      /\ \A w \in Worker : w[1] \in Group
  BY ResolverStep, ProcessFacts DEF Base
<1>1. CASE Resolve
  BY <1>0, <1>1 DEF Resolve, ProcOK, procVars, daemonVars
<1>2. CASE Update
  <2>1. Existing \in SUBSET Item
    BY DEF Base, KernelOK
  <2> QED BY <1>0, <1>2, <2>1 DEF Update, ProcOK, daemonVars
<1>3. CASE PrepareNetns \/ BeginLinks
  BY <1>0, <1>3 DEF PrepareNetns, BeginLinks, ProcOK, daemonVars
<1>4. ASSUME NEW x \in Item, RemoveOrphan(x) PROVE ProcOK'
  BY <1>0, <1>4 DEF RemoveOrphan, ProcOK, daemonVars
<1>5. ASSUME NEW g \in Group, NEW s \in State, Notify(g, s) PROVE ProcOK'
  <2>1. Current(g) \in Worker
    BY DEF Current, Worker
  <2> QED BY <1>0, <1>5, <2>1 DEF Notify, ProcOK, procVars
<1>6. CASE Reload
  <2>1. ASSUME NEW w \in Worker PROVE queue'[w] \in Seq(State \cup {None})
    <3>1. queue[w] \in Seq(State \cup {None}) /\ states[w[1]] \in State \cup {None}
      BY <1>0 DEF ProcOK
    <3>2. queue'[w] \in {queue[w], Append(queue[w], None), <<states[w[1]]>>}
      BY <1>6 DEF Reload
    <3>3. Append(queue[w], None) \in Seq(State \cup {None})
      BY <3>1
    <3>4. <<states[w[1]]>> \in Seq(State \cup {None})
      BY <3>1
    <3> QED BY <3>1, <3>2, <3>3, <3>4
  <2>2. queue' \in [Worker -> Seq(State \cup {None})]
    BY <1>6, <2>1 DEF Reload
  <2> QED BY <1>0, <1>6, <2>2 DEF Reload, ProcOK, procVars
<1>7. ASSUME NEW w \in Worker, Terminate(w) \/ Take(w) PROVE ProcOK'
  <2>1. /\ w \in Process /\ queue[w] \in Seq(State \cup {None}) /\ queue[w] # <<>>
        /\ Existing \in SUBSET Item
    BY <1>0, <1>7 DEF Terminate, Take, ProcOK, Base, KernelOK
  <2>2. Tail(queue[w]) \in Seq(State \cup {None}) /\ Head(queue[w]) \in State \cup {None}
    BY <2>1
  <2>3. queue' \in [Worker -> Seq(State \cup {None})]
    BY <1>0, <1>7, <2>2 DEF Terminate, Take, ProcOK
  <2>4. taken' \in [Process -> State \cup {None}]
    BY <1>0, <1>7, <2>1, <2>2 DEF Terminate, Take, ProcOK
  <2>5. CASE Terminate(w)
    BY <1>0, <2>1, <2>3, <2>4, <2>5 DEF Terminate, ProcOK
  <2>6. CASE Take(w)
    BY <1>0, <2>1, <2>3, <2>4, <2>6 DEF Take, ProcOK
  <2> QED BY <1>7, <2>5, <2>6
<1>8. ASSUME NEW p \in Process, Step(p) PROVE ProcOK'
  <2>1. CASE NextStage(p)
    <3>1. r \in Seq((SUBSET Item) \ {{}}) /\ stage[p] \in Nat /\ stage[p] < Len(r)
      BY <1>0, <2>1 DEF NextStage, ProcOK, Base, IInv, TypeOK
    <3>2. r[stage[p] + 1] \in SUBSET Item /\ stage[p] + 1 \in Nat
      BY <3>1
    <3> QED BY <1>0, <2>1, <3>2 DEF NextStage, ProcOK, daemonVars
  <2>2. CASE Finish(p)
    BY <1>0, <2>2 DEF Finish, ProcOK, daemonVars
  <2>3. ASSUME NEW x \in Item, Configure(p, x) PROVE ProcOK'
    <3>1. x \in Configured /\ (Disabled(p, x) => p # Cli)
      BY <2>3 DEF Configure, Selected, Disabled
    <3>2. down' \in [Process -> SUBSET Configured] /\ down'[Cli] = {}
      BY <1>0, <2>3, <3>1 DEF Configure, ProcOK
    <3> QED BY <1>0, <2>3, <3>2 DEF Configure, ProcOK, daemonVars
  <2>4. ASSUME NEW x \in Item, Skip(p, x) \/ UnknownNetns(p, x) PROVE ProcOK'
    BY <1>0, <2>4 DEF Skip, UnknownNetns, ProcOK, daemonVars
  <2> QED BY <1>8, <2>1, <2>2, <2>3, <2>4 DEF Step
<1> QED BY <1>1, <1>2, <1>3, <1>4, <1>5, <1>6, <1>7, <1>8 DEF ApplyNext

\* ... and to the stages.
LEMMA PositionStep ==
  ASSUME Base, ApplyNext
  PROVE  Position'
<1>0. /\ ProcOK /\ Position /\ r \in Seq((SUBSET Item) \ {{}})
      /\ Cli \in Process /\ Worker \subseteq Process
      /\ \A p \in Process : stage[p] \in Nat /\ Len(r) \in Nat
  BY ProcessFacts DEF Base, IInv, TypeOK, ProcOK
<1>1. CASE Resolve
  <2>1. pc = "resolve" /\ UNCHANGED <<at, left, stage>>
    BY <1>1 DEF Resolve, Next, Stage, Done, Circular, procVars
  <2>2. Len(r') >= Len(r)
    BY <1>0, <1>1 DEF Resolve, Next, Stage, Done, Circular
  <2>3. Len(r') \in Nat
    BY <1>0, <1>1 DEF Resolve, Next, Stage, Done, Circular
  <2> QED BY <1>0, <2>1, <2>2, <2>3 DEF Position
<1>2. CASE Update \/ PrepareNetns \/ BeginLinks
  BY <1>0, <1>2 DEF Update, PrepareNetns, BeginLinks, Position, resolver, ProcOK
<1>3. ASSUME NEW x \in Item, RemoveOrphan(x) PROVE Position'
  BY <1>0, <1>3 DEF RemoveOrphan, Position, resolver
<1>4. ASSUME NEW g \in Group, NEW s \in State, Notify(g, s) PROVE Position'
  BY <1>0, <1>4 DEF Notify, Position, resolver, procVars
<1>5. CASE Reload
  BY <1>0, <1>5 DEF Reload, Position, resolver, procVars
<1>6. ASSUME NEW w \in Worker, Terminate(w) \/ Take(w) PROVE Position'
  BY <1>0, <1>6 DEF Terminate, Take, Position, resolver, ProcOK
<1>7. ASSUME NEW p \in Process, Step(p) PROVE Position'
  <2>1. CASE NextStage(p)
    BY <1>0, <2>1 DEF NextStage, Position, resolver, ProcOK
  <2>2. CASE Finish(p)
    BY <1>0, <2>2 DEF Finish, Position, resolver, ProcOK
  <2>3. ASSUME NEW x \in Item, Configure(p, x) \/ Skip(p, x) PROVE Position'
    <3>1. UNCHANGED <<r, pc, at, stage>> /\ left' = [left EXCEPT ![p] = @ \ {x}]
      BY <2>3 DEF Configure, Skip, resolver
    <3>2. \A q \in Process : left'[q] \subseteq left[q]
      BY <1>0, <3>1 DEF ProcOK
    <3> QED BY <1>0, <3>1, <3>2 DEF Position
  <2>4. ASSUME NEW x \in Item, UnknownNetns(p, x) PROVE Position'
    BY <1>0, <2>4 DEF UnknownNetns, Follows, Position, resolver, ProcOK
  <2> QED BY <1>7, <2>1, <2>2, <2>3, <2>4 DEF Step
<1> QED BY <1>1, <1>2, <1>3, <1>4, <1>5, <1>6, <1>7 DEF ApplyNext

\* The kernel's links refer to links.
LEMMA KernelStep ==
  ASSUME Base, ApplyNext
  PROVE  KernelOK'
<1>0. KernelOK /\ ConfigOK
  BY DEF Base
<1>1. CASE Update \/ PrepareNetns \/ \E w \in Worker : Take(w)
  <2>1. PICK S : kernel' = [kernel EXCEPT !.spaces = S]
    BY <1>1 DEF Update, PrepareNetns, Take
  <2> QED BY <1>0, <2>1, SpacesStep
<1>2. CASE \E x \in Item : RemoveOrphan(x)
  BY <1>0, <1>2, RemoveStep
<1>3. ASSUME NEW p \in Process, NEW x \in Item, Configure(p, x) PROVE KernelOK'
  <2>1. x \in Configured
    BY <1>3 DEF Configure, Selected
  <2> QED BY <1>0, <1>3, <2>1, ConfigureStep
<1>4. CASE kernel' = kernel
  BY <1>0, <1>4 DEF KernelOK, Existing
<1>5. \/ Update \/ PrepareNetns \/ \E w \in Worker : Take(w)
      \/ \E x \in Item : RemoveOrphan(x)
      \/ \E p \in Process, x \in Item : Configure(p, x)
      \/ kernel' = kernel
  BY DEF ApplyNext, Resolve, BeginLinks, Notify, Reload, Terminate, Step, NextStage, Finish,
         Skip, UnknownNetns
<1> QED BY <1>1, <1>2, <1>3, <1>4, <1>5

LEMMA StutterBase == ASSUME Base, UNCHANGED applyVars PROVE Base'
<1>1. UNCHANGED vars
  BY DEF applyVars, resolver, vars
<1>2. IInv'
  BY <1>1, NextIInv DEF Base
<1> QED BY <1>2 DEF Base, applyVars, resolver, procVars, daemonVars, ConfigOK, KernelOK, ProcOK,
                  Position, Configured, Existing

LEMMA NextBase == ASSUME Base, [ApplyNext]_applyVars PROVE Base'
BY ResolverStep, ProcStep, PositionStep, KernelStep, StutterBase DEF Base

-----------------------------------------------------------------------------
(* Only the workers of its group bring a link up                           *)

LEMMA LinkKept ==
  ASSUME Base, ApplyNext, NEW x \in Existing \cap Configured, IsVrrp(x)
  PROVE  /\ x \in Existing'
         /\ kernel'.links[x].up /\ ~ kernel.links[x].up =>
              \E w \in Worker : /\ w[1] = config.links[x].group
                                /\ taken[w] \in config.links[x].states
                                /\ x \in left[w] \ left'[w]
         /\ \A a \in DOMAIN kernel.links[x].over :
              kernel.links[x].over[a] \in Existing' => a \in DOMAIN kernel'.links[x].over
<1>0. KernelOK /\ ConfigOK /\ ProcOK
  BY DEF Base
<1>1. CASE kernel'.links = kernel.links
  BY <1>1 DEF Existing
<1>2. ASSUME NEW y \in Item, RemoveOrphan(y)
      PROVE  /\ x \in Existing' /\ kernel'.links[x].up = kernel.links[x].up
             /\ \A a \in DOMAIN kernel.links[x].over :
                  kernel.links[x].over[a] \in Existing' => a \in DOMAIN kernel'.links[x].over
  <2>1. x # y
    BY <1>2 DEF RemoveOrphan, IsOrphan
  <2>2. kernel'.links = LinksWithout(y) /\ Existing' = Existing \ {y}
    BY <1>0, <1>2, RemoveStep
  <2>3. \A z \in Existing \ {y} :
          /\ LinksWithout(y)[z].up = kernel.links[z].up
          /\ \A a \in DOMAIN kernel.links[z].over : kernel.links[z].over[a] # y =>
               a \in DOMAIN LinksWithout(y)[z].over
    BY <1>0, WithoutFacts
  <2>4. x \in Existing \ {y}
    BY <2>1
  <2> QED BY <2>2, <2>3, <2>4
<1>3. ASSUME NEW p \in Process, NEW y \in Item, Configure(p, y), kernel'.links # kernel.links
      PROVE  /\ x \in Existing'
             /\ kernel'.links[x].up /\ ~ kernel.links[x].up =>
                  \E w \in Worker : /\ w[1] = config.links[x].group
                                    /\ taken[w] \in config.links[x].states
                                    /\ x \in left[w] \ left'[w]
             /\ DOMAIN kernel.links[x].over \subseteq DOMAIN kernel'.links[x].over
  <2>1. y \in Configured /\ Selected(p, y) /\ y \in left[p] /\ left'[p] = left[p] \ {y}
    BY <1>0, <1>3 DEF Configure, Selected, Follows, ProcOK
  <2>2. kernel'.links = Effect(p, y, down'[p]) /\ Existing' = Existing \cup {y}
    BY <1>0, <1>3, <2>1, ConfigureStep
  <2>3. PICK off : off = down'[p]
    OBVIOUS
  <2>4. CASE x # y
    <3>1. Effect(p, y, off)[x] = kernel.links[x]
      BY <2>4, EffectElsewhere
    <3>2. kernel'.links = Effect(p, y, off)
      BY <2>2, <2>3
    <3>3. kernel'.links[x] = kernel.links[x]
      BY <3>1, <3>2
    <3> QED BY <2>2, <3>3
  <2>5. CASE x = y
    <3>1. p \in Worker /\ p[1] = config.links[x].group
      BY <2>1, <2>5, ProcessFacts DEF Selected
    <3>2. /\ DOMAIN kernel.links[x].over \subseteq DOMAIN Effect(p, x, off)[x].over
          /\ Effect(p, x, off)[x].up /\ ~ kernel.links[x].up => x \notin off
      BY <1>0, EffectFacts
    <3>3. x \notin off => taken[p] \in config.links[x].states
      BY <1>0, <1>3, <2>3, <2>5, <3>1, ProcessFacts DEF Configure, Disabled, ProcOK
    <3> QED BY <2>1, <2>2, <2>3, <2>5, <3>1, <3>2, <3>3
  <2> QED BY <2>4, <2>5
<1>4. CASE Update \/ PrepareNetns \/ \E w \in Worker : Take(w)
  <2>1. PICK S : kernel' = [kernel EXCEPT !.spaces = S]
    BY <1>4 DEF Update, PrepareNetns, Take
  <2> QED BY <1>0, <1>1, <2>1, SpacesStep
<1>5. \/ Update \/ PrepareNetns \/ \E w \in Worker : Take(w)
      \/ \E y \in Item : RemoveOrphan(y)
      \/ \E p \in Process, y \in Item : Configure(p, y)
      \/ kernel' = kernel
  BY DEF ApplyNext, Resolve, BeginLinks, Notify, Reload, Terminate, Step, NextStage, Finish,
         Skip, UnknownNetns
<1> QED BY <1>1, <1>2, <1>3, <1>4, <1>5

-----------------------------------------------------------------------------
(* `ifstate apply' takes effect                                            *)

\* what the workers, and the daemon, may do while `ifstate apply' is anywhere
ByOthers ==
  /\ at'[Cli] = at[Cli] /\ left'[Cli] = left[Cli]
  /\ stage'[Cli] = stage[Cli] /\ reg'[Cli] = reg[Cli]
  /\ pc = "return" => r' = r
  /\ kernel'.spaces \in {kernel.spaces, kernel.spaces \cup config.spaces}
  /\ Existing \subseteq Existing'
  /\ \A x \in Existing' \ Existing : x \in Configured /\ IsVrrp(x)
  /\ \A x \in Existing : (x \in Configured /\ IsVrrp(x)) \/ kernel'.links[x] = kernel.links[x]

LEMMA OthersKeep ==
  ASSUME ApplyInv, ByOthers, config' = config, deps' = deps, continue' = continue,
         Items' = Items
  PROVE  CliInv'
<1>0. /\ CliInv /\ Position /\ Cli \in Process
      /\ Configured' = Configured /\ \A x : IsVrrp(x)' = IsVrrp(x) /\ Known(x)' = Known(x)
      /\ \A x : IsOrphan(x)' = IsOrphan(x) /\ OwnUses(x)' = OwnUses(x)
  BY ProcessFacts DEF ApplyInv, Base, Configured, IsVrrp, Known, IsOrphan, OwnUses
<1>1. NotStarted' /\ EndedEarly'
  BY <1>0 DEF ByOthers, CliInv, NotStarted, EndedEarly
<1>2. RegistryKnows' /\ Cleaned'
  BY <1>0 DEF ByOthers, CliInv, RegistryKnows, Cleaned
<1>3. Spaces'
  BY <1>0 DEF ByOthers, CliInv, Spaces
<1>4. AllVisited'
  BY <1>0 DEF ByOthers, CliInv, AllVisited, Position
<1>5. VisitedRight'
  <2> SUFFICES ASSUME at'[Cli] \in {"links", "done"}, continue,
                      NEW x \in Visited' \cap Configured, ~ IsVrrp(x)
               PROVE  x \in Existing' /\ (OwnUses(x) => Complete(x)')
    BY <1>0 DEF VisitedRight
  <2>1. Visited' = Visited
    BY <1>0 DEF ByOthers, Position, Visited
  <2>2. x \in Existing /\ (OwnUses(x) => Complete(x))
    BY <1>0, <2>1 DEF CliInv, VisitedRight, ByOthers
  <2>3. kernel'.links[x] = kernel.links[x]
    BY <2>2 DEF ByOthers
  <2> QED BY <2>2, <2>3 DEF ByOthers, Complete
<1> QED BY <1>1, <1>2, <1>3, <1>4, <1>5 DEF CliInv

LEMMA OthersSteps ==
  ASSUME ApplyInv,
         \/ Resolve \/ Reload
         \/ \E g \in Group, s \in State : Notify(g, s)
         \/ \E w \in Worker : Terminate(w) \/ Take(w) \/ Step(w)
  PROVE  ByOthers
<1>0. /\ KernelOK /\ ConfigOK /\ ProcOK /\ Cli \in Process /\ Cli \notin Worker
      /\ Worker \subseteq Process
  BY ProcessFacts DEF ApplyInv, Base
<1>1. CASE kernel' = kernel /\ UNCHANGED <<at, left, stage, reg>> /\ (pc = "return" => r' = r)
  BY <1>1 DEF ByOthers, Existing
<1>2. CASE Resolve
  BY <1>1, <1>2 DEF Resolve, Next, Stage, Done, Circular, procVars
<1>3. CASE Reload \/ \E g \in Group, s \in State : Notify(g, s)
  BY <1>1, <1>3 DEF Reload, Notify, procVars, resolver
<1>4. ASSUME NEW w \in Worker, Terminate(w) \/ Take(w) PROVE ByOthers
  <2>1. /\ at'[Cli] = at[Cli] /\ left'[Cli] = left[Cli] /\ r' = r
        /\ stage'[Cli] = stage[Cli] /\ reg'[Cli] = reg[Cli]
    BY <1>0, <1>4 DEF Terminate, Take, ProcOK, resolver
  <2>2. kernel' = kernel \/ kernel' = [kernel EXCEPT !.spaces = kernel.spaces \cup config.spaces]
    BY <1>4 DEF Terminate, Take
  <2>3. /\ kernel'.links = kernel.links
        /\ kernel'.spaces \in {kernel.spaces, kernel.spaces \cup config.spaces}
    BY <1>0, <2>2, SpacesStep
  <2> QED BY <2>1, <2>3 DEF ByOthers, Existing
<1>5. ASSUME NEW w \in Worker, NextStage(w) \/ Finish(w) PROVE ByOthers
  BY <1>0, <1>5 DEF NextStage, Finish, ByOthers, Existing, ProcOK, resolver
<1>6. ASSUME NEW w \in Worker, NEW x \in Item, Skip(w, x) \/ UnknownNetns(w, x) PROVE ByOthers
  BY <1>0, <1>6 DEF Skip, UnknownNetns, ByOthers, Existing, ProcOK, resolver
<1>7. ASSUME NEW w \in Worker, NEW x \in Item, Configure(w, x) PROVE ByOthers
  <2>1. x \in Configured /\ IsVrrp(x)
    BY <1>0, <1>7, ProcessFacts, ProcessAssumption DEF Configure, Selected, IsVrrp
  <2>2. /\ at'[Cli] = at[Cli] /\ left'[Cli] = left[Cli] /\ r' = r
        /\ stage'[Cli] = stage[Cli] /\ reg'[Cli] = reg[Cli]
    BY <1>0, <1>7 DEF Configure, ProcOK, resolver
  <2>3. CASE kernel'.links = kernel.links
    BY <1>0, <1>7, <2>1, <2>2, <2>3, ConfigureStep DEF ByOthers, Existing
  <2>4. CASE kernel'.links # kernel.links
    <3>1. /\ kernel'.links = Effect(w, x, down'[w]) /\ Existing' = Existing \cup {x}
          /\ kernel'.spaces = kernel.spaces
      BY <1>0, <1>7, <2>1, <2>4, ConfigureStep
    <3>2. PICK off : off = down'[w]
      OBVIOUS
    <3>3. \A y \in Existing \ {x} : Effect(w, x, off)[y] = kernel.links[y]
      BY EffectElsewhere
    <3>4. kernel'.links = Effect(w, x, off)
      BY <3>1, <3>2
    <3>5. \A y \in Existing : y = x \/ kernel'.links[y] = kernel.links[y]
      BY <3>3, <3>4
    <3> QED BY <2>1, <2>2, <3>1, <3>5 DEF ByOthers
  <2> QED BY <2>3, <2>4
<1> QED BY <1>2, <1>3, <1>4, <1>5, <1>6, <1>7 DEF Step

\* What the links of `ifstate apply' are when it configures one of them.
LEMMA CliConfigures ==
  ASSUME ApplyInv, NEW x \in Item, Configure(Cli, x), continue
  PROVE  /\ x \in Configured /\ ~ IsVrrp(x)
         /\ Existing' = Existing \cup {x} /\ kernel'.spaces = kernel.spaces
         /\ \A y \in Existing \ {x} : kernel'.links[y] = kernel.links[y]
         /\ OwnUses(x) => Complete(x)'
<1>0. /\ IInv /\ KernelOK /\ ConfigOK /\ ProcOK /\ Position /\ CliInv /\ Cli \in Process
  BY ProcessFacts DEF ApplyInv, Base
<1>1. /\ x \in Configured /\ ~ IsVrrp(x) /\ x \in left[Cli] /\ at[Cli] = "links"
      /\ config' = config
  BY DEF Configure, Selected, Follows
<1>2. PICK off : off = down'[Cli]
  OBVIOUS
<1>3. /\ kernel'.links = Effect(Cli, x, off) /\ Existing' = Existing \cup {x}
      /\ kernel'.spaces = kernel.spaces
  BY <1>0, <1>1, <1>2, ConfigureStep
<1>4. \A y \in Existing \ {x} : kernel'.links[y] = kernel.links[y]
  BY <1>3, EffectElsewhere
<1>5. x \in Existing => x \in reg[Cli]
  BY <1>0, <1>1 DEF CliInv, RegistryKnows
<1>6. x \notin off
  BY <1>0, <1>2 DEF Configure, Disabled, ProcOK
<1>7. ASSUME OwnUses(x) PROVE UsedBy(config.links[x].uses) \subseteq Existing
  <2> SUFFICES ASSUME NEW y \in UsedBy(config.links[x].uses) PROVE y \in Existing
    OBVIOUS
  <2>1. y \in Configured /\ ~ IsVrrp(y)
    BY <1>7 DEF OwnUses
  <2>2. y \in Needs(x)
    BY <1>0, <1>1, ConfigFacts DEF Needs
  <2>3. /\ stage[Cli] \in 1 .. Len(r) /\ left[Cli] \subseteq r[stage[Cli]]
        /\ stage[Cli] \in Nat /\ Len(r) \in Nat
    BY <1>0, <1>1 DEF Position, ProcOK, IInv, TypeOK
  <2>4. DependenciesFirst
    BY <1>0 DEF IInv
  <2>5. PICK j \in 1 .. stage[Cli] - 1 : y \in r[j]
    BY <1>1, <2>2, <2>3, <2>4 DEF DependenciesFirst
  <2>6. y \notin left[Cli]
    BY <2>3, <2>4, <2>5 DEF DependenciesFirst
  <2>7. j \in 1 .. stage[Cli]
    BY <2>3, <2>5
  <2>8. y \in Visited
    BY <1>0, <2>1, <2>5, <2>6, <2>7, ConfigFacts DEF Visited
  <2> QED BY <1>0, <1>1, <2>1, <2>8 DEF CliInv, VisitedRight
<1>8. ASSUME OwnUses(x)
      PROVE  /\ Effect(Cli, x, off)[x].up
             /\ \A a \in DOMAIN config.links[x].uses :
                  /\ a \in DOMAIN Effect(Cli, x, off)[x].over
                  /\ Effect(Cli, x, off)[x].over[a] = config.links[x].uses[a]
  <2>1. /\ x \in Existing => x \in reg[Cli]
        /\ UsedBy(config.links[x].uses) \subseteq Existing
    BY <1>5, <1>7, <1>8
  <2> QED BY <1>0, <1>1, <1>6, <2>1, EffectComplete
<1>9. OwnUses(x) => Complete(x)'
  BY <1>1, <1>3, <1>8 DEF Complete
<1> QED BY <1>1, <1>3, <1>4, <1>9

\* Every step of `ifstate apply' preserves what it has done.
LEMMA CliSteps ==
  ASSUME ApplyInv, Base', config' = config, deps' = deps, continue' = continue, Items' = Items,
         r' = r,
         \/ Update \/ PrepareNetns \/ BeginLinks \/ Step(Cli)
         \/ \E x \in Item : RemoveOrphan(x)
  PROVE  CliInv'
<1>0. /\ IInv /\ KernelOK /\ ConfigOK /\ ProcOK /\ Position /\ CliInv /\ Cli \in Process
      /\ Configured' = Configured /\ \A x : IsVrrp(x)' = IsVrrp(x) /\ Known(x)' = Known(x)
      /\ \A x : IsOrphan(x)' = IsOrphan(x) /\ OwnUses(x)' = OwnUses(x)
      /\ stage[Cli] \in Nat /\ Len(r) \in Nat
  BY ProcessFacts DEF ApplyInv, Base, Configured, IsVrrp, Known, IsOrphan, OwnUses, ProcOK,
                      IInv, TypeOK
<1>1. CASE Update
  <2>1. /\ at[Cli] = "idle" /\ at'[Cli] = "spaces" /\ reg'[Cli] = Existing
        /\ stage' = stage /\ left' = left
    BY <1>0, <1>1 DEF Update, ProcOK
  <2>2. kernel'.links = kernel.links /\ kernel'.spaces = kernel.spaces \cup config.spaces
    BY <1>0, <1>1, SpacesStep DEF Update
  <2>3. NotStarted'
    BY <1>0, <2>1 DEF CliInv, NotStarted
  <2>4. RegistryKnows'
    <3>1. Existing' = Existing
      BY <2>2 DEF Existing
    <3> QED BY <2>1, <3>1 DEF RegistryKnows
  <2>5. Spaces'
    BY <2>1, <2>2 DEF Spaces
  <2>6. Cleaned' /\ VisitedRight' /\ AllVisited' /\ EndedEarly'
    BY <2>1 DEF Cleaned, VisitedRight, AllVisited, EndedEarly
  <2> QED BY <2>3, <2>4, <2>5, <2>6 DEF CliInv
<1>2. CASE PrepareNetns
  <2>1. /\ at[Cli] = "spaces" /\ at'[Cli] = "orphans" /\ reg' = reg
        /\ stage' = stage /\ left' = left
    BY <1>0, <1>2 DEF PrepareNetns, ProcOK
  <2>2. /\ kernel'.links = kernel.links
        /\ kernel'.spaces = IF continue /\ config.manages THEN kernel.spaces \cap config.spaces
                                                          ELSE kernel.spaces
    BY <1>0, <1>2, SpacesStep DEF PrepareNetns
  <2> QED BY <1>0, <2>1, <2>2 DEF CliInv, NotStarted, RegistryKnows, Cleaned, Spaces,
                                  VisitedRight, AllVisited, EndedEarly, Existing
<1>3. ASSUME NEW x \in Item, RemoveOrphan(x) PROVE CliInv'
  <2>1. /\ at[Cli] = "orphans" /\ at' = at /\ reg'[Cli] = reg[Cli] \ {x}
        /\ stage' = stage /\ left' = left
    BY <1>0, <1>3 DEF RemoveOrphan, ProcOK
  <2>2. Existing' = Existing \ {x} /\ kernel'.spaces = kernel.spaces
    BY <1>0, <1>3, RemoveStep
  <2> QED BY <1>0, <2>1, <2>2 DEF CliInv, NotStarted, RegistryKnows, Cleaned, Spaces,
                                  VisitedRight, AllVisited, EndedEarly
<1>4. CASE BeginLinks
  <2>1. /\ at[Cli] = "orphans" /\ at'[Cli] = "links" /\ reg' = reg /\ kernel' = kernel
        /\ stage'[Cli] = 0 /\ left' = left
        /\ continue => \A x \in reg[Cli] : ~ IsOrphan(x)
    BY <1>0, <1>4 DEF BeginLinks, ProcOK, CliInv, NotStarted
  <2>2. Visited' = {}
    BY <2>1 DEF Visited
  <2> QED BY <1>0, <2>1, <2>2 DEF CliInv, NotStarted, RegistryKnows, Cleaned, Spaces,
                                  VisitedRight, AllVisited, EndedEarly, Existing
<1>5. CASE NextStage(Cli)
  <2>1. /\ at[Cli] = "links" /\ at' = at /\ reg' = reg /\ kernel' = kernel
        /\ stage'[Cli] = stage[Cli] + 1 /\ left[Cli] = {} /\ left'[Cli] = r[stage[Cli] + 1]
    BY <1>0, <1>5 DEF NextStage, ProcOK
  <2>2. Visited' \subseteq Visited
    <3> SUFFICES ASSUME NEW i \in 1 .. stage[Cli] + 1, NEW x \in r[i],
                        x \notin r[stage[Cli] + 1]
                 PROVE  \E j \in 1 .. stage[Cli] : x \in r[j]
      BY <1>0, <2>1 DEF Visited
    <3> QED BY <1>0
  <2> QED BY <1>0, <2>1, <2>2 DEF CliInv, NotStarted, RegistryKnows, Cleaned, Spaces,
                                  VisitedRight, AllVisited, EndedEarly, Existing, Complete
<1>6. CASE Finish(Cli)
  <2>1. /\ at[Cli] = "links" /\ at'[Cli] = "done" /\ reg' = reg /\ kernel' = kernel
        /\ stage' = stage /\ left' = left /\ left[Cli] = {} /\ stage[Cli] = Len(r)
    BY <1>0, <1>6 DEF Finish, ProcOK
  <2>2. Visited' = Visited
    BY <2>1 DEF Visited
  <2> QED BY <1>0, <2>1, <2>2 DEF CliInv, NotStarted, RegistryKnows, Cleaned, Spaces,
                                  VisitedRight, AllVisited, EndedEarly, Existing, Complete
<1>7. ASSUME NEW x \in Item, Skip(Cli, x) \/ Configure(Cli, x) PROVE CliInv'
  <2>1. /\ at[Cli] = "links" /\ at' = at /\ stage' = stage /\ left'[Cli] = left[Cli] \ {x}
    BY <1>0, <1>7 DEF Skip, Configure, Follows, ProcOK
  <2>2. NotStarted' /\ AllVisited' /\ EndedEarly'
    BY <1>0, <2>1 DEF CliInv, NotStarted, AllVisited, EndedEarly
  <2>3. Visited' \subseteq Visited \cup {x}
    BY <1>0, <2>1 DEF Visited
  <2>4. CASE Skip(Cli, x)
    <3>1. kernel' = kernel /\ reg' = reg /\ (x \notin Configured \/ IsVrrp(x))
      BY <2>4 DEF Skip, Selected
    <3> QED BY <1>0, <2>1, <2>2, <2>3, <3>1
            DEF CliInv, RegistryKnows, Cleaned, Spaces, VisitedRight, Existing, Complete
  <2>5. CASE Configure(Cli, x) /\ ~ continue
    <3>1. kernel' = kernel /\ reg[Cli] \subseteq reg'[Cli]
      BY <1>0, <2>5 DEF Configure, ProcOK
    <3> QED BY <1>0, <2>1, <2>2, <2>5, <3>1
            DEF CliInv, RegistryKnows, Cleaned, Spaces, VisitedRight, Existing
  <2>6. CASE Configure(Cli, x) /\ continue
    <3>1. /\ x \in Configured /\ ~ IsVrrp(x)
          /\ Existing' = Existing \cup {x} /\ kernel'.spaces = kernel.spaces
          /\ \A y \in Existing \ {x} : kernel'.links[y] = kernel.links[y]
          /\ OwnUses(x) => Complete(x)'
      BY <2>6, CliConfigures
    <3>2. reg'[Cli] = IF x \in Existing THEN reg[Cli] ELSE reg[Cli] \cup {x}
      BY <1>0, <2>6 DEF Configure, ProcOK
    <3>3. Cleaned' /\ Spaces'
      BY <1>0, <2>1, <3>1 DEF CliInv, Cleaned, Spaces
    <3>4. RegistryKnows'
      <4> SUFFICES ASSUME NEW y \in Existing'
                   PROVE  y \in reg'[Cli] \/ (y \in Configured /\ IsVrrp(y))
        BY <1>0 DEF RegistryKnows
      <4>1. CASE y \in Existing
        BY <1>0, <2>1, <3>2, <4>1 DEF CliInv, RegistryKnows
      <4>2. CASE y = x /\ x \notin Existing
        <5>1. reg'[Cli] = reg[Cli] \cup {x}
          BY <3>2, <4>2
        <5> QED BY <4>2, <5>1
      <4> QED BY <3>1, <4>1, <4>2
    <3>5. VisitedRight'
      <4> SUFFICES ASSUME continue, NEW y \in Visited' \cap Configured, ~ IsVrrp(y)
                   PROVE  y \in Existing' /\ (OwnUses(y) => Complete(y)')
        BY <1>0 DEF VisitedRight
      <4>1. CASE y = x
        BY <3>1, <4>1
      <4>2. CASE y # x
        <5>1. y \in Existing /\ (OwnUses(y) => Complete(y))
          BY <1>0, <2>1, <2>3, <4>2 DEF CliInv, VisitedRight
        <5>2. kernel'.links[y] = kernel.links[y]
          BY <3>1, <4>2, <5>1
        <5> QED BY <3>1, <5>1, <5>2 DEF Complete
      <4> QED BY <4>1, <4>2
    <3> QED BY <2>2, <3>3, <3>4, <3>5 DEF CliInv
  <2> QED BY <1>7, <2>4, <2>5, <2>6
<1>8. ASSUME NEW x \in Item, UnknownNetns(Cli, x) PROVE CliInv'
  <2>1. /\ at[Cli] = "links" /\ at'[Cli] \in {"gaveup", "raised"} /\ reg' = reg
        /\ kernel' = kernel /\ x \in left[Cli] /\ ~ Known(x)
    BY <1>0, <1>8 DEF UnknownNetns, Follows, ProcOK
  <2>2. x \in Items
    <3>1. stage[Cli] \in 1 .. Len(r) /\ x \in r[stage[Cli]]
      BY <1>0, <2>1 DEF Position
    <3> QED BY <1>0, <3>1 DEF IInv, Resolution, Staged
  <2> QED BY <1>0, <2>1, <2>2 DEF CliInv, NotStarted, RegistryKnows, Cleaned, Spaces,
                                  VisitedRight, AllVisited, EndedEarly, Existing
<1> QED BY <1>1, <1>2, <1>3, <1>4, <1>5, <1>6, <1>7, <1>8 DEF Step

LEMMA InitApplyInv == ApplyInit => ApplyInv
<1> SUFFICES ASSUME ApplyInit PROVE ApplyInv
  OBVIOUS
<1>1. at[Cli] = "idle" /\ stage[Cli] = 0
  BY ProcessFacts DEF ApplyInit
<1>2. CliInv
  BY <1>1 DEF CliInv, NotStarted, RegistryKnows, Cleaned, Spaces, VisitedRight, AllVisited,
              EndedEarly
<1> QED BY <1>2, InitBase DEF ApplyInv

LEMMA NextApplyInv == ApplyInv /\ [ApplyNext]_applyVars => ApplyInv'
<1> SUFFICES ASSUME ApplyInv, [ApplyNext]_applyVars PROVE ApplyInv'
  OBVIOUS
<1>1. Base'
  BY NextBase DEF ApplyInv
<1>2. CASE UNCHANGED applyVars
  <2>1. /\ kernel' = kernel /\ at' = at /\ left' = left /\ stage' = stage /\ reg' = reg
        /\ r' = r /\ config' = config /\ deps' = deps /\ continue' = continue
    BY <1>2 DEF applyVars, resolver, procVars
  <2>2. ByOthers /\ Items' = Items
    BY <2>1 DEF ByOthers, Existing, Items, Values
  <2> QED BY <1>1, <2>1, <2>2, OthersKeep DEF ApplyInv
<1>3. CASE ApplyNext
  <2>1. /\ config' = config /\ deps' = deps /\ continue' = continue /\ Items' = Items
        /\ Resolve \/ UNCHANGED resolver
    BY <1>3, ResolverStep DEF ApplyInv, Base
  <2>2. CASE \/ Resolve \/ Reload
             \/ \E g \in Group, s \in State : Notify(g, s)
             \/ \E w \in Worker : Terminate(w) \/ Take(w) \/ Step(w)
    BY <1>1, <2>1, <2>2, OthersSteps, OthersKeep DEF ApplyInv
  <2>3. CASE \/ Update \/ PrepareNetns \/ BeginLinks \/ Step(Cli)
             \/ \E x \in Item : RemoveOrphan(x)
    <3>1. r' = r
      BY <2>3 DEF Update, PrepareNetns, BeginLinks, Step, RemoveOrphan, NextStage, Finish,
                  Configure, Skip, UnknownNetns, resolver
    <3> QED BY <1>1, <2>1, <2>3, <3>1, CliSteps DEF ApplyInv
  <2>4. \A p \in Process : p = Cli \/ p \in Worker
    BY ProcessFacts
  <2> QED BY <1>3, <2>2, <2>3, <2>4 DEF ApplyNext
<1> QED BY <1>2, <1>3

-----------------------------------------------------------------------------
(* Theorems                                                                *)

\* The inductive invariant holds in every reachable state.
THEOREM ApplyInvariance == ApplySpec => []ApplyInv
BY InitApplyInv, NextApplyInv, PTL DEF ApplySpec

\* The processes and the kernel keep their types: nothing refers to a missing
\* link, processes are at links of their stage, `ifstate apply' disables none.
THEOREM ApplyTypeCorrect == ApplySpec => []ApplyTypeOK
<1>1. ApplyInv => ApplyTypeOK
  <2> SUFFICES ASSUME ApplyInv PROVE ApplyTypeOK
    OBVIOUS
  <2>1. IInv /\ ConfigOK /\ KernelOK /\ ProcOK /\ Position
    BY DEF ApplyInv, Base
  <2> QED BY <2>1, ConfigFacts DEF ApplyTypeOK, KernelOK, ProcOK, Position
<1> QED BY ApplyInvariance, <1>1, PTL

\* Whatever the workers do meanwhile, `ifstate apply' leaves its links as
\* configured, no others and no other namespaces, and it only ends early because
\* of a namespace that is not configured (IfState._apply).
THEOREM ApplyTakesEffectHolds == ApplySpec => []ApplyTakesEffect
<1>1. ApplyInv => ApplyTakesEffect
  <2> SUFFICES ASSUME ApplyInv PROVE ApplyTakesEffect
    OBVIOUS
  <2>1. CliInv
    BY DEF ApplyInv
  <2>2. at[Cli] = "done" => Configured \cap Staged \subseteq Visited
    BY <2>1, ConfigFacts DEF ApplyInv, Base, CliInv, AllVisited, Staged, Visited
  <2>3. at[Cli] = "done" /\ continue =>
          \A x \in Configured \cap Staged : ~ IsVrrp(x) =>
            x \in Existing /\ (OwnUses(x) => Complete(x))
    BY <2>1, <2>2 DEF CliInv, VisitedRight
  <2> QED BY <2>1, <2>3 DEF ApplyTakesEffect, CliInv, Cleaned, Spaces, EndedEarly, OwnUses
<1> QED BY ApplyInvariance, <1>1, PTL

\* A link with VRRP settings is brought up by a worker of its group in one of its
\* states and by nobody else, never removed, and not taken off what it is
\* attached to (_apply_iface and the orphans of _apply).
THEOREM OnlyTheGroupsWorkerHolds == ApplySpec => OnlyTheGroupsWorker
<1>1. ApplyInv /\ [ApplyNext]_applyVars =>
        [\A x \in Existing \cap Configured : IsVrrp(x) =>
           /\ x \in Existing'
           /\ kernel'.links[x].up /\ ~ kernel.links[x].up =>
                \E w \in Worker : /\ w[1] = config.links[x].group
                                  /\ taken[w] \in config.links[x].states
                                  /\ x \in left[w] \ left'[w]
           /\ \A a \in DOMAIN kernel.links[x].over :
                kernel.links[x].over[a] \in Existing' => a \in DOMAIN kernel'.links[x].over]_applyVars
  BY LinkKept DEF ApplyInv
<1> QED BY ApplyInvariance, <1>1, PTL DEF ApplySpec, OnlyTheGroupsWorker

-----------------------------------------------------------------------------
(* What the workers have done                                              *)

AllKnown == \A x \in Items : Known(x)

First(g)  == <<g, 1>>
Second(g) == <<g, 2>>

AtEnd(w) == at[w] = "ended" \/ (at[w] = "idle" /\ queue[w] = <<>>)

\* nobody works without a configuration to apply; SIGHUP comes after the apply
Daemon ==
  /\ config.who \subseteq {Cli} \/ continue
  /\ reloaded => at[Cli] = "done"
  /\ \A w \in Worker : at[w] \in {"idle", "links", "ended"}

\* a worker only begins when the one before it has nothing more to do
Succession(g) ==
  /\ ~ reloaded => queue[Second(g)] = <<>>
  /\ taken[Second(g)] # None => reloaded /\ AtEnd(First(g))

\* the state of a group is the last item of its worker's queue, or was taken from it
Latest(g) ==
  /\ states[g] = None =>
       \A w \in {First(g), Second(g)} : queue[w] = <<>> /\ taken[w] = None
  /\ states[g] # None =>
       /\ g \in config.who
       /\ queue[Current(g)] = <<>> => taken[Current(g)] = states[g]
       /\ queue[Current(g)] # <<>> => queue[Current(g)][Len(queue[Current(g)])] = states[g]

\* a worker applies a state, and has been through all stages when it is idle
Applying(w) ==
  /\ taken[w] # None => pc = "return"
  /\ at[w] = "links" => taken[w] # None
  /\ at[w] # "links" /\ taken[w] # None => stage[w] = Len(r)

DaemonInv ==
  /\ Daemon
  /\ \A g \in Group : Succession(g) /\ Latest(g)
  /\ \A w \in Worker : Applying(w)

\* links that were there are there
Standing == Configured \cap DOMAIN config.kernel.links \subseteq Existing

\* a worker knows the links of its group, and sets no link to down that has its state
Knows(w) ==
  at[w] = "links" =>
    /\ \A x \in Existing \cap Configured : config.links[x].group = w[1] => x \in reg[w]
    /\ \A x \in down[w] : taken[w] \notin config.links[x].states

\* the links a worker has been at
Reached(w) == {x \in Item : x \notin left[w] /\ \E i \in 1 .. stage[w] : x \in r[i]}

\* A link of the group is there, down if the state is not one of its, and complete if
\* it is one and the link's dependencies could be relied on: those of `ifstate apply'
\* when that had returned.
AsItShouldBe(w, x) ==
  /\ x \in Existing
  /\ taken[w] \notin config.links[x].states => ~ kernel.links[x].up
  /\ (/\ taken[w] \in config.links[x].states
      /\ Cli \in config.who => w[2] = 2
      /\ UsedBy(config.links[x].uses) \subseteq Reliable(w[1])) => Complete(x)

\* so are those that the last worker of the group has been at
Right(w) ==
  taken[w] # None /\ (w[2] = 1 => taken[Second(w[1])] = None) =>
    \A x \in Reached(w) \cap Configured : config.links[x].group = w[1] => AsItShouldBe(w, x)

LinksInv == Standing /\ \A w \in Worker : Knows(w) /\ Right(w)

GroupInv == AllKnown => DaemonInv /\ LinksInv

-----------------------------------------------------------------------------
(* The daemon's notifications                                              *)

LEMMA WorkerFacts ==
  /\ \A g \in Group : /\ First(g) \in Worker /\ Second(g) \in Worker /\ First(g) # Second(g)
                      /\ First(g)[1] = g /\ Second(g)[1] = g
                      /\ First(g)[2] = 1 /\ Second(g)[2] = 2
                      /\ Current(g) = IF reloaded THEN Second(g) ELSE First(g)
  /\ \A w \in Worker : /\ w[1] \in Group /\ w \in {First(w[1]), Second(w[1])}
                       /\ w[2] = 1 <=> w = First(w[1])
                       /\ w[2] = 2 <=> w = Second(w[1])
  /\ Cli \notin Group /\ None \notin State
BY ProcessAssumption DEF Worker, First, Second, Current

LEMMA TailLast ==
  ASSUME NEW S, NEW q \in Seq(S), q # <<>>
  PROVE  /\ Tail(q) \in Seq(S)
         /\ Tail(q) = <<>> => q[Len(q)] = Head(q)
         /\ Tail(q) # <<>> => Tail(q)[Len(Tail(q))] = q[Len(q)]
<1>0. PICK t : t = Tail(q)
  OBVIOUS
<1>1. /\ Len(q) \in Nat /\ Len(q) >= 1 /\ t \in Seq(S) /\ Len(t) = Len(q) - 1
      /\ Head(q) = q[1] /\ \A i \in 1 .. Len(q) - 1 : t[i] = q[i + 1]
  BY <1>0
<1>2. CASE t = <<>>
  <2>1. Len(t) = 0
    BY <1>2
  <2>2. Len(q) = 1
    BY <1>1, <2>1
  <2> QED BY <1>0, <1>1, <1>2, <2>2
<1>3. CASE t # <<>>
  <2>1. Len(t) \in 1 .. Len(q) - 1
    BY <1>1, <1>3
  <2>2. t[Len(t)] = q[Len(t) + 1]
    BY <1>1, <2>1
  <2> QED BY <1>0, <1>1, <1>3, <2>2
<1> QED BY <1>2, <1>3

\* Nothing changes for group g.
LEMMA GroupQuiet ==
  ASSUME NEW g \in Group, Succession(g), Latest(g), config' = config, reloaded' = reloaded,
         states'[g] = states[g],
         \A w \in {First(g), Second(g)} :
           at'[w] = at[w] /\ queue'[w] = queue[w] /\ taken'[w] = taken[w]
  PROVE  Succession(g)' /\ Latest(g)'
<1>1. PICK c : c = Current(g) /\ c \in {First(g), Second(g)}
  BY WorkerFacts
<1>2. Current(g)' = c
  BY <1>1 DEF Current
<1>3. queue'[c] = queue[c] /\ taken'[c] = taken[c]
  BY <1>1
<1>4. Succession(g)'
  BY DEF Succession, AtEnd, First, Second
<1>5. Latest(g)'
  BY <1>1, <1>2, <1>3 DEF Latest, First, Second
<1> QED BY <1>4, <1>5

\* Nothing changes for the workers.
LEMMA DaemonQuiet ==
  ASSUME DaemonInv, config' = config, continue' = continue, states' = states,
         reloaded' = reloaded, pc = "return" => pc' = pc /\ r' = r,
         \A w \in Worker : /\ at'[w] = at[w] /\ queue'[w] = queue[w]
                           /\ taken'[w] = taken[w] /\ stage'[w] = stage[w],
         reloaded => at'[Cli] = "done"
  PROVE  DaemonInv'
<1>1. Daemon'
  BY DEF DaemonInv, Daemon
<1>2. ASSUME NEW g \in Group PROVE Succession(g)' /\ Latest(g)'
  BY GroupQuiet, WorkerFacts DEF DaemonInv
<1>3. ASSUME NEW w \in Worker PROVE Applying(w)'
  BY DEF DaemonInv, Applying
<1> QED BY <1>1, <1>2, <1>3 DEF DaemonInv

LEMMA NotifyDaemon ==
  ASSUME ApplyInv, DaemonInv, NEW g \in Group, NEW s \in State, Notify(g, s)
  PROVE  DaemonInv'
<1>0. ProcOK /\ config' = config /\ continue' = continue
  BY DEF ApplyInv, Base, Notify, resolver
<1>1. PICK c, q : c = Current(g) /\ q = queue[c] /\ c \in {First(g), Second(g)} /\ c \in Worker
  BY WorkerFacts
<1>2. /\ at' = at /\ taken' = taken /\ stage' = stage /\ reloaded' = reloaded
      /\ pc' = pc /\ r' = r /\ config' = config /\ continue' = continue /\ g \in config.who
      /\ states'[g] = s /\ \A h \in Group \ {g} : states'[h] = states[h]
      /\ queue'[c] = Append(q, s) /\ \A w \in Worker \ {c} : queue'[w] = queue[w]
  BY <1>0, <1>1 DEF Notify, procVars, resolver, ProcOK
<1>3. Daemon'
  BY <1>2 DEF DaemonInv, Daemon
<1>4. ASSUME NEW h \in Group, h # g PROVE Succession(h)' /\ Latest(h)'
  <2>1. c # First(h) /\ c # Second(h)
    BY <1>1, <1>4, WorkerFacts
  <2> QED BY <1>2, <1>4, <2>1, GroupQuiet, WorkerFacts DEF DaemonInv
<1>5. Succession(g)'
  <2>1. ~ reloaded => c = First(g)
    BY <1>1, WorkerFacts
  <2>2. reloaded => c = Second(g)
    BY <1>1, WorkerFacts
  <2>3. Succession(g)
    BY DEF DaemonInv
  <2>4. ~ reloaded => queue'[Second(g)] = queue[Second(g)]
    BY <1>2, <2>1, WorkerFacts
  <2>5. reloaded => queue'[First(g)] = queue[First(g)]
    BY <1>2, <2>2, WorkerFacts
  <2> QED BY <1>2, <2>3, <2>4, <2>5 DEF Succession, AtEnd, First, Second
<1>6. Latest(g)'
  <2>1. q \in Seq(State \cup {None})
    BY <1>0, <1>1 DEF ProcOK
  <2>2. Append(q, s) # <<>> /\ Append(q, s)[Len(Append(q, s))] = s
    BY <2>1
  <2>3. Current(g)' = c
    BY <1>1, <1>2 DEF Current
  <2> QED BY <1>2, <2>2, <2>3, WorkerFacts DEF Latest
<1>7. ASSUME NEW w \in Worker PROVE Applying(w)'
  BY <1>2 DEF DaemonInv, Applying
<1> QED BY <1>3, <1>4, <1>5, <1>6, <1>7 DEF DaemonInv

LEMMA ReloadDaemon ==
  ASSUME ApplyInv, AllKnown, DaemonInv, Reload
  PROVE  DaemonInv'
<1>0. ProcOK /\ CliInv /\ config' = config /\ continue' = continue
  BY DEF ApplyInv, Base, Reload, resolver
<1>1. /\ at' = at /\ taken' = taken /\ stage' = stage /\ ~ reloaded /\ reloaded'
      /\ pc' = pc /\ r' = r /\ states' = states
      /\ \A w \in Worker : queue'[w] =
           IF states[w[1]] = None THEN queue[w]
           ELSE IF w[2] = 1 THEN Append(queue[w], None) ELSE <<states[w[1]]>>
  BY <1>0 DEF Reload, procVars, resolver
<1>2. Daemon'
  <2>1. at[Cli] = "done"
    BY <1>0 DEF Reload, CliInv, EndedEarly, AllKnown
  <2> QED BY <1>0, <1>1, <2>1 DEF DaemonInv, Daemon
<1>3. ASSUME NEW g \in Group PROVE Succession(g)' /\ Latest(g)'
  <2>1. PICK v, w : v = First(g) /\ w = Second(g)
    OBVIOUS
  <2>2. /\ v \in Worker /\ w \in Worker /\ v[1] = g /\ w[1] = g /\ v[2] = 1 /\ w[2] = 2
        /\ v # w
    BY <2>1, WorkerFacts
  <2>3. Succession(g) /\ Latest(g)
    BY DEF DaemonInv
  <2>4. taken[w] = None
    BY <1>1, <2>1, <2>3 DEF Succession
  <2>5. Succession(g)'
    BY <1>1, <2>1, <2>4 DEF Succession, First, Second
  <2>6. Current(g)' = w
    BY <1>1, <2>1 DEF Current, Second
  <2>7. CASE states[g] = None
    <3>1. queue'[v] = queue[v] /\ queue'[w] = queue[w]
      BY <1>1, <2>2, <2>7
    <3>2. \A u \in {v, w} : queue[u] = <<>> /\ taken[u] = None
      BY <2>1, <2>3, <2>7 DEF Latest
    <3>3. \A u \in {v, w} : queue'[u] = <<>> /\ taken'[u] = None
      BY <1>1, <3>1, <3>2
    <3>4. states'[g] = None
      BY <1>1, <2>7
    <3>5. (\A u \in {First(g), Second(g)} : queue[u] = <<>> /\ taken[u] = None)'
      BY <2>1, <3>3 DEF First, Second
    <3>6. Latest(g)'
      BY <3>4, <3>5 DEF Latest
    <3> QED BY <2>5, <3>6
  <2>8. CASE states[g] # None
    <3>1. queue'[w] = <<states[g]>>
      <4>1. queue'[w] = IF states[g] = None THEN queue[w]
                        ELSE IF w[2] = 1 THEN Append(queue[w], None) ELSE <<states[g]>>
        BY <1>1, <2>2
      <4>2. w[2] # 1
        BY <2>2
      <4> QED BY <2>8, <4>1, <4>2
    <3>2. queue'[w] # <<>> /\ queue'[w][Len(queue'[w])] = states[g]
      BY <3>1
    <3> QED BY <1>0, <1>1, <2>3, <2>5, <2>6, <2>8, <3>2 DEF Latest
  <2> QED BY <2>7, <2>8
<1>4. ASSUME NEW w \in Worker PROVE Applying(w)'
  BY <1>1 DEF DaemonInv, Applying
<1> QED BY <1>2, <1>3, <1>4 DEF DaemonInv

\* A worker takes the next item of its queue: a state, or the end.
LEMMA NextItemDaemon ==
  ASSUME ApplyInv, DaemonInv, ~ Overlapping, NEW w \in Worker, Terminate(w) \/ Take(w)
  PROVE  DaemonInv'
<1>0. ProcOK /\ config' = config /\ continue' = continue
  BY DEF ApplyInv, Base, Terminate, Take, resolver
<1>1. PICK q, g : q = queue[w] /\ g = w[1] /\ g \in Group /\ w \in {First(g), Second(g)}
  BY WorkerFacts
<1>2. /\ at[w] = "idle" /\ q # <<>> /\ queue'[w] = Tail(q) /\ states' = states
      /\ reloaded' = reloaded /\ pc' = pc /\ r' = r
      /\ w # Cli /\ at'[Cli] = at[Cli]
      /\ \A v \in Worker \ {w} : /\ queue'[v] = queue[v] /\ at'[v] = at[v]
                                 /\ taken'[v] = taken[v] /\ stage'[v] = stage[v]
  BY <1>0, <1>1, ProcessFacts DEF Terminate, Take, resolver, ProcOK
<1>3. /\ Head(q) = None /\ at'[w] = "ended" /\ taken'[w] = taken[w] /\ stage'[w] = stage[w]
      \/ /\ Head(q) # None /\ at'[w] = "links" /\ taken'[w] = Head(q) /\ MayStart(w)
         /\ pc = "return"
  BY <1>0, <1>1, ProcessFacts DEF Terminate, Take, ProcOK
<1>4. /\ q \in Seq(State \cup {None})
      /\ Tail(q) = <<>> => q[Len(q)] = Head(q)
      /\ Tail(q) # <<>> => Tail(q)[Len(Tail(q))] = q[Len(q)]
  <2>1. q \in Seq(State \cup {None})
    BY <1>0, <1>1 DEF ProcOK
  <2> QED BY <1>2, <2>1, TailLast
<1>5. Daemon'
  BY <1>0, <1>2, <1>3 DEF DaemonInv, Daemon
<1>6. ASSUME NEW h \in Group, h # g PROVE Succession(h)' /\ Latest(h)'
  <2>1. w # First(h) /\ w # Second(h) /\ First(h) \in Worker /\ Second(h) \in Worker
    BY <1>1, <1>6, WorkerFacts
  <2>2. Succession(h) /\ Latest(h)
    BY DEF DaemonInv
  <2>3. \A v \in {First(h), Second(h)} :
          at'[v] = at[v] /\ queue'[v] = queue[v] /\ taken'[v] = taken[v]
    BY <1>2, <2>1
  <2> QED BY <1>0, <1>2, <2>2, <2>3, GroupQuiet
<1>7. Succession(g) /\ Latest(g) /\ First(g) # Second(g)
      /\ First(g) \in Worker /\ Second(g) \in Worker
  BY <1>1, WorkerFacts DEF DaemonInv
<1>8. Succession(g)'
  <2>1. CASE w = First(g)
    <3>1. queue'[Second(g)] = queue[Second(g)] /\ taken'[Second(g)] = taken[Second(g)]
      BY <1>2, <1>7, <2>1
    <3>2. taken[Second(g)] # None => q = <<>>
      BY <1>1, <1>2, <1>7, <2>1 DEF Succession, AtEnd
    <3> QED BY <1>2, <1>7, <3>1, <3>2 DEF Succession, First, Second
  <2>2. CASE w = Second(g)
    <3>1. reloaded
      BY <1>1, <1>2, <1>7, <2>2 DEF Succession
    <3>2. at'[First(g)] = at[First(g)] /\ queue'[First(g)] = queue[First(g)]
      BY <1>2, <1>7, <2>2
    <3>3. taken'[w] # None => AtEnd(First(g))
      <4>1. CASE MayStart(w)
        <5>1. w[1] = g /\ w[2] # 1
          BY <1>1, <2>2, WorkerFacts
        <5>2. \/ at[First(g)] \in {"ended", "raised"}
              \/ at[First(g)] = "idle" /\ queue[First(g)] = <<>>
          BY <4>1, <5>1 DEF MayStart, First
        <5> QED BY <1>7, <5>2 DEF AtEnd, DaemonInv, Daemon
      <4>2. CASE taken'[w] = taken[w]
        BY <1>7, <2>2, <4>2 DEF Succession
      <4> QED BY <1>3, <4>1, <4>2
    <3>4. AtEnd(First(g)) => AtEnd(First(g))'
      BY <3>2 DEF AtEnd, First
    <3> QED BY <1>2, <2>2, <3>1, <3>3, <3>4 DEF Succession, First, Second
  <2> QED BY <1>1, <2>1, <2>2
<1>9. Latest(g)'
  <2>1. states[g] # None
    BY <1>1, <1>2, <1>7 DEF Latest
  <2>2. PICK c : c = Current(g) /\ c \in {First(g), Second(g)} /\ c \in Worker
    BY <1>1, WorkerFacts
  <2>3. Current(g)' = c
    BY <1>2, <2>2 DEF Current
  <2>4. CASE w = c
    <3>1. q[Len(q)] = states[g] /\ g \in config.who
      BY <1>1, <1>2, <1>7, <2>1, <2>2, <2>4 DEF Latest
    <3>2. Tail(q) = <<>> => taken'[w] = states[g]
      BY <1>3, <1>4, <2>1, <3>1
    <3> QED BY <1>0, <1>2, <1>4, <2>1, <2>3, <2>4, <3>1, <3>2 DEF Latest
  <2>5. CASE w # c
    <3>1. queue'[c] = queue[c] /\ taken'[c] = taken[c]
      BY <1>2, <2>2, <2>5
    <3> QED BY <1>0, <1>2, <1>7, <2>1, <2>2, <2>3, <3>1 DEF Latest
  <2> QED BY <2>4, <2>5
<1>10. ASSUME NEW v \in Worker PROVE Applying(v)'
  <2>1. Applying(v)
    BY DEF DaemonInv
  <2> QED BY <1>2, <1>3, <2>1 DEF Applying
<1> QED BY <1>5, <1>6, <1>8, <1>9, <1>10 DEF DaemonInv

\* Whatever a step does, a state that a group has is applied in the end.
LEMMA DaemonStep ==
  ASSUME ApplyInv, ~ Overlapping, AllKnown, DaemonInv, ApplyNext
  PROVE  DaemonInv'
<1>0. /\ IInv /\ ConfigOK /\ ProcOK /\ Position /\ Cli \notin Worker /\ Worker \subseteq Process
      /\ config' = config /\ continue' = continue
  BY ProcessFacts, ResolverStep DEF ApplyInv, Base
<1>1. \A p \in Process, x \in Item : ~ UnknownNetns(p, x)
  <2> SUFFICES ASSUME NEW p \in Process, NEW x \in Item, x \in left[p], ~ Known(x) PROVE FALSE
    BY DEF UnknownNetns, Follows
  <2>1. stage[p] \in 1 .. Len(r) /\ x \in r[stage[p]]
    BY <1>0 DEF Position, ProcOK, IInv, TypeOK
  <2>2. x \in Items
    BY <1>0, <2>1 DEF IInv, Resolution, Staged
  <2> QED BY <2>2 DEF AllKnown
<1>2. CASE Resolve
  <2>1. /\ pc = "resolve" /\ at' = at /\ stage' = stage /\ taken' = taken
        /\ queue' = queue /\ states' = states /\ reloaded' = reloaded
    BY <1>2 DEF Resolve, Next, Stage, Done, Circular, procVars, daemonVars
  <2>2. reloaded => at'[Cli] = "done"
    BY <2>1 DEF DaemonInv, Daemon
  <2> QED BY <1>0, <2>1, <2>2, DaemonQuiet
<1>3. CASE \/ Update \/ PrepareNetns \/ BeginLinks \/ \E x \in Item : RemoveOrphan(x)
  <2>1. /\ UNCHANGED <<r, pc, stage, taken, daemonVars>> /\ at[Cli] # "done"
        /\ at' = at \/ \E m : at' = [at EXCEPT ![Cli] = m]
    BY <1>3 DEF Update, PrepareNetns, BeginLinks, RemoveOrphan, resolver
  <2>2. \A w \in Worker : at'[w] = at[w]
    BY <1>0, <2>1 DEF ProcOK
  <2>3. ~ reloaded
    BY <2>1 DEF DaemonInv, Daemon
  <2> QED BY <1>0, <2>1, <2>2, <2>3, DaemonQuiet DEF daemonVars
<1>4. CASE \E g \in Group, s \in State : Notify(g, s)
  BY <1>4, NotifyDaemon
<1>5. CASE Reload
  BY <1>5, ReloadDaemon
<1>6. CASE \E w \in Worker : Terminate(w) \/ Take(w)
  BY <1>6, NextItemDaemon
<1>7. ASSUME NEW p \in Process, NEW x \in Item, Configure(p, x) \/ Skip(p, x)
      PROVE  DaemonInv'
  <2>1. /\ at' = at /\ stage' = stage /\ taken' = taken /\ r' = r /\ pc' = pc
        /\ queue' = queue /\ states' = states /\ reloaded' = reloaded
    BY <1>7 DEF Configure, Skip, resolver, daemonVars
  <2>2. reloaded => at'[Cli] = "done"
    BY <2>1 DEF DaemonInv, Daemon
  <2> QED BY <1>0, <2>1, <2>2, DaemonQuiet
<1>8. CASE NextStage(Cli) \/ Finish(Cli)
  <2>1. /\ UNCHANGED <<taken, daemonVars, r, pc>> /\ at[Cli] = "links"
        /\ \A w \in Worker : at'[w] = at[w] /\ stage'[w] = stage[w]
    BY <1>0, <1>8 DEF NextStage, Finish, resolver, ProcOK
  <2>2. ~ reloaded
    BY <2>1 DEF DaemonInv, Daemon
  <2> QED BY <1>0, <2>1, <2>2, DaemonQuiet DEF daemonVars
<1>9. ASSUME NEW w \in Worker, NextStage(w) \/ Finish(w) PROVE DaemonInv'
  <2>1. /\ UNCHANGED <<taken, daemonVars, r, pc>> /\ at[w] = "links" /\ at'[Cli] = at[Cli]
        /\ \A v \in Worker \ {w} : at'[v] = at[v] /\ stage'[v] = stage[v]
        /\ \/ at'[w] = "links"
           \/ at'[w] = "idle" /\ stage'[w] = Len(r)
    <3>1. CASE NextStage(w)
      BY <1>0, <3>1 DEF NextStage, resolver, ProcOK
    <3>2. CASE Finish(w)
      BY <1>0, <3>2 DEF Finish, resolver, ProcOK
    <3> QED BY <1>9, <3>1, <3>2
  <2>2. Daemon'
    BY <1>0, <2>1 DEF DaemonInv, Daemon, daemonVars
  <2>3. ASSUME NEW v \in Worker PROVE Applying(v)'
    BY <2>1 DEF DaemonInv, Applying
  <2>4. ASSUME NEW g \in Group PROVE Succession(g)' /\ Latest(g)'
    <3>1. Succession(g) /\ Latest(g) /\ First(g) \in Worker /\ Second(g) \in Worker
      BY WorkerFacts DEF DaemonInv
    <3>2. Latest(g)'
      BY <1>0, <2>1, <3>1 DEF Latest, Current, First, Second, daemonVars
    <3>3. AtEnd(First(g)) => AtEnd(First(g))'
      <4>1. AtEnd(First(g)) => First(g) # w
        BY <2>1 DEF AtEnd
      <4>2. First(g) # w => at'[First(g)] = at[First(g)]
        BY <2>1, <3>1
      <4> QED BY <2>1, <4>1, <4>2 DEF AtEnd, daemonVars, First
    <3>4. Succession(g)'
      BY <2>1, <3>1, <3>3 DEF Succession, First, Second, daemonVars
    <3> QED BY <3>2, <3>4
  <2> QED BY <2>2, <2>3, <2>4 DEF DaemonInv
<1>10. \A p \in Process : p = Cli \/ p \in Worker
  BY ProcessFacts
<1> QED BY <1>1, <1>2, <1>3, <1>4, <1>5, <1>6, <1>7, <1>8, <1>9, <1>10 DEF ApplyNext, Step


-----------------------------------------------------------------------------
(* The links of a group                                                    *)

\* What a step leaves alone that is not one of a worker of group g.
GroupLinksKept(g) ==
  /\ \A x \in Existing' \cap Configured : config.links[x].group = g => x \in Existing
  /\ \A x \in Existing \cap Configured : config.links[x].group = g =>
       /\ x \in Existing' /\ kernel'.links[x].up = kernel.links[x].up
       /\ \A a \in DOMAIN kernel.links[x].over : kernel.links[x].over[a] \in Configured =>
            /\ a \in DOMAIN kernel'.links[x].over
            /\ kernel'.links[x].over[a] = kernel.links[x].over[a]

\* What a step leaves alone of worker w.
WorkerQuiet(w) ==
  /\ at'[w] = "links" => at[w] = "links"
  /\ reg'[w] = reg[w] /\ down'[w] = down[w] /\ taken'[w] = taken[w]
  /\ taken[w] # None =>
       /\ r' = r
       /\ \A x \in Configured : config.links[x].group = w[1] /\ x \in Reached(w)' => x \in Reached(w)

LEMMA AsItWas ==
  ASSUME NEW w \in Worker, NEW x \in Configured, config.links[x].group = w[1],
         AsItShouldBe(w, x), GroupLinksKept(w[1]), config' = config, r' = r,
         taken'[w] = taken[w]
  PROVE  AsItShouldBe(w, x)'
<1>1. PICK g : g = w[1]
  OBVIOUS
<1>2. Reliable(g)' = Reliable(g)
  BY DEF Reliable, Configured, Staged, IsVrrp
<1>3. x \in Existing /\ x \in Existing' /\ kernel'.links[x].up = kernel.links[x].up
  BY DEF AsItShouldBe, GroupLinksKept
<1>4. ASSUME Complete(x), UsedBy(config.links[x].uses) \subseteq Reliable(g)
      PROVE  Complete(x)'
  <2>1. \A a \in DOMAIN config.links[x].uses : config.links[x].uses[a] \in Configured
    BY <1>4 DEF UsedBy, Reliable
  <2>2. \A a \in DOMAIN config.links[x].uses :
          /\ a \in DOMAIN kernel.links[x].over
          /\ kernel.links[x].over[a] = config.links[x].uses[a]
          /\ a \in DOMAIN kernel'.links[x].over
          /\ kernel'.links[x].over[a] = kernel.links[x].over[a]
    BY <1>3, <1>4, <2>1 DEF Complete, GroupLinksKept
  <2> QED BY <1>3, <1>4, <2>2 DEF Complete
<1> QED BY <1>1, <1>2, <1>3, <1>4 DEF AsItShouldBe

LEMMA StillRight ==
  ASSUME NEW w \in Worker, Right(w), WorkerQuiet(w), GroupLinksKept(w[1]), config' = config,
         taken[Second(w[1])] # None => taken'[Second(w[1])] # None
  PROVE  Right(w)'
<1> SUFFICES ASSUME taken'[w] # None, w[2] = 1 => taken'[Second(w[1])] = None,
                    NEW x \in Reached(w)' \cap Configured', config'.links[x].group = w[1]
             PROVE  AsItShouldBe(w, x)'
  BY DEF Right, Second
<1>1. taken[w] # None /\ r' = r /\ x \in Configured /\ config.links[x].group = w[1]
      /\ taken'[w] = taken[w]
  BY DEF WorkerQuiet, Configured
<1>2. x \in Reached(w)
  BY <1>1 DEF WorkerQuiet
<1>3. w[2] = 1 => taken[Second(w[1])] = None
  OBVIOUS
<1>4. AsItShouldBe(w, x)
  BY <1>1, <1>2, <1>3 DEF Right
<1> QED BY <1>1, <1>4, AsItWas

LEMMA StillKnows ==
  ASSUME NEW w \in Worker, Knows(w), WorkerQuiet(w), config' = config,
         \A x \in Existing' \cap Configured : config.links[x].group = w[1] => x \in Existing
  PROVE  Knows(w)'
<1> SUFFICES ASSUME at'[w] = "links"
             PROVE  /\ \A x \in Existing' \cap Configured : config.links[x].group = w[1] => x \in reg'[w]
                    /\ \A x \in down'[w] : taken'[w] \notin config.links[x].states
  BY DEF Knows, Configured
<1>1. at[w] = "links" /\ reg'[w] = reg[w] /\ down'[w] = down[w] /\ taken'[w] = taken[w]
  BY DEF WorkerQuiet
<1> QED BY <1>1 DEF Knows

\* A step that no worker makes, or that configures nothing.
LEMMA LinksQuiet ==
  ASSUME LinksInv, config' = config, \A w \in Worker : WorkerQuiet(w),
         \A g \in Group : GroupLinksKept(g), Existing \cap Configured \subseteq Existing'
  PROVE  LinksInv'
<1>1. Standing'
  BY DEF LinksInv, Standing, Configured
<1>2. ASSUME NEW w \in Worker PROVE Knows(w)' /\ Right(w)'
  <2>1. PICK g, v : g = w[1] /\ v = Second(g)
    OBVIOUS
  <2>2. g \in Group /\ v \in Worker
    BY <2>1, WorkerFacts
  <2>3. GroupLinksKept(g) /\ WorkerQuiet(w) /\ taken'[v] = taken[v]
    BY <2>2 DEF WorkerQuiet
  <2>4. Knows(w) /\ Right(w)
    BY DEF LinksInv
  <2>5. Knows(w)'
    BY <2>1, <2>3, <2>4, StillKnows DEF GroupLinksKept
  <2>6. Right(w)'
    BY <2>1, <2>3, <2>4, StillRight
  <2> QED BY <2>5, <2>6
<1> QED BY <1>1, <1>2 DEF LinksInv

LEMMA SameLinks ==
  ASSUME kernel'.links = kernel.links
  PROVE  /\ \A g \in Group : GroupLinksKept(g)
         /\ Existing \cap Configured \subseteq Existing'
BY DEF GroupLinksKept, Existing

LEMMA OrphanLinks ==
  ASSUME Base, NEW y, RemoveOrphan(y)
  PROVE  /\ \A g \in Group : GroupLinksKept(g)
         /\ Existing \cap Configured \subseteq Existing'
<1>0. KernelOK /\ y \notin Configured
  BY DEF Base, RemoveOrphan, IsOrphan
<1>1. kernel'.links = LinksWithout(y) /\ Existing' = Existing \ {y}
  BY <1>0, RemoveStep
<1>2. \A z \in Existing \ {y} :
        /\ LinksWithout(y)[z].up = kernel.links[z].up
        /\ \A a \in DOMAIN kernel.links[z].over : kernel.links[z].over[a] # y =>
             /\ a \in DOMAIN LinksWithout(y)[z].over
             /\ LinksWithout(y)[z].over[a] = kernel.links[z].over[a]
  BY <1>0, WithoutFacts
<1>3. \A x \in Existing \cap Configured : x \in Existing \ {y}
  BY <1>0
<1>4. \A x \in Existing \cap Configured :
        /\ kernel'.links[x].up = kernel.links[x].up
        /\ \A a \in DOMAIN kernel.links[x].over : kernel.links[x].over[a] # y =>
             /\ a \in DOMAIN kernel'.links[x].over
             /\ kernel'.links[x].over[a] = kernel.links[x].over[a]
  BY <1>1, <1>2, <1>3
<1> QED BY <1>0, <1>1, <1>3, <1>4 DEF GroupLinksKept

\* What configuring a link does to the others.
LEMMA ConfigureOthers ==
  ASSUME Base, NEW p \in Process, NEW y \in Item, Configure(p, y)
  PROVE  /\ \A x \in Existing \ {y} : x \in Existing' /\ kernel'.links[x] = kernel.links[x]
         /\ Existing \subseteq Existing' /\ Existing' \subseteq Existing \cup {y}
         /\ y \in Configured
<1>0. KernelOK /\ ConfigOK /\ y \in Configured
  BY DEF Base, Configure, Selected
<1>1. CASE ~ continue
  BY <1>0, <1>1, ConfigureStep DEF Existing
<1>2. CASE continue
  <2>1. PICK off : off = down'[p]
    OBVIOUS
  <2>2. kernel'.links = Effect(p, y, off) /\ Existing' = Existing \cup {y}
    BY <1>0, <1>2, <2>1, ConfigureStep
  <2>3. \A x \in Existing \ {y} : Effect(p, y, off)[x] = kernel.links[x]
    BY EffectElsewhere
  <2> QED BY <1>0, <2>2, <2>3
<1> QED BY <1>1, <1>2

LEMMA ConfigureLinks ==
  ASSUME Base, NEW p \in Process, NEW y \in Item, Configure(p, y)
  PROVE  /\ \A g \in Group : config.links[y].group # g => GroupLinksKept(g)
         /\ Existing \cap Configured \subseteq Existing'
<1>1. /\ \A x \in Existing \ {y} : x \in Existing' /\ kernel'.links[x] = kernel.links[x]
      /\ Existing \subseteq Existing' /\ Existing' \subseteq Existing \cup {y}
  BY ConfigureOthers
<1> QED BY <1>1 DEF GroupLinksKept

LEMMA EffectDown ==
  ASSUME KernelOK, ConfigOK, NEW x \in Configured, NEW p, NEW off,
         x \in Existing => x \in reg[p], x \in off
  PROVE  ~ Effect(p, x, off)[x].up
<1>1. Effect(p, x, off)[x] = [up |-> FALSE, over |-> Attached(x)]
  BY DEF Effect
<1> QED BY <1>1

\* A worker that takes a state has been nowhere; the one before it does not count.
LEMMA TakeLinks ==
  ASSUME ApplyInv, DaemonInv, LinksInv, NEW w \in Worker, Take(w)
  PROVE  LinksInv'
<1>0. PICK g : g = w[1] /\ g \in Group /\ w \in {First(g), Second(g)}
  BY WorkerFacts
<1>1. /\ KernelOK /\ ProcOK /\ Position /\ config' = config /\ r' = r /\ w \in Process
      /\ at[w] = "idle" /\ queue[w] # <<>>
  BY ProcessFacts DEF ApplyInv, Base, Take, resolver
<1>2. kernel'.links = kernel.links
  BY <1>1, SpacesStep DEF Take
<1>3. /\ \A h \in Group : GroupLinksKept(h)
      /\ Existing \cap Configured \subseteq Existing' /\ Existing' = Existing
  BY <1>2, SameLinks DEF Existing
<1>4. /\ reg'[w] = Existing /\ down'[w] = {} /\ stage'[w] = 0 /\ taken'[w] # None
  BY <1>1 DEF Take, ProcOK
<1>5. ASSUME NEW v \in Worker, v # w PROVE WorkerQuiet(v)
  <2>1. /\ at'[v] = at[v] /\ reg'[v] = reg[v] /\ down'[v] = down[v] /\ taken'[v] = taken[v]
        /\ left'[v] = left[v] /\ stage'[v] = stage[v]
    BY <1>1, <1>5, ProcessFacts DEF Take, ProcOK
  <2> QED BY <1>1, <2>1 DEF WorkerQuiet, Reached
<1>6. Standing'
  BY <1>1, <1>3 DEF LinksInv, Standing, Configured
<1>7. Knows(w)'
  BY <1>3, <1>4 DEF Knows
<1>8. Right(w)'
  <2>1. Reached(w)' = {}
    BY <1>4 DEF Reached
  <2> QED BY <2>1 DEF Right
<1>9. ASSUME NEW v \in Worker, v # w PROVE Knows(v)' /\ Right(v)'
  <2>0. PICK h : h = v[1] /\ h \in Group /\ v \in {First(h), Second(h)}
    BY WorkerFacts
  <2>1. Knows(v) /\ Right(v) /\ WorkerQuiet(v) /\ GroupLinksKept(h)
    BY <1>3, <1>5, <1>9, <2>0 DEF LinksInv
  <2>2. Knows(v)'
    BY <1>1, <1>3, <2>1, StillKnows
  <2>3. CASE h # g
    <3>1. Second(h) # w /\ Second(h) \in Worker
      BY <1>0, <2>0, <2>3, WorkerFacts
    <3>2. taken'[Second(h)] = taken[Second(h)]
      BY <1>5, <3>1 DEF WorkerQuiet
    <3> QED BY <1>1, <2>0, <2>1, <2>2, <3>2, StillRight
  <2>4. CASE h = g
    <3>1. CASE w = Second(g)
      <4>1. v = First(g) /\ v[2] = 1 /\ v[1] = g
        BY <1>0, <1>9, <2>0, <2>4, <3>1, WorkerFacts
      <4>2. taken'[Second(g)] # None
        BY <1>4, <3>1
      <4>3. ~ (v[2] = 1 => taken[Second(v[1])] = None)'
        BY <4>1, <4>2 DEF Second
      <4> QED BY <2>2, <4>3 DEF Right
    <3>2. CASE w = First(g)
      <4>1. v = Second(g)
        BY <1>0, <1>9, <2>0, <2>4, <3>2
      <4>2. taken[v] = None
        BY <1>0, <1>1, <3>2, <4>1 DEF DaemonInv, Succession, AtEnd
      <4>3. taken'[v] = None
        BY <2>1, <4>2 DEF WorkerQuiet
      <4> QED BY <2>2, <4>3 DEF Right
    <3> QED BY <1>0, <3>1, <3>2
  <2> QED BY <2>3, <2>4
<1> QED BY <1>6, <1>7, <1>8, <1>9 DEF LinksInv

\* What a worker that configures a link relies on.
LEMMA ReliableThere ==
  ASSUME ApplyInv, DaemonInv, LinksInv, NEW w \in Worker, NEW x \in Configured,
         at[w] = "links", x \in left[w], Cli \in config.who => w[2] = 2,
         UsedBy(config.links[x].uses) \subseteq Reliable(w[1]), continue
  PROVE  UsedBy(config.links[x].uses) \subseteq Existing
<1>0. PICK g : g = w[1] /\ g \in Group /\ w \in {First(g), Second(g)}
  BY WorkerFacts
<1>1. /\ IInv /\ ConfigOK /\ ProcOK /\ Position /\ CliInv /\ w \in Process
      /\ taken[w] # None
  BY ProcessFacts DEF ApplyInv, Base, DaemonInv, Applying
<1>2. w[2] = 1 => taken[Second(g)] = None
  BY <1>0, <1>1, WorkerFacts DEF DaemonInv, Succession, AtEnd
<1> SUFFICES ASSUME NEW y \in UsedBy(config.links[x].uses) PROVE y \in Existing
  OBVIOUS
<1>3. y \in Reliable(g) /\ y \in Configured /\ y \in Item /\ y \in Staged
  BY <1>0, <1>1, ConfigFacts DEF Reliable
<1>4. CASE config.links[y].group = g
  <2>1. y \in Needs(x)
    BY <1>1, ConfigFacts DEF Needs
  <2>2. /\ stage[w] \in 1 .. Len(r) /\ left[w] \subseteq r[stage[w]]
        /\ stage[w] \in Nat /\ Len(r) \in Nat
    <3>1. stage[w] \in Nat /\ Len(r) \in Nat
      BY <1>1 DEF ProcOK, IInv, TypeOK
    <3>2. stage[w] <= Len(r) /\ stage[w] > 0 /\ left[w] \subseteq r[stage[w]]
      BY <1>1 DEF Position
    <3> QED BY <3>1, <3>2
  <2>3. DependenciesFirst
    BY <1>1 DEF IInv
  <2>4. PICK j \in 1 .. stage[w] - 1 : y \in r[j]
    BY <2>1, <2>2, <2>3 DEF DependenciesFirst
  <2>5. y \notin left[w]
    BY <2>2, <2>3, <2>4 DEF DependenciesFirst
  <2>6. j \in 1 .. stage[w]
    BY <2>2, <2>4
  <2>7. y \in Reached(w)
    BY <1>3, <2>4, <2>5, <2>6 DEF Reached
  <2> QED BY <1>0, <1>1, <1>2, <1>3, <1>4, <2>7 DEF LinksInv, Right, AsItShouldBe
<1>5. CASE ~ IsVrrp(y) /\ Cli \in config.who
  <2>1. w = Second(g)
    BY <1>0, <1>5, WorkerFacts
  <2>2. at[Cli] = "done"
    <3>1. reloaded
      BY <1>0, <1>1, <2>1 DEF DaemonInv, Succession
    <3> QED BY <3>1 DEF DaemonInv, Daemon
  <2>3. left[Cli] = {} /\ stage[Cli] = Len(r)
    BY <1>1, <2>2 DEF CliInv, AllVisited
  <2>4. y \in Visited
    BY <1>3, <2>3 DEF Visited, Staged
  <2> QED BY <1>1, <1>3, <1>5, <2>2, <2>4 DEF CliInv, VisitedRight
<1>6. CASE y \in DOMAIN config.kernel.links
  BY <1>3, <1>6 DEF LinksInv, Standing
<1> QED BY <1>3, <1>4, <1>5, <1>6 DEF Reliable

\* A worker leaves a link as it should be in the state it applies.
LEMMA ConfiguredRight ==
  ASSUME ApplyInv, DaemonInv, LinksInv, NEW w \in Worker, NEW x \in Item, Configure(w, x)
  PROVE  /\ x \in Configured /\ config.links[x].group = w[1] /\ AsItShouldBe(w, x)'
         /\ x \in Existing' /\ taken'[w] = taken[w]
         /\ \A y \in down'[w] : taken[w] \notin config.links[y].states
<1>0. PICK g, off : g = w[1] /\ g \in Group /\ w \in {First(g), Second(g)} /\ off = down'[w]
  BY WorkerFacts
<1>1. /\ KernelOK /\ ConfigOK /\ ProcOK /\ w \in Process /\ w # Cli /\ at[w] = "links"
      /\ x \in left[w] /\ x \in Configured /\ config.links[x].group = g /\ config' = config
      /\ r' = r /\ taken' = taken /\ Knows(w)
  BY <1>0, ProcessFacts DEF ApplyInv, Base, Configure, Selected, Follows, resolver, LinksInv
<1>2. continue
  <2>1. taken[w] # None
    BY <1>1 DEF DaemonInv, Applying
  <2>2. states[g] # None
    BY <1>0, <2>1 DEF DaemonInv, Latest
  <2>3. g \in config.who /\ g # Cli
    BY <1>0, <2>2, WorkerFacts DEF DaemonInv, Latest
  <2> QED BY <2>3 DEF DaemonInv, Daemon
<1>3. kernel'.links = Effect(w, x, off) /\ Existing' = Existing \cup {x}
  BY <1>0, <1>1, <1>2, ConfigureStep
<1>4. x \in Existing => x \in reg[w]
  BY <1>0, <1>1 DEF Knows
<1>5. off = down[w] \cup (IF taken[w] \notin config.links[x].states THEN {x} ELSE {})
  BY <1>0, <1>1 DEF Configure, Disabled, ProcOK
<1>6. \A y \in down[w] : taken[w] \notin config.links[y].states
  BY <1>1 DEF Knows
<1>7. \A y \in off : taken[w] \notin config.links[y].states
  BY <1>5, <1>6
<1>8. ASSUME taken[w] \notin config.links[x].states PROVE ~ kernel'.links[x].up
  <2>1. x \in off
    BY <1>5, <1>8
  <2> QED BY <1>1, <1>3, <1>4, <2>1, EffectDown
<1>9. ASSUME taken[w] \in config.links[x].states, Cli \in config.who => w[2] = 2,
             UsedBy(config.links[x].uses) \subseteq Reliable(g)
      PROVE  Complete(x)'
  <2>1. UsedBy(config.links[x].uses) \subseteq Existing
    BY <1>0, <1>1, <1>2, <1>9, ReliableThere
  <2>2. x \notin off
    BY <1>7, <1>9
  <2>3. /\ Effect(w, x, off)[x].up
        /\ \A a \in DOMAIN config.links[x].uses :
             /\ a \in DOMAIN Effect(w, x, off)[x].over
             /\ Effect(w, x, off)[x].over[a] = config.links[x].uses[a]
    BY <1>1, <1>4, <2>1, <2>2, EffectComplete
  <2> QED BY <1>1, <1>3, <2>3 DEF Complete
<1>10. Reliable(g)' = Reliable(g)
  BY <1>1 DEF Reliable, Configured, Staged, IsVrrp
<1>11. AsItShouldBe(w, x)'
  BY <1>0, <1>1, <1>3, <1>8, <1>9, <1>10 DEF AsItShouldBe
<1> QED BY <1>0, <1>1, <1>3, <1>7, <1>11

LEMMA ConfigureWorker ==
  ASSUME ApplyInv, DaemonInv, LinksInv, NEW w \in Worker, NEW x \in Item, Configure(w, x)
  PROVE  LinksInv'
<1>0. PICK g : g = w[1] /\ g \in Group /\ w \in {First(g), Second(g)}
  BY WorkerFacts
<1>1. /\ ProcOK /\ Base /\ config' = config /\ r' = r /\ w \in Process /\ at' = at
      /\ stage' = stage /\ taken' = taken /\ at[w] = "links" /\ taken[w] # None
  BY ProcessFacts DEF ApplyInv, Base, Configure, Follows, resolver, DaemonInv, Applying
<1>2. /\ x \in Configured /\ config.links[x].group = g /\ AsItShouldBe(w, x)'
      /\ x \in Existing' /\ \A y \in down'[w] : taken[w] \notin config.links[y].states
  BY <1>0, ConfiguredRight
<1>3. /\ \A y \in Existing \ {x} : y \in Existing' /\ kernel'.links[y] = kernel.links[y]
      /\ Existing \subseteq Existing' /\ Existing' \subseteq Existing \cup {x}
  BY <1>1, ConfigureOthers
<1>4. \A h \in Group : h # g => GroupLinksKept(h)
  BY <1>1, <1>2, ConfigureLinks
<1>5. ASSUME NEW v \in Worker, v # w PROVE WorkerQuiet(v)
  <2>1. /\ at'[v] = at[v] /\ reg'[v] = reg[v] /\ down'[v] = down[v] /\ taken'[v] = taken[v]
        /\ left'[v] = left[v] /\ stage'[v] = stage[v]
    BY <1>1, <1>5, ProcessFacts DEF Configure, ProcOK
  <2> QED BY <1>1, <2>1 DEF WorkerQuiet, Reached
<1>6. Standing'
  BY <1>1, <1>3 DEF LinksInv, Standing, Configured
<1>7. Knows(w)'
  <2>1. reg'[w] = IF x \in Existing THEN reg[w] ELSE reg[w] \cup {x}
    BY <1>1 DEF Configure, ProcOK
  <2>2. \A y \in Existing \cap Configured : config.links[y].group = g => y \in reg[w]
    BY <1>0, <1>1 DEF LinksInv, Knows
  <2>3. \A y \in Existing' \cap Configured : config.links[y].group = g => y \in reg'[w]
    BY <1>3, <2>1, <2>2
  <2> QED BY <1>0, <1>1, <1>2, <2>3 DEF Knows, Configured
<1>8. Right(w)'
  <2> SUFFICES ASSUME w[2] = 1 => taken'[Second(g)] = None,
                      NEW y \in Reached(w)' \cap Configured', config'.links[y].group = g
               PROVE  AsItShouldBe(w, y)'
    BY <1>0 DEF Right, Second
  <2>1. y \in Configured /\ config.links[y].group = g
    BY <1>1 DEF Configured
  <2>2. CASE y = x
    BY <1>2, <2>2
  <2>3. CASE y # x
    <3>1. left'[w] = left[w] \ {x}
      BY <1>1 DEF Configure, ProcOK
    <3>2. y \in Reached(w)
      BY <1>1, <2>3, <3>1 DEF Reached
    <3>3. AsItShouldBe(w, y)
      BY <1>0, <1>1, <2>1, <3>2 DEF LinksInv, Right
    <3>4. y \in Existing' /\ kernel'.links[y] = kernel.links[y]
      BY <1>3, <2>3, <3>3 DEF AsItShouldBe
    <3>5. Reliable(g)' = Reliable(g)
      BY <1>1 DEF Reliable, Configured, Staged, IsVrrp
    <3> QED BY <1>0, <1>1, <3>3, <3>4, <3>5 DEF AsItShouldBe, Complete
  <2> QED BY <2>2, <2>3
<1>9. ASSUME NEW v \in Worker, v # w PROVE Knows(v)' /\ Right(v)'
  <2>0. PICK h : h = v[1] /\ h \in Group /\ v \in {First(h), Second(h)}
    BY WorkerFacts
  <2>1. Knows(v) /\ Right(v) /\ WorkerQuiet(v)
    BY <1>5, <1>9 DEF LinksInv
  <2>2. CASE h # g
    <3>1. GroupLinksKept(h)
      BY <1>4, <2>0, <2>2
    <3>2. taken'[Second(h)] = taken[Second(h)]
      BY <1>1
    <3>3. \A y \in Existing' \cap Configured : config.links[y].group = h => y \in Existing
      BY <3>1 DEF GroupLinksKept
    <3> QED BY <1>1, <2>0, <2>1, <3>1, <3>2, <3>3, StillRight, StillKnows
  <2>3. CASE h = g
    <3>1. Succession(g) /\ Applying(v)
      BY <1>0 DEF DaemonInv
    <3>2. CASE w = Second(g)
      <4>1. v = First(g) /\ v[2] = 1 /\ v[1] = g
        BY <1>0, <1>9, <2>0, <2>3, <3>2, WorkerFacts
      <4>2. at'[v] # "links"
        BY <1>1, <3>1, <3>2, <4>1 DEF Succession, AtEnd
      <4>3. ~ (v[2] = 1 => taken[Second(v[1])] = None)'
        BY <1>1, <3>2, <4>1 DEF Second
      <4> QED BY <4>2, <4>3 DEF Right, Knows
    <3>3. CASE w = First(g)
      <4>1. v = Second(g)
        BY <1>0, <1>9, <2>0, <2>3, <3>3
      <4>2. taken[v] = None
        BY <1>1, <3>1, <3>3, <4>1 DEF Succession, AtEnd
      <4>3. taken'[v] = None /\ at'[v] # "links"
        BY <1>1, <3>1, <4>2 DEF Applying
      <4> QED BY <4>3 DEF Right, Knows
    <3> QED BY <1>0, <3>2, <3>3
  <2> QED BY <2>2, <2>3
<1> QED BY <1>6, <1>7, <1>8, <1>9 DEF LinksInv

\* Every other step leaves the links of the groups as they are.
LEMMA LinksStepKeeps ==
  ASSUME ApplyInv, AllKnown, DaemonInv, LinksInv, ApplyNext
  PROVE  LinksInv'
<1>0. /\ Base /\ IInv /\ KernelOK /\ ProcOK /\ Position /\ config' = config
      /\ Worker \subseteq Process /\ Cli \in Process /\ Cli \notin Worker
  BY ProcessFacts, ResolverStep DEF ApplyInv, Base
<1>1. ASSUME \A w \in Worker :
               /\ at'[w] = "links" => at[w] = "links"
               /\ reg'[w] = reg[w] /\ down'[w] = down[w] /\ taken'[w] = taken[w]
               /\ left'[w] = left[w] /\ stage'[w] = stage[w],
             pc = "return" => r' = r
      PROVE  \A w \in Worker : WorkerQuiet(w)
  BY <1>1 DEF WorkerQuiet, Reached, DaemonInv, Applying
<1>2. CASE Resolve \/ BeginLinks \/ Reload \/ \E g \in Group, s \in State : Notify(g, s)
  <2>1. /\ kernel' = kernel /\ (pc = "return" => r' = r) /\ reg' = reg /\ down' = down
        /\ taken' = taken /\ left' = left /\ stage' = stage
        /\ \A w \in Worker : at'[w] = at[w]
    BY <1>0, <1>2 DEF Resolve, Next, Stage, Done, Circular, procVars, BeginLinks, Reload, Notify,
                     resolver, ProcOK
  <2> QED BY <1>0, <1>1, <2>1, SameLinks, LinksQuiet
<1>3. CASE Update \/ PrepareNetns
  <2>1. /\ r' = r /\ down' = down /\ taken' = taken /\ left' = left /\ stage' = stage
        /\ \A w \in Worker : at'[w] = at[w] /\ reg'[w] = reg[w]
        /\ \E S : kernel' = [kernel EXCEPT !.spaces = S]
    BY <1>0, <1>3 DEF Update, PrepareNetns, resolver, ProcOK
  <2>2. kernel'.links = kernel.links
    BY <1>0, <2>1, SpacesStep
  <2> QED BY <1>0, <1>1, <2>1, <2>2, SameLinks, LinksQuiet
<1>4. ASSUME NEW y \in Item, RemoveOrphan(y) PROVE LinksInv'
  <2>1. /\ r' = r /\ down' = down /\ taken' = taken /\ left' = left /\ stage' = stage
        /\ at' = at /\ \A w \in Worker : reg'[w] = reg[w]
    BY <1>0, <1>4 DEF RemoveOrphan, resolver, ProcOK
  <2> QED BY <1>0, <1>1, <1>4, <2>1, OrphanLinks, LinksQuiet
<1>5. ASSUME NEW w \in Worker, Terminate(w) PROVE LinksInv'
  <2>1. /\ kernel' = kernel /\ r' = r /\ reg' = reg /\ down' = down
        /\ taken' = taken /\ left' = left /\ stage' = stage
        /\ \A v \in Worker : at'[v] = "links" => at[v] = "links"
    BY <1>0, <1>5 DEF Terminate, resolver, ProcOK
  <2> QED BY <1>0, <1>1, <2>1, SameLinks, LinksQuiet
<1>6. ASSUME NEW w \in Worker, Take(w) PROVE LinksInv'
  BY <1>6, TakeLinks
<1>7. ASSUME NEW w \in Worker, NEW x \in Item, Configure(w, x) PROVE LinksInv'
  BY <1>7, ConfigureWorker
<1>8. ASSUME NEW x \in Item, Configure(Cli, x) PROVE LinksInv'
  <2>1. /\ r' = r /\ taken' = taken /\ stage' = stage /\ at' = at
        /\ \A w \in Worker : left'[w] = left[w] /\ down'[w] = down[w] /\ reg'[w] = reg[w]
    BY <1>0, <1>8 DEF Configure, resolver, ProcOK
  <2>2. \A g \in Group : config.links[x].group # g
    BY <1>8, ProcessAssumption DEF Configure, Selected, IsVrrp
  <2>3. /\ \A g \in Group : GroupLinksKept(g)
        /\ Existing \cap Configured \subseteq Existing'
    BY <1>0, <1>8, <2>2, ConfigureLinks
  <2> QED BY <1>0, <1>1, <2>1, <2>3, LinksQuiet
<1>9. CASE NextStage(Cli) \/ Finish(Cli) \/ \E x \in Item : Skip(Cli, x) \/ UnknownNetns(Cli, x)
  <2>1. /\ kernel' = kernel /\ r' = r /\ taken' = taken /\ reg' = reg /\ down' = down
        /\ \A w \in Worker : left'[w] = left[w] /\ stage'[w] = stage[w] /\ at'[w] = at[w]
    BY <1>0, <1>9 DEF NextStage, Finish, Skip, UnknownNetns, resolver, ProcOK
  <2> QED BY <1>0, <1>1, <2>1, SameLinks, LinksQuiet
\* The steps of a worker that configure nothing: it comes past no link of its group.
<1>10. ASSUME NEW w \in Worker,
              NextStage(w) \/ Finish(w) \/ \E x \in Item : Skip(w, x) \/ UnknownNetns(w, x)
       PROVE  LinksInv'
  <2>1. /\ kernel' = kernel /\ r' = r /\ taken' = taken /\ reg' = reg /\ down' = down
        /\ \A v \in Worker \ {w} : left'[v] = left[v] /\ stage'[v] = stage[v] /\ at'[v] = at[v]
        /\ at[w] = "links"
    BY <1>0, <1>10 DEF NextStage, Finish, Skip, UnknownNetns, Follows, resolver, ProcOK
  <2>2. \A v \in Worker \ {w} : WorkerQuiet(v)
    BY <2>1 DEF WorkerQuiet, Reached
  <2>3. ASSUME NEW y \in Configured, config.links[y].group = w[1], y \in Reached(w)'
        PROVE  y \in Reached(w)
    <3>1. CASE NextStage(w)
      <4>1. /\ left[w] = {} /\ stage[w] \in Nat /\ stage'[w] = stage[w] + 1
            /\ left'[w] = r[stage[w] + 1]
        BY <1>0, <3>1 DEF NextStage, ProcOK
      <4>2. PICK i \in 1 .. stage[w] + 1 : y \in r[i] /\ y \notin r[stage[w] + 1] /\ y \in Item
        BY <2>1, <2>3, <4>1 DEF Reached
      <4>3. i \in 1 .. stage[w]
        BY <4>1, <4>2
      <4> QED BY <4>1, <4>2, <4>3 DEF Reached
    <3>2. CASE Finish(w)
      BY <2>1, <2>3, <3>2 DEF Finish, Reached
    <3>3. ASSUME NEW x \in Item, Skip(w, x) PROVE y \in Reached(w)
      <4>1. x \notin Configured \/ config.links[x].group # w[1]
        BY <1>0, <3>3 DEF Skip, Selected
      <4>2. left'[w] = left[w] \ {x} /\ stage' = stage /\ x # y
        BY <1>0, <2>3, <3>3, <4>1 DEF Skip, ProcOK
      <4> QED BY <2>1, <2>3, <4>2 DEF Reached
    <3>4. ASSUME NEW x \in Item, UnknownNetns(w, x) PROVE FALSE
      <4>1. x \in left[w] /\ ~ Known(x)
        BY <3>4 DEF UnknownNetns, Follows
      <4>2. stage[w] \in 1 .. Len(r) /\ x \in r[stage[w]]
        BY <1>0, <4>1 DEF Position, ProcOK, IInv, TypeOK
      <4>3. x \in Items
        BY <1>0, <4>2 DEF IInv, Resolution, Staged
      <4> QED BY <4>1, <4>3 DEF AllKnown
    <3> QED BY <1>10, <3>1, <3>2, <3>3, <3>4
  <2>4. WorkerQuiet(w)
    BY <2>1, <2>3 DEF WorkerQuiet
  <2> QED BY <1>0, <2>1, <2>2, <2>4, SameLinks, LinksQuiet
<1>11. \A p \in Process : p = Cli \/ p \in Worker
  BY ProcessFacts
<1> QED BY <1>2, <1>3, <1>4, <1>5, <1>6, <1>7, <1>8, <1>9, <1>10, <1>11 DEF ApplyNext, Step

-----------------------------------------------------------------------------
(* The links follow the states                                             *)

LEMMA InitGroupInv == ApplyInit => GroupInv
<1> SUFFICES ASSUME ApplyInit PROVE DaemonInv /\ LinksInv
  BY DEF GroupInv
<1>1. /\ at = [p \in Process |-> "idle"] /\ taken = [p \in Process |-> None] /\ ~ reloaded
      /\ queue = [w \in Worker |-> <<>>] /\ states = [g \in Group |-> None]
      /\ kernel = config.kernel /\ (config.who \subseteq {Cli} \/ continue)
  <2>1. ~ (config.who \subseteq {Cli}) => continue = TRUE
    BY DEF ApplyInit
  <2> QED BY <2>1 DEF ApplyInit
<1>2. \A w \in Worker : at[w] = "idle" /\ taken[w] = None /\ queue[w] = <<>>
  BY <1>1, ProcessFacts
<1>3. \A g \in Group : Succession(g) /\ Latest(g)
  BY <1>1, <1>2, WorkerFacts DEF Succession, Latest
<1>4. DaemonInv
  BY <1>1, <1>2, <1>3 DEF DaemonInv, Daemon, Applying
<1>5. LinksInv
  BY <1>1, <1>2 DEF LinksInv, Standing, Knows, Right, Existing
<1> QED BY <1>4, <1>5

LEMMA NextGroupInv ==
  ASSUME ~ Overlapping, ApplyInv, GroupInv, [ApplyNext]_applyVars
  PROVE  GroupInv'
<1>1. CASE UNCHANGED applyVars
  <2>1. /\ UNCHANGED <<at, left, stage, reg, down, taken, queue, states, reloaded>>
        /\ UNCHANGED <<config, kernel, deps, continue, r, pc>>
    BY <1>1 DEF applyVars, resolver, procVars, daemonVars
  <2>2. AllKnown' => AllKnown
    BY <2>1 DEF AllKnown, Items, Values, Known
  <2>3. DaemonInv => DaemonInv'
    BY <2>1, DaemonQuiet DEF DaemonInv, Daemon
  <2>4. \A w \in Worker : WorkerQuiet(w)
    BY <2>1 DEF WorkerQuiet, Reached
  <2>5. LinksInv => LinksInv'
    BY <2>1, <2>4, SameLinks, LinksQuiet
  <2> QED BY <2>2, <2>3, <2>5 DEF GroupInv
<1>2. CASE ApplyNext
  <2>1. config' = config /\ Items' = Items
    BY <1>2, ResolverStep DEF ApplyInv, Base
  <2>2. AllKnown' => AllKnown
    BY <2>1 DEF AllKnown, Known
  <2> QED BY <1>2, <2>2, DaemonStep, LinksStepKeeps DEF GroupInv
<1> QED BY <1>1, <1>2

LEMMA GroupInvFollows == ApplyInv /\ GroupInv => GroupFollowsState
<1> SUFFICES ASSUME ApplyInv, GroupInv, AtRest, \A x \in Items : Known(x),
                    NEW x \in Configured \cap Staged, IsVrrp(x),
                    NEW g, g = config.links[x].group, states[g] # None
             PROVE  /\ x \in Existing
                    /\ states[g] \notin config.links[x].states => ~ kernel.links[x].up
                    /\ states[g] \in config.links[x].states
                         /\ UsedBy(config.links[x].uses) \subseteq Reliable(g) => Complete(x)
  BY DEF GroupFollowsState
<1>1. /\ DaemonInv /\ LinksInv /\ ConfigOK /\ ProcOK /\ Position
  BY DEF GroupInv, AllKnown, ApplyInv, Base
<1>2. g \in Group /\ x \in Item
  BY <1>1, ConfigFacts DEF IsVrrp, LinkConfig
<1>3. PICK w \in Worker : /\ w = Current(g) /\ w[1] = g
                          /\ ~ reloaded => w = First(g)
                          /\ reloaded => w[2] = 2
  BY <1>2, WorkerFacts
<1>4. taken[w] = states[g]
  BY <1>1, <1>2, <1>3 DEF AtRest, DaemonInv, Latest
<1>5. w[2] = 1 => taken[Second(g)] = None
  BY <1>1, <1>2, <1>3 DEF DaemonInv, Succession
<1>6. stage[w] = Len(r) /\ left[w] = {}
  <2>1. at[w] # "links"
    BY <1>1 DEF AtRest
  <2>2. w \in Process
    BY ProcessFacts
  <2> QED BY <1>1, <1>4, <2>1, <2>2 DEF Position, DaemonInv, Applying
<1>7. x \in Reached(w)
  BY <1>2, <1>6 DEF Reached, Staged
<1>8. AsItShouldBe(w, x)
  BY <1>1, <1>3, <1>4, <1>5, <1>7 DEF LinksInv, Right
<1>9. Cli \in config.who => w[2] = 2
  BY <1>3 DEF AtRest
<1> QED BY <1>3, <1>4, <1>8, <1>9 DEF AsItShouldBe

\* If a worker does not begin before its predecessor has ended, every link with
\* VRRP settings follows the last state of its group, however the workers and
\* `ifstate apply' were interleaved (IfStateVrrp and IfState._apply).
THEOREM GroupFollowsStateHolds ==
  ASSUME ~ Overlapping
  PROVE  ApplySpec => []GroupFollowsState
<1>1. GroupInv /\ ApplyInv /\ [ApplyNext]_applyVars => GroupInv'
  BY NextGroupInv
<1>2. ApplySpec => []GroupInv
  BY <1>1, InitGroupInv, ApplyInvariance, PTL DEF ApplySpec
<1> QED BY <1>2, ApplyInvariance, GroupInvFollows, PTL
=============================================================================
