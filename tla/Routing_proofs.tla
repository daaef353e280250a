---------------------------- MODULE Routing_proofs ----------------------------
(* Theorems about Routing, for every configuration whose routes can be told   *)
(* apart, and any number of groups, interfaces, runs and failures.            *)
EXTENDS Routing, FiniteSetTheorems, TLAPS

Index == 1 .. Len(Config)

\* The elements of a list, and what is left of it without the x-th.
ListOf(s)        == {s[j] : j \in 1 .. Len(s)}
Thinned(s, t, x) == /\ Len(t) = Len(s) - 1
                    /\ \A j \in 1 .. Len(t) : t[j] = IF j < x THEN s[j] ELSE s[j + 1]

Own(i, a)  == Owner(Config[i]) = a
Want(i, a) == Wanted(Config[i], run[a].state)

\* what a puts in force, and what it strikes off its copy of the dump
Puts(i, a)    == Own(i, a) /\ Want(i, a) /\ ~ Skipped(Config[i])
Strikes(i, a) == ~ Skipped(Config[i]) /\ (~ Own(i, a) \/ Want(i, a))

Working(a) == run[a].pc \in {"route", "scan"}

\* what has been handled is struck off
Struck(a) ==
  Working(a) =>
    \A i \in Index, k \in ListOf(run[a].kroutes) :
      i < run[a].next /\ Strikes(i, a) => ~ SameKey(Config[i], k)

\* a configured route has at most one counterpart on a list, in its own slot
Once(s) ==
  /\ \A i \in Index, j, l \in 1 .. Len(s) :
       SameKey(Config[i], s[j]) /\ SameKey(Config[i], s[l]) => j = l
  /\ \A i \in Index, k \in ListOf(s) : SameKey(Config[i], k) => InSlot(k, Config[i])

\* the scan has passed none of the routes it looks for
Scanned(a) ==
  run[a].pc = "scan" =>
    \A j \in 1 .. Len(run[a].kroutes) :
      j < run[a].i => ~ SameKey(Config[run[a].next], run[a].kroutes[j])

\* what is recognised later is still in the kernel
UpToDate(a) ==
  Working(a) =>
    \A i \in Index, k \in ListOf(run[a].kroutes) :
      i >= run[a].next /\ Puts(i, a) /\ Implements(k, Config[i]) => k \in fib

\* routes that were handled are in force
Added(a) ==
  Working(a) /\ ~ run[a].failed =>
    \A i \in Index : i < run[a].next /\ Puts(i, a) => InForce(Config[i], fib)

\* a may leave k in the kernel
Explained(k, a) ==
  Ignored(k) \/ \E i \in Index : SameKey(Config[i], k) /\ (Own(i, a) => Want(i, a))

\* the others are on the copy of the dump
Seen(a) ==
  Working(a) /\ ~ run[a].failed =>
    \A k \in fib : k \in ListOf(run[a].kroutes) \/ Explained(k, a)

Effect(a) ==
  run[a].pc = "done" /\ ~ run[a].failed =>
    /\ \A i \in Index : Puts(i, a) => InForce(Config[i], fib)
    /\ \A k \in fib : Explained(k, a)

RunInv(a) ==
  /\ Struck(a) /\ (Working(a) => Once(run[a].kroutes)) /\ Scanned(a)
  /\ UpToDate(a) /\ Added(a) /\ Seen(a) /\ Effect(a)

OneTos == \A i \in Index, k \in fib : SameKey(Config[i], k) => InSlot(k, Config[i])

IInv == TypeOK /\ OneTos /\ \A a \in Applier : RunInv(a)

-----------------------------------------------------------------------------
(* The configured routes and the kernel's                                  *)

LEMMA ConfigFacts ==
  /\ Len(Config) \in Nat
  /\ \A i \in Index : Config[i] \in WantedRoute /\ i \in DOMAIN Config /\ i \in Nat
  /\ None \notin Device /\ None \notin Gateway
BY ConstantsAssumption, NoneAssumption DEF Index

LEMMA ResolvedFacts ==
  ASSUME NEW i \in Index, NEW c, c = Config[i], NEW r, r = Resolved(c)
  PROVE  /\ r.dst = c.dst /\ r.proto = c.proto /\ r.gw = c.gw
         /\ r.dev = IF c.dev \in Links THEN c.dev ELSE None
<1>1. c \in WantedRoute
  BY ConfigFacts
<1> QED BY <1>1 DEF Resolved, WantedRoute

LEMMA ImplementsFacts ==
  ASSUME NEW i \in Index, NEW k, Implements(k, Config[i])
  PROVE  SameKey(Config[i], k) /\ InSlot(k, Config[i]) /\ ~ Skipped(Config[i])
BY DEF Implements, SameKey, InSlot

LEMMA AsWantedFacts ==
  ASSUME NEW i \in Index, NEW k, ~ Skipped(Config[i]), AsWanted(Resolved(Config[i]), k),
         SameKey(Config[i], k) => InSlot(k, Config[i])
  PROVE  Implements(k, Config[i])
<1>1. PICK c, r : c = Config[i] /\ r = Resolved(c)
  OBVIOUS
<1>2. /\ r.dst = c.dst /\ r.proto = c.proto /\ r.gw = c.gw
      /\ r.dev = IF c.dev \in Links THEN c.dev ELSE None
  BY <1>1, ResolvedFacts
<1>3. Links \subseteq Device /\ None \notin Device
  BY ConstantsAssumption, ConfigFacts
<1> QED BY <1>1, <1>2, <1>3 DEF AsWanted, SameKey, Implements

LEMMA SameKeyResolved ==
  ASSUME NEW i \in Index
  PROVE  \A k : SameKey(Resolved(Config[i]), k) <=> SameKey(Config[i], k)
<1>1. PICK c, r : c = Config[i] /\ r = Resolved(c)
  OBVIOUS
<1> QED BY <1>1, ResolvedFacts DEF SameKey

\* `ip route replace' leaves the other slots alone and puts a route in this one.
LEMMA ReplacedFacts ==
  ASSUME TypeOK, NEW i \in Index, fib' \in Replaced(Resolved(Config[i]))
  PROVE  \E k \in KernelRoute :
           /\ fib' = {r \in fib : ~ InSlot(r, Config[i])} \cup {k}
           /\ SameKey(Config[i], k) /\ InSlot(k, Config[i])
           /\ ~ Skipped(Config[i]) => Implements(k, Config[i])
<1>1. PICK c, r : c = Config[i] /\ r = Resolved(c)
  OBVIOUS
<1>2. /\ r.dst = c.dst /\ r.proto = c.proto /\ r.gw = c.gw
      /\ r.dev = IF c.dev \in Links THEN c.dev ELSE None
  BY <1>1, ResolvedFacts
<1>3. c \in WantedRoute /\ None \notin Links
  BY <1>1, ConfigFacts, ConstantsAssumption
<1>4. PICK d \in IF r.dev = None THEN Links ELSE {r.dev} :
        fib' = {q \in fib : ~ InSlot(q, r)} \cup
               {[dst |-> r.dst, proto |-> r.proto, tos |-> DefaultTos, gw |-> r.gw, dev |-> d]}
  BY <1>1 DEF Replaced
<1> DEFINE k == [dst |-> r.dst, proto |-> r.proto, tos |-> DefaultTos, gw |-> r.gw, dev |-> d]
<1>5. d \in Links /\ (c.dev \in Links => d = c.dev)
  BY <1>2, <1>3, <1>4
<1>6. k \in KernelRoute
  BY <1>2, <1>3, <1>5, ConstantsAssumption DEF KernelRoute, WantedRoute
<1>7. {q \in fib : ~ InSlot(q, r)} = {q \in fib : ~ InSlot(q, c)}
  BY <1>2 DEF InSlot
<1>8. SameKey(c, k) /\ InSlot(k, c) /\ (~ Skipped(c) => Implements(k, c))
  BY <1>2, <1>5 DEF SameKey, InSlot, Implements
<1> QED BY <1>1, <1>4, <1>6, <1>7, <1>8

LEMMA DeletedFacts ==
  /\ \A k, r : r \in Deleted(k) => SameKey(k, r) /\ SameKey(r, k)
  /\ \A k \in fib : k \in Deleted(k)
BY DEF Deleted, SameKey, SameSlot

\* A process ignores the routes of others, and its own are disabled if they are
\* not wanted.
LEMMA MatchFacts ==
  ASSUME NEW i \in Index, NEW a \in Applier, NEW s \in VrrpState \cup {None}, NEW m,
         m = VrrpMatch(Config[i], a, s)
  PROVE  /\ m \in {"plain", "ignore", "enable", "disable"}
         /\ ~ Own(i, a) <=> m = "ignore"
         /\ Own(i, a) /\ ~ Wanted(Config[i], s) <=> m = "disable"
<1>1. Config[i] \in WantedRoute
  BY ConfigFacts
<1>2. Config[i].vrrp = None \/ (Config[i].vrrp # None /\ Config[i].vrrp.group \in Group)
  BY <1>1 DEF WantedRoute, VrrpCondition
<1> QED BY <1>2, NoneAssumption DEF VrrpMatch, Own, Owner, Wanted, Applier

-----------------------------------------------------------------------------
(* The copy of the dump                                                    *)

LEMMA WithoutThins ==
  ASSUME NEW S, NEW s \in Seq(S), NEW x \in 1 .. Len(s), NEW t, t = Without(s, x)
  PROVE  t \in Seq(S) /\ Thinned(s, t, x)
<1> DEFINE u == SubSeq(s, 1, x - 1)
           v == SubSeq(s, x + 1, Len(s))
<1>1. /\ u \in Seq(S) /\ Len(u) = x - 1
      /\ \A j \in 1 .. x - 1 : u[j] = s[j]
  OBVIOUS
<1>2. /\ v \in Seq(S) /\ Len(v) = Len(s) - x
      /\ \A j \in 1 .. Len(s) - x : v[j] = s[x + j]
  OBVIOUS
<1>3. t = u \o v
  BY DEF Without
<1> HIDE DEF u, v
<1>4. t \in Seq(S) /\ Len(t) = Len(s) - 1
  BY <1>1, <1>2, <1>3
<1>5. ASSUME NEW j \in 1 .. Len(t) PROVE t[j] = IF j < x THEN s[j] ELSE s[j + 1]
  <2>1. CASE j < x
    <3>1. j \in 1 .. Len(u)
      BY <1>1, <2>1
    <3> QED BY <1>1, <1>2, <1>3, <2>1, <3>1
  <2>2. CASE j >= x
    <3>1. t[j] = v[j - (x - 1)]
      BY <1>1, <1>2, <1>3, <1>4, <2>2
    <3>2. j - (x - 1) \in 1 .. Len(s) - x
      BY <1>4, <2>2
    <3>3. x + (j - (x - 1)) = j + 1
      BY <1>4
    <3> QED BY <1>2, <2>2, <3>1, <3>2, <3>3
  <2> QED BY <1>4, <2>1, <2>2
<1> QED BY <1>4, <1>5 DEF Thinned

LEMMA TailThins ==
  ASSUME NEW S, NEW s \in Seq(S), s # <<>>, NEW t, t = Tail(s)
  PROVE  t \in Seq(S) /\ Thinned(s, t, 1) /\ 1 \in 1 .. Len(s) /\ Head(s) = s[1]
<1>1. t \in Seq(S) /\ Len(t) = Len(s) - 1 /\ Len(s) \in Nat /\ Len(s) >= 1 /\ Head(s) = s[1]
  OBVIOUS
<1>2. \A j \in 1 .. Len(t) : t[j] = s[j + 1] /\ ~ (j < 1)
  BY <1>1
<1> QED BY <1>1, <1>2 DEF Thinned

LEMMA ThinnedFacts ==
  ASSUME NEW S, NEW s \in Seq(S), NEW t \in Seq(S), NEW x \in 1 .. Len(s), Thinned(s, t, x)
  PROVE  /\ \A k \in ListOf(t) : k \in ListOf(s)
         /\ \A k \in ListOf(s) : k = s[x] \/ k \in ListOf(t)
         /\ Once(s) => Once(t)
         /\ Once(s) => \A i \in Index : SameKey(Config[i], s[x]) =>
                         \A k \in ListOf(t) : ~ SameKey(Config[i], k)
<1>1. /\ Len(s) \in Nat /\ Len(t) \in Nat /\ Len(t) = Len(s) - 1 /\ x \in Nat /\ 1 <= x
      /\ x <= Len(s)
      /\ \A j \in 1 .. Len(t) : t[j] = IF j < x THEN s[j] ELSE s[j + 1]
  BY DEF Thinned
<1> DEFINE at(j) == IF j < x THEN j ELSE j + 1
<1>2. \A j \in 1 .. Len(t) : at(j) \in 1 .. Len(s) /\ at(j) # x /\ t[j] = s[at(j)]
  BY <1>1
<1>3. \A j, l \in 1 .. Len(t) : at(j) = at(l) => j = l
  BY <1>1
<1>4. ASSUME NEW j \in 1 .. Len(s), j # x
      PROVE  \E l \in 1 .. Len(t) : at(l) = j
  <2>1. CASE j < x
    BY <1>1, <1>4, <2>1
  <2>2. CASE j > x
    <3>1. j - 1 \in 1 .. Len(t) /\ at(j - 1) = j
      BY <1>1, <1>4, <2>2
    <3> QED BY <3>1
  <2> QED BY <1>1, <1>4, <2>1, <2>2
<1> HIDE DEF at
<1>5. \A k \in ListOf(t) : \E j \in 1 .. Len(t) : k = s[at(j)] /\ at(j) \in 1 .. Len(s) /\ at(j) # x
  BY <1>2 DEF ListOf
<1>6. \A k \in ListOf(t) : k \in ListOf(s)
  BY <1>5 DEF ListOf
<1>7. \A k \in ListOf(s) : k = s[x] \/ k \in ListOf(t)
  BY <1>2, <1>4 DEF ListOf
<1>8. Once(s) => Once(t)
  BY <1>2, <1>3, <1>6 DEF Once
<1>9. ASSUME Once(s), NEW i \in Index, SameKey(Config[i], s[x]), NEW k \in ListOf(t)
      PROVE  ~ SameKey(Config[i], k)
  <2>1. PICK j \in 1 .. Len(s) : k = s[j] /\ j # x
    BY <1>5
  <2> QED BY <1>9, <2>1 DEF Once
<1> QED BY <1>6, <1>7, <1>8, <1>9

-----------------------------------------------------------------------------
(* Steps                                                                   *)

\* What a step of a process does to the routes of the others.
Gentle(a) ==
  /\ \A k \in fib' : k \in fib \/ \E j \in Index : Own(j, a) /\ SameKey(Config[j], k)
  /\ \A i \in Index, k \in fib : ~ Own(i, a) /\ Implements(k, Config[i]) => k \in fib'

\* What a lemma about a step of process a has to show.
Kept(a) == TypeOK' /\ OneTos' /\ Gentle(a) /\ RunInv(a)'
             /\ \A b \in Applier \ {a} : run'[b] = run[b]

LEMMA RunFacts ==
  ASSUME TypeOK, NEW a \in Applier
  PROVE  /\ run[a] \in Run /\ run[a].next \in 1 .. Len(Config) + 1 /\ run[a].next \in Nat
         /\ run[a].i \in Nat /\ run[a].i >= 1 /\ run[a].state \in VrrpState \cup {None}
         /\ run[a].kroutes \in Seq(KernelRoute)
         /\ run[a].next <= Len(Config) => run[a].next \in Index
         /\ run[a].pc = "scan" => run[a].next \in Index
BY ConfigFacts DEF TypeOK, Index, Run

LEMMA SameWants ==
  ASSUME NEW a, run'[a].state = run[a].state
  PROVE  /\ \A i : (Want(i, a)' <=> Want(i, a)) /\ (Own(i, a)' <=> Own(i, a))
                   /\ (Puts(i, a)' <=> Puts(i, a)) /\ (Strikes(i, a)' <=> Strikes(i, a))
         /\ \A k : Explained(k, a)' <=> Explained(k, a)
BY DEF Want, Own, Puts, Strikes, Explained, Ignored

LEMMA OthersKeep ==
  ASSUME NEW a \in Applier, NEW b \in Applier, a # b, Gentle(a), RunInv(b), run'[b] = run[b]
  PROVE  RunInv(b)'
<1>1. /\ \A i : (Want(i, b)' <=> Want(i, b)) /\ (Own(i, b)' <=> Own(i, b))
                /\ (Puts(i, b)' <=> Puts(i, b)) /\ (Strikes(i, b)' <=> Strikes(i, b))
      /\ \A k : Explained(k, b)' <=> Explained(k, b)
      /\ Working(b)' <=> Working(b)
  BY SameWants DEF Working
<1>2. \A i \in Index, k \in fib : Puts(i, b) /\ Implements(k, Config[i]) => k \in fib'
  BY DEF Puts, Own, Gentle
<1>3. \A i \in Index : Puts(i, b) /\ InForce(Config[i], fib) => InForce(Config[i], fib')
  BY <1>2 DEF InForce
<1>4. \A k \in fib' : k \in fib \/ Explained(k, b)
  BY DEF Gentle, Explained, Own
<1>5. Struck(b)' /\ (Working(b) => Once(run[b].kroutes))' /\ Scanned(b)'
  BY <1>1 DEF RunInv, Struck, Scanned
<1>6. UpToDate(b)'
  BY <1>1, <1>2 DEF RunInv, UpToDate
<1>7. Added(b)'
  BY <1>1, <1>3 DEF RunInv, Added
<1>8. Seen(b)'
  BY <1>1, <1>4 DEF RunInv, Seen
<1>9. Effect(b)'
  BY <1>1, <1>3, <1>4 DEF RunInv, Effect
<1> QED BY <1>5, <1>6, <1>7, <1>8, <1>9 DEF RunInv

\* A step of a run that goes on, with r: it strikes off at most one route, and comes
\* past at most one configured one.
Moving(a, r) ==
  /\ Working(a) /\ r \in Run /\ run' = [run EXCEPT ![a] = r] /\ failures' \in Nat
  /\ r.pc \in {"route", "scan"} /\ r.state = run[a].state
  /\ ~ r.failed => ~ run[a].failed
  /\ r.next = run[a].next \/ (r.next = run[a].next + 1 /\ run[a].next \in Index)
  /\ r.i >= 1
  /\ r.pc = "scan" =>
       /\ r.next \in Index
       /\ \A j \in 1 .. Len(r.kroutes) : j < r.i => ~ SameKey(Config[r.next], r.kroutes[j])

StrikesOff(a, r, x) == x \in 1 .. Len(run[a].kroutes) /\ Thinned(run[a].kroutes, r.kroutes, x)

\* What it has to do before it comes past a configured route.
Passing(a, r, F) ==
  r.next # run[a].next =>
    /\ Strikes(run[a].next, a) =>
         \A k \in ListOf(r.kroutes) : ~ SameKey(Config[run[a].next], k)
    /\ ~ r.failed /\ Puts(run[a].next, a) => InForce(Config[run[a].next], F)

\* What it does to the kernel.
Harmless(a, r) ==
  /\ fib' \subseteq KernelRoute /\ IsFiniteSet(fib') /\ OnePerSlot(fib') /\ OneTos' /\ Gentle(a)
  /\ \A i \in Index, k \in fib :
       Puts(i, a) /\ (i # run[a].next \/ r.next = run[a].next) /\ Implements(k, Config[i]) =>
         k \in fib'
  /\ ~ r.failed => \A k \in fib' : k \in ListOf(r.kroutes) \/ Explained(k, a)

LEMMA Moves ==
  ASSUME IInv, NEW a \in Applier, NEW r, Moving(a, r), Passing(a, r, fib'), Harmless(a, r),
         r.kroutes = run[a].kroutes \/ \E x : StrikesOff(a, r, x)
  PROVE  Kept(a)
<1>0. PICK n, ks : n = run[a].next /\ ks = run[a].kroutes
  OBVIOUS
<1>a. /\ Working(a) /\ failures' \in Nat /\ r \in Run /\ run' = [run EXCEPT ![a] = r]
      /\ r.pc \in {"route", "scan"} /\ r.state = run[a].state /\ (~ r.failed => ~ run[a].failed)
      /\ r.next = n \/ (r.next = n + 1 /\ n \in Index)
      /\ r.i >= 1 /\ (r.pc = "scan" => r.next \in Index)
      /\ r.pc = "scan" => \A j \in 1 .. Len(r.kroutes) :
                            j < r.i => ~ SameKey(Config[r.next], r.kroutes[j])
  BY <1>0 DEF Moving
<1>b. r.kroutes = ks \/ \E x \in 1 .. Len(ks) : Thinned(ks, r.kroutes, x)
  BY <1>0 DEF StrikesOff
<1>c. /\ fib' \subseteq KernelRoute /\ IsFiniteSet(fib') /\ OnePerSlot(fib') /\ OneTos' /\ Gentle(a)
      /\ \A i \in Index, k \in fib :
           Puts(i, a) /\ (i # n \/ r.next = n) /\ Implements(k, Config[i]) => k \in fib'
      /\ ~ r.failed => \A k \in fib' : k \in ListOf(r.kroutes) \/ Explained(k, a)
  BY <1>0 DEF Harmless
<1>d. /\ r.next # n /\ Strikes(n, a) => \A k \in ListOf(r.kroutes) : ~ SameKey(Config[n], k)
      /\ r.next # n /\ ~ r.failed /\ Puts(n, a) => InForce(Config[n], fib')
  BY <1>0 DEF Passing
<1>1. /\ TypeOK /\ RunInv(a) /\ n \in Nat /\ n \in 1 .. Len(Config) + 1 /\ Len(Config) \in Nat
      /\ ks \in Seq(KernelRoute) /\ run \in [Applier -> Run]
  BY <1>0, RunFacts, ConfigFacts DEF IInv, TypeOK
<1>2. run'[a] = r /\ \A b \in Applier \ {a} : run'[b] = run[b]
  BY <1>a, <1>1
<1>3. TypeOK'
  <2>1. run' \in [Applier -> Run]
    BY <1>1, <1>a
  <2>2. r.next \in 1 .. Len(Config) + 1
    BY <1>1, <1>a DEF Index
  <2>3. r.pc = "scan" => r.next <= Len(Config)
    BY <1>1, <1>a DEF Index
  <2>4. ASSUME NEW b \in Applier
        PROVE  /\ run'[b].next \in 1 .. Len(Config) + 1 /\ run'[b].i >= 1
               /\ run'[b].pc = "scan" => run'[b].next <= Len(Config)
    BY <1>1, <1>2, <1>a, <2>2, <2>3 DEF TypeOK
  <2> QED BY <1>a, <1>c, <2>1, <2>4 DEF TypeOK
<1>4. /\ \A i : (Want(i, a)' <=> Want(i, a)) /\ (Own(i, a)' <=> Own(i, a))
                /\ (Puts(i, a)' <=> Puts(i, a)) /\ (Strikes(i, a)' <=> Strikes(i, a))
      /\ \A k : Explained(k, a)' <=> Explained(k, a)
  BY <1>a, <1>2, SameWants
<1>5. /\ \A k \in ListOf(r.kroutes) : k \in ListOf(ks)
      /\ Once(ks) => Once(r.kroutes)
  <2>1. CASE r.kroutes = ks
    BY <2>1
  <2>2. CASE \E x \in 1 .. Len(ks) : Thinned(ks, r.kroutes, x)
    <3>1. PICK x \in 1 .. Len(ks) : Thinned(ks, r.kroutes, x)
      BY <2>2
    <3>2. r.kroutes \in Seq(KernelRoute)
      BY <1>a DEF Run
    <3> QED BY <1>1, <3>1, <3>2, ThinnedFacts
  <2> QED BY <1>b, <2>1, <2>2
<1>6. \A i \in Index : i < r.next => i < n \/ (i = n /\ r.next # n)
  BY <1>a, <1>1 DEF Index
<1>7. \A i \in Index : i >= r.next => i >= n /\ (i # n \/ r.next = n)
  BY <1>a, <1>1 DEF Index
<1>8. Struck(a)'
  <2> SUFFICES ASSUME NEW i \in Index, NEW k \in ListOf(r.kroutes), i < r.next, Strikes(i, a)
               PROVE  ~ SameKey(Config[i], k)
    BY <1>2, <1>4 DEF Struck
  <2>1. CASE i < n
    BY <1>0, <1>1, <1>5, <1>a, <2>1 DEF RunInv, Struck
  <2>2. CASE i = n /\ r.next # n
    BY <1>d, <2>2
  <2> QED BY <1>6, <2>1, <2>2
<1>9. Once(r.kroutes) /\ (Working(a) => Once(run[a].kroutes))'
  <2>1. Once(r.kroutes)
    BY <1>0, <1>1, <1>5, <1>a DEF RunInv
  <2> QED BY <1>2, <2>1 DEF Once
<1>10. Scanned(a)'
  BY <1>a, <1>2 DEF Scanned
<1>11. UpToDate(a)'
  <2> SUFFICES ASSUME NEW i \in Index, NEW k \in ListOf(r.kroutes), i >= r.next, Puts(i, a),
                      Implements(k, Config[i])
               PROVE  k \in fib'
    BY <1>2, <1>4 DEF UpToDate
  <2>1. i >= n /\ (i # n \/ r.next = n)
    BY <1>7
  <2>2. k \in fib
    BY <1>0, <1>1, <1>5, <1>a, <2>1 DEF RunInv, UpToDate
  <2> QED BY <1>c, <2>1, <2>2
<1>12. Added(a)'
  <2> SUFFICES ASSUME ~ r.failed, NEW i \in Index, i < r.next, Puts(i, a)
               PROVE  InForce(Config[i], fib')
    BY <1>2, <1>4 DEF Added
  <2>1. CASE i < n
    <3>1. PICK k \in fib : Implements(k, Config[i])
      BY <1>0, <1>1, <1>a, <2>1 DEF RunInv, Added, InForce
    <3>2. i # n
      BY <1>1, <2>1 DEF Index
    <3> QED BY <1>c, <3>1, <3>2 DEF InForce
  <2>2. CASE i = n /\ r.next # n
    BY <1>d, <2>2
  <2> QED BY <1>6, <2>1, <2>2
<1>13. Seen(a)'
  BY <1>a, <1>c, <1>2, <1>4 DEF Seen
<1>14. Effect(a)'
  BY <1>a, <1>2 DEF Effect
<1>15. RunInv(a)'
  BY <1>8, <1>9, <1>10, <1>11, <1>12, <1>13, <1>14 DEF RunInv
<1> QED BY <1>2, <1>3, <1>15, <1>c DEF Kept

\* The same for a step that leaves the kernel alone.
LEMMA MovesQuietly ==
  ASSUME IInv, NEW a \in Applier, NEW r, Moving(a, r), Passing(a, r, fib), fib' = fib,
         \/ r.kroutes = run[a].kroutes
         \/ \E x : StrikesOff(a, r, x) /\ (r.failed \/ Explained(run[a].kroutes[x], a))
  PROVE  Kept(a)
<1>0. PICK ks : ks = run[a].kroutes
  OBVIOUS
<1>1. TypeOK /\ RunInv(a) /\ OneTos /\ ks \in Seq(KernelRoute) /\ Working(a) /\ r \in Run
      /\ (~ r.failed => ~ run[a].failed)
  BY <1>0, RunFacts DEF IInv, Moving
<1>2. fib' \subseteq KernelRoute /\ IsFiniteSet(fib') /\ OnePerSlot(fib') /\ OneTos'
  BY <1>1 DEF TypeOK, OneTos
<1>3. Gentle(a)
  BY DEF Gentle
<1>4. ~ r.failed => \A k \in fib : k \in ListOf(r.kroutes) \/ Explained(k, a)
  <2> SUFFICES ASSUME ~ r.failed, NEW k \in fib PROVE k \in ListOf(r.kroutes) \/ Explained(k, a)
    OBVIOUS
  <2>1. k \in ListOf(ks) \/ Explained(k, a)
    BY <1>0, <1>1 DEF RunInv, Seen
  <2>2. CASE r.kroutes = ks
    BY <2>1, <2>2
  <2>3. CASE \E x : StrikesOff(a, r, x) /\ Explained(ks[x], a)
    <3>1. PICK x \in 1 .. Len(ks) : Thinned(ks, r.kroutes, x) /\ Explained(ks[x], a)
      BY <1>0, <2>3 DEF StrikesOff
    <3>2. r.kroutes \in Seq(KernelRoute)
      BY <1>1 DEF Run
    <3>3. k \in ListOf(ks) => k = ks[x] \/ k \in ListOf(r.kroutes)
      BY <1>1, <3>1, <3>2, ThinnedFacts
    <3> QED BY <2>1, <3>1, <3>3
  <2> QED BY <1>0, <2>2, <2>3
<1>5. Harmless(a, r)
  BY <1>2, <1>3, <1>4 DEF Harmless
<1>6. Passing(a, r, fib')
  OBVIOUS
<1>7. r.kroutes = run[a].kroutes \/ \E x : StrikesOff(a, r, x)
  OBVIOUS
<1> QED BY <1>5, <1>6, <1>7, Moves

LEMMA StartStep ==
  ASSUME IInv, NEW a \in Applier, NEW s \in VrrpState \cup {None}, Start(a, s)
  PROVE  Kept(a)
<1>1. /\ TypeOK /\ OneTos /\ run \in [Applier -> Run] /\ run[a].runs \in Nat
      /\ IsFiniteSet(fib) /\ OnePerSlot(fib) /\ fib \subseteq KernelRoute
      /\ Len(Config) \in Nat /\ Cardinality(fib) \in Nat
  BY ConfigFacts, FS_CardinalityType DEF IInv, TypeOK, Run
<1>2. PICK d \in Dumps(fib) :
        /\ run' = [run EXCEPT ![a] = [pc |-> "route", state |-> s, next |-> 1, i |-> 1,
                                      kroutes |-> d, failed |-> FALSE, runs |-> @.runs + 1]]
        /\ fib' = fib /\ failures' = failures
  BY DEF Start
<1> DEFINE r == [pc |-> "route", state |-> s, next |-> 1, i |-> 1, kroutes |-> d,
                 failed |-> FALSE, runs |-> run[a].runs + 1]
<1>3. /\ d \in Seq(KernelRoute) /\ Len(d) = Cardinality(fib)
      /\ \A k \in fib : k \in ListOf(d)
      /\ \A k \in ListOf(d) : k \in fib
      /\ \A j, l \in 1 .. Len(d) : j < l => d[j] # d[l]
  <2>1. d \in [1 .. Cardinality(fib) -> fib]
    BY <1>2 DEF Dumps
  <2>2. d \in Seq(fib) /\ Len(d) = Cardinality(fib)
    BY <1>1, <2>1
  <2>3. d \in Seq(KernelRoute)
    BY <1>1, <2>2
  <2>4. \A k \in fib : k \in ListOf(d)
    BY <1>2, <2>2 DEF Dumps, ListOf
  <2>5. \A k \in ListOf(d) : k \in fib
    BY <2>1, <2>2 DEF ListOf
  <2>6. \A j, l \in 1 .. Len(d) : j < l => d[j] # d[l]
    BY <1>2, <2>2 DEF Dumps
  <2> QED BY <2>2, <2>3, <2>4, <2>5, <2>6
<1>4. r \in Run
  BY <1>1, <1>3 DEF Run
<1>5. run'[a] = r /\ run' \in [Applier -> Run] /\ \A b \in Applier \ {a} : run'[b] = run[b]
  BY <1>1, <1>2, <1>4
<1>6. /\ r.pc = "route" /\ r.next = 1 /\ r.i = 1 /\ r.kroutes = d
      /\ run'[a].pc = "route" /\ run'[a].next = 1 /\ run'[a].i = 1 /\ run'[a].kroutes = d
  BY <1>5
<1>7. TypeOK'
  <2>1. ASSUME NEW b \in Applier
        PROVE  /\ run'[b].next \in 1 .. Len(Config) + 1 /\ run'[b].i >= 1
               /\ run'[b].pc = "scan" => run'[b].next <= Len(Config)
    BY <1>1, <1>5, <1>6 DEF TypeOK
  <2> QED BY <1>1, <1>2, <1>5, <2>1 DEF TypeOK, OnePerSlot
<1>8. Once(d)
  <2>0. \A i \in Index, k \in ListOf(d) : SameKey(Config[i], k) => InSlot(k, Config[i])
    BY <1>1, <1>3 DEF OneTos
  <2> SUFFICES ASSUME NEW i \in Index, NEW j \in 1 .. Len(d), NEW l \in 1 .. Len(d),
                      SameKey(Config[i], d[j]), SameKey(Config[i], d[l])
               PROVE  j = l
    BY <2>0 DEF Once
  <2>1. d[j] \in fib /\ d[l] \in fib
    BY <1>3 DEF ListOf
  <2>2. SameSlot(d[j], d[l])
    BY <1>1, <2>1 DEF OneTos, SameKey, InSlot, SameSlot
  <2>3. d[j] = d[l]
    BY <1>1, <2>1, <2>2 DEF OnePerSlot
  <2>4. ~ (j < l) /\ ~ (l < j)
    BY <1>3, <2>3
  <2> QED BY <1>1, <1>3, <2>4
<1>9. RunInv(a)'
  <2>1. Struck(a)'
    BY <1>6 DEF Struck, Index
  <2>2. (Working(a) => Once(run[a].kroutes))'
    BY <1>6, <1>8 DEF Once
  <2>3. Scanned(a)' /\ Effect(a)'
    BY <1>6 DEF Scanned, Effect
  <2>4. UpToDate(a)'
    BY <1>2, <1>3, <1>6 DEF UpToDate
  <2>5. Added(a)'
    BY <1>6 DEF Added, Index
  <2>6. Seen(a)'
    BY <1>2, <1>3, <1>6 DEF Seen
  <2> QED BY <2>1, <2>2, <2>3, <2>4, <2>5, <2>6 DEF RunInv
<1>10. OneTos' /\ Gentle(a)
  BY <1>1, <1>2 DEF OneTos, Gentle
<1> QED BY <1>5, <1>7, <1>9, <1>10 DEF Kept

\* Where a run is when it looks at a configured route.
LEMMA AtRouteFacts ==
  ASSUME IInv, NEW a \in Applier, Working(a), NEW n, n = run[a].next, n \in Index
  PROVE  /\ \A k : SameKey(Current(a), k) <=> SameKey(Config[n], k)
         /\ \A k \in ListOf(run[a].kroutes) :
              AsWanted(Current(a), k) /\ ~ Skipped(Config[n]) => Implements(k, Config[n])
         /\ Matched(a) \in {"plain", "ignore", "enable", "disable"}
         /\ ~ Own(n, a) <=> Matched(a) = "ignore"
         /\ Own(n, a) /\ ~ Want(n, a) <=> Matched(a) = "disable"
<1>1. run[a].state \in VrrpState \cup {None}
  BY RunFacts DEF IInv
<1>2. \A k \in ListOf(run[a].kroutes) : SameKey(Config[n], k) => InSlot(k, Config[n])
  BY DEF IInv, RunInv, Once
<1> QED BY <1>1, <1>2, MatchFacts, SameKeyResolved, AsWantedFacts DEF Matched, Current, Want

LEMMA SkipRouteStep ==
  ASSUME IInv, NEW a \in Applier, SkipRoute(a)
  PROVE  Kept(a)
<1>0. PICK n, r : n = run[a].next /\ r = [run[a] EXCEPT !.pc = "route", !.next = n + 1]
  OBVIOUS
<1>1. /\ run[a] \in Run /\ n \in Index /\ n \in Nat /\ Skipped(Config[n]) /\ failures \in Nat
      /\ run[a].pc = "route" /\ run[a].i >= 1
      /\ run' = [run EXCEPT ![a] = r] /\ fib' = fib /\ failures' = failures
  BY <1>0, RunFacts DEF IInv, SkipRoute, NextRoute, TypeOK
<1>2. /\ r \in Run /\ r.pc = "route" /\ r.next = n + 1 /\ r.kroutes = run[a].kroutes
      /\ r.state = run[a].state /\ r.failed = run[a].failed /\ r.i = run[a].i
  <2>1. n + 1 \in Nat
    BY <1>0, <1>1
  <2>2. r \in Run
    BY <1>0, <1>1, <2>1 DEF Run
  <2>3. /\ r.pc = "route" /\ r.next = n + 1 /\ r.kroutes = run[a].kroutes
        /\ r.state = run[a].state /\ r.failed = run[a].failed /\ r.i = run[a].i
    BY <1>0, <1>1 DEF Run
  <2> QED BY <2>2, <2>3
<1>3. ~ Strikes(n, a) /\ ~ Puts(n, a) /\ Working(a)
  BY <1>1 DEF Strikes, Puts, Working
<1>4. Moving(a, r)
  BY <1>0, <1>1, <1>2, <1>3 DEF Moving
<1>5. Passing(a, r, fib)
  BY <1>0, <1>3 DEF Passing
<1> QED BY <1>1, <1>2, <1>4, <1>5, MovesQuietly

LEMMA BeginScanStep ==
  ASSUME IInv, NEW a \in Applier, BeginScan(a)
  PROVE  Kept(a)
<1>0. PICK n, r : n = run[a].next /\ r = [run[a] EXCEPT !.pc = "scan", !.i = 1]
  OBVIOUS
<1>1. /\ run[a] \in Run /\ n \in Index /\ run[a].pc = "route" /\ failures \in Nat
      /\ run \in [Applier -> Run] /\ run[a].kroutes \in Seq(KernelRoute)
      /\ run' = [run EXCEPT ![a] = r] /\ fib' = fib /\ failures' = failures
  BY <1>0, RunFacts DEF IInv, BeginScan, TypeOK
<1>2. /\ r \in Run /\ r.pc = "scan" /\ r.next = n /\ r.kroutes = run[a].kroutes
      /\ r.state = run[a].state /\ r.failed = run[a].failed /\ r.i = 1
  BY <1>0, <1>1 DEF Run
<1>3. \A j \in 1 .. Len(r.kroutes) : ~ (j < r.i)
  BY <1>1, <1>2
<1>4. Working(a)
  BY <1>1 DEF Working
<1>5. Moving(a, r)
  BY <1>0, <1>1, <1>2, <1>3, <1>4 DEF Moving
<1>6. Passing(a, r, fib)
  BY <1>0, <1>2 DEF Passing
<1> QED BY <1>1, <1>2, <1>5, <1>6, MovesQuietly

LEMMA ExamineStep ==
  ASSUME IInv, NEW a \in Applier, Examine(a)
  PROVE  Kept(a)
<1>0. PICK n, x, ks, k : n = run[a].next /\ x = run[a].i /\ ks = run[a].kroutes /\ k = ks[x]
  OBVIOUS
<1>1. /\ run[a] \in Run /\ n \in Index /\ n \in Nat /\ failures \in Nat /\ Working(a)
      /\ run \in [Applier -> Run] /\ ks \in Seq(KernelRoute) /\ x \in Nat /\ x >= 1
      /\ RunInv(a) /\ run[a].pc = "scan" /\ x \in 1 .. Len(ks)
      /\ fib' = fib /\ failures' = failures
  BY <1>0, RunFacts DEF IInv, Examine, TypeOK, Working
<1>2. /\ \A l : SameKey(Current(a), l) <=> SameKey(Config[n], l)
      /\ \A l \in ListOf(ks) :
           AsWanted(Current(a), l) /\ ~ Skipped(Config[n]) => Implements(l, Config[n])
      /\ k \in ListOf(ks)
      /\ Matched(a) \in {"plain", "ignore", "enable", "disable"}
      /\ ~ Own(n, a) <=> Matched(a) = "ignore"
      /\ Own(n, a) /\ ~ Want(n, a) <=> Matched(a) = "disable"
  BY <1>0, <1>1, AtRouteFacts DEF ListOf
<1>3. \A j \in 1 .. Len(ks) : j < x => ~ SameKey(Config[n], ks[j])
  BY <1>0, <1>1 DEF RunInv, Scanned
<1>4. PICK t : t = Without(ks, x)
  OBVIOUS
<1>5. t \in Seq(KernelRoute) /\ Thinned(ks, t, x)
  BY <1>1, <1>4, WithoutThins
<1>6. SameKey(Config[n], k) => \A l \in ListOf(t) : ~ SameKey(Config[n], l)
  BY <1>0, <1>1, <1>5, ThinnedFacts DEF RunInv
<1>7. SameKey(Config[n], k) /\ Matched(a) # "disable" => Explained(k, a)
  BY <1>1, <1>2 DEF Explained
<1>8. CASE /\ ~ SameKey(Current(a), k)
           /\ run' = [run EXCEPT ![a].i = @ + 1]
  <2>0. PICK r : r = [run[a] EXCEPT !.i = x + 1]
    OBVIOUS
  <2>1. run' = [run EXCEPT ![a] = r]
    BY <1>0, <1>1, <1>8, <2>0
  <2>2. /\ r \in Run /\ r.pc = "scan" /\ r.next = n /\ r.kroutes = ks
        /\ r.state = run[a].state /\ r.failed = run[a].failed /\ r.i = x + 1
    <3>1. x + 1 \in Nat
      BY <1>0, <1>1, <2>0
    <3>2. r \in Run
      BY <1>0, <1>1, <2>0, <3>1 DEF Run
    <3>3. /\ r.pc = "scan" /\ r.next = n /\ r.kroutes = ks
          /\ r.state = run[a].state /\ r.failed = run[a].failed /\ r.i = x + 1
      BY <1>0, <1>1, <2>0 DEF Run
    <3> QED BY <3>2, <3>3
  <2>3. \A j \in 1 .. Len(ks) : j < x + 1 => ~ SameKey(Config[n], ks[j])
    <3>1. \A j \in 1 .. Len(ks) : j < x + 1 => j < x \/ j = x
      BY <1>1
    <3> QED BY <1>0, <1>2, <1>3, <1>8, <3>1
  <2>4. x + 1 >= 1
    BY <1>1
  <2>5. Moving(a, r)
    BY <1>0, <1>1, <2>1, <2>2, <2>3, <2>4 DEF Moving
  <2>6. Passing(a, r, fib)
    BY <1>0, <2>2 DEF Passing
  <2> QED BY <1>0, <1>1, <2>2, <2>5, <2>6, MovesQuietly
<1>9. CASE /\ Matched(a) = "disable"
           /\ run' = [run EXCEPT ![a] = NextRoute(a)]
  <2>0. PICK r : r = [run[a] EXCEPT !.pc = "route", !.next = n + 1]
    OBVIOUS
  <2>1. run' = [run EXCEPT ![a] = r]
    BY <1>0, <1>1, <1>9, <2>0 DEF NextRoute
  <2>2. /\ r \in Run /\ r.pc = "route" /\ r.next = n + 1 /\ r.kroutes = ks
        /\ r.state = run[a].state /\ r.failed = run[a].failed /\ r.i = x
    <3>1. n + 1 \in Nat
      BY <1>0, <1>1, <2>0
    <3>2. r \in Run
      BY <1>0, <1>1, <2>0, <3>1 DEF Run
    <3>3. /\ r.pc = "route" /\ r.next = n + 1 /\ r.kroutes = ks
          /\ r.state = run[a].state /\ r.failed = run[a].failed /\ r.i = x
      BY <1>0, <1>1, <2>0 DEF Run
    <3> QED BY <3>2, <3>3
  <2>3. ~ Strikes(n, a) /\ ~ Puts(n, a)
    BY <1>2, <1>9 DEF Strikes, Puts
  <2>4. Moving(a, r)
    BY <1>0, <1>1, <2>1, <2>2 DEF Moving
  <2>5. Passing(a, r, fib)
    BY <1>0, <2>3 DEF Passing
  <2> QED BY <1>0, <1>1, <2>2, <2>4, <2>5, MovesQuietly
<1>10. CASE /\ SameKey(Current(a), k)
            /\ Matched(a) = "ignore" \/ (Matched(a) # "disable" /\ AsWanted(Current(a), k))
            /\ run' = [run EXCEPT ![a] = [NextRoute(a) EXCEPT !.kroutes = Without(@, x)]]
  <2>0. PICK r : r = [run[a] EXCEPT !.pc = "route", !.next = n + 1, !.kroutes = t]
    OBVIOUS
  <2>1. run' = [run EXCEPT ![a] = r]
    <3>1. [NextRoute(a) EXCEPT !.kroutes = Without(@, x)] = r
      BY <1>0, <1>1, <1>4, <2>0 DEF NextRoute, Run
    <3> QED BY <1>10, <3>1
  <2>2. /\ r \in Run /\ r.pc = "route" /\ r.next = n + 1 /\ r.kroutes = t
        /\ r.state = run[a].state /\ r.failed = run[a].failed /\ r.i = x
    <3>1. n + 1 \in Nat
      BY <1>0, <1>1, <1>5, <2>0
    <3>2. r \in Run
      BY <1>0, <1>1, <1>5, <2>0, <3>1 DEF Run
    <3>3. /\ r.pc = "route" /\ r.next = n + 1 /\ r.kroutes = t
          /\ r.state = run[a].state /\ r.failed = run[a].failed /\ r.i = x
      BY <1>0, <1>1, <1>5, <2>0 DEF Run
    <3> QED BY <3>2, <3>3
  <2>3. \A l \in ListOf(t) : ~ SameKey(Config[n], l)
    BY <1>2, <1>6, <1>10
  <2>4. Explained(k, a)
    BY <1>2, <1>7, <1>10
  <2>5. Puts(n, a) => InForce(Config[n], fib)
    <3> SUFFICES ASSUME Puts(n, a) PROVE InForce(Config[n], fib)
      OBVIOUS
    <3>1. Implements(k, Config[n])
      BY <1>2, <1>10 DEF Puts
    <3>2. k \in ListOf(ks)
      BY <1>0, <1>1 DEF ListOf
    <3>3. k \in fib
      BY <1>0, <1>1, <3>1, <3>2 DEF RunInv, UpToDate
    <3> QED BY <3>1, <3>3 DEF InForce
  <2>7. Moving(a, r)
    BY <1>0, <1>1, <2>1, <2>2 DEF Moving
  <2>8. Passing(a, r, fib)
    BY <1>0, <2>2, <2>3, <2>5 DEF Passing
  <2>9. StrikesOff(a, r, x)
    BY <1>0, <1>1, <1>5, <2>2 DEF StrikesOff
  <2> QED BY <1>0, <1>1, <2>4, <2>7, <2>8, <2>9, MovesQuietly
<1>11. CASE /\ SameKey(Current(a), k)
            /\ Matched(a) \in {"plain", "enable"}
            /\ run' = [run EXCEPT ![a].kroutes = Without(@, x), ![a].i = @ + 1]
  <2>0. PICK r : r = [run[a] EXCEPT !.kroutes = t, !.i = x + 1]
    OBVIOUS
  <2>1. run' = [run EXCEPT ![a] = r]
    BY <1>0, <1>1, <1>4, <1>11, <2>0
  <2>2. /\ r \in Run /\ r.pc = "scan" /\ r.next = n /\ r.kroutes = t
        /\ r.state = run[a].state /\ r.failed = run[a].failed /\ r.i = x + 1
    <3>1. x + 1 \in Nat
      BY <1>0, <1>1, <1>5, <2>0
    <3>2. r \in Run
      BY <1>0, <1>1, <1>5, <2>0, <3>1 DEF Run
    <3>3. /\ r.pc = "scan" /\ r.next = n /\ r.kroutes = t
          /\ r.state = run[a].state /\ r.failed = run[a].failed /\ r.i = x + 1
      BY <1>0, <1>1, <1>5, <2>0 DEF Run
    <3> QED BY <3>2, <3>3
  <2>3. \A j \in 1 .. Len(t) : ~ SameKey(Config[n], t[j])
    BY <1>2, <1>6, <1>11 DEF ListOf
  <2>4. Explained(k, a) /\ x + 1 >= 1
    BY <1>1, <1>2, <1>7, <1>11
  <2>5. Moving(a, r)
    BY <1>0, <1>1, <2>1, <2>2, <2>3, <2>4 DEF Moving
  <2>6. Passing(a, r, fib)
    BY <1>0, <2>2 DEF Passing
  <2>7. StrikesOff(a, r, x)
    BY <1>0, <1>1, <1>5, <2>2 DEF StrikesOff
  <2> QED BY <1>0, <1>1, <2>4, <2>6, <2>5, <2>7, MovesQuietly
<1> QED BY <1>0, <1>8, <1>9, <1>10, <1>11 DEF Examine

\* At the end of a scan nothing it looked for is left.
LEMMA EndOfScanFacts ==
  ASSUME IInv, NEW a \in Applier, EndOfScan(a), NEW n, n = run[a].next,
         NEW r, r = NextRoute(a)
  PROVE  /\ n \in Index /\ n \in Nat /\ Working(a) /\ run[a] \in Run
         /\ run[a].kroutes \in Seq(KernelRoute)
         /\ \A k \in ListOf(run[a].kroutes) : ~ SameKey(Config[n], k)
         /\ r \in Run /\ r.pc = "route" /\ r.next = n + 1 /\ r.kroutes = run[a].kroutes
         /\ r.state = run[a].state /\ r.failed = run[a].failed /\ r.i = run[a].i /\ r.i >= 1
<1>1. /\ run[a] \in Run /\ n \in Index /\ n \in Nat /\ run[a].pc = "scan" /\ RunInv(a)
      /\ run[a].kroutes \in Seq(KernelRoute) /\ run[a].i \in Nat /\ run[a].i >= 1
      /\ run[a].i > Len(run[a].kroutes)
  BY RunFacts DEF IInv, EndOfScan
<1>2. \A j \in 1 .. Len(run[a].kroutes) : j < run[a].i
  BY <1>1
<1>3. \A k \in ListOf(run[a].kroutes) : ~ SameKey(Config[n], k)
  BY <1>1, <1>2 DEF RunInv, Scanned, ListOf
<1>4. r = [run[a] EXCEPT !.pc = "route", !.next = n + 1]
  BY DEF NextRoute
<1>5. n + 1 \in Nat
  BY <1>1
<1>6. r \in Run
  BY <1>1, <1>4, <1>5 DEF Run
<1>7. /\ r.pc = "route" /\ r.next = n + 1 /\ r.kroutes = run[a].kroutes
      /\ r.state = run[a].state /\ r.failed = run[a].failed /\ r.i = run[a].i
  BY <1>1, <1>4 DEF Run
<1> QED BY <1>1, <1>3, <1>6, <1>7 DEF Working

LEMMA LeaveRouteStep ==
  ASSUME IInv, NEW a \in Applier, LeaveRoute(a)
  PROVE  Kept(a)
<1>1. PICK n, r : n = run[a].next /\ r = NextRoute(a)
  OBVIOUS
<1>2. /\ EndOfScan(a) /\ run' = [run EXCEPT ![a] = r] /\ fib' = fib /\ failures' \in Nat
      /\ Matched(a) \in {"ignore", "disable"}
  BY <1>1 DEF LeaveRoute, IInv, TypeOK
<1>3. /\ n \in Index /\ n \in Nat /\ Working(a)
      /\ \A k \in ListOf(run[a].kroutes) : ~ SameKey(Config[n], k)
      /\ r \in Run /\ r.pc = "route" /\ r.next = n + 1 /\ r.kroutes = run[a].kroutes
      /\ r.state = run[a].state /\ r.failed = run[a].failed /\ r.i >= 1
  BY <1>1, <1>2, EndOfScanFacts
<1>4. ~ Puts(n, a)
  BY <1>1, <1>2, <1>3, AtRouteFacts DEF Puts
<1>5. Moving(a, r)
  BY <1>1, <1>2, <1>3 DEF Moving
<1>6. Passing(a, r, fib)
  BY <1>1, <1>3, <1>4 DEF Passing
<1> QED BY <1>2, <1>3, <1>5, <1>6, MovesQuietly

LEMMA ReplaceFailsStep ==
  ASSUME IInv, NEW a \in Applier, ReplaceFails(a)
  PROVE  Kept(a)
<1>1. PICK n, q, r : n = run[a].next /\ q = NextRoute(a) /\ r = [q EXCEPT !.failed = TRUE]
  OBVIOUS
<1>2. EndOfScan(a) /\ run' = [run EXCEPT ![a] = r] /\ fib' = fib /\ failures' \in Nat
  BY <1>1 DEF ReplaceFails, IInv, TypeOK
<1>3. /\ n \in Index /\ n \in Nat /\ Working(a)
      /\ \A k \in ListOf(run[a].kroutes) : ~ SameKey(Config[n], k)
      /\ q \in Run /\ q.pc = "route" /\ q.next = n + 1 /\ q.kroutes = run[a].kroutes
      /\ q.state = run[a].state /\ q.i >= 1
  BY <1>1, <1>2, EndOfScanFacts
<1>4. /\ r \in Run /\ r.pc = "route" /\ r.next = n + 1 /\ r.kroutes = run[a].kroutes
      /\ r.state = run[a].state /\ r.failed /\ r.i >= 1
  BY <1>1, <1>3 DEF Run
<1>5. Moving(a, r)
  BY <1>1, <1>2, <1>3, <1>4 DEF Moving
<1>6. Passing(a, r, fib)
  BY <1>1, <1>3, <1>4 DEF Passing
<1> QED BY <1>2, <1>4, <1>5, <1>6, MovesQuietly

LEMMA ReplaceRouteStep ==
  ASSUME IInv, NEW a \in Applier, ReplaceRoute(a)
  PROVE  Kept(a)
<1>1. PICK n, r : n = run[a].next /\ r = NextRoute(a)
  OBVIOUS
<1>2. /\ EndOfScan(a) /\ run' = [run EXCEPT ![a] = r] /\ failures' \in Nat
      /\ Matched(a) \in {"plain", "enable"} /\ fib' \in Replaced(Resolved(Config[n]))
  BY <1>1 DEF ReplaceRoute, IInv, TypeOK, Current
<1>3. /\ n \in Index /\ n \in Nat /\ Working(a)
      /\ \A k \in ListOf(run[a].kroutes) : ~ SameKey(Config[n], k)
      /\ r \in Run /\ r.pc = "route" /\ r.next = n + 1 /\ r.kroutes = run[a].kroutes
      /\ r.state = run[a].state /\ r.failed = run[a].failed /\ r.i >= 1
  BY <1>1, <1>2, EndOfScanFacts
<1>4. Own(n, a) /\ Want(n, a)
  BY <1>1, <1>2, <1>3, AtRouteFacts
<1>5. /\ TypeOK /\ OneTos /\ RunInv(a) /\ IsFiniteSet(fib) /\ OnePerSlot(fib)
      /\ fib \subseteq KernelRoute /\ run[a].state \in VrrpState \cup {None}
  BY RunFacts DEF IInv, TypeOK
<1>6. PICK k \in KernelRoute :
        /\ fib' = {q \in fib : ~ InSlot(q, Config[n])} \cup {k}
        /\ SameKey(Config[n], k) /\ InSlot(k, Config[n])
        /\ ~ Skipped(Config[n]) => Implements(k, Config[n])
  BY <1>2, <1>3, <1>5, ReplacedFacts
<1>7. fib' \subseteq KernelRoute /\ IsFiniteSet(fib') /\ OnePerSlot(fib')
  <2>1. IsFiniteSet({q \in fib : ~ InSlot(q, Config[n])})
    BY <1>5, FS_Subset
  <2>2. IsFiniteSet(fib')
    BY <1>6, <2>1, FS_AddElement
  <2>3. OnePerSlot(fib')
    BY <1>5, <1>6 DEF OnePerSlot, SameSlot, InSlot
  <2> QED BY <1>5, <1>6, <2>2, <2>3
<1>8. OneTos'
  <2> SUFFICES ASSUME NEW i \in Index, NEW l \in fib', SameKey(Config[i], l)
               PROVE  InSlot(l, Config[i])
    BY DEF OneTos
  <2>1. CASE l \in fib
    BY <1>5, <2>1 DEF OneTos
  <2>2. CASE l = k
    BY <1>6, <2>2 DEF SameKey, InSlot
  <2> QED BY <1>6, <2>1, <2>2
<1>9. \A i \in Index, l \in fib : Implements(l, Config[i]) /\ InSlot(l, Config[n]) =>
        Config[i].dst = Config[n].dst
  BY ImplementsFacts DEF InSlot
<1>10. Gentle(a)
  <2>1. \A l \in fib' : l \in fib \/ \E j \in Index : Own(j, a) /\ SameKey(Config[j], l)
    BY <1>3, <1>4, <1>6
  <2>2. ASSUME NEW i \in Index, NEW l \in fib, ~ Own(i, a), Implements(l, Config[i])
        PROVE  l \in fib'
    <3>1. Config[i].dst # Config[n].dst
      BY <1>3, <1>4, <2>2, ConfigFacts, DistinctAssumption DEF Own
    <3> QED BY <1>6, <1>9, <2>2, <3>1
  <2> QED BY <2>1, <2>2 DEF Gentle
<1>11. ASSUME NEW i \in Index, NEW l \in fib, Puts(i, a), i # n, Implements(l, Config[i])
       PROVE  l \in fib'
  <2>1. Config[i].dst # Config[n].dst
    <3>1. Wanted(Config[i], run[a].state) /\ Wanted(Config[n], run[a].state)
      BY <1>4, <1>11 DEF Puts, Want
    <3> QED BY <1>3, <1>5, <1>11, <3>1, ConfigFacts, DistinctAssumption
  <2> QED BY <1>6, <1>9, <1>11, <2>1
<1>12. ~ r.failed => \A l \in fib' : l \in ListOf(r.kroutes) \/ Explained(l, a)
  <2>1. Explained(k, a)
    BY <1>3, <1>4, <1>6 DEF Explained
  <2> QED BY <1>3, <1>5, <1>6, <2>1 DEF RunInv, Seen
<1>13. Puts(n, a) => InForce(Config[n], fib')
  BY <1>6 DEF Puts, InForce
<1>14. Moving(a, r)
  BY <1>1, <1>2, <1>3 DEF Moving
<1>15. Passing(a, r, fib')
  BY <1>1, <1>3, <1>13 DEF Passing
<1>16. r.next # n
  BY <1>3
<1>17. Harmless(a, r)
  BY <1>1, <1>7, <1>8, <1>10, <1>11, <1>12, <1>16 DEF Harmless
<1> QED BY <1>3, <1>14, <1>15, <1>17, Moves

\* In the clean-up every configured route was handled.
LEMMA CleanUpFacts ==
  ASSUME IInv, NEW a \in Applier, CleanUp(a)
  PROVE  /\ Working(a) /\ run[a] \in Run /\ run[a].pc = "route" /\ run[a].i >= 1
         /\ run[a].next \in Nat /\ \A i \in Index : i < run[a].next
         /\ run \in [Applier -> Run] /\ TypeOK /\ OneTos /\ RunInv(a)
         /\ run[a].kroutes \in Seq(KernelRoute) /\ run[a].kroutes # <<>>
<1>1. /\ run[a] \in Run /\ run[a].pc = "route" /\ run[a].next \in Nat
      /\ run[a].next > Len(Config) /\ run[a].kroutes # <<>>
      /\ run[a].kroutes \in Seq(KernelRoute) /\ run[a].i >= 1 /\ TypeOK /\ OneTos /\ RunInv(a)
  BY RunFacts DEF IInv, CleanUp
<1>2. \A i \in Index : i < run[a].next
  BY <1>1, ConfigFacts DEF Index
<1> QED BY <1>1, <1>2 DEF Working, TypeOK

Cut(o, t, r) == o.kroutes # <<>> /\ t = Tail(o.kroutes) /\ r = [o EXCEPT !.kroutes = t]

LEMMA TailRun ==
  ASSUME NEW o \in Run, NEW t, NEW r, Cut(o, t, r)
  PROVE  /\ t \in Seq(KernelRoute) /\ Thinned(o.kroutes, t, 1)
         /\ 1 \in 1 .. Len(o.kroutes) /\ Head(o.kroutes) = o.kroutes[1]
         /\ r \in Run /\ r.pc = o.pc /\ r.next = o.next /\ r.kroutes = t
         /\ r.state = o.state /\ r.failed = o.failed /\ r.i = o.i
<1>1. o.kroutes \in Seq(KernelRoute)
  BY DEF Run, Cut
<1>2. /\ t \in Seq(KernelRoute) /\ Thinned(o.kroutes, t, 1)
      /\ 1 \in 1 .. Len(o.kroutes) /\ Head(o.kroutes) = o.kroutes[1]
  BY <1>1, TailThins DEF Cut
<1>3. r \in Run
  BY <1>2 DEF Run, Cut
<1>4. /\ r.pc = o.pc /\ r.next = o.next /\ r.kroutes = t
      /\ r.state = o.state /\ r.failed = o.failed /\ r.i = o.i
  BY DEF Run, Cut
<1> QED BY <1>2, <1>3, <1>4

LEMMA LeaveIgnoredStep ==
  ASSUME IInv, NEW a \in Applier, LeaveIgnored(a)
  PROVE  Kept(a)
<1>1. PICK o, n, ks, t, r : /\ o = run[a] /\ n = o.next /\ ks = o.kroutes /\ t = Tail(ks)
                            /\ r = [o EXCEPT !.kroutes = t]
  OBVIOUS
<1>2. CleanUp(a) /\ Ignored(Head(ks)) /\ fib' = fib /\ failures' \in Nat
  BY <1>1 DEF LeaveIgnored, IInv, TypeOK
<1>3. /\ Working(a) /\ run \in [Applier -> Run] /\ n \in Nat
      /\ Thinned(ks, t, 1) /\ 1 \in 1 .. Len(ks) /\ Head(ks) = ks[1]
      /\ r \in Run /\ r.pc = "route" /\ r.next = n /\ r.kroutes = t
      /\ r.state = run[a].state /\ r.failed = run[a].failed /\ r.i >= 1
  <2>1. CleanUp(a) /\ o = run[a]
    BY <1>1, <1>2
  <2>2. /\ Working(a) /\ o \in Run /\ o.pc = "route" /\ o.i >= 1 /\ o.kroutes # <<>>
        /\ o.next \in Nat /\ (\A i \in Index : i < o.next) /\ o.kroutes \in Seq(KernelRoute)
        /\ run \in [Applier -> Run] /\ TypeOK /\ OneTos /\ RunInv(a)
    BY <2>1, CleanUpFacts
  <2>3. Cut(o, t, r)
    BY <1>1, <2>2 DEF Cut
  <2>4. /\ t \in Seq(KernelRoute) /\ Thinned(o.kroutes, t, 1)
        /\ 1 \in 1 .. Len(o.kroutes) /\ Head(o.kroutes) = o.kroutes[1]
        /\ r \in Run /\ r.pc = o.pc /\ r.next = o.next /\ r.kroutes = t
        /\ r.state = o.state /\ r.failed = o.failed /\ r.i = o.i
    BY <2>2, <2>3, TailRun
  <2> QED BY <1>1, <2>2, <2>4
<1>4. run' = [run EXCEPT ![a] = r]
  BY <1>1, <1>3 DEF LeaveIgnored
<1>5. Explained(ks[1], a)
  BY <1>2, <1>3 DEF Explained
<1>6. Moving(a, r)
  BY <1>1, <1>2, <1>3, <1>4 DEF Moving
<1>7. Passing(a, r, fib) /\ StrikesOff(a, r, 1)
  BY <1>1, <1>3 DEF Passing, StrikesOff
<1> QED BY <1>1, <1>2, <1>5, <1>6, <1>7, MovesQuietly

LEMMA DeleteFailsStep ==
  ASSUME IInv, NEW a \in Applier, DeleteFails(a)
  PROVE  Kept(a)
<1>1. PICK o, n, ks, t, q, r : /\ o = run[a] /\ n = o.next /\ ks = o.kroutes /\ t = Tail(ks)
                               /\ q = [o EXCEPT !.kroutes = t]
                               /\ r = [q EXCEPT !.failed = TRUE]
  OBVIOUS
<1>2. CleanUp(a) /\ fib' = fib /\ failures' \in Nat
  BY <1>1 DEF DeleteFails, IInv, TypeOK
<1>3. /\ Working(a) /\ run \in [Applier -> Run] /\ n \in Nat
      /\ Thinned(ks, t, 1) /\ 1 \in 1 .. Len(ks)
      /\ q \in Run /\ q.pc = "route" /\ q.next = n /\ q.kroutes = t
      /\ q.state = run[a].state /\ q.i >= 1
  <2>1. CleanUp(a) /\ o = run[a]
    BY <1>1, <1>2
  <2>2. /\ Working(a) /\ o \in Run /\ o.pc = "route" /\ o.i >= 1 /\ o.kroutes # <<>>
        /\ o.next \in Nat /\ (\A i \in Index : i < o.next) /\ o.kroutes \in Seq(KernelRoute)
        /\ run \in [Applier -> Run] /\ TypeOK /\ OneTos /\ RunInv(a)
    BY <2>1, CleanUpFacts
  <2>3. Cut(o, t, q)
    BY <1>1, <2>2 DEF Cut
  <2>4. /\ t \in Seq(KernelRoute) /\ Thinned(o.kroutes, t, 1)
        /\ 1 \in 1 .. Len(o.kroutes) /\ Head(o.kroutes) = o.kroutes[1]
        /\ q \in Run /\ q.pc = o.pc /\ q.next = o.next /\ q.kroutes = t
        /\ q.state = o.state /\ q.failed = o.failed /\ q.i = o.i
    BY <2>2, <2>3, TailRun
  <2> QED BY <1>1, <2>2, <2>4
<1>4. /\ r \in Run /\ r.pc = "route" /\ r.next = n /\ r.kroutes = t
      /\ r.state = run[a].state /\ r.failed /\ r.i >= 1
  BY <1>1, <1>3 DEF Run
<1>5. run' = [run EXCEPT ![a] = r]
  <2>1. run' = [run EXCEPT ![a].kroutes = Tail(@), ![a].failed = TRUE]
    BY DEF DeleteFails
  <2> QED BY <1>1, <1>3, <2>1
<1>6. Moving(a, r)
  BY <1>1, <1>2, <1>3, <1>4, <1>5 DEF Moving
<1>7. Passing(a, r, fib) /\ StrikesOff(a, r, 1)
  BY <1>1, <1>3, <1>4 DEF Passing, StrikesOff
<1> QED BY <1>2, <1>4, <1>6, <1>7, MovesQuietly

LEMMA DeleteRouteStep ==
  ASSUME IInv, NEW a \in Applier, DeleteRoute(a)
  PROVE  Kept(a)
<1>1. PICK o, n, ks, t, r : /\ o = run[a] /\ n = o.next /\ ks = o.kroutes /\ t = Tail(ks)
                            /\ r = [o EXCEPT !.kroutes = t]
  OBVIOUS
<1>2. CleanUp(a) /\ fib' = fib \ Deleted(Head(ks)) /\ failures' \in Nat
  BY <1>1 DEF DeleteRoute, IInv, TypeOK
<1>3. /\ Working(a) /\ run \in [Applier -> Run] /\ n \in Nat /\ \A i \in Index : i < n
      /\ TypeOK /\ OneTos /\ RunInv(a) /\ ks \in Seq(KernelRoute) /\ t \in Seq(KernelRoute)
      /\ Thinned(ks, t, 1) /\ 1 \in 1 .. Len(ks) /\ Head(ks) = ks[1]
      /\ r \in Run /\ r.pc = "route" /\ r.next = n /\ r.kroutes = t
      /\ r.state = run[a].state /\ r.failed = run[a].failed /\ r.i >= 1
  <2>1. CleanUp(a) /\ o = run[a]
    BY <1>1, <1>2
  <2>2. /\ Working(a) /\ o \in Run /\ o.pc = "route" /\ o.i >= 1 /\ o.kroutes # <<>>
        /\ o.next \in Nat /\ (\A i \in Index : i < o.next) /\ o.kroutes \in Seq(KernelRoute)
        /\ run \in [Applier -> Run] /\ TypeOK /\ OneTos /\ RunInv(a)
    BY <2>1, CleanUpFacts
  <2>3. Cut(o, t, r)
    BY <1>1, <2>2 DEF Cut
  <2>4. /\ t \in Seq(KernelRoute) /\ Thinned(o.kroutes, t, 1)
        /\ 1 \in 1 .. Len(o.kroutes) /\ Head(o.kroutes) = o.kroutes[1]
        /\ r \in Run /\ r.pc = o.pc /\ r.next = o.next /\ r.kroutes = t
        /\ r.state = o.state /\ r.failed = o.failed /\ r.i = o.i
    BY <2>2, <2>3, TailRun
  <2> QED BY <1>1, <2>2, <2>4
<1>4. run' = [run EXCEPT ![a] = r]
  BY <1>1, <1>3 DEF DeleteRoute
<1>5. fib' \subseteq KernelRoute /\ IsFiniteSet(fib') /\ OnePerSlot(fib')
  <2>1. IsFiniteSet(fib')
    BY <1>2, <1>3, FS_Subset DEF TypeOK
  <2> QED BY <1>2, <1>3, <2>1 DEF TypeOK, OnePerSlot
<1>6. OneTos'
  BY <1>2, <1>3 DEF OneTos
<1>7. ks[1] \in ListOf(ks)
  BY <1>3 DEF ListOf
<1>8. ASSUME NEW i \in Index, NEW l \in fib, Strikes(i, a), Implements(l, Config[i])
      PROVE  l \in fib'
  <2>1. ~ SameKey(Config[i], ks[1])
    BY <1>1, <1>3, <1>7, <1>8 DEF RunInv, Struck
  <2>2. SameKey(Config[i], l)
    BY <1>8, ImplementsFacts
  <2>3. ~ SameKey(l, ks[1])
    BY <2>1, <2>2 DEF SameKey
  <2> QED BY <1>2, <1>3, <2>3, DeletedFacts
<1>9. Gentle(a)
  <2>1. \A i \in Index, l \in fib : ~ Own(i, a) /\ Implements(l, Config[i]) => l \in fib'
    BY <1>8, ImplementsFacts DEF Strikes
  <2> QED BY <1>2, <2>1 DEF Gentle
<1>10. \A i \in Index, l \in fib : Puts(i, a) /\ Implements(l, Config[i]) => l \in fib'
  BY <1>8 DEF Strikes, Puts
<1>11. ~ r.failed => \A l \in fib' : l \in ListOf(r.kroutes) \/ Explained(l, a)
  <2> SUFFICES ASSUME ~ r.failed, NEW l \in fib' PROVE l \in ListOf(t) \/ Explained(l, a)
    BY <1>3
  <2>1. l \in fib /\ l # ks[1]
    BY <1>2, <1>3, DeletedFacts
  <2>2. l \in ListOf(ks) \/ Explained(l, a)
    BY <1>1, <1>3, <2>1 DEF RunInv, Seen
  <2>3. l \in ListOf(ks) => l \in ListOf(t)
    BY <1>3, <2>1, ThinnedFacts
  <2> QED BY <2>2, <2>3
<1>12. Moving(a, r)
  BY <1>1, <1>2, <1>3, <1>4 DEF Moving
<1>13. Passing(a, r, fib') /\ StrikesOff(a, r, 1)
  BY <1>1, <1>3 DEF Passing, StrikesOff
<1>14. Harmless(a, r)
  BY <1>5, <1>6, <1>9, <1>10, <1>11 DEF Harmless
<1> QED BY <1>12, <1>13, <1>14, Moves

LEMMA FinishStep ==
  ASSUME IInv, NEW a \in Applier, Finish(a)
  PROVE  Kept(a)
<1>1. /\ TypeOK /\ OneTos /\ RunInv(a) /\ run[a] \in Run /\ run[a].pc = "route"
      /\ run[a].next \in Nat /\ run[a].next > Len(Config) /\ run[a].kroutes = <<>>
      /\ run' = [run EXCEPT ![a].pc = "done"] /\ fib' = fib /\ failures' = failures
  BY RunFacts DEF IInv, Finish
<1>2. /\ run'[a].pc = "done" /\ run'[a].next = run[a].next /\ run'[a].i = run[a].i
      /\ run'[a].failed = run[a].failed /\ run'[a].state = run[a].state
      /\ run' \in [Applier -> Run]
      /\ \A b \in Applier \ {a} : run'[b] = run[b]
  BY <1>1 DEF TypeOK, Run
<1>3. TypeOK'
  <2>1. ASSUME NEW b \in Applier
        PROVE  /\ run'[b].next \in 1 .. Len(Config) + 1 /\ run'[b].i >= 1
               /\ run'[b].pc = "scan" => run'[b].next <= Len(Config)
    BY <1>1, <1>2 DEF TypeOK
  <2> QED BY <1>1, <1>2, <2>1 DEF TypeOK, OnePerSlot
<1>4. /\ \A i : Puts(i, a)' <=> Puts(i, a)
      /\ \A k : Explained(k, a)' <=> Explained(k, a)
  BY <1>2, SameWants
<1>5. \A i \in Index : i < run[a].next
  BY <1>1, ConfigFacts DEF Index
<1>6. ListOf(run[a].kroutes) = {}
  <2>1. Len(run[a].kroutes) = 0 /\ \A j \in 1 .. 0 : FALSE
    BY <1>1
  <2> QED BY <2>1 DEF ListOf
<1>7. Effect(a)'
  <2>1. ~ run[a].failed => \A i \in Index : Puts(i, a) => InForce(Config[i], fib)
    BY <1>1, <1>5 DEF RunInv, Added, Working
  <2>2. ~ run[a].failed => \A k \in fib : Explained(k, a)
    BY <1>1, <1>6 DEF RunInv, Seen, Working
  <2> QED BY <1>1, <1>2, <1>4, <2>1, <2>2 DEF Effect
<1>8. RunInv(a)'
  BY <1>2, <1>7 DEF RunInv, Struck, Scanned, UpToDate, Added, Seen, Working
<1>9. OneTos' /\ Gentle(a)
  BY <1>1 DEF OneTos, Gentle
<1> QED BY <1>2, <1>3, <1>8, <1>9 DEF Kept

LEMMA AbortStep ==
  ASSUME IInv, NEW a \in Applier, Abort(a)
  PROVE  Kept(a)
<1>1. /\ TypeOK /\ OneTos /\ run[a] \in Run
      /\ run' = [run EXCEPT ![a].pc = "idle"] /\ fib' = fib /\ failures' \in Nat
  BY RunFacts DEF IInv, Abort, TypeOK
<1>2. /\ run'[a].pc = "idle" /\ run'[a].next = run[a].next /\ run'[a].i = run[a].i
      /\ run' \in [Applier -> Run]
      /\ \A b \in Applier \ {a} : run'[b] = run[b]
  BY <1>1 DEF TypeOK, Run
<1>3. TypeOK'
  <2>1. ASSUME NEW b \in Applier
        PROVE  /\ run'[b].next \in 1 .. Len(Config) + 1 /\ run'[b].i >= 1
               /\ run'[b].pc = "scan" => run'[b].next <= Len(Config)
    BY <1>1, <1>2 DEF TypeOK
  <2> QED BY <1>1, <1>2, <2>1 DEF TypeOK, OnePerSlot
<1>4. RunInv(a)'
  BY <1>2 DEF RunInv, Struck, Scanned, UpToDate, Added, Seen, Effect, Working
<1>5. OneTos' /\ Gentle(a)
  BY <1>1 DEF OneTos, Gentle
<1> QED BY <1>2, <1>3, <1>4, <1>5 DEF Kept

LEMMA StepKeeps ==
  ASSUME IInv, NEW a \in Applier, Step(a)
  PROVE  Kept(a)
<1>1. ASSUME NEW s \in IF a = Cli THEN {None} ELSE VrrpState, Start(a, s)
      PROVE  Kept(a)
  <2>1. s \in VrrpState \cup {None}
    OBVIOUS
  <2> QED BY <1>1, <2>1, StartStep
<1>2. CASE SkipRoute(a)
  BY <1>2, SkipRouteStep
<1>3. CASE BeginScan(a)
  BY <1>3, BeginScanStep
<1>4. CASE Examine(a)
  BY <1>4, ExamineStep
<1>5. CASE LeaveRoute(a)
  BY <1>5, LeaveRouteStep
<1>6. CASE ReplaceRoute(a)
  BY <1>6, ReplaceRouteStep
<1>7. CASE ReplaceFails(a)
  BY <1>7, ReplaceFailsStep
<1>8. CASE LeaveIgnored(a)
  BY <1>8, LeaveIgnoredStep
<1>9. CASE DeleteRoute(a)
  BY <1>9, DeleteRouteStep
<1>10. CASE DeleteFails(a)
  BY <1>10, DeleteFailsStep
<1>11. CASE Finish(a)
  BY <1>11, FinishStep
<1>12. CASE Abort(a)
  BY <1>12, AbortStep
<1> QED BY <1>1, <1>2, <1>3, <1>4, <1>5, <1>6, <1>7, <1>8, <1>9, <1>10, <1>11, <1>12 DEF Step

LEMMA InitIInv == Init => IInv
<1> SUFFICES ASSUME Init PROVE IInv
  OBVIOUS
<1>1. /\ fib \subseteq InitialRoute /\ OnePerSlot(fib) /\ failures = 0
      /\ run = [a \in Applier |-> [pc |-> "idle", state |-> None, next |-> 1, i |-> 1,
                                  kroutes |-> <<>>, failed |-> FALSE, runs |-> 0]]
  BY DEF Init
<1>2. ASSUME NEW a \in Applier
      PROVE  /\ run[a] \in Run /\ run[a].pc = "idle"
             /\ run[a].next \in 1 .. Len(Config) + 1 /\ run[a].i >= 1
  BY <1>1, ConfigFacts DEF Run
<1>3. run \in [Applier -> Run]
  BY <1>1, <1>2
<1>4. fib \subseteq KernelRoute /\ IsFiniteSet(fib)
  BY <1>1, ConstantsAssumption, FS_Subset
<1>5. TypeOK
  BY <1>1, <1>2, <1>3, <1>4 DEF TypeOK
<1>6. OneTos
  BY <1>1, ConfigFacts, DistinctAssumption DEF OneTos
<1>7. ASSUME NEW a \in Applier PROVE RunInv(a)
  BY <1>2 DEF RunInv, Struck, Scanned, UpToDate, Added, Seen, Effect, Working
<1> QED BY <1>5, <1>6, <1>7 DEF IInv

LEMMA NextIInv == IInv /\ [Next]_vars => IInv'
<1> SUFFICES ASSUME IInv, [Next]_vars PROVE IInv'
  OBVIOUS
<1>1. CASE UNCHANGED vars
  <2>1. ASSUME NEW a \in Applier PROVE RunInv(a)'
    <3>1. run' = run /\ fib' = fib /\ RunInv(a)
      BY <1>1 DEF vars, IInv
    <3> QED BY <3>1 DEF RunInv, Struck, Scanned, UpToDate, Added, Seen, Effect, Working,
                 Puts, Strikes, Own, Want, Explained, Ignored, Once, InForce
  <2>2. TypeOK' /\ OneTos'
    BY <1>1 DEF vars, IInv, TypeOK, OnePerSlot, OneTos
  <2> QED BY <2>1, <2>2 DEF IInv
<1>2. ASSUME NEW a \in Applier, Step(a) PROVE IInv'
  <2>1. Kept(a)
    BY <1>2, StepKeeps
  <2>2. ASSUME NEW b \in Applier, b # a PROVE RunInv(b)'
    BY <2>1, <2>2, OthersKeep DEF Kept, IInv
  <2> QED BY <2>1, <2>2 DEF Kept, IInv
<1> QED BY <1>1, <1>2 DEF Next

\* The invariant holds of every reachable state.
THEOREM Invariance == Spec => []IInv
BY InitIInv, NextIInv, PTL DEF Spec

-----------------------------------------------------------------------------
(* The properties                                                          *)

\* The types, and that the table has one route per slot (Tables.apply).
THEOREM TypeCorrect == Spec => []TypeOK
BY Invariance, PTL DEF IInv

LEMMA EffectOfIInv == IInv => RunTakesEffect
<1> SUFFICES ASSUME IInv, NEW a \in Applier, run[a].pc = "done", ~ run[a].failed
             PROVE  /\ \A c \in Configured :
                         Owner(c) = a /\ Wanted(c, run[a].state) /\ ~ Skipped(c) =>
                           InForce(c, fib)
                    /\ \A k \in fib : ~ Ignored(k) =>
                         \E c \in Configured :
                           SameKey(c, k) /\ (Owner(c) = a => Wanted(c, run[a].state))
  BY DEF RunTakesEffect
<1>1. Effect(a)
  BY DEF IInv, RunInv
<1>2. \A c : c \in Configured <=> \E i \in Index : c = Config[i]
  BY DEF Configured, Index
<1>3. \A c \in Configured :
        Owner(c) = a /\ Wanted(c, run[a].state) /\ ~ Skipped(c) => InForce(c, fib)
  BY <1>1, <1>2 DEF Effect, Puts, Own, Want
<1>4. \A k \in fib : ~ Ignored(k) =>
        \E c \in Configured : SameKey(c, k) /\ (Owner(c) = a => Wanted(c, run[a].state))
  BY <1>1, <1>2 DEF Effect, Explained, Own, Want
<1> QED BY <1>3, <1>4

\* A finished run without failures has put its routes in force and left none that
\* is nobody's, whatever other processes did and do (Tables.apply).
THEOREM RunTakesEffectHolds == Spec => []RunTakesEffect
BY Invariance, EffectOfIInv, PTL

LEMMA StepNoTheft ==
  ASSUME IInv, [Next]_vars, NEW a \in Applier, run'[a] # run[a],
         NEW c \in Configured, Owner(c) # a, InForce(c, fib)
  PROVE  InForce(c, fib')
<1>1. PICK b \in Applier : Step(b)
  BY DEF Next, vars
<1>2. Kept(b)
  BY <1>1, StepKeeps
<1>3. a = b
  BY <1>2 DEF Kept
<1>4. PICK i \in Index : c = Config[i]
  BY DEF Configured, Index
<1> QED BY <1>2, <1>3, <1>4 DEF Kept, Gentle, Own, InForce

\* A process never takes a configured route of another one out of force, however
\* old its dump is (Tables.apply by `ifstate apply' and by the VRRP workers).
THEOREM NoTheftHolds == Spec => NoTheft
<1>1. IInv /\ [Next]_vars =>
        [\A a \in Applier : run'[a] # run[a] =>
           \A c \in Configured :
             Owner(c) # a /\ InForce(c, fib) => InForce(c, fib')]_vars
  BY StepNoTheft
<1> QED BY Invariance, <1>1, PTL DEF Spec, NoTheft

-----------------------------------------------------------------------------
(* Routes are replaced only if they are not as wanted                      *)

\* What is as wanted in the kernel is on the copy of the dump until it is recognised.
Pending(a) ==
  Working(a) =>
    \A i \in Index, k \in fib :
      i >= run[a].next /\ Puts(i, a) /\ Implements(k, Config[i]) => k \in ListOf(run[a].kroutes)

Scanning(a) == run[a].pc = "scan" => ~ Skipped(Config[run[a].next])

PInv == \A a \in Applier : Pending(a) /\ Scanning(a)

\* A wanted route of a process is not mistaken for another that its owner may have.
LEMMA NoRivals ==
  ASSUME NEW a \in Applier, run[a].state \in VrrpState \cup {None},
         NEW i \in Index, NEW j \in Index, i # j, Puts(i, a), Own(j, a) => Want(j, a),
         NEW k, Implements(k, Config[i]), SameKey(Config[j], k)
  PROVE  FALSE
<1>1. SameKey(Config[i], Config[j])
  BY ImplementsFacts DEF SameKey
<1>2. Config[i].dst = Config[j].dst
  BY <1>1 DEF SameKey
<1>3. Owner(Config[i]) = Owner(Config[j])
  BY <1>2, ConfigFacts, DistinctAssumption
<1>4. Wanted(Config[i], run[a].state) /\ Wanted(Config[j], run[a].state)
  BY <1>3 DEF Puts, Own, Want
<1> QED BY <1>2, <1>4, ConfigFacts, DistinctAssumption

LEMMA ImplementsAsWanted ==
  ASSUME NEW i \in Index, NEW k, Implements(k, Config[i])
  PROVE  AsWanted(Resolved(Config[i]), k)
<1>1. PICK c, r : c = Config[i] /\ r = Resolved(c)
  OBVIOUS
<1>2. /\ r.dst = c.dst /\ r.proto = c.proto /\ r.gw = c.gw
      /\ r.dev = IF c.dev \in Links THEN c.dev ELSE None
  BY <1>1, ResolvedFacts
<1> QED BY <1>1, <1>2 DEF AsWanted, SameKey, Implements, InSlot

LEMMA OthersPend ==
  ASSUME IInv, PInv, NEW a \in Applier, NEW b \in Applier, a # b, Kept(a)
  PROVE  Pending(b)' /\ Scanning(b)'
<1>1. run'[b] = run[b] /\ Gentle(a) /\ run[b].state \in VrrpState \cup {None}
      /\ Pending(b) /\ Scanning(b)
  BY RunFacts DEF Kept, IInv, PInv
<1>2. \A i : Puts(i, b)' <=> Puts(i, b)
  BY <1>1, SameWants
<1>3. ASSUME NEW i \in Index, NEW k \in fib', Puts(i, b), Implements(k, Config[i])
      PROVE  k \in fib
  <2>1. CASE \E j \in Index : Own(j, a) /\ SameKey(Config[j], k)
    <3>1. PICK j \in Index : Own(j, a) /\ SameKey(Config[j], k)
      BY <2>1
    <3>2. ~ Own(j, b) /\ i # j
      BY <1>3, <3>1 DEF Own, Puts
    <3> QED BY <1>1, <1>3, <3>1, <3>2, NoRivals
  <2> QED BY <1>1, <1>3, <2>1 DEF Gentle
<1>4. Working(b)' <=> Working(b)
  BY <1>1 DEF Working
<1> QED BY <1>1, <1>2, <1>3, <1>4 DEF Pending, Scanning

LEMMA Proceeds ==
  ASSUME IInv, PInv, NEW a \in Applier, Working(a), run'[a].state = run[a].state,
         run'[a].next \in {run[a].next, run[a].next + 1},
         \A i \in Index, k \in fib' :
           i >= run'[a].next /\ Puts(i, a) /\ Implements(k, Config[i]) => k \in fib,
         \A i \in Index, k \in ListOf(run[a].kroutes) :
           i >= run'[a].next /\ Puts(i, a) /\ Implements(k, Config[i]) =>
             k \in ListOf(run'[a].kroutes),
         run'[a].pc = "scan" => ~ Skipped(Config[run'[a].next])
  PROVE  Pending(a)' /\ Scanning(a)'
<1>1. \A i : Puts(i, a)' <=> Puts(i, a)
  BY SameWants
<1>2. \A i \in Index : i >= run'[a].next => i >= run[a].next
  BY RunFacts DEF IInv, Index
<1>3. Pending(a)
  BY DEF PInv
<1>4. Pending(a)'
  BY <1>1, <1>2, <1>3 DEF Pending
<1> QED BY <1>4 DEF Scanning

LEMMA ExaminePends ==
  ASSUME IInv, PInv, NEW a \in Applier, Examine(a)
  PROVE  Pending(a)' /\ Scanning(a)'
<1>0. PICK n, x, ks, k : n = run[a].next /\ x = run[a].i /\ ks = run[a].kroutes /\ k = ks[x]
  OBVIOUS
<1>1. /\ run[a] \in Run /\ n \in Index /\ n \in Nat /\ Working(a) /\ run[a].pc = "scan"
      /\ run \in [Applier -> Run] /\ ks \in Seq(KernelRoute) /\ x \in 1 .. Len(ks)
      /\ fib' = fib /\ ~ Skipped(Config[n]) /\ run[a].state \in VrrpState \cup {None}
  BY <1>0, RunFacts DEF IInv, PInv, Scanning, Examine, TypeOK, Working
<1>2. /\ \A l : SameKey(Current(a), l) <=> SameKey(Config[n], l)
      /\ Matched(a) \in {"plain", "ignore", "enable", "disable"}
      /\ ~ Own(n, a) <=> Matched(a) = "ignore"
      /\ Own(n, a) /\ ~ Want(n, a) <=> Matched(a) = "disable"
      /\ Current(a) = Resolved(Config[n])
  BY <1>0, <1>1, AtRouteFacts DEF Current
<1>3. PICK t : t = Without(ks, x)
  OBVIOUS
<1>4. \A l \in ListOf(ks) : l = k \/ l \in ListOf(t)
  <2>1. t \in Seq(KernelRoute) /\ Thinned(ks, t, x)
    BY <1>1, <1>3, WithoutThins
  <2> QED BY <1>0, <1>1, <2>1, ThinnedFacts
\* what is struck off is no other route's
<1>5. ASSUME SameKey(Config[n], k), Matched(a) # "disable",
             NEW i \in Index, i # n, Puts(i, a), Implements(k, Config[i])
      PROVE  FALSE
  <2>1. Own(n, a) => Want(n, a)
    BY <1>2, <1>5
  <2> QED BY <1>1, <1>5, <2>1, NoRivals
<1>6. CASE run' = [run EXCEPT ![a].i = @ + 1]
  <2>1. /\ run'[a].state = run[a].state /\ run'[a].next = n /\ run'[a].kroutes = ks
        /\ run'[a].pc = "scan"
    BY <1>0, <1>1, <1>6 DEF Run
  <2> QED BY <1>0, <1>1, <2>1, Proceeds
<1>7. CASE run' = [run EXCEPT ![a] = NextRoute(a)]
  <2>1. /\ run'[a].state = run[a].state /\ run'[a].next = n + 1 /\ run'[a].kroutes = ks
        /\ run'[a].pc = "route"
    BY <1>0, <1>1, <1>7 DEF Run, NextRoute
  <2> QED BY <1>0, <1>1, <2>1, Proceeds
<1>8. CASE /\ SameKey(Current(a), k)
           /\ Matched(a) # "disable"
           /\ run' = [run EXCEPT ![a] = [NextRoute(a) EXCEPT !.kroutes = Without(@, x)]]
  <2>1. /\ run'[a].state = run[a].state /\ run'[a].next = n + 1 /\ run'[a].kroutes = t
        /\ run'[a].pc = "route"
    BY <1>0, <1>1, <1>3, <1>8 DEF Run, NextRoute
  <2>2. \A i \in Index : i >= n + 1 => i # n
    BY <1>1
  <2>3. \A i \in Index, l \in ListOf(ks) :
          i >= n + 1 /\ Puts(i, a) /\ Implements(l, Config[i]) => l \in ListOf(t)
    BY <1>2, <1>4, <1>5, <1>8, <2>2
  <2> QED BY <1>0, <1>1, <2>1, <2>3, Proceeds
<1>9. CASE /\ SameKey(Current(a), k)
           /\ Matched(a) \in {"plain", "enable"}
           /\ ~ AsWanted(Current(a), k)
           /\ run' = [run EXCEPT ![a].kroutes = Without(@, x), ![a].i = @ + 1]
  <2>1. /\ run'[a].state = run[a].state /\ run'[a].next = n /\ run'[a].kroutes = t
        /\ run'[a].pc = "scan"
    BY <1>0, <1>1, <1>3, <1>9 DEF Run
  <2>2. ~ Implements(k, Config[n])
    BY <1>1, <1>2, <1>9, ImplementsAsWanted
  <2>3. \A i \in Index, l \in ListOf(ks) :
          i >= n /\ Puts(i, a) /\ Implements(l, Config[i]) => l \in ListOf(t)
    BY <1>2, <1>4, <1>5, <1>9, <2>2
  <2> QED BY <1>0, <1>1, <2>1, <2>3, Proceeds
<1> QED BY <1>0, <1>2, <1>6, <1>7, <1>8, <1>9 DEF Examine

LEMMA ReplacePends ==
  ASSUME IInv, PInv, NEW a \in Applier, ReplaceRoute(a)
  PROVE  Pending(a)' /\ Scanning(a)' /\ fib' # fib
<1>1. PICK n, r : n = run[a].next /\ r = NextRoute(a)
  OBVIOUS
<1>2. /\ EndOfScan(a) /\ run' = [run EXCEPT ![a] = r]
      /\ Matched(a) \in {"plain", "enable"} /\ fib' \in Replaced(Resolved(Config[n]))
      /\ TypeOK /\ run \in [Applier -> Run] /\ run[a].state \in VrrpState \cup {None}
  BY <1>1, RunFacts DEF ReplaceRoute, IInv, TypeOK, Current
<1>3. /\ n \in Index /\ n \in Nat /\ Working(a)
      /\ \A k \in ListOf(run[a].kroutes) : ~ SameKey(Config[n], k)
      /\ r \in Run /\ r.pc = "route" /\ r.next = n + 1 /\ r.kroutes = run[a].kroutes
      /\ r.state = run[a].state
  BY <1>1, <1>2, EndOfScanFacts
<1>4. Own(n, a) /\ Want(n, a) /\ ~ Skipped(Config[n]) /\ Puts(n, a)
  <2>1. Own(n, a) /\ Want(n, a)
    BY <1>1, <1>2, <1>3, AtRouteFacts
  <2>2. ~ Skipped(Config[n])
    BY <1>1, <1>2 DEF PInv, Scanning, EndOfScan
  <2> QED BY <2>1, <2>2 DEF Puts
<1>5. PICK k \in KernelRoute :
        /\ fib' = {q \in fib : ~ InSlot(q, Config[n])} \cup {k}
        /\ SameKey(Config[n], k) /\ InSlot(k, Config[n])
        /\ Implements(k, Config[n])
  BY <1>2, <1>3, <1>4, ReplacedFacts
<1>6. fib' # fib
  <2> SUFFICES ASSUME fib' = fib PROVE FALSE
    OBVIOUS
  <2>1. k \in fib
    BY <1>5
  <2>2. n >= run[a].next
    BY <1>1, <1>3
  <2>3. k \in ListOf(run[a].kroutes)
    BY <1>3, <1>4, <1>5, <2>1, <2>2 DEF PInv, Pending
  <2> QED BY <1>3, <1>5, <2>3
<1>7. run'[a] = r
  BY <1>2
<1>8. \A i \in Index : i >= n + 1 => i # n
  BY <1>3
<1>9. \A i \in Index, l \in fib' :
        i >= n + 1 /\ Puts(i, a) /\ Implements(l, Config[i]) => l \in fib
  BY <1>2, <1>3, <1>4, <1>5, <1>8, NoRivals
<1>10. Pending(a)' /\ Scanning(a)'
  BY <1>1, <1>3, <1>7, <1>9, Proceeds
<1> QED BY <1>6, <1>10

LEMMA CleanUpPends ==
  ASSUME IInv, PInv, NEW a \in Applier, CleanUp(a), fib' \subseteq fib,
         run'[a].next = run[a].next, run'[a].pc = "route"
  PROVE  Pending(a)' /\ Scanning(a)'
<1>1. run[a].next \in Nat /\ \A i \in Index : i < run[a].next
  BY CleanUpFacts
<1>2. \A i \in Index : ~ (i >= run[a].next)
  BY <1>1 DEF Index
<1> QED BY <1>2 DEF Pending, Scanning, Index

LEMMA StepPends ==
  ASSUME IInv, PInv, NEW a \in Applier, Step(a)
  PROVE  Pending(a)' /\ Scanning(a)'
<1>0. /\ run \in [Applier -> Run] /\ run[a] \in Run /\ run[a].next \in Nat
  BY RunFacts DEF IInv, TypeOK
<1>1. ASSUME NEW s \in IF a = Cli THEN {None} ELSE VrrpState, Start(a, s)
      PROVE  Pending(a)' /\ Scanning(a)'
  <2>1. PICK d \in Dumps(fib) :
          /\ run' = [run EXCEPT ![a] = [pc |-> "route", state |-> s, next |-> 1, i |-> 1,
                                        kroutes |-> d, failed |-> FALSE, runs |-> @.runs + 1]]
          /\ fib' = fib
    BY <1>1 DEF Start
  <2>2. run'[a].pc = "route" /\ run'[a].kroutes = d
    BY <1>0, <2>1
  <2>3. \A k \in fib : k \in ListOf(d)
    <3>1. Cardinality(fib) \in Nat
      BY FS_CardinalityType DEF IInv, TypeOK
    <3>2. d \in [1 .. Cardinality(fib) -> fib]
      BY <2>1 DEF Dumps
    <3>3. Len(d) = Cardinality(fib)
      BY <3>1, <3>2
    <3> QED BY <2>1, <3>3 DEF Dumps, ListOf
  <2> QED BY <2>1, <2>2, <2>3 DEF Pending, Scanning
<1>2. CASE SkipRoute(a) \/ LeaveRoute(a) \/ ReplaceFails(a)
  <2>1. fib' = fib /\ Working(a) /\ run[a].next \in Nat
    BY <1>0, <1>2 DEF SkipRoute, LeaveRoute, ReplaceFails, EndOfScan, Working
  <2>2. /\ run'[a].state = run[a].state /\ run'[a].next = run[a].next + 1
        /\ run'[a].kroutes = run[a].kroutes /\ run'[a].pc = "route"
    <3>1. PICK r : r = NextRoute(a)
      OBVIOUS
    <3>2. /\ r.state = run[a].state /\ r.next = run[a].next + 1
          /\ r.kroutes = run[a].kroutes /\ r.pc = "route"
      BY <1>0, <3>1 DEF NextRoute, Run
    <3>3. run'[a] = r \/ run'[a] = [r EXCEPT !.failed = TRUE]
      BY <1>0, <1>2, <3>1 DEF SkipRoute, LeaveRoute, ReplaceFails
    <3>4. PICK q : q = [r EXCEPT !.failed = TRUE]
      OBVIOUS
    <3>5. /\ q.state = run[a].state /\ q.next = run[a].next + 1
          /\ q.kroutes = run[a].kroutes /\ q.pc = "route"
      BY <1>0, <3>1, <3>4 DEF NextRoute, Run
    <3> QED BY <3>2, <3>3, <3>4, <3>5
  <2> QED BY <2>1, <2>2, Proceeds
<1>3. CASE BeginScan(a)
  <2>1. fib' = fib /\ Working(a) /\ ~ Skipped(Config[run[a].next])
    BY <1>3 DEF BeginScan, Working
  <2>2. /\ run'[a].state = run[a].state /\ run'[a].next = run[a].next
        /\ run'[a].kroutes = run[a].kroutes
    BY <1>0, <1>3 DEF BeginScan, Run
  <2> QED BY <2>1, <2>2, Proceeds
<1>4. CASE Examine(a)
  BY <1>4, ExaminePends
<1>5. CASE ReplaceRoute(a)
  BY <1>5, ReplacePends
<1>6. CASE LeaveIgnored(a) \/ DeleteRoute(a) \/ DeleteFails(a)
  <2>1. CleanUp(a) /\ fib' \subseteq fib
    BY <1>6 DEF LeaveIgnored, DeleteRoute, DeleteFails
  <2>2. run'[a].next = run[a].next /\ run'[a].pc = "route"
    BY <1>0, <1>6 DEF LeaveIgnored, DeleteRoute, DeleteFails, CleanUp, Run
  <2> QED BY <2>1, <2>2, CleanUpPends
<1>7. CASE Finish(a) \/ Abort(a)
  <2>1. run'[a].pc \in {"done", "idle"}
    BY <1>0, <1>7 DEF Finish, Abort, Run
  <2> QED BY <2>1 DEF Pending, Scanning, Working
<1> QED BY <1>1, <1>2, <1>3, <1>4, <1>5, <1>6, <1>7 DEF Step

LEMMA NextPInv == IInv /\ PInv /\ [Next]_vars => PInv'
<1> SUFFICES ASSUME IInv, PInv, [Next]_vars PROVE PInv'
  OBVIOUS
<1>1. CASE UNCHANGED vars
  <2>1. run' = run /\ fib' = fib
    BY <1>1 DEF vars
  <2> QED BY <2>1 DEF PInv, Pending, Scanning, Working, Puts, Own, Want
<1>2. ASSUME NEW a \in Applier, Step(a) PROVE PInv'
  <2>1. ASSUME NEW b \in Applier, b # a PROVE Pending(b)' /\ Scanning(b)'
    BY <1>2, <2>1, StepKeeps, OthersPend
  <2> QED BY <1>2, <2>1, StepPends DEF PInv
<1> QED BY <1>1, <1>2 DEF Next

LEMMA InitPInv == Init => PInv
BY DEF Init, PInv, Pending, Scanning, Working

\* What a run has yet to recognise is on its copy of the dump, whatever others do.
THEOREM PendingInvariance == Spec => []PInv
BY Invariance, InitPInv, NextPInv, PTL DEF Spec

\* `ip route replace' is called only where it changes the table (Tables.apply).
THEOREM OnlyNeededChangesHolds == Spec => OnlyNeededChanges
<1>1. IInv /\ PInv /\ [Next]_vars => [\A a \in Applier : ReplaceRoute(a) => fib' # fib]_vars
  BY ReplacePends
<1> QED BY Invariance, PendingInvariance, <1>1, PTL DEF Spec, OnlyNeededChanges
=============================================================================
