----------------------------- MODULE Rules_proofs -----------------------------
(* Theorems about Rules, for every configuration whose rules can be told      *)
(* apart, and any number of groups, runs and failures.                        *)
EXTENDS Rules, TLAPS

Index   == 1 .. Len(Config)
Kern(i) == KernelOf(Config[i])
Kerns   == {Kern(i) : i \in Index}

\* the rules there can ever be
Possible == InitialRule \cup Kerns

Own(i, a)  == Owner(Config[i]) = a
Want(i, a) == Wanted(Config[i], run[a].state)

\* what has been handled is struck off, unless it is the run's own and disabled
Struck(a) ==
  run[a].pc = "rule" =>
    \A i \in Index :
      i < run[a].next /\ (~ Own(i, a) \/ Want(i, a)) => Kern(i) \notin run[a].krules

\* of what has not been handled, the copy of the dump is up to date as far as the
\* run's own rules go
UpToDate(a) ==
  run[a].pc = "rule" =>
    \A i \in Index :
      i >= run[a].next /\ Own(i, a) => (Kern(i) \in run[a].krules <=> Kern(i) \in rules)

\* rules to be deleted are on the copy
DisabledSeen(a) ==
  run[a].pc = "rule" /\ ~ run[a].failed =>
    \A i \in Index :
      Own(i, a) /\ ~ Want(i, a) /\ Kern(i) \in rules => Kern(i) \in run[a].krules

ForeignSeen(a) ==
  run[a].pc = "rule" /\ (run[a].next <= Len(Config) \/ ~ run[a].failed) =>
    \A k \in rules : k \notin Kerns => k \in run[a].krules

\* rules that were handled and are wanted are there
Added(a) ==
  run[a].pc = "rule" /\ ~ run[a].failed =>
    \A i \in Index : i < run[a].next /\ Own(i, a) /\ Want(i, a) => Kern(i) \in rules

Effect(a) ==
  run[a].pc = "done" /\ ~ run[a].failed =>
    /\ \A i \in Index : Own(i, a) => (Kern(i) \in rules <=> Want(i, a))
    /\ \A k \in rules : Ignored(k) \/ k \in Kerns

RunInv(a) ==
  /\ run[a].krules \subseteq Possible
  /\ Struck(a) /\ UpToDate(a) /\ DisabledSeen(a) /\ ForeignSeen(a) /\ Added(a) /\ Effect(a)

IInv ==
  /\ TypeOK
  /\ rules \subseteq Possible
  /\ \A a \in Applier : RunInv(a)

-----------------------------------------------------------------------------
(* The rules can be told apart                                             *)

LEMMA ConfigFacts ==
  ASSUME NEW i \in Index
  PROVE  Config[i] \in WantedRule /\ Kern(i) \in KernelRule /\ i \in DOMAIN Config
         /\ Owner(Config[i]) \in Applier
<1>1. Config[i] \in WantedRule /\ i \in DOMAIN Config
  BY ConstantsAssumption DEF Index
<1>2. Kern(i) \in KernelRule
  BY <1>1 DEF Kern, KernelOf, KernelRule, WantedRule
<1>3. Owner(Config[i]) \in Applier
  BY <1>1 DEF Owner, Applier, WantedRule, VrrpCondition
<1> QED BY <1>1, <1>2, <1>3

LEMMA KernDistinct ==
  ASSUME NEW i \in Index, NEW j \in Index, Kern(i) = Kern(j)
  PROVE  i = j
<1>1. Clash(Config[i], Config[j])
  BY DEF Kern, KernelOf, Clash
<1> QED BY <1>1, ConfigFacts, DistinctAssumption

\* No rule there can ever be has all that another one has.
LEMMA PossibleDistinct ==
  ASSUME NEW k \in Possible, NEW l \in Possible, Matches(k, l)
  PROVE  k = l
<1>0. InitialRule \subseteq KernelRule
  BY ConstantsAssumption
<1>1. CASE k \in InitialRule /\ l \in InitialRule
  BY <1>1, DistinctAssumption
<1>2. CASE k \in InitialRule /\ l \in Kerns
  <2>1. PICK i \in Index : l = Kern(i)
    BY <1>2 DEF Kerns
  <2>2. Matches(k, Config[i])
    BY <2>1 DEF Matches, Kern, KernelOf
  <2>3. Config[i].sel = k.sel
    BY <2>2, <1>2, ConfigFacts, DistinctAssumption
  <2> QED BY <2>1, <2>2, <2>3, <1>0, <1>2 DEF Matches, Kern, KernelOf, KernelRule
<1>3. CASE k \in Kerns /\ l \in InitialRule
  <2>1. PICK i \in Index : k = Kern(i)
    BY <1>3 DEF Kerns
  <2>2. Matches(Config[i], l)
    BY <2>1 DEF Matches, Kern, KernelOf
  <2>3. Config[i].sel = l.sel
    BY <2>2, <1>3, ConfigFacts, DistinctAssumption
  <2> QED BY <2>1, <2>2, <2>3, <1>0, <1>3 DEF Matches, Kern, KernelOf, KernelRule
<1>4. CASE k \in Kerns /\ l \in Kerns
  <2>1. PICK i \in Index, j \in Index : k = Kern(i) /\ l = Kern(j)
    BY <1>4 DEF Kerns
  <2>2. Matches(Config[i], Config[j])
    BY <2>1 DEF Matches, Kern, KernelOf
  <2>3. i = j
    BY <2>2, ConfigFacts, DistinctAssumption
  <2> QED BY <2>1, <2>3
<1> QED BY <1>1, <1>2, <1>3, <1>4 DEF Possible

\* What matches a configured rule is that rule.
LEMMA MatchIsKern ==
  ASSUME NEW i \in Index, NEW k \in Possible
  PROVE  Matches(Config[i], k) <=> k = Kern(i)
<1>1. Matches(Config[i], k) <=> Matches(Kern(i), k)
  BY DEF Matches, Kern, KernelOf
<1>2. Kern(i) \in Possible
  BY DEF Possible, Kerns
<1>3. Matches(Kern(i), Kern(i))
  BY DEF Matches
<1> QED BY <1>1, <1>2, <1>3, PossibleDistinct

\* A process ignores the rules of others, and its own are disabled if they are
\* not wanted.
LEMMA MatchFacts ==
  ASSUME NEW i \in Index, NEW a \in Applier, NEW s \in VrrpState \cup {None}
  PROVE  LET m == VrrpMatch(Config[i], a, s) IN
         /\ ~ Own(i, a) <=> m = "ignore"
         /\ Own(i, a) /\ ~ Wanted(Config[i], s) <=> m = "disable"
<1>1. Config[i] \in WantedRule
  BY ConfigFacts
<1>2. Config[i].vrrp = None \/ (Config[i].vrrp # None /\ Config[i].vrrp.group \in Group)
  BY <1>1 DEF WantedRule, VrrpCondition
<1> QED BY <1>2, NoneAssumption DEF VrrpMatch, Own, Owner, Wanted, Applier

\* `ip rule del' takes the rule it is given, or none.
LEMMA DeletedFacts ==
  ASSUME rules \subseteq Possible, NEW k \in Possible, NEW r \in Deleted(k)
  PROVE  r = k
<1>1. r \in Possible /\ Matches(k, r)
  BY DEF Deleted, Matches
<1> QED BY <1>1, PossibleDistinct

-----------------------------------------------------------------------------
(* The invariant                                                           *)

LEMMA InitIInv == Init => IInv
<1> SUFFICES ASSUME Init PROVE IInv
  OBVIOUS
<1>1. rules \subseteq InitialRule /\ NoClash(rules)
  BY DEF Init
<1>2. TypeOK
  <2>1. rules \subseteq KernelRule
    BY <1>1, ConstantsAssumption
  <2>2. run \in [Applier -> Run]
    BY DEF Init, Run
  <2>3. \A a \in Applier : run[a].next \in 1 .. Len(Config) + 1
    BY ConstantsAssumption DEF Init
  <2>4. failures \in Nat
    BY DEF Init
  <2> QED BY <1>1, <2>1, <2>2, <2>3, <2>4 DEF TypeOK
<1>3. \A a \in Applier : run[a].pc = "idle" /\ run[a].krules = {}
  BY DEF Init
<1> QED
  BY <1>1, <1>2, <1>3 DEF IInv, Possible, RunInv, Struck, UpToDate, DisabledSeen, ForeignSeen,
     Added, Effect

\* What a step of a process does to the rules of the others: at most it adds rules
\* of its own and takes away rules that are none of theirs.
Gentle(a) ==
  /\ \A k \in rules' : k \in rules \/ \E j \in Index : Own(j, a) /\ k = Kern(j)
  /\ \A i \in Index : ~ Own(i, a) /\ Kern(i) \in rules => Kern(i) \in rules'

LEMMA OthersKeep ==
  ASSUME NEW a \in Applier, NEW b \in Applier, a # b, Gentle(a), RunInv(b), run'[b] = run[b]
  PROVE  RunInv(b)'
<1>1. ASSUME NEW i \in Index, Own(i, b)
      PROVE  Kern(i) \in rules' <=> Kern(i) \in rules
  <2>1. ~ Own(i, a)
    BY <1>1 DEF Own
  <2>2. \A j \in Index : Own(j, a) => Kern(i) # Kern(j)
    BY <2>1, KernDistinct
  <2> QED BY <2>1, <2>2 DEF Gentle
<1>2. \A k \in rules' : k \notin Kerns => k \in rules
  BY DEF Gentle, Kerns
<1>3. \A k \in rules' : k \in rules \/ k \in Kerns
  BY DEF Gentle, Kerns
<1>4. \A i \in Index : (Own(i, b) <=> Own(i, b)') /\ (Want(i, b) <=> Want(i, b)')
                       /\ Kern(i)' = Kern(i)
  BY DEF Own, Want, Kern
<1>5. Struck(b)' /\ (run[b].krules \subseteq Possible)'
  BY DEF RunInv, Struck, Own, Want, Kern, Possible, Kerns
<1>6. UpToDate(b)' /\ DisabledSeen(b)' /\ Added(b)'
  BY <1>1 DEF RunInv, UpToDate, DisabledSeen, Added, Own, Want, Kern
<1>7. ForeignSeen(b)'
  BY <1>2 DEF RunInv, ForeignSeen, Kerns, Kern
<1>8. Effect(b)'
  BY <1>1, <1>3 DEF RunInv, Effect, Own, Want, Kern, Kerns, Ignored
<1> QED BY <1>5, <1>6, <1>7, <1>8 DEF RunInv

-----------------------------------------------------------------------------
(* Every step preserves it                                                 *)

\* What a lemma about a step of process a has to show.
Kept(a) == TypeOK' /\ (rules \subseteq Possible)' /\ Gentle(a) /\ RunInv(a)'
             /\ \A b \in Applier \ {a} : run'[b] = run[b]

\* The types of a process's record.
LEMMA RunFacts ==
  ASSUME TypeOK, NEW a \in Applier
  PROVE  /\ run[a] \in Run /\ run[a].next \in 1 .. Len(Config) + 1
         /\ Len(Config) \in Nat
         /\ run[a].next <= Len(Config) => run[a].next \in Index
BY ConstantsAssumption DEF TypeOK, Index, Run

LEMMA StartStep ==
  ASSUME IInv, NEW a \in Applier, NEW s \in VrrpState \cup {None}, Start(a, s)
  PROVE  Kept(a)
<1>1. Dump = rules
  BY DEF Dump
<1>2. /\ run' = [run EXCEPT ![a] = [pc |-> "rule", state |-> s, next |-> 1, krules |-> rules,
                                    failed |-> FALSE, runs |-> run[a].runs + 1]]
      /\ rules' = rules /\ failures' = failures
  BY <1>1 DEF Start
<1>3. run \in [Applier -> Run] /\ run[a].runs \in Nat /\ rules \subseteq KernelRule
  BY DEF IInv, TypeOK, Run
<1>4. /\ run'[a].pc = "rule" /\ run'[a].next = 1 /\ run'[a].krules = rules
      /\ ~ run'[a].failed
      /\ \A b \in Applier \ {a} : run'[b] = run[b]
  BY <1>2, <1>3
<1>5. TypeOK'
  <2>1. run' \in [Applier -> Run]
    BY <1>2, <1>3 DEF Run
  <2>2. \A b \in Applier : run'[b].next \in 1 .. Len(Config) + 1
    BY <1>4, ConstantsAssumption DEF IInv, TypeOK
  <2> QED BY <1>2, <2>1, <2>2 DEF IInv, TypeOK, NoClash
<1>6. RunInv(a)'
  BY <1>2, <1>4 DEF IInv, RunInv, Struck, UpToDate, DisabledSeen, ForeignSeen, Added, Effect,
     Index, Kern, Kerns, Possible
<1>7. (rules \subseteq Possible)' /\ Gentle(a)
  BY <1>2 DEF IInv, Possible, Kerns, Kern, Gentle
<1> QED BY <1>4, <1>5, <1>6, <1>7 DEF Kept

LEMMA RecogniseStep ==
  ASSUME IInv, NEW a \in Applier, Recognise(a)
  PROVE  Kept(a)
<1> DEFINE n == run[a].next
<1>1. /\ TypeOK /\ rules \subseteq Possible /\ RunInv(a)
      /\ n \in Index /\ Len(Config) \in Nat /\ run[a].pc = "rule"
      /\ run[a].state \in VrrpState \cup {None}
      /\ rules' = rules /\ failures' = failures
  BY RunFacts DEF IInv, Recognise, AtRule, Run
<1>2. Found(a) = run[a].krules \cap {Kern(n)}
  BY <1>1, MatchIsKern DEF Found, Current, RunInv
<1>3. /\ ~ Own(n, a) <=> Matched(a) = "ignore"
      /\ Own(n, a) /\ ~ Want(n, a) <=> Matched(a) = "disable"
  BY <1>1, MatchFacts DEF Matched, Current, Want
<1>4. PICK K \in {run[a].krules, run[a].krules \ {Kern(n)}} :
        /\ run' = [run EXCEPT ![a].next = n + 1, ![a].krules = K]
        /\ ~ Own(n, a) \/ Want(n, a) => K = run[a].krules \ {Kern(n)}
        /\ Own(n, a) /\ ~ Want(n, a) => K = run[a].krules
        /\ Own(n, a) /\ Want(n, a) => Kern(n) \in run[a].krules
  <2>1. CASE Found(a) = {} \/ Matched(a) = "disable"
    <3>1. run' = [run EXCEPT ![a].next = n + 1, ![a].krules = run[a].krules]
      BY <2>1, <1>1 DEF Recognise, TypeOK, Run
    <3>2. ~ (Own(n, a) /\ ~ Want(n, a)) => run[a].krules = run[a].krules \ {Kern(n)}
      BY <2>1, <1>2, <1>3
    <3>3. Own(n, a) /\ Want(n, a) => Kern(n) \in run[a].krules
      BY <2>1, <1>2, <1>3 DEF Recognise, ToAdd
    <3> QED BY <3>1, <3>2, <3>3
  <2>2. CASE Found(a) # {} /\ Matched(a) # "disable"
    <3>1. Kern(n) \in run[a].krules /\ \A k \in Found(a) : k = Kern(n)
      BY <2>2, <1>2
    <3>2. run' = [run EXCEPT ![a].next = n + 1, ![a].krules = run[a].krules \ {Kern(n)}]
      BY <2>2, <3>1 DEF Recognise
    <3>3. ~ (Own(n, a) /\ ~ Want(n, a))
      BY <2>2, <1>3
    <3> QED BY <3>1, <3>2, <3>3
  <2> QED BY <2>1, <2>2
<1>5. \A b \in Applier \ {a} : run'[b] = run[b]
  BY <1>1, <1>4 DEF TypeOK
<1>6. /\ run'[a].pc = "rule" /\ run'[a].next = n + 1 /\ run'[a].krules = K
      /\ run'[a].failed = run[a].failed /\ run'[a].state = run[a].state
      /\ run'[a].runs = run[a].runs
  BY <1>1, <1>4, RunFacts DEF TypeOK, Run
<1>7. TypeOK'
  <2>1. \A b \in Applier : run'[b].next \in 1 .. Len(Config) + 1
    BY <1>1, <1>5, <1>6 DEF TypeOK, Index
  <2>2. run' \in [Applier -> Run]
    <3>1. K \subseteq KernelRule /\ n + 1 \in Nat
      BY <1>1, <1>4 DEF TypeOK, Run, Index
    <3>2. run'[a] \in Run
      BY <1>1, <1>4, <3>1 DEF TypeOK, Run
    <3> QED BY <1>1, <1>4, <3>2 DEF TypeOK
  <2> QED BY <1>1, <2>1, <2>2 DEF TypeOK, NoClash
<1>8. RunInv(a)'
  <2>1. \A i \in Index : /\ Kern(i)' = Kern(i) /\ Want(i, a)' = Want(i, a)
                         /\ (Own(i, a) <=> Own(i, a)')
    BY <1>6 DEF Kern, Want, Own
  <2>2. \A i \in Index : i # n => (Kern(i) \in K <=> Kern(i) \in run[a].krules)
    BY <1>1, <1>4, KernDistinct
  <2>3. Struck(a)'
    BY <1>1, <1>4, <1>6, <2>2 DEF RunInv, Struck, Index, Kern, Want, Own
  <2>4. UpToDate(a)'
    BY <1>1, <1>6, <2>2 DEF RunInv, UpToDate, Index, Kern, Own
  <2>5. DisabledSeen(a)'
    BY <1>1, <1>4, <1>6, <2>2 DEF RunInv, DisabledSeen, Index, Kern, Want, Own
  <2>6. ForeignSeen(a)'
    BY <1>1, <1>4, <1>6 DEF RunInv, ForeignSeen, Kerns, Kern, Index
  <2>7. Added(a)'
    BY <1>1, <1>4, <1>6 DEF RunInv, Added, UpToDate, Index, Kern, Want, Own
  <2>8. Effect(a)' /\ (run[a].krules \subseteq Possible)'
    BY <1>1, <1>4, <1>6 DEF RunInv, Effect, Possible, Kerns, Kern
  <2> QED BY <2>3, <2>4, <2>5, <2>6, <2>7, <2>8 DEF RunInv
<1>9. (rules \subseteq Possible)' /\ Gentle(a)
  BY <1>1 DEF Possible, Kerns, Kern, Gentle
<1> QED BY <1>5, <1>7, <1>8, <1>9 DEF Kept

\* Where a rule is to be added, it is the run's own, it is wanted, and it was not
\* on the dump.
LEMMA ToAddFacts ==
  ASSUME IInv, NEW a \in Applier, ToAdd(a)
  PROVE  LET n == run[a].next IN
         /\ n \in Index /\ Len(Config) \in Nat /\ run[a].pc = "rule"
         /\ Own(n, a) /\ Want(n, a) /\ Kern(n) \notin run[a].krules
         /\ Current(a) = Config[n]
<1> DEFINE n == run[a].next
<1>1. /\ TypeOK /\ RunInv(a) /\ n \in Index /\ Len(Config) \in Nat /\ run[a].pc = "rule"
      /\ run[a].state \in VrrpState \cup {None} /\ Current(a) = Config[n]
  BY RunFacts DEF IInv, ToAdd, AtRule, Run, Current
<1>2. Found(a) = run[a].krules \cap {Kern(n)}
  BY <1>1, MatchIsKern DEF Found, RunInv
<1>3. Own(n, a) /\ Want(n, a)
  BY <1>1, MatchFacts DEF ToAdd, Matched, Want
<1> QED BY <1>1, <1>2, <1>3 DEF ToAdd

LEMMA AddRuleStep ==
  ASSUME IInv, NEW a \in Applier, AddRule(a)
  PROVE  Kept(a)
<1> DEFINE n == run[a].next
<1>1. /\ TypeOK /\ rules \subseteq Possible /\ RunInv(a)
      /\ n \in Index /\ Len(Config) \in Nat /\ run[a].pc = "rule"
      /\ Own(n, a) /\ Want(n, a) /\ Kern(n) \notin run[a].krules
      /\ rules' = rules \cup {Kern(n)} /\ failures' = failures
      /\ run' = [run EXCEPT ![a].next = n + 1]
      /\ \A k \in rules : ~ Clash(Kern(n), k)
  BY ToAddFacts DEF IInv, AddRule, Refused, Kern
<1>2. /\ run'[a].pc = "rule" /\ run'[a].next = n + 1 /\ run'[a].krules = run[a].krules
      /\ run'[a].failed = run[a].failed /\ run'[a].state = run[a].state
      /\ \A b \in Applier \ {a} : run'[b] = run[b]
  BY <1>1, RunFacts DEF TypeOK, Run
<1>3. TypeOK'
  <2>1. \A b \in Applier : run'[b].next \in 1 .. Len(Config) + 1
    BY <1>1, <1>2 DEF TypeOK, Index
  <2>2. run' \in [Applier -> Run]
    <3>1. n + 1 \in Nat
      BY <1>1 DEF Index
    <3>2. run'[a] \in Run
      BY <1>1, <3>1 DEF TypeOK, Run
    <3> QED BY <1>1, <3>2 DEF TypeOK
  <2>3. NoClash(rules')
    BY <1>1 DEF TypeOK, NoClash, Clash
  <2>4. rules' \subseteq KernelRule
    BY <1>1, ConfigFacts DEF TypeOK
  <2> QED BY <1>1, <2>1, <2>2, <2>3, <2>4 DEF TypeOK, NoClash
<1>4. RunInv(a)'
  <2>1. \A i \in Index : i # n => (Kern(i) \in rules' <=> Kern(i) \in rules)
    BY <1>1, KernDistinct
  <2>2. Struck(a)'
    BY <1>1, <1>2 DEF RunInv, Struck, Index, Kern, Want, Own
  <2>3. UpToDate(a)'
    BY <1>1, <1>2, <2>1 DEF RunInv, UpToDate, Index, Kern, Own
  <2>4. DisabledSeen(a)'
    BY <1>1, <1>2, <2>1 DEF RunInv, DisabledSeen, Index, Kern, Want, Own
  <2>5. ForeignSeen(a)'
    BY <1>1, <1>2 DEF RunInv, ForeignSeen, Kerns, Kern, Index
  <2>6. Added(a)'
    BY <1>1, <1>2 DEF RunInv, Added, Index, Kern, Want, Own
  <2>7. Effect(a)' /\ (run[a].krules \subseteq Possible)'
    BY <1>1, <1>2 DEF RunInv, Effect, Possible, Kerns, Kern
  <2> QED BY <2>2, <2>3, <2>4, <2>5, <2>6, <2>7 DEF RunInv
<1>5. (rules \subseteq Possible)' /\ Gentle(a)
  BY <1>1 DEF Possible, Kerns, Kern, Gentle
<1> QED BY <1>2, <1>3, <1>4, <1>5 DEF Kept

\* A rule that is refused, or whose addition fails, is passed over.
LEMMA PassedOver ==
  ASSUME IInv, NEW a \in Applier, ToAdd(a), rules' = rules, failures' \in Nat,
         run' = [run EXCEPT ![a].next = @ + 1, ![a].failed = TRUE]
  PROVE  Kept(a)
<1> DEFINE n == run[a].next
<1>1. /\ TypeOK /\ rules \subseteq Possible /\ RunInv(a)
      /\ n \in Index /\ Len(Config) \in Nat /\ run[a].pc = "rule"
      /\ Kern(n) \notin run[a].krules
      /\ run' = [run EXCEPT ![a].next = n + 1, ![a].failed = TRUE]
  BY ToAddFacts DEF IInv
<1>2. /\ run'[a].pc = "rule" /\ run'[a].next = n + 1 /\ run'[a].krules = run[a].krules
      /\ run'[a].failed /\ run'[a].state = run[a].state
      /\ \A b \in Applier \ {a} : run'[b] = run[b]
  BY <1>1, RunFacts DEF TypeOK, Run
<1>3. TypeOK'
  <2>1. \A b \in Applier : run'[b].next \in 1 .. Len(Config) + 1
    BY <1>1, <1>2 DEF TypeOK, Index
  <2>2. run' \in [Applier -> Run]
    <3>1. n + 1 \in Nat
      BY <1>1 DEF Index
    <3>2. run'[a] \in Run
      BY <1>1, <3>1 DEF TypeOK, Run
    <3> QED BY <1>1, <3>2 DEF TypeOK
  <2> QED BY <1>1, <2>1, <2>2 DEF TypeOK, NoClash
<1>4. RunInv(a)'
  <2>1. Struck(a)'
    BY <1>1, <1>2 DEF RunInv, Struck, Index, Kern, Want, Own
  <2>2. UpToDate(a)'
    BY <1>1, <1>2 DEF RunInv, UpToDate, Index, Kern, Own
  <2>3. ForeignSeen(a)'
    BY <1>1, <1>2 DEF RunInv, ForeignSeen, Kerns, Kern, Index
  <2>4. DisabledSeen(a)' /\ Added(a)' /\ Effect(a)' /\ (run[a].krules \subseteq Possible)'
    BY <1>1, <1>2 DEF RunInv, DisabledSeen, Added, Effect, Possible, Kerns, Kern
  <2> QED BY <2>1, <2>2, <2>3, <2>4 DEF RunInv
<1>5. (rules \subseteq Possible)' /\ Gentle(a)
  BY <1>1 DEF Possible, Kerns, Kern, Gentle
<1> QED BY <1>2, <1>3, <1>4, <1>5 DEF Kept

\* In the clean-up every configured rule was handled.
LEMMA CleanUpFacts ==
  ASSUME IInv, NEW a \in Applier, CleanUp(a)
  PROVE  /\ TypeOK /\ rules \subseteq Possible /\ RunInv(a) /\ run[a].pc = "rule"
         /\ Len(Config) \in Nat /\ run[a].next = Len(Config) + 1
         /\ \A i \in Index : i < run[a].next
BY RunFacts DEF IInv, CleanUp, Index

LEMMA DeleteRuleStep ==
  ASSUME IInv, NEW a \in Applier, DeleteRule(a)
  PROVE  Kept(a)
<1>1. CleanUp(a)
  BY DEF DeleteRule
<1>2. /\ TypeOK /\ rules \subseteq Possible /\ RunInv(a) /\ run[a].pc = "rule"
      /\ Len(Config) \in Nat /\ run[a].next = Len(Config) + 1
      /\ \A i \in Index : i < run[a].next
  BY <1>1, CleanUpFacts
<1>3. PICK k \in Orphans(a) :
        /\ \/ Deleted(k) = {} /\ rules' = rules
           \/ \E r \in Deleted(k) : rules' = rules \ {r}
        /\ run' = [run EXCEPT ![a].krules = @ \ {k}]
        /\ failures' = failures
  BY DEF DeleteRule
<1>4. k \in run[a].krules /\ k \in Possible
  BY <1>2, <1>3 DEF Orphans, RunInv
<1>5. rules' = rules \ {k}
  <2>1. k \in rules => k \in Deleted(k)
    BY DEF Deleted
  <2> QED BY <1>2, <1>3, <1>4, <2>1, DeletedFacts
<1>6. /\ run'[a].pc = "rule" /\ run'[a].next = run[a].next
      /\ run'[a].krules = run[a].krules \ {k}
      /\ run'[a].failed = run[a].failed /\ run'[a].state = run[a].state
      /\ \A b \in Applier \ {a} : run'[b] = run[b]
  BY <1>2, <1>3, RunFacts DEF TypeOK, Run
<1>7. TypeOK'
  <2>1. \A b \in Applier : run'[b].next \in 1 .. Len(Config) + 1
    BY <1>2, <1>6 DEF TypeOK
  <2>2. run' \in [Applier -> Run]
    <3>1. run'[a] \in Run
      BY <1>2, <1>3 DEF TypeOK, Run
    <3> QED BY <1>2, <1>3, <3>1 DEF TypeOK
  <2> QED BY <1>2, <1>3, <1>5, <2>1, <2>2 DEF TypeOK, NoClash
<1>8. \A i \in Index : ~ Own(i, a) \/ Want(i, a) => Kern(i) # k
  BY <1>2, <1>4 DEF RunInv, Struck
<1>9. RunInv(a)'
  <2>1. Struck(a)'
    BY <1>2, <1>6 DEF RunInv, Struck, Index, Kern, Want, Own
  <2>2. UpToDate(a)'
    BY <1>2, <1>6 DEF UpToDate, Index
  <2>3. DisabledSeen(a)'
    BY <1>2, <1>5, <1>6 DEF RunInv, DisabledSeen, Kern, Want, Own
  <2>4. ForeignSeen(a)'
    BY <1>2, <1>5, <1>6 DEF RunInv, ForeignSeen, Kerns, Kern
  <2>5. Added(a)'
    BY <1>2, <1>5, <1>6, <1>8 DEF RunInv, Added, Kern, Want, Own
  <2>6. Effect(a)' /\ (run[a].krules \subseteq Possible)'
    BY <1>2, <1>6 DEF RunInv, Effect, Possible, Kerns, Kern
  <2> QED BY <2>1, <2>2, <2>3, <2>4, <2>5, <2>6 DEF RunInv
<1>10. (rules \subseteq Possible)' /\ Gentle(a)
  BY <1>2, <1>5, <1>8 DEF Possible, Kerns, Kern, Gentle
<1> QED BY <1>6, <1>7, <1>9, <1>10 DEF Kept

LEMMA DeleteFailsStep ==
  ASSUME IInv, NEW a \in Applier, DeleteFails(a)
  PROVE  Kept(a)
<1>1. CleanUp(a)
  BY DEF DeleteFails
<1>2. /\ TypeOK /\ rules \subseteq Possible /\ RunInv(a) /\ run[a].pc = "rule"
      /\ Len(Config) \in Nat /\ run[a].next = Len(Config) + 1
      /\ \A i \in Index : i < run[a].next
  BY <1>1, CleanUpFacts
<1>3. PICK k \in Orphans(a) :
        run' = [run EXCEPT ![a].krules = @ \ {k}, ![a].failed = TRUE]
  BY DEF DeleteFails
<1>4. rules' = rules /\ failures' \in Nat
  BY <1>2 DEF DeleteFails, TypeOK
<1>5. /\ run'[a].pc = "rule" /\ run'[a].next = run[a].next
      /\ run'[a].krules = run[a].krules \ {k}
      /\ run'[a].failed /\ run'[a].state = run[a].state
      /\ \A b \in Applier \ {a} : run'[b] = run[b]
  BY <1>2, <1>3, RunFacts DEF TypeOK, Run
<1>6. TypeOK'
  <2>1. \A b \in Applier : run'[b].next \in 1 .. Len(Config) + 1
    BY <1>2, <1>5 DEF TypeOK
  <2>2. run' \in [Applier -> Run]
    <3>1. run'[a] \in Run
      BY <1>2, <1>3 DEF TypeOK, Run
    <3> QED BY <1>2, <1>3, <3>1 DEF TypeOK
  <2> QED BY <1>2, <1>4, <2>1, <2>2 DEF TypeOK, NoClash
<1>7. RunInv(a)'
  <2>1. Struck(a)'
    BY <1>2, <1>5 DEF RunInv, Struck, Index, Kern, Want, Own
  <2>2. UpToDate(a)' /\ ForeignSeen(a)'
    BY <1>2, <1>5 DEF UpToDate, ForeignSeen, Index
  <2>3. DisabledSeen(a)' /\ Added(a)' /\ Effect(a)' /\ (run[a].krules \subseteq Possible)'
    BY <1>2, <1>5 DEF RunInv, DisabledSeen, Added, Effect, Possible, Kerns, Kern
  <2> QED BY <2>1, <2>2, <2>3 DEF RunInv
<1>8. (rules \subseteq Possible)' /\ Gentle(a)
  BY <1>2, <1>4 DEF Possible, Kerns, Kern, Gentle
<1> QED BY <1>5, <1>6, <1>7, <1>8 DEF Kept

LEMMA FinishStep ==
  ASSUME IInv, NEW a \in Applier, Finish(a)
  PROVE  Kept(a)
<1>1. CleanUp(a)
  BY DEF Finish
<1>2. /\ TypeOK /\ rules \subseteq Possible /\ RunInv(a) /\ run[a].pc = "rule"
      /\ Len(Config) \in Nat
      /\ \A i \in Index : i < run[a].next
  BY <1>1, CleanUpFacts
<1>3. /\ run' = [run EXCEPT ![a].pc = "done"] /\ rules' = rules /\ failures' = failures
      /\ \A k \in run[a].krules : Ignored(k)
  BY DEF Finish, Orphans
<1>4. /\ run'[a].pc = "done" /\ run'[a].next = run[a].next
      /\ run'[a].krules = run[a].krules
      /\ run'[a].failed = run[a].failed /\ run'[a].state = run[a].state
      /\ \A b \in Applier \ {a} : run'[b] = run[b]
  BY <1>2, <1>3, RunFacts DEF TypeOK, Run
<1>5. TypeOK'
  <2>1. \A b \in Applier : run'[b].next \in 1 .. Len(Config) + 1
    BY <1>2, <1>4 DEF TypeOK
  <2>2. run' \in [Applier -> Run]
    BY <1>2, <1>3 DEF TypeOK, Run
  <2> QED BY <1>2, <1>3, <2>1, <2>2 DEF TypeOK, NoClash
<1>6. Effect(a)'
  <2> SUFFICES ASSUME ~ run[a].failed
               PROVE  /\ \A i \in Index : Own(i, a) => (Kern(i) \in rules <=> Want(i, a))
                      /\ \A k \in rules : Ignored(k) \/ k \in Kerns
    BY <1>3, <1>4 DEF Effect, Own, Want, Kern, Kerns, Ignored
  <2>1. ASSUME NEW i \in Index, Own(i, a), Want(i, a) PROVE Kern(i) \in rules
    BY <1>2, <2>1 DEF RunInv, Added
  <2>2. ASSUME NEW i \in Index, Own(i, a), ~ Want(i, a) PROVE Kern(i) \notin rules
    <3>1. ~ Ignored(Kern(i))
      BY ConfigFacts, DistinctAssumption DEF Ignored, Kern, KernelOf
    <3> QED BY <1>2, <1>3, <2>2, <3>1 DEF RunInv, DisabledSeen
  <2>3. ASSUME NEW k \in rules, k \notin Kerns PROVE Ignored(k)
    BY <1>2, <1>3, <2>3 DEF RunInv, ForeignSeen
  <2> QED BY <2>1, <2>2, <2>3
<1>7. RunInv(a)'
  <2>1. Struck(a)' /\ UpToDate(a)' /\ DisabledSeen(a)' /\ ForeignSeen(a)' /\ Added(a)'
    BY <1>4 DEF Struck, UpToDate, DisabledSeen, ForeignSeen, Added
  <2>2. (run[a].krules \subseteq Possible)'
    BY <1>2, <1>4 DEF RunInv, Possible, Kerns, Kern
  <2> QED BY <1>6, <2>1, <2>2 DEF RunInv
<1>8. (rules \subseteq Possible)' /\ Gentle(a)
  BY <1>2, <1>3 DEF Possible, Kerns, Kern, Gentle
<1> QED BY <1>4, <1>5, <1>7, <1>8 DEF Kept

LEMMA AbortStep ==
  ASSUME IInv, NEW a \in Applier, Abort(a)
  PROVE  Kept(a)
<1>1. TypeOK /\ rules \subseteq Possible /\ RunInv(a) /\ Len(Config) \in Nat
  BY RunFacts DEF IInv
<1>2. run' = [run EXCEPT ![a].pc = "idle"] /\ rules' = rules /\ failures' \in Nat
  BY <1>1 DEF Abort, TypeOK
<1>3. /\ run'[a].pc = "idle" /\ run'[a].next = run[a].next
      /\ run'[a].krules = run[a].krules
      /\ \A b \in Applier \ {a} : run'[b] = run[b]
  BY <1>1, <1>2, RunFacts DEF TypeOK, Run
<1>4. TypeOK'
  <2>1. \A b \in Applier : run'[b].next \in 1 .. Len(Config) + 1
    BY <1>1, <1>3 DEF TypeOK
  <2>2. run' \in [Applier -> Run]
    BY <1>1, <1>2 DEF TypeOK, Run
  <2> QED BY <1>1, <1>2, <2>1, <2>2 DEF TypeOK, NoClash
<1>5. RunInv(a)'
  <2>1. /\ Struck(a)' /\ UpToDate(a)' /\ DisabledSeen(a)' /\ ForeignSeen(a)' /\ Added(a)'
        /\ Effect(a)'
    BY <1>3 DEF Struck, UpToDate, DisabledSeen, ForeignSeen, Added, Effect
  <2>2. (run[a].krules \subseteq Possible)'
    BY <1>1, <1>3 DEF RunInv, Possible, Kerns, Kern
  <2> QED BY <2>1, <2>2 DEF RunInv
<1>6. (rules \subseteq Possible)' /\ Gentle(a)
  BY <1>1, <1>2 DEF Possible, Kerns, Kern, Gentle
<1> QED BY <1>3, <1>4, <1>5, <1>6 DEF Kept

\* A step of a process does what a lemma about one has to show.
LEMMA StepKeeps ==
  ASSUME IInv, NEW a \in Applier, Step(a)
  PROVE  Kept(a)
<1>1. ASSUME NEW s \in IF a = Cli THEN {None} ELSE VrrpState, Start(a, s)
      PROVE  Kept(a)
  BY <1>1, StartStep
<1>2. CASE Recognise(a)
  BY <1>2, RecogniseStep
<1>3. CASE AddRule(a)
  BY <1>3, AddRuleStep
<1>4. CASE AddRefused(a)
  <2>1. failures' \in Nat
    BY <1>4 DEF AddRefused, IInv, TypeOK
  <2> QED BY <1>4, <2>1, PassedOver DEF AddRefused
<1>5. CASE AddFails(a)
  <2>1. failures' \in Nat
    BY <1>5 DEF AddFails, IInv, TypeOK
  <2> QED BY <1>5, <2>1, PassedOver DEF AddFails
<1>6. CASE DeleteRule(a)
  BY <1>6, DeleteRuleStep
<1>7. CASE DeleteFails(a)
  BY <1>7, DeleteFailsStep
<1>8. CASE Finish(a)
  BY <1>8, FinishStep
<1>9. CASE Abort(a)
  BY <1>9, AbortStep
<1> QED BY <1>1, <1>2, <1>3, <1>4, <1>5, <1>6, <1>7, <1>8, <1>9 DEF Step

LEMMA NextIInv == IInv /\ [Next]_vars => IInv'
<1> SUFFICES ASSUME IInv, [Next]_vars PROVE IInv'
  OBVIOUS
<1>1. CASE UNCHANGED vars
  <2>1. ASSUME NEW a \in Applier PROVE RunInv(a)'
    BY <1>1 DEF vars, IInv, RunInv, Struck, UpToDate, DisabledSeen, ForeignSeen, Added,
       Effect, Own, Want, Kern, Kerns, Possible, Ignored
  <2>2. TypeOK' /\ (rules \subseteq Possible)'
    BY <1>1 DEF vars, IInv, TypeOK, NoClash, Possible, Kerns, Kern
  <2> QED BY <2>1, <2>2 DEF IInv
<1>2. ASSUME NEW a \in Applier, Step(a) PROVE IInv'
  <2>1. Kept(a)
    BY <1>2, StepKeeps
  <2>2. ASSUME NEW b \in Applier, b # a PROVE RunInv(b)'
    BY <2>1, <2>2, OthersKeep DEF Kept, IInv
  <2> QED BY <2>1, <2>2 DEF Kept, IInv
<1> QED BY <1>1, <1>2 DEF Next

\* The invariant holds of every reachable state.
THEOREM Invariance == Spec => []IInv
BY InitIInv, NextIInv, PTL DEF Spec

-----------------------------------------------------------------------------
(* The properties                                                          *)

\* The types, and that no rule is in the kernel twice (Rules.apply).
THEOREM TypeCorrect == Spec => []TypeOK
BY Invariance, PTL DEF IInv

LEMMA EffectOfIInv == IInv => RunTakesEffect
<1> SUFFICES ASSUME IInv, NEW a \in Applier, run[a].pc = "done", ~ run[a].failed
             PROVE  /\ \A c \in Configured : Owner(c) = a =>
                         (KernelOf(c) \in rules <=> \E d \in Configured :
                            /\ Owner(d) = a /\ KernelOf(d) = KernelOf(c)
                            /\ Wanted(d, run[a].state))
                    /\ \A k \in rules : Ignored(k) \/ \E c \in Configured : KernelOf(c) = k
  BY DEF RunTakesEffect
<1>1. Effect(a)
  BY DEF IInv, RunInv
<1>2. ASSUME NEW c \in Configured, Owner(c) = a
      PROVE  KernelOf(c) \in rules <=> \E d \in Configured :
               Owner(d) = a /\ KernelOf(d) = KernelOf(c) /\ Wanted(d, run[a].state)
  <2>1. PICK i \in Index : c = Config[i]
    BY DEF Configured, Index
  <2>2. Kern(i) \in rules <=> Want(i, a)
    BY <1>1, <1>2, <2>1 DEF Effect, Own
  <2>3. \A d \in Configured : KernelOf(d) = KernelOf(c) => d = c
    BY <2>1, KernDistinct DEF Configured, Index, Kern
  <2> QED BY <1>2, <2>1, <2>2, <2>3 DEF Want, Kern
<1>3. \A k \in rules : Ignored(k) \/ \E c \in Configured : KernelOf(c) = k
  BY <1>1 DEF Effect, Kerns, Kern, Configured, Index
<1> QED BY <1>2, <1>3

\* A finished run without failures has achieved what the configuration says,
\* whatever other processes did and do (Rules.apply).
THEOREM RunTakesEffectHolds == Spec => []RunTakesEffect
BY Invariance, EffectOfIInv, PTL

LEMMA StepNoTheft ==
  ASSUME IInv, [Next]_vars, NEW a \in Applier, run'[a] # run[a],
         NEW c \in Configured, Owner(c) # a, KernelOf(c) \in rules
  PROVE  KernelOf(c) \in rules'
<1>1. PICK b \in Applier : Step(b)
  BY DEF Next, vars
<1>2. Kept(b)
  BY <1>1, StepKeeps
<1>3. a = b
  BY <1>2 DEF Kept
<1>4. PICK i \in Index : c = Config[i]
  BY DEF Configured, Index
<1> QED BY <1>2, <1>3, <1>4 DEF Kept, Gentle, Own, Kern

\* A process never takes away a configured rule of another one, however old its
\* dump is (Rules.apply by `ifstate apply' and by the VRRP workers).
THEOREM NoTheftHolds == Spec => NoTheft
<1>1. IInv /\ [Next]_vars =>
        [\A a \in Applier : run'[a] # run[a] =>
           \A c \in Configured :
             Owner(c) # a /\ KernelOf(c) \in rules => KernelOf(c) \in rules']_vars
  BY StepNoTheft
<1> QED BY Invariance, <1>1, PTL DEF Spec, NoTheft

LEMMA RefusalReason ==
  ASSUME IInv, NEW a \in Applier, AddRefused(a)
  PROVE  \E k \in Orphans(a) : Clash(KernelOf(Current(a)), k)
<1> DEFINE n == run[a].next
<1>1. /\ n \in Index /\ Len(Config) \in Nat /\ run[a].pc = "rule"
      /\ Own(n, a) /\ Kern(n) \notin run[a].krules /\ Current(a) = Config[n]
  BY ToAddFacts DEF AddRefused
<1>2. PICK k \in rules : Clash(Kern(n), k)
  BY <1>1 DEF AddRefused, Refused, Kern
<1>3. RunInv(a) /\ k \in Possible
  BY DEF IInv
<1>4. k \notin Kerns
  <2> SUFFICES ASSUME NEW i \in Index, k = Kern(i) PROVE FALSE
    BY DEF Kerns
  <2>1. Clash(Config[n], Config[i])
    BY <1>2 DEF Clash, Kern, KernelOf
  <2>2. i = n
    BY <1>1, <2>1, ConfigFacts, DistinctAssumption
  <2> QED BY <1>1, <1>2, <1>3, <2>2 DEF RunInv, UpToDate, Index
<1>5. k \in run[a].krules
  BY <1>1, <1>3, <1>4 DEF RunInv, ForeignSeen, Index
<1>6. ~ Ignored(k)
  <2>1. k \in InitialRule /\ Clash(Config[n], k)
    BY <1>2, <1>3, <1>4 DEF Possible, Clash, Kern, KernelOf
  <2> QED BY <1>1, <2>1, ConfigFacts, DistinctAssumption
<1> QED BY <1>1, <1>2, <1>5, <1>6 DEF Orphans, Kern

\* What refuses a rule is deleted by the very run that could not add it
\* (Rules.apply), so that the next one can.
THEOREM RefusalIsTemporaryHolds == Spec => RefusalIsTemporary
<1>1. IInv /\ [Next]_vars =>
        [\A a \in Applier : AddRefused(a) =>
           \E k \in Orphans(a) : Clash(KernelOf(Current(a)), k)]_vars
  BY RefusalReason
<1> QED BY Invariance, <1>1, PTL DEF Spec, RefusalIsTemporary
=============================================================================
