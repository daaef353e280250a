-------------------------------- MODULE Rules --------------------------------
(***************************************************************************)
(* Rules.apply (libifstate/routing/__init__.py): the routing policy rules  *)
(* of one namespace.  A rule has no identity the kernel would replace it   *)
(* by: an apply dumps the rules, adds configured ones it does not find and *)
(* deletes what it has not recognised.                                     *)
(*                                                                         *)
(* `ifstate apply' and the workers of the VRRP groups do this in processes *)
(* of their own.  Each handles the rules of its VRRP condition, and        *)
(* ignores the others'.                                                    *)
(***************************************************************************)
EXTENDS Naturals, Sequences, FiniteSets

CONSTANTS
  Priority,
  Selector,      \* conditions: a source, an incoming interface, ...
  Inet6,         \* those only a rule of IPv6 has
  Target,        \* table, action and TOS
  Proto,
  Group,         \* VRRP groups and instances, one worker process each
  VrrpState,
  Cli,           \* the `ifstate apply' process
  None,
  Config,        \* the configured rules in their order
  IgnoredProto,  \* protocols of the `ignore' list
  InitialRule,   \* rules that may be in the kernel beforehand
  MaxRuns,       \* bound: runs of each process
  MaxFailures    \* bound: netlink errors and exceptions

Applier == Group \cup {Cli}

VrrpCondition == [group : Group, states : SUBSET VrrpState]

WantedRule == [prio : Priority, sel : SUBSET Selector, target : Target, proto : Proto,
               vrrp : VrrpCondition \cup {None}]

KernelRule == [prio : Priority, sel : SUBSET Selector, target : Target, proto : Proto]

ASSUME ConstantsAssumption ==
  /\ Config \in Seq(WantedRule)
  /\ Inet6 \subseteq Selector
  /\ InitialRule \subseteq KernelRule /\ IsFiniteSet(InitialRule)
  /\ MaxRuns \in Nat /\ MaxFailures \in Nat
ASSUME NoneAssumption == None \notin VrrpCondition \cup VrrpState /\ Cli \notin Group

VARIABLES
  rules,     \* the kernel's rules
  run,       \* the Rules.apply of every process
  failures   \* number of failures so far

vars == <<rules, run, failures>>

Run == [pc     : {"idle", "rule", "done"},
        state  : VrrpState \cup {None},  \* vrrp_state
        next   : Nat,                    \* position in Config
        krules : SUBSET KernelRule,      \* what is left of the dump
        failed : BOOLEAN,                \* a warning was logged
        runs   : Nat]

\* (mutant of KernelOf: the helper attribute _vrrp is kept)
KernelOfHelper(c) == c

\* a configured rule as it is added
KernelOf(c) == [prio |-> c.prio, sel |-> c.sel, target |-> c.target, proto |-> c.proto]

-----------------------------------------------------------------------------
(* The kernel                                                              *)

\* the kernel refuses a rule that is there, whatever protocol that one has
Clash(r, s) == r.prio = s.prio /\ r.sel = s.sel /\ r.target = s.target
NoClash(R)  == \A r, s \in R : Clash(r, s) => r = s

\* `ip rule del' takes one rule that has all that is given
Deleted(k) == {r \in rules : /\ r.prio = k.prio /\ r.target = k.target
                             /\ r.proto = k.proto /\ k.sel \subseteq r.sel}

-----------------------------------------------------------------------------
Init ==
  /\ rules \in {R \in SUBSET InitialRule : NoClash(R)}
  /\ run = [a \in Applier |-> [pc |-> "idle", state |-> None, next |-> 1, krules |-> {},
                               failed |-> FALSE, runs |-> 0]]
  /\ failures = 0

\* (mutant of Matches: the protocol is not compared)
MatchesAnyProto(c, k) ==
  c.prio = k.prio /\ c.target = k.target /\ c.sel \subseteq k.sel

\* rule_matches with the configured rule's keys: what is not configured is not
\* compared
Matches(c, k) ==
  c.prio = k.prio /\ c.target = k.target /\ c.proto = k.proto /\ c.sel \subseteq k.sel

\* vrrp_match
VrrpMatch(c, a, s) ==
  IF a = Cli THEN IF c.vrrp = None THEN "plain" ELSE "ignore"
  ELSE IF c.vrrp = None \/ c.vrrp.group # a THEN "ignore"
       ELSE IF s \in c.vrrp.states THEN "enable" ELSE "disable"

Ignored(k) == k.proto \in IgnoredProto

\* The rules can be told apart: the selectors of none extend those of another one
\* of the same priority, target and protocol, no two are configured that the
\* kernel takes for the same, and none that it takes for an ignored one.
ASSUME DistinctAssumption ==
  /\ \A i, j \in DOMAIN Config :
       Matches(Config[i], Config[j]) \/ Clash(Config[i], Config[j]) => i = j
  /\ \A k, l \in InitialRule : Matches(k, l) => k = l
  /\ \A i \in DOMAIN Config, k \in InitialRule :
       /\ Matches(Config[i], k) \/ Matches(k, Config[i]) => Config[i].sel = k.sel
       /\ Clash(Config[i], k) => ~ Ignored(k)
  /\ \A i \in DOMAIN Config : ~ Ignored(Config[i])

\* (mutant of Dump: it asks for the rules of IPv4 only)
DumpInet == {k \in rules : k.sel \cap Inet6 = {}}

\* kernel_rules: the rules of IPv4 and those of IPv6
Dump == {k \in rules : k.sel \cap Inet6 = {}} \cup {k \in rules : k.sel \cap Inet6 # {}}

Start(a, s) ==
  /\ run[a].pc \in {"idle", "done"}
  /\ run[a].runs < MaxRuns
  /\ run' = [run EXCEPT ![a] = [pc |-> "rule", state |-> s, next |-> 1, krules |-> Dump,
                                failed |-> FALSE, runs |-> @.runs + 1]]
  /\ UNCHANGED <<rules, failures>>

AtRule(a)  == run[a].pc = "rule" /\ run[a].next <= Len(Config)
Current(a) == Config[run[a].next]
Matched(a) == VrrpMatch(Current(a), a, run[a].state)
Found(a)   == {k \in run[a].krules : Matches(Current(a), k)}
ToAdd(a)   == AtRule(a) /\ Found(a) = {} /\ Matched(a) \notin {"ignore", "disable"}

\* (mutant of Recognise: what is found is struck off also if it is disabled)
RecogniseDisabled(a) ==
  /\ AtRule(a) /\ ~ ToAdd(a)
  /\ \/ /\ Found(a) = {}
        /\ run' = [run EXCEPT ![a].next = @ + 1]
     \/ \E k \in Found(a) :
          run' = [run EXCEPT ![a].next = @ + 1, ![a].krules = @ \ {k}]
  /\ UNCHANGED <<rules, failures>>

\* (mutant of Recognise: rules of others are not looked for)
RecogniseOwn(a) ==
  /\ AtRule(a) /\ ~ ToAdd(a)
  /\ \/ /\ Found(a) = {} \/ Matched(a) \in {"ignore", "disable"}
        /\ run' = [run EXCEPT ![a].next = @ + 1]
     \/ /\ Matched(a) \notin {"ignore", "disable"}
        /\ \E k \in Found(a) :
             run' = [run EXCEPT ![a].next = @ + 1, ![a].krules = @ \ {k}]
  /\ UNCHANGED <<rules, failures>>

\* the first rule of the dump that matches is struck off, unless it is disabled
\* now; the kernel's order of rules of one priority is left open
Recognise(a) ==
  /\ AtRule(a) /\ ~ ToAdd(a)
  /\ \/ /\ Found(a) = {} \/ Matched(a) = "disable"
        /\ run' = [run EXCEPT ![a].next = @ + 1]
     \/ /\ Matched(a) # "disable"
        /\ \E k \in Found(a) :
             run' = [run EXCEPT ![a].next = @ + 1, ![a].krules = @ \ {k}]
  /\ UNCHANGED <<rules, failures>>

Refused(a) == \E k \in rules : Clash(KernelOf(Current(a)), k)

AddRule(a) ==
  /\ ToAdd(a) /\ ~ Refused(a)
  /\ rules' = rules \cup {KernelOf(Current(a))}
  /\ run' = [run EXCEPT ![a].next = @ + 1]
  /\ UNCHANGED failures

\* EEXIST is logged, and the loop goes on
AddRefused(a) ==
  /\ ToAdd(a) /\ Refused(a)
  /\ run' = [run EXCEPT ![a].next = @ + 1, ![a].failed = TRUE]
  /\ UNCHANGED <<rules, failures>>

AddFails(a) ==
  /\ ToAdd(a)
  /\ failures < MaxFailures
  /\ failures' = failures + 1
  /\ run' = [run EXCEPT ![a].next = @ + 1, ![a].failed = TRUE]
  /\ UNCHANGED rules

CleanUp(a)  == run[a].pc = "rule" /\ run[a].next > Len(Config)
Orphans(a)  == {k \in run[a].krules : ~ Ignored(k)}

\* a rule that is gone by now is a netlink error, too, but one without effect
DeleteRule(a) ==
  /\ CleanUp(a)
  /\ \E k \in Orphans(a) :
       /\ \/ Deleted(k) = {} /\ rules' = rules
          \/ \E r \in Deleted(k) : rules' = rules \ {r}
       /\ run' = [run EXCEPT ![a].krules = @ \ {k}]
  /\ UNCHANGED failures

DeleteFails(a) ==
  /\ CleanUp(a)
  /\ failures < MaxFailures
  /\ failures' = failures + 1
  /\ \E k \in Orphans(a) :
       run' = [run EXCEPT ![a].krules = @ \ {k}, ![a].failed = TRUE]
  /\ UNCHANGED rules

Finish(a) ==
  /\ CleanUp(a) /\ Orphans(a) = {}
  /\ run' = [run EXCEPT ![a].pc = "done"]
  /\ UNCHANGED <<rules, failures>>

\* any other exception ends the process, or is the end of the worker
Abort(a) ==
  /\ run[a].pc = "rule"
  /\ failures < MaxFailures
  /\ failures' = failures + 1
  /\ run' = [run EXCEPT ![a].pc = "idle"]
  /\ UNCHANGED rules

-----------------------------------------------------------------------------
Step(a) ==
  \/ \E s \in IF a = Cli THEN {None} ELSE VrrpState : Start(a, s)
  \/ Recognise(a) \/ AddRule(a) \/ AddRefused(a) \/ AddFails(a)
  \/ DeleteRule(a) \/ DeleteFails(a) \/ Finish(a) \/ Abort(a)

Next == \E a \in Applier : Step(a)

Spec == Init /\ [][Next]_vars

-----------------------------------------------------------------------------
(* Properties                                                              *)

\* Every variable holds a value of its kind, and no rule is in the kernel twice.
TypeOK ==
  /\ rules \subseteq KernelRule /\ NoClash(rules)
  /\ run \in [Applier -> Run]
  /\ \A a \in Applier : run[a].next \in 1 .. Len(Config) + 1
  /\ failures \in Nat

Configured   == {Config[i] : i \in 1 .. Len(Config)}
Owner(c)     == IF c.vrrp = None THEN Cli ELSE c.vrrp.group
Wanted(c, s) == c.vrrp = None \/ s \in c.vrrp.states

\* What a finished run without failures has achieved, whatever the other
\* processes do meanwhile and afterwards: of its own rules those that are wanted
\* are in the kernel and the others are not, and rules nobody configured are gone.
RunTakesEffect ==
  \A a \in Applier : run[a].pc = "done" /\ ~ run[a].failed =>
    /\ \A c \in Configured : Owner(c) = a =>
         (KernelOf(c) \in rules <=> \E d \in Configured :
            Owner(d) = a /\ KernelOf(d) = KernelOf(c) /\ Wanted(d, run[a].state))
    /\ \A k \in rules : Ignored(k) \/ \E c \in Configured : KernelOf(c) = k

\* A process never takes away a configured rule of another one, also not with a
\* dump that is out of date.
NoTheft ==
  [][\A a \in Applier : run'[a] # run[a] =>
       \A c \in Configured :
         Owner(c) # a /\ KernelOf(c) \in rules => KernelOf(c) \in rules']_vars

\* A rule is refused only because of one that this very run is going to delete:
\* the run leaves the way free, and the next run adds what this one could not.
RefusalIsTemporary ==
  [][\A a \in Applier : AddRefused(a) =>
       \E k \in Orphans(a) : Clash(KernelOf(Current(a)), k)]_vars
=============================================================================
