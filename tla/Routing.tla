------------------------------ MODULE Routing ------------------------------
(***************************************************************************)
(* Tables.apply (libifstate/routing/__init__.py) for one routing table.    *)
(* An apply dumps the kernel's routes, walks over the configured ones,     *)
(* replaces those that are not as wanted and strikes those it recognises   *)
(* off its copy of the dump; what is left of the copy is deleted.          *)
(*                                                                         *)
(* `ifstate apply' and the worker of every VRRP group run Tables.apply in  *)
(* processes of their own, with nothing but the kernel between them.  Each *)
(* handles the routes of its VRRP condition and ignores the others'.       *)
(***************************************************************************)
EXTENDS Naturals, Sequences, FiniteSets

CONSTANTS
  Dst,           \* destination and priority of a route (a number: dump order)
  Proto,         \* routing protocols
  Tos,           \* types of service
  Gateway,       \* gateways
  Device,        \* interfaces
  Links,         \* the interfaces that exist
  Group,         \* VRRP groups and instances, one worker process each
  VrrpState,     \* VRRP states
  Cli,           \* the `ifstate apply' process
  None,          \* a key a Python dict does not have
  Config,        \* the configured routes in the order the loop visits them
  IgnoredProto,  \* protocols of the `ignore' list
  InitialRoute,  \* routes that may be in the kernel beforehand
  MaxRuns,       \* bound: runs of each process
  MaxFailures    \* bound: netlink errors and exceptions

Applier == Group \cup {Cli}

VrrpCondition == [group : Group, states : SUBSET VrrpState]

\* a configured route; type, scope, realm and preferred source are compared
\* and set as the gateway is.  It has no TOS: Tables.add takes none over.
WantedRoute == [dst : Dst, proto : Proto, gw : Gateway \cup {None},
                dev : Device \cup {None}, vrrp : VrrpCondition \cup {None}]

\* the TOS the kernel gives a route that is set without one
DefaultTos == 0

KernelRoute == [dst : Dst, proto : Proto, tos : Tos, gw : Gateway \cup {None},
                dev : Links]

ASSUME ConstantsAssumption ==
  /\ Dst \subseteq Nat
  /\ Links \subseteq Device /\ DefaultTos \in Tos
  /\ Config \in Seq(WantedRoute)
  /\ InitialRoute \subseteq KernelRoute /\ IsFiniteSet(InitialRoute)
  /\ MaxRuns \in Nat /\ MaxFailures \in Nat
ASSUME NoneAssumption ==
  /\ None \notin Gateway \cup Device \cup Group \cup VrrpState \cup VrrpCondition
  /\ Cli \notin Group

VARIABLES
  fib,       \* the kernel's routing table
  run,       \* the Tables.apply of every process
  failures   \* number of failures so far

vars == <<fib, run, failures>>

Run == [pc      : {"idle", "route", "scan", "done"},
        state   : VrrpState \cup {None},  \* vrrp_state
        next    : Nat,                    \* position in Config
        i       : Nat,                    \* position in kroutes
        kroutes : Seq(KernelRoute),       \* what is left of the dump
        failed  : BOOLEAN,                \* a warning was logged
        runs    : Nat]

\* the kernel has at most one route for a destination, priority and TOS
SameSlot(r, s)  == r.dst = s.dst /\ r.tos = s.tos
OnePerSlot(F)   == \A r, s \in F : SameSlot(r, s) => r = s

\* and k is in the slot that a configured route gets
InSlot(k, c) == k.dst = c.dst /\ k.tos = DefaultTos

Init ==
  /\ fib \in {F \in SUBSET InitialRoute : OnePerSlot(F)}
  /\ run = [a \in Applier |-> [pc |-> "idle", state |-> None, next |-> 1, i |-> 1,
                               kroutes |-> <<>>, failed |-> FALSE, runs |-> 0]]
  /\ failures = 0

-----------------------------------------------------------------------------
(* What the code compares                                                  *)

\* route_matches with its default fields
SameKey(r, k) == r.dst = k.dst /\ r.proto = k.proto

\* (mutant of AsWanted: the helper attribute _vrrp is compared, too)
AsWantedAndHelper(c, k) ==
  /\ SameKey(c, k)
  /\ c.gw \in {None, k.gw}
  /\ c.dev \in {None, k.dev}
  /\ c.vrrp = None

\* route_matches with the configured route's own fields: the kernel route's TOS
\* is never compared
AsWanted(c, k) ==
  /\ SameKey(c, k)
  /\ c.gw \in {None, k.gw}
  /\ c.dev \in {None, k.dev}

\* vrrp_match
VrrpMatch(c, a, s) ==
  IF a = Cli THEN IF c.vrrp = None THEN "plain" ELSE "ignore"
  ELSE IF c.vrrp = None \/ c.vrrp.group # a THEN "ignore"
       ELSE IF s \in c.vrrp.states THEN "enable" ELSE "disable"

\* (mutant of Resolved: the unknown device is kept)
Unresolved(c) == c

\* a device that does not exist is dropped from a route that has a gateway
Resolved(c) == IF c.dev \in Links THEN c ELSE [c EXCEPT !.dev = None]

\* and without a gateway the route is skipped
Skipped(c) == c.dev \notin Links \cup {None} /\ c.gw = None

Ignored(k) == k.proto \in IgnoredProto

-----------------------------------------------------------------------------
(* The kernel                                                              *)

\* `ip route replace': a route without a device gets one the gateway is on
Replaced(c) ==
  {{k \in fib : ~ InSlot(k, c)} \cup
   {[dst |-> c.dst, proto |-> c.proto, tos |-> DefaultTos, gw |-> c.gw, dev |-> d]} :
     d \in IF c.dev = None THEN Links ELSE {c.dev}}

\* `ip route del': an attribute that is not given matches any
Deleted(k) == {r \in fib : /\ SameKey(r, k) /\ SameSlot(r, k) /\ r.dev = k.dev
                           /\ k.gw \in {None, r.gw}}

-----------------------------------------------------------------------------
(* Tables.apply                                                            *)

\* the order of a dump: by destination
Dumps(F) ==
  {s \in [1 .. Cardinality(F) -> F] :
     /\ \A k \in F : \E i \in 1 .. Cardinality(F) : s[i] = k
     /\ \A i, j \in 1 .. Cardinality(F) : i < j => s[i] # s[j] /\ s[i].dst <= s[j].dst}

Without(s, i) == SubSeq(s, 1, i - 1) \o SubSeq(s, i + 1, Len(s))

\* kernel_routes
Start(a, s) ==
  /\ run[a].pc \in {"idle", "done"}
  /\ run[a].runs < MaxRuns
  /\ \E d \in Dumps(fib) :
       run' = [run EXCEPT ![a] = [pc |-> "route", state |-> s, next |-> 1, i |-> 1,
                                  kroutes |-> d, failed |-> FALSE, runs |-> @.runs + 1]]
  /\ UNCHANGED <<fib, failures>>

Current(a) == Resolved(Config[run[a].next])
Matched(a) == VrrpMatch(Config[run[a].next], a, run[a].state)

NextRoute(a) == [run[a] EXCEPT !.pc = "route", !.next = @ + 1]

SkipRoute(a) ==
  /\ run[a].pc = "route"
  /\ run[a].next <= Len(Config)
  /\ Skipped(Config[run[a].next])
  /\ run' = [run EXCEPT ![a] = NextRoute(a)]
  /\ UNCHANGED <<fib, failures>>

BeginScan(a) ==
  /\ run[a].pc = "route"
  /\ run[a].next <= Len(Config)
  /\ ~ Skipped(Config[run[a].next])
  /\ run' = [run EXCEPT ![a].pc = "scan", ![a].i = 1]
  /\ UNCHANGED <<fib, failures>>

\* (mutant of Examine: an ignored route stays in the copy of the dump)
ExamineKeepIgnored(a) ==
  LET k == run[a].kroutes[run[a].i] IN
    /\ run[a].pc = "scan"
    /\ run[a].i <= Len(run[a].kroutes)
    /\ \/ /\ ~ SameKey(Current(a), k)
          /\ run' = [run EXCEPT ![a].i = @ + 1]
       \/ /\ SameKey(Current(a), k)
          /\ Matched(a) \in {"ignore", "disable"}
          /\ run' = [run EXCEPT ![a] = NextRoute(a)]
       \/ /\ SameKey(Current(a), k)
          /\ Matched(a) \in {"plain", "enable"}
          /\ AsWanted(Current(a), k)
          /\ run' = [run EXCEPT ![a] = [NextRoute(a) EXCEPT !.kroutes = Without(@, run[a].i)]]
       \/ /\ SameKey(Current(a), k)
          /\ Matched(a) \in {"plain", "enable"}
          /\ ~ AsWanted(Current(a), k)
          /\ run' = [run EXCEPT ![a].kroutes = Without(@, run[a].i), ![a].i = @ + 1]
    /\ UNCHANGED <<fib, failures>>

\* (mutant of Examine: a disabled route is struck off like an ignored one)
ExamineStrikeDisabled(a) ==
  LET k == run[a].kroutes[run[a].i] IN
    /\ run[a].pc = "scan"
    /\ run[a].i <= Len(run[a].kroutes)
    /\ \/ /\ ~ SameKey(Current(a), k)
          /\ run' = [run EXCEPT ![a].i = @ + 1]
       \/ /\ SameKey(Current(a), k)
          /\ Matched(a) \in {"ignore", "disable"} \/ AsWanted(Current(a), k)
          /\ run' = [run EXCEPT ![a] = [NextRoute(a) EXCEPT !.kroutes = Without(@, run[a].i)]]
       \/ /\ SameKey(Current(a), k)
          /\ Matched(a) \in {"plain", "enable"}
          /\ ~ AsWanted(Current(a), k)
          /\ run' = [run EXCEPT ![a].kroutes = Without(@, run[a].i), ![a].i = @ + 1]
    /\ UNCHANGED <<fib, failures>>

\* One turn of `for i, kroute in enumerate(kroutes)'.  The loop deletes from
\* the list it enumerates: after a deletion that does not break, the next turn
\* is at i + 1 of the shorter list.
Examine(a) ==
  LET k == run[a].kroutes[run[a].i] IN
    /\ run[a].pc = "scan"
    /\ run[a].i <= Len(run[a].kroutes)
    /\ \/ /\ ~ SameKey(Current(a), k)
          /\ run' = [run EXCEPT ![a].i = @ + 1]
       \/ /\ SameKey(Current(a), k)
          /\ Matched(a) = "disable"
          /\ run' = [run EXCEPT ![a] = NextRoute(a)]
       \/ /\ SameKey(Current(a), k)
          /\ Matched(a) = "ignore" \/ (Matched(a) # "disable" /\ AsWanted(Current(a), k))
          /\ run' = [run EXCEPT ![a] = [NextRoute(a) EXCEPT !.kroutes = Without(@, run[a].i)]]
       \/ /\ SameKey(Current(a), k)
          /\ Matched(a) \in {"plain", "enable"}
          /\ ~ AsWanted(Current(a), k)
          /\ run' = [run EXCEPT ![a].kroutes = Without(@, run[a].i), ![a].i = @ + 1]
    /\ UNCHANGED <<fib, failures>>

\* the loop ended without an identical route
EndOfScan(a) == run[a].pc = "scan" /\ run[a].i > Len(run[a].kroutes)

LeaveRoute(a) ==
  /\ EndOfScan(a)
  /\ Matched(a) \in {"ignore", "disable"}
  /\ run' = [run EXCEPT ![a] = NextRoute(a)]
  /\ UNCHANGED <<fib, failures>>

ReplaceRoute(a) ==
  /\ EndOfScan(a)
  /\ Matched(a) \in {"plain", "enable"}
  /\ fib' \in Replaced(Current(a))
  /\ run' = [run EXCEPT ![a] = NextRoute(a)]
  /\ UNCHANGED failures

\* a netlink error is logged and the loop goes on
ReplaceFails(a) ==
  /\ EndOfScan(a)
  /\ Matched(a) \in {"plain", "enable"}
  /\ failures < MaxFailures
  /\ failures' = failures + 1
  /\ run' = [run EXCEPT ![a] = [NextRoute(a) EXCEPT !.failed = TRUE]]
  /\ UNCHANGED fib

CleanUp(a) ==
  run[a].pc = "route" /\ run[a].next > Len(Config) /\ run[a].kroutes # <<>>

LeaveIgnored(a) ==
  /\ CleanUp(a)
  /\ Ignored(Head(run[a].kroutes))
  /\ run' = [run EXCEPT ![a].kroutes = Tail(@)]
  /\ UNCHANGED <<fib, failures>>

\* a route that is gone by now is a netlink error, too, but one without effect
DeleteRoute(a) ==
  /\ CleanUp(a)
  /\ ~ Ignored(Head(run[a].kroutes))
  /\ fib' = fib \ Deleted(Head(run[a].kroutes))
  /\ run' = [run EXCEPT ![a].kroutes = Tail(@)]
  /\ UNCHANGED failures

DeleteFails(a) ==
  /\ CleanUp(a)
  /\ ~ Ignored(Head(run[a].kroutes))
  /\ failures < MaxFailures
  /\ failures' = failures + 1
  /\ run' = [run EXCEPT ![a].kroutes = Tail(@), ![a].failed = TRUE]
  /\ UNCHANGED fib

Finish(a) ==
  /\ run[a].pc = "route" /\ run[a].next > Len(Config) /\ run[a].kroutes = <<>>
  /\ run' = [run EXCEPT ![a].pc = "done"]
  /\ UNCHANGED <<fib, failures>>

\* any other exception ends the process, or is the end of the worker
Abort(a) ==
  /\ run[a].pc \in {"route", "scan"}
  /\ failures < MaxFailures
  /\ failures' = failures + 1
  /\ run' = [run EXCEPT ![a].pc = "idle"]
  /\ UNCHANGED fib

-----------------------------------------------------------------------------
Step(a) ==
  \/ \E s \in IF a = Cli THEN {None} ELSE VrrpState : Start(a, s)
  \/ SkipRoute(a) \/ BeginScan(a) \/ Examine(a) \/ LeaveRoute(a)
  \/ ReplaceRoute(a) \/ ReplaceFails(a)
  \/ LeaveIgnored(a) \/ DeleteRoute(a) \/ DeleteFails(a)
  \/ Finish(a) \/ Abort(a)

Next == \E a \in Applier : Step(a)

Spec == Init /\ [][Next]_vars

-----------------------------------------------------------------------------
(* Whose routes are whose                                                  *)

Configured == {Config[i] : i \in 1 .. Len(Config)}
Owner(c)   == IF c.vrrp = None THEN Cli ELSE c.vrrp.group
Wanted(c, s) == c.vrrp = None \/ s \in c.vrrp.states

\* The routes can be told apart: two that are configured for a slot are the same
\* process's, which never wants both, and no route beforehand differs from a
\* configured one's key in nothing but its TOS.
ASSUME DistinctAssumption ==
  /\ \A i, j \in DOMAIN Config : i # j /\ Config[i].dst = Config[j].dst =>
       /\ Owner(Config[i]) = Owner(Config[j])
       /\ \A s \in VrrpState \cup {None} :
            ~ (Wanted(Config[i], s) /\ Wanted(Config[j], s))
  /\ \A i \in DOMAIN Config, k \in InitialRoute : SameKey(Config[i], k) => InSlot(k, Config[i])

-----------------------------------------------------------------------------
(* Properties                                                              *)

\* Every variable holds a value of its kind, the table has one route per slot,
\* and a run is at most one past the end of the configuration.
TypeOK ==
  /\ fib \subseteq KernelRoute /\ IsFiniteSet(fib) /\ OnePerSlot(fib)
  /\ run \in [Applier -> Run]
  /\ \A a \in Applier :
       /\ run[a].next \in 1 .. Len(Config) + 1 /\ run[a].i >= 1
       /\ run[a].pc = "scan" => run[a].next <= Len(Config)
  /\ failures \in Nat

\* kernel route k is what the configuration says of c
Implements(k, c) ==
  /\ ~ Skipped(c)
  /\ InSlot(k, c) /\ k.proto = c.proto
  /\ c.gw # None => k.gw = c.gw
  /\ c.dev \in Links => k.dev = c.dev

InForce(c, F) == \E k \in F : Implements(k, c)

\* What a finished run without failures has achieved, whatever the other
\* processes do meanwhile and afterwards: the routes of its own that are wanted
\* are in the kernel, those that are not wanted are not, and routes nobody
\* configured are gone.
RunTakesEffect ==
  \A a \in Applier : run[a].pc = "done" /\ ~ run[a].failed =>
    /\ \A c \in Configured :
         Owner(c) = a /\ Wanted(c, run[a].state) /\ ~ Skipped(c) => InForce(c, fib)
    /\ \A k \in fib : ~ Ignored(k) =>
         \E c \in Configured :
           SameKey(c, k) /\ (Owner(c) = a => Wanted(c, run[a].state))

\* A process never takes a configured route of another one out of force, also
\* not with a dump that is out of date.
NoTheft ==
  [][\A a \in Applier : run'[a] # run[a] =>
       \A c \in Configured : Owner(c) # a /\ InForce(c, fib) => InForce(c, fib')]_vars

\* A route is replaced only if that changes the table: a second apply of the
\* same configuration changes nothing.
OnlyNeededChanges ==
  [][\A a \in Applier : ReplaceRoute(a) => fib' # fib]_vars

\* A finished run leaves no gateway in the kernel for a route that is
\* configured without one.
NoOldGateway ==
  \A a \in Applier : run[a].pc = "done" /\ ~ run[a].failed =>
    \A c \in Configured, k \in fib :
      Owner(c) = a /\ Wanted(c, run[a].state) /\ Implements(k, c) => k.gw = c.gw
=============================================================================
