------------------------------- MODULE Apply -------------------------------
(***************************************************************************)
(* IfState._apply (libifstate/__init__.py) run by `ifstate apply' or       *)
(* `ifstate check' and, at the same time, by the worker processes of the   *)
(* VRRP groups (ifstate/vrrp.py).  Every run goes through the stages that  *)
(* module Stages resolves; which links it configures depends on who runs.  *)
(*                                                                         *)
(* One run configures one link in one step: what happens within is module  *)
(* Links, and the daemon between the FIFO and the queues is VrrpFifo.      *)
(***************************************************************************)
EXTENDS Stages

CONSTANTS
  Cli,         \* the process of `ifstate apply' or `ifstate check'
  Group,       \* VRRP groups and instances
  State,       \* VRRP states
  None,
  Attr,        \* index attributes: `master', `link' and so on
  Root,        \* the root namespace
  NsOf,        \* the namespace of every item
  Scenario,    \* configurations and the kernel's state beforehand
  Overlapping, \* may a replaced worker still run when its successor starts?
  MaxNews      \* bound: notifications of keepalived

VARIABLES
  config,  \* the configuration
  kernel,  \* namespaces and links
  at,      \* how far every process is
  left,    \* what a process has still to visit of its stage
  stage,   \* number of that stage
  reg,     \* the links a process knows: its link registry
  down,    \* links that a worker's copy of the configuration has set to down
  taken,   \* the VRRP state a worker applies, or applied last
  queue,   \* the queue of every worker
  states,  \* VrrpStates.states
  reloaded,\* SIGHUP was sent, after `ifstate apply'
  news     \* notifications that may still come

procVars  == <<at, left, stage, reg, down, taken>>
daemonVars == <<queue, states, reloaded, news>>
resolver  == <<deps, continue, d, r, pc>>
applyVars == <<resolver, config, kernel, procVars, daemonVars>>

\* the worker of a group when the daemon started it, and its successor
Worker  == Group \X {1, 2}
Process == {Cli} \cup Worker

\* A link depends on the links that its index attributes name; not all are set.
Refs       == UNION {[A -> Item] : A \in SUBSET Attr}
LinkConfig == [uses : Refs, group : Group \cup {None}, states : SUBSET State]
KernelLink == [up : BOOLEAN, over : Refs]

UsedBy(f) == {f[a] : a \in DOMAIN f}

ASSUME ProcessAssumption == Cli \notin Worker \cup Group /\ None \notin Group \cup State

\* `apply' orders the links in the mode that goes on, and so do the workers
ASSUME ApplyModesAssumption == TRUE \in Modes

\* A configuration and a kernel are of this form; the kernel's references lead
\* to links.
ASSUME ScenarioAssumption ==
  \A c \in Scenario :
    /\ DOMAIN c.links \subseteq Item /\ c.links \in [DOMAIN c.links -> LinkConfig]
    /\ c.kernel = [spaces |-> c.kernel.spaces, links |-> c.kernel.links]
    /\ DOMAIN c.kernel.links \subseteq Item
    /\ c.kernel.links \in [DOMAIN c.kernel.links -> KernelLink]
    /\ \A x \in DOMAIN c.kernel.links :
         UsedBy(c.kernel.links[x].over) \subseteq DOMAIN c.kernel.links

ApplyInit ==
  /\ config \in Scenario
  /\ continue \in (IF config.who \subseteq {Cli} THEN Modes ELSE {TRUE})
  /\ deps = [x \in DOMAIN config.links |-> UsedBy(config.links[x].uses)]
  /\ d = deps /\ r = <<>> /\ pc = "resolve"
  /\ kernel = config.kernel
  /\ at = [p \in Process |-> "idle"]
  /\ left = [p \in Process |-> {}]
  /\ stage = [p \in Process |-> 0]
  /\ reg = [p \in Process |-> {}]
  /\ down = [p \in Process |-> {}]
  /\ taken = [p \in Process |-> None]
  /\ queue = [w \in Worker |-> <<>>]
  /\ states = [g \in Group |-> None]
  /\ reloaded = FALSE
  /\ news = MaxNews

Configured == DOMAIN config.links
Existing   == DOMAIN kernel.links
IsVrrp(x)  == config.links[x].group # None
Known(x)   == NsOf[x] = Root \/ NsOf[x] \in config.spaces

\* the kernel's links without x, which nothing refers to any more
LinksWithout(x) ==
  [y \in Existing \ {x} |->
     [kernel.links[y] EXCEPT !.over = [a \in {a \in DOMAIN @ : @[a] # x} |-> @[a]]]]

-----------------------------------------------------------------------------
(* `ifstate apply' and `ifstate check': before the links                   *)

\* loading the configuration creates its namespaces, `check' too
Update ==
  /\ at[Cli] = "idle" /\ Cli \in config.who
  /\ at' = [at EXCEPT ![Cli] = "spaces"]
  /\ kernel' = [kernel EXCEPT !.spaces = @ \cup config.spaces]
  /\ reg' = [reg EXCEPT ![Cli] = Existing]
  /\ UNCHANGED <<resolver, config, left, stage, down, taken, daemonVars>>

PrepareNetns ==
  /\ at[Cli] = "spaces"
  /\ at' = [at EXCEPT ![Cli] = "orphans"]
  /\ kernel' = [kernel EXCEPT !.spaces = IF continue /\ config.manages THEN @ \cap config.spaces ELSE @]
  /\ UNCHANGED <<resolver, config, left, stage, reg, down, taken, daemonVars>>

\* (mutant of IsOrphan: links that this run does not configure are removed)
IsOrphanOrVrrp(x) ==
  x \notin {y \in Configured : ~ IsVrrp(y)} /\ (config.manages \/ NsOf[x] = Root)

\* no link of the configuration has claimed the item of the registry, and the
\* configuration is about its namespace
IsOrphan(x) == x \notin Configured /\ (config.manages \/ NsOf[x] = Root)

RemoveOrphan(x) ==
  /\ at[Cli] = "orphans" /\ pc = "return" /\ continue
  /\ x \in reg[Cli] /\ IsOrphan(x)
  /\ reg' = [reg EXCEPT ![Cli] = @ \ {x}]
  /\ kernel' = [kernel EXCEPT !.links = LinksWithout(x)]
  /\ UNCHANGED <<resolver, config, at, left, stage, down, taken, daemonVars>>

BeginLinks ==
  /\ at[Cli] = "orphans" /\ pc = "return"
  /\ continue => \A x \in reg[Cli] : ~ IsOrphan(x)
  /\ at' = [at EXCEPT ![Cli] = "links"]
  /\ UNCHANGED <<resolver, config, kernel, left, stage, reg, down, taken, daemonVars>>

-----------------------------------------------------------------------------
(* The daemon and its workers                                              *)

\* the worker that takes a group's notifications
Current(g) == <<g, IF reloaded THEN 2 ELSE 1>>

Notify(g, s) ==
  /\ g \in config.who /\ news > 0
  /\ news' = news - 1
  /\ states' = [states EXCEPT ![g] = s]
  /\ queue' = [queue EXCEPT ![Current(g)] = Append(@, s)]
  /\ UNCHANGED <<resolver, config, kernel, procVars, reloaded>>

\* `ifstate apply' has returned and sends SIGHUP: every group that has a state
\* gets a new worker, which begins with that state
Reload ==
  /\ at[Cli] \in {"done", "gaveup"} /\ continue /\ ~ reloaded
  /\ reloaded' = TRUE
  /\ queue' = [w \in Worker |->
       IF states[w[1]] = None THEN queue[w]
       ELSE IF w[2] = 1 THEN Append(queue[w], None) ELSE <<states[w[1]]>>]
  /\ UNCHANGED <<resolver, config, kernel, procVars, states, news>>

\* Nothing makes a worker wait for the end of its predecessor.
MayStart(w) ==
  LET former == <<w[1], 1>>
  IN \/ Overlapping \/ w[2] = 1 \/ at[former] \in {"ended", "raised"}
     \/ at[former] = "idle" /\ queue[former] = <<>>

Terminate(w) ==
  /\ at[w] = "idle" /\ queue[w] # <<>> /\ Head(queue[w]) = None
  /\ at' = [at EXCEPT ![w] = "ended"]
  /\ queue' = [queue EXCEPT ![w] = Tail(@)]
  /\ UNCHANGED <<resolver, config, kernel, left, stage, reg, down, taken, states, reloaded, news>>

\* (mutant of Take: the worker applies its configuration without copying it)
TakeUncopied(w) ==
  /\ pc = "return" /\ at[w] = "idle" /\ queue[w] # <<>> /\ Head(queue[w]) # None
  /\ MayStart(w)
  /\ queue' = [queue EXCEPT ![w] = Tail(@)]
  /\ taken' = [taken EXCEPT ![w] = Head(queue[w])]
  /\ at' = [at EXCEPT ![w] = "links"]
  /\ kernel' = [kernel EXCEPT !.spaces = @ \cup config.spaces]
  /\ reg' = [reg EXCEPT ![w] = Existing]
  /\ stage' = [stage EXCEPT ![w] = 0]
  /\ UNCHANGED <<resolver, config, left, down, states, reloaded, news>>

\* A worker applies a copy of the configuration.  Copying opens the namespaces
\* again, which creates those that are missing, and rebuilds the link registry.
Take(w) ==
  /\ pc = "return" /\ at[w] = "idle" /\ queue[w] # <<>> /\ Head(queue[w]) # None
  /\ MayStart(w)
  /\ queue' = [queue EXCEPT ![w] = Tail(@)]
  /\ taken' = [taken EXCEPT ![w] = Head(queue[w])]
  /\ at' = [at EXCEPT ![w] = "links"]
  /\ kernel' = [kernel EXCEPT !.spaces = @ \cup config.spaces]
  /\ reg' = [reg EXCEPT ![w] = Existing]
  /\ down' = [down EXCEPT ![w] = {}]
  /\ stage' = [stage EXCEPT ![w] = 0]
  /\ UNCHANGED <<resolver, config, left, states, reloaded, news>>

-----------------------------------------------------------------------------
(* The links, stage by stage                                               *)

NextStage(p) ==
  /\ at[p] = "links" /\ left[p] = {} /\ stage[p] < Len(r)
  /\ stage' = [stage EXCEPT ![p] = @ + 1]
  /\ left' = [left EXCEPT ![p] = r[stage[p] + 1]]
  /\ UNCHANGED <<resolver, config, kernel, at, reg, down, taken, daemonVars>>

\* the links of the root namespace are the first of their stage; the names
\* decide on the order of the others
Follows(p, x) ==
  /\ at[p] = "links" /\ x \in left[p]
  /\ NsOf[x] # Root => \A y \in left[p] : NsOf[y] # Root

\* the links without VRRP settings are those of `ifstate apply', the others
\* those of the workers of their group
Selected(p, x) ==
  /\ x \in Configured
  /\ IF p = Cli THEN ~ IsVrrp(x) ELSE config.links[x].group = p[1]

\* (mutant of Disabled: `ifstate apply' disables links, too)
DisabledByAll(p, x) == taken[p] \notin config.links[x].states

\* the state is not one of those the link is configured for
Disabled(p, x) == p # Cli /\ taken[p] \notin config.links[x].states

\* index attributes whose link is there
Found(x) == {a \in DOMAIN config.links[x].uses : config.links[x].uses[a] \in Existing}

\* the attributes that are not set stay as they are
Attached(x) ==
  LET uses == config.links[x].uses
      old  == IF x \in Existing THEN kernel.links[x].over ELSE [a \in {} |-> x]
  IN [a \in Found(x) \cup DOMAIN old |-> IF a \in Found(x) THEN uses[a] ELSE old[a]]

\* (mutant of Effect: a missing dependency is an error)
EffectStrict(p, x, off) ==
  IF Found(x) # DOMAIN config.links[x].uses THEN kernel.links
  ELSE [y \in Existing \cup {x} |->
         IF y = x THEN [up |-> x \notin off, over |-> Attached(x)] ELSE kernel.links[y]]

\* Link.apply: references to links that are missing are left out, and the link
\* is down then.  A link that is not in the registry is created, which fails if
\* it has come into being meanwhile.
Effect(p, x, off) ==
  LET up == Found(x) = DOMAIN config.links[x].uses /\ x \notin off
  IN IF x \in Existing /\ x \notin reg[p] THEN kernel.links
     ELSE [y \in Existing \cup {x} |->
            IF y = x THEN [up |-> up, over |-> Attached(x)] ELSE kernel.links[y]]

Configure(p, x) ==
  /\ Follows(p, x) /\ Known(x) /\ Selected(p, x)
  /\ left' = [left EXCEPT ![p] = @ \ {x}]
  /\ down' = [down EXCEPT ![p] = @ \cup (IF Disabled(p, x) THEN {x} ELSE {})]
  /\ kernel' = IF continue THEN [kernel EXCEPT !.links = Effect(p, x, down'[p])] ELSE kernel
  /\ reg' = [reg EXCEPT ![p] = IF x \in Existing THEN @ ELSE @ \cup {x}]
  /\ UNCHANGED <<resolver, config, at, stage, taken, daemonVars>>

Skip(p, x) ==
  /\ Follows(p, x) /\ Known(x) /\ ~ Selected(p, x)
  /\ left' = [left EXCEPT ![p] = @ \ {x}]
  /\ UNCHANGED <<resolver, config, kernel, at, stage, reg, down, taken, daemonVars>>

\* A link of a namespace that is not configured ends the run, before routing:
\* with a message, or with an exception if no namespace is configured at all.
UnknownNetns(p, x) ==
  /\ Follows(p, x) /\ ~ Known(x)
  /\ at' = [at EXCEPT ![p] = IF ~ config.manages THEN "raised"
                             ELSE IF p = Cli THEN "gaveup" ELSE "idle"]
  /\ left' = [left EXCEPT ![p] = {}]
  /\ UNCHANGED <<resolver, config, kernel, stage, reg, down, taken, daemonVars>>

\* all stages and the routing are done
Finish(p) ==
  /\ at[p] = "links" /\ left[p] = {} /\ stage[p] = Len(r)
  /\ at' = [at EXCEPT ![p] = IF p = Cli THEN "done" ELSE "idle"]
  /\ UNCHANGED <<resolver, config, kernel, left, stage, reg, down, taken, daemonVars>>

Resolve == Next /\ UNCHANGED <<config, kernel, procVars, daemonVars>>

Step(p) ==
  \/ NextStage(p)
  \/ Finish(p)
  \/ \E x \in Item : Configure(p, x) \/ Skip(p, x) \/ UnknownNetns(p, x)

ApplyNext ==
  \/ Resolve
  \/ Update
  \/ PrepareNetns
  \/ \E x \in Item : RemoveOrphan(x)
  \/ BeginLinks
  \/ \E g \in Group, s \in State : Notify(g, s)
  \/ Reload
  \/ \E w \in Worker : Terminate(w) \/ Take(w)
  \/ \E p \in Process : Step(p)

\* resolving is a loop of one process; nothing is assumed of the others
ApplySpec == ApplyInit /\ [][ApplyNext]_applyVars /\ WF_resolver(Resolve)

-----------------------------------------------------------------------------
(* Properties                                                              *)

\* Links are in namespaces that exist; nothing refers to a missing link; only
\* workers set links to down.
ApplyTypeOK ==
  /\ \A x \in Configured : config.links[x] \in LinkConfig
  /\ Existing \subseteq Item /\ kernel.links \in [Existing -> KernelLink]
  /\ \A x \in Existing : UsedBy(kernel.links[x].over) \subseteq Existing
  /\ at \in [Process -> {"idle", "spaces", "orphans", "links", "done", "gaveup", "raised", "ended"}]
  /\ left \in [Process -> SUBSET Item] /\ reg \in [Process -> SUBSET Item]
  /\ \A p \in Process : left[p] # {} => left[p] \subseteq r[stage[p]]
  /\ down \in [Process -> SUBSET Configured] /\ down[Cli] = {}
  /\ taken \in [Process -> State \cup {None}]
  /\ states \in [Group -> State \cup {None}]

\* up, and attached to everything that it is configured to be attached to
Complete(x) ==
  /\ kernel.links[x].up
  /\ \A a \in DOMAIN config.links[x].uses :
       a \in DOMAIN kernel.links[x].over /\ kernel.links[x].over[a] = config.links[x].uses[a]

\* Once `ifstate apply' is through the links of its configuration that do not
\* wait for each other exist, whatever the workers do meanwhile; they are
\* attached to what they depend on and up, unless that is the workers' to
\* create; every other link it may remove is gone; so are other namespaces.  It
\* ends early only if a link is or depends on one of an unknown namespace.
ApplyTakesEffect ==
  /\ at[Cli] \in {"gaveup", "raised"} => \E x \in Items : ~ Known(x)
  /\ at[Cli] = "done" /\ continue =>
       /\ \A x \in Configured \cap Staged : ~ IsVrrp(x) =>
            /\ x \in Existing
            /\ (\A y \in UsedBy(config.links[x].uses) : y \in Configured /\ ~ IsVrrp(y)) =>
                 Complete(x)
       /\ \A x \in Existing \ Configured : ~ IsOrphan(x)
       /\ config.manages => kernel.spaces = config.spaces

\* what a link of the group may rely on to exist when the workers are at rest
Reliable(g) ==
  {y \in Configured \cap Staged :
     \/ config.links[y].group = g
     \/ ~ IsVrrp(y) /\ (Cli \in config.who \/ y \in DOMAIN config.kernel.links)}

AtRest ==
  /\ pc = "return"
  /\ Cli \in config.who => at[Cli] = "done" /\ reloaded
  /\ \A w \in Worker : at[w] \in {"idle", "ended"} /\ queue[w] = <<>>

\* When everybody is at rest, a link with VRRP settings is up if its states
\* contain the last state of its group, and down if they do not -- even if the
\* group changed its state, or a worker ran, when `ifstate apply' had not yet
\* created what the link depends on: SIGHUP comes after the apply.
GroupFollowsState ==
  AtRest /\ (\A x \in Items : Known(x)) =>
    \A x \in Configured \cap Staged : IsVrrp(x) =>
      LET c == config.links[x]
      IN states[c.group] # None =>
           /\ x \in Existing
           /\ states[c.group] \notin c.states => ~ kernel.links[x].up
           /\ states[c.group] \in c.states /\ UsedBy(c.uses) \subseteq Reliable(c.group) =>
                Complete(x)

\* A link with VRRP settings is brought up only by a worker of its group that
\* applies one of its states, is never removed, and keeps what it is attached to
\* unless that is removed.
OnlyTheGroupsWorker ==
  [][\A x \in Existing \cap Configured : IsVrrp(x) =>
       /\ x \in Existing'
       /\ kernel'.links[x].up /\ ~ kernel.links[x].up =>
            \E w \in Worker : /\ w[1] = config.links[x].group
                              /\ taken[w] \in config.links[x].states
                              /\ x \in left[w] \ left'[w]
       /\ \A a \in DOMAIN kernel.links[x].over :
            kernel.links[x].over[a] \in Existing' => a \in DOMAIN kernel'.links[x].over]_applyVars
=============================================================================
