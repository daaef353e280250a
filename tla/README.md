# ifstate: specifications, model checking and proofs

TLA+ modules for ifstate (libifstate 2.0.0-dev), a program that reads a YAML
description of a host's network configuration and changes the kernel's
configuration, over netlink, until it is the one described. The modules are
translated from the Python source; line numbers are those of the repository.

## 1. Inventory

| Part | Source | State it keeps | Operations |
| --- | --- | --- | --- |
| Command line | `ifstate/ifstate.py` | none | `check`, `apply`, `vrrp`, `vrrp-fifo`, `show`, SIGHUP to running daemons after `apply` |
| vrrp-fifo daemon | `ifstate/vrrp.py`, `IfsConfigHandler` | loaded configuration, `processes` and `states` dictionaries, one worker process and queue per VRRP group or instance | read FIFO, `update`, SIGHUP handler, `reconfigure`, worker loop |
| Parser | `libifstate/parser/*` | none | include, merge, defaults, schema validation |
| Orchestration | `libifstate/__init__.py` | namespaces, links, tables, sysctls of one run | `update` (build), `_stages` (order), `_apply` (execute) |
| Namespaces and registry | `libifstate/netns/__init__.py` | kernel namespaces, `LinkRegistry`: inventory of the kernel's links, kept up to date by the code's own operations | `prepare_netns`, registry queries, `LinkRegistryItem.update_ifname/update_netns/link` |
| Links | `libifstate/link/*` | wanted settings, registry item, kernel link and its bind namespace file | `apply`, `create`, `recreate`, `update`, `depends` |
| Routing | `libifstate/routing/__init__.py` | wanted routes and rules, kernel FIB and rules | `Tables.add`, `Tables.apply`, `Rules.add`, `Rules.apply` |
| Addresses, neighbours, FDB | `libifstate/{address,neighbour,fdb}` | wanted entries, kernel entries | `apply`: a reconciliation per interface |
| Sysctl, WireGuard, bridge port | `libifstate/{sysctl,wireguard,brport}` | wanted settings, kernel settings | `apply` |
| TC | `libifstate/tc/__init__.py` | wanted qdiscs and filters, those of the kernel | `apply`: `apply_ingress`, `apply_qtree`, `apply_filter` |
| XDP, BPF | `libifstate/xdp`, `libifstate/bpf` | programs, their pins and maps in the BPF file system, the program attached to a link | `BPF.apply` once per run, `XDP.apply` per link |
| Exception collector | `libifstate/exception.py` | exceptions of one apply | record, log |
| `show`, shell, logging | `libifstate/__init__.py:622-743`, `ifstate/shell.py`, `libifstate/log.py` | none | pure output |

How they interact: the command line and the daemon build an `IfState` from the
parser's output and call `apply`. `_apply` prepares namespaces, orders the
links by their dependencies, removes or frees links nobody configured, then
applies each link with its addresses, neighbours and so on, then the routing
tables and rules of each namespace. All parts share the `LinkRegistry`.
Concurrency exists only in the vrrp-fifo daemon (signal handler against main
thread, main process against its workers, workers against each other and
against `ifstate apply`); everything else is one sequential program against
the kernel, whose hard behaviours are failures of single netlink calls (which
are logged and skipped), stale inventory and the order of dependent steps.

What makes each part correct:

* **vrrp-fifo**: no reported state is lost; reloads reach every worker, never
  go back in time, never pile up workers; `update` always returns; the kernel
  ends with the last state under the last configuration.
* **Routing, addresses, neighbours, rules**: after an apply without errors the
  kernel holds what is configured and nothing else the configuration owns; a
  second apply changes nothing.
* **Orchestration and links**: a link is applied after everything it depends
  on; links nobody configured are removed, configured ones and ignored ones are
  not; a link that is wanted exists after an apply without errors.
* **Namespaces**: namespaces of the configuration exist, orphans are removed.
* **TC, XDP, BPF**: qdiscs, filters and the attached program end as configured; what
  is right is not taken away for a while, as packets are lost meanwhile.

`PROJECT.json` lists the hazards with their lines.

## 2. The vrrp-fifo daemon

`VrrpFifo.tla` models the daemon, `MCVrrpFifo.tla` the definitions its TLC
instances need, `VrrpFifo_proofs.tla` its theorems.

### The model

CPython executes a signal handler in the main thread between two bytecodes, and
nothing stops a second SIGHUP from interrupting the handler of the first. So
the main thread is a **stack of frames** (`stack`): the bottom one is
`vrrp_fifo` with the `update` it called, the ones above it are activations of
`IfsConfigHandler.sighup_handler` with the `reconfigure` they called. Only the
topmost frame moves. `self.processes[key].f(x)` is a lookup and a call, with a
program point between them; the arguments of a `VrrpFifoProcess`, `self.ifstate` among them,
are read one point before the object is constructed and stored (`GetConf`,
`CreateProcess`), so a SIGHUP in the constructor comes after the read; `Queue.put` is the
acquisition of the queue's lock (which is not reentrant) and the insertion.

| Code | Model |
| --- | --- |
| `VrrpStates.ifstate`, `processes`, `states` | `ifstate` (a version number), `processes`, `states` (`None` for a missing key) |
| a `VrrpFifoProcess` object, its process and its queue | `worker[p]`: key, configuration, phase, queue, the state taken last |
| `/run/libifstate/vrrp/<pid>.pid` | `pidfile` |
| pending SIGHUP | `hup`; a second one before delivery is merged with the first |
| configuration file | `file`: its version; versions in `Broken` do not load |
| what the last finished apply of a key left in the kernel | `kernel[k]` |
| start-up, loop, exit | `Boot`, `InstallHandler`, `WritePidFile`, `ReadLine`, `EndOfFile`, `RemovePidFile`, `JoinChildren` |
| `update` | `ReadLine`, then `GetConf`, `CreateProcess`, `LookUp`, `StartProcess` for a new key, `SetState`, `LookUp`, `LockQueue`, `PutUpdate` |
| `sighup_handler`, `reconfigure` | `Sighup`, `LoadConfig`, `Callback`, then for each key `NextKey`, `LookUp`, `LockQueue`, `PutPill`, `GetConf`, `CreateProcess`, `LookUp`, `StartProcess`, `LookUp`, `LockQueue`, `PutUpdate` |
| `vrrp_worker` | `WorkerGet`, `WorkerApply`, `WorkerDie` |
| `ifstate apply` | `ApplyConfig`, `SighupVrrpFifo` |

`Interruptible` is a constant: the program points at which a SIGHUP may be
delivered. `Anywhere` is what CPython does. The other sets say under which
condition a weaker-than-wanted property holds, and are named for it.

Abstractions: one apply of a worker is one step that configures its key and
either finishes or raises (the apply itself is the subject of the other
modules); the order in which `reconfigure` visits the keys is any order;
`mp.active_children()` only reaps processes; a line that does not parse changes
nothing; `Process.start` does not fail to fork; the constructor, of whose
object nobody else knows yet, is one step with the store.

### What is checked

| Run | Instance | Shows |
| --- | --- | --- |
| `interrupts` | 1 key, 2 states, 4 processes, 2 edits of which the first does not load, 2 lines, 2 applies, handlers nested twice, SIGHUP anywhere | `TypeOK`; `NoLostUpdate`: back at the FIFO, the last state of every key is the last item its current, running, not stopped worker was given; `SighupNeverKills`: the pid file exists only once the handler is set; `Implements` (below) |
| `live` | `FairSpec`, 1 key, 2 states, 3 processes, 2 edits of which the second does not load, 2 lines, 2 applies; SIGHUP neither inside `Queue.put` nor in the stretch `Spawning` of a first worker (below), handler not re-entered | `SupersededStop`: a replaced worker was told to stop; `ReloadReachesWorkers`: workers that are current have the configuration loaded last; `NoDowngrade`: the configuration never goes back; `LastStateTaken`: the worker that stays current for a key and lives takes the last state reported for it; `UpdateReturns`: the main thread always comes back to the FIFO |

And what does not hold of the code (runs expected to find a violation, one
finding each in `PROJECT.json`):

| Run | Property | What happens |
| --- | --- | --- |
| `nested` | `NoDowngrade` | a SIGHUP interrupts the reload of an earlier one; the outer activation resumes and stores its older configuration |
| `firstspawn` | `ReloadReachesWorkers` | SIGHUP between the read of `self.ifstate` for a new process, whose constructor comes next, and `self.states[key] = ...`: `reconfigure` iterates `states`, the new worker keeps the old configuration |
| `selflock` | `UpdateReturns` | SIGHUP inside `Queue.put`: the handler puts into the same queue and waits for the lock of the frame it interrupted |

One more property is stated in `VrrpFifo.tla`, and the code violates it also:
`KernelSettles` (a superseded worker finishes its apply after its successor, and its older
configuration is what the kernel ends with). It has no run of its own; `apply_overlap` of
section 4 shows what that does to the links. And a daemon is signalled once it has a pid file
only: an `ifstate apply` between its load of the configuration and `WritePidFile` does not
reach it, and it never learns of the edit. No property speaks of it.

Bounds. `MaxVersion` = 2 gives an older, a newer and an unloadable file;
`MaxDepth` = 3 a handler in a handler in `update`, which is the first depth at
which a handler can be overtaken by another; four processes let the main
thread and each of three reload steps create one; two lines give a first and a
repeated report. One key is enough where the property is about a key and the
keys only meet in the order in which `reconfigure` visits them; the proofs cover
any number of keys. `Proc` is a symmetry set in `interrupts`. Symmetry is not
sound for liveness, so `live` has a state constraint in its place: `InOrder`,
processes are taken for new workers in a fixed order, which leaves out only
renamings. The daemon stops at the end of the FIFO, so deadlock is not checked.

Fairness (`FairSpec`). Weak fairness of the main thread, of signal delivery and
of every worker: the operating system schedules runnable processes and CPython
runs pending handlers at the next bytecode. Nothing is assumed of keepalived,
of the administrator or of the FIFO (`ReadLine` and `EndOfFile` are not fair).

### What the daemon promises

`VrrpService.tla` says what keepalived and the administrator can rely on, without
processes, queues and signals: a report is only taken when every earlier one was
handed out; what is handed out is an *order*, the state reported last with a
configuration that loads; a reload hands the last state out anew; the kernel is only
ever configured by an order that was handed out; only when an apply raised may
orders of that key be lost. `VrrpFifoService.tla` maps the daemon to it:

| `VrrpService` | in terms of `VrrpFifo` |
| --- | --- |
| `last` | `states` |
| `due` | keys with a state that is not the last item of their running, not stopped, current worker |
| `pending` | what workers that live have in their queue before the pill, or work on, with the worker's configuration |
| `raised` | keys with a worker that died |
| `file`, `kernel` | the same |

`Implements` (run `interrupts`, SIGHUP anywhere) is the refinement. It allows what the
code does when it is interrupted: an order handed out twice, an order of an
older configuration, carried out after a newer one. That these do not happen without
interruption is what `NoDowngrade` and `SupersededStop` add.

### What is proved

`VrrpFifo_proofs.tla`, for every value of the constants (any number of keys,
states and processes, any nesting depth, any set of interruptible points; the
only assumptions are `NoneAssumption` and `BoundsAssumption`):

* `Invariance`: `Spec => []IInv`
* `TypeCorrect`: `Spec => []TypeOK`
* `NoLostUpdateHolds`: `Spec => []NoLostUpdate`

`NoLostUpdate` speaks of the moments at which no handler is active, and says
nothing of the steps in between, so it is not inductive. `IInv` adds

* `CallInv`: the dictionaries agree (a key with a state has a process, the
  process stored under a key was made for it), and each frame finds what its
  next statement looks up;
* `KeysServed`: a known key is settled (its current worker runs, was not told
  to stop and was given the last state) or some frame is at work on it;
* `FramesServed`: a frame at work on a key finds its object as it left it, or
  the key is settled, or a frame above it is at work on the key.

The argument is that a handler that replaces the object an interrupted frame
works with returns only when the key is settled, and that whatever the
interrupted frame then does (start an object that was started: an exception;
put a state into the superseded queue: no effect; put the same state again)
leaves it settled. The module proves one `...Step` lemma per action.

`VrrpFifoService_proofs.tla` proves the other safety properties of the runs:

| Theorem | Condition | Invariant, next to `IInv` |
| --- | --- | --- |
| `SighupNeverKillsHolds`: `Spec => []SighupNeverKills` | none | `StartInv`: until the handler is set there is no pid file and no pending signal |
| `NoDowngradeHolds`: `Spec => NoDowngrade` | `MaxDepth <= 2` | `ConfInv`: what the handler is about to store is no older than what is in use |
| `SupersededStopHolds`: `Spec => []SupersededStop` | `MaxDepth <= 2` | `StopInv`: a worker that is not its key's has the pill, and so has the one about to be replaced |
| `ReloadReachesWorkersHolds`: `Spec => []ReloadReachesWorkers` | `MaxDepth <= 2`, no SIGHUP at the points in `Spawning` | `ReachInv`: a worker with another configuration than the one in use is on the handler's list |
| `ImplementsHolds`: `Spec => Implements` | none | `ConfsLoad`: what anybody uses or is about to use loads; `ReportsKept`: when `update` stores a state, the one before was handed out |

`MaxDepth <= 2` says that a handler is not interrupted by another one, while `update` may
be interrupted at any point; `Spawning` is the stretch of `update` from the read of `self.ifstate` for a new process: its
construction, its store, its start and the store of the state of its key. A handler that runs
at any of these points replaces the configuration and leaves the new worker alone, as its key has no state yet. Runs `nested` and `firstspawn` show
that `NoDowngrade` and `ReloadReachesWorkers` need the conditions. Neither
theorem asks what `live` leaves out besides, SIGHUP inside `Queue.put`: a main thread that
waits for its own lock is stuck, but not wrong.

`ImplementsHolds` maps the initial states, and each action by a lemma of its own. The core
is how the orders of a key change (`Orders`): a put adds the last state if the object is
alive and has no pill, `WorkerGet` takes none away, `WorkerApply` finishes one or, if it
raises, all of them. What is due only becomes less with a put, and the `ReadLine` and
`SetState` of a report find nothing due for the key because of `ReportsKept`.

Liveness (`UpdateReturns`, `LastStateTaken`) is model-checked only: reasoning under fairness is
out of the prover's reach.

## 3. Routing

### Tables

`Routing.tla` models `Tables.apply` of one table, run by `ifstate apply` (`Cli`)
and by the worker of every VRRP group, each a process of its own against the
same kernel table `fib`. `MCRouting.tla` holds the instances.

| Code | Model |
| --- | --- |
| `self.tables[table]`, in the order of `sorted` | the sequence `Config` of `WantedRoute` |
| `kroutes`, `i` of `enumerate` | `run[a].kroutes`, `run[a].i` |
| `kernel_routes` | `Start`: any order of the routes in `fib` |
| `dev` that is not there: `del route['oif']`, `continue` | `Resolved`, `SkipRoute` |
| `vrrp_match` | `VrrpMatch` |
| one turn of `for i, kroute in enumerate(kroutes)` | `Examine`; the deletion shifts the list, the index goes on |
| `replace`, `del` and their `except` | `ReplaceRoute`, `ReplaceFails`, `DeleteRoute`, `DeleteFails` |
| an exception nobody catches, or a kill | `Abort` |

Destination and priority are one value (`Dst`); `type`, `scope`, `prefsrc` and
`realm` behave as `gw` does. The kernel (`Replaced`, `Deleted`, `Dumps`) is
modelled from the netlink semantics the code relies on: a replace takes the
slot of destination and TOS. `Tables.add` takes no TOS over from the configuration, so a
configured route is set with TOS 0 (`DefaultTos`), and the TOS of a kernel route is never
compared. `do_apply = False` is not modelled.

| Run | Instance | Shows |
| --- | --- | --- |
| `routes` | 4 configured routes, two of them the same destination for the states `master` and `backup` of `g1` and none for `fault`, one over an interface that is missing (with and without a gateway), 5 possible kernel routes; `g1` and `Cli` at once, two runs each, one failure or abort | `TypeOK`; `NoTheft`: no process takes a route of the other out of force; `RunTakesEffect`: a run without failures leaves its own routes as its state wants them and nothing foreign, whatever the other process does and whatever an earlier run that failed left; `OnlyNeededChanges`: a route that is right is not replaced |

With a kernel route that has the key of a configured one and another TOS than 0,
`RunTakesEffect` is violated. The code takes it for the configured route: if it is
otherwise equal it is found identical, and the configured route is never set. If its gateway is another
one, it is struck off the list, which is shortened while it is enumerated, so that the entry
after it is skipped: if that is the configured route itself (TOS 0), the run sets it again
and then deletes it as foreign. `routes` leaves such routes out, and no run has them.

`NoOldGateway` is stated as well, and violated as soon as a route without a
gateway is configured and the kernel's has one: only configured fields are
compared. It has no run.

`DistinctAssumption` says of a configuration that two routes for one destination and priority
are the same process's, which never wants both, and of the kernel's routes beforehand that none
with the key (destination, priority and protocol) of a configured one has another TOS than 0. Without the first part two processes, or two entries of one, undo
each other's routes in turn; without the second the code matches routes it does not mean (above). Two processes with a route each,
and routes of the kernel that nobody configured, are the smallest instance in which
a stale dump matters; a group treats another group's routes as it treats those of `Cli`. Two
runs each let a run start before, during and after one of the other process.
The state machine stops when `MaxRuns` is used up, so deadlock is not checked.

`Routing_proofs.tla` proves all four for every configuration with `DistinctAssumption`, any
number of groups, interfaces, runs and failures. `IInv` is `TypeOK`, `OneTos` (what is in
the kernel under a configured key has TOS 0, whoever put it there), and
`RunInv` of each process: what it handled is struck off its copy of the dump (`Struck`), at most one
entry of it is the counterpart of a configured route (`Once`), so that striking one off while the list is
enumerated skips none that matters (`Scanned`); its copy is up to date as far as its own routes go
(`UpToDate`), its wanted routes are in force (`Added`), and what is nobody's in the kernel is on the copy
(`Seen`). The steps of others keep this (`Gentle`): they touch only slots of
their own routes, or of routes nobody configured. `OnlyNeededChanges` relates an action to what was found
some steps earlier, so that a second invariant, `PInv`, is needed: a route in the kernel that
implements one a run has yet to put in force is on the run's copy of the dump, and will be recognised there.

### Rules

`Rules.tla` models `Rules.apply` of one namespace, again run by `Cli` and by
the workers of the VRRP groups at once. The kernel has no replace for a rule: a
run adds what it does not find in its dump, and deletes what it did not
recognise afterwards.

| Code | Model |
| --- | --- |
| `self.rules` | the sequence `Config` of `WantedRule` |
| `krules` | `run[a].krules` |
| `kernel_rules`: IPv4 and IPv6 | `Dump` |
| `rule_matches` over the configured keys | `Matches`: the priority, table, action, TOS and protocol agree, the selectors of the kernel's rule are those configured or more |
| one turn of the loop over the rules | `Recognise`, `AddRule`, `AddRefused` (EEXIST), `AddFails` |
| the loop over `krules` | `Orphans`, `DeleteRule`, `DeleteFails` |

`Selector` stands for source, destination, interfaces, mark and so on; table,
action and TOS are one `Target`. The kernel refuses a rule that differs from one
it has in the protocol only (`Clash`), and deletes one rule that has all that it is
given (`Deleted`).

| Run | Instance | Shows |
| --- | --- | --- |
| `rules` | 5 configured rules: two of one priority, one rule with a table for `master` and another for `backup`, one for both of these states; 6 possible kernel rules: as wanted, with another protocol, with another table, ignored; `g1` and `Cli`, two runs each, one failure or abort | `TypeOK`; `RunTakesEffect`; `NoTheft`; `RefusalIsTemporary`: what refuses an addition is deleted by the same run, and the next run adds the rule |

`DistinctAssumption` says of a configuration, and of the kernel's rules
beforehand, that the rules can be told apart. If a kernel rule of the same
priority and target has the configured selectors *and more*, the code takes it
for the configured rule: that one is not added, and another configured rule,
of which it is the copy, is not found. There is no run of this.

`Rules_proofs.tla` proves all four properties for every configuration with
`DistinctAssumption`, any number of groups, runs and failures. Each is about
several processes with stale dumps, and none is inductive. `RunInv` says what
is true of a run at each position of its loops: what was handled is struck off
unless it is the run's own and disabled (`Struck`), the dump is up to date as far
as the run's own rules go (`UpToDate`), rules to be deleted are on it
(`DisabledSeen`, `ForeignSeen`), and rules that are wanted were added (`Added`).
That other processes leave this alone is one lemma (`OthersKeep`), from what every
step of a process does to rules not its own (`Gentle`).

## 4. The order of the links, and the apply as a whole

### The stages

`Stages.tla` is `IfState._stages`: `deps` is the dictionary of dependencies,
`d` and `r` the variables of the code, `Stage` one turn of its loop, `Done` and
`Circular` its ends. `Modes` are the values of `continue_on_circualar`. Run
`apply`, whose module extends this one, starts from every dictionary over four links
among others, also with dependencies that are not keys, and checks

* `DependenciesFirst`: no link is in a stage before everything it depends on;
* `OnlyCircularDropped`: what is left out cannot be ordered: it is on a circle
  or depends on one;
* `Terminates`, under weak fairness of the one sequential loop.

Four links are enough for two circles, and for a link behind a circle.

The first part of `Apply_proofs.tla` proves the type invariant (`TypeCorrect`), `DependenciesFirst`
(`DependenciesFirstHolds`) and `OnlyCircularDropped` (`OnlyCircularDroppedHolds`)
for every set of links. The inductive invariant says that what was staged and
what is left is all there is (`Resolution`: `d[k]` is what `k` depends on less
what was staged), that nothing on a circle was staged, and what the
loop has established when it ended. Termination stays with TLC.

### Everybody's apply

`Apply.tla` composes the stages with those who go through them: `ifstate apply` or
`check`, and the workers of the VRRP groups, all on one kernel at the same time.
`MCApply.tla` holds the instances.

| Code | Model |
| --- | --- |
| `IfState._update` | `Update`: namespaces of the configuration are created (by `check` too), the registry is read |
| `prepare_netns` | `PrepareNetns`; `config.manages` says that the configuration has namespaces at all |
| orphans of `_apply` | `RemoveOrphan`, `BeginLinks` |
| the loop over stages and links | `NextStage`, `Follows`, `Selected`, `Configure`, `Skip`, `UnknownNetns`, `Finish` |
| `_apply_iface` with `vrrp_type`, `vrrp_name`, `vrrp_state` | `Selected`, `Disabled`: the link is set to down in the worker's copy of the configuration (`down`) |
| `Link.apply` | `Effect`: its result, as run `links` shows it |
| `vrrp_worker` with `deepcopy` | `Take` (the copy reopens the namespaces and reads the registry again), `Terminate` |
| `VrrpStates`, FIFO | `Notify`: `update` to the end |
| `sighup_vrrp_fifo` and `reconfigure` | `Reload`: the worker `<<g, 2>>` succeeds `<<g, 1>>` |

Abstractions: a link is configured in one step; one call never fails (sections 5 and
6 are about failing calls); dependencies are index attributes (`Attr`: `master`,
`gre_link` and so on), each set or not: one that is not configured keeps its value in
the kernel (an attribute configured as empty, which resets it, is left out), and one whose link is missing is left out (a missing
`link` of a VLAN, which makes its creation fail, is not modelled); every link is
virtual and none ignored; everybody reads one configuration, so a reload changes
nothing but the worker; the daemon is atomic between notifications, as section 2 is
about its inside; routing and the parts of an interface do not decide about links.
Within a stage the links of the root namespace are the first and the others come in
any order. Every process orders the same configuration, so its result is computed once
(`pc`, `d`, `r` of `Stages`); the dictionaries of `OnlyResolved` are resolved only.

`Overlapping` is a constant: whether a replaced worker may still run when its
successor starts. It may, in the code; `FALSE` in run `apply` shows what holds if it
does not.

| Run | Instance | Shows |
| --- | --- | --- |
| `apply` | every dictionary over four links; a bridge with a port of `ifstate apply` and ports of two groups, one of them in another namespace and perhaps on top of the other group's; a group with a link for either state, with and without `ifstate apply`; links to be removed, on a circle, depending on a worker's link or of an unknown namespace; 2 notifications | the three of the stages; `ApplyTypeOK`; `ApplyTakesEffect`: what `ifstate apply` leaves behind whatever the workers do meanwhile, and that it ends early only for an unknown namespace; `GroupFollowsState`: when everybody is at rest a VRRP link is up exactly in its states, and complete, even if its group changed state before `ifstate apply` created what it depends on; `OnlyTheGroupsWorker`: a VRRP link is brought up by a worker of its group in one of its states and by no one else, and is never removed |
| `apply_overlap` | one group, one link for `master`, `Overlapping` | `GroupFollowsState` is violated: the replaced worker takes the older state after its successor took the newer one, and the link stays up in `backup` |

Two notifications are the fewest for a change of state, and let both groups have
one. One reload is the whole of `ifstate apply`; reloads on top of each other are
section 2. The state machine stops, so deadlock is not checked. Fairness is only
assumed of the resolver's loop; `AtRest` is a premise of `GroupFollowsState`, so that
none is needed there.

`GroupFollowsState` asks for a complete link only where its dependencies are
`Reliable`: its own group's, or those of `ifstate apply`. A link without VRRP settings
that depends on a VRRP link created later stays down until the next
`ifstate apply`, and so does a link of a group that depends on another group's until its next
change of state: nothing is applied again because something it depends on was created.

`Apply_proofs.tla` proves four properties for any links, namespaces, groups,
configurations and number of notifications: `ApplyTypeOK`, `ApplyTakesEffect`,
`OnlyTheGroupsWorker` and, under `~ Overlapping`, `GroupFollowsState`. They rest on three assumptions on the constants, which TLC evaluates:
`ProcessAssumption` (`ifstate apply` is no worker and no group, and `None` neither a group nor a state), `ApplyModesAssumption`
(the mode of `apply` is among `Modes`) and `ScenarioAssumption` (configurations and kernels
are well-formed, references of the kernel lead to links). The first three hold
whatever `Overlapping` is. Their inductive invariant `ApplyInv` consists of

* `IInv` of the stages: the resolver's steps are steps of `Stages`, so its theorems carry over;
* `KernelOK`, `ProcOK`, `Position`: types, and that nobody is past the stages there are. A
  process is at links of its current stage only once these are all resolved;
* `RegistryKnows`: the registry of `ifstate apply` misses only VRRP links, which workers
  created. Without it a link of its own could be one it tries to create a second time, and
  an orphan one it does not see;
* `Cleaned`, `Spaces`: what is gone stays gone, as workers create only links and
  namespaces of the configuration;
* `VisitedRight`, `AllVisited`: links it has been at are right and stay so. That they are
  complete needs `DependenciesFirst`: what such a link depends on was visited in an earlier
  stage, so it was there.

The steps of others are one lemma for all of them (`ByOthers`, `OthersKeep`): they leave the
position of `ifstate apply` alone and change only VRRP links.

`GroupFollowsState` has another inductive invariant next to this one, `GroupInv`, about
configurations whose namespaces are all known:

* `Succession`: the second worker of a group takes nothing until the first has ended its
  work (this is where `~ Overlapping` is used; run `apply_overlap` shows that it is needed);
* `Latest`: the last state of a group is the last item of its current worker's queue, or what
  that worker took last;
* `Applying`: an idle worker that took a state has been through all stages;
* `Knows`: at its links, a worker knows those of its group that exist, and has none of them on its
  list to set down that the state it took wants up;
* `Right`: the links that the last worker of a group has been at (`Reached`) are as the state it took
  wants them, and complete where their dependencies are `Reliable`. A link stays so
  while others work because only workers of its group configure it; that it is complete needs
  `DependenciesFirst` for dependencies of its own group, and `AllVisited` for those of
  `ifstate apply`, which has returned when the second worker starts.

At rest these give the property.

## 5. Links

`Links.tla` is one `ifstate apply` on the links of a host, again and again:
inventory, clean-up of orphans, then `Link.apply` of each configured link in an
order `Stages` allows. `MCLinks.tla` holds the instances. Every call to the
kernel is a step, may fail (the third component of a `Scenario` says how often),
and the process may be killed before any of them (`Abort`); the next run starts
from what was left.

| Code | Model |
| --- | --- |
| the kernel's links | `kernel`: index, namespace, name, kind, hardware identity (bus address or permanent address), one further attribute, up, master, veth peer |
| `/run/libifstate/.../bind/<idx>.mount` | `bindfile` |
| `LinkRegistry.registry` | `registry`; `item.netns` is `ns`, `item.attributes['netns']` is `oldns`, `item.link` is `claimed`; an item that the clean-up takes out of the list stays in its place as `removed` |
| `Link.__init__`: `link_registry_search_args` | `Search`, `Claimed` |
| `_apply`: orphans, `free_registry_item` | `KeepItem`, `RemoveOrphan`, `ShutdownOrphan`, `CleanUpDone` |
| `Link.apply` | `BeginLink` with `AfterLookUp`, `MoveLink` (`update_netns`), `ClearName` |
| `update` | `Compare` (a veth peer is looked up in `bind_netns`, and one that is not there ends the run: `PeerIsElsewhere`), `ShutDown`, `SetLink`, `SetState`, `Updated` |
| `recreate`, `create` | `DeleteLink`, `AddLink`, `AddFails`, `MoveIn`, `RenameIn`, `SetBindState`, `SetMaster`, `NewState` |
| `VethLink`, `PhysicalLink` | `AddPeer`, `CannotCreate`, the veth cases of `LinkDiffers` and `SetBindState` |
| `excpts` | `cur.errs`: the only thing `apply` asks of it |

A kind in `FixedAttrKinds` has an attribute the kernel only takes when the link
is created, which is what makes the code recreate a link. A physical link may
not have a hardware identity (`lo`). Interface indices are given globally
instead of per namespace; random names are unique. Not modelled: ethtool,
altnames, bridge ports, `link` and the other index attributes besides `master`,
links of other namespaces as masters, and `do_apply = False`; VRRP, concurrent runs and the
creation of namespaces are those of `Apply`. `MaxIdx` bounds created links; no state of the passing runs
reaches it (12).

The initial states are the elements of `Scenario`: a configuration, the kernel's
links beforehand, and how many calls may fail. `MaxRuns` is 2: one run from
anything and one from what it left. Run `links` has three kinds of scenario:

* virtual links: a bond, a port of the bond, a tunnel bound to another namespace;
  60 sets of kernel links (each missing, right, different, down, in another
  namespace or its name taken); 2 failures;
* physical links: two known by hardware, one by name (or missing), `lo`;
  every placement under two names in two namespaces, something in the way or not,
  114 sets; 1 failure;
* both ends of a veth link in two namespaces, not there before; no failures.

| Run | Instance | Shows |
| --- | --- | --- |
| `links` | 176 scenarios | `TypeOK`; `RunTakesEffect`: a run in which no call fails leaves every configured link as configured (but `Lost` ones, see below), also after a run that failed anywhere; `OrphansGone`: and no other virtual link, and no other physical link up; `Idempotent`: once everything is right a run replaces nothing and undoes nothing, not even for a moment |

Two failures are needed for a call that fails and a clean-up of it that fails
too. The veth scenario has none, as a failure there can leave a link without a
bind file. `RunTakesEffect` does not hold of two configurations that the run
leaves out, and that have no run of their own:

* both ends of a veth link that was there, without bind files. The first end is
  recreated, and its peer with it; the peer's old registry item stays first in
  the registry, is found in place of the new one, and the peer is left down;
* two tunnels of one name in two namespaces, one of them bound to the namespace
  of the other, which `Regular` excludes. `update_netns` leaves `attributes['netns']` as it was, so the
  second link takes the first one's item and moves it away.

And it excepts one link (`Lost`), which the physical scenario reaches: a link that was in the
way of another one, and is itself configured in another namespace. It was renamed to `e0!`
(`link/base.py:515`), which the registry does not know; after the move `update_netns` looks
it up under its old name (`netns/__init__.py:302`), does not find it, and `apply` goes on as
for a missing link: the physical link stays down under that name, and no error is recorded. The
next run finds it by its hardware and puts it right.

If only one end of a veth link is configured, the other one is an orphan, and
every run removes the link with it. What follows depends on the namespace of the configured
end, whose index is gone then (`AfterLookUp`): in any other than the root namespace `get_link`
returns nothing and the link is created again, unless its bind file was missing already and
it is recreated anyway. In the root namespace the handler of `get_link`
names `netlinkerror_classes`, which is not defined there (`util.py:192`): a `NameError` ends the run, and
the next one creates the link. No scenario has it.

### What is proved

`Links_proofs.tla` proves `TypeCorrect`: `Spec => []TypeOK`, for any links, namespaces and
scenarios, and any number of runs, of failing calls and of created links. That names are
unique in a namespace and indices anywhere is what the kernel enforces, so no call of the
model may be one that the kernel refuses; that a call is made on a link that is there is what could go wrong
in the code, which gets indices from a registry that is as old as the run.

`ConstantsAssumption` says which values are told apart. `ScenarioAssumption` is what the proof needs
of a configuration and of the kernel beforehand:

* `Coherent`: the kernel has a name once in a namespace, an index once and a hardware
  identity once; a name that a killed run made up carries the index of the link that has it;
* `Regular`: a name is configured once in a namespace, and a hardware identity once. A veth
  link and its peer do not have one name in one namespace, and
  no tunnel or veth link is bound to a namespace that has another one of its kind and name
  (see above);
* `Recognisable`: a physical link that is configured by its name, or by a hardware identity that is not
  there, shares the name with no other configured physical link, and does not have the name that a link
  configured by its hardware has beforehand. Two configured links would be about one link of
  the kernel; which of them wins depends on their order.

The inductive invariant `IInv` relates the registry to the kernel. Of every item, `ItemOK` says:

* its index is not one that will be given later, and if the kernel has a link of this index, it is of the item's
  kind and hardware: so the index of a link that was removed finds nothing, never something else;
* if the item is physical, its link is in the kernel. The exception are items whose link could not be
  looked up after a move (`Lost`): each was found for a configured link that the run has
  been at, and no later one finds it (`FoundByOne`);
* if the item is virtual and its `ns` is not its `oldns`, it was created in this run in a `bind_netns`:
  looked up by its old namespace it would be in the way of another one, which `Regular` excludes;
* hardware configured for one link does not have a name another one is known by.

`CurOK` follows the link that is applied through `Link.apply`: where it is, what its item is,
and which of its facts the next call relies on. `Kept` is what every step leaves of the kernel's
links: kind and hardware of an index stay, no physical link comes or goes. `RegistryStep` concludes that an
item that is not touched stays right (`ItemKept`), so each action has only its own item to prove.

`OrphansGoneHolds` proves `OrphansGone`: a run in which no call fails leaves no virtual link that
is neither configured nor ignored nor a peer, and no such physical link up. It says this of any
kernel a scenario or earlier runs leave. Its invariant, `OrphanInv`, holds of a run in which no call
has failed so far and stands on `IInv`:

* every link of the kernel is `Explained`: it is permitted; or the clean-up has not come to
  its item yet, which is an orphan (`ToCleanUp`); or it is physical and up, and will be found for a configured
  link that has not been applied yet (`ToCome`); or it is the link at hand (`InHand`), which is permitted
  once it has its name and namespace. `ToCome` is why the clean-up may leave a link alone: `Search` claimed it
  when the run began, and `Sees` says what has to stay true for `Search` to find it again (`SeesKept`,
  `SearchSees`), although links move and are renamed in between;
* the items of configured virtual links have the name and namespace of their links until they are
  applied (`KnownRight`), so `Compare` and `SetLink` of another link never turn a permitted link into
  one that is not;
* the link at hand has its name after each step that gives it one (`CurNamed`), and a run that is done
  has been at every configured link (`AllCome`).

A call that the kernel refuses since a name is taken (`Refused`) counts as one that failed, as it does in
`excpts`. The runs lose nothing by it: TLC finds no run of the
instance of `links` in which a call is refused and none failed before.
`ConstantsAssumption` has `IgnoredName` within `Name`: an ignored link that is in the way of a configured one
is renamed to `n!`, and the property permits that name, too.

`RunTakesEffectHolds` proves `Plain => RunTakesEffect`: a run in which no call fails leaves every configured link
that can be there as it is configured, or `Lost`. `Plain` restricts the configuration, not the kernel: it has
no veth link (which can break it, see above), and every master is a configured link that is not physical.
The virtual and the physical scenarios of run `links` are `Plain`; that the property holds of its veth
scenarios, and of masters that are not configured, is only model-checked or not checked. The invariant,
`EffectInv`, stands on `IInv` and `OrphanInv` and says of a run in which no call has failed so far:

* what the run is done with is right or lost (`DoneRight`), and stays so. The other links a step changes are
  those of the configured name (`ClearName`), which is the name of one configured link only, and the ports of
  a link that is removed, which lose their master. So a port must not be done before its master is: `Orders` gives
  that (`MastersFirst`), and the index that was read of the master in `BeginLink` stays right (`MasterKept`)
  until the run is over;
* a physical link is where its item says, and has the name of its item unless it was given the one that is configured for
  it (`Tracked`), and has one item (`Unique`). The registry is not told of every change of a name
  (`SetLink`, `ClearName`), so this is what the look-up of the links after it relies on;
* a physical link that is configured by its name and was seen under it is looked for where it is, or the clean-up marked it
  as an orphan, for which `Search` looks everywhere (`Findable`). The exceptions, ignored names and namespaces that are
  not managed, are exceptions of `Creatable` as well: `Search` does not find such a link in
  another namespace than its own, and the run leaves the configured one out;
* the link at hand is as far as its next call assumes (`CurState`, `CurPhysical`, `CurLink`): which of name, namespace,
  attribute and master are right already, that no other link has the name when it is
  set, and that an update that the kernel did not take leads to a link that is recreated, if it is virtual.

The proof asks of `ConstantsAssumption` that the attribute of a physical link can be changed
(`"physical" \notin FixedAttrKinds`): a physical link is not recreated, and the code could not get it right.

TLC checked `IInv` on the instance of run `links`, and `OrphanInv` and `EffectInv` on it and on a second one, before
they were proved. `Idempotent` is only model-checked: a proof would follow a run from a kernel in which
everything is right and show of each look-up, comparison and call of it that it finds nothing to do, which needs
an invariant of its own beside these.

## 6. The parts of an interface

`Parts.tla` is what an apply does to one interface besides the link, in the order of
`_apply` and `_apply_iface`: `BPF.apply` (once per run, before the links), the sysctl
settings (`Link.apply` calls `Sysctl.apply`), `TC.apply`, `XDP.apply`,
`Addresses.apply`, `FDB.apply` for a VXLAN link, `Neighbours.apply` and
`WireGuard.apply`. It composes `Interface.tla` (sysctl, and everything from the
addresses on), `Tc.tla` and `Xdp.tla` (BPF and XDP) by what each does in its turn
(`LoadBpf`, `ApplySysctl`, `ApplyTc`, `ApplyXdp` and so on); `left`, the failures that may still
come, and `failed` are shared. `MCInterface.tla` holds the instances. Each call to the kernel is a step, may fail (it is logged, and the loop goes
on), and the process may be killed before it; the next run starts from what was
left.

| Code | Model |
| --- | --- |
| `changes = changes or self.set_sysctl(...)` | `Examined`, `SkipSetting`, `SetSysctl` |
| `ipr_addr`, then `ipr_entries`, `ipr_neigh`, `state.peers` | `dump` |
| `addr_renew`; `addr_add`, then `neigh_add` | `renew`; `add` |
| loop over the configured addresses | `BeginAddresses`, `ExamineAddress` |
| deletion and addition of addresses | `Superfluous`, `DeleteAddress`, `AddAddress` |
| `get_kernel_fdb`, `default_state` | `StaticFdb`, `WithDefault` |
| append, second dump, deletion of forwarding entries | `AppendFdb`, `DeleteFdb`, `DeleteFdbEntry` |
| neighbours | `BeginNeighbours`, `DeleteNeighbour`, `SetNeighbour` |
| `get_interface`, `set_interface` | `BeginWireGuard` (a state that cannot be read ends it), `SetInterface` |
| comparison of a peer, setting by setting | `AsWished` |
| `safe_set_peer`; `remove_peers` | `SetPeer`, whose third case is an endpoint that cannot be resolved; `RemovePeers`, `RemovePeer`; without the key `peers` (`withpeers`) no peer is compared, set or removed |

The kernel (`Added`, `Removed`, `Appended`, `PeersWith`, the effects of the
neighbour calls) is modelled from its netlink semantics: an IPv4 address in the network of
another one is secondary, and goes with its primary or is promoted; an IPv6
address is there once whatever its prefix length; an append makes a further
entry for a multicast or the zero address only; an allowed IP belongs to one
WireGuard peer, and setting a peer takes it from another. Ports, VNIs and flags of
forwarding entries are part of `Dst`; `Option` is the endpoint of a peer and stands
for the settings of its interface. Every run is a process of its own that reads the
configuration again, so an endpoint that was deleted from it is back in the next
run; the worker of vrrp-fifo that keeps the configuration is not modelled here.
Addresses, neighbours and forwarding entries are configured, possibly with an empty
list (the `clear_*` defaults that would add such a list are not read, see section 7). No kernel address changes between the
steps of a run, but anything may have happened before the first.

Traffic control, XDP and BPF:

| Code | Model |
| --- | --- |
| `apply_ingress` | `LeaveIngress`, `ApplyIngress` |
| `apply_qtree` of the root qdisc | `LeaveQdisc`, `ClearQdisc`, `ChangeQdisc` (same kind and handle), `DeleteQdisc`, `AddQdisc` (`recreate`) |
| priorities, `tc_filters` | `Prio`, `TcFilters`: the last of those with one parent and priority |
| the loop over the kernel's filters | `DumpFilters`, `Referenced`, `DeleteFilters` |
| the loop over the wanted ones | `ReplaceFilter`, `DeleteOldFilter`, `AddFilter`, `RefuseFilter`: `replace-filter` of one that is there fails with EEXIST, which makes the code delete it first |
| `BPF.apply` | `OpenPin`, `LoadObject`, `UnlinkPin`, `Pin`, `RemoveMaps`, `PinMaps` |
| `XDP.apply` | `SkipXdp`, `RaiseXdp` (`xdp: false`), `CompareXdp`, `SetXdp`, `DetachXdp`, `SetXdpAgain` |

The kernel's side of it: with a qdisc go its filters; a filter without a parent is one
of the root qdisc; a native program needs a driver that runs one; one mode of
attachment excludes the other. In `CompareXdp` the attached program's tag, the pinned object and
its tag are read, each of which may fail: a tag that cannot be read equals no other, and
the program is set again. What cannot be read of a pin in `BPF.apply` counts there
as a pin that cannot be opened (`OpenPin`). `QOption` is all of `TCA_OPTIONS`, `Rule` what a filter
matches and does, a program is known by its tag.

The initial states are the elements of `Setup`, each of them one of `Scenario` for the
parts in `Interface` and one configuration and kernel state of the others:

* IPv4: any addresses out of three in each of two networks, primary or
  secondary, or a single dynamic one;
* IPv6: a link-local and a host address, each missing, or with either prefix
  length, dynamic or not, with failed duplicate detection or without; the
  link-local one is in the ignore list;
* forwarding entries of the zero address with two destinations, of a configured
  and a foreign unicast address, in each state, and the link's own entry;
* neighbours: two configured ones and a foreign one, each missing, right,
  different, or learned;
* WireGuard: a list of peers, or settings without one; any of three peers, one of them not configured; each of the two
  configured subnets with any of them or with none; one endpoint and the key of the
  interface right or not;
* one entry of each part and two settings, for the composition;
* traffic control: an ingress qdisc wanted, not wanted or not spoken of; a root qdisc with
  other options, of another kind, or to be removed; filters with and without parent and
  priority, and none; with each of them several qdiscs and filters in the kernel;
* XDP: a program from BPF or a pinned one, in each mode, in a run of `ifstate apply` or of a
  worker, over drivers with and without native XDP, with each program attached in
  each mode; pins and maps of the same or another program, or of none; `xdp: false`.

| Run | Instance | Shows |
| --- | --- | --- |
| `interface` | 3586 scenarios, two runs, up to two failures | `PartsTypeOK` (with `TypeOK`; filters have a qdisc, and no two one place); `PartsTakeEffect`: a run in which no call fails leaves qdiscs, filters, XDP program and pin as configured, whatever an earlier run that failed or was killed anywhere left; `PartsKeep`: a qdisc that is right but for its options is not deleted, with it stay the filters that are not configured, and an XDP program that is right is not detached; `RunTakesEffect`: a run in which no call fails leaves addresses, forwarding entries, neighbours and peers as configured, whatever was there before; `KeepsWhatIsRight`: no step, failing or not, takes away an entry that is right or none of the run's business, the allowed IPs of a peer included |
| `interface_sysctl` | two settings that both differ | `SettingsTakeEffect` is violated: `or` short-circuits, and after the first setting that changed the others are not examined in this run |

Three addresses are the fewest with a configured, a superfluous and a promoted
one in a network; two failures let the deletion and the addition of one entry
fail. The state machine stops at `MaxRuns`, so deadlock is not checked. No
fairness is assumed.

What the scenarios leave out, because the properties do not hold of it, is said by assumptions
on the constants that TLC evaluates and the proofs use: `Distinct` and `Regular` of
`ScenarioAssumption`, `TcDistinct` and `XdpDistinct` of `SetupAssumption`:

* with `promote_secondaries` off, a *configured* address that is secondary to a
  superfluous one was struck from the dump as right and disappears with its
  primary; it is missing after the run (`Separate`). If the deletion of the superfluous one fails, what
  is added next to it becomes secondary to it, and the same happens in the next run: without promotion
  the scenarios have no failing calls;
* one IP configured twice, with different prefix lengths: each is in the way of the other;
* an address of the ignore list that is not configured and whose duplicate detection failed: it is
  renewed, that is, deleted, and as it is not configured never added again;
* if the destination of a *unicast* forwarding entry changes, the kernel takes
  the append for a change of what is there and keeps the old destination, which
  is then deleted as an orphan: no entry is left until the next run. Likewise two configured entries of one
  unicast address, or of one address with different states; and a configured entry of the
  interface's own address, which the kernel has already;
* two configured entries for one neighbour or one WireGuard peer, or one allowed IP for two
  peers: the last one wins. A peer configured without allowed IPs that has one which is
  configured for another peer: whether it loses it depends on the order of the peers;
* a filter without a parent and one with the handle of the root qdisc, of one priority: they are two
  entries of `tc_filters` and one filter of the kernel;
* `xdp: {bpf: ...}` with a program that is not configured, or in an apply of a worker, which never
  loads programs (section 7): none is there to be attached;
* an XDP program that the driver runs generically while the configuration wants whatever is
  best: it is the same program, and never attached natively. `XdpRight` takes it for right.

### What is proved

`Interface_proofs.tla`, for every number of addresses, entries, peers, runs and failures:

* `TypeCorrect`: `Spec => []TypeOK`
* `RunTakesEffectHolds`: `Spec => []RunTakesEffect`
* `KeepsWhatIsRightHolds`: `Spec => KeepsWhatIsRight`

`Parts_proofs.tla`, for the composition, likewise for every number of filters:

* `PartsTypeCorrect`: `PartsSpec => []PartsTypeOK`
* `PartsTakeEffectHolds`: `PartsSpec => []PartsTakeEffect`
* `PartsKeepHolds`: `PartsSpec => PartsKeep`
* `RunTakesEffectInParts`, `KeepsWhatIsRightInParts`: the properties of `Interface` hold with the other parts
  beside it.

The assumptions are `ConstantsAssumption`, `ScenarioAssumption`, `PartsConstantsAssumption` and
`SetupAssumption`: what values of the constants are told apart, well-formed configurations and
kernels, and the exclusions above.

Both effects are about the end of a run, and what a step deletes was decided many steps before. So
the inductive invariant `IInv` says of every point of a run which of the lists the code keeps are still true:

* `Base`: types, and that configuration and kernel stay `Regular`: no call makes an excluded case;
* `Comparing`: what left the dump of addresses is configured and in the kernel, what is still on it and right
  will be met by the loop; what is to be added clashes only with what is renewed;
* `Changing`: nothing right is on the list of deletions (for `KeepsWhatIsRight`, also after failures); and if
  no call failed, what is wrong is on it, what is missing is on the other list, and what is in
  the way of an addition will be gone by then;
* `Appending`, `Clearing`: configured entries before the position are there, an append disturbs none that is
  right, and the second dump has no configured one;
* `Neighbouring`, `Peering`, `Removing`: the same for neighbours and peers. Setting a peer takes allowed
  IPs from others, never those of a peer that was set earlier in this run;
* for each part, that it is right once the run has left it, because later parts do not touch it.

`TcInv` says the same of the qdiscs before the filters (a qdisc that is to be added finds none, unless
something failed) and of the filters: at each position of the loop, `FiltersDone` says that a kernel's filter is that of an
earlier entry or one that a later entry names. That no entry undoes an earlier one is
`FiltersDiffer`: two entries never ask for one parent and priority, which needs `TcDistinct`. In `XdpInv` the program
to be set is not the one attached, and the configured one unless something failed, so that detaching it takes nothing right
away. `Order` says that all this is done when the addresses are begun. Each step of one part leaves the others' invariants
alone (`TcLeft`, `XdpLeft`, `IfaceLeft`, and `NextInv` of `Interface_proofs`).

TLC checked `IInv` and `PartsInv` as invariants of run `interface` before they were proved.

## 7. Not modelled

Reading the configuration. What is configured is a constant of every model. While
translating the rest we met this of the code that reads or prepares it, which no
property is about:

* `defaults`: `IfState._update` looks for them at the top of the configuration
  (`libifstate/__init__.py:106`), where the parser does not put them
  (`libifstate/parser/base.py:157-162` has them below `parameters`). They are never applied:
  no `clear_addresses` and so on, unless an interface has an (empty) list itself;
* `cshaper` of an interface is looked for in the interface's `parameters`
  (`libifstate/__init__.py:230`), which it does not have: a `KeyError`;
* `check` creates the namespaces it misses (`libifstate/__init__.py:135`); and a worker of
  vrrp-fifo creates a namespace again that was removed since it got its configuration,
  as copying it opens the namespaces. `Apply` has both.

Parts of the modelled files:

* routing: `do_apply = False`, multipath, more than one table at a time;
* links: ethtool, altnames, `link` and other index attributes, the attribute tables of
  further kinds, `bind_netns` among the attributes of a link (`netns/__init__.py:301`),
  and indices that are only unique in their namespace (`link/base.py:626`: an index is
  taken from an item of another namespace);
* TC: the children of a qdisc, since `apply_qtree` calls itself with one argument too few
  (`tc/__init__.py:162-163`) and never gets to them; actions, of which `mirred` compares
  with the interface's own index (221). A filter configured without parent is never found in the
  dump, so that every run deletes it and adds it again: `PartsKeep` is about filters
  that are not configured;
* XDP: offloaded programs; `xdp: false` raises an `AttributeError`
  (`xdp/__init__.py:108`) instead of removing the program. `RaiseInXdp` is the end of
  such a run; the properties are about runs that get to their end;
* BPF: the sections of an object (a loop that does not end if none has the name,
  `bpf/__init__.py:117`) and the contents of maps (`bpf/map.py`). Three things follow from
  `Xdp` and are no property of it: a run killed between pinning the program and its maps
  leaves these unpinned, as the next one finds the program right; an object that does not load and
  has no pin means that the program that runs is detached; a worker never loads
  programs, so that `bpf` of a VRRP link never attaches one, and detaches the one that is there;
* bridge ports: `apply` sets the options that differ in one call. `depends` reads an attribute
  that does not exist (`brport/__init__.py:35`), so that a `backup_port` ends the run;
* the daemon: workers inherit `SIG_IGN` for SIGTERM (`ifstate/vrrp.py:81`), so that at the
  end of the FIFO the exit handler waits for workers nobody told to stop. `JoinChildren` is
  the wait; there is nothing after it a property could be about.

Not modelled at all: schema validation and the include and merge of the parser (a
function of its input), `show`, the shell and logging (output only), the texts of the exception
collector.

## 8. Plan

Done: `VrrpFifo` with the refinement of `VrrpService`, `Routing`, `Rules`, `Stages` and `Apply`, `Parts`
with `Interface`, `Tc` and `Xdp`, and `Links`, with proofs of every invariant their passing runs check
(of `RunTakesEffect` of `Links`: for configurations that are `Plain`).

Next are a proof of `Idempotent` of `Links`, and one of `RunTakesEffect` with veth links whose bind files are there.

Then, as far as it is more than a function of its input, the merge of the defaults and
the bridge ports.

What stays with TLC: liveness, since the prover cannot reason about fairness
of concrete programs here, and everything over recursive data.
