------------------------------ MODULE VrrpFifo ------------------------------
(***************************************************************************)
(* The vrrp-fifo daemon (ifstate/vrrp.py, ifstate/ifstate.py): keepalived  *)
(* writes state changes into a FIFO, the main thread reads them and hands  *)
(* each to the worker process of its VRRP group or instance, and a SIGHUP  *)
(* sent by `ifstate apply' makes it reload the configuration and replace   *)
(* every worker.                                                           *)
(*                                                                         *)
(* CPython runs a signal handler in the main thread, between two bytecodes *)
(* of whatever that thread is executing, another run of the same handler   *)
(* included.  The main thread is therefore a stack of frames: stack[1] is  *)
(* vrrp_fifo itself, every frame above it an activation of sighup_handler, *)
(* and only the topmost frame runs.                                        *)
(***************************************************************************)
EXTENDS Naturals, Sequences

CONSTANTS
  Key,            \* (vrrp_type, vrrp_name) pairs: the groups and instances
  State,          \* VRRP states keepalived reports
  Proc,           \* VrrpFifoProcess objects that may be created
  None,           \* Python's None: also the "stop" item in a worker's queue
  Broken,         \* versions of the configuration file that do not load
  Interruptible,  \* program points at which the SIGHUP handler may start
  MaxVersion,     \* bound: edits of the configuration file
  MaxLines,       \* bound: lines keepalived writes
  MaxApplies,     \* bound: runs of `ifstate apply'
  MaxDepth        \* bound: frames on the main thread's stack

ASSUME NoneAssumption == None \notin Key \cup State \cup Proc
ASSUME BoundsAssumption ==
  MaxVersion \in Nat /\ MaxLines \in Nat /\ MaxApplies \in Nat /\ MaxDepth \in Nat

VARIABLES
  file,       \* version of the configuration file on disk
  ifstate,    \* VrrpStates.ifstate: version of the configuration in use
  processes,  \* VrrpStates.processes, None where the key is missing
  states,     \* VrrpStates.states, None where the key is missing
  stack,      \* frames of the main thread
  worker,     \* the VrrpFifoProcess objects and their processes
  kernel,     \* what the last finished apply of a key configured
  hup,        \* a SIGHUP is pending (signals of one number do not queue)
  pidfile,    \* /run/libifstate/vrrp/<pid>.pid exists
  cli,        \* the `ifstate apply' command
  lines       \* number of FIFO lines read so far

daemon == <<ifstate, processes, states, stack>>
world  == <<file, cli, lines>>
vars   == <<daemon, worker, kernel, hup, pidfile, world>>

(***************************************************************************)
(* Program points.  A call `self.processes[key].f(x)' is a lookup followed *)
(* by the call; the arguments of VrrpFifoProcess are read before it is     *)
(* constructed and stored; Queue.put takes the queue's lock (a plain       *)
(* threading.Lock) before it appends.                                      *)
(***************************************************************************)
LookUps  == {"getstart", "getpill", "getupdate"}
PutLocks == {"lockpill", "lockupdate"}
Puts     == {"putpill", "putupdate"}
CallPC   == LookUps \cup PutLocks \cup Puts \cup {"getconf", "create", "start"}

MainPC == (CallPC \ {"getpill", "lockpill", "putpill"}) \cup
                      {"boot", "install", "writepid", "readline", "setstate",
                       "removepid", "join", "exited", "killed"}
HandlerPC == CallPC \cup {"load", "callback", "next"}
PC == MainPC \cup HandlerPC

Frame == [pc    : PC,
          key   : Key \cup {None},
          state : State \cup {None},   \* main: vrrp_state of the line
          conf  : Nat,                 \* handler: the configuration it loaded,
                                       \* main: the one for the process it creates
          proc  : Proc \cup {None},    \* object the current call is made on
          todo  : SUBSET Key]          \* handler: keys the loop has left

NewFrame(pc) == [pc |-> pc, key |-> None, state |-> None, conf |-> 0,
                 proc |-> None, todo |-> {}]

WorkerRecord == [key   : Key \cup {None},
                 conf  : Nat,
                 phase : {"free", "new", "idle", "busy", "done", "dead"},
                 queue : Seq(State \cup {None}),
                 state : State \cup {None}]   \* local vrrp_state of the worker

top    == stack[Len(stack)]
IsMain == Len(stack) = 1

SetTop(f) == stack' = [stack EXCEPT ![Len(stack)] = f]
Goto(pc)  == SetTop([top EXCEPT !.pc = pc])
\* sighup_handler returns, also when it swallowed an exception
Return    == stack' = SubSeq(stack, 1, Len(stack) - 1)
\* an exception ends the handler, or the FIFO loop through its finally clause
Raise     == IF IsMain THEN Goto("removepid") ELSE Return

Alive == stack[1].pc \notin {"exited", "killed"}

Init ==
  /\ file = 0
  /\ ifstate = 0
  /\ processes = [k \in Key |-> None]
  /\ states = [k \in Key |-> None]
  /\ stack = <<NewFrame("boot")>>
  /\ worker = [p \in Proc |-> [key |-> None, conf |-> 0, phase |-> "free",
                               queue |-> <<>>, state |-> None]]
  /\ kernel = [k \in Key |-> [conf |-> 0, state |-> None]]
  /\ hup = FALSE
  /\ pidfile = FALSE
  /\ cli = [pc |-> "idle", runs |-> 0]
  /\ lines = 0

-----------------------------------------------------------------------------
(* The main thread: start-up, FIFO loop and exit                           *)

\* (mutant of Boot: the pid file is written first)
BootAfterPidFile ==
  /\ top.pc = "boot"
  /\ IF file \in Broken
       THEN Goto("exited") /\ UNCHANGED ifstate
       ELSE Goto("install") /\ ifstate' = file
  /\ pidfile' = TRUE
  /\ UNCHANGED <<processes, states, worker, kernel, hup, world>>

\* IfsConfigHandler.__init__: a configuration that does not load ends the program
Boot ==
  /\ top.pc = "boot"
  /\ IF file \in Broken
       THEN Goto("exited") /\ UNCHANGED ifstate
       ELSE Goto("install") /\ ifstate' = file
  /\ UNCHANGED <<processes, states, worker, kernel, hup, pidfile, world>>

\* VrrpStates is created, the callback and the signal handlers are set
InstallHandler ==
  /\ top.pc = "install"
  /\ Goto("writepid")
  /\ UNCHANGED <<ifstate, processes, states, worker, kernel, hup, pidfile, world>>

\* an IOError is logged and the daemon goes on without its pid file
WritePidFile ==
  /\ top.pc = "writepid"
  /\ Goto("readline")
  /\ pidfile' \in BOOLEAN
  /\ UNCHANGED <<ifstate, processes, states, worker, kernel, hup, world>>

\* a line that matches status_pattern; any other line changes nothing
ReadLine(k, s) ==
  /\ top.pc = "readline"
  /\ lines < MaxLines
  /\ lines' = lines + 1
  /\ SetTop([top EXCEPT !.pc = IF processes[k] = None THEN "getconf" ELSE "setstate",
                        !.key = k, !.state = s])
  /\ UNCHANGED <<ifstate, processes, states, worker, kernel, hup, pidfile, file, cli>>

\* keepalived closed the FIFO
EndOfFile ==
  /\ top.pc = "readline"
  /\ Goto("removepid")
  /\ UNCHANGED <<ifstate, processes, states, worker, kernel, hup, pidfile, world>>

RemovePidFile ==
  /\ top.pc = "removepid"
  /\ Goto("join")
  /\ pidfile' = FALSE
  /\ UNCHANGED <<ifstate, processes, states, worker, kernel, hup, world>>

\* multiprocessing's exit handler sends SIGTERM to the daemonic children,
\* which they inherited as ignored, and then joins them
JoinChildren ==
  /\ top.pc = "join"
  /\ \A p \in Proc : worker[p].phase \notin {"idle", "busy"}
  /\ Goto("exited")
  /\ UNCHANGED <<ifstate, processes, states, worker, kernel, hup, pidfile, world>>

SetState ==
  /\ top.pc = "setstate"
  /\ states' = [states EXCEPT ![top.key] = top.state]
  /\ Goto("getupdate")
  /\ UNCHANGED <<ifstate, processes, worker, kernel, hup, pidfile, world>>

-----------------------------------------------------------------------------
(* Calls that VrrpStates.update and VrrpStates.reconfigure share           *)

\* the argument of the new object: the main thread's self.ifstate, or the
\* ifstate that reconfigure was called with
GetConf ==
  /\ top.pc = "getconf"
  /\ SetTop([top EXCEPT !.pc = "create", !.conf = IF IsMain THEN ifstate ELSE @])
  /\ UNCHANGED <<ifstate, processes, states, worker, kernel, hup, pidfile, world>>

\* the constructor, whose object nobody else has yet, and the store that makes
\* it the one of the key
CreateProcess(p) ==
  /\ top.pc = "create"
  /\ worker[p].phase = "free"
  /\ worker' = [worker EXCEPT ![p] =
       [key |-> top.key, conf |-> top.conf, phase |-> "new", queue |-> <<>>, state |-> None]]
  /\ processes' = [processes EXCEPT ![top.key] = p]
  /\ Goto("getstart")
  /\ UNCHANGED <<ifstate, states, kernel, hup, pidfile, world>>

AfterLookUp(pc) == CASE pc = "getstart"  -> "start"
                     [] pc = "getpill"   -> "lockpill"
                     [] pc = "getupdate" -> "lockupdate"

LookUp ==
  /\ top.pc \in LookUps
  /\ SetTop([top EXCEPT !.pc = AfterLookUp(top.pc), !.proc = processes[top.key]])
  /\ UNCHANGED <<ifstate, processes, states, worker, kernel, hup, pidfile, world>>

\* Process.start asserts that the object was not started before
StartProcess ==
  /\ top.pc = "start"
  /\ IF worker[top.proc].phase = "new"
       THEN /\ worker' = [worker EXCEPT ![top.proc].phase = "idle"]
            /\ Goto(IF IsMain THEN "setstate" ELSE "getupdate")
       ELSE /\ UNCHANGED worker
            /\ Raise
  /\ UNCHANGED <<ifstate, processes, states, kernel, hup, pidfile, world>>

\* the lock of p's queue is held by a frame that is inside Queue.put
QueueLocked(p) == \E i \in 1 .. Len(stack) : stack[i].pc \in Puts /\ stack[i].proc = p

LockQueue ==
  /\ top.pc \in PutLocks
  /\ ~ QueueLocked(top.proc)
  /\ Goto(IF top.pc = "lockpill" THEN "putpill" ELSE "putupdate")
  /\ UNCHANGED <<ifstate, processes, states, worker, kernel, hup, pidfile, world>>

\* vrrp_update(None)
PutPill ==
  /\ top.pc = "putpill"
  /\ worker' = [worker EXCEPT ![top.proc].queue = Append(@, None)]
  /\ Goto("getconf")
  /\ UNCHANGED <<ifstate, processes, states, kernel, hup, pidfile, world>>

\* (mutant of PutUpdate: reconfigure hands over the state of the line last read)
PutUpdateOfLine ==
  /\ top.pc = "putupdate"
  /\ worker' = [worker EXCEPT ![top.proc].queue = Append(@, stack[1].state)]
  /\ Goto(IF IsMain THEN "readline" ELSE "next")
  /\ UNCHANGED <<ifstate, processes, states, kernel, hup, pidfile, world>>

\* vrrp_update(vrrp_state) in update, vrrp_update(self.states[key]) in reconfigure
PutUpdate ==
  /\ top.pc = "putupdate"
  /\ worker' = [worker EXCEPT ![top.proc].queue =
                  Append(@, IF IsMain THEN top.state ELSE states[top.key])]
  /\ Goto(IF IsMain THEN "readline" ELSE "next")
  /\ UNCHANGED <<ifstate, processes, states, kernel, hup, pidfile, world>>

-----------------------------------------------------------------------------
(* sighup_handler and VrrpStates.reconfigure                               *)

\* a pending SIGHUP starts the handler on top of the interrupted frame; before
\* the handler is set, the signal has its default action
Sighup ==
  /\ hup
  /\ hup' = FALSE
  /\ IF top.pc \in {"boot", "install"}
       THEN Goto("killed")
       ELSE /\ Len(stack) < MaxDepth
            /\ top.pc \in Interruptible \ {"exited", "killed"}
            /\ stack' = Append(stack, NewFrame("load"))
  /\ UNCHANGED <<ifstate, processes, states, worker, kernel, pidfile, world>>

\* (mutant of LoadConfig: an error is logged and None returned)
LoadConfigOrNone ==
  /\ top.pc = "load"
  /\ SetTop([top EXCEPT !.pc = "callback", !.conf = IF file \in Broken THEN None ELSE file])
  /\ UNCHANGED <<ifstate, processes, states, worker, kernel, hup, pidfile, world>>

\* (mutant of LoadConfig: an error makes it fall back to the first version)
LoadConfigOrFirst ==
  /\ top.pc = "load"
  /\ SetTop([top EXCEPT !.pc = "callback", !.conf = IF file \in Broken THEN 0 ELSE file])
  /\ UNCHANGED <<ifstate, processes, states, worker, kernel, hup, pidfile, world>>

LoadConfig ==
  /\ top.pc = "load"
  /\ IF file \in Broken
       THEN Return
       ELSE SetTop([top EXCEPT !.pc = "callback", !.conf = file])
  /\ UNCHANGED <<ifstate, processes, states, worker, kernel, hup, pidfile, world>>

\* (mutant of Callback: the loop runs over self.processes)
CallbackOverProcesses ==
  /\ top.pc = "callback"
  /\ ifstate' = top.conf
  /\ SetTop([top EXCEPT !.pc = "next", !.todo = {k \in Key : processes[k] # None}])
  /\ UNCHANGED <<processes, states, worker, kernel, hup, pidfile, world>>

\* (mutant of Callback: self.ifstate is not updated)
CallbackKeepsConfig ==
  /\ top.pc = "callback"
  /\ SetTop([top EXCEPT !.pc = "next", !.todo = {k \in Key : states[k] # None}])
  /\ UNCHANGED <<ifstate, processes, states, worker, kernel, hup, pidfile, world>>

\* reconfigure stores the configuration and starts its loop over self.states
Callback ==
  /\ top.pc = "callback"
  /\ ifstate' = top.conf
  /\ SetTop([top EXCEPT !.pc = "next", !.todo = {k \in Key : states[k] # None}])
  /\ UNCHANGED <<processes, states, worker, kernel, hup, pidfile, world>>

\* (mutant of NextKey: the old worker is not told to stop)
NextKeyWithoutPill ==
  /\ top.pc = "next"
  /\ \/ top.todo = {} /\ Return
     \/ \E k \in top.todo :
          SetTop([top EXCEPT !.pc = "getconf", !.key = k, !.todo = @ \ {k}])
  /\ UNCHANGED <<ifstate, processes, states, worker, kernel, hup, pidfile, world>>

\* (mutant of NextKey: the old worker is joined before it is told to stop)
NextKeyJoinFirst ==
  /\ top.pc = "next"
  /\ \/ top.todo = {} /\ Return
     \/ \E k \in top.todo :
          /\ worker[processes[k]].phase \in {"done", "dead"}
          /\ SetTop([top EXCEPT !.pc = "getpill", !.key = k, !.todo = @ \ {k}])
  /\ UNCHANGED <<ifstate, processes, states, worker, kernel, hup, pidfile, world>>

NextKey ==
  /\ top.pc = "next"
  /\ \/ top.todo = {} /\ Return
     \/ \E k \in top.todo :
          SetTop([top EXCEPT !.pc = "getpill", !.key = k, !.todo = @ \ {k}])
  /\ UNCHANGED <<ifstate, processes, states, worker, kernel, hup, pidfile, world>>

-----------------------------------------------------------------------------
(* The worker processes                                                    *)

\* queue.get(); None ends the worker
WorkerGet(p) ==
  /\ worker[p].phase = "idle"
  /\ worker[p].queue # <<>>
  /\ worker' = [worker EXCEPT
       ![p].phase = IF Head(worker[p].queue) = None THEN "done" ELSE "busy",
       ![p].state = Head(worker[p].queue),
       ![p].queue = Tail(@)]
  /\ UNCHANGED <<daemon, kernel, hup, pidfile, world>>

\* (mutant of WorkerApply: the worker returns after its first apply)
WorkerApplyOnce(p) ==
  /\ worker[p].phase = "busy"
  /\ worker' = [worker EXCEPT ![p].phase = "done"]
  /\ kernel' = [kernel EXCEPT ![worker[p].key] =
                  [conf |-> worker[p].conf, state |-> worker[p].state]]
  /\ UNCHANGED <<daemon, hup, pidfile, world>>

\* deepcopy(self.ifstate).apply(vrrp_type, vrrp_name, vrrp_state) returns
WorkerApply(p) ==
  /\ worker[p].phase = "busy"
  /\ worker' = [worker EXCEPT ![p].phase = "idle"]
  /\ kernel' = [kernel EXCEPT ![worker[p].key] =
                  [conf |-> worker[p].conf, state |-> worker[p].state]]
  /\ UNCHANGED <<daemon, hup, pidfile, world>>

\* apply raises: nothing catches it in vrrp_worker
WorkerDie(p) ==
  /\ worker[p].phase = "busy"
  /\ worker' = [worker EXCEPT ![p].phase = "dead"]
  /\ UNCHANGED <<daemon, kernel, hup, pidfile, world>>

-----------------------------------------------------------------------------
(* The administrator and `ifstate apply'                                   *)

EditFile ==
  /\ file < MaxVersion
  /\ file' = file + 1
  /\ UNCHANGED <<daemon, worker, kernel, hup, pidfile, cli, lines>>

\* main: load the configuration and apply it
ApplyConfig ==
  /\ cli.pc = "idle"
  /\ cli.runs < MaxApplies
  /\ file \notin Broken
  /\ cli' = [pc |-> "applied", runs |-> cli.runs + 1]
  /\ UNCHANGED <<daemon, worker, kernel, hup, pidfile, file, lines>>

\* sighup_vrrp_fifo: SIGHUP every running daemon that has a pid file
SighupVrrpFifo ==
  /\ cli.pc = "applied"
  /\ cli' = [cli EXCEPT !.pc = "idle"]
  /\ hup' = (hup \/ (pidfile /\ Alive))
  /\ UNCHANGED <<daemon, worker, kernel, pidfile, file, lines>>

-----------------------------------------------------------------------------
MainStep ==
  \/ Boot \/ InstallHandler \/ WritePidFile
  \/ RemovePidFile \/ JoinChildren
  \/ SetState
  \/ GetConf \/ \E p \in Proc : CreateProcess(p)
  \/ LookUp \/ StartProcess \/ LockQueue \/ PutPill \/ PutUpdate
  \/ LoadConfig \/ Callback \/ NextKey

WorkerStep(p) == WorkerGet(p) \/ WorkerApply(p) \/ WorkerDie(p)

Environment ==
  \/ \E k \in Key, s \in State : ReadLine(k, s)
  \/ EndOfFile
  \/ EditFile \/ ApplyConfig \/ SighupVrrpFifo

Next ==
  \/ MainStep
  \/ Sighup
  \/ \E p \in Proc : WorkerStep(p)
  \/ Environment

Spec == Init /\ [][Next]_vars

\* the operating system schedules the main thread and every worker process,
\* and delivers a pending signal; nothing forces keepalived or an administrator
FairSpec ==
  /\ Spec
  /\ WF_vars(MainStep)
  /\ WF_vars(Sighup)
  /\ \A p \in Proc : WF_vars(WorkerStep(p))

-----------------------------------------------------------------------------
(* Type invariant                                                          *)

\* program points at which a frame works on its key
Active == CallPC \cup {"setstate"}

StackOK ==
  /\ stack \in Seq(Frame) /\ Len(stack) >= 1
  /\ \A i \in 1 .. Len(stack) :
       /\ stack[i].pc \in IF i = 1 THEN MainPC ELSE HandlerPC
       /\ stack[i].pc \in Active => stack[i].key \in Key /\ (i = 1 => stack[i].state \in State)

\* Every variable holds a value of its kind, the main thread always has its
\* bottom frame, only the frames above it are handler activations, and a frame
\* that works on a key has one.
TypeOK ==
  /\ file \in Nat /\ ifstate \in Nat /\ lines \in Nat
  /\ processes \in [Key -> Proc \cup {None}]
  /\ states \in [Key -> State \cup {None}]
  /\ StackOK
  /\ worker \in [Proc -> WorkerRecord]
  /\ kernel \in [Key -> [conf : Nat, state : State \cup {None}]]
  /\ hup \in BOOLEAN /\ pidfile \in BOOLEAN
  /\ cli \in [pc : {"idle", "applied"}, runs : Nat]

-----------------------------------------------------------------------------
(* Safety                                                                  *)

\* the main thread waits for the next line and no handler is active
Idle == IsMain /\ top.pc = "readline"

Pilled(p) == \E i \in 1 .. Len(worker[p].queue) : worker[p].queue[i] = None

Running(p) == worker[p].phase \in {"idle", "busy", "dead"}

\* the last item p was given: the tail of its queue, or what it took last
LastGiven(p) == IF worker[p].queue = <<>> THEN worker[p].state
                                          ELSE worker[p].queue[Len(worker[p].queue)]

Delivered(k) == LET p == processes[k] IN
  /\ Running(p)
  /\ ~ Pilled(p)
  /\ LastGiven(p) = states[k]

\* Wherever SIGHUP interrupts update and reconfigure, and however often: once
\* the daemon is back at the FIFO, the worker stored for a group or instance
\* was started, has not been told to stop, and the last state it was given is
\* the last one keepalived reported.
NoLostUpdate == Idle => \A k \in Key : states[k] # None => Delivered(k)

\* `ifstate apply' signals only daemons whose pid file exists, and the pid file
\* is written after the handler is set: SIGHUP never hits its default action.
SighupNeverKills == stack[1].pc # "killed"

\* A started worker that is no longer the one stored under its key has been
\* told to stop, so that reloads do not pile up processes.
SupersededStop ==
  Idle => \A p \in Proc :
            worker[p].phase \in {"idle", "busy"} =>
              \/ processes[worker[p].key] = p
              \/ Pilled(p)

\* Once the daemon is back at the FIFO, every worker it would hand a line to
\* runs with the configuration of the last reload.
ReloadReachesWorkers ==
  Idle => \A k \in Key :
            processes[k] # None => worker[processes[k]].conf = ifstate

\* A reload never puts an older configuration in the place of a newer one.
NoDowngrade == [][ifstate' >= ifstate]_ifstate

-----------------------------------------------------------------------------
(* Liveness                                                                *)

\* Every line that was read is handed over: update returns to the FIFO.
UpdateReturns == stack[1].pc = "setstate" ~> stack[1].pc = "readline"

\* Every worker stored under a key ends up having taken the last state
\* reported for that key, unless an apply raised and killed it.
LastStateTaken ==
  <>[](\A k \in Key : states[k] # None =>
         LET w == worker[processes[k]] IN
           w.phase = "dead" \/ (w.phase = "idle" /\ w.queue = <<>> /\ w.state = states[k]))

\* What stays configured for a key is the last state reported for it under the
\* configuration last loaded.
KernelSettles ==
  <>[](\A k \in Key : states[k] # None =>
         \/ \E p \in Proc : worker[p].phase = "dead"
         \/ kernel[k] = [conf |-> ifstate, state |-> states[k]])

-----------------------------------------------------------------------------
(* The inductive invariant behind NoLostUpdate                             *)

\* program points at which the call's object has been looked up
HasObject == {"start"} \cup PutLocks \cup Puts

\* Frame f, the i-th, has what its next statement looks up.
CallOK(i, f) ==
  /\ f.pc \in HasObject =>
       f.proc \in Proc /\ worker[f.proc].key = f.key /\ worker[f.proc].phase # "free"
  /\ f.pc \in {"getstart", "getupdate", "setstate"} => processes[f.key] # None
  /\ i > 1 => \A k \in f.todo : states[k] # None
  /\ i > 1 /\ f.pc \in CallPC => states[f.key] # None
  /\ i = 1 /\ f.pc \in {"getupdate", "lockupdate", "putupdate"} =>
       states[f.key] = f.state

\* The dictionaries agree with each other and with the worker objects, and
\* every frame can take its next step.
DictOK ==
  /\ \A k \in Key : states[k] # None => processes[k] # None
  /\ \A k \in Key : processes[k] # None =>
       worker[processes[k]].key = k /\ worker[processes[k]].phase # "free"

CallInv == DictOK /\ \A i \in 1 .. Len(stack) : CallOK(i, stack[i])

\* frame i is on its way to hand the state of k to a worker
Pending(i, k) == stack[i].pc \in Active /\ stack[i].key = k

Fresh(p)  == worker[p].phase = "new" /\ worker[p].queue = <<>>
Usable(p) == Running(p) /\ ~ Pilled(p)

\* what frame f found on its key is what update or reconfigure expects there
OnTrack(f) ==
  LET p == processes[f.key] IN
    /\ f.pc = "getstart" => Fresh(p)
    /\ f.pc = "start" => f.proc = p /\ Fresh(p)
    /\ f.pc \in {"setstate", "getupdate"} => Usable(p)
    /\ f.pc \in {"lockupdate", "putupdate"} => f.proc = p /\ Usable(p)

Settled(k) == processes[k] # None /\ Delivered(k)

\* A known key whose worker has not been given the last state is being worked
\* on by some frame; and a frame that was overtaken on its key, its object
\* replaced by a handler that interrupted it, finds the work done or about to
\* be done.
KeysServed ==
  \A k \in Key : processes[k] # None =>
    Settled(k) \/ \E i \in 1 .. Len(stack) : Pending(i, k)

FramesServed ==
  \A i \in 1 .. Len(stack) : stack[i].pc \in Active =>
    \/ OnTrack(stack[i])
    \/ Settled(stack[i].key)
    \/ \E j \in i + 1 .. Len(stack) : Pending(j, stack[i].key)

DeliveryInv == KeysServed /\ FramesServed

IInv == TypeOK /\ CallInv /\ DeliveryInv

-----------------------------------------------------------------------------
(* The inductive invariants behind the other safety properties             *)

\* No signal is pending, and nobody can send one, before the handler is set.
StartInv ==
  /\ stack[1].pc # "killed"
  /\ stack[1].pc \in {"boot", "install", "writepid"} => ~ pidfile /\ ~ hup

\* the frame of the one handler, where handlers are not interrupted themselves
Handler      == stack[2]
HandlerAt(S) == Len(stack) = 2 /\ Handler.pc \in S

\* A handler on its way to store its configuration has one that is newer than
\* the one in use.
ConfInv ==
  /\ Len(stack) <= 2
  /\ ifstate <= file
  /\ HandlerAt({"callback"}) => ifstate <= Handler.conf /\ Handler.conf <= file

Stopping(p) == worker[p].phase \in {"new", "idle", "busy"} => Pilled(p)

\* Whoever is about to replace a worker has told it to stop.
StopInv ==
  /\ \A p \in Proc : worker[p].phase # "free" =>
       worker[p].key \in Key /\ (processes[worker[p].key] = p \/ Stopping(p))
  /\ stack[1].pc \in {"getconf", "create"} => processes[stack[1].key] = None
  /\ HandlerAt({"lockpill", "putpill"}) => Handler.proc = processes[Handler.key]
  /\ HandlerAt({"getconf", "create"}) => Stopping(processes[Handler.key])

\* the program points of update between reading self.ifstate for a new process
\* and storing the state of its key
Spawning == {"create", "getstart", "start", "setstate"}
InLoop   == CallPC \cup {"next"}

\* the handler has yet to replace the worker of k
ToReplace(k) ==
  /\ HandlerAt(InLoop)
  /\ \/ k \in Handler.todo
     \/ Handler.pc \in {"getpill", "lockpill", "putpill", "getconf", "create"}
        /\ Handler.key = k

\* A worker that runs with another configuration than the one in use is about to
\* be replaced.
KeysReached ==
  \A k \in Key : processes[k] # None =>
    /\ states[k] # None \/ (stack[1].pc \in Spawning /\ stack[1].key = k)
    /\ worker[processes[k]].conf = ifstate \/ ToReplace(k)

\* No object is started twice, so that no handler ends early.
StartsOnce ==
  /\ top.pc = "getstart" => worker[processes[top.key]].phase = "new"
  /\ top.pc = "start" => worker[top.proc].phase = "new"

ReachInv ==
  /\ Len(stack) = 2 => stack[1].pc \notin Spawning
  /\ HandlerAt(InLoop) => Handler.conf = ifstate
  /\ stack[1].pc = "create" => stack[1].conf = ifstate
  /\ stack[1].pc = "boot" => \A k \in Key : processes[k] = None
  /\ KeysReached
  /\ StartsOnce
=============================================================================
