--------------------------- MODULE VrrpFifoService ---------------------------
(***************************************************************************)
(* The vrrp-fifo daemon implements VrrpService: its queues, processes and  *)
(* signal handlers, seen as orders that are due, handed out, carried out.  *)
(***************************************************************************)
EXTENDS VrrpFifo

\* the items a worker will take before the pill, and the one it works on
BeforePill(q) == {q[i] : i \in {i \in 1 .. Len(q) : \A j \in 1 .. i : q[j] # None}}
Remaining(w)  == BeforePill(w.queue) \cup (IF w.phase = "busy" THEN {w.state} ELSE {})

Orders(k) ==
  UNION {{[conf |-> worker[p].conf, state |-> s] : s \in Remaining(worker[p])} :
           p \in {p \in Proc : worker[p].key = k /\ worker[p].phase \in {"new", "idle", "busy"}}}

Due == {k \in Key : states[k] # None /\ ~ Delivered(k)}

Raised == {k \in Key : \E p \in Proc : worker[p].key = k /\ worker[p].phase = "dead"}

Service == INSTANCE VrrpService WITH
  last    <- states,
  due     <- Due,
  pending <- [k \in Key |-> Orders(k)],
  raised  <- Raised

\* Wherever a reload interrupts the daemon: a report is taken when all earlier ones
\* are in the queue of a worker that will run it; a worker is only given the state
\* reported last and only has a configuration that loads; and what gets configured is
\* an order that was given.
Implements == Service!Spec

-----------------------------------------------------------------------------
(* The invariants behind it, next to the one behind NoLostUpdate            *)

Loads == (0 .. file) \ Broken

\* Whatever the daemon uses, or is about to use, loads.
StackLoads ==
  /\ stack[1].pc \notin {"boot", "exited", "killed"} => ifstate \in Loads
  /\ stack[1].pc = "create" => stack[1].conf \in Loads
  /\ \A i \in 2 .. Len(stack) : stack[i].pc # "load" => stack[i].conf \in Loads

WorkersLoad ==
  \A p \in Proc : worker[p].phase # "free" =>
    /\ worker[p].key \in Key /\ worker[p].conf \in Loads
    /\ worker[p].phase = "new" => worker[p].state = None

ConfsLoad == StackLoads /\ WorkersLoad

\* k was handed out, or will be before the main thread goes on
Kept(k) == Settled(k) \/ \E i \in 2 .. Len(stack) : Pending(i, k)

\* When update takes a new state, what it replaces has been handed out.
ReportKept ==
  /\ stack[1].pc \in {"getconf", "create", "getstart", "start"} => states[stack[1].key] = None
  /\ stack[1].pc = "setstate" /\ states[stack[1].key] # None => Kept(stack[1].key)

\* Before the first one, there is nothing to hand out.
NothingGiven ==
  \A k \in Key : states[k] = None /\ processes[k] # None =>
    worker[processes[k]].queue = <<>> /\ worker[processes[k]].state = None

ReportsKept == ReportKept /\ NothingGiven
=============================================================================
