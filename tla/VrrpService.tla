----------------------------- MODULE VrrpService -----------------------------
(***************************************************************************)
(* What the vrrp-fifo daemon promises to keepalived and to the             *)
(* administrator: reports are taken one at a time; each is handed out as   *)
(* an order to configure its group or instance for the state reported      *)
(* last, with a configuration that loads; a reload hands it out anew; and  *)
(* the kernel is only ever configured by such an order.  No processes, no  *)
(* queues, no signals.                                                     *)
(***************************************************************************)
EXTENDS Naturals

CONSTANTS
  Key,     \* VRRP groups and instances
  State,   \* VRRP states
  None,    \* no state was reported yet
  Broken   \* versions of the configuration that do not load

VARIABLES
  file,     \* version of the configuration on disk
  last,     \* the state reported last for a key
  due,      \* keys whose last state has yet to be handed out
  pending,  \* the orders for a key that were handed out and may be carried out
  kernel,   \* the order for a key that was carried out last
  raised    \* keys for which an apply has raised

vars == <<file, last, due, pending, kernel, raised>>

Loads == (0 .. file) \ Broken
Order == [conf : Nat, state : State \cup {None}]

Init ==
  /\ file = 0
  /\ last = [k \in Key |-> None]
  /\ due = {}
  /\ pending = [k \in Key |-> {}]
  /\ kernel = [k \in Key |-> [conf |-> 0, state |-> None]]
  /\ raised = {}

Edit ==
  /\ file' = file + 1
  /\ UNCHANGED <<last, due, pending, kernel, raised>>

\* a report is only taken when every earlier one has been handed out; repeated,
\* it need not be handed out again
Report(k, s) ==
  /\ due = {}
  /\ last' = [last EXCEPT ![k] = s]
  /\ \/ due' = {k}
     \/ s = last[k] /\ due' = {}
  /\ UNCHANGED <<file, pending, kernel, raised>>

Reload(k) ==
  /\ last[k] # None
  /\ due' = due \cup {k}
  /\ UNCHANGED <<file, last, pending, kernel, raised>>

\* what is handed out is the state reported last
HandOut(k) ==
  /\ last[k] # None
  /\ \E v \in Loads :
       pending' = [pending EXCEPT ![k] = @ \cup {[conf |-> v, state |-> last[k]]}]
  /\ due' \in {due, due \ {k}}
  /\ UNCHANGED <<file, last, kernel, raised>>

CarryOut(k) ==
  \E o \in pending[k] :
    /\ kernel' = [kernel EXCEPT ![k] = o]
    /\ pending' \in {pending, [pending EXCEPT ![k] = @ \ {o}]}
    /\ UNCHANGED <<file, last, due, raised>>

\* an apply raises: orders of its key may be lost ...
GiveUp(k) ==
  /\ raised' = raised \cup {k}
  /\ \E P \in SUBSET pending[k] : pending' = [pending EXCEPT ![k] = P]
  /\ UNCHANGED <<file, last, due, kernel>>

\* ... and those that are handed out later
HandOutInVain(k) ==
  /\ k \in raised
  /\ due' = due \ {k}
  /\ UNCHANGED <<file, last, pending, kernel, raised>>

Next ==
  \/ Edit
  \/ \E k \in Key :
       \/ \E s \in State : Report(k, s)
       \/ Reload(k) \/ HandOut(k) \/ CarryOut(k)
       \/ GiveUp(k) \/ HandOutInVain(k)

Spec == Init /\ [][Next]_vars
=============================================================================
