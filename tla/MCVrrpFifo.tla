----------------------------- MODULE MCVrrpFifo -----------------------------
(* Instances of VrrpFifo for TLC.                                          *)
EXTENDS VrrpFifoService, TLC

\* every program point: the handler may start anywhere, in itself too
Anywhere == PC

\* outside Queue.put, whose lock is not reentrant
OutsidePut == PC \ Puts

\* outside the stretch of VrrpStates.update in which self.ifstate was read for
\* a new process and its key has no state yet
OutsideSpawn == PC \ Spawning

\* the loop over the FIFO, and that stretch
FirstSpawn == {"readline"} \cup Spawning

\* neither of the two
Calm == OutsidePut \cap OutsideSpawn

\* One new process is as good as another: a run that is not to use symmetry,
\* because of its liveness properties, creates them in this order.
CONSTANTS p1, p2, p3
InOrder == /\ worker[p2].phase # "free" => worker[p1].phase # "free"
           /\ worker[p3].phase # "free" => worker[p2].phase # "free"

ProcSymmetry == Permutations(Proc)
=============================================================================
