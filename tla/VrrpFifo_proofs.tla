--------------------------- MODULE VrrpFifo_proofs ---------------------------
(* Proofs about the vrrp-fifo daemon, for any number of groups, states,      *)
(* worker processes, nested signals and program points a signal can hit.     *)
EXTENDS VrrpFifo, SequenceTheorems, TLAPS

-----------------------------------------------------------------------------
(* The main thread's stack                                                  *)

\* Replacing the running frame leaves the frames below it alone.
LEMMA SetTopFacts ==
  ASSUME stack \in Seq(Frame), Len(stack) >= 1, NEW f \in Frame, SetTop(f)
  PROVE  /\ stack' \in Seq(Frame)
         /\ Len(stack') = Len(stack)
         /\ stack'[Len(stack)] = f
         /\ \A i \in 1 .. Len(stack) : i # Len(stack) => stack'[i] = stack[i]
BY DEF SetTop

\* A handler that starts becomes the running frame.
LEMMA PushFacts ==
  ASSUME stack \in Seq(Frame), NEW f \in Frame, stack' = Append(stack, f)
  PROVE  /\ stack' \in Seq(Frame)
         /\ Len(stack') = Len(stack) + 1
         /\ stack'[Len(stack) + 1] = f
         /\ \A i \in 1 .. Len(stack) : stack'[i] = stack[i]
BY DEF Frame

\* A handler that returns uncovers the frame it interrupted.
LEMMA ReturnFacts ==
  ASSUME stack \in Seq(Frame), Len(stack) > 1, Return
  PROVE  /\ stack' \in Seq(Frame)
         /\ Len(stack') = Len(stack) - 1
         /\ \A i \in 1 .. Len(stack) - 1 : stack'[i] = stack[i]
BY DEF Return

LEMMA NewFrameType == \A pc \in PC : NewFrame(pc) \in Frame
BY DEF NewFrame, Frame

-----------------------------------------------------------------------------
(* Type correctness                                                         *)

LEMMA AboveOne == \A n \in Nat : n >= 1 /\ n # 1 => n > 1
OBVIOUS

LEMMA TopFacts ==
  ASSUME TypeOK
  PROVE  /\ Len(stack) \in Nat /\ Len(stack) >= 1
         /\ top \in Frame
         /\ top.pc \in Active => top.key \in Key /\ (IsMain => top.state \in State)
         /\ IsMain => top.pc \in MainPC
         /\ ~ IsMain => top.pc \in HandlerPC /\ Len(stack) > 1
<1>0. stack \in Seq(Frame)
  BY DEF TypeOK, StackOK
<1>1. Len(stack) >= 1
  BY DEF TypeOK, StackOK
<1>2. Len(stack) \in 1 .. Len(stack)
  BY <1>0, <1>1
<1>3. top.pc \in IF Len(stack) = 1 THEN MainPC ELSE HandlerPC
  BY <1>2 DEF TypeOK, StackOK, top
<1>3a. top.pc \in Active => top.key \in Key /\ (Len(stack) = 1 => top.state \in State)
  BY <1>2 DEF TypeOK, StackOK, top
<1>4. Len(stack) \in Nat /\ top \in Frame
  BY <1>0, <1>2 DEF top
<1>5. IsMain => top.pc \in MainPC
  BY <1>3 DEF IsMain
<1>6. ~ IsMain => top.pc \in HandlerPC
  BY <1>3 DEF IsMain
<1>7. ASSUME ~ IsMain PROVE Len(stack) > 1
  BY <1>7, <1>1, <1>4, AboveOne, Zenon DEF IsMain
<1> QED
  BY <1>1, <1>3a, <1>4, <1>5, <1>6, <1>7 DEF IsMain

\* What a step owes to TypeOK when it replaces the running frame.
LEMMA SetTopType ==
  ASSUME TypeOK, NEW f \in Frame, SetTop(f),
         IF IsMain THEN f.pc \in MainPC ELSE f.pc \in HandlerPC,
         f.pc \in Active => f.key \in Key /\ (IsMain => f.state \in State)
  PROVE  StackOK'
<1>1. /\ stack' \in Seq(Frame)
      /\ Len(stack') = Len(stack)
      /\ stack'[Len(stack)] = f
      /\ \A i \in 1 .. Len(stack) : i # Len(stack) => stack'[i] = stack[i]
  BY SetTopFacts DEF TypeOK, StackOK
<1> QED
  BY <1>1 DEF TypeOK, StackOK, IsMain

LEMMA GotoType ==
  ASSUME TypeOK, NEW pc \in PC, Goto(pc),
         IF IsMain THEN pc \in MainPC ELSE pc \in HandlerPC,
         pc \in Active => top.pc \in Active
  PROVE  StackOK'
<1> DEFINE f == [top EXCEPT !.pc = pc]
<1>1. f \in Frame /\ f.pc = pc /\ f.key = top.key /\ f.state = top.state
  BY TopFacts DEF Frame
<1>2. SetTop(f)
  BY DEF Goto
<1>3. f.pc \in Active => f.key \in Key /\ (IsMain => f.state \in State)
  BY <1>1, TopFacts
<1>4. IF IsMain THEN f.pc \in MainPC ELSE f.pc \in HandlerPC
  BY <1>1
<1> HIDE DEF f
<1> QED
  BY <1>1, <1>2, <1>3, <1>4, SetTopType

LEMMA ReturnType ==
  ASSUME TypeOK, ~ IsMain, Return
  PROVE  StackOK'
<1>1. Len(stack) > 1 /\ Len(stack) \in Nat
  BY TopFacts
<1>2. /\ stack' \in Seq(Frame)
      /\ Len(stack') = Len(stack) - 1
      /\ \A i \in 1 .. Len(stack) - 1 : stack'[i] = stack[i]
  BY <1>1, ReturnFacts DEF TypeOK, StackOK
<1>3. Len(stack') >= 1 /\ 1 .. Len(stack') \subseteq 1 .. Len(stack)
  BY <1>1, <1>2
<1> QED
  BY <1>2, <1>3 DEF TypeOK, StackOK

LEMMA WorkerType ==
  ASSUME TypeOK, NEW p \in Proc
  PROVE  /\ worker[p] \in WorkerRecord
         /\ \A e \in State \cup {None} :
              [worker EXCEPT ![p].queue = Append(@, e)] \in [Proc -> WorkerRecord]
         /\ \A ph \in {"idle", "dead"} :
              [worker EXCEPT ![p].phase = ph] \in [Proc -> WorkerRecord]
<1>1. worker[p] \in WorkerRecord
  BY DEF TypeOK
<1>2. \A r \in WorkerRecord : [worker EXCEPT ![p] = r] \in [Proc -> WorkerRecord]
  BY DEF TypeOK
<1>3. ASSUME NEW e \in State \cup {None}
      PROVE  [worker EXCEPT ![p].queue = Append(@, e)] \in [Proc -> WorkerRecord]
  <2>1. Append(worker[p].queue, e) \in Seq(State \cup {None})
    BY <1>1 DEF WorkerRecord
  <2>2. [worker[p] EXCEPT !.queue = Append(@, e)] \in WorkerRecord
    BY <1>1, <2>1 DEF WorkerRecord
  <2> QED
    BY <1>2, <2>2
<1>4. ASSUME NEW ph \in {"idle", "dead"}
      PROVE  [worker EXCEPT ![p].phase = ph] \in [Proc -> WorkerRecord]
  <2>1. [worker[p] EXCEPT !.phase = ph] \in WorkerRecord
    BY <1>1 DEF WorkerRecord
  <2> QED
    BY <1>2, <2>1
<1> QED
  BY <1>1, <1>3, <1>4

LEMMA PushType ==
  ASSUME TypeOK, stack' = Append(stack, NewFrame("load"))
  PROVE  StackOK'
<1>1. NewFrame("load") \in Frame /\ NewFrame("load").pc = "load"
  BY NewFrameType DEF PC, HandlerPC, NewFrame
<1>2. /\ stack' \in Seq(Frame)
      /\ Len(stack') = Len(stack) + 1
      /\ stack'[Len(stack) + 1] = NewFrame("load")
      /\ \A i \in 1 .. Len(stack) : stack'[i] = stack[i]
  BY <1>1, PushFacts DEF TypeOK, StackOK
<1> QED
  BY <1>1, <1>2 DEF TypeOK, StackOK, HandlerPC, Active, CallPC, LookUps, PutLocks, Puts

\* The two cases of Sighup: its default action, and the handler.
Killed  == Sighup /\ top.pc \in {"boot", "install"}
Entered == Sighup /\ top.pc \notin {"boot", "install"}

LEMMA TypeInit == Init => TypeOK
<1> SUFFICES ASSUME Init PROVE TypeOK
  OBVIOUS
<1>1. NewFrame("boot") \in Frame /\ NewFrame("boot").pc = "boot"
  BY NewFrameType DEF PC, MainPC, NewFrame
<1>2. StackOK
  BY <1>1 DEF Init, StackOK, MainPC, Active, CallPC, LookUps, PutLocks, Puts
<1>3. worker \in [Proc -> WorkerRecord]
  BY DEF Init, WorkerRecord
<1> QED
  BY <1>2, <1>3 DEF Init, TypeOK

\* Steps that only move the running frame to another program point.
LEMMA TypeGoto ==
  ASSUME TypeOK,
         \/ Boot \/ InstallHandler \/ WritePidFile \/ EndOfFile \/ RemovePidFile
         \/ JoinChildren \/ LockQueue \/ Killed
  PROVE  TypeOK'
<1> USE DEF MainPC, HandlerPC, PC, CallPC, Active, LookUps, PutLocks, Puts
<1>1. CASE Boot
  <2>1. IsMain
    BY <1>1, TopFacts DEF Boot
  <2>2. StackOK'
    BY <1>1, <2>1, GotoType DEF Boot
  <2> QED
    BY <1>1, <2>2 DEF Boot, TypeOK, world
<1>2. CASE InstallHandler
  <2>1. IsMain
    BY <1>2, TopFacts DEF InstallHandler
  <2>2. StackOK'
    BY <1>2, <2>1, GotoType DEF InstallHandler
  <2> QED
    BY <1>2, <2>2 DEF InstallHandler, TypeOK, world
<1>3. CASE WritePidFile
  <2>1. IsMain
    BY <1>3, TopFacts DEF WritePidFile
  <2>2. StackOK'
    BY <1>3, <2>1, GotoType DEF WritePidFile
  <2> QED
    BY <1>3, <2>2 DEF WritePidFile, TypeOK, world
<1>4. CASE EndOfFile
  <2>1. IsMain
    BY <1>4, TopFacts DEF EndOfFile
  <2>2. StackOK'
    BY <1>4, <2>1, GotoType DEF EndOfFile
  <2> QED
    BY <1>4, <2>2 DEF EndOfFile, TypeOK, world
<1>5. CASE RemovePidFile
  <2>1. IsMain
    BY <1>5, TopFacts DEF RemovePidFile
  <2>2. StackOK'
    BY <1>5, <2>1, GotoType DEF RemovePidFile
  <2> QED
    BY <1>5, <2>2 DEF RemovePidFile, TypeOK, world
<1>6. CASE JoinChildren
  <2>1. IsMain
    BY <1>6, TopFacts DEF JoinChildren
  <2>2. StackOK'
    BY <1>6, <2>1, GotoType DEF JoinChildren
  <2> QED
    BY <1>6, <2>2 DEF JoinChildren, TypeOK, world
<1>7. CASE Killed
  <2>1. IsMain
    BY <1>7, TopFacts DEF Killed, Sighup
  <2>2. StackOK'
    BY <1>7, <2>1, GotoType DEF Killed, Sighup
  <2> QED
    BY <1>7, <2>2 DEF Killed, Sighup, TypeOK, world
<1>8. CASE LockQueue
  <2>1. StackOK'
    BY <1>8, TopFacts, GotoType DEF LockQueue
  <2> QED
    BY <1>8, <2>1 DEF LockQueue, TypeOK, world
<1> QED
  BY <1>1, <1>2, <1>3, <1>4, <1>5, <1>6, <1>7, <1>8

-----------------------------------------------------------------------------
(* Steps that change nothing but the stack                                  *)

\* With the dictionaries and the workers as they were, what is said of a
\* frame or a key is as it was.
LEMMA SameData ==
  ASSUME processes' = processes, states' = states, worker' = worker
  PROVE  /\ DictOK' <=> DictOK
         /\ \A i, f : CallOK(i, f)' <=> CallOK(i, f)
         /\ \A f : OnTrack(f)' <=> OnTrack(f)
         /\ \A k : Settled(k)' <=> Settled(k)
BY DEF DictOK, CallOK, OnTrack, Settled, Delivered, Fresh, Usable, Running,
       Pilled, LastGiven

\* The running frame moves: it goes on with its key, or leaves it settled.
LEMMA Moved ==
  ASSUME TypeOK, CallInv, DeliveryInv, NEW f \in Frame, SetTop(f),
         StackOK', processes' = processes, states' = states, worker' = worker,
         CallOK(Len(stack), f),
         f.pc \in Active => OnTrack(f) \/ Settled(f.key),
         top.pc \in Active => Settled(top.key) \/ (f.pc \in Active /\ f.key = top.key)
  PROVE  CallInv' /\ DeliveryInv'
<1> DEFINE n == Len(stack)
<1>1. /\ n \in Nat /\ n >= 1 /\ Len(stack') = n
      /\ stack'[n] = f
      /\ \A i \in 1 .. n : i # n => stack'[i] = stack[i]
      /\ top = stack[n]
  BY SetTopFacts, TopFacts DEF TypeOK, StackOK, top
<1> HIDE DEF n
<1>2. \A i \in 1 .. n : CallOK(i, stack'[i])
  BY <1>1 DEF CallInv, n
<1>3. CallInv'
  BY <1>1, <1>2, SameData DEF CallInv
<1>4. \A i \in 1 .. n, k \in Key : Pending(i, k) => Settled(k) \/ Pending(i, k)'
  BY <1>1 DEF Pending
<1>5. KeysServed'
  BY <1>1, <1>4, SameData DEF DeliveryInv, KeysServed, n
<1>6. ASSUME NEW i \in 1 .. n, NEW k \in Key, stack'[i].pc \in Active, stack'[i].key = k
      PROVE  \/ OnTrack(stack'[i])
             \/ Settled(k)
             \/ \E j \in i + 1 .. n : Pending(j, k)'
  <2>1. CASE i = n
    BY <1>1, <1>6, <2>1
  <2>2. CASE i # n
    <3>1. stack'[i] = stack[i]
      BY <1>1, <2>2
    <3>2. \/ OnTrack(stack[i])
          \/ Settled(k)
          \/ \E j \in i + 1 .. n : Pending(j, k)
      BY <3>1, <1>6 DEF DeliveryInv, FramesServed, n
    <3>3. i + 1 .. n \subseteq 1 .. n
      BY <1>1
    <3> QED
      BY <3>1, <3>2, <3>3, <1>4
  <2> QED
    BY <2>1, <2>2
<1>7. FramesServed'
  <2> SUFFICES ASSUME NEW i \in 1 .. n, NEW k \in Key,
                      stack'[i].pc \in Active, stack'[i].key = k
               PROVE  \/ OnTrack(stack'[i])
                      \/ Settled(k)
                      \/ \E j \in i + 1 .. n : Pending(j, k)'
    BY <1>1, SameData DEF FramesServed, StackOK, Pending
  <2> QED
    BY <1>6
<1> QED
  BY <1>3, <1>5, <1>7 DEF DeliveryInv

LEMMA MovedTo ==
  ASSUME TypeOK, CallInv, DeliveryInv, NEW pc \in PC, Goto(pc), StackOK',
         processes' = processes, states' = states, worker' = worker,
         CallOK(Len(stack), [top EXCEPT !.pc = pc]),
         pc \in Active => OnTrack([top EXCEPT !.pc = pc]) \/ Settled(top.key),
         top.pc \in Active => pc \in Active \/ Settled(top.key)
  PROVE  CallInv' /\ DeliveryInv'
<1> DEFINE f == [top EXCEPT !.pc = pc]
<1>1. f \in Frame /\ f.pc = pc /\ f.key = top.key
  BY TopFacts DEF Frame
<1>2. SetTop(f) /\ CallOK(Len(stack), f)
  BY DEF Goto
<1>3. /\ f.pc \in Active => OnTrack(f) \/ Settled(f.key)
      /\ top.pc \in Active => Settled(top.key) \/ (f.pc \in Active /\ f.key = top.key)
  BY <1>1
<1> HIDE DEF f
<1> QED
  BY <1>1, <1>2, <1>3, Moved

\* A handler returns, with its last key settled.
LEMMA Returned ==
  ASSUME TypeOK, CallInv, DeliveryInv, ~ IsMain, Return,
         processes' = processes, states' = states, worker' = worker,
         top.pc \in Active => Settled(top.key)
  PROVE  CallInv' /\ DeliveryInv'
<1> DEFINE n == Len(stack) - 1
<1>1. n \in Nat /\ Len(stack) = n + 1 /\ top = stack[n + 1]
  BY TopFacts DEF top
<1>2. /\ Len(stack') = n
      /\ \A i \in 1 .. n : stack'[i] = stack[i]
  BY TopFacts, ReturnFacts DEF TypeOK, StackOK
<1>3. StackOK'
  BY ReturnType
<1> HIDE DEF n
<1>4. CallInv'
  BY <1>1, <1>2, SameData DEF CallInv
<1>5. \A i \in 1 .. n + 1, k \in Key :
        Pending(i, k) => Settled(k) \/ (i \in 1 .. n /\ Pending(i, k)')
  <2> SUFFICES ASSUME NEW i \in 1 .. n + 1, NEW k \in Key, Pending(i, k)
               PROVE  Settled(k) \/ (i \in 1 .. n /\ Pending(i, k)')
    OBVIOUS
  <2>1. CASE i = n + 1
    BY <1>1, <2>1 DEF Pending
  <2>2. CASE i # n + 1
    <3>1. i \in 1 .. n
      BY <1>1, <2>2
    <3> QED
      BY <1>2, <3>1 DEF Pending
  <2> QED
    BY <2>1, <2>2
<1>6. KeysServed'
  BY <1>1, <1>2, <1>5, SameData DEF DeliveryInv, KeysServed
<1>7. FramesServed'
  <2> SUFFICES ASSUME NEW i \in 1 .. n, NEW k \in Key,
                      stack'[i].pc \in Active, stack'[i].key = k
               PROVE  \/ OnTrack(stack'[i])
                      \/ Settled(k)
                      \/ \E j \in i + 1 .. n : Pending(j, k)'
    BY <1>2, <1>3, SameData DEF FramesServed, StackOK, Pending
  <2>1. /\ stack'[i] = stack[i]
        /\ i \in 1 .. n + 1
        /\ i + 1 .. n + 1 \subseteq 1 .. n + 1
        /\ \A j \in i + 1 .. n + 1 : j \in 1 .. n => j \in i + 1 .. n
    BY <1>1, <1>2
  <2>2. \/ OnTrack(stack[i])
        \/ Settled(k)
        \/ \E j \in i + 1 .. n + 1 : Pending(j, k)
    BY <1>1, <2>1 DEF DeliveryInv, FramesServed
  <2> QED
    BY <1>5, <2>1, <2>2
<1> QED
  BY <1>4, <1>6, <1>7 DEF DeliveryInv

\* A handler starts on top of whatever the main thread is doing.
LEMMA Pushed ==
  ASSUME TypeOK, CallInv, DeliveryInv, stack' = Append(stack, NewFrame("load")),
         processes' = processes, states' = states, worker' = worker
  PROVE  CallInv' /\ DeliveryInv'
<1> DEFINE n == Len(stack)
<1>1. NewFrame("load") \in Frame
  BY NewFrameType DEF PC, HandlerPC
<1>2. /\ n \in Nat /\ Len(stack') = n + 1
      /\ stack'[n + 1] = NewFrame("load")
      /\ \A i \in 1 .. n : stack'[i] = stack[i]
  BY <1>1, PushFacts, TopFacts DEF TypeOK, StackOK
<1>3. StackOK'
  BY PushType
<1>4. CallOK(n + 1, NewFrame("load")) /\ NewFrame("load").pc \notin Active
  BY DEF CallOK, NewFrame, HasObject, Active, CallPC, LookUps, PutLocks, Puts
<1> HIDE DEF n
<1>5. \A i \in 1 .. n + 1 : i \in 1 .. n \/ i = n + 1
  BY <1>2
<1>6. CallInv'
  <2>1. \A i \in 1 .. n + 1 : CallOK(i, stack'[i])
    BY <1>2, <1>4, <1>5 DEF CallInv, n
  <2> QED
    BY <1>2, <2>1, SameData DEF CallInv
<1>7. \A i \in 1 .. n, k \in Key : Pending(i, k) => i \in 1 .. n + 1 /\ Pending(i, k)'
  BY <1>2 DEF Pending
<1>8. KeysServed'
  BY <1>2, <1>7, SameData DEF DeliveryInv, KeysServed, n
<1>9. FramesServed'
  <2> SUFFICES ASSUME NEW i \in 1 .. n + 1, NEW k \in Key,
                      stack'[i].pc \in Active, stack'[i].key = k
               PROVE  \/ OnTrack(stack'[i])
                      \/ Settled(k)
                      \/ \E j \in i + 1 .. n + 1 : Pending(j, k)'
    BY <1>2, <1>3, SameData DEF FramesServed, StackOK, Pending
  <2>1. stack'[i] = stack[i] /\ i \in 1 .. n
    BY <1>2, <1>4, <1>5
  <2>2. /\ i + 1 .. n \subseteq 1 .. n
        /\ i + 1 .. n \subseteq i + 1 .. n + 1
    BY <1>2
  <2>3. \/ OnTrack(stack[i])
        \/ Settled(k)
        \/ \E j \in i + 1 .. n : Pending(j, k)
    BY <2>1 DEF DeliveryInv, FramesServed, n
  <2> QED
    BY <1>7, <2>1, <2>2, <2>3
<1> QED
  BY <1>6, <1>8, <1>9 DEF DeliveryInv

-----------------------------------------------------------------------------
(* Steps that change the dictionaries or the workers                        *)

\* A step keeps, for the keys of K, what the frames and the keys rely on.
Keeps(K) ==
  /\ \A i \in Nat, g \in Frame :
       (g.pc \in Active => g.key \in Key) /\ CallOK(i, g) => CallOK(i, g)'
  /\ \A k \in K : processes'[k] = processes[k] /\ (Settled(k) => Settled(k)')
  /\ \A i \in Nat, g \in Frame :
       g.pc \in Active /\ g.key \in K /\ CallOK(i, g) /\ OnTrack(g) => OnTrack(g)'

\* The running frame acts on its key: it may disturb what frames know of that
\* key, and of no other.
LEMMA Acted ==
  ASSUME TypeOK, CallInv, DeliveryInv, NEW f \in Frame, SetTop(f), StackOK', DictOK',
         NEW n, n = Len(stack), NEW kk \in Key, kk = top.key, top.pc \in Active,
         CallOK(n, f)', Keeps(Key \ {kk}),
         f.key = kk,
         Settled(kk)' \/ (f.pc \in Active /\ OnTrack(f)')
  PROVE  CallInv' /\ DeliveryInv'
<1>1. /\ n \in Nat /\ n >= 1 /\ Len(stack') = n
      /\ stack'[n] = f
      /\ \A i \in 1 .. n : i # n => stack'[i] = stack[i]
      /\ stack[n].key = kk
      /\ \A i \in 1 .. n :
           stack[i] \in Frame /\ (stack[i].pc \in Active => stack[i].key \in Key)
  BY SetTopFacts, TopFacts DEF TypeOK, StackOK, top
<1>2. \A i \in 1 .. n : i \in Nat
  BY <1>1
<1>3. \A i \in 1 .. n, g \in Frame : stack'[i] = g => CallOK(i, g)'
  BY <1>1, <1>2 DEF CallInv, Keeps
<1>4. CallInv'
  BY <1>1, <1>3 DEF CallInv, StackOK
<1>5. \A i \in 1 .. n, k \in Key :
        k # kk /\ Pending(i, k) => i # n /\ Pending(i, k)'
  BY <1>1 DEF Pending
<1>6. Settled(kk)' \/ Pending(n, kk)'
  BY <1>1 DEF Pending
<1>7. KeysServed'
  <2>1. \A k \in Key : processes'[k] # None =>
          Settled(k)' \/ \E i \in 1 .. n : Pending(i, k)'
    <3> SUFFICES ASSUME NEW k \in Key, processes'[k] # None
                 PROVE  Settled(k)' \/ \E i \in 1 .. n : Pending(i, k)'
      OBVIOUS
    <3>1. CASE k = kk
      BY <1>1, <1>6, <3>1
    <3>2. CASE k # kk
      BY <1>5, <3>2 DEF DeliveryInv, KeysServed, Keeps
    <3> QED
      BY <3>1, <3>2
  <2> QED
    BY <1>1, <2>1 DEF KeysServed
<1>8. ASSUME NEW i \in 1 .. n, NEW k \in Key, NEW g \in Frame,
             stack'[i] = g, g.pc \in Active, g.key = k
      PROVE  \/ OnTrack(g)'
             \/ Settled(k)'
             \/ \E j \in i + 1 .. n : Pending(j, k)'
  <2>1. CASE i = n
    <3>1. g = f /\ k = kk
      BY <1>1, <1>8, <2>1
    <3> QED
      BY <3>1
  <2>2. CASE i # n
    <3>1. stack[i] = g /\ n \in i + 1 .. n /\ i + 1 .. n \subseteq 1 .. n
      BY <1>1, <1>8, <2>2
    <3>2. CASE k = kk
      BY <1>6, <3>1, <3>2
    <3>3. CASE k # kk
      <4>1. OnTrack(g) \/ Settled(k) \/ \E j \in i + 1 .. n : Pending(j, k)
        BY <1>8, <3>1 DEF DeliveryInv, FramesServed
      <4>2. CallOK(i, g)
        BY <3>1 DEF CallInv
      <4> QED
        BY <1>2, <1>5, <1>8, <3>1, <3>3, <4>1, <4>2 DEF Keeps
    <3> QED
      BY <3>2, <3>3
  <2> QED
    BY <2>1, <2>2
<1>9. FramesServed'
  <2> SUFFICES ASSUME NEW i \in 1 .. n, NEW k \in Key, NEW g \in Frame,
                      stack'[i] = g, g.pc \in Active, g.key = k
               PROVE  \/ OnTrack(g)'
                      \/ Settled(k)'
                      \/ \E j \in i + 1 .. n : Pending(j, k)'
    BY <1>1 DEF FramesServed, StackOK
  <2> QED
    BY <1>8
<1> QED
  BY <1>4, <1>7, <1>9 DEF DeliveryInv

\* The stack stays, and what the frames and the keys rely on does too.
LEMMA Undisturbed ==
  ASSUME TypeOK, CallInv, DeliveryInv, stack' = stack, DictOK', Keeps(Key)
  PROVE  CallInv' /\ DeliveryInv'
<1> DEFINE n == Len(stack)
<1>1. /\ n \in Nat
      /\ \A i \in 1 .. n : stack[i] \in Frame /\ i \in Nat
      /\ \A i \in 1 .. n : stack[i].pc \in Active => stack[i].key \in Key
  BY TopFacts DEF TypeOK, StackOK
<1>2. \A i, k : Pending(i, k)' <=> Pending(i, k)
  BY DEF Pending
<1>3. CallInv'
  BY <1>1 DEF CallInv, Keeps
<1>4. KeysServed'
  BY <1>2 DEF DeliveryInv, KeysServed, Keeps
<1>5. FramesServed'
  <2> SUFFICES ASSUME NEW i \in 1 .. n, NEW k \in Key, NEW g \in Frame,
                      stack[i] = g, g.pc \in Active, g.key = k
               PROVE  \/ OnTrack(g)'
                      \/ Settled(k)'
                      \/ \E j \in i + 1 .. n : Pending(j, k)'
    BY <1>1 DEF FramesServed
  <2>1. OnTrack(g) \/ Settled(k) \/ \E j \in i + 1 .. n : Pending(j, k)
    BY DEF DeliveryInv, FramesServed
  <2>2. CallOK(i, g) /\ i \in Nat
    BY <1>1 DEF CallInv
  <2> QED
    BY <1>2, <2>1, <2>2 DEF Keeps
<1> QED
  BY <1>3, <1>4, <1>5 DEF DeliveryInv

-----------------------------------------------------------------------------
(* Every step preserves the invariant                                       *)

\* What the invariant says of the running frame.
LEMMA TopInv ==
  ASSUME TypeOK, CallInv, DeliveryInv
  PROVE  /\ CallOK(Len(stack), top)
         /\ top.pc \in Active => OnTrack(top) \/ Settled(top.key)
<1>1. Len(stack) \in Nat /\ Len(stack) \in 1 .. Len(stack)
  BY TopFacts
<1>2. \A k : ~ \E j \in Len(stack) + 1 .. Len(stack) : Pending(j, k)
  BY <1>1
<1> QED
  BY <1>1, <1>2 DEF CallInv, DeliveryInv, FramesServed, top

LEMMA LifeCycleStep ==
  ASSUME TypeOK, CallInv, DeliveryInv,
         \/ Boot \/ InstallHandler \/ WritePidFile \/ EndOfFile \/ RemovePidFile
         \/ JoinChildren \/ Killed
  PROVE  IInv'
<1> DEFINE Passive == {"boot", "install", "writepid", "readline", "removepid",
                       "join", "exited", "killed"}
<1>1. TypeOK' /\ StackOK'
  BY TypeGoto DEF TypeOK
<1>2. /\ processes' = processes /\ states' = states /\ worker' = worker
      /\ top.pc \in Passive
      /\ \E pc \in Passive : Goto(pc)
  BY DEF Boot, InstallHandler, WritePidFile, EndOfFile, RemovePidFile,
         JoinChildren, Killed, Sighup
<1>3. PICK pc \in Passive : Goto(pc)
  BY <1>2
<1>4. /\ pc \in PC /\ pc \notin Active /\ top.pc \notin Active
      /\ pc \notin HasObject \cup CallPC \cup {"getstart", "getupdate", "setstate",
                                               "lockupdate", "putupdate"}
      /\ top.pc \notin HandlerPC
  BY <1>2, <1>3 DEF PC, MainPC, HandlerPC, Active, CallPC, HasObject, LookUps, PutLocks, Puts
<1>5. Len(stack) = 1
  BY <1>4, TopFacts DEF IsMain
<1>6. CallOK(Len(stack), [top EXCEPT !.pc = pc])
  <2>1. [top EXCEPT !.pc = pc].pc = pc
    BY TopFacts DEF Frame
  <2> QED
    BY <1>4, <1>5, <2>1 DEF CallOK
<1> HIDE DEF Passive
<1>7. CallInv' /\ DeliveryInv'
  BY <1>1, <1>2, <1>3, <1>4, <1>6, MovedTo
<1> QED
  BY <1>1, <1>7 DEF IInv

LEMMA LockQueueStep ==
  ASSUME TypeOK, CallInv, DeliveryInv, LockQueue
  PROVE  IInv'
<1> DEFINE pc == IF top.pc = "lockpill" THEN "putpill" ELSE "putupdate"
           f == [top EXCEPT !.pc = pc]
<1>1. TypeOK' /\ StackOK'
  BY TypeGoto DEF TypeOK
<1>2. /\ processes' = processes /\ states' = states /\ worker' = worker
      /\ top.pc \in PutLocks /\ Goto(pc)
  BY DEF LockQueue
<1>3. pc \in PC /\ pc \in Active /\ top.pc \in Active
  BY <1>2 DEF PC, HandlerPC, Active, CallPC, LookUps, PutLocks, Puts
<1>4. f.pc = pc /\ f.key = top.key /\ f.state = top.state /\ f.proc = top.proc /\ f.todo = top.todo
  BY TopFacts DEF Frame
<1>5. CallOK(Len(stack), f)
  BY <1>2, <1>4, TopInv DEF CallOK, HasObject, CallPC, LookUps, PutLocks, Puts
<1>6. OnTrack(f) \/ Settled(top.key)
  BY <1>2, <1>3, <1>4, TopInv DEF OnTrack, PutLocks
<1> HIDE DEF pc
<1>7. CallInv' /\ DeliveryInv'
  BY <1>1, <1>2, <1>3, <1>5, <1>6, MovedTo
<1> QED
  BY <1>1, <1>7 DEF IInv

LEMMA ReadLineStep ==
  ASSUME TypeOK, CallInv, DeliveryInv, NEW k \in Key, NEW s \in State, ReadLine(k, s)
  PROVE  IInv'
<1> DEFINE pc == IF processes[k] = None THEN "getconf" ELSE "setstate"
           f == [top EXCEPT !.pc = pc, !.key = k, !.state = s]
<1>1. /\ processes' = processes /\ states' = states /\ worker' = worker
      /\ top.pc = "readline" /\ SetTop(f)
  BY DEF ReadLine
<1>2. Len(stack) = 1 /\ IsMain
  BY <1>1, TopFacts DEF IsMain, HandlerPC, CallPC, LookUps, PutLocks, Puts
<1>3. /\ f \in Frame /\ f.pc = pc /\ f.key = k /\ f.state = s
      /\ f.pc \in {"getconf", "setstate"}
      /\ f.pc = "setstate" => processes[k] # None
  BY TopFacts DEF Frame, PC, HandlerPC, MainPC, CallPC
<1> HIDE DEF f
<1>4. f.pc \in MainPC
  BY <1>3 DEF MainPC, CallPC
<1>5. StackOK'
  BY <1>1, <1>2, <1>3, <1>4, SetTopType
<1>6. TypeOK'
  BY <1>5 DEF TypeOK, ReadLine
<1>7. CallOK(Len(stack), f)
  BY <1>2, <1>3 DEF CallOK, HasObject, PutLocks, Puts
<1>8. processes[k] # None => Settled(k)
  <2>1. \A i \in 1 .. Len(stack) : ~ Pending(i, k)
    BY <1>1, <1>2 DEF Pending, top, Active, CallPC, LookUps, PutLocks, Puts
  <2> QED
    BY <2>1 DEF DeliveryInv, KeysServed
<1>9. f.pc \in Active => OnTrack(f) \/ Settled(f.key)
  BY <1>3, <1>8 DEF OnTrack
<1>10. top.pc \notin Active
  BY <1>1 DEF Active, CallPC, LookUps, PutLocks, Puts
<1>11. CallInv' /\ DeliveryInv'
  BY <1>1, <1>3, <1>5, <1>7, <1>9, <1>10, Moved
<1> QED
  BY <1>6, <1>11 DEF IInv

LEMMA LookUpStep ==
  ASSUME TypeOK, CallInv, DeliveryInv, LookUp
  PROVE  IInv'
<1> DEFINE f == [top EXCEPT !.pc = AfterLookUp(top.pc), !.proc = processes[top.key]]
<1>1. /\ processes' = processes /\ states' = states /\ worker' = worker
      /\ top.pc \in LookUps /\ SetTop(f)
  BY DEF LookUp
<1>2. top.pc \in Active /\ top.pc \in CallPC /\ top.key \in Key
  BY <1>1, TopFacts DEF Active, CallPC
<1>3. processes[top.key] \in Proc /\ processes[top.key] # None
  <2>1. processes[top.key] # None
    BY <1>1, <1>2, TopInv, TopFacts DEF CallOK, CallInv, DictOK, LookUps, IsMain, MainPC, Active, CallPC, PutLocks, Puts
  <2> QED
    BY <1>2, <2>1 DEF TypeOK
<1>4. /\ f \in Frame /\ f.pc = AfterLookUp(top.pc) /\ f.key = top.key
      /\ f.state = top.state /\ f.proc = processes[top.key] /\ f.todo = top.todo
  BY <1>1, <1>3, TopFacts DEF Frame, PC, HandlerPC, CallPC, LookUps, PutLocks, Puts, AfterLookUp
<1> HIDE DEF f
<1>5. /\ top.pc = "getstart" => f.pc = "start"
      /\ top.pc = "getpill" => f.pc = "lockpill"
      /\ top.pc = "getupdate" => f.pc = "lockupdate"
      /\ f.pc \in {"start", "lockpill", "lockupdate"}
  BY <1>1, <1>4 DEF AfterLookUp, LookUps
<1>6. IF IsMain THEN f.pc \in MainPC ELSE f.pc \in HandlerPC
  BY <1>1, <1>5, TopFacts DEF MainPC, HandlerPC, CallPC, PutLocks, LookUps
<1>7. StackOK'
  BY <1>1, <1>2, <1>4, <1>6, SetTopType, TopFacts
<1>8. TypeOK'
  BY <1>7 DEF TypeOK, LookUp, world
<1>9. CallOK(Len(stack), f)
  <2>1. worker[f.proc].key = f.key /\ worker[f.proc].phase # "free"
    BY <1>2, <1>3, <1>4 DEF CallInv, DictOK
  <2> QED
    BY <1>1, <1>2, <1>3, <1>4, <1>5, <2>1, TopInv DEF CallOK, LookUps
<1>10. OnTrack(f) \/ Settled(f.key)
  BY <1>1, <1>2, <1>4, <1>5, TopInv DEF OnTrack, LookUps
<1>11. f.pc \in Active
  BY <1>5 DEF Active, CallPC, PutLocks
<1>12. CallInv' /\ DeliveryInv'
  BY <1>1, <1>4, <1>7, <1>9, <1>10, <1>11, Moved
<1> QED
  BY <1>8, <1>12 DEF IInv

LEMMA GetConfStep ==
  ASSUME TypeOK, CallInv, DeliveryInv, GetConf
  PROVE  IInv'
<1> DEFINE f == [top EXCEPT !.pc = "create", !.conf = IF IsMain THEN ifstate ELSE @]
<1>1. /\ processes' = processes /\ states' = states /\ worker' = worker
      /\ top.pc = "getconf" /\ SetTop(f)
  BY DEF GetConf
<1>2. top.pc \in Active /\ top.pc \in CallPC /\ top.key \in Key
  BY <1>1, TopFacts DEF Active, CallPC
<1>3. /\ f \in Frame /\ f.pc = "create" /\ f.key = top.key
      /\ f.state = top.state /\ f.proc = top.proc /\ f.todo = top.todo
  BY TopFacts DEF TypeOK, Frame, PC, HandlerPC, CallPC
<1> HIDE DEF f
<1>4. f.pc \in MainPC /\ f.pc \in HandlerPC /\ f.pc \in Active /\ f.pc \in CallPC
  BY <1>3 DEF MainPC, HandlerPC, Active, CallPC
<1>5. StackOK'
  BY <1>1, <1>2, <1>3, <1>4, SetTopType, TopFacts
<1>6. TypeOK'
  BY <1>5 DEF TypeOK, GetConf, world
<1>7. CallOK(Len(stack), f)
  BY <1>2, <1>3, TopInv DEF CallOK, HasObject, PutLocks, Puts
<1>8. OnTrack(f)
  BY <1>3 DEF OnTrack
<1>9. CallInv' /\ DeliveryInv'
  BY <1>1, <1>3, <1>4, <1>5, <1>7, <1>8, Moved
<1> QED
  BY <1>6, <1>9 DEF IInv

LEMMA SighupStep ==
  ASSUME TypeOK, CallInv, DeliveryInv, Entered
  PROVE  IInv'
<1>1. StackOK'
  BY PushType DEF Entered, Sighup
<1>2. TypeOK'
  BY <1>1 DEF TypeOK, Entered, Sighup, world
<1>3. CallInv' /\ DeliveryInv'
  BY Pushed DEF Entered, Sighup
<1> QED
  BY <1>2, <1>3 DEF IInv

LEMMA LoadConfigStep ==
  ASSUME TypeOK, CallInv, DeliveryInv, LoadConfig
  PROVE  IInv'
<1> DEFINE f == [top EXCEPT !.pc = "callback", !.conf = file]
<1>1. /\ processes' = processes /\ states' = states /\ worker' = worker
      /\ top.pc = "load" /\ (Return \/ SetTop(f))
  BY DEF LoadConfig
<1>2. /\ top.pc \notin Active /\ ~ IsMain
      /\ f.pc = "callback" /\ f.key = top.key /\ f.todo = top.todo /\ f \in Frame
      /\ f.pc \in HandlerPC /\ f.pc \notin Active \cup CallPC \cup HasObject
  BY <1>1, TopFacts DEF TypeOK, Active, MainPC, HandlerPC, PC, CallPC, HasObject,
                        LookUps, PutLocks, Puts, Frame
<1> HIDE DEF f
<1>3. CASE Return
  <2>1. StackOK' /\ CallInv' /\ DeliveryInv'
    BY <1>1, <1>2, <1>3, ReturnType, Returned
  <2> QED
    BY <2>1 DEF IInv, TypeOK, LoadConfig, world
<1>4. CASE SetTop(f)
  <2>1. StackOK'
    BY <1>2, <1>4, SetTopType
  <2>2. CallOK(Len(stack), f)
    <3>1. Len(stack) > 1 => \A k \in top.todo : states[k] # None
      BY TopInv DEF CallOK
    <3> QED
      BY <1>2, <3>1, TopFacts DEF CallOK
  <2>3. CallInv' /\ DeliveryInv'
    BY <1>1, <1>2, <1>4, <2>1, <2>2, Moved
  <2> QED
    BY <2>1, <2>3 DEF IInv, TypeOK, LoadConfig, world
<1> QED
  BY <1>1, <1>3, <1>4

LEMMA CallbackStep ==
  ASSUME TypeOK, CallInv, DeliveryInv, Callback
  PROVE  IInv'
<1> DEFINE f == [top EXCEPT !.pc = "next", !.todo = {k \in Key : states[k] # None}]
<1>1. /\ processes' = processes /\ states' = states /\ worker' = worker
      /\ top.pc = "callback" /\ SetTop(f)
  BY DEF Callback
<1>2. /\ top.pc \notin Active /\ ~ IsMain /\ top.conf \in Nat
      /\ f.pc = "next" /\ f.todo = {k \in Key : states[k] # None} /\ f \in Frame
      /\ f.pc \in HandlerPC /\ f.pc \notin Active \cup CallPC \cup HasObject
  BY <1>1, TopFacts DEF TypeOK, Active, MainPC, HandlerPC, PC, CallPC, HasObject,
                        LookUps, PutLocks, Puts, Frame
<1> HIDE DEF f
<1>3. StackOK'
  BY <1>1, <1>2, SetTopType
<1>4. CallOK(Len(stack), f)
  BY <1>2, TopFacts DEF CallOK
<1>5. CallInv' /\ DeliveryInv'
  BY <1>1, <1>2, <1>3, <1>4, Moved
<1> QED
  BY <1>2, <1>3, <1>5 DEF IInv, TypeOK, Callback, world

LEMMA NextKeyStep ==
  ASSUME TypeOK, CallInv, DeliveryInv, NextKey
  PROVE  IInv'
<1>1. /\ processes' = processes /\ states' = states /\ worker' = worker
      /\ top.pc = "next"
  BY DEF NextKey
<1>2. top.pc \notin Active /\ ~ IsMain
  BY <1>1, TopFacts DEF Active, MainPC, CallPC, LookUps, PutLocks, Puts
<1>3. CASE Return
  <2>1. StackOK' /\ CallInv' /\ DeliveryInv'
    BY <1>1, <1>2, <1>3, ReturnType, Returned
  <2> QED
    BY <2>1 DEF IInv, TypeOK, NextKey, world
<1>4. ASSUME NEW k \in top.todo,
             SetTop([top EXCEPT !.pc = "getpill", !.key = k, !.todo = @ \ {k}])
      PROVE  IInv'
  <2> DEFINE f == [top EXCEPT !.pc = "getpill", !.key = k, !.todo = @ \ {k}]
  <2>1. top.todo \subseteq Key /\ \A kk \in top.todo : states[kk] # None
    BY <1>2, TopInv, TopFacts DEF CallOK, Frame
  <2>2. /\ f \in Frame /\ f.pc = "getpill" /\ f.key = k /\ f.todo = top.todo \ {k}
        /\ f.pc \in HandlerPC /\ f.pc \notin HasObject
    BY <2>1, TopFacts DEF Frame, PC, HandlerPC, CallPC, HasObject, LookUps, PutLocks, Puts
  <2>3. SetTop(f)
    BY <1>4
  <2> HIDE DEF f
  <2>4. StackOK'
    BY <1>2, <2>1, <2>2, <2>3, SetTopType
  <2>5. CallOK(Len(stack), f)
    BY <1>2, <2>1, <2>2, TopFacts DEF CallOK
  <2>6. OnTrack(f)
    BY <2>2 DEF OnTrack
  <2>7. CallInv' /\ DeliveryInv'
    BY <1>1, <1>2, <2>2, <2>3, <2>4, <2>5, <2>6, Moved
  <2> QED
    BY <2>4, <2>7 DEF IInv, TypeOK, NextKey, world
<1> QED
  BY <1>3, <1>4 DEF NextKey

\* A step on the worker p of key kk leaves the other keys' workers alone.
LEMMA OthersKept ==
  ASSUME TypeOK, CallInv, NEW kk \in Key, NEW p \in Proc,
         worker[p].phase = "free" \/ worker[p].key = kk,
         \A q \in Proc : q # p => worker'[q] = worker[q],
         worker'[p].key = kk, worker'[p].phase # "free",
         states' = states,
         \A k \in Key : k # kk => processes'[k] = processes[k],
         processes'[kk] = processes[kk] \/ processes'[kk] = p
  PROVE  DictOK' /\ Keeps(Key \ {kk})
<1>1. \A k \in Key : processes[k] \in Proc \cup {None} /\ p # None
  BY NoneAssumption DEF TypeOK
<1>2. \A k \in Key : k # kk /\ processes[k] # None =>
        processes[k] \in Proc /\ processes[k] # p /\ worker'[processes[k]] = worker[processes[k]]
  BY <1>1 DEF CallInv, DictOK
<1>3. processes[kk] # None =>
        worker'[processes[kk]].key = kk /\ worker'[processes[kk]].phase # "free"
  BY <1>1 DEF CallInv, DictOK
<1>4. DictOK'
  BY <1>1, <1>2, <1>3 DEF CallInv, DictOK
<1>5. \A q \in Proc : worker[q].phase # "free" =>
        worker'[q].key = worker[q].key /\ worker'[q].phase # "free"
  OBVIOUS
<1>6. \A i \in Nat, g \in Frame :
        (g.pc \in Active => g.key \in Key) /\ CallOK(i, g) => CallOK(i, g)'
  <2> SUFFICES ASSUME NEW i \in Nat, NEW g \in Frame,
                      g.pc \in Active => g.key \in Key, CallOK(i, g)
               PROVE  CallOK(i, g)'
    OBVIOUS
  <2>1. g.pc \in {"getstart", "getupdate", "setstate"} => processes'[g.key] # None
    BY <1>1 DEF CallOK, Active, CallPC, LookUps
  <2>2. g.pc \in HasObject =>
          g.proc \in Proc /\ worker'[g.proc].key = g.key /\ worker'[g.proc].phase # "free"
    BY <1>5 DEF CallOK
  <2> QED
    BY <2>1, <2>2 DEF CallOK
<1>7. \A k \in Key : k # kk /\ Settled(k) => Settled(k)'
  BY <1>2 DEF Settled, Delivered, Running, Pilled, LastGiven
<1>8. \A i \in Nat, g \in Frame :
        g.pc \in Active /\ g.key \in Key \ {kk} /\ CallOK(i, g) /\ OnTrack(g) => OnTrack(g)'
  <2> SUFFICES ASSUME NEW i \in Nat, NEW g \in Frame, g.key \in Key \ {kk},
                      CallOK(i, g), OnTrack(g)
               PROVE  OnTrack(g)'
    OBVIOUS
  <2>1. processes'[g.key] = processes[g.key]
    OBVIOUS
  <2>2. CASE processes[g.key] # None
    BY <1>2, <2>1, <2>2 DEF OnTrack, Fresh, Usable, Running, Pilled
  <2>3. CASE processes[g.key] = None
    BY <1>1, <2>1, <2>3, NoneAssumption DEF OnTrack, CallOK, HasObject, PutLocks, Puts
  <2> QED
    BY <2>2, <2>3
<1> QED
  BY <1>4, <1>6, <1>7, <1>8 DEF Keeps

\* A running frame that changes its program point while it acts on its key.
LEMMA FrameGoto ==
  ASSUME TypeOK, top.pc \in Active, NEW pc \in Active,
         IF IsMain THEN pc \in MainPC ELSE pc \in HandlerPC,
         NEW f, f = [top EXCEPT !.pc = pc], SetTop(f)
  PROVE  /\ f \in Frame /\ f.pc = pc /\ f.key = top.key /\ top.key \in Key
         /\ f.state = top.state /\ f.proc = top.proc /\ f.todo = top.todo
         /\ StackOK'
<1>1. pc \in PC
  BY DEF PC
<1>2. Goto(pc)
  BY DEF Goto
<1> QED
  BY <1>1, <1>2, GotoType, TopFacts DEF Frame

LEMMA PutPillStep ==
  ASSUME TypeOK, CallInv, DeliveryInv, PutPill
  PROVE  IInv'
<1>0. PICK n, kk, p, f :
        n = Len(stack) /\ kk = top.key /\ p = top.proc /\ f = [top EXCEPT !.pc = "getconf"]
  OBVIOUS
<1>1. top.pc = "putpill" /\ SetTop(f) /\ processes' = processes /\ states' = states
  BY <1>0 DEF PutPill, Goto
<1>2. top.pc \in Active /\ "getconf" \in Active /\ "getconf" \in MainPC /\ "getconf" \in HandlerPC
  BY <1>1 DEF Active, CallPC, Puts, MainPC, HandlerPC
<1>3. /\ f \in Frame /\ f.pc = "getconf" /\ f.key = kk /\ kk \in Key /\ f.todo = top.todo
      /\ StackOK'
  BY <1>0, <1>1, <1>2, FrameGoto
<1>4. CallOK(n, top) /\ n \in Nat /\ p \in Proc /\ worker[p].key = kk /\ worker[p].phase # "free"
  BY <1>0, <1>1, TopInv, TopFacts DEF CallOK, HasObject, Puts
<1>5. worker' = [worker EXCEPT ![p].queue = Append(@, None)]
  BY <1>0 DEF PutPill
<1>6. worker' \in [Proc -> WorkerRecord]
  BY <1>4, <1>5, WorkerType
<1>7. TypeOK'
  BY <1>3, <1>6 DEF TypeOK, PutPill, world
<1>8. /\ worker'[p].key = kk /\ worker'[p].phase # "free"
      /\ \A q \in Proc : q # p => worker'[q] = worker[q]
  BY <1>4, <1>5 DEF TypeOK, WorkerRecord
<1>9. DictOK' /\ Keeps(Key \ {kk})
  BY <1>1, <1>3, <1>4, <1>8, OthersKept
<1>10. CallOK(n, f)'
  BY <1>0, <1>1, <1>2, <1>3, <1>4 DEF CallOK, HasObject, PutLocks, Puts, CallPC
<1>11. OnTrack(f)'
  BY <1>3 DEF OnTrack
<1>12. CallInv' /\ DeliveryInv'
  BY <1>0, <1>1, <1>2, <1>3, <1>9, <1>10, <1>11, Acted
<1> QED
  BY <1>7, <1>12 DEF IInv

\* A state put into the queue of a worker that is not told to stop becomes
\* the last item it was given.
LEMMA PutDelivers ==
  ASSUME TypeOK, NEW p \in Proc, NEW e \in State, Usable(p),
         worker' = [worker EXCEPT ![p].queue = Append(@, e)]
  PROVE  Running(p)' /\ ~ Pilled(p)' /\ LastGiven(p)' = e
<1> DEFINE q == worker[p].queue
<1>1. q \in Seq(State \cup {None}) /\ e # None
  BY NoneAssumption DEF TypeOK, WorkerRecord
<1>2. worker'[p].queue = Append(q, e) /\ worker'[p].phase = worker[p].phase
  BY DEF TypeOK, WorkerRecord
<1> HIDE DEF q
<1>3. /\ Append(q, e) # <<>> /\ Append(q, e)[Len(Append(q, e))] = e
      /\ \A i \in 1 .. Len(Append(q, e)) :
           Append(q, e)[i] = e \/ (i \in 1 .. Len(q) /\ Append(q, e)[i] = q[i])
  BY <1>1
<1>4. \A i \in 1 .. Len(q) : q[i] # None
  BY DEF Usable, Pilled, q
<1>5. ~ Pilled(p)'
  BY <1>1, <1>2, <1>3, <1>4 DEF Pilled
<1> QED
  BY <1>2, <1>3, <1>5 DEF Usable, Running, LastGiven

LEMMA PutUpdateStep ==
  ASSUME TypeOK, CallInv, DeliveryInv, PutUpdate
  PROVE  IInv'
<1>0. PICK n, kk, p, e, pc, f :
        /\ n = Len(stack) /\ kk = top.key /\ p = top.proc
        /\ e = (IF IsMain THEN top.state ELSE states[top.key])
        /\ pc = (IF IsMain THEN "readline" ELSE "next")
        /\ f = [top EXCEPT !.pc = pc]
  OBVIOUS
<1>1. /\ top.pc = "putupdate" /\ SetTop(f) /\ Goto(pc)
      /\ processes' = processes /\ states' = states
      /\ worker' = [worker EXCEPT ![p].queue = Append(@, e)]
  BY <1>0 DEF PutUpdate, Goto
<1>2. /\ top.pc \in Active /\ pc \notin Active /\ pc \in PC /\ top.pc \in CallPC
      /\ IF IsMain THEN pc \in MainPC ELSE pc \in HandlerPC
  BY <1>0, <1>1 DEF Active, CallPC, LookUps, PutLocks, Puts, PC, MainPC, HandlerPC
<1>3. f \in Frame /\ f.pc = pc /\ f.key = kk /\ kk \in Key /\ f.todo = top.todo
  BY <1>0, <1>2, TopFacts DEF Frame
<1>4. StackOK'
  BY <1>1, <1>2, GotoType
<1>5. /\ n \in Nat /\ p \in Proc /\ worker[p].key = kk /\ worker[p].phase # "free"
      /\ n > 1 => (\A k \in top.todo : states[k] # None) /\ states[kk] # None
      /\ n = 1 => states[kk] = top.state
  BY <1>0, <1>1, <1>2, TopInv, TopFacts DEF CallOK, HasObject, Puts
<1>6. e = states[kk] /\ e \in State
  <2>1. CASE IsMain
    BY <1>0, <1>2, <1>5, <2>1, TopFacts DEF IsMain
  <2>2. CASE ~ IsMain
    BY <1>0, <1>3, <1>5, <2>2, TopFacts DEF TypeOK
  <2> QED
    BY <2>1, <2>2
<1>7. worker' \in [Proc -> WorkerRecord]
  BY <1>1, <1>5, <1>6, WorkerType
<1>8. TypeOK'
  BY <1>4, <1>7 DEF TypeOK, PutUpdate, world
<1>9. /\ worker'[p].key = kk /\ worker'[p].phase # "free"
      /\ \A q \in Proc : q # p => worker'[q] = worker[q]
  BY <1>1, <1>5 DEF TypeOK, WorkerRecord
<1>10. DictOK' /\ Keeps(Key \ {kk})
  BY <1>1, <1>3, <1>5, <1>9, OthersKept
<1>11. CallOK(n, f)'
  BY <1>0, <1>1, <1>2, <1>3, <1>5 DEF CallOK, HasObject, PutLocks, Puts, CallPC, Active
<1>12. Settled(kk)'
  <2>1. processes[kk] # None /\ processes[kk] \in Proc
    BY <1>3, <1>5, <1>6, NoneAssumption DEF CallInv, DictOK, TypeOK
  <2>2. Settled(kk) \/ (p = processes[kk] /\ Usable(p))
    BY <1>0, <1>1, <1>2, TopInv DEF OnTrack
  <2>3. CASE p = processes[kk]
    <3>1. Usable(p)
      BY <2>2, <2>3 DEF Settled, Delivered, Usable
    <3> QED
      BY <1>1, <1>5, <1>6, <2>1, <2>3, <3>1, PutDelivers DEF Settled, Delivered
  <2>4. CASE p # processes[kk]
    <3>1. worker'[processes[kk]] = worker[processes[kk]]
      BY <1>9, <2>1, <2>4
    <3> QED
      BY <1>1, <2>2, <2>4, <3>1 DEF Settled, Delivered, Running, Pilled, LastGiven
  <2> QED
    BY <2>3, <2>4
<1>13. CallInv' /\ DeliveryInv'
  BY <1>0, <1>1, <1>2, <1>3, <1>4, <1>10, <1>11, <1>12, Acted
<1> QED
  BY <1>8, <1>13 DEF IInv

LEMMA SetStateStep ==
  ASSUME TypeOK, CallInv, DeliveryInv, SetState
  PROVE  IInv'
<1>0. PICK n, kk, f : n = Len(stack) /\ kk = top.key /\ f = [top EXCEPT !.pc = "getupdate"]
  OBVIOUS
<1>1. /\ top.pc = "setstate" /\ SetTop(f) /\ processes' = processes /\ worker' = worker
      /\ states' = [states EXCEPT ![kk] = top.state]
  BY <1>0 DEF SetState, Goto
<1>2. /\ IsMain /\ n = 1 /\ top.pc \in Active
      /\ "getupdate" \in Active /\ "getupdate" \in MainPC
  BY <1>0, <1>1, TopFacts DEF HandlerPC, MainPC, Active, CallPC, LookUps, PutLocks, Puts, IsMain
<1>3. /\ f \in Frame /\ f.pc = "getupdate" /\ f.key = kk /\ kk \in Key
      /\ f.state = top.state /\ StackOK'
  BY <1>0, <1>1, <1>2, FrameGoto
<1>4. top.state \in State /\ top.state # None
  BY <1>2, TopFacts, NoneAssumption
<1>5. TypeOK'
  BY <1>1, <1>3, <1>4 DEF TypeOK, SetState, world
<1>6. processes[kk] # None
  BY <1>0, <1>1, TopInv DEF CallOK
<1>7. DictOK'
  BY <1>1, <1>3, <1>6 DEF CallInv, DictOK, TypeOK
<1>8. CallOK(n, f)'
  BY <1>1, <1>2, <1>3, <1>6 DEF CallOK, HasObject, PutLocks, Puts, TypeOK
<1>9. OnTrack(f)'
  <2>1. Usable(processes[kk])
    BY <1>0, <1>1, <1>2, TopInv DEF OnTrack, Settled, Delivered, Usable
  <2> QED
    BY <1>1, <1>3, <2>1 DEF OnTrack, Usable, Running, Pilled
<1>10. CallInv'
  <2>1. Len(stack') = 1 /\ stack'[1] = f
    BY <1>0, <1>1, <1>2, <1>3, SetTopFacts DEF TypeOK, StackOK
  <2> QED
    BY <1>2, <1>7, <1>8, <2>1 DEF CallInv
<1>11. DeliveryInv'
  <2>1. Len(stack') = 1 /\ stack'[1] = f
    BY <1>0, <1>1, <1>2, <1>3, SetTopFacts DEF TypeOK, StackOK
  <2>2. \A k \in Key : k # kk /\ processes[k] # None => Settled(k)'
    <3> SUFFICES ASSUME NEW k \in Key, k # kk, processes[k] # None PROVE Settled(k)'
      OBVIOUS
    <3>1. \A i \in 1 .. Len(stack) : ~ Pending(i, k)
      BY <1>0, <1>2 DEF Pending, top
    <3>2. Settled(k)
      BY <3>1 DEF DeliveryInv, KeysServed
    <3> QED
      BY <1>1, <3>2 DEF Settled, Delivered, Running, Pilled, LastGiven, TypeOK
  <2>3. Pending(1, kk)'
    BY <1>2, <1>3, <2>1 DEF Pending
  <2>4. KeysServed'
    BY <1>1, <2>1, <2>2, <2>3 DEF KeysServed
  <2>5. FramesServed'
    BY <1>9, <2>1 DEF FramesServed
  <2> QED
    BY <2>4, <2>5 DEF DeliveryInv
<1> QED
  BY <1>5, <1>10, <1>11 DEF IInv

LEMMA CreateProcessStep ==
  ASSUME TypeOK, CallInv, DeliveryInv, NEW p \in Proc, CreateProcess(p)
  PROVE  IInv'
<1>0. PICK n, kk, r, f :
        /\ n = Len(stack) /\ kk = top.key /\ f = [top EXCEPT !.pc = "getstart"]
        /\ r = [key |-> top.key, conf |-> top.conf,
                phase |-> "new", queue |-> <<>>, state |-> None]
  OBVIOUS
<1>1. /\ top.pc = "create" /\ SetTop(f) /\ states' = states /\ worker[p].phase = "free"
      /\ worker' = [worker EXCEPT ![p] = r]
      /\ processes' = [processes EXCEPT ![kk] = p]
  BY <1>0 DEF CreateProcess, Goto
<1>2. /\ top.pc \in Active /\ top.pc \in CallPC
      /\ "getstart" \in Active /\ "getstart" \in MainPC /\ "getstart" \in HandlerPC
  BY <1>1 DEF MainPC, HandlerPC, Active, CallPC, LookUps
<1>3. /\ f \in Frame /\ f.pc = "getstart" /\ f.key = kk /\ kk \in Key
      /\ f.todo = top.todo /\ StackOK'
  BY <1>0, <1>1, <1>2, FrameGoto
<1>4. r \in WorkerRecord /\ r.key = kk /\ r.phase = "new" /\ r.queue = <<>>
  BY <1>0, <1>3, TopFacts DEF WorkerRecord, TypeOK, Frame
<1>5. worker' \in [Proc -> WorkerRecord] /\ processes' \in [Key -> Proc \cup {None}]
  BY <1>1, <1>4 DEF TypeOK
<1>6. TypeOK'
  BY <1>3, <1>5 DEF TypeOK, CreateProcess, world
<1>7. /\ worker'[p] = r /\ (\A q \in Proc : q # p => worker'[q] = worker[q])
      /\ processes'[kk] = p /\ (\A k \in Key : k # kk => processes'[k] = processes[k])
  BY <1>1, <1>3 DEF TypeOK
<1>8. DictOK' /\ Keeps(Key \ {kk})
  BY <1>1, <1>3, <1>4, <1>7, OthersKept
<1>9. CallOK(n, f)'
  <2>1. /\ n > 1 => (\A k \in top.todo : states[k] # None) /\ states[kk] # None
        /\ p # None
    BY <1>0, <1>2, TopInv, NoneAssumption DEF CallOK
  <2> QED
    BY <1>1, <1>3, <1>7, <2>1 DEF CallOK, HasObject, PutLocks, Puts
<1>10. OnTrack(f)'
  BY <1>3, <1>4, <1>7 DEF OnTrack, Fresh
<1>11. CallInv' /\ DeliveryInv'
  BY <1>0, <1>1, <1>2, <1>3, <1>8, <1>9, <1>10, Acted
<1> QED
  BY <1>6, <1>11 DEF IInv

LEMMA StartProcessStep ==
  ASSUME TypeOK, CallInv, DeliveryInv, StartProcess
  PROVE  IInv'
<1>0. PICK n, kk, p, pc, f :
        /\ n = Len(stack) /\ kk = top.key /\ p = top.proc
        /\ pc = (IF IsMain THEN "setstate" ELSE "getupdate")
        /\ f = [top EXCEPT !.pc = pc]
  OBVIOUS
<1>1. top.pc = "start" /\ processes' = processes /\ states' = states
  BY DEF StartProcess
<1>2. /\ top.pc \in Active /\ top.pc \in CallPC /\ pc \in Active
      /\ IF IsMain THEN pc \in MainPC ELSE pc \in HandlerPC
      /\ pc \in {"setstate", "getupdate"} /\ (IsMain => pc = "setstate")
  BY <1>0, <1>1 DEF MainPC, HandlerPC, Active, CallPC, LookUps
<1>3. /\ n \in Nat /\ p \in Proc /\ worker[p].key = kk /\ worker[p].phase # "free" /\ kk \in Key
      /\ n > 1 => (\A k \in top.todo : states[k] # None) /\ states[kk] # None
  BY <1>0, <1>1, <1>2, TopInv, TopFacts DEF CallOK, HasObject
<1>4. (p = processes[kk] /\ Fresh(p)) \/ Settled(kk)
  BY <1>0, <1>1, <1>2, TopInv DEF OnTrack
<1>5. CASE worker[p].phase = "new"
  <2>1. SetTop(f) /\ worker' = [worker EXCEPT ![p].phase = "idle"]
    BY <1>0, <1>5 DEF StartProcess, Goto
  <2>2. /\ f \in Frame /\ f.pc = pc /\ f.key = kk /\ f.todo = top.todo /\ StackOK'
    BY <1>0, <1>2, <2>1, FrameGoto
  <2>3. worker' \in [Proc -> WorkerRecord]
    BY <1>3, <2>1, WorkerType
  <2>4. TypeOK'
    BY <2>2, <2>3 DEF TypeOK, StartProcess, world
  <2>5. /\ worker'[p].key = kk /\ worker'[p].phase = "idle" /\ worker'[p].queue = worker[p].queue
        /\ worker'[p].state = worker[p].state
        /\ \A q \in Proc : q # p => worker'[q] = worker[q]
    BY <1>3, <2>1 DEF TypeOK, WorkerRecord
  <2>6. DictOK' /\ Keeps(Key \ {kk})
    BY <1>1, <1>3, <2>5, OthersKept
  <2>7. processes[kk] # None /\ processes[kk] \in Proc
    <3>1. processes[kk] # None
      BY <1>3, <1>4, NoneAssumption DEF Settled
    <3> QED
      BY <1>3, <3>1 DEF TypeOK
  <2>8. CallOK(n, f)'
    <3>1. n = 1 => pc = "setstate"
      BY <1>0, <1>2 DEF IsMain
    <3> QED
      BY <1>1, <1>2, <1>3, <2>2, <2>7, <3>1 DEF CallOK, HasObject, PutLocks, Puts
  <2>9. OnTrack(f)' \/ Settled(kk)'
    <3>1. CASE p = processes[kk] /\ Fresh(p)
      <4>1. Usable(p)'
        BY <2>5, <3>1 DEF Fresh, Usable, Running, Pilled
      <4> QED
        BY <1>1, <1>2, <2>2, <3>1, <4>1 DEF OnTrack
    <3>2. CASE Settled(kk)
      <4>1. processes[kk] # p
        BY <1>5, <3>2 DEF Settled, Delivered, Running
      <4>2. worker'[processes[kk]] = worker[processes[kk]]
        BY <2>5, <2>7, <4>1
      <4> QED
        BY <1>1, <3>2, <4>2 DEF Settled, Delivered, Running, Pilled, LastGiven
    <3> QED
      BY <1>4, <3>1, <3>2
  <2>10. CallInv' /\ DeliveryInv'
    BY <1>0, <1>2, <1>3, <2>1, <2>2, <2>6, <2>8, <2>9, Acted
  <2> QED
    BY <2>4, <2>10 DEF IInv
<1>6. CASE worker[p].phase # "new"
  <2>1. worker' = worker /\ Raise
    BY <1>0, <1>6 DEF StartProcess
  <2>2. Settled(top.key)
    BY <1>0, <1>4, <1>6 DEF Fresh
  <2>3. StackOK' /\ CallInv' /\ DeliveryInv'
    <3>1. CASE ~ IsMain
      BY <1>1, <2>1, <2>2, <3>1, ReturnType, Returned DEF Raise
    <3>2. CASE IsMain
      <4> DEFINE g == [top EXCEPT !.pc = "removepid"]
      <4>1. /\ Goto("removepid") /\ "removepid" \in PC /\ "removepid" \in MainPC
            /\ "removepid" \notin Active \cup CallPC \cup HasObject
        BY <2>1, <3>2 DEF Raise, PC, MainPC, Active, CallPC, HasObject, LookUps, PutLocks, Puts
      <4>2. StackOK'
        BY <3>2, <4>1, GotoType
      <4>3. g.pc = "removepid" /\ Len(stack) = 1
        BY <3>2, TopFacts DEF Frame, IsMain
      <4>4. CallOK(Len(stack), g)
        BY <4>1, <4>3 DEF CallOK
      <4> HIDE DEF g
      <4>5. CallInv' /\ DeliveryInv'
        BY <1>1, <2>1, <2>2, <4>1, <4>2, <4>4, MovedTo DEF g
      <4> QED
        BY <4>2, <4>5
    <3> QED
      BY <3>1, <3>2
  <2> QED
    BY <2>1, <2>3 DEF IInv, TypeOK, StartProcess, world
<1> QED
  BY <1>5, <1>6

\* A worker's own step keeps what the main thread relies on.
LEMMA WorkerKeeps ==
  ASSUME TypeOK, CallInv, NEW p \in Proc,
         worker[p].phase \in {"idle", "busy"},
         processes' = processes, states' = states,
         \A q \in Proc : q # p => worker'[q] = worker[q],
         worker'[p].key = worker[p].key,
         worker'[p].phase # "free",
         Usable(p) => Usable(p)' /\ LastGiven(p)' = LastGiven(p)
  PROVE  DictOK' /\ Keeps(Key)
<1>1. \A k \in Key : processes[k] \in Proc \cup {None}
  BY DEF TypeOK
<1>2. \A q \in Proc : /\ worker'[q].key = worker[q].key
                      /\ worker[q].phase # "free" => worker'[q].phase # "free"
  OBVIOUS
<1>3. DictOK'
  BY <1>1, <1>2 DEF CallInv, DictOK
<1>4. \A i \in Nat, g \in Frame :
        (g.pc \in Active => g.key \in Key) /\ CallOK(i, g) => CallOK(i, g)'
  BY <1>2 DEF CallOK
<1>5. \A q \in Proc : /\ Usable(q) => Usable(q)' /\ LastGiven(q)' = LastGiven(q)
                      /\ Fresh(q) => Fresh(q)'
  <2> SUFFICES ASSUME NEW q \in Proc
               PROVE  /\ Usable(q) => Usable(q)' /\ LastGiven(q)' = LastGiven(q)
                      /\ Fresh(q) => Fresh(q)'
    OBVIOUS
  <2>1. CASE q = p
    BY <2>1 DEF Fresh
  <2>2. CASE q # p
    BY <2>2 DEF Fresh, Usable, Running, Pilled, LastGiven
  <2> QED
    BY <2>1, <2>2
<1>6. \A k \in Key : Settled(k) => Settled(k)'
  BY <1>1, <1>5 DEF Settled, Delivered, Usable
<1>7. \A i \in Nat, g \in Frame :
        g.pc \in Active /\ g.key \in Key /\ CallOK(i, g) /\ OnTrack(g) => OnTrack(g)'
  <2> SUFFICES ASSUME NEW i \in Nat, NEW g \in Frame, g.key \in Key,
                      CallOK(i, g), OnTrack(g)
               PROVE  OnTrack(g)'
    OBVIOUS
  <2>1. CASE processes[g.key] # None
    BY <1>1, <1>5, <2>1 DEF OnTrack
  <2>2. CASE processes[g.key] = None
    BY <2>2, NoneAssumption DEF OnTrack, CallOK, HasObject, PutLocks, Puts
  <2> QED
    BY <2>1, <2>2
<1> QED
  BY <1>3, <1>4, <1>6, <1>7 DEF Keeps

\* Taking the first item leaves the last one where it was.
LEMMA TailFacts ==
  ASSUME NEW S, NEW q \in Seq(S), q # <<>>
  PROVE  IF Tail(q) = <<>> THEN q[Len(q)] = Head(q)
                           ELSE Tail(q)[Len(Tail(q))] = q[Len(q)]
<1>1. /\ Len(q) \in Nat /\ Len(q) # 0 /\ Len(Tail(q)) = Len(q) - 1 /\ Head(q) = q[1]
      /\ Tail(q) \in Seq(S)
      /\ \A i \in 1 .. Len(q) - 1 : Tail(q)[i] = q[i + 1]
  OBVIOUS
<1>2. CASE Tail(q) = <<>>
  <2>1. Len(Tail(q)) = 0
    BY <1>2, EmptySeq, Zenon
  <2>2. \A n \in Nat : n - 1 = 0 => n = 1
    OBVIOUS
  <2>3. Len(q) - 1 = 0
    BY <1>1, <2>1, Zenon
  <2>4. Len(q) = 1
    BY <1>1, <2>2, <2>3, Zenon
  <2> QED
    BY <1>1, <1>2, <2>4
<1>3. CASE Tail(q) # <<>>
  <2>1. Len(Tail(q)) # 0 /\ Len(Tail(q)) \in Nat
    BY <1>1, <1>3
  <2>2. Len(Tail(q)) \in 1 .. Len(q) - 1 /\ Len(Tail(q)) + 1 = Len(q)
    BY <1>1, <2>1
  <2> QED
    BY <1>1, <1>3, <2>2
<1> QED
  BY <1>2, <1>3

LEMMA WorkerGetStep ==
  ASSUME TypeOK, CallInv, DeliveryInv, NEW p \in Proc, WorkerGet(p)
  PROVE  IInv'
<1>0. PICK q, h, ph :
        /\ q = worker[p].queue /\ h = Head(q)
        /\ ph = (IF h = None THEN "done" ELSE "busy")
  OBVIOUS
<1>1. /\ worker[p].phase = "idle" /\ q # <<>> /\ q \in Seq(State \cup {None})
      /\ stack' = stack /\ processes' = processes /\ states' = states
  BY <1>0 DEF WorkerGet, daemon, TypeOK, WorkerRecord
<1>2. h \in State \cup {None} /\ Tail(q) \in Seq(State \cup {None}) /\ ph \in {"done", "busy"}
  BY <1>0, <1>1
<1>3. worker' = [worker EXCEPT ![p] = [worker[p] EXCEPT !.phase = ph, !.state = h, !.queue = Tail(q)]]
  BY <1>0 DEF WorkerGet, TypeOK, WorkerRecord
<1>4. [worker[p] EXCEPT !.phase = ph, !.state = h, !.queue = Tail(q)] \in WorkerRecord
  <2>1. worker[p] \in WorkerRecord
    BY DEF TypeOK
  <2>2. [worker[p] EXCEPT !.phase = ph] \in WorkerRecord
    BY <1>2, <2>1 DEF WorkerRecord
  <2> QED
    BY <1>2, <2>1, <2>2 DEF WorkerRecord
<1>5. worker' \in [Proc -> WorkerRecord]
  BY <1>3, <1>4 DEF TypeOK
<1>6. TypeOK'
  BY <1>5 DEF TypeOK, StackOK, WorkerGet, daemon, world
<1>7. /\ worker'[p].key = worker[p].key /\ worker'[p].phase = ph
      /\ worker'[p].state = h /\ worker'[p].queue = Tail(q)
      /\ \A w \in Proc : w # p => worker'[w] = worker[w]
  BY <1>3 DEF TypeOK, WorkerRecord
<1>8. Usable(p) => Usable(p)' /\ LastGiven(p)' = LastGiven(p)
  <2> SUFFICES ASSUME Usable(p) PROVE Usable(p)' /\ LastGiven(p)' = LastGiven(p)
    OBVIOUS
  <2>1. /\ \A i \in 1 .. Len(q) : q[i] # None
        /\ Len(q) \in Nat /\ Len(q) >= 1 /\ h = q[1] /\ Len(Tail(q)) = Len(q) - 1
        /\ \A i \in 1 .. Len(q) - 1 : Tail(q)[i] = q[i + 1]
    BY <1>0, <1>1 DEF Usable, Pilled
  <2>2. h # None /\ ph = "busy"
    BY <1>0, <2>1
  <2>3. \A i \in 1 .. Len(Tail(q)) : Tail(q)[i] # None
    BY <2>1
  <2>4. Usable(p)'
    BY <1>7, <2>2, <2>3 DEF Usable, Running, Pilled
  <2>5. LastGiven(p)' = LastGiven(p)
    BY <1>0, <1>1, <1>7, TailFacts DEF LastGiven
  <2> QED
    BY <2>4, <2>5
<1>9. DictOK' /\ Keeps(Key)
  BY <1>1, <1>2, <1>7, <1>8, WorkerKeeps
<1> QED
  BY <1>1, <1>6, <1>9, Undisturbed DEF IInv

\* An apply that returns or raises leaves the queue alone.
LEMMA WorkerEndStep ==
  ASSUME TypeOK, CallInv, DeliveryInv, NEW p \in Proc, WorkerApply(p) \/ WorkerDie(p)
  PROVE  IInv'
<1>1. PICK ph \in {"idle", "dead"} : worker' = [worker EXCEPT ![p].phase = ph]
  BY DEF WorkerApply, WorkerDie
<1>2. /\ worker[p].phase = "busy"
      /\ stack' = stack /\ processes' = processes /\ states' = states
  BY DEF WorkerApply, WorkerDie, daemon
<1>3. worker' \in [Proc -> WorkerRecord]
  BY <1>1, WorkerType
<1>4. kernel' \in [Key -> [conf : Nat, state : State \cup {None}]]
  <2>1. [conf |-> worker[p].conf, state |-> worker[p].state] \in [conf : Nat, state : State \cup {None}]
    BY DEF TypeOK, WorkerRecord
  <2> QED
    BY <2>1 DEF TypeOK, WorkerApply, WorkerDie
<1>5. TypeOK'
  BY <1>3, <1>4 DEF TypeOK, StackOK, WorkerApply, WorkerDie, daemon, world
<1>6. /\ worker'[p].key = worker[p].key /\ worker'[p].phase = ph
      /\ worker'[p].state = worker[p].state /\ worker'[p].queue = worker[p].queue
      /\ \A w \in Proc : w # p => worker'[w] = worker[w]
  BY <1>1 DEF TypeOK, WorkerRecord
<1>7. Usable(p) => Usable(p)' /\ LastGiven(p)' = LastGiven(p)
  BY <1>6 DEF Usable, Running, Pilled, LastGiven
<1>8. DictOK' /\ Keeps(Key)
  BY <1>2, <1>6, <1>7, WorkerKeeps
<1> QED
  BY <1>2, <1>5, <1>8, Undisturbed DEF IInv

\* The administrator and `ifstate apply' touch nothing the invariant mentions.
LEMMA OutsideStep ==
  ASSUME TypeOK, CallInv, DeliveryInv,
         EditFile \/ ApplyConfig \/ SighupVrrpFifo \/ UNCHANGED vars
  PROVE  IInv'
<1>1. /\ stack' = stack /\ processes' = processes /\ states' = states
      /\ worker' = worker /\ kernel' = kernel /\ ifstate' = ifstate
  BY DEF EditFile, ApplyConfig, SighupVrrpFifo, vars, daemon, world
<1>2. TypeOK'
  BY <1>1 DEF TypeOK, StackOK, EditFile, ApplyConfig, SighupVrrpFifo, vars, daemon, world
<1>3. DictOK' /\ Keeps(Key)
  BY <1>1, SameData DEF CallInv, Keeps
<1> QED
  BY <1>1, <1>2, <1>3, Undisturbed DEF IInv

LEMMA InvInit == Init => IInv
<1> SUFFICES ASSUME Init PROVE IInv
  OBVIOUS
<1>1. TypeOK
  BY TypeInit
<1>2. stack[1].pc = "boot" /\ Len(stack) = 1
  BY DEF Init, NewFrame
<1>3. "boot" \notin Active \cup CallPC \cup HasObject
  BY DEF Active, CallPC, HasObject, LookUps, PutLocks, Puts
<1>4. CallInv
  BY <1>2, <1>3 DEF Init, CallInv, DictOK, CallOK
<1>5. DeliveryInv
  BY <1>2, <1>3 DEF Init, DeliveryInv, KeysServed, FramesServed
<1> QED
  BY <1>1, <1>4, <1>5 DEF IInv

LEMMA InvStep == IInv /\ [Next]_vars => IInv'
<1> SUFFICES ASSUME TypeOK, CallInv, DeliveryInv, [Next]_vars PROVE IInv'
  BY DEF IInv
<1>1. CASE \/ Boot \/ InstallHandler \/ WritePidFile \/ EndOfFile \/ RemovePidFile
           \/ JoinChildren \/ Killed
  BY <1>1, LifeCycleStep
<1>2. CASE SetState
  BY <1>2, SetStateStep
<1>3. CASE \E p \in Proc : CreateProcess(p)
  BY <1>3, CreateProcessStep
<1>4. CASE LookUp \/ GetConf
  BY <1>4, LookUpStep, GetConfStep
<1>5. CASE StartProcess
  BY <1>5, StartProcessStep
<1>6. CASE LockQueue
  BY <1>6, LockQueueStep
<1>7. CASE PutPill
  BY <1>7, PutPillStep
<1>8. CASE PutUpdate
  BY <1>8, PutUpdateStep
<1>9. CASE LoadConfig
  BY <1>9, LoadConfigStep
<1>10. CASE Callback
  BY <1>10, CallbackStep
<1>11. CASE NextKey
  BY <1>11, NextKeyStep
<1>12. CASE Entered
  BY <1>12, SighupStep
<1>13. CASE \E p \in Proc : WorkerStep(p)
  BY <1>13, WorkerGetStep, WorkerEndStep DEF WorkerStep
<1>14. CASE \E k \in Key, s \in State : ReadLine(k, s)
  BY <1>14, ReadLineStep
<1>15. CASE EditFile \/ ApplyConfig \/ SighupVrrpFifo \/ UNCHANGED vars
  BY <1>15, OutsideStep
<1> QED
  BY <1>1, <1>2, <1>3, <1>4, <1>5, <1>6, <1>7, <1>8, <1>9, <1>10, <1>11, <1>12,
     <1>13, <1>14, <1>15 DEF Next, MainStep, Environment, Killed, Entered

-----------------------------------------------------------------------------
(* Theorems                                                                 *)

\* IInv holds in every reachable state of the daemon.
THEOREM Invariance == Spec => []IInv
BY InvInit, InvStep, PTL DEF Spec

\* Every variable keeps its type, and the main thread's frames stay where the
\* code can put them, whatever the handler interrupts.
THEOREM TypeCorrect == Spec => []TypeOK
<1>1. IInv => TypeOK
  BY DEF IInv
<1> QED
  BY <1>1, Invariance, PTL

\* VrrpStates.update and VrrpStates.reconfigure lose no state change: for any
\* set of points at which SIGHUP may interrupt them and any depth of nesting,
\* when the daemon is back at the FIFO the worker of every known group or
\* instance is started, not told to stop, and was last given the last state.
THEOREM NoLostUpdateHolds == Spec => []NoLostUpdate
<1>1. IInv => NoLostUpdate
  <2> SUFFICES ASSUME TypeOK, CallInv, DeliveryInv, Idle,
                      NEW k \in Key, states[k] # None
               PROVE  Delivered(k)
    BY DEF IInv, NoLostUpdate
  <2>1. processes[k] # None
    BY DEF CallInv, DictOK
  <2>2. \A i \in 1 .. Len(stack) : ~ Pending(i, k)
    BY DEF Idle, IsMain, Pending, top, Active, CallPC, LookUps, PutLocks, Puts
  <2> QED
    BY <2>1, <2>2 DEF DeliveryInv, KeysServed, Settled
<1> QED
  BY <1>1, Invariance, PTL

=============================================================================
