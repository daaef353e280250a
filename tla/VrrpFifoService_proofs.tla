----------------------- MODULE VrrpFifoService_proofs -----------------------
(* More proofs about the vrrp-fifo daemon: what it keeps to when it starts   *)
(* and when it reloads, and that it implements VrrpService.                  *)
EXTENDS VrrpFifoService, VrrpFifo_proofs

-----------------------------------------------------------------------------
(* The stack of the main thread                                             *)

\* Replacing the running frame, whatever by.
LEMMA SetTopAny ==
  ASSUME TypeOK, NEW f, SetTop(f)
  PROVE  /\ Len(stack') = Len(stack)
         /\ stack'[Len(stack)] = f
         /\ \A i \in 1 .. Len(stack) : i # Len(stack) => stack'[i] = stack[i]
<1> DEFINE S == Frame \cup {f}
<1>1. stack \in Seq(S) /\ Len(stack) \in Nat /\ Len(stack) >= 1 /\ f \in S
  BY DEF TypeOK, StackOK
<1> HIDE DEF S
<1> QED BY <1>1 DEF SetTop

\* The running frame is the main thread's, or one above it.
LEMMA BottomFacts ==
  ASSUME TypeOK
  PROVE  /\ Len(stack) \in Nat /\ Len(stack) >= 1
         /\ IsMain => top = stack[1]
         /\ ~ IsMain => Len(stack) > 1 /\ top.pc \notin {"boot", "install", "writepid"}
BY TopFacts DEF IsMain, top, HandlerPC, CallPC, LookUps, PutLocks, Puts

\* What a step does to the frame of vrrp_fifo.
LEMMA BottomStep ==
  ASSUME TypeOK
  PROVE  /\ \A f : SetTop(f) => stack'[1] = IF IsMain THEN f ELSE stack[1]
         /\ \A pc : Goto(pc) => stack'[1] = IF IsMain THEN [top EXCEPT !.pc = pc] ELSE stack[1]
         /\ ~ IsMain /\ Return => stack'[1] = stack[1]
         /\ \A f \in Frame : stack' = Append(stack, f) => stack'[1] = stack[1]
<1>1. ASSUME NEW f, SetTop(f) PROVE stack'[1] = IF IsMain THEN f ELSE stack[1]
  BY <1>1, SetTopAny, BottomFacts DEF IsMain
<1>2. ASSUME ~ IsMain, Return PROVE stack'[1] = stack[1]
  BY <1>2, ReturnFacts, BottomFacts DEF TypeOK, StackOK
<1>3. ASSUME NEW f \in Frame, stack' = Append(stack, f) PROVE stack'[1] = stack[1]
  BY <1>3, PushFacts, BottomFacts DEF TypeOK, StackOK
<1> QED BY <1>1, <1>2, <1>3 DEF Goto

\* The frame that goes on, after a step, at another program point.
LEMMA FrameFacts ==
  ASSUME NEW t \in Frame, NEW x
  PROVE  /\ [t EXCEPT !.pc = x].pc = x /\ [t EXCEPT !.pc = x].key = t.key
         /\ [t EXCEPT !.pc = x].conf = t.conf /\ [t EXCEPT !.pc = x].proc = t.proc
         /\ [t EXCEPT !.pc = x].todo = t.todo /\ [t EXCEPT !.pc = x].state = t.state
BY DEF Frame

\* The frame that read the configuration for a new process goes on to create it.
LEMMA GetConfFrame ==
  ASSUME TypeOK, GetConf
  PROVE  /\ top.pc = "getconf"
         /\ UNCHANGED <<ifstate, processes, states, worker, kernel, hup, pidfile, file, cli, lines>>
         /\ \E f \in Frame :
              /\ SetTop(f) /\ f.pc = "create"
              /\ f.conf = IF IsMain THEN ifstate ELSE top.conf
              /\ f.key = top.key /\ f.proc = top.proc /\ f.todo = top.todo /\ f.state = top.state
<1> DEFINE f == [top EXCEPT !.pc = "create", !.conf = IF IsMain THEN ifstate ELSE @]
<1>1. /\ f \in Frame /\ f.pc = "create"
      /\ f.conf = IF IsMain THEN ifstate ELSE top.conf
      /\ f.key = top.key /\ f.proc = top.proc /\ f.todo = top.todo /\ f.state = top.state
  BY TopFacts DEF TypeOK, Frame, PC, HandlerPC, CallPC
<1>2. SetTop(f)
  BY DEF GetConf
<1> HIDE DEF f
<1> QED BY <1>1, <1>2 DEF GetConf, world

-----------------------------------------------------------------------------
(* Start-up                                                                 *)


LEMMA StartStep == ASSUME TypeOK, CallInv, StartInv, [Next]_vars PROVE StartInv'
<1>0. /\ Len(stack) \in Nat /\ Len(stack) >= 1
      /\ IsMain => top = stack[1]
      /\ ~ IsMain => top.pc \notin {"boot", "install", "writepid"}
      /\ top \in Frame
  BY BottomFacts, TopFacts
<1>1. ASSUME NEW pc \in PC, Goto(pc) PROVE IF IsMain THEN stack'[1].pc = pc ELSE stack'[1] = stack[1]
  <2>1. stack'[1] = IF IsMain THEN [top EXCEPT !.pc = pc] ELSE stack[1]
    BY <1>1, BottomStep
  <2> QED BY <1>0, <2>1, FrameFacts
<1>2. CASE Boot
  <2>1. stack'[1].pc \in {"exited", "install"} /\ stack[1].pc = "boot"
    BY <1>0, <1>1, <1>2 DEF Boot, PC, MainPC
  <2> QED BY <1>2, <2>1 DEF Boot, StartInv
<1>3. CASE InstallHandler
  <2>1. stack'[1].pc = "writepid" /\ stack[1].pc = "install"
    BY <1>0, <1>1, <1>3 DEF InstallHandler, PC, MainPC
  <2> QED BY <1>3, <2>1 DEF InstallHandler, StartInv
<1>4. CASE WritePidFile
  <2>1. stack'[1].pc = "readline"
    BY <1>0, <1>1, <1>4 DEF WritePidFile, PC, MainPC
  <2> QED BY <2>1 DEF StartInv
<1>5. CASE RemovePidFile \/ JoinChildren \/ EndOfFile
  <2>1. stack'[1].pc \notin {"boot", "install", "writepid", "killed"} \/ stack'[1] = stack[1]
    BY <1>0, <1>1, <1>5 DEF RemovePidFile, JoinChildren, EndOfFile, PC, MainPC
  <2> QED BY <1>5, <2>1 DEF RemovePidFile, JoinChildren, EndOfFile, StartInv
<1>6. CASE Sighup
  <2>1. CASE top.pc \in {"boot", "install"}
    BY <1>0, <1>6, <2>1 DEF Sighup, StartInv
  <2>2. CASE top.pc \notin {"boot", "install"}
    <3>1. stack'[1] = stack[1]
      BY <1>6, <2>2, BottomStep, NewFrameType DEF Sighup, PC, HandlerPC
    <3> QED BY <1>6, <3>1 DEF Sighup, StartInv
  <2> QED BY <2>1, <2>2
<1>7. CASE SighupVrrpFifo
  BY <1>7 DEF SighupVrrpFifo, daemon, StartInv
<1>8. CASE \/ EditFile \/ ApplyConfig \/ (\E p \in Proc : WorkerStep(p)) \/ UNCHANGED vars
  <2>1. stack' = stack /\ hup' = hup /\ pidfile' = pidfile
    BY <1>8 DEF EditFile, ApplyConfig, WorkerStep, WorkerGet, WorkerApply, WorkerDie, vars, daemon
  <2> QED BY <2>1 DEF StartInv
<1>9. CASE \/ SetState \/ GetConf \/ (\E p \in Proc : CreateProcess(p)) \/ LookUp \/ StartProcess
           \/ LockQueue \/ PutPill \/ PutUpdate \/ LoadConfig \/ Callback \/ NextKey
           \/ \E k \in Key, s \in State : ReadLine(k, s)
  <2>1. hup' = hup /\ pidfile' = pidfile
    BY <1>9 DEF SetState, GetConf, CreateProcess, LookUp, StartProcess, LockQueue, PutPill, PutUpdate,
                LoadConfig, Callback, NextKey, ReadLine
  <2>2. stack'[1].pc \notin {"boot", "install", "writepid", "killed"} \/ stack'[1] = stack[1]
    <3>1. CASE ~ IsMain
      BY <1>9, <3>1, BottomStep
         DEF SetState, GetConf, CreateProcess, LookUp, StartProcess, LockQueue, PutPill, PutUpdate,
             LoadConfig, Callback, NextKey, ReadLine, Goto, Raise
    <3>2. CASE IsMain
      <4>1. ~ LoadConfig /\ ~ Callback /\ ~ NextKey
        BY <3>2, TopFacts DEF LoadConfig, Callback, NextKey, MainPC, CallPC, LookUps, PutLocks, Puts
      <4>2. CASE LookUp
        <5> DEFINE f == [top EXCEPT !.pc = AfterLookUp(top.pc), !.proc = processes[top.key]]
        <5>1. stack'[1] = f
          BY <3>2, <4>2, BottomStep DEF LookUp
        <5>2. f.pc = AfterLookUp(top.pc)
          BY <1>0 DEF Frame
        <5> QED BY <4>2, <5>1, <5>2 DEF LookUp, AfterLookUp, LookUps
      <4>3. CASE \E k \in Key, s \in State : ReadLine(k, s)
        <5>1. PICK k \in Key, s \in State : ReadLine(k, s)
          BY <4>3
        <5> DEFINE pc == IF processes[k] = None THEN "getconf" ELSE "setstate"
                   f  == [top EXCEPT !.pc = pc, !.key = k, !.state = s]
        <5>2. stack'[1] = f
          BY <3>2, <5>1, BottomStep DEF ReadLine
        <5>3. f.pc = pc
          BY <1>0 DEF Frame
        <5> QED BY <5>2, <5>3
      <4>4. CASE \/ SetState \/ (\E p \in Proc : CreateProcess(p)) \/ StartProcess
                 \/ LockQueue \/ PutPill \/ PutUpdate
        <5>1. \E pc \in PC \ {"boot", "install", "writepid", "killed"} : Goto(pc)
          BY <3>2, <4>4 DEF SetState, CreateProcess, StartProcess, LockQueue, PutPill, PutUpdate,
                      Raise, PC, MainPC, HandlerPC, CallPC, LookUps, PutLocks, Puts
        <5> QED BY <1>1, <3>2, <5>1
      <4>5. CASE GetConf
        BY <3>2, <4>5, GetConfFrame, BottomStep
      <4> QED BY <1>9, <4>1, <4>2, <4>3, <4>4, <4>5
    <3> QED BY <3>1, <3>2
  <2> QED BY <2>1, <2>2 DEF StartInv
<1> QED BY <1>2, <1>3, <1>4, <1>5, <1>6, <1>7, <1>8, <1>9 DEF Next, MainStep, Environment

\* The daemon writes its pid file when its handler is set: no SIGHUP of `ifstate
\* apply' ever meets the default action, which would end it (ifstate.py).
THEOREM SighupNeverKillsHolds == Spec => []SighupNeverKills
<1>1. Init => StartInv
  BY DEF Init, StartInv, NewFrame
<1>2. IInv /\ StartInv /\ [Next]_vars => StartInv'
  BY StartStep DEF IInv
<1>3. StartInv => SighupNeverKills
  BY DEF StartInv, SighupNeverKills
<1> QED BY <1>1, <1>2, <1>3, Invariance, PTL DEF Spec

-----------------------------------------------------------------------------
(* Handlers that are not interrupted: at most two frames                    *)

LEMMA OneOrTwo == \A n \in Nat : n >= 1 /\ n <= 2 => n = 1 \/ n = 2
OBVIOUS

LEMMA TwoFrames ==
  ASSUME TypeOK, Len(stack) <= 2
  PROVE  /\ IsMain => Len(stack) = 1 /\ top = stack[1]
         /\ ~ IsMain => Len(stack) = 2 /\ top = stack[2] /\ top.pc \in HandlerPC
         /\ \A f : SetTop(f) =>
              /\ top' = f
              /\ IsMain => Len(stack') = 1 /\ stack'[1] = f
              /\ ~ IsMain => Len(stack') = 2 /\ stack'[1] = stack[1] /\ stack'[2] = f
         /\ ~ IsMain /\ Return => Len(stack') = 1 /\ stack'[1] = stack[1] /\ top' = stack[1]
         /\ \A f \in Frame : IsMain /\ stack' = Append(stack, f) =>
              Len(stack') = 2 /\ stack'[1] = stack[1] /\ stack'[2] = f /\ top' = f
<1>1. IsMain <=> Len(stack) = 1
  BY DEF IsMain
<1>2. Len(stack) = 1 \/ Len(stack) = 2
  <2>1. Len(stack) \in Nat /\ Len(stack) >= 1
    BY TopFacts
  <2> QED BY <2>1, OneOrTwo, Zenon
<1>3. ~ IsMain => top.pc \in HandlerPC
  BY TopFacts
<1>4. stack \in Seq(Frame) /\ Len(stack) >= 1
  BY DEF TypeOK, StackOK
<1>5. ASSUME NEW f, SetTop(f)
      PROVE  /\ top' = f
             /\ IsMain => Len(stack') = 1 /\ stack'[1] = f
             /\ ~ IsMain => Len(stack') = 2 /\ stack'[1] = stack[1] /\ stack'[2] = f
  <2>1. /\ Len(stack') = Len(stack)
        /\ stack'[Len(stack)] = f
        /\ \A i \in 1 .. Len(stack) : i # Len(stack) => stack'[i] = stack[i]
    BY <1>5, SetTopAny
  <2> QED BY <1>1, <1>2, <2>1 DEF top
<1>6. ASSUME ~ IsMain, Return
      PROVE  Len(stack') = 1 /\ stack'[1] = stack[1] /\ top' = stack[1]
  <2>1. Len(stack) = 2
    BY <1>1, <1>2, <1>6
  <2>2. Len(stack') = 1 /\ stack'[1] = stack[1]
    BY <1>4, <1>6, <2>1, ReturnFacts
  <2> QED BY <2>2 DEF top
<1>7. ASSUME NEW f \in Frame, IsMain, stack' = Append(stack, f)
      PROVE  Len(stack') = 2 /\ stack'[1] = stack[1] /\ stack'[2] = f /\ top' = f
  <2>1. Len(stack) = 1
    BY <1>1, <1>7
  <2>2. Len(stack') = 2 /\ stack'[1] = stack[1] /\ stack'[2] = f
    BY <1>4, <1>7, <2>1, PushFacts
  <2> QED BY <2>2 DEF top
<1>8. /\ IsMain => Len(stack) = 1 /\ top = stack[1]
      /\ ~ IsMain => Len(stack) = 2 /\ top = stack[2]
  BY <1>1, <1>2 DEF top
<1> QED BY <1>3, <1>5, <1>6, <1>7, <1>8

\* The steps of vrrp_fifo itself leave nobody but it on the stack.
LEMMA MainOnly ==
  ASSUME TypeOK, Len(stack) <= 2,
         \/ Boot \/ InstallHandler \/ WritePidFile \/ RemovePidFile \/ JoinChildren \/ SetState
         \/ EndOfFile \/ \E k \in Key, s \in State : ReadLine(k, s)
  PROVE  IsMain /\ Len(stack') = 1
<1>1. top.pc \notin HandlerPC
  BY DEF Boot, InstallHandler, WritePidFile, RemovePidFile, JoinChildren, SetState, EndOfFile,
         ReadLine, HandlerPC, CallPC, LookUps, PutLocks, Puts
<1>2. IsMain
  BY <1>1, TwoFrames
<1>3. \E f : SetTop(f)
  BY DEF Boot, InstallHandler, WritePidFile, RemovePidFile, JoinChildren, SetState, EndOfFile,
         ReadLine, Goto
<1> QED BY <1>2, <1>3, TwoFrames

\* The steps of the handler, and of nobody else.
LEMMA HandlerOnly ==
  ASSUME TypeOK, Len(stack) <= 2, LoadConfig \/ Callback \/ NextKey \/ PutPill
  PROVE  ~ IsMain /\ Len(stack) = 2 /\ top = stack[2] /\ Handler = top
<1>1. top.pc \notin MainPC
  BY DEF LoadConfig, Callback, NextKey, PutPill, MainPC, CallPC, LookUps, PutLocks, Puts
<1> QED BY <1>1, TwoFrames, TopFacts DEF Handler

\* The administrator, `ifstate apply' and the workers
Elsewhere == \/ EditFile \/ ApplyConfig \/ SighupVrrpFifo \/ UNCHANGED vars
             \/ \E p \in Proc : WorkerStep(p)

LEMMA ElsewhereStep ==
  ASSUME Elsewhere
  PROVE  /\ UNCHANGED <<stack, processes, states, ifstate>>
         /\ file' = file \/ file' = file + 1
BY DEF Elsewhere, EditFile, ApplyConfig, SighupVrrpFifo, WorkerStep, WorkerGet, WorkerApply,
       WorkerDie, vars, daemon, world

\* Entering the handler.
LEMMA EnteredStep ==
  ASSUME TypeOK, Len(stack) <= 2, MaxDepth <= 2, Entered
  PROVE  /\ Len(stack) = 1 /\ IsMain /\ top = stack[1] /\ top.pc \in Interruptible
         /\ Len(stack') = 2 /\ stack'[1] = stack[1] /\ stack'[2].pc = "load"
         /\ top'.pc = "load" /\ Handler'.pc = "load"
<1>1. /\ Len(stack) < MaxDepth /\ top.pc \in Interruptible
      /\ stack' = Append(stack, NewFrame("load"))
  BY DEF Entered, Sighup
<1>2. Len(stack) = 1 /\ IsMain
  BY <1>1, TopFacts, BoundsAssumption DEF IsMain
<1>3. NewFrame("load") \in Frame /\ NewFrame("load").pc = "load"
  BY NewFrameType DEF PC, HandlerPC, NewFrame
<1> QED BY <1>1, <1>2, <1>3, TwoFrames DEF Handler

LEMMA KilledStep ==
  ASSUME TypeOK, Len(stack) <= 2, Killed
  PROVE  IsMain /\ Goto("killed")
<1>1. top.pc \notin HandlerPC
  BY DEF Killed, HandlerPC, CallPC, LookUps, PutLocks, Puts
<1> QED BY <1>1, TwoFrames DEF Killed, Sighup

-----------------------------------------------------------------------------
(* The configuration in use                                                 *)

LEMMA ConfStep ==
  ASSUME MaxDepth <= 2, TypeOK, ConfInv, [Next]_vars
  PROVE  ConfInv' /\ ifstate' >= ifstate
<1>0. /\ Len(stack) <= 2 /\ ifstate \in Nat /\ file \in Nat /\ ifstate <= file
      /\ Len(stack) \in Nat /\ top \in Frame
  BY TopFacts DEF ConfInv, TypeOK
<1>1. CASE Elsewhere
  <2>1. stack' = stack /\ ifstate' = ifstate /\ file' \in Nat /\ file <= file'
    BY <1>0, <1>1, ElsewhereStep
  <2>2. HandlerAt({"callback"}) => Handler.conf \in Nat
    BY <1>0, TwoFrames DEF HandlerAt, Handler, Frame
  <2> QED BY <1>0, <2>1, <2>2 DEF ConfInv, HandlerAt, Handler
<1>2. CASE \/ Boot \/ InstallHandler \/ WritePidFile \/ RemovePidFile \/ JoinChildren \/ SetState
           \/ EndOfFile \/ \E k \in Key, s \in State : ReadLine(k, s)
  <2>1. Len(stack') = 1
    BY <1>0, <1>2, MainOnly
  <2>2. file' = file /\ ifstate' \in {ifstate, file}
    BY <1>2 DEF Boot, InstallHandler, WritePidFile, RemovePidFile, JoinChildren, SetState,
                EndOfFile, ReadLine, world
  <2> QED BY <1>0, <2>1, <2>2 DEF ConfInv, HandlerAt
<1>3. CASE Entered
  <2>1. Len(stack') = 2 /\ Handler'.pc = "load" /\ file' = file /\ ifstate' = ifstate
    BY <1>0, <1>3, EnteredStep DEF Entered, Sighup, world
  <2> QED BY <1>0, <2>1 DEF ConfInv, HandlerAt
<1>4. CASE Killed
  <2>1. Len(stack') = 1 /\ file' = file /\ ifstate' = ifstate
    BY <1>0, <1>4, KilledStep, TwoFrames DEF Killed, Sighup, world, Goto
  <2> QED BY <1>0, <2>1 DEF ConfInv, HandlerAt
<1>5. CASE \/ GetConf \/ \E p \in Proc : CreateProcess(p)
           \/ LookUp \/ StartProcess \/ LockQueue \/ PutPill \/ PutUpdate \/ NextKey
  <2>1. file' = file /\ ifstate' = ifstate
    BY <1>5 DEF GetConf, CreateProcess, LookUp, StartProcess, LockQueue, PutPill, PutUpdate,
                NextKey, world
  <2>2. \/ \E f : SetTop(f) /\ f.pc # "callback"
        \/ ~ IsMain /\ Return
    <3>1. CASE LookUp
      <4> DEFINE f == [top EXCEPT !.pc = AfterLookUp(top.pc), !.proc = processes[top.key]]
      <4>1. SetTop(f)
        BY <3>1 DEF LookUp
      <4>2. f.pc = AfterLookUp(top.pc)
        BY <1>0 DEF Frame
      <4>3. AfterLookUp(top.pc) # "callback"
        BY <3>1 DEF LookUp, AfterLookUp, LookUps
      <4> QED BY <4>1, <4>2, <4>3
    <3>2. CASE NextKey
      <4>1. CASE Return
        BY <1>0, <3>2, <4>1, HandlerOnly
      <4>2. CASE ~ Return
        <5>1. PICK k \in top.todo :
                SetTop([top EXCEPT !.pc = "getpill", !.key = k, !.todo = @ \ {k}])
          BY <3>2, <4>2 DEF NextKey
        <5> DEFINE f == [top EXCEPT !.pc = "getpill", !.key = k, !.todo = @ \ {k}]
        <5>2. SetTop(f)
          BY <5>1
        <5>3. f.pc = "getpill"
          BY <1>0 DEF Frame
        <5> QED BY <5>2, <5>3
      <4> QED BY <4>1, <4>2
    <3>3. CASE \/ \E p \in Proc : CreateProcess(p)
               \/ StartProcess \/ LockQueue \/ PutPill \/ PutUpdate
      <4>1. (\E pc : pc # "callback" /\ Goto(pc)) \/ (~ IsMain /\ Return)
        BY <3>3 DEF CreateProcess, StartProcess, LockQueue, PutPill, PutUpdate, Raise
      <4>2. CASE \E pc : pc # "callback" /\ Goto(pc)
        <5>1. PICK pc : pc # "callback" /\ Goto(pc)
          BY <4>2
        <5> DEFINE f == [top EXCEPT !.pc = pc]
        <5>2. SetTop(f) /\ f.pc # "callback"
          BY <1>0, <5>1, FrameFacts DEF Goto
        <5> QED BY <5>2
      <4> QED BY <4>1, <4>2
    <3>4. CASE GetConf
      BY <3>4, GetConfFrame
    <3> QED BY <1>5, <3>1, <3>2, <3>3, <3>4
  <2>3. \/ Len(stack') = 1
        \/ Len(stack') = 2 /\ stack'[2].pc # "callback"
    <3>1. CASE \E f : SetTop(f) /\ f.pc # "callback"
      <4>1. PICK f : SetTop(f) /\ f.pc # "callback"
        BY <3>1
      <4> QED BY <1>0, <4>1, TwoFrames
    <3>2. CASE ~ IsMain /\ Return
      BY <1>0, <3>2, TwoFrames
    <3> QED BY <2>2, <3>1, <3>2
  <2>4. CASE Len(stack') = 1
    BY <1>0, <2>1, <2>4 DEF ConfInv, HandlerAt
  <2>5. CASE Len(stack') = 2 /\ stack'[2].pc # "callback"
    BY <1>0, <2>1, <2>5 DEF ConfInv, HandlerAt, Handler
  <2> QED BY <2>3, <2>4, <2>5
<1>6. CASE LoadConfig
  <2>1. ~ IsMain /\ file' = file /\ ifstate' = ifstate
    BY <1>0, <1>6, HandlerOnly DEF LoadConfig, world
  <2>2. CASE Return
    <3>1. Len(stack') = 1
      BY <1>0, <2>1, <2>2, TwoFrames
    <3> QED BY <1>0, <2>1, <3>1 DEF ConfInv, HandlerAt
  <2>3. CASE ~ Return
    <3> DEFINE f == [top EXCEPT !.pc = "callback", !.conf = file]
    <3>1. SetTop(f)
      BY <1>6, <2>3 DEF LoadConfig
    <3>2. f.conf = file
      BY <1>0 DEF Frame
    <3>3. Len(stack') = 2 /\ stack'[2] = f
      BY <1>0, <2>1, <3>1, TwoFrames
    <3> QED BY <1>0, <2>1, <3>2, <3>3 DEF ConfInv, HandlerAt, Handler
  <2> QED BY <2>2, <2>3
<1>7. CASE Callback
  <2> DEFINE f == [top EXCEPT !.pc = "next", !.todo = {k \in Key : states[k] # None}]
  <2>1. ~ IsMain /\ top = Handler /\ Len(stack) = 2
    BY <1>0, <1>7, HandlerOnly
  <2>2. SetTop(f) /\ file' = file /\ ifstate' = top.conf /\ top.pc = "callback"
    BY <1>7 DEF Callback, world
  <2>3. f.pc = "next"
    BY <1>0 DEF Frame
  <2>4. Len(stack') = 2 /\ stack'[2] = f
    BY <1>0, <2>1, <2>2, TwoFrames
  <2>5. ifstate <= top.conf /\ top.conf <= file /\ top.conf \in Nat
    BY <1>0, <2>1, <2>2 DEF ConfInv, HandlerAt, Frame
  <2> QED BY <1>0, <2>2, <2>3, <2>4, <2>5 DEF ConfInv, HandlerAt, Handler
<1> QED BY <1>1, <1>2, <1>3, <1>4, <1>5, <1>6, <1>7
        DEF Next, MainStep, Environment, Killed, Entered, Elsewhere

\* A reload never puts an older configuration in the place of a newer one, as long
\* as no SIGHUP interrupts the handler of another one (sighup_handler loads the
\* file, reconfigure stores it).
THEOREM NoDowngradeHolds == ASSUME MaxDepth <= 2 PROVE Spec => NoDowngrade
<1>1. Init => ConfInv
  BY DEF Init, ConfInv, HandlerAt
<1>2. IInv /\ ConfInv /\ [Next]_vars => ConfInv' /\ ifstate' >= ifstate
  BY ConfStep DEF IInv
<1>3. Spec => [](IInv /\ ConfInv)
  BY <1>1, <1>2, Invariance, PTL DEF Spec
<1>4. IInv /\ ConfInv /\ [Next]_vars => [ifstate' >= ifstate]_ifstate
  BY <1>2
<1> QED BY <1>3, <1>4, PTL DEF Spec, NoDowngrade

-----------------------------------------------------------------------------
(* Workers that were replaced                                               *)

\* Keys stay, objects are not given back, and a worker that was told to stop stops.
KeepStopping ==
  \A p \in Proc :
    /\ worker'[p].key = worker[p].key
    /\ worker'[p].phase # "free" => worker[p].phase # "free"
    /\ Stopping(p) => Stopping(p)'

\* What StopInv says of the handler's frame.
HandlerStops(f) ==
  /\ f.pc \in {"lockpill", "putpill"} => f.proc = processes[f.key]
  /\ f.pc \in {"getconf", "create"} => Stopping(processes[f.key])

LEMMA StopKept ==
  ASSUME StopInv, KeepStopping, UNCHANGED processes,
         Len(stack') = 2 => HandlerStops(stack[2])',
         stack'[1].pc \in {"getconf", "create"} => processes[stack'[1].key] = None
  PROVE  StopInv'
<1>1. \A p \in Proc : worker'[p].phase # "free" =>
        worker'[p].key \in Key /\ (processes'[worker'[p].key] = p \/ Stopping(p)')
  BY DEF StopInv, KeepStopping
<1> QED BY <1>1 DEF StopInv, HandlerAt, Handler, HandlerStops, Stopping, Pilled

\* What the running frame's next statement looks up.
LEMMA TopCall == ASSUME TypeOK, CallInv PROVE CallOK(Len(stack), top)
<1>1. Len(stack) \in Nat /\ Len(stack) >= 1
  BY TopFacts
<1>2. Len(stack) \in 1 .. Len(stack)
  BY <1>1
<1> QED BY <1>2 DEF CallInv, top

\* A worker that is about to be replaced is a worker.
LEMMA HandlerKey ==
  ASSUME TypeOK, CallInv, Len(stack) = 2, stack[2].pc \in CallPC
  PROVE  stack[2].key \in Key /\ states[stack[2].key] # None /\ processes[stack[2].key] \in Proc
<1>1. stack[2].key \in Key
  BY DEF TypeOK, StackOK, Active
<1>2. CallOK(2, stack[2])
  BY DEF CallInv
<1>3. states[stack[2].key] # None
  BY <1>2 DEF CallOK
<1> QED BY <1>1, <1>3 DEF CallInv, DictOK, TypeOK

\* Items are only added to a queue, and starting a process leaves its queue alone.
LEMMA Pill ==
  ASSUME TypeOK, NEW p \in Proc, NEW e \in State \cup {None}, 
         worker' = [worker EXCEPT ![p].queue = Append(@, e)]
  PROVE  /\ KeepStopping
         /\ e = None => Stopping(p)'
<1>1. /\ worker[p].queue \in Seq(State \cup {None}) /\ worker[p] \in WorkerRecord
      /\ \A q \in Proc : q # p => worker'[q] = worker[q]
  BY DEF TypeOK, WorkerRecord
<1>2. worker'[p] = [worker[p] EXCEPT !.queue = Append(worker[p].queue, e)]
  BY DEF TypeOK
<1>3. /\ worker'[p].key = worker[p].key /\ worker'[p].phase = worker[p].phase
      /\ worker'[p].queue = Append(worker[p].queue, e)
  BY <1>1, <1>2 DEF WorkerRecord
<1>4. Pilled(p) => Pilled(p)'
  <2>1. /\ Len(worker'[p].queue) = Len(worker[p].queue) + 1
        /\ \A i \in 1 .. Len(worker[p].queue) : worker'[p].queue[i] = worker[p].queue[i]
    BY <1>1, <1>3
  <2> QED BY <1>1, <2>1 DEF Pilled
<1>5. e = None => Pilled(p)'
  <2>1. /\ Len(worker'[p].queue) \in 1 .. Len(worker'[p].queue)
        /\ worker'[p].queue[Len(worker'[p].queue)] = e
    BY <1>1, <1>3
  <2> QED BY <2>1 DEF Pilled
<1> QED BY <1>1, <1>3, <1>4, <1>5 DEF KeepStopping, Stopping, Pilled

LEMMA PhaseOnly ==
  ASSUME TypeOK, NEW p \in Proc, NEW ph \in {"idle", "dead"},
         worker[p].phase \in {"new", "busy"},
         worker' = [worker EXCEPT ![p].phase = ph]
  PROVE  KeepStopping
<1>1. \A q \in Proc : q # p => worker'[q] = worker[q]
  BY DEF TypeOK
<1>2. /\ worker'[p].key = worker[p].key /\ worker'[p].phase = ph
      /\ worker'[p].queue = worker[p].queue
  BY DEF TypeOK, WorkerRecord
<1> QED BY <1>1, <1>2 DEF KeepStopping, Stopping, Pilled

LEMMA WorkerKeepsStopping ==
  ASSUME TypeOK, NEW p \in Proc, WorkerStep(p)
  PROVE  KeepStopping
<1>1. CASE WorkerApply(p) \/ WorkerDie(p)
  BY <1>1, PhaseOnly DEF WorkerApply, WorkerDie
<1>2. CASE WorkerGet(p)
  <2> DEFINE q == worker[p].queue
  <2>1. /\ worker[p].phase = "idle" /\ q \in Seq(State \cup {None}) /\ q # <<>>
        /\ \A r \in Proc : r # p => worker'[r] = worker[r]
    BY <1>2 DEF WorkerGet, TypeOK, WorkerRecord
  <2>2. /\ worker'[p].key = worker[p].key
        /\ worker'[p].phase = IF Head(q) = None THEN "done" ELSE "busy"
        /\ worker'[p].queue = Tail(q)
    BY <1>2 DEF WorkerGet, TypeOK, WorkerRecord
  <2>3. Pilled(p) /\ Head(q) # None => Pilled(p)'
    <3> SUFFICES ASSUME Head(q) # None, NEW i \in 1 .. Len(q), q[i] = None PROVE Pilled(p)'
      BY DEF Pilled
    <3>1. i - 1 \in 1 .. Len(Tail(q)) /\ Tail(q)[i - 1] = None
      BY <2>1
    <3> QED BY <2>2, <3>1 DEF Pilled
  <2> QED BY <2>1, <2>2, <2>3 DEF KeepStopping, Stopping, Pilled
<1> QED BY <1>1, <1>2 DEF WorkerStep

\* Steps that leave the workers alone
LEMMA SameWorkers == worker' = worker => KeepStopping
BY DEF KeepStopping, Stopping, Pilled

\* The running frame goes on with f.
LEMMA StopMove ==
  ASSUME TypeOK, Len(stack) <= 2, StopInv, KeepStopping, UNCHANGED processes,
         NEW f, SetTop(f),
         IsMain => (f.pc \in {"getconf", "create"} => processes[f.key] = None),
         ~ IsMain => HandlerStops(f)'
  PROVE  StopInv'
<1>1. CASE IsMain
  <2>1. Len(stack') = 1 /\ stack'[1] = f
    BY <1>1, TwoFrames
  <2> QED BY <1>1, <2>1, StopKept
<1>2. CASE ~ IsMain
  <2>1. Len(stack') = 2 /\ stack'[1] = stack[1] /\ stack'[2] = f
    BY <1>2, TwoFrames
  <2>2. HandlerStops(stack[2])'
    BY <1>2, <2>1 DEF HandlerStops
  <2> QED BY <2>1, <2>2, StopKept DEF StopInv
<1> QED BY <1>1, <1>2

LEMMA StopStep ==
  ASSUME MaxDepth <= 2, TypeOK, CallInv, ConfInv, StopInv, [Next]_vars
  PROVE  StopInv'
<1>0. /\ Len(stack) <= 2 /\ Len(stack) \in Nat /\ Len(stack) >= 1 /\ top \in Frame
      /\ \A k \in Key : processes[k] \in Proc \cup {None}
      /\ None \notin Proc
  BY TopFacts, NoneAssumption DEF ConfInv, TypeOK
<1>1. CASE Elsewhere
  <2>1. stack' = stack /\ processes' = processes
    BY <1>1, ElsewhereStep
  <2>2. KeepStopping
    BY <1>1, SameWorkers, WorkerKeepsStopping
       DEF Elsewhere, EditFile, ApplyConfig, SighupVrrpFifo, vars
  <2>3. ASSUME Len(stack) = 2 PROVE HandlerStops(stack[2])'
    <3>1. stack[2].pc \in {"getconf", "create"} => processes[stack[2].key] \in Proc
      BY <2>3, HandlerKey DEF CallPC
    <3> QED BY <2>1, <2>2, <2>3, <3>1 DEF HandlerStops, StopInv, HandlerAt, Handler, KeepStopping
  <2> QED BY <2>1, <2>2, <2>3, StopKept DEF StopInv
<1>2. CASE \/ Boot \/ InstallHandler \/ WritePidFile \/ RemovePidFile \/ JoinChildren \/ SetState
           \/ EndOfFile \/ Killed
  <2>1. IsMain
    BY <1>0, <1>2, MainOnly, KilledStep
  <2>2. PICK pc \in PC \ {"getconf", "create"} : Goto(pc)
    BY <1>0, <1>2, KilledStep
       DEF Boot, InstallHandler, WritePidFile, RemovePidFile, JoinChildren, SetState, EndOfFile,
           PC, MainPC, HandlerPC, CallPC, LookUps, PutLocks, Puts
  <2>3. Len(stack') = 1 /\ stack'[1].pc \notin {"getconf", "create"}
    <3> DEFINE f == [top EXCEPT !.pc = pc]
    <3>1. SetTop(f) /\ f.pc \notin {"getconf", "create"}
      BY <1>0, <2>2, FrameFacts DEF Goto
    <3> HIDE DEF f
    <3> QED BY <1>0, <2>1, <3>1, TwoFrames
  <2>4. processes' = processes /\ worker' = worker
    BY <1>2 DEF Boot, InstallHandler, WritePidFile, RemovePidFile, JoinChildren, SetState,
                EndOfFile, Killed, Sighup
  <2> QED BY <2>3, <2>4, SameWorkers, StopKept
<1>3. CASE \E k \in Key, s \in State : ReadLine(k, s)
  <2>1. PICK k \in Key, s \in State : ReadLine(k, s)
    BY <1>3
  <2> DEFINE f == [top EXCEPT !.pc = IF processes[k] = None THEN "getconf" ELSE "setstate",
                              !.key = k, !.state = s]
  <2>2. IsMain /\ Len(stack') = 1
    BY <1>0, <1>3, MainOnly
  <2>3. SetTop(f) /\ processes' = processes /\ worker' = worker
    BY <2>1 DEF ReadLine
  <2>4. f.pc \in {"getconf", "create"} => processes[f.key] = None
    BY <1>0 DEF Frame
  <2>5. stack'[1] = f
    BY <1>0, <2>2, <2>3, TwoFrames
  <2> HIDE DEF f
  <2> QED BY <2>2, <2>3, <2>4, <2>5, SameWorkers, StopKept
<1>4. CASE Entered
  <2>1. /\ Len(stack') = 2 /\ stack'[1] = stack[1] /\ stack'[2].pc = "load"
    BY <1>0, <1>4, EnteredStep
  <2>2. processes' = processes /\ worker' = worker
    BY <1>4 DEF Entered, Sighup
  <2> QED BY <2>1, <2>2, SameWorkers, StopKept DEF HandlerStops, StopInv
<1>5. CASE LoadConfig \/ Callback \/ NextKey
  <2>1. ~ IsMain /\ Len(stack) = 2 /\ processes' = processes /\ worker' = worker
    BY <1>0, <1>5, HandlerOnly DEF LoadConfig, Callback, NextKey
  <2>2. Return \/ \E f : SetTop(f) /\ f.pc \in {"callback", "next", "getpill"}
    <3>1. CASE LoadConfig
      <4> DEFINE f == [top EXCEPT !.pc = "callback", !.conf = file]
      <4>1. f.pc = "callback"
        BY <1>0 DEF Frame
      <4> QED BY <3>1, <4>1 DEF LoadConfig
    <3>2. CASE Callback
      <4> DEFINE f == [top EXCEPT !.pc = "next", !.todo = {k \in Key : states[k] # None}]
      <4>1. f.pc = "next"
        BY <1>0 DEF Frame
      <4>2. SetTop(f)
        BY <3>2 DEF Callback
      <4> QED BY <4>1, <4>2
    <3>3. CASE NextKey /\ ~ Return
      <4>1. PICK k \in top.todo :
              SetTop([top EXCEPT !.pc = "getpill", !.key = k, !.todo = @ \ {k}])
        BY <3>3 DEF NextKey
      <4> DEFINE f == [top EXCEPT !.pc = "getpill", !.key = k, !.todo = @ \ {k}]
      <4>2. SetTop(f)
        BY <4>1
      <4>3. f.pc = "getpill"
        BY <1>0 DEF Frame
      <4> QED BY <4>2, <4>3
    <3> QED BY <1>5, <3>1, <3>2, <3>3
  <2>3. CASE Return
    <3>1. Len(stack') = 1 /\ stack'[1] = stack[1]
      BY <1>0, <2>1, <2>3, TwoFrames
    <3> QED BY <2>1, <3>1, SameWorkers, StopKept DEF StopInv
  <2>4. CASE \E f : SetTop(f) /\ f.pc \in {"callback", "next", "getpill"}
    <3>1. PICK f : SetTop(f) /\ f.pc \in {"callback", "next", "getpill"}
      BY <2>4
    <3>2. Len(stack') = 2 /\ stack'[1] = stack[1] /\ stack'[2] = f
      BY <1>0, <2>1, <3>1, TwoFrames
    <3> QED BY <2>1, <3>1, <3>2, SameWorkers, StopKept DEF StopInv, HandlerStops
  <2> QED BY <2>2, <2>3, <2>4
<1>6. CASE LookUp
  <2>1. PICK f : f = [top EXCEPT !.pc = AfterLookUp(top.pc), !.proc = processes[top.key]]
    OBVIOUS
  <2>2. f.pc = AfterLookUp(top.pc) /\ f.proc = processes[top.key] /\ f.key = top.key
    BY <1>0, <2>1 DEF Frame
  <2>3. SetTop(f) /\ processes' = processes /\ worker' = worker
    BY <1>6, <2>1 DEF LookUp
  <2>3a. f.pc \notin {"getconf", "create"}
    BY <1>6, <2>2 DEF LookUp, LookUps, AfterLookUp
  <2>4. HandlerStops(f)'
    BY <2>2, <2>3, <2>3a DEF HandlerStops
  <2> QED BY <1>0, <2>3, <2>3a, <2>4, SameWorkers, StopMove
<1>7. CASE LockQueue
  <2>1. PICK f : f = [top EXCEPT !.pc = IF top.pc = "lockpill" THEN "putpill" ELSE "putupdate"]
    OBVIOUS
  <2>2. /\ f.pc = IF top.pc = "lockpill" THEN "putpill" ELSE "putupdate"
        /\ f.proc = top.proc /\ f.key = top.key
    BY <1>0, <2>1, FrameFacts
  <2>3. SetTop(f) /\ f.pc \notin {"getconf", "create"} /\ processes' = processes /\ worker' = worker
    BY <1>7, <2>1, <2>2 DEF LockQueue, Goto
  <2>4. ~ IsMain => HandlerStops(f)'
    <3> SUFFICES ASSUME ~ IsMain, top.pc = "lockpill" PROVE f.proc = processes[f.key]
      BY <2>2, <2>3 DEF HandlerStops
    <3>1. Len(stack) = 2 /\ top = Handler
      BY <1>0, TwoFrames DEF Handler
    <3> QED BY <2>2, <3>1 DEF StopInv, HandlerAt
  <2> QED BY <1>0, <2>3, <2>4, SameWorkers, StopMove
<1>8. CASE StartProcess
  <2>1. processes' = processes
    BY <1>8 DEF StartProcess
  <2>2. CASE worker[top.proc].phase = "new"
    <3>1. PICK f : f = [top EXCEPT !.pc = IF IsMain THEN "setstate" ELSE "getupdate"]
      OBVIOUS
    <3>2. f.pc \in {"setstate", "getupdate"}
      BY <1>0, <3>1, FrameFacts
    <3>3. SetTop(f) /\ worker' = [worker EXCEPT ![top.proc].phase = "idle"] /\ top.proc \in Proc
      BY <1>8, <2>2, <3>1, TopCall DEF StartProcess, Goto, CallOK, HasObject
    <3>4. KeepStopping
      BY <2>2, <3>3, PhaseOnly
    <3>5. HandlerStops(f)'
      BY <3>2 DEF HandlerStops
    <3> QED BY <1>0, <2>1, <3>2, <3>3, <3>4, <3>5, StopMove
  <2>3. CASE worker[top.proc].phase # "new"
    <3>1. worker' = worker /\ Raise
      BY <1>8, <2>3 DEF StartProcess
    <3>2. CASE IsMain
      <4>1. PICK f : f = [top EXCEPT !.pc = "removepid"]
        OBVIOUS
      <4>2. SetTop(f) /\ f.pc = "removepid"
        BY <1>0, <3>1, <3>2, <4>1, FrameFacts DEF Raise, Goto
      <4> QED BY <1>0, <2>1, <3>1, <3>2, <4>2, SameWorkers, StopMove
    <3>3. CASE ~ IsMain
      <4>1. Len(stack') = 1 /\ stack'[1] = stack[1]
        BY <1>0, <3>1, <3>3, TwoFrames DEF Raise
      <4> QED BY <2>1, <3>1, <4>1, SameWorkers, StopKept DEF StopInv
    <3> QED BY <3>2, <3>3
  <2> QED BY <2>2, <2>3
<1>9. CASE PutPill
  <2>1. ~ IsMain /\ Len(stack) = 2 /\ top = Handler /\ top = stack[2]
    BY <1>0, <1>9, HandlerOnly
  <2>2. /\ top.pc = "putpill" /\ processes' = processes
        /\ worker' = [worker EXCEPT ![top.proc].queue = Append(@, None)]
        /\ top.proc \in Proc
    BY <1>9, TopCall DEF PutPill, CallOK, HasObject, Puts
  <2>3. top.proc = processes[top.key]
    BY <2>1, <2>2 DEF StopInv, HandlerAt
  <2>4. PICK p \in Proc : p = top.proc
    BY <2>2
  <2>5. PICK f : f = [top EXCEPT !.pc = "getconf"]
    OBVIOUS
  <2>6. SetTop(f) /\ f.pc = "getconf" /\ f.key = top.key
    BY <1>0, <1>9, <2>5, FrameFacts DEF PutPill, Goto
  <2>7. KeepStopping /\ Stopping(p)'
    BY <2>2, <2>4, Pill
  <2>8. processes'[f.key] = p
    BY <2>2, <2>3, <2>4, <2>6
  <2>9. HandlerStops(f)'
    BY <2>6, <2>7, <2>8 DEF HandlerStops, Stopping, Pilled
  <2> QED BY <1>0, <2>1, <2>2, <2>6, <2>7, <2>9, StopMove
<1>10. CASE PutUpdate
  <2>1. PICK e : e = IF IsMain THEN top.state ELSE states[top.key]
    OBVIOUS
  <2>2. /\ processes' = processes /\ top.proc \in Proc
        /\ worker' = [worker EXCEPT ![top.proc].queue = Append(@, e)]
        /\ e \in State \cup {None}
    BY <1>10, <2>1, TopCall, TopFacts
       DEF PutUpdate, CallOK, HasObject, Puts, Active, CallPC, TypeOK
  <2>3. PICK f : f = [top EXCEPT !.pc = IF IsMain THEN "readline" ELSE "next"]
    OBVIOUS
  <2>4. SetTop(f) /\ f.pc \in {"readline", "next"}
    BY <1>0, <1>10, <2>3, FrameFacts DEF PutUpdate, Goto
  <2>5. KeepStopping /\ HandlerStops(f)'
    BY <2>2, <2>4, Pill DEF HandlerStops
  <2> QED BY <1>0, <2>2, <2>4, <2>5, StopMove
<1>11. CASE \E p \in Proc : CreateProcess(p)
  <2>1. PICK p \in Proc : CreateProcess(p)
    BY <1>11
  <2> DEFINE k == top.key
  <2>2. /\ k \in Key /\ top.pc = "create" /\ worker[p].phase = "free"
        /\ processes'[k] = p
        /\ \A l \in Key : l # k => processes'[l] = processes[l]
    BY <2>1, TopFacts DEF CreateProcess, Active, CallPC, TypeOK
  <2>3. /\ \A q \in Proc : q # p => worker'[q] = worker[q]
        /\ worker'[p].key = k
    BY <2>1 DEF CreateProcess, TypeOK
  <2>5. \A q \in Proc : q # p /\ processes[k] = q => Stopping(q)
    <3>1. CASE IsMain
      BY <1>0, <2>2, <3>1, TwoFrames DEF StopInv
    <3>2. CASE ~ IsMain
      BY <1>0, <2>2, <3>2, TwoFrames DEF StopInv, HandlerAt, Handler
    <3> QED BY <3>1, <3>2
  <2>6. ASSUME NEW q \in Proc, worker'[q].phase # "free"
        PROVE  worker'[q].key \in Key /\ (processes'[worker'[q].key] = q \/ Stopping(q)')
    <3>1. CASE q = p
      BY <2>2, <2>3, <3>1
    <3>2. CASE q # p
      <4>1. /\ worker'[q] = worker[q] /\ worker[q].key \in Key
            /\ processes[worker[q].key] = q \/ Stopping(q)
        BY <2>3, <2>6, <3>2 DEF StopInv
      <4>2. CASE Stopping(q)
        BY <4>1, <4>2 DEF Stopping, Pilled
      <4>3. CASE processes[worker[q].key] = q /\ worker[q].key = k
        BY <2>5, <3>2, <4>1, <4>3 DEF Stopping, Pilled
      <4>4. CASE processes[worker[q].key] = q /\ worker[q].key # k
        BY <2>2, <4>1, <4>4
      <4> QED BY <4>1, <4>2, <4>3, <4>4
    <3> QED BY <3>1, <3>2
  <2>7. PICK f : f = [top EXCEPT !.pc = "getstart"]
    OBVIOUS
  <2>8. SetTop(f) /\ f.pc = "getstart"
    BY <1>0, <2>1, <2>7, FrameFacts DEF CreateProcess, Goto
  <2>9. CASE IsMain
    <3>1. Len(stack') = 1 /\ stack'[1] = f
      BY <1>0, <2>8, <2>9, TwoFrames
    <3> QED BY <2>6, <2>8, <3>1 DEF StopInv, HandlerAt
  <2>10. CASE ~ IsMain
    <3>1. Len(stack') = 2 /\ stack'[1] = stack[1] /\ stack'[2] = f /\ stack[2] = top /\ Len(stack) = 2
      BY <1>0, <2>8, <2>10, TwoFrames
    <3>2. processes[k] # None
      BY <1>0, <2>2, <3>1, HandlerKey DEF CallPC
    <3>3. stack[1].pc \in {"getconf", "create"} => stack[1].key \in Key
      BY <1>0 DEF TypeOK, StackOK, Active, CallPC
    <3>4. stack'[1].pc \in {"getconf", "create"} => processes'[stack'[1].key] = None
      BY <2>2, <3>1, <3>2, <3>3 DEF StopInv
    <3> QED BY <2>6, <2>8, <3>1, <3>4 DEF StopInv, HandlerAt, Handler
  <2> QED BY <2>9, <2>10
<1>12. CASE GetConf
  <2>1. PICK f : SetTop(f) /\ f.pc = "create" /\ f.key = top.key
    BY <1>12, GetConfFrame
  <2>2. top.pc = "getconf" /\ processes' = processes /\ worker' = worker
    BY <1>12, GetConfFrame
  <2>3. IsMain => processes[f.key] = None
    BY <1>0, <2>1, <2>2, TwoFrames DEF StopInv
  <2>4. ~ IsMain => HandlerStops(f)'
    <3>1. ~ IsMain => Stopping(processes[f.key])
      BY <1>0, <2>1, <2>2, TwoFrames DEF StopInv, HandlerAt, Handler
    <3> QED BY <2>1, <2>2, <3>1 DEF HandlerStops, Stopping, Pilled
  <2> QED BY <1>0, <2>1, <2>2, <2>3, <2>4, SameWorkers, StopMove
<1> QED BY <1>1, <1>2, <1>3, <1>4, <1>5, <1>6, <1>7, <1>8, <1>9, <1>10, <1>11, <1>12
        DEF Next, MainStep, Environment, Killed, Entered, Elsewhere

\* Reloads do not pile up processes: a started worker that was replaced has been
\* told to stop (VrrpStates.reconfigure), wherever SIGHUP interrupts update, as long
\* as it does not interrupt the handler of another one.
THEOREM SupersededStopHolds == ASSUME MaxDepth <= 2 PROVE Spec => []SupersededStop
<1>1. Init => ConfInv /\ StopInv
  <2>1. Init => stack[1].pc = "boot" /\ \A p \in Proc : worker[p].phase = "free"
    BY DEF Init, NewFrame
  <2> QED BY <2>1 DEF Init, ConfInv, StopInv, HandlerAt
<1>2. IInv /\ ConfInv /\ StopInv /\ [Next]_vars => ConfInv' /\ StopInv'
  BY ConfStep, StopStep DEF IInv
<1>3. StopInv => SupersededStop
  BY DEF StopInv, SupersededStop, Stopping
<1> QED BY <1>1, <1>2, <1>3, Invariance, PTL DEF Spec

-----------------------------------------------------------------------------
(* Workers with the configuration in use                                    *)

SameConfs == \A p \in Proc : worker'[p].conf = worker[p].conf

\* ToReplace, said of the handler's frame
Replaces(f, k) ==
  /\ f.pc \in InLoop
  /\ \/ k \in f.todo
     \/ f.pc \in {"getpill", "lockpill", "putpill", "getconf", "create"} /\ f.key = k

LEMMA ReplacesFacts == \A k : ToReplace(k) <=> Len(stack) = 2 /\ Replaces(stack[2], k)
BY DEF ToReplace, Replaces, HandlerAt, Handler

LEMMA KeysReachedKept ==
  ASSUME TypeOK, KeysReached, UNCHANGED <<processes, ifstate>>, SameConfs,
         \A k \in Key : states[k] # None => states'[k] # None,
         stack[1].pc \in Spawning => \/ stack'[1].pc \in Spawning /\ stack'[1].key = stack[1].key
                                     \/ states'[stack[1].key] # None,
         \A k \in Key : ToReplace(k) => Len(stack') = 2 /\ Replaces(stack'[2], k)
  PROVE  KeysReached'
<1>1. \A k \in Key : ToReplace(k) => ToReplace(k)'
  BY ReplacesFacts DEF ToReplace, Replaces, HandlerAt, Handler
<1>2. \A k \in Key : processes[k] # None => processes[k] \in Proc
  BY DEF TypeOK
<1> QED BY <1>1, <1>2 DEF KeysReached, SameConfs

\* The running frame goes on with f.
LEMMA ReachMove ==
  ASSUME TypeOK, Len(stack) <= 2, ReachInv,
         UNCHANGED <<processes, states, ifstate>>, SameConfs,
         NEW f, SetTop(f),
         IsMain => /\ f.pc # "boot"
                   /\ f.pc = "create" => f.conf = ifstate
                   /\ top.pc \in Spawning => f.pc \in Spawning /\ f.key = top.key,
         ~ IsMain => /\ f.pc \in InLoop => f.conf = ifstate
                     /\ \A k \in Key : Replaces(top, k) => Replaces(f, k),
         StartsOnce'
  PROVE  ReachInv'
<1>1. CASE IsMain
  <2>1. /\ Len(stack) = 1 /\ top = stack[1] /\ Len(stack') = 1 /\ stack'[1] = f
    BY <1>1, TwoFrames
  <2>2. \A k \in Key : ~ ToReplace(k)
    BY <2>1, ReplacesFacts
  <2>3. KeysReached'
    BY <1>1, <2>1, <2>2, KeysReachedKept DEF ReachInv
  <2> QED BY <1>1, <2>1, <2>3 DEF ReachInv, HandlerAt
<1>2. CASE ~ IsMain
  <2>1. /\ Len(stack) = 2 /\ top = stack[2]
        /\ Len(stack') = 2 /\ stack'[1] = stack[1] /\ stack'[2] = f
    BY <1>2, TwoFrames
  <2>2. \A k \in Key : ToReplace(k) => Replaces(f, k)
    BY <1>2, <2>1, ReplacesFacts
  <2>3. KeysReached'
    BY <2>1, <2>2, KeysReachedKept DEF ReachInv
  <2> QED BY <1>2, <2>1, <2>3 DEF ReachInv, HandlerAt, Handler
<1> QED BY <1>1, <1>2

\* The handler returns with its loop at an end.
LEMMA ReachReturn ==
  ASSUME TypeOK, Len(stack) <= 2, ReachInv, ~ IsMain, Return,
         UNCHANGED <<processes, states, ifstate, worker>>,
         \A k \in Key : ~ Replaces(top, k)
  PROVE  ReachInv'
<1>1. /\ Len(stack) = 2 /\ top = stack[2]
      /\ Len(stack') = 1 /\ stack'[1] = stack[1] /\ top' = stack[1]
  BY TwoFrames
<1>2. \A k \in Key : ~ ToReplace(k)
  BY <1>1, ReplacesFacts
<1>3. KeysReached'
  BY <1>1, <1>2, KeysReachedKept DEF ReachInv, SameConfs
<1>4. StartsOnce'
  BY <1>1 DEF ReachInv, StartsOnce, Spawning
<1> QED BY <1>1, <1>3, <1>4 DEF ReachInv, HandlerAt

\* A step of a worker, or of nobody in the daemon
LEMMA ReachElsewhere ==
  ASSUME TypeOK, CallInv, ReachInv, Elsewhere
  PROVE  ReachInv'
<1>1. UNCHANGED <<stack, processes, states, ifstate>>
  BY ElsewhereStep
<1>2. ASSUME NEW p \in Proc
      PROVE  worker'[p].conf = worker[p].conf /\ (worker[p].phase = "new" => worker'[p].phase = "new")
  <2>1. CASE \E q \in Proc : WorkerStep(q)
    <3>1. PICK q \in Proc : WorkerStep(q)
      BY <2>1
    <3>2. /\ q # p => worker'[p] = worker[p]
          /\ worker'[q].conf = worker[q].conf
          /\ worker[q].phase # "new"
      BY <3>1 DEF WorkerStep, WorkerGet, WorkerApply, WorkerDie, TypeOK, WorkerRecord
    <3> QED BY <3>2
  <2>2. CASE ~ \E q \in Proc : WorkerStep(q)
    BY <2>2 DEF Elsewhere, EditFile, ApplyConfig, SighupVrrpFifo, vars
  <2> QED BY <2>1, <2>2
<1>3. KeysReached'
  BY <1>1, <1>2, KeysReachedKept, ReplacesFacts DEF ReachInv, SameConfs
<1>4. /\ top.pc = "getstart" => processes[top.key] \in Proc
      /\ top.pc = "start" => top.proc \in Proc
  BY TopCall, TopFacts DEF CallOK, HasObject, TypeOK, Active, CallPC, LookUps
<1>5. StartsOnce'
  BY <1>1, <1>2, <1>4 DEF ReachInv, StartsOnce, top
<1> QED BY <1>1, <1>3, <1>5 DEF ReachInv, HandlerAt, Handler

\* The steps of vrrp_fifo that no handler shares.
LEMMA ReachMain ==
  ASSUME TypeOK, CallInv, Len(stack) <= 2, ReachInv,
         \/ Boot \/ InstallHandler \/ WritePidFile \/ RemovePidFile \/ JoinChildren \/ SetState
         \/ EndOfFile \/ Killed
  PROVE  ReachInv'
<1>0. Len(stack) \in Nat /\ top \in Frame
  BY TopFacts
<1>1. IsMain /\ Len(stack) = 1 /\ top = stack[1]
  BY <1>0, MainOnly, KilledStep, TwoFrames
<1>2. PICK pc \in PC : Goto(pc) /\ pc \notin {"boot", "create", "getstart", "start"}
  BY KilledStep
     DEF Boot, InstallHandler, WritePidFile, RemovePidFile, JoinChildren, SetState, EndOfFile,
         PC, MainPC, HandlerPC, CallPC, LookUps, PutLocks, Puts
<1>3. /\ Len(stack') = 1 /\ stack'[1].pc = pc /\ stack'[1].key = top.key
      /\ top' = stack'[1]
  <2> DEFINE f == [top EXCEPT !.pc = pc]
  <2>1. SetTop(f) /\ f.pc = pc /\ f.key = top.key
    BY <1>0, <1>2, FrameFacts DEF Goto
  <2> HIDE DEF f
  <2> QED BY <1>1, <2>1, TwoFrames
<1>4. StartsOnce'
  BY <1>2, <1>3 DEF StartsOnce
<1>5. \A k \in Key : ~ ToReplace(k)
  BY <1>1, ReplacesFacts
<1>6. processes' = processes /\ worker' = worker
  BY DEF Boot, InstallHandler, WritePidFile, RemovePidFile, JoinChildren, SetState, EndOfFile,
         Killed, Sighup
<1>7. KeysReached'
  <2>1. CASE Boot
    <3>1. \A k \in Key : processes[k] = None
      BY <1>1, <2>1 DEF Boot, ReachInv
    <3> QED BY <1>6, <3>1 DEF KeysReached
  <2>2. CASE SetState
    <3>1. /\ top.key \in Key /\ top.state \in State /\ states'[top.key] = top.state
          /\ \A k \in Key : k # top.key => states'[k] = states[k]
      BY <1>1, <2>2, TopFacts DEF SetState, Active, TypeOK
    <3>2. /\ ifstate' = ifstate
          /\ \A k \in Key : states[k] # None => states'[k] # None
          /\ states'[top.key] # None
      BY <2>2, <3>1, NoneAssumption DEF SetState
    <3> QED BY <1>1, <1>5, <1>6, <3>2, KeysReachedKept DEF ReachInv, SameConfs
  <2>3. CASE \/ InstallHandler \/ WritePidFile \/ RemovePidFile \/ JoinChildren \/ EndOfFile
             \/ Killed
    <3>1. ifstate' = ifstate /\ states' = states /\ stack[1].pc \notin Spawning
      BY <1>1, <2>3 DEF InstallHandler, WritePidFile, RemovePidFile, JoinChildren, EndOfFile,
                        Killed, Sighup, Spawning
    <3> QED BY <1>5, <1>6, <3>1, KeysReachedKept DEF ReachInv, SameConfs
  <2> QED BY <2>1, <2>2, <2>3
<1> QED BY <1>2, <1>3, <1>4, <1>7 DEF ReachInv, HandlerAt

\* Entering the handler, at a point where it may start.
LEMMA ReachEntered ==
  ASSUME MaxDepth <= 2, Interruptible \cap Spawning = {},
         TypeOK, Len(stack) <= 2, ReachInv, Entered
  PROVE  ReachInv'
<1>1. /\ Len(stack) = 1 /\ IsMain /\ top = stack[1] /\ top.pc \in Interruptible
      /\ Len(stack') = 2 /\ stack'[1] = stack[1] /\ stack'[2].pc = "load"
      /\ top'.pc = "load"
  BY EnteredStep
<1>2. UNCHANGED <<processes, states, ifstate, worker>>
  BY DEF Entered, Sighup
<1>3. \A k \in Key : ~ ToReplace(k)
  BY <1>1, ReplacesFacts
<1>4. KeysReached'
  BY <1>1, <1>2, <1>3, KeysReachedKept DEF ReachInv, SameConfs
<1>5. StartsOnce'
  BY <1>1 DEF StartsOnce
<1>6. /\ Len(stack') = 2 => stack'[1].pc \notin Spawning
      /\ stack'[1].pc = "create" => stack'[1].conf = ifstate'
      /\ stack'[1].pc = "boot" => \A k \in Key : processes'[k] = None
  BY <1>1, <1>2 DEF ReachInv
<1>7. ~ HandlerAt(InLoop)'
  BY <1>1 DEF HandlerAt, Handler, InLoop, CallPC, LookUps, PutLocks, Puts
<1> QED BY <1>4, <1>5, <1>6, <1>7 DEF ReachInv

\* reconfigure stores its configuration and takes up every known key.
LEMMA ReachCallback ==
  ASSUME TypeOK, CallInv, Len(stack) <= 2, ReachInv, Callback
  PROVE  ReachInv'
<1>1. ~ IsMain /\ Len(stack) = 2 /\ top = stack[2] /\ top \in Frame
  BY HandlerOnly, TopFacts
<1>2. PICK f : f = [top EXCEPT !.pc = "next", !.todo = {k \in Key : states[k] # None}]
  OBVIOUS
<1>3. f.pc = "next" /\ f.todo = {k \in Key : states[k] # None} /\ f.conf = top.conf
  BY <1>1, <1>2 DEF Frame
<1>4. SetTop(f) /\ UNCHANGED <<processes, states, worker>> /\ ifstate' = top.conf
  BY <1>2 DEF Callback
<1>5. Len(stack') = 2 /\ stack'[1] = stack[1] /\ stack'[2] = f /\ top' = f
  BY <1>1, <1>4, TwoFrames
<1>6. ASSUME NEW k \in Key, processes[k] # None
      PROVE  states[k] # None /\ ToReplace(k)'
  <2>1. states[k] # None
    BY <1>1, <1>6 DEF ReachInv, KeysReached
  <2> QED BY <1>3, <1>5, <2>1 DEF ToReplace, HandlerAt, Handler, InLoop
<1>7. KeysReached'
  BY <1>4, <1>6 DEF KeysReached
<1>8. StartsOnce'
  BY <1>3, <1>5 DEF StartsOnce
<1> QED BY <1>1, <1>3, <1>4, <1>5, <1>7, <1>8 DEF ReachInv, Spawning, HandlerAt, Handler

\* A new process has the configuration in use.
LEMMA ReachCreate ==
  ASSUME TypeOK, CallInv, Len(stack) <= 2, ReachInv, NEW p \in Proc, CreateProcess(p)
  PROVE  ReachInv'
<1> DEFINE k == top.key
<1>1. /\ top \in Frame /\ k \in Key /\ top.pc = "create" /\ worker[p].phase = "free"
      /\ processes'[k] = p
      /\ \A l \in Key : l # k => processes'[l] = processes[l]
      /\ UNCHANGED <<states, ifstate>>
  BY TopFacts DEF CreateProcess, Active, CallPC, TypeOK
<1>2. /\ \A q \in Proc : q # p => worker'[q] = worker[q]
      /\ worker'[p].phase = "new"
      /\ worker'[p].conf = top.conf
  BY DEF CreateProcess, TypeOK
<1>3. PICK f : f = [top EXCEPT !.pc = "getstart"]
  OBVIOUS
<1>4. SetTop(f) /\ f.pc = "getstart" /\ f.key = k /\ f.todo = top.todo /\ f.conf = top.conf
  BY <1>1, <1>3, FrameFacts DEF CreateProcess, Goto
<1>5. \A l \in Key : l # k /\ processes[l] # None =>
        processes[l] \in Proc /\ worker'[processes'[l]] = worker[processes[l]]
  BY <1>1, <1>2 DEF CallInv, DictOK, TypeOK
<1>6. top' = f
  BY <1>4, TwoFrames
<1>7. StartsOnce'
  BY <1>1, <1>2, <1>4, <1>6 DEF StartsOnce
<1>8. CASE IsMain
  <2>1. Len(stack) = 1 /\ top = stack[1] /\ Len(stack') = 1 /\ stack'[1] = f
    BY <1>4, <1>8, TwoFrames
  <2>2. \A l \in Key : ~ ToReplace(l)
    BY <2>1, ReplacesFacts
  <2>3. top.conf = ifstate /\ stack[1].key = k
    BY <1>1, <2>1 DEF ReachInv
  <2>4. ASSUME NEW l \in Key, processes'[l] # None
        PROVE  /\ states'[l] # None \/ (stack'[1].pc \in Spawning /\ stack'[1].key = l)
               /\ worker'[processes'[l]].conf = ifstate'
    <3>1. CASE l = k
      BY <1>1, <1>2, <1>4, <2>1, <2>3, <3>1 DEF Spawning
    <3>2. CASE l # k
      BY <1>1, <1>5, <2>2, <2>3, <2>4, <3>2 DEF ReachInv, KeysReached
    <3> QED BY <3>1, <3>2
  <2>5. KeysReached'
    BY <2>4 DEF KeysReached
  <2>6. stack'[1].pc = "getstart" /\ Len(stack') = 1
    BY <1>4, <2>1
  <2>7. ~ HandlerAt(InLoop)'
    BY <2>6 DEF HandlerAt
  <2> QED BY <1>7, <2>5, <2>6, <2>7 DEF ReachInv
<1>9. CASE ~ IsMain
  <2>1. /\ Len(stack) = 2 /\ top = stack[2]
        /\ Len(stack') = 2 /\ stack'[1] = stack[1] /\ stack'[2] = f
    BY <1>4, <1>9, TwoFrames
  <2>2. top.conf = ifstate /\ states[k] # None /\ processes[k] \in Proc
    BY <1>1, <2>1, HandlerKey DEF ReachInv, HandlerAt, Handler, InLoop, CallPC
  <2>3. \A l \in Key : l # k /\ ToReplace(l) => ToReplace(l)'
    BY <1>1, <1>4, <2>1 DEF ToReplace, HandlerAt, Handler, InLoop, CallPC, LookUps
  <2>4. ASSUME NEW l \in Key, processes'[l] # None
        PROVE  /\ states'[l] # None \/ (stack'[1].pc \in Spawning /\ stack'[1].key = l)
               /\ worker'[processes'[l]].conf = ifstate' \/ ToReplace(l)'
    <3>1. CASE l = k
      BY <1>1, <1>2, <1>9, <2>2, <3>1
    <3>2. CASE l # k
      BY <1>1, <1>5, <2>1, <2>3, <2>4, <3>2 DEF ReachInv, KeysReached
    <3> QED BY <3>1, <3>2
  <2>5. f.conf = ifstate'
    BY <1>1, <1>4, <2>2
  <2>6. stack[1].pc # "boot"
    BY <1>1, <2>1, <2>2, NoneAssumption DEF ReachInv
  <2> QED BY <1>7, <2>1, <2>4, <2>5, <2>6 DEF ReachInv, Spawning, KeysReached, HandlerAt, Handler
<1> QED BY <1>8, <1>9

\* Calls, whoever makes them.
LEMMA ReachCall ==
  ASSUME TypeOK, CallInv, Len(stack) <= 2, ReachInv,
         LookUp \/ GetConf \/ StartProcess \/ LockQueue \/ PutPill \/ PutUpdate
  PROVE  ReachInv'
<1> USE DEF InLoop, CallPC, LookUps, PutLocks, Puts
<1>0. top \in Frame /\ Len(stack) \in Nat
  BY TopFacts
<1>1. UNCHANGED <<processes, states, ifstate>>
  BY DEF LookUp, GetConf, StartProcess, LockQueue, PutPill, PutUpdate
<1>2. ~ IsMain => Len(stack) = 2 /\ top = stack[2] /\ (top.pc \in InLoop => top.conf = ifstate)
  BY TwoFrames DEF ReachInv, HandlerAt, Handler
<1>3. CASE LookUp
  <2>1. PICK f : f = [top EXCEPT !.pc = AfterLookUp(top.pc), !.proc = processes[top.key]]
    OBVIOUS
  <2>2. /\ f.pc = AfterLookUp(top.pc) /\ f.proc = processes[top.key] /\ f.key = top.key
        /\ f.conf = top.conf /\ f.todo = top.todo
    BY <1>0, <2>1 DEF Frame
  <2>3. SetTop(f) /\ worker' = worker /\ top.pc \in LookUps
    BY <1>3, <2>1 DEF LookUp
  <2>4. top' = f
    BY <2>3, TwoFrames
  <2>5. StartsOnce'
    BY <1>1, <2>2, <2>3, <2>4 DEF ReachInv, StartsOnce, AfterLookUp
  <2>6. /\ f.pc \notin {"boot", "create"}
        /\ top.pc \in Spawning => f.pc \in Spawning
    BY <2>2, <2>3 DEF AfterLookUp, Spawning
  <2>7. \A k \in Key : Replaces(top, k) => Replaces(f, k)
    BY <2>2, <2>3 DEF AfterLookUp, Replaces
  <2> QED BY <1>1, <1>2, <2>2, <2>3, <2>5, <2>6, <2>7, ReachMove DEF SameConfs
<1>4. CASE LockQueue \/ PutPill \/ PutUpdate \/ StartProcess
  <2>0. top.pc \in HasObject => top.proc \in Proc
    BY TopCall DEF CallOK
  <2>1. top.pc = "start" => worker[top.proc].phase = "new"
    BY DEF ReachInv, StartsOnce
  <2>2. SameConfs
    <3>1. CASE LockQueue
      BY <3>1 DEF LockQueue, SameConfs
    <3>2. CASE StartProcess
      <4>1. top.proc \in Proc /\ worker' = [worker EXCEPT ![top.proc].phase = "idle"]
        BY <2>0, <2>1, <3>2 DEF StartProcess, HasObject
      <4> QED BY <4>1 DEF SameConfs, TypeOK, WorkerRecord
    <3>3. CASE PutPill \/ PutUpdate
      <4>1. PICK e : worker' = [worker EXCEPT ![top.proc].queue = Append(@, e)]
        BY <3>3 DEF PutPill, PutUpdate
      <4>2. top.proc \in Proc
        BY <2>0, <3>3 DEF PutPill, PutUpdate, HasObject
      <4> QED BY <4>1, <4>2 DEF SameConfs, TypeOK, WorkerRecord
    <3> QED BY <1>4, <3>1, <3>2, <3>3
  <2>3. PICK pc : /\ Goto(pc)
                  /\ pc \in {"putpill", "putupdate", "getconf", "readline", "next", "setstate", "getupdate"}
                  /\ top.pc \in Spawning => pc = IF IsMain THEN "setstate" ELSE "getupdate"
                  /\ top.pc \in {"getpill", "lockpill", "putpill", "getconf", "create"} =>
                       pc \in {"putpill", "getconf"}
                  /\ top.pc \in InLoop
                  /\ ~ IsMain => pc \notin {"readline", "setstate"}
    BY <1>4, <2>1 DEF LockQueue, PutPill, PutUpdate, StartProcess, Spawning
  <2>4. PICK f : f = [top EXCEPT !.pc = pc]
    OBVIOUS
  <2>5. /\ SetTop(f) /\ f.pc = pc /\ f.key = top.key /\ f.conf = top.conf /\ f.todo = top.todo
    BY <1>0, <2>3, <2>4, FrameFacts DEF Goto
  <2>6. StartsOnce'
    BY <2>3, <2>5, TwoFrames DEF StartsOnce
  <2>7. f.pc \notin {"boot", "create"} /\ (IsMain => (top.pc \in Spawning => f.pc \in Spawning))
    BY <2>3, <2>5 DEF Spawning
  <2>8. ~ IsMain => \A k \in Key : Replaces(top, k) => Replaces(f, k)
    <3> SUFFICES ASSUME ~ IsMain PROVE \A k \in Key : Replaces(top, k) => Replaces(f, k)
      OBVIOUS
    <3>1. f.pc \in InLoop
      BY <2>3, <2>5
    <3> QED BY <2>3, <2>5, <3>1 DEF Replaces
  <2> QED BY <1>1, <1>2, <2>2, <2>3, <2>5, <2>6, <2>7, <2>8, ReachMove
<1>5. CASE GetConf
  <2>1. PICK f : /\ SetTop(f) /\ f.pc = "create"
                 /\ f.conf = IF IsMain THEN ifstate ELSE top.conf
                 /\ f.key = top.key /\ f.todo = top.todo
    BY <1>5, GetConfFrame
  <2>2. top.pc = "getconf" /\ worker' = worker
    BY <1>5, GetConfFrame
  <2>3. StartsOnce'
    BY <2>1, TwoFrames DEF StartsOnce
  <2>4. \A k \in Key : Replaces(top, k) => Replaces(f, k)
    BY <2>1, <2>2 DEF Replaces
  <2>5. IsMain => f.conf = ifstate /\ top.pc \notin Spawning
    BY <2>1, <2>2 DEF Spawning
  <2> QED BY <1>1, <1>2, <2>1, <2>2, <2>3, <2>4, <2>5, ReachMove DEF SameConfs
<1> QED BY <1>3, <1>4, <1>5

\* The handler between two keys
LEMMA ReachLoop ==
  ASSUME TypeOK, CallInv, Len(stack) <= 2, ReachInv, LoadConfig \/ NextKey
  PROVE  ReachInv'
<1>0. ~ IsMain /\ Len(stack) = 2 /\ top = stack[2] /\ top \in Frame
  BY HandlerOnly, TopFacts
<1>1. UNCHANGED <<processes, states, ifstate, worker>>
  BY DEF LoadConfig, NextKey
<1>2. ASSUME NEW f, SetTop(f), f.pc \in {"callback", "getpill"},
             f.pc \in InLoop => f.conf = ifstate,
             \A k \in Key : Replaces(top, k) => Replaces(f, k)
      PROVE  ReachInv'
  <2>1. StartsOnce'
    BY <1>2, TwoFrames DEF StartsOnce
  <2> QED BY <1>0, <1>1, <1>2, <2>1, ReachMove DEF SameConfs
<1>3. CASE LoadConfig
  <2>1. \A k \in Key : ~ Replaces(top, k)
    BY <1>3 DEF LoadConfig, Replaces, InLoop, CallPC, LookUps, PutLocks, Puts
  <2>2. CASE Return
    BY <1>0, <1>1, <2>1, <2>2, ReachReturn
  <2>3. CASE ~ Return
    <3>1. PICK f : f = [top EXCEPT !.pc = "callback", !.conf = file]
      OBVIOUS
    <3>2. SetTop(f) /\ f.pc = "callback"
      BY <1>0, <1>3, <2>3, <3>1 DEF LoadConfig, Frame
    <3> QED BY <1>2, <2>1, <3>2 DEF InLoop, CallPC, LookUps, PutLocks, Puts
  <2> QED BY <2>2, <2>3
<1>4. CASE NextKey
  <2>1. CASE top.todo = {} /\ Return
    <3>1. \A k \in Key : ~ Replaces(top, k)
      BY <1>4, <2>1 DEF NextKey, Replaces
    <3> QED BY <1>0, <1>1, <2>1, <3>1, ReachReturn
  <2>2. CASE \E k \in top.todo :
               SetTop([top EXCEPT !.pc = "getpill", !.key = k, !.todo = @ \ {k}])
    <3>0. PICK k \in top.todo :
            SetTop([top EXCEPT !.pc = "getpill", !.key = k, !.todo = @ \ {k}])
      BY <2>2
    <3>1. PICK f :
            /\ f = [top EXCEPT !.pc = "getpill", !.key = k, !.todo = @ \ {k}]
            /\ SetTop(f)
      BY <3>0
    <3>2. f.pc = "getpill" /\ f.key = k /\ f.todo = top.todo \ {k} /\ f.conf = top.conf
      BY <1>0, <3>1 DEF Frame
    <3>3. top.pc = "next" /\ top.conf = ifstate
      BY <1>0, <1>4 DEF NextKey, ReachInv, HandlerAt, Handler, InLoop
    <3>4. \A l \in Key : Replaces(top, l) => Replaces(f, l)
      BY <3>2, <3>3 DEF Replaces, InLoop, CallPC, LookUps
    <3> QED BY <1>2, <3>1, <3>2, <3>3, <3>4
  <2> QED BY <1>4, <2>1, <2>2 DEF NextKey
<1> QED BY <1>3, <1>4

LEMMA ReachReadLine ==
  ASSUME TypeOK, CallInv, Len(stack) <= 2, ReachInv, NEW k \in Key, NEW s \in State, ReadLine(k, s)
  PROVE  ReachInv'
<1>1. IsMain /\ top \in Frame /\ Len(stack) \in Nat
  BY MainOnly, TopFacts
<1>2. PICK f : f = [top EXCEPT !.pc = IF processes[k] = None THEN "getconf" ELSE "setstate",
                               !.key = k, !.state = s]
  OBVIOUS
<1>3. SetTop(f) /\ UNCHANGED <<processes, states, ifstate, worker>> /\ top.pc = "readline"
  BY <1>2 DEF ReadLine
<1>4. f.pc \in {"getconf", "setstate"}
  BY <1>1, <1>2 DEF Frame
<1>5. StartsOnce'
  BY <1>3, <1>4, TwoFrames DEF StartsOnce
<1> QED BY <1>1, <1>3, <1>4, <1>5, ReachMove DEF SameConfs, Spawning

LEMMA ReachStep ==
  ASSUME MaxDepth <= 2, Interruptible \cap Spawning = {},
         TypeOK, CallInv, ConfInv, ReachInv, [Next]_vars
  PROVE  ReachInv'
<1>1. Len(stack) <= 2
  BY DEF ConfInv
<1> QED BY <1>1, ReachElsewhere, ReachMain, ReachEntered, ReachCallback, ReachCreate, ReachCall,
           ReachLoop, ReachReadLine
        DEF Next, MainStep, Environment, Killed, Entered, Elsewhere

\* A reload reaches every worker: once the daemon is back at the FIFO, each one it
\* would hand a line to runs with the configuration in use (VrrpStates.reconfigure),
\* provided that SIGHUP interrupts neither a handler nor update between reading
\* self.ifstate for a new process and storing the state of its key.
THEOREM ReloadReachesWorkersHolds ==
  ASSUME MaxDepth <= 2, Interruptible \cap Spawning = {}
  PROVE  Spec => []ReloadReachesWorkers
<1>1. Init => ConfInv /\ ReachInv
  <2> SUFFICES ASSUME Init PROVE ConfInv /\ ReachInv
    OBVIOUS
  <2>1. Len(stack) = 1 /\ stack[1].pc = "boot" /\ top.pc = "boot"
    BY DEF Init, NewFrame, top
  <2> QED BY <2>1 DEF Init, ConfInv, ReachInv, KeysReached, StartsOnce, HandlerAt
<1>2. IInv /\ ConfInv /\ ReachInv /\ [Next]_vars => ConfInv' /\ ReachInv'
  BY ConfStep, ReachStep DEF IInv
<1>3. TypeOK /\ ReachInv => ReloadReachesWorkers
  <2> SUFFICES ASSUME TypeOK, ReachInv, Idle, NEW k \in Key, processes[k] # None
               PROVE  worker[processes[k]].conf = ifstate
    BY DEF ReloadReachesWorkers
  <2>1. ~ ToReplace(k)
    BY DEF Idle, IsMain, ToReplace, HandlerAt
  <2> QED BY <2>1 DEF ReachInv, KeysReached
<1> QED BY <1>1, <1>2, <1>3, Invariance, PTL DEF Spec, IInv

-----------------------------------------------------------------------------
(* The items before the pill                                                *)

LEMMA BeforePillEmpty == BeforePill(<<>>) = {}
BY DEF BeforePill

\* Putting an item at the end
LEMMA BeforePillAppend ==
  ASSUME NEW S, NEW q \in Seq(S), NEW e \in S
  PROVE  BeforePill(Append(q, e)) =
           BeforePill(q) \cup (IF e = None \/ \E i \in 1 .. Len(q) : q[i] = None THEN {} ELSE {e})
<1> DEFINE a == Append(q, e)
           n == Len(q)
           pre(s, i) == \A j \in 1 .. i : s[j] # None
<1>1. /\ n \in Nat /\ Len(a) = n + 1 /\ a[n + 1] = e
      /\ \A i \in 1 .. n : a[i] = q[i]
  OBVIOUS
<1> HIDE DEF a, n
<1>2. \A i \in 1 .. n : pre(a, i) <=> pre(q, i)
  BY <1>1
<1>3. pre(a, n + 1) <=> e # None /\ pre(q, n)
  BY <1>1
<1>4. BeforePill(q) = {q[i] : i \in {i \in 1 .. n : pre(q, i)}}
  BY DEF BeforePill, n
<1>5. BeforePill(a) = {a[i] : i \in {i \in 1 .. n + 1 : pre(a, i)}}
  BY <1>1 DEF BeforePill
<1>6. pre(q, n) <=> ~ \E i \in 1 .. n : q[i] = None
  OBVIOUS
<1> HIDE DEF pre
<1>7. ASSUME NEW x PROVE x \in BeforePill(a) <=> x \in BeforePill(q) \/ (x = e /\ pre(a, n + 1))
  <2>1. x \in BeforePill(a) <=> \E i \in 1 .. n + 1 : pre(a, i) /\ x = a[i]
    BY <1>5
  <2>2. x \in BeforePill(q) <=> \E i \in 1 .. n : pre(q, i) /\ x = q[i]
    BY <1>4
  <2> QED BY <1>1, <1>2, <2>1, <2>2
<1> QED BY <1>3, <1>6, <1>7 DEF a, n

\* Taking the first item
LEMMA BeforePillHead ==
  ASSUME NEW S, NEW q \in Seq(S), q # <<>>
  PROVE  BeforePill(q) = IF Head(q) = None THEN {} ELSE {Head(q)} \cup BeforePill(Tail(q))
<1> DEFINE t == Tail(q)
           n == Len(t)
           pre(s, i) == \A j \in 1 .. i : s[j] # None
<1>1. /\ n \in Nat /\ Len(q) = n + 1 /\ Head(q) = q[1]
      /\ \A i \in 1 .. n : t[i] = q[i + 1]
  OBVIOUS
<1> HIDE DEF t, n
<1>2. ASSUME NEW i \in 1 .. n PROVE pre(q, i + 1) <=> q[1] # None /\ pre(t, i)
  <2>1. ASSUME pre(q, i + 1) PROVE q[1] # None /\ pre(t, i)
    <3>1. \A j \in 1 .. i : j + 1 \in 1 .. i + 1 /\ j \in 1 .. n
      BY <1>1
    <3> QED BY <1>1, <2>1, <3>1
  <2>2. ASSUME q[1] # None, pre(t, i) PROVE pre(q, i + 1)
    <3> SUFFICES ASSUME NEW j \in 1 .. i + 1 PROVE q[j] # None
      OBVIOUS
    <3>1. CASE j = 1
      BY <2>2, <3>1
    <3>2. CASE j # 1
      <4>1. j - 1 \in 1 .. i /\ j - 1 \in 1 .. n /\ (j - 1) + 1 = j
        BY <1>1, <3>2
      <4> QED BY <1>1, <2>2, <4>1
    <3> QED BY <3>1, <3>2
  <2> QED BY <2>1, <2>2
<1>3. pre(q, 1) <=> q[1] # None
  OBVIOUS
<1>4. BeforePill(q) = {q[i] : i \in {i \in 1 .. n + 1 : pre(q, i)}}
  BY <1>1 DEF BeforePill
<1>5. BeforePill(t) = {t[i] : i \in {i \in 1 .. n : pre(t, i)}}
  BY DEF BeforePill, n
<1>6. \A i \in 1 .. n + 1 : pre(q, i) => q[1] # None
  BY <1>1
<1> HIDE DEF pre
<1>7. ASSUME NEW x PROVE x \in BeforePill(q) <=> q[1] # None /\ (x = q[1] \/ x \in BeforePill(t))
  <2>1. x \in BeforePill(q) <=> \E i \in 1 .. n + 1 : pre(q, i) /\ x = q[i]
    BY <1>4
  <2>2. x \in BeforePill(t) <=> \E i \in 1 .. n : pre(t, i) /\ x = t[i]
    BY <1>5
  <2>3. ASSUME x \in BeforePill(q) PROVE q[1] # None /\ (x = q[1] \/ x \in BeforePill(t))
    <3>1. PICK i \in 1 .. n + 1 : pre(q, i) /\ x = q[i]
      BY <2>1, <2>3
    <3>2. CASE i = 1
      BY <1>6, <3>1, <3>2
    <3>3. CASE i # 1
      <4>1. i - 1 \in 1 .. n /\ (i - 1) + 1 = i
        BY <1>1, <3>3
      <4> QED BY <1>1, <1>2, <2>2, <3>1, <4>1
    <3> QED BY <3>2, <3>3
  <2>4. ASSUME q[1] # None, x = q[1] \/ x \in BeforePill(t) PROVE x \in BeforePill(q)
    <3>1. CASE x = q[1]
      <4>1. 1 \in 1 .. n + 1
        BY <1>1
      <4> QED BY <1>3, <2>1, <2>4, <3>1, <4>1
    <3>2. CASE x \in BeforePill(t)
      <4>1. PICK i \in 1 .. n : pre(t, i) /\ x = t[i]
        BY <2>2, <3>2
      <4>2. i + 1 \in 1 .. n + 1
        BY <1>1
      <4> QED BY <1>1, <1>2, <2>1, <2>4, <4>1, <4>2
    <3> QED BY <2>4, <3>1, <3>2
  <2> QED BY <2>3, <2>4
<1> QED BY <1>1, <1>7 DEF t

-----------------------------------------------------------------------------
(* Orders                                                                   *)

Counts(p, k) == worker[p].key = k /\ worker[p].phase \in {"new", "idle", "busy"}

\* o is an order for k that p has yet to carry out
Has(p, k, o) == Counts(p, k) /\ \E s \in Remaining(worker[p]) :
                                  o = [conf |-> worker[p].conf, state |-> s]

LEMMA OrdersFacts ==
  /\ \A k, o : o \in Orders(k) <=> \E p \in Proc : Has(p, k, o)
  /\ \A k, o : o \in Orders(k)' <=> \E p \in Proc : Has(p, k, o)'
<1>1. \A k, o : o \in Orders(k) <=> \E p \in Proc : Has(p, k, o)
  BY DEF Orders, Has, Counts
<1>2. \A k, o : o \in Orders(k)' <=> \E p \in Proc : Has(p, k, o)'
  BY DEF Orders, Has, Counts
<1> QED BY <1>1, <1>2

\* Workers that stay as they are keep their orders.
LEMMA OthersHave ==
  ASSUME NEW p \in Proc, \A q \in Proc : q # p => worker'[q] = worker[q]
  PROVE  \A q \in Proc : q # p => \A k, o : (Has(q, k, o)' <=> Has(q, k, o))
BY DEF Has, Counts, Remaining, BeforePill

LEMMA OrdersKept ==
  ASSUME NEW p \in Proc, \A q \in Proc : q # p => worker'[q] = worker[q],
         \A k, o : Has(p, k, o)' <=> Has(p, k, o)
  PROVE  \A k : Orders(k)' = Orders(k)
<1>1. \A k, o : o \in Orders(k)' <=> o \in Orders(k)
  BY OthersHave, OrdersFacts
<1> QED BY <1>1

\* What one worker does is seen at its own key only.
LEMMA OthersOrders ==
  ASSUME NEW p \in Proc, \A q \in Proc : q # p => worker'[q] = worker[q],
         worker'[p].key = worker[p].key
  PROVE  \A k : k # worker[p].key => Orders(k)' = Orders(k)
<1>1. \A k, o : k # worker[p].key => ~ Has(p, k, o) /\ ~ Has(p, k, o)'
  BY DEF Has, Counts
<1>2. \A k, o : k # worker[p].key => (o \in Orders(k)' <=> o \in Orders(k))
  BY <1>1, OthersHave, OrdersFacts
<1> QED BY <1>2

\* A key whose worker stays is as delivered as it was.
LEMMA SameDue ==
  ASSUME TypeOK, NEW k \in Key, processes'[k] = processes[k], states'[k] = states[k],
         processes[k] # None => worker'[processes[k]] = worker[processes[k]],
         states[k] # None => processes[k] # None
  PROVE  k \in Due' <=> k \in Due
BY DEF Due, Delivered, Running, Pilled, LastGiven

\* A worker that changes is stored under its own key, if at all.
LEMMA OthersDue ==
  ASSUME TypeOK, CallInv, NEW p \in Proc, NEW kk \in Key,
         worker[p].phase = "free" \/ worker[p].key = kk,
         \A q \in Proc : q # p => worker'[q] = worker[q],
         \A k \in Key : k # kk => processes'[k] = processes[k] /\ states'[k] = states[k]
  PROVE  \A k \in Key : k # kk => (k \in Due' <=> k \in Due) /\ (Settled(k) => Settled(k)')
<1> SUFFICES ASSUME NEW k \in Key, k # kk
             PROVE  (k \in Due' <=> k \in Due) /\ (Settled(k) => Settled(k)')
  OBVIOUS
<1>1. states[k] # None => processes[k] # None
  BY DEF CallInv, DictOK
<1>2. processes[k] # None => processes[k] \in Proc /\ processes[k] # p
  BY DEF CallInv, DictOK, TypeOK
<1>3. processes[k] # None => worker'[processes[k]] = worker[processes[k]]
  BY <1>2
<1>4. Settled(k) => Settled(k)'
  BY <1>3 DEF Settled, Delivered, Running, Pilled, LastGiven
<1> QED BY <1>1, <1>3, <1>4, SameDue

LEMMA RaisedFacts ==
  ASSUME NEW p \in Proc, \A q \in Proc : q # p => worker'[q] = worker[q],
         worker'[p].phase = "dead" <=> worker[p].phase = "dead",
         worker[p].phase = "dead" => worker'[p].key = worker[p].key
  PROVE  Raised' = Raised
BY DEF Raised

ServiceVars == <<file, states, Due, [k \in Key |-> Orders(k)], kernel, Raised>>

\* Steps between two calls are no business of the service.
LEMMA QuietStep ==
  ASSUME UNCHANGED <<file, processes, states, worker, kernel>>
  PROVE  UNCHANGED ServiceVars
<1>1. \A k : Orders(k)' = Orders(k)
  BY DEF Orders, Remaining, BeforePill
<1>2. Due' = Due
  BY DEF Due, Delivered, Running, Pilled, LastGiven
<1>3. Raised' = Raised
  BY DEF Raised
<1> QED BY <1>1, <1>2, <1>3 DEF ServiceVars

-----------------------------------------------------------------------------
(* What the daemon's steps are to the service                               *)

\* PutPill and PutUpdate add an item to the queue of a worker of their key.
LEMMA PutFacts ==
  ASSUME TypeOK, CallInv, DeliveryInv, PutPill \/ PutUpdate
  PROVE  \E p \in Proc, kk \in Key, e \in State \cup {None} :
           /\ kk = top.key /\ p = top.proc /\ worker[p].key = kk /\ worker[p].phase # "free"
           /\ worker'[p].key = kk /\ worker'[p].phase = worker[p].phase
           /\ worker'[p].conf = worker[p].conf /\ worker'[p].state = worker[p].state
           /\ worker[p].queue \in Seq(State \cup {None})
           /\ worker'[p].queue = Append(worker[p].queue, e)
           /\ \A q \in Proc : q # p => worker'[q] = worker[q]
           /\ UNCHANGED <<file, processes, states, kernel>>
           /\ PutPill => e = None /\ states[kk] # None
           /\ PutUpdate => e = states[kk] /\ e # None
<1>1. PICK kk, p, e :
        /\ kk = top.key /\ p = top.proc
        /\ e = IF PutPill THEN None ELSE IF IsMain THEN top.state ELSE states[top.key]
  OBVIOUS
<1>2. ~ (PutPill /\ PutUpdate) /\ (PutPill => ~ IsMain) /\ top.pc \in CallPC
  BY TopFacts DEF PutPill, PutUpdate, MainPC, CallPC, LookUps, PutLocks, Puts
<1>3. /\ p \in Proc /\ worker[p].key = kk /\ worker[p].phase # "free" /\ kk \in Key
      /\ ~ IsMain => states[kk] # None
      /\ IsMain => PutUpdate /\ states[kk] = top.state /\ top.state \in State
  <2>1. CallOK(Len(stack), top) /\ kk \in Key /\ (IsMain => top.state \in State)
    BY <1>1, <1>2, TopInv, TopFacts DEF Active
  <2>2. top.pc \in {"putpill", "putupdate"}
    BY DEF PutPill, PutUpdate
  <2>3. ~ IsMain => Len(stack) > 1
    BY TopFacts
  <2>4. IsMain => top.pc = "putupdate"
    BY <1>2, <2>2 DEF PutUpdate, PutPill
  <2> QED BY <1>1, <1>2, <2>1, <2>2, <2>3, <2>4 DEF CallOK, HasObject, Puts, IsMain
<1>4. /\ e \in State \cup {None}
      /\ PutPill => e = None /\ states[kk] # None
      /\ PutUpdate => e = states[kk] /\ e # None
  BY <1>1, <1>2, <1>3, NoneAssumption DEF TypeOK
<1>5. /\ worker' = [worker EXCEPT ![p].queue = Append(@, e)]
      /\ UNCHANGED <<file, processes, states, kernel>>
  BY <1>1, <1>2, <1>4 DEF PutPill, PutUpdate, world
<1>6. /\ worker'[p].key = kk /\ worker'[p].phase = worker[p].phase
      /\ worker'[p].conf = worker[p].conf /\ worker'[p].state = worker[p].state
      /\ worker[p].queue \in Seq(State \cup {None})
      /\ worker'[p].queue = Append(worker[p].queue, e)
      /\ \A q \in Proc : q # p => worker'[q] = worker[q]
  BY <1>3, <1>5 DEF TypeOK, WorkerRecord
<1> QED BY <1>1, <1>3, <1>4, <1>5, <1>6

\* Once more, for an item that is put.
LEMMA PutOrders ==
  ASSUME NEW p \in Proc, NEW kk \in Key, NEW e \in State \cup {None},
         worker[p].key = kk, worker'[p].key = kk, worker'[p].phase = worker[p].phase,
         worker'[p].conf = worker[p].conf, worker'[p].state = worker[p].state,
         worker[p].queue \in Seq(State \cup {None}),
         worker'[p].queue = Append(worker[p].queue, e),
         \A q \in Proc : q # p => worker'[q] = worker[q]
  PROVE  /\ \A k : k # kk => Orders(k)' = Orders(k)
         /\ Orders(kk)' = IF e # None /\ ~ Pilled(p) /\ Counts(p, kk)
                            THEN Orders(kk) \cup {[conf |-> worker[p].conf, state |-> e]}
                            ELSE Orders(kk)
         /\ Raised' = Raised
         /\ Pilled(p)' <=> Pilled(p) \/ e = None
         /\ LastGiven(p)' = e
<1>1. BeforePill(worker'[p].queue) =
        BeforePill(worker[p].queue) \cup (IF e = None \/ Pilled(p) THEN {} ELSE {e})
  BY BeforePillAppend DEF Pilled
<1>2. Remaining(worker'[p]) =
        Remaining(worker[p]) \cup (IF e = None \/ Pilled(p) THEN {} ELSE {e})
  BY <1>1 DEF Remaining
<1>3. \A o : Has(p, kk, o)' <=> \/ Has(p, kk, o)
                                \/ /\ e # None /\ ~ Pilled(p) /\ Counts(p, kk)
                                   /\ o = [conf |-> worker[p].conf, state |-> e]
  BY <1>2 DEF Has, Counts
<1>4. \A o : o \in Orders(kk)' <=> \/ o \in Orders(kk)
                                   \/ /\ e # None /\ ~ Pilled(p) /\ Counts(p, kk)
                                      /\ o = [conf |-> worker[p].conf, state |-> e]
  BY <1>3, OthersHave, OrdersFacts
<1>5. Raised' = Raised
  BY RaisedFacts
<1>6. /\ Len(worker'[p].queue) = Len(worker[p].queue) + 1 /\ Len(worker[p].queue) \in Nat
      /\ worker'[p].queue[Len(worker[p].queue) + 1] = e
      /\ \A i \in 1 .. Len(worker[p].queue) : worker'[p].queue[i] = worker[p].queue[i]
      /\ worker'[p].queue # <<>>
  OBVIOUS
<1>7. Pilled(p)' <=> Pilled(p) \/ e = None
  BY <1>6 DEF Pilled
<1>8. LastGiven(p)' = e
  BY <1>6 DEF LastGiven
<1> QED BY <1>4, <1>5, <1>7, <1>8, OthersOrders

\* The service hands out, in vain if the worker has died.
LEMMA PutUpdateMaps ==
  ASSUME IInv, ConfsLoad, PutUpdate
  PROVE  \/ UNCHANGED ServiceVars
         \/ \E k \in Key : Service!HandOut(k) \/ Service!HandOutInVain(k)
<1>0. TypeOK /\ CallInv /\ DeliveryInv
  BY DEF IInv
<1>1. PICK p \in Proc, kk \in Key, e \in State \cup {None} :
           /\ kk = top.key /\ p = top.proc /\ worker[p].key = kk /\ worker[p].phase # "free"
           /\ worker'[p].key = kk /\ worker'[p].phase = worker[p].phase
           /\ worker'[p].conf = worker[p].conf /\ worker'[p].state = worker[p].state
           /\ worker[p].queue \in Seq(State \cup {None})
           /\ worker'[p].queue = Append(worker[p].queue, e)
           /\ \A q \in Proc : q # p => worker'[q] = worker[q]
           /\ UNCHANGED <<file, processes, states, kernel>>
           /\ e = states[kk] /\ e # None
  BY <1>0, PutFacts
<1>2. /\ \A k : k # kk => Orders(k)' = Orders(k)
      /\ Orders(kk)' = IF ~ Pilled(p) /\ Counts(p, kk)
                         THEN Orders(kk) \cup {[conf |-> worker[p].conf, state |-> states[kk]]}
                         ELSE Orders(kk)
      /\ Raised' = Raised
      /\ Pilled(p)' <=> Pilled(p)
      /\ LastGiven(p)' = states[kk]
  BY <1>1, PutOrders
<1>3. \A k \in Key : k # kk => (k \in Due' <=> k \in Due)
  BY <1>0, <1>1, OthersDue
<1>4. processes[kk] # None /\ processes[kk] \in Proc
  BY <1>0, <1>1 DEF CallInv, DictOK, TypeOK
<1>5. /\ kk \in Due' => kk \in Due
      /\ Pilled(p) \/ worker[p].phase = "done" => (kk \in Due' <=> kk \in Due)
  <2>1. CASE processes[kk] = p
    BY <1>1, <1>2, <2>1 DEF Due, Delivered, Running
  <2>2. CASE processes[kk] # p
    <3>1. worker'[processes[kk]] = worker[processes[kk]]
      BY <1>1, <1>4, <2>2
    <3> QED BY <1>0, <1>1, <1>4, <3>1, SameDue
  <2> QED BY <2>1, <2>2
<1>6. Due \subseteq Key /\ Due' \subseteq Key
  BY DEF Due
<1>8. Due' = IF kk \in Due' THEN Due ELSE Due \ {kk}
  BY <1>3, <1>5, <1>6
<1>9. worker[p].phase \in {"free", "new", "idle", "busy", "done", "dead"}
  BY <1>0 DEF TypeOK, WorkerRecord
<1>10. CASE Pilled(p) \/ worker[p].phase = "done"
  <2>1. Orders(kk)' = Orders(kk)
    BY <1>2, <1>10 DEF Counts
  <2>2. Due' = Due
    BY <1>5, <1>8, <1>10
  <2>3. [k \in Key |-> Orders(k)]' = [k \in Key |-> Orders(k)]
    BY <1>2, <2>1
  <2> QED BY <1>1, <1>2, <2>2, <2>3 DEF ServiceVars
<1>11. CASE ~ Pilled(p) /\ worker[p].phase \in {"new", "idle", "busy"}
  <2>1. Orders(kk)' = Orders(kk) \cup {[conf |-> worker[p].conf, state |-> states[kk]]}
    BY <1>1, <1>2, <1>11 DEF Counts
  <2>2. worker[p].conf \in Loads
    BY <1>1 DEF ConfsLoad, WorkersLoad
  <2>3. [k \in Key |-> Orders(k)]' =
          [[k \in Key |-> Orders(k)] EXCEPT ![kk] =
             @ \cup {[conf |-> worker[p].conf, state |-> states[kk]]}]
    BY <1>2, <2>1
  <2>4. Due' \in {Due, Due \ {kk}}
    BY <1>8
  <2>5. Service!HandOut(kk)
    BY <1>1, <1>2, <2>2, <2>3, <2>4 DEF Service!HandOut, Service!Loads, Loads
  <2> QED BY <2>5
<1>12. CASE ~ Pilled(p) /\ worker[p].phase = "dead"
  <2>1. Orders(kk)' = Orders(kk)
    BY <1>2, <1>12 DEF Counts
  <2>2. kk \in Raised
    BY <1>1, <1>12 DEF Raised
  <2>3. [k \in Key |-> Orders(k)]' = [k \in Key |-> Orders(k)]
    BY <1>2, <2>1
  <2>4. CASE kk \in Due'
    BY <1>1, <1>2, <1>8, <2>3, <2>4 DEF ServiceVars
  <2>5. CASE kk \notin Due'
    <3>1. Service!HandOutInVain(kk)
      BY <1>1, <1>2, <1>8, <2>2, <2>3, <2>5 DEF Service!HandOutInVain
    <3> QED BY <3>1
  <2> QED BY <2>4, <2>5
<1> QED BY <1>1, <1>9, <1>10, <1>11, <1>12

\* A pill makes the last state due again, with the worker that replaces this one.
LEMMA PutPillMaps ==
  ASSUME IInv, PutPill
  PROVE  top.key \in Key /\ (UNCHANGED ServiceVars \/ Service!Reload(top.key))
<1>0. TypeOK /\ CallInv /\ DeliveryInv
  BY DEF IInv
<1>1. PICK p \in Proc, kk \in Key, e \in State \cup {None} :
           /\ kk = top.key /\ p = top.proc /\ worker[p].key = kk /\ worker[p].phase # "free"
           /\ worker'[p].key = kk /\ worker'[p].phase = worker[p].phase
           /\ worker'[p].conf = worker[p].conf /\ worker'[p].state = worker[p].state
           /\ worker[p].queue \in Seq(State \cup {None})
           /\ worker'[p].queue = Append(worker[p].queue, e)
           /\ \A q \in Proc : q # p => worker'[q] = worker[q]
           /\ UNCHANGED <<file, processes, states, kernel>>
           /\ e = None /\ states[kk] # None
  BY <1>0, PutFacts
<1>2. (\A k : Orders(k)' = Orders(k)) /\ Raised' = Raised /\ Pilled(p)'
  BY <1>1, PutOrders
<1>3. \A k \in Key : k # kk => (k \in Due' <=> k \in Due)
  BY <1>0, <1>1, OthersDue
<1>4. processes[kk] # None /\ processes[kk] \in Proc
  BY <1>0, <1>1 DEF CallInv, DictOK, TypeOK
<1>5. kk \in Due' \/ (kk \in Due' <=> kk \in Due)
  <2>1. CASE processes[kk] = p
    BY <1>1, <1>2, <2>1 DEF Due, Delivered
  <2>2. CASE processes[kk] # p
    <3>1. worker'[processes[kk]] = worker[processes[kk]]
      BY <1>1, <1>4, <2>2
    <3> QED BY <1>0, <1>1, <1>4, <3>1, SameDue
  <2> QED BY <2>1, <2>2
<1>6. Due \subseteq Key /\ Due' \subseteq Key
  BY DEF Due
<1>7. Due' = Due \/ Due' = Due \cup {kk}
  BY <1>3, <1>5, <1>6
<1>8. [k \in Key |-> Orders(k)]' = [k \in Key |-> Orders(k)]
  BY <1>2
<1>9. CASE Due' = Due
  BY <1>1, <1>2, <1>8, <1>9 DEF ServiceVars
<1>10. CASE Due' = Due \cup {kk}
  BY <1>1, <1>2, <1>8, <1>10 DEF Service!Reload
<1> QED BY <1>1, <1>7, <1>9, <1>10

\* So does the new process, as nothing was put into its queue.
LEMMA CreateMaps ==
  ASSUME IInv, NEW p \in Proc, CreateProcess(p)
  PROVE  top.key \in Key /\ (UNCHANGED ServiceVars \/ Service!Reload(top.key))
<1>0. TypeOK /\ CallInv /\ DeliveryInv
  BY DEF IInv
<1>1. PICK kk \in Key : kk = top.key
  <2>1. top.pc \in Active
    BY DEF CreateProcess, Active, CallPC
  <2> QED BY <1>0, <2>1, TopFacts
<1>2. /\ worker[p].phase = "free" /\ UNCHANGED <<file, states, kernel>>
      /\ \A q \in Proc : q # p => worker'[q] = worker[q]
      /\ worker'[p].key = kk /\ worker'[p].phase = "new" /\ worker'[p].queue = <<>>
      /\ processes'[kk] = p
      /\ \A l \in Key : l # kk => processes'[l] = processes[l] /\ states'[l] = states[l]
  BY <1>0, <1>1 DEF CreateProcess, TypeOK, world
<1>3. \A k, o : ~ Has(p, k, o) /\ ~ Has(p, k, o)'
  BY <1>2, BeforePillEmpty DEF Has, Counts, Remaining
<1>4. \A k : Orders(k)' = Orders(k)
  BY <1>2, <1>3, OrdersKept
<1>5. Raised' = Raised
  BY <1>2, RaisedFacts
<1>6. \A k \in Key : k # kk => (k \in Due' <=> k \in Due)
  BY <1>0, <1>2, OthersDue
<1>7. states[kk] # None => kk \in Due'
  BY <1>1, <1>2 DEF Due, Delivered, Running
<1>8. states[kk] = None => kk \notin Due /\ kk \notin Due'
  BY <1>2 DEF Due
<1>9. Due \subseteq Key /\ Due' \subseteq Key
  BY DEF Due
<1>10. [k \in Key |-> Orders(k)]' = [k \in Key |-> Orders(k)]
  BY <1>4
<1>11. CASE states[kk] = None
  <2>1. Due' = Due
    BY <1>6, <1>8, <1>9, <1>11
  <2> QED BY <1>1, <1>2, <1>5, <1>10, <2>1 DEF ServiceVars
<1>12. CASE states[kk] # None
  <2>1. Due' = Due \cup {kk}
    BY <1>6, <1>7, <1>9, <1>12
  <2> QED BY <1>1, <1>2, <1>5, <1>10, <1>12, <2>1 DEF Service!Reload
<1> QED BY <1>1, <1>11, <1>12

\* A process that starts has been given nothing that was not due already.
LEMMA StartMaps ==
  ASSUME IInv, ConfsLoad, StartProcess
  PROVE  UNCHANGED ServiceVars
<1>0. TypeOK /\ CallInv /\ DeliveryInv
  BY DEF IInv
<1>1. CASE worker[top.proc].phase # "new"
  BY <1>1, QuietStep DEF StartProcess, world
<1>2. CASE worker[top.proc].phase = "new"
  <2>1. PICK p, kk : p = top.proc /\ kk = top.key
    OBVIOUS
  <2>2. /\ p \in Proc /\ kk \in Key /\ worker[p].key = kk
        /\ (p = processes[kk] /\ Fresh(p)) \/ Settled(kk)
    BY <1>0, <2>1, TopInv, TopFacts DEF StartProcess, CallOK, HasObject, OnTrack, Active, CallPC
  <2>3. /\ UNCHANGED <<file, processes, states, kernel>>
        /\ worker[p].phase = "new"
        /\ worker' = [worker EXCEPT ![p].phase = "idle"]
    BY <1>2, <2>1 DEF StartProcess, world
  <2>4. /\ \A q \in Proc : q # p => worker'[q] = worker[q]
        /\ worker'[p].key = kk /\ worker'[p].phase = "idle"
        /\ worker'[p].conf = worker[p].conf /\ worker'[p].state = worker[p].state
        /\ worker'[p].queue = worker[p].queue
    BY <1>0, <2>2, <2>3 DEF TypeOK, WorkerRecord
  <2>5. Remaining(worker'[p]) = Remaining(worker[p])
    BY <2>3, <2>4 DEF Remaining
  <2>6. \A k, o : Has(p, k, o)' <=> Has(p, k, o)
    BY <2>2, <2>3, <2>4, <2>5 DEF Has, Counts
  <2>7. [k \in Key |-> Orders(k)]' = [k \in Key |-> Orders(k)]
    BY <2>2, <2>4, <2>6, OrdersKept
  <2>8. Raised' = Raised
    BY <2>2, <2>3, <2>4, RaisedFacts
  <2>9. \A k \in Key : k # kk => (k \in Due' <=> k \in Due)
    BY <1>0, <2>2, <2>3, <2>4, OthersDue
  <2>10. kk \in Due' <=> kk \in Due
    <3>1. CASE p = processes[kk]
      <4>1. Fresh(p)
        BY <2>2, <2>3, <3>1 DEF Settled, Delivered, Running
      <4>2. worker[p].state = None
        BY <2>2, <2>3 DEF ConfsLoad, WorkersLoad
      <4> QED BY <2>2, <2>3, <2>4, <3>1, <4>1, <4>2 DEF Fresh, Due, Delivered, Running, LastGiven
    <3>2. CASE p # processes[kk]
      <4>1. states[kk] # None => processes[kk] # None
        BY <1>0, <2>2 DEF CallInv, DictOK
      <4>2. processes[kk] # None => worker'[processes[kk]] = worker[processes[kk]]
        BY <1>0, <2>2, <2>4, <3>2 DEF TypeOK
      <4> QED BY <1>0, <2>2, <2>3, <4>1, <4>2, SameDue
    <3> QED BY <3>1, <3>2
  <2>11. Due' = Due
    <3>1. Due \subseteq Key /\ Due' \subseteq Key
      BY DEF Due
    <3> QED BY <2>9, <2>10, <3>1
  <2> QED BY <2>3, <2>7, <2>8, <2>11 DEF ServiceVars
<1> QED BY <1>1, <1>2

\* A report is taken when every earlier one is in a queue.
LEMMA SetStateMaps ==
  ASSUME IInv, ReportsKept, SetState
  PROVE  \E k \in Key, s \in State : Service!Report(k, s)
<1>0. TypeOK /\ CallInv /\ DeliveryInv
  BY DEF IInv
<1>1. top.pc = "setstate" /\ top.pc \in Active /\ top.pc \notin HandlerPC
  BY DEF SetState, Active, HandlerPC, CallPC, LookUps, PutLocks, Puts
<1>2. IsMain /\ Len(stack) = 1 /\ top = stack[1]
  BY <1>0, <1>1, TopFacts DEF IsMain, top
<1>3. PICK k \in Key, s \in State : k = top.key /\ s = top.state
  BY <1>0, <1>1, <1>2, TopFacts
<1>4. /\ UNCHANGED <<file, processes, worker, kernel>>
      /\ states' = [states EXCEPT ![k] = s]
      /\ states'[k] = s /\ s # None
      /\ \A l \in Key : l # k => states'[l] = states[l]
  BY <1>0, <1>3, NoneAssumption DEF SetState, TypeOK, world
<1>5. \A l \in Key : states[l] # None => processes[l] # None
  BY <1>0 DEF CallInv, DictOK
<1>6. processes[k] # None /\ Usable(processes[k])
  BY <1>0, <1>1, <1>3, TopInv DEF CallOK, OnTrack, Settled, Delivered, Usable
<1>7. states[k] # None => Settled(k)
  BY <1>1, <1>2, <1>3 DEF ReportsKept, ReportKept, Kept
<1>8. \A l \in Key : l # k /\ processes[l] # None => Settled(l)
  <2> SUFFICES ASSUME NEW l \in Key, l # k, processes[l] # None PROVE Settled(l)
    OBVIOUS
  <2>1. \A i \in 1 .. Len(stack) : ~ Pending(i, l)
    BY <1>2, <1>3 DEF Pending
  <2> QED BY <1>0, <2>1 DEF DeliveryInv, KeysServed
<1>9. Due = {}
  BY <1>5, <1>7, <1>8 DEF Due, Settled
<1>10. \A l \in Key : l # k => l \notin Due'
  BY <1>0, <1>4, <1>5, <1>9, SameDue
<1>11. k \notin Due' => s = states[k]
  <2> SUFFICES ASSUME k \notin Due' PROVE s = states[k]
    OBVIOUS
  <2>1. LastGiven(processes[k]) = s
    BY <1>4 DEF Due, Delivered, LastGiven
  <2>2. states[k] # None
    BY <1>4, <1>6, <2>1 DEF ReportsKept, NothingGiven, LastGiven
  <2> QED BY <1>7, <2>1, <2>2 DEF Settled, Delivered
<1>12. Due' = {k} \/ (s = states[k] /\ Due' = {})
  <2>1. Due' \subseteq Key
    BY DEF Due
  <2> QED BY <1>10, <1>11, <2>1
<1>13. \A l : Orders(l)' = Orders(l)
  BY <1>4 DEF Orders, Remaining, BeforePill
<1>14. [l \in Key |-> Orders(l)]' = [l \in Key |-> Orders(l)] /\ Raised' = Raised
  BY <1>4, <1>13 DEF Raised
<1>15. Service!Report(k, s)
  BY <1>4, <1>9, <1>12, <1>14 DEF Service!Report
<1> QED BY <1>15

\* A worker that goes on, and whose last item stays: nothing becomes due by it.
LEMMA WorkerDue ==
  ASSUME TypeOK, CallInv, NEW p \in Proc, UNCHANGED <<processes, states>>,
         worker[p].phase # "free" /\ worker'[p].key = worker[p].key,
         \A q \in Proc : q # p => worker'[q] = worker[q],
         Usable(p)' <=> Usable(p),
         Usable(p) => LastGiven(p)' = LastGiven(p)
  PROVE  Due' = Due
<1>1. ASSUME NEW k \in Key PROVE k \in Due' <=> k \in Due
  <2>1. states[k] # None => processes[k] \in Proc
    BY DEF CallInv, DictOK, TypeOK
  <2>2. CASE processes[k] = p
    BY <2>2 DEF Due, Delivered, Usable
  <2>3. CASE processes[k] # p
    BY <2>1, <2>3 DEF Due, Delivered, Running, Pilled, LastGiven
  <2> QED BY <2>2, <2>3
<1>2. Due \subseteq Key /\ Due' \subseteq Key
  BY DEF Due
<1> QED BY <1>1, <1>2

\* Taking an item from the queue is no business of the service.
LEMMA GetMaps ==
  ASSUME IInv, NEW p \in Proc, WorkerGet(p)
  PROVE  UNCHANGED ServiceVars
<1>0. TypeOK /\ CallInv
  BY DEF IInv
<1>1. PICK q : q = worker[p].queue
  OBVIOUS
<1>2. /\ worker[p].phase = "idle" /\ q # <<>> /\ q \in Seq(State \cup {None})
      /\ UNCHANGED <<file, processes, states, kernel>>
  BY <1>0, <1>1 DEF WorkerGet, daemon, world, TypeOK, WorkerRecord
<1>3. /\ worker'[p].key = worker[p].key /\ worker'[p].conf = worker[p].conf
      /\ worker'[p].phase = IF Head(q) = None THEN "done" ELSE "busy"
      /\ worker'[p].state = Head(q) /\ worker'[p].queue = Tail(q)
      /\ \A w \in Proc : w # p => worker'[w] = worker[w]
  BY <1>0, <1>1 DEF WorkerGet, TypeOK, WorkerRecord
<1>4. BeforePill(q) = IF Head(q) = None THEN {} ELSE {Head(q)} \cup BeforePill(Tail(q))
  BY <1>2, BeforePillHead
<1>5. \A k, o : Has(p, k, o)' <=> Has(p, k, o)
  <2>1. CASE Head(q) = None
    <3>1. Remaining(worker[p]) = {}
      BY <1>1, <1>2, <1>4, <2>1 DEF Remaining
    <3>2. worker'[p].phase = "done"
      BY <1>3, <2>1
    <3> QED BY <3>1, <3>2 DEF Has, Counts
  <2>2. CASE Head(q) # None
    <3>1. Remaining(worker'[p]) = Remaining(worker[p])
      BY <1>1, <1>2, <1>3, <1>4, <2>2 DEF Remaining
    <3> QED BY <1>2, <1>3, <2>2, <3>1 DEF Has, Counts
  <2> QED BY <2>1, <2>2
<1>6. [k \in Key |-> Orders(k)]' = [k \in Key |-> Orders(k)]
  BY <1>3, <1>5, OrdersKept
<1>7. Raised' = Raised
  BY <1>2, <1>3, RaisedFacts
<1>8. /\ Len(q) \in Nat /\ Len(q) >= 1 /\ Head(q) = q[1] /\ Len(Tail(q)) = Len(q) - 1
      /\ \A i \in 1 .. Len(q) - 1 : Tail(q)[i] = q[i + 1]
  BY <1>2
<1>9. Usable(p)' <=> Usable(p)
  <2>1. Pilled(p) <=> Head(q) = None \/ Pilled(p)'
    <3>1. ASSUME NEW i \in 1 .. Len(q), q[i] = None, i # 1
          PROVE  i - 1 \in 1 .. Len(Tail(q)) /\ Tail(q)[i - 1] = None
      BY <1>8, <3>1
    <3>2. ASSUME NEW i \in 1 .. Len(Tail(q)), Tail(q)[i] = None
          PROVE  i + 1 \in 1 .. Len(q) /\ q[i + 1] = None
      BY <1>8, <3>2
    <3>3. 1 \in 1 .. Len(q)
      BY <1>8
    <3>4. Pilled(p) <=> \E i \in 1 .. Len(q) : q[i] = None
      BY <1>1 DEF Pilled
    <3>5. Pilled(p)' <=> \E i \in 1 .. Len(Tail(q)) : Tail(q)[i] = None
      BY <1>3 DEF Pilled
    <3>6. Pilled(p) => Head(q) = None \/ Pilled(p)'
      BY <1>8, <3>1, <3>4, <3>5
    <3>7. Pilled(p)' => Pilled(p)
      BY <3>2, <3>4, <3>5
    <3>8. Head(q) = None => Pilled(p)
      BY <1>8, <3>3, <3>4
    <3> QED BY <3>6, <3>7, <3>8
  <2> QED BY <1>2, <1>3, <2>1 DEF Usable, Running
<1>10. LastGiven(p)' = LastGiven(p)
  BY <1>1, <1>2, <1>3, TailFacts DEF LastGiven
<1>11. Due' = Due
  BY <1>0, <1>2, <1>3, <1>9, <1>10, WorkerDue
<1> QED BY <1>2, <1>6, <1>7, <1>11 DEF ServiceVars

\* An apply that returns has carried out an order; one that raises loses its own.
LEMMA EndMaps ==
  ASSUME IInv, ConfsLoad, NEW p \in Proc, WorkerApply(p) \/ WorkerDie(p)
  PROVE  \E k \in Key : Service!CarryOut(k) \/ Service!GiveUp(k)
<1>0. TypeOK /\ CallInv
  BY DEF IInv
<1>1. PICK ph \in {"idle", "dead"} : /\ worker' = [worker EXCEPT ![p].phase = ph]
                                     /\ IF ph = "idle" THEN WorkerApply(p) ELSE WorkerDie(p)
  BY DEF WorkerApply, WorkerDie
<1>2. worker[p].phase = "busy" /\ UNCHANGED <<file, processes, states>>
  BY DEF WorkerApply, WorkerDie, daemon, world
<1>3. /\ worker'[p].key = worker[p].key /\ worker'[p].conf = worker[p].conf
      /\ worker'[p].phase = ph /\ worker'[p].state = worker[p].state
      /\ worker'[p].queue = worker[p].queue
      /\ \A q \in Proc : q # p => worker'[q] = worker[q]
  BY <1>0, <1>1 DEF TypeOK, WorkerRecord
<1>k. PICK k \in Key : k = worker[p].key
  BY <1>2 DEF ConfsLoad, WorkersLoad
<1>4. PICK o : k = worker[p].key /\ o = [conf |-> worker[p].conf, state |-> worker[p].state]
  BY <1>k
<1>5. Due' = Due
  BY <1>0, <1>2, <1>3, WorkerDue DEF Usable, Running, Pilled, LastGiven
<1>6. /\ Remaining(worker[p]) = BeforePill(worker[p].queue) \cup {worker[p].state}
      /\ Remaining(worker'[p]) = BeforePill(worker[p].queue)
  BY <1>2, <1>3 DEF Remaining
<1>7. /\ \A x : Has(p, k, x)' => Has(p, k, x)
      /\ \A x : ph = "idle" /\ Has(p, k, x) => Has(p, k, x)' \/ x = o
      /\ Has(p, k, o)
  BY <1>2, <1>3, <1>4, <1>6 DEF Has, Counts
<1>8. /\ \A x : x \in Orders(k)' => x \in Orders(k)
      /\ \A x : ph = "idle" /\ x \in Orders(k) => x \in Orders(k)' \/ x = o
      /\ o \in Orders(k)
  BY <1>3, <1>7, OthersHave, OrdersFacts
<1>9. \A l : l # k => Orders(l)' = Orders(l)
  BY <1>3, <1>4, OthersOrders
<1>10. CASE ph = "idle"
  <2>1. kernel' = [kernel EXCEPT ![k] = o]
    BY <1>1, <1>4, <1>10 DEF WorkerApply
  <2>2. Orders(k)' \in {Orders(k), Orders(k) \ {o}}
    BY <1>1, <1>8, <1>10
  <2>3. [l \in Key |-> Orders(l)]' \in
          {[l \in Key |-> Orders(l)], [[l \in Key |-> Orders(l)] EXCEPT ![k] = @ \ {o}]}
    BY <1>9, <2>2
  <2>4. Raised' = Raised
    BY <1>1, <1>2, <1>3, <1>10, RaisedFacts
  <2>5. Service!CarryOut(k)
    BY <1>2, <1>5, <1>8, <2>1, <2>3, <2>4 DEF Service!CarryOut
  <2> QED BY <2>5
<1>11. CASE ph = "dead"
  <2>1. kernel' = kernel
    BY <1>1, <1>11 DEF WorkerDie
  <2>2. [l \in Key |-> Orders(l)]' = [[l \in Key |-> Orders(l)] EXCEPT ![k] = Orders(k)']
    BY <1>9
  <2>3. PICK P : P = Orders(k)'
    OBVIOUS
  <2>4. P \in SUBSET Orders(k)
    BY <1>8, <2>3
  <2>5. Raised' = Raised \cup {k}
    BY <1>1, <1>2, <1>3, <1>4, <1>11 DEF Raised
  <2>6. Service!GiveUp(k)
    BY <1>2, <1>5, <2>1, <2>2, <2>3, <2>4, <2>5 DEF Service!GiveUp
  <2> QED BY <2>6
<1> QED BY <1>10, <1>11

-----------------------------------------------------------------------------
(* Configurations that load                                                 *)

LEMMA FileFacts == ASSUME TypeOK, [Next]_vars PROVE (file' = file \/ file' = file + 1) /\ Loads \subseteq Loads'
<1>1. file' = file \/ file' = file + 1
  BY DEF Next, MainStep, Environment, WorkerStep, Boot, InstallHandler, WritePidFile,
         RemovePidFile, JoinChildren, SetState, GetConf, CreateProcess, LookUp, StartProcess,
         LockQueue, PutPill, PutUpdate, LoadConfig, Callback, NextKey, Sighup, WorkerGet,
         WorkerApply, WorkerDie, ReadLine, EndOfFile, EditFile, ApplyConfig, SighupVrrpFifo,
         world, vars
<1> QED BY <1>1 DEF Loads, TypeOK

\* The running frame goes on with f.
LEMMA LoadsMove ==
  ASSUME TypeOK, StackLoads, Loads \subseteq Loads', NEW f, SetTop(f),
         IsMain => f.pc \in {"boot", "exited", "killed"} \/ ifstate' \in Loads,
         f.pc = "create" => f.conf \in Loads,
         ~ IsMain => f.conf \in Loads /\ ifstate' \in {ifstate, f.conf}
  PROVE  StackLoads'
<1>1. /\ Len(stack') = Len(stack)
      /\ stack'[Len(stack)] = f
      /\ \A i \in 1 .. Len(stack) : i # Len(stack) => stack'[i] = stack[i]
  BY SetTopAny
<1>2. Len(stack) \in Nat /\ Len(stack) >= 1
  BY BottomFacts
<1>3. ASSUME NEW i \in 2 .. Len(stack), stack'[i].pc # "load" PROVE stack'[i].conf \in Loads
  <2>1. CASE i = Len(stack)
    BY <1>1, <1>2, <2>1 DEF IsMain
  <2>2. CASE i # Len(stack)
    BY <1>1, <1>2, <1>3, <2>2 DEF StackLoads
  <2> QED BY <2>1, <2>2
<1>4. stack'[1].pc \notin {"boot", "exited", "killed"} => ifstate' \in Loads
  BY <1>1, <1>2 DEF StackLoads, IsMain
<1>5. stack'[1].pc = "create" => stack'[1].conf \in Loads
  BY <1>1, <1>2 DEF StackLoads, IsMain
<1> QED BY <1>1, <1>3, <1>4, <1>5 DEF StackLoads

LEMMA StackLoadsStep ==
  ASSUME TypeOK, CallInv, StackLoads, [Next]_vars
  PROVE  StackLoads'
<1>0. /\ Loads \subseteq Loads' /\ top \in Frame /\ Len(stack) \in Nat /\ Len(stack) >= 1
      /\ IsMain => top = stack[1] /\ top.pc \in MainPC
      /\ ~ IsMain => Len(stack) > 1 /\ top.pc \in HandlerPC
  BY FileFacts, TopFacts, BottomFacts
<1>1. ~ IsMain => (top.pc = "load" \/ top.conf \in Loads)
  BY <1>0 DEF StackLoads, top
<1>2. ASSUME UNCHANGED <<stack, ifstate>> PROVE StackLoads'
  BY <1>0, <1>2 DEF StackLoads
<1>3. ASSUME NEW pc, Goto(pc), ifstate' = ifstate, pc # "create",
             top.pc \notin {"boot", "exited", "killed", "load"} \/ pc \in {"exited", "killed"},
             IsMain \/ top.pc # "load"
      PROVE  StackLoads'
  <2>1. PICK f : f = [top EXCEPT !.pc = pc]
    OBVIOUS
  <2>2. SetTop(f) /\ f.pc = pc /\ f.conf = top.conf
    BY <1>0, <1>3, <2>1, FrameFacts DEF Goto
  <2> QED BY <1>0, <1>1, <1>3, <2>2, LoadsMove DEF StackLoads
<1>4. ASSUME ~ IsMain, Return, ifstate' = ifstate PROVE StackLoads'
  <2>1. /\ Len(stack') = Len(stack) - 1
        /\ \A i \in 1 .. Len(stack) - 1 : stack'[i] = stack[i]
    BY <1>0, <1>4, ReturnFacts DEF TypeOK, StackOK
  <2> QED BY <1>0, <1>4, <2>1 DEF StackLoads
<1>5. CASE Boot
  <2>1. IsMain
    BY <1>0, <1>5 DEF Boot, HandlerPC, CallPC, LookUps, PutLocks, Puts
  <2>2. CASE file \in Broken
    BY <1>3, <1>5, <2>1, <2>2 DEF Boot
  <2>3. CASE file \notin Broken
    <3>1. PICK f : f = [top EXCEPT !.pc = "install"]
      OBVIOUS
    <3>2. SetTop(f) /\ ifstate' \in Loads /\ f.pc # "create"
      BY <1>0, <1>5, <2>3, <3>1 DEF Boot, Goto, Loads, TypeOK, Frame
    <3> QED BY <1>0, <2>1, <3>2, LoadsMove
  <2> QED BY <2>2, <2>3
<1>6. CASE \/ InstallHandler \/ WritePidFile \/ RemovePidFile \/ JoinChildren \/ SetState
           \/ EndOfFile \/ LockQueue \/ PutPill \/ PutUpdate \/ StartProcess
           \/ \E p \in Proc : CreateProcess(p)
  <2>1. top.pc \notin {"boot", "exited", "killed", "load"} /\ ifstate' = ifstate
    BY <1>6 DEF InstallHandler, WritePidFile, RemovePidFile, JoinChildren, SetState, EndOfFile,
                LockQueue, PutPill, PutUpdate, StartProcess, CreateProcess, PutLocks
  <2>2. (\E pc : Goto(pc) /\ pc # "create") \/ (~ IsMain /\ Return)
    BY <1>6 DEF InstallHandler, WritePidFile, RemovePidFile, JoinChildren, SetState, EndOfFile,
                LockQueue, PutPill, PutUpdate, StartProcess, CreateProcess, Raise
  <2> QED BY <1>3, <1>4, <2>1, <2>2
<1>7. CASE Sighup
  <2>1. CASE top.pc \in {"boot", "install"}
    <3>1. IsMain
      BY <1>0, <2>1 DEF HandlerPC, CallPC, LookUps, PutLocks, Puts
    <3> QED BY <1>3, <1>7, <2>1, <3>1 DEF Sighup
  <2>2. CASE top.pc \notin {"boot", "install"}
    <3>1. NewFrame("load") \in Frame /\ NewFrame("load").pc = "load"
      BY NewFrameType DEF PC, HandlerPC, NewFrame
    <3>2. /\ Len(stack') = Len(stack) + 1
          /\ stack'[Len(stack) + 1].pc = "load"
          /\ \A i \in 1 .. Len(stack) : stack'[i] = stack[i]
      BY <1>7, <2>2, <3>1, PushFacts DEF Sighup, TypeOK, StackOK
    <3>3. ifstate' = ifstate
      BY <1>7 DEF Sighup
    <3> QED BY <1>0, <3>2, <3>3 DEF StackLoads
  <2> QED BY <2>1, <2>2
<1>8. CASE LoadConfig
  <2>1. ~ IsMain /\ ifstate' = ifstate
    BY <1>0, <1>8 DEF LoadConfig, MainPC, CallPC, LookUps, PutLocks, Puts
  <2>2. CASE file \in Broken
    BY <1>4, <1>8, <2>1, <2>2 DEF LoadConfig
  <2>3. CASE file \notin Broken
    <3>1. PICK f : f = [top EXCEPT !.pc = "callback", !.conf = file]
      OBVIOUS
    <3>2. SetTop(f) /\ f.conf \in Loads
      BY <1>0, <1>8, <2>3, <3>1 DEF LoadConfig, Frame, Loads, TypeOK
    <3> QED BY <1>0, <2>1, <3>2, LoadsMove
  <2> QED BY <2>2, <2>3
<1>9. CASE Callback \/ LookUp \/ NextKey
  <2>1. /\ NextKey => ~ IsMain
        /\ Callback => ~ IsMain /\ ifstate' = top.conf
        /\ ~ Callback => ifstate' = ifstate
        /\ top.pc \notin {"boot", "exited", "killed", "load"}
    BY <1>0, <1>9 DEF Callback, LookUp, NextKey, MainPC, CallPC, LookUps, PutLocks, Puts
  <2>2. (\E f : SetTop(f) /\ f.conf = top.conf /\ f.pc # "create") \/ (NextKey /\ Return)
    <3>1. CASE Callback
      <4> DEFINE f == [top EXCEPT !.pc = "next", !.todo = {k \in Key : states[k] # None}]
      <4>1. SetTop(f)
        BY <3>1 DEF Callback
      <4>2. f.conf = top.conf /\ f.pc # "create"
        BY <1>0 DEF Frame
      <4> QED BY <4>1, <4>2
    <3>2. CASE LookUp
      <4> DEFINE f == [top EXCEPT !.pc = AfterLookUp(top.pc), !.proc = processes[top.key]]
      <4>1. SetTop(f)
        BY <3>2 DEF LookUp
      <4>2. f.conf = top.conf /\ f.pc # "create"
        BY <1>0, <3>2 DEF Frame, LookUp, LookUps, AfterLookUp
      <4> QED BY <4>1, <4>2
    <3>3. CASE NextKey /\ ~ Return
      <4>1. PICK k \in top.todo :
              SetTop([top EXCEPT !.pc = "getpill", !.key = k, !.todo = @ \ {k}])
        BY <3>3 DEF NextKey
      <4> DEFINE f == [top EXCEPT !.pc = "getpill", !.key = k, !.todo = @ \ {k}]
      <4>2. SetTop(f)
        BY <4>1
      <4>3. f.conf = top.conf /\ f.pc # "create"
        BY <1>0 DEF Frame
      <4> QED BY <4>2, <4>3
    <3> QED BY <1>9, <3>1, <3>2, <3>3
  <2>3. CASE NextKey /\ Return
    BY <1>4, <2>1, <2>3 DEF NextKey
  <2>4. CASE \E f : SetTop(f) /\ f.conf = top.conf /\ f.pc # "create"
    <3>1. PICK f : SetTop(f) /\ f.conf = top.conf /\ f.pc # "create"
      BY <2>4
    <3>2. IsMain => ifstate' \in Loads
      BY <1>0, <2>1 DEF StackLoads
    <3>3. ~ IsMain => f.conf \in Loads /\ ifstate' \in {ifstate, f.conf}
      BY <1>1, <2>1, <3>1
    <3> QED BY <1>0, <3>1, <3>2, <3>3, LoadsMove
  <2> QED BY <2>2, <2>3, <2>4
<1>10. CASE \E k \in Key, s \in State : ReadLine(k, s)
  <2>1. IsMain /\ ifstate' = ifstate /\ top.pc = "readline"
    BY <1>0, <1>10 DEF ReadLine, HandlerPC, CallPC, LookUps, PutLocks, Puts
  <2>2. PICK pc \in {"getconf", "setstate"}, k \in Key, s \in State :
              SetTop([top EXCEPT !.pc = pc, !.key = k, !.state = s])
    BY <1>10 DEF ReadLine
  <2>3. PICK f : f = [top EXCEPT !.pc = pc, !.key = k, !.state = s]
    OBVIOUS
  <2>4. SetTop(f) /\ f.pc # "create"
    BY <1>0, <2>2, <2>3 DEF Frame
  <2> QED BY <1>0, <2>1, <2>4, LoadsMove DEF StackLoads
<1>11. CASE GetConf
  <2>1. top.pc = "getconf" /\ ifstate' = ifstate
    BY <1>11 DEF GetConf
  <2>2. PICK f : SetTop(f) /\ f.pc = "create" /\ f.conf = IF IsMain THEN ifstate ELSE top.conf
    BY <1>0, <1>11, GetConfFrame
  <2>3. f.conf \in Loads
    BY <1>0, <1>1, <2>1, <2>2 DEF StackLoads
  <2> QED BY <1>0, <2>1, <2>2, <2>3, LoadsMove DEF StackLoads
<1>12. CASE Elsewhere
  BY <1>2, <1>12, ElsewhereStep
<1> QED BY <1>5, <1>6, <1>7, <1>8, <1>9, <1>10, <1>11, <1>12 DEF Next, MainStep, Environment, Elsewhere

LEMMA WorkersLoadStep ==
  ASSUME IInv, ConfsLoad, [Next]_vars
  PROVE  WorkersLoad'
<1>0. /\ TypeOK /\ CallInv /\ DeliveryInv /\ Loads \subseteq Loads'
      /\ \A p \in Proc : worker[p].phase # "free" =>
           /\ worker[p].key \in Key /\ worker[p].conf \in Loads
           /\ worker[p].phase = "new" => worker[p].state = None
  BY FileFacts DEF IInv, ConfsLoad, WorkersLoad
<1>1. ASSUME NEW p \in Proc, \A q \in Proc : q # p => worker'[q] = worker[q],
             worker[p].phase # "free",
             worker'[p].key = worker[p].key, worker'[p].conf = worker[p].conf,
             worker'[p].phase = "new" => worker[p].phase = "new" /\ worker'[p].state = worker[p].state
      PROVE  WorkersLoad'
  BY <1>0, <1>1 DEF WorkersLoad
<1>2. CASE PutPill \/ PutUpdate
  <2>1. PICK p \in Proc, kk \in Key, e \in State \cup {None} :
           /\ worker[p].key = kk /\ worker[p].phase # "free"
           /\ worker'[p].key = kk /\ worker'[p].phase = worker[p].phase
           /\ worker'[p].conf = worker[p].conf /\ worker'[p].state = worker[p].state
           /\ \A q \in Proc : q # p => worker'[q] = worker[q]
    BY <1>0, <1>2, PutFacts
  <2> QED BY <1>1, <2>1
<1>3. CASE \E p \in Proc : CreateProcess(p)
  <2>1. PICK p \in Proc : CreateProcess(p)
    BY <1>3
  <2>2. top.pc = "create" /\ top.key \in Key
    BY <1>0, <2>1, TopFacts DEF CreateProcess, Active, CallPC
  <2>3. top.conf \in Loads
    BY <1>0, <2>2, TopFacts, BottomFacts DEF ConfsLoad, StackLoads, top
  <2>4. /\ worker'[p].key = top.key /\ worker'[p].conf \in Loads /\ worker'[p].state = None
        /\ \A q \in Proc : q # p => worker'[q] = worker[q]
    BY <1>0, <2>1, <2>3 DEF CreateProcess, TypeOK
  <2> QED BY <1>0, <2>2, <2>4 DEF WorkersLoad
<1>4. CASE StartProcess
  <2>1. CASE worker[top.proc].phase # "new"
    BY <1>0, <1>4, <2>1 DEF StartProcess, WorkersLoad
  <2>2. CASE worker[top.proc].phase = "new"
    <3>1. PICK p \in Proc : p = top.proc
      BY <1>0, <1>4, TopInv DEF StartProcess, CallOK, HasObject
    <3>2. worker' = [worker EXCEPT ![p].phase = "idle"]
      BY <1>4, <2>2, <3>1 DEF StartProcess
    <3>3. /\ \A q \in Proc : q # p => worker'[q] = worker[q]
          /\ worker'[p].key = worker[p].key /\ worker'[p].conf = worker[p].conf
          /\ worker'[p].phase = "idle"
      BY <1>0, <3>2 DEF TypeOK, WorkerRecord
    <3> QED BY <1>1, <2>2, <3>1, <3>3
  <2> QED BY <2>1, <2>2
<1>5. CASE \E p \in Proc : WorkerStep(p)
  <2>1. PICK p \in Proc : WorkerStep(p)
    BY <1>5
  <2>2. /\ \A q \in Proc : q # p => worker'[q] = worker[q]
        /\ worker'[p].key = worker[p].key /\ worker'[p].conf = worker[p].conf
        /\ worker'[p].phase # "new" /\ worker[p].phase # "free"
    BY <1>0, <2>1 DEF WorkerStep, WorkerGet, WorkerApply, WorkerDie, TypeOK, WorkerRecord
  <2> QED BY <1>1, <2>1, <2>2
<1>6. CASE worker' = worker
  BY <1>0, <1>6 DEF WorkersLoad
<1>7. \/ worker' = worker
      \/ PutPill \/ PutUpdate \/ StartProcess \/ (\E p \in Proc : CreateProcess(p) \/ WorkerStep(p))
  BY DEF Next, MainStep, Environment, Boot, InstallHandler, WritePidFile,
         RemovePidFile, JoinChildren, SetState, GetConf, LookUp, LockQueue,
         LoadConfig, Callback, NextKey, Sighup, ReadLine, EndOfFile, EditFile, ApplyConfig,
         SighupVrrpFifo, vars
<1> QED BY <1>2, <1>3, <1>4, <1>5, <1>6, <1>7

-----------------------------------------------------------------------------
(* Reports that are kept                                                    *)

\* A state that was put is delivered, also when a handler has replaced the worker.
LEMMA PutUpdateSettles ==
  ASSUME IInv, PutUpdate
  PROVE  \A k \in Key : k \in Due' => k \in Due /\ k # top.key
<1>0. TypeOK /\ CallInv /\ DeliveryInv
  BY DEF IInv
<1>1. PICK p \in Proc, kk \in Key, e \in State \cup {None} :
           /\ kk = top.key /\ p = top.proc /\ worker[p].key = kk /\ worker[p].phase # "free"
           /\ worker'[p].key = kk /\ worker'[p].phase = worker[p].phase
           /\ worker'[p].conf = worker[p].conf /\ worker'[p].state = worker[p].state
           /\ worker[p].queue \in Seq(State \cup {None})
           /\ worker'[p].queue = Append(worker[p].queue, e)
           /\ \A q \in Proc : q # p => worker'[q] = worker[q]
           /\ UNCHANGED <<file, processes, states, kernel>>
           /\ e = states[kk] /\ e # None
  BY <1>0, PutFacts
<1>2. (Pilled(p)' <=> Pilled(p)) /\ LastGiven(p)' = states[kk]
  BY <1>1, PutOrders
<1>3. \A k \in Key : k # kk => (k \in Due' <=> k \in Due)
  BY <1>0, <1>1, OthersDue
<1>4. processes[kk] # None /\ processes[kk] \in Proc
  BY <1>0, <1>1 DEF CallInv, DictOK, TypeOK
<1>5. Settled(kk) \/ Usable(processes[kk])
  BY <1>0, <1>1, TopInv DEF PutUpdate, OnTrack, Active, CallPC, Puts
<1>6. CASE processes[kk] = p
  BY <1>1, <1>2, <1>3, <1>5, <1>6 DEF Due, Settled, Delivered, Usable, Running
<1>7. CASE processes[kk] # p
  <2>1. worker'[processes[kk]] = worker[processes[kk]]
    BY <1>1, <1>4, <1>7
  <2>2. Settled(kk)
    BY <1>0, <1>1, <1>7, TopInv DEF PutUpdate, OnTrack, Active, CallPC, Puts
  <2>3. kk \in Due' <=> kk \in Due
    BY <1>0, <1>1, <1>4, <2>1, SameDue
  <2> QED BY <1>1, <1>3, <2>2, <2>3 DEF Due, Settled
<1> QED BY <1>6, <1>7

Replacing == PutPill \/ \E p \in Proc : CreateProcess(p)

\* What becomes due is what is being replaced.
LEMMA DueStep ==
  ASSUME IInv, ConfsLoad, [Next]_vars, ~ SetState
  PROVE  /\ states' = states
         /\ \A k \in Key : k \in Due' /\ k \notin Due => Replacing /\ k = top.key
<1>1. states' = states
  BY DEF Next, MainStep, Environment, WorkerStep, Boot, InstallHandler, WritePidFile,
         RemovePidFile, JoinChildren, GetConf, CreateProcess, LookUp, StartProcess, LockQueue,
         PutPill, PutUpdate, LoadConfig, Callback, NextKey, Sighup, WorkerGet, WorkerApply,
         WorkerDie, ReadLine, EndOfFile, EditFile, ApplyConfig, SighupVrrpFifo, daemon, vars
<1>2. CASE Replacing
  <2>1. UNCHANGED ServiceVars \/ Service!Reload(top.key)
    BY <1>2, PutPillMaps, CreateMaps DEF Replacing
  <2>2. Due' = Due \/ Due' = Due \cup {top.key}
    BY <2>1 DEF ServiceVars, Service!Reload
  <2> QED BY <1>1, <1>2, <2>2
<1>3. CASE PutUpdate
  BY <1>1, <1>3, PutUpdateSettles
<1>4. CASE StartProcess \/ \E p \in Proc : WorkerGet(p)
  BY <1>1, <1>4, StartMaps, GetMaps DEF ServiceVars
<1>5. CASE \E p \in Proc : WorkerApply(p) \/ WorkerDie(p)
  <2>1. \E k \in Key : Service!CarryOut(k) \/ Service!GiveUp(k)
    BY <1>5, EndMaps
  <2> QED BY <1>1, <2>1 DEF Service!CarryOut, Service!GiveUp
<1>6. CASE processes' = processes /\ worker' = worker
  <2>1. Due' = Due
    BY <1>1, <1>6 DEF Due, Delivered, Running, Pilled, LastGiven
  <2> QED BY <1>1, <2>1
<1>7. \/ processes' = processes /\ worker' = worker
      \/ Replacing \/ PutUpdate \/ StartProcess
      \/ \E p \in Proc : WorkerGet(p) \/ WorkerApply(p) \/ WorkerDie(p)
  BY DEF Next, MainStep, Environment, Boot, InstallHandler, WritePidFile,
         RemovePidFile, JoinChildren, GetConf, LookUp, LockQueue, WorkerStep, Replacing,
         LoadConfig, Callback, NextKey, Sighup, ReadLine, EndOfFile, EditFile, ApplyConfig,
         SighupVrrpFifo, vars, daemon
<1> QED BY <1>2, <1>3, <1>4, <1>5, <1>6, <1>7

\* A handler keeps working on its key until its state is put, or it finds that its
\* process was started.
LEMMA HandlerFrames ==
  ASSUME TypeOK, ~ IsMain, [Next]_vars
  PROVE  \/ stack' = stack
         \/ Entered
         \/ \E f : /\ SetTop(f)
                   /\ top.pc \in Active => PutUpdate \/ (f.pc \in Active /\ f.key = top.key)
         \/ /\ Return
            /\ top.pc \in Active => StartProcess /\ worker[top.proc].phase # "new"
<1> USE DEF Active, CallPC, LookUps, PutLocks, Puts
<1>0. top \in Frame /\ top.pc \in HandlerPC
  BY TopFacts
<1>1. CASE Elsewhere
  BY <1>1, ElsewhereStep
<1>2. CASE LookUp
  <2> DEFINE f == [top EXCEPT !.pc = AfterLookUp(top.pc), !.proc = processes[top.key]]
  <2>1. SetTop(f) /\ top.pc \in LookUps
    BY <1>2 DEF LookUp
  <2>2. f.pc = AfterLookUp(top.pc) /\ f.key = top.key
    BY <1>0 DEF Frame
  <2>3. f.pc \in Active
    BY <2>1, <2>2 DEF AfterLookUp
  <2> QED BY <2>1, <2>2, <2>3
<1>3. CASE LockQueue \/ PutPill \/ \E p \in Proc : CreateProcess(p)
  <2>1. PICK pc \in Active : Goto(pc)
    BY <1>3 DEF LockQueue, PutPill, CreateProcess
  <2> DEFINE f == [top EXCEPT !.pc = pc]
  <2>2. SetTop(f)
    BY <2>1 DEF Goto
  <2>3. f.pc = pc /\ f.key = top.key
    BY <1>0, FrameFacts
  <2> QED BY <2>1, <2>2, <2>3
<1>4. CASE PutUpdate
  BY <1>4 DEF PutUpdate, Goto
<1>5. CASE StartProcess
  <2>1. CASE worker[top.proc].phase = "new"
    <3>1. Goto("getupdate")
      BY <1>5, <2>1 DEF StartProcess
    <3> DEFINE f == [top EXCEPT !.pc = "getupdate"]
    <3>2. SetTop(f)
      BY <3>1 DEF Goto
    <3>3. f.pc = "getupdate" /\ f.key = top.key
      BY <1>0, FrameFacts
    <3> QED BY <3>2, <3>3
  <2>2. CASE worker[top.proc].phase # "new"
    BY <1>5, <2>2 DEF StartProcess, Raise
  <2> QED BY <2>1, <2>2
<1>6. CASE LoadConfig \/ Callback \/ NextKey
  <2>1. top.pc \notin Active
    BY <1>6 DEF LoadConfig, Callback, NextKey
  <2>2. Return \/ \E f : SetTop(f)
    BY <1>6 DEF LoadConfig, Callback, NextKey
  <2> QED BY <2>1, <2>2
<1>7. CASE \/ Boot \/ InstallHandler \/ WritePidFile \/ RemovePidFile \/ JoinChildren \/ SetState
           \/ EndOfFile \/ \E k \in Key, s \in State : ReadLine(k, s)
  BY <1>0, <1>7 DEF Boot, InstallHandler, WritePidFile, RemovePidFile, JoinChildren, SetState,
                    EndOfFile, ReadLine, HandlerPC
<1>8. CASE Sighup
  BY <1>0, <1>8 DEF Sighup, Entered, HandlerPC
<1>9. CASE GetConf
  BY <1>9, GetConfFrame
<1> QED BY <1>1, <1>2, <1>3, <1>4, <1>5, <1>6, <1>7, <1>8, <1>9 DEF Next, MainStep, Environment, Elsewhere

\* While the main thread waits for its handlers, what was handed out stays so, or is
\* being handed out again.
LEMMA KeptStep ==
  ASSUME IInv, ConfsLoad, [Next]_vars, ~ SetState, NEW k \in Key, states[k] # None, Kept(k),
         stack[1].pc = "setstate"
  PROVE  Kept(k)'
<1>0. TypeOK /\ CallInv /\ DeliveryInv /\ IInv'
  BY InvStep DEF IInv
<1>1. /\ Len(stack) \in Nat /\ Len(stack) >= 1 /\ (IsMain => Len(stack) = 1)
      /\ IsMain => top = stack[1]
      /\ ~ IsMain => Len(stack) > 1
  BY <1>0, BottomFacts DEF IsMain
<1>2. states' = states /\ (k \in Due' /\ k \notin Due => Replacing /\ k = top.key)
  BY DueStep
<1>3. (k \notin Due <=> Settled(k)) /\ (k \notin Due' <=> Settled(k)')
  BY <1>0, <1>2 DEF IInv, CallInv, DictOK, Due, Settled
<1>4. CASE IsMain
  <2>1. ~ Replacing
    BY <1>1, <1>4 DEF Replacing, PutPill, CreateProcess
  <2>2. Settled(k)
    <3>1. Len(stack) = 1
      BY <1>1, <1>4
    <3>2. \A i \in 2 .. Len(stack) : FALSE
      BY <3>1
    <3> QED BY <3>2 DEF Kept
  <2> QED BY <1>2, <1>3, <2>1, <2>2 DEF Kept
<1>5. CASE ~ IsMain
  <2>1. \/ stack' = stack
        \/ Entered
        \/ \E f : /\ SetTop(f)
                  /\ top.pc \in Active => PutUpdate \/ (f.pc \in Active /\ f.key = top.key)
        \/ /\ Return
           /\ top.pc \in Active => StartProcess /\ worker[top.proc].phase # "new"
    BY <1>0, <1>5, HandlerFrames
  <2>0. PICK n \in Nat : n = Len(stack) /\ n > 1
    BY <1>1, <1>5
  <2>2. /\ \A i \in 2 .. n : i # n /\ Pending(i, k) => i \in 2 .. Len(stack') /\ Pending(i, k)'
        /\ top.pc \in Active /\ top.key = k =>
             \/ n \in 2 .. Len(stack') /\ Pending(n, k)'
             \/ PutUpdate
             \/ StartProcess /\ worker[top.proc].phase # "new"
    <3>0. top = stack[n] /\ n \in 2 .. n
      BY <2>0 DEF top
    <3>1. CASE stack' = stack
      BY <2>0, <3>0, <3>1 DEF Pending
    <3>2. CASE Entered
      <4>1. NewFrame("load") \in Frame
        BY NewFrameType DEF PC, HandlerPC
      <4>2. /\ Len(stack') = n + 1
            /\ \A i \in 1 .. n : stack'[i] = stack[i]
        BY <1>0, <2>0, <3>2, <4>1, PushFacts DEF Entered, Sighup, TypeOK, StackOK
      <4>3. \A i \in 2 .. n : i \in 1 .. n /\ i \in 2 .. Len(stack')
        BY <2>0, <4>2
      <4>4. \A i \in 2 .. n : Pending(i, k)' <=> Pending(i, k)
        BY <4>2, <4>3 DEF Pending
      <4>5. top.pc \in Active /\ top.key = k => Pending(n, k)
        BY <3>0 DEF Pending
      <4> QED BY <3>0, <4>3, <4>4, <4>5
    <3>3. CASE \E f : /\ SetTop(f)
                      /\ top.pc \in Active => PutUpdate \/ (f.pc \in Active /\ f.key = top.key)
      <4>1. PICK f : /\ SetTop(f)
                     /\ top.pc \in Active => PutUpdate \/ (f.pc \in Active /\ f.key = top.key)
        BY <3>3
      <4>2. /\ Len(stack') = n
            /\ stack'[n] = f
            /\ \A i \in 1 .. n : i # n => stack'[i] = stack[i]
        BY <1>0, <2>0, <4>1, SetTopAny
      <4>3. \A i \in 2 .. n : i \in 1 .. n
        BY <2>0
      <4>4. \A i \in 2 .. n : i # n => (Pending(i, k)' <=> Pending(i, k))
        BY <4>2, <4>3 DEF Pending
      <4>5. top.pc \in Active /\ top.key = k => Pending(n, k)' \/ PutUpdate
        BY <4>1, <4>2 DEF Pending
      <4> QED BY <3>0, <4>2, <4>4, <4>5
    <3>4. CASE /\ Return
               /\ top.pc \in Active => StartProcess /\ worker[top.proc].phase # "new"
      <4>1. /\ Len(stack') = n - 1
            /\ \A i \in 1 .. n - 1 : stack'[i] = stack[i]
        BY <1>0, <2>0, <3>4, ReturnFacts DEF TypeOK, StackOK
      <4>2. \A i \in 2 .. n : i # n => i \in 1 .. n - 1 /\ i \in 2 .. Len(stack')
        BY <2>0, <4>1
      <4>3. \A i \in 2 .. n : i # n => (Pending(i, k)' <=> Pending(i, k))
        BY <4>1, <4>2 DEF Pending
      <4> QED BY <3>4, <4>2, <4>3
    <3> QED BY <2>1, <3>1, <3>2, <3>3, <3>4
  <2>3. Replacing => /\ top.pc \in Active /\ ~ PutUpdate /\ ~ StartProcess
    BY DEF Replacing, PutPill, CreateProcess, PutUpdate, StartProcess, Active, CallPC, Puts
  <2>4. CASE PutUpdate /\ top.key = k
    <3>1. k \notin Due'
      BY <2>4, PutUpdateSettles
    <3> QED BY <1>3, <3>1 DEF Kept
  <2>5. CASE StartProcess /\ worker[top.proc].phase # "new" /\ top.key = k
    <3>1. Settled(k)
      BY <1>0, <2>5, TopInv DEF StartProcess, OnTrack, Fresh, Active, CallPC
    <3> QED BY <1>2, <1>3, <2>3, <2>5, <3>1 DEF Kept
  <2>6. CASE ~ (PutUpdate /\ top.key = k) /\ ~ (StartProcess /\ worker[top.proc].phase # "new" /\ top.key = k)
    <3>1. CASE Settled(k)
      <4>1. CASE k \notin Due'
        BY <1>3, <4>1 DEF Kept
      <4>2. CASE k \in Due'
        BY <1>2, <1>3, <2>2, <2>3, <3>1, <4>2 DEF Kept
      <4> QED BY <4>1, <4>2
    <3>2. CASE \E i \in 2 .. n : Pending(i, k)
      <4>1. PICK i \in 2 .. n : Pending(i, k)
        BY <3>2
      <4>2. CASE i = n
        <5>1. top.pc \in Active /\ top.key = k
          BY <2>0, <4>1, <4>2 DEF Pending, top
        <5> QED BY <2>2, <2>6, <5>1 DEF Kept
      <4>3. CASE i # n
        BY <2>2, <4>1, <4>3 DEF Kept
      <4> QED BY <4>2, <4>3
    <3> QED BY <2>0, <3>1, <3>2 DEF Kept
  <2> QED BY <2>4, <2>5, <2>6
<1> QED BY <1>4, <1>5

\* The main thread's frame stays as it is, goes elsewhere, reads a line, or goes on
\* creating the process for the line it read.
LEMMA MainFrame ==
  ASSUME TypeOK, [Next]_vars
  PROVE  \/ stack'[1] = stack[1]
         \/ stack'[1].pc \notin {"getconf", "create", "getstart", "start", "setstate"}
         \/ IsMain /\ \E k \in Key, s \in State : ReadLine(k, s)
         \/ /\ IsMain /\ ~ SetState
            /\ stack[1].pc \in {"getconf", "create", "getstart", "start"} /\ stack'[1].key = stack[1].key
<1>1. CASE ~ IsMain
  <2>1. NewFrame("load") \in Frame
    BY NewFrameType DEF PC, HandlerPC
  <2> QED BY <1>1, <2>1, HandlerFrames, BottomStep DEF Entered, Sighup
<1>2. CASE IsMain
  <2>0. /\ top = stack[1] /\ top \in Frame /\ top.pc \in MainPC
        /\ \A f : SetTop(f) => stack'[1] = f
        /\ \A pc : Goto(pc) => stack'[1].pc = pc /\ stack'[1].key = top.key
    <3>1. top = stack[1] /\ top \in Frame /\ top.pc \in MainPC
      BY <1>2, TopFacts, BottomFacts
    <3>2. \A f : SetTop(f) => stack'[1] = f
      BY <1>2, BottomStep
    <3>3. ASSUME NEW pc, Goto(pc) PROVE stack'[1].pc = pc /\ stack'[1].key = top.key
      <4>1. stack'[1] = [top EXCEPT !.pc = pc]
        BY <3>2, <3>3 DEF Goto
      <4> QED BY <3>1, <4>1, FrameFacts
    <3> QED BY <3>1, <3>2, <3>3
  <2>1. CASE Elsewhere \/ \E p \in Proc : WorkerStep(p)
    BY <2>1 DEF Elsewhere, EditFile, ApplyConfig, SighupVrrpFifo, WorkerStep, WorkerGet, WorkerApply,
                WorkerDie, vars, daemon
  <2>2. CASE Sighup
    <3>1. NewFrame("load") \in Frame
      BY NewFrameType DEF PC, HandlerPC
    <3> QED BY <2>0, <2>2, <3>1, BottomStep DEF Sighup
  <2>3. CASE \/ Boot \/ InstallHandler \/ WritePidFile \/ RemovePidFile \/ JoinChildren \/ SetState
             \/ EndOfFile \/ LockQueue \/ PutUpdate
    BY <1>2, <2>0, <2>3 DEF Boot, InstallHandler, WritePidFile, RemovePidFile, JoinChildren, SetState,
                     EndOfFile, LockQueue, PutUpdate
  <2>4. CASE LookUp
    <3> DEFINE f == [top EXCEPT !.pc = AfterLookUp(top.pc), !.proc = processes[top.key]]
    <3>1. stack'[1] = f /\ ~ SetState
      BY <2>0, <2>4 DEF LookUp, LookUps, SetState
    <3>2. f.pc = AfterLookUp(top.pc) /\ f.key = top.key
      BY <2>0 DEF Frame
    <3>3. top.pc \in {"getstart", "getupdate"}
      BY <2>0, <2>4 DEF LookUp, LookUps, MainPC, CallPC
    <3>4. top.pc = "getupdate" => f.pc = "lockupdate"
      BY <3>2 DEF AfterLookUp
    <3>5. CASE top.pc = "getstart"
      BY <1>2, <2>0, <3>1, <3>2, <3>5
    <3>6. CASE top.pc = "getupdate"
      BY <3>1, <3>4, <3>6
    <3> QED BY <3>3, <3>5, <3>6
  <2>5. CASE \E p \in Proc : CreateProcess(p)
    BY <1>2, <2>0, <2>5 DEF CreateProcess, SetState
  <2>6. CASE StartProcess
    <3>2. CASE worker[top.proc].phase = "new"
      BY <1>2, <2>0, <2>6, <3>2 DEF StartProcess, SetState
    <3>3. CASE worker[top.proc].phase # "new"
      BY <1>2, <2>0, <2>6, <3>3 DEF StartProcess, Raise, SetState
    <3> QED BY <3>2, <3>3
  <2>7. CASE PutPill \/ LoadConfig \/ Callback \/ NextKey
    BY <2>0, <2>7 DEF PutPill, LoadConfig, Callback, NextKey, MainPC, CallPC, LookUps, PutLocks, Puts
  <2>8. CASE GetConf
    <3>1. PICK f : SetTop(f) /\ f.key = top.key
      BY <2>8, GetConfFrame
    <3> QED BY <1>2, <2>0, <2>8, <3>1 DEF GetConf, SetState
  <2> QED BY <1>2, <2>1, <2>2, <2>3, <2>4, <2>5, <2>6, <2>7, <2>8 DEF Next, MainStep, Environment, Elsewhere
<1> QED BY <1>1, <1>2

LEMMA ReportKeptStep ==
  ASSUME IInv, ConfsLoad, ReportKept, [Next]_vars
  PROVE  ReportKept'
<1>0. TypeOK /\ CallInv /\ DeliveryInv
  BY DEF IInv
<1>1. CASE stack'[1] = stack[1]
  <2>1. ~ SetState
    <3>1. SUFFICES ASSUME SetState PROVE FALSE
      OBVIOUS
    <3>2. IsMain /\ top = stack[1] /\ top \in Frame
      BY <1>0, <3>1, BottomFacts, TopFacts DEF SetState, HandlerPC, CallPC, LookUps, PutLocks, Puts
    <3>3. stack'[1] = [top EXCEPT !.pc = "getupdate"]
      BY <1>0, <3>1, <3>2, BottomStep DEF SetState
    <3>4. stack'[1].pc = "getupdate"
      BY <3>2, <3>3, FrameFacts
    <3> QED BY <1>1, <3>1, <3>2, <3>4 DEF SetState
  <2>2. states' = states
    BY <2>1, DueStep
  <2>3. PICK t : t = stack[1]
    OBVIOUS
  <2>4. ASSUME t.pc = "setstate", states[t.key] # None PROVE Kept(t.key)'
    <3>1. t.key \in Key
      BY <1>0, <2>3, <2>4 DEF TypeOK, StackOK, Active
    <3>2. Kept(t.key)
      BY <2>3, <2>4 DEF ReportKept
    <3> QED BY <2>1, <2>3, <2>4, <3>1, <3>2, KeptStep
  <2>5. t = stack'[1]
    BY <1>1, <2>3
  <2>6. t.pc \in {"getconf", "create", "getstart", "start"} => states'[t.key] = None
    BY <2>2, <2>3 DEF ReportKept
  <2> QED BY <2>2, <2>4, <2>5, <2>6 DEF ReportKept
<1>2. CASE stack'[1].pc \notin {"getconf", "create", "getstart", "start", "setstate"}
  BY <1>2 DEF ReportKept
<1>3. CASE IsMain /\ \E k \in Key, s \in State : ReadLine(k, s)
  <2>1. PICK k \in Key, s \in State : ReadLine(k, s)
    BY <1>3
  <2> DEFINE f == [top EXCEPT !.pc = IF processes[k] = None THEN "getconf" ELSE "setstate",
                              !.key = k, !.state = s]
  <2>2. top \in Frame /\ top = stack[1] /\ top.pc = "readline" /\ Len(stack) = 1
    BY <1>0, <1>3, <2>1, TopFacts, BottomFacts DEF ReadLine, IsMain
  <2>3. /\ f.pc = IF processes[k] = None THEN "getconf" ELSE "setstate"
        /\ f.key = k
    BY <2>2 DEF Frame
  <2>4. stack'[1] = f /\ states' = states /\ processes' = processes /\ worker' = worker
    <3>1. SetTop(f) /\ UNCHANGED <<states, processes, worker>>
      BY <2>1 DEF ReadLine
    <3> QED BY <1>0, <1>3, <3>1, BottomStep
  <2>5. processes[k] = None => states[k] = None
    BY <1>0 DEF CallInv, DictOK
  <2>6. processes[k] # None => Settled(k)
    <3>1. \A i \in 1 .. Len(stack) : i = 1
      BY <2>2
    <3>2. ~ Pending(1, k)
      BY <2>2 DEF Pending, Active, CallPC, LookUps, PutLocks, Puts
    <3> QED BY <1>0, <3>1, <3>2 DEF DeliveryInv, KeysServed
  <2>7. Settled(k) => Settled(k)'
    BY <2>4, SameData
  <2>8. stack'[1].key = k /\ (stack'[1].pc # "setstate" => states'[k] = None)
        /\ (stack'[1].pc = "setstate" => Kept(k)')
    BY <2>3, <2>4, <2>5, <2>6, <2>7 DEF Kept
  <2>9. stack'[1].pc \in {"getconf", "setstate"}
    BY <2>3, <2>4
  <2> QED BY <2>8, <2>9 DEF ReportKept
<1>4. CASE /\ IsMain /\ ~ SetState
           /\ stack[1].pc \in {"getconf", "create", "getstart", "start"} /\ stack'[1].key = stack[1].key
  <2>1. states' = states
    BY <1>4, DueStep
  <2>2. PICK k : k = stack[1].key
    OBVIOUS
  <2>3. states'[k] = None /\ stack'[1].key = k
    BY <1>4, <2>1, <2>2 DEF ReportKept
  <2> QED BY <2>3 DEF ReportKept
<1> QED BY <1>0, <1>1, <1>2, <1>3, <1>4, MainFrame

LEMMA NothingGivenStep ==
  ASSUME IInv, NothingGiven, [Next]_vars
  PROVE  NothingGiven'
<1>0. TypeOK /\ CallInv /\ DeliveryInv
  BY DEF IInv
<1>1. /\ processes \in [Key -> Proc \cup {None}] /\ states \in [Key -> State \cup {None}]
      /\ worker \in [Proc -> WorkerRecord] /\ None \notin Proc /\ None \notin State
      /\ \A k \in Key : processes[k] # None =>
           worker[processes[k]].key = k /\ worker[processes[k]].phase # "free"
  BY <1>0, NoneAssumption DEF TypeOK, CallInv, DictOK
<1>2. ASSUME UNCHANGED <<processes, states, worker>> PROVE NothingGiven'
  BY <1>2 DEF NothingGiven
<1>3. ASSUME NEW p \in Proc, UNCHANGED <<processes, states>>,
             \A q \in Proc : q # p => worker'[q] = worker[q],
             \A k \in Key : states[k] = None /\ processes[k] = p =>
               /\ worker'[p].queue = worker[p].queue \/ worker'[p].queue = <<>>
               /\ worker'[p].state = worker[p].state \/ worker'[p].state = None
      PROVE  NothingGiven'
  <2>1. SUFFICES ASSUME NEW k \in Key, states'[k] = None, processes'[k] # None
                 PROVE  worker'[processes'[k]].queue = <<>> /\ worker'[processes'[k]].state = None
    BY DEF NothingGiven
  <2>2. PICK q \in Proc : q = processes[k]
    BY <1>1, <1>3, <2>1
  <2>3. worker[q].queue = <<>> /\ worker[q].state = None
    BY <1>3, <2>1, <2>2 DEF NothingGiven
  <2>4. worker'[q].queue = <<>> /\ worker'[q].state = None
    BY <1>3, <2>1, <2>2, <2>3
  <2> QED BY <1>3, <2>2, <2>4
<1>4. CASE PutPill \/ PutUpdate
  <2>1. PICK p \in Proc, kk \in Key : /\ worker[p].key = kk /\ states[kk] # None
                                      /\ \A q \in Proc : q # p => worker'[q] = worker[q]
                                      /\ UNCHANGED <<processes, states>>
    BY <1>0, <1>4, PutFacts
  <2>2. \A k \in Key : states[k] = None => processes[k] # p
    BY <1>1, <2>1
  <2> QED BY <1>3, <2>1, <2>2
<1>5. ASSUME NEW p \in Proc, CreateProcess(p) PROVE NothingGiven'
  <2>1. PICK kk : kk = top.key
    OBVIOUS
  <2>2. kk \in Key
    BY <1>0, <1>5, <2>1, TopFacts DEF CreateProcess, Active, CallPC
  <2>3. /\ processes' = [processes EXCEPT ![kk] = p] /\ states' = states /\ worker[p].phase = "free"
        /\ worker'[p].queue = <<>> /\ worker'[p].state = None
        /\ \A q \in Proc : q # p => worker'[q] = worker[q]
    BY <1>1, <1>5, <2>1 DEF CreateProcess
  <2>4. SUFFICES ASSUME NEW k \in Key, states'[k] = None, processes'[k] # None
                 PROVE  worker'[processes'[k]].queue = <<>> /\ worker'[processes'[k]].state = None
    BY DEF NothingGiven
  <2>5. CASE k = kk
    BY <1>1, <2>2, <2>3, <2>5
  <2>6. CASE k # kk
    <3>1. processes'[k] = processes[k] /\ processes[k] # None /\ states[k] = None
      BY <1>1, <2>3, <2>4, <2>6
    <3>2. processes[k] \in Proc /\ processes[k] # p
      BY <1>1, <2>3, <3>1
    <3>3. worker[processes[k]].queue = <<>> /\ worker[processes[k]].state = None
      BY <3>1 DEF NothingGiven
    <3> QED BY <2>3, <3>1, <3>2, <3>3
  <2> QED BY <2>5, <2>6
<1>6. CASE StartProcess
  <2>1. PICK p : p = top.proc
    OBVIOUS
  <2>2. p \in Proc
    BY <1>0, <1>6, <2>1, TopCall DEF StartProcess, CallOK, HasObject
  <2>3. UNCHANGED <<processes, states>>
    BY <1>6 DEF StartProcess
  <2>4. worker' = worker \/ worker' = [worker EXCEPT ![p].phase = "idle"]
    BY <1>6, <2>1 DEF StartProcess
  <2>5. /\ \A q \in Proc : q # p => worker'[q] = worker[q]
        /\ worker'[p].queue = worker[p].queue /\ worker'[p].state = worker[p].state
    BY <1>1, <2>2, <2>4 DEF WorkerRecord
  <2> QED BY <1>3, <2>2, <2>3, <2>5
<1>7. ASSUME NEW p \in Proc, WorkerApply(p) \/ WorkerDie(p) PROVE NothingGiven'
  <2>1. /\ UNCHANGED <<processes, states>>
        /\ \E ph : worker' = [worker EXCEPT ![p].phase = ph]
    BY <1>7 DEF WorkerApply, WorkerDie, daemon
  <2>2. /\ \A q \in Proc : q # p => worker'[q] = worker[q]
        /\ worker'[p].queue = worker[p].queue /\ worker'[p].state = worker[p].state
    BY <1>1, <2>1 DEF WorkerRecord
  <2> QED BY <1>3, <2>1, <2>2
<1>8. ASSUME NEW p \in Proc, WorkerGet(p) PROVE NothingGiven'
  <2>1. UNCHANGED <<processes, states>> /\ worker[p].queue # <<>>
    BY <1>8 DEF WorkerGet, daemon
  <2>2. \A q \in Proc : q # p => worker'[q] = worker[q]
    BY <1>1, <1>8 DEF WorkerGet
  <2>3. \A k \in Key : ~ (states[k] = None /\ processes[k] = p)
    BY <1>1, <2>1 DEF NothingGiven
  <2> QED BY <1>3, <2>1, <2>2, <2>3
<1>9. CASE SetState
  <2>1. PICK kk : kk = top.key
    OBVIOUS
  <2>2. PICK s : s = top.state
    OBVIOUS
  <2>3. kk \in Key /\ s \in State
    <3>1. IsMain
      BY <1>0, <1>9, TopFacts DEF SetState, HandlerPC, CallPC, LookUps, PutLocks, Puts
    <3> QED BY <1>0, <1>9, <2>1, <2>2, <3>1, TopFacts DEF SetState, Active
  <2>4. states' = [states EXCEPT ![kk] = s] /\ UNCHANGED <<processes, worker>>
    BY <1>9, <2>1, <2>2 DEF SetState
  <2>5. \A k \in Key : states'[k] = None => states[k] = None
    BY <1>1, <2>3, <2>4
  <2> QED BY <2>4, <2>5 DEF NothingGiven
<1>10. CASE EditFile \/ ApplyConfig \/ SighupVrrpFifo \/ UNCHANGED vars
  <2>1. UNCHANGED <<processes, states, worker>>
    BY <1>10 DEF EditFile, ApplyConfig, SighupVrrpFifo, vars, daemon
  <2> QED BY <1>2, <2>1
<1>11. CASE \/ Boot \/ InstallHandler \/ WritePidFile \/ RemovePidFile \/ JoinChildren
            \/ EndOfFile \/ LockQueue \/ LookUp \/ GetConf \/ Sighup \/ LoadConfig \/ Callback \/ NextKey
            \/ \E k \in Key, s \in State : ReadLine(k, s)
  BY <1>2, <1>11 DEF Boot, InstallHandler, WritePidFile, RemovePidFile, JoinChildren, EndOfFile,
     LockQueue, LookUp, GetConf, Sighup, LoadConfig, Callback, NextKey, ReadLine
<1> QED BY <1>4, <1>5, <1>6, <1>7, <1>8, <1>9, <1>10, <1>11
        DEF Next, MainStep, WorkerStep, Environment

LEMMA ReportsInit == Init => ConfsLoad /\ ReportsKept
<1> SUFFICES ASSUME Init PROVE ConfsLoad /\ ReportsKept
  OBVIOUS
<1>1. Len(stack) = 1 /\ stack[1].pc = "boot"
  BY DEF Init, NewFrame
<1>2. StackLoads
  BY <1>1 DEF StackLoads
<1>3. WorkersLoad
  BY DEF Init, WorkersLoad
<1>4. ReportKept
  BY <1>1 DEF ReportKept
<1>5. NothingGiven
  BY DEF Init, NothingGiven
<1> QED BY <1>2, <1>3, <1>4, <1>5 DEF ConfsLoad, ReportsKept

LEMMA ServiceInit == Init => Service!Init
<1> SUFFICES ASSUME Init PROVE Service!Init
  OBVIOUS
<1>1. file = 0 /\ states = [k \in Key |-> None] /\ kernel = [k \in Key |-> [conf |-> 0, state |-> None]]
  BY DEF Init
<1>2. \A p \in Proc : worker[p].phase = "free"
  BY DEF Init
<1>3. Due = {}
  BY <1>1 DEF Due
<1>4. \A k \in Key : Orders(k) = {}
  BY <1>2 DEF Orders
<1>5. Raised = {}
  BY <1>2 DEF Raised
<1> QED BY <1>1, <1>3, <1>4, <1>5 DEF Service!Init

LEMMA EditMaps ==
  ASSUME EditFile
  PROVE  Service!Edit
<1>1. file' = file + 1 /\ UNCHANGED <<processes, states, worker, kernel>>
  BY DEF EditFile, daemon
<1>2. Due' = Due
  BY <1>1 DEF Due, Delivered, Running, Pilled, LastGiven
<1>3. \A k : Orders(k)' = Orders(k)
  BY <1>1 DEF Orders
<1>4. Raised' = Raised
  BY <1>1 DEF Raised
<1> QED BY <1>1, <1>2, <1>3, <1>4 DEF Service!Edit

LEMMA ServiceStep ==
  ASSUME IInv, ConfsLoad, ReportsKept, [Next]_vars
  PROVE  [Service!Next]_(Service!vars)
<1>0. UNCHANGED ServiceVars => UNCHANGED Service!vars
  BY DEF ServiceVars, Service!vars
<1>1. CASE PutUpdate
  BY <1>0, <1>1, PutUpdateMaps DEF Service!Next
<1>2. CASE PutPill
  BY <1>0, <1>2, PutPillMaps DEF Service!Next
<1>3. CASE \E p \in Proc : CreateProcess(p)
  BY <1>0, <1>3, CreateMaps DEF Service!Next
<1>4. CASE StartProcess
  BY <1>0, <1>4, StartMaps
<1>5. CASE SetState
  BY <1>5, SetStateMaps DEF Service!Next
<1>6. CASE \E p \in Proc : WorkerGet(p)
  BY <1>0, <1>6, GetMaps
<1>7. CASE \E p \in Proc : WorkerApply(p) \/ WorkerDie(p)
  BY <1>7, EndMaps DEF Service!Next
<1>8. CASE EditFile
  BY <1>8, EditMaps DEF Service!Next
<1>9. CASE \/ Boot \/ InstallHandler \/ WritePidFile \/ RemovePidFile \/ JoinChildren
           \/ EndOfFile \/ LockQueue \/ LookUp \/ GetConf \/ Sighup \/ LoadConfig \/ Callback \/ NextKey
           \/ \E k \in Key, s \in State : ReadLine(k, s)
  <2>1. UNCHANGED <<file, processes, states, worker, kernel>>
    BY <1>9 DEF Boot, InstallHandler, WritePidFile, RemovePidFile, JoinChildren, EndOfFile,
       LockQueue, LookUp, GetConf, Sighup, LoadConfig, Callback, NextKey, ReadLine, world
  <2> QED BY <1>0, <2>1, QuietStep
<1>10. CASE ApplyConfig \/ SighupVrrpFifo \/ UNCHANGED vars
  <2>1. UNCHANGED <<file, worker, kernel>>
    BY <1>10 DEF ApplyConfig, SighupVrrpFifo, vars, world
  <2> QED BY <1>0, <1>10, <2>1, QuietStep, ElsewhereStep DEF Elsewhere
<1> QED BY <1>1, <1>2, <1>3, <1>4, <1>5, <1>6, <1>7, <1>8, <1>9, <1>10
        DEF Next, MainStep, WorkerStep, Environment

\* The daemon implements VrrpService: wherever reloads interrupt the main thread and
\* each other, and whatever the workers do meanwhile, every step of it is an edit of
\* the configuration, a report that is only taken when nothing is due, a reload, an
\* order for the state reported last handed out, carried out or given up - or none
\* of the service's business.
THEOREM ImplementsHolds == Spec => Implements
<1>1. Init => Service!Init /\ ConfsLoad /\ ReportsKept
  BY ReportsInit, ServiceInit
<1>2. IInv /\ ConfsLoad /\ ReportsKept /\ [Next]_vars => ConfsLoad' /\ ReportsKept'
  <2> SUFFICES ASSUME IInv, ConfsLoad, ReportsKept, [Next]_vars
               PROVE  ConfsLoad' /\ ReportsKept'
    OBVIOUS
  <2>1. ConfsLoad'
    BY StackLoadsStep, WorkersLoadStep DEF ConfsLoad, IInv
  <2>2. ReportsKept'
    BY ReportKeptStep, NothingGivenStep DEF ReportsKept
  <2> QED BY <2>1, <2>2
<1>3. IInv /\ ConfsLoad /\ ReportsKept /\ [Next]_vars => [Service!Next]_(Service!vars)
  BY ServiceStep
<1> QED BY <1>1, <1>2, <1>3, Invariance, PTL DEF Spec, Implements, Service!Spec
=============================================================================
