----------------------------- MODULE ProcProofs -----------------------------
(* Proofs about Proc, for every table size, number of CPUs and bound: the  *)
(* invariant of the slots, and on top of it the family tree (exit, wait,   *)
(* fork, kill).                                                            *)
EXTENDS Proc, TLAPS

USE ZenonT(10), SMTT(20)

(* What the proofs use of the constants (param.h) and of their encodings.  *)
LEMMA Constants ==
  /\ initproc \in Slots /\ 0 \notin Slots /\ TICKS \notin Slots /\ TICKS # 0
  /\ 0 \in CPUs /\ Free \notin CPUs
  /\ 1 \in Positions /\ \A p \in Slots : p + 1 \in Positions
  /\ 0 \in TickVals /\ SleepArgs \subseteq TickVals
  /\ \A t \in TickVals : (t + 1) % TickMod \in TickVals
  BY ProcAssumption DEF initproc, Slots, TICKS, CPUs, Free, Positions, TickVals

(* Every step of proc.c, trap.c and sys_sleep keeps the variables typed.   *)
LEMMA TypeStep == TypeOK /\ [Next]_vars => TypeOK'
<1> SUFFICES ASSUME TypeOK, [Next]_vars PROVE TypeOK'
  OBVIOUS
<1> USE Constants DEF TypeOK, States, Points, tableVars, At, Goto, sched, wakeup1
<1>1. ASSUME NEW c \in CPUs, SchedStep(c) PROVE TypeOK'
  <2>1. CASE SchedAcquire(c)  BY <2>1 DEF SchedAcquire
  <2>2. CASE SchedPick(c)  BY <2>2 DEF SchedPick, Dispatch
  <2>3. CASE SchedRelease(c)  BY <2>3 DEF SchedRelease
  <2>4. CASE Resume(c)
    <3>1. pc' \in [Slots -> Points]  BY <2>4 DEF Resume
    <3>2. ctx' \in [Slots -> {"cpu", "forkret", "yield", "sleep", "dead"}]  BY <2>4 DEF Resume
    <3>3. chan' \in [Slots -> Slots \cup {0, TICKS}]  BY <2>4 DEF Resume
    <3>4. plock' \in CPUs \cup {Free}  BY <2>4 DEF Resume
    <3> QED  BY <2>4, <3>1, <3>2, <3>3, <3>4 DEF Resume
  <2> QED  BY <1>1, <2>1, <2>2, <2>3, <2>4 DEF SchedStep
<1>2. ASSUME NEW c \in CPUs, IrqStep(c) PROVE TypeOK'
  <2>1. CASE TimerWakeup(c)  BY <2>1 DEF TimerWakeup
  <2>2. CASE TrapTail(c)
    <3>1. pc' \in [Slots -> Points]
      <4>1. pc' = pc \/ pc' = [pc EXCEPT ![proc[c]] = "exit"]
        BY ONLY <2>2, Zenon DEF TrapTail, Goto
      <4> QED  BY <4>1
    <3>2. ctx' \in [Slots -> {"cpu", "forkret", "yield", "sleep", "dead"}]  BY <2>2 DEF TrapTail
    <3>3. state' \in [Slots -> States]  BY <2>2 DEF TrapTail
    <3>4. proc' \in [CPUs -> Slots \cup {0}]  BY <2>2 DEF TrapTail
    <3>5. idx' \in [CPUs -> Positions]  BY <2>2 DEF TrapTail
    <3>6. plock' \in CPUs \cup {Free}  BY <2>2 DEF TrapTail
    <3> QED  BY <2>2, <3>1, <3>2, <3>3, <3>4, <3>5, <3>6, Zenon DEF TrapTail
  <2> QED  BY <1>2, <2>1, <2>2 DEF IrqStep
<1>3. ASSUME NEW c \in CPUs, SysStep(c) PROVE TypeOK'
  <2>1. CASE SysReturn(c)  BY <2>1 DEF SysReturn
  <2>2. CASE SysExit(c)  BY <2>2 DEF SysExit
  <2>3. CASE ForkAlloc(c)
    <3>1. pc' \in [Slots -> Points]  BY <2>3 DEF ForkAlloc
    <3>2. state' \in [Slots -> States]  BY <2>3 DEF ForkAlloc
    <3>3. pid' \in [Slots -> Nat]  BY <2>3 DEF ForkAlloc
    <3>4. nextpid' \in Nat  BY <2>3 DEF ForkAlloc
    <3>5. np' \in [Slots -> Slots \cup {0}]  BY <2>3 DEF ForkAlloc
    <3> QED  BY <2>3, <3>1, <3>2, <3>3, <3>4, <3>5 DEF ForkAlloc
  <2>4. CASE ForkStack(c)
    <3>1. pc' \in [Slots -> Points]
      <4>1. \/ pc' = [pc EXCEPT ![proc[c]] = "ret"]
            \/ pc' = [pc EXCEPT ![proc[c]] = "fork2"]
        BY ONLY <2>4, Zenon DEF ForkStack, ForkAbandon, Goto
      <4> QED  BY <4>1
    <3>2. state' \in [Slots -> States]
      <4>1. state' = state \/ state' = [state EXCEPT ![np[proc[c]]] = "UNUSED"]
        BY ONLY <2>4, Zenon DEF ForkStack, ForkAbandon
      <4> QED  BY <4>1
    <3>3. kstack' \in [Slots -> BOOLEAN]
      <4>1. \E b \in BOOLEAN : kstack' = [kstack EXCEPT ![np[proc[c]]] = b]
        BY ONLY <2>4, Zenon DEF ForkStack, ForkAbandon
      <4> QED  BY <4>1, Zenon
    <3>4. np' \in [Slots -> Slots \cup {0}]
      <4>1. np' = np \/ np' = [np EXCEPT ![proc[c]] = 0]
        BY ONLY <2>4, Zenon DEF ForkStack, ForkAbandon
      <4> QED  BY <4>1
    <3>5. ctx' \in [Slots -> {"cpu", "forkret", "yield", "sleep", "dead"}]  BY <2>4 DEF ForkStack
    <3> QED  BY <2>4, <3>1, <3>2, <3>3, <3>4, <3>5 DEF ForkStack
  <2>5. CASE ForkCopy(c)
    <3>1. pc' \in [Slots -> Points]
      <4>1. \/ pc' = [pc EXCEPT ![proc[c]] = "ret"]
            \/ pc' = [pc EXCEPT ![proc[c]] = "fork3", ![np[proc[c]]] = "user"]
        BY ONLY <2>5, Zenon DEF ForkCopy, ForkAbandon, Goto
      <4> QED  BY <4>1
    <3>2. state' \in [Slots -> States]
      <4>1. state' = state \/ state' = [state EXCEPT ![np[proc[c]]] = "UNUSED"]
        BY ONLY <2>5, Zenon DEF ForkCopy, ForkAbandon
      <4> QED  BY <4>1
    <3>3. kstack' \in [Slots -> BOOLEAN]
      <4>1. kstack' = kstack \/ \E b \in BOOLEAN : kstack' = [kstack EXCEPT ![np[proc[c]]] = b]
        BY ONLY <2>5, Zenon DEF ForkCopy, ForkAbandon
      <4> QED  BY <4>1, Zenon
    <3>4. np' \in [Slots -> Slots \cup {0}]
      <4>1. np' = np \/ np' = [np EXCEPT ![proc[c]] = 0]
        BY ONLY <2>5, Zenon DEF ForkCopy, ForkAbandon
      <4> QED  BY <4>1
    <3>5. parent' \in [Slots -> Slots \cup {0}]  BY <2>5 DEF ForkCopy
    <3> QED  BY <2>5, <3>1, <3>2, <3>3, <3>4, <3>5 DEF ForkCopy
  <2>6. CASE ForkDone(c)  BY <2>6, Zenon DEF ForkDone
  <2>7. CASE Exit(c)  BY <2>7 DEF Exit, Reparent, ExitWakeups
  <2>8. CASE ExitInit(c)  BY <2>8 DEF ExitInit
  <2>9. CASE WaitEnter(c)  BY <2>9 DEF WaitEnter
  <2>10. CASE WaitScan(c)
    <3>1. pc' \in [Slots -> Points]
      <4>1. pc' = pc \/ pc' = [pc EXCEPT ![proc[c]] = "ret"]
        BY ONLY <2>10, Zenon DEF WaitScan, Goto
      <4> QED  BY <4>1
    <3>2. ctx' \in [Slots -> {"cpu", "forkret", "yield", "sleep", "dead"}]  BY <2>10 DEF WaitScan
    <3>3. state' \in [Slots -> States]
      <4>1. \/ state' = state \/ state' = [state EXCEPT ![proc[c]] = "SLEEPING"]
            \/ \E q \in Slots : state' = [state EXCEPT ![q] = "UNUSED"]
        BY ONLY <2>10, Zenon DEF WaitScan
      <4> QED  BY <4>1
    <3>4. chan' \in [Slots -> Slots \cup {0, TICKS}]  BY <2>10 DEF WaitScan
    <3>5. pid' \in [Slots -> Nat]
      <4>1. pid' = pid \/ \E q \in Slots : pid' = [pid EXCEPT ![q] = 0]
        BY ONLY <2>10, Zenon DEF WaitScan
      <4> QED  BY <4>1
    <3>6. parent' \in [Slots -> Slots \cup {0}]  BY <2>10 DEF WaitScan
    <3>7. killed' \in [Slots -> BOOLEAN]  BY <2>10, Zenon DEF WaitScan
    <3>8. kstack' \in [Slots -> BOOLEAN]  BY <2>10, Zenon DEF WaitScan
    <3>9. proc' \in [CPUs -> Slots \cup {0}]  BY <2>10 DEF WaitScan
    <3>10. idx' \in [CPUs -> Positions]  BY <2>10 DEF WaitScan
    <3>11. plock' \in CPUs \cup {Free}  BY <2>10 DEF WaitScan
    <3> QED  BY <2>10, <3>1, <3>2, <3>3, <3>4, <3>5, <3>6, <3>7, <3>8, <3>9, <3>10, <3>11 DEF WaitScan
  <2>11. ASSUME NEW k \in KillArgs, Kill(c, k) PROVE TypeOK'
    <3>1. state' \in [Slots -> States]  BY <2>11 DEF Kill, KillState
    <3>2. killed' \in [Slots -> BOOLEAN]  BY <2>11, Zenon DEF Kill
    <3>3. pc' \in [Slots -> Points]  BY <2>11 DEF Kill
    <3> QED  BY <2>11, <3>1, <3>2, <3>3 DEF Kill
  <2>12. ASSUME NEW n \in SleepArgs, SleepEnter(c, n) PROVE TypeOK'
    BY <2>12 DEF SleepEnter
  <2>13. CASE SleepCheck(c)
    <3>1. NoSleep \in [t0 : TickVals, n : TickVals]  BY DEF NoSleep
    <3>2. slp' \in [Slots -> [t0 : TickVals, n : TickVals]]
      <4>1. slp' = slp \/ slp' = [slp EXCEPT ![proc[c]] = NoSleep]
        BY ONLY <2>13, Zenon DEF SleepCheck
      <4> QED  BY <3>1, <4>1
    <3>3. pc' \in [Slots -> Points]
      <4>1. \E l \in {"sleepgo", "ret"} : pc' = [pc EXCEPT ![proc[c]] = l]
        BY ONLY <2>13, Zenon DEF SleepCheck, Goto
      <4> QED  BY <4>1, Zenon
    <3>4. tlock' \in CPUs \cup {Free}  BY <2>13 DEF SleepCheck
    <3> QED  BY <2>13, <3>2, <3>3, <3>4 DEF SleepCheck
  <2>14. CASE SleepGo(c)  BY <2>14 DEF SleepGo
  <2>15. CASE SleepWake(c)  BY <2>15 DEF SleepWake
  <2> QED
    BY Zenon, <1>3, <2>1, <2>2, <2>3, <2>4, <2>5, <2>6, <2>7, <2>8, <2>9, <2>10, <2>11,
       <2>12, <2>13, <2>14, <2>15 DEF SysStep
<1>4. ASSUME NEW c \in CPUs, Timer(c) PROVE TypeOK'
  BY <1>4 DEF Timer
<1>5. ASSUME NEW c \in CPUs, SysEnter(c) PROVE TypeOK'
  BY <1>5 DEF SysEnter
<1>6. ASSUME NEW c \in CPUs, Fault(c) PROVE TypeOK'
  BY <1>6 DEF Fault
<1>7. CASE UNCHANGED vars
  BY <1>7 DEF vars
<1> QED
  BY <1>1, <1>2, <1>3, <1>4, <1>5, <1>6, <1>7 DEF Next, Panicked

(* The process table, the CPUs and the locks always have their types.      *)
THEOREM Typing == Spec => []TypeOK
<1>1. Init => TypeOK
  <2> SUFFICES ASSUME Init PROVE TypeOK
    OBVIOUS
  <2>1. kstack \in [Slots -> BOOLEAN] /\ panicked \in BOOLEAN
    BY Zenon DEF Init
  <2>2. /\ state \in [Slots -> States] /\ pid \in [Slots -> Nat] /\ nextpid \in Nat
        /\ parent \in [Slots -> Slots \cup {0}] /\ chan \in [Slots -> Slots \cup {0, TICKS}]
        /\ killed \in [Slots -> BOOLEAN]
    BY DEF Init, States
  <2>3. /\ pc \in [Slots -> Points]
        /\ ctx \in [Slots -> {"cpu", "forkret", "yield", "sleep", "dead"}]
        /\ np \in [Slots -> Slots \cup {0}]
        /\ slp \in [Slots -> [t0 : TickVals, n : TickVals]]
    BY Constants DEF Init, Points, NoSleep
  <2>4. /\ proc \in [CPUs -> Slots \cup {0}] /\ idx \in [CPUs -> Positions]
        /\ irq \in [CPUs -> {"none", "tick", "tail"}]
        /\ plock \in CPUs \cup {Free} /\ tlock \in CPUs \cup {Free} /\ ticks \in TickVals
    BY Constants DEF Init
  <2> QED
    BY <2>1, <2>2, <2>3, <2>4 DEF TypeOK
<1> QED
  BY <1>1, TypeStep, PTL DEF Spec
-----------------------------------------------------------------------------
(* What the slot invariant needs of the type invariant.                    *)
SlotTypes ==
  /\ state \in [Slots -> States] /\ pc \in [Slots -> Points]
  /\ kstack \in [Slots -> BOOLEAN] /\ np \in [Slots -> Slots \cup {0}]
  /\ proc \in [CPUs -> Slots \cup {0}]

(* A wakeup, in the table: nobody changes but sleepers made RUNNABLE.      *)
Woken(st, p) == st[p] = state[p] \/ (state[p] = "SLEEPING" /\ st[p] = "RUNNABLE")

(* A thread does not move, or is outside fork before and after.            *)
OutsideFork(p) ==
  \/ pc'[p] = pc[p]
  \/ state[p] = "RUNNING" /\ {pc[p], pc'[p]} \cap ForkPoints = {}

(* The process on a CPU is in state RUNNING.                               *)
LEMMA ProcRunning ==
  ASSUME SlotTypes, SlotInv, NEW c \in CPUs, proc[c] \in Slots
  PROVE  state[proc[c]] = "RUNNING"
  BY DEF SlotInv, RunningOnOneCpu

(* A step that wakes sleepers and moves running processes outside fork     *)
(* keeps the slot invariant.                                               *)
LEMMA SlotFrame ==
  ASSUME SlotTypes, SlotInv, UNCHANGED <<np, kstack, proc>>,
         \A p \in Slots : Woken(state', p) /\ OutsideFork(p)
  PROVE  SlotInv'
<1>1. RunningOnOneCpu'
  BY DEF SlotInv, RunningOnOneCpu, Woken
<1>2. EmbryoOwned'
  BY DEF SlotTypes, SlotInv, EmbryoOwned, Woken
<1>3. StackOwned'
  BY DEF SlotInv, StackOwned, Woken
<1>4. ForkOwner'
  <2> SUFFICES ASSUME NEW p \in Slots
               PROVE  /\ np[p] # 0 => /\ pc'[p] \in ForkPoints
                                      /\ kstack[np[p]] <=> pc'[p] # "fork1"
                                      /\ pc'[p] = "fork3" => pc'[np[p]] = "user"
                      /\ /\ state'[p] \in {"SLEEPING", "RUNNABLE", "RUNNING"}
                         /\ pc'[p] \in ForkPoints
                         => np[p] # 0
    BY DEF ForkOwner
  <2>1. ASSUME np[p] # 0 PROVE pc'[p] = pc[p] /\ np[p] \in Slots /\ pc'[np[p]] = pc[np[p]]
    BY <2>1 DEF SlotTypes, SlotInv, ForkOwner, EmbryoOwned, OutsideFork
  <2>2. pc'[p] \in ForkPoints => pc'[p] = pc[p]
    BY DEF OutsideFork
  <2>3. state'[p] \in {"SLEEPING", "RUNNABLE", "RUNNING"} =>
          state[p] \in {"SLEEPING", "RUNNABLE", "RUNNING"}
    BY DEF Woken
  <2> QED
    BY <2>1, <2>2, <2>3 DEF SlotInv, ForkOwner
<1> QED
  BY <1>1, <1>2, <1>3, <1>4 DEF SlotInv

(* A process that gives up its CPU (yield, sleep, exit), perhaps waking    *)
(* sleepers, keeps the slot invariant; only yield does so inside fork.     *)
LEMMA SlotLeave ==
  ASSUME SlotTypes, SlotInv, NEW c \in CPUs, proc[c] \in Slots,
         UNCHANGED <<np, kstack, pc>>, proc' = [proc EXCEPT ![c] = 0],
         state'[proc[c]] \in {"RUNNABLE", "SLEEPING", "ZOMBIE"},
         state'[proc[c]] # "RUNNABLE" => pc[proc[c]] \notin ForkPoints,
         \A p \in Slots : p # proc[c] => Woken(state', p)
  PROVE  SlotInv'
<1>1. state[proc[c]] = "RUNNING"
  BY ProcRunning
<1>2. RunningOnOneCpu'
  <2>1. \A d \in CPUs : proc'[d] = IF d = c THEN 0 ELSE proc[d]
    BY DEF SlotTypes
  <2>2. \A p \in Slots : state'[p] = "RUNNING" <=> state[p] = "RUNNING" /\ p # proc[c]
    BY DEF Woken
  <2> QED
    BY <1>1, <2>1, <2>2, Constants DEF SlotInv, RunningOnOneCpu
<1>3. EmbryoOwned'
  <2>1. \A p \in Slots : state'[p] = "EMBRYO" <=> state[p] = "EMBRYO"
    BY <1>1 DEF Woken
  <2>2. \A p \in Slots : np[p] # 0 => state'[p] \in {"RUNNING", "RUNNABLE"}
    BY <1>1 DEF SlotInv, EmbryoOwned, ForkOwner, Woken
  <2> QED
    BY <2>1, <2>2 DEF SlotTypes, SlotInv, EmbryoOwned
<1>4. StackOwned'
  BY <1>1 DEF SlotInv, StackOwned, Woken
<1>5. ForkOwner'
  BY <1>1 DEF SlotTypes, SlotInv, ForkOwner, Woken
<1> QED
  BY <1>2, <1>3, <1>4, <1>5 DEF SlotInv

(* The actions that leave the slots alone but for wakeups.                 *)
LEMMA SlotQuiet ==
  ASSUME SlotTypes, SlotInv, NEW c \in CPUs,
         \/ SchedAcquire(c) \/ SchedRelease(c) \/ Resume(c) \/ Timer(c)
         \/ TimerWakeup(c) \/ SysEnter(c) \/ SysReturn(c) \/ SysExit(c)
         \/ Fault(c) \/ ExitInit(c) \/ WaitEnter(c) \/ SleepCheck(c) \/ SleepWake(c)
         \/ (\E k \in KillArgs : Kill(c, k))
         \/ (\E n \in SleepArgs : SleepEnter(c, n))
  PROVE  SlotInv'
<1> SUFFICES /\ UNCHANGED <<np, kstack, proc>>
             /\ \A p \in Slots : Woken(state', p) /\ OutsideFork(p)
  BY SlotFrame
<1> USE ProcRunning DEF SlotTypes, Points, ForkPoints, tableVars, At, Goto, Woken, OutsideFork
<1>1. CASE SchedAcquire(c)
  BY <1>1 DEF SchedAcquire
<1>2. CASE SchedRelease(c)
  BY <1>2 DEF SchedRelease
<1>3. CASE Resume(c)
  <2>1. UNCHANGED <<np, kstack, proc, state>> /\ proc[c] \in Slots
    BY <1>3 DEF Resume
  <2>2. \/ UNCHANGED pc
        \/ \E l \in {"exit", "sleepwake"} :
             pc[proc[c]] \in {"user", "sleepgo"} /\ pc' = [pc EXCEPT ![proc[c]] = l]
    <3>1. CASE ctx[proc[c]] = "forkret"
      BY <1>3, <3>1 DEF Resume
    <3>2. CASE ctx[proc[c]] = "yield"
      BY <1>3, <3>2 DEF Resume
    <3>3. CASE ctx[proc[c]] = "sleep"
      BY <1>3, <3>3 DEF Resume
    <3> QED
      BY <1>3, <3>1, <3>2, <3>3 DEF Resume
  <2> QED
    BY <2>1, <2>2
<1>4. CASE Timer(c)
  BY <1>4 DEF Timer
<1>5. CASE TimerWakeup(c)
  BY <1>5 DEF TimerWakeup, wakeup1
<1>6. CASE SysEnter(c)
  BY <1>6 DEF SysEnter
<1>7. CASE SysReturn(c)
  BY <1>7 DEF SysReturn
<1>8. CASE SysExit(c)
  BY <1>8 DEF SysExit
<1>9. CASE Fault(c)
  BY <1>9 DEF Fault
<1>10. CASE ExitInit(c)
  BY <1>10 DEF ExitInit
<1>11. CASE WaitEnter(c)
  BY <1>11 DEF WaitEnter
<1>12. CASE SleepCheck(c)
  BY <1>12 DEF SleepCheck
<1>13. CASE SleepWake(c)
  BY <1>13 DEF SleepWake
<1>14. CASE \E k \in KillArgs : Kill(c, k)
  BY <1>14 DEF Kill, KillState
<1>15. CASE \E n \in SleepArgs : SleepEnter(c, n)
  BY <1>15 DEF SleepEnter
<1> QED
  BY <1>1, <1>2, <1>3, <1>4, <1>5, <1>6, <1>7, <1>8, <1>9,
     <1>10, <1>11, <1>12, <1>13, <1>14, <1>15

(* wait: the zombie's slot becomes free, with its stack.                   *)
LEMMA SlotReap ==
  ASSUME SlotTypes, SlotInv, NEW c \in CPUs, proc[c] \in Slots,
         pc[proc[c]] = "waitscan", pc' = [pc EXCEPT ![proc[c]] = "ret"],
         NEW q \in Slots, state[q] = "ZOMBIE",
         state' = [state EXCEPT ![q] = "UNUSED"], kstack' = [kstack EXCEPT ![q] = FALSE],
         UNCHANGED <<np, proc>>
  PROVE  SlotInv'
<1>1. state[proc[c]] = "RUNNING"
  BY ProcRunning
<1>2. RunningOnOneCpu'
  BY DEF SlotTypes, SlotInv, RunningOnOneCpu
<1>3. EmbryoOwned'
  BY DEF SlotTypes, SlotInv, EmbryoOwned
<1>4. StackOwned'
  BY DEF SlotTypes, SlotInv, StackOwned
<1>5. ForkOwner'
  BY <1>1 DEF SlotTypes, SlotInv, ForkOwner, EmbryoOwned, ForkPoints
<1> QED
  BY <1>2, <1>3, <1>4, <1>5 DEF SlotInv

(* The error exits of fork keep the slot invariant.                        *)
LEMMA SlotAbandon ==
  ASSUME SlotTypes, SlotInv, NEW c \in CPUs, proc[c] \in Slots,
         pc[proc[c]] \in ForkPoints, ForkAbandon(proc[c]), UNCHANGED proc
  PROVE  SlotInv'
<1> DEFINE p == proc[c]
<1>1. state[p] = "RUNNING" /\ np[p] \in Slots /\ state[np[p]] = "EMBRYO"
  BY ProcRunning DEF SlotTypes, SlotInv, ForkOwner, EmbryoOwned
<1>2. RunningOnOneCpu'
  BY <1>1 DEF SlotTypes, SlotInv, RunningOnOneCpu, ForkAbandon
<1>3. EmbryoOwned'
  BY <1>1, Constants DEF SlotTypes, SlotInv, EmbryoOwned, ForkAbandon
<1>4. StackOwned'
  BY <1>1 DEF SlotTypes, SlotInv, StackOwned, ForkAbandon
<1>5. ForkOwner'
  BY <1>1, Constants DEF SlotTypes, SlotInv, ForkOwner, EmbryoOwned, ForkPoints, ForkAbandon, Goto
<1> QED
  BY <1>2, <1>3, <1>4, <1>5 DEF SlotInv

(* scheduler: the chosen process was RUNNABLE, so no CPU runs it.          *)
LEMMA SlotPick ==
  ASSUME SlotTypes, SlotInv, NEW c \in CPUs, SchedPick(c)
  PROVE  SlotInv'
<1>1. PICK q \in Slots : state[q] = "RUNNABLE" /\ Dispatch(c, q)
  BY DEF SchedPick
<1>2. UNCHANGED <<np, kstack, pc>> /\ proc[c] = 0
  BY DEF SchedPick
<1>3. RunningOnOneCpu'
  <2>1. \A d \in CPUs : proc'[d] = IF d = c THEN q ELSE proc[d]
    BY <1>1 DEF SlotTypes, Dispatch
  <2>2. \A p \in Slots : state'[p] = IF p = q THEN "RUNNING" ELSE state[p]
    BY <1>1 DEF SlotTypes, Dispatch
  <2>3. \A d \in CPUs : proc[d] # q
    BY <1>1 DEF SlotInv, RunningOnOneCpu
  <2>4. \A p \in Slots : p # 0
    BY Constants
  <2>5. \A p \in Slots : state'[p] = "RUNNING" <=> \E d \in CPUs : proc'[d] = p
    BY <1>1, <1>2, <2>1, <2>2, <2>3, <2>4 DEF SlotInv, RunningOnOneCpu
  <2>6. \A d, e \in CPUs : proc'[d] = proc'[e] /\ proc'[d] # 0 => d = e
    BY <1>1, <2>1, <2>3 DEF SlotInv, RunningOnOneCpu
  <2> QED
    BY <2>5, <2>6 DEF RunningOnOneCpu
<1>4. EmbryoOwned'
  BY <1>1, <1>2 DEF SlotTypes, SlotInv, EmbryoOwned, Dispatch
<1>5. StackOwned'
  BY <1>1, <1>2 DEF SlotTypes, SlotInv, StackOwned, Dispatch
<1>6. ForkOwner'
  BY <1>1, <1>2 DEF SlotTypes, SlotInv, ForkOwner, Dispatch
<1> QED
  BY <1>3, <1>4, <1>5, <1>6 DEF SlotInv

(* allocproc, the locked part: the slot taken was UNUSED.                  *)
LEMMA SlotAlloc ==
  ASSUME SlotTypes, SlotInv, NEW c \in CPUs, ForkAlloc(c)
  PROVE  SlotInv'
<1> DEFINE p == proc[c]
<1>1. p \in Slots /\ pc[p] = "sys" /\ UNCHANGED <<kstack, proc>>
  BY DEF ForkAlloc, At
<1>2. state[p] = "RUNNING"
  BY <1>1, ProcRunning
<1>3. np[p] = 0
  BY <1>1 DEF SlotInv, ForkOwner, ForkPoints
<1>4. CASE pc' = [pc EXCEPT ![p] = "ret"] /\ UNCHANGED <<state, np>>
  <2>1. \A q \in Slots : Woken(state', q) /\ OutsideFork(q)
    BY <1>1, <1>2, <1>4 DEF SlotTypes, Woken, OutsideFork, ForkPoints
  <2> QED
    BY <1>1, <1>4, <2>1, SlotFrame
<1>5. ASSUME NEW q \in Slots, state[q] = "UNUSED", state' = [state EXCEPT ![q] = "EMBRYO"],
             np' = [np EXCEPT ![p] = q], pc' = [pc EXCEPT ![p] = "fork1"]
      PROVE  SlotInv'
  <2>1. \A r \in Slots : np[r] # q
    BY <1>5, Constants DEF SlotTypes, SlotInv, EmbryoOwned
  <2>2. RunningOnOneCpu'
    BY <1>1, <1>5 DEF SlotTypes, SlotInv, RunningOnOneCpu
  <2>3. EmbryoOwned'
    BY <1>1, <1>2, <1>3, <1>5, <2>1, Constants DEF SlotTypes, SlotInv, EmbryoOwned
  <2>4. StackOwned'
    BY <1>1, <1>5 DEF SlotTypes, SlotInv, StackOwned
  <2>5. ForkOwner'
    BY <1>1, <1>2, <1>3, <1>5, Constants
       DEF SlotTypes, SlotInv, ForkOwner, EmbryoOwned, StackOwned, ForkPoints
  <2> QED
    BY <2>2, <2>3, <2>4, <2>5 DEF SlotInv
<1> QED
  BY <1>4, <1>5 DEF ForkAlloc, Goto

(* allocproc and fork fill in the slot that they own.                      *)
LEMMA SlotFill ==
  ASSUME SlotTypes, SlotInv, NEW c \in CPUs, ForkStack(c) \/ ForkCopy(c)
  PROVE  SlotInv'
<1> DEFINE p == proc[c]
<1>1. p \in Slots /\ pc[p] \in ForkPoints /\ UNCHANGED proc
  BY DEF ForkStack, ForkCopy, At, ForkPoints
<1>2. CASE ForkAbandon(p)
  BY <1>1, <1>2, SlotAbandon
<1>3. state[p] = "RUNNING" /\ np[p] \in Slots /\ state[np[p]] = "EMBRYO"
  BY <1>1, ProcRunning DEF SlotTypes, SlotInv, ForkOwner, EmbryoOwned
<1>4. \A r \in Slots : np[r] = np[p] => r = p
  BY <1>1, <1>3, Constants DEF SlotInv, EmbryoOwned
<1>5. \A r \in Slots : np[r] # 0 => r # np[p]
  BY <1>3 DEF SlotInv, EmbryoOwned
<1>6. ASSUME UNCHANGED <<state, np>>,
             \/ /\ pc[p] = "fork1" /\ pc' = [pc EXCEPT ![p] = "fork2"]
                /\ kstack' = [kstack EXCEPT ![np[p]] = TRUE]
             \/ /\ pc[p] = "fork2" /\ kstack' = kstack
                /\ pc' = [pc EXCEPT ![p] = "fork3", ![np[p]] = "user"]
      PROVE  SlotInv'
  <2>1. RunningOnOneCpu' /\ EmbryoOwned'
    BY <1>1, <1>6 DEF SlotInv, RunningOnOneCpu, EmbryoOwned
  <2>2. StackOwned'
    BY <1>3, <1>6 DEF SlotTypes, SlotInv, StackOwned
  <2>3. ForkOwner'
    BY <1>1, <1>3, <1>4, <1>5, <1>6 DEF SlotTypes, SlotInv, ForkOwner, ForkPoints
  <2> QED
    BY <2>1, <2>2, <2>3 DEF SlotInv
<1> QED
  BY <1>2, <1>6 DEF ForkStack, ForkCopy, At, Goto

(* fork: the finished slot becomes RUNNABLE.                               *)
LEMMA SlotStart ==
  ASSUME SlotTypes, SlotInv, NEW c \in CPUs, ForkDone(c)
  PROVE  SlotInv'
<1> DEFINE p == proc[c]
<1>1. /\ p \in Slots /\ pc[p] = "fork3" /\ UNCHANGED <<proc, kstack>>
      /\ state' = [state EXCEPT ![np[p]] = "RUNNABLE"]
      /\ np' = [np EXCEPT ![p] = 0] /\ pc' = [pc EXCEPT ![p] = "ret"]
  BY DEF ForkDone, At, Goto
<1>2. state[p] = "RUNNING" /\ np[p] \in Slots /\ state[np[p]] = "EMBRYO"
  BY <1>1, ProcRunning DEF SlotTypes, SlotInv, ForkOwner, EmbryoOwned, ForkPoints
<1>3. kstack[np[p]] /\ pc[np[p]] = "user"
  BY <1>1, <1>2, Constants DEF SlotInv, ForkOwner
<1>4. RunningOnOneCpu'
  BY <1>1, <1>2 DEF SlotTypes, SlotInv, RunningOnOneCpu
<1>5. EmbryoOwned'
  BY <1>1, <1>2, Constants DEF SlotTypes, SlotInv, EmbryoOwned
<1>6. StackOwned'
  BY <1>1, <1>2, <1>3 DEF SlotTypes, SlotInv, StackOwned
<1>7. ForkOwner'
  BY <1>1, <1>2, <1>3, Constants DEF SlotTypes, SlotInv, ForkOwner, EmbryoOwned, ForkPoints
<1> QED
  BY <1>4, <1>5, <1>6, <1>7 DEF SlotInv

(* yield, the sleeps and exit.                                             *)
LEMMA SlotGiveUp ==
  ASSUME SlotTypes, SlotInv, NEW c \in CPUs,
         TrapTail(c) \/ Exit(c) \/ WaitScan(c) \/ SleepGo(c)
  PROVE  SlotInv'
<1> DEFINE p == proc[c]
<1>1. p \in Slots
  BY DEF TrapTail, Exit, WaitScan, SleepGo, At
<1>2. state[p] = "RUNNING"
  BY <1>1, ProcRunning
<1>3. CASE TrapTail(c)
  <2>1. CASE pc' = [pc EXCEPT ![p] = "exit"] /\ pc[p] = "user" /\ UNCHANGED <<state, proc>>
    <3>1. UNCHANGED <<np, kstack, proc>> /\ \A q \in Slots : Woken(state', q) /\ OutsideFork(q)
      BY <1>1, <1>2, <1>3, <2>1 DEF SlotTypes, TrapTail, Woken, OutsideFork, ForkPoints
    <3> QED
      BY <3>1, SlotFrame
  <2>2. CASE state' = [state EXCEPT ![p] = "RUNNABLE"] /\ sched(c, p, "yield") /\ UNCHANGED pc
    <3>1. UNCHANGED <<np, kstack>>
      BY <1>3 DEF TrapTail
    <3>2. state'[p] = "RUNNABLE" /\ \A q \in Slots : q # p => Woken(state', q)
      BY <1>1, <2>2 DEF SlotTypes, Woken
    <3> QED
      BY <1>1, <2>2, <3>1, <3>2, SlotLeave, Zenon DEF sched
  <2> QED
    BY <1>3, <2>1, <2>2 DEF TrapTail, Goto
<1>4. CASE Exit(c)
  <2>1. UNCHANGED <<np, kstack, pc>> /\ pc[p] = "exit" /\ proc' = [proc EXCEPT ![c] = 0]
    BY <1>4 DEF Exit, At, sched
  <2>2. state'[p] = "ZOMBIE" /\ \A q \in Slots : q # p => Woken(state', q)
    BY <1>1, <1>4 DEF SlotTypes, Exit, ExitWakeups, wakeup1, Woken
  <2> QED
    BY <1>1, <2>1, <2>2, SlotLeave, Zenon DEF ForkPoints
<1>5. CASE SleepGo(c)
  <2>1. UNCHANGED <<np, kstack, pc>> /\ pc[p] = "sleepgo" /\ proc' = [proc EXCEPT ![c] = 0]
    BY <1>5 DEF SleepGo, At, sched
  <2>2. state'[p] = "SLEEPING" /\ \A q \in Slots : q # p => Woken(state', q)
    BY <1>1, <1>5 DEF SlotTypes, SleepGo, Woken
  <2> QED
    BY <1>1, <2>1, <2>2, SlotLeave, Zenon DEF ForkPoints
<1>6. CASE WaitScan(c)
  <2>1. pc[p] = "waitscan" /\ UNCHANGED np
    BY <1>6 DEF WaitScan, At
  <2>2. CASE \E q \in Slots : /\ state[q] = "ZOMBIE" /\ state' = [state EXCEPT ![q] = "UNUSED"]
                             /\ kstack' = [kstack EXCEPT ![q] = FALSE]
                             /\ pc' = [pc EXCEPT ![p] = "ret"] /\ UNCHANGED proc
    BY <1>1, <2>1, <2>2, SlotReap, Zenon
  <2>3. CASE pc' = [pc EXCEPT ![p] = "ret"] /\ UNCHANGED <<state, kstack, proc>>
    <3>1. \A q \in Slots : Woken(state', q) /\ OutsideFork(q)
      BY <1>1, <1>2, <2>1, <2>3 DEF SlotTypes, Woken, OutsideFork, ForkPoints
    <3> QED
      BY <2>1, <2>3, <3>1, SlotFrame
  <2>4. CASE /\ state' = [state EXCEPT ![p] = "SLEEPING"] /\ sched(c, p, "sleep")
             /\ UNCHANGED <<kstack, pc>>
    <3>1. state'[p] = "SLEEPING" /\ \A q \in Slots : q # p => Woken(state', q)
      BY <1>1, <2>4 DEF SlotTypes, Woken
    <3> QED
      BY <1>1, <2>1, <2>4, <3>1, SlotLeave, Zenon DEF ForkPoints, sched
  <2> QED
    BY <1>6, <2>2, <2>3, <2>4 DEF WaitScan, Goto
<1> QED
  BY <1>3, <1>4, <1>5, <1>6

(* Every step keeps the slot invariant.                                    *)
LEMMA SlotStep == TypeOK /\ SlotInv /\ [Next]_vars => SlotInv'
<1> SUFFICES ASSUME SlotTypes, SlotInv, [Next]_vars PROVE SlotInv'
  BY DEF TypeOK, SlotTypes
<1>1. CASE UNCHANGED vars
  BY <1>1, SlotFrame DEF vars, tableVars, Woken, OutsideFork
<1>2. ASSUME NEW c \in CPUs, SchedStep(c) \/ IrqStep(c) \/ SysStep(c) \/ Timer(c)
                             \/ SysEnter(c) \/ Fault(c)
      PROVE  SlotInv'
  BY <1>2, SlotQuiet, SlotPick, SlotAlloc, SlotFill, SlotStart, SlotGiveUp
     DEF SchedStep, IrqStep, SysStep
<1> QED
  BY <1>1, <1>2 DEF Next, Panicked

(* The slot invariant holds always.                                        *)
THEOREM SlotSafety == Spec => []SlotInv
<1>1. Init => SlotInv
  <2> SUFFICES ASSUME Init PROVE SlotInv
    OBVIOUS
  <2>1. RunningOnOneCpu
    BY Constants DEF Init, RunningOnOneCpu
  <2>2. EmbryoOwned
    BY DEF Init, EmbryoOwned
  <2>3. StackOwned
    BY Zenon DEF Init, StackOwned
  <2>4. ForkOwner
    BY DEF Init, ForkOwner, ForkPoints
  <2> QED
    BY <2>1, <2>2, <2>3, <2>4 DEF SlotInv
<1> QED
  BY <1>1, Typing, SlotStep, PTL DEF Spec

(* scheduler, sched: a process is RUNNING exactly on the one CPU whose     *)
(* c->proc it is.                                                          *)
THEOREM OneCpu == Spec => []RunningOnOneCpu
  BY SlotSafety, PTL DEF SlotInv

(* allocproc, fork: a slot written without ptable.lock has one owner.      *)
THEOREM Embryos == Spec => []EmbryoOwned
  BY SlotSafety, PTL DEF SlotInv

(* fork, wait: kernel stacks are freed once, and not under a process.      *)
THEOREM Stacks == Spec => []StackOwned
  BY SlotSafety, PTL DEF SlotInv

-----------------------------------------------------------------------------
(* What the tree invariant needs of the type invariant.                    *)
TreeTypes ==
  /\ SlotTypes
  /\ parent \in [Slots -> Slots \cup {0}] /\ chan \in [Slots -> Slots \cup {0, TICKS}]
  /\ killed \in [Slots -> BOOLEAN]
  /\ ctx \in [Slots -> {"cpu", "forkret", "yield", "sleep", "dead"}]

(* The states of a process that can still call wait.                       *)
Living == {"SLEEPING", "RUNNABLE", "RUNNING"}

(* Slot p asleep in wait.                                                  *)
Waiting(p) == state[p] = "SLEEPING" /\ chan[p] = p

(* A step does nothing to p but wake it, run it, or put it to sleep        *)
(* outside wait; what fork builds is left alone.                           *)
Undisturbed(p) ==
  /\ state'[p] = state[p] \/ {state[p], state'[p]} \subseteq Living
  /\ np[p] # 0 => pc'[p] = pc[p]
  /\ state[p] = "EMBRYO" => ctx'[p] = ctx[p]
  /\ Waiting(p)' => Waiting(p) /\ killed'[p] = killed[p]

(* A step that disturbs nobody and makes no child keeps the tree.          *)
LEMMA TreeFrame ==
  ASSUME TreeTypes, SlotInv, TreeInv, UNCHANGED <<np, parent>>,
         \A p \in Slots : Undisturbed(p)
  PROVE  TreeInv'
<1>1. ForkChild'
  <2>1. state'[initproc] \in Living /\ parent'[initproc] = 0
    BY Constants DEF TreeInv, ForkChild, Undisturbed, Living
  <2>2. ASSUME NEW p \in Slots
        PROVE  /\ parent'[p] # p
               /\ state'[p] = "UNUSED" => parent'[p] = 0
               /\ np'[p] # 0 => /\ parent'[np'[p]] = IF pc'[p] = "fork3" THEN p ELSE 0
                                /\ pc'[p] # "fork1" => ctx'[np'[p]] = "forkret"
    <3>1. state'[p] = "UNUSED" => state[p] = "UNUSED"
      BY <2>2 DEF Undisturbed, Living
    <3>2. np[p] # 0 => np[p] \in Slots /\ pc'[p] = pc[p] /\ ctx'[np[p]] = ctx[np[p]]
      BY <2>2 DEF TreeTypes, SlotTypes, SlotInv, EmbryoOwned, Undisturbed
    <3> QED
      BY <2>2, <3>1, <3>2 DEF TreeInv, ForkChild
  <2> QED
    BY <2>1, <2>2 DEF ForkChild, Living
<1>2. ParentAlive'
  <2> SUFFICES ASSUME NEW p \in Slots
               PROVE  /\ p # initproc /\ state'[p] \notin {"UNUSED", "EMBRYO"} => parent[p] # 0
                      /\ parent[p] # 0 => state'[p] # "UNUSED" /\ state'[parent[p]] \in Living
    BY DEF ParentAlive, Living
  <2>1. /\ state'[p] \notin {"UNUSED", "EMBRYO"} => state[p] \notin {"UNUSED", "EMBRYO"}
        /\ state[p] # "UNUSED" => state'[p] # "UNUSED"
    BY DEF Undisturbed, Living
  <2>2. parent[p] # 0 => state[parent[p]] \in Living /\ parent[p] \in Slots
    BY DEF TreeTypes, TreeInv, ParentAlive, Living
  <2> QED
    BY <2>1, <2>2 DEF TreeInv, ParentAlive, Undisturbed
<1>3. NoLostExit'
  <2> SUFFICES ASSUME NEW p \in Slots, Waiting(p)'
               PROVE  /\ \E q \in Slots : parent[q] = p
                      /\ \A q \in Slots : parent[q] = p => state'[q] # "ZOMBIE"
                      /\ ~killed'[p]
    BY DEF NoLostExit, Waiting
  <2>1. Waiting(p) /\ killed'[p] = killed[p]
    BY DEF Undisturbed
  <2>2. \A q \in Slots : state'[q] = "ZOMBIE" => state[q] = "ZOMBIE"
    BY DEF Undisturbed, Living
  <2> QED
    BY <2>1, <2>2 DEF TreeInv, NoLostExit, Waiting
<1> QED
  BY <1>1, <1>2, <1>3 DEF TreeInv

(* The process on a CPU is RUNNING; inside fork it owns an EMBRYO slot     *)
(* that is no other's and is neither init nor itself.                      *)
LEMMA OwnedSlot ==
  ASSUME TreeTypes, SlotInv, TreeInv, NEW c \in CPUs, proc[c] \in Slots
  PROVE  /\ state[proc[c]] = "RUNNING"
         /\ pc[proc[c]] \notin ForkPoints => np[proc[c]] = 0
         /\ pc[proc[c]] \in ForkPoints =>
              /\ np[proc[c]] \in Slots /\ state[np[proc[c]]] = "EMBRYO"
              /\ np[proc[c]] # initproc /\ np[proc[c]] # proc[c]
              /\ \A r \in Slots : np[r] = np[proc[c]] => r = proc[c]
<1>1. state[proc[c]] = "RUNNING"
  BY ProcRunning DEF TreeTypes
<1>2. pc[proc[c]] \notin ForkPoints => np[proc[c]] = 0
  BY DEF SlotInv, ForkOwner
<1>3. pc[proc[c]] \in ForkPoints => np[proc[c]] \in Slots /\ state[np[proc[c]]] = "EMBRYO"
  BY <1>1 DEF TreeTypes, SlotTypes, SlotInv, ForkOwner, EmbryoOwned
<1>4. state[initproc] # "EMBRYO"
  BY DEF TreeInv, ForkChild
<1> QED
  BY <1>1, <1>2, <1>3, <1>4, Constants DEF SlotInv, EmbryoOwned

(* The actions that make or end no process.                                *)
LEMMA TreeQuiet ==
  ASSUME TreeTypes, SlotInv, TreeInv, NEW c \in CPUs,
         \/ SchedAcquire(c) \/ SchedPick(c) \/ SchedRelease(c) \/ Resume(c) \/ Timer(c)
         \/ TimerWakeup(c) \/ TrapTail(c) \/ SysEnter(c) \/ SysReturn(c) \/ SysExit(c)
         \/ Fault(c) \/ ExitInit(c) \/ WaitEnter(c) \/ SleepCheck(c) \/ SleepGo(c)
         \/ SleepWake(c)
         \/ (\E k \in KillArgs : Kill(c, k))
         \/ (\E n \in SleepArgs : SleepEnter(c, n))
  PROVE  TreeInv'
<1> SUFFICES UNCHANGED <<np, parent>> /\ \A p \in Slots : Undisturbed(p)
  BY TreeFrame
<1> USE OwnedSlot, Constants
    DEF TreeTypes, SlotTypes, Points, ForkPoints, tableVars, At, Goto, Undisturbed, Waiting, Living
<1>1. CASE SchedAcquire(c)
  BY <1>1 DEF SchedAcquire
<1>2. CASE SchedPick(c)
  BY <1>2 DEF SchedPick, Dispatch
<1>3. CASE SchedRelease(c)
  BY <1>3 DEF SchedRelease
<1>4. CASE Resume(c)
  <2>1. UNCHANGED <<np, parent, state, killed>> /\ proc[c] \in Slots
        /\ ctx' = [ctx EXCEPT ![proc[c]] = "cpu"]
    BY <1>4 DEF Resume
  <2>2. chan' = chan \/ chan' = [chan EXCEPT ![proc[c]] = 0]
    BY ONLY <1>4, Zenon DEF Resume
  <2>3. pc' = pc \/ \E l \in {pc[proc[c]], "exit", "sleepwake"} :
                      /\ pc[proc[c]] \in {"user", "sleepgo"} \/ l = pc[proc[c]]
                      /\ pc' = [pc EXCEPT ![proc[c]] = l]
    BY ONLY <1>4, Zenon DEF Resume, Goto
  <2>4. pc[proc[c]] \in {"user", "sleepgo"} => np[proc[c]] = 0
    BY <2>1
  <2>5. \A p \in Slots : np[p] # 0 => pc'[p] = pc[p]
    BY <2>1, <2>3, <2>4
  <2>6. state[proc[c]] = "RUNNING"
    BY <2>1
  <2> QED
    BY ONLY TreeTypes, Constants, <2>1, <2>2, <2>5, <2>6 DEF TreeTypes, Undisturbed, Waiting
<1>5. CASE Timer(c)
  BY <1>5 DEF Timer
<1>6. CASE TimerWakeup(c)
  BY <1>6 DEF TimerWakeup, wakeup1
<1>7. CASE TrapTail(c)
  <2>1. /\ UNCHANGED <<np, parent, chan, killed>> /\ proc[c] \in Slots
        /\ \/ pc[proc[c]] = "user" /\ pc' = [pc EXCEPT ![proc[c]] = "exit"] /\ UNCHANGED <<state, ctx>>
           \/ /\ state' = [state EXCEPT ![proc[c]] = "RUNNABLE"] /\ UNCHANGED pc
              /\ ctx' = [ctx EXCEPT ![proc[c]] = "yield"]
    BY <1>7 DEF TrapTail, sched
  <2> QED
    BY <2>1
<1>8. CASE SysEnter(c)
  BY <1>8 DEF SysEnter
<1>9. CASE SysReturn(c)
  BY <1>9 DEF SysReturn
<1>10. CASE SysExit(c)
  BY <1>10 DEF SysExit
<1>11. CASE Fault(c)
  BY <1>11 DEF Fault
<1>12. CASE ExitInit(c)
  BY <1>12 DEF ExitInit
<1>13. CASE WaitEnter(c)
  BY <1>13 DEF WaitEnter
<1>14. CASE SleepCheck(c)
  BY <1>14 DEF SleepCheck
<1>15. CASE SleepGo(c)
  BY <1>15 DEF SleepGo, sched
<1>16. CASE SleepWake(c)
  BY <1>16 DEF SleepWake
<1>17. CASE \E k \in KillArgs : Kill(c, k)
  BY <1>17 DEF Kill, KillState
<1>18. CASE \E n \in SleepArgs : SleepEnter(c, n)
  BY <1>18 DEF SleepEnter
<1> QED
  BY <1>1, <1>2, <1>3, <1>4, <1>5, <1>6, <1>7, <1>8, <1>9, <1>10,
     <1>11, <1>12, <1>13, <1>14, <1>15, <1>16, <1>17, <1>18

(* wait reaps: the zombie had no children, and only its own parent, which  *)
(* is awake, loses a child.                                                *)
LEMMA TreeReap ==
  ASSUME TreeTypes, SlotInv, TreeInv, NEW c \in CPUs, proc[c] \in Slots,
         pc[proc[c]] = "waitscan", pc' = [pc EXCEPT ![proc[c]] = "ret"],
         NEW q \in Slots, parent[q] = proc[c], state[q] = "ZOMBIE",
         state' = [state EXCEPT ![q] = "UNUSED"], parent' = [parent EXCEPT ![q] = 0],
         killed' = [killed EXCEPT ![q] = FALSE], UNCHANGED <<np, chan, ctx>>
  PROVE  TreeInv'
<1>1. state[proc[c]] = "RUNNING" /\ np[proc[c]] = 0
  BY OwnedSlot DEF ForkPoints
<1>2. /\ \A r \in Slots : state'[r] = IF r = q THEN "UNUSED" ELSE state[r]
      /\ \A r \in Slots : parent'[r] = IF r = q THEN 0 ELSE parent[r]
      /\ \A r \in Slots : killed'[r] = IF r = q THEN FALSE ELSE killed[r]
  BY DEF TreeTypes, SlotTypes
<1>3. ForkChild'
  <2>1. q # initproc /\ \A r \in Slots : np[r] # q
    BY Constants DEF TreeTypes, SlotTypes, SlotInv, EmbryoOwned, TreeInv, ForkChild
  <2>2. \A r \in Slots : np[r] # 0 => np[r] \in Slots /\ pc'[r] = pc[r]
    BY <1>1 DEF TreeTypes, SlotTypes
  <2> QED
    BY <1>2, <2>1, <2>2, Constants DEF TreeInv, ForkChild
<1>4. ParentAlive'
  <2>1. \A r \in Slots : parent[r] # q
    BY Constants DEF TreeInv, ParentAlive
  <2>2. \A r \in Slots : parent[r] # 0 => parent[r] \in Slots
    BY DEF TreeTypes
  <2> QED
    BY <1>2, <2>1, <2>2 DEF TreeInv, ParentAlive
<1>5. NoLostExit'
  <2> SUFFICES ASSUME NEW p \in Slots, state'[p] = "SLEEPING", chan[p] = p
               PROVE  /\ \E r \in Slots : parent'[r] = p
                      /\ \A r \in Slots : parent'[r] = p => state'[r] # "ZOMBIE"
                      /\ ~killed'[p]
    BY DEF NoLostExit
  <2>1. state[p] = "SLEEPING" /\ p # q /\ p # proc[c] /\ p # 0
    BY <1>1, <1>2, Constants
  <2>2. PICK r \in Slots : parent[r] = p
    BY <2>1 DEF TreeInv, NoLostExit
  <2>3. parent'[r] = p
    BY <1>2, <2>1, <2>2
  <2> QED
    BY <1>2, <2>1, <2>3 DEF TreeInv, NoLostExit
<1> QED
  BY <1>3, <1>4, <1>5 DEF TreeInv

(* wait sleeps: it has just seen children and no zombie, unkilled.         *)
LEMMA TreeSleep ==
  ASSUME TreeTypes, SlotInv, TreeInv, NEW c \in CPUs, proc[c] \in Slots,
         \E q \in Slots : parent[q] = proc[c],
         \A q \in Slots : parent[q] = proc[c] => state[q] # "ZOMBIE",
         ~killed[proc[c]], chan' = [chan EXCEPT ![proc[c]] = proc[c]],
         state' = [state EXCEPT ![proc[c]] = "SLEEPING"],
         ctx' = [ctx EXCEPT ![proc[c]] = "sleep"],
         UNCHANGED <<np, parent, pc, killed>>
  PROVE  TreeInv'
<1>1. state[proc[c]] = "RUNNING"
  BY OwnedSlot
<1>2. \A r \in Slots : state'[r] = IF r = proc[c] THEN "SLEEPING" ELSE state[r]
  BY DEF TreeTypes, SlotTypes
<1>3. ForkChild'
  <2>1. \A r \in Slots : np[r] # 0 => np[r] \in Slots /\ ctx'[np[r]] = ctx[np[r]]
    BY <1>1 DEF TreeTypes, SlotTypes, SlotInv, EmbryoOwned
  <2> QED
    BY <1>1, <1>2, <2>1, Constants DEF TreeInv, ForkChild
<1>4. ParentAlive'
  BY <1>1, <1>2 DEF TreeTypes, TreeInv, ParentAlive
<1>5. NoLostExit'
  <2>1. \A r \in Slots : chan'[r] = IF r = proc[c] THEN proc[c] ELSE chan[r]
    BY DEF TreeTypes
  <2>2. ASSUME NEW p \in Slots, state'[p] = "SLEEPING", chan'[p] = p
        PROVE  /\ \E q \in Slots : parent[q] = p
               /\ \A q \in Slots : parent[q] = p => state'[q] # "ZOMBIE"
               /\ ~killed[p]
    <3>1. CASE p = proc[c]
      BY <1>2, <3>1
    <3>2. CASE p # proc[c]
      BY <1>2, <2>1, <2>2, <3>2 DEF TreeInv, NoLostExit
    <3> QED
      BY <3>1, <3>2
  <2> QED
    BY <2>2 DEF NoLostExit
<1> QED
  BY <1>3, <1>4, <1>5 DEF TreeInv

(* A round of wait's loop.                                                 *)
LEMMA TreeWait ==
  ASSUME TreeTypes, SlotInv, TreeInv, NEW c \in CPUs, WaitScan(c)
  PROVE  TreeInv'
<1> DEFINE p == proc[c]
<1>1. p \in Slots /\ pc[p] = "waitscan" /\ UNCHANGED np
  BY DEF WaitScan, At
<1>2. CASE \E q \in Slots : /\ parent[q] = p /\ state[q] = "ZOMBIE"
                           /\ state' = [state EXCEPT ![q] = "UNUSED"]
                           /\ parent' = [parent EXCEPT ![q] = 0]
                           /\ killed' = [killed EXCEPT ![q] = FALSE]
                           /\ pc' = [pc EXCEPT ![p] = "ret"] /\ UNCHANGED <<chan, ctx>>
  BY <1>1, <1>2, TreeReap, Zenon
<1>3. CASE pc' = [pc EXCEPT ![p] = "ret"] /\ UNCHANGED <<state, parent, chan, killed, ctx>>
  <2>1. np[p] = 0
    BY <1>1, OwnedSlot DEF ForkPoints
  <2>2. \A r \in Slots : Undisturbed(r)
    BY <1>1, <1>3, <2>1 DEF TreeTypes, SlotTypes, Undisturbed, Waiting
  <2> QED
    BY <1>1, <1>3, <2>2, TreeFrame
<1>4. CASE /\ \E q \in Slots : parent[q] = p
           /\ \A q \in Slots : parent[q] = p => state[q] # "ZOMBIE"
           /\ ~killed[p] /\ chan' = [chan EXCEPT ![p] = p]
           /\ state' = [state EXCEPT ![p] = "SLEEPING"]
           /\ ctx' = [ctx EXCEPT ![p] = "sleep"]
           /\ UNCHANGED <<parent, pc, killed>>
  BY <1>1, <1>4, TreeSleep, Zenon
<1> QED
  BY <1>2, <1>3, <1>4, Zenon DEF WaitScan, Goto, sched

(* exit: the parent is woken if it waits; the children go to init, which   *)
(* is woken if it waits and one of them is a zombie.                       *)
LEMMA TreeExit ==
  ASSUME TreeTypes, SlotInv, TreeInv, NEW c \in CPUs, Exit(c)
  PROVE  TreeInv'
<1> DEFINE p == proc[c]
<1>1. /\ p \in Slots /\ p # initproc /\ pc[p] = "exit" /\ UNCHANGED <<chan, killed, pc, np>>
      /\ parent' = Reparent(p) /\ state' = [ExitWakeups(p) EXCEPT ![p] = "ZOMBIE"]
      /\ ctx' = [ctx EXCEPT ![p] = "dead"]
  BY DEF Exit, At, sched
<1>2. state[p] = "RUNNING" /\ np[p] = 0
  BY <1>1, OwnedSlot DEF ForkPoints
<1>3. \A r \in Slots : parent'[r] = IF parent[r] = p THEN initproc ELSE parent[r]
  BY <1>1 DEF Reparent
<1>4. state'[p] = "ZOMBIE" /\ \A r \in Slots : r # p => Woken(state', r)
  BY <1>1 DEF TreeTypes, SlotTypes, ExitWakeups, wakeup1, Woken
<1>5. ForkChild'
  <2>1. \A r \in Slots : np[r] # 0 =>
          np[r] \in Slots /\ r # p /\ np[r] # p /\ ctx'[np[r]] = ctx[np[r]]
    BY <1>1, <1>2 DEF TreeTypes, SlotTypes, SlotInv, EmbryoOwned
  <2>2. \A r \in Slots : np[r] # 0 => parent'[np[r]] = parent[np[r]]
    BY <1>1, <1>3, <2>1, Constants DEF TreeInv, ForkChild
  <2>3. state'[initproc] \in Living /\ parent'[initproc] = 0
    BY <1>1, <1>3, <1>4, Constants DEF TreeInv, ForkChild, Woken, Living
  <2>4. \A r \in Slots : parent'[r] # r /\ (state'[r] = "UNUSED" => parent'[r] = 0)
    BY <1>1, <1>3, <1>4, Constants DEF TreeInv, ForkChild, Woken
  <2> QED
    BY <1>1, <2>1, <2>2, <2>3, <2>4 DEF TreeInv, ForkChild, Living
<1>6. ParentAlive'
  <2> SUFFICES ASSUME NEW r \in Slots
               PROVE  /\ r # initproc /\ state'[r] \notin {"UNUSED", "EMBRYO"} => parent'[r] # 0
                      /\ parent'[r] # 0 => state'[r] # "UNUSED" /\ state'[parent'[r]] \in Living
    BY DEF ParentAlive, Living
  <2>1. \A q \in Slots : q # p /\ state[q] \in Living => state'[q] \in Living
    BY <1>4 DEF Woken, Living
  <2>2. state'[r] \notin {"UNUSED", "EMBRYO"} <=> state[r] \notin {"UNUSED", "EMBRYO"}
    BY <1>2, <1>4 DEF Woken
  <2>3. parent[r] # 0 => /\ state[r] # "UNUSED" /\ parent[r] \in Slots
                         /\ state[parent[r]] \in Living
    BY DEF TreeTypes, TreeInv, ParentAlive, Living
  <2>4. state'[r] = "UNUSED" => state[r] = "UNUSED"
    BY <1>4 DEF Woken
  <2>5. state[initproc] \in Living
    BY DEF TreeInv, ForkChild, Living
  <2> QED
    BY <1>1, <1>3, <2>1, <2>2, <2>3, <2>4, <2>5, Constants DEF TreeInv, ParentAlive
<1>7. NoLostExit'
  <2> SUFFICES ASSUME NEW x \in Slots, state'[x] = "SLEEPING", chan[x] = x
               PROVE  /\ \E r \in Slots : parent'[r] = x
                      /\ \A r \in Slots : parent'[r] = x => state'[r] # "ZOMBIE"
                      /\ ~killed[x]
    BY <1>1 DEF NoLostExit
  <2>1. x # p /\ state[x] = "SLEEPING"
    BY <1>4 DEF Woken
  <2>2. parent[p] # x
    BY <1>1, <2>1 DEF TreeTypes, SlotTypes, ExitWakeups, wakeup1
  <2>3. x = initproc => \A q \in Slots : parent[q] = p => state[q] # "ZOMBIE"
    BY <1>1, <2>1 DEF TreeTypes, SlotTypes, ExitWakeups, wakeup1
  <2>4. parent[p] # p
    BY <1>1 DEF TreeInv, ForkChild
  <2>5. ASSUME NEW r \in Slots, parent'[r] = x PROVE state'[r] # "ZOMBIE"
    <3>1. r # p
      BY <1>1, <1>3, <2>2, <2>4, <2>5
    <3>2. state[r] # "ZOMBIE"
      BY <1>3, <2>1, <2>3, <2>5 DEF TreeInv, NoLostExit
    <3> QED
      BY <1>4, <3>1, <3>2 DEF Woken
  <2>6. \E r \in Slots : parent'[r] = x
    BY <1>3, <2>1 DEF TreeInv, NoLostExit
  <2> QED
    BY <2>1, <2>5, <2>6 DEF TreeInv, NoLostExit
<1> QED
  BY <1>5, <1>6, <1>7 DEF TreeInv

(* allocproc takes a free slot, which has no parent and no children.       *)
LEMMA TreeAlloc ==
  ASSUME TreeTypes, SlotInv, TreeInv, NEW c \in CPUs, ForkAlloc(c)
  PROVE  TreeInv'
<1> DEFINE p == proc[c]
<1>1. p \in Slots /\ pc[p] = "sys" /\ UNCHANGED <<parent, chan, killed, ctx>>
  BY DEF ForkAlloc, At
<1>2. state[p] = "RUNNING" /\ np[p] = 0
  BY <1>1, OwnedSlot DEF ForkPoints
<1>3. CASE pc' = [pc EXCEPT ![p] = "ret"] /\ UNCHANGED <<state, np>>
  <2>1. \A r \in Slots : Undisturbed(r)
    BY <1>1, <1>2, <1>3 DEF TreeTypes, SlotTypes, Undisturbed, Waiting
  <2> QED
    BY <1>1, <1>3, <2>1, TreeFrame
<1>4. ASSUME NEW q \in Slots, state[q] = "UNUSED", state' = [state EXCEPT ![q] = "EMBRYO"],
             np' = [np EXCEPT ![p] = q], pc' = [pc EXCEPT ![p] = "fork1"]
      PROVE  TreeInv'
  <2>1. /\ \A r \in Slots : state'[r] = IF r = q THEN "EMBRYO" ELSE state[r]
        /\ \A r \in Slots : np'[r] = IF r = p THEN q ELSE np[r]
        /\ \A r \in Slots : pc'[r] = IF r = p THEN "fork1" ELSE pc[r]
    BY <1>1, <1>4 DEF TreeTypes, SlotTypes
  <2>2. parent[q] = 0
    BY <1>4 DEF TreeInv, ForkChild
  <2>3. ForkChild'
    BY <1>1, <1>4, <2>1, <2>2, Constants DEF TreeInv, ForkChild
  <2>4. ParentAlive'
    BY <1>1, <1>4, <2>1, <2>2 DEF TreeTypes, TreeInv, ParentAlive
  <2>5. NoLostExit'
    BY <1>1, <2>1 DEF TreeInv, NoLostExit
  <2> QED
    BY <2>3, <2>4, <2>5 DEF TreeInv
<1> QED
  BY <1>3, <1>4 DEF ForkAlloc, Goto

(* allocproc and fork fill in their slot, or give it back: it has no       *)
(* parent before the last of these steps, and is never anybody's parent.   *)
LEMMA TreeFill ==
  ASSUME TreeTypes, SlotInv, TreeInv, NEW c \in CPUs, ForkStack(c) \/ ForkCopy(c)
  PROVE  TreeInv'
<1> DEFINE p == proc[c]
           q == np[p]
<1>1. /\ p \in Slots /\ pc[p] \in {"fork1", "fork2"} /\ UNCHANGED <<chan, killed>>
  BY DEF ForkStack, ForkCopy, At
<1>2. /\ state[p] = "RUNNING" /\ q \in Slots /\ state[q] = "EMBRYO" /\ q # initproc /\ q # p
      /\ \A r \in Slots : np[r] = q => r = p
  BY <1>1, OwnedSlot DEF ForkPoints
<1>3. parent[q] = 0 /\ \A r \in Slots : parent[r] # q
  BY <1>1, <1>2, Constants DEF TreeInv, ForkChild, ParentAlive
<1>4. \A r \in Slots : np[r] # 0 => np[r] \in Slots /\ r # q
  BY <1>2 DEF TreeTypes, SlotTypes, SlotInv, EmbryoOwned
<1>5. CASE ForkAbandon(p) /\ UNCHANGED <<parent, ctx>>
  <2>1. /\ \A r \in Slots : state'[r] = IF r = q THEN "UNUSED" ELSE state[r]
        /\ \A r \in Slots : np'[r] = IF r = p THEN 0 ELSE np[r]
        /\ \A r \in Slots : r # p => pc'[r] = pc[r]
    BY <1>1, <1>2, <1>5 DEF TreeTypes, SlotTypes, ForkAbandon, Goto
  <2>2. ForkChild'
    BY <1>1, <1>2, <1>3, <1>5, <2>1, Constants DEF TreeInv, ForkChild
  <2>3. ParentAlive'
    <3> SUFFICES ASSUME NEW r \in Slots
                 PROVE  /\ r # initproc /\ state'[r] \notin {"UNUSED", "EMBRYO"} => parent[r] # 0
                        /\ parent[r] # 0 => state'[r] # "UNUSED" /\ state'[parent[r]] \in Living
      BY <1>5 DEF ParentAlive, Living
    <3>1. parent[r] # 0 => /\ parent[r] \in Slots /\ parent[r] # q /\ r # q
                           /\ state[r] # "UNUSED" /\ state[parent[r]] \in Living
      BY <1>3 DEF TreeTypes, TreeInv, ParentAlive, Living
    <3>2. r # initproc /\ state[r] \notin {"UNUSED", "EMBRYO"} => parent[r] # 0
      BY DEF TreeInv, ParentAlive
    <3> QED
      BY ONLY <2>1, <3>1, <3>2
  <2>4. NoLostExit'
    BY <1>1, <1>5, <2>1 DEF TreeInv, NoLostExit
  <2> QED
    BY <2>2, <2>3, <2>4 DEF TreeInv
<1>6. CASE /\ ctx' = [ctx EXCEPT ![q] = "forkret"] /\ pc' = [pc EXCEPT ![p] = "fork2"]
           /\ pc[p] = "fork1" /\ UNCHANGED <<state, np, parent>>
  <2>1. /\ \A r \in Slots : ctx'[r] = IF r = q THEN "forkret" ELSE ctx[r]
        /\ \A r \in Slots : pc'[r] = IF r = p THEN "fork2" ELSE pc[r]
    BY <1>1, <1>6 DEF TreeTypes, SlotTypes
  <2>2. ForkChild'
    BY <1>1, <1>2, <1>3, <1>4, <1>6, <2>1 DEF TreeInv, ForkChild
  <2>3. ParentAlive' /\ NoLostExit'
    BY <1>1, <1>6 DEF TreeInv, ParentAlive, NoLostExit
  <2> QED
    BY <2>2, <2>3 DEF TreeInv
<1>7. CASE /\ parent' = [parent EXCEPT ![q] = p] /\ pc[p] = "fork2"
           /\ pc' = [pc EXCEPT ![p] = "fork3", ![q] = "user"]
           /\ UNCHANGED <<state, np, ctx>>
  <2>1. /\ \A r \in Slots : parent'[r] = IF r = q THEN p ELSE parent[r]
        /\ \A r \in Slots : r # q => pc'[r] = IF r = p THEN "fork3" ELSE pc[r]
    BY <1>1, <1>2, <1>7 DEF TreeTypes, SlotTypes
  <2>2. ForkChild'
    <3>1. ASSUME NEW r \in Slots, np[r] # 0
          PROVE  /\ parent'[np[r]] = IF pc'[r] = "fork3" THEN r ELSE 0
                 /\ pc'[r] # "fork1" => ctx[np[r]] = "forkret"
      <4>1. r # q /\ np[r] \in Slots
        BY <1>4, <3>1
      <4>2. /\ parent[np[r]] = IF pc[r] = "fork3" THEN r ELSE 0
            /\ pc[r] # "fork1" => ctx[np[r]] = "forkret"
        BY <3>1 DEF TreeInv, ForkChild
      <4>3. CASE r = p
        BY <1>1, <1>2, <1>7, <2>1, <4>2, <4>3
      <4>4. CASE r # p
        BY <1>2, <2>1, <4>1, <4>2, <4>4
      <4> QED
        BY <4>3, <4>4
    <3>2. parent'[initproc] = 0 /\ state[initproc] \in {"SLEEPING", "RUNNABLE", "RUNNING"}
      BY <1>2, <2>1, Constants DEF TreeInv, ForkChild
    <3>3. ASSUME NEW r \in Slots PROVE parent'[r] # r /\ (state[r] = "UNUSED" => parent'[r] = 0)
      BY <1>2, <2>1 DEF TreeInv, ForkChild
    <3> QED
      BY <1>7, <3>1, <3>2, <3>3 DEF ForkChild
  <2>3. ParentAlive'
    BY <1>1, <1>2, <1>7, <2>1 DEF TreeInv, ParentAlive
  <2>4. NoLostExit'
    <3> SUFFICES ASSUME NEW x \in Slots, state[x] = "SLEEPING", chan[x] = x
                 PROVE  /\ \E r \in Slots : parent'[r] = x
                        /\ \A r \in Slots : parent'[r] = x => state[r] # "ZOMBIE"
                        /\ ~killed[x]
      BY <1>1, <1>7 DEF NoLostExit
    <3>1. x # p /\ x # 0
      BY <1>2, Constants
    <3> QED
      BY <1>3, <2>1, <3>1 DEF TreeInv, NoLostExit
  <2> QED
    BY <2>2, <2>3, <2>4 DEF TreeInv
<1>8. CASE ForkStack(c)
  <2>1. \/ ForkAbandon(p) /\ UNCHANGED <<parent, ctx>>
        \/ /\ ctx' = [ctx EXCEPT ![q] = "forkret"] /\ pc' = [pc EXCEPT ![p] = "fork2"]
           /\ pc[p] = "fork1" /\ UNCHANGED <<state, np, parent>>
    BY ONLY <1>8 DEF ForkStack, At, Goto
  <2> QED
    BY <1>5, <1>6, <2>1, Zenon
<1>9. CASE ForkCopy(c)
  <2>1. \/ ForkAbandon(p) /\ UNCHANGED <<parent, ctx>>
        \/ /\ parent' = [parent EXCEPT ![q] = p] /\ pc[p] = "fork2"
           /\ pc' = [pc EXCEPT ![p] = "fork3", ![q] = "user"]
           /\ UNCHANGED <<state, np, ctx>>
    BY ONLY <1>9 DEF ForkCopy, At
  <2> QED
    BY <1>5, <1>7, <2>1, Zenon
<1> QED
  BY <1>8, <1>9

(* fork makes its child RUNNABLE: the child has the running parent.        *)
LEMMA TreeStart ==
  ASSUME TreeTypes, SlotInv, TreeInv, NEW c \in CPUs, ForkDone(c)
  PROVE  TreeInv'
<1> DEFINE p == proc[c]
           q == np[p]
<1>1. /\ p \in Slots /\ pc[p] = "fork3" /\ UNCHANGED <<parent, chan, killed, ctx>>
      /\ state' = [state EXCEPT ![q] = "RUNNABLE"] /\ np' = [np EXCEPT ![p] = 0]
      /\ pc' = [pc EXCEPT ![p] = "ret"]
  BY DEF ForkDone, At, Goto
<1>2. /\ state[p] = "RUNNING" /\ q \in Slots /\ state[q] = "EMBRYO" /\ q # initproc /\ q # p
      /\ \A r \in Slots : np[r] = q => r = p
  BY <1>1, OwnedSlot DEF ForkPoints
<1>3. parent[q] = p
  BY <1>1, <1>2, Constants DEF TreeInv, ForkChild
<1>4. /\ \A r \in Slots : state'[r] = IF r = q THEN "RUNNABLE" ELSE state[r]
      /\ \A r \in Slots : np'[r] = IF r = p THEN 0 ELSE np[r]
      /\ \A r \in Slots : r # p => pc'[r] = pc[r]
  BY <1>1, <1>2 DEF TreeTypes, SlotTypes
<1>5. ForkChild'
  BY <1>1, <1>2, <1>4, Constants DEF TreeInv, ForkChild
<1>6. ParentAlive'
  BY <1>1, <1>2, <1>3, <1>4, Constants DEF TreeTypes, TreeInv, ParentAlive
<1>7. NoLostExit'
  BY <1>1, <1>4 DEF TreeInv, NoLostExit
<1> QED
  BY <1>5, <1>6, <1>7 DEF TreeInv

(* Every step keeps the family tree.                                       *)
LEMMA TreeStep == TypeOK /\ SlotInv /\ TreeInv /\ [Next]_vars => TreeInv'
<1> SUFFICES ASSUME TreeTypes, SlotInv, TreeInv, [Next]_vars PROVE TreeInv'
  BY DEF TypeOK, TreeTypes, SlotTypes
<1>1. CASE UNCHANGED vars
  BY <1>1, TreeFrame DEF vars, tableVars, Undisturbed, Waiting
<1>2. ASSUME NEW c \in CPUs, SchedStep(c) \/ IrqStep(c) \/ SysStep(c) \/ Timer(c)
                             \/ SysEnter(c) \/ Fault(c)
      PROVE  TreeInv'
  BY <1>2, TreeQuiet, TreeWait, TreeExit, TreeAlloc, TreeFill, TreeStart
     DEF SchedStep, IrqStep, SysStep
<1> QED
  BY <1>1, <1>2 DEF Next, Panicked

(* The family tree is right always.                                        *)
THEOREM TreeSafety == Spec => []TreeInv
<1>1. Init => TreeInv
  <2> SUFFICES ASSUME Init PROVE TreeInv
    OBVIOUS
  <2>1. ForkChild
    BY Constants DEF Init, ForkChild
  <2>2. ParentAlive
    BY DEF Init, ParentAlive
  <2>3. NoLostExit
    BY Constants DEF Init, NoLostExit
  <2> QED
    BY <2>1, <2>2, <2>3 DEF TreeInv
<1> QED
  BY <1>1, Typing, SlotSafety, TreeStep, PTL DEF Spec

(* exit, fork: every process but init has a parent that can still wait.    *)
THEOREM Parents == Spec => []ParentAlive
  BY TreeSafety, PTL DEF TreeInv

(* wait, exit, kill: nobody sleeps in wait over a zombie, without a child, *)
(* or killed, however many CPUs and processes there are.                   *)
THEOREM ExitsSeen == Spec => []NoLostExit
  BY TreeSafety, PTL DEF TreeInv
-----------------------------------------------------------------------------
(* The steps that leave every zombie a zombie.                             *)
LEMMA ZombieKept ==
  ASSUME TreeTypes, SlotInv, TreeInv, NEW c \in CPUs, NEW q \in Slots, state[q] = "ZOMBIE",
         \/ SchedStep(c) \/ IrqStep(c) \/ Timer(c) \/ SysEnter(c) \/ Fault(c)
         \/ SysReturn(c) \/ SysExit(c) \/ ForkAlloc(c) \/ ForkStack(c) \/ ForkCopy(c)
         \/ ForkDone(c) \/ Exit(c) \/ ExitInit(c) \/ WaitEnter(c)
         \/ (\E k \in KillArgs : Kill(c, k)) \/ (\E n \in SleepArgs : SleepEnter(c, n))
         \/ SleepCheck(c) \/ SleepGo(c) \/ SleepWake(c)
  PROVE  state'[q] = "ZOMBIE"
<1> USE DEF tableVars, At
<1>1. CASE SchedStep(c)
  <2>1. UNCHANGED state \/ \E r \in Slots : /\ state[r] = "RUNNABLE"
                                            /\ state' = [state EXCEPT ![r] = "RUNNING"]
    BY ONLY <1>1 DEF SchedStep, SchedAcquire, SchedPick, Dispatch, SchedRelease, Resume, tableVars
  <2> QED
    BY <2>1 DEF TreeTypes, SlotTypes
<1>2. CASE IrqStep(c)
  <2>1. \/ state' = wakeup1(state, TICKS) \/ UNCHANGED state
        \/ proc[c] \in Slots /\ state' = [state EXCEPT ![proc[c]] = "RUNNABLE"]
    BY ONLY <1>2, Zenon DEF IrqStep, TimerWakeup, TrapTail
  <2> QED
    BY <2>1, OwnedSlot DEF wakeup1, TreeTypes, SlotTypes
<1>3. CASE Timer(c) \/ SysEnter(c) \/ Fault(c)
  BY <1>3 DEF Timer, SysEnter, Fault
<1>4. CASE SysReturn(c) \/ SysExit(c) \/ ExitInit(c) \/ WaitEnter(c) \/ SleepCheck(c) \/ SleepWake(c)
  BY <1>4 DEF SysReturn, SysExit, ExitInit, WaitEnter, SleepCheck, SleepWake
<1>5. CASE \E n \in SleepArgs : SleepEnter(c, n)
  BY <1>5 DEF SleepEnter
<1>6. CASE ForkAlloc(c)
  BY <1>6 DEF ForkAlloc, TreeTypes, SlotTypes
<1>7. CASE ForkStack(c) \/ ForkCopy(c) \/ ForkDone(c)
  <2>1. proc[c] \in Slots /\ pc[proc[c]] \in ForkPoints
    BY <1>7 DEF ForkStack, ForkCopy, ForkDone, ForkPoints
  <2>2. np[proc[c]] # q
    BY <2>1, OwnedSlot
  <2>3. state' = state \/ \E s \in States : state' = [state EXCEPT ![np[proc[c]]] = s]
    BY ONLY <1>7 DEF ForkStack, ForkCopy, ForkDone, ForkAbandon, States
  <2> QED
    BY <2>2, <2>3 DEF TreeTypes, SlotTypes
<1>8. CASE Exit(c)
  BY <1>8, OwnedSlot DEF Exit, ExitWakeups, wakeup1, TreeTypes, SlotTypes
<1>9. CASE \E k \in KillArgs : Kill(c, k)
  <2>1. UNCHANGED state \/ \E r \in Slots : state' = [state EXCEPT ![r] = KillState(@)]
    BY ONLY <1>9, Zenon DEF Kill
  <2> QED
    BY <2>1 DEF KillState, TreeTypes, SlotTypes
<1>10. CASE SleepGo(c)
  BY <1>10, OwnedSlot DEF SleepGo, TreeTypes, SlotTypes
<1> QED
  BY <1>1, <1>2, <1>3, <1>4, <1>5, <1>6, <1>7, <1>8, <1>9, <1>10

(* wait: a zombie leaves the table only through its parent's wait, for any *)
(* number of processes and CPUs.                                           *)
THEOREM ReapedByParent == Spec => OnlyParentReaps
<1> DEFINE Reaped(q) == state[q] = "ZOMBIE" /\ state'[q] # "ZOMBIE" =>
                          /\ state'[q] = "UNUSED"
                          /\ \E c \in CPUs : proc[c] = parent[q] /\ pc[parent[q]] = "waitscan"
<1>1. ASSUME TreeTypes, SlotInv, TreeInv, Next, NEW q \in Slots PROVE Reaped(q)
  <2>1. ASSUME NEW c \in CPUs, WaitScan(c) PROVE Reaped(q)
    <3>1. proc[c] \in Slots /\ state[proc[c]] = "RUNNING" /\ pc[proc[c]] = "waitscan"
      BY <1>1, <2>1, OwnedSlot DEF WaitScan, At
    <3>2. \/ state' = state \/ state' = [state EXCEPT ![proc[c]] = "SLEEPING"]
          \/ \E r \in Slots : parent[r] = proc[c] /\ state' = [state EXCEPT ![r] = "UNUSED"]
      BY ONLY <2>1, Zenon DEF WaitScan
    <3> QED
      BY <1>1, <3>1, <3>2 DEF TreeTypes, SlotTypes
  <2>2. CASE Panicked
    BY <2>2 DEF Panicked, vars, tableVars
  <2> QED
    BY <1>1, <2>1, <2>2, ZombieKept, Zenon DEF Next, SysStep
<1>2. TypeOK /\ SlotInv /\ TreeInv /\ [Next]_vars =>
        [\A q \in Slots : state[q] = "ZOMBIE" /\ state'[q] # "ZOMBIE" =>
           /\ state'[q] = "UNUSED"
           /\ \E c \in CPUs : proc[c] = parent[q] /\ pc[parent[q]] = "waitscan"]_vars
  BY <1>1 DEF TypeOK, TreeTypes, SlotTypes
<1> QED
  BY <1>2, Typing, SlotSafety, TreeSafety, PTL DEF Spec, OnlyParentReaps
=============================================================================
