--------------------------- MODULE ProcLockProofs ---------------------------
(* Proofs about the locks, the saved contexts and sys_sleep of Proc, on    *)
(* top of the slots and the family tree.                                   *)
EXTENDS ProcProofs

USE ZenonT(10), SMTT(20)

(* What the lock invariant needs of the type invariant.                    *)
LockTypes ==
  /\ TreeTypes
  /\ irq \in [CPUs -> {"none", "tick", "tail"}]
  /\ plock \in CPUs \cup {Free} /\ tlock \in CPUs \cup {Free}

(* A CPU other than the one that takes the step sees nothing of it.        *)
Aside(d) ==
  /\ proc'[d] = proc[d] /\ irq'[d] = irq[d]
  /\ plock' = d <=> plock = d
  /\ tlock' = d <=> tlock = d

(* A slot whose thread does not move and that is at most woken.            *)
Kept(p) ==
  /\ Woken(state', p)
  /\ ctx'[p] = ctx[p] /\ pc'[p] = pc[p] /\ chan'[p] = chan[p]

(* A step of CPU c changes its own locks and process, and besides only     *)
(* slots that nobody runs.                                                 *)
LEMMA LockFrame ==
  ASSUME LockTypes, SlotInv, LockInv, NEW c \in CPUs,
         \A d \in CPUs : d # c => Aside(d),
         \A p \in Slots : p # proc[c] => Kept(p) \/ (ContextOf(p)' /\ state[p] # "RUNNING"),
         LocksOf(c)', \A p \in Slots : p = proc[c] => ContextOf(p)'
  PROVE  LockInv'
<1>1. ASSUME NEW p \in Slots PROVE ContextOf(p)'
  <2>1. CASE p # proc[c] /\ Kept(p)
    <3>1. ContextOf(p)
      BY <1>1 DEF LockInv
    <3> QED
      BY <2>1, <3>1 DEF ContextOf, Kept, Woken
  <2> QED
    BY <1>1, <2>1
<1>2. ASSUME NEW d \in CPUs, d # c PROVE LocksOf(d)'
  <2>1. LocksOf(d) /\ Aside(d)
    BY <1>2 DEF LockInv
  <2>2. proc[d] # 0 => ctx'[proc[d]] = ctx[proc[d]] /\ pc'[proc[d]] = pc[proc[d]]
    <3>1. proc[d] # 0 => proc[d] \in Slots /\ proc[d] # proc[c] /\ state[proc[d]] = "RUNNING"
      BY <1>2, ProcRunning DEF LockTypes, TreeTypes, SlotTypes, SlotInv, RunningOnOneCpu
    <3> QED
      BY <3>1 DEF Kept
  <2> QED
    BY <2>1, <2>2 DEF LocksOf, Aside
<1> QED
  BY <1>1, <1>2 DEF LockInv

(* What the locks of a CPU say about the process that executes on it.      *)
LEMMA Executing ==
  ASSUME LockTypes, SlotInv, LockInv, NEW c \in CPUs, NEW l, At(c, proc[c], l)
  PROVE  /\ proc[c] \in Slots /\ proc[c] # 0 /\ state[proc[c]] = "RUNNING"
         /\ ctx[proc[c]] = "cpu" /\ irq[c] = "none" /\ pc[proc[c]] = l
         /\ plock = c <=> l = "waitscan"
         /\ tlock = c <=> l \in {"sleepchk", "sleepgo"}
  BY Constants, ProcRunning DEF LockTypes, TreeTypes, At, LockInv, LocksOf

(* A process that executes moves on to another point, with the locks that  *)
(* go with it.                                                             *)
LEMMA LockMove ==
  ASSUME LockTypes, SlotInv, LockInv, NEW c \in CPUs, NEW l, NEW m \in Points,
         At(c, proc[c], l), UNCHANGED <<proc, irq>>,
         pc'[proc[c]] = m, ctx'[proc[c]] = "cpu", state'[proc[c]] = "RUNNING",
         \A p \in Slots : p # proc[c] => Kept(p) \/ (ContextOf(p)' /\ state[p] # "RUNNING"),
         plock' = plock \/ {plock, plock'} \subseteq {c, Free},
         tlock' = tlock \/ {tlock, tlock'} \subseteq {c, Free},
         plock' = c <=> m = "waitscan", tlock' = c <=> m \in {"sleepchk", "sleepgo"}
  PROVE  LockInv'
<1>1. proc[c] \in Slots /\ irq[c] = "none"
  BY Executing
<1>2. \A d \in CPUs : d # c => Aside(d)
  BY Constants DEF Aside
<1>3. LocksOf(c)'
  BY <1>1, Constants DEF LocksOf
<1>4. ASSUME NEW p \in Slots, p = proc[c] PROVE ContextOf(p)'
  BY <1>4 DEF ContextOf
<1> QED
  BY <1>2, <1>3, <1>4, LockFrame

(* A process that holds no lock but maybe tickslock leaves its CPU through *)
(* sched; the others are at most woken.                                    *)
LEMMA LockLeave ==
  ASSUME LockTypes, SlotInv, LockInv, NEW c \in CPUs, proc[c] \in Slots,
         NEW k, sched(c, proc[c], k), plock \in {c, Free}, irq'[c] = "none",
         \A d \in CPUs : d # c => irq'[d] = irq[d],
         tlock' # c, tlock' = tlock \/ (tlock = c /\ tlock' = Free),
         \A p \in Slots : p # proc[c] => Kept(p),
         \A p \in Slots : p = proc[c] => ContextOf(p)'
  PROVE  LockInv'
<1>1. plock' = c /\ proc' = [proc EXCEPT ![c] = 0]
  BY DEF sched
<1>2. \A d \in CPUs : d # c => Aside(d)
  BY <1>1, Constants DEF Aside, LockTypes, TreeTypes, SlotTypes
<1>3. LocksOf(c)'
  BY <1>1 DEF LocksOf, LockTypes, TreeTypes, SlotTypes
<1> QED
  BY <1>2, <1>3, LockFrame

(* The scheduler: it holds ptable.lock or nothing, and hands the lock to   *)
(* the process it picks.                                                   *)
LEMMA LockSched ==
  ASSUME LockTypes, SlotInv, LockInv, NEW c \in CPUs,
         SchedAcquire(c) \/ SchedPick(c) \/ SchedRelease(c)
  PROVE  LockInv'
<1>1. LocksOf(c) /\ proc[c] = 0 /\ proc[c] \notin Slots
  BY Constants DEF LockInv, SchedAcquire, SchedPick, SchedRelease
<1> SUFFICES /\ \A d \in CPUs : d # c => Aside(d)
             /\ \A p \in Slots : Kept(p) \/ (ContextOf(p)' /\ state[p] # "RUNNING")
             /\ LocksOf(c)'
  BY <1>1, LockFrame
<1>2. CASE SchedAcquire(c) \/ SchedRelease(c)
  <2>1. UNCHANGED <<proc, irq, tlock, state, ctx, pc, chan>> /\ {plock, plock'} \subseteq {c, Free}
    BY <1>2 DEF SchedAcquire, SchedRelease, tableVars
  <2>2. irq[c] # "none" => plock' # c
    BY <1>1, <1>2, <2>1, Constants DEF SchedAcquire, SchedRelease
  <2> QED
    BY <1>1, <2>1, <2>2, Constants DEF Aside, Kept, Woken, LocksOf
<1>3. CASE SchedPick(c)
  <2>1. PICK q \in Slots : state[q] = "RUNNABLE" /\ Dispatch(c, q)
    BY <1>3 DEF SchedPick
  <2>2. UNCHANGED <<ctx, pc, chan, irq, tlock, plock>> /\ plock = c
    BY <1>3 DEF SchedPick
  <2>3. \A d \in CPUs : d # c => Aside(d)
    BY <2>1, <2>2 DEF Aside, Dispatch, LockTypes, TreeTypes, SlotTypes
  <2>4. \A p \in Slots : p # q => Kept(p)
    BY <2>1, <2>2 DEF Kept, Woken, Dispatch, LockTypes, TreeTypes, SlotTypes
  <2>5. ContextOf(q) /\ state'[q] = "RUNNING" /\ proc'[c] = q
    BY <2>1 DEF LockInv, Dispatch, LockTypes, TreeTypes, SlotTypes
  <2>6. \A p \in Slots : p = q => ContextOf(p)'
    BY <2>1, <2>2, <2>5 DEF ContextOf
  <2>7. ctx[q] # "cpu" /\ irq[c] = "none" /\ tlock # c
    BY <1>1, <2>1, <2>2, <2>5 DEF ContextOf, LocksOf, LockTypes
  <2>8. LocksOf(c)'
    BY <2>2, <2>5, <2>7 DEF LocksOf
  <2> QED
    BY <2>1, <2>3, <2>4, <2>6, <2>8
<1> QED
  BY <1>2, <1>3

(* A process that was switched to gives the lock of the scheduler back, or *)
(* keeps it for another round of wait.                                     *)
LEMMA LockResume ==
  ASSUME LockTypes, SlotInv, LockInv, NEW c \in CPUs, Resume(c)
  PROVE  LockInv'
<1>1. /\ proc[c] \in Slots /\ proc[c] # 0 /\ ctx[proc[c]] # "cpu" /\ plock = c
      /\ ctx' = [ctx EXCEPT ![proc[c]] = "cpu"]
      /\ UNCHANGED <<state, proc, irq, tlock>>
  BY Constants DEF Resume
<1>2. state[proc[c]] = "RUNNING" /\ LocksOf(c) /\ ContextOf(proc[c])
  BY <1>1, ProcRunning DEF LockInv, LockTypes, TreeTypes
<1>3. irq[c] = "none" /\ tlock # c
  BY <1>1, <1>2 DEF LocksOf
<1>4. chan' = chan \/ chan' = [chan EXCEPT ![proc[c]] = 0]
  BY ONLY Resume(c), Zenon DEF Resume
<1>5. pc' = pc \/ \E l : pc' = [pc EXCEPT ![proc[c]] = l]
  BY ONLY Resume(c), Zenon DEF Resume, Goto
<1>6. \A p \in Slots : p # proc[c] => Kept(p)
  BY <1>1, <1>4, <1>5 DEF Kept, Woken, LockTypes, TreeTypes, SlotTypes
<1>7. /\ plock' \in {c, Free}
      /\ plock' = c <=> pc'[proc[c]] = "waitscan"
      /\ pc'[proc[c]] \notin {"sleepchk", "sleepgo"}
  <2>1. CASE ctx[proc[c]] = "forkret"
    <3>1. plock' = Free /\ pc' = pc
      BY <2>1, Constants DEF Resume
    <3> QED
      BY <1>2, <2>1, <3>1, Constants DEF ContextOf
  <2>2. CASE ctx[proc[c]] = "yield"
    <3>1. plock' = Free /\ pc'[proc[c]] \in {"exit", pc[proc[c]]}
      BY <1>1, <2>2 DEF Resume, Goto, LockTypes, TreeTypes, SlotTypes
    <3> QED
      BY <1>2, <2>2, <3>1, Constants DEF ContextOf
  <2>3. CASE ctx[proc[c]] = "sleep"
    <3>1. /\ plock' = IF pc[proc[c]] = "waitscan" THEN c ELSE Free
          /\ pc'[proc[c]] = IF pc[proc[c]] = "sleepgo" THEN "sleepwake" ELSE pc[proc[c]]
      BY <1>1, <2>3 DEF Resume, Goto, LockTypes, TreeTypes, SlotTypes
    <3> QED
      BY <1>2, <2>3, <3>1, Constants DEF ContextOf
  <2> QED
    BY <2>1, <2>2, <2>3 DEF Resume
<1>8. ctx'[proc[c]] = "cpu"
  BY <1>1 DEF LockTypes, TreeTypes
<1>9. \A d \in CPUs : d # c => Aside(d)
  BY <1>1, <1>7, Constants DEF Aside
<1>10. LocksOf(c)'
  BY <1>1, <1>3, <1>7, <1>8 DEF LocksOf
<1>11. ASSUME NEW p \in Slots, p = proc[c] PROVE ContextOf(p)'
  BY <1>1, <1>2, <1>8, <1>11 DEF ContextOf
<1> QED
  BY <1>6, <1>9, <1>10, <1>11, LockFrame

(* The timer interrupt and its handler, up to the yield.                   *)
LEMMA LockIrq ==
  ASSUME LockTypes, SlotInv, LockInv, NEW c \in CPUs,
         Timer(c) \/ TimerWakeup(c) \/ TrapTail(c)
  PROVE  LockInv'
<1>1. LocksOf(c)
  BY DEF LockInv
<1>2. CASE Timer(c)
  <2>1. /\ UNCHANGED <<state, chan, pc, ctx, proc, plock>>
        /\ irq[c] = "none" /\ plock # c /\ tlock # c
        /\ \/ c = 0 /\ tlock = Free /\ tlock' = c /\ irq' = [irq EXCEPT ![c] = "tick"]
           \/ proc[c] # 0 /\ tlock' = tlock /\ irq' = [irq EXCEPT ![c] = "tail"]
    BY <1>2 DEF Timer, tableVars
  <2>2. proc[c] # 0 => /\ ctx[proc[c]] = "cpu"
                       /\ pc[proc[c]] \notin {"waitscan", "sleepchk", "sleepgo"}
    BY <1>1, <2>1 DEF LocksOf
  <2>3. \A p \in Slots : Kept(p) /\ ContextOf(p)'
    BY <2>1 DEF Kept, Woken, ContextOf, LockInv
  <2>4. \A d \in CPUs : d # c => Aside(d)
    BY <2>1, Constants DEF Aside, LockTypes
  <2>5. LocksOf(c)'
    BY <2>1, <2>2 DEF LocksOf, LockTypes
  <2> QED
    BY <2>3, <2>4, <2>5, LockFrame
<1>3. CASE TimerWakeup(c)
  <2>1. /\ irq[c] = "tick" /\ plock = Free
        /\ UNCHANGED <<chan, pc, ctx, proc, plock>>
        /\ state' = wakeup1(state, TICKS) /\ tlock' = Free
        /\ irq' = [irq EXCEPT ![c] = IF proc[c] = 0 THEN "none" ELSE "tail"]
    BY <1>3 DEF TimerWakeup
  <2>2. tlock = c /\ (proc[c] # 0 => /\ ctx[proc[c]] = "cpu"
                                     /\ pc[proc[c]] \notin {"waitscan", "sleepchk", "sleepgo"})
    BY <1>1, <2>1, Constants DEF LocksOf
  <2>3. \A p \in Slots : Kept(p)
    BY <2>1 DEF Kept, Woken, wakeup1
  <2>4. ASSUME NEW p \in Slots PROVE ContextOf(p)'
    BY <2>1, <2>3, <2>4 DEF Kept, Woken, ContextOf, LockInv
  <2>5. \A d \in CPUs : d # c => Aside(d)
    BY <2>1, <2>2, Constants DEF Aside, LockTypes
  <2>6. LocksOf(c)'
    BY <2>1, <2>2, Constants DEF LocksOf, LockTypes
  <2> QED
    BY <2>3, <2>4, <2>5, <2>6, LockFrame
<1>4. CASE TrapTail(c)
  <2>1. /\ irq[c] = "tail" /\ proc[c] \in Slots /\ irq' = [irq EXCEPT ![c] = "none"]
        /\ UNCHANGED <<chan, tlock>>
    BY <1>4 DEF TrapTail
  <2>2. /\ proc[c] # 0 /\ plock # c /\ tlock # c /\ ctx[proc[c]] = "cpu"
        /\ pc[proc[c]] \notin {"waitscan", "sleepchk", "sleepgo"}
        /\ state[proc[c]] = "RUNNING"
    BY <1>1, <2>1, ProcRunning DEF LocksOf, LockTypes, TreeTypes
  <2>3. irq'[c] = "none" /\ \A d \in CPUs : d # c => irq'[d] = irq[d]
    BY <2>1 DEF LockTypes
  <2>4. CASE pc' = [pc EXCEPT ![proc[c]] = "exit"] /\ UNCHANGED <<state, ctx, proc, plock>>
    <3>1. \A p \in Slots : p # proc[c] => Kept(p)
      BY <2>1, <2>4 DEF Kept, Woken, LockTypes, TreeTypes, SlotTypes
    <3>2. pc'[proc[c]] = "exit"
      BY <2>1, <2>4 DEF LockTypes, TreeTypes, SlotTypes
    <3>3. \A d \in CPUs : d # c => Aside(d)
      BY <2>1, <2>3, <2>4 DEF Aside
    <3>4. LocksOf(c)'
      BY <2>1, <2>2, <2>3, <2>4, <3>2 DEF LocksOf
    <3>5. ASSUME NEW p \in Slots, p = proc[c] PROVE ContextOf(p)'
      BY <2>2, <2>4, <3>5 DEF ContextOf
    <3> QED
      BY <3>1, <3>3, <3>4, <3>5, LockFrame
  <2>5. CASE /\ plock = Free /\ state' = [state EXCEPT ![proc[c]] = "RUNNABLE"]
             /\ sched(c, proc[c], "yield") /\ UNCHANGED pc
    <3>1. ctx' = [ctx EXCEPT ![proc[c]] = "yield"]
      BY <2>5 DEF sched
    <3>2. \A p \in Slots : p # proc[c] => Kept(p)
      BY <2>1, <2>5, <3>1 DEF Kept, Woken, LockTypes, TreeTypes, SlotTypes
    <3>3. ASSUME NEW p \in Slots, p = proc[c] PROVE ContextOf(p)'
      BY <2>2, <2>5, <3>1, <3>3 DEF ContextOf, LockTypes, TreeTypes, SlotTypes
    <3> QED
      BY <2>1, <2>2, <2>3, <2>5, <3>2, <3>3, LockLeave
  <2> QED
    BY <1>4, <2>4, <2>5 DEF TrapTail, Goto
<1> QED
  BY <1>2, <1>3, <1>4

(* The steps of system calls that move one thread and touch no other slot, *)
(* or at most wake one.                                                    *)
LEMMA LockQuiet ==
  ASSUME LockTypes, SlotInv, LockInv, NEW c \in CPUs,
         \/ Fault(c) \/ SysEnter(c) \/ SysReturn(c) \/ SysExit(c) \/ ExitInit(c)
         \/ WaitEnter(c) \/ SleepCheck(c) \/ SleepWake(c)
         \/ (\E k \in KillArgs : Kill(c, k))
         \/ (\E n \in SleepArgs : SleepEnter(c, n))
  PROVE  LockInv'
<1>1. /\ UNCHANGED <<proc, irq, ctx, chan>>
      /\ \E l \in Points : At(c, proc[c], l)
      /\ \A p \in Slots : Woken(state', p)
  <2> USE DEF At, Woken, tableVars, Points
  <2>1. CASE Fault(c) \/ SysEnter(c) \/ SysReturn(c) \/ SysExit(c)
    BY ONLY <2>1 DEF Fault, SysEnter, SysReturn, SysExit
  <2>2. CASE ExitInit(c) \/ WaitEnter(c)
    BY ONLY <2>2 DEF ExitInit, WaitEnter
  <2>3. CASE SleepCheck(c) \/ SleepWake(c) \/ \E n \in SleepArgs : SleepEnter(c, n)
    BY ONLY <2>3 DEF SleepCheck, SleepWake, SleepEnter
  <2>4. CASE \E k \in KillArgs : Kill(c, k)
    <3>1. /\ UNCHANGED <<proc, irq, ctx, chan>> /\ At(c, proc[c], "sys")
          /\ UNCHANGED state \/ \E q \in Slots : state' = [state EXCEPT ![q] = KillState(@)]
      BY ONLY <2>4, Zenon DEF Kill
    <3>2. \A p \in Slots : Woken(state', p)
      BY <3>1 DEF KillState, LockTypes, TreeTypes, SlotTypes
    <3> QED
      BY <3>1, <3>2
  <2> QED
    BY <2>1, <2>2, <2>3, <2>4
<1>2. PICK l \in Points : At(c, proc[c], l)
  BY <1>1
<1>3. /\ proc[c] \in Slots /\ state[proc[c]] = "RUNNING" /\ ctx[proc[c]] = "cpu"
      /\ pc[proc[c]] = l /\ irq[c] = "none"
      /\ plock = c <=> l = "waitscan"
      /\ tlock = c <=> l \in {"sleepchk", "sleepgo"}
  BY <1>2, Executing
<1>4. PICK m \in Points :
        /\ pc' = [pc EXCEPT ![proc[c]] = m]
        /\ plock' = plock \/ {plock, plock'} \subseteq {c, Free}
        /\ tlock' = tlock \/ {tlock, tlock'} \subseteq {c, Free}
        /\ plock' = c <=> m = "waitscan"
        /\ tlock' = c <=> m \in {"sleepchk", "sleepgo"}
  <2> USE <1>2, <1>3, Constants DEF Points, Goto, At
  <2>1. CASE Fault(c) \/ SysEnter(c) \/ SysReturn(c) \/ SysExit(c) \/ ExitInit(c)
    <3>1. /\ UNCHANGED <<plock, tlock>>
          /\ \/ \E m \in {"exit", "sys", "user"} : pc' = [pc EXCEPT ![proc[c]] = m]
             \/ UNCHANGED pc
          /\ pc[proc[c]] \in {"user", "ret", "sys", "exit"}
      BY ONLY <2>1 DEF Fault, SysEnter, SysReturn, SysExit, ExitInit, At, Goto
    <3>2. UNCHANGED pc => pc' = [pc EXCEPT ![proc[c]] = l]
      BY ONLY LockTypes, <1>3 DEF LockTypes, TreeTypes, SlotTypes
    <3> QED
      BY <3>1, <3>2
  <2>2. CASE WaitEnter(c)
    BY <2>2 DEF WaitEnter
  <2>3. CASE SleepCheck(c) \/ SleepWake(c) \/ \E n \in SleepArgs : SleepEnter(c, n)
    BY <2>3 DEF SleepCheck, SleepWake, SleepEnter
  <2>4. CASE \E k \in KillArgs : Kill(c, k)
    BY <2>4 DEF Kill
  <2> QED
    BY <2>1, <2>2, <2>3, <2>4
<1>5. pc'[proc[c]] = m /\ ctx'[proc[c]] = "cpu" /\ state'[proc[c]] = "RUNNING"
  BY <1>1, <1>3, <1>4 DEF Woken, LockTypes, TreeTypes, SlotTypes
<1>6. \A p \in Slots : p # proc[c] => Kept(p)
  BY <1>1, <1>4 DEF Kept, LockTypes, TreeTypes, SlotTypes
<1> QED
  BY <1>1, <1>2, <1>4, <1>5, <1>6, LockMove

(* fork: the slot it fills in is nobody's until it is RUNNABLE, and then   *)
(* its thread starts in forkret.                                           *)
LEMMA LockFork ==
  ASSUME LockTypes, SlotInv, TreeInv, LockInv, NEW c \in CPUs,
         ForkAlloc(c) \/ ForkStack(c) \/ ForkCopy(c) \/ ForkDone(c)
  PROVE  LockInv'
<1>1. PICK l \in {"sys", "fork1", "fork2", "fork3"} :
        At(c, proc[c], l) /\ UNCHANGED <<proc, irq, plock, tlock, chan>>
  BY DEF ForkAlloc, ForkStack, ForkCopy, ForkDone
<1>2. /\ proc[c] \in Slots /\ proc[c] # 0 /\ state[proc[c]] = "RUNNING"
      /\ ctx[proc[c]] = "cpu" /\ pc[proc[c]] = l /\ plock # c /\ tlock # c
  BY <1>1, Executing
<1>3. l # "sys" => /\ np[proc[c]] \in Slots /\ np[proc[c]] # proc[c]
                   /\ state[np[proc[c]]] = "EMBRYO" /\ ctx[np[proc[c]]] # "cpu"
  <2>1. l # "sys" => /\ np[proc[c]] \in Slots /\ np[proc[c]] # proc[c]
                     /\ state[np[proc[c]]] = "EMBRYO"
    BY <1>2, OwnedSlot DEF ForkPoints, LockTypes
  <2> QED
    BY <2>1 DEF LockInv, ContextOf
<1>4. ASSUME NEW m \in {"ret", "fork1", "fork2", "fork3"}, NEW q \in Slots, q # proc[c],
             pc'[proc[c]] = m, ctx'[proc[c]] = "cpu", state'[proc[c]] = "RUNNING",
             state[q] # "RUNNING", \A p \in Slots \ {proc[c], q} : Kept(p),
             \/ Kept(q)
             \/ state'[q] \in {"UNUSED", "EMBRYO"} /\ ctx'[q] # "cpu"
             \/ state'[q] = "RUNNABLE" /\ ctx'[q] = "forkret" /\ pc'[q] = "user"
      PROVE  LockInv'
  <2>1. \A p \in Slots : p = q => Kept(p) \/ ContextOf(p)'
    BY <1>4 DEF ContextOf
  <2>2. m \in Points /\ m # "waitscan" /\ m \notin {"sleepchk", "sleepgo"}
    BY DEF Points
  <2> QED
    BY <1>1, <1>2, <1>4, <2>1, <2>2, LockMove
<1> USE DEF LockTypes, TreeTypes, SlotTypes, Goto, Points, Kept, Woken
<1>5. CASE ForkAlloc(c)
  <2>1. UNCHANGED ctx /\ l = "sys"
    BY <1>1, <1>5 DEF ForkAlloc, At
  <2>2. CASE Goto(proc[c], "ret") /\ UNCHANGED state
    <3>1. CASE \E q \in Slots : q # proc[c] /\ state[q] # "RUNNING"
      <4>1. PICK q \in Slots : q # proc[c] /\ state[q] # "RUNNING"
        BY <3>1
      <4> QED
        BY <1>1, <1>2, <1>4, <2>1, <2>2, <4>1
    <3>2. CASE \A q \in Slots : q = proc[c] \/ state[q] = "RUNNING"
      <4>1. pc'[proc[c]] = "ret" /\ \A p \in Slots : p # proc[c] => Kept(p)
        BY <1>1, <1>2, <2>1, <2>2
      <4> QED
        BY <1>1, <1>2, <2>1, <2>2, <4>1, LockMove
    <3> QED
      BY <3>1, <3>2
  <2>3. CASE \E q \in Slots : /\ state[q] = "UNUSED" /\ Goto(proc[c], "fork1")
                              /\ state' = [state EXCEPT ![q] = "EMBRYO"]
    <3>1. PICK q \in Slots : /\ state[q] = "UNUSED" /\ Goto(proc[c], "fork1")
                             /\ state' = [state EXCEPT ![q] = "EMBRYO"]
      BY <2>3
    <3>2. ctx[q] # "cpu" /\ q # proc[c]
      BY <1>2, <3>1 DEF LockInv, ContextOf
    <3> QED
      BY <1>1, <1>2, <1>4, <2>1, <3>1, <3>2
  <2> QED
    BY <1>5, <2>2, <2>3 DEF ForkAlloc
<1>6. CASE ForkStack(c)
  <2>1. l = "fork1"
    BY <1>1, <1>6 DEF ForkStack, At
  <2>2. CASE ForkAbandon(proc[c]) /\ UNCHANGED ctx
    BY <1>1, <1>2, <1>3, <1>4, <2>1, <2>2 DEF ForkAbandon
  <2>3. CASE /\ ctx' = [ctx EXCEPT ![np[proc[c]]] = "forkret"] /\ Goto(proc[c], "fork2")
             /\ UNCHANGED state
    BY <1>1, <1>2, <1>3, <1>4, <2>1, <2>3
  <2> QED
    BY <1>6, <2>2, <2>3 DEF ForkStack
<1>7. CASE ForkCopy(c)
  <2>1. l = "fork2" /\ UNCHANGED ctx
    BY <1>1, <1>7 DEF ForkCopy, At
  <2>2. CASE ForkAbandon(proc[c])
    BY <1>1, <1>2, <1>3, <1>4, <2>1, <2>2 DEF ForkAbandon
  <2>3. CASE /\ pc' = [pc EXCEPT ![proc[c]] = "fork3", ![np[proc[c]]] = "user"]
             /\ UNCHANGED state
    BY <1>1, <1>2, <1>3, <1>4, <2>1, <2>3
  <2> QED
    BY <1>7, <2>2, <2>3 DEF ForkCopy
<1>8. CASE ForkDone(c)
  <2>1. /\ l = "fork3" /\ UNCHANGED ctx /\ Goto(proc[c], "ret")
        /\ state' = [state EXCEPT ![np[proc[c]]] = "RUNNABLE"]
    BY <1>1, <1>8 DEF ForkDone, At
  <2>2. ctx[np[proc[c]]] = "forkret" /\ pc[np[proc[c]]] = "user"
    <3>1. np[proc[c]] # 0 /\ pc[proc[c]] = "fork3"
      BY ONLY <1>2, <1>3, <2>1, Constants
    <3>2. ForkChild /\ ForkOwner
      BY DEF TreeInv, SlotInv
    <3> QED
      BY ONLY <1>2, <3>1, <3>2 DEF ForkChild, ForkOwner
  <2> QED
    BY <1>1, <1>2, <1>3, <1>4, <2>1, <2>2
<1> QED
  BY <1>5, <1>6, <1>7, <1>8

(* exit, and wait's and sys_sleep's sleep: the thread leaves with its      *)
(* context saved; wait also frees the slot of a zombie.                    *)
LEMMA LockEnd ==
  ASSUME LockTypes, SlotInv, LockInv, NEW c \in CPUs,
         Exit(c) \/ WaitScan(c) \/ SleepGo(c)
  PROVE  LockInv'
<1> USE DEF LockTypes, TreeTypes, SlotTypes
<1>1. PICK l \in {"exit", "waitscan", "sleepgo"} : At(c, proc[c], l) /\ UNCHANGED irq
  BY DEF Exit, WaitScan, SleepGo
<1>2. /\ proc[c] \in Slots /\ proc[c] # 0 /\ state[proc[c]] = "RUNNING" /\ pc[proc[c]] = l
      /\ ctx[proc[c]] = "cpu" /\ irq[c] = "none"
      /\ plock = c <=> l = "waitscan"
      /\ tlock = c <=> l = "sleepgo"
  BY <1>1, Executing
<1>3. CASE Exit(c)
  <2>1. /\ l = "exit" /\ plock = Free /\ sched(c, proc[c], "dead")
        /\ UNCHANGED <<chan, pc, tlock>>
        /\ state' = [ExitWakeups(proc[c]) EXCEPT ![proc[c]] = "ZOMBIE"]
    BY <1>1, <1>3 DEF Exit, At
  <2>2. /\ ExitWakeups(proc[c]) = [q \in Slots |-> ExitWakeups(proc[c])[q]]
        /\ \A p \in Slots : Woken(ExitWakeups(proc[c]), p)
    BY DEF ExitWakeups, wakeup1, Woken
  <2>3. ctx' = [ctx EXCEPT ![proc[c]] = "dead"]
    BY <2>1 DEF sched
  <2>4. \A p \in Slots : p # proc[c] => Kept(p)
    BY <2>1, <2>2, <2>3 DEF Kept, Woken
  <2>5. state'[proc[c]] = "ZOMBIE" /\ ctx'[proc[c]] = "dead"
    BY <1>2, <2>1, <2>2, <2>3
  <2>6. ASSUME NEW p \in Slots, p = proc[c] PROVE ContextOf(p)'
    BY <2>5, <2>6 DEF ContextOf
  <2> QED
    BY <1>1, <1>2, <2>1, <2>4, <2>6, LockLeave
<1>4. CASE SleepGo(c)
  <2>1. /\ l = "sleepgo" /\ plock = Free /\ tlock' = Free /\ sched(c, proc[c], "sleep")
        /\ UNCHANGED pc /\ chan' = [chan EXCEPT ![proc[c]] = TICKS]
        /\ state' = [state EXCEPT ![proc[c]] = "SLEEPING"]
    BY <1>1, <1>4 DEF SleepGo, At
  <2>2. ctx' = [ctx EXCEPT ![proc[c]] = "sleep"]
    BY <2>1 DEF sched
  <2>3. \A p \in Slots : p # proc[c] => Kept(p)
    BY <2>1, <2>2 DEF Kept, Woken
  <2>4. ASSUME NEW p \in Slots, p = proc[c] PROVE ContextOf(p)'
    BY <1>2, <2>1, <2>2, <2>4 DEF ContextOf
  <2> QED
    BY <1>1, <1>2, <2>1, <2>3, <2>4, LockLeave, Constants
<1>5. CASE WaitScan(c)
  <2>1. l = "waitscan" /\ plock = c /\ UNCHANGED tlock
    BY <1>1, <1>5 DEF WaitScan, At
  <2>2. CASE /\ plock' = Free /\ Goto(proc[c], "ret") /\ UNCHANGED <<chan, ctx, proc>>
             /\ \/ UNCHANGED state
                \/ \E q \in Slots : /\ state[q] = "ZOMBIE"
                                    /\ state' = [state EXCEPT ![q] = "UNUSED"]
    <3>1. \A p \in Slots : \/ state'[p] = state[p]
                           \/ state[p] = "ZOMBIE" /\ state'[p] = "UNUSED"
      BY <2>2
    <3>2. pc'[proc[c]] = "ret" /\ \A p \in Slots : p # proc[c] => pc'[p] = pc[p]
      BY <1>2, <2>2 DEF Goto, Points
    <3>3. ASSUME NEW p \in Slots, p # proc[c]
          PROVE  Kept(p) \/ (ContextOf(p)' /\ state[p] # "RUNNING")
      BY <2>2, <3>1, <3>2, <3>3 DEF Kept, Woken, LockInv, ContextOf
    <3>4. "ret" \in Points /\ plock' # c /\ tlock # c
      BY <1>2, <2>1, <2>2, Constants DEF Points
    <3>5. state'[proc[c]] = "RUNNING" /\ ctx'[proc[c]] = "cpu"
      BY <1>2, <2>2, <3>1
    <3> QED
      BY <1>1, <2>1, <2>2, <3>2, <3>3, <3>4, <3>5, LockMove
  <2>3. CASE /\ chan' = [chan EXCEPT ![proc[c]] = proc[c]] /\ UNCHANGED pc
             /\ state' = [state EXCEPT ![proc[c]] = "SLEEPING"]
             /\ sched(c, proc[c], "sleep")
    <3>1. ctx' = [ctx EXCEPT ![proc[c]] = "sleep"]
      BY <2>3 DEF sched
    <3>2. \A p \in Slots : p # proc[c] => Kept(p)
      BY <2>3, <3>1 DEF Kept, Woken
    <3>3. ASSUME NEW p \in Slots, p = proc[c] PROVE ContextOf(p)'
      BY <1>2, <2>1, <2>3, <3>1, <3>3 DEF ContextOf
    <3> QED
      BY <1>1, <1>2, <2>1, <2>3, <3>2, <3>3, LockLeave
  <2> QED
    BY <1>5, <2>2, <2>3, Zenon DEF WaitScan
<1> QED
  BY <1>3, <1>4, <1>5

(* Every step keeps the lock invariant.                                    *)
LEMMA LockStep == TypeOK /\ SlotInv /\ TreeInv /\ LockInv /\ [Next]_vars => LockInv'
<1> SUFFICES ASSUME LockTypes, SlotInv, TreeInv, LockInv, [Next]_vars PROVE LockInv'
  BY DEF TypeOK, LockTypes, TreeTypes, SlotTypes
<1>1. CASE UNCHANGED vars
  <2>1. ASSUME NEW c \in CPUs PROVE LocksOf(c)'
    BY <1>1, <2>1 DEF vars, tableVars, LockInv, LocksOf
  <2>2. ASSUME NEW p \in Slots PROVE ContextOf(p)'
    BY <1>1, <2>2 DEF vars, tableVars, LockInv, ContextOf
  <2> QED
    BY <2>1, <2>2 DEF LockInv
<1>2. ASSUME NEW c \in CPUs, SchedStep(c) \/ IrqStep(c) \/ SysStep(c) \/ Timer(c)
                             \/ SysEnter(c) \/ Fault(c)
      PROVE  LockInv'
  BY <1>2, LockSched, LockResume, LockIrq, LockQuiet, LockFork, LockEnd
     DEF SchedStep, IrqStep, SysStep
<1> QED
  BY <1>1, <1>2 DEF Next, Panicked

(* acquire, release, sched, forkret, sleep: who holds ptable.lock and      *)
(* tickslock follows from where the threads are; no handler runs on a CPU  *)
(* that holds a lock, and whoever is switched to finds what it saved.      *)
THEOREM LockSafety == Spec => []LockInv
<1>1. Init => LockInv
  <2> SUFFICES ASSUME Init PROVE LockInv
    OBVIOUS
  <2>1. \A c \in CPUs : LocksOf(c)
    BY Constants DEF Init, LocksOf
  <2>2. \A p \in Slots : ContextOf(p)
    BY DEF Init, ContextOf
  <2> QED
    BY <2>1, <2>2 DEF LockInv
<1> QED
  BY <1>1, Typing, SlotSafety, TreeSafety, LockStep, PTL DEF Spec

(* p sleeps on ticks; p is about to.                                       *)
Sleeper(p) == state[p] = "SLEEPING" /\ chan[p] = TICKS
Going(p) == ctx[p] = "cpu" /\ pc[p] = "sleepgo"

(* A step neither brings p into sys_sleep's sleep nor changes what it      *)
(* waits for.                                                              *)
Still(p) == slp'[p] = slp[p] /\ (Sleeper(p)' => Sleeper(p)) /\ (Going(p)' => Going(p))

(* Who is about to sleep holds tickslock.                                  *)
LEMMA GoingLocked ==
  ASSUME LockTypes, SlotInv, LockInv, NEW p \in Slots, Going(p)
  PROVE  \E c \in CPUs : proc[c] = p /\ tlock = c
<1>1. PICK c \in CPUs : proc[c] = p
  BY DEF LockInv, ContextOf, Going, SlotInv, RunningOnOneCpu
<1>2. tlock = c
  BY <1>1, Constants DEF LockInv, LocksOf, Going
<1> QED
  BY <1>1, <1>2

(* A step other than a tick that brings at most slot q into the sleep, or  *)
(* to the door of it, with time left.                                      *)
LEMMA TickFrame ==
  ASSUME TickInv, UNCHANGED ticks, irq[0] = "tick" => irq'[0] = "tick", NEW q,
         \A p \in Slots : p # q => Still(p),
         \A p \in Slots : p = q => \/ Still(p)
                                   \/ ~Sleeper(p)' /\ ~Going(p)'
                                   \/ Elapsed(p)' < slp'[p].n
  PROVE  TickInv'
<1> SUFFICES ASSUME NEW p \in Slots
             PROVE  /\ Sleeper(p)' => Elapsed(p)' < slp'[p].n \/ irq'[0] = "tick"
                    /\ Going(p)' => Elapsed(p)' < slp'[p].n
  BY DEF TickInv, NoLostTick, SleepPending, Sleeper, Going
<1>1. /\ Sleeper(p) => Elapsed(p) < slp[p].n \/ irq[0] = "tick"
      /\ Going(p) => Elapsed(p) < slp[p].n
  BY DEF TickInv, NoLostTick, SleepPending, Sleeper, Going
<1>2. CASE Still(p)
  BY <1>1, <1>2 DEF Still, Elapsed
<1> QED
  BY <1>2

(* The timer: every sleeper is covered by the handler that runs, and then  *)
(* woken by it.                                                            *)
LEMMA TickTimer ==
  ASSUME LockTypes, SlotInv, LockInv, TickInv, NEW c \in CPUs, Timer(c) \/ TimerWakeup(c)
  PROVE  TickInv'
<1>1. CASE Timer(c) /\ c = 0
  <2>1. irq'[0] = "tick" /\ tlock = Free /\ UNCHANGED <<ctx, pc>>
    BY <1>1 DEF Timer, LockTypes
  <2>2. \A p \in Slots : ~Going(p)
    BY <2>1, GoingLocked, Constants
  <2> QED
    BY <2>1, <2>2 DEF TickInv, NoLostTick, SleepPending, Going
<1>2. CASE Timer(c) /\ c # 0
  <2>1. UNCHANGED <<state, chan, ctx, pc, slp, ticks>> /\ irq'[0] = irq[0]
    BY <1>2, Constants DEF Timer, LockTypes, tableVars
  <2> QED
    BY <2>1, TickFrame DEF Still, Sleeper, Going
<1>3. CASE TimerWakeup(c)
  <2>1. UNCHANGED <<chan, ctx, pc, slp, ticks>> /\ state' = wakeup1(state, TICKS)
    BY <1>3 DEF TimerWakeup
  <2>2. \A p \in Slots : ~Sleeper(p)'
    BY <2>1 DEF Sleeper, wakeup1
  <2> QED
    BY <2>1, <2>2 DEF TickInv, NoLostTick, SleepPending, Sleeper, Elapsed
<1> QED
  BY <1>1, <1>2, <1>3

(* Everything but sys_sleep and the timer: nobody is brought to sleep on   *)
(* ticks, and what is resumed is not past the test.                        *)
LEMMA TickQuiet ==
  ASSUME LockTypes, SlotInv, TreeInv, LockInv, TickInv, NEW c \in CPUs,
         \/ SchedStep(c) \/ TrapTail(c) \/ SysEnter(c) \/ Fault(c) \/ SysReturn(c)
         \/ SysExit(c) \/ ForkAlloc(c) \/ ForkStack(c) \/ ForkCopy(c) \/ ForkDone(c)
         \/ Exit(c) \/ ExitInit(c) \/ WaitEnter(c) \/ WaitScan(c)
         \/ (\E k \in KillArgs : Kill(c, k))
  PROVE  TickInv'
<1> SUFFICES /\ UNCHANGED <<ticks, slp>>
             /\ irq[0] = "tick" => irq'[0] = "tick"
             /\ \A p \in Slots : (Sleeper(p)' => Sleeper(p)) /\ (Going(p)' => Going(p))
  BY TickFrame DEF Still
<1> USE DEF LockTypes, TreeTypes, SlotTypes, At, Goto, Points, tableVars, Sleeper, Going
<1>1. CASE SchedAcquire(c) \/ SchedPick(c) \/ SchedRelease(c)
  BY <1>1 DEF SchedAcquire, SchedPick, Dispatch, SchedRelease
<1>2. CASE Resume(c)
  <2>1. /\ proc[c] \in Slots /\ proc[c] # 0 /\ ctx[proc[c]] # "cpu"
        /\ UNCHANGED <<state, ticks, slp, irq, proc>>
        /\ ctx' = [ctx EXCEPT ![proc[c]] = "cpu"]
    BY <1>2, Constants DEF Resume
  <2>2. state[proc[c]] = "RUNNING" /\ ContextOf(proc[c])
    BY <2>1, ProcRunning DEF LockInv
  <2>3. chan' = chan \/ chan' = [chan EXCEPT ![proc[c]] = 0]
    BY ONLY <1>2, Zenon DEF Resume
  <2>4. \/ pc' = pc /\ ctx[proc[c]] = "forkret"
        \/ \E l \in {pc[proc[c]], "exit"} : pc' = [pc EXCEPT ![proc[c]] = l] /\ ctx[proc[c]] = "yield"
        \/ \E l \in {pc[proc[c]], "sleepwake"} :
             /\ pc' = [pc EXCEPT ![proc[c]] = l] /\ ctx[proc[c]] = "sleep"
             /\ pc[proc[c]] = "sleepgo" => l = "sleepwake"
    BY ONLY <1>2, Zenon DEF Resume, Goto
  <2>5. \A p \in Slots : p # proc[c] => pc'[p] = pc[p]
    BY <2>4
  <2>6. pc'[proc[c]] # "sleepgo"
    BY <2>1, <2>2, <2>4 DEF ContextOf
  <2> QED
    BY <2>1, <2>2, <2>3, <2>5, <2>6
<1>3. CASE TrapTail(c)
  <2>1. /\ UNCHANGED <<ticks, slp, chan>> /\ irq[c] = "tail" /\ irq' = [irq EXCEPT ![c] = "none"]
        /\ \/ pc' = [pc EXCEPT ![proc[c]] = "exit"] /\ UNCHANGED <<state, ctx>>
           \/ /\ state' = [state EXCEPT ![proc[c]] = "RUNNABLE"] /\ UNCHANGED pc
              /\ ctx' = [ctx EXCEPT ![proc[c]] = "yield"]
    BY ONLY <1>3, Zenon DEF TrapTail, sched, Goto
  <2> QED
    <3>1. irq[0] = "tick" => irq'[0] = "tick"
      BY ONLY LockTypes, <2>1, Constants DEF LockTypes
    <3>2. ASSUME NEW p \in Slots PROVE (Sleeper(p)' => Sleeper(p)) /\ (Going(p)' => Going(p))
      BY ONLY LockTypes, <2>1, <3>2 DEF LockTypes, TreeTypes, SlotTypes, Sleeper, Going
    <3> QED
      BY ONLY <2>1, <3>1, <3>2
<1>4. CASE SysEnter(c) \/ Fault(c) \/ SysReturn(c) \/ SysExit(c) \/ ExitInit(c) \/ WaitEnter(c)
  BY <1>4 DEF SysEnter, Fault, SysReturn, SysExit, ExitInit, WaitEnter
<1>5. CASE ForkAlloc(c)
  <2>1. /\ UNCHANGED <<ticks, slp, irq, chan, ctx>>
        /\ Goto(proc[c], "ret") \/ Goto(proc[c], "fork1")
        /\ UNCHANGED state \/ \E q \in Slots : state' = [state EXCEPT ![q] = "EMBRYO"]
    BY ONLY <1>5, Zenon DEF ForkAlloc
  <2> QED
    BY ONLY LockTypes, <2>1 DEF LockTypes, TreeTypes, SlotTypes, Sleeper, Going, Goto
<1>6. CASE ForkStack(c)
  BY <1>6 DEF ForkStack, ForkAbandon
<1>7. CASE ForkCopy(c)
  BY <1>7 DEF ForkCopy, ForkAbandon
<1>8. CASE ForkDone(c)
  BY <1>8 DEF ForkDone
<1>9. CASE Exit(c)
  BY <1>9 DEF Exit, ExitWakeups, wakeup1, sched
<1>10. CASE WaitScan(c)
  <2>1. /\ proc[c] \in Slots /\ UNCHANGED <<ticks, slp, irq>>
        /\ \/ /\ Goto(proc[c], "ret") /\ UNCHANGED <<chan, ctx>>
              /\ \/ UNCHANGED state
                 \/ \E q \in Slots : state' = [state EXCEPT ![q] = "UNUSED"]
           \/ /\ chan' = [chan EXCEPT ![proc[c]] = proc[c]] /\ UNCHANGED pc
              /\ state' = [state EXCEPT ![proc[c]] = "SLEEPING"]
              /\ ctx' = [ctx EXCEPT ![proc[c]] = "sleep"]
    BY ONLY <1>10, Zenon DEF WaitScan, At, sched
  <2> QED
    BY ONLY LockTypes, <2>1, Constants DEF LockTypes, TreeTypes, SlotTypes, Sleeper, Going, Goto
<1>11. CASE \E k \in KillArgs : Kill(c, k)
  <2>1. /\ UNCHANGED <<ticks, slp, irq, chan, ctx>> /\ Goto(proc[c], "ret")
        /\ UNCHANGED state \/ \E q \in Slots : state' = [state EXCEPT ![q] = KillState(@)]
    BY ONLY <1>11, Zenon DEF Kill
  <2> QED
    BY ONLY LockTypes, <2>1 DEF LockTypes, TreeTypes, SlotTypes, Sleeper, Going, Goto, KillState
<1> QED
  BY <1>1, <1>2, <1>3, <1>4, <1>5, <1>6, <1>7, <1>8, <1>9, <1>10, <1>11 DEF SchedStep

(* sys_sleep tests under tickslock and keeps it until it sleeps.           *)
LEMMA TickSleep ==
  ASSUME LockTypes, SlotInv, LockInv, TickInv, NEW c \in CPUs,
         (\E n \in SleepArgs : SleepEnter(c, n)) \/ SleepCheck(c) \/ SleepGo(c) \/ SleepWake(c)
  PROVE  TickInv'
<1> SUFFICES /\ UNCHANGED <<ticks, irq>>
             /\ \A p \in Slots : p # proc[c] => Still(p)
             /\ \A p \in Slots : p = proc[c] => \/ Still(p)
                                                \/ ~Sleeper(p)' /\ ~Going(p)'
                                                \/ Elapsed(p)' < slp'[p].n
  BY TickFrame
<1>1. proc[c] \in Slots /\ state[proc[c]] = "RUNNING" /\ ctx[proc[c]] = "cpu"
  BY ProcRunning DEF SleepEnter, SleepCheck, SleepGo, SleepWake, At, LockTypes, TreeTypes
<1> USE <1>1 DEF LockTypes, TreeTypes, SlotTypes, At, Goto, Points, tableVars, Still, Sleeper, Going
<1>2. CASE \E n \in SleepArgs : SleepEnter(c, n)
  <2>1. /\ UNCHANGED <<tableVars, ticks, irq, ctx>> /\ Goto(proc[c], "sleepchk")
        /\ \E r : slp' = [slp EXCEPT ![proc[c]] = r]
    BY <1>2 DEF SleepEnter
  <2> QED
    BY <2>1
<1>3. CASE SleepCheck(c)
  <2>1. /\ UNCHANGED <<tableVars, ticks, irq, ctx>>
        /\ \/ /\ Elapsed(proc[c]) < slp[proc[c]].n /\ Goto(proc[c], "sleepgo")
              /\ UNCHANGED slp
           \/ Goto(proc[c], "ret") /\ slp' = [slp EXCEPT ![proc[c]] = NoSleep]
    BY <1>3 DEF SleepCheck
  <2>2. CASE Elapsed(proc[c]) < slp[proc[c]].n /\ Goto(proc[c], "sleepgo") /\ UNCHANGED slp
    <3>1. \A p \in Slots : p # proc[c] => Still(p)
      BY <2>1, <2>2
    <3>2. ASSUME NEW p \in Slots, p = proc[c] PROVE Elapsed(p)' < slp'[p].n
      BY <2>1, <2>2, <3>2 DEF Elapsed
    <3> QED
      BY <2>1, <3>1, <3>2
  <2>3. CASE Goto(proc[c], "ret") /\ slp' = [slp EXCEPT ![proc[c]] = NoSleep]
    <3>1. pc'[proc[c]] = "ret" /\ state'[proc[c]] = "RUNNING"
      BY <2>1, <2>3
    <3>2. \A p \in Slots : p # proc[c] => Still(p)
      BY <2>1, <2>3
    <3> QED
      BY <2>1, <3>1, <3>2
  <2> QED
    BY <2>1, <2>2, <2>3
<1>4. CASE SleepGo(c)
  <2>1. /\ UNCHANGED <<ticks, irq, pc, slp>> /\ pc[proc[c]] = "sleepgo"
        /\ chan' = [chan EXCEPT ![proc[c]] = TICKS]
        /\ state' = [state EXCEPT ![proc[c]] = "SLEEPING"]
        /\ ctx' = [ctx EXCEPT ![proc[c]] = "sleep"]
    BY <1>4 DEF SleepGo, sched
  <2>2. ASSUME NEW p \in Slots, p = proc[c] PROVE Elapsed(p)' < slp'[p].n
    BY <2>1, <2>2 DEF Elapsed, TickInv, SleepPending
  <2> QED
    BY <2>1, <2>2
<1>5. CASE SleepWake(c)
  BY <1>5 DEF SleepWake
<1> QED
  BY <1>2, <1>3, <1>4, <1>5

(* sleep, sys_sleep and the timer: no tick is lost to a process that       *)
(* sleeps, for any number of processes and CPUs and across the wrap of     *)
(* ticks.                                                                  *)
THEOREM TicksSeen == Spec => []NoLostTick
<1>1. Init => TickInv
  BY DEF Init, TickInv, NoLostTick, SleepPending
<1>2. TypeOK /\ SlotInv /\ TreeInv /\ LockInv /\ TickInv /\ [Next]_vars => TickInv'
  <2> SUFFICES ASSUME LockTypes, SlotInv, TreeInv, LockInv, TickInv, [Next]_vars PROVE TickInv'
    BY DEF TypeOK, LockTypes, TreeTypes, SlotTypes
  <2>1. CASE UNCHANGED vars
    BY <2>1 DEF vars, tableVars, TickInv, NoLostTick, SleepPending, Elapsed
  <2>2. ASSUME NEW c \in CPUs, SchedStep(c) \/ IrqStep(c) \/ SysStep(c) \/ Timer(c)
                               \/ SysEnter(c) \/ Fault(c)
        PROVE  TickInv'
    BY <2>2, TickTimer, TickQuiet, TickSleep DEF IrqStep, SysStep
  <2> QED
    BY <2>1, <2>2 DEF Next, Panicked
<1> QED
  BY <1>1, <1>2, Typing, SlotSafety, TreeSafety, LockSafety, PTL DEF Spec, TickInv
=============================================================================
