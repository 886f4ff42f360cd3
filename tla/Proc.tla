------------------------------- MODULE Proc -------------------------------
(***************************************************************************)
(* Process table, scheduler, sleep/wakeup and the timer (proc.c, trap.c,   *)
(* sysproc.c).  CPUs run kernel threads; ptable.lock is explicit because a *)
(* process that gives up its CPU keeps it until the scheduler, or the next *)
(* process, releases it.  A critical section that neither sleeps nor       *)
(* switches is one action.  Outcomes of kalloc and copyuvm are             *)
(* nondeterministic; files, memory and file-system sleeps are not here.    *)
(***************************************************************************)
EXTENDS Integers

CONSTANTS
  NPROC,      \* size of ptable.proc (param.h)
  NCPU,       \* number of CPUs; CPU 0 advances ticks
  MaxPid,     \* bound on nextpid
  TickMod,    \* ticks is an unsigned integer modulo TickMod (2^32 in the code)
  KillArgs,   \* arguments user programs pass to kill()
  SleepArgs   \* arguments user programs pass to sleep()

ASSUME ProcAssumption ==
  /\ NPROC \in Nat \ {0} /\ NCPU \in Nat \ {0} /\ MaxPid \in Nat
  /\ TickMod \in Nat \ {0, 1} /\ SleepArgs \subseteq 0 .. (TickMod - 1)

VARIABLES
  state, pid, parent, chan, killed, kstack,  \* struct proc, one function per field
  nextpid,
  pc,       \* where the thread of a process is in the kernel ("user": outside)
  ctx,      \* what p->context resumes into; "cpu" while p executes
  np,       \* fork's local variable np (0: none)
  slp,      \* sys_sleep's locals ticks0 and n
  proc,     \* c->proc (0: the scheduler itself runs on c)
  idx,      \* p in scheduler(), as a table index
  irq,      \* how far CPU c is in the timer interrupt handler
  plock,    \* CPU holding ptable.lock
  tlock,    \* CPU holding tickslock
  ticks,
  panicked

tableVars == <<state, pid, parent, chan, killed, kstack, nextpid>>
vars == <<tableVars, pc, ctx, np, slp, proc, idx, irq, plock, tlock, ticks, panicked>>

Slots == 1 .. NPROC
CPUs == 0 .. (NCPU - 1)
Free == NCPU              \* value of a lock no CPU holds
initproc == 1             \* userinit takes the first slot of an empty table
TICKS == NPROC + 1        \* the channel &ticks; a process waits on its own slot
Positions == 1 .. (NPROC + 1)  \* of scheduler()'s loop, the end included
TickVals == 0 .. (TickMod - 1)

States == {"UNUSED", "EMBRYO", "SLEEPING", "RUNNABLE", "RUNNING", "ZOMBIE"}
Points == {"user", "sys", "fork1", "fork2", "fork3", "exit", "waitscan",
           "sleepchk", "sleepgo", "sleepwake", "ret"}
NoSleep == [t0 |-> 0, n |-> 0]
-----------------------------------------------------------------------------
(* Boot: pinit and userinit have run, every CPU enters scheduler().        *)
Init ==
  /\ state = [p \in Slots |-> IF p = initproc THEN "RUNNABLE" ELSE "UNUSED"]
  /\ pid = [p \in Slots |-> IF p = initproc THEN 1 ELSE 0]
  /\ parent = [p \in Slots |-> 0]
  /\ chan = [p \in Slots |-> 0]
  /\ killed = [p \in Slots |-> FALSE]
  /\ kstack = [p \in Slots |-> p = initproc]
  /\ nextpid = 2
  /\ pc = [p \in Slots |-> "user"]
  /\ ctx = [p \in Slots |-> "forkret"]
  /\ np = [p \in Slots |-> 0]
  /\ slp = [p \in Slots |-> NoSleep]
  /\ proc = [c \in CPUs |-> 0]
  /\ idx = [c \in CPUs |-> 1]
  /\ irq = [c \in CPUs |-> "none"]
  /\ plock = Free /\ tlock = Free
  /\ ticks = 0
  /\ panicked = FALSE

(* Process p executes at point l on CPU c, no interrupt handler above it.  *)
At(c, p, l) ==
  /\ ~panicked
  /\ p \in Slots /\ proc[c] = p /\ ctx[p] = "cpu" /\ irq[c] = "none"
  /\ pc[p] = l

Goto(p, l) == pc' = [pc EXCEPT ![p] = l]

(* wakeup1: the table states after every sleeper on ch is made runnable.   *)
wakeup1(st, ch) ==
  [q \in Slots |-> IF st[q] = "SLEEPING" /\ chan[q] = ch THEN "RUNNABLE" ELSE st[q]]

(* Faulty: the scan starts over after every switch.                        *)
schedRestarts(c, p, k) ==
  /\ plock' = c
  /\ proc' = [proc EXCEPT ![c] = 0]
  /\ idx' = [idx EXCEPT ![c] = 1]
  /\ ctx' = [ctx EXCEPT ![p] = k]

(* sched: p leaves CPU c with ptable.lock held; the scheduler clears       *)
(* c->proc and its loop goes on at the slot after p.  k: where p resumes.  *)
sched(c, p, k) ==
  /\ plock' = c
  /\ proc' = [proc EXCEPT ![c] = 0]
  /\ idx' = [idx EXCEPT ![c] = p + 1]
  /\ ctx' = [ctx EXCEPT ![p] = k]
-----------------------------------------------------------------------------
(* scheduler(): sti; acquire(&ptable.lock); start of the table.            *)
SchedAcquire(c) ==
  /\ ~panicked /\ proc[c] = 0 /\ irq[c] = "none" /\ plock = Free
  /\ plock' = c
  /\ idx' = [idx EXCEPT ![c] = 1]
  /\ UNCHANGED <<tableVars, pc, ctx, np, slp, proc, irq, tlock, ticks, panicked>>

(* Faulty: the chosen process stays RUNNABLE.                              *)
DispatchUnmarked(c, q) ==
  /\ state' = state
  /\ proc' = [proc EXCEPT ![c] = q]

(* c->proc = p; p->state = RUNNING.                                        *)
Dispatch(c, q) ==
  /\ state' = [state EXCEPT ![q] = "RUNNING"]
  /\ proc' = [proc EXCEPT ![c] = q]

(* The next RUNNABLE slot from p on gets the CPU; the lock goes with it.   *)
SchedPick(c) ==
  /\ ~panicked /\ proc[c] = 0 /\ plock = c
  /\ \E q \in Slots :
       /\ idx[c] <= q /\ state[q] = "RUNNABLE"
       /\ \A r \in Slots : idx[c] <= r /\ r < q => state[r] # "RUNNABLE"
       /\ Dispatch(c, q)
  /\ UNCHANGED <<pid, parent, chan, killed, kstack, nextpid, pc, ctx, np, slp,
                 idx, irq, plock, tlock, ticks, panicked>>

SchedRelease(c) ==
  /\ ~panicked /\ proc[c] = 0 /\ plock = c
  /\ \A r \in Slots : idx[c] <= r => state[r] # "RUNNABLE"
  /\ plock' = Free
  /\ idx' = [idx EXCEPT ![c] = 1]
  /\ UNCHANGED <<tableVars, pc, ctx, np, slp, proc, irq, tlock, ticks, panicked>>

(* A process that was switched to continues: in forkret, after the sched   *)
(* of yield (then trap's last killed test, if it was in user mode), or     *)
(* after the sched of sleep, which clears chan.  A sleeper in wait keeps   *)
(* ptable.lock and loops; a sleeper on ticks goes to reacquire tickslock.  *)
Resume(c) ==
  LET p == proc[c] IN
  /\ ~panicked /\ p \in Slots /\ ctx[p] # "cpu" /\ plock = c
  /\ ctx' = [ctx EXCEPT ![p] = "cpu"]
  /\ \/ /\ ctx[p] = "forkret"
        /\ UNCHANGED <<pc, chan>>
     \/ /\ ctx[p] = "yield"
        /\ Goto(p, IF killed[p] /\ pc[p] = "user" THEN "exit" ELSE pc[p])
        /\ UNCHANGED chan
     \/ /\ ctx[p] = "sleep"
        /\ chan' = [chan EXCEPT ![p] = 0]
        /\ Goto(p, IF pc[p] = "sleepgo" THEN "sleepwake" ELSE pc[p])
  /\ plock' = IF ctx[p] = "sleep" /\ pc[p] = "waitscan" THEN c ELSE Free
  /\ UNCHANGED <<state, pid, parent, killed, kstack, nextpid, np, slp, proc,
                 idx, irq, tlock, ticks, panicked>>
-----------------------------------------------------------------------------
(* The timer interrupt, delivered only while c holds no spinlock (pushcli  *)
(* turns interrupts off).  CPU 0 counts the tick under tickslock.          *)
Timer(c) ==
  /\ ~panicked /\ irq[c] = "none" /\ plock # c /\ tlock # c
  /\ IF c = 0
       THEN /\ tlock = Free
            /\ tlock' = c
            /\ ticks' = (ticks + 1) % TickMod
            /\ irq' = [irq EXCEPT ![c] = "tick"]
       ELSE /\ proc[c] # 0
            /\ irq' = [irq EXCEPT ![c] = "tail"]
            /\ UNCHANGED <<tlock, ticks>>
  /\ UNCHANGED <<tableVars, pc, ctx, np, slp, proc, idx, plock, panicked>>

(* wakeup(&ticks); release(&tickslock).                                    *)
TimerWakeup(c) ==
  /\ ~panicked /\ irq[c] = "tick" /\ plock = Free
  /\ state' = wakeup1(state, TICKS)
  /\ tlock' = Free
  /\ irq' = [irq EXCEPT ![c] = IF proc[c] = 0 THEN "none" ELSE "tail"]
  /\ UNCHANGED <<pid, parent, chan, killed, kstack, nextpid, pc, ctx, np, slp,
                 proc, idx, plock, ticks, panicked>>

(* The end of trap(): a killed process in user mode exits, any other       *)
(* yields.                                                                 *)
TrapTail(c) ==
  LET p == proc[c] IN
  /\ ~panicked /\ irq[c] = "tail" /\ p \in Slots
  /\ irq' = [irq EXCEPT ![c] = "none"]
  /\ \/ /\ killed[p] /\ pc[p] = "user"
        /\ Goto(p, "exit")
        /\ UNCHANGED <<state, ctx, proc, idx, plock>>
     \/ /\ ~(killed[p] /\ pc[p] = "user") /\ plock = Free
        /\ state' = [state EXCEPT ![p] = "RUNNABLE"]
        /\ sched(c, p, "yield")
        /\ UNCHANGED pc
  /\ UNCHANGED <<pid, parent, chan, killed, kstack, nextpid, np, slp, tlock,
                 ticks, panicked>>
-----------------------------------------------------------------------------
(* A trap the kernel does not handle marks the process killed and exits.   *)
Fault(c) ==
  LET p == proc[c] IN
  /\ At(c, p, "user")
  /\ killed' = [killed EXCEPT ![p] = TRUE]
  /\ Goto(p, "exit")
  /\ UNCHANGED <<state, pid, parent, chan, kstack, nextpid, ctx, np, slp, proc,
                 idx, irq, plock, tlock, ticks, panicked>>

(* trap(T_SYSCALL): the killed tests before and after the system call.     *)
SysEnter(c) ==
  LET p == proc[c] IN
  /\ At(c, p, "user")
  /\ Goto(p, IF killed[p] THEN "exit" ELSE "sys")
  /\ UNCHANGED <<tableVars, ctx, np, slp, proc, idx, irq, plock, tlock, ticks, panicked>>

SysReturn(c) ==
  LET p == proc[c] IN
  /\ At(c, p, "ret")
  /\ Goto(p, IF killed[p] THEN "exit" ELSE "user")
  /\ UNCHANGED <<tableVars, ctx, np, slp, proc, idx, irq, plock, tlock, ticks, panicked>>

(* sys_exit *)
SysExit(c) ==
  LET p == proc[c] IN
  /\ At(c, p, "sys")
  /\ Goto(p, "exit")
  /\ UNCHANGED <<tableVars, ctx, np, slp, proc, idx, irq, plock, tlock, ticks, panicked>>

(* allocproc up to the release: the first UNUSED slot, or failure.         *)
ForkAlloc(c) ==
  LET p == proc[c] IN
  /\ At(c, p, "sys") /\ plock = Free
  /\ \/ /\ \A q \in Slots : state[q] # "UNUSED"
        /\ Goto(p, "ret")
        /\ UNCHANGED <<state, pid, nextpid, np>>
     \/ \E q \in Slots :
          /\ state[q] = "UNUSED" /\ \A r \in Slots : r < q => state[r] # "UNUSED"
          /\ nextpid <= MaxPid
          /\ state' = [state EXCEPT ![q] = "EMBRYO"]
          /\ pid' = [pid EXCEPT ![q] = nextpid]
          /\ nextpid' = nextpid + 1
          /\ np' = [np EXCEPT ![p] = q]
          /\ Goto(p, "fork1")
  /\ UNCHANGED <<parent, chan, killed, kstack, ctx, slp, proc, idx, irq, plock,
                 tlock, ticks, panicked>>

(* Faulty: the stack is not freed.                                         *)
ForkAbandonLeaks(p) ==
  /\ kstack' = kstack
  /\ state' = [state EXCEPT ![np[p]] = "UNUSED"]
  /\ np' = [np EXCEPT ![p] = 0]
  /\ Goto(p, "ret")

(* The error exits of allocproc and fork: the stack is freed and the slot  *)
(* given back without ptable.lock; it keeps its pid.                       *)
ForkAbandon(p) ==
  /\ kstack' = [kstack EXCEPT ![np[p]] = FALSE]
  /\ state' = [state EXCEPT ![np[p]] = "UNUSED"]
  /\ np' = [np EXCEPT ![p] = 0]
  /\ Goto(p, "ret")

(* allocproc: the kernel stack and the context that starts in forkret.     *)
ForkStack(c) ==
  LET p == proc[c] IN
  /\ At(c, p, "fork1")
  /\ \/ /\ ForkAbandon(p)
        /\ UNCHANGED ctx
     \/ /\ kstack' = [kstack EXCEPT ![np[p]] = TRUE]
        /\ ctx' = [ctx EXCEPT ![np[p]] = "forkret"]
        /\ Goto(p, "fork2")
        /\ UNCHANGED <<state, np>>
  /\ UNCHANGED <<pid, parent, chan, killed, nextpid, slp, proc, idx, irq, plock,
                 tlock, ticks, panicked>>

(* fork: copyuvm, then np->parent and the trap frame, without the lock.    *)
ForkCopy(c) ==
  LET p == proc[c] IN
  /\ At(c, p, "fork2")
  /\ \/ /\ ForkAbandon(p)
        /\ UNCHANGED parent
     \/ /\ parent' = [parent EXCEPT ![np[p]] = p]
        /\ pc' = [pc EXCEPT ![p] = "fork3", ![np[p]] = "user"]
        /\ UNCHANGED <<state, kstack, np>>
  /\ UNCHANGED <<pid, chan, killed, nextpid, ctx, slp, proc, idx, irq, plock,
                 tlock, ticks, panicked>>

(* fork: the child becomes RUNNABLE under the lock.                        *)
ForkDone(c) ==
  LET p == proc[c] IN
  /\ At(c, p, "fork3") /\ plock = Free
  /\ state' = [state EXCEPT ![np[p]] = "RUNNABLE"]
  /\ np' = [np EXCEPT ![p] = 0]
  /\ Goto(p, "ret")
  /\ UNCHANGED <<pid, parent, chan, killed, kstack, nextpid, ctx, slp, proc, idx,
                 irq, plock, tlock, ticks, panicked>>
-----------------------------------------------------------------------------
(* Faulty: the children keep their parent.                                 *)
ReparentNone(p) == parent

(* Pass abandoned children to init.                                        *)
Reparent(p) == [q \in Slots |-> IF parent[q] = p THEN initproc ELSE parent[q]]

(* Faulty: nobody is told; init is not told of the zombies it inherits.    *)
ExitWakeupsNone(p) == state
ExitWakeupsForgetInit(p) == wakeup1(state, parent[p])

(* The wakeups of exit: the parent, and init if it inherits a zombie.      *)
ExitWakeups(p) ==
  LET st == wakeup1(state, parent[p]) IN
  IF \E q \in Slots : parent[q] = p /\ state[q] = "ZOMBIE"
    THEN wakeup1(st, initproc) ELSE st

(* exit, from acquire(&ptable.lock) to sched(): wake the parent, pass the  *)
(* children to init, wake init if one of them is a zombie, become ZOMBIE.  *)
Exit(c) ==
  LET p == proc[c] IN
  /\ At(c, p, "exit") /\ p # initproc /\ plock = Free
  /\ parent' = Reparent(p)
  /\ state' = [ExitWakeups(p) EXCEPT ![p] = "ZOMBIE"]
  /\ sched(c, p, "dead")
  /\ UNCHANGED <<pid, chan, killed, kstack, nextpid, pc, np, slp, irq, tlock,
                 ticks, panicked>>

(* exit by init: panic("init exiting") stops every CPU.                    *)
ExitInit(c) ==
  /\ At(c, initproc, "exit")
  /\ panicked' = TRUE
  /\ UNCHANGED <<tableVars, pc, ctx, np, slp, proc, idx, irq, plock, tlock, ticks>>

(* wait: acquire(&ptable.lock).                                            *)
WaitEnter(c) ==
  LET p == proc[c] IN
  /\ At(c, p, "sys") /\ plock = Free
  /\ plock' = c
  /\ Goto(p, "waitscan")
  /\ UNCHANGED <<tableVars, ctx, np, slp, proc, idx, irq, tlock, ticks, panicked>>

(* One round of wait's loop: reap the first zombie child and return; or    *)
(* return -1 without children or when killed; or sleep.                    *)
WaitScan(c) ==
  LET p == proc[c]
      kids == {q \in Slots : parent[q] = p}
      zombies == {q \in kids : state[q] = "ZOMBIE"}
  IN
  /\ At(c, p, "waitscan") /\ plock = c
  /\ \/ \E q \in zombies :
          /\ \A r \in zombies : q <= r
          /\ kstack' = [kstack EXCEPT ![q] = FALSE]
          /\ pid' = [pid EXCEPT ![q] = 0]
          /\ parent' = [parent EXCEPT ![q] = 0]
          /\ killed' = [killed EXCEPT ![q] = FALSE]
          /\ state' = [state EXCEPT ![q] = "UNUSED"]
          /\ plock' = Free
          /\ Goto(p, "ret")
          /\ UNCHANGED <<chan, ctx, proc, idx>>
     \/ /\ zombies = {} /\ (kids = {} \/ killed[p])
        /\ plock' = Free
        /\ Goto(p, "ret")
        /\ UNCHANGED <<state, pid, parent, chan, killed, kstack, ctx, proc, idx>>
     \/ /\ zombies = {} /\ kids # {} /\ ~killed[p]
        /\ chan' = [chan EXCEPT ![p] = p]
        /\ state' = [state EXCEPT ![p] = "SLEEPING"]
        /\ sched(c, p, "sleep")
        /\ UNCHANGED <<pid, parent, killed, kstack, pc>>
  /\ UNCHANGED <<nextpid, np, slp, irq, tlock, ticks, panicked>>

(* Faulty: kill makes any process runnable; kill wakes nobody.             *)
KillStateAlways(s) == "RUNNABLE"
KillStateNever(s) == s

(* kill: wake process from sleep if necessary.                             *)
KillState(s) == IF s = "SLEEPING" THEN "RUNNABLE" ELSE s

(* kill(k): the first slot with that pid, whatever its state.              *)
Kill(c, k) ==
  LET p == proc[c] IN
  /\ At(c, p, "sys") /\ plock = Free
  /\ \/ /\ \A q \in Slots : pid[q] # k
        /\ UNCHANGED <<killed, state>>
     \/ \E q \in Slots :
          /\ pid[q] = k /\ \A r \in Slots : r < q => pid[r] # k
          /\ killed' = [killed EXCEPT ![q] = TRUE]
          /\ state' = [state EXCEPT ![q] = KillState(@)]
  /\ Goto(p, "ret")
  /\ UNCHANGED <<pid, parent, chan, kstack, nextpid, ctx, np, slp, proc, idx, irq,
                 plock, tlock, ticks, panicked>>
-----------------------------------------------------------------------------
(* sys_sleep(n): acquire(&tickslock); ticks0 = ticks.                      *)
SleepEnter(c, n) ==
  LET p == proc[c] IN
  /\ At(c, p, "sys") /\ tlock = Free
  /\ tlock' = c
  /\ slp' = [slp EXCEPT ![p] = [t0 |-> ticks, n |-> n]]
  /\ Goto(p, "sleepchk")
  /\ UNCHANGED <<tableVars, ctx, np, proc, idx, irq, plock, ticks, panicked>>

(* ticks - ticks0, in unsigned arithmetic.                                 *)
Elapsed(p) == (ticks - slp[p].t0) % TickMod

(* Faulty: tickslock is released before sleep() takes ptable.lock.         *)
SleepCheckUnlocks(c) ==
  LET p == proc[c] IN
  /\ At(c, p, "sleepchk")
  /\ tlock' = Free
  /\ IF Elapsed(p) < slp[p].n /\ ~killed[p]
       THEN Goto(p, "sleepgo") /\ UNCHANGED slp
       ELSE Goto(p, "ret") /\ slp' = [slp EXCEPT ![p] = NoSleep]
  /\ UNCHANGED <<tableVars, ctx, np, proc, idx, irq, plock, ticks, panicked>>

(* The loop condition and the killed test, under tickslock only.           *)
SleepCheck(c) ==
  LET p == proc[c] IN
  /\ At(c, p, "sleepchk")
  /\ IF Elapsed(p) < slp[p].n /\ ~killed[p]
       THEN Goto(p, "sleepgo") /\ UNCHANGED <<tlock, slp>>
       ELSE /\ Goto(p, "ret")
            /\ tlock' = Free
            /\ slp' = [slp EXCEPT ![p] = NoSleep]
  /\ UNCHANGED <<tableVars, ctx, np, proc, idx, irq, plock, ticks, panicked>>

(* sleep(&ticks, &tickslock): ptable.lock first, then tickslock released.  *)
SleepGo(c) ==
  LET p == proc[c] IN
  /\ At(c, p, "sleepgo") /\ plock = Free
  /\ tlock' = Free
  /\ chan' = [chan EXCEPT ![p] = TICKS]
  /\ state' = [state EXCEPT ![p] = "SLEEPING"]
  /\ sched(c, p, "sleep")
  /\ UNCHANGED <<pid, parent, killed, kstack, nextpid, pc, np, slp, irq, ticks, panicked>>

(* The end of sleep(): reacquire tickslock.                                *)
SleepWake(c) ==
  LET p == proc[c] IN
  /\ At(c, p, "sleepwake") /\ tlock = Free
  /\ tlock' = c
  /\ Goto(p, "sleepchk")
  /\ UNCHANGED <<tableVars, ctx, np, slp, proc, idx, irq, plock, ticks, panicked>>
-----------------------------------------------------------------------------
(* The scheduler thread of a CPU, up to the resumed process.               *)
SchedStep(c) == SchedAcquire(c) \/ SchedPick(c) \/ SchedRelease(c) \/ Resume(c)

(* The timer interrupt handler.                                            *)
IrqStep(c) == TimerWakeup(c) \/ TrapTail(c)

(* The process on CPU c executes in the kernel.                            *)
SysStep(c) ==
  \/ SysReturn(c) \/ SysExit(c)
  \/ ForkAlloc(c) \/ ForkStack(c) \/ ForkCopy(c) \/ ForkDone(c)
  \/ Exit(c) \/ ExitInit(c) \/ WaitEnter(c) \/ WaitScan(c)
  \/ \E k \in KillArgs : Kill(c, k)
  \/ \E n \in SleepArgs : SleepEnter(c, n)
  \/ SleepCheck(c) \/ SleepGo(c) \/ SleepWake(c)

(* A panic is final: every CPU spins.                                      *)
Panicked == panicked /\ UNCHANGED vars

Next ==
  \/ \E c \in CPUs : \/ SchedStep(c) \/ IrqStep(c) \/ SysStep(c)
                     \/ Timer(c) \/ SysEnter(c) \/ Fault(c)
  \/ Panicked

Spec == Init /\ [][Next]_vars

(* Handlers run to their end.  Interrupts are rarer than instructions, so  *)
(* the code they interrupt again and again also advances.  The timer       *)
(* interrupt stays pending while interrupts are off, so one that can be    *)
(* delivered again and again is.  User code need not make system calls.    *)
Fairness ==
  \A c \in CPUs :
    /\ WF_vars(IrqStep(c)) /\ SF_vars(SchedStep(c)) /\ SF_vars(Timer(c))
    /\ \A p \in Slots : SF_vars(proc[c] = p /\ SysStep(c))

FairSpec == Spec /\ Fairness
-----------------------------------------------------------------------------
(* Type invariant of the process table, the CPUs and the locks.            *)
TypeOK ==
  /\ state \in [Slots -> States]
  /\ pid \in [Slots -> Nat] /\ nextpid \in Nat
  /\ parent \in [Slots -> Slots \cup {0}]
  /\ chan \in [Slots -> Slots \cup {0, TICKS}]
  /\ killed \in [Slots -> BOOLEAN]
  /\ kstack \in [Slots -> BOOLEAN]
  /\ pc \in [Slots -> Points]
  /\ ctx \in [Slots -> {"cpu", "forkret", "yield", "sleep", "dead"}]
  /\ np \in [Slots -> Slots \cup {0}]
  /\ slp \in [Slots -> [t0 : TickVals, n : TickVals]]
  /\ proc \in [CPUs -> Slots \cup {0}]
  /\ idx \in [CPUs -> Positions]
  /\ irq \in [CPUs -> {"none", "tick", "tail"}]
  /\ plock \in CPUs \cup {Free} /\ tlock \in CPUs \cup {Free}
  /\ ticks \in TickVals
  /\ panicked \in BOOLEAN

(* scheduler/sched: a process is RUNNING exactly when it is some CPU's     *)
(* c->proc, and no two CPUs run the same process (or use one kernel stack) *)
(* although each CPU schedules by itself.                                  *)
RunningOnOneCpu ==
  /\ \A p \in Slots : state[p] = "RUNNING" <=> \E c \in CPUs : proc[c] = p
  /\ \A c, d \in CPUs : proc[c] = proc[d] /\ proc[c] # 0 => c = d

(* kfree(p->kstack) in wait and fork: a process that may still execute, or *)
(* a zombie not yet reaped, has its kernel stack, and a free slot has none *)
(* (no stack is freed under a CPU, none is leaked by an error exit).       *)
StackOwned ==
  \A p \in Slots :
    /\ state[p] = "UNUSED" => ~kstack[p]
    /\ state[p] \notin {"UNUSED", "EMBRYO"} => kstack[p]

(* allocproc/fork write a slot in state EMBRYO without ptable.lock: it is  *)
(* sound because such a slot belongs to exactly one process inside fork,   *)
(* and every process inside fork owns such a slot.                         *)
EmbryoOwned ==
  /\ \A q \in Slots : state[q] = "EMBRYO" => \E p \in Slots : np[p] = q
  /\ \A p, q \in Slots : np[p] = np[q] /\ np[p] # 0 => p = q
  /\ \A p \in Slots : np[p] # 0 => /\ state[np[p]] = "EMBRYO"
                                   /\ state[p] \in {"RUNNING", "RUNNABLE"}

(* exit passes children to init: every process other than init has a       *)
(* parent that can still call wait, so no zombie is left unreapable.       *)
ParentAlive ==
  \A p \in Slots :
    /\ p # initproc /\ state[p] \notin {"UNUSED", "EMBRYO"} => parent[p] # 0
    /\ parent[p] # 0 => /\ state[p] # "UNUSED"
                        /\ state[parent[p]] \in {"SLEEPING", "RUNNABLE", "RUNNING"}

(* wait/exit/kill: a process asleep in wait has a child to wait for, none  *)
(* of its children is a zombie, and it is not killed: neither the wakeup   *)
(* of a child's exit nor that of a kill can be missed, also when the       *)
(* zombie is inherited from another process.                               *)
NoLostExit ==
  \A p \in Slots :
    state[p] = "SLEEPING" /\ chan[p] = p =>
      /\ \E q \in Slots : parent[q] = p
      /\ \A q \in Slots : parent[q] = p => state[q] # "ZOMBIE"
      /\ ~killed[p]

(* sleep(chan, lk): a process asleep on ticks has not slept long enough,   *)
(* or the handler that counted the tick is about to wake it: the tick that *)
(* falls between sys_sleep's test and its sleep is not lost.               *)
NoLostTick ==
  \A p \in Slots :
    state[p] = "SLEEPING" /\ chan[p] = TICKS =>
      Elapsed(p) < slp[p].n \/ irq[0] = "tick"

(* wait: a zombie leaves the table only through its parent's wait.         *)
OnlyParentReaps ==
  [][\A q \in Slots : state[q] = "ZOMBIE" /\ state'[q] # "ZOMBIE" =>
        /\ state'[q] = "UNUSED"
        /\ \E c \in CPUs : proc[c] = parent[q] /\ pc[parent[q]] = "waitscan"]_vars

(* allocproc: "initialize state required to run in the kernel" (proc.c:85) *)
(* and kill: "Kill the process with the given pid" (proc.c:502): a new     *)
(* process does not start out killed by a kill aimed at another pid.       *)
NewbornNotKilled ==
  [][\A q \in Slots : state[q] = "UNUSED" /\ state'[q] = "EMBRYO" => ~killed'[q]]_vars

(* Who holds which spinlock: a process just switched to holds ptable.lock  *)
(* for the scheduler it came from; an executing one holds it only in the   *)
(* loop of wait; tickslock is held by sys_sleep's loop and by the handler  *)
(* of the timer; a handler never runs on a CPU whose thread holds a lock.  *)
LocksOf(c) ==
  /\ irq[c] # "none" => plock # c
  /\ irq[c] = "tick" => c = 0 /\ tlock = c
  /\ irq[c] = "tail" => proc[c] # 0 /\ tlock # c
  /\ proc[c] = 0 /\ irq[c] = "none" => tlock # c
  /\ proc[c] # 0 =>
       LET p == proc[c] IN
       /\ ctx[p] # "cpu" => plock = c /\ irq[c] = "none" /\ tlock # c
       /\ ctx[p] = "cpu" => /\ plock = c <=> pc[p] = "waitscan"
                            /\ tlock = c <=> \/ pc[p] \in {"sleepchk", "sleepgo"}
                                             \/ irq[c] = "tick"
       /\ irq[c] # "none" => pc[p] \notin {"sleepchk", "sleepgo"}

(* What the saved context of a process says about where its thread is.     *)
ContextOf(p) ==
  /\ ctx[p] = "cpu" => state[p] = "RUNNING"
  /\ state[p] = "RUNNABLE" => ctx[p] \in {"forkret", "yield", "sleep"}
  /\ state[p] = "RUNNING" => ctx[p] # "dead"
  /\ state[p] = "SLEEPING" =>
       /\ ctx[p] = "sleep"
       /\ \/ chan[p] = p /\ pc[p] = "waitscan"
          \/ chan[p] = TICKS /\ pc[p] = "sleepgo"
  /\ state[p] \in {"RUNNABLE", "RUNNING"} =>
       /\ ctx[p] = "forkret" => pc[p] = "user"
       /\ ctx[p] = "yield" => pc[p] \notin {"waitscan", "sleepchk", "sleepgo"}
       /\ ctx[p] = "sleep" => pc[p] \in {"waitscan", "sleepgo"}

(* A process about to sleep in sys_sleep has not slept long enough yet.    *)
SleepPending ==
  \A p \in Slots : ctx[p] = "cpu" /\ pc[p] = "sleepgo" => Elapsed(p) < slp[p].n

(* How far fork has come with the slot it fills in without the lock.       *)
ForkPoints == {"fork1", "fork2", "fork3"}
ForkOwner ==
  \A p \in Slots :
    /\ np[p] # 0 => /\ pc[p] \in ForkPoints
                    /\ kstack[np[p]] <=> pc[p] # "fork1"
                    /\ pc[p] = "fork3" => pc[np[p]] = "user"
    /\ state[p] \in {"SLEEPING", "RUNNABLE", "RUNNING"} /\ pc[p] \in ForkPoints => np[p] # 0

(* init lives and has no parent, no process is its own parent; a slot      *)
(* under construction, its parent and its first context.                   *)
ForkChild ==
  /\ state[initproc] \in {"SLEEPING", "RUNNABLE", "RUNNING"} /\ parent[initproc] = 0
  /\ \A p \in Slots :
       /\ parent[p] # p
       /\ state[p] = "UNUSED" => parent[p] = 0
       /\ np[p] # 0 => /\ parent[np[p]] = IF pc[p] = "fork3" THEN p ELSE 0
                       /\ pc[p] # "fork1" => ctx[np[p]] = "forkret"

(* The inductive invariants behind the safety properties, each on top of   *)
(* the one before: slots and CPUs; the family tree; locks and contexts;    *)
(* sys_sleep and the clock.                                                *)
SlotInv == RunningOnOneCpu /\ EmbryoOwned /\ StackOwned /\ ForkOwner
TreeInv == ForkChild /\ ParentAlive /\ NoLostExit
LockInv == (\A c \in CPUs : LocksOf(c)) /\ (\A p \in Slots : ContextOf(p))
TickInv == NoLostTick /\ SleepPending

(* scheduler: a runnable process eventually runs (one CPU: round robin).   *)
RunnableRuns ==
  \A p \in Slots : state[p] = "RUNNABLE" ~> (state[p] = "RUNNING" \/ panicked)

(* kill: "Process won't exit until it returns to user space" (proc.c:503), *)
(* but it does exit, wherever kill found it in the modelled system calls.  *)
KilledExits ==
  \A p \in Slots :
    (killed[p] /\ state[p] \in {"SLEEPING", "RUNNABLE", "RUNNING"})
      ~> (state[p] \in {"ZOMBIE", "UNUSED"} \/ panicked)
=============================================================================
