------------------------------ MODULE MCKernel ------------------------------
(***************************************************************************)
(* Kernel primitives and devices, each on a small instance: spinlocks; the *)
(* process table with two slots and the clock (ticks) and with four slots, *)
(* where children are left to init (adopt); the console; the keyboard; and *)
(* the reading of the clock (rtc).                                         *)
(***************************************************************************)
EXTENDS Spinlock, Sequences

VARIABLES
  part,   \* which part of the system this behaviour is about
  state, pid, parent, chan, killed, kstack, nextpid, pc, ctx, np, slp,
  proc, idx, irq, plock, tlock, ticks, panicked, buf, r, w, e, pos, n,
  target, lines, edit, queue, shift, down, caps, got, clock, phase, updates,
  met, t1, t2, shown, bcd

Typed == {"x", "\n", "\r", "^D", "^U", "^H", "^P", "^I", ""}
Modifiers == {"lshift", "rshift", "lctl", "rctl", "caps"}

\* Times just before a carry into one field and into two.
BeforeCarry == {<<11, 9, 3>>, <<11, 11, 9>>, <<9, 11, 11>>}

Tck == INSTANCE Proc WITH
  NPROC <- 2, NCPU <- 2, MaxPid <- 2, TickMod <- 4, KillArgs <- {2},
  SleepArgs <- {1, 2}
Ado == INSTANCE Proc WITH
  NPROC <- 4, NCPU <- 1, MaxPid <- 4, TickMod <- 2, KillArgs <- {},
  SleepArgs <- {}
Con == INSTANCE Console WITH
  Readers <- {"p1", "p2"}, Sizes <- {1, 3}, INPUT_BUF <- 2, UINT <- 4,
  COLS <- 2, ROWS <- 3, Keys <- Typed
Kbd == INSTANCE Keyboard WITH
  Keys <- Modifiers \cup {"a", "home"}, QSize <- 4
Clk == INSTANCE Rtc WITH
  NFIELDS <- 3, BASE <- 12, MaxUpdates <- 3, Starts <- BeforeCarry,
  Garbage <- {0, 9, 16, 17}

ASSUME InstanceAssumption ==
  /\ Con!ConsoleAssumption

baseVars == <<locked, cpu, IF_, ncli, intena, cpc, lk, held, saved, inintr>>
allVars == <<part, locked, cpu, IF_, ncli, intena, cpc, lk, held, saved,
             inintr, state, pid, parent, chan, killed, kstack, nextpid, pc,
             ctx, np, slp, proc, idx, irq, plock, tlock, ticks, panicked,
             buf, r, w, e, pos, n, target, lines, edit, queue, shift, down,
             caps, got, clock, phase, updates, met, t1, t2, shown, bcd>>

\* What a part leaves alone: the variables of the others.
TckRest == <<part, baseVars, buf, r, w, e, pos, n, target, lines, edit,
             queue, shift, down, caps, got, clock, phase, updates, met, t1,
             t2, shown, bcd>>
ConRest == <<part, baseVars, state, pid, parent, chan, kstack, nextpid, ctx,
             np, slp, proc, idx, irq, plock, tlock, ticks, panicked, queue,
             shift, down, caps, got, clock, phase, updates, met, t1, t2,
             shown, bcd>>
KbdRest == <<part, baseVars, state, pid, parent, chan, killed, kstack,
             nextpid, pc, ctx, np, slp, proc, idx, irq, plock, tlock,
             ticks, panicked, buf, r, w, e, pos, n, target, lines, edit,
             clock, phase, updates, met, t1, t2, shown, bcd>>
ClkRest == <<part, baseVars, state, pid, parent, chan, killed, kstack,
             nextpid, ctx, np, slp, proc, idx, irq, plock, tlock, ticks,
             panicked, buf, w, e, pos, n, target, lines, edit, queue, shift,
             down, caps, got>>
baseRest == <<part, state, pid, parent, chan, killed, kstack, nextpid, pc,
              ctx, np, slp, proc, idx, irq, plock, tlock, ticks, panicked,
              buf, r, w, e, pos, n, target, lines, edit, queue, shift, down,
              caps, got, clock, phase, updates, met, t1, t2, shown, bcd>>

\* The base while another part runs.
AtRest == SpinInit /\ lk = [c \in Cpus |-> 1]

MCInit ==
  \/ /\ part = "spinlock" /\ SpinInit
     /\ state = 0 /\ pid = 0 /\ parent = 0 /\ chan = 0 /\ killed = 0 /\
        kstack = 0 /\ nextpid = 0 /\ pc = 0 /\ ctx = 0 /\ np = 0 /\ slp = 0
        /\ proc = 0 /\ idx = 0 /\ irq = 0 /\ plock = 0 /\ tlock = 0 /\
        ticks = 0 /\ panicked = 0 /\ buf = 0 /\ r = 0 /\ w = 0 /\ e = 0 /\
        pos = 0 /\ n = 0 /\ target = 0 /\ lines = 0 /\ edit = 0 /\ queue = 0
        /\ shift = 0 /\ down = 0 /\ caps = 0 /\ got = 0 /\ clock = 0 /\
        phase = 0 /\ updates = 0 /\ met = 0 /\ t1 = 0 /\ t2 = 0 /\ shown = 0
        /\ bcd = 0
  \/ /\ part = "ticks" /\ Tck!Init /\ AtRest
     /\ buf = 0 /\ r = 0 /\ w = 0 /\ e = 0 /\ pos = 0 /\ n = 0 /\ target = 0
        /\ lines = 0 /\ edit = 0 /\ queue = 0 /\ shift = 0 /\ down = 0 /\
        caps = 0 /\ got = 0 /\ clock = 0 /\ phase = 0 /\ updates = 0 /\
        met = 0 /\ t1 = 0 /\ t2 = 0 /\ shown = 0
        /\ bcd = 0
  \/ /\ part = "adopt" /\ Ado!Init /\ AtRest
     /\ buf = 0 /\ r = 0 /\ w = 0 /\ e = 0 /\ pos = 0 /\ n = 0 /\ target = 0
        /\ lines = 0 /\ edit = 0 /\ queue = 0 /\ shift = 0 /\ down = 0 /\
        caps = 0 /\ got = 0 /\ clock = 0 /\ phase = 0 /\ updates = 0 /\
        met = 0 /\ t1 = 0 /\ t2 = 0 /\ shown = 0
        /\ bcd = 0
  \/ /\ part = "console" /\ Con!Init /\ AtRest
     /\ state = 0 /\ pid = 0 /\ parent = 0 /\ chan = 0 /\ kstack = 0 /\
        nextpid = 0 /\ ctx = 0 /\ np = 0 /\ slp = 0 /\ proc = 0 /\ idx = 0
        /\ irq = 0 /\ plock = 0 /\ tlock = 0 /\ ticks = 0 /\ panicked = 0 /\
        queue = 0 /\ shift = 0 /\ down = 0 /\ caps = 0 /\ got = 0 /\
        clock = 0 /\ phase = 0 /\ updates = 0 /\ met = 0 /\ t1 = 0 /\ t2 = 0
        /\ shown = 0
        /\ bcd = 0
  \/ /\ part = "keyboard" /\ Kbd!Init /\ AtRest
     /\ state = 0 /\ pid = 0 /\ parent = 0 /\ chan = 0 /\ killed = 0 /\
        kstack = 0 /\ nextpid = 0 /\ pc = 0 /\ ctx = 0 /\ np = 0 /\ slp = 0
        /\ proc = 0 /\ idx = 0 /\ irq = 0 /\ plock = 0 /\ tlock = 0 /\
        ticks = 0 /\ panicked = 0 /\ buf = 0 /\ r = 0 /\ w = 0 /\ e = 0 /\
        pos = 0 /\ n = 0 /\ target = 0 /\ lines = 0 /\ edit = 0 /\ clock = 0
        /\ phase = 0 /\ updates = 0 /\ met = 0 /\ t1 = 0 /\ t2 = 0 /\
        shown = 0
        /\ bcd = 0
  \/ /\ part = "rtc" /\ Clk!Init /\ AtRest
     /\ state = 0 /\ pid = 0 /\ parent = 0 /\ chan = 0 /\ killed = 0 /\
        kstack = 0 /\ nextpid = 0 /\ ctx = 0 /\ np = 0 /\ slp = 0 /\
        proc = 0 /\ idx = 0 /\ irq = 0 /\ plock = 0 /\ tlock = 0 /\
        ticks = 0 /\ panicked = 0 /\ buf = 0 /\ w = 0 /\ e = 0 /\ pos = 0 /\
        n = 0 /\ target = 0 /\ lines = 0 /\ edit = 0 /\ queue = 0 /\
        shift = 0 /\ down = 0 /\ caps = 0 /\ got = 0

MCNext ==
  \/ part = "spinlock" /\ SpinNext /\ UNCHANGED baseRest
  \/ part = "ticks" /\ Tck!Next /\ UNCHANGED TckRest
  \/ part = "adopt" /\ Ado!Next /\ UNCHANGED TckRest
  \/ part = "console" /\ Con!Next /\ UNCHANGED ConRest
  \/ part = "keyboard" /\ Kbd!Next /\ UNCHANGED KbdRest
  \/ part = "rtc" /\ Clk!Next /\ UNCHANGED ClkRest
  \/ part \in {"rtc"} /\ UNCHANGED allVars   \* these may stop

MCSpec == MCInit /\ [][MCNext]_allVars

-----------------------------------------------------------------------------
(* sleep and wakeup, wherever they are used under another lock: nobody     *)
(* sleeps past a tick in sys_sleep; init, which is given the children of   *)
(* a process that ends, does not sleep over a zombie; no reader of the     *)
(* console sleeps while there is something to read, which there is         *)
(* whenever the ring is full.                                              *)
NoLostWakeup ==
  /\ part = "ticks" => Tck!NoLostTick
  /\ part = "adopt" => Ado!ParentAlive /\ Ado!NoLostExit
  /\ part = "console" => Con!NoLostConsoleWakeup /\ Con!FullRingReadable

(* consoleintr, consoleread, cgaputc: the ring holds the bytes typed and   *)
(* edited, in order, and the cursor that follows them stays on the screen. *)
ConsoleExact == part = "console" => Con!RingHoldsInput /\ Con!CursorOnScreen

(* kbdgetc: the character is the one meant when the key was pressed, and   *)
(* no modifier stays on after its key is up.                               *)
TypedAsMeant == part = "keyboard" => Kbd!TypedAsMeant /\ Kbd!NoStuckModifier

(* cmostime: the time returned was on the clock during the call.           *)
TimeWasShown == part = "rtc" => Clk!TimeWasShown
=============================================================================
