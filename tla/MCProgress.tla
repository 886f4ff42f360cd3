----------------------------- MODULE MCProgress -----------------------------
(***************************************************************************)
(* What must happen eventually, each part on a small instance and under    *)
(* the fairness of its own scheduling: a pipe whose writers leave; a       *)
(* console reader that is killed; the processors that main starts; disk    *)
(* requests through the buffer cache, some of which fail; command lines of *)
(* the shell, without (shell) and with failing calls (failing); and        *)
(* accesses to memory that is swapped.  Booting and the shell are also     *)
(* checked for safety here.                                                *)
(***************************************************************************)
EXTENDS Integers, Sequences

CONSTANTS Ids, Nodes, Users, Writers   \* of Boot, Shell, BufferCache and Pipe

VARIABLES
  part,   \* which part of the system this behaviour is about
  data, nread, nwrite, readopen, writeopen, freed, lock, wends, rends, pc,
  todo, asleep, killed, buf, r, w, e, pos, n, target, lines, edit, table,
  ismp, cpus, i, word, ipi, cpu, stack, started, free, uselock, inkmem,
  ready, block, refcnt, valid, dirty, lru, holder, idequeue, disk, state,
  parent, cmd, at, in, out, held, line, sh, dir, sz, rss, cr3, pt, root,
  mem, isfree, perm, threshold, npages, call, ev, want

(* Command lines, as parsecmd builds them; n numbers the nodes.            *)
Ex(k, prog) == [type |-> "EXEC", n |-> k, prog |-> prog]
Re(k, c, fd) == [type |-> "REDIR", n |-> k, cmd |-> c, fd |-> fd]
Pi(k, l, r_) == [type |-> "PIPE", n |-> k, left |-> l, right |-> r_]
Li(k, l, r_) == [type |-> "LIST", n |-> k, left |-> l, right |-> r_]
Ba(k, c) == [type |-> "BACK", n |-> k, cmd |-> c]

Lines ==
  {Pi(1, Ex(2, "yes"), Pi(3, Ex(4, "cat"), Ex(5, "true"))),
   Pi(1, Ex(2, "true"), Pi(3, Re(4, Ex(6, "cat"), 1), Ex(5, "cat"))),
   Pi(1, Li(2, Ex(4, "yes"), Ex(5, "fail")), Ex(3, "true")),
   Li(1, Pi(2, Ex(3, "true"), Ex(4, "cat")), Ba(5, Pi(6, Ex(7, "cat"), Ex(8, "cat")))),
   Pi(1, Ba(2, Re(3, Ex(4, "cat"), 0)), Ex(5, "cat")),
   Li(1, Ba(2, Pi(3, Ex(4, "cat"), Ex(5, "true"))), Li(6, Ex(7, ""), Ex(8, "cat")))}

(* Processor tables: the boot processor first, last and missing, an entry  *)
(* between processors, and more processors than cpus[] holds.              *)
Cpu(a) == [type |-> "proc", id |-> a]
OtherEntry == [type |-> "other"]
Known ==
  {<<Cpu("a"), Cpu("b"), OtherEntry, Cpu("c")>>,
   <<OtherEntry, Cpu("b"), Cpu("c"), Cpu("a")>>,
   <<Cpu("a"), Cpu("b"), Cpu("c"), Cpu("d")>>,
   <<Cpu("b"), Cpu("c")>>}

Pip == INSTANCE Pipe WITH
  Procs <- Writers \cup {"r1"}, Writers <- Writers, Readers <- {"r1"},
  Bytes <- {0}, PIPESIZE <- 1, MaxCount <- 1, CountMod <- 2
Con == INSTANCE Console WITH
  Readers <- {"p1"}, Sizes <- {1, 3}, INPUT_BUF <- 2, UINT <- 4, COLS <- 2,
  ROWS <- 2, Keys <- {"x", "\n", "^D", "^U"}
Boo == INSTANCE Boot WITH
  Boot <- "a", Tables <- Known, NCPU <- 3,
  Low <- {"l1", "l2", "l3", "l4", "l5"}, High <- {"h1", "h2"}
Cac == INSTANCE BufferCache WITH
  Threads <- Users, NBUF <- 2, Blocks <- {"k1", "k2"}, Vals <- {0},
  NoProc <- "none", NoBlock <- "none", MaxPinned <- 1, ReadErrors <- TRUE,
  op <- pc
Shl == INSTANCE Shell WITH
  Commands <- Lines, Failures <- {}
Fai == INSTANCE Shell WITH
  Commands <- Lines, Failures <- {"fork", "open", "pipe"}
Swp == INSTANCE Swap WITH
  NPROC <- 1, MaxPages <- 4, NFRAME <- 3, NSLOT <- 2, SwapReady <- TRUE,
  Calls <- {"sbrk"}, GrowArgs <- {2, 4}, ShrinkArgs <- {}, ExecPages <- 1,
  Stored <- {0}, MaxTries <- 8, Wild <- FALSE, Threshold0 <- 12,
  NPages0 <- 1, Alpha <- 25, Beta <- 10, Limit <- 100, RssMod <- 8

ASSUME InstanceAssumption ==
  /\ Con!ConsoleAssumption /\ Boo!BootAssumption
  /\ Cac!CacheAssumption /\ Swp!SwapAssumption

allVars == <<part, data, nread, nwrite, readopen, writeopen, freed, lock,
             wends, rends, pc, todo, asleep, killed, buf, r, w, e, pos, n,
             target, lines, edit, table, ismp, cpus, i, word, ipi, cpu,
             stack, started, free, uselock, inkmem, ready, block, refcnt,
             valid, dirty, lru, holder, idequeue, disk, state, parent, cmd,
             at, in, out, held, line, sh, dir, sz, rss, cr3, pt, root, mem,
             isfree, perm, threshold, npages, call, ev, want>>

\* What a part leaves alone: the variables of the others.
PipRest == <<part, buf, r, w, e, pos, n, target, lines, edit, table, ismp,
             cpus, i, word, ipi, cpu, stack, started, free, uselock, inkmem,
             ready, block, refcnt, valid, dirty, lru, holder, idequeue,
             disk, state, parent, cmd, at, in, out, held, line, sh, dir, sz,
             rss, cr3, pt, root, mem, isfree, perm, threshold, npages, call,
             ev, want>>
ConRest == <<part, data, nread, nwrite, readopen, writeopen, freed, lock,
             wends, rends, todo, asleep, table, ismp, cpus, i, word, ipi,
             cpu, stack, started, free, uselock, inkmem, ready, block,
             refcnt, valid, dirty, lru, holder, idequeue, disk, state,
             parent, cmd, at, in, out, held, line, sh, dir, sz, rss, cr3,
             pt, root, mem, isfree, perm, threshold, npages, call, ev,
             want>>
BooRest == <<part, data, nread, nwrite, readopen, writeopen, freed, lock,
             wends, rends, todo, asleep, killed, buf, r, w, e, n, target,
             lines, edit, block, refcnt, valid, dirty, lru, holder,
             idequeue, disk, state, parent, cmd, at, in, out, held, line,
             sh, dir, sz, rss, cr3, pt, root, mem, isfree, perm, threshold,
             npages, call, ev, want>>
CacRest == <<part, nread, nwrite, readopen, writeopen, freed, lock, wends,
             rends, todo, killed, r, w, e, pos, n, target, lines, edit,
             table, ismp, cpus, i, word, ipi, cpu, stack, started, free,
             uselock, inkmem, ready, state, parent, cmd, at, in, out, held,
             line, sh, dir, sz, rss, cr3, pt, root, mem, isfree, perm,
             threshold, npages, call, ev, want>>
ShlRest == <<part, data, nread, nwrite, readopen, writeopen, freed, lock,
             wends, rends, pc, todo, asleep, killed, buf, r, w, e, pos, n,
             target, lines, edit, table, ismp, cpus, i, word, ipi, cpu,
             stack, started, free, uselock, inkmem, ready, block, refcnt,
             valid, dirty, lru, holder, idequeue, disk, dir, sz, rss, cr3,
             pt, root, mem, isfree, perm, threshold, npages, call, ev,
             want>>
SwpRest == <<part, data, nread, nwrite, readopen, writeopen, freed, lock,
             wends, rends, pc, todo, asleep, killed, buf, r, w, e, pos, n,
             target, lines, edit, table, ismp, cpus, i, word, ipi, cpu,
             stack, started, uselock, inkmem, ready, block, refcnt, valid,
             dirty, lru, holder, idequeue, parent, cmd, at, in, out, held,
             line, sh>>

Init ==
  \/ /\ part = "pipe" /\ Pip!Init
     /\ buf = 0 /\ r = 0 /\ w = 0 /\ e = 0 /\ pos = 0 /\ n = 0 /\ target = 0
        /\ lines = 0 /\ edit = 0 /\ table = 0 /\ ismp = 0 /\ cpus = 0 /\
        i = 0 /\ word = 0 /\ ipi = 0 /\ cpu = 0 /\ stack = 0 /\ started = 0
        /\ free = 0 /\ uselock = 0 /\ inkmem = 0 /\ ready = 0 /\ block = 0
        /\ refcnt = 0 /\ valid = 0 /\ dirty = 0 /\ lru = 0 /\ holder = 0 /\
        idequeue = 0 /\ disk = 0 /\ state = 0 /\ parent = 0 /\ cmd = 0 /\
        at = 0 /\ in = 0 /\ out = 0 /\ held = 0 /\ line = 0 /\ sh = 0 /\
        dir = 0 /\ sz = 0 /\ rss = 0 /\ cr3 = 0 /\ pt = 0 /\ root = 0 /\
        mem = 0 /\ isfree = 0 /\ perm = 0 /\ threshold = 0 /\ npages = 0 /\
        call = 0 /\ ev = 0 /\ want = 0
  \/ /\ part = "console" /\ Con!Init
     /\ data = 0 /\ nread = 0 /\ nwrite = 0 /\ readopen = 0 /\ writeopen = 0
        /\ freed = 0 /\ lock = 0 /\ wends = 0 /\ rends = 0 /\ todo = 0 /\
        asleep = 0 /\ table = 0 /\ ismp = 0 /\ cpus = 0 /\ i = 0 /\ word = 0
        /\ ipi = 0 /\ cpu = 0 /\ stack = 0 /\ started = 0 /\ free = 0 /\
        uselock = 0 /\ inkmem = 0 /\ ready = 0 /\ block = 0 /\ refcnt = 0 /\
        valid = 0 /\ dirty = 0 /\ lru = 0 /\ holder = 0 /\ idequeue = 0 /\
        disk = 0 /\ state = 0 /\ parent = 0 /\ cmd = 0 /\ at = 0 /\ in = 0
        /\ out = 0 /\ held = 0 /\ line = 0 /\ sh = 0 /\ dir = 0 /\ sz = 0 /\
        rss = 0 /\ cr3 = 0 /\ pt = 0 /\ root = 0 /\ mem = 0 /\ isfree = 0 /\
        perm = 0 /\ threshold = 0 /\ npages = 0 /\ call = 0 /\ ev = 0 /\
        want = 0
  \/ /\ part = "boot" /\ Boo!Init
     /\ data = 0 /\ nread = 0 /\ nwrite = 0 /\ readopen = 0 /\ writeopen = 0
        /\ freed = 0 /\ lock = 0 /\ wends = 0 /\ rends = 0 /\ todo = 0 /\
        asleep = 0 /\ killed = 0 /\ buf = 0 /\ r = 0 /\ w = 0 /\ e = 0 /\
        n = 0 /\ target = 0 /\ lines = 0 /\ edit = 0 /\ block = 0 /\
        refcnt = 0 /\ valid = 0 /\ dirty = 0 /\ lru = 0 /\ holder = 0 /\
        idequeue = 0 /\ disk = 0 /\ state = 0 /\ parent = 0 /\ cmd = 0 /\
        at = 0 /\ in = 0 /\ out = 0 /\ held = 0 /\ line = 0 /\ sh = 0 /\
        dir = 0 /\ sz = 0 /\ rss = 0 /\ cr3 = 0 /\ pt = 0 /\ root = 0 /\
        mem = 0 /\ isfree = 0 /\ perm = 0 /\ threshold = 0 /\ npages = 0 /\
        call = 0 /\ ev = 0 /\ want = 0
  \/ /\ part = "cache" /\ Cac!CacheInit
     /\ nread = 0 /\ nwrite = 0 /\ readopen = 0 /\ writeopen = 0 /\
        freed = 0 /\ lock = 0 /\ wends = 0 /\ rends = 0 /\ todo = 0 /\
        killed = 0 /\ r = 0 /\ w = 0 /\ e = 0 /\ pos = 0 /\ n = 0 /\
        target = 0 /\ lines = 0 /\ edit = 0 /\ table = 0 /\ ismp = 0 /\
        cpus = 0 /\ i = 0 /\ word = 0 /\ ipi = 0 /\ cpu = 0 /\ stack = 0 /\
        started = 0 /\ free = 0 /\ uselock = 0 /\ inkmem = 0 /\ ready = 0 /\
        state = 0 /\ parent = 0 /\ cmd = 0 /\ at = 0 /\ in = 0 /\ out = 0 /\
        held = 0 /\ line = 0 /\ sh = 0 /\ dir = 0 /\ sz = 0 /\ rss = 0 /\
        cr3 = 0 /\ pt = 0 /\ root = 0 /\ mem = 0 /\ isfree = 0 /\ perm = 0
        /\ threshold = 0 /\ npages = 0 /\ call = 0 /\ ev = 0 /\ want = 0
  \/ /\ part = "shell" /\ Shl!Init
     /\ data = 0 /\ nread = 0 /\ nwrite = 0 /\ readopen = 0 /\ writeopen = 0
        /\ freed = 0 /\ lock = 0 /\ wends = 0 /\ rends = 0 /\ pc = 0 /\
        todo = 0 /\ asleep = 0 /\ killed = 0 /\ buf = 0 /\ r = 0 /\ w = 0 /\
        e = 0 /\ pos = 0 /\ n = 0 /\ target = 0 /\ lines = 0 /\ edit = 0 /\
        table = 0 /\ ismp = 0 /\ cpus = 0 /\ i = 0 /\ word = 0 /\ ipi = 0 /\
        cpu = 0 /\ stack = 0 /\ started = 0 /\ free = 0 /\ uselock = 0 /\
        inkmem = 0 /\ ready = 0 /\ block = 0 /\ refcnt = 0 /\ valid = 0 /\
        dirty = 0 /\ lru = 0 /\ holder = 0 /\ idequeue = 0 /\ disk = 0 /\
        dir = 0 /\ sz = 0 /\ rss = 0 /\ cr3 = 0 /\ pt = 0 /\ root = 0 /\
        mem = 0 /\ isfree = 0 /\ perm = 0 /\ threshold = 0 /\ npages = 0 /\
        call = 0 /\ ev = 0 /\ want = 0
  \/ /\ part = "failing" /\ Fai!Init
     /\ data = 0 /\ nread = 0 /\ nwrite = 0 /\ readopen = 0 /\ writeopen = 0
        /\ freed = 0 /\ lock = 0 /\ wends = 0 /\ rends = 0 /\ pc = 0 /\
        todo = 0 /\ asleep = 0 /\ killed = 0 /\ buf = 0 /\ r = 0 /\ w = 0 /\
        e = 0 /\ pos = 0 /\ n = 0 /\ target = 0 /\ lines = 0 /\ edit = 0 /\
        table = 0 /\ ismp = 0 /\ cpus = 0 /\ i = 0 /\ word = 0 /\ ipi = 0 /\
        cpu = 0 /\ stack = 0 /\ started = 0 /\ free = 0 /\ uselock = 0 /\
        inkmem = 0 /\ ready = 0 /\ block = 0 /\ refcnt = 0 /\ valid = 0 /\
        dirty = 0 /\ lru = 0 /\ holder = 0 /\ idequeue = 0 /\ disk = 0 /\
        dir = 0 /\ sz = 0 /\ rss = 0 /\ cr3 = 0 /\ pt = 0 /\ root = 0 /\
        mem = 0 /\ isfree = 0 /\ perm = 0 /\ threshold = 0 /\ npages = 0 /\
        call = 0 /\ ev = 0 /\ want = 0
  \/ /\ part = "swap" /\ Swp!Init
     /\ data = 0 /\ nread = 0 /\ nwrite = 0 /\ readopen = 0 /\ writeopen = 0
        /\ freed = 0 /\ lock = 0 /\ wends = 0 /\ rends = 0 /\ pc = 0 /\
        todo = 0 /\ asleep = 0 /\ killed = 0 /\ buf = 0 /\ r = 0 /\ w = 0 /\
        e = 0 /\ pos = 0 /\ n = 0 /\ target = 0 /\ lines = 0 /\ edit = 0 /\
        table = 0 /\ ismp = 0 /\ cpus = 0 /\ i = 0 /\ word = 0 /\ ipi = 0 /\
        cpu = 0 /\ stack = 0 /\ started = 0 /\ uselock = 0 /\ inkmem = 0 /\
        ready = 0 /\ block = 0 /\ refcnt = 0 /\ valid = 0 /\ dirty = 0 /\
        lru = 0 /\ holder = 0 /\ idequeue = 0 /\ parent = 0 /\ cmd = 0 /\
        at = 0 /\ in = 0 /\ out = 0 /\ held = 0 /\ line = 0 /\ sh = 0

\* The steps of the scheduler, the processors and the disk.
PipStep(x) == part = "pipe" /\ Pip!KernelStep(x) /\ UNCHANGED PipRest
ConStep(x) == part = "console" /\ Con!Read(x) /\ UNCHANGED ConRest
BooMain == part = "boot" /\ Boo!Main /\ UNCHANGED BooRest
BooOther(x) == part = "boot" /\ Boo!Other(x) /\ UNCHANGED BooRest
CacDisk == part = "cache" /\ Cac!ideintr /\ UNCHANGED CacRest
CacStep(x) == part = "cache" /\ Cac!Work(x) /\ UNCHANGED CacRest
ShlWait == part = "failing" /\ Fai!ShellWaits /\ UNCHANGED ShlRest
ShlStep(x) == part = "failing" /\ Fai!runcmd(x) /\ UNCHANGED ShlRest
SwpStep == part = "swap" /\ Swp!Step(1) /\ UNCHANGED SwpRest
SwpRun == part = "swap" /\ Swp!Running /\ Swp!Reschedule(1) /\ UNCHANGED SwpRest

\* Whoever can go on in the kernel does, and the disk answers.
Fairness ==
  /\ \A x \in Writers \cup {"r1"} : WF_allVars(PipStep(x))
  /\ WF_allVars(ConStep("p1"))
  /\ WF_allVars(BooMain)
  /\ \A x \in Ids : WF_allVars(BooOther(x))
  /\ WF_allVars(CacDisk)
  /\ \A x \in Users : WF_allVars(CacStep(x))
  /\ WF_allVars(ShlWait)
  /\ \A x \in Nodes : WF_allVars(ShlStep(x))
  /\ WF_allVars(SwpStep)
  /\ WF_allVars(SwpRun)

Next ==
  \/ part = "pipe" /\ Pip!Next /\ UNCHANGED PipRest
  \/ part = "console" /\ Con!Next /\ UNCHANGED ConRest
  \/ part = "boot" /\ Boo!Next /\ UNCHANGED BooRest
  \/ part = "cache" /\ Cac!CacheNext /\ UNCHANGED CacRest
  \/ part = "shell" /\ Shl!Next /\ UNCHANGED ShlRest
  \/ part = "failing" /\ Fai!Next /\ UNCHANGED ShlRest
  \/ part = "swap" /\ Swp!Next /\ UNCHANGED SwpRest
  \/ part \in {"pipe", "shell", "failing", "swap"} /\ UNCHANGED allVars   \* these may stop

Spec == Init /\ [][Next]_allVars
  /\ Fairness

-----------------------------------------------------------------------------
(* startothers, kinit1, kinit2: no two processors run on one stack, a new  *)
(* processor's stack is mapped, and one processor at a time is in the free *)
(* list while it has no lock.                                              *)
StartSafe ==
  part = "boot" => Boo!StacksPrivate /\ Boo!StacksMapped /\ Boo!KmemExclusive

(* piperead, consoleread: a blocked read returns once the last writer is   *)
(* gone, and a console read whose process is killed returns as soon as it  *)
(* runs, be it woken by that kill or by a line.  (A kill between the test  *)
(* of killed and the sleep wakes nobody; then it takes the line.)          *)
ReadsEnd ==
  /\ (part = "pipe" /\ pc["r1"] \in {"rlock", "rloop", "rsleep"} /\ ~writeopen)
       ~> (part = "pipe" => pc["r1"] = "user")
  /\ (part = "console" /\ "p1" \in killed /\ pc["p1"] \in {"wake", "loop"})
       ~> (part = "console" => pc["p1"] = "user")

(* main: every processor in cpus[] ends up in its scheduler.               *)
AllStarted ==
  part = "boot" ~> (part = "boot" =>
    \/ pc = "panic"
    \/ pc = "mpmain" /\ \A k \in 1 .. Len(cpus) : cpu[cpus[k]] = "scheduler")

(* iderw, ideintr: every disk request is answered, in spite of errors; the *)
(* processes are interchangeable.                                          *)
IoCompletes ==
  (part = "cache" /\ pc["p1"] = "io") ~> (part = "cache" => pc["p1"] = "held")

(* runcmd: the shell comes back, also when a stage ends early or a call    *)
(* fails; then only background processes are left, and on the way the left *)
(* of a LIST has ended before its right side runs and no program has more  *)
(* ends of a pipe than its input and output.                               *)
CommandEnds ==
  /\ (part = "failing" /\ sh = "wait") ~> (part = "failing" => sh = "again")
  /\ [](part = "shell" => Shl!PromptAfterAll)
  /\ [](part = "failing" => Fai!ListInOrder /\ Fai!EndsPrivate)

(* trap, swappage_in: an access completes or ends the process.             *)
AccessEnds ==
  (part = "swap" /\ Swp!InCall(1, "access")) ~> (part = "swap" => Swp!InUser(1) \/ ~Swp!Alive(1))
=============================================================================
