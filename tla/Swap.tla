-------------------------------- MODULE Swap --------------------------------
(***************************************************************************)
(* User memory: the page allocator (kalloc.c), the page tables (vm.c),     *)
(* sbrk, fork, exec and exit as far as they change them (proc.c, exec.c),  *)
(* the page fault (trap.c) and the swapping of pages (pageswap.c).  A step *)
(* ends where the kernel may sleep in disk I/O or where another CPU may    *)
(* see what it did.  Page contents are single values; frames of kernel     *)
(* stack, page directory and page table of a process count as one (root).  *)
(***************************************************************************)
EXTENDS Integers, FiniteSets, FiniteSetsExt

CONSTANTS
  NPROC, MaxPages,   \* process slots; pages below KERNBASE
  NFRAME, NSLOT,     \* frames kalloc manages; swap slots (800)
  SwapReady,         \* whether swapInit has run before the first process
  Calls,             \* system calls the programs make
  GrowArgs, ShrinkArgs,  \* sizes for sbrk, in units of which PGSIZE make a page
  ExecPages,         \* pages of a program's segments
  Stored,            \* values the programs store
  MaxTries,          \* bound on the calls of checkAswap for one page (8 suffices)
  Wild,              \* programs also touch addresses they did not allocate
  Threshold0, NPages0, Alpha, Beta, Limit,  \* policy (pageswap.c:30-42)
  RssMod             \* rss is unsigned modulo RssMod (2^32)

PGSIZE == 2
Procs == 1 .. NPROC
Dirs == 1 .. (2 * NPROC)
Pages == 0 .. (MaxPages - 1)
Frames == 0 .. (NFRAME - 1)
Slots == 0 .. (NSLOT - 1)
Values == {0} \cup Stored
Junk == 2            \* what memset in kalloc and kfree leaves in a page

\* What the modules that instantiate this one assume of the constants.
SwapAssumption ==
  /\ NPROC \in Nat \ {0} /\ MaxPages \in Nat \ {0} /\ NFRAME >= 2
  /\ NSLOT \in Nat /\ RssMod \in Nat \ {0} /\ ExecPages + 2 <= MaxPages
  /\ Stored \subseteq {0, 1} /\ MaxTries \in Nat
  /\ Calls \subseteq {"sbrk", "fork", "exec", "exit"}

VARIABLES
  state, dir, sz, rss,     \* struct proc
  cr3,                     \* page table of the CPU while the process runs
  pt, root,                \* page tables, and the frame each one occupies
  free, mem,               \* kmem.freelist and the contents of the frames
  isfree, perm, disk,      \* swap_area.slots and the blocks of the slots
  threshold, npages,
  call,                    \* what each process is doing in the kernel
  ev,                      \* its run of swapout, if any
  want                     \* what the program last stored in each page

procs == <<state, dir, sz, rss>>
tables == <<pt, root, want>>
slots == <<isfree, perm, disk>>
vars == <<procs, cr3, tables, free, mem, slots, threshold, npages, call, ev>>

Nothing == -1
Flags(u, a) == [u |-> u, a |-> a]
NoFlags == Flags(FALSE, FALSE)
(* A page table entry: present bit, frame or slot number, PTE_U, PTE_A.    *)
Pte(p, n, f) == [p |-> p, n |-> n, u |-> f.u, a |-> f.a]
ZeroPte == Pte(FALSE, 0, NoFlags)
FlagsOf(e) == Flags(e.u, e.a)
NoTable == [v \in Pages |-> ZeroPte]
Idle == [op |-> "user", at |-> "user", i |-> 0, to |-> 0, tries |-> 0,
         pa |-> 0, fl |-> NoFlags, slot |-> 0, dup |-> 0, new |-> 0, child |-> 0]
NoEv == [at |-> "none", vic |-> 0, pgdir |-> 0, va |-> 0, pa |-> 0, slot |-> 0,
         done |-> 0, att |-> 0]

PageUp(n) == (n + PGSIZE - 1) \div PGSIZE

(* userinit and inituvm: one page, for init.                               *)
Init ==
  /\ state = [p \in Procs |-> IF p = 1 THEN "RUN" ELSE "UNUSED"]
  /\ dir = [p \in Procs |-> IF p = 1 THEN 1 ELSE 0]
  /\ sz = [p \in Procs |-> IF p = 1 THEN PGSIZE ELSE 0]
  /\ rss = [p \in Procs |-> IF p = 1 THEN 1 ELSE 0]
  /\ cr3 = dir
  /\ pt = [d \in Dirs |-> IF d = 1 THEN [NoTable EXCEPT
             ![0] = Pte(TRUE, 1, Flags(TRUE, FALSE))] ELSE NoTable]
  /\ root = [d \in Dirs |-> IF d = 1 THEN 0 ELSE Nothing]
  /\ want = [d \in Dirs |-> [v \in Pages |-> 0]]
  /\ free = Frames \ {0, 1}
  /\ mem = [f \in Frames |-> IF f <= 1 THEN 0 ELSE Junk]
  /\ isfree = IF SwapReady THEN Slots ELSE {}
  /\ perm = [s \in Slots |-> NoFlags] /\ disk = [s \in Slots |-> Junk]
  /\ threshold = Threshold0 /\ npages = NPages0
  /\ call = [p \in Procs |-> Idle] /\ ev = [p \in Procs |-> NoEv]

InUser(p) == state[p] = "RUN" /\ call[p].op = "user"
InCall(p, at) == call[p].at = at /\ ev[p] = NoEv
Table(p) == pt[dir[p]]
Begin(p, c) == call' = [call EXCEPT ![p] = c]
Return(p) == Begin(p, Idle)
Reload(p) == cr3' = [cr3 EXCEPT ![p] = dir[p]]
FramesOf(t) == {t[v].n : v \in {w \in Pages : t[w].p}}
SlotsOf(t) == {t[v].n : v \in {w \in Pages : ~t[w].p /\ t[w] # ZeroPte}}
kfree(fs) == /\ free' = free \cup fs
             /\ mem' = [f \in Frames |-> IF f \in fs THEN Junk ELSE mem[f]]

-----------------------------------------------------------------------------
(* The program touches a page: it stores x there (or loads, x being there  *)
(* already).  The access is retried after every fault that trap handles.   *)
Touch(p, v, x) ==
  /\ InUser(p) /\ (Wild \/ v < PageUp(sz[p]))
  /\ Begin(p, [Idle EXCEPT !.op = "access", !.at = "access", !.i = v, !.to = x])
  /\ UNCHANGED <<procs, cr3, tables, free, mem, slots, threshold, npages, ev>>

Accessible(e) == e.p /\ e.u

Hit(p) ==
  LET v == call[p].i
      e == pt[cr3[p]][v] IN
  /\ InCall(p, "access") /\ Accessible(e)
  /\ pt' = [pt EXCEPT ![cr3[p]][v].a = TRUE]
  /\ mem' = [mem EXCEPT ![e.n] = call[p].to]
  /\ want' = [want EXCEPT ![dir[p]][v] = call[p].to]
  /\ Return(p)
  /\ UNCHANGED <<procs, cr3, root, free, slots, threshold, npages, ev>>

(* Faulty: swappage_in forgets freeslot.                                   *)
freeslotsNone(ss) == UNCHANGED slots

freeslots(ss) ==
  /\ isfree' = isfree \cup ss
  /\ perm' = [s \in Slots |-> IF s \in ss THEN NoFlags ELSE perm[s]]
  /\ disk' = disk

(* exit as far as memory goes; init exiting is a panic.                    *)
Leave(p) ==
  /\ state' = [state EXCEPT ![p] = IF p = 1 THEN "PANIC" ELSE "ZOMBIE"]
  /\ freeslots(SlotsOf(Table(p)))
  /\ Return(p)
  /\ UNCHANGED <<dir, sz, rss>>

Exit(p) ==
  /\ "exit" \in Calls /\ InUser(p) /\ p # 1
  /\ Leave(p)
  /\ UNCHANGED <<cr3, tables, free, mem, threshold, npages, ev>>

(* kalloc calls checkAswap up to twice; allocuvm and copyuvm call kalloc   *)
(* three times with a checkAswap in between, swappage_in twice.            *)
Tries(op) == Min({MaxTries, CASE op \in {"grow", "load", "copy"} -> 2 + 1 + 2 + 1 + 2
                              [] op \in {"fault", "dupin"} -> 2 + 1 + 2
                              [] OTHER -> 2})
Wants(c, op) == [c EXCEPT !.op = op, !.at = "kalloc", !.tries = Tries(op)]

(* The slot of an entry that is not present, and whether it can be read.   *)
Readable(e) == e.n \in Slots /\ e.n \notin isfree

(* trap with T_PGFLT, and the tests of swappage_in before its kalloc, where *)
(* it keeps the slot.  If the entry is present the handler returns and the *)
(* access faults again.                                                    *)
PageFault(p) ==
  LET e == Table(p)[call[p].i] IN
  /\ InCall(p, "access") /\ ~Accessible(pt[cr3[p]][call[p].i])
  /\ ~e.p
  /\ IF Readable(e)
     THEN /\ Begin(p, [Wants(call[p], "fault") EXCEPT !.slot = e.n])
          /\ UNCHANGED <<procs, slots>>
     ELSE Leave(p)
  /\ UNCHANGED <<cr3, tables, free, mem, threshold, npages, ev>>

deallocuvm(t, new, old) ==
  [v \in Pages |-> IF v \in PageUp(new) .. (PageUp(old) - 1) /\ t[v].p
                    THEN ZeroPte ELSE t[v]]

Grown(p, n) ==
  (rss[p] + n \div PGSIZE + (IF n % PGSIZE # 0 THEN 1 ELSE 0)) % RssMod

KERNBASE == MaxPages * PGSIZE + 1

(* growproc(n), n > 0, up to the first kalloc of allocuvm.                 *)
Grow(p, n) ==
  LET new == sz[p] + n IN
  /\ "sbrk" \in Calls /\ InUser(p) /\ new < KERNBASE
  /\ IF PageUp(sz[p]) = PageUp(new)
     THEN /\ sz' = [sz EXCEPT ![p] = new]
          /\ rss' = [rss EXCEPT ![p] = Grown(p, n)]
          /\ Reload(p) /\ UNCHANGED call
     ELSE /\ Begin(p, [Wants(Idle, "grow") EXCEPT !.i = PageUp(sz[p]), !.to = new])
          /\ UNCHANGED <<sz, rss, cr3>>
  /\ UNCHANGED <<state, dir, tables, free, mem, slots, threshold, npages, ev>>

(* growproc(-n) by a program that keeps some of its memory.                *)
Shrink(p, n) ==
  LET new == sz[p] - n
      t == deallocuvm(Table(p), new, sz[p]) IN
  /\ "sbrk" \in Calls /\ InUser(p) /\ new > 0
  /\ pt' = [pt EXCEPT ![dir[p]] = t]
  /\ kfree(FramesOf(Table(p)) \ FramesOf(t))
  /\ sz' = [sz EXCEPT ![p] = new]
  /\ rss' = [rss EXCEPT ![p] =
       (@ + RssMod - n \div PGSIZE + (IF n % PGSIZE # 0 THEN 1 ELSE 0)) % RssMod]
  /\ Reload(p)
  /\ UNCHANGED <<state, dir, root, want, slots, threshold, npages, call, ev>>

NewDir == Min({d \in Dirs : root[d] = Nothing})

(* fork up to allocproc, and exec up to setupkvm.                          *)
Fork(p, q) ==
  /\ "fork" \in Calls /\ InUser(p) /\ state[q] = "UNUSED"
  /\ state' = [state EXCEPT ![q] = "EMBRYO"] /\ rss' = [rss EXCEPT ![q] = 0]
  /\ Begin(p, [Wants(Idle, "fork") EXCEPT !.child = q])
  /\ UNCHANGED <<dir, sz, cr3, tables, free, mem, slots, threshold, npages, ev>>

Exec(p) ==
  /\ "exec" \in Calls /\ InUser(p)
  /\ Begin(p, [Wants(Idle, "exec") EXCEPT !.to = ExecPages + 2])
  /\ UNCHANGED <<procs, cr3, tables, free, mem, slots, threshold, npages, ev>>

(* freevm(pgdir) for the table d; slots are left as they are.              *)
freevm(d) ==
  /\ pt' = [pt EXCEPT ![d] = NoTable]
  /\ root' = [root EXCEPT ![d] = Nothing]
  /\ kfree(FramesOf(pt[d]) \cup {root[d]})

(* wait: the parent, some process in user mode, reaps q.                   *)
Wait(q) ==
  /\ state[q] = "ZOMBIE" /\ \E r \in Procs : InUser(r)
  /\ state' = [state EXCEPT ![q] = "UNUSED"]
  /\ freevm(dir[q])
  /\ UNCHANGED <<dir, sz, rss, cr3, want, slots, threshold, npages, call, ev>>

-----------------------------------------------------------------------------
(* kalloc has the frame f: what the caller does with it up to its next     *)
(* kalloc, its next sleep, or its return.                                  *)
GotRoot(p, f) ==        \* setupkvm, for fork and for exec
  LET c == [call[p] EXCEPT !.new = NewDir] IN
  /\ call[p].op \in {"fork", "exec"}
  /\ root' = [root EXCEPT ![NewDir] = f]
  /\ pt' = [pt EXCEPT ![NewDir] = NoTable]
  /\ mem' = [mem EXCEPT ![f] = 0]
  /\ Begin(p, IF c.op = "fork" THEN [c EXCEPT !.at = "next"] ELSE Wants(c, "load"))
  /\ UNCHANGED <<procs, cr3, want, slots>>

GotGrow(p, f) ==        \* allocuvm, and the rest of growproc
  LET c == call[p]
      last == c.i + 1 = PageUp(c.to) IN
  /\ c.op = "grow"
  /\ pt' = [pt EXCEPT ![dir[p]][c.i] = Pte(TRUE, f, Flags(TRUE, FALSE))]
  /\ mem' = [mem EXCEPT ![f] = 0]
  /\ want' = [want EXCEPT ![dir[p]][c.i] = 0]
  /\ IF last
     THEN /\ Return(p) /\ Reload(p)
          /\ sz' = [sz EXCEPT ![p] = c.to]
          /\ rss' = [rss EXCEPT ![p] = Grown(p, c.to - sz[p])]
     ELSE /\ Begin(p, [Wants(c, "grow") EXCEPT !.i = @ + 1])
          /\ UNCHANGED <<sz, rss, cr3>>
  /\ UNCHANGED <<state, dir, root, slots>>

GotSwapIn(p, f) ==      \* swappage_in, for a page fault or for copyuvm
  /\ call[p].op \in {"fault", "dupin"}
  /\ Begin(p, [call[p] EXCEPT !.at = "read", !.pa = f])
  /\ mem' = [mem EXCEPT ![f] = Junk]
  /\ UNCHANGED <<procs, cr3, tables, slots>>

GotCopy(p, f) ==        \* copyuvm: memmove and mappages
  LET c == call[p] IN
  /\ c.op \in {"copy", "dupcopy"}
  /\ mem' = [mem EXCEPT ![f] = mem[c.pa]]
  /\ pt' = [pt EXCEPT ![c.new][c.i] = Pte(TRUE, f, c.fl)]
  /\ Begin(p, [c EXCEPT !.at = "next", !.i = @ + 1])
  /\ UNCHANGED <<procs, cr3, root, want, slots>>

(* exec: allocuvm and loaduvm for the new table, with a guard page below  *)
(* the stack.                                                              *)
GotLoad(p, f) ==
  LET c == call[p]
      guard == c.i = c.to - 2 IN
  /\ c.op = "load"
  /\ pt' = [pt EXCEPT ![c.new][c.i] = Pte(TRUE, f, Flags(~guard, FALSE))]
  /\ mem' = [mem EXCEPT ![f] = 0]
  /\ Begin(p, IF c.i + 1 = c.to THEN [c EXCEPT !.at = "commit"]
              ELSE [Wants(c, "load") EXCEPT !.i = @ + 1])
  /\ UNCHANGED <<procs, cr3, root, want, slots>>

KallocOk(p) ==
  LET f == Min(free) IN
  /\ InCall(p, "kalloc") /\ free # {}
  /\ free' = free \ {f}
  /\ \/ GotRoot(p, f) \/ GotGrow(p, f) \/ GotSwapIn(p, f)
     \/ GotCopy(p, f) \/ GotLoad(p, f)
  /\ UNCHANGED <<threshold, npages, ev>>

(* swappage_in reads the slot it found in the entry before kalloc.  The    *)
(* reads may or may not sleep; after a sleep the CPU has the page table of *)
(* p again.                                                                *)
SwapInRead(p) ==
  /\ InCall(p, "read")
  /\ mem' = [mem EXCEPT ![call[p].pa] = disk[call[p].slot]]
  /\ Begin(p, [call[p] EXCEPT !.at = "map"])
  /\ UNCHANGED cr3 \/ Reload(p)
  /\ UNCHANGED <<procs, tables, free, slots, threshold, npages, ev>>

(* mappages, freeslot and rss.  The entry is still not present (else a     *)
(* panic), since only p itself maps pages in its table.                    *)
SwapInMap(p) ==
  LET c == call[p] IN
  /\ InCall(p, "map")
  /\ pt' = [pt EXCEPT ![dir[p]][c.i] = Pte(TRUE, c.pa, perm[c.slot])]
  /\ freeslots({c.slot})
  /\ rss' = [rss EXCEPT ![p] = (@ + 1) % RssMod]
  /\ Begin(p, IF c.op = "fault" THEN [c EXCEPT !.op = "access", !.at = "access", !.tries = 0]
              ELSE [Wants(c, "dupcopy") EXCEPT !.fl = perm[c.slot]])
  /\ UNCHANGED <<state, dir, sz, cr3, root, want, free, mem, threshold, npages, ev>>

(* exec commits to the new image and frees the old one.                    *)
ExecCommit(p) ==
  LET c == call[p] IN
  /\ InCall(p, "commit")
  /\ dir' = [dir EXCEPT ![p] = c.new] /\ cr3' = [cr3 EXCEPT ![p] = c.new]
  /\ sz' = [sz EXCEPT ![p] = c.to * PGSIZE] /\ rss' = [rss EXCEPT ![p] = c.to]
  /\ want' = [want EXCEPT ![c.new] = [v \in Pages |-> 0]]
  /\ freevm(dir[p])
  /\ Return(p)
  /\ UNCHANGED <<state, slots, threshold, npages, ev>>

GiveUpChild(p) == state' = [state EXCEPT ![call[p].child] = "UNUSED"]

FailFork(p) == /\ call[p].op = "fork"
               /\ GiveUpChild(p)
               /\ UNCHANGED <<pt, root, free, mem>>

FailCopy(p) == /\ call[p].op \in {"copy", "dupcopy", "dupin"}
               /\ GiveUpChild(p)
               /\ freevm(call[p].new)
FailLoad(p) == /\ call[p].op = "load"
               /\ freevm(call[p].new)
               /\ UNCHANGED state
FailExec(p) == /\ call[p].op = "exec"
               /\ UNCHANGED <<state, pt, root, free, mem>>
FailGrow(p) ==
  LET t == deallocuvm(Table(p), sz[p], call[p].to) IN
  /\ call[p].op = "grow"
  /\ pt' = [pt EXCEPT ![dir[p]] = t]
  /\ kfree(FramesOf(Table(p)) \ FramesOf(t))
  /\ UNCHANGED <<state, root>>

(* kalloc has returned 0 for the last time: the error path of the caller,  *)
(* which returns -1; a page fault ends the process.                        *)
KallocFail(p) ==
  /\ InCall(p, "kalloc") /\ free = {} /\ call[p].tries = 0
  /\ \/ /\ FailFork(p) \/ FailCopy(p) \/ FailLoad(p) \/ FailExec(p) \/ FailGrow(p)
        /\ Return(p)
        /\ UNCHANGED <<dir, sz, rss, slots>>
     \/ /\ call[p].op = "fault" /\ Leave(p)
        /\ UNCHANGED <<pt, root, free, mem>>
  /\ UNCHANGED <<cr3, want, threshold, npages, ev>>

-----------------------------------------------------------------------------
(* copyuvm, the next page of the parent: the entry is read here, before    *)
(* kalloc may sleep, and so is the slot of a page that is not present.     *)
(* duplicateslot refuses a slot that is out of range or free.              *)
ForkPage(p) ==
  LET c == call[p]
      e == Table(p)[c.i] IN
  /\ InCall(p, "next") /\ c.i < PageUp(sz[p])
  /\ Begin(p, CASE e.p -> [Wants(c, "copy") EXCEPT !.pa = e.n, !.fl = FlagsOf(e)]
              [] e = ZeroPte -> [c EXCEPT !.i = @ + 1]
              [] OTHER -> [c EXCEPT !.op = "dup", !.at = IF Readable(e) THEN "dup" ELSE "nodup",
                                    !.slot = e.n, !.fl = FlagsOf(e), !.tries = 2])
  /\ UNCHANGED <<procs, cr3, tables, free, mem, slots, threshold, npages, ev>>

(* copyuvm has returned: the rest of fork.                                 *)
ForkEnd(p) ==
  LET c == call[p]
      q == c.child IN
  /\ InCall(p, "next") /\ c.i >= PageUp(sz[p])
  /\ dir' = [dir EXCEPT ![q] = c.new] /\ cr3' = [cr3 EXCEPT ![q] = c.new]
  /\ sz' = [sz EXCEPT ![q] = sz[p]] /\ rss' = [rss EXCEPT ![q] = rss[p]]
  /\ state' = [state EXCEPT ![q] = "RUN"]
  /\ want' = [want EXCEPT ![c.new] = want[dir[p]]]
  /\ Return(p)
  /\ UNCHANGED <<pt, root, free, mem, slots, threshold, npages, ev>>

(* duplicateslot, when a slot is free: it takes the slot and its flags.    *)
DupSlot(p) ==
  LET c == call[p]
      s == Min(isfree) IN
  /\ InCall(p, "dup") /\ isfree # {}
  /\ isfree' = isfree \ {s}
  /\ perm' = [perm EXCEPT ![s] = perm[c.slot]]
  /\ Begin(p, [c EXCEPT !.at = "dupio", !.dup = s, !.tries = 0])
  /\ UNCHANGED <<procs, cr3, tables, free, mem, disk, threshold, npages, ev>>

(* It has copied the blocks, asleep in bread and bwrite; copyuvm enters    *)
(* the new slot in the child's table.                                      *)
DupDone(p) ==
  LET c == call[p] IN
  /\ InCall(p, "dupio")
  /\ disk' = [disk EXCEPT ![c.dup] = disk[c.slot]]
  /\ pt' = [pt EXCEPT ![c.new][c.i] = Pte(FALSE, c.dup, c.fl)]
  /\ Begin(p, [c EXCEPT !.at = "next", !.i = @ + 1])
  /\ Reload(p)
  /\ UNCHANGED <<procs, root, want, free, mem, isfree, perm, threshold, npages, ev>>

(* duplicateslot fails, without a slot even after two calls of checkAswap: *)
(* copyuvm swaps the page in.                                              *)
DupNone(p) ==
  LET c == call[p]
      e == Table(p)[c.i] IN
  /\ (InCall(p, "dup") /\ isfree = {} /\ c.tries = 0) \/ InCall(p, "nodup")
  /\ IF Readable(e)
     THEN /\ Begin(p, [Wants(c, "dupin") EXCEPT !.slot = e.n])
          /\ UNCHANGED <<state, pt, root, free, mem>>
     ELSE GiveUpChild(p) /\ freevm(c.new) /\ Return(p)
  /\ UNCHANGED <<dir, sz, rss, cr3, want, slots, threshold, npages, ev>>

-----------------------------------------------------------------------------
(* The integer arithmetic of checkAswap after swapout.                     *)
Adapt ==
  LET t == threshold - (threshold * Beta) \div 100
      n == npages + (npages * Alpha) \div 100 IN
  /\ threshold' = IF t < 1 THEN 1 ELSE t
  /\ npages' = IF n > Limit THEN Limit ELSE n

(* findproc: a process of the largest rss, if that is not 0.  Pids decide  *)
(* between equals; slots hold pids in any order, so any of them may win.   *)
Victims ==
  {q \in Procs : /\ state[q] # "UNUSED" /\ rss[q] > 0
                 /\ \A r \in Procs : state[r] # "UNUSED" => rss[r] <= rss[q]}

(* kalloc finds the list empty, or has failed and its caller tries again,  *)
(* or findslot has failed in duplicateslot: each then calls checkAswap,    *)
(* whatever other processes have freed meanwhile.                          *)
Short(p) ==
  /\ \/ InCall(p, "kalloc") /\ free = {}
     \/ InCall(p, "dup") /\ isfree = {}
  /\ call[p].tries > 0
  /\ Begin(p, [call[p] EXCEPT !.at = "swap", !.tries = @ - 1])
  /\ UNCHANGED <<procs, cr3, tables, free, mem, slots, threshold, npages, ev>>

GoOn(p) == Begin(p, [call[p] EXCEPT !.at = IF call[p].op = "dup" THEN "dup" ELSE "kalloc"])

(* Faulty: the test of the threshold is turned round.                      *)
checkAswapNever(p) ==
  /\ InCall(p, "swap") /\ Cardinality(free) <= threshold
  /\ GoOn(p)
  /\ UNCHANGED <<procs, cr3, tables, free, mem, slots, ev, threshold, npages>>

(* checkAswap, up to the loop of swapout.                                  *)
checkAswap(p) ==
  /\ InCall(p, "swap")
  /\ GoOn(p)
  /\ IF Cardinality(free) > threshold THEN UNCHANGED <<ev, threshold, npages>>
     ELSE IF Victims = {} THEN Adapt /\ UNCHANGED ev
     ELSE /\ \E q \in Victims : ev' = [ev EXCEPT ![p] = [NoEv EXCEPT !.at = "find", !.vic = q]]
          /\ UNCHANGED <<threshold, npages>>
  /\ UNCHANGED <<procs, cr3, tables, free, mem, slots>>

Candidates(t) == {v \in Pages : Accessible(t[v])}

(* The loop test of swapout, and findpage: the first page not accessed, or *)
(* else the first of all after PTE_A is cleared and the victim's page      *)
(* table loaded.                                                           *)
FindPage(p) ==
  LET e == ev[p]
      d == dir[e.vic]
      cold == {v \in Candidates(pt[d]) : ~pt[d][v].a}
      Found(v) == ev' = [ev EXCEPT ![p] =
        [@ EXCEPT !.at = "slot", !.va = v, !.pa = pt[d][v].n]] IN
  /\ e.at = "find" /\ e.done < npages /\ e.att < 2 * npages
  /\ Candidates(pt[d]) # {}
  /\ IF cold # {} THEN Found(Min(cold)) /\ UNCHANGED <<pt, cr3>>
     ELSE /\ Found(Min(Candidates(pt[d])))
          /\ pt' = [pt EXCEPT ![d] = [v \in Pages |->
                      IF v \in Candidates(pt[d]) THEN [@[v] EXCEPT !.a = FALSE] ELSE @[v]]]
          /\ cr3' = [cr3 EXCEPT ![p] = d]
  /\ UNCHANGED <<procs, root, want, free, mem, slots, threshold, npages, call>>

(* Faulty: the loop counts the pages it evicted but not its attempts.      *)
SwapoutEndLate(p) ==
  /\ ev[p].at = "find" /\ ev[p].done >= npages
  /\ ev' = [ev EXCEPT ![p] = NoEv] /\ Adapt
  /\ UNCHANGED <<procs, cr3, tables, free, mem, slots, call>>

SwapoutEnd(p) ==
  LET e == ev[p] IN
  /\ e.at = "find"
  /\ e.done >= npages \/ e.att >= 2 * npages \/ Candidates(pt[dir[e.vic]]) = {}
  /\ ev' = [ev EXCEPT ![p] = NoEv]
  /\ Adapt
  /\ UNCHANGED <<procs, cr3, tables, free, mem, slots, call>>

Again(p, k) == ev' = [ev EXCEPT ![p] = [NoEv EXCEPT !.at = "find", !.vic = ev[p].vic,
                        !.done = ev[p].done + k, !.att = ev[p].att + 1]]


(* swappageout up to its disk writes: findslot, then the test that the     *)
(* page is still present, which leaves the slot taken if it is not.  The   *)
(* pointer to the entry is kept.                                           *)
TakeSlot(p) ==
  LET e == ev[p]
      d == dir[e.vic]
      s == Min(isfree) IN
  /\ e.at = "slot"
  /\ IF isfree = {} THEN Again(p, 0) /\ UNCHANGED <<isfree, perm>>
     ELSE /\ isfree' = isfree \ {s}
          /\ IF pt[d][e.va].p
             THEN /\ perm' = [perm EXCEPT ![s] = FlagsOf(pt[d][e.va])]
                  /\ ev' = [ev EXCEPT ![p] = [e EXCEPT !.at = "write", !.pgdir = d, !.slot = s]]
             ELSE Again(p, 0) /\ UNCHANGED perm
  /\ UNCHANGED <<procs, cr3, tables, free, mem, disk, threshold, npages, call>>

(* Faulty: the buffers are released without bwrite.                        *)
WriteOutLost(p) ==
  /\ ev[p].at = "write" /\ ev' = [ev EXCEPT ![p].at = "unmap"] /\ Reload(p)
  /\ UNCHANGED <<procs, tables, free, mem, slots, threshold, npages, call>>

(* The disk writes sleep, after which p runs on its own page table.        *)
WriteOut(p) ==
  /\ ev[p].at = "write"
  /\ disk' = [disk EXCEPT ![ev[p].slot] = mem[ev[p].pa]]
  /\ ev' = [ev EXCEPT ![p].at = "unmap"]
  /\ Reload(p)
  /\ UNCHANGED <<procs, tables, free, mem, isfree, perm, threshold, npages, call>>

(* Faulty: swapout does not free the frame of the page.                    *)
UnmapLeaks(p) ==
  LET e == ev[p] IN
  /\ e.at = "unmap"
  /\ pt' = [pt EXCEPT ![e.pgdir][e.va] = Pte(FALSE, e.slot, FlagsOf(@))]
  /\ rss' = [rss EXCEPT ![e.vic] = (@ + RssMod - 1) % RssMod] /\ Again(p, 1)
  /\ UNCHANGED <<state, dir, sz, cr3, root, want, free, mem, slots, threshold, npages, call>>

(* Faulty: swapout does not count the page out of the victim's rss.        *)
UnmapUncounted(p) ==
  LET e == ev[p] IN
  /\ e.at = "unmap"
  /\ pt' = [pt EXCEPT ![e.pgdir][e.va] = Pte(FALSE, e.slot, FlagsOf(@))]
  /\ cr3' = [cr3 EXCEPT ![p] = e.pgdir]
  /\ kfree({e.pa}) /\ Again(p, 1)
  /\ UNCHANGED <<state, dir, sz, rss, root, want, slots, threshold, npages, call>>

(* The rest of swappageout, through the pointer it took before the writes, *)
(* and of the loop body of swapout.                                        *)
Unmap(p) ==
  LET e == ev[p] IN
  /\ e.at = "unmap"
  /\ pt' = [pt EXCEPT ![e.pgdir][e.va] = Pte(FALSE, e.slot, FlagsOf(@))]
  /\ cr3' = [cr3 EXCEPT ![p] = e.pgdir]
  /\ rss' = [rss EXCEPT ![e.vic] = (@ + RssMod - 1) % RssMod]
  /\ kfree({e.pa})
  /\ Again(p, 1)
  /\ UNCHANGED <<state, dir, sz, root, want, slots, threshold, npages, call>>

(* The timer takes the CPU from p; when p runs again switchuvm has loaded  *)
(* its page table.                                                         *)
Reschedule(p) ==
  /\ state[p] = "RUN" /\ cr3[p] # dir[p] /\ Reload(p)
  /\ UNCHANGED <<procs, tables, free, mem, slots, threshold, npages, call, ev>>

Kernel(p) ==
  \/ Hit(p) \/ PageFault(p) \/ SwapInRead(p) \/ SwapInMap(p)
  \/ KallocOk(p) \/ KallocFail(p) \/ ExecCommit(p) \/ ForkPage(p) \/ ForkEnd(p)
  \/ DupSlot(p) \/ DupDone(p) \/ DupNone(p) \/ Short(p) \/ checkAswap(p)
  \/ FindPage(p) \/ SwapoutEnd(p) \/ TakeSlot(p) \/ WriteOut(p) \/ Unmap(p)

User(p) ==
  \/ \E v \in Pages, x \in Stored : Touch(p, v, x)
  \/ (\E n \in GrowArgs : Grow(p, n)) \/ (\E n \in ShrinkArgs : Shrink(p, n))
  \/ \E q \in Procs : Fork(p, q)
  \/ Exec(p) \/ Exit(p) \/ Wait(p) \/ Reschedule(p)

Running == \A p \in Procs : state[p] # "PANIC"
Step(p) == Running /\ Kernel(p)
Next == \E p \in Procs : Step(p) \/ (Running /\ User(p))
Spec == Init /\ [][Next]_vars

(* A process in the kernel goes on: its disk requests complete and the     *)
(* scheduler runs it again.                                                *)
FairSpec == Spec /\ \A p \in Procs : WF_vars(Step(p)) /\ WF_vars(Running /\ Reschedule(p))

-----------------------------------------------------------------------------
FlagSet == [u : BOOLEAN, a : BOOLEAN]
PteSet == [p : BOOLEAN, n : Frames \cup Slots, u : BOOLEAN, a : BOOLEAN]
(* Type invariant.                                                         *)
TypeOK ==
  /\ state \in [Procs -> {"UNUSED", "EMBRYO", "RUN", "ZOMBIE", "PANIC"}]
  /\ dir \in [Procs -> Dirs \cup {0}] /\ cr3 \in [Procs -> Dirs \cup {0}]
  /\ sz \in [Procs -> 0 .. (KERNBASE - 1)] /\ rss \in [Procs -> 0 .. (RssMod - 1)]
  /\ pt \in [Dirs -> [Pages -> PteSet]] /\ root \in [Dirs -> Frames \cup {Nothing}]
  /\ want \in [Dirs -> [Pages -> Values]]
  /\ free \subseteq Frames /\ mem \in [Frames -> Values \cup {Junk}]
  /\ isfree \subseteq Slots /\ perm \in [Slots -> FlagSet]
  /\ disk \in [Slots -> Values \cup {Junk}]
  /\ threshold \in 1 .. Threshold0 /\ npages \in NPages0 .. Limit
  /\ \A p \in Procs : call[p].tries \in 0 .. 8 /\ ev[p].vic \in Procs \cup {0}

Alive(p) == state[p] = "RUN"

(* Every page of a process holds, in its frame or in its swap slot, what   *)
(* the program last stored there, whatever kalloc evicted, fork copied or  *)
(* a failed call undid meanwhile.                                          *)
Contents ==
  \A p \in Procs : Alive(p) => \A v \in 0 .. (PageUp(sz[p]) - 1) :
    LET e == Table(p)[v] IN
    /\ e # ZeroPte
    /\ want[dir[p]][v] = IF e.p THEN mem[e.n] ELSE disk[e.n]

Mapped == {x \in Dirs \X Pages : pt[x[1]][x[2]].p}
FrameAt(x) == pt[x[1]][x[2]].n
(* kalloc's frames are conserved: each is free, or maps exactly one page,  *)
(* or is the root of one page table that a live process or a call in       *)
(* progress owns, or is being filled by swappage_in; failed forks, execs   *)
(* and sbrks give everything back.                                         *)
FramesOwned ==
  /\ \A x, y \in Mapped : FrameAt(x) = FrameAt(y) => x = y
  /\ \A f \in Frames :
       LET owners == {d \in Dirs : root[d] = f} IN
       Cardinality(owners) + Cardinality({x \in Mapped : FrameAt(x) = f})
         + Cardinality({p \in Procs : call[p].at \in {"read", "map"} /\ call[p].pa = f})
         + (IF f \in free THEN 1 ELSE 0) = 1
  /\ \A d \in Dirs : root[d] # Nothing =>
       \E p \in Procs : \/ state[p] # "UNUSED" /\ dir[p] = d
                        \/ call[p].new = d

(* A process in user mode runs on its own page table.                      *)
OwnTable == \A p \in Procs : InUser(p) => cr3[p] = dir[p]

(* No swap slot holds the pages of two entries of live processes, and none *)
(* that such an entry refers to is on offer to findslot, however the steps *)
(* of evictions, page faults, forks and exits interleave.                  *)
SlotsUnshared ==
  LET swapped == {x \in {dir[p] : p \in {q \in Procs : Alive(q)}} \X Pages :
                    pt[x[1]][x[2]] # ZeroPte /\ ~pt[x[1]][x[2]].p} IN
  \A x \in swapped : /\ FrameAt(x) \notin isfree
                     /\ \A y \in swapped : FrameAt(x) = FrameAt(y) => x = y

(* A slot that is free, or in a page table, or in the hands of swappageout *)
(* or duplicateslot.                                                       *)
Kept(s) ==
  \/ s \in isfree \/ \E d \in Dirs : s \in SlotsOf(pt[d])
  \/ \E p \in Procs : \/ ev[p].at \in {"write", "unmap"} /\ ev[p].slot = s
                      \/ call[p].at = "dupio" /\ call[p].dup = s

(* The places where the code loses a slot: allocuvm maps a new page over   *)
(* the entry that a failed or negative sbrk left behind, freevm drops the  *)
(* table of a failed fork or of the image exec replaces, and swappageout   *)
(* takes a slot for a page that is gone.                                   *)
MapsOver(p, s) ==
  LET e == Table(p)[call[p].i] IN
  call[p].op = "grow" /\ ~e.p /\ e # ZeroPte /\ e.n = s /\ call[p].i >= PageUp(sz[p])
DropsTable(s) ==
  \E d \in Dirs : s \in SlotsOf(pt[d]) /\ root[d] # Nothing /\ root'[d] = Nothing
PageGone(p) == ev[p].at = "slot" /\ ~pt[dir[ev[p].vic]][ev[p].va].p

(* A slot is lost nowhere else: whatever evictions, page faults, forks and *)
(* exits do in between, findslot and freeslot otherwise keep every slot on *)
(* offer, in a page table or in hand.                                      *)
SlotLossesKnown ==
  \A s \in Slots : Kept(s) /\ ~Kept(s)' =>
    DropsTable(s) \/ \E p \in Procs : MapsOver(p, s) \/ PageGone(p)

Present(p) == {v \in Pages : Table(p)[v].p}
InUse(p) == {v \in 0 .. (PageUp(sz[p]) - 1) : Table(p)[v] # ZeroPte}

(* rss, which selects the victim and which the memory printer shows, is    *)
(* the number of pages of the process that are present.                    *)
RssExact == \A p \in Procs : InUser(p) => rss[p] = Cardinality(Present(p))

(* For a lone process, rss falls short of the pages present by exactly the *)
(* slots that hold none of its pages: growproc counts its pages only when  *)
(* all are there, so each page of a failing sbrk that was evicted meanwhile*)
(* leaves its slot taken and is subtracted without having been added.      *)
RssShortBySlots ==
  \A p \in Procs : InUser(p) =>
    LET stranded == (Slots \ isfree) \ {Table(p)[v].n : v \in InUse(p) \ Present(p)} IN
    (rss[p] + Cardinality(stranded)) % RssMod = Cardinality(Present(p))

(* With slots set up, an allocation of a lone process fails only when all  *)
(* of them are taken or when it has no rss left, which growproc adds only  *)
(* after the last page: kalloc and its callers try often enough.           *)
FailsOnlyWhenFull ==
  \A p \in Procs :
    (InCall(p, "kalloc") /\ free = {} /\ call[p].tries = 0 /\ Candidates(Table(p)) # {})
      => isfree = {} \/ rss[p] = 0

(* Stronger claims, which fail: no slot is lost, as swapFree would have it *)
(* (it fails for a process that shrinks, or whose sbrk fails half-way),    *)
SlotsReclaimed == \A s \in Slots : Kept(s)

(* and an allocation fails only when every slot holds a page (it fails as  *)
(* built, with swapInit after mpmain: no slot is ever on offer).           *)
SlotsFilledFirst ==
  \A p \in Procs :
    (InCall(p, "kalloc") /\ free = {} /\ call[p].tries = 0 /\ Candidates(Table(p)) # {})
      => \A s \in Slots : \E d \in Dirs : s \in SlotsOf(pt[d])

(* An access of a program completes or ends the process.                   *)
AccessEnds ==
  \A p \in Procs : InCall(p, "access") ~> (InUser(p) \/ ~Alive(p))
=============================================================================
