-------------------------------- MODULE Log ---------------------------------
(***************************************************************************)
(* The redo log (log.c): group commit of concurrent system calls, the      *)
(* four phases of commit(), a crash before or after any single disk write, *)
(* and recovery at boot (initlog).  A block write (bwrite) is atomic; the  *)
(* buffer cache holds the blocks in valid; those pinned with B_DIRTY are in *)
(* dirty, any other block nobody holds may be evicted and is read again.   *)
(***************************************************************************)
EXTENDS Integers, FiniteSets, Sequences, Functions

CONSTANTS
  Procs, Blocks, Vals,
  MAXOPBLOCKS,  \* max # of blocks any FS op writes (param.h)
  LOGSIZE,      \* entries of logheader.block (param.h)
  NLOG,         \* sb.nlog: blocks of the log on disk, header included (mkfs.c)
  AfterLog      \* the block that follows the log on disk

\* What the modules that instantiate this one assume of the constants.
LogAssumption ==
  /\ MAXOPBLOCKS \in Nat \ {0} /\ LOGSIZE \in Nat /\ NLOG \in Nat
  /\ LOGSIZE <= NLOG /\ MAXOPBLOCKS <= LOGSIZE
  /\ AfterLog \in Blocks /\ IsFiniteSet(Procs)

VARIABLES
  home, logd, hdr,         \* disk: home locations, log blocks, log header
  cache, valid, dirty,     \* buffer cache: contents, cached blocks, pinned blocks
  lh, outstanding, committing,  \* struct log
  phase, tail,             \* where commit() or recovery is
  rec,                     \* recover_from_log is running (boot)
  pc, asleep,              \* threads; the ones asleep on &log
  held,                    \* the buffer a thread has modified and holds (or none)
  wrote,                   \* blocks the current op has written
  panicked

disk == <<home, logd, hdr>>
mem == <<lh, outstanding, committing>>
vars == <<disk, cache, valid, dirty, mem, phase, tail, rec, pc, asleep, held, wrote, panicked>>

NoBlock == {}
-----------------------------------------------------------------------------
(* Log block i (1-based) is at log.start+i; the last one of a full header  *)
(* falls on the block after the log when nlog does not leave room for it.  *)
LogAt(i) == IF i < NLOG THEN logd[i] ELSE home[AfterLog]

(* What recovery makes of the disk as it is now.                           *)
Recovered ==
  [b \in Blocks |-> IF b \in Range(hdr)
                      THEN LogAt(CHOOSE i \in 1 .. Len(hdr) : hdr[i] = b)
                      ELSE home[b]]

(* bread: the cached contents, else those on disk.                         *)
bread(b) == IF b \in valid THEN cache[b] ELSE home[b]

(* A disk made by mkfs, at boot: read_head has found an empty log.         *)
Init ==
  /\ home \in [Blocks -> Vals] /\ cache = home /\ valid = {}
  /\ logd = [i \in 1 .. LOGSIZE |-> home[AfterLog]]
  /\ hdr = <<>> /\ lh = <<>>
  /\ dirty = {} /\ outstanding = 0 /\ committing = FALSE
  /\ phase = "install" /\ tail = 1 /\ rec = TRUE
  /\ pc = [p \in Procs |-> "out"] /\ asleep = {}
  /\ held = [p \in Procs |-> NoBlock] /\ wrote = [p \in Procs |-> {}]
  /\ panicked = FALSE

Up == ~rec /\ ~panicked

(* A system call that writes starts: it calls begin_op.                    *)
Call(p) ==
  /\ Up /\ pc[p] = "out"
  /\ pc' = [pc EXCEPT ![p] = "begin"]
  /\ UNCHANGED <<disk, cache, valid, dirty, mem, phase, tail, rec, asleep, held, wrote, panicked>>

(* Faulty: the new operation's own blocks are not counted.                 *)
NoSpaceForgetsSelf == Len(lh) + outstanding * MAXOPBLOCKS > LOGSIZE

(* This op might exhaust log space.                                        *)
NoSpace == Len(lh) + (outstanding + 1) * MAXOPBLOCKS > LOGSIZE

(* log.outstanding += 1                                                    *)
Counted == outstanding + 1

begin_op(p) ==
  /\ Up /\ pc[p] = "begin" /\ p \notin asleep
  /\ IF committing \/ NoSpace
       THEN asleep' = asleep \cup {p} /\ UNCHANGED <<outstanding, pc>>
       ELSE /\ outstanding' = Counted
            /\ pc' = [pc EXCEPT ![p] = "op"]
            /\ UNCHANGED asleep
  /\ UNCHANGED <<disk, cache, valid, dirty, lh, committing, phase, tail, rec, held,
                 wrote, panicked>>

(* The caller reads and modifies a buffer it locks, at most MAXOPBLOCKS    *)
(* different ones in an operation; log_write tests the size of the         *)
(* transaction before it takes log.lock (its other test, outstanding < 1,  *)
(* cannot fail inside an operation).                                       *)
Modify(p, b, v) ==
  /\ Up /\ pc[p] = "op" /\ Cardinality(wrote[p] \cup {b}) <= MAXOPBLOCKS
  /\ \A q \in Procs : b \notin held[q]
  /\ cache' = [cache EXCEPT ![b] = v] /\ valid' = valid \cup {b}
  /\ held' = [held EXCEPT ![p] = {b}]
  /\ wrote' = [wrote EXCEPT ![p] = @ \cup {b}]
  /\ IF Len(lh) >= LOGSIZE \/ Len(lh) >= NLOG - 1
       THEN panicked' = TRUE /\ UNCHANGED pc
       ELSE pc' = [pc EXCEPT ![p] = "log"] /\ UNCHANGED panicked
  /\ UNCHANGED <<disk, dirty, mem, phase, tail, rec, asleep>>

(* log_write under log.lock: absorb or append, pin with B_DIRTY.           *)
Record(b) ==
  /\ lh' = IF b \in Range(lh) THEN lh ELSE Append(lh, b)
  /\ dirty' = dirty \cup {b}

log_write(p) ==
  /\ Up /\ pc[p] = "log"
  /\ \E b \in held[p] : Record(b)
  /\ held' = [held EXCEPT ![p] = NoBlock]
  /\ pc' = [pc EXCEPT ![p] = "op"]
  /\ UNCHANGED <<disk, cache, valid, outstanding, committing, phase, tail, rec, asleep, wrote, panicked>>

(* Faulty: nobody waiting for log space is told.                           *)
EndWakeupsNone == asleep

(* wakeup(&log): nobody is left asleep.                                    *)
EndWakeups == {}

end_op(p) ==
  /\ Up /\ pc[p] = "op"
  /\ outstanding' = outstanding - 1
  /\ wrote' = [wrote EXCEPT ![p] = {}]
  /\ IF committing
       THEN panicked' = TRUE /\ UNCHANGED <<pc, asleep, committing, phase, tail>>
       ELSE IF outstanding > 1
         THEN /\ pc' = [pc EXCEPT ![p] = "out"]
              /\ asleep' = EndWakeups
              /\ UNCHANGED <<committing, phase, tail, panicked>>
         ELSE /\ pc' = [pc EXCEPT ![p] = "commit"]
              /\ committing' = TRUE
              /\ phase' = (IF Len(lh) > 0 THEN "log" ELSE "done") /\ tail' = 1
              /\ UNCHANGED <<asleep, panicked>>
  /\ UNCHANGED <<disk, cache, valid, dirty, lh, rec, held>>
-----------------------------------------------------------------------------
(* commit, phase 1, write_log: one log block.                              *)
write_log ==
  /\ ~panicked /\ phase = "log" /\ tail <= Len(lh)
  /\ IF tail < NLOG
       THEN /\ logd' = [logd EXCEPT ![tail] = bread(lh[tail])]
            /\ UNCHANGED <<home, cache, valid, dirty>>
       ELSE /\ home' = [home EXCEPT ![AfterLog] = bread(lh[tail])]
            /\ cache' = [cache EXCEPT ![AfterLog] = bread(lh[tail])]
            /\ valid' = valid \cup {AfterLog} /\ dirty' = dirty \ {AfterLog}
            /\ UNCHANGED logd
  /\ tail' = tail + 1
  /\ UNCHANGED <<hdr, mem, phase, rec, pc, asleep, held, wrote, panicked>>

(* Faulty: the header goes to disk before the last log block.              *)
HeadReadyEarly == tail = Len(lh)

HeadReady == tail > Len(lh)

(* Phase 2, write_head: the real commit.                                   *)
write_head ==
  /\ ~panicked /\ phase = "log" /\ HeadReady
  /\ hdr' = lh
  /\ phase' = "install" /\ tail' = 1
  /\ UNCHANGED <<home, logd, cache, valid, dirty, mem, rec, pc, asleep, held, wrote, panicked>>

(* Phase 3, install_trans (also in recovery): one home block, unpinned.    *)
install_trans ==
  /\ ~panicked /\ phase = "install" /\ tail <= Len(lh)
  /\ home' = [home EXCEPT ![lh[tail]] = LogAt(tail)]
  /\ cache' = [cache EXCEPT ![lh[tail]] = LogAt(tail)]
  /\ valid' = valid \cup {lh[tail]} /\ dirty' = dirty \ {lh[tail]}
  /\ tail' = tail + 1
  /\ UNCHANGED <<logd, hdr, mem, phase, rec, pc, asleep, held, wrote, panicked>>

(* Phase 4, log.lh.n = 0 and write_head: erase the transaction.            *)
clear_head ==
  /\ ~panicked /\ phase = "install" /\ tail > Len(lh)
  /\ lh' = <<>> /\ hdr' = <<>>
  /\ phase' = IF rec THEN "none" ELSE "done"
  /\ tail' = 1 /\ rec' = FALSE
  /\ UNCHANGED <<home, logd, cache, valid, dirty, outstanding, committing, pc, asleep,
                 held, wrote, panicked>>

(* The end of end_op.                                                      *)
commit_done(p) ==
  /\ Up /\ pc[p] = "commit" /\ phase = "done"
  /\ committing' = FALSE /\ asleep' = {} /\ phase' = "none"
  /\ pc' = [pc EXCEPT ![p] = "out"]
  /\ UNCHANGED <<disk, cache, valid, dirty, lh, outstanding, tail, rec, held, wrote, panicked>>

(* bget recycles a buffer that nobody holds and that is not B_DIRTY; the   *)
(* block is read again later.                                              *)
Evict(b) ==
  /\ ~panicked /\ b \in valid \ dirty /\ \A p \in Procs : b \notin held[p]
  /\ valid' = valid \ {b}
  /\ cache' = [cache EXCEPT ![b] = home[b]]
  /\ UNCHANGED <<disk, dirty, mem, phase, tail, rec, pc, asleep, held, wrote, panicked>>

(* Power fails, or a panicked machine is reset: memory is lost; at boot    *)
(* initlog reads the header and starts recover_from_log.                   *)
Crash ==
  /\ cache' = home /\ valid' = {} /\ dirty' = {}
  /\ lh' = hdr /\ outstanding' = 0 /\ committing' = FALSE
  /\ phase' = "install" /\ tail' = 1 /\ rec' = TRUE
  /\ pc' = [p \in Procs |-> "out"] /\ asleep' = {}
  /\ held' = [p \in Procs |-> NoBlock] /\ wrote' = [p \in Procs |-> {}]
  /\ panicked' = FALSE
  /\ UNCHANGED disk

ThreadStep(p) ==
  begin_op(p) \/ log_write(p) \/ end_op(p) \/ commit_done(p)

CommitStep == write_log \/ write_head \/ install_trans \/ clear_head

Next ==
  \/ \E p \in Procs : Call(p) \/ ThreadStep(p) \/ \E b \in Blocks, v \in Vals : Modify(p, b, v)
  \/ CommitStep \/ Crash \/ \E b \in Blocks : Evict(b)

Spec == Init /\ [][Next]_vars

-----------------------------------------------------------------------------
(* Type invariant.                                                         *)
TypeOK ==
  /\ home \in [Blocks -> Vals] /\ cache \in [Blocks -> Vals]
  /\ logd \in [1 .. LOGSIZE -> Vals]
  /\ hdr \in Seq(Blocks) /\ lh \in Seq(Blocks) /\ Len(hdr) <= LOGSIZE
  /\ dirty \subseteq Blocks /\ valid \subseteq Blocks
  /\ outstanding \in 0 .. Cardinality(Procs) /\ committing \in BOOLEAN
  /\ phase \in {"none", "log", "install", "done"} /\ tail \in 1 .. (LOGSIZE + 1)
  /\ rec \in BOOLEAN /\ panicked \in BOOLEAN
  /\ pc \in [Procs -> {"out", "begin", "op", "log", "commit"}]
  /\ asleep \subseteq Procs
  /\ held \in [Procs -> {NoBlock} \cup {{b} : b \in Blocks}]
  /\ wrote \in [Procs -> SUBSET Blocks]

(* begin_op/end_op: a thread sleeps on &log only while a commit is running *)
(* or while there is no space: whoever changes that wakes it.              *)
NoLostLogWakeup ==
  asleep # {} => committing \/ NoSpace

(* The operations between begin_op and end_op, and the blocks they may     *)
(* still add to the log: of its MAXOPBLOCKS places an operation has used   *)
(* one per block written, except for a block that log_write is yet to      *)
(* record.                                                                 *)
Active == {p \in Procs : pc[p] \in {"op", "log"}}
Pending ==
  {x \in Active \X (1 .. MAXOPBLOCKS) :
     \/ x[2] > Cardinality(wrote[x[1]])
     \/ x[2] = Cardinality(wrote[x[1]]) /\ ~(held[x[1]] \subseteq Range(lh))}

(* begin_op's reservation: what is logged plus what every operation in     *)
(* progress may still log never exceeds the header's LOGSIZE entries.      *)
Reservation == ~rec => Len(lh) + Cardinality(Pending) <= LOGSIZE

(* begin_op, end_op: the space of the log is neither promised twice nor    *)
(* left unused by a thread that waits for it.                              *)
LogSpace == Reservation /\ NoLostLogWakeup

(* commit/recover_from_log: the disk with the log on top of it behaves as  *)
(* AtomicDisk, across crashes at every disk write and during recovery.     *)
Current == IF rec THEN Recovered ELSE [b \in Blocks |-> bread(b)]
Atomic == INSTANCE AtomicDisk WITH
            durable <- Recovered, current <- Current, active <- outstanding
ImplementsAtomicDisk == Atomic!Spec

(* What a thread between begin_op and end_op has done so far.              *)
ThreadOK(p) ==
  /\ pc[p] = "log" => held[p] # {}
  /\ held[p] # {} => pc[p] = "log" \/ (panicked /\ pc[p] = "op")
  /\ p \in asleep => pc[p] = "begin"
  /\ p \notin Active => wrote[p] = {}
  /\ IsFiniteSet(wrote[p]) /\ Cardinality(wrote[p]) <= MAXOPBLOCKS
  /\ held[p] \subseteq wrote[p] /\ wrote[p] \subseteq Range(lh) \cup held[p]
  /\ \A q \in Procs : held[p] \cap held[q] # {} => p = q
Threads == outstanding = Cardinality(Active) /\ \A p \in Procs : ThreadOK(p)

(* Where a commit or the recovery is: one thread commits, and no operation *)
(* is in progress; the header on disk is that of the blocks to install.    *)
Commits ==
  /\ rec => /\ phase = "install" /\ ~committing /\ asleep = {}
            /\ \A p \in Procs : pc[p] = "out"
  /\ ~rec => (committing <=> phase # "none")
  /\ committing => Active = {}
  /\ \A p \in Procs : pc[p] = "commit" => committing
  /\ \A p, q \in Procs : pc[p] = "commit" /\ pc[q] = "commit" => p = q
  /\ phase = "done" => Len(lh) = 0
  /\ hdr = IF phase = "install" THEN lh ELSE <<>>
  /\ \A i, j \in 1 .. Len(lh) : lh[i] = lh[j] => i = j
  /\ Len(lh) <= LOGSIZE

(* The pinned buffers are those of the recorded blocks not installed yet;  *)
(* any other buffer that nobody holds agrees with the disk.                *)
Pinned ==
  /\ dirty \subseteq valid /\ \A p \in Procs : held[p] \subseteq valid
  /\ dirty = IF rec THEN {}
             ELSE {lh[i] : i \in {j \in 1 .. Len(lh) : phase = "install" => j >= tail}}
  /\ \A b \in valid \ dirty : (\A p \in Procs : b \notin held[p]) => cache[b] = home[b]

(* The blocks in the log are the ones to be installed, and the installed   *)
(* ones are those in the log.                                              *)
Logged ==
  \A i \in 1 .. Len(lh) :
    /\ (phase = "log" /\ i < tail) \/ (phase = "install" /\ ~rec) =>
         logd[i] = bread(lh[i])
    /\ phase = "install" /\ i < tail => home[lh[i]] = logd[i]

(* The inductive invariants behind LogSpace and behind the refinement of   *)
(* AtomicDisk, the latter while the log on disk does not overflow.         *)
SpaceInv == TypeOK /\ Threads /\ Commits /\ LogSpace
DiskInv == Pinned /\ Logged

(* param.h:11 "max data blocks in on-disk log", log.c:218: a transaction   *)
(* that does not fit the blocks of the log on disk panics before it is     *)
(* recorded, so every recorded block has its place in the log.             *)
LogFits == Len(lh) <= NLOG - 1
=============================================================================
