---------------------------- MODULE BufferCache ----------------------------
(***************************************************************************)
(* The buffer cache (bio.c) with its sleep-locks (sleeplock.c) and the     *)
(* request queue of the disk driver (ide.c).  A step is one critical       *)
(* section of bcache.lock, of a sleep-lock's spinlock or of idelock.       *)
(***************************************************************************)
EXTENDS Naturals, Sequences, FiniteSets, Functions

CONSTANTS
  Threads, NBUF, Blocks, Vals, NoProc, NoBlock,
  MaxPinned,     \* buffers the log may keep dirty at a time
  ReadErrors     \* whether a disk read can fail

Bufs == 1 .. NBUF
\* What the modules that instantiate this one assume of the constants.
CacheAssumption ==
  /\ NBUF \in Nat \ {0} /\ NoProc \notin Threads /\ NoBlock \notin Blocks
  /\ IsFiniteSet(Threads)

VARIABLES
  block, refcnt, valid, dirty, data,  \* struct buf (block: dev and blockno)
  lru,         \* the list of buffers, most recently used first
  holder,      \* the sleep-lock of each buffer
  idequeue,
  disk,
  op, buf,     \* what each process does, with which buffer
  asleep

bufs == <<block, refcnt, valid, dirty, data>>
cacheVars == <<bufs, lru, holder, idequeue, disk, op, buf, asleep>>

(* binit, and iderw's idle queue.                                          *)
CacheInit ==
  /\ block = [b \in Bufs |-> NoBlock] /\ refcnt = [b \in Bufs |-> 0]
  /\ valid = {} /\ dirty = {} /\ data \in [Bufs -> Vals]
  /\ lru = [i \in Bufs |-> NBUF + 1 - i]
  /\ holder = [b \in Bufs |-> NoProc] /\ idequeue = <<>>
  /\ disk \in [Blocks -> Vals]
  /\ op = [p \in Threads |-> "idle"] /\ buf = [p \in Threads |-> 0] /\ asleep = {}

Ready(p, l) == op[p] = l /\ p \notin asleep
Now(p, l) == op' = [op EXCEPT ![p] = l]

(* Faulty: a dirty buffer that nobody references is recycled.              *)
RecyclableDirty(b) == refcnt[b] = 0

Recyclable(b) == refcnt[b] = 0 /\ b \notin dirty

Oldest == CHOOSE b \in Bufs : /\ Recyclable(b)
                              /\ \A c \in Bufs : Recyclable(c) =>
                                   \E i, j \in Bufs : i >= j /\ lru[i] = b /\ lru[j] = c

(* bget up to acquiresleep; without a recyclable buffer it panics.         *)
bgetHit(p, k, b) ==
  /\ block[b] = k
  /\ refcnt' = [refcnt EXCEPT ![b] = @ + 1]
  /\ UNCHANGED <<block, valid>>
bgetMiss(p, k, b) ==
  /\ \A c \in Bufs : block[c] # k
  /\ Recyclable(b) /\ b = Oldest
  /\ block' = [block EXCEPT ![b] = k]
  /\ refcnt' = [refcnt EXCEPT ![b] = 1]
  /\ valid' = valid \ {b}
bget(p, k, b) ==
  /\ op[p] = "idle"
  /\ bgetHit(p, k, b) \/ bgetMiss(p, k, b)
  /\ buf' = [buf EXCEPT ![p] = b] /\ Now(p, "lock")
  /\ UNCHANGED <<dirty, data, lru, holder, idequeue, disk, asleep>>

(* acquiresleep: sleep while the lock is held.                             *)
acquiresleep(p) ==
  /\ Ready(p, "lock")
  /\ IF holder[buf[p]] # NoProc
     THEN asleep' = asleep \cup {p} /\ UNCHANGED <<holder, op>>
     ELSE /\ holder' = [holder EXCEPT ![buf[p]] = p]
          /\ Now(p, IF buf[p] \in valid THEN "held" ELSE "submit")
          /\ UNCHANGED asleep
  /\ UNCHANGED <<bufs, lru, idequeue, disk, buf>>

(* The outsl of idestart: the contents of a dirty buffer go to the disk as *)
(* the request is started.                                                 *)
Started(q, dsk) ==
  IF q # <<>> /\ Head(q) \in dirty
  THEN [dsk EXCEPT ![block[Head(q)]] = data[Head(q)]] ELSE dsk

(* iderw: append the request, start the disk if it is idle, sleep.         *)
iderw(p) ==
  /\ Ready(p, "submit")
  /\ idequeue' = Append(idequeue, buf[p])
  /\ disk' = IF idequeue = <<>> THEN Started(idequeue', disk) ELSE disk
  /\ asleep' = asleep \cup {p} /\ Now(p, "io")
  /\ UNCHANGED <<bufs, lru, holder, buf>>

Done == Head(idequeue)

IdeWakeups(b) == {p \in asleep : op[p] = "io" /\ buf[p] = b}

(* ideintr: finish the first request, start the next one.  If the read     *)
(* fails the buffer keeps what it held, and is marked valid all the same.  *)
ideintr ==
  LET b == Done IN
  /\ idequeue # <<>>
  /\ idequeue' = Tail(idequeue)
  /\ \/ data' = [data EXCEPT ![b] = IF b \in dirty THEN @ ELSE disk[block[b]]]
     \/ ReadErrors /\ b \notin dirty /\ UNCHANGED data
  /\ valid' = valid \cup {b} /\ dirty' = dirty \ {b}
  /\ asleep' = asleep \ IdeWakeups(b)
  /\ disk' = Started(Tail(idequeue), disk)
  /\ UNCHANGED <<block, refcnt, lru, holder, op, buf>>

(* Faulty: the process that wakes up queues its request again.             *)
iderwDoneAgain(p) ==
  /\ Ready(p, "io") /\ Now(p, "submit")
  /\ UNCHANGED <<bufs, lru, holder, idequeue, disk, buf, asleep>>

(* The process wakes up in iderw; the request is done.                     *)
iderwDone(p) ==
  /\ Ready(p, "io") /\ Now(p, "held")
  /\ UNCHANGED <<bufs, lru, holder, idequeue, disk, buf, asleep>>

(* The holder changes the block and calls bwrite, or log_write.            *)
bwrite(p, v) ==
  /\ Ready(p, "held")
  /\ data' = [data EXCEPT ![buf[p]] = v] /\ dirty' = dirty \cup {buf[p]}
  /\ Now(p, "submit")
  /\ UNCHANGED <<block, refcnt, valid, lru, holder, idequeue, disk, buf, asleep>>
log_write(p, v) ==
  /\ Ready(p, "held") /\ Cardinality(dirty \cup {buf[p]}) <= MaxPinned
  /\ data' = [data EXCEPT ![buf[p]] = v] /\ dirty' = dirty \cup {buf[p]}
  /\ UNCHANGED <<block, refcnt, valid, lru, holder, idequeue, disk, op, buf, asleep>>

SleepWakeups(b) == {p \in asleep : op[p] = "lock" /\ buf[p] = b}

(* brelse: releasesleep, then the count and the list.                      *)
releasesleep(p) ==
  /\ Ready(p, "held") /\ Now(p, "unref")
  /\ holder' = [holder EXCEPT ![buf[p]] = NoProc]
  /\ asleep' = asleep \ SleepWakeups(buf[p])
  /\ UNCHANGED <<bufs, lru, idequeue, disk, buf>>

(* The list with the buffer moved to its head.                             *)
Moved(b) == <<b>> \o SelectSeq(lru, LAMBDA c : c # b)
Unref(p) ==
  LET b == buf[p] IN
  /\ Ready(p, "unref") /\ Now(p, "idle")
  /\ refcnt' = [refcnt EXCEPT ![b] = @ - 1]
  /\ lru' = IF refcnt[b] = 1 THEN Moved(b) ELSE lru
  /\ buf' = [buf EXCEPT ![p] = 0]
  /\ UNCHANGED <<block, valid, dirty, data, holder, idequeue, disk, asleep>>

Work(p) == \/ acquiresleep(p) \/ iderw(p) \/ iderwDone(p)
           \/ releasesleep(p) \/ Unref(p)
CacheNext == \/ ideintr
        \/ \E p \in Threads : \/ Work(p)
                            \/ \E k \in Blocks, b \in Bufs : bget(p, k, b)
                            \/ \E v \in Vals : bwrite(p, v) \/ log_write(p, v)
CacheSpec == CacheInit /\ [][CacheNext]_cacheVars
(* The disk answers, and the scheduler runs everyone.                      *)
FairCacheSpec == CacheSpec /\ WF_cacheVars(ideintr) /\ \A p \in Threads : WF_cacheVars(Work(p))

-----------------------------------------------------------------------------
(* Type invariant.                                                         *)
CacheTypeOK ==
  /\ block \in [Bufs -> Blocks \cup {NoBlock}] /\ refcnt \in [Bufs -> 0 .. Cardinality(Threads)]
  /\ valid \subseteq Bufs /\ dirty \subseteq Bufs /\ data \in [Bufs -> Vals]
  /\ lru \in [Bufs -> Bufs] /\ Range(lru) = Bufs
  /\ holder \in [Bufs -> Threads \cup {NoProc}] /\ idequeue \in Seq(Bufs)
  /\ disk \in [Blocks -> Vals] /\ asleep \subseteq Threads
  /\ op \in [Threads -> {"idle", "lock", "submit", "io", "held", "unref"}]
  /\ buf \in [Threads -> Bufs \cup {0}]

(* The cache is a store of blocks with one holder each: the value of a     *)
(* block is that of its buffer once the buffer is valid or dirty, else     *)
(* what is on disk.  A recycled buffer, a request finished out of order or *)
(* two buffers for one block would break it.                               *)
Cached(k) == {b \in Bufs : block[b] = k /\ (b \in valid \/ b \in dirty)}
Store == [k \in Blocks |-> IF Cached(k) = {} THEN disk[k]
                           ELSE data[CHOOSE b \in Cached(k) : TRUE]]
Locked(k) == {b \in Bufs : block[b] = k /\ holder[b] # NoProc}
Holder == [k \in Blocks |-> IF Locked(k) = {} THEN NoProc
                            ELSE holder[CHOOSE b \in Locked(k) : TRUE]]
BS == INSTANCE BlockStore WITH Procs <- Threads, store <- Store, holder <- Holder
ImplementsBlockStore == BS!BSSpec

(* Every disk request is answered to the process that made it.             *)
IoCompletes == \A p \in Threads : (op[p] = "io") ~> (op[p] = "held")

(* bread returns a buffer with the contents of the block.                  *)
HeldMatchesDisk ==
  \A p \in Threads : (op[p] = "held" /\ buf[p] \notin dirty) =>
    data[buf[p]] = disk[block[buf[p]]]

(* bget, brelse: a buffer counts the calls that use it; a block has one    *)
(* buffer; and the sleep-lock belongs to the call between acquiresleep and *)
(* releasesleep.                                                           *)
UsersOf(b) == {p \in Threads : buf[p] = b}
Using == {"submit", "io", "held"}
UsesCounted == \A b \in Bufs : refcnt[b] = Cardinality(UsersOf(b))
BufsOwned ==
  /\ UsesCounted
  /\ \A b, c \in Bufs : block[b] = block[c] /\ block[b] # NoBlock => b = c
  /\ \A p \in Threads : op[p] = "idle" <=> buf[p] = 0
  /\ \A p \in Threads : buf[p] # 0 => block[buf[p]] # NoBlock
  /\ \A p \in Threads, b \in Bufs : holder[b] = p <=> buf[p] = b /\ op[p] \in Using

(* iderw, ideintr: each request in the queue is that of a process asleep;  *)
(* one that is awake again has been answered.                              *)
Asked(p, b) == p \in asleep /\ op[p] = "io" /\ buf[p] = b
Requests ==
  /\ \A i \in 1 .. Len(idequeue) : \E p \in Threads : Asked(p, idequeue[i])
  /\ \A i, j \in 1 .. Len(idequeue) : idequeue[i] = idequeue[j] => i = j
  /\ \A p \in Threads : op[p] = "io" /\ p \notin asleep => buf[p] \in valid
  /\ \A p \in Threads : op[p] = "held" => buf[p] \in valid
  /\ \A p \in asleep : op[p] \in {"lock", "io"}

(* A valid buffer agrees with the disk unless it is dirty, and also when   *)
(* the disk is writing it.                                                 *)
Coherent ==
  /\ dirty \subseteq valid
  /\ \A b \in valid : block[b] # NoBlock
  /\ \A b \in valid : b \notin dirty => data[b] = disk[block[b]]
  /\ Len(idequeue) > 0 /\ idequeue[1] \in dirty =>
       data[idequeue[1]] = disk[block[idequeue[1]]]

(* The inductive invariant behind the refinement.                          *)
CacheInv == BufsOwned /\ Requests /\ Coherent
=============================================================================
