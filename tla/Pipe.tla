-------------------------------- MODULE Pipe --------------------------------
(***************************************************************************)
(* One pipe (pipe.c) with several readers and writers, its spinlock, the   *)
(* sleeps on &nread and &nwrite, kill and the closing of the ends.  User   *)
(* processes read, write and close in any order; a process that returns    *)
(* killed from a system call exits and closes what it has open.            *)
(***************************************************************************)
EXTENDS Integers, Sequences, FiniteSets

CONSTANTS
  Procs,
  Writers, Readers,  \* processes that start with the write/read end open
  Bytes,
  PIPESIZE,
  MaxCount,          \* largest n passed to read or write
  CountMod           \* nread and nwrite are unsigned modulo CountMod (2^32)

ASSUME PipeAssumption ==
  /\ PIPESIZE \in Nat \ {0} /\ CountMod \in Nat /\ MaxCount \in Nat
  /\ CountMod > PIPESIZE /\ CountMod % PIPESIZE = 0
  /\ Writers \subseteq Procs /\ Readers \subseteq Procs /\ IsFiniteSet(Procs)
  /\ Writers # {} /\ Readers # {}

VARIABLES
  data, nread, nwrite, readopen, writeopen,  \* struct pipe
  freed,     \* the page of the pipe has been given to kfree
  lock,      \* holder of p->lock, as a set
  wends, rends,  \* processes with a descriptor of the write/read end
  pc,
  todo,      \* bytes of the call still to transfer
  asleep,    \* processes in state SLEEPING
  killed

pipe == <<data, nread, nwrite, readopen, writeopen>>
vars == <<pipe, freed, lock, wends, rends, pc, todo, asleep, killed>>

Empty == nread = nwrite

(* Faulty: the sum is not taken modulo 2^32.                               *)
FullUnwrapped == nwrite = nread + PIPESIZE

Full == nwrite = (nread + PIPESIZE) % CountMod

(* pipealloc: an empty pipe, both ends open.  The counters start anywhere, *)
(* standing for the calls that came before.                                *)
Init ==
  /\ nread \in 0 .. (CountMod - 1) /\ nwrite = nread
  /\ data \in [0 .. (PIPESIZE - 1) -> Bytes]
  /\ readopen = TRUE /\ writeopen = TRUE /\ freed = FALSE
  /\ lock = {} /\ wends = Writers /\ rends = Readers
  /\ pc = [p \in Procs |-> "user"] /\ todo = [p \in Procs |-> 0]
  /\ asleep = {} /\ killed = {}

Goto(p, l) == pc' = [pc EXCEPT ![p] = l]

At(p, l) == pc[p] = l /\ p \notin asleep

(* Threads asleep on a channel are those in the sleep of the loop.         *)
SleepersOn(l) == {q \in asleep : pc[q] = l}

(* write(fd, buf, n) and read(fd, buf, n) by a process not killed.         *)
CallWrite(p, n) ==
  /\ At(p, "user") /\ p \in wends \ killed
  /\ Goto(p, "wlock") /\ todo' = [todo EXCEPT ![p] = n]
  /\ UNCHANGED <<pipe, freed, lock, wends, rends, asleep, killed>>

CallRead(p, n) ==
  /\ At(p, "user") /\ p \in rends \ killed
  /\ Goto(p, "rlock") /\ todo' = [todo EXCEPT ![p] = n]
  /\ UNCHANGED <<pipe, freed, lock, wends, rends, asleep, killed>>

LockFree == lock = {}

(* acquire(&p->lock), on entry and at the end of sleep().                  *)
Acquire(p) ==
  /\ At(p, "wlock") \/ At(p, "rlock")
  /\ LockFree /\ lock' = lock \cup {p}
  /\ Goto(p, IF pc[p] = "wlock" THEN "wloop" ELSE "rloop")
  /\ UNCHANGED <<pipe, freed, wends, rends, todo, asleep, killed>>

Return(p) ==
  /\ lock' = {} /\ Goto(p, "user") /\ todo' = [todo EXCEPT ![p] = 0]

(* pipewrite, one byte: data[nwrite++ % PIPESIZE] = addr[i].               *)
WriteByte(p, b) ==
  /\ At(p, "wloop") /\ todo[p] > 0 /\ ~Full
  /\ data' = [data EXCEPT ![nwrite % PIPESIZE] = b]
  /\ nwrite' = (nwrite + 1) % CountMod
  /\ todo' = [todo EXCEPT ![p] = @ - 1]
  /\ UNCHANGED <<nread, readopen, writeopen, freed, lock, wends, rends, pc, asleep, killed>>

(* All bytes written: wakeup(&p->nread), release.                          *)
WriteDone(p) ==
  /\ At(p, "wloop") /\ todo[p] = 0
  /\ asleep' = asleep \ SleepersOn("rsleep")
  /\ Return(p)
  /\ UNCHANGED <<pipe, freed, wends, rends, killed>>

(* Full: fail without a reader or when killed, else wakeup(&p->nread) and  *)
(* go on to sleep(&p->nwrite, &p->lock).                                   *)
WriteFull(p) ==
  /\ At(p, "wloop") /\ todo[p] > 0 /\ Full
  /\ IF ~readopen \/ p \in killed
       THEN Return(p) /\ UNCHANGED asleep
       ELSE /\ asleep' = asleep \ SleepersOn("rsleep")
            /\ Goto(p, "wsleep") /\ UNCHANGED <<lock, todo>>
  /\ UNCHANGED <<pipe, freed, wends, rends, killed>>

(* Faulty: an empty pipe without writers keeps its readers.                *)
MustWaitForever == Empty

(* piperead waits: the pipe is empty and some write end is open.           *)
MustWait == Empty /\ writeopen

ReadEmpty(p) ==
  /\ At(p, "rloop") /\ MustWait
  /\ IF p \in killed THEN Return(p)
                     ELSE Goto(p, "rsleep") /\ UNCHANGED <<lock, todo>>
  /\ UNCHANGED <<pipe, freed, wends, rends, asleep, killed>>

(* Leaving the wait loop: up to n bytes are copied under the lock.         *)
ReadStart(p) ==
  /\ At(p, "rloop") /\ ~MustWait
  /\ Goto(p, "rcopy")
  /\ UNCHANGED <<pipe, freed, lock, wends, rends, todo, asleep, killed>>

ReadByte(p) ==
  /\ At(p, "rcopy") /\ todo[p] > 0 /\ ~Empty
  /\ nread' = (nread + 1) % CountMod
  /\ todo' = [todo EXCEPT ![p] = @ - 1]
  /\ UNCHANGED <<data, nwrite, readopen, writeopen, freed, lock, wends, rends, pc,
                 asleep, killed>>

(* Faulty: no wakeup of the writers.                                       *)
ReadWakeupsNone == {}

ReadWakeups == SleepersOn("wsleep")

(* wakeup(&p->nwrite), release.                                            *)
ReadDone(p) ==
  /\ At(p, "rcopy") /\ (todo[p] = 0 \/ Empty)
  /\ asleep' = asleep \ ReadWakeups
  /\ Return(p)
  /\ UNCHANGED <<pipe, freed, wends, rends, killed>>

(* sleep(chan, &p->lock) up to sched(): SLEEPING and p->lock released, in  *)
(* one step because both happen under ptable.lock.  The killed test of the *)
(* loop is already past.                                                   *)
Sleep(p) ==
  /\ At(p, "wsleep") \/ At(p, "rsleep")
  /\ p \in lock
  /\ asleep' = asleep \cup {p} /\ lock' = {}
  /\ UNCHANGED <<pipe, freed, wends, rends, pc, todo, killed>>

(* Woken: the thread leaves sleep() and reacquires p->lock.                *)
Woken(p) ==
  /\ At(p, "wsleep") \/ At(p, "rsleep")
  /\ p \notin lock
  /\ Goto(p, IF pc[p] = "wsleep" THEN "wlock" ELSE "rlock")
  /\ UNCHANGED <<pipe, freed, lock, wends, rends, todo, asleep, killed>>

(* kill(): under ptable.lock only.                                         *)
Kill(p) ==
  /\ p \notin killed /\ pc[p] # "exit"
  /\ killed' = killed \cup {p} /\ asleep' = asleep \ {p}
  /\ UNCHANGED <<pipe, freed, lock, wends, rends, pc, todo>>

(* Faulty: the page is freed with the first end.                           *)
BothClosedEither == ~writeopen' \/ ~readopen'

BothClosed == ~writeopen' /\ ~readopen'

CloseWakeups(w) == IF w THEN SleepersOn("rsleep") ELSE SleepersOn("wsleep")

(* fileclose of a descriptor: pipeclose when it is the last of its end.    *)
(* The page is freed when both ends are closed.                            *)
CloseEnd(p, w) ==
  /\ LockFree
  /\ wends' = (IF w THEN wends \ {p} ELSE wends)
  /\ rends' = (IF w THEN rends ELSE rends \ {p})
  /\ writeopen' = (writeopen /\ wends' # {})
  /\ readopen' = (readopen /\ rends' # {})
  /\ asleep' = IF (w /\ wends' = {}) \/ (~w /\ rends' = {})
                 THEN asleep \ CloseWakeups(w) ELSE asleep
  /\ freed' = BothClosed
  /\ UNCHANGED <<data, nread, nwrite, lock, todo, killed>>

(* close(fd) by a user process.                                            *)
Close(p, w) ==
  /\ At(p, "user") /\ p \notin killed
  /\ p \in (IF w THEN wends ELSE rends)
  /\ CloseEnd(p, w) /\ UNCHANGED pc

(* A killed process exits when it is about to return to user space: exit   *)
(* closes its descriptors one by one.                                      *)
ExitClose(p) ==
  /\ At(p, "user") /\ p \in killed
  /\ \/ p \in wends /\ CloseEnd(p, TRUE) /\ UNCHANGED pc
     \/ p \in rends \ wends /\ CloseEnd(p, FALSE) /\ UNCHANGED pc
     \/ /\ p \notin wends \cup rends
        /\ Goto(p, "exit")
        /\ UNCHANGED <<pipe, freed, lock, wends, rends, todo, asleep, killed>>

(* Everything a thread does once it is in the kernel.                      *)
KernelStep(p) ==
  \/ Acquire(p) \/ WriteDone(p) \/ WriteFull(p) \/ ReadEmpty(p) \/ ReadStart(p)
  \/ ReadByte(p) \/ ReadDone(p) \/ Sleep(p) \/ Woken(p) \/ ExitClose(p)
  \/ \E b \in Bytes : WriteByte(p, b)

(* All processes gone.                                                     *)
Finished == (\A p \in Procs : pc[p] = "exit") /\ UNCHANGED vars

Next ==
  \/ \E p \in Procs :
       \/ KernelStep(p) \/ Kill(p)
       \/ \E n \in 0 .. MaxCount : CallWrite(p, n) \/ CallRead(p, n)
       \/ \E w \in BOOLEAN : Close(p, w)
  \/ Finished

Spec == Init /\ [][Next]_vars

(* The scheduler runs every runnable thread; nothing makes users call.     *)
FairSpec == Spec /\ \A p \in Procs : WF_vars(KernelStep(p))
-----------------------------------------------------------------------------
(* Type invariant.                                                         *)
TypeOK ==
  /\ nread \in 0 .. (CountMod - 1) /\ nwrite \in 0 .. (CountMod - 1)
  /\ data \in [0 .. (PIPESIZE - 1) -> Bytes]
  /\ readopen \in BOOLEAN /\ writeopen \in BOOLEAN /\ freed \in BOOLEAN
  /\ lock \in SUBSET Procs /\ Cardinality(lock) <= 1
  /\ wends \subseteq Procs /\ rends \subseteq Procs
  /\ pc \in [Procs -> {"user", "wlock", "wloop", "wsleep", "rlock", "rloop", "rcopy",
                       "rsleep", "exit"}]
  /\ todo \in [Procs -> 0 .. MaxCount]
  /\ asleep \subseteq Procs /\ killed \subseteq Procs

(* The bytes between the counters, the oldest first.                       *)
Queued == [i \in 1 .. ((nwrite - nread) % CountMod) |-> data[(nread + i - 1) % PIPESIZE]]

(* pipewrite/piperead: the ring, with its counters that wrap, is a bounded *)
(* FIFO queue of bytes.                                                    *)
Queue == INSTANCE ByteQueue WITH Capacity <- PIPESIZE, queue <- Queued
ImplementsByteQueue == Queue!Spec

(* sleep/wakeup in the two loops: when nobody is inside the pipe, a writer *)
(* is asleep only if it is full with a reader left, and a reader only if a *)
(* writer is left and the pipe is empty or a killed writer left bytes.     *)
NoLostPipeWakeup ==
  lock = {} => /\ SleepersOn("wsleep") # {} => Full /\ readopen
               /\ SleepersOn("rsleep") # {} =>
                    writeopen /\ (Empty \/ killed \cap Writers # {})

(* pipe.c:106 labels the wait of piperead "pipe-empty": when nobody is     *)
(* inside the pipe, a reader sleeps only on an empty pipe.  pipewrite      *)
(* returns -1 to a killed writer without wakeup(&p->nread).                *)
ReaderSleepsOnEmpty ==
  lock = {} /\ SleepersOn("rsleep") # {} => Empty

(* pipeclose: the page is freed exactly when no descriptor is left, and no *)
(* thread is inside the pipe then.                                         *)
FreedWhenUnused ==
  /\ freed <=> wends \cup rends = {}
  /\ freed => lock = {} /\ \A p \in Procs : pc[p] \in {"user", "exit"}

(* acquire, sleep and release of p->lock: one holder, who is in one of the *)
(* loops or about to sleep; sleepers sleep in the loops.                   *)
Inside == {"wloop", "rloop", "rcopy"}
Waits == {"wsleep", "rsleep"}
LockHeld ==
  /\ \A p, q \in lock : p = q
  /\ \A p \in Procs : /\ pc[p] \in Inside => p \in lock
                      /\ p \in lock => pc[p] \in Inside \cup Waits /\ p \notin asleep
                      /\ p \in asleep => pc[p] \in Waits

(* pipeclose: the flags say whether an end has a descriptor, and who is in *)
(* a call has one.                                                         *)
EndsOpen ==
  /\ wends \subseteq Writers
  /\ writeopen <=> wends # {}
  /\ readopen <=> rends # {}
  /\ freed <=> ~writeopen /\ ~readopen
  /\ \A p \in Procs : /\ pc[p] \in {"wlock", "wloop", "wsleep"} => p \in wends
                      /\ pc[p] \in {"rlock", "rloop", "rcopy", "rsleep"} => p \in rends

(* Who is asleep, or goes to sleep with the lock, has a reason to, or the  *)
(* holder of the lock is where it will wake it.                            *)
SleepersCovered ==
  \A p \in Procs :
    /\ pc[p] = "wsleep" /\ p \in lock => Full /\ readopen
    /\ pc[p] = "rsleep" /\ p \in lock => Empty /\ writeopen
    /\ pc[p] = "wsleep" /\ p \in asleep =>
         (Full /\ readopen) \/ \E q \in lock : pc[q] = "rcopy"
    /\ pc[p] = "rsleep" /\ p \in asleep =>
         /\ writeopen
         /\ Empty \/ killed \cap Writers # {} \/ \E q \in lock : pc[q] = "wloop"

(* The inductive invariant behind NoLostPipeWakeup and FreedWhenUnused.    *)
PipeInv == LockHeld /\ EndsOpen /\ SleepersCovered

(* proc.c:514 "Wake process from sleep if necessary" and proc.c:503        *)
(* "Process won't exit until it returns to user space": a killed process   *)
(* in a pipe call returns.                                                 *)
KilledLeavesPipe ==
  \A p \in Procs : p \in killed ~> pc[p] \in {"user", "exit"}
=============================================================================
