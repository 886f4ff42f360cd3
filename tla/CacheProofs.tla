---------------------------- MODULE CacheProofs ----------------------------
(***************************************************************************)
(* The buffer cache implements BlockStore, for any number of threads,      *)
(* buffers and blocks.  CacheInv is inductive: a buffer counts its users   *)
(* and a block has one buffer; a request in the queue is that of a thread  *)
(* asleep; a valid buffer agrees with the disk unless it is dirty.         *)
(* Recycling and the disk then change no block, and the other steps are    *)
(* those of the store.                                                     *)
(***************************************************************************)
EXTENDS BufferCache, TLAPS

USE ZenonT(10), SMTT(20)

(* How finite sets are counted, for the threads that use a buffer.  The    *)
(* lemmas assume it and the last part proves it.                           *)
Counting ==
  /\ IsFiniteSet({}) /\ Cardinality({}) = 0
  /\ \A S, T : IsFiniteSet(T) /\ S \subseteq T => IsFiniteSet(S)
  /\ \A S : IsFiniteSet(S) => Cardinality(S) \in Nat /\ (Cardinality(S) = 0 <=> S = {})
  /\ \A S, x : IsFiniteSet(S) /\ x \notin S =>
       IsFiniteSet(S \cup {x}) /\ Cardinality(S \cup {x}) = Cardinality(S) + 1
  /\ \A S, x : IsFiniteSet(S) /\ x \in S =>
       IsFiniteSet(S \ {x}) /\ Cardinality(S \ {x}) = Cardinality(S) - 1

(* The types that the refinement needs.                                    *)
CacheTypes ==
  /\ block \in [Bufs -> Blocks \cup {NoBlock}] /\ refcnt \in [Bufs -> Nat]
  /\ valid \subseteq Bufs /\ dirty \subseteq Bufs /\ data \in [Bufs -> Vals]
  /\ holder \in [Bufs -> Threads \cup {NoProc}] /\ idequeue \in Seq(Bufs)
  /\ disk \in [Blocks -> Vals] /\ asleep \subseteq Threads
  /\ op \in [Threads -> {"idle", "lock", "submit", "io", "held", "unref"}]
  /\ buf \in [Threads -> Bufs \cup {0}]

CInv == CacheTypes /\ CacheInv

(* An empty cache satisfies the invariant.                                 *)
LEMMA CInitial ==
  ASSUME Counting, CacheAssumption, CacheInit
  PROVE  CInv
<1>1. CacheTypes
  BY DEF CacheAssumption, CacheInit, CacheTypes, Bufs
<1>2. \A b \in Bufs : UsersOf(b) = {}
  BY DEF CacheInit, UsersOf, Bufs
<1>3. BufsOwned
  <2>1. UsesCounted
    BY <1>2 DEF Counting, CacheInit, UsesCounted
  <2> QED
    BY <2>1 DEF CacheInit, BufsOwned, CacheAssumption, Using
<1>4. Requests /\ Coherent
  BY DEF CacheInit, Requests, Coherent
<1> QED
  BY <1>1, <1>3, <1>4 DEF CInv, CacheInv

(* A thread starts to use a buffer, or is done with it.                    *)
Users(u, b) == {q \in Threads : u[q] = b}
Sets(g, f, x, y) == g = [f EXCEPT ![x] = y]

(* A thread that used no buffer takes b: b has one user more.              *)
LEMMA UserMore ==
  ASSUME Counting, CacheAssumption, NEW p \in Threads, NEW b \in Bufs,
         NEW u \in [Threads -> Bufs \cup {0}], NEW v, u[p] = 0, Sets(v, u, p, b)
  PROVE  /\ Cardinality(Users(v, b)) = Cardinality(Users(u, b)) + 1
         /\ \A c \in Bufs \ {b} : Users(v, c) = Users(u, c)
<1>1. 0 \notin Bufs
  BY DEF Bufs
<1>2. IsFiniteSet(Users(u, b)) /\ p \notin Users(u, b)
  BY <1>1 DEF Counting, CacheAssumption, Users
<1>3. Users(v, b) = Users(u, b) \cup {p}
  BY DEF Users, Sets
<1>4. \A c \in Bufs \ {b} : Users(v, c) = Users(u, c)
  BY <1>1 DEF Users, Sets
<1>5. Cardinality(Users(u, b) \cup {p}) = Cardinality(Users(u, b)) + 1
  BY <1>2 DEF Counting
<1> QED
  BY <1>3, <1>4, <1>5

(* A thread is done with b: b has one user less.                           *)
LEMMA UserLess ==
  ASSUME Counting, CacheAssumption, NEW p \in Threads, NEW b \in Bufs,
         NEW u \in [Threads -> Bufs \cup {0}], NEW v, p \in Users(u, b), Sets(v, u, p, 0)
  PROVE  /\ Cardinality(Users(v, b)) = Cardinality(Users(u, b)) - 1
         /\ \A c \in Bufs \ {b} : Users(v, c) = Users(u, c)
         /\ Cardinality(Users(v, b)) \in Nat
<1>1. 0 \notin Bufs
  BY DEF Bufs
<1>2. IsFiniteSet(Users(u, b)) /\ IsFiniteSet(Users(v, b))
  BY DEF Counting, CacheAssumption, Users
<1>3. Users(v, b) = Users(u, b) \ {p}
  BY <1>1 DEF Users, Sets
<1>4. \A c \in Bufs \ {b} : Users(v, c) = Users(u, c)
  BY <1>1 DEF Users, Sets
<1>5. Cardinality(Users(u, b) \ {p}) = Cardinality(Users(u, b)) - 1
  BY <1>2 DEF Counting
<1>6. Cardinality(Users(v, b)) \in Nat
  BY <1>2 DEF Counting
<1> QED
  BY <1>3, <1>4, <1>5, <1>6

(* UsersOf as a function of the buffers in use.                            *)
LEMMA UsersNext == \A b : UsersOf(b) = Users(buf, b) /\ UsersOf(b)' = Users(buf', b)
  BY DEF UsersOf, Users

(* A step that changes neither counts nor users keeps the counts right.    *)
LEMMA UsesKept ==
  ASSUME UsesCounted, UNCHANGED <<refcnt, buf>>
  PROVE  UsesCounted'
  BY DEF UsesCounted, UsersOf

(* A buffer that counts no use has no user.                                *)
LEMMA NoUser ==
  ASSUME Counting, CacheAssumption, CInv, NEW b \in Bufs, refcnt[b] = 0
  PROVE  /\ \A p \in Threads : buf[p] # b
         /\ holder[b] = NoProc
<1>1. Cardinality(UsersOf(b)) = 0
  BY DEF CInv, CacheInv, BufsOwned, UsesCounted
<1>2. IsFiniteSet(UsersOf(b))
  BY DEF Counting, CacheAssumption, UsersOf
<1>3. UsersOf(b) = {}
  BY <1>1, <1>2 DEF Counting
<1>4. \A p \in Threads : buf[p] # b
  BY <1>3 DEF UsersOf
<1> QED
  BY <1>4 DEF CInv, CacheTypes, CacheInv, BufsOwned

(* A step of p that leaves the queue and the requests of others alone.     *)
LEMMA RequestsKept ==
  ASSUME CacheTypes, Requests, CacheTypes', NEW p \in Threads,
         \A q \in Threads, c \in Bufs : Asked(q, c) => Asked(q, c)',
         \A q \in Threads : q # p => op'[q] = op[q] /\ buf'[q] = buf[q],
         UNCHANGED idequeue,
         \A q \in Threads : q # p /\ buf[q] \in valid => buf[q] \in valid',
         \A q \in Threads : q # p /\ q \in asleep' => q \in asleep,
         \A q \in Threads : q # p /\ op[q] = "io" /\ q \in asleep => q \in asleep',
         op'[p] = "io" /\ p \notin asleep' => buf'[p] \in valid',
         op'[p] = "held" => buf'[p] \in valid',
         p \in asleep' => op'[p] \in {"lock", "io"}
  PROVE  Requests'
<1>1. \A i \in 1 .. Len(idequeue) : idequeue[i] \in Bufs
  BY DEF CacheTypes
<1>2. \A i \in 1 .. Len(idequeue) : \E q \in Threads :
        q \in asleep' /\ op'[q] = "io" /\ buf'[q] = idequeue[i]
  BY <1>1 DEF Requests, Asked
<1>4. \A q \in Threads : op'[q] = "io" /\ q \notin asleep' => buf'[q] \in valid'
  BY DEF Requests
<1>5. \A q \in Threads : op'[q] = "held" => buf'[q] \in valid'
  BY DEF Requests
<1>6. \A q \in asleep' : op'[q] \in {"lock", "io"}
  <2>1. asleep' \subseteq Threads
    BY DEF CacheTypes
  <2> QED
    BY <2>1 DEF Requests
<1> QED
  BY <1>2, <1>4, <1>5, <1>6 DEF Requests, Asked

(* bget: a hit counts one use more.  A miss recycles a buffer that has no  *)
(* user and is not dirty, when no buffer has the block.                    *)
LEMMA bgetHitKeeps ==
  ASSUME Counting, CacheAssumption, CInv, NEW p \in Threads, NEW k \in Blocks, NEW b \in Bufs,
         bget(p, k, b), bgetHit(p, k, b)
  PROVE  CInv'
<1>1. CacheTypes'
  BY DEF CInv, CacheTypes, bget, bgetHit, Now
<1>2. buf[p] = 0 /\ op[p] = "idle" /\ 0 \notin Bufs
  BY DEF CInv, CacheInv, BufsOwned, bget, Bufs
<1>3. UsesCounted'
  <2>1. buf' = [buf EXCEPT ![p] = b] /\ buf \in [Threads -> Bufs \cup {0}]
    BY DEF CInv, CacheTypes, bget
  <2>2. /\ Cardinality(UsersOf(b)') = Cardinality(UsersOf(b)) + 1
        /\ \A c \in Bufs \ {b} : UsersOf(c)' = UsersOf(c)
    <3>1. Sets(buf', buf, p, b) /\ buf \in [Threads -> Bufs \cup {0}]
      BY <2>1 DEF Sets
    <3>2. /\ Cardinality(Users(buf', b)) = Cardinality(Users(buf, b)) + 1
          /\ \A c \in Bufs \ {b} : Users(buf', c) = Users(buf, c)
      BY <1>2, <3>1, UserMore
    <3> QED
      BY ONLY <3>2, UsersNext
  <2> QED
    BY <2>2 DEF CInv, CacheTypes, CacheInv, BufsOwned, UsesCounted, bgetHit
<1>4. BufsOwned'
  BY <1>2, <1>3 DEF CInv, CacheTypes, CacheInv, BufsOwned, bget, bgetHit, Now, Using, CacheAssumption
<1>5. Requests'
  <2>1. \A q \in Threads, c \in Bufs : Asked(q, c) => Asked(q, c)'
    BY <1>2 DEF CInv, CacheTypes, Asked, bget, Now
  <2>2. \A q \in Threads : q # p => op'[q] = op[q] /\ buf'[q] = buf[q]
    BY DEF CInv, CacheTypes, bget, Now
  <2>3. /\ op'[p] = "lock"
        /\ UNCHANGED <<valid, asleep, idequeue>>
    BY DEF CInv, CacheTypes, bget, bgetHit, Now
  <2> QED
    BY <1>1, <2>1, <2>2, <2>3, RequestsKept DEF CInv, CacheInv
<1>6. Coherent'
  BY DEF CInv, CacheTypes, CacheInv, Coherent, bget, bgetHit
<1> QED
  BY <1>1, <1>4, <1>5, <1>6 DEF CInv, CacheInv

(* bget, on a miss, recycles a buffer.                                     *)
LEMMA bgetMissKeeps ==
  ASSUME Counting, CacheAssumption, CInv, NEW p \in Threads, NEW k \in Blocks, NEW b \in Bufs,
         bget(p, k, b), bgetMiss(p, k, b)
  PROVE  CInv'
<1>1. CacheTypes'
  BY DEF CInv, CacheTypes, bget, bgetMiss, Now
<1>2. buf[p] = 0 /\ op[p] = "idle" /\ 0 \notin Bufs
  BY DEF CInv, CacheInv, BufsOwned, bget, Bufs
<1>3. (\A q \in Threads : buf[q] # b) /\ holder[b] = NoProc /\ b \notin dirty
  BY NoUser DEF bgetMiss, Recyclable
<1>4. UsesCounted'
  <2>1. buf' = [buf EXCEPT ![p] = b] /\ buf \in [Threads -> Bufs \cup {0}]
    BY DEF CInv, CacheTypes, bget
  <2>2. /\ Cardinality(UsersOf(b)') = Cardinality(UsersOf(b)) + 1
        /\ \A c \in Bufs \ {b} : UsersOf(c)' = UsersOf(c)
    <3>1. Sets(buf', buf, p, b) /\ buf \in [Threads -> Bufs \cup {0}]
      BY <2>1 DEF Sets
    <3>2. /\ Cardinality(Users(buf', b)) = Cardinality(Users(buf, b)) + 1
          /\ \A c \in Bufs \ {b} : Users(buf', c) = Users(buf, c)
      BY <1>2, <3>1, UserMore
    <3> QED
      BY ONLY <3>2, UsersNext
  <2>3. Cardinality(UsersOf(b)) = 0
    BY DEF CInv, CacheInv, BufsOwned, UsesCounted, bgetMiss, Recyclable
  <2> QED
    BY <2>2, <2>3 DEF CInv, CacheTypes, CacheInv, BufsOwned, UsesCounted, bgetMiss
<1>5. BufsOwned'
  BY <1>2, <1>3, <1>4 DEF CInv, CacheTypes, CacheInv, BufsOwned, bget, bgetMiss, Now, Using, CacheAssumption
<1>6. Requests'
  <2>1. \A q \in Threads, c \in Bufs : Asked(q, c) => Asked(q, c)'
    BY <1>2 DEF CInv, CacheTypes, Asked, bget, Now
  <2>2. \A q \in Threads : q # p => op'[q] = op[q] /\ buf'[q] = buf[q]
    BY DEF CInv, CacheTypes, bget, Now
  <2>3. op'[p] = "lock" /\ UNCHANGED <<asleep, idequeue>> /\ valid' = valid \ {b}
    BY DEF CInv, CacheTypes, bget, bgetMiss, Now
  <2> QED
    BY <1>1, <1>3, <2>1, <2>2, <2>3, RequestsKept DEF CInv, CacheInv
<1>7. Coherent'
  <2>1. \A i \in 1 .. Len(idequeue) : idequeue[i] # b
    BY <1>3 DEF CInv, CacheInv, Requests, Asked
  <2> QED
    BY <1>3, <2>1 DEF CInv, CacheTypes, CacheInv, Coherent, bget, bgetMiss, CacheAssumption
<1> QED
  BY <1>1, <1>5, <1>6, <1>7 DEF CInv, CacheInv

(* acquiresleep takes the lock only when nobody has it.                    *)
LEMMA acquiresleepKeeps ==
  ASSUME CacheAssumption, CInv, NEW p \in Threads, acquiresleep(p)
  PROVE  CInv'
<1>1. op[p] = "lock" /\ p \notin asleep /\ buf[p] \in Bufs
  BY DEF CInv, CacheTypes, CacheInv, BufsOwned, acquiresleep, Ready
<1>2. CacheTypes'
  BY <1>1, Zenon DEF CInv, CacheTypes, acquiresleep, Now, bufs
<1>3. BufsOwned'
  <2>1. UsesCounted'
    BY UsesKept DEF CInv, CacheInv, BufsOwned, acquiresleep, bufs
  <2> QED
    <3>1. CASE holder[buf[p]] # NoProc
      BY <2>1, <3>1 DEF CInv, CacheInv, BufsOwned, acquiresleep, bufs
    <3>2. CASE holder[buf[p]] = NoProc
      <4>1. /\ holder' = [holder EXCEPT ![buf[p]] = p] /\ op'[p] \in Using
            /\ \A q \in Threads : q # p => op'[q] = op[q]
            /\ UNCHANGED <<block, buf>>
        BY <1>1, <3>2 DEF CInv, CacheTypes, acquiresleep, Now, bufs, Using
      <4> QED
        BY <1>1, <2>1, <3>2, <4>1 DEF CInv, CacheTypes, CacheInv, BufsOwned, Using, CacheAssumption
    <3> QED
      BY <3>1, <3>2
<1>4. Requests'
  <2>1. \A q \in Threads, c \in Bufs : Asked(q, c) => Asked(q, c)'
    BY <1>1 DEF CInv, CacheTypes, Asked, acquiresleep, Now
  <2>2. \A q \in Threads : q # p => op'[q] = op[q] /\ buf'[q] = buf[q]
    BY DEF CInv, CacheTypes, acquiresleep, Now
  <2>3. UNCHANGED <<valid, idequeue>> /\ asleep \subseteq asleep' /\ asleep' \subseteq asleep \cup {p}
    BY DEF acquiresleep, bufs
  <2>4. /\ op'[p] \in {"lock", "held", "submit"}
        /\ op'[p] = "held" => buf'[p] \in valid
        /\ p \in asleep' => op'[p] = "lock"
    BY <1>1 DEF CInv, CacheTypes, acquiresleep, Now
  <2> QED
    BY <1>2, <2>1, <2>2, <2>3, <2>4, RequestsKept DEF CInv, CacheInv
<1>5. Coherent'
  BY DEF CInv, CacheTypes, CacheInv, Coherent, acquiresleep, bufs
<1> QED
  BY <1>2, <1>3, <1>4, <1>5 DEF CInv, CacheInv

(* A thread that wakes up in iderw finds its buffer valid.                 *)
LEMMA iderwDoneKeeps ==
  ASSUME CacheAssumption, CInv, NEW p \in Threads, iderwDone(p)
  PROVE  CInv'
<1>1. op[p] = "io" /\ p \notin asleep /\ buf[p] \in valid
  BY DEF CInv, CacheInv, Requests, iderwDone, Ready
<1>2. CacheTypes'
  BY DEF CInv, CacheTypes, iderwDone, Now, bufs
<1>3. BufsOwned'
  <2>1. UsesCounted'
    BY UsesKept DEF CInv, CacheInv, BufsOwned, iderwDone, bufs
  <2> QED
    BY <1>1, <2>1 DEF CInv, CacheTypes, CacheInv, BufsOwned, iderwDone, Now, Using, bufs
<1>4. Requests'
  <2>1. \A q \in Threads, c \in Bufs : Asked(q, c) => Asked(q, c)'
    BY <1>1 DEF CInv, CacheTypes, Asked, iderwDone, Now
  <2>2. \A q \in Threads : q # p => op'[q] = op[q] /\ buf'[q] = buf[q]
    BY DEF CInv, CacheTypes, iderwDone, Now
  <2>3. op'[p] = "held" /\ buf'[p] = buf[p] /\ UNCHANGED <<valid, idequeue, asleep>>
    BY DEF CInv, CacheTypes, iderwDone, Now, bufs
  <2> QED
    BY <1>1, <1>2, <2>1, <2>2, <2>3, RequestsKept DEF CInv, CacheInv
<1>5. Coherent'
  BY DEF CInv, CacheInv, Coherent, iderwDone, bufs
<1> QED
  BY <1>2, <1>3, <1>4, <1>5 DEF CInv, CacheInv

(* The holder of a buffer, at rest: nobody else uses the lock, and the     *)
(* disk does not work on it.                                               *)
LEMMA HolderAlone ==
  ASSUME CacheAssumption, CInv, NEW p \in Threads, Ready(p, "held")
  PROVE  /\ buf[p] \in valid /\ holder[buf[p]] = p /\ block[buf[p]] \in Blocks
         /\ op[p] = "held" /\ p \notin asleep
         /\ \A i \in 1 .. Len(idequeue) : idequeue[i] # buf[p]
<1>1. op[p] = "held" /\ p \notin asleep /\ buf[p] \in valid
  BY DEF CInv, CacheInv, Requests, Ready
<1>2. holder[buf[p]] = p /\ block[buf[p]] \in Blocks
  BY <1>1 DEF CInv, CacheTypes, CacheInv, BufsOwned, Using
<1>3. ASSUME NEW q \in Threads, op[q] = "io", buf[q] = buf[p]
      PROVE  FALSE
  BY <1>1, <1>2, <1>3 DEF CInv, CacheTypes, CacheInv, BufsOwned, Using
<1> QED
  BY <1>1, <1>2, <1>3 DEF CInv, CacheInv, Requests, Asked

(* bwrite: the holder has a dirty buffer, which it will queue.             *)
LEMMA bwriteKeeps ==
  ASSUME CacheAssumption, CInv, NEW p \in Threads, NEW v \in Vals, bwrite(p, v)
  PROVE  CInv'
<1>1. /\ buf[p] \in valid /\ op[p] = "held" /\ p \notin asleep
      /\ \A i \in 1 .. Len(idequeue) : idequeue[i] # buf[p]
  BY HolderAlone DEF bwrite
<1>2. CacheTypes'
  BY <1>1 DEF CInv, CacheTypes, bwrite, Now
<1>3. BufsOwned'
  <2>1. UsesCounted'
    BY UsesKept DEF CInv, CacheInv, BufsOwned, bwrite, bufs
  <2> QED
    BY <1>1, <2>1 DEF CInv, CacheTypes, CacheInv, BufsOwned, bwrite, Now, Using
<1>4. Requests'
  <2>1. \A q \in Threads, c \in Bufs : Asked(q, c) => Asked(q, c)'
    BY <1>1 DEF CInv, CacheTypes, Asked, bwrite, Now
  <2>2. \A q \in Threads : q # p => op'[q] = op[q] /\ buf'[q] = buf[q]
    BY DEF CInv, CacheTypes, bwrite, Now
  <2>3. op'[p] = "submit" /\ UNCHANGED <<valid, idequeue, asleep>>
    BY DEF CInv, CacheTypes, bwrite, Now
  <2> QED
    BY <1>1, <1>2, <2>1, <2>2, <2>3, RequestsKept DEF CInv, CacheInv
<1>5. Coherent'
  BY <1>1 DEF CInv, CacheTypes, CacheInv, Coherent, bwrite
<1> QED
  BY <1>2, <1>3, <1>4, <1>5 DEF CInv, CacheInv

(* log_write: the buffer is pinned as dirty and stays out of the queue.    *)
LEMMA log_writeKeeps ==
  ASSUME CacheAssumption, CInv, NEW p \in Threads, NEW v \in Vals, log_write(p, v)
  PROVE  CInv'
<1>1. /\ buf[p] \in valid /\ op[p] = "held" /\ p \notin asleep
      /\ \A i \in 1 .. Len(idequeue) : idequeue[i] # buf[p]
  BY HolderAlone DEF log_write
<1>2. CacheTypes'
  BY <1>1 DEF CInv, CacheTypes, log_write
<1>3. BufsOwned'
  <2>1. UsesCounted'
    BY UsesKept DEF CInv, CacheInv, BufsOwned, log_write
  <2> QED
    BY <2>1 DEF CInv, CacheInv, BufsOwned, log_write
<1>4. Requests'
  BY DEF CInv, CacheInv, Requests, Asked, log_write
<1>5. Coherent'
  BY <1>1 DEF CInv, CacheTypes, CacheInv, Coherent, log_write
<1> QED
  BY <1>2, <1>3, <1>4, <1>5 DEF CInv, CacheInv

(* brelse: the lock is given up, then the use of the buffer.               *)
LEMMA releasesleepKeeps ==
  ASSUME CacheAssumption, CInv, NEW p \in Threads, releasesleep(p)
  PROVE  CInv'
<1>1. buf[p] \in valid /\ op[p] = "held" /\ p \notin asleep /\ holder[buf[p]] = p
  BY HolderAlone DEF releasesleep
<1>2. CacheTypes'
  BY <1>1 DEF CInv, CacheTypes, releasesleep, Now, bufs
<1>3. BufsOwned'
  <2>1. UsesCounted'
    BY UsesKept DEF CInv, CacheInv, BufsOwned, releasesleep, bufs
  <2> QED
    BY <1>1, <2>1 DEF CInv, CacheTypes, CacheInv, BufsOwned, releasesleep, Now, Using, CacheAssumption, bufs
<1>4. Requests'
  <2>1. \A q \in Threads, c \in Bufs : Asked(q, c) => Asked(q, c)'
    BY <1>1 DEF CInv, CacheTypes, Asked, releasesleep, Now, SleepWakeups
  <2>2. \A q \in Threads : q # p => op'[q] = op[q] /\ buf'[q] = buf[q]
    BY DEF CInv, CacheTypes, releasesleep, Now
  <2>3. op'[p] = "unref" /\ UNCHANGED <<valid, idequeue>> /\ asleep' = asleep \ SleepWakeups(buf[p])
    BY DEF CInv, CacheTypes, releasesleep, Now, bufs
  <2>4. asleep' \subseteq asleep /\ \A q \in Threads : op[q] = "io" => (q \in asleep' <=> q \in asleep)
    BY <2>3 DEF SleepWakeups
  <2> QED
    BY <1>1, <1>2, <2>1, <2>2, <2>3, <2>4, RequestsKept DEF CInv, CacheInv
<1>5. Coherent'
  BY DEF CInv, CacheInv, Coherent, releasesleep, bufs
<1> QED
  BY <1>2, <1>3, <1>4, <1>5 DEF CInv, CacheInv

(* brelse, second part: one use less.                                      *)
LEMMA UnrefKeeps ==
  ASSUME Counting, CacheAssumption, CInv, NEW p \in Threads, Unref(p)
  PROVE  CInv'
<1>1. op[p] = "unref" /\ p \notin asleep /\ buf[p] \in Bufs /\ 0 \notin Bufs
  BY DEF CInv, CacheTypes, CacheInv, BufsOwned, Unref, Ready, Bufs
<1>2. UsesCounted' /\ refcnt' \in [Bufs -> Nat]
  <2>1. buf' = [buf EXCEPT ![p] = 0] /\ buf \in [Threads -> Bufs \cup {0}]
    BY DEF CInv, CacheTypes, Unref
  <2>2. PICK b \in Bufs : b = buf[p]
    BY <1>1
  <2>3. /\ Cardinality(UsersOf(b)') = Cardinality(UsersOf(b)) - 1
        /\ \A c \in Bufs \ {b} : UsersOf(c)' = UsersOf(c)
        /\ Cardinality(UsersOf(b)') \in Nat
    <3>1. /\ p \in Users(buf, b) /\ Sets(buf', buf, p, 0)
          /\ buf \in [Threads -> Bufs \cup {0}]
      BY <2>1, <2>2 DEF Users, Sets
    <3>2. /\ Cardinality(Users(buf', b)) = Cardinality(Users(buf, b)) - 1
          /\ \A c \in Bufs \ {b} : Users(buf', c) = Users(buf, c)
          /\ Cardinality(Users(buf', b)) \in Nat
      BY <3>1, UserLess
    <3> QED
      BY ONLY <3>2, UsersNext
  <2> QED
    BY <2>2, <2>3 DEF CInv, CacheTypes, CacheInv, BufsOwned, UsesCounted, Unref
<1>3. CacheTypes'
  BY <1>2 DEF CInv, CacheTypes, Unref, Now
<1>4. BufsOwned'
  BY <1>1, <1>2 DEF CInv, CacheTypes, CacheInv, BufsOwned, Unref, Now, Using
<1>5. Requests'
  <2>1. \A q \in Threads, c \in Bufs : Asked(q, c) => Asked(q, c)'
    BY <1>1 DEF CInv, CacheTypes, Asked, Unref, Now
  <2>2. \A q \in Threads : q # p => op'[q] = op[q] /\ buf'[q] = buf[q]
    BY DEF CInv, CacheTypes, Unref, Now
  <2>3. op'[p] = "idle" /\ UNCHANGED <<valid, idequeue, asleep>>
    BY DEF CInv, CacheTypes, Unref, Now
  <2> QED
    BY <1>1, <1>3, <2>1, <2>2, <2>3, RequestsKept DEF CInv, CacheInv
<1>6. Coherent'
  BY DEF CInv, CacheInv, Coherent, Unref
<1> QED
  BY <1>3, <1>4, <1>5, <1>6 DEF CInv, CacheInv

(* What idestart does to the disk: it writes the first buffer of the       *)
(* queue, if that is dirty, and no other block that a buffer has.          *)
LEMMA StartedDisk ==
  ASSUME CacheAssumption, CInv, NEW q \in Seq(Bufs), NEW d \in [Blocks -> Vals],
         q # <<>> => block[q[1]] \in Blocks
  PROVE  /\ Started(q, d) \in [Blocks -> Vals]
         /\ q # <<>> /\ q[1] \in dirty => Started(q, d)[block[q[1]]] = data[q[1]]
         /\ \A b \in Bufs : block[b] \in Blocks /\ ~(q # <<>> /\ q[1] = b /\ b \in dirty) =>
              Started(q, d)[block[b]] = d[block[b]]
<1>1. CASE q # <<>> /\ q[1] \in dirty
  <2>1. Head(q) = q[1] /\ q[1] \in Bufs
    BY <1>1
  <2>2. Started(q, d) = [d EXCEPT ![block[q[1]]] = data[q[1]]]
    BY <1>1, <2>1 DEF Started
  <2>3. \A b \in Bufs : block[b] = block[q[1]] => b = q[1]
    BY <1>1, <2>1 DEF CInv, CacheInv, BufsOwned, CacheAssumption
  <2> QED
    BY <1>1, <2>1, <2>2, <2>3 DEF CInv, CacheTypes
<1>2. CASE ~(q # <<>> /\ q[1] \in dirty)
  <2>1. Started(q, d) = d
    BY <1>2 DEF Started
  <2> QED
    BY <1>2, <2>1
<1> QED
  BY <1>1, <1>2

(* iderw queues a buffer that is not in the queue.                         *)
LEMMA iderwKeeps ==
  ASSUME CacheAssumption, CInv, NEW p \in Threads, iderw(p)
  PROVE  CInv'
<1>1. op[p] = "submit" /\ p \notin asleep /\ buf[p] \in Bufs
  BY DEF CInv, CacheTypes, CacheInv, BufsOwned, iderw, Ready
<1>2. holder[buf[p]] = p /\ block[buf[p]] \in Blocks
  BY <1>1 DEF CInv, CacheTypes, CacheInv, BufsOwned, Using
<1>3. \A i \in 1 .. Len(idequeue) : idequeue[i] # buf[p]
  <2>1. ASSUME NEW q \in Threads, op[q] = "io", buf[q] = buf[p]
        PROVE  FALSE
    BY <1>1, <1>2, <2>1 DEF CInv, CacheTypes, CacheInv, BufsOwned, Using
  <2> QED
    BY <2>1 DEF CInv, CacheInv, Requests, Asked
<1>4. /\ idequeue' = Append(idequeue, buf[p]) /\ idequeue \in Seq(Bufs)
      /\ idequeue' \in Seq(Bufs) /\ Len(idequeue') = Len(idequeue) + 1
      /\ idequeue'[Len(idequeue) + 1] = buf[p]
      /\ \A i \in 1 .. Len(idequeue) : idequeue'[i] = idequeue[i]
      /\ Len(idequeue) \in Nat
  BY <1>1 DEF iderw, CInv, CacheTypes
<1>5. /\ disk' \in [Blocks -> Vals]
      /\ \A b \in Bufs : block[b] \in Blocks /\ b \notin dirty => disk'[block[b]] = disk[block[b]]
      /\ idequeue # <<>> => disk' = disk
      /\ idequeue = <<>> /\ buf[p] \in dirty => disk'[block[buf[p]]] = data[buf[p]]
  <2>1. CASE idequeue = <<>>
    <3>1. disk' = Started(idequeue', disk) /\ disk \in [Blocks -> Vals]
      BY <2>1 DEF iderw, CInv, CacheTypes
    <3>2. idequeue' # <<>> /\ idequeue'[1] = buf[p]
      BY <1>4, <2>1
    <3>3. PICK q \in Seq(Bufs), d \in [Blocks -> Vals] : q = idequeue' /\ d = disk
      BY <1>4, <3>1
    <3>4. block[q[1]] \in Blocks
      BY <1>2, <3>2, <3>3
    <3>5. /\ Started(q, d) \in [Blocks -> Vals]
          /\ q # <<>> /\ q[1] \in dirty => Started(q, d)[block[q[1]]] = data[q[1]]
          /\ \A b \in Bufs : block[b] \in Blocks /\ ~(q # <<>> /\ q[1] = b /\ b \in dirty) =>
               Started(q, d)[block[b]] = d[block[b]]
      BY <3>4, StartedDisk
    <3>6. disk' = Started(q, d)
      BY <3>1, <3>3
    <3> QED
      BY <2>1, <3>2, <3>3, <3>5, <3>6
  <2>2. CASE idequeue # <<>>
    BY <2>2 DEF iderw, CInv, CacheTypes
  <2> QED
    BY <2>1, <2>2
<1>6. UNCHANGED <<block, refcnt, valid, dirty, data, holder, buf>> /\ asleep' = asleep \cup {p}
  BY DEF iderw, bufs
<1>7. op' = [op EXCEPT ![p] = "io"]
  BY DEF iderw, Now
<1>8. CacheTypes'
  BY <1>4, <1>5, <1>6, <1>7 DEF CInv, CacheTypes
<1>9. BufsOwned'
  <2>1. UsesCounted'
    BY <1>6, UsesKept DEF CInv, CacheInv, BufsOwned
  <2> QED
    BY <1>1, <1>6, <1>7, <2>1 DEF CInv, CacheTypes, CacheInv, BufsOwned, Using
<1>10. Requests'
  <2>1. \A i \in 1 .. Len(idequeue) : \E q \in Threads :
          q \in asleep' /\ op'[q] = "io" /\ buf'[q] = idequeue'[i]
    BY <1>1, <1>4, <1>6, <1>7 DEF CInv, CacheTypes, CacheInv, Requests, Asked
  <2>2. p \in asleep' /\ op'[p] = "io" /\ buf'[p] = idequeue'[Len(idequeue) + 1]
    BY <1>4, <1>6, <1>7 DEF CInv, CacheTypes
  <2>3. \A i \in 1 .. Len(idequeue') : i \in 1 .. Len(idequeue) \/ i = Len(idequeue) + 1
    BY <1>4
  <2>4. \A i, j \in 1 .. Len(idequeue') : idequeue'[i] = idequeue'[j] => i = j
    BY <1>3, <1>4, <2>3 DEF CInv, CacheInv, Requests
  <2>5. /\ \A q \in Threads : op'[q] = "io" /\ q \notin asleep' => buf'[q] \in valid'
        /\ \A q \in Threads : op'[q] = "held" => buf'[q] \in valid'
        /\ \A q \in asleep' : op'[q] \in {"lock", "io"}
    BY <1>6, <1>7 DEF CInv, CacheTypes, CacheInv, Requests
  <2>6. \A i \in 1 .. Len(idequeue') : \E q \in Threads :
          q \in asleep' /\ op'[q] = "io" /\ buf'[q] = idequeue'[i]
    BY <2>1, <2>2, <2>3
  <2> QED
    BY <2>4, <2>5, <2>6 DEF Requests, Asked
<1>11. Coherent'
  <2>1. dirty' \subseteq valid' /\ \A b \in valid' : block'[b] # NoBlock
    BY <1>6 DEF CInv, CacheInv, Coherent
  <2>2. \A b \in valid' : b \notin dirty' => data'[b] = disk'[block'[b]]
    BY <1>5, <1>6 DEF CInv, CacheTypes, CacheInv, Coherent
  <2>3. ASSUME idequeue'[1] \in dirty'
        PROVE  data'[idequeue'[1]] = disk'[block'[idequeue'[1]]]
    <3>1. CASE idequeue = <<>>
      <4>1. idequeue'[1] = buf[p]
        BY <1>4, <3>1
      <4> QED
        BY <1>5, <1>6, <2>3, <3>1, <4>1
    <3>2. CASE idequeue # <<>>
      <4>1. Len(idequeue) > 0 /\ idequeue'[1] = idequeue[1] /\ disk' = disk
        BY <1>4, <1>5, <3>2
      <4> QED
        BY <1>6, <2>3, <4>1 DEF CInv, CacheInv, Coherent
    <3> QED
      BY <3>1, <3>2
  <2> QED
    BY <2>1, <2>2, <2>3 DEF Coherent
<1> QED
  BY <1>8, <1>9, <1>10, <1>11 DEF CInv, CacheInv

(* ideintr: the buffer at the head of the queue agrees with the disk, and  *)
(* its thread is awake.  The read does not fail.                           *)
LEMMA ideintrKeeps ==
  ASSUME CacheAssumption, CInv, ReadErrors = FALSE, ideintr
  PROVE  CInv'
<1>1. PICK b \in Bufs : b = idequeue[1] /\ b = Head(idequeue) /\ Len(idequeue) > 0
  BY DEF ideintr, CInv, CacheTypes
<1>2. PICK q \in Seq(Bufs) : q = Tail(idequeue)
  <2>1. idequeue \in Seq(Bufs) /\ idequeue # <<>>
    BY DEF ideintr, CInv, CacheTypes
  <2>2. Tail(idequeue) \in Seq(Bufs)
    BY ONLY <2>1
  <2> QED
    BY <2>2, Zenon
<1>3. /\ Len(idequeue) \in Nat /\ Len(q) = Len(idequeue) - 1
      /\ \A i \in 1 .. Len(q) : q[i] = idequeue[i + 1]
  BY <1>1, <1>2 DEF CInv, CacheTypes
<1>4. /\ data' = [data EXCEPT ![b] = IF b \in dirty THEN @ ELSE disk[block[b]]]
      /\ valid' = valid \cup {b} /\ dirty' = dirty \ {b} /\ idequeue' = q
      /\ asleep' = asleep \ IdeWakeups(b) /\ disk' = Started(q, disk)
      /\ UNCHANGED <<block, refcnt, holder, op, buf>>
  BY <1>1, <1>2 DEF ideintr, Done
<1>5. \A i \in 1 .. Len(idequeue) : idequeue[i] \in Bufs /\ block[idequeue[i]] \in Blocks
  BY DEF CInv, CacheTypes, CacheInv, BufsOwned, Requests, Asked, Bufs
<1>6. \A i \in 1 .. Len(q) : q[i] # b
  BY <1>1, <1>3 DEF CInv, CacheInv, Requests
<1>7. q # <<>> => Len(q) > 0 /\ block[q[1]] \in Blocks /\ q[1] # b
  BY <1>3, <1>5, <1>6
<1>8. block[b] \in Blocks
  BY <1>1, <1>3, <1>5
<1>9. /\ disk' \in [Blocks -> Vals]
      /\ q # <<>> /\ q[1] \in dirty => disk'[block[q[1]]] = data[q[1]]
      /\ \A c \in Bufs : block[c] \in Blocks /\ ~(q # <<>> /\ q[1] = c /\ c \in dirty) =>
           disk'[block[c]] = disk[block[c]]
  <2>1. PICK d \in [Blocks -> Vals] : d = disk
    BY DEF CInv, CacheTypes
  <2>2. /\ Started(q, d) \in [Blocks -> Vals]
        /\ q # <<>> /\ q[1] \in dirty => Started(q, d)[block[q[1]]] = data[q[1]]
        /\ \A c \in Bufs : block[c] \in Blocks /\ ~(q # <<>> /\ q[1] = c /\ c \in dirty) =>
             Started(q, d)[block[c]] = d[block[c]]
    BY <1>7, StartedDisk
  <2> QED
    BY <1>4, <2>1, <2>2
<1>10. CacheTypes'
  BY <1>4, <1>8, <1>9 DEF CInv, CacheTypes
<1>11. BufsOwned'
  <2>1. UsesCounted'
    BY <1>4, UsesKept DEF CInv, CacheInv, BufsOwned
  <2> QED
    BY <1>4, <2>1 DEF CInv, CacheInv, BufsOwned
<1>12. Requests'
  <2>1. \A i \in 1 .. Len(q) : \E r \in Threads : r \in asleep /\ op[r] = "io" /\ buf[r] = q[i]
    BY <1>3 DEF CInv, CacheInv, Requests, Asked
  <2>2. \A i \in 1 .. Len(q) : \E r \in Threads : r \in asleep' /\ op[r] = "io" /\ buf[r] = q[i]
    BY <1>4, <1>6, <2>1 DEF IdeWakeups
  <2>3. \A i, j \in 1 .. Len(q) : q[i] = q[j] => i = j
    <3> SUFFICES ASSUME NEW i \in 1 .. Len(q), NEW j \in 1 .. Len(q), q[i] = q[j]
                 PROVE  i = j
      OBVIOUS
    <3>1. /\ i + 1 \in 1 .. Len(idequeue) /\ j + 1 \in 1 .. Len(idequeue)
          /\ idequeue[i + 1] = idequeue[j + 1]
      BY <1>3
    <3>2. i + 1 = j + 1
      BY <3>1 DEF CInv, CacheInv, Requests
    <3> QED
      BY <3>2
  <2>4. \A r \in Threads : op[r] = "io" /\ r \notin asleep' => buf[r] \in valid'
    BY <1>4 DEF CInv, CacheInv, Requests, IdeWakeups
  <2>5. /\ \A r \in Threads : op[r] = "held" => buf[r] \in valid'
        /\ \A r \in asleep' : op[r] \in {"lock", "io"}
    BY <1>4 DEF CInv, CacheInv, Requests
  <2> QED
    BY <1>4, <2>2, <2>3, <2>4, <2>5 DEF Requests, Asked
<1>13. Coherent'
  <2>1. dirty' \subseteq valid' /\ \A c \in valid' : block'[c] # NoBlock
    BY <1>4, <1>8 DEF CInv, CacheInv, Coherent, CacheAssumption
  <2>2. data'[b] = disk[block[b]]
    BY <1>1, <1>4 DEF CInv, CacheTypes, CacheInv, Coherent
  <2>3. disk'[block[b]] = disk[block[b]]
    BY <1>7, <1>8, <1>9
  <2>4. \A c \in valid : c \notin dirty /\ c # b => data'[c] = disk[block[c]] /\ block[c] \in Blocks
    BY <1>4 DEF CInv, CacheTypes, CacheInv, Coherent
  <2>5. \A c \in valid' : c \notin dirty' => data'[c] = disk'[block'[c]]
    <3> SUFFICES ASSUME NEW c \in valid', c \notin dirty', c # b
                 PROVE  data'[c] = disk'[block[c]]
      BY <1>4, <2>2, <2>3
    <3>1. c \in valid /\ c \notin dirty /\ c \in Bufs
      BY <1>4 DEF CInv, CacheTypes
    <3> QED
      BY <1>9, <2>4, <3>1
  <2>6. Len(q) > 0 /\ q[1] \in dirty' => data'[q[1]] = disk'[block[q[1]]]
    BY <1>4, <1>6, <1>9 DEF CInv, CacheTypes
  <2> QED
    BY <1>4, <2>1, <2>5, <2>6 DEF Coherent
<1> QED
  BY <1>10, <1>11, <1>12, <1>13 DEF CInv, CacheInv

(* Every step of the cache and of the disk keeps the invariant.            *)
LEMMA CNext ==
  ASSUME Counting, CacheAssumption, ReadErrors = FALSE, CInv, [CacheNext]_cacheVars
  PROVE  CInv'
<1>1. CASE UNCHANGED cacheVars
  <2>1. UsesCounted'
    BY <1>1, UsesKept DEF cacheVars, bufs, CInv, CacheInv, BufsOwned
  <2>2. UNCHANGED <<block, refcnt, valid, dirty, data, holder, idequeue, disk, op, buf, asleep>>
    BY <1>1 DEF cacheVars, bufs
  <2>3. CacheTypes'
    BY <2>2 DEF CInv, CacheTypes
  <2>4. BufsOwned'
    BY <2>1, <2>2 DEF CInv, CacheInv, BufsOwned
  <2>5. Requests' /\ Coherent'
    BY <2>2 DEF CInv, CacheInv, Requests, Asked, Coherent
  <2> QED
    BY <2>3, <2>4, <2>5 DEF CInv, CacheInv
<1>2. CASE ideintr
  BY <1>2, ideintrKeeps
<1>3. ASSUME NEW p \in Threads, Work(p)
      PROVE  CInv'
  BY <1>3, acquiresleepKeeps, iderwKeeps, iderwDoneKeeps, releasesleepKeeps, UnrefKeeps DEF Work
<1>4. ASSUME NEW p \in Threads, NEW k \in Blocks, NEW b \in Bufs, bget(p, k, b)
      PROVE  CInv'
  <2>1. bgetHit(p, k, b) \/ bgetMiss(p, k, b)
    BY <1>4 DEF bget
  <2> QED
    BY <1>4, <2>1, bgetHitKeeps, bgetMissKeeps
<1>5. ASSUME NEW p \in Threads, NEW v \in Vals, bwrite(p, v) \/ log_write(p, v)
      PROVE  CInv'
  BY <1>5, bwriteKeeps, log_writeKeeps
<1> QED
  BY <1>1, <1>2, <1>3, <1>4, <1>5 DEF CacheNext

(* The values of Store and Holder: a block has at most one buffer, so what *)
(* CHOOSE picks is that one.                                               *)
StoreOf(bl, va, di, da, dk) ==
  [k \in Blocks |-> IF {b \in Bufs : bl[b] = k /\ (b \in va \/ b \in di)} = {} THEN dk[k]
     ELSE da[CHOOSE b \in {c \in Bufs : bl[c] = k /\ (c \in va \/ c \in di)} : TRUE]]
HolderOf(bl, ho) ==
  [k \in Blocks |-> IF {b \in Bufs : bl[b] = k /\ ho[b] # NoProc} = {} THEN NoProc
     ELSE ho[CHOOSE b \in {c \in Bufs : bl[c] = k /\ ho[c] # NoProc} : TRUE]]
OneBuffer(bl) == \A b, c \in Bufs : bl[b] = bl[c] /\ bl[b] \in Blocks => b = c

(* What the buffers say of the store s and of the holders h.               *)
IsStore(s, bl, va, da, dk) ==
  /\ s \in [Blocks -> Vals]
  /\ \A b \in va : bl[b] \in Blocks => s[bl[b]] = da[b]
  /\ \A k \in Blocks : (\A b \in va : bl[b] # k) => s[k] = dk[k]
IsHolder(h, bl, ho) ==
  /\ h \in [Blocks -> Threads \cup {NoProc}]
  /\ \A b \in Bufs : bl[b] \in Blocks /\ ho[b] # NoProc => h[bl[b]] = ho[b]
  /\ \A k \in Blocks : (\A b \in Bufs : bl[b] = k => ho[b] = NoProc) => h[k] = NoProc

(* What the buffers say of a store determines it.                          *)
LEMMA StoreIs ==
  ASSUME NEW bl, NEW va, NEW di, NEW da, NEW dk, NEW s,
         OneBuffer(bl), va \subseteq Bufs, di \subseteq va, IsStore(s, bl, va, da, dk)
  PROVE  StoreOf(bl, va, di, da, dk) = s
<1> DEFINE C(k) == {b \in Bufs : bl[b] = k /\ (b \in va \/ b \in di)}
<1>1. ASSUME NEW k \in Blocks, C(k) = {}
      PROVE  s[k] = dk[k]
  BY <1>1 DEF IsStore
<1>2. ASSUME NEW k \in Blocks, C(k) # {}
      PROVE  s[k] = da[CHOOSE b \in C(k) : TRUE]
  <2>1. PICK b : b = (CHOOSE x \in C(k) : TRUE)
    OBVIOUS
  <2>2. b \in C(k)
    BY <1>2, <2>1
  <2> QED
    BY <2>1, <2>2 DEF IsStore
<1> QED
  BY <1>1, <1>2 DEF StoreOf, IsStore

(* The store that the mapping computes is the one the buffers describe.    *)
LEMMA StoreType ==
  ASSUME NEW bl, NEW va, NEW di, NEW da, NEW dk,
         OneBuffer(bl), va \subseteq Bufs, di \subseteq va,
         da \in [Bufs -> Vals], dk \in [Blocks -> Vals]
  PROVE  IsStore(StoreOf(bl, va, di, da, dk), bl, va, da, dk)
<1> DEFINE C(k) == {b \in Bufs : bl[b] = k /\ (b \in va \/ b \in di)}
<1>0. PICK S : S = StoreOf(bl, va, di, da, dk)
  OBVIOUS
<1>1. \A k \in Blocks : C(k) # {} => (CHOOSE b \in C(k) : TRUE) \in C(k)
  OBVIOUS
<1>2. \A k \in Blocks : S[k] = IF C(k) = {} THEN dk[k] ELSE da[CHOOSE b \in C(k) : TRUE]
  BY <1>0 DEF StoreOf
<1>3. S \in [Blocks -> Vals]
  <2>1. \A k \in Blocks : S[k] \in Vals
    BY <1>1, <1>2
  <2>2. S = [k \in Blocks |-> S[k]]
    BY <1>0 DEF StoreOf
  <2> QED
    BY <2>1, <2>2
<1>4. ASSUME NEW b \in va, bl[b] \in Blocks
      PROVE  S[bl[b]] = da[b]
  <2>1. b \in C(bl[b])
    OBVIOUS
  <2>2. PICK c : c = (CHOOSE x \in C(bl[b]) : TRUE)
    OBVIOUS
  <2>3. c \in C(bl[b])
    BY <1>1, <1>4, <2>1, <2>2
  <2>4. c = b
    BY <1>4, <2>3 DEF OneBuffer
  <2> QED
    BY <1>2, <1>4, <2>1, <2>2, <2>4
<1>5. ASSUME NEW k \in Blocks, \A b \in va : bl[b] # k
      PROVE  S[k] = dk[k]
  <2>1. C(k) = {}
    BY <1>5
  <2> QED
    BY <1>2, <2>1
<1> QED
  BY <1>0, <1>3, <1>4, <1>5 DEF IsStore

(* What the locks say of the holders determines them.                      *)
LEMMA HolderIs ==
  ASSUME NEW bl, NEW ho, NEW h, OneBuffer(bl), IsHolder(h, bl, ho)
  PROVE  HolderOf(bl, ho) = h
<1> DEFINE C(k) == {b \in Bufs : bl[b] = k /\ ho[b] # NoProc}
<1>1. ASSUME NEW k \in Blocks, C(k) = {}
      PROVE  h[k] = NoProc
  BY <1>1 DEF IsHolder
<1>2. ASSUME NEW k \in Blocks, C(k) # {}
      PROVE  h[k] = ho[CHOOSE b \in C(k) : TRUE]
  <2>1. PICK b : b = (CHOOSE x \in C(k) : TRUE)
    OBVIOUS
  <2>2. b \in C(k)
    BY <1>2, <2>1
  <2> QED
    BY <2>1, <2>2 DEF IsHolder
<1> QED
  BY <1>1, <1>2 DEF HolderOf, IsHolder

(* The holders that the mapping computes are those the locks describe.     *)
LEMMA HolderType ==
  ASSUME NEW bl, NEW ho, OneBuffer(bl), ho \in [Bufs -> Threads \cup {NoProc}]
  PROVE  IsHolder(HolderOf(bl, ho), bl, ho)
<1> DEFINE C(k) == {b \in Bufs : bl[b] = k /\ ho[b] # NoProc}
<1>0. PICK H : H = HolderOf(bl, ho)
  OBVIOUS
<1>1. \A k \in Blocks : C(k) # {} => (CHOOSE b \in C(k) : TRUE) \in C(k)
  OBVIOUS
<1>2. \A k \in Blocks : H[k] = IF C(k) = {} THEN NoProc ELSE ho[CHOOSE b \in C(k) : TRUE]
  BY <1>0 DEF HolderOf
<1>3. H \in [Blocks -> Threads \cup {NoProc}]
  <2>1. \A k \in Blocks : H[k] \in Threads \cup {NoProc}
    BY <1>1, <1>2
  <2>2. H = [k \in Blocks |-> H[k]]
    BY <1>0 DEF HolderOf
  <2> QED
    BY <2>1, <2>2
<1>4. ASSUME NEW b \in Bufs, bl[b] \in Blocks, ho[b] # NoProc
      PROVE  H[bl[b]] = ho[b]
  <2>1. b \in C(bl[b])
    BY <1>4
  <2>2. PICK c : c = (CHOOSE x \in C(bl[b]) : TRUE)
    OBVIOUS
  <2>3. c \in C(bl[b])
    BY <1>1, <1>4, <2>1, <2>2
  <2>4. c = b
    BY <1>4, <2>3 DEF OneBuffer
  <2> QED
    BY <1>2, <1>4, <2>1, <2>2, <2>4
<1>5. ASSUME NEW k \in Blocks, \A b \in Bufs : bl[b] = k => ho[b] = NoProc
      PROVE  H[k] = NoProc
  <2>1. C(k) = {}
    BY <1>5
  <2> QED
    BY <1>2, <2>1
<1> QED
  BY <1>0, <1>3, <1>4, <1>5 DEF IsHolder

(* The mapped store and holders are those the buffers and locks describe.  *)
LEMMA Abstract ==
  ASSUME CacheAssumption, CInv
  PROVE  IsStore(Store, block, valid, data, disk) /\ IsHolder(Holder, block, holder)
<1>1. OneBuffer(block)
  BY DEF CInv, CacheInv, BufsOwned, OneBuffer, CacheAssumption
<1>2. /\ valid \subseteq Bufs /\ dirty \subseteq valid /\ data \in [Bufs -> Vals]
      /\ disk \in [Blocks -> Vals] /\ holder \in [Bufs -> Threads \cup {NoProc}]
  BY DEF CInv, CacheTypes, CacheInv, Coherent
<1>3. Store = StoreOf(block, valid, dirty, data, disk)
  BY DEF Store, Cached, StoreOf
<1>4. Holder = HolderOf(block, holder)
  BY DEF Holder, Locked, HolderOf
<1> QED
  BY <1>1, <1>2, <1>3, <1>4, StoreType, HolderType

(* A store that the next buffers describe is the next mapped store.        *)
LEMMA StoreNext ==
  ASSUME CacheAssumption, CInv', NEW s, IsStore(s, block', valid', data', disk')
  PROVE  Store' = s
<1>1. OneBuffer(block')
  BY DEF CInv, CacheInv, BufsOwned, OneBuffer, CacheAssumption
<1>2. valid' \subseteq Bufs /\ dirty' \subseteq valid'
  BY DEF CInv, CacheTypes, CacheInv, Coherent
<1>3. Store' = StoreOf(block', valid', dirty', data', disk')
  BY DEF Store, Cached, StoreOf
<1> QED
  BY <1>1, <1>2, <1>3, StoreIs

(* Holders that the next locks describe are the next mapped holders.       *)
LEMMA HolderNext ==
  ASSUME CacheAssumption, CInv', NEW h, IsHolder(h, block', holder')
  PROVE  Holder' = h
<1>1. OneBuffer(block')
  BY DEF CInv, CacheInv, BufsOwned, OneBuffer, CacheAssumption
<1>2. Holder' = HolderOf(block', holder')
  BY DEF Holder, Locked, HolderOf
<1> QED
  BY <1>1, <1>2, HolderIs

(* A step that changes no buffer and no block changes no store.            *)
LEMMA SameStore ==
  ASSUME UNCHANGED <<block, valid, dirty, data, disk>>
  PROVE  Store' = Store
  BY DEF Store, Cached

(* A step that changes no lock changes no holder.                          *)
LEMMA SameHolder ==
  ASSUME UNCHANGED <<block, holder>>
  PROVE  Holder' = Holder
  BY DEF Holder, Locked

(* Recycling a buffer that agrees with the disk changes no block, and      *)
(* neither does a write of the disk to a block that has a valid buffer, or *)
(* a buffer that gets what is on disk.                                     *)
Unused(bl, va, da, dk, ho, b, k) ==
  /\ va \subseteq Bufs /\ bl \in [Bufs -> Blocks \cup {NoBlock}]
  /\ ho[b] = NoProc /\ (b \in va => da[b] = dk[bl[b]])
  /\ \A c \in Bufs : bl[c] # k

(* Recycling an unused buffer loses no value and no holder.                *)
LEMMA Recycled ==
  ASSUME NEW s, NEW h, NEW bl, NEW va, NEW da, NEW dk, NEW ho, NEW bm, NEW b \in Bufs, NEW k \in Blocks,
         IsStore(s, bl, va, da, dk), IsHolder(h, bl, ho), Sets(bm, bl, b, k),
         Unused(bl, va, da, dk, ho, b, k)
  PROVE  IsStore(s, bm, va \ {b}, da, dk) /\ IsHolder(h, bm, ho)
<1>2. bm[b] = k /\ \A c \in Bufs : c # b => bm[c] = bl[c]
  BY DEF Sets, Unused
<1>3. ASSUME NEW j \in Blocks, \A c \in va \ {b} : bm[c] # j
      PROVE  s[j] = dk[j]
  <2>1. CASE b \in va /\ bl[b] = j
    BY <2>1 DEF IsStore, Unused
  <2>2. CASE ~(b \in va /\ bl[b] = j)
    <3>1. \A c \in va : bl[c] # j
      BY <1>2, <1>3, <2>2 DEF Unused
    <3> QED
      BY <3>1 DEF IsStore
  <2> QED
    BY <2>1, <2>2
<1>4. IsStore(s, bm, va \ {b}, da, dk)
  BY <1>2, <1>3 DEF IsStore, Unused
<1>5. ASSUME NEW j \in Blocks, \A c \in Bufs : bm[c] = j => ho[c] = NoProc
      PROVE  h[j] = NoProc
  <2>1. \A c \in Bufs : bl[c] = j => ho[c] = NoProc
    BY <1>2, <1>5 DEF Unused
  <2> QED
    BY <2>1 DEF IsHolder
<1>6. IsHolder(h, bm, ho)
  BY <1>2, <1>5 DEF IsHolder, Unused
<1> QED
  BY <1>4, <1>6

(* What the disk has of a block with a valid buffer does not matter.       *)
LEMMA WrittenElsewhere ==
  ASSUME NEW s, NEW bl, NEW va, NEW da, NEW dk, NEW dl, IsStore(s, bl, va, da, dk),
         \A k \in Blocks : (\A b \in va : bl[b] # k) => dl[k] = dk[k]
  PROVE  IsStore(s, bl, va, da, dl)
  BY DEF IsStore

(* A buffer that becomes valid with what is on disk changes no block.      *)
LEMMA Filled ==
  ASSUME NEW s, NEW bl, NEW va, NEW da, NEW dk, NEW db, NEW b \in Bufs, IsStore(s, bl, va, da, dk),
         OneBuffer(bl), va \subseteq Bufs, \A c \in va : db[c] = da[c],
         b \notin va => db[b] = dk[bl[b]]
  PROVE  IsStore(s, bl, va \cup {b}, db, dk)
<1>1. b \notin va /\ bl[b] \in Blocks => \A c \in va : bl[c] # bl[b]
  BY DEF OneBuffer
<1> QED
  BY <1>1 DEF IsStore

(* The holder of a block stores a value, and a block changes hands.        *)
Caches(bl, b, k) == b \in Bufs /\ k \in Blocks /\ bl[b] = k
HeldAs(f, i, x) == f[i] = x

(* A value put into the buffer of a block is put into that block.          *)
LEMMA Stored ==
  ASSUME NEW s, NEW t, NEW bl, NEW va, NEW da, NEW db, NEW dk, NEW b \in va, NEW k, NEW v \in Vals,
         IsStore(s, bl, va, da, dk), OneBuffer(bl), va \subseteq Bufs, Caches(bl, b, k),
         da \in [Bufs -> Vals], Sets(t, s, k, v), Sets(db, da, b, v)
  PROVE  IsStore(t, bl, va, db, dk)
<1>1. /\ t \in [Blocks -> Vals] /\ t[k] = v
      /\ \A j \in Blocks : j # k => t[j] = s[j]
  BY DEF IsStore, Sets, Caches
<1>2. \A c \in va : bl[c] = k => c = b
  BY DEF OneBuffer, Caches
<1>3. db[b] = v /\ \A c \in va : c # b => db[c] = da[c]
  BY DEF Sets
<1> QED
  BY <1>1, <1>2, <1>3 DEF IsStore, Caches

(* The lock of the buffer of a block is the lock of the block.             *)
LEMMA HeldBy ==
  ASSUME NEW h, NEW bl, NEW ho, NEW b, NEW k, NEW x,
         IsHolder(h, bl, ho), OneBuffer(bl), Caches(bl, b, k), HeldAs(ho, b, x)
  PROVE  HeldAs(h, k, x)
<1>1. CASE x # NoProc
  BY <1>1 DEF IsHolder, Caches, HeldAs
<1>2. CASE x = NoProc
  <2>1. \A c \in Bufs : bl[c] = k => ho[c] = NoProc
    BY <1>2 DEF OneBuffer, Caches, HeldAs
  <2> QED
    BY <1>2, <2>1 DEF IsHolder, Caches, HeldAs
<1> QED
  BY <1>1, <1>2

(* Taking or giving up the lock of the buffer does it for the block.       *)
LEMMA HandedOver ==
  ASSUME NEW h, NEW g, NEW bl, NEW ho, NEW hp, NEW b, NEW k, NEW x \in Threads \cup {NoProc},
         IsHolder(h, bl, ho), OneBuffer(bl), Caches(bl, b, k),
         ho \in [Bufs -> Threads \cup {NoProc}], Sets(g, h, k, x), Sets(hp, ho, b, x)
  PROVE  IsHolder(g, bl, hp)
<1>1. b \in Bufs /\ k \in Blocks /\ bl[b] = k
  BY DEF Caches
<1>2. /\ g \in [Blocks -> Threads \cup {NoProc}] /\ g[k] = x
      /\ \A j \in Blocks : j # k => g[j] = h[j]
  BY <1>1 DEF IsHolder, Sets
<1>3. hp[b] = x /\ \A c \in Bufs : c # b => hp[c] = ho[c]
  BY <1>1 DEF Sets
<1>4. \A c \in Bufs : bl[c] = k => c = b
  BY <1>1 DEF OneBuffer
<1>5. \A c \in Bufs : bl[c] \in Blocks /\ hp[c] # NoProc => g[bl[c]] = hp[c]
  BY <1>1, <1>2, <1>3, <1>4 DEF IsHolder
<1>6. ASSUME NEW j \in Blocks, \A c \in Bufs : bl[c] = j => hp[c] = NoProc
      PROVE  g[j] = NoProc
  <2>1. CASE j = k
    BY <1>1, <1>2, <1>3, <1>6, <2>1
  <2>2. CASE j # k
    <3>1. \A c \in Bufs : bl[c] = j => ho[c] = NoProc
      BY <1>1, <1>3, <1>6, <2>2
    <3> QED
      BY <1>2, <2>2, <3>1 DEF IsHolder
  <2> QED
    BY <2>1, <2>2
<1> QED
  BY <1>2, <1>5, <1>6 DEF IsHolder

(* A block has one buffer (CacheInv).                                      *)
LEMMA OneBufferEach ==
  ASSUME CacheAssumption, CInv
  PROVE  OneBuffer(block)
  BY DEF CInv, CacheInv, BufsOwned, OneBuffer, CacheAssumption

(* Recycling in bget is no step of the store.                              *)
LEMMA bgetMissStutters ==
  ASSUME Counting, CacheAssumption, CInv, CInv', NEW p \in Threads, NEW k \in Blocks, NEW b \in Bufs,
         bget(p, k, b), bgetMiss(p, k, b)
  PROVE  Store' = Store /\ Holder' = Holder
<1>1. holder[b] = NoProc /\ b \notin dirty
  BY NoUser DEF bgetMiss, Recyclable
<1>2. /\ block' = [block EXCEPT ![b] = k] /\ valid' = valid \ {b}
      /\ UNCHANGED <<data, holder, disk>> /\ \A c \in Bufs : block[c] # k
  BY DEF bget, bgetMiss
<1>3. block \in [Bufs -> Blocks \cup {NoBlock}] /\ valid \subseteq Bufs
  BY DEF CInv, CacheTypes
<1>4. b \in valid => data[b] = disk[block[b]]
  BY <1>1 DEF CInv, CacheInv, Coherent
<1>5. Sets(block', block, b, k) /\ Unused(block, valid, data, disk, holder, b, k)
  BY <1>1, <1>2, <1>3, <1>4 DEF Sets, Unused
<1> DEFINE s == Store  h == Holder
<1>6. IsStore(s, block, valid, data, disk) /\ IsHolder(h, block, holder)
  BY Abstract
<1> HIDE DEF s, h
<1>7. IsStore(s, block', valid \ {b}, data, disk) /\ IsHolder(h, block', holder)
  BY <1>5, <1>6, Recycled, Zenon
<1>8. IsStore(s, block', valid', data', disk') /\ IsHolder(h, block', holder')
  BY <1>2, <1>7
<1>9. Store' = s
  BY <1>8, StoreNext
<1>10. Holder' = h
  BY <1>8, HolderNext
<1> QED
  BY <1>9, <1>10 DEF s, h

(* The disk writes only blocks of dirty buffers, and those are valid.      *)
LEMMA StartedElsewhere ==
  ASSUME CacheAssumption, CInv, NEW q \in Seq(Bufs), NEW k \in Blocks, \A b \in valid : block[b] # k
  PROVE  Started(q, disk)[k] = disk[k]
<1>1. CASE q # <<>> /\ Head(q) \in dirty
  <2>1. block[Head(q)] # k
    BY <1>1 DEF CInv, CacheInv, Coherent
  <2> QED
    BY <1>1, <2>1 DEF Started, CInv, CacheTypes
<1>2. CASE ~(q # <<>> /\ Head(q) \in dirty)
  BY <1>2 DEF Started
<1> QED
  BY <1>1, <1>2

(* Queueing a request, and starting the disk, is no step of the store.     *)
LEMMA iderwStutters ==
  ASSUME CacheAssumption, CInv, CInv', NEW p \in Threads, iderw(p)
  PROVE  Store' = Store /\ Holder' = Holder
<1>1. /\ UNCHANGED <<block, valid, data, holder>>
      /\ disk' = IF idequeue = <<>> THEN Started(idequeue', disk) ELSE disk
      /\ idequeue' \in Seq(Bufs)
  BY DEF iderw, bufs, CInv, CacheTypes
<1>2. PICK q \in Seq(Bufs) : q = idequeue'
  BY <1>1
<1>3. \A k \in Blocks : (\A b \in valid : block[b] # k) => disk'[k] = disk[k]
  BY <1>1, <1>2, StartedElsewhere
<1> DEFINE s == Store
<1>4. IsStore(s, block, valid, data, disk)
  BY Abstract
<1> HIDE DEF s
<1>5. IsStore(s, block, valid, data, disk')
  BY <1>3, <1>4, WrittenElsewhere
<1>6. IsStore(s, block', valid', data', disk')
  BY <1>1, <1>5
<1>7. Store' = s
  BY <1>6, StoreNext
<1>8. Holder' = Holder
  BY <1>1, SameHolder
<1> QED
  BY <1>7, <1>8 DEF s

(* The interrupt of the disk is no step of the store.                      *)
LEMMA ideintrStutters ==
  ASSUME CacheAssumption, CInv, CInv', ReadErrors = FALSE, ideintr
  PROVE  Store' = Store /\ Holder' = Holder
<1>1. PICK b \in Bufs : b = Head(idequeue)
  BY DEF ideintr, CInv, CacheTypes
<1>2. /\ UNCHANGED <<block, holder>> /\ valid' = valid \cup {b}
      /\ data' = [data EXCEPT ![b] = IF b \in dirty THEN @ ELSE disk[block[b]]]
      /\ disk' = Started(idequeue', disk) /\ idequeue' \in Seq(Bufs)
  BY <1>1 DEF ideintr, Done, CInv, CacheTypes
<1>3. PICK q \in Seq(Bufs) : q = idequeue'
  BY <1>2
<1>4. \A k \in Blocks : (\A c \in valid : block[c] # k) => disk'[k] = disk[k]
  BY <1>2, <1>3, StartedElsewhere
<1>5. /\ dirty \subseteq valid /\ \A c \in valid : c \notin dirty => data[c] = disk[block[c]]
      /\ data \in [Bufs -> Vals] /\ valid \subseteq Bufs
  BY DEF CInv, CacheTypes, CacheInv, Coherent
<1>6. /\ \A c \in valid : data'[c] = data[c]
      /\ b \notin valid => data'[b] = disk[block[b]]
  BY <1>2, <1>5
<1> DEFINE s == Store
<1>7. IsStore(s, block, valid, data, disk) /\ OneBuffer(block)
  BY Abstract, OneBufferEach
<1> HIDE DEF s
<1>8. IsStore(s, block, valid \cup {b}, data', disk)
  BY <1>5, <1>6, <1>7, Filled, Zenon
<1>9. \A k \in Blocks : (\A c \in valid \cup {b} : block[c] # k) => disk'[k] = disk[k]
  BY <1>4
<1>10. IsStore(s, block, valid \cup {b}, data', disk')
  BY <1>8, <1>9, WrittenElsewhere
<1>11. IsStore(s, block', valid', data', disk')
  BY <1>2, <1>10
<1>12. Store' = s
  BY <1>11, StoreNext
<1>13. Holder' = Holder
  BY <1>2, SameHolder
<1> QED
  BY <1>12, <1>13 DEF s

(* acquiresleep takes the block, or the thread goes to sleep.              *)
LEMMA acquiresleepTakes ==
  ASSUME CacheAssumption, CInv, CInv', NEW p \in Threads, acquiresleep(p)
  PROVE  /\ Store' = Store
         /\ \/ Holder' = Holder
            \/ \E k \in Blocks : Holder[k] = NoProc /\ Holder' = [Holder EXCEPT ![k] = p]
<1>1. UNCHANGED <<block, valid, dirty, data, disk>>
  BY DEF acquiresleep, bufs
<1>2. Store' = Store
  BY <1>1, SameStore
<1>3. PICK b \in Bufs : b = buf[p] /\ block[b] \in Blocks
  BY DEF acquiresleep, Ready, CInv, CacheTypes, CacheInv, BufsOwned
<1>4. CASE holder[b] # NoProc
  <2>1. Holder' = Holder
    BY <1>1, <1>3, <1>4, SameHolder DEF acquiresleep
  <2> QED
    BY <1>2, <2>1
<1>5. CASE holder[b] = NoProc
  <2>1. holder' = [holder EXCEPT ![b] = p] /\ holder \in [Bufs -> Threads \cup {NoProc}]
    BY <1>3, <1>5 DEF acquiresleep, CInv, CacheTypes
  <2>2. PICK k \in Blocks : Caches(block, b, k)
    BY <1>3 DEF Caches
  <2> DEFINE h == Holder
  <2>3. IsHolder(h, block, holder) /\ OneBuffer(block)
    BY Abstract, OneBufferEach
  <2> HIDE DEF h
  <2>4. HeldAs(h, k, NoProc)
    <3>1. HeldAs(holder, b, NoProc)
      BY <1>5 DEF HeldAs
    <3> QED
      BY <2>2, <2>3, <3>1, HeldBy
  <2> DEFINE g == [h EXCEPT ![k] = p]
  <2>5. Sets(g, h, k, p) /\ Sets(holder', holder, b, p)
    BY <2>1 DEF Sets
  <2> HIDE DEF g
  <2>6. IsHolder(g, block, holder')
    BY <2>1, <2>2, <2>3, <2>5, HandedOver
  <2>7. IsHolder(g, block', holder')
    BY <1>1, <2>6
  <2>8. Holder' = g
    BY <2>7, HolderNext
  <2>9. Holder[k] = NoProc /\ Holder' = [Holder EXCEPT ![k] = p]
    BY <2>4, <2>8 DEF g, h, HeldAs
  <2> QED
    BY <1>2, <2>9, Zenon
<1> QED
  BY <1>4, <1>5

(* bwrite and log_write by the holder put a value into the block.          *)
LEMMA WritePuts ==
  ASSUME CacheAssumption, CInv, CInv', NEW p \in Threads, NEW v \in Vals,
         bwrite(p, v) \/ log_write(p, v)
  PROVE  /\ Holder' = Holder
         /\ \E k \in Blocks : Holder[k] = p /\ Store' = [Store EXCEPT ![k] = v]
<1>1. /\ UNCHANGED <<block, valid, disk, holder>> /\ data' = [data EXCEPT ![buf[p]] = v]
      /\ Ready(p, "held")
  BY DEF bwrite, log_write
<1>2. PICK b \in valid : b = buf[p] /\ holder[b] = p /\ block[b] \in Blocks
  BY <1>1, HolderAlone
<1>3. Holder' = Holder
  BY <1>1, SameHolder
<1>4. /\ b \in Bufs /\ valid \subseteq Bufs /\ data \in [Bufs -> Vals]
      /\ holder \in [Bufs -> Threads \cup {NoProc}]
  BY DEF CInv, CacheTypes
<1>5. PICK k \in Blocks : Caches(block, b, k)
  BY <1>2, <1>4 DEF Caches
<1> DEFINE s == Store  h == Holder
<1>6. IsStore(s, block, valid, data, disk) /\ IsHolder(h, block, holder) /\ OneBuffer(block)
  BY Abstract, OneBufferEach
<1> HIDE DEF s, h
<1>7. HeldAs(h, k, p)
  <2>1. HeldAs(holder, b, p)
    BY <1>2 DEF HeldAs
  <2> QED
    BY <1>5, <1>6, <2>1, HeldBy
<1> DEFINE t == [s EXCEPT ![k] = v]
<1>8. Sets(t, s, k, v) /\ Sets(data', data, b, v)
  BY <1>1, <1>2 DEF Sets
<1> HIDE DEF t
<1>9. IsStore(t, block, valid, data', disk)
  BY <1>4, <1>5, <1>6, <1>8, Stored
<1>10. IsStore(t, block', valid', data', disk')
  BY <1>1, <1>9
<1>11. Store' = t
  BY <1>10, StoreNext
<1>12. Holder[k] = p /\ Store' = [Store EXCEPT ![k] = v]
  BY <1>7, <1>11 DEF s, h, t, HeldAs
<1> QED
  BY <1>3, <1>12, Zenon

(* releasesleep gives up the block.                                        *)
LEMMA releasesleepDrops ==
  ASSUME CacheAssumption, CInv, CInv', NEW p \in Threads, releasesleep(p)
  PROVE  /\ Store' = Store
         /\ \E k \in Blocks : Holder[k] = p /\ Holder' = [Holder EXCEPT ![k] = NoProc]
<1>1. /\ UNCHANGED <<block, valid, dirty, data, disk>> /\ Ready(p, "held")
      /\ holder' = [holder EXCEPT ![buf[p]] = NoProc]
  BY DEF releasesleep, bufs
<1>2. PICK b \in valid : b = buf[p] /\ holder[b] = p /\ block[b] \in Blocks
  BY <1>1, HolderAlone
<1>3. Store' = Store
  BY <1>1, SameStore
<1>4. b \in Bufs /\ holder \in [Bufs -> Threads \cup {NoProc}]
  BY DEF CInv, CacheTypes
<1>5. PICK k \in Blocks : Caches(block, b, k)
  BY <1>2, <1>4 DEF Caches
<1> DEFINE h == Holder
<1>6. IsHolder(h, block, holder) /\ OneBuffer(block)
  BY Abstract, OneBufferEach
<1> HIDE DEF h
<1>7. HeldAs(h, k, p)
  <2>1. HeldAs(holder, b, p)
    BY <1>2 DEF HeldAs
  <2> QED
    BY <1>5, <1>6, <2>1, HeldBy
<1> DEFINE g == [h EXCEPT ![k] = NoProc]
<1>8. Sets(g, h, k, NoProc) /\ Sets(holder', holder, b, NoProc)
  BY <1>1, <1>2 DEF Sets
<1> HIDE DEF g
<1>9. IsHolder(g, block, holder')
  BY <1>4, <1>5, <1>6, <1>8, HandedOver
<1>10. IsHolder(g, block', holder')
  BY <1>1, <1>9
<1>11. Holder' = g
  BY <1>10, HolderNext
<1>12. Holder[k] = p /\ Holder' = [Holder EXCEPT ![k] = NoProc]
  BY <1>7, <1>11 DEF g, h, HeldAs
<1> QED
  BY <1>3, <1>12, Zenon

(* Every step of the cache is a step of the store or none.                 *)
LEMMA StepsRefine ==
  ASSUME Counting, CacheAssumption, ReadErrors = FALSE, CInv, CInv', [CacheNext]_cacheVars
  PROVE  [BS!BSNext]_BS!bsvars
<1>1. CASE UNCHANGED cacheVars
  BY <1>1, SameStore, SameHolder DEF cacheVars, bufs, BS!bsvars
<1>2. CASE ideintr
  BY <1>2, ideintrStutters DEF BS!bsvars
<1>3. ASSUME NEW p \in Threads, iderwDone(p) \/ Unref(p)
      PROVE  UNCHANGED BS!bsvars
  <2>1. UNCHANGED <<block, valid, dirty, data, disk, holder>>
    BY <1>3 DEF iderwDone, Unref, bufs
  <2> QED
    BY <2>1, SameStore, SameHolder DEF BS!bsvars
<1>4. ASSUME NEW p \in Threads, Work(p)
      PROVE  BS!BSNext \/ UNCHANGED BS!bsvars
  <2>1. CASE iderw(p)
    BY <2>1, iderwStutters DEF BS!bsvars
  <2>2. CASE acquiresleep(p)
    BY <2>2, acquiresleepTakes DEF BS!bsvars, BS!BSNext, BS!Take
  <2>3. CASE releasesleep(p)
    BY <2>3, releasesleepDrops DEF BS!BSNext, BS!Drop
  <2> QED
    BY <1>3, <1>4, <2>1, <2>2, <2>3 DEF Work
<1>5. ASSUME NEW p \in Threads, NEW k \in Blocks, NEW b \in Bufs, bget(p, k, b)
      PROVE  UNCHANGED BS!bsvars
  <2>1. CASE bgetHit(p, k, b)
    <3>1. UNCHANGED <<block, valid, dirty, data, disk, holder>>
      BY <1>5, <2>1 DEF bget, bgetHit
    <3> QED
      BY <3>1, SameStore, SameHolder DEF BS!bsvars
  <2>2. CASE bgetMiss(p, k, b)
    BY <1>5, <2>2, bgetMissStutters DEF BS!bsvars
  <2> QED
    BY <1>5, <2>1, <2>2 DEF bget
<1>6. ASSUME NEW p \in Threads, NEW v \in Vals, bwrite(p, v) \/ log_write(p, v)
      PROVE  BS!BSNext
  BY <1>6, WritePuts DEF BS!BSNext, BS!Put
<1> QED
  BY <1>1, <1>2, <1>4, <1>5, <1>6 DEF CacheNext

-----------------------------------------------------------------------------
(* Counting is what the library knows of finite sets.                      *)
INSTANCE FiniteSetTheorems

(* FiniteSetTheorems proves each of the facts assumed.                     *)
LEMMA Counted == Counting
<1>1. IsFiniteSet({}) /\ Cardinality({}) = 0
  BY FS_EmptySet
<1>2. \A S, T : IsFiniteSet(T) /\ S \subseteq T => IsFiniteSet(S)
  BY FS_Subset
<1>3. \A S : IsFiniteSet(S) => Cardinality(S) \in Nat /\ (Cardinality(S) = 0 <=> S = {})
  BY FS_CardinalityType, FS_EmptySet
<1>4. \A S, x : IsFiniteSet(S) /\ x \notin S =>
        IsFiniteSet(S \cup {x}) /\ Cardinality(S \cup {x}) = Cardinality(S) + 1
  BY FS_AddElement
<1>5. \A S, x : IsFiniteSet(S) /\ x \in S =>
        IsFiniteSet(S \ {x}) /\ Cardinality(S \ {x}) = Cardinality(S) - 1
  BY FS_RemoveElement
<1> QED
  BY <1>1, <1>2, <1>3, <1>4, <1>5 DEF Counting

(* bread, bwrite, brelse, and the disk driver below them: the buffer cache *)
(* is a store of blocks with one holder each, for any number of threads,   *)
(* buffers and blocks, as long as no disk read fails.                      *)
THEOREM CacheImplementsBlockStore ==
  ASSUME CacheAssumption, ReadErrors = FALSE
  PROVE  CacheSpec => ImplementsBlockStore
<1>1. CacheInit => CInv /\ BS!BSInit
  <2> SUFFICES ASSUME CacheInit PROVE CInv /\ BS!BSInit
    OBVIOUS
  <2>1. CInv
    BY CInitial, Counted
  <2>2. PICK s, h : s = Store /\ h = Holder
    OBVIOUS
  <2>3. IsStore(s, block, valid, data, disk) /\ IsHolder(h, block, holder)
    BY <2>1, <2>2, Abstract
  <2>4. s \in [Blocks -> Vals]
    BY <2>3 DEF IsStore
  <2>5. \A k \in Blocks : h[k] = NoProc
    BY <2>3 DEF IsHolder, CacheInit
  <2>6. h = [k \in Blocks |-> NoProc]
    BY <2>3, <2>5 DEF IsHolder
  <2> QED
    BY <2>1, <2>2, <2>4, <2>6 DEF BS!BSInit
<1>2. CInv /\ [CacheNext]_cacheVars => CInv'
  BY CNext, Counted
<1>3. CInv /\ CInv' /\ [CacheNext]_cacheVars => [BS!BSNext]_BS!bsvars
  BY StepsRefine, Counted
<1> QED
  BY <1>1, <1>2, <1>3, PTL DEF CacheSpec, ImplementsBlockStore, BS!BSSpec
=============================================================================
