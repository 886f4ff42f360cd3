----------------------------- MODULE LogProofs ------------------------------
(***************************************************************************)
(* Proofs about the space of the redo log: what begin_op reserves is never *)
(* promised twice, and nobody sleeps on &log for nothing.  The invariant   *)
(* behind it accounts for every thread between begin_op and end_op and for *)
(* the one that commits.                                                   *)
(*                                                                         *)
(* On top of that, commit() and recovery: as long as a transaction fits    *)
(* the log on disk, the redo log implements AtomicDisk.  The invariant     *)
(* says which buffers are pinned, that every other buffer agrees with the  *)
(* disk, and how far the log and the home blocks agree in each phase of a  *)
(* commit.                                                                 *)
(***************************************************************************)
EXTENDS Log, FiniteSetTheorems, TLAPS

USE ZenonT(10), SMTT(20)

-----------------------------------------------------------------------------
(* Facts about sequences and finite sets.                                  *)


(* Append adds an element at the end.                                      *)
LEMMA AppendIs ==
  ASSUME NEW S, NEW s \in Seq(S), NEW e \in S
  PROVE  /\ Append(s, e) \in Seq(S) /\ Len(s) \in Nat
         /\ Len(Append(s, e)) = Len(s) + 1
         /\ \A i \in 1 .. Len(s) : Append(s, e)[i] = s[i]
         /\ Append(s, e)[Len(s) + 1] = e
  OBVIOUS

(* The set of a sequence's elements.                                       *)
LEMMA RangeIs ==
  ASSUME NEW S, NEW s \in Seq(S)
  PROVE  /\ Range(s) = {s[i] : i \in 1 .. Len(s)}
         /\ Range(s) \subseteq S
         /\ \A i \in 1 .. Len(s) : s[i] \in S /\ s[i] \in Range(s)
<1>1. DOMAIN s = 1 .. Len(s) /\ \A i \in 1 .. Len(s) : s[i] \in S
  OBVIOUS
<1> QED
  BY <1>1 DEF Range

(* Append adds one element.                                                *)
LEMMA RangeAppend ==
  ASSUME NEW S, NEW s \in Seq(S), NEW e \in S
  PROVE  Range(Append(s, e)) = Range(s) \cup {e}
<1> DEFINE t == Append(s, e)
<1>1. /\ t \in Seq(S) /\ Len(t) = Len(s) + 1 /\ Len(s) \in Nat
      /\ \A i \in 1 .. Len(s) : t[i] = s[i]
      /\ t[Len(s) + 1] = e
  BY AppendIs
<1>2. Range(t) = {t[i] : i \in 1 .. Len(t)} /\ Range(s) = {s[i] : i \in 1 .. Len(s)}
  BY <1>1, RangeIs
<1> HIDE DEF t
<1>3. ASSUME NEW x \in Range(t) PROVE x \in Range(s) \cup {e}
  <2>1. PICK i \in 1 .. Len(t) : x = t[i]
    BY <1>2
  <2>2. i \in 1 .. Len(s) \/ i = Len(s) + 1
    BY <1>1
  <2> QED
    BY <2>1, <2>2, <1>1, <1>2
<1>4. ASSUME NEW x \in Range(s) PROVE x \in Range(t)
  <2>1. PICK i \in 1 .. Len(s) : x = s[i]
    BY <1>2
  <2>2. i \in 1 .. Len(t) /\ t[i] = x
    BY <2>1, <1>1
  <2> QED
    BY <2>2, <1>2
<1>5. e \in Range(t)
  <2>1. Len(s) + 1 \in 1 .. Len(t)
    BY <1>1
  <2> QED
    BY <2>1, <1>1, <1>2
<1> QED
  BY <1>3, <1>4, <1>5 DEF t

(* A set of operations is empty exactly when it has no members to count.   *)
LEMMA ActiveFinite ==
  ASSUME IsFiniteSet(Procs)
  PROVE  /\ IsFiniteSet(Active) /\ Cardinality(Active) \in Nat
         /\ Cardinality(Active) <= Cardinality(Procs) /\ Cardinality(Procs) \in Nat
         /\ Cardinality(Active) = 0 <=> Active = {}
<1>1. Active \subseteq Procs
  BY DEF Active
<1> QED
  BY <1>1, FS_Subset, FS_CardinalityType, FS_EmptySet

-----------------------------------------------------------------------------
(* The threads between begin_op and end_op.                                *)

(* What the proofs use of the types.                                       *)
LogTypes ==
  /\ lh \in Seq(Blocks) /\ Len(lh) \in Nat
  /\ pc \in [Procs -> {"out", "begin", "op", "log", "commit"}]
  /\ held \in [Procs -> {NoBlock} \cup {{b} : b \in Blocks}]
  /\ wrote \in [Procs -> SUBSET Blocks]

(* The part of the types that the account of the space uses.               *)
LEMMA TypesUsed == TypeOK => LogTypes
  BY DEF TypeOK, LogTypes

(* begin_op: one more operation, and outstanding counts it.                *)
LEMMA BeginCounts ==
  ASSUME IsFiniteSet(Procs), LogTypes, Threads, NEW p \in Procs, pc[p] = "begin",
         outstanding' = outstanding + 1, pc' = [pc EXCEPT ![p] = "op"]
  PROVE  Active' = Active \cup {p} /\ outstanding' = Cardinality(Active')
<1>1. Active' = Active \cup {p} /\ p \notin Active
  BY DEF Active, LogTypes
<1>2. Cardinality(Active \cup {p}) = Cardinality(Active) + 1
  BY <1>1, ActiveFinite, FS_AddElement
<1> QED
  BY <1>1, <1>2 DEF Threads

(* end_op: one operation less.                                             *)
LEMMA EndCounts ==
  ASSUME IsFiniteSet(Procs), LogTypes, Threads, NEW p \in Procs, pc[p] = "op",
         outstanding' = outstanding - 1,
         NEW x \in {"out", "commit"}, pc' = [pc EXCEPT ![p] = x]
  PROVE  Active' = Active \ {p} /\ outstanding' = Cardinality(Active')
<1>1. Active' = Active \ {p} /\ p \in Active
  BY DEF Active, LogTypes
<1>2. Cardinality(Active \ {p}) = Cardinality(Active) - 1
  BY <1>1, ActiveFinite, FS_RemoveElement
<1> QED
  BY <1>1, <1>2 DEF Threads

(* Every step keeps the account of the threads.                            *)
LEMMA ThreadsKept ==
  ASSUME LogAssumption, TypeOK, Threads, Commits, [Next]_vars
  PROVE  Threads'
<1>0. IsFiniteSet(Procs) /\ MAXOPBLOCKS \in Nat
  BY DEF LogAssumption
<1> USE TypesUsed
<1>1. ASSUME NEW p \in Procs, Call(p) PROVE Threads'
  <2>1. pc[p] = "out" /\ pc' = [pc EXCEPT ![p] = "begin"]
        /\ UNCHANGED <<outstanding, held, wrote, lh, asleep, panicked>>
    BY <1>1 DEF Call, mem
  <2>2. Active' = Active
    BY <2>1 DEF Active, LogTypes
  <2>3. ASSUME NEW q \in Procs PROVE ThreadOK(q)'
    BY <2>1, <2>2 DEF ThreadOK, LogTypes, Threads
  <2> QED
    BY <2>1, <2>2, <2>3 DEF Threads
<1>2. ASSUME NEW p \in Procs, begin_op(p) PROVE Threads'
  <2>1. pc[p] = "begin" /\ UNCHANGED <<held, wrote, lh, panicked>>
    BY <1>2 DEF begin_op
  <2>2. CASE UNCHANGED <<outstanding, pc>> /\ asleep' = asleep \cup {p}
    <3>1. Active' = Active
      BY <2>2 DEF Active
    <3>2. ASSUME NEW q \in Procs PROVE ThreadOK(q)'
      BY <2>1, <2>2, <3>1 DEF ThreadOK, Threads
    <3> QED
      BY <2>2, <3>1, <3>2 DEF Threads
  <2>3. CASE outstanding' = outstanding + 1 /\ pc' = [pc EXCEPT ![p] = "op"] /\ asleep' = asleep /\ p \notin asleep
    <3>1. Active' = Active \cup {p} /\ outstanding' = Cardinality(Active')
      BY <1>0, <2>1, <2>3, BeginCounts
    <3>2. ASSUME NEW q \in Procs PROVE ThreadOK(q)'
      BY <2>1, <2>3, <3>1 DEF ThreadOK, LogTypes, Threads
    <3> QED
      BY <3>1, <3>2 DEF Threads
  <2> QED
    BY <1>2, <2>2, <2>3 DEF begin_op, Counted
<1>3. ASSUME NEW p \in Procs, NEW b \in Blocks, NEW v \in Vals, Modify(p, b, v)
      PROVE Threads'
  <2>1. /\ pc[p] = "op" /\ ~panicked /\ Cardinality(wrote[p] \cup {b}) <= MAXOPBLOCKS
        /\ \A q \in Procs : b \notin held[q]
        /\ held' = [held EXCEPT ![p] = {b}]
        /\ wrote' = [wrote EXCEPT ![p] = @ \cup {b}]
        /\ \/ panicked' = TRUE /\ pc' = pc
           \/ pc' = [pc EXCEPT ![p] = "log"] /\ panicked' = panicked
        /\ UNCHANGED <<outstanding, lh, asleep>>
    BY <1>3 DEF Modify, mem, Up
  <2>2. Active' = Active /\ p \in Active
    BY <2>1 DEF Active, LogTypes
  <2>3. held[p] = {} /\ held'[p] = {b} /\ wrote'[p] = wrote[p] \cup {b}
        /\ \A q \in Procs : q # p => held'[q] = held[q] /\ wrote'[q] = wrote[q] /\ pc'[q] = pc[q]
    BY <2>1 DEF ThreadOK, LogTypes, Threads
  <2>4. IsFiniteSet(wrote[p] \cup {b})
    BY FS_AddElement DEF ThreadOK, Threads
  <2>5. ThreadOK(p)'
    BY <2>1, <2>2, <2>3, <2>4 DEF ThreadOK, LogTypes, Threads
  <2>6. ASSUME NEW q \in Procs, q # p PROVE ThreadOK(q)'
    BY <2>1, <2>2, <2>3, <2>6 DEF ThreadOK, Threads
  <2> QED
    BY <2>1, <2>2, <2>5, <2>6 DEF Threads
<1>4. ASSUME NEW p \in Procs, log_write(p) PROVE Threads'
  <2>1. /\ pc[p] = "log" /\ held' = [held EXCEPT ![p] = {}] /\ pc' = [pc EXCEPT ![p] = "op"]
        /\ UNCHANGED <<outstanding, asleep, wrote, panicked>>
    BY <1>4 DEF log_write, NoBlock
  <2>2. PICK b \in held[p] : lh' = IF b \in Range(lh) THEN lh ELSE Append(lh, b)
    BY <1>4 DEF log_write, Record
  <2>3. held[p] = {b} /\ b \in Blocks
    BY <2>2 DEF LogTypes, NoBlock
  <2>4. Range(lh') = Range(lh) \cup {b}
    BY <2>2, <2>3, RangeAppend DEF LogTypes
  <2>5. Range(lh)' = Range(lh) \cup {b}
    BY <2>4 DEF Range
  <2>6. Active' = Active /\ p \in Active
    BY <2>1 DEF Active, LogTypes
  <2>7. ASSUME NEW q \in Procs PROVE ThreadOK(q)'
    BY <2>1, <2>3, <2>5, <2>6 DEF ThreadOK, LogTypes, Threads
  <2> QED
    BY <2>1, <2>6, <2>7 DEF Threads
<1>5. ASSUME NEW p \in Procs, end_op(p) PROVE Threads'
  <2>1. /\ pc[p] = "op" /\ ~panicked /\ outstanding' = outstanding - 1
        /\ wrote' = [wrote EXCEPT ![p] = {}] /\ UNCHANGED <<lh, held>>
    BY <1>5 DEF end_op, Up
  <2>2. ~committing
    BY <2>1 DEF Commits, Active
  <2>3. PICK x \in {"out", "commit"} : pc' = [pc EXCEPT ![p] = x]
    BY <1>5, <2>2 DEF end_op
  <2>4. asleep' \subseteq asleep /\ panicked' = panicked
    BY <1>5, <2>2 DEF end_op, EndWakeups
  <2>5. Active' = Active \ {p} /\ outstanding' = Cardinality(Active')
    BY <1>0, <2>1, <2>3, EndCounts
  <2>6. held[p] = {}
    BY <2>1 DEF ThreadOK, Threads
  <2>7. IsFiniteSet({}) /\ Cardinality({}) = 0
    BY FS_EmptySet
  <2>8. ThreadOK(p)'
    BY <1>0, <2>1, <2>3, <2>4, <2>5, <2>6, <2>7 DEF ThreadOK, LogTypes, Threads
  <2>9. ASSUME NEW q \in Procs, q # p PROVE ThreadOK(q)'
    BY <2>1, <2>3, <2>4, <2>5, <2>9 DEF ThreadOK, LogTypes, Threads
  <2> QED
    BY <2>5, <2>8, <2>9 DEF Threads
<1>6. ASSUME NEW p \in Procs, commit_done(p) PROVE Threads'
  <2>1. /\ pc[p] = "commit" /\ pc' = [pc EXCEPT ![p] = "out"] /\ asleep' = {}
        /\ UNCHANGED <<lh, outstanding, held, wrote, panicked>>
    BY <1>6 DEF commit_done
  <2>2. Active' = Active
    BY <2>1 DEF Active, LogTypes
  <2>3. ASSUME NEW q \in Procs PROVE ThreadOK(q)'
    BY <2>1, <2>2 DEF ThreadOK, LogTypes, Threads
  <2> QED
    BY <2>1, <2>2, <2>3 DEF Threads
<1>7. ASSUME UNCHANGED <<lh, outstanding, pc, asleep, held, wrote, panicked>> PROVE Threads'
  BY <1>7 DEF Threads, ThreadOK, Active, Range
<1>8. CASE clear_head
  <2>1. Active = {} /\ \A p \in Procs : held[p] = {}
    BY <1>8 DEF clear_head, Commits, Active, ThreadOK, Threads
  <2>2. UNCHANGED <<outstanding, pc, asleep, held, wrote, panicked>>
    BY <1>8 DEF clear_head
  <2>3. Active' = Active
    BY <2>2 DEF Active
  <2>4. ASSUME NEW q \in Procs PROVE ThreadOK(q)'
    BY <2>1, <2>2, <2>3 DEF ThreadOK, Threads
  <2> QED
    BY <2>2, <2>3, <2>4 DEF Threads
<1>9. CASE Crash
  <2>1. /\ outstanding' = 0 /\ pc' = [p \in Procs |-> "out"] /\ asleep' = {}
        /\ held' = [p \in Procs |-> {}] /\ wrote' = [p \in Procs |-> {}]
    BY <1>9 DEF Crash, NoBlock
  <2>2. Active' = {}
    BY <2>1 DEF Active
  <2>3. IsFiniteSet({}) /\ Cardinality({}) = 0
    BY FS_EmptySet
  <2>4. ASSUME NEW q \in Procs PROVE ThreadOK(q)'
    BY <1>0, <2>1, <2>2, <2>3 DEF ThreadOK
  <2> QED
    BY <2>1, <2>2, <2>3, <2>4 DEF Threads
<1>10. CASE write_log \/ write_head \/ install_trans \/ \E b \in Blocks : Evict(b)
  BY <1>10, <1>7 DEF write_log, write_head, install_trans, Evict, mem
<1>11. CASE UNCHANGED vars
  BY <1>11, <1>7 DEF vars, mem
<1> QED
  BY <1>1, <1>2, <1>3, <1>4, <1>5, <1>6, <1>8, <1>9, <1>10, <1>11 DEF Next, ThreadStep, CommitStep

-----------------------------------------------------------------------------
(* The log's space.                                                        *)

(* At most MAXOPBLOCKS places for each operation of a finite set.          *)
LEMMA PlacesBound ==
  ASSUME MAXOPBLOCKS \in Nat, NEW A, IsFiniteSet(A), NEW P \in SUBSET (A \X (1 .. MAXOPBLOCKS))
  PROVE  /\ IsFiniteSet(P) /\ Cardinality(P) \in Nat
         /\ Cardinality(P) <= Cardinality(A) * MAXOPBLOCKS
<1>1. IsFiniteSet(1 .. MAXOPBLOCKS) /\ Cardinality(1 .. MAXOPBLOCKS) = MAXOPBLOCKS
  BY FS_Interval
<1>2. /\ IsFiniteSet(A \X (1 .. MAXOPBLOCKS))
      /\ Cardinality(A \X (1 .. MAXOPBLOCKS)) = Cardinality(A) * MAXOPBLOCKS
  BY <1>1, FS_Product
<1> QED
  BY <1>2, FS_Subset, FS_CardinalityType

(* Pending is a finite set.                                                *)
LEMMA PendingBound ==
  ASSUME LogAssumption
  PROVE  IsFiniteSet(Pending) /\ Cardinality(Pending) \in Nat
<1>1. IsFiniteSet(Active) /\ MAXOPBLOCKS \in Nat
  BY ActiveFinite DEF LogAssumption
<1>2. Pending \in SUBSET (Active \X (1 .. MAXOPBLOCKS))
  BY DEF Pending
<1> QED
  BY <1>1, <1>2, PlacesBound

(* What a step leaves of the places still promised.                        *)
LEMMA PendingShrinks ==
  ASSUME LogAssumption, Pending' \subseteq Pending
  PROVE  Cardinality(Pending') <= Cardinality(Pending) /\ Cardinality(Pending') \in Nat
<1>1. IsFiniteSet(Pending)
  BY PendingBound
<1> QED
  BY <1>1, FS_Subset, FS_CardinalityType

(* begin_op reserves MAXOPBLOCKS places, log_write takes one of them, and  *)
(* every other step leaves the reservation as it is or gives some up.      *)
LEMMA ReservationKept ==
  ASSUME LogAssumption, TypeOK, Threads, Commits, Reservation, [Next]_vars
  PROVE  Reservation'
<1>0. IsFiniteSet(Procs) /\ MAXOPBLOCKS \in Nat \ {0} /\ LOGSIZE \in Nat
  BY DEF LogAssumption
<1>t. LogTypes
  BY TypesUsed
<1>c. Cardinality(Pending) \in Nat
  BY PendingBound
<1>a. ASSUME Pending' \subseteq Pending, rec' = rec, lh' = lh PROVE Reservation'
  <2>1. Len(lh)' = Len(lh) /\ Len(lh) \in Nat
    BY <1>a, <1>t DEF LogTypes
  <2>2. Cardinality(Pending)' <= Cardinality(Pending) /\ Cardinality(Pending)' \in Nat
    BY <1>a, PendingShrinks
  <2> QED
    BY <1>0, <1>a, <1>c, <2>1, <2>2 DEF Reservation
<1>1. ASSUME NEW p \in Procs, Call(p) PROVE Reservation'
  <2>1. /\ pc[p] = "out" /\ pc' = [pc EXCEPT ![p] = "begin"]
        /\ UNCHANGED <<held, wrote, lh, rec>>
    BY <1>1 DEF Call, mem
  <2>2. Active' = Active
    BY <1>t, <2>1 DEF Active, LogTypes
  <2>3. Pending' = Pending
    BY <2>1, <2>2, SMTT(30) DEF Pending, Range
  <2> QED
    BY <1>a, <2>1, <2>3
<1>2. ASSUME NEW p \in Procs, begin_op(p) PROVE Reservation'
  <2>1. pc[p] = "begin" /\ UNCHANGED <<held, wrote, lh, rec>>
    BY <1>2 DEF begin_op
  <2>2. CASE pc' = pc
    <3>1. Pending' = Pending
      BY <2>1, <2>2 DEF Pending, Active, Range
    <3> QED
      BY <1>a, <2>1, <3>1
  <2>3. CASE outstanding' = outstanding + 1 /\ pc' = [pc EXCEPT ![p] = "op"] /\ ~NoSpace
    <3>1. Cardinality(Active)' = outstanding + 1 /\ Active' = Active \cup {p}
      BY <1>0, <1>t, <2>1, <2>3, BeginCounts
    <3>a. IsFiniteSet(Active') /\ Pending' \in SUBSET (Active' \X (1 .. MAXOPBLOCKS))
      BY <1>0, <3>1, ActiveFinite, FS_AddElement DEF Pending
    <3>2. Cardinality(Pending)' <= Cardinality(Active)' * MAXOPBLOCKS
          /\ Cardinality(Pending)' \in Nat
      BY <1>0, <3>a, PlacesBound
    <3>3. Len(lh) + (outstanding + 1) * MAXOPBLOCKS <= LOGSIZE
      BY <2>3, <1>0, <1>t DEF NoSpace, TypeOK, LogTypes
    <3>4. Len(lh)' = Len(lh) /\ Len(lh) \in Nat
      BY <1>t, <2>1 DEF LogTypes
    <3>5. (outstanding + 1) * MAXOPBLOCKS \in Int
      BY <1>0 DEF TypeOK
    <3> QED
      BY <1>0, <3>1, <3>2, <3>3, <3>4, <3>5 DEF Reservation
  <2> QED
    BY <1>2, <2>2, <2>3 DEF begin_op, Counted
<1>3. ASSUME NEW p \in Procs, NEW b \in Blocks, NEW v \in Vals, Modify(p, b, v)
      PROVE Reservation'
  <2>1. /\ pc[p] = "op" /\ ~panicked /\ Cardinality(wrote[p] \cup {b}) <= MAXOPBLOCKS
        /\ held' = [held EXCEPT ![p] = {b}]
        /\ wrote' = [wrote EXCEPT ![p] = @ \cup {b}]
        /\ pc' = pc \/ pc' = [pc EXCEPT ![p] = "log"]
        /\ UNCHANGED <<lh, rec>>
    BY <1>3 DEF Modify, mem, Up
  <2>2. Active' = Active
    BY <1>t, <2>1 DEF Active, LogTypes
  <2>3. held[p] = {} /\ wrote[p] \subseteq Range(lh) /\ IsFiniteSet(wrote[p])
    BY <2>1 DEF ThreadOK, Threads
  <2>4. /\ held'[p] = {b} /\ wrote'[p] = wrote[p] \cup {b}
        /\ \A q \in Procs : q # p => held'[q] = held[q] /\ wrote'[q] = wrote[q]
    BY <1>t, <2>1 DEF LogTypes
  <2>5. Cardinality(wrote[p]) \in Nat
        /\ \/ Cardinality(wrote[p] \cup {b}) = Cardinality(wrote[p]) /\ b \in Range(lh)
           \/ Cardinality(wrote[p] \cup {b}) = Cardinality(wrote[p]) + 1
    <3>1. CASE b \in wrote[p]
      <4>1. wrote[p] \cup {b} = wrote[p]
        BY <3>1
      <4> QED
        BY <3>1, <4>1, <2>3, FS_CardinalityType
    <3>2. CASE b \notin wrote[p]
      BY <3>2, <2>3, FS_AddElement, FS_CardinalityType
    <3> QED
      BY <3>1, <3>2
  <2>6. ASSUME NEW x \in Pending' PROVE x \in Pending
    <3>1. x \in Active \X (1 .. MAXOPBLOCKS) /\ x[1] \in Procs /\ x[2] \in Nat
          /\ \/ x[2] > Cardinality(wrote'[x[1]])
             \/ x[2] = Cardinality(wrote'[x[1]]) /\ ~(held'[x[1]] \subseteq Range(lh))
      BY <1>0, <2>2, <2>6, <2>1 DEF Pending, Active, Range
    <3>2. CASE x[1] # p
      BY <3>1, <3>2, <2>4 DEF Pending
    <3>3. CASE x[1] = p
      <4>1. x[2] > Cardinality(wrote[p])
        BY <3>1, <3>3, <2>4, <2>5
      <4> QED
        BY <4>1, <3>1, <3>3 DEF Pending
    <3> QED
      BY <3>2, <3>3
  <2> QED
    BY <1>a, <2>1, <2>6
<1>4. ASSUME NEW p \in Procs, log_write(p) PROVE Reservation'
  <2>1. /\ pc[p] = "log" /\ held' = [held EXCEPT ![p] = {}] /\ pc' = [pc EXCEPT ![p] = "op"]
        /\ UNCHANGED <<wrote, rec>> /\ ~rec
    BY <1>4 DEF log_write, NoBlock, Up
  <2>2. PICK b \in held[p] : lh' = IF b \in Range(lh) THEN lh ELSE Append(lh, b)
    BY <1>4 DEF log_write, Record
  <2>3. held[p] = {b} /\ b \in Blocks
    BY <1>t, <2>2 DEF LogTypes, NoBlock
  <2>4. Range(lh)' = Range(lh) \cup {b}
    <3>1. Range(lh') = Range(lh) \cup {b}
      BY <1>t, <2>2, <2>3, RangeAppend DEF LogTypes
    <3> QED
      BY <3>1 DEF Range
  <2>5. Active' = Active /\ p \in Active
    BY <1>t, <2>1 DEF Active, LogTypes
  <2>6. \A q \in Procs : held'[q] = IF q = p THEN {} ELSE held[q]
    BY <1>t, <2>1 DEF LogTypes
  <2>7. \A q \in Procs : q # p => b \notin held[q]
    BY <2>3 DEF Threads, ThreadOK
  <2>8. ASSUME NEW x \in Pending'
        PROVE  x \in Pending /\ (b \notin Range(lh) => x # <<p, Cardinality(wrote[p])>>)
    <3>1. x \in Active \X (1 .. MAXOPBLOCKS) /\ x[1] \in Procs /\ x[2] \in Nat
          /\ \/ x[2] > Cardinality(wrote[x[1]])
             \/ x[2] = Cardinality(wrote[x[1]]) /\ ~(held'[x[1]] \subseteq Range(lh)')
      BY <1>0, <2>5, <2>8, <2>1 DEF Pending, Active
    <3>2. CASE x[1] # p
      BY <3>1, <3>2, <2>4, <2>6, <2>7 DEF Pending
    <3>3. CASE x[1] = p
      <4>1. x[2] > Cardinality(wrote[p])
        BY <3>1, <3>3, <2>6
      <4>2. Cardinality(wrote[p]) \in Nat
        BY FS_CardinalityType DEF Threads, ThreadOK
      <4> QED
        BY <4>1, <4>2, <3>1, <3>3 DEF Pending
    <3> QED
      BY <3>2, <3>3
  <2>9. CASE b \in Range(lh)
    BY <1>a, <2>1, <2>2, <2>8, <2>9
  <2>10. CASE b \notin Range(lh)
    <3> DEFINE x == <<p, Cardinality(wrote[p])>>
    <3>1. Cardinality(wrote[p]) \in 1 .. MAXOPBLOCKS
      <4>1. b \in wrote[p] /\ IsFiniteSet(wrote[p]) /\ Cardinality(wrote[p]) <= MAXOPBLOCKS
        BY <2>3 DEF Threads, ThreadOK
      <4>2. Cardinality(wrote[p]) \in Nat /\ Cardinality(wrote[p]) # 0
        BY <4>1, FS_EmptySet, FS_CardinalityType
      <4> QED
        BY <4>1, <4>2, <1>0
    <3>2. x \in Pending
      BY <3>1, <2>3, <2>5, <2>10 DEF Pending
    <3>3. Pending' \subseteq Pending \ {x}
      BY <2>8, <2>10
    <3>4. IsFiniteSet(Pending)
      BY PendingBound
    <3>5. /\ IsFiniteSet(Pending \ {x}) /\ Cardinality(Pending \ {x}) = Cardinality(Pending) - 1
      BY <3>2, <3>4, FS_RemoveElement
    <3>6. Cardinality(Pending') <= Cardinality(Pending) - 1 /\ Cardinality(Pending') \in Nat
      BY <3>3, <3>5, FS_Subset, FS_CardinalityType
    <3>7. Len(lh') = Len(lh) + 1 /\ Len(lh) \in Nat
      BY <1>t, <2>2, <2>3, <2>10, AppendIs DEF LogTypes
    <3> QED
      BY <1>0, <1>c, <2>1, <3>6, <3>7 DEF Reservation
  <2> QED
    BY <2>9, <2>10
<1>5. ASSUME NEW p \in Procs, end_op(p) PROVE Reservation'
  <2>1. /\ pc[p] = "op" /\ wrote' = [wrote EXCEPT ![p] = {}] /\ UNCHANGED <<lh, held, rec>>
    BY <1>5 DEF end_op, Up
  <2>2. ~committing
    BY <2>1 DEF Commits, Active
  <2>3. PICK x \in {"out", "commit"} : pc' = [pc EXCEPT ![p] = x]
    BY <1>5, <2>2 DEF end_op
  <2>4. Active' = Active \ {p}
    BY <1>t, <2>1, <2>3 DEF Active, LogTypes
  <2>5. \A q \in Procs : q # p => wrote'[q] = wrote[q]
    BY <1>t, <2>1 DEF LogTypes
  <2>6. Pending' \subseteq Pending
    BY <2>1, <2>4, <2>5 DEF Pending, Active, Range
  <2> QED
    BY <1>a, <2>1, <2>6
<1>6. ASSUME NEW p \in Procs, commit_done(p) PROVE Reservation'
  <2>1. /\ pc[p] = "commit" /\ pc' = [pc EXCEPT ![p] = "out"]
        /\ UNCHANGED <<lh, held, wrote, rec>>
    BY <1>6 DEF commit_done
  <2>2. Active' = Active
    BY <1>t, <2>1 DEF Active, LogTypes
  <2>3. Pending' = Pending
    BY <2>1, <2>2, SMTT(30) DEF Pending, Range
  <2> QED
    BY <1>a, <2>1, <2>3
<1>7. ASSUME UNCHANGED <<lh, pc, held, wrote, rec>> PROVE Reservation'
  BY <1>7, SMTT(30) DEF Reservation, Pending, Active, Range
<1>8. CASE clear_head
  <2>1. Active = {}
    BY <1>8 DEF clear_head, Commits, Active
  <2>2. UNCHANGED pc /\ lh' = <<>>
    BY <1>8 DEF clear_head
  <2>3. Pending' = {}
    BY <2>1, <2>2 DEF Pending, Active
  <2>4. Cardinality({}) = 0
    BY FS_EmptySet
  <2>5. Len(lh') = 0
    BY <2>2
  <2> QED
    BY <1>0, <2>3, <2>4, <2>5 DEF Reservation
<1>9. CASE Crash
  BY <1>9 DEF Crash, Reservation
<1>10. CASE write_log \/ write_head \/ install_trans \/ \E b \in Blocks : Evict(b)
  BY <1>10, <1>7 DEF write_log, write_head, install_trans, Evict, mem
<1>11. CASE UNCHANGED vars
  BY <1>11, <1>7 DEF vars, mem
<1> QED
  BY <1>1, <1>2, <1>3, <1>4, <1>5, <1>6, <1>8, <1>9, <1>10, <1>11 DEF Next, ThreadStep, CommitStep

(* A thread asleep on &log sleeps because of a commit or of a full log.    *)
LEMMA WakeupKept ==
  ASSUME LogAssumption, TypeOK, Threads, Commits, NoLostLogWakeup, [Next]_vars
  PROVE  NoLostLogWakeup'
<1>t. LogTypes /\ Len(lh) \in Nat /\ outstanding \in Nat /\ MAXOPBLOCKS \in Nat /\ LOGSIZE \in Nat
  BY TypesUsed DEF LogTypes, TypeOK, LogAssumption
<1>1. ASSUME UNCHANGED <<lh, outstanding, asleep, committing>> PROVE NoLostLogWakeup'
  BY <1>1 DEF NoLostLogWakeup, NoSpace
<1>2. ASSUME NEW p \in Procs, begin_op(p) PROVE NoLostLogWakeup'
  BY <1>2 DEF begin_op, NoLostLogWakeup, NoSpace
<1>3. ASSUME NEW p \in Procs, log_write(p) PROVE NoLostLogWakeup'
  <2>1. UNCHANGED <<outstanding, asleep, committing>>
    BY <1>3 DEF log_write
  <2>2. PICK b \in held[p] : lh' = IF b \in Range(lh) THEN lh ELSE Append(lh, b)
    BY <1>3 DEF log_write, Record
  <2>3. b \in Blocks
    BY <1>t, <2>2 DEF LogTypes, NoBlock
  <2>4. Len(lh') \in Nat /\ Len(lh') >= Len(lh)
    BY <1>t, <2>2, <2>3, AppendIs DEF LogTypes
  <2>5. (outstanding + 1) * MAXOPBLOCKS \in Nat
    BY <1>t
  <2> QED
    BY <1>t, <2>1, <2>4, <2>5 DEF NoLostLogWakeup, NoSpace
<1>4. ASSUME NEW p \in Procs, end_op(p) PROVE NoLostLogWakeup'
  <2>1. ~committing
    BY <1>4 DEF end_op, Commits, Active
  <2> QED
    BY <1>4, <2>1 DEF end_op, EndWakeups, NoLostLogWakeup
<1>5. ASSUME NEW p \in Procs, commit_done(p) PROVE NoLostLogWakeup'
  BY <1>5 DEF commit_done, NoLostLogWakeup
<1>6. CASE clear_head
  BY <1>6 DEF clear_head, Commits, NoLostLogWakeup
<1>7. CASE Crash
  BY <1>7 DEF Crash, NoLostLogWakeup
<1>8. CASE \/ write_log \/ write_head \/ install_trans \/ UNCHANGED vars
           \/ \E b \in Blocks : Evict(b)
           \/ \E p \in Procs : Call(p) \/ \E b \in Blocks, v \in Vals : Modify(p, b, v)
  BY <1>8, <1>1 DEF write_log, write_head, install_trans, Evict, Call, Modify, vars, mem
<1> QED
  BY <1>2, <1>3, <1>4, <1>5, <1>6, <1>7, <1>8 DEF Next, ThreadStep, CommitStep

-----------------------------------------------------------------------------
(* Where a commit is.                                                      *)

(* log_write records a block at most once.                                 *)
LEMMA RecordInjective ==
  ASSUME NEW s \in Seq(Blocks), \A i, j \in 1 .. Len(s) : s[i] = s[j] => i = j,
         NEW b \in Blocks, b \notin Range(s)
  PROVE  \A i, j \in 1 .. Len(Append(s, b)) : Append(s, b)[i] = Append(s, b)[j] => i = j
<1> DEFINE t == Append(s, b)
<1>1. /\ Len(t) = Len(s) + 1 /\ Len(s) \in Nat
      /\ \A i \in 1 .. Len(s) : t[i] = s[i]
      /\ t[Len(s) + 1] = b
  BY AppendIs
<1>2. \A i \in 1 .. Len(s) : s[i] # b
  BY RangeIs
<1> HIDE DEF t
<1>3. ASSUME NEW i \in 1 .. Len(t), NEW j \in 1 .. Len(t), t[i] = t[j] PROVE i = j
  BY <1>1, <1>2, <1>3
<1> QED
  BY <1>3 DEF t

(* Every step keeps the account of the commit.                             *)
LEMMA CommitsKept ==
  ASSUME LogAssumption, TypeOK, Threads, Commits, Reservation', [Next]_vars
  PROVE  Commits'
<1>t. LogTypes /\ LOGSIZE \in Nat /\ outstanding \in Nat /\ IsFiniteSet(Procs)
  BY TypesUsed DEF TypeOK, LogAssumption
<1>1. ASSUME NEW p \in Procs, Call(p) PROVE Commits'
  <2>1. /\ pc[p] = "out" /\ pc' = [pc EXCEPT ![p] = "begin"] /\ ~rec
        /\ UNCHANGED <<hdr, lh, committing, phase, rec, asleep>>
    BY <1>1 DEF Call, mem, disk, Up
  <2>2. Active' = Active
    BY <1>t, <2>1 DEF Active, LogTypes
  <2> QED
    BY <1>t, <2>1, <2>2 DEF Commits, LogTypes
<1>2. ASSUME NEW p \in Procs, begin_op(p) PROVE Commits'
  <2>1. /\ pc[p] = "begin" /\ ~rec /\ UNCHANGED <<hdr, lh, committing, phase, rec>>
        /\ pc' = pc \/ (pc' = [pc EXCEPT ![p] = "op"] /\ ~committing)
    BY <1>2 DEF begin_op, disk, Up
  <2>2. pc' = pc => Active' = Active
    BY DEF Active
  <2> QED
    BY <1>t, <2>1, <2>2 DEF Commits, LogTypes
<1>3. ASSUME NEW p \in Procs, NEW b \in Blocks, NEW v \in Vals, Modify(p, b, v) PROVE Commits'
  <2>1. /\ pc[p] = "op" /\ ~rec /\ UNCHANGED <<hdr, lh, committing, phase, rec, asleep>>
        /\ pc' = pc \/ pc' = [pc EXCEPT ![p] = "log"]
    BY <1>3 DEF Modify, disk, mem, Up
  <2>2. Active' = Active
    BY <1>t, <2>1 DEF Active, LogTypes
  <2> QED
    BY <1>t, <2>1, <2>2 DEF Commits, LogTypes
<1>4. ASSUME NEW p \in Procs, log_write(p) PROVE Commits'
  <2>1. /\ pc[p] = "log" /\ pc' = [pc EXCEPT ![p] = "op"]
        /\ ~rec /\ UNCHANGED <<hdr, committing, phase, rec, asleep>>
    BY <1>4 DEF log_write, disk, Up
  <2>2. PICK b \in held[p] : lh' = IF b \in Range(lh) THEN lh ELSE Append(lh, b)
    BY <1>4 DEF log_write, Record
  <2>3. b \in Blocks
    BY <1>t, <2>2 DEF LogTypes, NoBlock
  <2>4. Active' = Active /\ p \in Active
    BY <1>t, <2>1 DEF Active, LogTypes
  <2>5. ~committing /\ phase = "none"
    BY <2>1, <2>4 DEF Commits
  <2>6. \A i, j \in 1 .. Len(lh') : lh'[i] = lh'[j] => i = j
    <3>1. lh \in Seq(Blocks) /\ \A i, j \in 1 .. Len(lh) : lh[i] = lh[j] => i = j
      BY <1>t DEF Commits, LogTypes
    <3>2. CASE b \in Range(lh)
      BY <2>2, <3>1, <3>2
    <3>3. CASE b \notin Range(lh)
      <4>1. lh' = Append(lh, b)
        BY <2>2, <3>3
      <4>2. \A i, j \in 1 .. Len(Append(lh, b)) : Append(lh, b)[i] = Append(lh, b)[j] => i = j
        BY <2>3, <3>1, <3>3, RecordInjective
      <4> QED
        BY <4>1, <4>2
    <3> QED
      BY <3>2, <3>3
  <2>7. Len(lh') <= LOGSIZE
    <3>1. Cardinality(Pending') \in Nat
      <4>1. Pending' \in SUBSET (Active' \X (1 .. MAXOPBLOCKS)) /\ IsFiniteSet(Active')
        BY <1>t, <2>4, ActiveFinite DEF Pending
      <4> QED
        BY <4>1, PlacesBound DEF LogAssumption
    <3>2. Len(lh') \in Nat
      BY <1>t, <2>2, <2>3, AppendIs DEF LogTypes
    <3> QED
      BY <1>t, <2>1, <3>1, <3>2 DEF Reservation
  <2>8. \A q \in Procs : pc'[q] = "commit" => pc[q] = "commit"
    BY <1>t, <2>1 DEF LogTypes
  <2> QED
    BY <2>1, <2>4, <2>5, <2>6, <2>7, <2>8 DEF Commits
<1>5. ASSUME NEW p \in Procs, end_op(p) PROVE Commits'
  <2>1. /\ pc[p] = "op" /\ ~rec /\ UNCHANGED <<hdr, lh, rec>> /\ outstanding' = outstanding - 1
    BY <1>5 DEF end_op, disk, Up
  <2>2. ~committing
    BY <2>1 DEF Commits, Active
  <2>3. CASE pc' = [pc EXCEPT ![p] = "out"] /\ UNCHANGED <<committing, phase>>
    BY <1>t, <2>1, <2>2, <2>3 DEF Commits, LogTypes
  <2>4. CASE /\ pc' = [pc EXCEPT ![p] = "commit"] /\ committing' = TRUE /\ outstanding <= 1
             /\ phase' = IF Len(lh) > 0 THEN "log" ELSE "done"
    <3>1. Active' = Active \ {p} /\ outstanding' = Cardinality(Active')
      BY <1>t, <2>1, <2>4, EndCounts
    <3>2. outstanding' <= 0 /\ IsFiniteSet(Active')
      BY <1>t, <2>1, <2>4, <3>1, ActiveFinite, FS_RemoveElement
    <3>3. Active' = {}
      BY <3>1, <3>2, FS_CardinalityType, FS_EmptySet
    <3>4. phase = "none"
      BY <2>1, <2>2 DEF Commits
    <3> QED
      BY <1>t, <2>1, <2>2, <2>4, <3>3, <3>4 DEF Commits, LogTypes
  <2>5. CASE outstanding > 1
    BY <1>5, <2>2, <2>3, <2>5 DEF end_op
  <2>6. CASE outstanding <= 1
    <3>1. ~(outstanding > 1)
      BY <1>t, <2>6
    <3> QED
      BY <1>5, <2>2, <2>4, <2>6, <3>1, Zenon DEF end_op
  <2> QED
    BY <1>t, <2>5, <2>6
<1>6. ASSUME NEW p \in Procs, commit_done(p) PROVE Commits'
  <2>1. /\ pc[p] = "commit" /\ pc' = [pc EXCEPT ![p] = "out"] /\ committing' = FALSE
        /\ phase = "done" /\ phase' = "none" /\ ~rec /\ UNCHANGED <<hdr, lh, rec>>
    BY <1>6 DEF commit_done, disk, Up
  <2> QED
    BY <1>t, <2>1 DEF Commits, LogTypes
<1>7. ASSUME UNCHANGED <<hdr, lh, committing, phase, rec, pc, asleep>> PROVE Commits'
  BY <1>7 DEF Commits, Active
<1>8. CASE clear_head
  <2>1. /\ lh' = <<>> /\ hdr' = <<>> /\ phase = "install" /\ rec' = FALSE
        /\ phase' = (IF rec THEN "none" ELSE "done") /\ UNCHANGED <<committing, pc, asleep>>
    BY <1>8 DEF clear_head
  <2>2. Active' = Active /\ Len(lh') = 0
    BY <2>1 DEF Active
  <2>3. (rec => ~committing) /\ (~rec => committing)
    BY <2>1 DEF Commits
  <2> QED
    BY <1>t, <2>1, <2>2, <2>3 DEF Commits
<1>9. CASE write_head
  <2>1. /\ phase = "log" /\ phase' = "install" /\ hdr' = lh
        /\ UNCHANGED <<lh, committing, rec, pc, asleep>>
    BY <1>9 DEF write_head, mem
  <2>2. ~rec /\ Active' = Active
    BY <2>1 DEF Commits, Active
  <2> QED
    BY <2>1, <2>2 DEF Commits
<1>10. CASE Crash
  <2>1. /\ lh' = hdr /\ hdr' = hdr /\ phase' = "install" /\ rec' = TRUE /\ committing' = FALSE
        /\ pc' = [p \in Procs |-> "out"] /\ asleep' = {}
    BY <1>10 DEF Crash, disk
  <2>2. Active' = {}
    BY <2>1 DEF Active
  <2> QED
    BY <1>t, <2>1, <2>2 DEF Commits
<1>11. CASE write_log \/ install_trans \/ \E b \in Blocks : Evict(b)
  BY <1>11, <1>7 DEF write_log, install_trans, Evict, mem, disk
<1>12. CASE UNCHANGED vars
  BY <1>12, <1>7 DEF vars, mem, disk
<1> QED
  BY <1>1, <1>2, <1>3, <1>4, <1>5, <1>6, <1>8, <1>9, <1>10, <1>11, <1>12 DEF Next, ThreadStep, CommitStep

(* What bread and the log return is a block's contents.                    *)
LEMMA ReadsVals ==
  ASSUME LogAssumption, TypeOK
  PROVE  /\ \A b \in Blocks : bread(b) \in Vals
         /\ \A i \in 1 .. LOGSIZE : LogAt(i) \in Vals
         /\ \A i \in 1 .. Len(lh) : lh[i] \in Blocks
  BY DEF LogAssumption, TypeOK, bread, LogAt

(* Type correctness.                                                       *)
LEMMA TypesKept ==
  ASSUME LogAssumption, TypeOK, Commits, Threads', Commits', [Next]_vars
  PROVE  TypeOK'
<1>0. /\ IsFiniteSet(Procs) /\ LOGSIZE \in Nat /\ AfterLog \in Blocks
      /\ Len(lh) \in Nat /\ Len(lh) <= LOGSIZE /\ tail \in Nat
  BY DEF LogAssumption, Commits, TypeOK
<1>1. /\ \A b \in Blocks : bread(b) \in Vals
      /\ \A i \in 1 .. LOGSIZE : LogAt(i) \in Vals
      /\ \A i \in 1 .. Len(lh) : lh[i] \in Blocks
  BY ReadsVals
<1>2. outstanding' \in 0 .. Cardinality(Procs)
  <2>1. Active' \subseteq Procs
    BY DEF Active
  <2> QED
    BY <1>0, <2>1, FS_Subset, FS_CardinalityType DEF Threads
<1> DEFINE DiskOK == /\ home \in [Blocks -> Vals] /\ cache \in [Blocks -> Vals]
                     /\ logd \in [1 .. LOGSIZE -> Vals]
                     /\ dirty \subseteq Blocks /\ valid \subseteq Blocks
           HeadOK == /\ hdr \in Seq(Blocks) /\ lh \in Seq(Blocks) /\ Len(hdr) <= LOGSIZE
                     /\ phase \in {"none", "log", "install", "done"} /\ tail \in 1 .. (LOGSIZE + 1)
           FlagOK == rec \in BOOLEAN /\ panicked \in BOOLEAN /\ committing \in BOOLEAN
           ProcOK == /\ pc \in [Procs -> {"out", "begin", "op", "log", "commit"}]
                     /\ asleep \subseteq Procs
                     /\ held \in [Procs -> {NoBlock} \cup {{b} : b \in Blocks}]
                     /\ wrote \in [Procs -> SUBSET Blocks]
<1>3. DiskOK /\ HeadOK /\ FlagOK /\ ProcOK
  BY DEF TypeOK
<1>4. DiskOK' /\ HeadOK' /\ FlagOK' /\ ProcOK' => TypeOK'
  BY <1>2 DEF TypeOK
<1> HIDE DEF DiskOK, HeadOK, FlagOK, ProcOK
<1>5. ASSUME UNCHANGED <<home, cache, logd, dirty, valid>> PROVE DiskOK'
  BY <1>3, <1>5 DEF DiskOK
<1>6. ASSUME UNCHANGED <<hdr, lh, phase, tail>> PROVE HeadOK'
  BY <1>3, <1>6 DEF HeadOK
<1>f. FlagOK'
  <2>1. CASE UNCHANGED <<rec, panicked, committing>>
    BY <1>3, <2>1 DEF FlagOK
  <2>2. CASE CommitStep \/ Crash \/ \E b \in Blocks : Evict(b)
    BY <1>3, <2>2, Zenon DEF CommitStep, write_log, write_head, install_trans, clear_head, Crash,
                      Evict, mem, FlagOK
  <2>3. ASSUME NEW p \in Procs, \/ Call(p) \/ ThreadStep(p)
                                \/ \E b \in Blocks, v \in Vals : Modify(p, b, v)
        PROVE FlagOK'
    <3>1. rec' = rec
      BY <2>3 DEF Call, ThreadStep, begin_op, log_write, end_op, commit_done, Modify
    <3>2. committing' \in {committing, TRUE, FALSE}
      BY <2>3 DEF Call, ThreadStep, begin_op, log_write, end_op, commit_done, Modify, mem
    <3>3. panicked' \in {panicked, TRUE}
      BY <2>3 DEF Call, ThreadStep, begin_op, log_write, end_op, commit_done, Modify
    <3> QED
      BY <1>3, <3>1, <3>2, <3>3, Zenon DEF FlagOK
  <2> QED
    BY <2>1, <2>2, <2>3 DEF Next, vars, mem
<1>7. ASSUME UNCHANGED <<pc, asleep, held, wrote>> PROVE ProcOK'
  BY <1>3, <1>7 DEF ProcOK
<1>8. ASSUME NEW p \in Procs, Call(p) PROVE TypeOK'
  <2>1. ProcOK'
    BY <1>3, <1>8 DEF Call, ProcOK
  <2> QED
    BY <1>f, <1>4, <1>5, <1>6, <1>8, <2>1 DEF Call, disk, mem
<1>9. ASSUME NEW p \in Procs, begin_op(p) PROVE TypeOK'
  <2>1. ProcOK'
    BY <1>3, <1>9 DEF begin_op, ProcOK
  <2> QED
    BY <1>f, <1>4, <1>5, <1>6, <1>9, <2>1 DEF begin_op, disk
<1>10. ASSUME NEW p \in Procs, NEW b \in Blocks, NEW v \in Vals, Modify(p, b, v) PROVE TypeOK'
  <2>1. ProcOK'
    BY <1>3, <1>10 DEF Modify, ProcOK
  <2>2. DiskOK'
    BY <1>3, <1>10 DEF Modify, DiskOK, disk
  <2>3. HeadOK'
    BY <1>3, <1>10 DEF Modify, HeadOK, disk, mem
  <2> QED
    BY <1>f, <1>4, <2>1, <2>2, <2>3
<1>11. ASSUME NEW p \in Procs, log_write(p) PROVE TypeOK'
  <2>1. ProcOK'
    BY <1>3, <1>11 DEF log_write, ProcOK
  <2>2. PICK b \in held[p] : Record(b)
    BY <1>11 DEF log_write
  <2>3. b \in Blocks
    BY <1>3, <2>2 DEF ProcOK, NoBlock
  <2>4. DiskOK'
    BY <1>3, <1>11, <2>2, <2>3 DEF log_write, Record, DiskOK, disk
  <2>5. lh' \in Seq(Blocks)
    BY <1>3, <2>2, <2>3, AppendIs DEF Record, HeadOK
  <2>6. HeadOK'
    BY <1>3, <1>11, <2>5 DEF log_write, HeadOK, disk
  <2> QED
    BY <1>f, <1>4, <2>1, <2>4, <2>6
<1>12. ASSUME NEW p \in Procs, end_op(p) PROVE TypeOK'
  <2>1. ProcOK'
    BY <1>3, <1>12 DEF end_op, ProcOK, EndWakeups
  <2>2. HeadOK'
    BY <1>0, <1>3, <1>12 DEF end_op, HeadOK, disk
  <2> QED
    BY <1>f, <1>4, <1>5, <1>12, <2>1, <2>2 DEF end_op, disk
<1>13. ASSUME NEW p \in Procs, commit_done(p) PROVE TypeOK'
  <2>1. ProcOK'
    BY <1>3, <1>13 DEF commit_done, ProcOK
  <2>2. HeadOK'
    BY <1>3, <1>13 DEF commit_done, HeadOK, disk
  <2> QED
    BY <1>f, <1>4, <1>5, <1>13, <2>1, <2>2 DEF commit_done, disk
<1>14. CASE write_log
  <2>1. tail \in 1 .. Len(lh) /\ tail \in 1 .. LOGSIZE /\ tail' = tail + 1
    BY <1>0, <1>3, <1>14 DEF write_log, HeadOK
  <2>2. bread(lh[tail]) \in Vals
    BY <1>1, <2>1
  <2>3. DiskOK'
    BY <1>0, <1>3, <1>14, <2>1, <2>2 DEF write_log, DiskOK
  <2>4. HeadOK'
    BY <1>0, <1>3, <1>14, <2>1 DEF write_log, HeadOK, mem
  <2> QED
    BY <1>f, <1>4, <1>7, <1>14, <2>3, <2>4 DEF write_log
<1>15. CASE write_head
  <2>1. HeadOK'
    BY <1>0, <1>3, <1>15 DEF write_head, HeadOK, mem
  <2> QED
    BY <1>f, <1>4, <1>5, <1>7, <1>15, <2>1 DEF write_head
<1>16. CASE install_trans
  <2>1. tail \in 1 .. Len(lh) /\ tail \in 1 .. LOGSIZE /\ tail' = tail + 1
    BY <1>0, <1>3, <1>16 DEF install_trans, HeadOK
  <2>2. LogAt(tail) \in Vals /\ lh[tail] \in Blocks
    BY <1>1, <2>1
  <2>3. DiskOK'
    BY <1>3, <1>16, <2>2 DEF install_trans, DiskOK
  <2>4. HeadOK'
    BY <1>0, <1>3, <1>16, <2>1 DEF install_trans, HeadOK, mem
  <2> QED
    BY <1>f, <1>4, <1>7, <1>16, <2>3, <2>4 DEF install_trans
<1>17. CASE clear_head
  <2>1. <<>> \in Seq(Blocks) /\ Len(<<>>) = 0
    OBVIOUS
  <2>2. HeadOK'
    BY <1>0, <1>3, <1>17, <2>1 DEF clear_head, HeadOK
  <2> QED
    BY <1>f, <1>4, <1>5, <1>7, <1>17, <2>2 DEF clear_head
<1>18. CASE Crash
  <2>1. DiskOK'
    BY <1>3, <1>18 DEF Crash, DiskOK, disk
  <2>2. HeadOK'
    BY <1>0, <1>3, <1>18 DEF Crash, HeadOK, disk
  <2>3. ProcOK'
    BY <1>18 DEF Crash, ProcOK
  <2> QED
    BY <1>f, <1>4, <2>1, <2>2, <2>3
<1>19. ASSUME NEW b \in Blocks, Evict(b) PROVE TypeOK'
  <2>1. DiskOK'
    BY <1>3, <1>19 DEF Evict, DiskOK, disk
  <2> QED
    BY <1>f, <1>4, <1>6, <1>7, <1>19, <2>1 DEF Evict, disk, mem
<1>20. CASE UNCHANGED vars
  BY <1>f, <1>4, <1>5, <1>6, <1>7, <1>20 DEF vars, disk, mem
<1> QED
  BY <1>8, <1>9, <1>10, <1>11, <1>12, <1>13, <1>14, <1>15, <1>16, <1>17, <1>18, <1>19, <1>20
     DEF Next, ThreadStep, CommitStep

-----------------------------------------------------------------------------
(* At boot the log is empty and nothing runs.                              *)
LEMMA SpaceInit == LogAssumption /\ Init => SpaceInv
<1> SUFFICES ASSUME LogAssumption, Init PROVE SpaceInv
  OBVIOUS
<1>0. /\ LOGSIZE \in Nat /\ MAXOPBLOCKS \in Nat /\ IsFiniteSet(Procs) /\ AfterLog \in Blocks
      /\ IsFiniteSet({}) /\ Cardinality({}) = 0
  BY FS_EmptySet DEF LogAssumption
<1>1. Active = {}
  BY DEF Init, Active
<1>2. TypeOK
  <2>1. Cardinality(Procs) \in Nat /\ <<>> \in Seq(Blocks) /\ Len(<<>>) = 0
    BY <1>0, FS_CardinalityType
  <2>2. /\ home \in [Blocks -> Vals] /\ cache \in [Blocks -> Vals]
        /\ logd \in [1 .. LOGSIZE -> Vals]
    BY <1>0 DEF Init
  <2>3. /\ held \in [Procs -> {NoBlock} \cup {{b} : b \in Blocks}]
        /\ wrote \in [Procs -> SUBSET Blocks]
        /\ pc \in [Procs -> {"out", "begin", "op", "log", "commit"}]
    BY DEF Init
  <2>4. /\ hdr \in Seq(Blocks) /\ lh \in Seq(Blocks) /\ Len(hdr) <= LOGSIZE
        /\ outstanding \in 0 .. Cardinality(Procs) /\ tail \in 1 .. (LOGSIZE + 1)
    BY <1>0, <2>1 DEF Init
  <2>5. committing \in BOOLEAN /\ rec \in BOOLEAN /\ panicked \in BOOLEAN
        /\ dirty = {} /\ valid = {} /\ asleep = {} /\ phase = "install"
    BY DEF Init
  <2> QED
    BY <2>2, <2>3, <2>4, <2>5, Zenon DEF TypeOK
<1>3. Threads
  BY <1>0, <1>1 DEF Init, Threads, ThreadOK, NoBlock
<1>4. Commits
  BY <1>0, <1>1 DEF Init, Commits
<1>5. LogSpace
  BY DEF Init, LogSpace, Reservation, NoLostLogWakeup
<1> QED
  BY <1>2, <1>3, <1>4, <1>5 DEF SpaceInv

(* Every step keeps the account of the log's space.                        *)
LEMMA SpaceStep == LogAssumption /\ SpaceInv /\ [Next]_vars => SpaceInv'
  BY TypesKept, ThreadsKept, CommitsKept, ReservationKept, WakeupKept DEF SpaceInv, LogSpace

(* begin_op, end_op, log_write and commit() keep the account of the log's  *)
(* space: what is recorded and what the operations in progress may still   *)
(* record fits the header, so log_write's overflow cannot happen, and a    *)
(* thread sleeps in begin_op only while it cannot be served.               *)
THEOREM LogSpaceKept ==
  ASSUME LogAssumption
  PROVE  Spec => []LogSpace
<1>1. Init => SpaceInv
  BY SpaceInit
<1>2. SpaceInv /\ [Next]_vars => SpaceInv'
  BY SpaceStep
<1>3. SpaceInv => LogSpace
  BY DEF SpaceInv
<1> QED
  BY <1>1, <1>2, <1>3, PTL DEF Spec

-----------------------------------------------------------------------------
-----------------------------------------------------------------------------
(* The disk and the cache, while a transaction fits the log on disk.       *)

(* An operation in progress excludes a commit and the recovery.            *)
LEMMA NoCommitInOp ==
  ASSUME Commits, NEW p \in Procs, pc[p] \in {"op", "log"}
  PROVE  ~rec /\ ~committing /\ phase = "none"
  BY DEF Commits, Active

(* Outside installation the pinned blocks are the recorded ones.           *)
LEMMA PinnedRange ==
  ASSUME NEW s \in Seq(Blocks), NEW i
  PROVE  /\ {s[j] : j \in {k \in 1 .. Len(s) : "none" = "install" => k >= i}} = Range(s)
  BY RangeIs

(* What bread returns does not depend on whether a clean block is cached.  *)
LEMMA EvictReads ==
  ASSUME TypeOK, Pinned, NEW b \in Blocks, Evict(b)
  PROVE  \A c \in Blocks : bread(c)' = bread(c)
<1>1. cache[b] = home[b] /\ b \in valid
  BY DEF Pinned, Evict
<1>2. /\ valid' = valid \ {b} /\ home' = home
      /\ \A c \in Blocks : c # b => cache'[c] = cache[c]
  BY DEF Evict, disk, TypeOK
<1> QED
  BY <1>1, <1>2 DEF bread

(* Every step keeps the pinned blocks and the agreement of the other       *)
(* buffers with the disk.                                                  *)
LEMMA PinnedKept ==
  ASSUME LogAssumption, TypeOK, Threads, Commits, LogFits, Pinned, [Next]_vars
  PROVE  Pinned'
<1>t. /\ LogTypes /\ LOGSIZE \in Nat /\ NLOG \in Nat /\ tail \in Nat /\ tail >= 1
      /\ home \in [Blocks -> Vals] /\ cache \in [Blocks -> Vals]
      /\ dirty \subseteq Blocks /\ valid \subseteq Blocks
      /\ \A i \in 1 .. Len(lh) : lh[i] \in Blocks
  BY TypesUsed, ReadsVals DEF TypeOK, LogAssumption
<1>1. ASSUME UNCHANGED <<home, cache, valid, dirty, lh, held, rec>>,
             \/ UNCHANGED <<phase, tail>>
             \/ phase # "install" /\ phase' # "install"
      PROVE  Pinned'
  <2>1. {lh[i] : i \in {j \in 1 .. Len(lh) : phase = "install" => j >= tail}}'
          = {lh[i] : i \in {j \in 1 .. Len(lh) : phase = "install" => j >= tail}}
    BY <1>1
  <2> QED
    BY <1>1, <2>1 DEF Pinned
<1>2. ASSUME NEW p \in Procs, NEW b \in Blocks, NEW v \in Vals, Modify(p, b, v) PROVE Pinned'
  <2>1. /\ cache' = [cache EXCEPT ![b] = v] /\ valid' = valid \cup {b} /\ pc[p] = "op" /\ ~panicked
        /\ held' = [held EXCEPT ![p] = {b}] /\ UNCHANGED <<home, dirty, lh, phase, tail, rec>>
    BY <1>2 DEF Modify, disk, mem, Up
  <2>2. held[p] = {} /\ held'[p] = {b} /\ \A q \in Procs : q # p => held'[q] = held[q]
    BY <1>t, <2>1 DEF Threads, ThreadOK, LogTypes
  <2>3. (dirty \subseteq valid)' /\ \A q \in Procs : (held[q] \subseteq valid)'
    BY <2>1, <2>2 DEF Pinned
  <2>4. ASSUME NEW c \in valid' \ dirty', \A q \in Procs : c \notin held'[q]
        PROVE  cache'[c] = home'[c]
    <3>1. c # b /\ c \in valid \ dirty /\ \A q \in Procs : c \notin held[q]
      BY <2>1, <2>2, <2>4
    <3> QED
      BY <1>t, <2>1, <3>1 DEF Pinned
  <2> QED
    BY <2>1, <2>3, <2>4 DEF Pinned
<1>3. ASSUME NEW p \in Procs, log_write(p) PROVE Pinned'
  <2>1. /\ pc[p] = "log" /\ held' = [held EXCEPT ![p] = {}]
        /\ UNCHANGED <<home, cache, valid, phase, tail, rec>>
    BY <1>3 DEF log_write, NoBlock, disk
  <2>2. PICK b \in held[p] : /\ lh' = IF b \in Range(lh) THEN lh ELSE Append(lh, b)
                             /\ dirty' = dirty \cup {b}
    BY <1>3 DEF log_write, Record
  <2>3. held[p] = {b} /\ b \in Blocks /\ \A q \in Procs : held'[q] = IF q = p THEN {} ELSE held[q]
    BY <1>t, <2>1, <2>2 DEF LogTypes, NoBlock
  <2>4. Range(lh') = Range(lh) \cup {b} /\ lh' \in Seq(Blocks)
    BY <1>t, <2>2, <2>3, RangeAppend, AppendIs DEF LogTypes
  <2>5. ~rec /\ phase = "none"
    BY <2>1, NoCommitInOp
  <2>6. dirty = Range(lh)
    BY <1>t, <2>5, PinnedRange DEF Pinned, LogTypes
  <2>7. dirty' = {lh'[i] : i \in {j \in 1 .. Len(lh') : "none" = "install" => j >= tail'}}
    BY <2>2, <2>4, <2>6, PinnedRange
  <2>8. (dirty \subseteq valid)' /\ \A q \in Procs : (held[q] \subseteq valid)'
    BY <2>1, <2>2, <2>3 DEF Pinned
  <2>9. ASSUME NEW c \in valid' \ dirty', \A q \in Procs : c \notin held'[q]
        PROVE  cache'[c] = home'[c]
    BY <2>1, <2>2, <2>3, <2>9 DEF Pinned
  <2> QED
    BY <2>1, <2>5, <2>7, <2>8, <2>9 DEF Pinned
<1>4. CASE write_head
  <2>1. /\ phase = "log" /\ phase' = "install" /\ tail' = 1
        /\ UNCHANGED <<home, cache, valid, dirty, lh, held, rec>>
    BY <1>4 DEF write_head, mem
  <2>2. {lh[i] : i \in {j \in 1 .. Len(lh) : phase = "install" => j >= tail}}'
          = {lh[i] : i \in {j \in 1 .. Len(lh) : phase = "install" => j >= tail}}
    BY <1>t, <2>1
  <2> QED
    BY <2>1, <2>2 DEF Pinned
<1>5. CASE write_log
  <2>1. tail < NLOG
    BY <1>5, <1>t DEF write_log, LogFits, LogTypes
  <2> QED
    BY <1>5, <1>1, <2>1 DEF write_log, mem
<1>6. CASE install_trans
  <2> DEFINE b == lh[tail]
  <2>1. tail \in 1 .. Len(lh) /\ b \in Blocks
    BY <1>6, <1>t DEF install_trans, LogTypes
  <2>2. /\ home' = [home EXCEPT ![b] = LogAt(tail)]
        /\ cache' = [cache EXCEPT ![b] = LogAt(tail)]
        /\ valid' = valid \cup {b} /\ dirty' = dirty \ {b} /\ tail' = tail + 1
        /\ phase = "install" /\ UNCHANGED <<lh, phase, rec, held>>
    BY <1>6 DEF install_trans, mem
  <2>3. ~rec => dirty' = {lh'[i] : i \in {j \in 1 .. Len(lh') : phase' = "install" => j >= tail'}}
    <3> SUFFICES ASSUME ~rec
                 PROVE dirty' = {lh'[i] : i \in {j \in 1 .. Len(lh') : phase' = "install" => j >= tail'}}
      OBVIOUS
    <3>0. dirty = {lh[i] : i \in {j \in 1 .. Len(lh) : j >= tail}}
      BY <2>2 DEF Pinned
    <3>1. {lh'[i] : i \in {j \in 1 .. Len(lh') : phase' = "install" => j >= tail'}}
            = {lh[i] : i \in {j \in 1 .. Len(lh) : j >= tail + 1}}
      BY <2>2
    <3>2. \A i, j \in 1 .. Len(lh) : lh[i] = lh[j] => i = j
      BY DEF Commits
    <3> HIDE DEF b
    <3>3. ASSUME NEW i \in 1 .. Len(lh), i >= tail, lh[i] # b PROVE i >= tail + 1
      BY <1>t, <2>1, <3>3 DEF b
    <3>4. ASSUME NEW i \in 1 .. Len(lh), i >= tail + 1 PROVE i >= tail /\ lh[i] # b
      BY <1>t, <2>1, <3>2, <3>4 DEF b
    <3>5. {lh[i] : i \in {j \in 1 .. Len(lh) : j >= tail}} \ {b}
            = {lh[i] : i \in {j \in 1 .. Len(lh) : j >= tail + 1}}
      BY <3>3, <3>4
    <3> QED
      BY <2>2, <3>0, <3>1, <3>5 DEF b
  <2>4. (dirty \subseteq valid)' /\ \A q \in Procs : (held[q] \subseteq valid)'
    BY <2>2 DEF Pinned
  <2>5. ASSUME NEW c \in valid' \ dirty', \A q \in Procs : c \notin held'[q]
        PROVE  cache'[c] = home'[c]
    <3>1. CASE c = b
      BY <1>t, <2>1, <2>2, <3>1
    <3>2. CASE c # b
      <4>1. c \in valid \ dirty /\ \A q \in Procs : c \notin held[q]
        BY <2>2, <2>5, <3>2
      <4> QED
        BY <1>t, <2>2, <3>2, <4>1 DEF Pinned
    <3> QED
      BY <3>1, <3>2
  <2>6. rec => dirty' = {}
    BY <2>2 DEF Pinned
  <2> HIDE DEF b
  <2> QED
    BY <2>2, <2>3, <2>4, <2>5, <2>6 DEF Pinned
<1>7. CASE clear_head
  <2>1. /\ lh' = <<>> /\ tail > Len(lh) /\ phase = "install"
        /\ UNCHANGED <<home, cache, valid, dirty, held>>
    BY <1>7 DEF clear_head
  <2>2. dirty = {}
    <3>1. {j \in 1 .. Len(lh) : j >= tail} = {}
      BY <1>t, <2>1 DEF LogTypes
    <3> QED
      BY <2>1, <3>1 DEF Pinned
  <2>3. {lh'[i] : i \in {j \in 1 .. Len(lh') : phase' = "install" => j >= tail'}} = {}
    BY <2>1
  <2> QED
    BY <2>1, <2>2, <2>3 DEF Pinned
<1>8. CASE Crash
  BY <1>8 DEF Crash, Pinned, NoBlock
<1>9. ASSUME NEW b \in Blocks, Evict(b) PROVE Pinned'
  <2>1. /\ valid' = valid \ {b} /\ cache' = [cache EXCEPT ![b] = home[b]]
        /\ b \notin dirty /\ \A p \in Procs : b \notin held[p]
        /\ UNCHANGED <<home, dirty, lh, held, rec, phase, tail>>
    BY <1>9 DEF Evict, disk, mem
  <2>2. (dirty \subseteq valid)' /\ \A q \in Procs : (held[q] \subseteq valid)'
    BY <2>1 DEF Pinned
  <2>3. ASSUME NEW c \in valid' \ dirty', \A q \in Procs : c \notin held'[q]
        PROVE  cache'[c] = home'[c]
    BY <1>t, <2>1, <2>3 DEF Pinned
  <2> QED
    BY <2>1, <2>2, <2>3 DEF Pinned
<1>10. ASSUME NEW p \in Procs, end_op(p) PROVE Pinned'
  <2>1. ~committing /\ phase = "none"
    BY <1>10, NoCommitInOp DEF end_op
  <2>2. phase' \in {"none", "log", "done"}
    BY <1>10, <2>1 DEF end_op
  <2> QED
    BY <1>1, <1>10, <2>1, <2>2 DEF end_op, disk
<1>11. ASSUME NEW p \in Procs, Call(p) \/ begin_op(p) \/ commit_done(p) PROVE Pinned'
  BY <1>1, <1>11 DEF Call, begin_op, commit_done, disk, mem
<1>12. CASE UNCHANGED vars
  BY <1>1, <1>12 DEF vars, disk, mem
<1> QED
  BY <1>2, <1>3, <1>4, <1>5, <1>6, <1>7, <1>8, <1>9, <1>10, <1>11, <1>12 DEF Next, ThreadStep, CommitStep

(* Every step keeps the agreement of the log with the blocks recorded.     *)
LEMMA LoggedKept ==
  ASSUME LogAssumption, TypeOK, Threads, Commits, LogFits, Pinned, Logged, [Next]_vars
  PROVE  Logged'
<1>t. /\ LogTypes /\ LOGSIZE \in Nat /\ NLOG \in Nat /\ tail \in Nat /\ tail >= 1
      /\ Len(lh) <= LOGSIZE /\ Len(lh) <= NLOG - 1
      /\ home \in [Blocks -> Vals] /\ cache \in [Blocks -> Vals] /\ logd \in [1 .. LOGSIZE -> Vals]
      /\ \A i \in 1 .. Len(lh) : lh[i] \in Blocks
  BY TypesUsed, ReadsVals DEF TypeOK, LogAssumption, Commits, LogFits
<1>1. ASSUME UNCHANGED <<home, cache, valid, logd, lh, rec>>,
             \/ UNCHANGED <<phase, tail>>
             \/ phase' = "none" \/ phase' = "done" \/ (phase' = "log" /\ tail' = 1)
      PROVE  Logged'
  BY <1>1 DEF Logged, bread
<1>2. ASSUME NEW p \in Procs, (\E b \in Blocks, v \in Vals : Modify(p, b, v)) \/ log_write(p)
      PROVE  Logged'
  <2>1. pc[p] \in {"op", "log"} /\ phase' = phase
    BY <1>2 DEF Modify, log_write
  <2>2. phase' = "none"
    BY <2>1, NoCommitInOp
  <2> QED
    BY <2>2 DEF Logged
<1>3. CASE write_log
  <2>1. /\ phase = "log" /\ tail \in 1 .. Len(lh) /\ tail < NLOG /\ tail \in 1 .. LOGSIZE
    BY <1>3, <1>t DEF write_log, LogTypes
  <2>2. /\ logd' = [logd EXCEPT ![tail] = bread(lh[tail])] /\ tail' = tail + 1
        /\ UNCHANGED <<home, cache, valid, lh, phase, rec>>
    BY <1>3, <2>1 DEF write_log, mem
  <2>3. ASSUME NEW i \in 1 .. Len(lh), i < tail + 1 PROVE logd'[i] = bread(lh[i])
    <3>1. CASE i = tail
      BY <1>t, <2>1, <2>2, <3>1
    <3>2. CASE i # tail
      <4>1. i < tail /\ i \in 1 .. LOGSIZE
        BY <1>t, <2>3, <3>2 DEF LogTypes
      <4>2. logd[i] = bread(lh[i])
        BY <2>1, <4>1 DEF Logged
      <4> QED
        BY <1>t, <2>1, <2>2, <3>2, <4>1, <4>2
    <3> QED
      BY <3>1, <3>2
  <2>4. ASSUME NEW i \in 1 .. Len(lh) PROVE bread(lh[i])' = bread(lh[i])
    BY <2>2 DEF bread
  <2> QED
    BY <2>1, <2>2, <2>3, <2>4 DEF Logged
<1>4. CASE write_head
  <2>1. /\ phase = "log" /\ phase' = "install" /\ tail > Len(lh) /\ tail' = 1
        /\ UNCHANGED <<home, cache, valid, logd, lh, rec>>
    BY <1>4 DEF write_head, mem, HeadReady
  <2>2. ASSUME NEW i \in 1 .. Len(lh) PROVE logd[i] = bread(lh[i])
    <3>1. i < tail
      BY <1>t, <2>1 DEF LogTypes
    <3> QED
      BY <2>1, <3>1 DEF Logged
  <2>3. ASSUME NEW i \in 1 .. Len(lh) PROVE bread(lh[i])' = bread(lh[i])
    BY <2>1 DEF bread
  <2> QED
    BY <2>1, <2>2, <2>3 DEF Logged
<1>5. CASE install_trans
  <2> DEFINE b == lh[tail]
  <2>1. tail \in 1 .. Len(lh) /\ b \in Blocks /\ tail < NLOG /\ tail \in 1 .. LOGSIZE
    BY <1>5, <1>t DEF install_trans, LogTypes
  <2>2. /\ home' = [home EXCEPT ![b] = logd[tail]]
        /\ cache' = [cache EXCEPT ![b] = logd[tail]]
        /\ valid' = valid \cup {b} /\ tail' = tail + 1
        /\ phase = "install" /\ UNCHANGED <<logd, lh, phase, rec>>
    BY <1>5, <2>1 DEF install_trans, mem, LogAt
  <2>3. \A i, j \in 1 .. Len(lh) : lh[i] = lh[j] => i = j
    BY DEF Commits
  <2> HIDE DEF b
  <2>4. ASSUME NEW i \in 1 .. Len(lh), i # tail
        PROVE  lh[i] # b /\ home'[lh[i]] = home[lh[i]] /\ bread(lh[i])' = bread(lh[i])
    <3>1. lh[i] # b
      BY <2>1, <2>3, <2>4 DEF b
    <3> QED
      BY <1>t, <2>1, <2>2, <3>1 DEF bread
  <2>5. home'[b] = logd[tail] /\ cache'[b] = logd[tail] /\ b \in valid'
    BY <1>t, <2>1, <2>2
  <2>6. ASSUME NEW i \in 1 .. Len(lh)
        PROVE  /\ ~rec => logd[i] = bread(lh[i])'
               /\ i < tail + 1 => home'[lh[i]] = logd[i]
    <3>1. CASE i = tail
      BY <2>2, <2>5, <3>1 DEF bread, b
    <3>2. CASE i # tail
      <4>1. i < tail + 1 => i < tail
        BY <1>t, <3>2
      <4> QED
        BY <2>2, <2>4, <3>2, <4>1 DEF Logged
    <3> QED
      BY <3>1, <3>2
  <2> QED
    BY <2>2, <2>6 DEF Logged
<1>6. CASE clear_head
  BY <1>6 DEF clear_head, Logged
<1>7. CASE Crash
  BY <1>7 DEF Crash, Logged
<1>8. ASSUME NEW b \in Blocks, Evict(b) PROVE Logged'
  <2>1. \A c \in Blocks : bread(c)' = bread(c)
    BY <1>8, EvictReads
  <2>2. UNCHANGED <<home, logd, lh, phase, tail, rec>>
    BY <1>8 DEF Evict, disk, mem
  <2>3. ASSUME NEW i \in 1 .. Len(lh) PROVE bread(lh[i])' = bread(lh[i])
    BY <1>t, <2>1, <2>2 DEF bread
  <2> QED
    BY <2>2, <2>3 DEF Logged
<1>9. ASSUME NEW p \in Procs, end_op(p) PROVE Logged'
  <2>1. ~committing /\ phase = "none"
    BY <1>9, NoCommitInOp DEF end_op
  <2>2. phase' \in {"none", "done"} \/ (phase' = "log" /\ tail' = 1)
    BY <1>9, <2>1 DEF end_op
  <2> QED
    BY <1>1, <1>9, <2>2 DEF end_op, disk
<1>10. ASSUME NEW p \in Procs, Call(p) \/ begin_op(p) \/ commit_done(p) PROVE Logged'
  BY <1>1, <1>10 DEF Call, begin_op, commit_done, disk, mem
<1>11. CASE UNCHANGED vars
  BY <1>1, <1>11 DEF vars, disk, mem
<1> QED
  BY <1>2, <1>3, <1>4, <1>5, <1>6, <1>7, <1>8, <1>9, <1>10, <1>11 DEF Next, ThreadStep, CommitStep

-----------------------------------------------------------------------------
(* The refinement of AtomicDisk.                                           *)

(* What recovery makes of the disk: the home blocks, with the logged ones  *)
(* over them while the header on disk names them.                          *)
LEMMA RecoveredIs ==
  LogAssumption /\ TypeOK /\ Commits /\ LogFits =>
    /\ Recovered \in [Blocks -> Vals]
    /\ phase # "install" => Recovered = home
    /\ phase = "install" =>
         /\ \A i \in 1 .. Len(lh) : Recovered[lh[i]] = logd[i]
         /\ \A b \in Blocks : b \notin Range(lh) => Recovered[b] = home[b]
<1> SUFFICES ASSUME LogAssumption, TypeOK, Commits, LogFits
             PROVE  /\ Recovered \in [Blocks -> Vals]
                    /\ phase # "install" => Recovered = home
                    /\ phase = "install" =>
                         /\ \A i \in 1 .. Len(lh) : Recovered[lh[i]] = logd[i]
                         /\ \A b \in Blocks : b \notin Range(lh) => Recovered[b] = home[b]
  OBVIOUS
<1>1. /\ home \in [Blocks -> Vals] /\ logd \in [1 .. LOGSIZE -> Vals] /\ NLOG \in Nat
      /\ lh \in Seq(Blocks) /\ Len(lh) \in Nat /\ Len(lh) <= NLOG - 1 /\ Len(lh) <= LOGSIZE
      /\ LOGSIZE \in Nat
  BY DEF TypeOK, LogFits, LogAssumption, Commits
<1>2. CASE phase # "install"
  <2>1. hdr = <<>>
    BY <1>2 DEF Commits
  <2>2. Range(hdr) = {}
    BY <2>1 DEF Range
  <2>3. Recovered = [b \in Blocks |-> home[b]]
    BY <2>2 DEF Recovered
  <2> QED
    BY <1>1, <1>2, <2>3
<1>3. CASE phase = "install"
  <2>1. hdr = lh
    BY <1>3 DEF Commits
  <2>2. ASSUME NEW i \in 1 .. Len(lh) PROVE Recovered[lh[i]] = logd[i] /\ logd[i] \in Vals
    <3>1. lh[i] \in Blocks /\ lh[i] \in Range(hdr)
      BY <1>1, <2>1, RangeIs
    <3>2. (CHOOSE j \in 1 .. Len(hdr) : hdr[j] = lh[i]) = i
      BY <2>1 DEF Commits
    <3>3. LogAt(i) = logd[i]
      BY <1>1 DEF LogAt
    <3>4. logd[i] \in Vals
      BY <1>1
    <3>5. Recovered[lh[i]] = LogAt(CHOOSE j \in 1 .. Len(hdr) : hdr[j] = lh[i])
      BY <3>1 DEF Recovered
    <3> QED
      BY <3>2, <3>3, <3>4, <3>5
  <2>3. ASSUME NEW b \in Blocks, b \notin Range(lh) PROVE Recovered[b] = home[b]
    BY <2>1, <2>3 DEF Recovered
  <2>4. ASSUME NEW b \in Blocks PROVE Recovered[b] \in Vals
    <3>1. CASE b \in Range(lh)
      <4>1. PICK i \in 1 .. Len(lh) : b = lh[i]
        BY <1>1, <3>1, RangeIs
      <4> QED
        BY <2>2, <4>1
    <3>2. CASE b \notin Range(lh)
      BY <1>1, <2>3, <3>2
    <3> QED
      BY <3>1, <3>2
  <2>5. Recovered = [b \in Blocks |-> Recovered[b]]
    BY DEF Recovered
  <2> QED
    BY <1>3, <2>2, <2>3, <2>4, <2>5
<1> QED
  BY <1>2, <1>3

(* At boot the log is empty: the disk is what the system calls will see.   *)
LEMMA RefinesInit == LogAssumption /\ Init /\ LogFits => Atomic!Init
<1> SUFFICES ASSUME LogAssumption, Init, LogFits PROVE Atomic!Init
  OBVIOUS
<1>1. TypeOK /\ Commits
  BY SpaceInit DEF SpaceInv
<1>2. Recovered \in [Blocks -> Vals] /\ Current = Recovered
  BY <1>1, RecoveredIs DEF Current, Init
<1> QED
  BY <1>2 DEF Atomic!Init, Init

(* Every step of the log is a step of AtomicDisk or changes nothing of it. *)
LEMMA RefinesNext ==
  ASSUME LogAssumption, SpaceInv, SpaceInv', DiskInv, LogFits, LogFits', [Next]_vars
  PROVE  [Atomic!Next]_Atomic!vars
<1>t. /\ TypeOK /\ Commits /\ Threads /\ Pinned /\ Logged /\ LogTypes
      /\ LOGSIZE \in Nat /\ NLOG \in Nat /\ tail \in Nat /\ outstanding \in Nat
      /\ home \in [Blocks -> Vals] /\ cache \in [Blocks -> Vals] /\ valid \subseteq Blocks
      /\ \A i \in 1 .. Len(lh) : lh[i] \in Blocks
  BY TypesUsed, ReadsVals DEF TypeOK, LogAssumption, SpaceInv, DiskInv
<1>r. /\ Recovered \in [Blocks -> Vals]
      /\ phase # "install" => Recovered = home
      /\ phase = "install" =>
           /\ \A i \in 1 .. Len(lh) : Recovered[lh[i]] = logd[i]
           /\ \A b \in Blocks : b \notin Range(lh) => Recovered[b] = home[b]
  BY <1>t, RecoveredIs
<1>s. /\ Recovered' \in [Blocks -> Vals]
      /\ phase' # "install" => Recovered' = home'
      /\ phase' = "install" =>
           /\ \A i \in 1 .. Len(lh') : Recovered'[lh'[i]] = logd'[i]
           /\ \A b \in Blocks : b \notin Range(lh') => Recovered'[b] = home'[b]
  <2>1. (LogAssumption /\ TypeOK /\ Commits /\ LogFits =>
          /\ Recovered \in [Blocks -> Vals]
          /\ phase # "install" => Recovered = home
          /\ phase = "install" =>
               /\ \A i \in 1 .. Len(lh) : Recovered[lh[i]] = logd[i]
               /\ \A b \in Blocks : b \notin Range(lh) => Recovered[b] = home[b])'
    BY RecoveredIs, PTL
  <2> QED
    BY <2>1 DEF SpaceInv, Range
<1>1. ASSUME UNCHANGED <<home, logd, hdr>> PROVE Recovered' = Recovered
  BY <1>1 DEF Recovered, LogAt, Range
<1>2. ASSUME rec' = rec, Recovered' = Recovered, \A b \in Blocks : bread(b)' = bread(b)
      PROVE  Current' = Current
  BY <1>2 DEF Current
<1>3. ASSUME UNCHANGED <<Recovered, Current, outstanding>> PROVE [Atomic!Next]_Atomic!vars
  BY <1>3 DEF Atomic!vars
<1>4. ASSUME UNCHANGED <<home, cache, valid>> PROVE \A b \in Blocks : bread(b)' = bread(b)
  BY <1>4 DEF bread
<1>5. ASSUME NEW p \in Procs, Call(p) \/ begin_op(p) \/ log_write(p) \/ commit_done(p)
      PROVE  [Atomic!Next]_Atomic!vars
  <2>1. UNCHANGED <<home, logd, hdr, cache, valid, rec>>
    BY <1>5 DEF Call, begin_op, log_write, commit_done, disk
  <2>2. Recovered' = Recovered /\ Current' = Current
    BY <1>1, <1>2, <1>4, <2>1
  <2>3. outstanding' \in {outstanding, outstanding + 1}
    BY <1>5 DEF Call, begin_op, log_write, commit_done, Counted, mem
  <2> QED
    BY <1>3, <2>2, <2>3 DEF Atomic!Next, Atomic!Begin
<1>6. ASSUME NEW p \in Procs, end_op(p) PROVE [Atomic!Next]_Atomic!vars
  <2>1. UNCHANGED <<home, logd, hdr, cache, valid, rec>> /\ outstanding' = outstanding - 1
    BY <1>6 DEF end_op, disk
  <2>2. Recovered' = Recovered /\ Current' = Current
    BY <1>1, <1>2, <1>4, <2>1
  <2>3. outstanding > 0
    <3>1. p \in Active
      BY <1>6 DEF end_op, Active
    <3> QED
      BY <1>t, <3>1, ActiveFinite DEF Threads, LogAssumption
  <2> QED
    BY <2>1, <2>2, <2>3 DEF Atomic!Next, Atomic!End
<1>7. ASSUME NEW p \in Procs, NEW b \in Blocks, NEW v \in Vals, Modify(p, b, v)
      PROVE  [Atomic!Next]_Atomic!vars
  <2>1. /\ pc[p] = "op" /\ ~rec /\ cache' = [cache EXCEPT ![b] = v] /\ valid' = valid \cup {b}
        /\ UNCHANGED <<home, logd, hdr, outstanding, rec>>
    BY <1>7 DEF Modify, disk, mem, Up
  <2>2. Recovered' = Recovered
    BY <1>1, <2>1
  <2>3. \A c \in Blocks : bread(c)' = IF c = b THEN v ELSE bread(c)
    BY <1>t, <2>1 DEF bread
  <2>4. Current' = [Current EXCEPT ![b] = v]
    BY <2>1, <2>3 DEF Current
  <2>5. outstanding > 0
    <3>1. p \in Active
      BY <2>1 DEF Active
    <3> QED
      BY <1>t, <3>1, ActiveFinite DEF Threads, LogAssumption
  <2>6. Atomic!Write(b, v)
    BY <2>1, <2>2, <2>4, <2>5 DEF Atomic!Write
  <2> QED
    BY <2>6 DEF Atomic!Next
<1>8. CASE write_log
  <2>1. phase = "log" /\ tail < NLOG
    BY <1>8, <1>t DEF write_log, LogFits, LogTypes
  <2>2. UNCHANGED <<home, cache, valid, rec, phase, outstanding>>
    BY <1>8, <2>1 DEF write_log, mem
  <2>3. Recovered' = Recovered
    BY <1>r, <1>s, <2>1, <2>2
  <2> QED
    BY <1>2, <1>3, <1>4, <2>2, <2>3
<1>9. CASE write_head
  <2>1. /\ phase = "log" /\ phase' = "install" /\ tail > Len(lh)
        /\ UNCHANGED <<home, cache, valid, logd, lh, rec, outstanding>>
    BY <1>9 DEF write_head, mem, HeadReady
  <2>2. ~rec /\ ~panicked /\ committing /\ Active = {}
    BY <1>9, <1>t, <2>1 DEF Commits, write_head
  <2>3. outstanding = 0
    BY <1>t, <2>2, FS_EmptySet DEF Threads
  <2>4. dirty = Range(lh)
    <3>1. dirty = {lh[i] : i \in 1 .. Len(lh)}
      BY <1>t, <2>1, <2>2 DEF Pinned
    <3> QED
      BY <1>t, <3>1, RangeIs DEF LogTypes
  <2>5. ASSUME NEW b \in Blocks PROVE Recovered'[b] = bread(b)
    <3>1. CASE b \in Range(lh)
      <4>1. PICK i \in 1 .. Len(lh) : b = lh[i]
        BY <1>t, <3>1, RangeIs DEF LogTypes
      <4>2. i < tail
        BY <1>t, <2>1 DEF LogTypes
      <4> QED
        BY <1>s, <1>t, <2>1, <4>1, <4>2 DEF Logged
    <3>2. CASE b \notin Range(lh)
      <4>1. \A p \in Procs : held[p] = {}
        BY <1>t, <2>2 DEF Threads, ThreadOK, Active
      <4>2. bread(b) = home[b]
        BY <1>t, <2>4, <3>2, <4>1 DEF Pinned, bread
      <4>3. b \notin Range(lh')
        BY <2>1, <3>2
      <4> QED
        BY <1>s, <2>1, <4>2, <4>3
    <3> QED
      BY <3>1, <3>2
  <2>6. Current = [b \in Blocks |-> bread(b)] /\ Recovered' = Current
    BY <1>s, <2>2, <2>5 DEF Current
  <2>7. Current' = Current
    <3>1. \A b \in Blocks : bread(b)' = bread(b)
      BY <1>4, <2>1
    <3> QED
      BY <2>1, <2>2, <3>1 DEF Current
  <2> QED
    BY <2>1, <2>3, <2>6, <2>7 DEF Atomic!Next, Atomic!Commit
<1>10. CASE install_trans
  <2> DEFINE b == lh[tail]
  <2>1. tail \in 1 .. Len(lh) /\ b \in Blocks /\ tail < NLOG
    BY <1>10, <1>t DEF install_trans, LogTypes, LogFits, TypeOK
  <2>2. /\ home' = [home EXCEPT ![b] = logd[tail]]
        /\ cache' = [cache EXCEPT ![b] = logd[tail]]
        /\ valid' = valid \cup {b}
        /\ phase = "install" /\ UNCHANGED <<logd, lh, phase, rec, outstanding>>
    BY <1>10, <2>1 DEF install_trans, mem, LogAt
  <2>3. b \in Range(lh)
    BY <1>t, <2>1, RangeIs DEF LogTypes
  <2> HIDE DEF b
  <2>4. ASSUME NEW c \in Blocks PROVE Recovered'[c] = Recovered[c]
    <3>1. CASE c \in Range(lh)
      <4>1. PICK i \in 1 .. Len(lh) : c = lh[i]
        BY <1>t, <3>1, RangeIs DEF LogTypes
      <4> QED
        BY <1>r, <1>s, <2>2, <4>1
    <3>2. CASE c \notin Range(lh)
      <4>1. c # b /\ home'[c] = home[c] /\ c \notin Range(lh')
        BY <1>t, <2>1, <2>2, <2>3, <3>2
      <4> QED
        BY <1>r, <1>s, <2>2, <3>2, <4>1
    <3> QED
      BY <3>1, <3>2
  <2>5. Recovered' = Recovered
    <3>1. Recovered \in [Blocks -> Vals] /\ Recovered' \in [Blocks -> Vals]
      BY <1>r, <1>s
    <3> QED
      BY <2>4, <3>1
  <2>6. CASE rec
    BY <1>3, <2>2, <2>5, <2>6 DEF Current
  <2>7. CASE ~rec
    <3>1. logd[tail] = bread(b)
      BY <1>t, <2>1, <2>2, <2>7 DEF Logged, b
    <3>2. \A c \in Blocks : bread(c)' = bread(c)
      BY <1>t, <2>1, <2>2, <3>1 DEF bread
    <3> QED
      BY <1>2, <1>3, <2>2, <2>5, <3>2
  <2> QED
    BY <2>6, <2>7
<1>11. CASE clear_head
  <2>1. /\ phase = "install" /\ tail > Len(lh) /\ rec' = FALSE /\ phase' # "install"
        /\ UNCHANGED <<home, cache, valid, outstanding>>
    BY <1>11 DEF clear_head
  <2>2. ASSUME NEW b \in Blocks PROVE Recovered[b] = home[b]
    <3>1. CASE b \in Range(lh)
      <4>1. PICK i \in 1 .. Len(lh) : b = lh[i]
        BY <1>t, <3>1, RangeIs DEF LogTypes
      <4>2. i < tail
        BY <1>t, <2>1 DEF LogTypes
      <4> QED
        BY <1>r, <1>t, <2>1, <4>1, <4>2 DEF Logged
    <3>2. CASE b \notin Range(lh)
      BY <1>r, <2>1, <3>2
    <3> QED
      BY <3>1, <3>2
  <2>3. Recovered' = home /\ Recovered = home
    BY <1>r, <1>s, <1>t, <2>1, <2>2
  <2>4. \A b \in Blocks : bread(b)' = bread(b)
    BY <1>4, <2>1
  <2>5. Current' = [b \in Blocks |-> bread(b)]
    BY <2>1, <2>4 DEF Current
  <2>6. CASE ~rec
    BY <1>3, <2>1, <2>3, <2>5, <2>6 DEF Current
  <2>7. CASE rec
    <3>1. \A p \in Procs : held[p] = {}
      BY <1>t, <2>7 DEF Threads, ThreadOK, Commits
    <3>2. \A b \in Blocks : bread(b) = home[b]
      BY <1>t, <2>7, <3>1 DEF Pinned, bread
    <3>3. Current' = home
      BY <1>t, <2>5, <3>2
    <3> QED
      BY <1>3, <2>1, <2>3, <2>7, <3>3 DEF Current
  <2> QED
    BY <2>6, <2>7
<1>12. CASE Crash
  <2>1. UNCHANGED <<home, logd, hdr>> /\ rec' = TRUE /\ outstanding' = 0
    BY <1>12 DEF Crash, disk
  <2>2. Recovered' = Recovered /\ Current' = Recovered'
    BY <1>1, <2>1 DEF Current
  <2> QED
    BY <2>1, <2>2 DEF Atomic!Next, Atomic!Crash
<1>13. ASSUME NEW b \in Blocks, Evict(b) PROVE [Atomic!Next]_Atomic!vars
  <2>1. UNCHANGED <<home, logd, hdr, rec, outstanding>>
    BY <1>13 DEF Evict, disk, mem
  <2>2. \A c \in Blocks : bread(c)' = bread(c)
    BY <1>13, <1>t, EvictReads
  <2> QED
    BY <1>1, <1>2, <1>3, <2>1, <2>2
<1>14. CASE UNCHANGED vars
  <2>1. UNCHANGED <<home, logd, hdr, cache, valid, rec, outstanding>>
    BY <1>14 DEF vars, disk, mem
  <2> QED
    BY <1>1, <1>2, <1>3, <1>4, <2>1
<1> QED
  BY <1>5, <1>6, <1>7, <1>8, <1>9, <1>10, <1>11, <1>12, <1>13, <1>14 DEF Next, ThreadStep, CommitStep

(* At boot nothing is cached and nothing is logged.                        *)
LEMMA DiskInit == Init => DiskInv
  BY DEF Init, DiskInv, Pinned, Logged, NoBlock

(* commit(), install_trans and recover_from_log: as long as a transaction  *)
(* has its place in the log on disk, the log makes the writes of system    *)
(* calls durable all together and only while no system call is in          *)
(* progress, whatever crashes happen at whatever moment.  The hypothesis   *)
(* is needed: LogFits is what the run log_fits refutes for the code's      *)
(* LOGSIZE and nlog.                                                       *)
THEOREM LogImplementsAtomicDisk ==
  ASSUME LogAssumption
  PROVE  Spec /\ []LogFits => ImplementsAtomicDisk
<1>1. Init => SpaceInv /\ DiskInv
  BY SpaceInit, DiskInit
<1>2. SpaceInv /\ DiskInv /\ LogFits /\ [Next]_vars => SpaceInv' /\ DiskInv'
  BY SpaceStep, PinnedKept, LoggedKept DEF SpaceInv, DiskInv
<1>3. Init /\ LogFits => Atomic!Init
  BY RefinesInit
<1>4. SpaceInv /\ SpaceInv' /\ DiskInv /\ LogFits /\ LogFits' /\ [Next]_vars => [Atomic!Next]_Atomic!vars
  BY RefinesNext
<1> QED
  BY <1>1, <1>2, <1>3, <1>4, PTL DEF Spec, ImplementsAtomicDisk, Atomic!Spec
=============================================================================
