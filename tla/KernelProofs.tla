---------------------------- MODULE KernelProofs ----------------------------
(***************************************************************************)
(* Three parts of the kernel, each for every value of its constants.       *)
(*                                                                         *)
(* Spinlocks: mutual exclusion, the truth of holding and the masking of    *)
(* interrupts, for any number of CPUs and locks.  Three inductive parts:   *)
(* Words relates the lock word and its owner to the CPU that has the lock; *)
(* Nesting says that locks nest in order and that nothing panicked;        *)
(* Masked counts pushcli against the locks, and needs cardinalities.       *)
(*                                                                         *)
(* The arguments of system calls, for every KERNBASE: a range of user      *)
(* memory that the checks of syscall.c accept lies inside the process, in  *)
(* numbers that do not wrap, and a range inside is accepted.  The argument *)
(* is that sbrk keeps the size below half of the range of a word, so the   *)
(* sums the checks compare cannot overflow once the first comparison has   *)
(* passed.                                                                 *)
(*                                                                         *)
(* Pipes, for any number of readers and writers, any size of the pipe and  *)
(* any width of its counters.                                              *)
(***************************************************************************)
EXTENDS Spinlock, SysArgs, Pipe, TLAPS

USE ZenonT(10), SMTT(20)

(* How finite sets are counted, for the locks that a CPU holds.  The       *)
(* lemmas assume it and the last part proves it.                           *)
SetsCounted ==
  /\ IsFiniteSet({}) /\ Cardinality({}) = 0
  /\ \A S, T : IsFiniteSet(T) /\ S \subseteq T => IsFiniteSet(S)
  /\ \A S : IsFiniteSet(S) => Cardinality(S) \in Nat /\ (Cardinality(S) = 0 <=> S = {})
  /\ \A S, x : IsFiniteSet(S) /\ x \notin S =>
       IsFiniteSet(S \cup {x}) /\ Cardinality(S \cup {x}) = Cardinality(S) + 1
  /\ \A S, x : IsFiniteSet(S) /\ x \in S =>
       IsFiniteSet(S \ {x}) /\ Cardinality(S \ {x}) = Cardinality(S) - 1

-----------------------------------------------------------------------------
(* Spinlocks.                                                              *)

Busy == {"check", "spin", "own", "disown", "unlock", "popcli"}

Types ==
  /\ locked \subseteq Locks /\ cpu \in [Locks -> Cpus \cup {NoCPU}]
  /\ cpc \in [Cpus -> Busy \cup {"run", "panic"}] /\ lk \in [Cpus -> Locks]
  /\ held \in [Cpus -> SUBSET Locks] /\ saved \in [Cpus -> SUBSET Locks]

(* The lock word is set and the owner is c for what c holds; while c is    *)
(* between the two stores of acquire or of release there is no owner, and  *)
(* no other CPU is there with the same lock.                               *)
Words ==
  /\ \A c \in Cpus : \A l \in held[c] : l \in locked /\ cpu[l] = c
  /\ \A c \in Cpus : cpc[c] \in {"own", "unlock"} =>
       lk[c] \in locked /\ cpu[lk[c]] = NoCPU
  /\ \A c \in Cpus : cpc[c] = "disown" =>
       lk[c] \in locked /\ cpu[lk[c]] = c /\ lk[c] \notin held[c]
  /\ \A c \in Cpus, l \in Locks : cpu[l] = c =>
       l \in held[c] \/ (cpc[c] = "disown" /\ lk[c] = l)
  /\ \A l \in Locks : l \notin locked => cpu[l] = NoCPU
  /\ \A c, d \in Cpus :
       c # d /\ cpc[c] \in {"own", "unlock"} /\ cpc[d] \in {"own", "unlock"}
         => lk[c] # lk[d]

(* What a CPU is after comes above all it holds, and no test failed.       *)
Nesting ==
  \A c \in Cpus :
    /\ cpc[c] # "panic" /\ saved[c] = {}
    /\ cpc[c] \in {"check", "spin", "own"} => lk[c] \notin held[c]

(* ncli counts the locks held and the one in hand, and masks interrupts.   *)
Masked ==
  /\ IF_ \subseteq Cpus /\ ncli \in [Cpus -> Int]
  /\ \A c \in Cpus :
       /\ IsFiniteSet(held[c])
       /\ ncli[c] = Cardinality(held[c]) + (IF cpc[c] \in Busy THEN 1 ELSE 0)
       /\ ncli[c] > 0 => c \notin IF_

IInv == Types /\ Words /\ Nesting /\ Masked

(* The initial state satisfies the invariant.                              *)
LEMMA InitInv ==
  ASSUME SetsCounted
  PROVE  SpinInit => IInv
  <1>1. IsFiniteSet({}) /\ Cardinality({}) = 0
    BY DEF SetsCounted
  <1> QED
    BY <1>1, SpinAssumption DEF SpinInit, IInv, Types, Words, Nesting, Masked, Busy

(* A CPU with interrupts enabled and outside acquire and release holds     *)
(* nothing.                                                                *)
LEMMA QuietHoldsNothing ==
  ASSUME SetsCounted, IInv, NEW c \in Cpus, c \in IF_
  PROVE  held[c] = {} /\ ncli[c] = 0 /\ cpc[c] \notin Busy
  <1>1. /\ IsFiniteSet(held[c]) /\ ncli[c] \in Int /\ ~(ncli[c] > 0)
        /\ ncli[c] = Cardinality(held[c]) + (IF cpc[c] \in Busy THEN 1 ELSE 0)
    BY DEF IInv, Masked
  <1>2. Cardinality(held[c]) \in Nat /\ (Cardinality(held[c]) = 0 <=> held[c] = {})
    BY <1>1 DEF SetsCounted
  <1> QED
    BY <1>1, <1>2

(* Each step keeps the types.                                              *)
LEMMA TypesStep ==
  ASSUME SetsCounted, IInv, NEW c \in Cpus, SpinStep(c)
  PROVE  Types'
  <1> USE DEF Types, Busy, CpuTo
  <1>1. Types
    BY DEF IInv
  <1>2. CASE Check(c) BY <1>1, <1>2 DEF Check
  <1>3. CASE Xchg(c) BY <1>1, <1>3 DEF Xchg
  <1>4. CASE Own(c) BY <1>1, <1>4 DEF Own
  <1>5. CASE Disown(c) BY <1>1, <1>5 DEF Disown
  <1>6. CASE Unlock(c) BY <1>1, <1>6 DEF Unlock
  <1>7. CASE popcli(c) BY <1>1, <1>7 DEF popcli
  <1>8. CASE sti(c) BY <1>1, <1>8 DEF sti
  <1>9. CASE Interrupt(c) BY <1>1, <1>9 DEF Interrupt
  <1>10. CASE Iret(c) BY <1>1, <1>10 DEF Iret
  <1>11. ASSUME NEW l \in Locks, acquire(c, l) PROVE Types'
    BY <1>1, <1>11 DEF acquire
  <1>12. ASSUME NEW l \in Locks, release(c, l) PROVE Types'
    BY <1>1, <1>12 DEF release
  <1> QED
    BY <1>2, <1>3, <1>4, <1>5, <1>6, <1>7, <1>8, <1>9, <1>10, <1>11, <1>12 DEF SpinStep

(* Each step keeps the nesting: the tests of acquire and release succeed   *)
(* because holding is exact, the one of popcli because ncli is.            *)
LEMMA NestingStep ==
  ASSUME SetsCounted, IInv, NEW c \in Cpus, SpinStep(c)
  PROVE  Nesting'
  <1> USE DEF Nesting, CpuTo
  <1>1. Types /\ Words /\ Nesting
    BY DEF IInv
  <1>2. CASE Check(c) BY <1>1, <1>2 DEF Check, Types, Words, holding
  <1>3. CASE Xchg(c) BY <1>1, <1>3 DEF Xchg, Types
  <1>4. CASE Own(c) BY <1>1, <1>4 DEF Own, Types
  <1>5. CASE Disown(c) BY <1>1, <1>5 DEF Disown, Types
  <1>6. CASE Unlock(c) BY <1>1, <1>6 DEF Unlock, Types
  <1>7. CASE popcli(c)
    <2>1. c \notin IF_ /\ ~(ncli[c] < 1)
      <3>1. /\ IsFiniteSet(held[c]) /\ cpc[c] \in Busy
            /\ ncli[c] = Cardinality(held[c]) + (IF cpc[c] \in Busy THEN 1 ELSE 0)
            /\ ncli[c] > 0 => c \notin IF_
        BY <1>7 DEF IInv, Masked, popcli, Busy
      <3>2. Cardinality(held[c]) \in Nat
        BY <3>1 DEF SetsCounted
      <3> QED
        BY <3>1, <3>2
    <2> QED
      BY <1>1, <1>7, <2>1 DEF popcli, Types
  <1>8. CASE sti(c) BY <1>1, <1>8 DEF sti
  <1>9. CASE Interrupt(c)
    BY <1>1, <1>9, QuietHoldsNothing DEF Interrupt, Types
  <1>10. CASE Iret(c) BY <1>1, <1>10 DEF Iret, Types
  <1>11. ASSUME NEW l \in Locks, acquire(c, l) PROVE Nesting'
    <2>1. l \notin held[c]
      BY <1>1, <1>11, SpinAssumption DEF acquire, Types
    <2> QED
      BY <1>1, <1>11, <2>1 DEF acquire, Types
  <1>12. ASSUME NEW l \in Locks, release(c, l) PROVE Nesting'
    BY <1>1, <1>12 DEF release, Types, Words, holding
  <1> QED
    BY <1>2, <1>3, <1>4, <1>5, <1>6, <1>7, <1>8, <1>9, <1>10, <1>11, <1>12 DEF SpinStep

(* Each step keeps the lock words and their owners.                        *)
LEMMA WordsStep ==
  ASSUME SetsCounted, IInv, NEW c \in Cpus, SpinStep(c)
  PROVE  Words'
  <1> USE DEF Words, CpuTo
  <1>1. Types /\ Words /\ Nesting /\ NoCPU \notin Cpus
    BY SpinAssumption DEF IInv
  <1>2. CASE Check(c) BY <1>1, <1>2 DEF Check, Types
  <1>3. CASE Xchg(c) BY <1>1, <1>3 DEF Xchg, Types
  <1>4. CASE Own(c) BY <1>1, <1>4 DEF Own, Types, Nesting
  <1>5. CASE Disown(c) BY <1>1, <1>5 DEF Disown, Types
  <1>6. CASE Unlock(c) BY <1>1, <1>6 DEF Unlock, Types
  <1>7. CASE popcli(c) BY <1>1, <1>7 DEF popcli, Types
  <1>8. CASE sti(c) BY <1>1, <1>8 DEF sti
  <1>9. CASE Interrupt(c)
    BY <1>1, <1>9, QuietHoldsNothing DEF Interrupt, Types
  <1>10. CASE Iret(c) BY <1>1, <1>10 DEF Iret, Types, Nesting
  <1>11. ASSUME NEW l \in Locks, acquire(c, l) PROVE Words'
    BY <1>1, <1>11 DEF acquire, Types
  <1>12. ASSUME NEW l \in Locks, release(c, l) PROVE Words'
    BY <1>1, <1>12 DEF release, Types, holding
  <1> QED
    BY <1>2, <1>3, <1>4, <1>5, <1>6, <1>7, <1>8, <1>9, <1>10, <1>11, <1>12 DEF SpinStep

(* Masked, for one CPU.                                                    *)
MaskedAt(d) ==
  /\ IsFiniteSet(held[d])
  /\ ncli[d] = Cardinality(held[d]) + (IF cpc[d] \in Busy THEN 1 ELSE 0)
  /\ ncli[d] > 0 => d \notin IF_

(* Each step keeps the count of pushcli equal to the locks, and interrupts *)
(* masked while it is not zero.                                            *)
LEMMA MaskedStep ==
  ASSUME SetsCounted, IInv, NEW c \in Cpus, SpinStep(c)
  PROVE  Masked'
  <1>1. Types /\ Words /\ Nesting
    BY DEF IInv
  <1>2. IF_ \subseteq Cpus /\ ncli \in [Cpus -> Int] /\ \A d \in Cpus : MaskedAt(d)
    BY DEF IInv, Masked, MaskedAt
  <1>3. ncli' \in [Cpus -> Int] /\ IF_' \subseteq Cpus
    BY <1>1, <1>2 DEF SpinStep, Check, Xchg, Own, Disown, Unlock, popcli, sti,
       Interrupt, Iret, acquire, release, pushcli, Types
  <1>4. ASSUME NEW d \in Cpus, d # c PROVE MaskedAt(d)'
    <2>1. /\ held'[d] = held[d] /\ cpc'[d] = cpc[d] /\ ncli'[d] = ncli[d]
          /\ d \in IF_' <=> d \in IF_
      BY <1>1, <1>2, <1>4 DEF SpinStep, Check, Xchg, Own, Disown, Unlock, popcli,
         sti, Interrupt, Iret, acquire, release, pushcli, Types, CpuTo
    <2> QED
      BY <1>2, <2>1 DEF MaskedAt
  <1>5. MaskedAt(c)'
    <2> USE DEF MaskedAt, CpuTo
    <2>1. /\ MaskedAt(c) /\ ncli[c] \in Int /\ c \in DOMAIN cpc /\ c \in DOMAIN ncli
          /\ c \in DOMAIN held
      BY <1>1, <1>2 DEF Types
    <2>2. Cardinality(held[c]) \in Nat
      BY <2>1 DEF SetsCounted
    <2>3. CASE Check(c) \/ Xchg(c) \/ Disown(c) \/ Unlock(c)
      <3>1. /\ cpc[c] \in Busy /\ held' = held /\ ncli' = ncli /\ IF_' = IF_
            /\ cpc'[c] \in Busy \cup {"panic"}
        BY <2>1, <2>3 DEF Check, Xchg, Disown, Unlock, Busy
      <3>2. cpc'[c] # "panic"
        BY NestingStep DEF Nesting
      <3> QED
        BY <2>1, <3>1, <3>2
    <2>4. CASE Own(c)
      <3>1. lk[c] \notin held[c] /\ held'[c] = held[c] \cup {lk[c]}
        BY <1>1, <2>1, <2>4 DEF Own, Nesting
      <3>2. IsFiniteSet(held'[c]) /\ Cardinality(held'[c]) = Cardinality(held[c]) + 1
        BY <2>1, <3>1 DEF SetsCounted
      <3> QED
        BY <2>1, <2>2, <2>4, <3>2 DEF Own, Busy
    <2>5. CASE popcli(c)
      BY <2>1, <2>2, <2>5 DEF popcli, Busy
    <2>6. CASE sti(c)
      <3>1. Cardinality(held[c]) = 0 /\ cpc[c] \notin Busy /\ ncli[c] = 0
        <4>1. held[c] = {} /\ cpc[c] = "run"
          BY <2>6 DEF sti
        <4>2. Cardinality(held[c]) = 0
          BY <4>1 DEF SetsCounted
        <4> QED
          BY <2>1, <4>1, <4>2 DEF Busy
      <3>2. held' = held /\ cpc' = cpc /\ ncli' = ncli
        BY <2>6 DEF sti
      <3> QED
        BY <2>1, <3>1, <3>2
    <2>7. CASE Interrupt(c)
      BY <2>1, <2>7, QuietHoldsNothing DEF Interrupt
    <2>8. CASE Iret(c)
      <3>1. Cardinality(held[c]) = 0 /\ cpc[c] \notin Busy /\ ncli[c] = 0
        <4>1. held[c] = {} /\ cpc[c] = "run"
          BY <2>8 DEF Iret
        <4>2. Cardinality(held[c]) = 0
          BY <4>1 DEF SetsCounted
        <4> QED
          BY <2>1, <4>1, <4>2 DEF Busy
      <3>2. held'[c] = held[c] /\ cpc' = cpc /\ ncli' = ncli
        BY <1>1, <2>1, <2>8 DEF Iret, Nesting
      <3> QED
        BY <2>1, <3>1, <3>2
    <2>9. ASSUME NEW l \in Locks, acquire(c, l) PROVE MaskedAt(c)'
      BY <2>1, <2>2, <2>9 DEF acquire, pushcli, Busy
    <2>10. ASSUME NEW l \in Locks, release(c, l) PROVE MaskedAt(c)'
      <3>1. l \in held[c] /\ held'[c] = held[c] \ {l}
        BY <2>1, <2>10 DEF release
      <3>2. IsFiniteSet(held'[c]) /\ Cardinality(held'[c]) = Cardinality(held[c]) - 1
        BY <2>1, <3>1 DEF SetsCounted
      <3>3. holding(c, l)
        BY <1>1, <3>1 DEF Words, holding
      <3> QED
        BY <2>1, <2>2, <2>10, <3>2, <3>3 DEF release, Busy
    <2> QED
      BY <2>3, <2>4, <2>5, <2>6, <2>7, <2>8, <2>9, <2>10 DEF SpinStep
  <1> QED
    BY <1>3, <1>4, <1>5 DEF Masked, MaskedAt

(* The invariant is inductive.                                             *)
LEMMA StepInv ==
  ASSUME SetsCounted
  PROVE  IInv /\ [SpinNext]_spinVars => IInv'
  <1>1. ASSUME IInv, NEW c \in Cpus, SpinStep(c) PROVE IInv'
    BY <1>1, TypesStep, WordsStep, NestingStep, MaskedStep DEF IInv
  <1>2. ASSUME IInv, UNCHANGED spinVars PROVE IInv'
    BY <1>2 DEF IInv, Types, Words, Nesting, Masked, spinVars
  <1> QED
    BY <1>1, <1>2 DEF SpinNext

-----------------------------------------------------------------------------
(* The arguments of system calls (SysArgs).                                *)

\* The inductive invariant: the types, and the bound on the size.
Sizes == ArgsTypeOK /\ BelowKernel

\* Addition of words yields a word, and is exact when the sum fits.
LEMMA AddWord ==
    ASSUME NEW a \in Uints, NEW b \in Uints
    PROVE  /\ Add(a, b) \in Uints
           /\ a < KERNBASE /\ b < KERNBASE => Add(a, b) = a + b
  BY SysArgsAssumption DEF Add, Uints, UINT

\* growproc leaves a size below KERNBASE, whatever its argument: growing is
\* refused from KERNBASE on, and a decrement that wraps changes nothing.
LEMMA GrowBounded ==
    ASSUME Sizes, NEW n \in Uints, growproc(n)
    PROVE  sz' \in Uints /\ sz' < KERNBASE
  <1>1. sz \in Uints /\ sz < KERNBASE
    BY DEF Sizes, ArgsTypeOK, BelowKernel
  <1>2. Add(sz, n) \in Uints
    BY <1>1, AddWord
  <1>3. CASE n = 0 /\ UNCHANGED sz
    BY <1>1, <1>3
  <1>4. CASE \E s \in allocuvm(sz, Add(sz, n)) : sz' = IF s = 0 THEN sz ELSE s
    BY <1>1, <1>2, <1>4, SysArgsAssumption DEF allocuvm, Uints, UINT
  <1>5. CASE sz' = IF deallocuvm(sz, Add(sz, n)) = 0 THEN sz
                   ELSE deallocuvm(sz, Add(sz, n))
    BY <1>1, <1>2, <1>5, SysArgsAssumption DEF deallocuvm, Uints, UINT
  <1> QED
    BY <1>3, <1>4, <1>5 DEF growproc

\* Every step keeps the types and the bound on the size.
LEMMA SizesStep == Sizes /\ [ArgsNext]_argsVars => Sizes'
  <1> SUFFICES ASSUME Sizes, [ArgsNext]_argsVars PROVE Sizes'
    OBVIOUS
  <1>0. /\ sz \in Uints /\ sz < KERNBASE /\ esp \in Uints
        /\ arg.lo \in Uints /\ arg.len \in Nat /\ arg.ok \in BOOLEAN
    BY DEF Sizes, ArgsTypeOK, BelowKernel
  <1>n. /\ None.lo \in Uints /\ None.len \in Nat /\ None.ok \in BOOLEAN
    BY SysArgsAssumption DEF None, Uints, UINT
  <1>1. CASE sys_sbrk
    <2>1. sz' \in Uints /\ sz' < KERNBASE
      BY <1>1, GrowBounded DEF sys_sbrk
    <2> QED
      BY <1>0, <1>n, <1>1, <2>1 DEF sys_sbrk, Sizes, ArgsTypeOK, BelowKernel
  <1>2. CASE User
    BY <1>0, <1>n, <1>2 DEF User, Sizes, ArgsTypeOK, BelowKernel
  <1>3. ASSUME NEW n \in 0 .. MaxArg, CheckInt(n) PROVE Sizes'
    <2>1. Add(esp, 4 + 4 * n) \in Uints
      <3>1. 4 + 4 * n \in Uints
        BY SysArgsAssumption DEF Uints, UINT
      <3> QED
        BY <1>0, <3>1, AddWord
    <2>2. argint(n) \in BOOLEAN
      BY DEF argint, fetchint
    <2> QED
      BY <1>0, <1>3, <2>1, <2>2 DEF CheckInt, Sizes, ArgsTypeOK, BelowKernel
  <1>4. ASSUME NEW n \in 0 .. MaxArg, NEW i \in Uints, NEW j \in Uints,
               argptr(n, i, j)
        PROVE  Sizes'
    <2>1. InBlock(i, j) \in BOOLEAN /\ j \in Nat
      BY SysArgsAssumption DEF InBlock, Uints, UINT
    <2> QED
      BY <1>0, <1>4, <2>1 DEF argptr, Sizes, ArgsTypeOK, BelowKernel
  <1>5. ASSUME NEW n \in 0 .. MaxArg, NEW i \in Uints, NEW j \in Uints,
               argstr(n, i, j)
        PROVE  Sizes'
    <2>1. fetchstr(i, j) \in BOOLEAN
      BY DEF fetchstr
    <2>2. i <= j /\ j - i + 1 \in Nat
      BY <1>5, SysArgsAssumption DEF argstr, Uints, UINT
    <2> QED
      BY <1>0, <1>5, <2>1, <2>2 DEF argstr, Sizes, ArgsTypeOK, BelowKernel
  <1>6. CASE UNCHANGED argsVars
    BY <1>0, <1>6 DEF argsVars, Sizes, ArgsTypeOK, BelowKernel
  <1> QED
    BY <1>1, <1>2, <1>3, <1>4, <1>5, <1>6 DEF ArgsNext

\* The types, and: sbrk never takes the size of a process to KERNBASE
\* (growproc, allocuvm and deallocuvm with sums that wrap).
THEOREM SizeBelowKernel == ArgsSpec => [](ArgsTypeOK /\ BelowKernel)
  <1>1. ArgsInit => Sizes
    BY SysArgsAssumption
       DEF ArgsInit, Sizes, ArgsTypeOK, BelowKernel, None, Uints, UINT
  <1> QED
    BY <1>1, SizesStep, PTL DEF ArgsSpec, Sizes

----------------------------------------------------------------------------
(* The checks are exact *)

\* The test of a word: sums of an address below sz and of 4 do not wrap.
LEMMA fetchintExact ==
    ASSUME Sizes, NEW a \in Uints
    PROVE  fetchint(a) <=> a < sz /\ a + 4 <= sz
  <1>1. sz \in Uints /\ sz < KERNBASE /\ 4 \in Uints /\ 4 < KERNBASE
    BY SysArgsAssumption DEF Sizes, ArgsTypeOK, BelowKernel, Uints, UINT
  <1>2. CASE a >= sz
    BY <1>1, <1>2 DEF fetchint, Uints
  <1>3. CASE a < sz
    <2>1. Add(a, 4) = a + 4
      BY <1>1, <1>3, AddWord, SysArgsAssumption DEF Uints, UINT
    <2> QED
      BY <1>1, <1>3, <2>1 DEF fetchint, Uints
  <1> QED
    BY <1>1, <1>2, <1>3 DEF Uints

\* The test of a block: a size that is not negative does not wrap either.
LEMMA InBlockExact ==
    ASSUME Sizes, NEW i \in Uints, NEW n \in Uints
    PROVE  InBlock(i, n) <=> i < sz /\ i + n <= sz
  <1>1. sz \in Uints /\ sz < KERNBASE
    BY DEF Sizes, ArgsTypeOK, BelowKernel
  <1>2. CASE i >= sz \/ n >= KERNBASE
    BY <1>1, <1>2, SysArgsAssumption DEF InBlock, Negative, Uints, UINT
  <1>3. CASE i < sz /\ n < KERNBASE
    <2>1. Add(i, n) = i + n
      BY <1>1, <1>3, AddWord, SysArgsAssumption DEF Uints, UINT
    <2> QED
      BY <1>1, <1>3, <2>1, SysArgsAssumption DEF InBlock, Negative, Uints, UINT
  <1> QED
    BY <1>1, <1>2, <1>3, SysArgsAssumption DEF Uints, UINT

\* What the two properties of the checks say together.
Exact == AcceptedInside /\ InsideAccepted

\* Every check gives the exact verdict on the range it is asked about.
LEMMA ExactStep == Sizes /\ Exact /\ [ArgsNext]_argsVars => Exact'
  <1> SUFFICES ASSUME Sizes, Exact, [ArgsNext]_argsVars PROVE Exact'
    OBVIOUS
  <1>0. sz \in Uints /\ esp \in Uints
    BY DEF Sizes, ArgsTypeOK
  <1>1. CASE arg' = None
    BY <1>1 DEF None, Exact, AcceptedInside, InsideAccepted
  <1>2. ASSUME NEW n \in 0 .. MaxArg, CheckInt(n) PROVE Exact'
    <2>1. Add(esp, 4 + 4 * n) \in Uints
      <3>1. 4 + 4 * n \in Uints
        BY SysArgsAssumption DEF Uints, UINT
      <3> QED
        BY <1>0, <3>1, AddWord
    <2>2. argint(n) <=> /\ Add(esp, 4 + 4 * n) < sz
                        /\ Add(esp, 4 + 4 * n) + 4 <= sz
      BY <2>1, fetchintExact DEF argint
    <2> QED
      BY <1>2, <2>2 DEF CheckInt, Exact, AcceptedInside, InsideAccepted
  <1>3. ASSUME NEW n \in 0 .. MaxArg, NEW i \in Uints, NEW j \in Uints,
               argptr(n, i, j)
        PROVE  Exact'
    <2>1. InBlock(i, j) <=> i < sz /\ i + j <= sz
      BY InBlockExact
    <2> QED
      BY <1>3, <2>1 DEF argptr, Exact, AcceptedInside, InsideAccepted
  <1>4. ASSUME NEW n \in 0 .. MaxArg, NEW i \in Uints, NEW j \in Uints,
               argstr(n, i, j)
        PROVE  Exact'
    <2>1. fetchstr(i, j) <=> i < sz /\ i + (j - i + 1) <= sz
      BY <1>0, <1>4, SysArgsAssumption DEF fetchstr, argstr, Uints, UINT
    <2> QED
      BY <1>4, <2>1 DEF argstr, Exact, AcceptedInside, InsideAccepted
  <1>5. CASE UNCHANGED argsVars
    BY <1>5 DEF argsVars, Exact, AcceptedInside, InsideAccepted
  <1> QED
    BY <1>1, <1>2, <1>3, <1>4, <1>5 DEF ArgsNext, sys_sbrk, User

\* What fetchint, argptr and fetchstr accept lies wholly below the size of
\* the process: no sum of theirs wraps, for any stack pointer and argument.
THEOREM ArgumentsInside == ArgsSpec => []AcceptedInside
  <1>1. ArgsInit => Sizes /\ Exact
    BY SysArgsAssumption
       DEF ArgsInit, Sizes, ArgsTypeOK, BelowKernel, Exact, AcceptedInside,
           InsideAccepted, None, Uints, UINT
  <1>2. Exact => AcceptedInside
    BY DEF Exact
  <1> QED
    BY <1>1, <1>2, SizesStep, ExactStep, PTL DEF ArgsSpec

\* And what lies inside is not refused.
THEOREM InsideTaken == ArgsSpec => []InsideAccepted
  <1>1. ArgsInit => Sizes /\ Exact
    BY SysArgsAssumption
       DEF ArgsInit, Sizes, ArgsTypeOK, BelowKernel, Exact, AcceptedInside,
           InsideAccepted, None, Uints, UINT
  <1>2. Exact => InsideAccepted
    BY DEF Exact
  <1> QED
    BY <1>1, <1>2, SizesStep, ExactStep, PTL DEF ArgsSpec

-----------------------------------------------------------------------------
(* Pipes.                                                                  *)

Points == {"user", "wlock", "wloop", "wsleep", "rlock", "rloop", "rcopy", "rsleep", "exit"}
WritePoints == {"wlock", "wloop", "wsleep"}
ReadPoints == {"rlock", "rloop", "rcopy", "rsleep"}

(* What the proofs need of the type invariant.                             *)
Typed ==
  /\ pc \in [Procs -> Points]
  /\ lock \subseteq Procs /\ asleep \subseteq Procs
  /\ wends \subseteq Procs /\ rends \subseteq Procs

(* Every step keeps the variables typed.                                   *)
LEMMA TypedStep == Typed /\ [Next]_vars => Typed'
<1> SUFFICES ASSUME Typed, [Next]_vars PROVE Typed'
  OBVIOUS
<1> USE DEF Typed, Points, Goto, Return, vars
<1>1. ASSUME NEW p \in Procs, KernelStep(p) PROVE Typed'
  <2>1. CASE Acquire(p)
    BY <2>1 DEF Acquire
  <2>2. CASE WriteDone(p) \/ WriteFull(p) \/ \E b \in Bytes : WriteByte(p, b)
    BY <2>2 DEF WriteDone, WriteFull, WriteByte
  <2>3. CASE ReadEmpty(p) \/ ReadStart(p) \/ ReadByte(p) \/ ReadDone(p)
    BY <2>3 DEF ReadEmpty, ReadStart, ReadByte, ReadDone
  <2>4. CASE Sleep(p) \/ Woken(p)
    BY <2>4 DEF Sleep, Woken, At
  <2>5. CASE ExitClose(p)
    BY <2>5 DEF ExitClose, CloseEnd
  <2> QED
    BY <1>1, <2>1, <2>2, <2>3, <2>4, <2>5 DEF KernelStep
<1>2. ASSUME NEW p \in Procs, Kill(p) \/ (\E n \in 0 .. MaxCount : CallWrite(p, n) \/ CallRead(p, n))
      PROVE  Typed'
  BY <1>2 DEF Kill, CallWrite, CallRead
<1>3. ASSUME NEW p \in Procs, NEW w \in BOOLEAN, Close(p, w) PROVE Typed'
  BY <1>3 DEF Close, CloseEnd
<1>4. CASE UNCHANGED vars
  BY <1>4
<1> QED
  BY <1>1, <1>2, <1>3, <1>4 DEF Next, Finished

(* The lock is taken by a process that sleeps in no loop, given back, or   *)
(* kept by a holder that moves inside; nobody else moves inside.           *)
LEMMA LockKept ==
  ASSUME Typed, LockHeld, NEW p \in Procs, NEW l \in Points, p \notin asleep,
         pc' = [pc EXCEPT ![p] = l],
         asleep' \subseteq asleep \cup {p},
         \/ p \in lock /\ lock' = lock /\ l \in Inside \cup Waits /\ p \notin asleep'
         \/ p \in lock /\ lock' = {} /\ l \notin Inside /\ (p \in asleep' => l \in Waits)
         \/ lock = {} /\ lock' = {p} /\ l \in Inside /\ p \notin asleep'
         \/ p \notin lock /\ lock' = lock /\ l \notin Inside /\ p \notin asleep'
  PROVE  LockHeld'
<1>1. \A q \in Procs : pc'[q] = IF q = p THEN l ELSE pc[q]
  BY DEF Typed
<1> QED
  BY <1>1 DEF Typed, LockHeld, Inside, Waits

(* The steps of a call, and its start.                                     *)
Step(p) ==
  \/ Acquire(p) \/ WriteDone(p) \/ WriteFull(p) \/ ReadEmpty(p) \/ ReadStart(p)
  \/ ReadByte(p) \/ ReadDone(p) \/ Sleep(p) \/ Woken(p)
  \/ \E b \in Bytes : WriteByte(p, b)
  \/ \E n \in 0 .. MaxCount : CallWrite(p, n) \/ CallRead(p, n)

(* acquire, release and sleep in pipewrite and piperead.                   *)
LEMMA LockStep ==
  ASSUME Typed, LockHeld, NEW p \in Procs, Step(p)
  PROVE  LockHeld'
<1> USE DEF At, Goto, Return, LockFree
<1>1. pc[p] \in Inside => p \in lock
  BY DEF LockHeld
<1>2. pc' = pc => pc' = [pc EXCEPT ![p] = pc[p]]
  BY DEF Typed
<1>3. \A q \in lock : q = p \/ p \notin lock
  BY DEF LockHeld
<1> USE DEF Points, Inside, Waits, SleepersOn
<1>4. CASE Acquire(p)
  BY <1>4, LockKept DEF Acquire
<1>5. CASE WriteDone(p)
  BY <1>1, <1>5, LockKept DEF WriteDone
<1>6. CASE WriteFull(p)
  BY <1>1, <1>6, LockKept DEF WriteFull
<1>7. CASE \E b \in Bytes : WriteByte(p, b)
  BY <1>1, <1>2, <1>7, LockKept DEF WriteByte
<1>8. CASE ReadEmpty(p) \/ ReadStart(p)
  BY <1>1, <1>8, LockKept DEF ReadEmpty, ReadStart
<1>9. CASE ReadByte(p)
  BY <1>1, <1>2, <1>9, LockKept DEF ReadByte
<1>10. CASE ReadDone(p)
  BY <1>1, <1>10, LockKept DEF ReadDone
<1>11. CASE Sleep(p)
  BY <1>2, <1>11, LockKept DEF Sleep
<1>12. CASE Woken(p)
  BY <1>12, LockKept DEF Woken
<1>13. CASE \E n \in 0 .. MaxCount : CallWrite(p, n) \/ CallRead(p, n)
  <2>1. p \notin lock /\ pc[p] = "user"
    BY <1>13 DEF LockHeld, CallWrite, CallRead
  <2> QED
    BY <1>13, <2>1, LockKept DEF CallWrite, CallRead
<1> QED
  BY <1>4, <1>5, <1>6, <1>7, <1>8, <1>9, <1>10, <1>11, <1>12, <1>13 DEF Step

(* A call moves a process only between points of its own end.              *)
LEMMA EndsStep ==
  ASSUME Typed, EndsOpen, NEW p \in Procs, Step(p)
  PROVE  EndsOpen'
<1> USE DEF At, Goto, Return, Points
<1>1. UNCHANGED <<wends, rends, writeopen, readopen, freed>>
  BY DEF Step, Acquire, WriteDone, WriteFull, WriteByte, ReadEmpty, ReadStart, ReadByte,
         ReadDone, Sleep, Woken, CallWrite, CallRead, pipe
<1>2. \E l \in Points : /\ pc' = [pc EXCEPT ![p] = l]
                        /\ l \in WritePoints => pc[p] \in WritePoints \/ p \in wends
                        /\ l \in ReadPoints => pc[p] \in ReadPoints \/ p \in rends
  <2> USE DEF WritePoints, ReadPoints
  <2>1. CASE pc' = pc
    BY <2>1 DEF Typed
  <2>2. CASE Acquire(p) \/ WriteDone(p) \/ WriteFull(p)
    BY <2>1, <2>2 DEF Acquire, WriteDone, WriteFull
  <2>3. CASE ReadEmpty(p) \/ ReadStart(p) \/ ReadDone(p) \/ Woken(p)
    BY <2>1, <2>3 DEF ReadEmpty, ReadStart, ReadDone, Woken
  <2>4. CASE Sleep(p) \/ ReadByte(p) \/ \E b \in Bytes : WriteByte(p, b)
    BY <2>1, <2>4 DEF Sleep, ReadByte, WriteByte
  <2>5. CASE \E n \in 0 .. MaxCount : CallWrite(p, n) \/ CallRead(p, n)
    BY <2>5 DEF CallWrite, CallRead
  <2> QED
    BY <2>2, <2>3, <2>4, <2>5 DEF Step
<1>3. \A q \in Procs : /\ pc'[q] \in WritePoints => q \in wends
                       /\ pc'[q] \in ReadPoints => q \in rends
  BY <1>2 DEF Typed, EndsOpen, WritePoints, ReadPoints
<1> QED
  BY <1>1, <1>3 DEF EndsOpen, WritePoints, ReadPoints

(* SleepersCovered, for one process.                                       *)
Covered(q) ==
  /\ pc[q] = "wsleep" /\ q \in lock => Full /\ readopen
  /\ pc[q] = "rsleep" /\ q \in lock => Empty /\ writeopen
  /\ pc[q] = "wsleep" /\ q \in asleep =>
       (Full /\ readopen) \/ \E r \in lock : pc[r] = "rcopy"
  /\ pc[q] = "rsleep" /\ q \in asleep =>
       /\ writeopen
       /\ Empty \/ killed \cap Writers # {} \/ \E r \in lock : pc[r] = "wloop"

(* The holder of the lock goes from one point to another, or gives the     *)
(* lock back, and leaves the bytes alone; whoever it leaves asleep has a   *)
(* reason without it.                                                      *)
LEMMA HolderMoves ==
  ASSUME Typed, LockHeld, SleepersCovered, NEW p \in Procs, p \in lock,
         NEW l \in Points, pc' = [pc EXCEPT ![p] = l], lock' \subseteq lock,
         asleep' \subseteq asleep \cup {p}, UNCHANGED <<pipe, killed>>, Covered(p)',
         pc[p] = "rcopy" => \A q \in asleep' : q # p => pc[q] # "wsleep",
         pc[p] = "wloop" => killed \cap Writers # {} \/ \A q \in asleep' : q # p => pc[q] # "rsleep"
  PROVE  SleepersCovered'
<1>1. \A q \in Procs : pc'[q] = IF q = p THEN l ELSE pc[q]
  BY DEF Typed
<1>2. lock = {p}
  BY DEF LockHeld
<1>3. ASSUME NEW q \in Procs, q # p PROVE Covered(q)'
  <2>1. Covered(q) /\ q \notin lock' /\ pc'[q] = pc[q] /\ (q \in asleep' => q \in asleep)
    BY <1>1, <1>2, <1>3 DEF SleepersCovered, Covered
  <2>2. UNCHANGED <<Full, Empty, readopen, writeopen, killed>>
    BY DEF pipe, Full, Empty
  <2>3. pc[q] = "wsleep" /\ q \in asleep' => Full /\ readopen
    BY <1>2, <1>3, <2>1 DEF Covered
  <2>4. pc[q] = "rsleep" /\ q \in asleep' => writeopen /\ (Empty \/ killed \cap Writers # {})
    BY <1>2, <1>3, <2>1 DEF Covered
  <2> QED
    BY <2>1, <2>2, <2>3, <2>4 DEF Covered
<1> QED
  BY <1>3 DEF SleepersCovered, Covered

(* A process without the lock moves, awake, to a point outside the loops.  *)
LEMMA OutsiderMoves ==
  ASSUME Typed, SleepersCovered, NEW p \in Procs, p \notin lock, p \notin asleep,
         NEW l \in Points, l \notin Inside \cup Waits, pc' = [pc EXCEPT ![p] = l],
         UNCHANGED <<pipe, lock, asleep, killed>>
  PROVE  SleepersCovered'
<1>1. \A q \in Procs : pc'[q] = IF q = p THEN l ELSE pc[q]
  BY DEF Typed
<1>2. UNCHANGED <<Full, Empty, readopen, writeopen>>
  BY DEF pipe, Full, Empty
<1>3. ASSUME NEW q \in Procs PROVE Covered(q)'
  <2>1. Covered(q)
    BY <1>3 DEF SleepersCovered, Covered
  <2>2. \A r \in lock : pc'[r] = pc[r]
    BY <1>1 DEF Typed
  <2> QED
    BY <1>1, <1>2, <2>1, <2>2 DEF Covered, Inside, Waits
<1> QED
  BY <1>3 DEF SleepersCovered, Covered

(* pipewrite and piperead keep every sleeper covered.                      *)
LEMMA CoveredStep ==
  ASSUME Typed, PipeInv, NEW p \in Procs, Step(p)
  PROVE  SleepersCovered'
<1> USE DEF At, Goto, Return, Points
<1>1. /\ pc[p] \in Inside => lock = {p}
      /\ p \in lock => lock = {p} /\ p \notin asleep
  BY DEF PipeInv, LockHeld, Typed
<1>2. Covered(p) /\ LockHeld /\ SleepersCovered
  BY DEF PipeInv, SleepersCovered, Covered
<1>3. CASE Acquire(p)
  <2>1. /\ lock = {} /\ lock' = {p} /\ p \notin asleep /\ UNCHANGED <<pipe, asleep, killed>>
        /\ \E l \in {"wloop", "rloop"} : pc' = [pc EXCEPT ![p] = l]
    BY <1>3 DEF Acquire, LockFree
  <2>2. UNCHANGED <<Full, Empty, readopen, writeopen>>
    BY <2>1 DEF pipe, Full, Empty
  <2>3. ASSUME NEW q \in Procs PROVE Covered(q)'
    <3>1. Covered(q)
      BY <2>3 DEF PipeInv, SleepersCovered, Covered
    <3>2. (q # p /\ pc'[q] = pc[q]) \/ (q = p /\ pc'[q] \in {"wloop", "rloop"})
      BY <2>1, <2>3 DEF Typed
    <3> QED
      BY <2>1, <2>2, <3>1, <3>2 DEF Covered
  <2> QED
    BY <2>3 DEF SleepersCovered, Covered
<1>4. CASE WriteDone(p)
  <2>1. Covered(p)'
    BY <1>4 DEF WriteDone, Covered, Typed
  <2> QED
    BY <1>1, <1>2, <1>4, <2>1, HolderMoves DEF WriteDone, Inside, SleepersOn
<1>5. CASE WriteFull(p)
  <2>1. pc[p] = "wloop" /\ lock = {p} /\ p \notin asleep /\ UNCHANGED <<pipe, killed>> /\ Full
    BY <1>1, <1>5 DEF WriteFull, Inside
  <2>2. CASE (~readopen \/ p \in killed) /\ Return(p) /\ UNCHANGED asleep
    <3>1. killed \cap Writers # {} \/ \A q \in asleep : pc[q] # "rsleep"
      BY <2>1, <2>2 DEF PipeInv, EndsOpen, Typed
    <3>2. Covered(p)'
      BY <2>2 DEF Covered, Typed
    <3> QED
      BY <1>2, <2>1, <2>2, <3>1, <3>2, HolderMoves
  <2>3. CASE /\ readopen /\ asleep' = asleep \ SleepersOn("rsleep")
             /\ Goto(p, "wsleep") /\ UNCHANGED lock
    <3>1. Full' /\ readopen' /\ pc'[p] = "wsleep" /\ p \notin asleep'
      BY <2>1, <2>3 DEF pipe, Full, Typed
    <3>2. Covered(p)'
      BY <3>1 DEF Covered
    <3> QED
      BY <1>2, <2>1, <2>3, <3>2, HolderMoves DEF SleepersOn
  <2> QED
    BY <1>5, <2>2, <2>3 DEF WriteFull
<1>6. CASE \E b \in Bytes : WriteByte(p, b)
  <2>1. /\ pc[p] = "wloop" /\ lock = {p} /\ ~Full
        /\ UNCHANGED <<readopen, writeopen, lock, pc, asleep, killed>>
    BY <1>1, <1>6 DEF WriteByte, Inside
  <2>2. ASSUME NEW q \in Procs PROVE Covered(q)'
    <3>1. Covered(q)
      BY <2>2 DEF PipeInv, SleepersCovered, Covered
    <3> QED
      BY <2>1, <3>1 DEF Covered
  <2> QED
    BY <2>2 DEF SleepersCovered, Covered
<1>7. CASE ReadByte(p)
  <2>1. /\ pc[p] = "rcopy" /\ lock = {p} /\ ~Empty
        /\ UNCHANGED <<readopen, writeopen, lock, pc, asleep, killed>>
    BY <1>1, <1>7 DEF ReadByte, Inside
  <2>2. ASSUME NEW q \in Procs PROVE Covered(q)'
    <3>1. Covered(q)
      BY <2>2 DEF PipeInv, SleepersCovered, Covered
    <3> QED
      BY <2>1, <3>1 DEF Covered
  <2> QED
    BY <2>2 DEF SleepersCovered, Covered
<1>8. CASE ReadEmpty(p)
  <2>1. /\ pc[p] = "rloop" /\ lock = {p} /\ p \notin asleep /\ Empty /\ writeopen
        /\ UNCHANGED <<pipe, killed, asleep>>
        /\ Return(p) \/ (Goto(p, "rsleep") /\ UNCHANGED lock)
    BY <1>1, <1>8 DEF ReadEmpty, Inside, MustWait
  <2>2. Covered(p)'
    BY <2>1 DEF Covered, Typed, pipe, Empty
  <2> QED
    BY <1>2, <2>1, <2>2, HolderMoves
<1>9. CASE ReadStart(p)
  <2>1. Covered(p)'
    BY <1>9 DEF ReadStart, Covered, Typed
  <2> QED
    BY <1>1, <1>2, <1>9, <2>1, HolderMoves DEF ReadStart, Inside
<1>10. CASE ReadDone(p)
  <2>1. Covered(p)'
    BY <1>10 DEF ReadDone, Covered, Typed
  <2> QED
    BY <1>1, <1>2, <1>10, <2>1, HolderMoves DEF ReadDone, Inside, ReadWakeups, SleepersOn
<1>11. CASE Sleep(p)
  <2>1. /\ pc[p] \in Waits /\ p \in lock /\ lock' = {} /\ asleep' = asleep \cup {p}
        /\ UNCHANGED <<pipe, killed, pc>>
    BY <1>11 DEF Sleep, Waits
  <2>2. Covered(p)'
    BY <1>2, <2>1 DEF Covered, pipe, Full, Empty
  <2>3. pc' = [pc EXCEPT ![p] = pc[p]] /\ pc[p] \in Points
    BY <2>1 DEF Typed
  <2> QED
    BY <1>2, <2>1, <2>2, <2>3, HolderMoves DEF Waits
<1>12. CASE Woken(p)
  BY <1>2, <1>12, OutsiderMoves DEF Woken, Inside, Waits
<1>13. CASE \E n \in 0 .. MaxCount : CallWrite(p, n) \/ CallRead(p, n)
  <2>1. p \notin lock
    BY <1>2, <1>13 DEF LockHeld, CallWrite, CallRead, Inside, Waits
  <2> QED
    BY <1>2, <1>13, <2>1, OutsiderMoves DEF CallWrite, CallRead, Inside, Waits
<1> QED
  BY <1>3, <1>4, <1>5, <1>6, <1>7, <1>8, <1>9, <1>10, <1>11, <1>12, <1>13 DEF Step

(* pipeclose by a process outside a call: the last descriptor of an end    *)
(* wakes those who sleep for the other.                                    *)
LEMMA CloseStep ==
  ASSUME Typed, PipeInv, NEW p \in Procs, NEW w \in BOOLEAN,
         pc[p] = "user", CloseEnd(p, w), UNCHANGED pc
  PROVE  PipeInv'
<1>1. lock = {} /\ UNCHANGED <<lock, killed, nread, nwrite>>
  BY DEF CloseEnd, LockFree
<1>2. asleep' \subseteq asleep
  BY DEF CloseEnd
<1>3. /\ wends' \subseteq wends /\ rends' \subseteq rends
      /\ wends \ wends' \subseteq {p} /\ rends \ rends' \subseteq {p}
  BY DEF CloseEnd
<1>4. /\ writeopen' <=> writeopen /\ wends' # {}
      /\ readopen' <=> readopen /\ rends' # {}
      /\ freed' <=> ~writeopen' /\ ~readopen'
  BY Zenon DEF CloseEnd, BothClosed
<1>5. /\ wends' # wends /\ wends' = {} => asleep' = asleep \ SleepersOn("rsleep")
      /\ rends' # rends /\ rends' = {} => asleep' = asleep \ SleepersOn("wsleep")
  BY DEF CloseEnd, CloseWakeups
<1>6. LockHeld'
  BY <1>1, <1>2 DEF PipeInv, LockHeld
<1>7. EndsOpen'
  <2>1. /\ writeopen' <=> wends' # {}
        /\ readopen' <=> rends' # {}
    BY <1>3, <1>4 DEF PipeInv, EndsOpen
  <2>2. \A q \in Procs : /\ pc[q] \in {"wlock", "wloop", "wsleep"} => q \in wends'
                         /\ pc[q] \in {"rlock", "rloop", "rcopy", "rsleep"} => q \in rends'
    BY <1>3 DEF PipeInv, EndsOpen
  <2> QED
    BY <1>3, <1>4, <2>1, <2>2 DEF PipeInv, EndsOpen
<1>8. SleepersCovered'
  <2>1. ASSUME NEW q \in Procs PROVE Covered(q)'
    <3>1. Covered(q)
      BY <2>1 DEF PipeInv, SleepersCovered, Covered
    <3>2. Full' = Full /\ Empty' = Empty
      BY <1>1 DEF Full, Empty
    <3>3. pc[q] = "wsleep" /\ q \in asleep' => readopen'
      BY <1>2, <1>3, <1>4, <1>5, <3>1, <1>1 DEF Covered, SleepersOn, PipeInv, EndsOpen
    <3>4. pc[q] = "rsleep" /\ q \in asleep' => writeopen'
      BY <1>2, <1>3, <1>4, <1>5, <3>1, <1>1 DEF Covered, SleepersOn, PipeInv, EndsOpen
    <3> QED
      BY <1>1, <1>2, <3>1, <3>2, <3>3, <3>4 DEF Covered
  <2> QED
    BY <2>1 DEF SleepersCovered, Covered
<1> QED
  BY <1>6, <1>7, <1>8 DEF PipeInv

(* kill at any moment: it only takes a process out of its sleep.           *)
LEMMA KillStep ==
  ASSUME Typed, PipeInv, NEW p \in Procs, Kill(p)
  PROVE  PipeInv'
<1>1. /\ UNCHANGED <<pipe, freed, lock, wends, rends, pc>>
      /\ killed \subseteq killed' /\ asleep' \subseteq asleep
  BY DEF Kill
<1>2. LockHeld'
  BY <1>1 DEF PipeInv, LockHeld
<1>3. EndsOpen'
  BY <1>1 DEF PipeInv, EndsOpen, pipe
<1>4. ASSUME NEW q \in Procs PROVE Covered(q)'
  <2>1. Covered(q)
    BY <1>4 DEF PipeInv, SleepersCovered, Covered
  <2>2. UNCHANGED <<Full, Empty, readopen, writeopen>>
    BY <1>1 DEF pipe, Full, Empty
  <2> QED
    BY <1>1, <2>1, <2>2 DEF Covered
<1> QED
  BY <1>2, <1>3, <1>4 DEF PipeInv, SleepersCovered, Covered

(* A killed process that has closed everything leaves.                     *)
LEMMA ExitStep ==
  ASSUME Typed, PipeInv, NEW p \in Procs, ExitClose(p)
  PROVE  PipeInv'
<1>1. CASE \E w \in BOOLEAN : CloseEnd(p, w) /\ UNCHANGED pc
  BY <1>1, CloseStep DEF ExitClose, At
<1>2. CASE Goto(p, "exit") /\ UNCHANGED <<pipe, freed, lock, wends, rends, todo, asleep, killed>>
  <2>1. pc[p] = "user" /\ p \notin asleep /\ p \notin lock
    BY DEF ExitClose, At, PipeInv, LockHeld, Inside, Waits
  <2>2. LockHeld'
    BY <1>2, <2>1, LockKept DEF PipeInv, Goto, Points, Inside
  <2>3. EndsOpen'
    BY <1>2, <2>1 DEF PipeInv, EndsOpen, Goto, Typed, pipe
  <2>4. SleepersCovered'
    BY <1>2, <2>1, OutsiderMoves DEF PipeInv, Goto, Points, Inside, Waits
  <2> QED
    BY <2>2, <2>3, <2>4 DEF PipeInv
<1> QED
  BY <1>1, <1>2 DEF ExitClose

(* The invariant of the pipe holds always.                                 *)
THEOREM PipeSafety == Spec => [](Typed /\ PipeInv)
<1>1. Init => Typed /\ PipeInv
  <2> SUFFICES ASSUME Init PROVE Typed /\ PipeInv
    OBVIOUS
  <2>1. Typed
    BY PipeAssumption DEF Init, Typed, Points
  <2>2. LockHeld
    BY DEF Init, LockHeld, Inside
  <2>3. EndsOpen
    BY PipeAssumption DEF Init, EndsOpen
  <2>4. SleepersCovered
    BY DEF Init, SleepersCovered
  <2> QED
    BY <2>1, <2>2, <2>3, <2>4 DEF PipeInv
<1>2. Typed /\ PipeInv /\ [Next]_vars => PipeInv'
  <2> SUFFICES ASSUME Typed, PipeInv, [Next]_vars PROVE PipeInv'
    OBVIOUS
  <2>1. CASE UNCHANGED vars
    <3>1. LockHeld' /\ EndsOpen'
      BY <2>1 DEF vars, pipe, PipeInv, LockHeld, EndsOpen
    <3>2. SleepersCovered'
      BY <2>1 DEF vars, pipe, PipeInv, SleepersCovered, Full, Empty
    <3> QED
      BY <3>1, <3>2 DEF PipeInv
  <2>2. ASSUME NEW p \in Procs, Step(p) PROVE PipeInv'
    BY <2>2, LockStep, EndsStep, CoveredStep DEF PipeInv
  <2>3. ASSUME NEW p \in Procs, NEW w \in BOOLEAN, Close(p, w) PROVE PipeInv'
    BY <2>3, CloseStep DEF Close, At
  <2> QED
    BY <2>1, <2>2, <2>3, KillStep, ExitStep DEF Next, KernelStep, Step, Finished
<1> QED
  BY <1>1, <1>2, TypedStep, PTL DEF Spec

(* pipewrite, piperead, pipeclose: nobody is left asleep without a reason, *)
(* for any number of readers and writers and any size of the pipe.         *)
THEOREM WakeupsKept == Spec => []NoLostPipeWakeup
<1>1. Typed /\ PipeInv => NoLostPipeWakeup
  BY DEF Typed, PipeInv, SleepersCovered, NoLostPipeWakeup, SleepersOn
<1> QED
  BY <1>1, PipeSafety, PTL

(* pipeclose: the page is freed exactly when no descriptor is left, and    *)
(* not under a thread in the pipe.                                         *)
THEOREM PageFreedOnce == Spec => []FreedWhenUnused
<1>1. Typed /\ PipeInv => FreedWhenUnused
  <2> SUFFICES ASSUME Typed, PipeInv PROVE FreedWhenUnused
    OBVIOUS
  <2>1. freed <=> wends \cup rends = {}
    BY DEF PipeInv, EndsOpen
  <2>2. ASSUME NEW p \in Procs, wends \cup rends = {} PROVE pc[p] \in {"user", "exit"} /\ p \notin lock
    BY <2>2 DEF PipeInv, EndsOpen, LockHeld, Typed, Points, Inside, Waits
  <2> QED
    BY <2>1, <2>2 DEF FreedWhenUnused, Typed
<1> QED
  BY <1>1, PipeSafety, PTL
-----------------------------------------------------------------------------
(* Division with a remainder, for the counters and the places in the ring. *)
LEMMA Remainder ==
  ASSUME NEW S \in Nat \ {0}, NEW q \in Int, NEW r \in 0 .. (S - 1)
  PROVE  (S * q + r) % S = r
  OBVIOUS

(* A number is its quotient times the divisor, and the remainder.          *)
LEMMA Division ==
  ASSUME NEW S \in Nat \ {0}, NEW a \in Int
  PROVE  \E q \in Int, r \in 0 .. (S - 1) : a = S * q + r /\ r = a % S
<1>1. a % S \in 0 .. (S - 1) /\ a \div S \in Int
  OBVIOUS
<1>2. a = S * (a \div S) + (a % S)
  OBVIOUS
<1> QED
  BY <1>1, <1>2

(* A multiple of the modulus does not change the remainder.                *)
LEMMA Shifted ==
  ASSUME NEW S \in Nat \ {0}, NEW a \in Int, NEW k \in Int
  PROVE  (a + S * k) % S = a % S
<1>1. PICK q \in Int, r \in 0 .. (S - 1) : a = S * q + r /\ r = a % S
  BY Division
<1>2. a + S * k = S * (q + k) + r /\ q + k \in Int
  BY <1>1
<1> QED
  BY <1>1, <1>2, Remainder

(* Numbers less than S apart have different remainders.                    *)
LEMMA Apart ==
  ASSUME NEW S \in Nat \ {0}, NEW a \in Int, NEW b \in Int, a < b, b - a < S
  PROVE  a % S # b % S
<1>1. PICK q \in Int, r \in 0 .. (S - 1) : a = S * q + r /\ r = a % S
  BY Division
<1>2. PICK k \in Int, s \in 0 .. (S - 1) : b = S * k + s /\ s = b % S
  BY Division
<1> SUFFICES ASSUME r = s PROVE FALSE
  BY <1>1, <1>2
<1>3. b - a = S * (k - q)
  <2>1. a = S * q + r /\ b = S * k + r
    BY <1>1, <1>2
  <2> HIDE <1>1, <1>2
  <2> QED
    BY <2>1
<1>4. k - q >= 1 => S * (k - q) >= S
  OBVIOUS
<1>5. k - q <= 0 => S * (k - q) <= 0
  OBVIOUS
<1> QED
  BY <1>3, <1>4, <1>5

(* Bytes in the ring.                                                      *)
Count(n, w) == (w - n) % CountMod

(* The counters wrap, their difference does not.                           *)
LEMMA Counting ==
  ASSUME NEW n \in 0 .. (CountMod - 1), NEW w \in 0 .. (CountMod - 1)
  PROVE  /\ Count(n, w) = IF n <= w THEN w - n ELSE w - n + CountMod
         /\ (w + 1) % CountMod = IF w + 1 = CountMod THEN 0 ELSE w + 1
         /\ (n + PIPESIZE) % CountMod =
              IF n + PIPESIZE < CountMod THEN n + PIPESIZE ELSE n + PIPESIZE - CountMod
<1> USE PipeAssumption
<1> DEFINE M == CountMod
<1>1. M \in Nat \ {0}
  OBVIOUS
<1> HIDE DEF M
<1>2. \A a \in Int : /\ a \in 0 .. (M - 1) => a % M = a
                     /\ a \in M .. (2 * M - 1) => a % M = a - M
                     /\ a \in (-M) .. (-1) => a % M = a + M
  <2> TAKE a \in Int
  <2>1. a \in 0 .. (M - 1) => a % M = a
    BY <1>1, Remainder
  <2>2. a \in M .. (2 * M - 1) => a - M \in 0 .. (M - 1) /\ (M * 1 + (a - M)) % M = a - M
    BY <1>1, Remainder
  <2>3. a \in (-M) .. (-1) => a + M \in 0 .. (M - 1) /\ (M * (-1) + (a + M)) % M = a + M
    BY <1>1, Remainder
  <2> QED
    BY <1>1, <2>1, <2>2, <2>3
<1>3. n \in 0 .. (M - 1) /\ w \in 0 .. (M - 1) /\ PIPESIZE \in 0 .. (M - 1)
  BY DEF M
<1>4. (w - n) % M = IF n <= w THEN w - n ELSE w - n + M
  <2>1. CASE n <= w
    <3>1. w - n \in Int /\ w - n \in 0 .. (M - 1)
      BY ONLY <1>1, <1>3, <2>1
    <3> QED
      BY ONLY <1>2, <2>1, <3>1
  <2>2. CASE ~(n <= w)
    <3>1. w - n \in Int /\ w - n \in (-M) .. (-1)
      BY ONLY <1>1, <1>3, <2>2
    <3> QED
      BY ONLY <1>2, <2>2, <3>1
  <2> QED
    BY <2>1, <2>2
<1>5. ASSUME NEW k \in 0 .. (2 * M - 1)
      PROVE  k % M = IF k < M THEN k ELSE k - M
  <2>1. k \in Int /\ (k < M => k \in 0 .. (M - 1)) /\ (~(k < M) => k \in M .. (2 * M - 1))
    BY ONLY <1>1, <1>5
  <2> QED
    BY ONLY <1>2, <2>1
<1>6. /\ w + 1 \in 0 .. (2 * M - 1) /\ n + PIPESIZE \in 0 .. (2 * M - 1)
      /\ IF w + 1 < M THEN w + 1 # M ELSE w + 1 = M /\ w + 1 - M = 0
  BY ONLY <1>1, <1>3
<1>7. (w + 1) % M = IF w + 1 = M THEN 0 ELSE w + 1
  BY ONLY <1>1, <1>3, <1>5, <1>6
<1>8. (n + PIPESIZE) % M = IF n + PIPESIZE < M THEN n + PIPESIZE ELSE n + PIPESIZE - M
  BY ONLY <1>1, <1>3, <1>5, <1>6
<1> QED
  BY ONLY <1>4, <1>7, <1>8 DEF M, Count

(* The ring: the counters in range, at most PIPESIZE bytes between them.   *)
Ring ==
  /\ nread \in 0 .. (CountMod - 1) /\ nwrite \in 0 .. (CountMod - 1)
  /\ data \in [0 .. (PIPESIZE - 1) -> Bytes]
  /\ Count(nread, nwrite) <= PIPESIZE

(* The h bytes of ring d from number n on, the oldest first.               *)
Window(d, n, h) == [i \in 1 .. h |-> d[(n + i - 1) % PIPESIZE]]

(* The place of a byte does not change when its number wraps, because      *)
(* PIPESIZE divides the range of the counters.                             *)
LEMMA Places ==
  ASSUME NEW a \in Int
  PROVE  /\ a % PIPESIZE \in 0 .. (PIPESIZE - 1)
         /\ (a + CountMod) % PIPESIZE = a % PIPESIZE
         /\ (a - CountMod) % PIPESIZE = a % PIPESIZE
<1>1. PIPESIZE \in Nat \ {0} /\ CountMod \in Nat /\ CountMod % PIPESIZE = 0
  BY PipeAssumption
<1>2. PICK k \in Int : CountMod = PIPESIZE * k
  <2>1. PICK q \in Int, r \in 0 .. (PIPESIZE - 1) : CountMod = PIPESIZE * q + r /\ r = CountMod % PIPESIZE
    BY <1>1, Division
  <2>2. CountMod = PIPESIZE * q
    BY ONLY <1>1, <2>1
  <2> QED
    BY <2>2
<1>3. (a + PIPESIZE * k) % PIPESIZE = a % PIPESIZE
  BY ONLY <1>1, Shifted
<1>4. (a + PIPESIZE * (-k)) % PIPESIZE = a % PIPESIZE
  BY ONLY <1>1, Shifted, -k \in Int
<1>5. PIPESIZE * (-k) = -(PIPESIZE * k)
  BY ONLY <1>1
<1>6. a + PIPESIZE * (-k) = a - CountMod
  BY ONLY <1>1, <1>2, <1>5
<1>7. PICK q \in Int, r \in 0 .. (PIPESIZE - 1) : a = PIPESIZE * q + r /\ r = a % PIPESIZE
  BY <1>1, Division
<1> QED
  BY ONLY <1>2, <1>3, <1>4, <1>6, <1>7

(* What a full and an empty ring hold, and where the next byte goes.       *)
LEMMA RingEnds ==
  ASSUME Ring
  PROVE  /\ Count(nread, nwrite) \in 0 .. PIPESIZE
         /\ Full <=> Count(nread, nwrite) = PIPESIZE
         /\ Empty <=> Count(nread, nwrite) = 0
         /\ (nread + Count(nread, nwrite)) % PIPESIZE = nwrite % PIPESIZE
<1>1. /\ PIPESIZE \in Nat \ {0} /\ CountMod \in Nat /\ CountMod > PIPESIZE
      /\ nread \in 0 .. (CountMod - 1) /\ nwrite \in 0 .. (CountMod - 1)
      /\ Count(nread, nwrite) <= PIPESIZE
  BY PipeAssumption DEF Ring
<1>2. /\ Count(nread, nwrite) = IF nread <= nwrite THEN nwrite - nread ELSE nwrite - nread + CountMod
      /\ (nread + PIPESIZE) % CountMod = IF nread + PIPESIZE < CountMod
                                           THEN nread + PIPESIZE ELSE nread + PIPESIZE - CountMod
  BY <1>1, Counting
<1>3. Full <=> nwrite = IF nread + PIPESIZE < CountMod
                          THEN nread + PIPESIZE ELSE nread + PIPESIZE - CountMod
  BY <1>2 DEF Full
<1>4. nread + Count(nread, nwrite) \in {nwrite, nwrite + CountMod}
  BY ONLY <1>1, <1>2
<1>5. (nwrite + CountMod) % PIPESIZE = nwrite % PIPESIZE
  BY <1>1, Places
<1> QED
  BY ONLY <1>1, <1>2, <1>3, <1>4, <1>5 DEF Empty

(* A window is the sequence of its bytes.                                  *)
LEMMA Windows ==
  ASSUME NEW d \in [0 .. (PIPESIZE - 1) -> Bytes], NEW n \in Nat, NEW h \in Nat
  PROVE  /\ Window(d, n, h) \in Seq(Bytes) /\ Len(Window(d, n, h)) = h
         /\ \A i \in 1 .. h : Window(d, n, h)[i] = d[(n + i - 1) % PIPESIZE]
<1>1. ASSUME NEW i \in 1 .. h PROVE d[(n + i - 1) % PIPESIZE] \in Bytes
  <2>1. n + i - 1 \in Int
    OBVIOUS
  <2>2. (n + i - 1) % PIPESIZE \in 0 .. (PIPESIZE - 1)
    BY ONLY <2>1, Places
  <2> QED
    BY ONLY <2>2, d \in [0 .. (PIPESIZE - 1) -> Bytes]
<1>2. Window(d, n, h) \in [1 .. h -> Bytes]
  BY ONLY <1>1, Zenon DEF Window
<1>3. Window(d, n, h) \in Seq(Bytes) /\ Len(Window(d, n, h)) = h
  BY ONLY <1>2, h \in Nat
<1>4. \A i \in 1 .. h : Window(d, n, h)[i] = d[(n + i - 1) % PIPESIZE]
  BY ONLY Zenon DEF Window
<1> QED
  BY <1>3, <1>4

(* data[nwrite++ % PIPESIZE] = b puts b behind the bytes that are there.   *)
LEMMA PutByte ==
  ASSUME Ring, ~Full, NEW b \in Bytes, UNCHANGED nread,
         data' = [data EXCEPT ![nwrite % PIPESIZE] = b],
         nwrite' = (nwrite + 1) % CountMod
  PROVE  /\ Ring' /\ Count(nread, nwrite) < PIPESIZE
         /\ Window(data', nread, Count(nread, nwrite')) =
              Append(Window(data, nread, Count(nread, nwrite)), b)
<1> DEFINE h == Count(nread, nwrite)
<1>1. h \in 0 .. PIPESIZE /\ h # PIPESIZE /\ (nread + h) % PIPESIZE = nwrite % PIPESIZE
  BY RingEnds
<1>2. /\ PIPESIZE \in Nat \ {0} /\ CountMod \in Nat /\ CountMod > PIPESIZE
      /\ nread \in 0 .. (CountMod - 1) /\ nwrite \in 0 .. (CountMod - 1)
      /\ data \in [0 .. (PIPESIZE - 1) -> Bytes]
  BY PipeAssumption DEF Ring
<1>3. /\ h = IF nread <= nwrite THEN nwrite - nread ELSE nwrite - nread + CountMod
      /\ nwrite' = IF nwrite + 1 = CountMod THEN 0 ELSE nwrite + 1
  BY <1>2, Counting
<1> HIDE DEF h
<1>4. nwrite' \in 0 .. (CountMod - 1)
  BY ONLY <1>2, <1>3
<1>5. Count(nread, nwrite') = IF nread <= nwrite' THEN nwrite' - nread ELSE nwrite' - nread + CountMod
  BY <1>2, <1>4, Counting
<1>6. Count(nread, nwrite') = h + 1
  BY ONLY <1>1, <1>2, <1>3, <1>4, <1>5
<1>7. nwrite \in Int /\ nwrite % PIPESIZE \in 0 .. (PIPESIZE - 1)
  <2>1. nwrite \in Int
    BY ONLY <1>2
  <2> QED
    BY ONLY <2>1, Places
<1>8. data' \in [0 .. (PIPESIZE - 1) -> Bytes]
  BY ONLY <1>2, <1>7, data' = [data EXCEPT ![nwrite % PIPESIZE] = b], b \in Bytes
<1>9. Ring'
  <2>1. Count(nread, nwrite)' = h + 1
    BY <1>6 DEF Count
  <2>2. nread' \in 0 .. (CountMod - 1) /\ h + 1 <= PIPESIZE
    BY <1>1, <1>2
  <2> QED
    BY ONLY <1>4, <1>8, <2>1, <2>2 DEF Ring
<1>10. \A i \in 1 .. h : data'[(nread + i - 1) % PIPESIZE] = data[(nread + i - 1) % PIPESIZE]
  <2> TAKE i \in 1 .. h
  <2>1. nread + i - 1 \in Int /\ nread + h \in Int /\ nread + i - 1 < nread + h
        /\ (nread + h) - (nread + i - 1) < PIPESIZE
    BY ONLY <1>1, <1>2, i \in 1 .. h
  <2>2. (nread + i - 1) % PIPESIZE # (nread + h) % PIPESIZE
    BY ONLY <1>2, <2>1, Apart
  <2>3. (nread + i - 1) % PIPESIZE \in 0 .. (PIPESIZE - 1)
    BY ONLY <2>1, Places
  <2> QED
    BY ONLY <1>1, <1>2, <2>2, <2>3, data' = [data EXCEPT ![nwrite % PIPESIZE] = b]
<1>11. data'[(nread + (h + 1) - 1) % PIPESIZE] = b
  <2>1. nread + (h + 1) - 1 = nread + h
    BY ONLY <1>1, <1>2
  <2> QED
    BY ONLY <1>1, <1>2, <1>7, <2>1, data' = [data EXCEPT ![nwrite % PIPESIZE] = b]
<1>12. Window(data', nread, h + 1) = Append(Window(data, nread, h), b)
  <2> DEFINE s == Window(data, nread, h)
             t == Window(data', nread, h + 1)
             a == Append(s, b)
  <2>1. nread \in Nat /\ h \in Nat /\ h + 1 \in Nat
    BY ONLY <1>1, <1>2
  <2>2. /\ s \in Seq(Bytes) /\ Len(s) = h
        /\ \A i \in 1 .. h : s[i] = data[(nread + i - 1) % PIPESIZE]
    BY <1>2, <2>1, Windows
  <2>3. /\ t \in Seq(Bytes) /\ Len(t) = h + 1
        /\ \A i \in 1 .. (h + 1) : t[i] = data'[(nread + i - 1) % PIPESIZE]
    BY <1>8, <2>1, Windows
  <2> HIDE DEF s, t
  <2>4. /\ a \in Seq(Bytes) /\ Len(a) = h + 1 /\ a[h + 1] = b
        /\ \A i \in 1 .. h : a[i] = s[i]
    BY <2>2
  <2>5. ASSUME NEW i \in 1 .. (h + 1) PROVE t[i] = a[i]
    <3>1. CASE i \in 1 .. h
      BY ONLY <1>10, <2>2, <2>3, <2>4, <2>5, <3>1
    <3>2. CASE i = h + 1
      BY ONLY <1>11, <2>3, <2>4, <2>5, <3>2
    <3>3. i \in 1 .. h \/ i = h + 1
      BY ONLY <2>1, <2>5
    <3> QED
      BY <3>1, <3>2, <3>3
  <2> HIDE DEF a
  <2>6. t = a
    BY ONLY <2>3, <2>4, <2>5
  <2> QED
    BY <2>6 DEF s, t, a
<1>13. h < PIPESIZE
  BY ONLY <1>1, <1>2
<1> QED
  BY ONLY <1>6, <1>9, <1>12, <1>13 DEF h

(* data[nread++ % PIPESIZE] takes the oldest byte.                         *)
LEMMA GetByte ==
  ASSUME Ring, ~Empty, UNCHANGED <<data, nwrite>>, nread' = (nread + 1) % CountMod
  PROVE  /\ Ring'
         /\ Window(data, nread, Count(nread, nwrite)) # <<>>
         /\ Window(data, nread', Count(nread', nwrite)) =
              Tail(Window(data, nread, Count(nread, nwrite)))
<1> DEFINE h == Count(nread, nwrite)
<1>1. h \in 0 .. PIPESIZE /\ h # 0
  BY RingEnds
<1>2. /\ PIPESIZE \in Nat \ {0} /\ CountMod \in Nat /\ CountMod > PIPESIZE
      /\ nread \in 0 .. (CountMod - 1) /\ nwrite \in 0 .. (CountMod - 1)
      /\ data \in [0 .. (PIPESIZE - 1) -> Bytes]
  BY PipeAssumption DEF Ring
<1>3. /\ h = IF nread <= nwrite THEN nwrite - nread ELSE nwrite - nread + CountMod
      /\ nread' = IF nread + 1 = CountMod THEN 0 ELSE nread + 1
  BY <1>2, Counting
<1> HIDE DEF h
<1>4. nread' \in 0 .. (CountMod - 1)
  BY ONLY <1>2, <1>3
<1>5. Count(nread', nwrite) = IF nread' <= nwrite THEN nwrite - nread' ELSE nwrite - nread' + CountMod
  BY <1>2, <1>4, Counting
<1>6. Count(nread', nwrite) = h - 1
  BY ONLY <1>1, <1>2, <1>3, <1>4, <1>5
<1>7. Ring'
  <2>1. Count(nread, nwrite)' = h - 1
    BY <1>6 DEF Count
  <2>2. h - 1 <= PIPESIZE
    BY ONLY <1>1, <1>2
  <2>3. nwrite' \in 0 .. (CountMod - 1) /\ data' \in [0 .. (PIPESIZE - 1) -> Bytes]
    BY <1>2
  <2> QED
    BY ONLY <1>4, <2>1, <2>2, <2>3 DEF Ring
<1>8. ASSUME NEW i \in 1 .. (h - 1)
      PROVE  (nread' + i - 1) % PIPESIZE = (nread + (i + 1) - 1) % PIPESIZE
  <2>1. nread + i \in Int /\ nread + (i + 1) - 1 = nread + i
    BY ONLY <1>1, <1>2, <1>8
  <2>2. nread' + i - 1 = nread + i \/ nread' + i - 1 = (nread + i) - CountMod
    BY ONLY <1>2, <1>3, <1>8
  <2>3. ((nread + i) - CountMod) % PIPESIZE = (nread + i) % PIPESIZE
    BY ONLY <2>1, Places
  <2> QED
    BY ONLY <2>1, <2>2, <2>3
<1>9. Window(data, nread, h) # <<>> /\ Window(data, nread', h - 1) = Tail(Window(data, nread, h))
  <2> DEFINE s == Window(data, nread, h)
             t == Window(data, nread', h - 1)
             a == Tail(s)
  <2>1. nread \in Nat /\ nread' \in Nat /\ h \in Nat /\ h - 1 \in Nat
    BY ONLY <1>1, <1>2, <1>4
  <2>2. /\ s \in Seq(Bytes) /\ Len(s) = h
        /\ \A i \in 1 .. h : s[i] = data[(nread + i - 1) % PIPESIZE]
    BY <1>2, <2>1, Windows
  <2>3. /\ t \in Seq(Bytes) /\ Len(t) = h - 1
        /\ \A i \in 1 .. (h - 1) : t[i] = data[(nread' + i - 1) % PIPESIZE]
    BY <1>2, <2>1, Windows
  <2> HIDE DEF s, t
  <2>4. s # <<>>
    BY ONLY <1>1, <2>2
  <2>5. /\ a \in Seq(Bytes) /\ Len(a) = h - 1
        /\ \A i \in 1 .. (h - 1) : a[i] = s[i + 1]
    <3>1. /\ a \in Seq(Bytes) /\ Len(a) = Len(s) - 1
          /\ \A i \in 1 .. Len(a) : a[i] = s[i + 1]
      BY <2>2, <2>4
    <3> QED
      BY <2>2, <3>1
  <2> HIDE DEF a
  <2>6. ASSUME NEW i \in 1 .. (h - 1) PROVE t[i] = a[i]
    <3>1. i + 1 \in 1 .. h
      BY ONLY <2>1, <2>6
    <3>2. s[i + 1] = data[(nread + (i + 1) - 1) % PIPESIZE]
      BY ONLY <2>2, <3>1
    <3> QED
      BY ONLY <1>8, <2>3, <2>5, <2>6, <3>2
  <2>7. t = a
    BY ONLY <2>3, <2>5, <2>6
  <2> QED
    BY <2>4, <2>7 DEF s, t, a
<1> QED
  BY ONLY <1>6, <1>7, <1>9 DEF h

(* Only WriteByte and ReadByte touch the bytes and their counters.         *)
LEMMA RingStep ==
  ASSUME [Next]_vars
  PROVE  \/ UNCHANGED <<data, nread, nwrite>>
         \/ \E p \in Procs : ReadByte(p) \/ \E b \in Bytes : WriteByte(p, b)
<1> USE DEF pipe, vars
<1>1. ASSUME NEW p \in Procs, \E w \in BOOLEAN : Close(p, w) PROVE UNCHANGED <<data, nread, nwrite>>
  BY <1>1 DEF Close, CloseEnd
<1>2. ASSUME NEW p \in Procs, ExitClose(p) PROVE UNCHANGED <<data, nread, nwrite>>
  BY <1>2 DEF ExitClose, CloseEnd
<1>3. ASSUME NEW p \in Procs, Kill(p) \/ (\E n \in 0 .. MaxCount : CallWrite(p, n) \/ CallRead(p, n))
      PROVE  UNCHANGED <<data, nread, nwrite>>
  BY <1>3 DEF Kill, CallWrite, CallRead
<1>4. ASSUME NEW p \in Procs,
             \/ Acquire(p) \/ WriteDone(p) \/ WriteFull(p) \/ ReadEmpty(p) \/ ReadStart(p)
             \/ ReadDone(p) \/ Sleep(p) \/ Woken(p)
      PROVE  UNCHANGED <<data, nread, nwrite>>
  BY <1>4 DEF Acquire, WriteDone, WriteFull, ReadEmpty, ReadStart, ReadDone, Sleep, Woken
<1> QED
  BY <1>1, <1>2, <1>3, <1>4 DEF Next, KernelStep, Finished

(* pipewrite and piperead: the ring of PIPESIZE bytes, with counters that  *)
(* wrap, is a FIFO queue of at most PIPESIZE bytes, for any size that      *)
(* divides the range of the counters.                                      *)
THEOREM QueueRefined == Spec => ImplementsByteQueue
<1>1. Init => Ring /\ Queue!Init
  <2> SUFFICES ASSUME Init PROVE Ring /\ Queue!Init
    OBVIOUS
  <2>1. Count(nread, nwrite) = 0 /\ nread \in 0 .. (CountMod - 1) /\ nwrite \in 0 .. (CountMod - 1)
    BY PipeAssumption, Counting DEF Init
  <2>2. Ring
    BY <2>1, PipeAssumption DEF Init, Ring
  <2>3. (nwrite - nread) % CountMod = 0
    BY <2>1 DEF Count
  <2>4. Queue!Init
    BY ONLY <2>3 DEF Queue!Init, Queued
  <2> QED
    BY <2>2, <2>4
<1>2. Ring /\ [Next]_vars => Ring' /\ [Queue!Next]_Queued
  <2> SUFFICES ASSUME Ring, [Next]_vars PROVE Ring' /\ [Queue!Next]_Queued
    OBVIOUS
  <2>1. CASE UNCHANGED <<data, nread, nwrite>>
    BY <2>1 DEF Ring, Count, Queued
  <2>2. Queued = Window(data, nread, Count(nread, nwrite))
    BY DEF Queued, Window, Count
  <2>3. Queued' = Window(data', nread', Count(nread', nwrite'))
    BY DEF Queued, Window, Count
  <2>4. ASSUME NEW p \in Procs, NEW b \in Bytes, WriteByte(p, b) PROVE Ring' /\ Queue!Put(b)
    <3>1. /\ Ring' /\ Count(nread, nwrite) < PIPESIZE
          /\ Window(data', nread, Count(nread, nwrite')) = Append(Queued, b)
      BY <2>2, <2>4, PutByte DEF WriteByte
    <3>2. Len(Queued) = Count(nread, nwrite)
      <4>1. nread \in Nat /\ Count(nread, nwrite) \in Nat /\ data \in [0 .. (PIPESIZE - 1) -> Bytes]
        BY RingEnds DEF Ring
      <4> QED
        BY ONLY <2>2, <4>1, Windows
    <3>3. nread' = nread
      BY <2>4 DEF WriteByte
    <3> QED
      BY ONLY <2>3, <3>1, <3>2, <3>3 DEF Queue!Put
  <2>5. ASSUME NEW p \in Procs, ReadByte(p) PROVE Ring' /\ Queue!Get
    <3>1. /\ Ring' /\ Queued # <<>>
          /\ Window(data, nread', Count(nread', nwrite)) = Tail(Queued)
      BY <2>2, <2>5, GetByte DEF ReadByte
    <3>2. UNCHANGED <<data, nwrite>>
      BY <2>5 DEF ReadByte
    <3> QED
      BY ONLY <2>3, <3>1, <3>2 DEF Queue!Get
  <2> QED
    BY <2>1, <2>4, <2>5, RingStep DEF Queue!Next
<1> QED
  BY <1>1, <1>2, PTL DEF Spec, ImplementsByteQueue, Queue!Spec

-----------------------------------------------------------------------------
(* SetsCounted is what the library knows of finite sets.                   *)
INSTANCE FiniteSetTheorems

(* FiniteSetTheorems proves each of the facts assumed.                     *)
LEMMA Counted == SetsCounted
<1>1. IsFiniteSet({}) /\ Cardinality({}) = 0
  BY FS_EmptySet
<1>2. \A S, T : IsFiniteSet(T) /\ S \subseteq T => IsFiniteSet(S)
  BY FS_Subset
<1>3. \A S : IsFiniteSet(S) => Cardinality(S) \in Nat /\ (Cardinality(S) = 0 <=> S = {})
  BY FS_CardinalityType, FS_EmptySet
<1>4. \A S, x : IsFiniteSet(S) /\ x \notin S =>
        IsFiniteSet(S \cup {x}) /\ Cardinality(S \cup {x}) = Cardinality(S) + 1
  BY FS_AddElement
<1>5. \A S, x : IsFiniteSet(S) /\ x \in S =>
        IsFiniteSet(S \ {x}) /\ Cardinality(S \ {x}) = Cardinality(S) - 1
  BY FS_RemoveElement
<1> QED
  BY <1>1, <1>2, <1>3, <1>4, <1>5 DEF SetsCounted

(* No two CPUs have the same lock, between the xchg of acquire and the     *)
(* store of release, for any number of CPUs, locks and nested acquires.    *)
THEOREM LocksExclude == SpinSpec => []MutualExclusion
  <1>1. IInv => MutualExclusion
    <2> SUFFICES ASSUME IInv, NEW c \in Cpus, NEW d \in Cpus, c # d,
                        NEW l \in Owns(c), l \in Owns(d)
                 PROVE  FALSE
      BY DEF MutualExclusion
    <2>1. ASSUME NEW e \in Cpus, l \in Owns(e)
          PROVE  \/ cpu[l] = e
                 \/ cpu[l] = NoCPU /\ cpc[e] \in {"own", "unlock"} /\ lk[e] = l
      BY <2>1 DEF IInv, Words, Nesting, Owns
    <2>2. NoCPU \notin Cpus
      BY SpinAssumption
    <2> QED
      BY <2>1, <2>2 DEF IInv, Words
  <1> QED
    BY <1>1, Counted, InitInv, StepInv, PTL DEF SpinSpec

(* holding is exact for the CPU that asks, and the tests of acquire,       *)
(* release and popcli never panic.                                         *)
THEOREM HoldingIsExact == SpinSpec => []HoldingExact
  <1>1. IInv => HoldingExact
    BY DEF IInv, Types, Words, Nesting, HoldingExact, holding
  <1> QED
    BY <1>1, Counted, InitInv, StepInv, PTL DEF SpinSpec

(* A CPU that has a lock, or is inside acquire or release, takes no        *)
(* interrupt, and code that an interrupt suspends holds no lock.           *)
THEOREM MaskedUnderLock == SpinSpec => []NoInterruptUnderLock
  <1>1. IInv => NoInterruptUnderLock
    <2> SUFFICES ASSUME IInv, NEW c \in Cpus
                 PROVE  /\ (ncli[c] > 0 \/ held[c] # {} \/ cpc[c] # "run") => c \notin IF_
                        /\ saved[c] = {}
      BY DEF NoInterruptUnderLock
    <2>1. saved[c] = {} /\ cpc[c] \in Busy \cup {"run"}
      BY DEF IInv, Nesting, Types
    <2> QED
      BY <2>1, QuietHoldsNothing, Counted
  <1> QED
    BY <1>1, Counted, InitInv, StepInv, PTL DEF SpinSpec
=============================================================================
