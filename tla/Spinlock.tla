------------------------------ MODULE Spinlock ------------------------------
(***************************************************************************)
(* Spinlocks and the nesting of pushcli and popcli (spinlock.c) on several *)
(* CPUs that take interrupts.  A step is one access to memory that another *)
(* CPU can see.                                                            *)
(***************************************************************************)
EXTENDS Integers

CONSTANTS
  Cpus, NoCPU,
  Locks          \* numbered in the order in which the kernel nests them

ASSUME SpinAssumption == Locks \subseteq Int /\ NoCPU \notin Cpus

VARIABLES
  locked, cpu,   \* struct spinlock
  IF_,           \* the CPUs whose interrupts are enabled (FL_IF)
  ncli, intena,  \* struct cpu
  cpc, lk,       \* where each CPU is inside acquire or release, and of what
  held,          \* the locks the code running on a CPU has acquired
  saved,         \* the locks of the code that an interrupt suspended
  inintr         \* the CPUs running an interrupt handler

spinVars == <<locked, cpu, IF_, ncli, intena, cpc, lk, held, saved, inintr>>

SpinInit ==
  /\ locked = {} /\ cpu = [l \in Locks |-> NoCPU]
  /\ IF_ = {} /\ ncli = [c \in Cpus |-> 0] /\ intena = {}
  /\ cpc = [c \in Cpus |-> "run"] /\ lk \in [Cpus -> Locks]
  /\ held = [c \in Cpus |-> {}] /\ saved = [c \in Cpus |-> {}] /\ inintr = {}

CpuTo(c, l) == cpc' = [cpc EXCEPT ![c] = l]

(* holding, as the CPU c evaluates it.                                     *)
holding(c, l) == l \in locked /\ cpu[l] = c

pushcli(c) ==
  /\ IF_' = IF_ \ {c}
  /\ intena' = IF ncli[c] > 0 THEN intena
               ELSE IF c \in IF_ THEN intena \cup {c} ELSE intena \ {c}
  /\ ncli' = [ncli EXCEPT ![c] = @ + 1]

(* acquire: pushcli, the test for a second acquire, xchg, the owner.       *)
acquire(c, l) ==
  /\ cpc[c] = "run" /\ \A h \in held[c] : h < l
  /\ pushcli(c)
  /\ lk' = [lk EXCEPT ![c] = l] /\ CpuTo(c, "check")
  /\ UNCHANGED <<locked, cpu, held, saved, inintr>>
Check(c) ==
  /\ cpc[c] = "check"
  /\ CpuTo(c, IF holding(c, lk[c]) THEN "panic" ELSE "spin")
  /\ UNCHANGED <<locked, cpu, IF_, ncli, intena, lk, held, saved, inintr>>

(* Faulty: the lock is tested and taken without xchg.                      *)
XchgBlind(c) ==
  /\ cpc[c] = "spin" /\ CpuTo(c, "own")
  /\ locked' = locked \cup {lk[c]}
  /\ UNCHANGED <<cpu, IF_, ncli, intena, lk, held, saved, inintr>>

Xchg(c) ==
  /\ cpc[c] = "spin" /\ lk[c] \notin locked /\ CpuTo(c, "own")
  /\ locked' = locked \cup {lk[c]}
  /\ UNCHANGED <<cpu, IF_, ncli, intena, lk, held, saved, inintr>>
Own(c) ==
  /\ cpc[c] = "own" /\ CpuTo(c, "run")
  /\ cpu' = [cpu EXCEPT ![lk[c]] = c]
  /\ held' = [held EXCEPT ![c] = @ \cup {lk[c]}]
  /\ UNCHANGED <<locked, IF_, ncli, intena, lk, saved, inintr>>

(* release: the test, the owner, the lock word, popcli.                    *)
release(c, l) ==
  /\ cpc[c] = "run" /\ l \in held[c]
  /\ held' = [held EXCEPT ![c] = @ \ {l}] /\ lk' = [lk EXCEPT ![c] = l]
  /\ CpuTo(c, IF holding(c, l) THEN "disown" ELSE "panic")
  /\ UNCHANGED <<locked, cpu, IF_, ncli, intena, saved, inintr>>

Disown(c) ==
  /\ cpc[c] = "disown" /\ CpuTo(c, "unlock")
  /\ cpu' = [cpu EXCEPT ![lk[c]] = NoCPU]
  /\ UNCHANGED <<locked, IF_, ncli, intena, lk, held, saved, inintr>>
Unlock(c) ==
  /\ cpc[c] = "unlock" /\ CpuTo(c, "popcli")
  /\ locked' = locked \ {lk[c]}
  /\ UNCHANGED <<cpu, IF_, ncli, intena, lk, held, saved, inintr>>

(* Faulty: interrupts come back with the first popcli.                     *)
popcliEager(c) ==
  /\ cpc[c] = "popcli"
  /\ ncli' = [ncli EXCEPT ![c] = @ - 1]
  /\ IF_' = IF c \in intena THEN IF_ \cup {c} ELSE IF_
  /\ CpuTo(c, "run")
  /\ UNCHANGED <<locked, cpu, intena, lk, held, saved, inintr>>

popcli(c) ==
  /\ cpc[c] = "popcli"
  /\ ncli' = [ncli EXCEPT ![c] = @ - 1]
  /\ IF c \in IF_ \/ ncli[c] < 1
     THEN CpuTo(c, "panic") /\ UNCHANGED IF_
     ELSE /\ CpuTo(c, "run")
          /\ IF_' = IF ncli[c] = 1 /\ c \in intena THEN IF_ \cup {c} ELSE IF_
  /\ UNCHANGED <<locked, cpu, intena, lk, held, saved, inintr>>

(* The sti of scheduler, an interrupt, and iret.                           *)
sti(c) ==
  /\ cpc[c] = "run" /\ c \notin IF_ \cup inintr /\ held[c] = {}
  /\ IF_' = IF_ \cup {c}
  /\ UNCHANGED <<locked, cpu, ncli, intena, cpc, lk, held, saved, inintr>>
Interrupt(c) ==
  /\ cpc[c] = "run" /\ c \in IF_ /\ c \notin inintr
  /\ IF_' = IF_ \ {c} /\ inintr' = inintr \cup {c}
  /\ saved' = [saved EXCEPT ![c] = held[c]] /\ held' = [held EXCEPT ![c] = {}]
  /\ UNCHANGED <<locked, cpu, ncli, intena, cpc, lk>>
Iret(c) ==
  /\ cpc[c] = "run" /\ c \in inintr /\ held[c] = {}
  /\ IF_' = IF_ \cup {c} /\ inintr' = inintr \ {c}
  /\ held' = [held EXCEPT ![c] = saved[c]] /\ saved' = [saved EXCEPT ![c] = {}]
  /\ UNCHANGED <<locked, cpu, ncli, intena, cpc, lk>>

SpinStep(c) == \/ Check(c) \/ Xchg(c) \/ Own(c) \/ Disown(c) \/ Unlock(c) \/ popcli(c)
           \/ sti(c) \/ Interrupt(c) \/ Iret(c)
           \/ \E l \in Locks : acquire(c, l) \/ release(c, l)
SpinNext == \E c \in Cpus : SpinStep(c)
SpinSpec == SpinInit /\ [][SpinNext]_spinVars

-----------------------------------------------------------------------------
(* Type invariant.                                                         *)
SpinTypeOK ==
  /\ locked \subseteq Locks /\ cpu \in [Locks -> Cpus \cup {NoCPU}]
  /\ IF_ \subseteq Cpus /\ ncli \in [Cpus -> Nat] /\ intena \subseteq Cpus
  /\ cpc \in [Cpus -> {"run", "check", "spin", "own", "disown", "unlock", "popcli", "panic"}]
  /\ lk \in [Cpus -> Locks]
  /\ held \in [Cpus -> SUBSET Locks] /\ saved \in [Cpus -> SUBSET Locks]
  /\ inintr \subseteq Cpus

(* The locks a CPU is answerable for: acquired by the code it runs or has  *)
(* suspended, or about to be handed back.                                  *)
Owns(c) == held[c] \cup saved[c] \cup
           (IF cpc[c] \in {"own", "disown", "unlock"} THEN {lk[c]} ELSE {})

(* No two CPUs have the same lock, from the xchg of acquire to the store   *)
(* that clears the lock word in release.                                   *)
MutualExclusion == \A c, d \in Cpus : c # d => Owns(c) \cap Owns(d) = {}

(* holding tells each CPU the truth about itself whatever the other CPUs   *)
(* are doing to the lock, so the panics of acquire and release never fire  *)
(* for code that nests properly.                                           *)
HoldingExact ==
  \A c \in Cpus : /\ cpc[c] # "panic"
                  /\ cpc[c] = "run" => \A l \in Locks : holding(c, l) <=> l \in held[c]

(* No interrupt arrives while its CPU has a lock or is after one: a        *)
(* handler can never spin on a lock of the code it suspended, and ncli     *)
(* counts the locks.                                                       *)
NoInterruptUnderLock ==
  \A c \in Cpus : /\ ncli[c] > 0 \/ held[c] # {} \/ cpc[c] # "run" => c \notin IF_
                  /\ saved[c] = {}
=============================================================================
