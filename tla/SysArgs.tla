------------------------------ MODULE SysArgs -------------------------------
(***************************************************************************)
(* How the kernel takes the arguments of a system call from user memory    *)
(* (syscall.c: fetchint, fetchstr, argint, argptr, argstr), and how sbrk   *)
(* moves the size of the process that bounds them (sys_sbrk, growproc,     *)
(* allocuvm, deallocuvm).  Addresses, sizes and arguments are 32-bit       *)
(* words: additions wrap, and an int is negative from KERNBASE (2^31) on.  *)
(***************************************************************************)
EXTENDS Integers

CONSTANTS
    KERNBASE,   \* 2^31: first kernel address, half of the range of a uint
    MaxArg      \* bound: highest index of an argument

ASSUME SysArgsAssumption ==
    /\ KERNBASE \in Nat /\ KERNBASE > 4
    /\ MaxArg \in Nat /\ 4 * MaxArg + 4 < KERNBASE

VARIABLES
    sz,         \* curproc->sz
    esp,        \* the user's stack pointer, any word
    arg         \* the last argument checked: its range and the verdict

argsVars == <<sz, esp, arg>>

UINT == 2 * KERNBASE
Uints == 0 .. UINT - 1

\* Addition of two words.
Add(a, b) == IF a + b >= UINT THEN a + b - UINT ELSE a + b

Negative(i) == i >= KERNBASE

None == [lo |-> 0, len |-> 0, ok |-> FALSE]

\* A process as userinit and exec leave it.
ArgsInit ==
    /\ sz \in 1 .. KERNBASE - 1
    /\ esp \in Uints
    /\ arg = None

----------------------------------------------------------------------------
(* sbrk *)

\* allocuvm: 0 on failure, for lack of memory too.
allocuvm(old, new) ==
    IF new >= KERNBASE THEN {0} ELSE IF new < old THEN {old} ELSE {new, 0}

deallocuvm(old, new) == IF new >= old THEN old ELSE new

\* growproc(n): a result of 0 is an error and leaves curproc->sz as it was.
growproc(n) ==
    LET Set(s) == sz' = IF s = 0 THEN sz ELSE s IN
    \/ n = 0 /\ UNCHANGED sz
    \/ n > 0 /\ ~Negative(n) /\ \E s \in allocuvm(sz, Add(sz, n)) : Set(s)
    \/ Negative(n) /\ Set(deallocuvm(sz, Add(sz, n)))

sys_sbrk ==
    /\ \E n \in Uints : growproc(n)
    /\ arg' = None
    /\ UNCHANGED esp

\* The program runs: its stack pointer is whatever it makes it.
User == esp' \in Uints /\ arg' = None /\ UNCHANGED sz

----------------------------------------------------------------------------
(* Arguments *)

\* Tests only the end of the word.
fetchintEnd(addr) == ~(Add(addr, 4) > sz)

fetchint(addr) == ~(addr >= sz \/ Add(addr, 4) > sz)

argint(n) == fetchint(Add(esp, 4 + 4 * n))

\* argint: the range is the word of the nth argument on the stack.
CheckInt(n) ==
    /\ arg' = [lo |-> Add(esp, 4 + 4 * n), len |-> 4, ok |-> argint(n)]
    /\ UNCHANGED <<sz, esp>>

InBlock(i, size) == ~(Negative(size) \/ i >= sz \/ Add(i, size) > sz)

\* argptr: a block of `size' bytes at the pointer i found in the argument.
argptr(n, i, size) ==
    /\ argint(n)
    /\ arg' = [lo |-> i, len |-> size, ok |-> InBlock(i, size)]
    /\ UNCHANGED <<sz, esp>>

\* fetchstr looks for the NUL below sz; nul is its address in memory.
fetchstr(addr, nul) == addr < sz /\ nul < sz

argstr(n, addr, nul) ==
    /\ argint(n) /\ addr <= nul
    /\ arg' = [lo |-> addr, len |-> nul - addr + 1, ok |-> fetchstr(addr, nul)]
    /\ UNCHANGED <<sz, esp>>

ArgsNext ==
    \/ sys_sbrk \/ User
    \/ \E n \in 0 .. MaxArg :
          \/ CheckInt(n)
          \/ \E i, j \in Uints : argptr(n, i, j) \/ argstr(n, i, j)

ArgsSpec == ArgsInit /\ [][ArgsNext]_argsVars

----------------------------------------------------------------------------
(* Properties *)

ArgsTypeOK ==
    /\ sz \in Uints /\ esp \in Uints
    /\ arg.lo \in Uints /\ arg.len \in Nat /\ arg.ok \in BOOLEAN

\* No call of sbrk takes the size of a process to KERNBASE or beyond, by
\* growing past it or by a decrement that wraps.
BelowKernel == sz < KERNBASE

\* An argument that is accepted lies below the size of the process, all of
\* it, as a range of numbers that do not wrap: the tests in syscall.c add
\* before they compare, and the sums cannot overflow for any process sbrk
\* can make.
AcceptedInside == arg.ok => arg.lo + arg.len <= sz /\ arg.lo < sz

\* And a range inside is not refused, the empty range at the very end
\* aside: len is an int in every caller.
InsideAccepted ==
    arg # None /\ arg.lo < sz /\ arg.lo + arg.len <= sz => arg.ok
=============================================================================
