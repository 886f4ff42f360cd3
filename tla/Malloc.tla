------------------------------- MODULE Malloc -------------------------------
(***************************************************************************)
(* The user-level allocator of umalloc.c: a circular list of free blocks   *)
(* kept in address order, threaded through the headers of the blocks.      *)
(* Memory is counted in units of one Header (8 bytes); a block is its      *)
(* header and the units after it.  The static header `base' is unit 0 and  *)
(* the heap starts above it.                                               *)
(*                                                                         *)
(* The program frees only what malloc gave it and writes only inside its   *)
(* own blocks; it may also move the break itself between two calls, so     *)
(* that two pieces of core need not be adjacent.  Requests are sizes whose *)
(* unit count fits an int (no uint wrap in nbytes + 7 or nu * 8).          *)
(***************************************************************************)
EXTENDS Integers, FiniteSets

CONSTANTS
    HEAP,       \* the first unit of the heap
    LIMIT,      \* sbrk fails when the break would pass this unit
    MINCORE,    \* the least number of units morecore asks for (4096)
    HEADER,     \* sizeof(Header) in bytes
    Requests    \* the byte counts the program asks for

\* What the modules that instantiate this one assume of the constants.
MallocAssumption ==
    /\ HEAP \in Nat \ {0} /\ LIMIT \in Nat /\ MINCORE \in Nat \ {0}
    /\ HEADER \in Nat \ {0} /\ Requests \subseteq Nat

VARIABLES
    size, ptr,  \* the header fields stored at each unit (of any unit: memory)
    freep,      \* start of the free list; NULL before the first call
    brk,        \* the program's break
    held,       \* ghost: the blocks the program holds, header unit -> units
    core        \* ghost: the units morecore obtained

vars == <<size, ptr, freep, brk, held, core>>

base == 0

NULL == 0 - 1

Units == 0 .. LIMIT - 1

Block(b, n) == b .. b + n - 1

----------------------------------------------------------------------------
(* A memory is a record of the three things the code reads and writes.     *)

Memory == [size |-> size, ptr |-> ptr, freep |-> freep]

Init ==
    /\ size = [u \in Units |-> 0]
    /\ ptr = [u \in Units |-> base]
    /\ freep = NULL
    /\ brk = HEAP
    /\ held = <<>>
    /\ core = {}

\* Puts every block at the head of the list.
BeforeHead(m, bp, p) == TRUE

\* free's walk: the block of the list after which bp belongs.
Before(m, bp, p) ==
    LET q == m.ptr[p] IN
    \/ p < bp /\ bp < q
    \/ p >= q /\ (bp > p \/ bp < q)

RECURSIVE Place(_, _, _)
Place(m, bp, p) == IF Before(m, bp, p) THEN p ELSE Place(m, bp, m.ptr[p])

MergeUp(m, bp, p) ==
    LET q == m.ptr[p] IN
    IF bp + m.size[bp] = q
    THEN [m EXCEPT !.size[bp] = @ + m.size[q], !.ptr[bp] = m.ptr[q]]
    ELSE [m EXCEPT !.ptr[bp] = q]

\* Never merges with the block below.
MergeDownNot(m, bp, p) == [m EXCEPT !.ptr[p] = bp]

\* Forgets to take over the size of the block it swallows.
MergeDownLoses(m, bp, p) ==
    IF p + m.size[p] = bp
    THEN [m EXCEPT !.ptr[p] = m.ptr[bp]]
    ELSE [m EXCEPT !.ptr[p] = bp]

MergeDown(m, bp, p) ==
    IF p + m.size[p] = bp
    THEN [m EXCEPT !.size[p] = @ + m.size[bp], !.ptr[p] = m.ptr[bp]]
    ELSE [m EXCEPT !.ptr[p] = bp]

Freed(m, bp) ==
    LET p == Place(m, bp, m.freep)
    IN  [MergeDown(MergeUp(m, bp, p), bp, p) EXCEPT !.freep = p]

----------------------------------------------------------------------------
(* malloc *)

nunits(nbytes) == (nbytes + HEADER - 1) \div HEADER + 1

Ready(m) ==
    IF m.freep = NULL
    THEN [m EXCEPT !.ptr[base] = base, !.size[base] = 0, !.freep = base]
    ELSE m

\* First fit: the block before the first one that is large enough, or NULL
\* when the walk is back at freep.
RECURSIVE Fit(_, _, _)
Fit(m, n, prevp) ==
    LET p == m.ptr[prevp] IN
    IF m.size[p] >= n THEN prevp
    ELSE IF p = m.freep THEN NULL
    ELSE Fit(m, n, p)

\* Cuts off the high end of the block and writes no header for it.
CarveBare(m, n, prevp) ==
    LET p    == m.ptr[prevp]
        rest == m.size[p] - n
    IN  [mem |-> IF rest = 0
                 THEN [m EXCEPT !.ptr[prevp] = m.ptr[p], !.freep = prevp]
                 ELSE [m EXCEPT !.size[p] = rest, !.freep = prevp],
         block |-> p + rest]

Carve(m, n, prevp) ==
    LET p    == m.ptr[prevp]
        rest == m.size[p] - n
    IN  IF rest = 0
        THEN [mem |-> [m EXCEPT !.ptr[prevp] = m.ptr[p], !.freep = prevp],
              block |-> p]
        ELSE [mem |-> [m EXCEPT !.size[p] = rest, !.size[p + rest] = n,
                                !.freep = prevp],
              block |-> p + rest]

Core(n) == IF n < MINCORE THEN MINCORE ELSE n

morecore(m, n) == Freed([m EXCEPT !.size[brk] = Core(n)], brk)

Commit(m) == size' = m.size /\ ptr' = m.ptr /\ freep' = m.freep

Give(r, n) ==
    /\ Commit(r.mem)
    /\ held' = [b \in DOMAIN held \cup {r.block} |->
                    IF b = r.block THEN n ELSE held[b]]

\* malloc: from the list, from new core, or 0 when sbrk fails.  After
\* morecore the walk goes on from the new freep, so it looks first at the
\* block after it.
malloc(nbytes) ==
    LET n == nunits(nbytes)
        m == Ready(Memory)
        f == Fit(m, n, m.freep)
        k == morecore(m, n)
    IN  \/ /\ f # NULL
           /\ Give(Carve(m, n, f), n)
           /\ UNCHANGED <<brk, core>>
        \/ /\ f = NULL
           /\ brk + Core(n) <= LIMIT
           /\ Give(Carve(k, n, Fit(k, n, k.freep)), n)
           /\ brk' = brk + Core(n)
           /\ core' = core \cup Block(brk, Core(n))
        \/ /\ f = NULL
           /\ brk + Core(n) > LIMIT
           /\ Commit(m)
           /\ UNCHANGED <<brk, core, held>>

free(b) ==
    /\ b \in DOMAIN held
    /\ Commit(Freed(Memory, b))
    /\ held' = [x \in DOMAIN held \ {b} |-> held[x]]
    /\ UNCHANGED <<brk, core>>

\* The program fills the units of a block it holds: whatever headers were
\* left there are gone (the value stands for anything).
use(b) ==
    /\ b \in DOMAIN held
    /\ \E u \in Block(b + 1, held[b] - 1) : size[u] # LIMIT
    /\ size' = [u \in Units |->
                    IF u \in Block(b + 1, held[b] - 1) THEN LIMIT ELSE size[u]]
    /\ ptr' = [u \in Units |->
                    IF u \in Block(b + 1, held[b] - 1) THEN base ELSE ptr[u]]
    /\ UNCHANGED <<freep, brk, held, core>>

\* The program moves the break for itself.
sbrk ==
    /\ brk < LIMIT
    /\ brk' = brk + 1
    /\ UNCHANGED <<size, ptr, freep, held, core>>

Next ==
    \/ \E n \in Requests : malloc(n)
    \/ \E b \in Units : free(b) \/ use(b)
    \/ sbrk

Spec == Init /\ [][Next]_vars

----------------------------------------------------------------------------
(* Properties *)

\* The blocks reachable from freep.
RECURSIVE Chain(_, _)
Chain(p, seen) == IF p \in seen THEN seen ELSE Chain(ptr[p], seen \cup {p})

FreeBlocks == IF freep = NULL THEN {} ELSE Chain(freep, {}) \ {base}

\* Every unit obtained from sbrk is in exactly one block, free or held, and
\* no block reaches outside the core: malloc never hands out a unit twice,
\* and free loses none, whatever was split and merged before.
CoreConserved ==
    \A u \in Units :
        Cardinality({b \in FreeBlocks : u \in Block(b, size[b])})
      + Cardinality({b \in DOMAIN held : u \in Block(b, held[b])})
      = (IF u \in core THEN 1 ELSE 0)

\* The header of a block the program holds still has the block's size, so
\* that a later free returns as many units as malloc handed out.
HeadersKept == \A b \in DOMAIN held : size[b] = held[b]

\* free leaves no two free blocks side by side: fragmentation is only what
\* the held blocks cause.
Coalesced ==
    \A b \in FreeBlocks, c \in FreeBlocks : b + size[b] # c

\* The list is one cycle through base in address order: every free finds
\* its place in one turn.
Circular ==
    freep # NULL =>
        /\ base \in Chain(freep, {})
        /\ \A b \in Chain(freep, {}) :
               ptr[b] = IF \E c \in FreeBlocks : c > b
                        THEN CHOOSE c \in FreeBlocks :
                                 c > b /\ \A d \in FreeBlocks : d > b => d >= c
                        ELSE base
=============================================================================
