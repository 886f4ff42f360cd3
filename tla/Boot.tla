-------------------------------- MODULE Boot --------------------------------
(***************************************************************************)
(* How the processors come up: mpinit reads the processor table (mp.c),    *)
(* main on the boot processor starts the others one at a time through one  *)
(* trampoline whose stack word it rewrites for each of them (startothers,  *)
(* lapicstartap, entryother.S), then gives the rest of memory to the page  *)
(* allocator, makes the first process and turns into a scheduler.  The     *)
(* allocator has no lock in force until kinit2 is done.                    *)
(*                                                                         *)
(* A STARTUP message may be lost; lapicstartap sends two, and a processor  *)
(* that is already running ignores the second.                             *)
(***************************************************************************)
EXTENDS Integers, Sequences, FiniteSets, SequencesExt

CONSTANTS
    Ids,        \* APIC ids
    Boot,       \* the APIC id of the boot processor
    Tables,     \* the processor tables the firmware may present
    NCPU,       \* entries of cpus[]
    Low,        \* pages below 4 MB: the ones entrypgdir maps
    High        \* the other pages

\* What the modules that instantiate this one assume of the constants.
BootAssumption ==
    /\ Boot \in Ids /\ NCPU \in Nat \ {0}
    /\ Low \cap High = {} /\ Cardinality(Low) > Cardinality(Ids)

VARIABLES
    table, pos, ismp,   \* mpinit: the entries, the next one, its verdict
    cpus,               \* the APIC ids in cpus[], in order
    pc, i,              \* where the boot processor is in main; its cpus index
    word,               \* the stack word of the trampoline (code-4)
    ipi,                \* STARTUP messages on their way to a processor
    cpu,                \* what each processor does
    stack,              \* the page it uses as its stack
    started,            \* the processors that have set c->started
    free, uselock,      \* kmem: free pages, and whether the lock is in force
    inkmem,             \* the processors inside kalloc or kfree
    ready               \* the first process exists

boot == <<pc, i>>
parse == <<table, pos, ismp, cpus>>
aps == <<word, ipi, cpu, stack, started>>
kmem == <<free, uselock, inkmem>>
vars == <<boot, parse, aps, kmem, ready>>

None == "none"

\* The free list from the start on holds every page.
kinit1All == Low \cup High

kinit1 == Low

\* main up to mpinit: kinit1 has put the low pages on the free list.
Init ==
    /\ table \in Tables /\ pos = 1 /\ ismp = TRUE /\ cpus = <<>>
    /\ pc = "mpinit" /\ i = 1
    /\ word = None /\ ipi = [a \in Ids |-> 0]
    /\ cpu = [a \in Ids |-> IF a = Boot THEN "main" ELSE "halted"]
    /\ stack = [a \in Ids |-> None] /\ started = {}
    /\ free = kinit1 /\ uselock = FALSE /\ inkmem = {}
    /\ ready = FALSE

Goto(l) == pc' = l

----------------------------------------------------------------------------
(* mpinit: one entry of the table *)

AddCpu(e) ==
    IF Len(cpus) < NCPU THEN cpus' = Append(cpus, e.id) ELSE UNCHANGED cpus

\* The default case leaves the switch, not the loop, and p is where it was.
mpentry ==
    LET e == table[pos] IN
    /\ pc = "mpinit" /\ pos <= Len(table)
    /\ CASE e.type = "proc"  -> AddCpu(e) /\ pos' = pos + 1 /\ UNCHANGED ismp
         [] e.type = "other" -> pos' = pos + 1 /\ UNCHANGED <<ismp, cpus>>
         [] OTHER            -> ismp' = FALSE /\ UNCHANGED <<pos, cpus>>
    /\ UNCHANGED <<boot, table, aps, kmem, ready>>

\* The end of mpinit, and the rest of main up to startothers; mycpu panics
\* when the boot processor is not in cpus[].
mpdone ==
    /\ pc = "mpinit" /\ pos > Len(table)
    /\ Goto(IF ismp /\ Contains(cpus, Boot) THEN "others" ELSE "panic")
    /\ UNCHANGED <<i, parse, aps, kmem, ready>>

----------------------------------------------------------------------------
(* The page allocator as the processors enter and leave it *)

\* acquire(&kmem.lock), if the lock is in force.
Enter(a) ==
    /\ a \notin inkmem
    /\ uselock => inkmem = {}
    /\ inkmem' = inkmem \cup {a}

Exit(a) == a \in inkmem /\ inkmem' = inkmem \ {a}

----------------------------------------------------------------------------
(* startothers *)

NextCpu ==
    /\ pc = "others" /\ i <= Len(cpus)
    /\ IF cpus[i] = Boot
       THEN i' = i + 1 /\ UNCHANGED <<pc, kmem>>
       ELSE Goto("kalloc") /\ Enter(Boot) /\ UNCHANGED <<i, free, uselock>>
    /\ UNCHANGED <<parse, aps, ready>>

\* Sends a single STARTUP message.
StartupsOne == 1

Startups == 2

\* stack = kalloc(), the words below the trampoline, and lapicstartap.
lapicstartap ==
    /\ pc = "kalloc" /\ Exit(Boot)
    /\ \E f \in free : free' = free \ {f} /\ word' = f
    /\ ipi' = [ipi EXCEPT ![cpus[i]] = Startups]
    /\ Goto("wait")
    /\ UNCHANGED <<i, parse, cpu, stack, started, uselock, ready>>

\* Goes on as soon as the processor is out of reset.
StartedEarly(a) == cpu[a] # "halted"

Started(a) == a \in started

wait ==
    /\ pc = "wait" /\ Started(cpus[i])
    /\ i' = i + 1 /\ Goto("others")
    /\ UNCHANGED <<parse, aps, kmem, ready>>

----------------------------------------------------------------------------
(* Another processor *)

\* A STARTUP message: the first of the two may be lost, and only a halted
\* processor takes one.
Startup(a) ==
    /\ ipi[a] > 0
    /\ ipi' = [ipi EXCEPT ![a] = @ - 1]
    /\ \/ cpu' = [cpu EXCEPT ![a] = IF @ = "halted" THEN "entry" ELSE @]
       \/ ipi[a] = Startups /\ UNCHANGED cpu
    /\ UNCHANGED <<boot, parse, word, stack, started, kmem, ready>>

\* entryother.S: the stack from start-4, then mpenter.
entryother(a) ==
    /\ cpu[a] = "entry"
    /\ stack' = [stack EXCEPT ![a] = word]
    /\ cpu' = [cpu EXCEPT ![a] = "mpenter"]
    /\ UNCHANGED <<boot, parse, word, ipi, started, kmem, ready>>

\* mpenter, and mpmain up to scheduler.
mpenter(a) ==
    /\ cpu[a] = "mpenter"
    /\ started' = started \cup {a}
    /\ cpu' = [cpu EXCEPT ![a] = "scheduler"]
    /\ UNCHANGED <<boot, parse, word, ipi, stack, kmem, ready>>

\* A processor whose scheduler found the process runs code that allocates
\* or frees a page; the list is touched between these two steps.
Allocate(a) ==
    /\ cpu[a] = "scheduler" /\ ready /\ Enter(a)
    /\ UNCHANGED <<boot, parse, aps, free, uselock, ready>>

Allocated(a) ==
    /\ cpu[a] = "scheduler" /\ Exit(a)
    /\ UNCHANGED <<boot, parse, aps, free, uselock, ready>>

----------------------------------------------------------------------------
(* The rest of main *)

\* userinit before the lock is in force.
kinit2Late ==
    /\ pc = "others" /\ i > Len(cpus)
    /\ Goto("free") /\ Enter(Boot)
    /\ ready' = TRUE
    /\ UNCHANGED <<i, parse, aps, free, uselock>>

kinit2 ==
    /\ pc = "others" /\ i > Len(cpus)
    /\ Goto("free") /\ Enter(Boot)
    /\ UNCHANGED <<i, parse, aps, free, uselock, ready>>

\* freerange, a page at a time, and use_lock = 1.
freerange ==
    /\ pc = "free"
    /\ \/ \E f \in High \ free : free' = free \cup {f} /\ UNCHANGED <<pc, uselock, inkmem>>
       \/ /\ High \subseteq free
          /\ Goto("userinit") /\ Exit(Boot) /\ uselock' = TRUE /\ UNCHANGED free
    /\ UNCHANGED <<i, parse, aps, ready>>

\* userinit, then mpmain, which never returns to main.
userinit ==
    /\ pc = "userinit"
    /\ ready' = TRUE
    /\ Goto("mpmain")
    /\ started' = started \cup {Boot}
    /\ cpu' = [cpu EXCEPT ![Boot] = "scheduler"]
    /\ UNCHANGED <<i, parse, word, ipi, stack, kmem>>

Main ==
    \/ mpentry \/ mpdone \/ NextCpu \/ lapicstartap \/ wait
    \/ kinit2 \/ freerange \/ userinit

Other(a) == Startup(a) \/ entryother(a) \/ mpenter(a)

\* panic and the wait of startothers are loops.
Next ==
    \/ Main
    \/ \E a \in Ids : Other(a) \/ Allocate(a) \/ Allocated(a)
    \/ pc \in {"panic", "wait"} /\ UNCHANGED vars

Spec == Init /\ [][Next]_vars

\* The processors execute; a STARTUP message arrives or is lost.
FairSpec == Spec /\ WF_vars(Main) /\ \A a \in Ids : WF_vars(Other(a))

----------------------------------------------------------------------------
(* Properties *)

TypeOK ==
    /\ pos \in Nat /\ cpus \in Seq(Ids) /\ Len(cpus) <= NCPU
    /\ word \in Low \cup High \cup {None}
    /\ stack \in [Ids -> Low \cup High \cup {None}]
    /\ started \subseteq Ids /\ inkmem \subseteq Ids
    /\ free \subseteq Low \cup High

\* No two processors run on the same stack, and none on a free page: the
\* boot processor rewrites the stack word of the trampoline only when the
\* processor it was written for has left it.
StacksPrivate ==
    \A a, b \in Ids :
        stack[a] # None => /\ stack[a] \notin free
                           /\ a # b => stack[a] # stack[b]

\* A new processor runs on entrypgdir, which maps only the low pages: its
\* stack is one of them (main.c: kinit2 "must come after startothers()").
StacksMapped == \A a \in Ids : stack[a] \in Low \cup {None}

\* Never two processors in the free list at once, although it has no lock
\* in force until the end of kinit2.
KmemExclusive == Cardinality(inkmem) <= 1

\* Every processor in cpus[] ends up in the scheduler.
AllStarted == <>(pc = "panic" \/ \A k \in 1 .. Len(cpus) :
                     cpu[cpus[k]] = "scheduler") /\ <>(pc \in {"panic", "mpmain"})
=============================================================================
