-------------------------------- MODULE Rtc ---------------------------------
(***************************************************************************)
(* cmostime (lapic.c): reading the date from the CMOS clock, one register  *)
(* at a time, while the clock goes on.  The clock announces an update in   *)
(* status register A (CMOS_UIP); during the update its registers read as   *)
(* anything.  The clock is hardware, modelled from how lapic.c reads it.   *)
(*                                                                         *)
(* One pass of the loop is shorter than a second, so it meets at most one  *)
(* update.                                                                 *)
(***************************************************************************)
EXTENDS Integers, Sequences

CONSTANTS
    NFIELDS,    \* registers: SECS, MINS, ... (six)
    BASE,       \* values of a field
    Starts,     \* times at which the clock may stand when cmostime is called
    MaxUpdates, \* bound: updates during one call
    Garbage     \* what a register may read as during an update

VARIABLES
    clock,          \* the fields, least significant first, as numbers
    phase,          \* "still", "announced" (CMOS_UIP) or "updating"
    bcd,            \* how the registers hold a number: bit 2 of CMOS_STATB
    updates, met,   \* updates so far, and in this pass of the loop
    pc, t1, t2,     \* the local variables of cmostime
    r,              \* its result
    shown           \* ghost: the times shown during the call

vars == <<clock, phase, bcd, updates, met, pc, t1, t2, r, shown>>

Fields == 1 .. NFIELDS

Init ==
    /\ clock \in Starts /\ bcd \in BOOLEAN /\ phase = "still" /\ updates = 0 /\ met = FALSE
    /\ pc = "t1" /\ t1 = <<>> /\ t2 = <<>> /\ r = <<>>
    /\ shown = {clock}

----------------------------------------------------------------------------
(* The clock *)

\* One second later: a field wraps and carries into the next one.
Tick(c) ==
    [k \in Fields |->
        IF \A j \in 1 .. k - 1 : c[j] = BASE - 1 THEN (c[k] + 1) % BASE ELSE c[k]]

Announce ==
    /\ phase = "still" /\ updates < MaxUpdates /\ ~met
    /\ phase' = "announced" /\ updates' = updates + 1 /\ met' = TRUE
    /\ UNCHANGED <<clock, bcd, pc, t1, t2, r, shown>>

Update ==
    /\ phase = "announced" /\ phase' = "updating"
    /\ UNCHANGED <<clock, bcd, updates, met, pc, t1, t2, r, shown>>

Updated ==
    /\ phase = "updating" /\ phase' = "still"
    /\ clock' = Tick(clock) /\ shown' = shown \cup {Tick(clock)}
    /\ UNCHANGED <<bcd, updates, met, pc, t1, t2, r>>

----------------------------------------------------------------------------
(* cmostime *)

\* A register holds its number as two decimal digits of four bits, or as it
\* is.
Register(n) == IF bcd THEN (n \div 10) * 16 + (n % 10) ELSE n

CONV(x) == IF bcd THEN (x \div 16) * 10 + (x % 16) ELSE x

cmos_read(k) == IF phase = "updating" THEN Garbage ELSE {Register(clock[k])}

\* fill_rtcdate(&t1) and fill_rtcdate(&t2), a register at a time.
fill1 ==
    /\ pc = "t1" /\ Len(t1) < NFIELDS
    /\ \E x \in cmos_read(Len(t1) + 1) : t1' = Append(t1, x)
    /\ UNCHANGED <<clock, phase, bcd, updates, met, pc, t2, r, shown>>

Pass == met' = (phase # "still") /\ t1' = <<>> /\ t2' = <<>> /\ pc' = "t1"

uip ==
    /\ pc = "t1" /\ Len(t1) = NFIELDS
    /\ IF phase # "still" THEN Pass ELSE pc' = "t2" /\ UNCHANGED <<t1, t2, met>>
    /\ UNCHANGED <<clock, phase, bcd, updates, r, shown>>

fill2 ==
    /\ pc = "t2" /\ Len(t2) < NFIELDS
    /\ \E x \in cmos_read(Len(t2) + 1) : t2' = Append(t2, x)
    /\ UNCHANGED <<clock, phase, bcd, updates, met, pc, t1, r, shown>>

\* Trusts the flag and does not read the time twice.
SameAlways(a, b) == TRUE

Same(a, b) == a = b

\* The last register holds the year of the century.
Century(t) == [t EXCEPT ![NFIELDS] = @ + 2000]

compare ==
    /\ pc = "t2" /\ Len(t2) = NFIELDS
    /\ IF Same(t1, t2)
       THEN /\ r' = Century([k \in Fields |-> CONV(t1[k])])
            /\ pc' = "done" /\ UNCHANGED <<t1, t2, met>>
       ELSE Pass /\ UNCHANGED r
    /\ UNCHANGED <<clock, phase, bcd, updates, shown>>

Next ==
    \/ Announce \/ Update \/ Updated
    \/ fill1 \/ uip \/ fill2 \/ compare

Spec == Init /\ [][Next]_vars

----------------------------------------------------------------------------
(* Properties *)

\* cmostime returns a time the clock showed during the call, although it
\* reads the registers one by one and an update can fall between any two
\* ("make sure CMOS doesn't modify time while we read it"), and whichever way
\* they hold a number.
TimeWasShown == pc = "done" => \E t \in shown : r = Century(t)
=============================================================================
