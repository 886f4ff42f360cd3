----------------------------- MODULE AtomicDisk -----------------------------
(***************************************************************************)
(* What the logging layer promises the file system (log.c:7-21): system    *)
(* calls write blocks; the writes become durable all together, at a moment *)
(* when no system call is in progress; a crash takes the blocks back to    *)
(* the last such moment.                                                   *)
(***************************************************************************)
EXTENDS Naturals

CONSTANTS Blocks, Vals

VARIABLES
  durable,   \* contents a crash at this moment leaves
  current,   \* contents system calls see
  active     \* number of system calls between begin_op and end_op

vars == <<durable, current, active>>

Init == durable = current /\ current \in [Blocks -> Vals] /\ active = 0

Begin == active' = active + 1 /\ UNCHANGED <<durable, current>>

Write(b, v) ==
  /\ active > 0
  /\ current' = [current EXCEPT ![b] = v]
  /\ UNCHANGED <<durable, active>>

End == active > 0 /\ active' = active - 1 /\ UNCHANGED <<durable, current>>

Commit == active = 0 /\ durable' = current /\ UNCHANGED <<current, active>>

Crash == current' = durable /\ active' = 0 /\ UNCHANGED durable

Next == Begin \/ End \/ Commit \/ Crash \/ \E b \in Blocks, v \in Vals : Write(b, v)

Spec == Init /\ [][Next]_vars
=============================================================================
