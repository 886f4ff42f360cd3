----------------------------- MODULE BlockStore -----------------------------
(***************************************************************************)
(* What bread, bwrite and brelse promise together: disk blocks as memory   *)
(* cells that one process at a time holds; the holder sees the value last  *)
(* stored, wherever it is kept.                                            *)
(***************************************************************************)
CONSTANTS Procs, Blocks, Vals, NoProc
VARIABLES store, holder
bsvars == <<store, holder>>

BSInit == store \in [Blocks -> Vals] /\ holder = [k \in Blocks |-> NoProc]

Take(p, k) == /\ holder[k] = NoProc
              /\ holder' = [holder EXCEPT ![k] = p] /\ UNCHANGED store
Put(p, k, v) == /\ holder[k] = p
                /\ store' = [store EXCEPT ![k] = v] /\ UNCHANGED holder
Drop(p, k) == /\ holder[k] = p
              /\ holder' = [holder EXCEPT ![k] = NoProc] /\ UNCHANGED store

BSNext == \E p \in Procs, k \in Blocks :
            Take(p, k) \/ Drop(p, k) \/ \E v \in Vals : Put(p, k, v)
BSSpec == BSInit /\ [][BSNext]_bsvars
=============================================================================
