-------------------------------- MODULE MCLog -------------------------------
(***************************************************************************)
(* Log on a small instance whose threads and contents are interchangeable. *)
(***************************************************************************)
EXTENDS Log, TLC

ASSUME LogAssumption

Symmetry ==
  Permutations(Procs) \cup Permutations(Vals) \cup Permutations(Blocks \ {AfterLog})
=============================================================================
