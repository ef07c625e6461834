------------------------------ MODULE MCGroup ------------------------------
(***************************************************************************)
(* Instances of Group for TLC.                                             *)
(***************************************************************************)
EXTENDS Group, TLC

Symmetry == Permutations(Threads) \cup Permutations(Callbacks)
=============================================================================
