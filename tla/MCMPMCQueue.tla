----------------------------- MODULE MCMPMCQueue -----------------------------
(***************************************************************************)
(* Instances of MPMCQueue for TLC.                                         *)
(***************************************************************************)
EXTENDS MPMCQueue, TLC

Symmetry == Permutations(Threads) \cup Permutations(Values)
=============================================================================
