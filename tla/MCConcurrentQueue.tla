------------------------- MODULE MCConcurrentQueue -------------------------
(***************************************************************************)
(* Instances of ConcurrentQueue for TLC.  Threads and tasks of one kind    *)
(* are interchangeable, so the safety run may use symmetry.                *)
(***************************************************************************)
EXTENDS ConcurrentQueue, TLC

Symmetry == Permutations(Clients) \cup Permutations(Workers)
              \cup Permutations(AsyncTasks) \cup Permutations(SyncTasks)
=============================================================================
