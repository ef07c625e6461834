--------------------------- MODULE MCSerialQueue ---------------------------
(***************************************************************************)
(* SerialQueue for TLC.  Tasks of one kind are interchangeable: they are   *)
(* submitted in one order, which leaves out nothing but their names and,   *)
(* unlike symmetry, does not harm the check of liveness.                   *)
(***************************************************************************)
EXTENDS SerialQueue

InOrder == \A kind \in {AsyncTasks, SyncTasks} :
             kind \cap submitted' # kind \cap submitted
               => (CHOOSE x \in kind \ submitted : TRUE) \in submitted'

MCSpec == Init /\ [][Next /\ InOrder]_vars /\ Fairness
=============================================================================
