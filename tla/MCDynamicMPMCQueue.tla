------------------------- MODULE MCDynamicMPMCQueue -------------------------
(***************************************************************************)
(* Instances of DynamicMPMCQueue for TLC.                                  *)
(***************************************************************************)
EXTENDS DynamicMPMCQueue
=============================================================================
