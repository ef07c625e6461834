------------------------- MODULE MCPrioritySemQueue -------------------------
(***************************************************************************)
(* Instances of PrioritySemQueue for TLC.                                  *)
(***************************************************************************)
EXTENDS PrioritySemQueue

\* LO_PRI and HI_PRI, which addWithPriority() clamps to the first and last queue
BothEnds == {-128, 127}
=============================================================================
