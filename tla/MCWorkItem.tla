----------------------------- MODULE MCWorkItem -----------------------------
(***************************************************************************)
(* Instances of WorkItem for TLC.                                          *)
(***************************************************************************)
EXTENDS WorkItem
=============================================================================
