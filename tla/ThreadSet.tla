----------------------------- MODULE ThreadSet -----------------------------
(***************************************************************************)
(* The threads of the program and of the executor, for modules of parts    *)
(* that any thread may call.                                               *)
(***************************************************************************)
CONSTANT Threads
=============================================================================
