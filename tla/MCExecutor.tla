----------------------------- MODULE MCExecutor -----------------------------
(* Executor with a few threads for TLC.  The thread objects are left        *)
(* unsymmetrical because the run checks liveness.                           *)
EXTENDS Executor
=============================================================================
