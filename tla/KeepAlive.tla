----------------------------- MODULE KeepAlive -----------------------------
(***************************************************************************)
(* DispatchKeepAlive, the base class of queues, groups, work items and of  *)
(* the executor.  Whoever has only a WeakRef gets a token with lock(),     *)
(* unless the count is 0; the destructor gives the object's own token up   *)
(* and sleeps until the last token is gone.  The control block with the    *)
(* count outlives the object.                                              *)
(*                                                                         *)
(* A module of an object extends this one with the calls it makes.         *)
(***************************************************************************)
EXTENDS ThreadSet, Integers, FiniteSets

\* There are finitely many threads.
ASSUME KeepAliveAssumption == IsFiniteSet(Threads)

VARIABLES
  keepAliveCount,    \* keepAliveCount_
  keepAliveRelease,  \* keepAliveRelease_, a binary semaphore
  keepAliveJoined,   \* keepAliveJoined_
  kpc,               \* where a thread is inside DispatchKeepAlive, "out" if it is not
  cur,               \* cur in lock()
  token,             \* whether a thread holds a KeepAlive of the object
  destroyed          \* auxiliary: the destructor has gone past the join

keepAliveVars ==
  <<keepAliveCount, keepAliveRelease, keepAliveJoined, kpc, cur, token, destroyed>>

KeepAliveInit == /\ keepAliveCount = 1
                 /\ keepAliveRelease = 0
                 /\ keepAliveJoined = FALSE
                 /\ kpc = [t \in Threads |-> "out"]
                 /\ cur = [t \in Threads |-> 0]
                 /\ token = [t \in Threads |-> FALSE]
                 /\ destroyed = FALSE

Enters(t, from, to) == kpc[t] = from /\ kpc' = [kpc EXCEPT ![t] = to]
-----------------------------------------------------------------------------
(* Mistakes a change of the code could make.  They are no part of the      *)
(* specification: each takes the place of the definition it resembles to   *)
(* see that a property notices.                                            *)

\* LockTakes() with an addition in place of the compare-exchange
LockTakesBlindly(t) == /\ Enters(t, "lock", "out")
                       /\ cur[t] > 0
                       /\ keepAliveCount' = keepAliveCount + 1
                       /\ token' = [token EXCEPT ![t] = TRUE]
                       /\ cur' = [cur EXCEPT ![t] = 0]
                       /\ UNCHANGED <<keepAliveRelease, keepAliveJoined, destroyed>>

\* Release() that takes the count as it is after the subtraction
ReleaseOffByOne(t) ==
  /\ token[t]
  /\ Enters(t, "out", IF keepAliveCount - 1 = 1 THEN "signal" ELSE "out")
  /\ keepAliveCount' = keepAliveCount - 1
  /\ token' = [token EXCEPT ![t] = FALSE]
  /\ UNCHANGED <<keepAliveRelease, keepAliveJoined, cur, destroyed>>
-----------------------------------------------------------------------------
(* WeakRef::lock()                                                         *)

LockLoads(t) == /\ Enters(t, "out", "lock")
                /\ cur' = [cur EXCEPT ![t] = keepAliveCount]
                /\ UNCHANGED <<keepAliveCount, keepAliveRelease, keepAliveJoined, token,
                                destroyed>>

LockTakes(t) == /\ Enters(t, "lock", "out")
                /\ cur[t] > 0 /\ cur[t] = keepAliveCount
                /\ keepAliveCount' = keepAliveCount + 1
                /\ token' = [token EXCEPT ![t] = TRUE]
                /\ cur' = [cur EXCEPT ![t] = 0]
                /\ UNCHANGED <<keepAliveRelease, keepAliveJoined, destroyed>>

\* A compare-exchange that fails loads the count again.
LockRetries(t) == /\ kpc[t] = "lock"
                  /\ cur[t] > 0 /\ cur[t] # keepAliveCount
                  /\ cur' = [cur EXCEPT ![t] = keepAliveCount]
                  /\ UNCHANGED <<keepAliveCount, keepAliveRelease, keepAliveJoined, kpc,
                                  token, destroyed>>

LockFails(t) == /\ Enters(t, "lock", "out")
                /\ cur[t] <= 0
                /\ cur' = [cur EXCEPT ![t] = 0]
                /\ UNCHANGED <<keepAliveCount, keepAliveRelease, keepAliveJoined, token,
                                destroyed>>
-----------------------------------------------------------------------------
(* keepAliveRelease(), called when a token goes                            *)

Release(t) == /\ token[t]
              /\ Enters(t, "out", IF keepAliveCount = 1 THEN "signal" ELSE "out")
              /\ keepAliveCount' = keepAliveCount - 1
              /\ token' = [token EXCEPT ![t] = FALSE]
              /\ UNCHANGED <<keepAliveRelease, keepAliveJoined, cur, destroyed>>

Signal(t) == /\ Enters(t, "signal", "out")
             /\ keepAliveRelease' = keepAliveRelease + 1
             /\ UNCHANGED <<keepAliveCount, keepAliveJoined, cur, token, destroyed>>
-----------------------------------------------------------------------------
(* joinKeepAliveOnce()                                                     *)

JoinReleases(t) == /\ ~keepAliveJoined /\ keepAliveJoined' = TRUE
                   /\ Enters(t, "out", IF keepAliveCount = 1 THEN "joinSignal" ELSE "join")
                   /\ keepAliveCount' = keepAliveCount - 1
                   /\ UNCHANGED <<keepAliveRelease, cur, token, destroyed>>

JoinSignals(t) == /\ Enters(t, "joinSignal", "join")
                  /\ keepAliveRelease' = keepAliveRelease + 1
                  /\ UNCHANGED <<keepAliveCount, keepAliveJoined, cur, token, destroyed>>

JoinAcquires(t) == /\ Enters(t, "join", "out")
                   /\ keepAliveRelease > 0
                   /\ keepAliveRelease' = keepAliveRelease - 1
                   /\ destroyed' = TRUE
                   /\ UNCHANGED <<keepAliveCount, keepAliveJoined, cur, token>>

LockSteps(t) == LockTakes(t) \/ LockRetries(t) \/ LockFails(t)
JoinSteps(t) == JoinSignals(t) \/ JoinAcquires(t)
-----------------------------------------------------------------------------
KeepAliveTypeOK == /\ keepAliveCount \in Nat
                   /\ keepAliveRelease \in Nat
                   /\ keepAliveJoined \in BOOLEAN
                   /\ kpc \in [Threads -> {"out", "lock", "signal", "joinSignal", "join"}]
                   /\ cur \in [Threads -> Nat]
                   /\ token \in [Threads -> BOOLEAN]
                   /\ destroyed \in BOOLEAN

\* keepAliveRelease_ is a binary semaphore and the count never comes back from 0:
\* whatever the interleaving of lock() with the last release, the semaphore is released
\* once in the life of the object, and not before every token is gone.
ReleasedOnce ==
  /\ keepAliveRelease <= 1
  /\ keepAliveRelease = 1 \/ destroyed =>
       /\ keepAliveCount = 0
       /\ \A t \in Threads : ~token[t] /\ kpc[t] \notin {"signal", "joinSignal"}
=============================================================================
