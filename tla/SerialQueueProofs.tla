------------------------- MODULE SerialQueueProofs -------------------------
(***************************************************************************)
(* SerialQueue for every set of threads and tasks: the type invariant, the *)
(* uniqueness of the token and with it mutual exclusion, that neither the  *)
(* token nor a wakeup is ever lost, what suspend() and activate() hold     *)
(* back, and that the queue is an AbstractSerialQueue.                     *)
(***************************************************************************)
EXTENDS SerialQueue, FiniteSetTheorems, TLAPS

\* What a call that returns does with the thread.
LEMMA ReturnLabel ==
  \A t \in Threads : /\ Return(t) \in {"wait", "body", "idle"}
                     /\ Return(t) = "wait" => waitingFor[t] # NoTask
                     /\ Return(t) = "body" => running[t] # NoTask /\ waitingFor[t] = NoTask
                     /\ Return(t) = "idle" => running[t] = NoTask /\ waitingFor[t] = NoTask
  BY DEF Return

\* The number that suspend() records is one.
LEMMA LateStartsType == LateStarts \in Nat
<1> DEFINE Late == {t \in Threads : pc[t] \in {"retake", "locked", "got"}}
<1>1. IsFiniteSet(Threads)
  BY SerialQueueAssumption DEF SerialQueueAssumption, Threads
<1>2. Cardinality(Late) \in Nat
  <2>1. Late \in SUBSET Threads
    OBVIOUS
  <2> HIDE DEF Late
  <2> QED BY <1>1, <2>1, FS_Subset, FS_CardinalityType
<1> QED BY <1>2 DEF LateStarts

\* In the body of a task there is a task: FinishBody has one to finish.
BodyRuns == \A t \in Threads : pc[t] = "body" => running[t] \in Tasks

TypeInv == TypeOK /\ BodyRuns

LEMMA TypeInductive ==
  /\ Init => TypeInv
  /\ TypeInv /\ [Next]_vars => TypeInv'
<1> USE DEF TypeInv, TypeOK, BodyRuns, Labels
<1>1. Init => TypeInv
  <2> SUFFICES ASSUME Init PROVE TypeInv
    OBVIOUS
  <2>1. suspendCount \in 0..MaxSuspends /\ grace \in Int
    BY SerialQueueAssumption DEF SerialQueueAssumption, Init
  <2>2. pc \in [Threads -> Labels] /\ BodyRuns
    BY DEF Init
  <2>3. threadAttach \in BOOLEAN /\ inactive \in BOOLEAN
    BY Zenon DEF Init
  <2> QED BY <2>1, <2>2, <2>3 DEF Init
<1>2. ASSUME TypeInv, [Next]_vars PROVE TypeInv'
  <2> USE <1>2, SerialQueueAssumption, LateStartsType, ReturnLabel
      DEF SerialQueueAssumption, Goto, queueVars, threadVars, auxVars
  <2>1. ASSUME NEW t \in Threads, NEW x \in Tasks, Async(t, x) PROVE TypeInv'
    BY <2>1 DEF Async, Push
  <2>2. ASSUME NEW t \in Threads, NEW x \in Tasks, Sync(t, x) PROVE TypeInv'
    BY <2>2 DEF Sync, Push
  <2>3. ASSUME NEW t \in Threads, AddReadsInactive(t) PROVE TypeInv'
    BY <2>3 DEF AddReadsInactive
  <2>4. ASSUME NEW t \in Threads, AddReadsSuspendCount(t) PROVE TypeInv'
    BY <2>4 DEF AddReadsSuspendCount
  <2>5. ASSUME NEW t \in Threads, Attach(t) PROVE TypeInv'
    BY <2>5 DEF Attach
  <2>6. ASSUME NEW t \in Threads, Activate(t) PROVE TypeInv'
    BY <2>6 DEF Activate
  <2>7. ASSUME NEW t \in Threads, ActivateReadsSuspendCount(t) PROVE TypeInv'
    BY <2>7 DEF ActivateReadsSuspendCount
  <2>8. ASSUME NEW t \in Threads, Suspend(t) PROVE TypeInv'
    <3>1. suspendCount' \in 0..MaxSuspends
      BY <2>8 DEF Suspend
    <3>2. grace' \in Int
      BY <2>8 DEF Suspend
    <3> QED BY <2>8, <3>1, <3>2 DEF Suspend
  <2>9. ASSUME NEW t \in Threads, Resume(t) PROVE TypeInv'
    <3>1. suspendCount' \in 0..MaxSuspends
      BY <2>9 DEF Resume
    <3>2. grace' \in Int
      BY <2>9 DEF Resume
    <3> QED BY <2>9, <3>1, <3>2 DEF Resume
  <2>10. ASSUME NEW t \in Threads, ResumeReadsInactive(t) PROVE TypeInv'
    BY <2>10 DEF ResumeReadsInactive
  <2>11. ASSUME NEW t \in Threads, CheckSuspended(t) PROVE TypeInv'
    BY <2>11 DEF CheckSuspended
  <2>12. ASSUME NEW t \in Threads, Detach(t) PROVE TypeInv'
    BY <2>12 DEF Detach
  <2>13. ASSUME NEW t \in Threads, Recheck(t) PROVE TypeInv'
    BY <2>13 DEF Recheck
  <2>14. ASSUME NEW t \in Threads, Retake(t) PROVE TypeInv'
    BY <2>14 DEF Retake
  <2>15. ASSUME NEW t \in Threads, NotifyEmpty(t) PROVE TypeInv'
    BY <2>15 DEF NotifyEmpty
  <2>16. ASSUME NEW t \in Threads, NotifySync(t) PROVE TypeInv'
    BY <2>16 DEF NotifySync
  <2>17. ASSUME NEW t \in Threads, NotifyAsync(t) PROVE TypeInv'
    BY <2>17 DEF NotifyAsync
  <2>18. ASSUME NEW t \in Threads, Enqueue(t) PROVE TypeInv'
    BY <2>18 DEF Enqueue
  <2>19. ASSUME NEW t \in Threads, TakeRef(t) PROVE TypeInv'
    BY <2>19 DEF TakeRef
  <2>20. ASSUME NEW t \in Threads, TryTake(t) PROVE TypeInv'
    BY <2>20 DEF TryTake
  <2>21. ASSUME NEW t \in Threads, TryTakeEmpty(t) PROVE TypeInv'
    BY <2>21 DEF TryTakeEmpty
  <2>22. ASSUME NEW t \in Threads, PerformSync(t) PROVE TypeInv'
    BY <2>22 DEF PerformSync
  <2>23. ASSUME NEW t \in Threads, PerformAsync(t) PROVE TypeInv'
    BY <2>23 DEF PerformAsync, SpendGrace
  <2>24. ASSUME NEW t \in Threads, AcquireSync(t) PROVE TypeInv'
    BY <2>24 DEF AcquireSync, SpendGrace, Tasks
  <2>25. ASSUME NEW t \in Threads, FinishBody(t) PROVE TypeInv'
    BY <2>25 DEF FinishBody
  <2>26. CASE UNCHANGED vars
    BY <2>26 DEF vars
  <2> QED
    BY <2>1, <2>2, <2>3, <2>4, <2>5, <2>6, <2>7, <2>8, <2>9, <2>10, <2>11, <2>12, <2>13,
       <2>14, <2>15, <2>16, <2>17, <2>18, <2>19, <2>20, <2>21, <2>22, <2>23, <2>24, <2>25,
       <2>26 DEF Next, Call, Progress
<1> QED BY <1>1, <1>2

\* Every variable keeps its type, whatever the threads do.
THEOREM TypeCorrect == SafeSpec => []TypeOK
<1>1. TypeInv => TypeOK
  BY DEF TypeInv
<1> QED BY <1>1, TypeInductive, PTL DEF SafeSpec

-----------------------------------------------------------------------------
\* A thread that decides for the queue executes nothing, and one that has taken
\* a task has it.
DecidesOnly ==
  \A t \in Threads :
    /\ pc[t] \in {"idle", "check", "detach", "recheck", "retake", "locked", "enqueue"}
         => running[t] = NoTask
    /\ pc[t] = "got" => running[t] # NoTask

TokenInv == TypeInv /\ DecidesOnly /\ TokenUnique

LEMMA TokenInductive ==
  /\ Init => TokenInv
  /\ TokenInv /\ [Next]_vars => TokenInv'
<1>1. Init => TokenInv
  BY TypeInductive DEF TokenInv, DecidesOnly, TokenUnique, HoldsToken, Executing, Init
<1>2. ASSUME TokenInv, [Next]_vars PROVE TokenInv'
  <2>0. TypeInv /\ TypeInv'
    BY <1>2, TypeInductive DEF TokenInv
  <2>a. NoTask \notin Tasks
    BY SerialQueueAssumption DEF SerialQueueAssumption, Tasks
  <2> SUFFICES (DecidesOnly /\ TokenUnique)'
    BY <2>0 DEF TokenInv
  <2> USE <1>2, <2>0, <2>a, ReturnLabel
      DEF TokenInv, TypeInv, TypeOK, BodyRuns, DecidesOnly, TokenUnique, HoldsToken,
          Executing, MayCall, Goto, queueVars, threadVars, auxVars
  <2>1. ASSUME NEW t \in Threads, NEW x \in Tasks, Async(t, x) PROVE (DecidesOnly /\ TokenUnique)'
    BY <2>1 DEF Async, Push
  <2>2. ASSUME NEW t \in Threads, NEW x \in Tasks, Sync(t, x) PROVE (DecidesOnly /\ TokenUnique)'
    BY <2>2 DEF Sync, Push
  <2>3. ASSUME NEW t \in Threads, AddReadsInactive(t) PROVE (DecidesOnly /\ TokenUnique)'
    BY <2>3 DEF AddReadsInactive
  <2>4. ASSUME NEW t \in Threads, AddReadsSuspendCount(t) PROVE (DecidesOnly /\ TokenUnique)'
    BY <2>4 DEF AddReadsSuspendCount
  <2>5. ASSUME NEW t \in Threads, Attach(t) PROVE (DecidesOnly /\ TokenUnique)'
    BY <2>5 DEF Attach
  <2>6. ASSUME NEW t \in Threads, Activate(t) PROVE (DecidesOnly /\ TokenUnique)'
    BY <2>6 DEF Activate
  <2>7. ASSUME NEW t \in Threads, ActivateReadsSuspendCount(t) PROVE (DecidesOnly /\ TokenUnique)'
    BY <2>7 DEF ActivateReadsSuspendCount
  <2>8. ASSUME NEW t \in Threads, Suspend(t) PROVE (DecidesOnly /\ TokenUnique)'
    BY <2>8 DEF Suspend
  <2>9. ASSUME NEW t \in Threads, Resume(t) PROVE (DecidesOnly /\ TokenUnique)'
    BY <2>9 DEF Resume
  <2>10. ASSUME NEW t \in Threads, ResumeReadsInactive(t) PROVE (DecidesOnly /\ TokenUnique)'
    BY <2>10 DEF ResumeReadsInactive
  <2>11. ASSUME NEW t \in Threads, CheckSuspended(t) PROVE (DecidesOnly /\ TokenUnique)'
    BY <2>11 DEF CheckSuspended
  <2>12. ASSUME NEW t \in Threads, Detach(t) PROVE (DecidesOnly /\ TokenUnique)'
    BY <2>12 DEF Detach
  <2>13. ASSUME NEW t \in Threads, Recheck(t) PROVE (DecidesOnly /\ TokenUnique)'
    BY <2>13 DEF Recheck
  <2>14. ASSUME NEW t \in Threads, Retake(t) PROVE (DecidesOnly /\ TokenUnique)'
    BY <2>14 DEF Retake
  <2>15. ASSUME NEW t \in Threads, NotifyEmpty(t) PROVE (DecidesOnly /\ TokenUnique)'
    BY <2>15 DEF NotifyEmpty
  <2>16. ASSUME NEW t \in Threads, NotifySync(t) PROVE (DecidesOnly /\ TokenUnique)'
    BY <2>16 DEF NotifySync
  <2>17. ASSUME NEW t \in Threads, NotifyAsync(t) PROVE (DecidesOnly /\ TokenUnique)'
    BY <2>17 DEF NotifyAsync
  <2>18. ASSUME NEW t \in Threads, Enqueue(t) PROVE (DecidesOnly /\ TokenUnique)'
    BY <2>18 DEF Enqueue
  <2>19. ASSUME NEW t \in Threads, TakeRef(t) PROVE (DecidesOnly /\ TokenUnique)'
    BY <2>19 DEF TakeRef
  <2>20. ASSUME NEW t \in Threads, TryTake(t) PROVE (DecidesOnly /\ TokenUnique)'
    BY <2>20 DEF TryTake
  <2>21. ASSUME NEW t \in Threads, TryTakeEmpty(t) PROVE (DecidesOnly /\ TokenUnique)'
    BY <2>21 DEF TryTakeEmpty
  <2>22. ASSUME NEW t \in Threads, PerformSync(t) PROVE (DecidesOnly /\ TokenUnique)'
    BY <2>22 DEF PerformSync
  <2>23. ASSUME NEW t \in Threads, PerformAsync(t) PROVE (DecidesOnly /\ TokenUnique)'
    BY <2>23 DEF PerformAsync
  <2>24. ASSUME NEW t \in Threads, AcquireSync(t) PROVE (DecidesOnly /\ TokenUnique)'
    BY <2>24 DEF AcquireSync
  <2>25. ASSUME NEW t \in Threads, FinishBody(t) PROVE (DecidesOnly /\ TokenUnique)'
    BY <2>25 DEF FinishBody
  <2>26. CASE UNCHANGED vars
    BY <2>26 DEF vars
  <2> QED
    BY <2>1, <2>2, <2>3, <2>4, <2>5, <2>6, <2>7, <2>8, <2>9, <2>10, <2>11,
       <2>12, <2>13, <2>14, <2>15, <2>16, <2>17, <2>18, <2>19, <2>20, <2>21, <2>22,
       <2>23, <2>24, <2>25, <2>26 DEF Next, Call, Progress
<1> QED BY <1>1, <1>2

\* There is never more than one token, wherever it is: with the executor, in the
\* semaphore of a sync task, or with a thread.
THEOREM TokenIsUnique == SafeSpec => []TokenUnique
<1>1. TokenInv => TokenUnique
  BY DEF TokenInv
<1> QED BY <1>1, TokenInductive, PTL DEF SafeSpec

\* Two threads never execute tasks of the queue at the same time.
THEOREM OneTaskAtATime == SafeSpec => []MutualExclusion
<1>1. TokenInv => MutualExclusion
  BY DEF TokenInv, TokenUnique, MutualExclusion, HoldsToken
<1> QED BY <1>1, TokenInductive, PTL DEF SafeSpec
-----------------------------------------------------------------------------
\* A task in an active, unsuspended queue always has somebody attached to the
\* queue or about to try to attach.  The property is inductive given the types.
THEOREM WakeupNeverLost == SafeSpec => []NoLostWakeup
<1>1. Init => NoLostWakeup
  BY DEF Init, NoLostWakeup
<1>2. ASSUME TypeInv, NoLostWakeup, [Next]_vars PROVE NoLostWakeup'
  <2> USE <1>2, SerialQueueAssumption
      DEF SerialQueueAssumption, TypeInv, TypeOK, NoLostWakeup, WillAttach,
          MayCall, Goto, queueVars, threadVars, auxVars
  <2>1. ASSUME NEW t \in Threads, NEW x \in Tasks, Async(t, x) PROVE NoLostWakeup'
    BY <2>1 DEF Async, Push
  <2>2. ASSUME NEW t \in Threads, NEW x \in Tasks, Sync(t, x) PROVE NoLostWakeup'
    BY <2>2 DEF Sync, Push
  <2>3. ASSUME NEW t \in Threads, AddReadsInactive(t) PROVE NoLostWakeup'
    BY <2>3 DEF AddReadsInactive
  <2>4. ASSUME NEW t \in Threads, AddReadsSuspendCount(t) PROVE NoLostWakeup'
    BY <2>4 DEF AddReadsSuspendCount
  <2>5. ASSUME NEW t \in Threads, Attach(t) PROVE NoLostWakeup'
    BY <2>5 DEF Attach
  <2>6. ASSUME NEW t \in Threads, Activate(t) PROVE NoLostWakeup'
    BY <2>6 DEF Activate
  <2>7. ASSUME NEW t \in Threads, ActivateReadsSuspendCount(t) PROVE NoLostWakeup'
    BY <2>7 DEF ActivateReadsSuspendCount
  <2>8. ASSUME NEW t \in Threads, Suspend(t) PROVE NoLostWakeup'
    BY <2>8 DEF Suspend
  <2>9. ASSUME NEW t \in Threads, Resume(t) PROVE NoLostWakeup'
    BY <2>9 DEF Resume
  <2>10. ASSUME NEW t \in Threads, ResumeReadsInactive(t) PROVE NoLostWakeup'
    BY <2>10 DEF ResumeReadsInactive
  <2>11. ASSUME NEW t \in Threads, CheckSuspended(t) PROVE NoLostWakeup'
    BY <2>11 DEF CheckSuspended
  <2>12. ASSUME NEW t \in Threads, Detach(t) PROVE NoLostWakeup'
    BY <2>12 DEF Detach
  <2>13. ASSUME NEW t \in Threads, Recheck(t) PROVE NoLostWakeup'
    BY <2>13 DEF Recheck
  <2>14. ASSUME NEW t \in Threads, Retake(t) PROVE NoLostWakeup'
    BY <2>14 DEF Retake
  <2>15. ASSUME NEW t \in Threads, NotifyEmpty(t) PROVE NoLostWakeup'
    BY <2>15 DEF NotifyEmpty
  <2>16. ASSUME NEW t \in Threads, NotifySync(t) PROVE NoLostWakeup'
    BY <2>16 DEF NotifySync
  <2>17. ASSUME NEW t \in Threads, NotifyAsync(t) PROVE NoLostWakeup'
    BY <2>17 DEF NotifyAsync
  <2>18. ASSUME NEW t \in Threads, Enqueue(t) PROVE NoLostWakeup'
    BY <2>18 DEF Enqueue
  <2>19. ASSUME NEW t \in Threads, TakeRef(t) PROVE NoLostWakeup'
    BY <2>19 DEF TakeRef
  <2>20. ASSUME NEW t \in Threads, TryTake(t) PROVE NoLostWakeup'
    BY <2>20 DEF TryTake
  <2>21. ASSUME NEW t \in Threads, TryTakeEmpty(t) PROVE NoLostWakeup'
    BY <2>21 DEF TryTakeEmpty
  <2>22. ASSUME NEW t \in Threads, PerformSync(t) PROVE NoLostWakeup'
    BY <2>22 DEF PerformSync
  <2>23. ASSUME NEW t \in Threads, PerformAsync(t) PROVE NoLostWakeup'
    BY <2>23 DEF PerformAsync
  <2>24. ASSUME NEW t \in Threads, AcquireSync(t) PROVE NoLostWakeup'
    BY <2>24 DEF AcquireSync
  <2>25. ASSUME NEW t \in Threads, FinishBody(t) PROVE NoLostWakeup'
    BY <2>25 DEF FinishBody
  <2>26. CASE UNCHANGED vars
    BY <2>26 DEF vars
  <2> QED
    BY <2>1, <2>2, <2>3, <2>4, <2>5, <2>6, <2>7, <2>8, <2>9, <2>10, <2>11,
       <2>12, <2>13, <2>14, <2>15, <2>16, <2>17, <2>18, <2>19, <2>20, <2>21, <2>22,
       <2>23, <2>24, <2>25, <2>26 DEF Next, Call, Progress
<1> QED BY <1>1, <1>2, TypeInductive, PTL DEF SafeSpec
-----------------------------------------------------------------------------
\* The tasks of the queue are told apart: each is in one place at most, and none
\* is anywhere before it is submitted.
TasksDistinct ==
  /\ \A i \in 1..Len(taskQueue) : taskQueue[i] \in submitted \ granted
  /\ \A i, j \in 1..Len(taskQueue) : taskQueue[i] = taskQueue[j] => i = j
  /\ granted \subseteq submitted
  /\ \A t \in Threads : pc[t] = "got" =>
       /\ running[t] \in submitted
       /\ \A i \in 1..Len(taskQueue) : taskQueue[i] # running[t]

\* A thread inside sync() is neither free nor in a task, and is not a worker
\* looking for a task.
SyncCalls ==
  \A t \in Threads : waitingFor[t] # NoTask =>
    /\ pc[t] \notin {"idle", "body", "got"}
    /\ pc[t] \in {"check", "detach", "recheck", "retake", "locked"} => caller[t] = "notify"

\* A sync task that is queued, taken or handed over has a thread inside sync().
SyncHasOwner ==
  \A x \in SyncTasks :
    \/ \E i \in 1..Len(taskQueue) : taskQueue[i] = x
    \/ x \in granted
    \/ \E t \in Threads : pc[t] = "got" /\ running[t] = x
    => \E t \in Threads : waitingFor[t] = x

OwnerInv == TokenInv /\ TasksDistinct /\ SyncCalls /\ SyncHasOwner /\ TokenNeverLost

LEMMA OwnerInductive ==
  /\ Init => OwnerInv
  /\ OwnerInv /\ [Next]_vars => OwnerInv'
<1>1. Init => OwnerInv
  <2> SUFFICES ASSUME Init PROVE OwnerInv
    OBVIOUS
  <2>1. TokenInv
    BY TokenInductive
  <2>2. TasksDistinct /\ SyncCalls /\ SyncHasOwner /\ TokenNeverLost
    BY DEF TasksDistinct, SyncCalls, SyncHasOwner, TokenNeverLost, Init
  <2> QED BY <2>1, <2>2 DEF OwnerInv
<1>2. ASSUME OwnerInv, [Next]_vars PROVE TasksDistinct'
  <2>0. TokenInv
    BY <1>2 DEF OwnerInv
  <2> USE <1>2, <2>0, ReturnLabel
      DEF OwnerInv, TokenInv, TypeInv, TypeOK, TasksDistinct, TokenUnique, HoldsToken,
          MayCall, Goto, queueVars, threadVars, auxVars
  <2>1. ASSUME NEW t \in Threads, NEW x \in Tasks, Async(t, x) PROVE TasksDistinct'
    BY <2>1 DEF Async, Push
  <2>2. ASSUME NEW t \in Threads, NEW x \in Tasks, Sync(t, x) PROVE TasksDistinct'
    BY <2>2 DEF Sync, Push
  <2>3. ASSUME NEW t \in Threads, AddReadsInactive(t) PROVE TasksDistinct'
    BY <2>3 DEF AddReadsInactive
  <2>4. ASSUME NEW t \in Threads, AddReadsSuspendCount(t) PROVE TasksDistinct'
    BY <2>4 DEF AddReadsSuspendCount
  <2>5. ASSUME NEW t \in Threads, Attach(t) PROVE TasksDistinct'
    BY <2>5 DEF Attach
  <2>6. ASSUME NEW t \in Threads, Activate(t) PROVE TasksDistinct'
    BY <2>6 DEF Activate
  <2>7. ASSUME NEW t \in Threads, ActivateReadsSuspendCount(t) PROVE TasksDistinct'
    BY <2>7 DEF ActivateReadsSuspendCount
  <2>8. ASSUME NEW t \in Threads, Suspend(t) PROVE TasksDistinct'
    BY <2>8 DEF Suspend
  <2>9. ASSUME NEW t \in Threads, Resume(t) PROVE TasksDistinct'
    BY <2>9 DEF Resume
  <2>10. ASSUME NEW t \in Threads, ResumeReadsInactive(t) PROVE TasksDistinct'
    BY <2>10 DEF ResumeReadsInactive
  <2>11. ASSUME NEW t \in Threads, CheckSuspended(t) PROVE TasksDistinct'
    BY <2>11 DEF CheckSuspended
  <2>12. ASSUME NEW t \in Threads, Detach(t) PROVE TasksDistinct'
    BY <2>12 DEF Detach
  <2>13. ASSUME NEW t \in Threads, Recheck(t) PROVE TasksDistinct'
    BY <2>13 DEF Recheck
  <2>14. ASSUME NEW t \in Threads, Retake(t) PROVE TasksDistinct'
    BY <2>14 DEF Retake
  <2>15. ASSUME NEW t \in Threads, NotifyEmpty(t) PROVE TasksDistinct'
    BY <2>15 DEF NotifyEmpty
  <2>16. ASSUME NEW t \in Threads, NotifySync(t) PROVE TasksDistinct'
    BY <2>16 DEF NotifySync
  <2>17. ASSUME NEW t \in Threads, NotifyAsync(t) PROVE TasksDistinct'
    BY <2>17 DEF NotifyAsync
  <2>18. ASSUME NEW t \in Threads, Enqueue(t) PROVE TasksDistinct'
    BY <2>18 DEF Enqueue
  <2>19. ASSUME NEW t \in Threads, TakeRef(t) PROVE TasksDistinct'
    BY <2>19 DEF TakeRef
  <2>20. ASSUME NEW t \in Threads, TryTake(t) PROVE TasksDistinct'
    BY <2>20 DEF TryTake
  <2>21. ASSUME NEW t \in Threads, TryTakeEmpty(t) PROVE TasksDistinct'
    BY <2>21 DEF TryTakeEmpty
  <2>22. ASSUME NEW t \in Threads, PerformSync(t) PROVE TasksDistinct'
    BY <2>22 DEF PerformSync
  <2>23. ASSUME NEW t \in Threads, PerformAsync(t) PROVE TasksDistinct'
    BY <2>23 DEF PerformAsync
  <2>24. ASSUME NEW t \in Threads, AcquireSync(t) PROVE TasksDistinct'
    BY <2>24 DEF AcquireSync
  <2>25. ASSUME NEW t \in Threads, FinishBody(t) PROVE TasksDistinct'
    BY <2>25 DEF FinishBody
  <2>26. CASE UNCHANGED vars
    BY <2>26 DEF vars
  <2> QED
    BY <2>1, <2>2, <2>3, <2>4, <2>5, <2>6, <2>7, <2>8, <2>9, <2>10, <2>11,
       <2>12, <2>13, <2>14, <2>15, <2>16, <2>17, <2>18, <2>19, <2>20, <2>21, <2>22,
       <2>23, <2>24, <2>25, <2>26 DEF Next, Call, Progress
<1>3. ASSUME OwnerInv, [Next]_vars PROVE SyncCalls'
  <2>0. TokenInv
    BY <1>3 DEF OwnerInv
  <2>a. NoTask \notin Tasks /\ Tasks = AsyncTasks \cup SyncTasks
    BY SerialQueueAssumption DEF SerialQueueAssumption, Tasks
  <2> USE <1>3, <2>0, <2>a, ReturnLabel
      DEF OwnerInv, TokenInv, TypeInv, TypeOK, SyncCalls, MayCall, Goto, queueVars, threadVars,
          auxVars
  <2>1. ASSUME NEW t \in Threads, NEW x \in Tasks, Async(t, x) PROVE SyncCalls'
    BY <2>1 DEF Async, Push
  <2>2. ASSUME NEW t \in Threads, NEW x \in Tasks, Sync(t, x) PROVE SyncCalls'
    BY <2>2 DEF Sync, Push
  <2>3. ASSUME NEW t \in Threads, AddReadsInactive(t) PROVE SyncCalls'
    BY <2>3 DEF AddReadsInactive
  <2>4. ASSUME NEW t \in Threads, AddReadsSuspendCount(t) PROVE SyncCalls'
    BY <2>4 DEF AddReadsSuspendCount
  <2>5. ASSUME NEW t \in Threads, Attach(t) PROVE SyncCalls'
    BY <2>5 DEF Attach
  <2>6. ASSUME NEW t \in Threads, Activate(t) PROVE SyncCalls'
    BY <2>6 DEF Activate
  <2>7. ASSUME NEW t \in Threads, ActivateReadsSuspendCount(t) PROVE SyncCalls'
    BY <2>7 DEF ActivateReadsSuspendCount
  <2>8. ASSUME NEW t \in Threads, Suspend(t) PROVE SyncCalls'
    BY <2>8 DEF Suspend
  <2>9. ASSUME NEW t \in Threads, Resume(t) PROVE SyncCalls'
    BY <2>9 DEF Resume
  <2>10. ASSUME NEW t \in Threads, ResumeReadsInactive(t) PROVE SyncCalls'
    BY <2>10 DEF ResumeReadsInactive
  <2>11. ASSUME NEW t \in Threads, CheckSuspended(t) PROVE SyncCalls'
    BY <2>11 DEF CheckSuspended
  <2>12. ASSUME NEW t \in Threads, Detach(t) PROVE SyncCalls'
    BY <2>12 DEF Detach
  <2>13. ASSUME NEW t \in Threads, Recheck(t) PROVE SyncCalls'
    BY <2>13 DEF Recheck
  <2>14. ASSUME NEW t \in Threads, Retake(t) PROVE SyncCalls'
    BY <2>14 DEF Retake
  <2>15. ASSUME NEW t \in Threads, NotifyEmpty(t) PROVE SyncCalls'
    BY <2>15 DEF NotifyEmpty
  <2>16. ASSUME NEW t \in Threads, NotifySync(t) PROVE SyncCalls'
    BY <2>16 DEF NotifySync
  <2>17. ASSUME NEW t \in Threads, NotifyAsync(t) PROVE SyncCalls'
    BY <2>17 DEF NotifyAsync
  <2>18. ASSUME NEW t \in Threads, Enqueue(t) PROVE SyncCalls'
    BY <2>18 DEF Enqueue
  <2>19. ASSUME NEW t \in Threads, TakeRef(t) PROVE SyncCalls'
    BY <2>19 DEF TakeRef
  <2>20. ASSUME NEW t \in Threads, TryTake(t) PROVE SyncCalls'
    BY <2>20 DEF TryTake
  <2>21. ASSUME NEW t \in Threads, TryTakeEmpty(t) PROVE SyncCalls'
    BY <2>21 DEF TryTakeEmpty
  <2>22. ASSUME NEW t \in Threads, PerformSync(t) PROVE SyncCalls'
    BY <2>22 DEF PerformSync
  <2>23. ASSUME NEW t \in Threads, PerformAsync(t) PROVE SyncCalls'
    BY <2>23 DEF PerformAsync
  <2>24. ASSUME NEW t \in Threads, AcquireSync(t) PROVE SyncCalls'
    BY <2>24 DEF AcquireSync
  <2>25. ASSUME NEW t \in Threads, FinishBody(t) PROVE SyncCalls'
    BY <2>25 DEF FinishBody
  <2>26. CASE UNCHANGED vars
    BY <2>26 DEF vars
  <2> QED
    BY <2>1, <2>2, <2>3, <2>4, <2>5, <2>6, <2>7, <2>8, <2>9, <2>10, <2>11,
       <2>12, <2>13, <2>14, <2>15, <2>16, <2>17, <2>18, <2>19, <2>20, <2>21, <2>22,
       <2>23, <2>24, <2>25, <2>26 DEF Next, Call, Progress
<1>4. ASSUME OwnerInv, [Next]_vars PROVE SyncHasOwner'
  <2>0. TokenInv
    BY <1>4 DEF OwnerInv
  <2>a. NoTask \notin Tasks /\ AsyncTasks \cap SyncTasks = {}
    BY SerialQueueAssumption DEF SerialQueueAssumption, Tasks
  <2> USE <1>4, <2>0, <2>a, ReturnLabel
      DEF OwnerInv, TokenInv, TypeInv, TypeOK, SyncCalls, TasksDistinct,
          TokenUnique, HoldsToken, SyncHasOwner, MayCall, Goto, queueVars, threadVars,
          auxVars
  <2>1. ASSUME NEW t \in Threads, NEW x \in Tasks, Async(t, x) PROVE SyncHasOwner'
    BY <2>1 DEF Async, Push
  <2>2. ASSUME NEW t \in Threads, NEW x \in Tasks, Sync(t, x) PROVE SyncHasOwner'
    BY <2>2 DEF Sync, Push
  <2>3. ASSUME NEW t \in Threads, AddReadsInactive(t) PROVE SyncHasOwner'
    BY <2>3 DEF AddReadsInactive
  <2>4. ASSUME NEW t \in Threads, AddReadsSuspendCount(t) PROVE SyncHasOwner'
    BY <2>4 DEF AddReadsSuspendCount
  <2>5. ASSUME NEW t \in Threads, Attach(t) PROVE SyncHasOwner'
    BY <2>5 DEF Attach
  <2>6. ASSUME NEW t \in Threads, Activate(t) PROVE SyncHasOwner'
    BY <2>6 DEF Activate
  <2>7. ASSUME NEW t \in Threads, ActivateReadsSuspendCount(t) PROVE SyncHasOwner'
    BY <2>7 DEF ActivateReadsSuspendCount
  <2>8. ASSUME NEW t \in Threads, Suspend(t) PROVE SyncHasOwner'
    BY <2>8 DEF Suspend
  <2>9. ASSUME NEW t \in Threads, Resume(t) PROVE SyncHasOwner'
    BY <2>9 DEF Resume
  <2>10. ASSUME NEW t \in Threads, ResumeReadsInactive(t) PROVE SyncHasOwner'
    BY <2>10 DEF ResumeReadsInactive
  <2>11. ASSUME NEW t \in Threads, CheckSuspended(t) PROVE SyncHasOwner'
    BY <2>11 DEF CheckSuspended
  <2>12. ASSUME NEW t \in Threads, Detach(t) PROVE SyncHasOwner'
    BY <2>12 DEF Detach
  <2>13. ASSUME NEW t \in Threads, Recheck(t) PROVE SyncHasOwner'
    BY <2>13 DEF Recheck
  <2>14. ASSUME NEW t \in Threads, Retake(t) PROVE SyncHasOwner'
    BY <2>14 DEF Retake
  <2>15. ASSUME NEW t \in Threads, NotifyEmpty(t) PROVE SyncHasOwner'
    BY <2>15 DEF NotifyEmpty
  <2>16. ASSUME NEW t \in Threads, NotifySync(t) PROVE SyncHasOwner'
    BY <2>16 DEF NotifySync
  <2>17. ASSUME NEW t \in Threads, NotifyAsync(t) PROVE SyncHasOwner'
    BY <2>17 DEF NotifyAsync
  <2>18. ASSUME NEW t \in Threads, Enqueue(t) PROVE SyncHasOwner'
    BY <2>18 DEF Enqueue
  <2>19. ASSUME NEW t \in Threads, TakeRef(t) PROVE SyncHasOwner'
    BY <2>19 DEF TakeRef
  <2>20. ASSUME NEW t \in Threads, TryTake(t) PROVE SyncHasOwner'
    BY <2>20 DEF TryTake
  <2>21. ASSUME NEW t \in Threads, TryTakeEmpty(t) PROVE SyncHasOwner'
    BY <2>21 DEF TryTakeEmpty
  <2>22. ASSUME NEW t \in Threads, PerformSync(t) PROVE SyncHasOwner'
    BY <2>22 DEF PerformSync
  <2>23. ASSUME NEW t \in Threads, PerformAsync(t) PROVE SyncHasOwner'
    BY <2>23 DEF PerformAsync
  <2>24. ASSUME NEW t \in Threads, AcquireSync(t) PROVE SyncHasOwner'
    BY <2>24 DEF AcquireSync
  <2>25. ASSUME NEW t \in Threads, FinishBody(t) PROVE SyncHasOwner'
    BY <2>25 DEF FinishBody
  <2>26. CASE UNCHANGED vars
    BY <2>26 DEF vars
  <2> QED
    BY <2>1, <2>2, <2>3, <2>4, <2>5, <2>6, <2>7, <2>8, <2>9, <2>10, <2>11,
       <2>12, <2>13, <2>14, <2>15, <2>16, <2>17, <2>18, <2>19, <2>20, <2>21, <2>22,
       <2>23, <2>24, <2>25, <2>26 DEF Next, Call, Progress
<1>5. ASSUME OwnerInv, [Next]_vars PROVE TokenNeverLost'
  <2>0. TokenInv
    BY <1>5 DEF OwnerInv
  <2>a. NoTask \notin SyncTasks
    BY SerialQueueAssumption DEF SerialQueueAssumption
  <2> USE <1>5, <2>0, <2>a, ReturnLabel
      DEF OwnerInv, TokenInv, TypeInv, TypeOK, BodyRuns, DecidesOnly, TokenUnique,
          HoldsToken, Executing, TokenNeverLost, MayCall, Goto, queueVars, threadVars,
          auxVars
  <2>1. ASSUME NEW t \in Threads, NEW x \in Tasks, Async(t, x) PROVE TokenNeverLost'
    BY <2>1 DEF Async, Push
  <2>2. ASSUME NEW t \in Threads, NEW x \in Tasks, Sync(t, x) PROVE TokenNeverLost'
    BY <2>2 DEF Sync, Push, SyncCalls, SyncHasOwner
  <2>3. ASSUME NEW t \in Threads, AddReadsInactive(t) PROVE TokenNeverLost'
    BY <2>3 DEF AddReadsInactive
  <2>4. ASSUME NEW t \in Threads, AddReadsSuspendCount(t) PROVE TokenNeverLost'
    BY <2>4 DEF AddReadsSuspendCount
  <2>5. ASSUME NEW t \in Threads, Attach(t) PROVE TokenNeverLost'
    BY <2>5 DEF Attach
  <2>6. ASSUME NEW t \in Threads, Activate(t) PROVE TokenNeverLost'
    BY <2>6 DEF Activate
  <2>7. ASSUME NEW t \in Threads, ActivateReadsSuspendCount(t) PROVE TokenNeverLost'
    BY <2>7 DEF ActivateReadsSuspendCount
  <2>8. ASSUME NEW t \in Threads, Suspend(t) PROVE TokenNeverLost'
    BY <2>8 DEF Suspend
  <2>9. ASSUME NEW t \in Threads, Resume(t) PROVE TokenNeverLost'
    BY <2>9 DEF Resume
  <2>10. ASSUME NEW t \in Threads, ResumeReadsInactive(t) PROVE TokenNeverLost'
    BY <2>10 DEF ResumeReadsInactive
  <2>11. ASSUME NEW t \in Threads, CheckSuspended(t) PROVE TokenNeverLost'
    BY <2>11 DEF CheckSuspended
  <2>12. ASSUME NEW t \in Threads, Detach(t) PROVE TokenNeverLost'
    BY <2>12 DEF Detach
  <2>13. ASSUME NEW t \in Threads, Recheck(t) PROVE TokenNeverLost'
    BY <2>13 DEF Recheck
  <2>14. ASSUME NEW t \in Threads, Retake(t) PROVE TokenNeverLost'
    BY <2>14 DEF Retake
  <2>15. ASSUME NEW t \in Threads, NotifyEmpty(t) PROVE TokenNeverLost'
    BY <2>15 DEF NotifyEmpty
  <2>16. ASSUME NEW t \in Threads, NotifySync(t) PROVE TokenNeverLost'
    <3> DEFINE x == Head(taskQueue)
    <3>1. x \in SyncTasks /\ x = taskQueue[1] /\ 1 \in 1..Len(taskQueue)
      BY <2>16 DEF NotifySync
    <3>2. PICK u \in Threads : waitingFor[u] = x
      BY <3>1 DEF SyncHasOwner
    <3>3. x \in granted' /\ waitingFor'[u] = x
      BY <2>16, <3>2 DEF NotifySync
    <3> QED BY <3>3
  <2>17. ASSUME NEW t \in Threads, NotifyAsync(t) PROVE TokenNeverLost'
    BY <2>17 DEF NotifyAsync
  <2>18. ASSUME NEW t \in Threads, Enqueue(t) PROVE TokenNeverLost'
    BY <2>18 DEF Enqueue
  <2>19. ASSUME NEW t \in Threads, TakeRef(t) PROVE TokenNeverLost'
    BY <2>19 DEF TakeRef
  <2>20. ASSUME NEW t \in Threads, TryTake(t) PROVE TokenNeverLost'
    BY <2>20 DEF TryTake
  <2>21. ASSUME NEW t \in Threads, TryTakeEmpty(t) PROVE TokenNeverLost'
    BY <2>21 DEF TryTakeEmpty
  <2>22. ASSUME NEW t \in Threads, PerformSync(t) PROVE TokenNeverLost'
    BY <2>22 DEF PerformSync, SyncCalls, SyncHasOwner
  <2>23. ASSUME NEW t \in Threads, PerformAsync(t) PROVE TokenNeverLost'
    BY <2>23 DEF PerformAsync
  <2>24. ASSUME NEW t \in Threads, AcquireSync(t) PROVE TokenNeverLost'
    BY <2>24 DEF AcquireSync, SyncCalls, SyncHasOwner
  <2>25. ASSUME NEW t \in Threads, FinishBody(t) PROVE TokenNeverLost'
    BY <2>25 DEF FinishBody
  <2>26. CASE UNCHANGED vars
    BY <2>26 DEF vars
  <2> QED
    BY <2>1, <2>2, <2>3, <2>4, <2>5, <2>6, <2>7, <2>8, <2>9, <2>10, <2>11,
       <2>12, <2>13, <2>14, <2>15, <2>16, <2>17, <2>18, <2>19, <2>20, <2>21, <2>22,
       <2>23, <2>24, <2>25, <2>26 DEF Next, Call, Progress
<1> QED BY <1>1, <1>2, <1>3, <1>4, <1>5, TokenInductive DEF OwnerInv

\* The token is never lost: as long as threadAttach_ is set, somebody has it or is
\* about to be woken with it, so the queue cannot go dead.
THEOREM TokenIsNeverLost == SafeSpec => []TokenNeverLost
<1>1. OwnerInv => TokenNeverLost
  BY DEF OwnerInv
<1> QED BY <1>1, OwnerInductive, PTL DEF SafeSpec
-----------------------------------------------------------------------------
(* suspend() and activate(): what may start, and when.                     *)

\* The steps that start, finish, submit and hand over nothing, and leave the state of
\* suspension alone
Plain(t) ==
  \/ AddReadsInactive(t) \/ AddReadsSuspendCount(t) \/ Attach(t)
  \/ ActivateReadsSuspendCount(t) \/ ResumeReadsInactive(t)
  \/ CheckSuspended(t) \/ Detach(t) \/ Recheck(t) \/ Retake(t)
  \/ NotifyEmpty(t) \/ NotifyAsync(t) \/ Enqueue(t) \/ TakeRef(t) \/ TryTakeEmpty(t)

\* Labels of a thread that goes on with the next task whatever suspendCount_ becomes
LateLabels == {"retake", "locked", "got"}

Late == {t \in Threads : pc[t] \in LateLabels}

\* Each of them moves one thread, which decides to go on only in an unsuspended queue.
LEMMA PlainSteps ==
  ASSUME TypeOK, NEW t \in Threads, Plain(t)
  PROVE  /\ UNCHANGED <<taskQueue, suspendCount, inactive, granted, running, waitingFor,
                        submitted, finished, grace>>
         /\ \E l : /\ Goto(t, l)
                   /\ pc[t] \notin {"got", "body"} /\ l # "got"
                   /\ l \in LateLabels => pc[t] \in LateLabels \/ suspendCount = 0
                   /\ l \notin {"check", "detach", "recheck", "retake", "locked", "enqueue"}
                        => l \in {Return(t), "idle", "addSuspend", "attach"}
                   /\ l = "recheck" => pc[t] = "detach"
                   /\ l = "retake" => pc[t] = "recheck"
<1> USE DEF queueVars, auxVars, LateLabels
<1>0. Return(t) \in {"wait", "body", "idle"}
  BY ReturnLabel
<1>a. suspendCount \in Nat
  BY SerialQueueAssumption DEF TypeOK, SerialQueueAssumption
<1>1. CASE AddReadsInactive(t) \/ AddReadsSuspendCount(t)
  BY <1>0, <1>1 DEF AddReadsInactive, AddReadsSuspendCount
<1>2. CASE Attach(t)
  BY <1>0, <1>2 DEF Attach
<1>3. CASE ActivateReadsSuspendCount(t) \/ ResumeReadsInactive(t)
  BY <1>0, <1>3 DEF ActivateReadsSuspendCount, ResumeReadsInactive
<1>4. CASE CheckSuspended(t) \/ Detach(t)
  BY <1>0, <1>a, <1>4 DEF CheckSuspended, Detach
<1>5. CASE Recheck(t)
  BY <1>0, <1>a, <1>5 DEF Recheck
<1>6. CASE Retake(t)
  BY <1>0, <1>6 DEF Retake
<1>7. CASE NotifyEmpty(t) \/ NotifyAsync(t) \/ Enqueue(t)
  BY <1>0, <1>7 DEF NotifyEmpty, NotifyAsync, Enqueue
<1>8. CASE TakeRef(t) \/ TryTakeEmpty(t)
  BY <1>0, <1>8 DEF TakeRef, TryTakeEmpty
<1> QED BY <1>1, <1>2, <1>3, <1>4, <1>5, <1>6, <1>7, <1>8 DEF Plain

\* Before activate() nobody gets far enough to attach.
Dormant == inactive => /\ ~threadAttach
                       /\ \A t \in Threads : pc[t] \in {"idle", "wait", "addActive",
                                                        "resumeActive"}

LEMMA DormantInductive ==
  /\ Init => Dormant
  /\ Dormant /\ TokenInv /\ [Next]_vars => Dormant'
<1>1. Init => Dormant
  BY DEF Init, Dormant
<1>2. ASSUME Dormant, TokenInv, [Next]_vars PROVE Dormant'
  <2>0. CASE ~inactive'
    BY <2>0 DEF Dormant
  <2>1. CASE inactive'
    <3>0. inactive
      BY <1>2, <2>1 DEF Next, Call, Progress, Async, Sync, Push, Activate, Suspend, Resume,
        AddReadsInactive, AddReadsSuspendCount, Attach, ActivateReadsSuspendCount,
        ResumeReadsInactive, CheckSuspended, Detach, Recheck, Retake, NotifyEmpty,
        NotifySync, NotifyAsync, Enqueue, TakeRef, TryTake, TryTakeEmpty, PerformSync,
        PerformAsync, AcquireSync, FinishBody, queueVars, vars
    <3>1. /\ ~threadAttach /\ pc \in [Threads -> Labels]
          /\ \A t \in Threads : pc[t] \in {"idle", "wait", "addActive", "resumeActive"}
      BY <1>2, <3>0 DEF Dormant, TokenInv, TypeInv, TypeOK
    <3>2. /\ refs = 0 /\ granted = {}
          /\ \A t \in Threads : running[t] = NoTask
      BY <1>2, <3>1 DEF TokenInv, TokenUnique, HoldsToken, Executing, TypeInv, TypeOK
    <3>3. \A t \in Threads : Return(t) \in {"wait", "idle"}
      BY <3>2 DEF Return
    <3> USE <2>1, <3>0, <3>1, <3>2, <3>3 DEF Dormant, MayCall, Goto, queueVars, threadVars
    <3>4. ASSUME NEW t \in Threads, NEW x \in Tasks, Async(t, x) \/ Sync(t, x) PROVE Dormant'
      BY <3>4 DEF Async, Sync, Push
    <3>5. ASSUME NEW t \in Threads, Activate(t) \/ Suspend(t) \/ Resume(t) PROVE Dormant'
      BY <3>5 DEF Activate, Suspend, Resume
    <3>6. ASSUME NEW t \in Threads,
                 AddReadsInactive(t) \/ AddReadsSuspendCount(t) \/ Attach(t)
          PROVE  Dormant'
      BY <3>6 DEF AddReadsInactive, AddReadsSuspendCount, Attach
    <3>7. ASSUME NEW t \in Threads, ActivateReadsSuspendCount(t) \/ ResumeReadsInactive(t)
          PROVE  Dormant'
      BY <3>7 DEF ActivateReadsSuspendCount, ResumeReadsInactive
    <3>8. ASSUME NEW t \in Threads, \/ CheckSuspended(t) \/ Detach(t) \/ Recheck(t) \/ Retake(t)
                                    \/ NotifyEmpty(t) \/ NotifySync(t) \/ NotifyAsync(t)
          PROVE  Dormant'
      BY <3>8 DEF CheckSuspended, Detach, Recheck, Retake, NotifyEmpty, NotifySync,
         NotifyAsync
    <3>9. ASSUME NEW t \in Threads, \/ Enqueue(t) \/ TakeRef(t) \/ TryTake(t)
                                    \/ TryTakeEmpty(t) \/ PerformSync(t) \/ PerformAsync(t)
          PROVE  Dormant'
      BY <3>9 DEF Enqueue, TakeRef, TryTake, TryTakeEmpty, PerformSync, PerformAsync
    <3>10. ASSUME NEW t \in Threads, AcquireSync(t) \/ FinishBody(t) PROVE Dormant'
      BY <3>10 DEF AcquireSync, FinishBody
    <3>11. CASE UNCHANGED vars
      BY <3>11 DEF vars
    <3> QED BY <1>2, <3>4, <3>5, <3>6, <3>7, <3>8, <3>9, <3>10, <3>11 DEF Next, Call,
               Progress
  <2> QED BY <2>0, <2>1
<1> QED BY <1>1, <1>2

\* The sets that LateStarts counts can be counted.
LEMMA LateFinite ==
  /\ IsFiniteSet(Late) /\ Cardinality(Late) \in Nat
  /\ LateStarts = Cardinality(Late) + (IF granted = {} THEN 0 ELSE 1)
<1>1. IsFiniteSet(Threads) /\ Late \subseteq Threads
  BY SerialQueueAssumption DEF SerialQueueAssumption, Threads, Late
<1> QED BY <1>1, FS_Subset, FS_CardinalityType DEF LateStarts, Late, LateLabels

\* A suspended queue owes at most the starts that its grace allows.
GraceCovers == suspendCount > 0 => grace >= LateStarts

\* How the steps move the decisions to go on: a plain step adds none to a suspended queue,
\* a task handed over is one in another place, and a start uses one up.
LEMMA LateMoves ==
  ASSUME TokenInv, NEW t \in Threads
  PROVE  /\ suspendCount > 0 /\ Plain(t) => LateStarts' <= LateStarts
         /\ NotifySync(t) \/ PerformSync(t) => LateStarts' = LateStarts
         /\ TryTake(t) => LateStarts' = LateStarts
         /\ PerformAsync(t) \/ AcquireSync(t) => LateStarts' = LateStarts - 1
         /\ FinishBody(t) => LateStarts' = LateStarts
<1>0. /\ IsFiniteSet(Late) /\ Cardinality(Late) \in Nat
      /\ LateStarts = Cardinality(Late) + (IF granted = {} THEN 0 ELSE 1)
      /\ LateStarts' = Cardinality(Late') + (IF granted' = {} THEN 0 ELSE 1)
  BY LateFinite DEF LateStarts, Late, LateLabels
<1>1. pc \in [Threads -> Labels]
  BY DEF TokenInv, TypeInv, TypeOK
<1>2. ASSUME NEW l, Goto(t, l), pc[t] \in LateLabels, l \notin LateLabels
      PROVE  Cardinality(Late') = Cardinality(Late) - 1
  <2>1. t \in Late /\ Late' = Late \ {t}
    BY <1>1, <1>2 DEF Late, Goto
  <2> QED BY <1>0, <2>1, FS_RemoveElement
<1>3. ASSUME NEW l, Goto(t, l), pc[t] \in LateLabels \/ l \notin LateLabels
      PROVE  Cardinality(Late') <= Cardinality(Late) /\ Cardinality(Late') \in Nat
  <2>1. Late' \subseteq Late
    BY <1>1, <1>3 DEF Late, Goto
  <2> QED BY <1>0, <2>1, FS_Subset, FS_CardinalityType
<1>4. ASSUME NEW l, Goto(t, l), pc[t] \in LateLabels <=> l \in LateLabels
      PROVE  Late' = Late
  BY <1>1, <1>4 DEF Late, Goto
<1>5. ASSUME suspendCount > 0, Plain(t) PROVE LateStarts' <= LateStarts
  <2>1. granted' = granted
    BY <1>5, PlainSteps DEF TokenInv, TypeInv
  <2>2. \E l : Goto(t, l) /\ (pc[t] \in LateLabels \/ l \notin LateLabels)
    BY <1>5, PlainSteps DEF TokenInv, TypeInv
  <2>3. Cardinality(Late') <= Cardinality(Late) /\ Cardinality(Late') \in Nat
    BY <1>3, <2>2
  <2> QED BY <1>0, <2>1, <2>3
<1>6. ASSUME NotifySync(t) \/ PerformSync(t) PROVE LateStarts' = LateStarts
  <2>1. granted = {} /\ granted' # {}
    BY <1>6 DEF NotifySync, PerformSync, TokenInv, TokenUnique, HoldsToken
  <2>2. \E l : Goto(t, l) /\ pc[t] \in LateLabels /\ l \notin LateLabels
    BY <1>6, ReturnLabel DEF NotifySync, PerformSync, LateLabels
  <2>3. Cardinality(Late') = Cardinality(Late) - 1
    BY <1>2, <2>2
  <2> QED BY <1>0, <2>1, <2>3
<1>7. ASSUME TryTake(t) PROVE LateStarts' = LateStarts
  <2>1. granted' = granted /\ Late' = Late
    BY <1>4, <1>7 DEF TryTake, LateLabels
  <2> QED BY <1>0, <2>1
<1>8. ASSUME PerformAsync(t) PROVE LateStarts' = LateStarts - 1
  <2>1. granted' = granted /\ Cardinality(Late') = Cardinality(Late) - 1
    BY <1>2, <1>8 DEF PerformAsync, LateLabels
  <2> QED BY <1>0, <2>1
<1>9. ASSUME AcquireSync(t) PROVE LateStarts' = LateStarts - 1
  <2>1. granted # {} /\ granted' = {}
    BY <1>9 DEF AcquireSync, TokenInv, TokenUnique
  <2>2. Late' = Late
    BY <1>4, <1>9 DEF AcquireSync, LateLabels
  <2> QED BY <1>0, <2>1, <2>2
<1>10. ASSUME FinishBody(t) PROVE LateStarts' = LateStarts
  <2>1. granted' = granted /\ Late' = Late
    BY <1>4, <1>10 DEF FinishBody, LateLabels
  <2> QED BY <1>0, <2>1
<1> QED BY <1>5, <1>6, <1>7, <1>8, <1>9, <1>10

\* suspend() records every decision that came before it, and each start pays for one.
LEMMA GraceInductive ==
  /\ Init => GraceCovers
  /\ GraceCovers /\ TokenInv /\ [Next]_vars => GraceCovers'
<1>1. Init => GraceCovers
  BY DEF Init, GraceCovers
<1>2. ASSUME GraceCovers, TokenInv, [Next]_vars PROVE GraceCovers'
  <2>0. /\ LateStarts \in Nat /\ grace \in Int /\ suspendCount \in Nat
        /\ pc \in [Threads -> Labels]
    BY <1>2, LateStartsType DEF TokenInv, TypeInv, TypeOK
  <2>a. LateStarts' \in Nat
    <3>1. (IsFiniteSet(Late) /\ Cardinality(Late) \in Nat)'
      BY LateFinite, PTL
    <3> QED BY <3>1 DEF LateStarts, Late, LateLabels
  <2>1. ASSUME NEW t \in Threads, NEW l, Goto(t, l), pc[t] \notin LateLabels,
               l \notin LateLabels, granted' = granted
        PROVE  LateStarts' = LateStarts
    <3>1. Late' = Late
      BY <2>0, <2>1 DEF Late, Goto
    <3> QED BY <2>1, <3>1 DEF LateStarts, Late, LateLabels
  <2>2. ASSUME NEW t \in Threads, NEW x \in Tasks, Async(t, x) \/ Sync(t, x)
        PROVE  GraceCovers'
    <3>1. LateStarts' = LateStarts /\ UNCHANGED <<suspendCount, grace>>
      BY <2>1, <2>2 DEF Async, Sync, Push, MayCall, LateLabels
    <3> QED BY <1>2, <3>1 DEF GraceCovers
  <2>3. ASSUME NEW t \in Threads, Activate(t) PROVE GraceCovers'
    <3>1. LateStarts' = LateStarts /\ UNCHANGED <<suspendCount, grace>>
      BY <2>1, <2>3 DEF Activate, MayCall, LateLabels, auxVars
    <3> QED BY <1>2, <3>1 DEF GraceCovers
  <2>4. ASSUME NEW t \in Threads, Suspend(t) PROVE GraceCovers'
    <3>1. LateStarts' = LateStarts
      BY <2>4 DEF Suspend, LateStarts, threadVars
    <3> QED BY <1>2, <2>0, <2>4, <3>1 DEF Suspend, GraceCovers
  <2>5. ASSUME NEW t \in Threads, Resume(t) PROVE GraceCovers'
    <3>1. Return(t) \notin LateLabels
      BY ReturnLabel DEF LateLabels
    <3>2. LateStarts' = LateStarts
      BY <2>1, <2>5, <3>1 DEF Resume, MayCall, LateLabels
    <3> QED BY <1>2, <2>0, <2>5, <3>2 DEF Resume, GraceCovers
  <2>6. ASSUME NEW t \in Threads, Plain(t) PROVE GraceCovers'
    <3>1. UNCHANGED <<suspendCount, grace>>
      BY <1>2, <2>6, PlainSteps DEF TokenInv, TypeInv
    <3>2. suspendCount > 0 => LateStarts' <= LateStarts
      BY <1>2, <2>6, LateMoves
    <3> QED BY <1>2, <2>0, <2>a, <3>1, <3>2 DEF GraceCovers
  <2>7. ASSUME NEW t \in Threads,
               NotifySync(t) \/ PerformSync(t) \/ TryTake(t) \/ FinishBody(t)
        PROVE  GraceCovers'
    <3>1. UNCHANGED <<suspendCount, grace>>
      BY <2>7 DEF NotifySync, PerformSync, TryTake, FinishBody, queueVars, auxVars
    <3>2. LateStarts' = LateStarts
      BY <1>2, <2>7, LateMoves
    <3> QED BY <1>2, <3>1, <3>2 DEF GraceCovers
  <2>8. ASSUME NEW t \in Threads, PerformAsync(t) \/ AcquireSync(t) PROVE GraceCovers'
    <3>1. suspendCount' = suspendCount /\ SpendGrace
      BY <2>8 DEF PerformAsync, AcquireSync, queueVars
    <3>2. LateStarts' = LateStarts - 1
      BY <1>2, <2>8, LateMoves
    <3> QED BY <1>2, <2>0, <3>1, <3>2 DEF GraceCovers, SpendGrace
  <2>9. CASE UNCHANGED vars
    BY <1>2, <2>9 DEF GraceCovers, LateStarts, vars, queueVars, threadVars, auxVars
  <2> QED BY <1>2, <2>2, <2>3, <2>4, <2>5, <2>6, <2>7, <2>8, <2>9
       DEF Next, Call, Progress, Plain
<1> QED BY <1>1, <1>2

\* A task starts in the worker that has taken it or in the thread it was handed to.
LEMMA StartSteps ==
  ASSUME TokenInv, Next, NEW t \in Threads, Starts(t)
  PROVE  PerformAsync(t) \/ AcquireSync(t)
<1>0. /\ pc \in [Threads -> Labels] /\ running \in [Threads -> Tasks \cup {NoTask}]
      /\ ~Executing(t) /\ Executing(t)'
  BY DEF Starts, TokenInv, TypeInv, TypeOK
<1> USE <1>0 DEF Executing, Goto, queueVars, threadVars
<1>1. ASSUME NEW u \in Threads, NEW x \in Tasks, Async(u, x) \/ Sync(u, x) PROVE FALSE
  BY <1>1 DEF Async, Sync, Push, MayCall
<1>2. ASSUME NEW u \in Threads, Activate(u) \/ Suspend(u) \/ Resume(u) PROVE FALSE
  BY <1>2 DEF Activate, Suspend, Resume, MayCall
<1>3. ASSUME NEW u \in Threads, Plain(u) PROVE FALSE
  BY <1>3, PlainSteps DEF TokenInv, TypeInv
<1>4. ASSUME NEW u \in Threads, NotifySync(u) \/ TryTake(u) \/ PerformSync(u) \/ FinishBody(u)
      PROVE FALSE
  BY <1>4 DEF NotifySync, TryTake, PerformSync, FinishBody
<1>5. ASSUME NEW u \in Threads, PerformAsync(u) \/ AcquireSync(u)
      PROVE PerformAsync(t) \/ AcquireSync(t)
  BY <1>5 DEF PerformAsync, AcquireSync
<1> QED BY <1>1, <1>2, <1>3, <1>4, <1>5 DEF Next, Call, Progress, Plain

SuspendInv == TokenInv /\ Dormant /\ GraceCovers

\* Nothing starts before activate(), and after suspend() only what was decided before it.
THEOREM SuspendIsRespected == SafeSpec => SuspendHolds
<1>1. Init => SuspendInv
  BY TokenInductive, DormantInductive, GraceInductive DEF SuspendInv
<1>2. SuspendInv /\ [Next]_vars => SuspendInv'
  BY TokenInductive, DormantInductive, GraceInductive DEF SuspendInv
<1>3. SuspendInv /\ [Next]_vars
        => [\A t \in Threads : Starts(t) => ~inactive /\ (suspendCount > 0 => grace > 0)]_vars
  <2> SUFFICES ASSUME SuspendInv, Next, NEW t \in Threads, Starts(t)
               PROVE  ~inactive /\ (suspendCount > 0 => grace > 0)
    OBVIOUS
  <2>1. PerformAsync(t) \/ AcquireSync(t)
    BY StartSteps DEF SuspendInv
  <2>2. ~inactive
    BY <2>1 DEF PerformAsync, AcquireSync, SuspendInv, Dormant, TokenInv, TokenUnique
  <2>3. LateStarts' = LateStarts - 1 /\ LateStarts \in Nat /\ grace \in Int
    BY <2>1, LateMoves, LateStartsType DEF SuspendInv, TokenInv, TypeInv, TypeOK
  <2>4. LateStarts' \in Nat
    <3>1. (IsFiniteSet(Late) /\ Cardinality(Late) \in Nat)'
      BY LateFinite, PTL
    <3> QED BY <3>1 DEF LateStarts, Late, LateLabels
  <2> QED BY <2>2, <2>3, <2>4 DEF SuspendInv, GraceCovers
<1> QED BY <1>1, <1>2, <1>3, PTL DEF SafeSpec, SuspendHolds
-----------------------------------------------------------------------------
(* The queue implements the safety part of AbstractSerialQueue.            *)

\* What a task in front does to a sequence of tasks.
LEMMA InFront ==
  ASSUME NEW q \in Seq(Tasks), NEW x \in Tasks
  PROVE  /\ <<x>> \o q \in Seq(Tasks) /\ <<x>> \o q # <<>>
         /\ Head(<<x>> \o q) = x /\ Tail(<<x>> \o q) = q
         /\ \A y \in Tasks : Append(<<x>> \o q, y) = <<x>> \o Append(q, y)
         /\ \A i \in DOMAIN (<<x>> \o q) : (<<x>> \o q)[i] = x \/ \E j \in 1..Len(q) :
                                                      (<<x>> \o q)[i] = q[j]
  OBVIOUS

\* A sequence is its head in front of its tail.
LEMMA HeadInFront ==
  ASSUME NEW q \in Seq(Tasks), q # <<>>
  PROVE  Head(q) \in Tasks /\ Tail(q) \in Seq(Tasks) /\ <<Head(q)>> \o Tail(q) = q
  OBVIOUS

\* Whatever is known of a task was submitted.
Known == /\ \A t \in Threads : running[t] # NoTask => running[t] \in submitted
         /\ finished \subseteq submitted

LEMMA KnownInductive ==
  /\ Init => Known
  /\ Known /\ OwnerInv /\ [Next]_vars => Known'
<1>1. Init => Known
  BY DEF Init, Known
<1>2. ASSUME Known, OwnerInv, [Next]_vars PROVE Known'
  <2>0. /\ running \in [Threads -> Tasks \cup {NoTask}] /\ taskQueue \in Seq(Tasks)
        /\ \A t \in Threads : pc[t] = "body" => running[t] \in Tasks
        /\ NoTask \notin Tasks
        /\ \A i \in 1..Len(taskQueue) : taskQueue[i] \in submitted
        /\ granted \subseteq submitted
        /\ \A t \in Threads : running[t] # NoTask => running[t] \in submitted
        /\ finished \subseteq submitted
    BY <1>2, SerialQueueAssumption
       DEF OwnerInv, TokenInv, TypeInv, TypeOK, BodyRuns, TasksDistinct, Known,
           SerialQueueAssumption, Tasks
  <2> USE <2>0 DEF Known, queueVars, threadVars, auxVars
  <2>1. ASSUME NEW t \in Threads, NEW x \in Tasks, Async(t, x) \/ Sync(t, x) PROVE Known'
    BY <2>1 DEF Async, Sync, Push
  <2>2. ASSUME NEW t \in Threads, Activate(t) \/ Suspend(t) \/ Resume(t) PROVE Known'
    BY <2>2 DEF Activate, Suspend, Resume
  <2>3. ASSUME NEW t \in Threads, Plain(t) PROVE Known'
    BY <1>2, <2>3, PlainSteps DEF OwnerInv, TokenInv, TypeInv
  <2>4. ASSUME NEW t \in Threads, NotifySync(t) \/ PerformSync(t) \/ PerformAsync(t)
        PROVE  Known'
    BY <2>4 DEF NotifySync, PerformSync, PerformAsync
  <2>5. ASSUME NEW t \in Threads, TryTake(t) PROVE Known'
    <3>1. Head(taskQueue) = taskQueue[1] /\ 1 \in 1..Len(taskQueue)
      BY <2>5 DEF TryTake
    <3> QED BY <2>5, <3>1 DEF TryTake
  <2>6. ASSUME NEW t \in Threads, AcquireSync(t) PROVE Known'
    BY <2>6 DEF AcquireSync
  <2>7. ASSUME NEW t \in Threads, FinishBody(t) PROVE Known'
    BY <2>7 DEF FinishBody
  <2>8. CASE UNCHANGED vars
    BY <2>8 DEF vars
  <2> QED BY <1>2, <2>1, <2>2, <2>3, <2>4, <2>5, <2>6, <2>7, <2>8
       DEF Next, Call, Progress, Plain
<1> QED BY <1>1, <1>2

\* What a caller of the queue sees: the task handed over, if there is one, in front of the
\* tasks in taskQueue_, and the task that some thread executes, if there is one.
Seen == /\ Handed = {} => Pending = taskQueue
        /\ \A x \in Handed : Pending = <<x>> \o taskQueue
        /\ \A t \in Threads : Executing(t) => Current = running[t]
        /\ (\A t \in Threads : ~Executing(t)) => Current = NoTask

\* One task is handed over at a time, and none while a task is executed.
LEMMA SeenAlways == TokenInv => Seen
<1> SUFFICES ASSUME TokenInv PROVE Seen
  OBVIOUS
<1>1. \A x, y \in Handed : x = y
  BY DEF Handed, TokenInv, TokenUnique, HoldsToken
<1>2. Handed = {} => Pending = taskQueue
  BY DEF Pending
<1>3. ASSUME NEW x \in Handed PROVE Pending = <<x>> \o taskQueue
  <2>1. (CHOOSE y \in Handed : TRUE) = x
    BY <1>1
  <2> QED BY <2>1 DEF Pending
<1>4. ASSUME NEW t \in Threads, Executing(t) PROVE Current = running[t]
  <2>1. \A u \in Threads : Executing(u) => u = t
    BY <1>4 DEF TokenInv, TokenUnique, HoldsToken
  <2>2. (CHOOSE u \in Threads : Executing(u)) = t
    BY <1>4, <2>1
  <2> QED BY <1>4, <2>2 DEF Current
<1>5. (\A t \in Threads : ~Executing(t)) => Current = NoTask
  BY DEF Current
<1> QED BY <1>2, <1>3, <1>4, <1>5 DEF Seen

\* A suspend() cannot come too late for more starts than there are threads: the thread
\* that handed a task over does not go on itself.
GiverIsOut == granted # {} => \E t \in Threads : pc[t] \notin {"recheck", "retake"}

LEMMA GiverInductive ==
  /\ Init => GiverIsOut
  /\ GiverIsOut /\ TokenInv /\ [Next]_vars => GiverIsOut'
<1>1. Init => GiverIsOut
  BY DEF Init, GiverIsOut
<1>2. ASSUME GiverIsOut, TokenInv, [Next]_vars PROVE GiverIsOut'
  <2>0. /\ pc \in [Threads -> Labels] /\ TypeOK
        /\ granted # {} => \A t \in Threads : pc[t] # "detach"
    BY <1>2 DEF TokenInv, TypeInv, TypeOK, TokenUnique, HoldsToken
  <2>a. \A t \in Threads : Return(t) \notin {"recheck", "retake"}
    BY ReturnLabel
  <2> USE <1>2, <2>0, <2>a DEF GiverIsOut, MayCall, Goto, queueVars, threadVars
  <2>1. ASSUME NEW t \in Threads, NEW x \in Tasks, Async(t, x) \/ Sync(t, x) PROVE GiverIsOut'
    BY <2>1 DEF Async, Sync, Push
  <2>2. ASSUME NEW t \in Threads, Activate(t) \/ Suspend(t) \/ Resume(t) PROVE GiverIsOut'
    BY <2>2 DEF Activate, Suspend, Resume
  <2>3. ASSUME NEW t \in Threads, Plain(t) PROVE GiverIsOut'
    BY <2>3, PlainSteps
  <2>4. ASSUME NEW t \in Threads,
               \/ NotifySync(t) \/ PerformSync(t) \/ PerformAsync(t) \/ TryTake(t)
               \/ AcquireSync(t) \/ FinishBody(t)
        PROVE  GiverIsOut'
    BY <2>4 DEF NotifySync, PerformSync, PerformAsync, TryTake, AcquireSync, FinishBody
  <2>5. CASE UNCHANGED vars
    BY <2>5 DEF vars
  <2> QED BY <2>1, <2>2, <2>3, <2>4, <2>5 DEF Next, Call, Progress, Plain
<1> QED BY <1>1, <1>2

LEMMA LateBounded == TokenInv /\ GiverIsOut => LateStarts \in 0..Cardinality(Threads)
<1> SUFFICES ASSUME TokenInv, GiverIsOut PROVE LateStarts \in 0..Cardinality(Threads)
  OBVIOUS
<1>1. IsFiniteSet(Threads) /\ Late \subseteq Threads
  BY SerialQueueAssumption DEF SerialQueueAssumption, Threads, Late
<1>2. Cardinality(Threads) \in Nat /\ Cardinality(Late) <= Cardinality(Threads)
  BY <1>1, FS_Subset, FS_CardinalityType
<1>3. CASE granted = {}
  BY <1>2, <1>3, LateFinite
<1>4. CASE granted # {}
  <2>1. PICK t \in Threads : t \notin Late
    BY <1>4 DEF GiverIsOut, Late, LateLabels, TokenInv, TokenUnique, HoldsToken
  <2>2. Late \cup {t} \subseteq Threads /\ Cardinality(Late \cup {t}) = Cardinality(Late) + 1
    BY <1>1, <2>1, LateFinite, FS_AddElement
  <2>3. Cardinality(Late \cup {t}) <= Cardinality(Threads)
    BY <1>1, <2>2, FS_Subset
  <2> QED BY <1>2, <1>4, <2>2, <2>3, LateFinite
<1> QED BY <1>3, <1>4

RefineInv == OwnerInv /\ Dormant /\ GraceCovers /\ Known /\ GiverIsOut

LEMMA RefineInductive ==
  /\ Init => RefineInv
  /\ RefineInv /\ [Next]_vars => RefineInv'
  BY OwnerInductive, DormantInductive, GraceInductive, KnownInductive, GiverInductive
     DEF RefineInv, OwnerInv

\* A task that was not submitted is unknown to the abstract queue.
LEMMA UnknownBefore ==
  ASSUME RefineInv, NEW x \in Tasks, x \notin submitted
  PROVE  x \notin Abstract!Known
<1>0. /\ Seen /\ taskQueue \in Seq(Tasks) /\ x # NoTask
      /\ Handed \subseteq submitted /\ Handed \subseteq Tasks
      /\ \A i \in 1..Len(taskQueue) : taskQueue[i] \in submitted
  BY SeenAlways, SerialQueueAssumption
     DEF RefineInv, OwnerInv, TokenInv, TypeInv, TypeOK, TasksDistinct, Handed, DecidesOnly,
         SerialQueueAssumption, Tasks
<1>1. \A i \in DOMAIN Pending : Pending[i] # x
  <2>1. CASE Handed = {}
    BY <1>0, <2>1 DEF Seen
  <2>2. ASSUME NEW h \in Handed PROVE \A i \in DOMAIN Pending : Pending[i] # x
    <3>1. Pending = <<h>> \o taskQueue /\ h \in submitted /\ h \in Tasks
      BY <1>0, <2>2 DEF Seen
    <3> QED BY <1>0, <3>1, InFront
  <2> QED BY <2>1, <2>2
<1>2. Current # x
  <2>1. CASE \E t \in Threads : Executing(t)
    BY <1>0, <2>1 DEF Seen, Executing, RefineInv, Known
  <2>2. CASE \A t \in Threads : ~Executing(t)
    BY <1>0, <2>2 DEF Seen
  <2> QED BY <2>1, <2>2
<1>3. x \notin finished
  BY DEF RefineInv, Known
<1> QED BY <1>1, <1>2, <1>3 DEF Abstract!Known

\* async() and sync() submit the task behind all others.
LEMMA PushSubmits ==
  ASSUME RefineInv, RefineInv', NEW t \in Threads, NEW x \in Tasks, Async(t, x) \/ Sync(t, x)
  PROVE  Abstract!ASubmit(x)
<1>0. /\ Seen /\ Seen' /\ taskQueue \in Seq(Tasks) /\ pc \in [Threads -> Labels]
      /\ Handed \subseteq Tasks
  <2>1. TokenInv /\ TokenInv'
    BY DEF RefineInv, OwnerInv
  <2>2. Seen /\ Seen'
    BY <2>1, SeenAlways, PTL
  <2> QED BY <2>1, <2>2 DEF TokenInv, TypeInv, TypeOK, Handed, DecidesOnly, Tasks
<1>1. /\ x \notin submitted /\ taskQueue' = Append(taskQueue, x)
      /\ pc' = [pc EXCEPT ![t] = "addActive"] /\ pc[t] \in {"idle", "body"}
      /\ UNCHANGED <<running, granted, suspendCount, inactive, finished, grace>>
  BY DEF Async, Sync, Push, MayCall, Goto
<1>2. Handed' = Handed
  BY <1>0, <1>1 DEF Handed
<1>3. Pending' = Append(Pending, x)
  <2>1. CASE Handed = {}
    BY <1>0, <1>1, <1>2, <2>1 DEF Seen
  <2>2. ASSUME NEW h \in Handed PROVE Pending' = Append(Pending, x)
    <3>1. Pending = <<h>> \o taskQueue
      BY <1>0, <2>2 DEF Seen
    <3>2. Pending' = <<h>> \o Append(taskQueue, x)
      BY <1>0, <1>1, <1>2, <2>2 DEF Seen
    <3>3. Append(<<h>> \o taskQueue, x) = <<h>> \o Append(taskQueue, x)
      BY <1>0, <2>2, InFront
    <3> QED BY <3>1, <3>2, <3>3
  <2> QED BY <2>1, <2>2
<1>4. \A u \in Threads : Executing(u)' <=> Executing(u)
  BY <1>0, <1>1 DEF Executing
<1>5. Current' = Current
  BY <1>0, <1>1, <1>4 DEF Seen
<1>6. x \notin Abstract!Known
  BY <1>1, UnknownBefore
<1> QED BY <1>1, <1>3, <1>5, <1>6 DEF Abstract!ASubmit

\* Steps that keep the tasks in place are invisible to the callers.
LEMMA SameView ==
  ASSUME RefineInv, RefineInv', Handed' = Handed, UNCHANGED <<taskQueue, running>>,
         \A u \in Threads : Executing(u)' <=> Executing(u)
  PROVE  Pending' = Pending /\ Current' = Current
<1>1. TokenInv /\ TokenInv'
  BY DEF RefineInv, OwnerInv
<1>2. Seen /\ Seen'
  BY <1>1, SeenAlways, PTL
<1>3. Pending' = Pending
  <2>1. CASE Handed = {}
    BY <1>2, <2>1 DEF Seen
  <2>2. ASSUME NEW h \in Handed PROVE Pending' = Pending
    <3>1. Pending = <<h>> \o taskQueue
      BY <1>2, <2>2 DEF Seen
    <3>2. Pending' = <<h>> \o taskQueue'
      BY <1>2, <2>2 DEF Seen
    <3> QED BY <3>1, <3>2
  <2> QED BY <2>1, <2>2
<1>4. Current' = Current
  BY <1>2 DEF Seen
<1> QED BY <1>3, <1>4

\* A task taken or handed over moves to the front, where it was.
LEMMA TakingIsUnseen ==
  ASSUME RefineInv, RefineInv', NEW t \in Threads,
         NotifySync(t) \/ TryTake(t) \/ PerformSync(t)
  PROVE  Pending' = Pending /\ Current' = Current
<1>0. /\ Seen /\ Seen' /\ taskQueue \in Seq(Tasks) /\ pc \in [Threads -> Labels]
      /\ running \in [Threads -> Tasks \cup {NoTask}]
      /\ \A u \in Threads : HoldsToken(u) => u = t
      /\ granted = {} /\ HoldsToken(t)
  <2>1. TokenInv /\ TokenInv'
    BY DEF RefineInv, OwnerInv
  <2>2. Seen /\ Seen'
    BY <2>1, SeenAlways, PTL
  <2>3. HoldsToken(t)
    BY DEF NotifySync, TryTake, PerformSync, HoldsToken
  <2> QED BY <2>1, <2>2, <2>3 DEF TokenInv, TypeInv, TypeOK, TokenUnique
<1>1. pc[t] # "got" => running[t] = NoTask
  BY DEF NotifySync, TryTake, PerformSync, RefineInv, OwnerInv, TokenInv, DecidesOnly
<1>2. Current' = Current
  <2>1. \A u \in Threads : ~Executing(u)
    BY <1>0, <1>1 DEF HoldsToken, Executing
  <2>2. \A u \in Threads : ~Executing(u)'
    BY <1>0, <1>1, <2>1 DEF NotifySync, TryTake, PerformSync, Executing, Goto
  <2> QED BY <1>0, <2>1, <2>2 DEF Seen
<1>3. CASE NotifySync(t) \/ TryTake(t)
  <2>1. /\ taskQueue # <<>> /\ taskQueue' = Tail(taskQueue) /\ pc[t] = "locked"
        /\ \A u \in Threads : pc[u] # "got"
    BY <1>0, <1>3 DEF NotifySync, TryTake, HoldsToken
  <2>2. Handed = {} /\ Handed' = {Head(taskQueue)}
    BY <1>0, <1>3, <2>1, ReturnLabel DEF Handed, NotifySync, TryTake, Goto
  <2> QED BY <1>0, <1>2, <2>1, <2>2, HeadInFront DEF Seen
<1>4. CASE PerformSync(t)
  <2>1. taskQueue' = taskQueue /\ \A u \in Threads : pc[u] = "got" <=> u = t
    BY <1>0, <1>4 DEF PerformSync, HoldsToken, queueVars
  <2>2. Handed = {running[t]} /\ Handed' = {running[t]}
    BY <1>0, <1>4, <2>1 DEF Handed, PerformSync, Goto
  <2> QED BY <1>0, <1>2, <2>1, <2>2 DEF Seen
<1> QED BY <1>3, <1>4

\* The task handed over or taken starts.
LEMMA PerformStarts ==
  ASSUME RefineInv, RefineInv', NEW t \in Threads, PerformAsync(t) \/ AcquireSync(t)
  PROVE  Abstract!AStart
<1>0. /\ Seen /\ Seen' /\ taskQueue \in Seq(Tasks) /\ pc \in [Threads -> Labels]
      /\ running \in [Threads -> Tasks \cup {NoTask}] /\ NoTask \notin Tasks
      /\ granted \subseteq Tasks
      /\ TokenUnique /\ DecidesOnly
  <2>1. TokenInv /\ TokenInv'
    BY DEF RefineInv, OwnerInv
  <2>2. Seen /\ Seen'
    BY <2>1, SeenAlways, PTL
  <2> QED BY <2>1, <2>2, SerialQueueAssumption
       DEF TokenInv, TypeInv, TypeOK, SerialQueueAssumption, Tasks
<1>1. UNCHANGED <<taskQueue, suspendCount, inactive, finished>>
  BY DEF PerformAsync, AcquireSync, queueVars
<1>2. \A u \in Threads : ~Executing(u)
  BY <1>0 DEF PerformAsync, AcquireSync, TokenUnique, HoldsToken, Executing
<1>3. PICK x \in Tasks : /\ Handed = {x} /\ Handed' = {}
                         /\ Executing(t)' /\ running'[t] = x
  <2>1. CASE PerformAsync(t)
    <3>1. granted = {} /\ \A u \in Threads : pc[u] = "got" <=> u = t
      BY <1>0, <2>1 DEF PerformAsync, TokenUnique, HoldsToken
    <3>2. Handed = {running[t]} /\ Handed' = {} /\ running[t] \in Tasks
      BY <1>0, <2>1, <3>1 DEF Handed, PerformAsync, Goto, DecidesOnly
    <3> QED BY <1>0, <2>1, <3>2 DEF PerformAsync, Executing, Goto
  <2>2. CASE AcquireSync(t)
    <3>1. granted = {waitingFor[t]} /\ \A u \in Threads : pc[u] # "got"
      BY <1>0, <2>2 DEF AcquireSync, TokenUnique, HoldsToken
    <3>2. Handed = {waitingFor[t]} /\ Handed' = {} /\ waitingFor[t] \in Tasks
      BY <1>0, <2>2, <3>1 DEF Handed, AcquireSync, Goto
    <3> QED BY <1>0, <2>2, <3>2 DEF AcquireSync, Executing, Goto
  <2> QED BY <2>1, <2>2
<1>4. /\ Current = NoTask /\ Current' = x
      /\ Pending = <<x>> \o taskQueue /\ Pending' = taskQueue
  BY <1>0, <1>1, <1>2, <1>3 DEF Seen
<1>5. Pending # <<>> /\ Head(Pending) = x /\ Tail(Pending) = taskQueue
  BY <1>0, <1>4, InFront
<1>6. ~inactive
  BY DEF PerformAsync, AcquireSync, RefineInv, Dormant, OwnerInv, TokenInv, TokenUnique
<1>7. \/ suspendCount = 0 /\ UNCHANGED grace
      \/ suspendCount > 0 /\ grace > 0 /\ grace' = grace - 1
  <2>1. LateStarts' = LateStarts - 1 /\ LateStarts' \in Nat /\ LateStarts \in Nat
    <3>1. (TokenInv /\ GiverIsOut)'
      BY DEF RefineInv, OwnerInv
    <3>2. (LateStarts \in 0..Cardinality(Threads))'
      BY <3>1, LateBounded, PTL
    <3>3. LateStarts' \in Nat
      BY <3>2
    <3> QED BY <3>3, LateMoves, LateStartsType DEF RefineInv, OwnerInv
  <2>2. suspendCount \in Nat /\ grace \in Int
    BY SerialQueueAssumption
       DEF RefineInv, OwnerInv, TokenInv, TypeInv, TypeOK, SerialQueueAssumption
  <2>3. SpendGrace
    BY DEF PerformAsync, AcquireSync
  <2> QED BY <2>1, <2>2, <2>3 DEF SpendGrace, RefineInv, GraceCovers
<1> QED BY <1>1, <1>4, <1>5, <1>6, <1>7 DEF Abstract!AStart

\* The body of a task returns.
LEMMA ReturnFinishes ==
  ASSUME RefineInv, RefineInv', NEW t \in Threads, FinishBody(t)
  PROVE  Abstract!AFinish
<1>0. /\ Seen /\ Seen' /\ pc \in [Threads -> Labels]
      /\ running \in [Threads -> Tasks \cup {NoTask}] /\ NoTask \notin Tasks
      /\ TokenUnique /\ BodyRuns
  <2>1. TokenInv /\ TokenInv'
    BY DEF RefineInv, OwnerInv
  <2>2. Seen /\ Seen'
    BY <2>1, SeenAlways, PTL
  <2> QED BY <2>1, <2>2, SerialQueueAssumption
       DEF TokenInv, TypeInv, TypeOK, SerialQueueAssumption, Tasks
<1>1. Executing(t) /\ running[t] # NoTask
  BY <1>0 DEF FinishBody, Executing, BodyRuns
<1>2. /\ granted = {} /\ \A u \in Threads : pc[u] # "got"
      /\ \A u \in Threads : Executing(u) => u = t
  BY <1>0, <1>1 DEF FinishBody, TokenUnique, HoldsToken, Executing
<1>3. /\ UNCHANGED <<taskQueue, granted, suspendCount, inactive, grace>>
      /\ finished' = finished \cup {running[t]}
  BY DEF FinishBody, queueVars
<1>4. \A u \in Threads : ~Executing(u)'
  BY <1>0, <1>2 DEF FinishBody, Executing, Goto
<1>5. Handed = {} /\ Handed' = {}
  BY <1>0, <1>2 DEF Handed, FinishBody, Goto
<1>6. /\ Current = running[t] /\ Current' = NoTask
      /\ Pending' = Pending
  BY <1>0, <1>1, <1>3, <1>4, <1>5 DEF Seen
<1> QED BY <1>1, <1>3, <1>6 DEF Abstract!AFinish

\* Every step of the queue is a step of the abstract queue or none of its business.
LEMMA StepRefines ==
  ASSUME RefineInv, RefineInv', [Next]_vars
  PROVE  [Abstract!ANext]_(Abstract!avars)
<1>0. /\ TypeOK /\ pc \in [Threads -> Labels] /\ suspendCount \in Nat
      /\ LateStarts \in 0..Cardinality(Threads)
  BY LateBounded, SerialQueueAssumption
     DEF RefineInv, OwnerInv, TokenInv, TypeInv, TypeOK, SerialQueueAssumption
<1>1. ASSUME NEW t \in Threads, NEW x \in Tasks, Async(t, x) \/ Sync(t, x)
      PROVE  Abstract!ANext
  BY <1>1, PushSubmits DEF Abstract!ANext
<1>2. ASSUME NEW t \in Threads, Activate(t) \/ Suspend(t) \/ Resume(t)
      PROVE  Pending' = Pending /\ Current' = Current
  <2>1. /\ UNCHANGED <<taskQueue, running, granted>>
        /\ pc[t] # "got" /\ \E l : l # "got" /\ pc' \in {pc, [pc EXCEPT ![t] = l]}
    BY <1>2, ReturnLabel DEF Activate, Suspend, Resume, MayCall, Goto, threadVars
  <2>2. \A u \in Threads : pc'[u] = "got" <=> pc[u] = "got"
    BY <1>0, <2>1
  <2>3. Handed' = Handed /\ \A u \in Threads : Executing(u)' <=> Executing(u)
    BY <2>1, <2>2 DEF Handed, Executing
  <2> QED BY <2>1, <2>3, SameView
<1>3. ASSUME NEW t \in Threads, Activate(t) PROVE Abstract!ANext
  BY <1>2, <1>3 DEF Activate, auxVars, Abstract!ANext, Abstract!AActivate
<1>4. ASSUME NEW t \in Threads, Suspend(t) PROVE Abstract!ANext
  BY <1>0, <1>2, <1>4 DEF Suspend, Abstract!ANext, Abstract!ASuspend
<1>5. ASSUME NEW t \in Threads, Resume(t) PROVE Abstract!ANext
  BY <1>0, <1>2, <1>5 DEF Resume, Abstract!ANext, Abstract!AResume
<1>6. ASSUME NEW t \in Threads, Plain(t) PROVE UNCHANGED Abstract!avars
  <2>1. UNCHANGED <<taskQueue, running, granted, suspendCount, inactive, finished, grace>>
    BY <1>0, <1>6, PlainSteps
  <2>2. \A u \in Threads : pc'[u] = "got" <=> pc[u] = "got"
    BY <1>0, <1>6, PlainSteps DEF Goto
  <2>3. Handed' = Handed /\ \A u \in Threads : Executing(u)' <=> Executing(u)
    BY <2>1, <2>2 DEF Handed, Executing
  <2> QED BY <2>1, <2>3, SameView DEF Abstract!avars
<1>7. ASSUME NEW t \in Threads, NotifySync(t) \/ TryTake(t) \/ PerformSync(t)
      PROVE  UNCHANGED Abstract!avars
  <2>1. UNCHANGED <<suspendCount, inactive, finished, grace>>
    BY <1>7 DEF NotifySync, TryTake, PerformSync, queueVars, auxVars
  <2> QED BY <1>7, <2>1, TakingIsUnseen DEF Abstract!avars
<1>8. ASSUME NEW t \in Threads, PerformAsync(t) \/ AcquireSync(t) PROVE Abstract!ANext
  BY <1>8, PerformStarts DEF Abstract!ANext
<1>9. ASSUME NEW t \in Threads, FinishBody(t) PROVE Abstract!ANext
  BY <1>9, ReturnFinishes DEF Abstract!ANext
<1>10. CASE UNCHANGED vars
  <2>1. /\ UNCHANGED <<taskQueue, running, granted, pc, suspendCount, inactive, finished>>
        /\ UNCHANGED grace
    BY <1>10 DEF vars, queueVars, threadVars, auxVars
  <2>2. Handed' = Handed /\ \A u \in Threads : Executing(u)' <=> Executing(u)
    BY <2>1 DEF Handed, Executing
  <2> QED BY <2>1, <2>2, SameView DEF Abstract!avars
<1> QED BY <1>1, <1>3, <1>4, <1>5, <1>6, <1>7, <1>8, <1>9, <1>10
     DEF Next, Call, Progress, Plain

\* Whatever the threads do, tasks start one at a time in the order of their submission,
\* none before activate(), and in a suspended queue only those it was too late for.
THEOREM QueueImplementsAbstract == SafeSpec => Abstract!ASafeSpec
<1>1. Init => Abstract!AInit
  <2> SUFFICES ASSUME Init PROVE Abstract!AInit
    OBVIOUS
  <2>1. Seen
    BY SeenAlways, TokenInductive
  <2>2. Handed = {} /\ \A t \in Threads : ~Executing(t)
    BY DEF Init, Handed, Executing
  <2>3. Pending = taskQueue /\ Current = NoTask
    BY <2>1, <2>2 DEF Seen
  <2> QED BY <2>3 DEF Init, Abstract!AInit
<1>2. RefineInv /\ RefineInv' /\ [Next]_vars => [Abstract!ANext]_(Abstract!avars)
  BY StepRefines
<1> QED BY <1>1, <1>2, RefineInductive, PTL DEF SafeSpec, Abstract!ASafeSpec
=============================================================================
