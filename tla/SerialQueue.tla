---------------------------- MODULE SerialQueue ----------------------------
(***************************************************************************)
(* DispatchSerialQueue, one action per access to an atomic variable or per *)
(* critical section of taskQueueLock_.                                     *)
(*                                                                         *)
(* threadAttach_ is a token: whoever turned it from FALSE to TRUE owns the *)
(* queue and is the only one who may pop tasks.  The token travels from    *)
(* the thread that attached, through a reference in the executor, to the   *)
(* worker that takes that reference, or through the semaphore of a sync    *)
(* task to the thread blocked in sync(), which hands it on after its task. *)
(*                                                                         *)
(* The executor is reduced to the number of references to this queue that  *)
(* it holds; a worker with nothing to do takes one.  The queue outlives    *)
(* all calls made on it.                                                   *)
(***************************************************************************)
EXTENDS Integers, Sequences, FiniteSets

CONSTANTS Clients,      \* threads of the program that call the queue
          Workers,      \* threads of the executor
          AsyncTasks,   \* tasks submitted with async()
          SyncTasks,    \* tasks submitted with sync()
          NoTask,       \* no task
          MaxSuspends   \* bound on suspend() calls not yet balanced

Threads == Clients \cup Workers
Tasks == AsyncTasks \cup SyncTasks

ASSUME SerialQueueAssumption ==
  /\ Clients \cap Workers = {}
  /\ AsyncTasks \cap SyncTasks = {}
  /\ NoTask \notin AsyncTasks \cup SyncTasks
  /\ IsFiniteSet(Clients \cup Workers)
  /\ MaxSuspends \in Nat

VARIABLES
  taskQueue,     \* taskQueue_, tasks not yet popped, oldest first
  threadAttach,  \* threadAttach_
  suspendCount,  \* suspendCount_
  inactive,      \* inactive_
  refs,          \* references to this queue in the executor's task queues
  granted,       \* sync tasks whose semaphore was released and not acquired
  pc,            \* where each thread is
  caller,        \* which function a thread's suspendCheck() returns to
  running,       \* the task a thread has popped or is executing
  waitingFor,    \* the task for which a thread is inside sync()
  submitted,     \* auxiliary: every task ever pushed
  finished,      \* auxiliary: every task that returned
  grace          \* auxiliary: how many starts this suspension came too late for

queueVars == <<taskQueue, threadAttach, suspendCount, inactive>>
threadVars == <<pc, caller, running, waitingFor>>
auxVars == <<submitted, finished, grace>>
vars == <<queueVars, refs, granted, threadVars, auxVars>>

Labels == {"idle", "body", "wait",
           "addActive", "addSuspend", "attach", "resumeActive", "activateSuspend",
           "check", "detach", "recheck", "retake", "locked", "enqueue", "got"}

Init == /\ taskQueue = <<>>
        /\ threadAttach = FALSE
        /\ suspendCount = 0
        /\ inactive \in BOOLEAN
        /\ refs = 0
        /\ granted = {}
        /\ pc = [t \in Threads |-> "idle"]
        /\ caller = [t \in Threads |-> "notify"]
        /\ running = [t \in Threads |-> NoTask]
        /\ waitingFor = [t \in Threads |-> NoTask]
        /\ submitted = {}
        /\ finished = {}
        /\ grace = 0

Goto(t, label) == pc' = [pc EXCEPT ![t] = label]

\* Where a thread continues when a call returns: inside sync() it blocks on the
\* semaphore, inside a task it goes on with the task, otherwise it is free.
Return(t) == IF waitingFor[t] # NoTask THEN "wait"
             ELSE IF running[t] # NoTask THEN "body" ELSE "idle"

\* A thread executes a task from the moment its body starts until it returns,
\* calls made by the body included.
Executing(t) == running[t] # NoTask /\ pc[t] # "got"

\* The decisions already taken to go on with the next task, whatever
\* suspendCount_ becomes: by a thread between the test that found the queue not
\* suspended and the pop, and by the owner of a task handed over.
LateStarts == Cardinality({t \in Threads : pc[t] \in {"retake", "locked", "got"}})
                + (IF granted = {} THEN 0 ELSE 1)

\* A free client and the body of a task may call the queue.
MayCall(t) == \/ t \in Clients /\ pc[t] = "idle"
              \/ pc[t] = "body"

-----------------------------------------------------------------------------
(* Mistakes a change of the code could make.  They are no part of the      *)
(* specification: each takes the place of the definition it resembles to   *)
(* see that a property notices.                                            *)

\* Push() at the wrong end of the queue
PushInFront(t, x) == /\ x \notin submitted
                     /\ taskQueue' = <<x>> \o taskQueue
                     /\ submitted' = submitted \cup {x}
                     /\ Goto(t, "addActive")
                     /\ UNCHANGED <<threadAttach, suspendCount, inactive, refs,
                                    granted, caller, running, finished, grace>>

\* CheckSuspended() that overlooks a single suspend()
CheckSuspendedTwice(t) ==
  /\ pc[t] = "check"
  /\ Goto(t, IF suspendCount > 1 THEN "detach" ELSE "locked")
  /\ UNCHANGED <<queueVars, refs, granted, caller, running, waitingFor, auxVars>>

\* Recheck() without the second look at suspendCount_
RecheckNothing(t) ==
  /\ pc[t] = "recheck"
  /\ Goto(t, Return(t))
  /\ UNCHANGED <<queueVars, refs, granted, caller, running, waitingFor, auxVars>>

\* Retake() with a store in place of the compare-exchange
RetakeBlindly(t) == /\ pc[t] = "retake"
                    /\ threadAttach' = TRUE
                    /\ Goto(t, "locked")
                    /\ UNCHANGED <<taskQueue, suspendCount, inactive, refs, granted,
                                   caller, running, waitingFor, auxVars>>

\* NotifyEmpty() that does not clear threadAttach_
NotifyEmptyAttached(t) ==
  /\ pc[t] = "locked" /\ caller[t] = "notify"
  /\ taskQueue = <<>>
  /\ Goto(t, Return(t))
  /\ UNCHANGED <<queueVars, refs, granted, caller, running, waitingFor, auxVars>>

\* TakeRef() that does not wait for a reference
TakeRefAlways(w) == /\ w \in Workers /\ pc[w] = "idle"
                    /\ refs' = refs - 1
                    /\ Goto(w, "check")
                    /\ caller' = [caller EXCEPT ![w] = "take"]
                    /\ UNCHANGED <<queueVars, granted, running, waitingFor, auxVars>>

-----------------------------------------------------------------------------
(* addTask(): push under the lock, then attach unless inactive, suspended  *)
(* or already attached.                                                    *)

Push(t, x) == /\ x \notin submitted
              /\ taskQueue' = Append(taskQueue, x)
              /\ submitted' = submitted \cup {x}
              /\ Goto(t, "addActive")
              /\ UNCHANGED <<threadAttach, suspendCount, inactive, refs,
                             granted, caller, running, finished, grace>>

Async(t, x) == /\ MayCall(t)
               /\ x \in AsyncTasks
               /\ Push(t, x)
               /\ UNCHANGED waitingFor

\* A task of this queue that calls sync() on it waits for itself for ever, so
\* only free clients call sync().
Sync(t, x) == /\ t \in Clients /\ pc[t] = "idle"
              /\ x \in SyncTasks
              /\ Push(t, x)
              /\ waitingFor' = [waitingFor EXCEPT ![t] = x]

AddReadsInactive(t) ==
  /\ pc[t] = "addActive"
  /\ Goto(t, IF inactive THEN Return(t) ELSE "addSuspend")
  /\ UNCHANGED <<queueVars, refs, granted, caller, running, waitingFor, auxVars>>

AddReadsSuspendCount(t) ==
  /\ pc[t] = "addSuspend"
  /\ Goto(t, IF suspendCount > 0 THEN Return(t) ELSE "attach")
  /\ UNCHANGED <<queueVars, refs, granted, caller, running, waitingFor, auxVars>>

\* The compare-exchange on threadAttach_ that addTask(), activate() and resume()
\* all end with; the winner calls notifyNextWork().
Attach(t) ==
  /\ pc[t] = "attach"
  /\ threadAttach' = TRUE
  /\ \/ threadAttach /\ Goto(t, Return(t)) /\ UNCHANGED caller
     \/ ~threadAttach /\ Goto(t, "check") /\ caller' = [caller EXCEPT ![t] = "notify"]
  /\ UNCHANGED <<taskQueue, suspendCount, inactive, refs, granted,
                 running, waitingFor, auxVars>>
-----------------------------------------------------------------------------
(* activate(), suspend(), resume().  A resume() balances an earlier        *)
(* suspend().                                                              *)

Activate(t) == /\ MayCall(t)
               /\ inactive
               /\ inactive' = FALSE
               /\ Goto(t, "activateSuspend")
               /\ UNCHANGED <<taskQueue, threadAttach, suspendCount, refs, granted,
                              caller, running, waitingFor, auxVars>>

ActivateReadsSuspendCount(t) ==
  /\ pc[t] = "activateSuspend"
  /\ Goto(t, IF suspendCount > 0 THEN Return(t) ELSE "attach")
  /\ UNCHANGED <<queueVars, refs, granted, caller, running, waitingFor, auxVars>>

Suspend(t) == /\ MayCall(t)
              /\ suspendCount < MaxSuspends
              /\ suspendCount' = suspendCount + 1
              /\ grace' = IF suspendCount = 0 THEN LateStarts ELSE grace
              /\ UNCHANGED <<taskQueue, threadAttach, inactive, refs, granted,
                             threadVars, submitted, finished>>

Resume(t) == /\ MayCall(t)
             /\ suspendCount > 0
             /\ suspendCount' = suspendCount - 1
             /\ Goto(t, IF suspendCount = 1 THEN "resumeActive" ELSE Return(t))
             /\ grace' = IF suspendCount = 1 THEN 0 ELSE grace
             /\ UNCHANGED <<taskQueue, threadAttach, inactive, refs, granted,
                            caller, running, waitingFor, submitted, finished>>

ResumeReadsInactive(t) ==
  /\ pc[t] = "resumeActive"
  /\ Goto(t, IF inactive THEN Return(t) ELSE "attach")
  /\ UNCHANGED <<queueVars, refs, granted, caller, running, waitingFor, auxVars>>
-----------------------------------------------------------------------------
(* suspendCheck(), called by notifyNextWork() and tryTake() with the token. *)
(* A suspended queue gives the token up and, if it was resumed meanwhile,   *)
(* competes for it again.                                                   *)

CheckSuspended(t) ==
  /\ pc[t] = "check"
  /\ Goto(t, IF suspendCount > 0 THEN "detach" ELSE "locked")
  /\ UNCHANGED <<queueVars, refs, granted, caller, running, waitingFor, auxVars>>

Detach(t) == /\ pc[t] = "detach"
             /\ threadAttach' = FALSE
             /\ Goto(t, "recheck")
             /\ UNCHANGED <<taskQueue, suspendCount, inactive, refs, granted,
                            caller, running, waitingFor, auxVars>>

Recheck(t) ==
  /\ pc[t] = "recheck"
  /\ Goto(t, IF suspendCount > 0 THEN Return(t) ELSE "retake")
  /\ UNCHANGED <<queueVars, refs, granted, caller, running, waitingFor, auxVars>>

Retake(t) == /\ pc[t] = "retake"
             /\ threadAttach' = TRUE
             /\ Goto(t, IF threadAttach THEN Return(t) ELSE "locked")
             /\ UNCHANGED <<taskQueue, suspendCount, inactive, refs, granted,
                            caller, running, waitingFor, auxVars>>
-----------------------------------------------------------------------------
(* notifyNextWork() past suspendCheck(): give the token up, wake the       *)
(* thread of a sync task, or ask the executor for a worker.                *)

NotifyEmpty(t) ==
  /\ pc[t] = "locked" /\ caller[t] = "notify"
  /\ taskQueue = <<>>
  /\ threadAttach' = FALSE
  /\ Goto(t, Return(t))
  /\ UNCHANGED <<taskQueue, suspendCount, inactive, refs, granted,
                 caller, running, waitingFor, auxVars>>

NotifySync(t) ==
  /\ pc[t] = "locked" /\ caller[t] = "notify"
  /\ taskQueue # <<>> /\ Head(taskQueue) \in SyncTasks
  /\ granted' = granted \cup {Head(taskQueue)}
  /\ taskQueue' = Tail(taskQueue)
  /\ Goto(t, Return(t))
  /\ UNCHANGED <<threadAttach, suspendCount, inactive, refs,
                 caller, running, waitingFor, auxVars>>

NotifyAsync(t) ==
  /\ pc[t] = "locked" /\ caller[t] = "notify"
  /\ taskQueue # <<>> /\ Head(taskQueue) \in AsyncTasks
  /\ Goto(t, "enqueue")
  /\ UNCHANGED <<queueVars, refs, granted, caller, running, waitingFor, auxVars>>

\* executor_->addWithPriority(), after the lock is released
Enqueue(t) == /\ pc[t] = "enqueue"
              /\ refs' = refs + 1
              /\ Goto(t, Return(t))
              /\ UNCHANGED <<queueVars, granted, caller, running, waitingFor, auxVars>>
-----------------------------------------------------------------------------
(* A worker: takeNextTask(), tryTake() and the use threadRun() makes of    *)
(* the task.                                                               *)

TakeRef(w) == /\ w \in Workers /\ pc[w] = "idle"
              /\ refs > 0
              /\ refs' = refs - 1
              /\ Goto(w, "check")
              /\ caller' = [caller EXCEPT ![w] = "take"]
              /\ UNCHANGED <<queueVars, granted, running, waitingFor, auxVars>>

TryTake(w) ==
  /\ pc[w] = "locked" /\ caller[w] = "take"
  /\ taskQueue # <<>>
  /\ running' = [running EXCEPT ![w] = Head(taskQueue)]
  /\ taskQueue' = Tail(taskQueue)
  /\ Goto(w, "got")
  /\ UNCHANGED <<threadAttach, suspendCount, inactive, refs, granted,
                 caller, waitingFor, auxVars>>

TryTakeEmpty(w) ==
  /\ pc[w] = "locked" /\ caller[w] = "take"
  /\ taskQueue = <<>>
  /\ threadAttach' = FALSE
  /\ Goto(w, "idle")
  /\ UNCHANGED <<taskQueue, suspendCount, inactive, refs, granted,
                 caller, running, waitingFor, auxVars>>

\* notifySync() wakes the thread in sync() and the worker forgets the queue
PerformSync(w) ==
  /\ pc[w] = "got" /\ running[w] \in SyncTasks
  /\ granted' = granted \cup {running[w]}
  /\ running' = [running EXCEPT ![w] = NoTask]
  /\ Goto(w, "idle")
  /\ UNCHANGED <<queueVars, refs, caller, waitingFor, auxVars>>

SpendGrace == grace' = IF suspendCount > 0 THEN grace - 1 ELSE grace

PerformAsync(w) ==
  /\ pc[w] = "got" /\ running[w] \in AsyncTasks
  /\ Goto(w, "body")
  /\ SpendGrace
  /\ UNCHANGED <<queueVars, refs, granted, caller, running, waitingFor,
                 submitted, finished>>

\* performWithQueue() of a sync task, in the thread that called sync()
AcquireSync(t) ==
  /\ pc[t] = "wait"
  /\ waitingFor[t] \in granted
  /\ granted' = granted \ {waitingFor[t]}
  /\ running' = [running EXCEPT ![t] = waitingFor[t]]
  /\ waitingFor' = [waitingFor EXCEPT ![t] = NoTask]
  /\ Goto(t, "body")
  /\ SpendGrace
  /\ UNCHANGED <<queueVars, refs, caller, submitted, finished>>

\* The task returns: sync() calls notifyNextWork(), a worker that remembers a
\* serial queue calls tryTake() again.
FinishBody(t) ==
  /\ pc[t] = "body"
  /\ finished' = finished \cup {running[t]}
  /\ running' = [running EXCEPT ![t] = NoTask]
  /\ caller' = [caller EXCEPT ![t] = IF t \in Workers THEN "take" ELSE "notify"]
  /\ Goto(t, "check")
  /\ UNCHANGED <<queueVars, refs, granted, waitingFor, submitted, grace>>
-----------------------------------------------------------------------------
Call(t) == \/ \E x \in Tasks : Async(t, x) \/ Sync(t, x)
           \/ Activate(t) \/ Suspend(t) \/ Resume(t)

\* The steps a thread takes inside a call, or as a worker
Progress(t) ==
  \/ AddReadsInactive(t) \/ AddReadsSuspendCount(t) \/ Attach(t)
  \/ ActivateReadsSuspendCount(t) \/ ResumeReadsInactive(t)
  \/ CheckSuspended(t) \/ Detach(t) \/ Recheck(t) \/ Retake(t)
  \/ NotifyEmpty(t) \/ NotifySync(t) \/ NotifyAsync(t) \/ Enqueue(t)
  \/ TakeRef(t) \/ TryTake(t) \/ TryTakeEmpty(t)
  \/ PerformSync(t) \/ PerformAsync(t) \/ AcquireSync(t)

Next == \E t \in Threads : Call(t) \/ Progress(t) \/ FinishBody(t)

\* The scheduler runs every thread that can take a step, and every task returns
\* however often its body calls the queue.  Nobody is obliged to call the queue.
Fairness == \A t \in Threads : WF_vars(Progress(t)) /\ SF_vars(FinishBody(t))

SafeSpec == Init /\ [][Next]_vars
Spec == SafeSpec /\ Fairness
-----------------------------------------------------------------------------
(* Properties                                                              *)

TypeOK == /\ taskQueue \in Seq(Tasks)
          /\ threadAttach \in BOOLEAN
          /\ suspendCount \in 0..MaxSuspends
          /\ inactive \in BOOLEAN
          /\ refs \in Nat
          /\ granted \subseteq SyncTasks
          /\ pc \in [Threads -> Labels]
          /\ caller \in [Threads -> {"notify", "take"}]
          /\ running \in [Threads -> Tasks \cup {NoTask}]
          /\ waitingFor \in [Threads -> SyncTasks \cup {NoTask}]
          /\ submitted \subseteq Tasks
          /\ finished \subseteq Tasks
          /\ grace \in Int

\* A thread owns the token while it decides what the queue does next and while
\* it executes a task.
HoldsToken(t) ==
  \/ pc[t] \in {"check", "detach", "locked", "enqueue", "got"}
  \/ Executing(t)

\* A serial queue executes one task at a time, whether in workers or in the
\* threads that called sync().
MutualExclusion ==
  \A t, u \in Threads : Executing(t) /\ Executing(u) => t = u

\* There is at most one token in all the places that can hold it: the executor,
\* the semaphore of a sync task, and the threads.  A second one would let two
\* threads pop and run tasks of the queue.
TokenUnique ==
  /\ \A t, u \in Threads : HoldsToken(t) /\ HoldsToken(u) => t = u
  /\ \A x, y \in granted : x = y
  /\ refs \in {0, 1}
  /\ refs = 1 => granted = {}
  /\ refs = 1 \/ granted # {} => \A t \in Threads : ~HoldsToken(t)
  /\ refs = 1 \/ granted # {} \/ (\E t \in Threads : HoldsToken(t)) => threadAttach

\* threadAttach_ never stays set without somebody to act on it: the executor has
\* the reference, a thread is on its way, or the woken thread is inside sync().
\* Otherwise no later call could ever attach again and the queue would be dead.
TokenNeverLost ==
  threadAttach => \/ refs > 0
                  \/ \E t \in Threads : HoldsToken(t) \/ waitingFor[t] \in granted

\* Threads that are about to try to attach, having already decided to
WillAttach(t) == pc[t] \in {"addActive", "addSuspend", "attach", "resumeActive",
                            "activateSuspend", "recheck", "retake"}

\* No interleaving of addTask(), resume(), activate() and suspendCheck() leaves a
\* task in an active, unsuspended queue that nobody is attached to.
NoLostWakeup ==
  taskQueue # <<>> /\ ~inactive /\ suspendCount = 0 /\ ~threadAttach
    => \E t \in Threads : WillAttach(t)

Starts(t) == ~Executing(t) /\ Executing(t)'

\* Nothing starts before activate(), and a task that starts in a suspended queue
\* is one that a thread had decided to go on with before the suspend(): each such
\* thread accounts for one start, and nobody decides anew until resume().
SuspendHolds ==
  [][\A t \in Threads : Starts(t) => ~inactive /\ (suspendCount > 0 => grace > 0)]_vars

(* The queue as its callers see it: a task handed to a thread and not      *)
(* started is still pending, in front of those in taskQueue_.              *)

Handed == granted \cup {running[t] : t \in {u \in Threads : pc[u] = "got"}}

Pending == IF Handed = {} THEN taskQueue
           ELSE <<CHOOSE x \in Handed : TRUE>> \o taskQueue

Current == IF \E t \in Threads : Executing(t)
           THEN running[CHOOSE t \in Threads : Executing(t)] ELSE NoTask

Abstract == INSTANCE AbstractSerialQueue
              WITH MaxLate <- Cardinality(Threads),
                   pending <- Pending, current <- Current,
                   suspends <- suspendCount, dormant <- inactive

\* The queue does what AbstractSerialQueue promises: tasks start in the order in
\* which they were pushed, one at a time, each exactly once, and all of them if
\* the queue ends up active and unsuspended.
ImplementsAbstract == Abstract!ASpec
=============================================================================
