-------------------------- MODULE ConcurrentQueue --------------------------
(***************************************************************************)
(* DispatchConcurrentQueue, one action per access to an atomic variable.   *)
(*                                                                         *)
(* Every task pushed must be matched by a reference to the queue in the    *)
(* executor.  addTask() and tryTake() defer the reference by counting it   *)
(* in taskToNotify_ while the queue is inactive or suspended; activate()   *)
(* and resume() exchange the counter for references.  Workers run tasks    *)
(* side by side and sync() runs its task in the calling thread as soon as  *)
(* it sees the queue active and not suspended.  A task may call sync() as  *)
(* well as the rest, so that workers may sleep in it and tasks are nested. *)
(*                                                                         *)
(* MPMCQueue is reduced to a sequence, the executor to the number of       *)
(* references it holds.  The queue outlives all calls made on it.          *)
(***************************************************************************)
EXTENDS Totals, Sequences

CONSTANTS Clients,      \* threads of the program that call the queue
          Workers,      \* threads of the executor
          AsyncTasks,   \* tasks submitted with async()
          SyncTasks,    \* tasks submitted with sync()
          MaxSuspends   \* bound on suspend() calls not yet balanced

Threads == Clients \cup Workers
Tasks == AsyncTasks \cup SyncTasks
Nestings == Seq(Tasks)  \* a task, the one that called sync() for it, and so on

ASSUME ConcurrentQueueAssumption ==
  /\ Clients \cap Workers = {}
  /\ AsyncTasks \cap SyncTasks = {}
  /\ IsFiniteSet(Clients \cup Workers)
  /\ MaxSuspends \in Nat

VARIABLES
  taskQueue,     \* taskQueue_, tasks written and not yet read, oldest first
  taskToNotify,  \* taskToNotify_, references deferred
  suspendCount,  \* suspendCount_
  suspend,       \* suspend_
  inactive,      \* inactive_
  refs,          \* references to this queue in the executor's task queues
  pc,            \* where each thread is
  toAdd,         \* references a thread still has to hand to the executor
  running,       \* the tasks a thread is inside of, the innermost first: it executes
                 \* that one, or will execute it inside sync()
  submitted,     \* auxiliary: every task ever passed to async() or sync()
  finished,      \* auxiliary: every task that returned
  owed           \* auxiliary: suspend() calls that returned and no resume() balances

flags == <<suspendCount, suspend, inactive>>
aux == <<submitted, finished, owed>>
vars == <<taskQueue, taskToNotify, flags, refs, pc, toAdd, running, aux>>

Labels == {"idle", "body",
           "addInactive", "addSuspend", "defer", "againInactive", "againSuspend", "addRefs",
           "syncInactive", "sleepInactive", "syncSuspend", "sleepSuspend",
           "suspendStore", "resumeStore", "resumeWake", "resumeInactive",
           "activateWake", "activateSuspend", "exchange",
           "takeSuspend", "takeDefer", "takeAgain", "read"}

Init == /\ taskQueue = <<>>
        /\ taskToNotify = 0
        /\ suspendCount = 0 /\ suspend = FALSE
        /\ inactive \in BOOLEAN
        /\ refs = 0
        /\ pc = [t \in Threads |-> "idle"]
        /\ toAdd = [t \in Threads |-> 0]
        /\ running = [t \in Threads |-> <<>>]
        /\ submitted = {} /\ finished = {}
        /\ owed = 0

Goto(t, label) == pc' = [pc EXCEPT ![t] = label]

\* A call returns to the task that made it, or to a free client.
Return(t) == IF running[t] # <<>> THEN "body" ELSE "idle"

\* A step that only reads an atomic variable and chooses where to go on
Branch(t, from, label) == /\ pc[t] = from
                          /\ Goto(t, label)
                          /\ UNCHANGED <<taskQueue, taskToNotify, flags, refs,
                                         toAdd, running, aux>>

\* A free client and the body of a task may call the queue.
MayCall(t) == \/ t \in Clients /\ pc[t] = "idle"
              \/ pc[t] = "body"
-----------------------------------------------------------------------------
(* Mistakes a change of the code could make.  They are no part of the      *)
(* specification: each takes the place of the definition it resembles to   *)
(* see that a property notices.                                            *)

\* Defer() that does not count the reference
DeferUncounted(t) == Branch(t, "defer", "againInactive")

\* AgainReadsInactive() without the second look at the flags
AgainReadsNothing(t) == Branch(t, "againInactive", Return(t))

\* ResumeWakes() that wakes nobody
ResumeWakesNobody(t) == Branch(t, "resumeWake", "resumeInactive")

\* ResumeStores() that does not clear suspend_
ResumeStoresNothing(t) == Branch(t, "resumeStore", "resumeWake")

\* TakeRef() that does not wait for a reference
TakeRefAlways(w) == /\ w \in Workers /\ pc[w] = "idle"
                    /\ refs' = refs - 1
                    /\ Goto(w, "takeSuspend")
                    /\ UNCHANGED <<taskQueue, taskToNotify, flags, toAdd, running, aux>>

-----------------------------------------------------------------------------
(* addTask()                                                               *)

\* Tasks of a kind have nothing but their identity: any fresh one will do.
Fresh(kind) == CHOOSE x \in kind \ submitted : TRUE

Async(t) == /\ MayCall(t)
            /\ AsyncTasks \ submitted # {}
            /\ taskQueue' = Append(taskQueue, Fresh(AsyncTasks))
            /\ submitted' = submitted \cup {Fresh(AsyncTasks)}
            /\ Goto(t, "addInactive")
            /\ UNCHANGED <<taskToNotify, flags, refs, toAdd, running, finished, owed>>

AddReadsInactive(t) == Branch(t, "addInactive", IF inactive THEN "defer" ELSE "addSuspend")

\* Not suspended: the reference goes to the executor at once.
AddReadsSuspend(t) == /\ pc[t] = "addSuspend"
                      /\ Goto(t, IF suspend THEN "defer" ELSE "addRefs")
                      /\ toAdd' = [toAdd EXCEPT ![t] = IF suspend THEN 0 ELSE 1]
                      /\ UNCHANGED <<taskQueue, taskToNotify, flags, refs, running, aux>>

Defer(t) == /\ pc[t] = "defer"
            /\ taskToNotify' = taskToNotify + 1
            /\ Goto(t, "againInactive")
            /\ UNCHANGED <<taskQueue, flags, refs, toAdd, running, aux>>

AgainReadsInactive(t) ==
  Branch(t, "againInactive", IF inactive THEN Return(t) ELSE "againSuspend")

AgainReadsSuspend(t) == /\ pc[t] = "againSuspend"
                        /\ Goto(t, IF suspend THEN Return(t) ELSE "addRefs")
                        /\ toAdd' = [toAdd EXCEPT ![t] = IF suspend THEN 0 ELSE 1]
                        /\ UNCHANGED <<taskQueue, taskToNotify, flags, refs, running, aux>>

\* executor_->addWithPriority(), once per reference
AddRef(t) == /\ pc[t] = "addRefs"
             /\ refs' = refs + 1
             /\ toAdd' = [toAdd EXCEPT ![t] = @ - 1]
             /\ Goto(t, IF toAdd[t] = 1 THEN Return(t) ELSE "addRefs")
             /\ UNCHANGED <<taskQueue, taskToNotify, flags, running, aux>>
-----------------------------------------------------------------------------
(* sync(): wait until the queue was seen active and then not suspended,    *)
(* and run the task here.  A waiting thread sleeps until notify_all().     *)

Sync(t) == /\ MayCall(t)
           /\ SyncTasks \ submitted # {}
           /\ submitted' = submitted \cup {Fresh(SyncTasks)}
           /\ running' = [running EXCEPT ![t] = <<Fresh(SyncTasks)>> \o @]
           /\ Goto(t, "syncInactive")
           /\ UNCHANGED <<taskQueue, taskToNotify, flags, refs, toAdd, finished, owed>>

SyncReadsInactive(t) ==
  Branch(t, "syncInactive", IF inactive THEN "sleepInactive" ELSE "syncSuspend")

SyncReadsSuspend(t) ==
  Branch(t, "syncSuspend", IF suspend THEN "sleepSuspend" ELSE "body")

\* notify_all(): the sleepers look at the variable again.
Wake(t, asleep, awake, next) ==
  pc' = [u \in Threads |-> IF u = t THEN next ELSE IF pc[u] = asleep THEN awake ELSE pc[u]]
-----------------------------------------------------------------------------
(* activate(), suspend() and resume()                                      *)

Activate(t) == /\ MayCall(t)
               /\ inactive
               /\ inactive' = FALSE
               /\ Goto(t, "activateWake")
               /\ UNCHANGED <<taskQueue, taskToNotify, suspendCount, suspend, refs,
                              toAdd, running, aux>>

ActivateWakes(t) == /\ pc[t] = "activateWake"
                    /\ Wake(t, "sleepInactive", "syncInactive", "activateSuspend")
                    /\ UNCHANGED <<taskQueue, taskToNotify, flags, refs, toAdd, running, aux>>

ActivateReadsSuspend(t) ==
  Branch(t, "activateSuspend", IF suspend THEN Return(t) ELSE "exchange")

\* The first suspend() sets suspend_ in a second step; the others just count.
Suspend(t) == /\ MayCall(t)
              /\ suspendCount < MaxSuspends
              /\ suspendCount' = suspendCount + 1
              /\ \/ suspendCount = 0 /\ Goto(t, "suspendStore") /\ UNCHANGED owed
                 \/ suspendCount # 0 /\ owed' = owed + 1 /\ UNCHANGED pc
              /\ UNCHANGED <<taskQueue, taskToNotify, suspend, inactive, refs, toAdd,
                             running, submitted, finished>>

SuspendStores(t) == /\ pc[t] = "suspendStore"
                    /\ suspend' = TRUE
                    /\ owed' = owed + 1
                    /\ Goto(t, Return(t))
                    /\ UNCHANGED <<taskQueue, taskToNotify, suspendCount, inactive, refs,
                                   toAdd, running, submitted, finished>>

\* A resume() balances a suspend() that has returned; the last one clears
\* suspend_ in a second step.
Resume(t) == /\ MayCall(t)
             /\ owed > 0
             /\ owed' = owed - 1
             /\ suspendCount' = suspendCount - 1
             /\ Goto(t, IF suspendCount = 1 THEN "resumeStore" ELSE Return(t))
             /\ UNCHANGED <<taskQueue, taskToNotify, suspend, inactive, refs, toAdd,
                            running, submitted, finished>>

ResumeStores(t) == /\ pc[t] = "resumeStore"
                   /\ suspend' = FALSE
                   /\ Goto(t, "resumeWake")
                   /\ UNCHANGED <<taskQueue, taskToNotify, suspendCount, inactive, refs,
                                  toAdd, running, aux>>

ResumeWakes(t) == /\ pc[t] = "resumeWake"
                  /\ Wake(t, "sleepSuspend", "syncSuspend", "resumeInactive")
                  /\ UNCHANGED <<taskQueue, taskToNotify, flags, refs, toAdd, running, aux>>

ResumeReadsInactive(t) ==
  Branch(t, "resumeInactive", IF inactive THEN Return(t) ELSE "exchange")

\* taskToNotify_.exchange(0) in activate() and resume()
Exchange(t) == /\ pc[t] = "exchange"
               /\ taskToNotify' = 0
               /\ toAdd' = [toAdd EXCEPT ![t] = taskToNotify]
               /\ Goto(t, IF taskToNotify = 0 THEN Return(t) ELSE "addRefs")
               /\ UNCHANGED <<taskQueue, flags, refs, running, aux>>
-----------------------------------------------------------------------------
(* A worker takes a reference: tryTake(), and threadRun() with the task    *)

TakeRef(w) == /\ w \in Workers /\ pc[w] = "idle"
              /\ refs > 0
              /\ refs' = refs - 1
              /\ Goto(w, "takeSuspend")
              /\ UNCHANGED <<taskQueue, taskToNotify, flags, toAdd, running, aux>>

TakeReadsSuspend(w) == Branch(w, "takeSuspend", IF suspend THEN "takeDefer" ELSE "read")

TakeDefers(w) == /\ pc[w] = "takeDefer"
                 /\ taskToNotify' = taskToNotify + 1
                 /\ Goto(w, "takeAgain")
                 /\ UNCHANGED <<taskQueue, flags, refs, toAdd, running, aux>>

TakeReadsAgain(w) == Branch(w, "takeAgain", IF suspend THEN "idle" ELSE "read")

ReadEmpty(w) == taskQueue = <<>> /\ Branch(w, "read", "idle")

Read(w) == /\ pc[w] = "read"
           /\ taskQueue # <<>>
           /\ running' = [running EXCEPT ![w] = <<Head(taskQueue)>>]
           /\ taskQueue' = Tail(taskQueue)
           /\ Goto(w, "body")
           /\ UNCHANGED <<taskToNotify, flags, refs, toAdd, aux>>

\* The innermost task returns, to the task that called sync() if there is one.
FinishBody(t) == /\ pc[t] = "body"
                 /\ finished' = finished \cup {Head(running[t])}
                 /\ running' = [running EXCEPT ![t] = Tail(@)]
                 /\ Goto(t, IF Tail(running[t]) # <<>> THEN "body" ELSE "idle")
                 /\ UNCHANGED <<taskQueue, taskToNotify, flags, refs, toAdd, submitted, owed>>
-----------------------------------------------------------------------------
Call(t) == \/ Async(t) \/ Sync(t)
           \/ Activate(t) \/ Suspend(t) \/ Resume(t)

Progress(t) ==
  \/ AddReadsInactive(t) \/ AddReadsSuspend(t) \/ Defer(t)
  \/ AgainReadsInactive(t) \/ AgainReadsSuspend(t) \/ AddRef(t)
  \/ SyncReadsInactive(t) \/ SyncReadsSuspend(t)
  \/ ActivateWakes(t) \/ ActivateReadsSuspend(t)
  \/ SuspendStores(t) \/ ResumeStores(t) \/ ResumeWakes(t) \/ ResumeReadsInactive(t)
  \/ Exchange(t)
  \/ TakeRef(t) \/ TakeReadsSuspend(t) \/ TakeDefers(t) \/ TakeReadsAgain(t)
  \/ ReadEmpty(t) \/ Read(t)

Next == \E t \in Threads : Call(t) \/ Progress(t) \/ FinishBody(t)

\* The scheduler runs every thread that can take a step, and every task returns
\* however often its body calls the queue.  Nobody is obliged to call the queue.
Fairness == \A t \in Threads : WF_vars(Progress(t)) /\ SF_vars(FinishBody(t))

SafeSpec == Init /\ [][Next]_vars
Spec == SafeSpec /\ Fairness
-----------------------------------------------------------------------------
(* Properties                                                              *)

TypeOK == /\ taskQueue \in Seq(AsyncTasks)
          /\ taskToNotify \in Nat
          /\ suspendCount \in 0..MaxSuspends
          /\ suspend \in BOOLEAN
          /\ inactive \in BOOLEAN
          /\ refs \in Nat
          /\ pc \in [Threads -> Labels]
          /\ toAdd \in [Threads -> Nat]
          /\ running \in [Threads -> Nestings]
          /\ submitted \subseteq Tasks
          /\ finished \subseteq Tasks
          /\ owed \in Int

\* References a thread has in hand: addTask() before it deferred, tryTake() before
\* it deferred, and those not yet passed to the executor.
InHand(t) == toAdd[t] + (IF pc[t] \in {"addInactive", "addSuspend", "defer",
                                       "takeSuspend", "takeDefer", "read"} THEN 1 ELSE 0)

\* No task is without a reference: every task in the queue is matched by one in the
\* executor, in the hands of a thread, or counted in taskToNotify_ (the comment at
\* DispatchConcurrentQueue.h:93-95: never less than what has to be notified).
EveryTaskCovered ==
  Len(taskQueue) <= refs + taskToNotify + Total([t \in Threads |-> InHand(t)])

\* The deferred references are not forgotten: in an active queue that is not
\* suspended, once no thread is inside a call or on its way to a task, every queued
\* task has a reference in the executor itself.
NoTaskStranded ==
  /\ ~inactive /\ ~suspend
  /\ \A t \in Threads : pc[t] \in {"idle", "body", "sleepInactive", "sleepSuspend"}
  => Len(taskQueue) <= refs

\* A resume() that has returned is not undone: without a suspend() in effect,
\* suspend_ is clear unless the thread that will clear it is on its way.
ResumeTakesEffect ==
  suspendCount = 0 /\ suspend => \E t \in Threads : pc[t] = "resumeStore"

\* ConcurrentTest.Suspend (ConcurrentTest.cpp:121-137) expects that a suspend() that
\* has returned keeps the rest of the tasks from running until resume().
SuspendTakesEffect ==
  owed > 0 /\ (\A t \in Threads : pc[t] \notin {"suspendStore", "resumeStore"}) => suspend

\* A queue that ends up active and without a suspend() in effect runs every task
\* submitted to it.
EveryTaskRuns == <>[](~inactive /\ suspendCount = 0) => <>[](submitted \subseteq finished)
=============================================================================
