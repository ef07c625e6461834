------------------------------ MODULE Executor ------------------------------
(***************************************************************************)
(* DispatchQueueExecutor: the thread pool that serves the references to    *)
(* queues.  A thread is started when a reference is added and no thread    *)
(* seems free for it, leaves after a minute without work, and is joined by *)
(* a later addWithPriority() or by stop().                                 *)
(*                                                                         *)
(* taskQueues_ is reduced to what the pool sees of it (PrioritySemQueue):  *)
(* how many references and poison elements it holds, and its counters.     *)
(* Poison goes to the lowest priority, so it is looked for last.  What a   *)
(* reference leads to, a task or nothing, is the queue's choice.           *)
(*                                                                         *)
(* A client is any thread inside addWithPriority(), one that executes a    *)
(* task included.  Queues own the executor: when it is destroyed no call   *)
(* begins, but calls may still be under way, held by their keep-alive.     *)
(***************************************************************************)
EXTENDS Totals

CONSTANTS Clients,   \* threads that add references
          Workers,   \* thread objects, used again once joined
          Owner,     \* the thread that destroys the executor
          Nobody,    \* no thread: threadListLock_ is free
          PoolSizes, \* numThreads of the constructor
          MaxAdds    \* bound on calls of addWithPriority() by clients

Threads == Clients \cup Workers \cup {Owner}

ASSUME ExecutorAssumption ==
  /\ Clients \cap Workers = {}
  /\ Owner \notin Clients \cup Workers
  /\ Nobody \notin Clients \cup Workers \cup {Owner}
  /\ IsFiniteSet(Clients) /\ IsFiniteSet(Workers)
  /\ PoolSizes \subseteq 1..Cardinality(Workers)
  /\ MaxAdds \in 0..Cardinality(Workers)

VARIABLES
  work,           \* references in taskQueues_
  poison,         \* poison elements in taskQueues_
  sem,            \* sem_ of taskQueues_
  readCount,      \* readCount_ of taskQueues_
  writeCount,     \* writeCount_ of taskQueues_
  lock,           \* who holds threadListLock_
  threadList,     \* threadList_
  stopped,        \* stoppedThreadQueue_
  maxThreads,     \* maxThreads_
  activeThreads,  \* activeThreads_
  threadsToJoin,  \* threadsToJoin_
  threadsToStop,  \* threadsToStop_
  isJoin,         \* isJoin_
  pc,             \* where each thread is
  mine,           \* writeCount in taskQueues_->addWithPriority()
  joins,          \* threads a thread still has to join
  overtaken,      \* auxiliary: a reference was pushed while a call that had counted
                  \* earlier had yet to push or to compare
  failed          \* auxiliary: a thread could not be started

taskQueues == <<work, poison, sem, readCount, writeCount>>
counts == <<maxThreads, activeThreads, threadsToJoin, threadsToStop, isJoin>>
pool == <<lock, threadList, stopped, counts>>
ghosts == <<overtaken, failed>>
vars == <<taskQueues, pool, pc, mine, joins, ghosts>>

Adding == {"push", "release", "guess", "toJoin", "joinLock", "join", "active", "addLock",
           "count"}
Looking == {"take", "look", "lookLow", "acquire", "uncount", "lastChance", "recount",
            "timedOut", "sizeCheck"}
Labels == {"none", "idle", "close", "done", "poisoned", "body", "check", "stopLock",
           "again"} \cup Adding \cup Looking

Init == /\ work = 0 /\ poison = 0 /\ sem = 0 /\ readCount = 0 /\ writeCount = 0
        /\ lock = Nobody
        /\ threadList = {} /\ stopped = {}
        /\ maxThreads \in PoolSizes
        /\ activeThreads = 0 /\ threadsToJoin = 0 /\ threadsToStop = 0
        /\ isJoin = FALSE
        /\ pc = [t \in Threads |-> IF t \in Workers THEN "none" ELSE "idle"]
        /\ mine = [t \in Clients |-> 0]
        /\ joins = [t \in Threads |-> 0]
        /\ overtaken = FALSE /\ failed = FALSE

Goto(t, from, to) == pc[t] = from /\ pc' = [pc EXCEPT ![t] = to]

\* A thread object that is not in use: any will do, and there is one for every add.
NewThread == CHOOSE w \in Workers : pc[w] = "none" /\ w \notin stopped

\* The executor is about to be destroyed or has been.
Closing == pc[Owner] # "idle"
-----------------------------------------------------------------------------
(* Mistakes a change of the code could make.  They are no part of the      *)
(* specification: each takes the place of the definition it resembles to   *)
(* see that a property notices.                                            *)

\* SizeCheckFails() that does not look at the queue
SizeIgnored(w) == /\ Goto(w, "sizeCheck", "none")
                  /\ threadsToJoin' = threadsToJoin + 1
                  /\ threadList' = threadList \ {w}
                  /\ stopped' = stopped \cup {w}
                  /\ lock' = Nobody
                  /\ UNCHANGED <<taskQueues, maxThreads, activeThreads, threadsToStop, isJoin,
                                 mine, joins, ghosts>>

\* TakeJoins() that does not reset threadsToJoin_
TakeJoinsAgain(t) == /\ Goto(t, "joinLock", "join")
                     /\ lock = Nobody
                     /\ joins' = [joins EXCEPT ![t] = threadsToJoin]
                     /\ UNCHANGED <<taskQueues, pool, mine, ghosts>>

\* StartThread() without the second look at activeThreads_
StartThreadBlindly(t) ==
  /\ lock = Nobody
  /\ pc[t] = "addLock"
  /\ pc' = [pc EXCEPT ![t] = "count", ![NewThread] = "take"]
  /\ threadList' = threadList \cup {NewThread}
  /\ lock' = t
  /\ UNCHANGED <<taskQueues, stopped, counts, mine, joins, ghosts>>

\* StopAll() that leaves threadsToStop_ alone
StopAllUncounted(t) ==
  /\ Goto(t, "close", "join")
  /\ \A c \in Clients : pc[c] = "idle"
  /\ lock = Nobody
  /\ maxThreads' = 0 /\ activeThreads' = 0
  /\ isJoin' \in BOOLEAN
  /\ poison' = poison + Cardinality(threadList)
  /\ sem' = sem + Cardinality(threadList)
  /\ writeCount' = writeCount + Cardinality(threadList)
  /\ joins' = [joins EXCEPT ![t] = Cardinality(threadList) + threadsToJoin]
  /\ threadsToJoin' = 0
  /\ UNCHANGED <<work, readCount, threadsToStop, lock, threadList, stopped, mine, ghosts>>

\* Reused() that compares with the wrong end
ReusedOffByOne(t) == mine[t] <= readCount + 1
-----------------------------------------------------------------------------
(* addWithPriority(): count, push and release a token, and guess whether a *)
(* thread is free for the reference.                                       *)

Add(t) == /\ t \in Clients /\ ~Closing
          /\ writeCount < MaxAdds
          /\ Goto(t, "idle", "push")
          /\ writeCount' = writeCount + 1
          /\ mine' = [mine EXCEPT ![t] = writeCount + 1]
          /\ UNCHANGED <<work, poison, sem, readCount, pool, joins, ghosts>>

Push(t) == /\ Goto(t, "push", "release")
           /\ work' = work + 1
           /\ overtaken' = (overtaken \/ \E c \in Clients : mine[c] \in 1..mine[t] - 1)
           /\ UNCHANGED <<poison, sem, readCount, writeCount, pool, mine, joins, failed>>

Release(t) == /\ Goto(t, "release", "guess")
              /\ sem' = sem + 1
              /\ UNCHANGED <<work, poison, readCount, writeCount, pool, mine, joins, ghosts>>

Reused(t) == mine[t] <= readCount

Guess(t) == /\ Goto(t, "guess", IF Reused(t) THEN "idle" ELSE "toJoin")
            /\ mine' = [mine EXCEPT ![t] = 0]
            /\ UNCHANGED <<taskQueues, pool, joins, ghosts>>
-----------------------------------------------------------------------------
(* ensureActiveThreads(): join the threads that left, then start one if    *)
(* there are fewer than there may be.                                      *)

Branch(t, from, to) == Goto(t, from, to) /\ UNCHANGED <<taskQueues, pool, mine, joins, ghosts>>

ReadsToJoin(t) == Branch(t, "toJoin", IF threadsToJoin = 0 THEN "active" ELSE "joinLock")

TakeJoins(t) == /\ Goto(t, "joinLock", "join")
                /\ lock = Nobody
                /\ joins' = [joins EXCEPT ![t] = threadsToJoin]
                /\ threadsToJoin' = 0
                /\ UNCHANGED <<taskQueues, lock, threadList, stopped, maxThreads,
                               activeThreads, threadsToStop, isJoin, mine, ghosts>>

\* joinStoppedThreads(): take a thread that left its loop and join it, until all
\* that were promised are joined
JoinOne(t) == /\ pc[t] = "join" /\ joins[t] > 0
              /\ stopped # {}
              /\ stopped' = stopped \ {CHOOSE w \in stopped : TRUE}
              /\ joins' = [joins EXCEPT ![t] = @ - 1]
              /\ UNCHANGED <<taskQueues, lock, threadList, counts, pc, mine, ghosts>>

AllJoined(t) == /\ joins[t] = 0
                /\ Branch(t, "join", IF t = Owner THEN "done" ELSE "active")

ReadsActive(t) ==
  Branch(t, "active", IF activeThreads >= maxThreads THEN "idle" ELSE "addLock")

EnoughThreads(t) == /\ lock = Nobody
                    /\ activeThreads >= maxThreads
                    /\ Branch(t, "addLock", "idle")

\* addThreads(1), with the lock held until the thread is counted
StartThread(t) ==
  /\ lock = Nobody
  /\ activeThreads < maxThreads
  /\ pc[t] = "addLock"
  /\ pc' = [pc EXCEPT ![t] = "count", ![NewThread] = "take"]
  /\ threadList' = threadList \cup {NewThread}
  /\ lock' = t
  /\ UNCHANGED <<taskQueues, stopped, counts, mine, joins, ghosts>>

\* std::thread throws: the lock is given up, the caller of async() gets the exception.
StartFails(t) == /\ Goto(t, "addLock", "idle")
                 /\ lock = Nobody
                 /\ activeThreads < maxThreads
                 /\ failed' = TRUE
                 /\ UNCHANGED <<taskQueues, pool, mine, joins, overtaken>>

CountThread(t) == /\ Goto(t, "count", "idle")
                  /\ activeThreads' = activeThreads + 1
                  /\ lock' = Nobody
                  /\ UNCHANGED <<taskQueues, threadList, stopped, maxThreads, threadsToJoin,
                                 threadsToStop, isJoin, mine, joins, ghosts>>
-----------------------------------------------------------------------------
(* takeNextTask(): tryTake() of taskQueues_, and what its result leads to  *)

\* A step that changes nothing but the counters of taskQueues_ and where it is
TakeStep(w) == UNCHANGED <<writeCount, pool, mine, joins, ghosts>>

Take(w) == /\ Goto(w, "take", "look")
           /\ readCount' = readCount + 1
           /\ UNCHANGED <<work, poison, sem>> /\ TakeStep(w)

\* The queue is alive and has a task for the worker, or it is not or has none.
FindRef(w) == /\ Goto(w, "look", "body") \/ Goto(w, "look", "take")
              /\ work > 0
              /\ work' = work - 1
              /\ UNCHANGED <<poison, sem, readCount>> /\ TakeStep(w)

FindNoRef(w) == work = 0 /\ Branch(w, "look", "lookLow")

FindPoison(w) == /\ Goto(w, "lookLow", "poisoned")
                 /\ poison > 0
                 /\ poison' = poison - 1
                 /\ UNCHANGED <<work, sem, readCount>> /\ TakeStep(w)

FindNothing(w) == poison = 0 /\ Branch(w, "lookLow", "acquire")

Acquire(w) == /\ Goto(w, "acquire", "look")
              /\ sem > 0
              /\ sem' = sem - 1
              /\ UNCHANGED <<work, poison, readCount>> /\ TakeStep(w)

TimeOut(w) == Branch(w, "acquire", "uncount")

Uncount(w) == /\ Goto(w, "uncount", "lastChance")
              /\ readCount' = readCount - 1
              /\ UNCHANGED <<work, poison, sem>> /\ TakeStep(w)

LastChance(w) == /\ Goto(w, "lastChance", IF sem > 0 THEN "recount" ELSE "timedOut")
                 /\ sem' = IF sem > 0 THEN sem - 1 ELSE 0
                 /\ UNCHANGED <<work, poison, readCount>> /\ TakeStep(w)

Recount(w) == /\ Goto(w, "recount", "look")
              /\ readCount' = readCount + 1
              /\ UNCHANGED <<work, poison, sem>> /\ TakeStep(w)

FinishBody(w) == Branch(w, "body", "check")

\* The look at threadsToStop_ after each task
CheckStop(w) ==
  Branch(w, "check", IF threadsToStop > 0 /\ ~isJoin THEN "stopLock" ELSE "again")

\* A worker that served a serial queue asks it for its next task first.
SerialGoesOn(w) == Branch(w, "again", "body")
SerialEnds(w) == Branch(w, "again", "take")
-----------------------------------------------------------------------------
(* threadShouldStop(), and the look at threadsToStop_ after a task: all    *)
(* with threadListLock_ held.  Once threads were told to stop, there is    *)
(* always one more to stop for each that gets here (EveryThreadJoined).    *)

\* threadList_ loses the thread and stoppedThreadQueue_ receives it.
Leave(w, from) == /\ Goto(w, from, "none")
                  /\ threadList' = threadList \ {w}
                  /\ stopped' = stopped \cup {w}
                  /\ lock' = Nobody

Stops(w) == /\ lock = Nobody
            /\ threadsToStop > 0
            /\ threadsToStop' = threadsToStop - 1
            /\ \E from \in {"timedOut", "poisoned", "stopLock"} : Leave(w, from)
            /\ UNCHANGED <<taskQueues, maxThreads, activeThreads, threadsToJoin, isJoin,
                           mine, joins, ghosts>>

\* tryTimeoutThread(): be gone first, and then look for work
TimesOut(w) == /\ Goto(w, "timedOut", "sizeCheck")
               /\ lock = Nobody
               /\ threadsToStop = 0
               /\ lock' = w
               /\ activeThreads' = activeThreads - 1
               /\ UNCHANGED <<taskQueues, threadList, stopped, maxThreads, threadsToJoin,
                              threadsToStop, isJoin, mine, joins, ghosts>>

SizeCheckFails(w) == /\ work + poison = 0
                     /\ Leave(w, "sizeCheck")
                     /\ threadsToJoin' = threadsToJoin + 1
                     /\ UNCHANGED <<taskQueues, maxThreads, activeThreads, threadsToStop,
                                    isJoin, mine, joins, ghosts>>

ComesBack(w) == /\ Goto(w, "sizeCheck", "take")
                /\ work + poison > 0
                /\ activeThreads' = activeThreads + 1
                /\ lock' = Nobody
                /\ UNCHANGED <<taskQueues, threadList, stopped, maxThreads, threadsToJoin,
                               threadsToStop, isJoin, mine, joins, ghosts>>
-----------------------------------------------------------------------------
(* stop() and join(): wait for the calls under way, tell every thread to   *)
(* stop, and join those and the ones that left before.                     *)

Close(t) == t = Owner /\ Branch(t, "idle", "close")

StopAll(t) ==
  /\ Goto(t, "close", "join")
  /\ \A c \in Clients : pc[c] = "idle"
  /\ lock = Nobody
  /\ maxThreads' = 0 /\ activeThreads' = 0
  /\ isJoin' \in BOOLEAN
  /\ LET n == Cardinality(threadList)
     IN /\ threadsToStop' = threadsToStop + n
        /\ poison' = poison + n
        /\ sem' = sem + n
        /\ writeCount' = writeCount + n
        /\ joins' = [joins EXCEPT ![t] = n + threadsToJoin]
  /\ threadsToJoin' = 0
  /\ UNCHANGED <<work, readCount, lock, threadList, stopped, mine, ghosts>>
-----------------------------------------------------------------------------
AddStep(t) == \/ Push(t) \/ Release(t) \/ Guess(t) \/ ReadsToJoin(t) \/ TakeJoins(t)
              \/ ReadsActive(t) \/ EnoughThreads(t) \/ StartThread(t) \/ StartFails(t)
              \/ CountThread(t)

JoinStep(t) == JoinOne(t) \/ AllJoined(t)

WorkStep(w) ==
  \/ Take(w) \/ FindRef(w) \/ FindNoRef(w) \/ FindPoison(w) \/ FindNothing(w)
  \/ Acquire(w) \/ Uncount(w) \/ LastChance(w) \/ Recount(w)
  \/ FinishBody(w) \/ CheckStop(w)
  \/ SerialGoesOn(w) \/ SerialEnds(w)
  \/ Stops(w) \/ TimesOut(w) \/ SizeCheckFails(w) \/ ComesBack(w)

\* What a thread does once it has begun: a client adds, a worker works, the owner joins.
Progress(t) == \/ t \in Clients /\ (AddStep(t) \/ JoinStep(t))
               \/ t \in Workers /\ WorkStep(t)
               \/ t = Owner /\ (StopAll(t) \/ JoinStep(t))

Next == \E t \in Threads : Add(t) \/ Close(t) \/ TimeOut(t) \/ Progress(t)

SafeSpec == Init /\ [][Next]_vars

\* Every thread that can take a step takes one, so tasks return, and no serial queue
\* has tasks for ever.  Nobody is obliged to add or to destroy the executor, and no
\* thread has to time out.
Fairness == /\ \A t \in Threads : WF_vars(Progress(t))
            /\ \A w \in Workers : SF_vars(SerialEnds(w))

Spec == SafeSpec /\ Fairness
-----------------------------------------------------------------------------
(* Properties                                                              *)

TypeOK == /\ work \in Nat /\ poison \in Nat /\ sem \in Nat
          /\ readCount \in Nat /\ writeCount \in Nat
          /\ lock \in Threads \cup {Nobody}
          /\ threadList \subseteq Workers /\ stopped \subseteq Workers
          /\ maxThreads \in PoolSizes \cup {0}
          /\ activeThreads \in Nat
          /\ threadsToJoin \in Nat /\ threadsToStop \in Nat
          /\ isJoin \in BOOLEAN
          /\ pc \in [Threads -> Labels]
          /\ mine \in [Clients -> Nat]
          /\ joins \in [Threads -> Nat]
          /\ overtaken \in BOOLEAN /\ failed \in BOOLEAN

\* activeThreads_, which is read without the lock, never exceeds the limit, and with
\* the lock free it is the number of threads in the pool, until stop().
ActiveExact ==
  /\ activeThreads <= maxThreads
  /\ lock = Nobody /\ maxThreads > 0 => activeThreads = Cardinality(threadList)

\* Every thread that left its loop, and after stop() every thread, is joined exactly
\* once: the joins that are promised are as many as the threads there will be to join,
\* and after stop() as many threads are to stop as there are, so that none finds that
\* another one took its place, goes on, and is waited for in vain.
EveryThreadJoined ==
  /\ threadsToJoin + Total(joins)
       = Cardinality(stopped) + (IF maxThreads = 0 THEN Cardinality(threadList) ELSE 0)
  /\ IF maxThreads > 0 THEN threadsToStop = 0 /\ poison = 0
                       ELSE threadsToStop = Cardinality(threadList)

\* No addWithPriority() is under way.
Settled == ~Closing /\ lock = Nobody /\ \A t \in Clients : pc[t] = "idle"

\* "If we can't ensure that we were able to hand off a task to a thread, attempt to
\* start a thread" (DispatchQueueExecutor.cpp:125-127): a reference is never left
\* without a thread if it can be started.  One that times out sees the reference, or
\* whoever adds it sees that the thread is gone.
RefsNotForgotten == Settled /\ ~failed /\ work > 0 => threadList # {}

\* The guess of addWithPriority() (PrioritySemMPMCQueue.h:61) is right if threads can be
\* started and nobody pushes while a call that counted earlier has yet to compare: the
\* references have as many threads about to look, unless all are up.
RefsHaveThreads ==
  Settled /\ ~overtaken /\ ~failed =>
    \/ activeThreads >= maxThreads
    \/ work <= Cardinality({w \in Workers : pc[w] \in Looking})

\* ... and then a reference does not wait for ever, although threads time out.
EveryRefTaken == work > 0 ~> (work = 0 \/ Closing \/ overtaken \/ failed)

\* The destruction of the executor ends, with no thread left that was not joined.
StopEnds == Closing ~> pc[Owner] = "done" /\ threadList = {} /\ stopped = {}
=============================================================================
