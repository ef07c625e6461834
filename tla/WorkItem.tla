------------------------------ MODULE WorkItem ------------------------------
(***************************************************************************)
(* DispatchWorkItem: performed directly or by a queue, waited for,         *)
(* cancelled and destroyed, with its callback kept by DispatchNotify       *)
(* (module Notify) and its life by DispatchKeepAlive (module KeepAlive).   *)
(*                                                                         *)
(* A queue holds a weak reference to the item.  A thread that performs it  *)
(* for the queue first gets a token with lock(); it is inside              *)
(* AsyncTask::performWithQueue() or SyncTask::performWithQueue(), which    *)
(* are noexcept.  Direct calls are made by threads for which the item is   *)
(* alive: its owner destroys it when no direct call is in progress and     *)
(* none follows.                                                           *)
(***************************************************************************)
EXTENDS Notify, KeepAlive

CONSTANTS Owner,        \* the thread that destroys the item
          MaxPerforms   \* bound on performs, direct or submitted to a queue

ASSUME WorkItemAssumption == Owner \in Threads /\ MaxPerforms \in Nat

VARIABLES
  count,       \* count_
  waited,      \* waited_
  isFinished,  \* isFinished_
  func,        \* whether func_ holds the task
  pc,          \* where each thread is
  copy,        \* whether func in perform() holds the task
  success,     \* success in perform()
  queued,      \* weak references to the item in queues
  requested,   \* auxiliary: performs asked for so far
  accepted,    \* auxiliary: performs that were not refused
  terminated   \* auxiliary: an exception has left a noexcept function

itemVars == <<count, waited, isFinished, func>>
locals == <<copy, success>>
ghosts == <<requested, accepted, terminated>>
vars == <<notifyVars, keepAliveVars, itemVars, pc, locals, queued, ghosts>>

PerformLabels == {"count", "readWaited", "copyFunc", "run", "finish", "store", "wake",
                  "fire", "return"}
WaitLabels == {"readCount", "sleep", "asleep", "poll"}
DestroyLabels == {"dispose", "join", "gone"}
Labels == {"idle", "lock", "signal", "notify", "reset"}
            \cup PerformLabels \cup WaitLabels \cup DestroyLabels

Init == /\ NotifyInit /\ KeepAliveInit
        /\ count = 0 /\ waited = FALSE /\ isFinished = FALSE /\ func = TRUE
        /\ pc = [t \in Threads |-> "idle"]
        /\ copy = [t \in Threads |-> FALSE]
        /\ success = [t \in Threads |-> FALSE]
        /\ queued = 0 /\ requested = 0 /\ accepted = 0
        /\ terminated = FALSE

Goto(t, from, to) == pc[t] = from /\ pc' = [pc EXCEPT ![t] = to]

\* Who may call the item directly, and whether t is in the middle of such a call
MayCall(t) == pc[t] = "idle" /\ pc[Owner] \notin DestroyLabels
Calling(t) == pc[t] \notin {"idle", "lock", "signal"} /\ ~token[t]
-----------------------------------------------------------------------------
(* Mistakes a change of the code could make.  They are no part of the      *)
(* specification: each takes the place of the definition it resembles to   *)
(* see that a property notices.                                            *)

\* CountsPerform() that looks at waited_ on the first perform only
CountsPerformWrongly(t) ==
  /\ Goto(t, "count", IF count > 0 THEN "copyFunc" ELSE "readWaited")
  /\ count' = count + 1
  /\ accepted' = IF count = 0 THEN accepted ELSE accepted + 1
  /\ UNCHANGED <<notifyVars, keepAliveVars, waited, isFinished, func, locals, queued,
                 requested, terminated>>

\* WakesOne() that wakes nobody
WakesNobody(t) == /\ Goto(t, "wake", "fire")
                  /\ UNCHANGED <<notifyVars, keepAliveVars, itemVars, locals, queued, ghosts>>

\* Destroy() that does not wait for the tokens
DisposesAtOnce(t) == /\ Goto(t, "dispose", "gone")
                     /\ func' = FALSE /\ destroyed' = TRUE
                     /\ UNCHANGED <<notifyVars, keepAliveCount, keepAliveRelease,
                                    keepAliveJoined, kpc, cur, token, count, waited,
                                    isFinished, locals, queued, ghosts>>
-----------------------------------------------------------------------------
(* async(), sync() and perform() with the item                             *)

\* A queue gets a weak reference to the item.
Submit(t) == /\ MayCall(t)
             /\ requested < MaxPerforms
             /\ queued' = queued + 1
             /\ requested' = requested + 1
             /\ UNCHANGED <<notifyVars, keepAliveVars, itemVars, pc, locals, accepted,
                            terminated>>

\* A thread takes the task from the queue, a worker or the one inside sync().
TakeTask(t) == /\ queued > 0 /\ queued' = queued - 1
               /\ Goto(t, "idle", "lock") /\ LockLoads(t)
               /\ UNCHANGED <<notifyVars, itemVars, locals, ghosts>>

Locks(t) == /\ LockSteps(t)
            /\ pc' = [pc EXCEPT ![t] = IF kpc'[t] = "lock" THEN "lock"
                                       ELSE IF token'[t] THEN "count" ELSE "idle"]
            /\ UNCHANGED <<notifyVars, itemVars, locals, queued, ghosts>>

Perform(t) == /\ MayCall(t) /\ Goto(t, "idle", "count")
              /\ requested < MaxPerforms
              /\ requested' = requested + 1
              /\ UNCHANGED <<notifyVars, keepAliveVars, itemVars, locals, queued, accepted,
                             terminated>>

CountsPerform(t) ==
  /\ Goto(t, "count", IF count > 0 THEN "readWaited" ELSE "copyFunc")
  /\ count' = count + 1
  /\ accepted' = IF count > 0 THEN accepted ELSE accepted + 1
  /\ UNCHANGED <<notifyVars, keepAliveVars, waited, isFinished, func, locals, queued,
                 requested, terminated>>

Accepts(t) == /\ Goto(t, "readWaited", "copyFunc")
              /\ ~waited
              /\ accepted' = accepted + 1
              /\ UNCHANGED <<notifyVars, keepAliveVars, itemVars, locals, queued, requested,
                             terminated>>

\* The exception reaches whoever called perform(), or ends the program.
Refuses(t) == /\ Goto(t, "readWaited", "idle")
              /\ waited
              /\ terminated' = token[t]
              /\ UNCHANGED <<notifyVars, keepAliveVars, itemVars, locals, queued, requested,
                             accepted>>

\* func_ is a plain shared_ptr: a copy of it while another thread resets it finds the
\* task or does not.
CopiesFunc(t) == /\ Goto(t, "copyFunc", "run")
                 /\ \/ copy' = [copy EXCEPT ![t] = func]
                    \/ /\ \E u \in Threads : pc[u] \in {"reset", "dispose"}
                       /\ copy' = [copy EXCEPT ![t] = FALSE]
                 /\ UNCHANGED <<notifyVars, keepAliveVars, itemVars, success, queued, ghosts>>

\* The task returns or throws.
Runs(t) == /\ Goto(t, "run", "finish")
           /\ \E ok \in BOOLEAN : /\ ok => copy[t]
                                  /\ success' = [success EXCEPT ![t] = ok]
           /\ copy' = [copy EXCEPT ![t] = FALSE]
           /\ UNCHANGED <<notifyVars, keepAliveVars, itemVars, queued, ghosts>>
-----------------------------------------------------------------------------
(* finish()                                                                *)

ReadsFinished(t) == /\ Goto(t, "finish", IF isFinished THEN "fire" ELSE "store")
                    /\ UNCHANGED <<notifyVars, keepAliveVars, itemVars, locals, queued, ghosts>>

StoresFinished(t) == /\ Goto(t, "store", "wake")
                     /\ isFinished' = TRUE
                     /\ UNCHANGED <<notifyVars, keepAliveVars, count, waited, func, locals,
                                    queued, ghosts>>

\* isFinished_.notify_one()
WakesOne(t) ==
  /\ pc[t] = "wake"
  /\ \/ /\ \A u \in Threads : pc[u] # "asleep"
        /\ pc' = [pc EXCEPT ![t] = "fire"]
     \/ \E u \in Threads : /\ pc[u] = "asleep"
                           /\ pc' = [pc EXCEPT ![t] = "fire", ![u] = "sleep"]
  /\ UNCHANGED <<notifyVars, keepAliveVars, itemVars, locals, queued, ghosts>>

\* doNotify() after a success, cancel() after a failure, each if a callback is set
Fires(t) == /\ pc[t] = "fire" /\ Win(t, IF success[t] THEN "post" ELSE "drop")
            /\ UNCHANGED <<keepAliveVars, itemVars, pc, locals, queued, ghosts>>

HandlesCallback(t) == /\ pc[t] = "fire" /\ (Post(t) \/ Drop(t))
                      /\ UNCHANGED <<keepAliveVars, itemVars, pc, locals, queued, ghosts>>

FreesCallback(t) == /\ Goto(t, "fire", "return") /\ Reset(t)
                    /\ success' = [success EXCEPT ![t] = FALSE]
                    /\ UNCHANGED <<keepAliveVars, itemVars, copy, queued, ghosts>>

NoCallbackSet(t) == /\ Goto(t, "fire", "return")
                    /\ npc[t] = "out" /\ state # "notified"
                    /\ success' = [success EXCEPT ![t] = FALSE]
                    /\ UNCHANGED <<notifyVars, keepAliveVars, itemVars, copy, queued, ghosts>>

Returns(t) == /\ Goto(t, "return", "idle")
              /\ ~token[t]
              /\ UNCHANGED <<notifyVars, keepAliveVars, itemVars, locals, queued, ghosts>>

\* Who performed the item for a queue gives its token back.
Releases(t) == /\ pc[t] = "return" /\ Release(t)
               /\ pc' = [pc EXCEPT ![t] = IF kpc'[t] = "signal" THEN "signal" ELSE "idle"]
               /\ UNCHANGED <<notifyVars, itemVars, locals, queued, ghosts>>

Signals(t) == /\ Goto(t, "signal", "idle") /\ Signal(t)
              /\ UNCHANGED <<notifyVars, itemVars, locals, queued, ghosts>>
-----------------------------------------------------------------------------
(* wait() and tryWait().  A second one throws and changes nothing.         *)

Wait(t) == /\ MayCall(t) /\ Goto(t, "idle", "readCount")
           /\ ~waited /\ waited' = TRUE
           /\ UNCHANGED <<notifyVars, keepAliveVars, count, isFinished, func, locals, queued,
                          ghosts>>

\* The call throws with waited_ set, or is in wait() or in tryWait() from here on.
ReadsCount(t) == /\ \/ count > 1 /\ Goto(t, "readCount", "idle")
                    \/ count <= 1 /\ \E to \in {"sleep", "poll"} : Goto(t, "readCount", to)
                 /\ UNCHANGED <<notifyVars, keepAliveVars, itemVars, locals, queued, ghosts>>

\* isFinished_.wait(false): the value is compared again when notified
Sleeps(t) == /\ Goto(t, "sleep", IF isFinished THEN "idle" ELSE "asleep")
             /\ UNCHANGED <<notifyVars, keepAliveVars, itemVars, locals, queued, ghosts>>

SeesFinished(t) == /\ Goto(t, "poll", "idle")
                   /\ isFinished
                   /\ UNCHANGED <<notifyVars, keepAliveVars, itemVars, locals, queued, ghosts>>

TimesOut(t) == /\ Goto(t, "poll", "idle")
               /\ waited' = FALSE
               /\ UNCHANGED <<notifyVars, keepAliveVars, count, isFinished, func, locals,
                              queued, ghosts>>
-----------------------------------------------------------------------------
(* notify(), cancel() and the destructor                                   *)

\* Callbacks are alike: any that was not passed before will do.
NotifyCall(t) == /\ MayCall(t) /\ Goto(t, "idle", "notify")
                 /\ Callbacks \ registered # {}
                 /\ Claim(t, CHOOSE f \in Callbacks : f \notin registered)
                 /\ UNCHANGED <<keepAliveVars, itemVars, locals, queued, ghosts>>

SetsCallback(t) == /\ pc[t] = "notify" /\ Fill(t)
                   /\ UNCHANGED <<keepAliveVars, itemVars, pc, locals, queued, ghosts>>

NotifyReturns(t) == /\ Goto(t, "notify", "idle") /\ Publish(t)
                    /\ UNCHANGED <<keepAliveVars, itemVars, locals, queued, ghosts>>

Cancel(t) == /\ MayCall(t) /\ Goto(t, "idle", "reset")
             /\ UNCHANGED <<notifyVars, keepAliveVars, itemVars, locals, queued, ghosts>>

Cancels(t) == /\ Goto(t, "reset", "idle")
              /\ func' = FALSE
              /\ UNCHANGED <<notifyVars, keepAliveVars, count, waited, isFinished, locals,
                             queued, ghosts>>

\* The destructor begins once nobody is in a direct call.
Destroy(t) == /\ t = Owner /\ Goto(t, "idle", "dispose")
              /\ \A u \in Threads : ~Calling(u)
              /\ UNCHANGED <<notifyVars, keepAliveVars, itemVars, locals, queued, ghosts>>

Disposes(t) == /\ Goto(t, "dispose", "join") /\ JoinReleases(t)
               /\ func' = FALSE
               /\ UNCHANGED <<notifyVars, count, waited, isFinished, locals, queued, ghosts>>

Joins(t) == /\ JoinSteps(t)
            /\ pc' = [pc EXCEPT ![t] = IF destroyed' THEN "gone" ELSE "join"]
            /\ UNCHANGED <<notifyVars, itemVars, locals, queued, ghosts>>
-----------------------------------------------------------------------------
\* The callbacks that the item has posted run on their queue.
RunsCallback(t) == /\ pc[t] = "idle" /\ (BeginCallback(t) \/ EndCallback(t))
                   /\ UNCHANGED <<keepAliveVars, itemVars, pc, locals, queued, ghosts>>

Call(t) == \/ Submit(t) \/ Perform(t) \/ Wait(t) \/ NotifyCall(t) \/ Cancel(t) \/ Destroy(t)

Performs(t) ==
  \/ Locks(t) \/ CountsPerform(t) \/ Accepts(t) \/ Refuses(t) \/ CopiesFunc(t) \/ Runs(t)
  \/ ReadsFinished(t) \/ StoresFinished(t) \/ WakesOne(t)
  \/ Fires(t) \/ HandlesCallback(t) \/ FreesCallback(t) \/ NoCallbackSet(t)
  \/ Returns(t) \/ Releases(t) \/ Signals(t)

Progress(t) ==
  \/ Performs(t)
  \/ ReadsCount(t) \/ Sleeps(t) \/ SeesFinished(t)
  \/ SetsCallback(t) \/ NotifyReturns(t) \/ Cancels(t) \/ Disposes(t) \/ Joins(t)

Next == ~terminated /\ \E t \in Threads :
           Call(t) \/ TakeTask(t) \/ Progress(t) \/ TimesOut(t) \/ RunsCallback(t)

SafeSpec == Init /\ [][Next]_vars

\* A thread inside a call that can take a step takes one: tasks return.
Spec == SafeSpec /\ \A t \in Threads : WF_vars(~terminated /\ Progress(t))
-----------------------------------------------------------------------------
(* Properties                                                              *)

TypeOK == /\ NotifyTypeOK /\ KeepAliveTypeOK
          /\ count \in 0..MaxPerforms
          /\ waited \in BOOLEAN /\ isFinished \in BOOLEAN /\ func \in BOOLEAN
          /\ pc \in [Threads -> Labels]
          /\ copy \in [Threads -> BOOLEAN] /\ success \in [Threads -> BOOLEAN]
          /\ queued \in 0..MaxPerforms
          /\ requested \in 0..MaxPerforms /\ accepted \in 0..requested
          /\ terminated \in BOOLEAN

\* The weak references in queues and their lock() are safe: once the destructor has
\* gone past the join, nobody is inside the item, and nobody gets inside any more.
NobodyInside ==
  destroyed => \A t \in Threads : /\ ~token[t] /\ npc[t] = "out"
                                  /\ Calling(t) => t = Owner

\* "This work item is only executed once while waiting" (DispatchWorkItem.h:91): wait()
\* and perform() each set their own flag and then look at the other's, so no wait() is
\* in progress with two performs accepted, and no two are in progress.
WaitsForOne ==
  \A t \in Threads : pc[t] \in {"sleep", "asleep", "poll"} =>
    /\ waited /\ accepted <= 1
    /\ \A u \in Threads \ {t} : pc[u] \notin {"sleep", "asleep", "poll"}

\* wait() returns once the item was performed, even if the task threw, was cancelled or
\* its queue is gone by then.
EveryWaitReturns ==
  accepted > 0 /\ (\E t \in Threads : pc[t] \in {"sleep", "asleep"})
    ~> terminated \/ \A t \in Threads : pc[t] \notin {"sleep", "asleep"}

\* The destructor returns: the last token is always noticed, whether it is the object's
\* own or one that a performing thread got just before.
DestroyEnds == pc[Owner] = "dispose" ~> destroyed \/ terminated
=============================================================================
