------------------------------- MODULE Group -------------------------------
(***************************************************************************)
(* DispatchGroup, one action per access to an atomic variable, with the    *)
(* callback of notify() kept by DispatchNotify (module Notify).            *)
(*                                                                         *)
(* The tasks of the group are whoever entered and has not left: any thread *)
(* may make the leave() that balances an enter().  A thread in wait()      *)
(* sleeps on the value of taskCount_ it last read.                         *)
(***************************************************************************)
EXTENDS Notify, Integers, FiniteSets

CONSTANTS MaxTasks,   \* bound on tasks in the group at one time
          MaxWaits    \* bound on calls of wait()

ASSUME GroupAssumption ==
  IsFiniteSet(Threads) /\ MaxTasks \in Nat /\ MaxWaits \in Nat

VARIABLES
  taskCount,    \* taskCount_
  waitCount,    \* waitCount_
  notifyCount,  \* notifyCount_
  pc,           \* where each thread is
  curr,         \* curr in wait()
  ticket,       \* ticket in wait()
  mayNotify,    \* mayNotify in leave()
  sawEmpty,     \* auxiliary: the group was empty during a thread's wait()
  emptied,      \* auxiliary: callbacks since whose notify() the group was empty
  overtaken     \* auxiliary: a load has overtaken the store of state_ before it

counters == <<taskCount, waitCount, notifyCount>>
locals == <<curr, ticket, mayNotify>>
ghosts == <<sawEmpty, emptied, overtaken>>
vars == <<notifyVars, counters, pc, locals, ghosts>>

WaitLabels == {"ticket", "test", "sleep", "asleep", "reload"}
Labels == {"idle", "leave", "leaveStore", "leaveWake", "doNotify", "notifying",
           "checkEmpty", "publishFire", "publishReturn"} \cup WaitLabels

Init == /\ NotifyInit
        /\ taskCount = 0 /\ waitCount = 0 /\ notifyCount = 0
        /\ pc = [t \in Threads |-> "idle"]
        /\ curr = [t \in Threads |-> 0]
        /\ ticket = [t \in Threads |-> 0]
        /\ mayNotify = [t \in Threads |-> 0]
        /\ sawEmpty = [t \in Threads |-> FALSE]
        /\ emptied = {}
        /\ overtaken = FALSE

Goto(t, from, to) == pc[t] = from /\ pc' = [pc EXCEPT ![t] = to]
Idle(t) == pc[t] = "idle" /\ npc[t] = "out"
-----------------------------------------------------------------------------
(* Mistakes a change of the code could make.  They are no part of the      *)
(* specification: each takes the place of the definition it resembles to   *)
(* see that a property notices.                                            *)

\* LeaveStores() that lets the next ticket pass, too
LeaveStoresOneMore(t) == /\ Goto(t, "leaveStore", "leaveWake")
                         /\ notifyCount' = mayNotify[t] + 1
                         /\ mayNotify' = [mayNotify EXCEPT ![t] = 0]
                         /\ UNCHANGED <<notifyVars, taskCount, waitCount, curr, ticket, ghosts>>

\* LeaveWakes() without notify_all()
LeaveWakesNobody(t) == /\ Goto(t, "leaveWake", "doNotify")
                       /\ UNCHANGED <<notifyVars, counters, locals, ghosts>>

\* NotifyReadsCount() that leaves the callback to leave()
NotifyReadsNothing(t) == /\ Goto(t, "checkEmpty", "idle")
                         /\ UNCHANGED <<notifyVars, counters, locals, ghosts>>

-----------------------------------------------------------------------------
(* enter() and leave()                                                     *)

Enter(t) == /\ Idle(t)
            /\ taskCount < MaxTasks
            /\ taskCount' = taskCount + 1
            /\ UNCHANGED <<notifyVars, waitCount, notifyCount, pc, locals, ghosts>>

\* A leave() balances an enter(): there is a task whose leave() has not begun.
Leave(t) == /\ Idle(t) /\ Goto(t, "idle", "leave")
            /\ taskCount > Cardinality({u \in Threads : pc[u] = "leave"})
            /\ mayNotify' = [mayNotify EXCEPT ![t] = waitCount]
            /\ UNCHANGED <<notifyVars, counters, curr, ticket, ghosts>>

\* The group is empty when the last task leaves, which the waiting threads and the
\* callbacks registered by now live to see.
LeaveSubtracts(t) ==
  /\ Goto(t, "leave", IF taskCount = 1 THEN "leaveStore" ELSE "idle")
  /\ taskCount' = taskCount - 1
  /\ IF taskCount = 1
     THEN /\ sawEmpty' = [u \in Threads |-> sawEmpty[u] \/ pc[u] \in WaitLabels]
          /\ emptied' = registered
          /\ UNCHANGED overtaken
     ELSE UNCHANGED ghosts
  /\ mayNotify' = [mayNotify EXCEPT ![t] = IF taskCount = 1 THEN @ ELSE 0]
  /\ UNCHANGED <<notifyVars, waitCount, notifyCount, curr, ticket>>

LeaveStores(t) == /\ Goto(t, "leaveStore", "leaveWake")
                  /\ notifyCount' = mayNotify[t]
                  /\ mayNotify' = [mayNotify EXCEPT ![t] = 0]
                  /\ UNCHANGED <<notifyVars, taskCount, waitCount, curr, ticket, ghosts>>

\* taskCount_.notify_all()
LeaveWakes(t) == /\ pc[t] = "leaveWake"
                 /\ pc' = [u \in Threads |-> IF u = t THEN "doNotify"
                                             ELSE IF pc[u] = "asleep" THEN "sleep" ELSE pc[u]]
                 /\ UNCHANGED <<notifyVars, counters, locals, ghosts>>
-----------------------------------------------------------------------------
(* wait().  tryWait() polls taskCount_ and changes nothing.                *)

Wait(t) == /\ Idle(t) /\ Goto(t, "idle", "ticket")
           /\ waitCount + Cardinality({u \in Threads : pc[u] = "ticket"}) < MaxWaits
           /\ curr' = [curr EXCEPT ![t] = taskCount]
           /\ sawEmpty' = [sawEmpty EXCEPT ![t] = taskCount = 0]
           /\ UNCHANGED <<notifyVars, counters, ticket, mayNotify, emptied, overtaken>>

TakeTicket(t) == /\ Goto(t, "ticket", "test")
                 /\ ticket' = [ticket EXCEPT ![t] = waitCount]
                 /\ waitCount' = waitCount + 1
                 /\ UNCHANGED <<notifyVars, taskCount, notifyCount, curr, mayNotify, ghosts>>

\* The condition of the loop; a thread that returns forgets its local variables.
WaitContinues(t) == /\ Goto(t, "test", "sleep")
                    /\ curr[t] # 0 /\ ticket[t] >= notifyCount
                    /\ UNCHANGED <<notifyVars, counters, locals, ghosts>>

WaitReturns(t) == /\ Goto(t, "test", "idle")
                  /\ curr[t] = 0 \/ ticket[t] < notifyCount
                  /\ curr' = [curr EXCEPT ![t] = 0]
                  /\ ticket' = [ticket EXCEPT ![t] = 0]
                  /\ sawEmpty' = [sawEmpty EXCEPT ![t] = FALSE]
                  /\ UNCHANGED <<notifyVars, counters, mayNotify, emptied, overtaken>>

\* taskCount_.wait(curr): the value is compared again when notified
Sleep(t) == /\ Goto(t, "sleep", IF taskCount = curr[t] THEN "asleep" ELSE "reload")
            /\ UNCHANGED <<notifyVars, counters, locals, ghosts>>

Reload(t) == /\ Goto(t, "reload", "test")
             /\ curr' = [curr EXCEPT ![t] = taskCount]
             /\ UNCHANGED <<notifyVars, counters, ticket, mayNotify, ghosts>>

-----------------------------------------------------------------------------
(* notify(), and the callbacks it leads to.  A notify() that throws        *)
(* changes nothing.                                                        *)

NotifyCall(t) == /\ Idle(t) /\ Goto(t, "idle", "notifying")
                 /\ \E f \in Callbacks : /\ Claim(t, f)
                                         /\ emptied' = IF taskCount = 0 THEN emptied \cup {f}
                                                       ELSE emptied
                 /\ UNCHANGED <<counters, locals, sawEmpty, overtaken>>

NotifyFills(t) == pc[t] = "notifying" /\ Fill(t) /\ UNCHANGED <<counters, pc, locals, ghosts>>

NotifyPublishes(t) == /\ Goto(t, "notifying", "checkEmpty") /\ Publish(t)
                      /\ UNCHANGED <<counters, locals, ghosts>>

NotifyReadsCount(t) ==
  /\ Goto(t, "checkEmpty", IF taskCount = 0 THEN "doNotify" ELSE "idle")
  /\ UNCHANGED <<notifyVars, counters, locals, ghosts>>

\* The release store of "notified" waits in the store buffer while the acquire load
\* of taskCount_ that follows it is done.
NotifyReadsCountEarly(t) ==
  /\ npc[t] = "publish"
  /\ Goto(t, "notifying", IF taskCount = 0 THEN "publishFire" ELSE "publishReturn")
  /\ overtaken' = TRUE
  /\ UNCHANGED <<notifyVars, counters, locals, sawEmpty, emptied>>

NotifyPublishesLate(t) ==
  /\ \/ Goto(t, "publishFire", "doNotify")
     \/ Goto(t, "publishReturn", "idle")
  /\ Publish(t)
  /\ UNCHANGED <<counters, locals, ghosts>>

\* doNotify(), called by notify() and by leave()
DoNotify(t) == /\ pc[t] = "doNotify" /\ Win(t, "post")
               /\ UNCHANGED <<counters, pc, locals, ghosts>>

NothingToNotify(t) == /\ npc[t] = "out" /\ state # "notified"
                      /\ Goto(t, "doNotify", "idle")
                      /\ UNCHANGED <<notifyVars, counters, locals, ghosts>>

PostCallback(t) == Post(t) /\ UNCHANGED <<counters, pc, locals, ghosts>>

DoNotifyEnds(t) == /\ Reset(t) /\ Goto(t, "doNotify", "idle")
                   /\ UNCHANGED <<counters, locals, ghosts>>
-----------------------------------------------------------------------------
WaitStep(t) == \/ TakeTicket(t) \/ WaitContinues(t) \/ WaitReturns(t)
               \/ Sleep(t) \/ Reload(t)

Progress(t) ==
  \/ LeaveSubtracts(t) \/ LeaveStores(t) \/ LeaveWakes(t)
  \/ WaitStep(t)
  \/ NotifyFills(t) \/ NotifyPublishes(t) \/ NotifyReadsCount(t)
  \/ NotifyReadsCountEarly(t) \/ NotifyPublishesLate(t)
  \/ DoNotify(t) \/ NothingToNotify(t) \/ PostCallback(t) \/ DoNotifyEnds(t)

Step(t) == \/ Enter(t) \/ Leave(t) \/ Wait(t) \/ NotifyCall(t) \/ Progress(t)

SafeSpec == Init /\ [][\E t \in Threads : Step(t)]_vars

\* Every thread inside a call goes on; nobody is obliged to call or to leave.
Spec == SafeSpec /\ \A t \in Threads : WF_vars(Progress(t))
-----------------------------------------------------------------------------
(* Properties                                                              *)

TypeOK == /\ NotifyTypeOK
          /\ taskCount \in 0..MaxTasks
          /\ waitCount \in 0..MaxWaits /\ notifyCount \in 0..MaxWaits
          /\ pc \in [Threads -> Labels]
          /\ curr \in [Threads -> 0..MaxTasks]
          /\ ticket \in [Threads -> 0..MaxWaits]
          /\ mayNotify \in [Threads -> 0..MaxWaits]
          /\ sawEmpty \in [Threads -> BOOLEAN]
          /\ emptied \subseteq Callbacks
          /\ overtaken \in BOOLEAN

\* wait() returns only if the group was empty at some moment between call and
\* return, although taskCount_ may have grown again and notifyCount_ may go back.
WaitSeesEmpty ==
  [][\A t \in Threads : pc[t] = "test" /\ pc'[t] = "idle" => sawEmpty[t]]_vars

\* A published callback of an empty group is not forgotten: notify() looked at the
\* count after publishing, or the last leave() looks at the callback after counting.
\* The code needs sequential consistency for it: nothing orders the two in notify().
CallbackNotForgotten ==
  taskCount = 0 /\ state = "notified" /\ ~overtaken =>
    \E t \in Threads : pc[t] \in {"leaveStore", "leaveWake", "doNotify", "checkEmpty",
                                  "publishFire"}

\* GroupTest.Notify (GroupTest.cpp:41-44) expects a callback to run after all tasks
\* of the group: the group was empty at some moment since its notify() began.
CallbackAfterTasks == posted \subseteq emptied

\* If the group is empty for good, every wait() returns: nobody waits for ever, although
\* a waiter may have slept on a value of taskCount_ that is long gone.
EveryWaitReturns ==
  <>[](taskCount = 0) => <>[](\A t \in Threads : pc[t] \notin WaitLabels)
=============================================================================
