------------------------ MODULE AbstractSerialQueue ------------------------
(***************************************************************************)
(* What DispatchSerialQueue promises its callers, with no threads, no      *)
(* executor and no attachment flag: submitted tasks wait in the order of   *)
(* their submission, one runs at a time, nothing starts before the queue   *)
(* is activated, and a suspended queue starts nothing, except a bounded    *)
(* number of tasks that were already on their way (grace).                 *)
(***************************************************************************)
EXTENDS Naturals, Sequences

CONSTANTS Tasks,    \* the tasks that may be submitted, each at most once
          NoTask,   \* "nothing is running"
          MaxLate   \* starts that a suspend() may come too late for

VARIABLES pending,  \* tasks submitted and not started, oldest first
          current,  \* the task that is running, or NoTask
          finished, \* the tasks that have returned
          suspends, \* suspend() calls not yet balanced by resume()
          dormant,  \* created inactive and not yet activated
          grace     \* tasks that may still start although suspends > 0

avars == <<pending, current, finished, suspends, dormant, grace>>

Known == {pending[i] : i \in DOMAIN pending} \cup {current} \cup finished

AInit == /\ pending = <<>>
         /\ current = NoTask
         /\ finished = {}
         /\ suspends = 0
         /\ dormant \in BOOLEAN
         /\ grace = 0

ASubmit(x) == /\ x \notin Known
              /\ pending' = Append(pending, x)
              /\ UNCHANGED <<current, finished, suspends, dormant, grace>>

\* The oldest task starts; a suspended queue spends its grace on it.
AStart == /\ current = NoTask
          /\ pending # <<>>
          /\ ~dormant
          /\ current' = Head(pending)
          /\ pending' = Tail(pending)
          /\ \/ suspends = 0 /\ UNCHANGED grace
             \/ suspends > 0 /\ grace > 0 /\ grace' = grace - 1
          /\ UNCHANGED <<finished, suspends, dormant>>

AFinish == /\ current # NoTask
           /\ finished' = finished \cup {current}
           /\ current' = NoTask
           /\ UNCHANGED <<pending, suspends, dormant, grace>>

ASuspend == /\ suspends' = suspends + 1
            /\ \/ suspends = 0 /\ grace' \in 0..MaxLate
               \/ suspends > 0 /\ UNCHANGED grace
            /\ UNCHANGED <<pending, current, finished, dormant>>

AResume == /\ suspends > 0
           /\ suspends' = suspends - 1
           /\ grace' = IF suspends = 1 THEN 0 ELSE grace
           /\ UNCHANGED <<pending, current, finished, dormant>>

AActivate == /\ dormant
             /\ dormant' = FALSE
             /\ UNCHANGED <<pending, current, finished, suspends, grace>>

ANext == \/ \E x \in Tasks : ASubmit(x)
         \/ AStart \/ AFinish
         \/ ASuspend \/ AResume \/ AActivate

\* A queue that stays active and unsuspended starts its tasks, and every task
\* that was started returns.
AFairness == /\ WF_avars(AStart /\ suspends = 0)
             /\ WF_avars(AFinish)

ASafeSpec == AInit /\ [][ANext]_avars
ASpec == ASafeSpec /\ AFairness
=============================================================================
