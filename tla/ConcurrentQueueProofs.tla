----------------------- MODULE ConcurrentQueueProofs ------------------------
(***************************************************************************)
(* ConcurrentQueue for every set of threads and tasks and any bound on     *)
(* suspends: what suspend() and resume() make of suspendCount_ and         *)
(* suspend_, each set in a step of its own, and that every task queued is  *)
(* matched by a reference.                                                 *)
(***************************************************************************)
EXTENDS ConcurrentQueue, FiniteSetTheorems, TLAPS

\* A thread that hands references over has one left, and a thread that runs a task, or
\* waits in sync() to run it, has the task.
InCall == /\ \A t \in Threads : pc[t] = "addRefs" <=> toAdd[t] > 0
          /\ \A t \in Threads : pc[t] \in {"body", "syncInactive", "sleepInactive",
                                          "syncSuspend", "sleepSuspend"}
                               => running[t] # <<>>

\* suspendCount_ counts the calls of suspend() that have returned and the one, if any,
\* that has still to set suspend_.
SuspendsCounted ==
  \/ suspendCount = owed /\ \A t \in Threads : pc[t] # "suspendStore"
  \/ /\ suspendCount = owed + 1
     /\ \E t \in Threads : /\ pc[t] = "suspendStore"
                           /\ \A u \in Threads \ {t} : pc[u] # "suspendStore"

TypeInv == TypeOK /\ InCall /\ owed \in Nat /\ SuspendsCounted

\* Where a call returns to
LEMMA ReturnLabel ==
  ASSUME NEW t
  PROVE  Return(t) \in {"body", "idle"} /\ (Return(t) = "body" => running[t] # <<>>)
  BY DEF Return

\* The task of a call is a new one of its kind.
LEMMA FreshTask ==
  ASSUME NEW kind, kind \ submitted # {}
  PROVE  Fresh(kind) \in kind
  BY DEF Fresh

\* A thread that enters a task is inside of one.
LEMMA Nested ==
  ASSUME NEW x \in Tasks, NEW s \in Nestings
  PROVE  /\ <<x>> \o s \in Nestings /\ <<x>> \o s # <<>>
         /\ <<x>> \in Nestings /\ <<x>> # <<>>
  BY DEF Nestings

\* Every step keeps the types and the count of suspends.
LEMMA TypeInductive ==
  /\ Init => TypeInv
  /\ TypeInv /\ [Next]_vars => TypeInv'
<1>1. Init => TypeInv
  <2> SUFFICES ASSUME Init PROVE TypeInv
    OBVIOUS
  <2>1. TypeOK
    <3>1. /\ suspendCount \in 0..MaxSuspends
          /\ taskToNotify \in Nat /\ refs \in Nat /\ owed \in Int
      BY ConcurrentQueueAssumption DEF Init, ConcurrentQueueAssumption
    <3>2. inactive \in BOOLEAN /\ suspend \in BOOLEAN
      BY Zenon DEF Init
    <3>3. /\ taskQueue \in Seq(AsyncTasks)
          /\ running \in [Threads -> Nestings]
      BY DEF Init, Nestings
    <3>4. pc \in [Threads -> Labels] /\ toAdd \in [Threads -> Nat]
      BY DEF Init, Labels
    <3> QED BY <3>1, <3>2, <3>3, <3>4, Zenon DEF Init, TypeOK
  <2>2. InCall
    BY DEF Init, InCall
  <2>3. owed \in Nat /\ SuspendsCounted
    BY DEF Init, SuspendsCounted
  <2> QED BY <2>1, <2>2, <2>3 DEF TypeInv
<1>2. ASSUME TypeInv, [Next]_vars PROVE TypeInv'
  <2> USE <1>2 DEF TypeInv, TypeOK, InCall, SuspendsCounted, Labels, flags, aux, Goto, Branch,
                   Tasks
  <2>1. ASSUME NEW t \in Threads, Async(t) PROVE TypeInv'
    BY <2>1, FreshTask DEF Async, MayCall
  <2>2. ASSUME NEW t \in Threads, Sync(t) PROVE TypeInv'
    <3>1. Fresh(SyncTasks) \in SyncTasks
      BY <2>2, FreshTask DEF Sync
    <3>2. /\ <<Fresh(SyncTasks)>> \o running[t] \in Nestings
          /\ <<Fresh(SyncTasks)>> \o running[t] # <<>>
      BY <3>1, Nested
    <3> QED BY <2>2, <3>1, <3>2 DEF Sync, MayCall
  <2>3. ASSUME NEW t \in Threads, Activate(t) PROVE TypeInv'
    BY <2>3 DEF Activate, MayCall
  <2>4. ASSUME NEW t \in Threads, Suspend(t) PROVE TypeInv'
    <3>1. TypeOK' /\ InCall'
      BY <2>4, ConcurrentQueueAssumption DEF Suspend, MayCall, ConcurrentQueueAssumption
    <3>2. CASE suspendCount = 0
      <4>1. owed = 0 /\ \A u \in Threads : pc[u] # "suspendStore"
        BY <3>2
      <4>2. suspendCount' = 1 /\ owed' = 0 /\ pc' = [pc EXCEPT ![t] = "suspendStore"]
        BY <2>4, <3>2, <4>1 DEF Suspend
      <4> QED BY <3>1, <4>1, <4>2
    <3>3. CASE suspendCount # 0
      <4>1. suspendCount' = suspendCount + 1 /\ owed' = owed + 1 /\ UNCHANGED pc
        BY <2>4, <3>3 DEF Suspend
      <4> QED BY <3>1, <4>1
    <3> QED BY <3>2, <3>3
  <2>5. ASSUME NEW t \in Threads, Resume(t) PROVE TypeInv'
    <3>1. /\ owed' = owed - 1 /\ suspendCount' = suspendCount - 1
          /\ pc' = [pc EXCEPT ![t] = IF suspendCount = 1 THEN "resumeStore" ELSE Return(t)]
          /\ pc[t] \notin {"suspendStore", "addRefs"}
      BY <2>5 DEF Resume, MayCall
    <3>2. TypeOK' /\ InCall' /\ owed' \in Nat
      <4>1. owed' \in Nat /\ suspendCount' \in 0..MaxSuspends
        BY <2>5, ConcurrentQueueAssumption DEF Resume, ConcurrentQueueAssumption
      <4>2. /\ pc' \in [Threads -> Labels]
            /\ pc'[t] \in {"resumeStore", "body", "idle"}
            /\ pc'[t] = "body" => running[t] # <<>>
            /\ \A u \in Threads \ {t} : pc'[u] = pc[u]
        BY <3>1, ReturnLabel
      <4> QED BY <2>5, <3>1, <4>1, <4>2 DEF Resume
    <3>3. \A u \in Threads : pc'[u] = "suspendStore" <=> pc[u] = "suspendStore"
      BY <3>1, ReturnLabel
    <3> HIDE DEF TypeOK, InCall
    <3>4. owed \in Nat /\ suspendCount \in Nat
      BY ConcurrentQueueAssumption DEF TypeOK, ConcurrentQueueAssumption
    <3>5. SuspendsCounted'
      BY <3>1, <3>3, <3>4
    <3> QED BY <3>2, <3>5
  <2>6. ASSUME NEW t \in Threads, AddReadsInactive(t) PROVE TypeInv'
    BY <2>6, ReturnLabel DEF AddReadsInactive
  <2>7. ASSUME NEW t \in Threads, AddReadsSuspend(t) PROVE TypeInv'
    BY <2>7, ReturnLabel DEF AddReadsSuspend
  <2>8. ASSUME NEW t \in Threads, Defer(t) PROVE TypeInv'
    BY <2>8, ReturnLabel DEF Defer
  <2>9. ASSUME NEW t \in Threads, AgainReadsInactive(t) PROVE TypeInv'
    BY <2>9, ReturnLabel DEF AgainReadsInactive
  <2>10. ASSUME NEW t \in Threads, AgainReadsSuspend(t) PROVE TypeInv'
    BY <2>10, ReturnLabel DEF AgainReadsSuspend
  <2>11. ASSUME NEW t \in Threads, AddRef(t) PROVE TypeInv'
    BY <2>11, ReturnLabel DEF AddRef
  <2>12. ASSUME NEW t \in Threads, SyncReadsInactive(t) PROVE TypeInv'
    BY <2>12, ReturnLabel DEF SyncReadsInactive
  <2>13. ASSUME NEW t \in Threads, SyncReadsSuspend(t) PROVE TypeInv'
    BY <2>13, ReturnLabel DEF SyncReadsSuspend
  <2>14. ASSUME NEW t \in Threads, ActivateWakes(t) PROVE TypeInv'
    BY <2>14, ReturnLabel DEF ActivateWakes, Wake
  <2>15. ASSUME NEW t \in Threads, ActivateReadsSuspend(t) PROVE TypeInv'
    BY <2>15, ReturnLabel DEF ActivateReadsSuspend
  <2>16. ASSUME NEW t \in Threads, SuspendStores(t) PROVE TypeInv'
    <3>1. TypeOK' /\ InCall' /\ owed' \in Nat
      BY <2>16, ReturnLabel DEF SuspendStores
    <3>2. SuspendsCounted'
      BY <2>16, ReturnLabel DEF SuspendStores
    <3> QED BY <3>1, <3>2
  <2>17. ASSUME NEW t \in Threads, ResumeStores(t) PROVE TypeInv'
    BY <2>17, ReturnLabel DEF ResumeStores
  <2>18. ASSUME NEW t \in Threads, ResumeWakes(t) PROVE TypeInv'
    BY <2>18, ReturnLabel DEF ResumeWakes, Wake
  <2>19. ASSUME NEW t \in Threads, ResumeReadsInactive(t) PROVE TypeInv'
    BY <2>19, ReturnLabel DEF ResumeReadsInactive
  <2>20. ASSUME NEW t \in Threads, Exchange(t) PROVE TypeInv'
    BY <2>20, ReturnLabel DEF Exchange
  <2>21. ASSUME NEW t \in Threads, TakeRef(t) PROVE TypeInv'
    BY <2>21, ReturnLabel DEF TakeRef
  <2>22. ASSUME NEW t \in Threads, TakeReadsSuspend(t) PROVE TypeInv'
    BY <2>22, ReturnLabel DEF TakeReadsSuspend
  <2>23. ASSUME NEW t \in Threads, TakeDefers(t) PROVE TypeInv'
    <3>1. TypeOK' /\ InCall' /\ owed' \in Nat
      BY <2>23, ReturnLabel DEF TakeDefers
    <3>2. SuspendsCounted'
      BY <2>23, ReturnLabel DEF TakeDefers
    <3> QED BY <3>1, <3>2
  <2>24. ASSUME NEW t \in Threads, TakeReadsAgain(t) PROVE TypeInv'
    BY <2>24, ReturnLabel DEF TakeReadsAgain
  <2>25. ASSUME NEW t \in Threads, ReadEmpty(t) PROVE TypeInv'
    BY <2>25, ReturnLabel DEF ReadEmpty
  <2>26. ASSUME NEW t \in Threads, Read(t) PROVE TypeInv'
    <3>1. Head(taskQueue) \in AsyncTasks /\ Tail(taskQueue) \in Seq(AsyncTasks)
      BY <2>26 DEF Read
    <3>2. <<Head(taskQueue)>> \in Nestings /\ <<Head(taskQueue)>> # <<>>
      BY <3>1, Nested DEF Nestings
    <3> QED BY <2>26, <3>1, <3>2 DEF Read
  <2>27. ASSUME NEW t \in Threads, FinishBody(t) PROVE TypeInv'
    <3>1. running[t] \in Nestings /\ running[t] # <<>>
      BY <2>27 DEF FinishBody
    <3>2. Head(running[t]) \in Tasks /\ Tail(running[t]) \in Nestings
      BY <3>1 DEF Nestings
    <3> QED BY <2>27, <3>2 DEF FinishBody
  <2>28. CASE UNCHANGED vars
    BY <2>28 DEF vars
  <2> QED BY <1>2, <2>1, <2>2, <2>3, <2>4, <2>5, <2>6, <2>7, <2>8, <2>9, <2>10, <2>11,
         <2>12, <2>13, <2>14, <2>15, <2>16, <2>17, <2>18, <2>19, <2>20, <2>21, <2>22,
         <2>23, <2>24, <2>25, <2>26, <2>27, <2>28 DEF Next, Call, Progress
<1> QED BY <1>1, <1>2
-----------------------------------------------------------------------------
\* Every reachable state of the concurrent queue is well typed.
THEOREM TypeCorrect == SafeSpec => []TypeOK
<1>1. Init => TypeInv
  BY TypeInductive
<1>2. TypeInv /\ [Next]_vars => TypeInv'
  BY TypeInductive
<1>3. TypeInv => TypeOK
  BY DEF TypeInv
<1> QED BY <1>1, <1>2, <1>3, PTL DEF SafeSpec

\* A resume() that has returned is not undone, however the two steps of suspend() and
\* resume() interleave.
THEOREM ResumeIsNotUndone == SafeSpec => []ResumeTakesEffect
<1> DEFINE IInv == TypeInv /\ ResumeTakesEffect
<1>1. Init => IInv
  BY TypeInductive DEF Init, ResumeTakesEffect
<1>2. ASSUME IInv, [Next]_vars PROVE IInv'
  <2>1. TypeInv'
    BY <1>2, TypeInductive
  <2>2. ResumeTakesEffect'
    <3> USE <1>2 DEF Goto, Branch, flags, aux
    <3> SUFFICES ASSUME suspendCount' = 0, suspend'
                 PROVE  \E u \in Threads : pc'[u] = "resumeStore"
      BY DEF ResumeTakesEffect
    <3>1. pc \in [Threads -> Labels] /\ suspendCount \in Nat
      BY ConcurrentQueueAssumption DEF TypeInv, TypeOK, ConcurrentQueueAssumption
    <3>2. ASSUME suspendCount = 0, suspend,
                 \A u \in Threads : pc[u] = "resumeStore" => pc'[u] = "resumeStore"
          PROVE  \E u \in Threads : pc'[u] = "resumeStore"
      BY <3>2 DEF ResumeTakesEffect
    <3>3. CASE UNCHANGED vars
      BY <3>2, <3>3 DEF vars
    <3>4. ASSUME NEW t \in Threads, Suspend(t) PROVE FALSE
      BY <3>1, <3>4 DEF Suspend
    <3>5. ASSUME NEW t \in Threads, Resume(t)
          PROVE  \E u \in Threads : pc'[u] = "resumeStore"
      BY <3>1, <3>5 DEF Resume
    <3>6. ASSUME NEW t \in Threads, SuspendStores(t) PROVE FALSE
      <4>1. suspendCount = owed + 1 /\ owed \in Nat
        BY <3>6 DEF SuspendStores, TypeInv, SuspendsCounted
      <4> QED BY <3>6, <4>1 DEF SuspendStores
    <3>7. ASSUME NEW t \in Threads, ResumeStores(t) PROVE FALSE
      BY <3>7 DEF ResumeStores
    <3>8. ASSUME NEW t \in Threads, Call(t) \/ Progress(t) \/ FinishBody(t),
                 ~Suspend(t), ~Resume(t), ~SuspendStores(t), ~ResumeStores(t)
          PROVE  \E u \in Threads : pc'[u] = "resumeStore"
      <4>1. UNCHANGED <<suspendCount, suspend>>
        BY <3>8 DEF Call, Progress, FinishBody, Async, Sync, Activate, AddReadsInactive,
           AddReadsSuspend, Defer, AgainReadsInactive, AgainReadsSuspend, AddRef,
           SyncReadsInactive, SyncReadsSuspend, ActivateWakes, ActivateReadsSuspend,
           ResumeWakes, ResumeReadsInactive, Exchange, TakeRef, TakeReadsSuspend,
           TakeDefers, TakeReadsAgain, ReadEmpty, Read
      <4>2. \A u \in Threads : pc[u] = "resumeStore" => pc'[u] = "resumeStore"
        BY <3>1, <3>8 DEF Call, Progress, FinishBody, Async, Sync, Activate, MayCall,
           AddReadsInactive, AddReadsSuspend, Defer, AgainReadsInactive, AgainReadsSuspend,
           AddRef, SyncReadsInactive, SyncReadsSuspend, Wake, ActivateWakes,
           ActivateReadsSuspend, ResumeWakes, ResumeReadsInactive, Exchange, TakeRef,
           TakeReadsSuspend, TakeDefers, TakeReadsAgain, ReadEmpty, Read
      <4> QED BY <3>2, <4>1, <4>2
    <3> QED BY <1>2, <3>3, <3>4, <3>5, <3>6, <3>7, <3>8 DEF Next
  <2> QED BY <2>1, <2>2
<1>3. IInv => ResumeTakesEffect
  OBVIOUS
<1> QED BY <1>1, <1>2, <1>3, PTL DEF SafeSpec
-----------------------------------------------------------------------------
(* References                                                              *)

\* One summand can be told apart from the rest.
LEMMA UnitsOfOne ==
  ASSUME NEW S, IsFiniteSet(S), NEW f, \A x \in S : f[x] \in Nat, NEW x \in S
  PROVE  /\ IsFiniteSet(Units(f, S)) /\ IsFiniteSet(Units(f, S \ {x}))
         /\ Cardinality(Units(f, S)) = Cardinality(Units(f, S \ {x})) + f[x]
<1> DEFINE Of(y) == {y} \X (1..f[y])
<1>1. \A y \in S : IsFiniteSet(Of(y)) /\ Cardinality(Of(y)) = f[y]
  <2> SUFFICES ASSUME NEW y \in S, NEW n \in Nat, n = f[y]
               PROVE  IsFiniteSet({y} \X (1..n)) /\ Cardinality({y} \X (1..n)) = n
    OBVIOUS
  <2>1. IsFiniteSet({y}) /\ Cardinality({y}) = 1
    BY FS_Singleton
  <2>2. IsFiniteSet(1..n)
    BY FS_Interval
  <2>3. Cardinality(1..n) = n
    BY FS_Interval, n \in Int, 1 \in Int
  <2>4. /\ IsFiniteSet({y} \X (1..n))
        /\ Cardinality({y} \X (1..n)) = Cardinality({y}) * Cardinality(1..n)
    BY <2>1, <2>2, FS_Product
  <2> QED BY <2>1, <2>3, <2>4
<1>2. IsFiniteSet(Units(f, S \ {x}))
  <2>1. IsFiniteSet(S \ {x})
    BY FS_Subset
  <2> HIDE DEF Of
  <2>2. IsFiniteSet({Of(y) : y \in S \ {x}})
    <3>1. [y \in S \ {x} |-> Of(y)] \in Surjection(S \ {x}, {Of(y) : y \in S \ {x}})
      BY DEF Surjection
    <3> QED BY <2>1, <3>1, FS_Surjection
  <2>3. \A T \in {Of(y) : y \in S \ {x}} : IsFiniteSet(T)
    BY <1>1
  <2>4. IsFiniteSet(UNION {Of(y) : y \in S \ {x}})
    BY <2>2, <2>3, FS_UNION
  <2> QED BY <2>4 DEF Units, Of
<1>3. Units(f, S) = Units(f, S \ {x}) \cup Of(x) /\ Units(f, S \ {x}) \cap Of(x) = {}
  BY DEF Units
<1>4. Cardinality(Units(f, S \ {x})) \in Nat /\ Cardinality({}) = 0
  BY <1>2, FS_CardinalityType, FS_EmptySet
<1>5. /\ IsFiniteSet(Units(f, S \ {x}) \cup Of(x))
      /\ Cardinality(Units(f, S \ {x}) \cup Of(x))
           = Cardinality(Units(f, S \ {x})) + Cardinality(Of(x))
               - Cardinality(Units(f, S \ {x}) \cap Of(x))
  BY <1>1, <1>2, FS_Union
<1> HIDE DEF Of
<1>6. IsFiniteSet(Units(f, S)) /\ Cardinality(Of(x)) = f[x] /\ f[x] \in Nat
  BY <1>1, <1>3, <1>5
<1>7. /\ Units(f, S) = Units(f, S \ {x}) \cup Of(x)
      /\ Cardinality(Units(f, S \ {x}) \cap Of(x)) = 0
  BY <1>3, <1>4
<1>8. Cardinality(Units(f, S)) = Cardinality(Units(f, S \ {x})) + f[x] - 0
  BY <1>5, <1>6, <1>7
<1> QED BY <1>2, <1>4, <1>6, <1>8

\* A total changes by as much as one summand does.
LEMMA TotalChange ==
  ASSUME NEW S, IsFiniteSet(S), NEW f \in [S -> Nat], NEW g \in [S -> Nat], NEW x \in S,
         \A y \in S \ {x} : g[y] = f[y]
  PROVE  /\ Total(f) \in Nat /\ Total(g) \in Nat /\ f[x] <= Total(f)
         /\ Total(g) = Total(f) - f[x] + g[x]
<1>1. Units(f, S \ {x}) = Units(g, S \ {x})
  BY DEF Units
<1>2. /\ IsFiniteSet(Units(f, S \ {x}))
      /\ Total(f) = Cardinality(Units(f, S \ {x})) + f[x]
  BY UnitsOfOne DEF Total
<1>3. Total(g) = Cardinality(Units(f, S \ {x})) + g[x]
  BY <1>1, UnitsOfOne DEF Total
<1> QED BY <1>2, <1>3, FS_CardinalityType

\* The total of nothing
LEMMA TotalZero ==
  ASSUME NEW S, NEW f \in [S -> Nat], \A x \in S : f[x] = 0
  PROVE  Total(f) = 0
<1>1. Units(f, S) = {}
  BY DEF Units
<1> QED BY <1>1, FS_EmptySet DEF Total

\* A total grows with the summands.
LEMMA TotalMonotone ==
  ASSUME NEW S, IsFiniteSet(S), NEW f \in [S -> Nat], NEW g \in [S -> Nat],
         \A x \in S : f[x] <= g[x]
  PROVE  Total(f) <= Total(g)
<1>1. CASE S = {}
  <2>1. Units(f, S) = {} /\ Units(g, S) = {}
    BY <1>1 DEF Units
  <2> QED BY <2>1, FS_EmptySet DEF Total
<1>2. CASE S # {}
  <2>1. IsFiniteSet(Units(g, S))
    BY <1>2, UnitsOfOne
  <2>2. Units(f, S) \subseteq Units(g, S)
    BY DEF Units
  <2> QED BY <2>1, <2>2, FS_Subset DEF Total
<1> QED BY <1>1, <1>2

\* References in hand, and those of a thread that counted one in taskToNotify_ and will
\* look at the flags again
InSight(t) == InHand(t) + (IF pc[t] \in {"againInactive", "againSuspend", "takeAgain"}
                           THEN 1 ELSE 0)

Hands == [t \in Threads |-> InHand(t)]
Sights == [t \in Threads |-> InSight(t)]

\* A thread of activate() or resume() that has changed a flag may yet collect what is
\* deferred.
Collecting(t) == pc[t] \in {"activateWake", "activateSuspend", "resumeWake",
                            "resumeInactive", "exchange"}

\* In an active queue that is not suspended, and that nobody collects for, the deferred
\* references are not needed.
Collected ==
  ~inactive /\ ~suspend /\ (\A t \in Threads : ~Collecting(t))
    => Len(taskQueue) <= refs + Total(Sights)

\* What the step of a thread changes in its own hands, it changes in the totals.
LEMMA HandStep ==
  ASSUME TypeInv, TypeInv', NEW t \in Threads,
         \A u \in Threads \ {t} : InHand(u)' = InHand(u) /\ InSight(u)' = InSight(u)
  PROVE  /\ InHand(t) \in Nat /\ InHand(t)' \in Nat
         /\ InSight(t) \in Nat /\ InSight(t)' \in Nat
         /\ Total(Hands) \in Nat /\ Total(Sights) \in Nat
         /\ Total(Hands)' = Total(Hands) - InHand(t) + InHand(t)'
         /\ Total(Sights)' = Total(Sights) - InSight(t) + InSight(t)'
         /\ Total(Hands)' \in Nat /\ Total(Sights)' \in Nat
<1>1. IsFiniteSet(Threads)
  BY ConcurrentQueueAssumption DEF ConcurrentQueueAssumption, Threads
<1>2. \A u \in Threads : /\ InHand(u) \in Nat /\ InHand(u)' \in Nat
                         /\ InSight(u) \in Nat /\ InSight(u)' \in Nat
  <2>1. toAdd \in [Threads -> Nat] /\ toAdd' \in [Threads -> Nat]
    BY DEF TypeInv, TypeOK
  <2> QED BY <2>1 DEF InHand, InSight
<1>3. /\ Hands \in [Threads -> Nat] /\ Hands' \in [Threads -> Nat]
      /\ Sights \in [Threads -> Nat] /\ Sights' \in [Threads -> Nat]
      /\ Hands[t] = InHand(t) /\ Hands'[t] = InHand(t)'
      /\ Sights[t] = InSight(t) /\ Sights'[t] = InSight(t)'
      /\ \A u \in Threads \ {t} : Hands'[u] = Hands[u] /\ Sights'[u] = Sights[u]
  BY <1>2 DEF Hands, Sights
<1>4. Total(Hands)' = Total(Hands') /\ Total(Sights)' = Total(Sights')
  BY DEF Total, Units
<1>5. \A f, g \in [Threads -> Nat] :
        (\A u \in Threads \ {t} : g[u] = f[u]) =>
          Total(f) \in Nat /\ Total(g) \in Nat /\ Total(g) = Total(f) - f[t] + g[t]
  BY <1>1, TotalChange
<1> QED BY <1>2, <1>3, <1>4, <1>5

\* What is in hand is in sight.
LEMMA HandsInSight ==
  ASSUME TypeInv'
  PROVE  Total(Hands)' <= Total(Sights)'
<1>1. toAdd' \in [Threads -> Nat] /\ IsFiniteSet(Threads)
  BY ConcurrentQueueAssumption DEF TypeInv, TypeOK, ConcurrentQueueAssumption, Threads
<1>2. /\ Hands' \in [Threads -> Nat] /\ Sights' \in [Threads -> Nat]
      /\ \A u \in Threads : Hands'[u] <= Sights'[u]
  BY <1>1 DEF Hands, Sights, InSight, InHand
<1>3. Total(Hands)' = Total(Hands') /\ Total(Sights)' = Total(Sights')
  BY DEF Total, Units
<1> QED BY <1>1, <1>2, <1>3, TotalMonotone

\* A thread has its own hands only, and who is woken has nothing in them.
LEMMA OtherHands ==
  ASSUME TypeInv, NEW t \in Threads, Call(t) \/ Progress(t) \/ FinishBody(t),
         NEW u \in Threads \ {t}
  PROVE  /\ InHand(u)' = InHand(u) /\ InSight(u)' = InSight(u)
         /\ Collecting(u)' = Collecting(u)
<1>1. /\ toAdd'[u] = toAdd[u]
      /\ \/ pc'[u] = pc[u]
         \/ /\ pc[u] \in {"sleepInactive", "sleepSuspend"}
            /\ pc'[u] \in {"syncInactive", "syncSuspend"}
  <2>1. pc \in [Threads -> Labels] /\ toAdd \in [Threads -> Nat]
    BY DEF TypeInv, TypeOK
  <2> QED BY <2>1 DEF Call, Progress, Goto, Branch, Wake, Async, Sync, Activate, Suspend,
             Resume, AddReadsInactive, AddReadsSuspend, Defer, AgainReadsInactive,
             AgainReadsSuspend, AddRef, SyncReadsInactive, SyncReadsSuspend,
             ActivateWakes, ActivateReadsSuspend, SuspendStores, ResumeStores,
             ResumeWakes, ResumeReadsInactive, Exchange, TakeRef, TakeReadsSuspend,
             TakeDefers, TakeReadsAgain, ReadEmpty, Read, FinishBody
<1> QED BY <1>1 DEF InHand, InSight, Collecting

\* What was deferred passes into the hands of the thread that exchanged the counter.
LEMMA ExchangeSum ==
  ASSUME NEW L \in Nat, NEW r \in Nat, NEW n \in Nat, NEW h \in Nat, NEW hh \in Nat,
         NEW ss \in Nat, L <= r + n + h, hh = h + n, hh <= ss
  PROVE  L <= r + ss
OBVIOUS

\* Every task stays covered, and what is deferred is collected.
LEMMA CoverInductive ==
  /\ Init => EveryTaskCovered /\ Collected
  /\ TypeInv /\ TypeInv' /\ EveryTaskCovered /\ Collected /\ [Next]_vars
       => EveryTaskCovered' /\ Collected'
<1>1. ASSUME Init PROVE EveryTaskCovered /\ Collected
  <2>1. Hands \in [Threads -> Nat] /\ Sights \in [Threads -> Nat]
    BY <1>1 DEF Init, Hands, Sights, InHand, InSight
  <2>2. \A t \in Threads : Hands[t] = 0 /\ Sights[t] = 0
    BY <1>1 DEF Init, Hands, Sights, InHand, InSight
  <2>3. Total(Hands) = 0 /\ Total(Sights) = 0
    BY <2>1, <2>2, TotalZero
  <2> QED BY <1>1, <2>3 DEF Init, EveryTaskCovered, Collected, Hands
<1>2. ASSUME TypeInv, TypeInv', EveryTaskCovered, Collected, UNCHANGED vars
      PROVE  EveryTaskCovered' /\ Collected'
  BY <1>2 DEF vars, flags, EveryTaskCovered, Collected, Total, Units, Sights, InHand,
     InSight,
     Collecting
<1>3. ASSUME TypeInv, TypeInv', EveryTaskCovered, Collected, NEW t \in Threads,
             Call(t) \/ Progress(t) \/ FinishBody(t)
      PROVE  EveryTaskCovered' /\ Collected'
  <2>1. /\ InHand(t) \in Nat /\ InHand(t)' \in Nat
        /\ InSight(t) \in Nat /\ InSight(t)' \in Nat
        /\ Total(Hands) \in Nat /\ Total(Sights) \in Nat
        /\ Total(Hands)' = Total(Hands) - InHand(t) + InHand(t)'
        /\ Total(Sights)' = Total(Sights) - InSight(t) + InSight(t)'
        /\ Total(Hands)' \in Nat /\ Total(Sights)' \in Nat
    BY <1>3, OtherHands, HandStep
  <2>2. \A u \in Threads \ {t} : Collecting(u)' = Collecting(u)
    BY <1>3, OtherHands
  <2>3. /\ taskQueue \in Seq(AsyncTasks) /\ refs \in Nat /\ taskToNotify \in Nat
        /\ pc \in [Threads -> Labels] /\ toAdd \in [Threads -> Nat]
        /\ pc[t] = "addRefs" <=> toAdd[t] > 0
    BY <1>3 DEF TypeInv, TypeOK, InCall
  <2>4. Len(taskQueue) \in Nat /\ Len(taskQueue) <= refs + taskToNotify + Total(Hands)
    BY <1>3, <2>3 DEF EveryTaskCovered, Hands
  <2> SUFFICES /\ Len(taskQueue)' <= refs' + taskToNotify' + Total(Hands)'
               /\ Collected'
    BY DEF EveryTaskCovered, Hands
  <2> DEFINE Covers == \/ Len(taskQueue)' = 0
                       \/ Len(taskQueue)' + refs + taskToNotify + InHand(t)
                            <= Len(taskQueue) + refs' + taskToNotify' + InHand(t)'
             Collects == \/ inactive' \/ suspend' \/ Collecting(t)' \/ Len(taskQueue)' = 0
                         \/ Exchange(t)
                         \/ /\ ~Collecting(t) /\ UNCHANGED <<inactive, suspend>>
                            /\ Len(taskQueue)' + refs + InSight(t)
                                 <= Len(taskQueue) + refs' + InSight(t)'
  <2>5. /\ refs \in Nat /\ taskToNotify \in Nat
        /\ refs' \in Nat /\ taskToNotify' \in Nat /\ Len(taskQueue)' \in Nat
    BY <1>3, <2>3 DEF TypeInv, TypeOK
  <2>6. Covers /\ Collects
    <3> USE <2>3, <2>5 DEF Goto, Branch, InHand, InSight, Collecting,
            flags, aux
    <3>1. ASSUME Async(t) PROVE Covers /\ Collects
      BY <3>1 DEF Async, MayCall
    <3>2. ASSUME Sync(t) PROVE Covers /\ Collects
      BY <3>2 DEF Sync, MayCall
    <3>3. ASSUME Activate(t) PROVE Covers /\ Collects
      BY <3>3 DEF Activate, MayCall
    <3>4. ASSUME Suspend(t) PROVE Covers /\ Collects
      BY <3>4 DEF Suspend, MayCall
    <3>5. ASSUME Resume(t) PROVE Covers /\ Collects
      <4>1. taskQueue' = taskQueue /\ refs' = refs /\ taskToNotify' = taskToNotify
        BY <3>5 DEF Resume
      <4>2. InHand(t)' = InHand(t)
        BY <3>5, ReturnLabel DEF Resume, MayCall
      <4>3. Covers
        BY <2>1, <2>4, <4>1, <4>2
      <4>4. Collects
        BY <3>5, ReturnLabel DEF Resume, MayCall
      <4> QED BY <4>3, <4>4
    <3>6. ASSUME AddReadsInactive(t) PROVE Covers /\ Collects
      BY <3>6 DEF AddReadsInactive
    <3>7. ASSUME AddReadsSuspend(t) PROVE Covers /\ Collects
      BY <3>7 DEF AddReadsSuspend
    <3>8. ASSUME Defer(t) PROVE Covers /\ Collects
      BY <3>8 DEF Defer
    <3>9. ASSUME AgainReadsInactive(t) PROVE Covers /\ Collects
      BY <3>9, ReturnLabel DEF AgainReadsInactive
    <3>10. ASSUME AgainReadsSuspend(t) PROVE Covers /\ Collects
      BY <3>10, ReturnLabel DEF AgainReadsSuspend
    <3>11. ASSUME AddRef(t) PROVE Covers /\ Collects
      BY <3>11, ReturnLabel DEF AddRef
    <3>12. ASSUME SyncReadsInactive(t) PROVE Covers /\ Collects
      BY <3>12 DEF SyncReadsInactive
    <3>13. ASSUME SyncReadsSuspend(t) PROVE Covers /\ Collects
      BY <3>13 DEF SyncReadsSuspend
    <3>14. ASSUME ActivateWakes(t) PROVE Covers /\ Collects
      BY <3>14 DEF ActivateWakes, Wake
    <3>15. ASSUME ActivateReadsSuspend(t) PROVE Covers /\ Collects
      BY <3>15, ReturnLabel DEF ActivateReadsSuspend
    <3>16. ASSUME SuspendStores(t) PROVE Covers /\ Collects
      BY <3>16, ReturnLabel DEF SuspendStores
    <3>17. ASSUME ResumeStores(t) PROVE Covers /\ Collects
      BY <3>17 DEF ResumeStores
    <3>18. ASSUME ResumeWakes(t) PROVE Covers /\ Collects
      BY <3>18 DEF ResumeWakes, Wake
    <3>19. ASSUME ResumeReadsInactive(t) PROVE Covers /\ Collects
      BY <3>19, ReturnLabel DEF ResumeReadsInactive
    <3>20. ASSUME TakeRef(t) PROVE Covers /\ Collects
      BY <3>20 DEF TakeRef
    <3>21. ASSUME TakeReadsSuspend(t) PROVE Covers /\ Collects
      BY <3>21 DEF TakeReadsSuspend
    <3>22. ASSUME TakeDefers(t) PROVE Covers /\ Collects
      BY <3>22 DEF TakeDefers
    <3>23. ASSUME TakeReadsAgain(t) PROVE Covers /\ Collects
      BY <3>23 DEF TakeReadsAgain
    <3>24. ASSUME ReadEmpty(t) PROVE Covers /\ Collects
      BY <3>24 DEF ReadEmpty
    <3>25. ASSUME Read(t) PROVE Covers /\ Collects
      BY <3>25 DEF Read
    <3>26. ASSUME FinishBody(t) PROVE Covers /\ Collects
      BY <3>26 DEF FinishBody
    <3>27. ASSUME Exchange(t) PROVE Covers /\ Collects
      BY <3>27, ReturnLabel DEF Exchange
    <3> QED BY <1>3, <3>1, <3>2, <3>3, <3>4, <3>5, <3>6, <3>7, <3>8, <3>9, <3>10, <3>11,
               <3>12, <3>13, <3>14, <3>15, <3>16, <3>17, <3>18, <3>19, <3>20, <3>21,
               <3>22, <3>23, <3>24, <3>25, <3>26, <3>27 DEF Call, Progress
  <2>7. Len(taskQueue)' <= refs' + taskToNotify' + Total(Hands)'
    <3>1. CASE Len(taskQueue)' = 0
      <4>1. \A x, y, z \in Nat : 0 <= x + y + z
        OBVIOUS
      <4> QED BY <2>1, <2>5, <3>1, <4>1
    <3>2. CASE Len(taskQueue)' + refs + taskToNotify + InHand(t)
                 <= Len(taskQueue) + refs' + taskToNotify' + InHand(t)'
      <4>1. PICK rr \in Nat, nn \in Nat, cc \in Nat, hh \in Nat, LL \in Nat :
              /\ rr = refs' /\ nn = taskToNotify' /\ LL = Len(taskQueue)'
              /\ cc = InHand(t)' /\ hh = Total(Hands)'
        BY <2>1, <2>5
      <4>2. /\ LL + refs + taskToNotify + InHand(t) <= Len(taskQueue) + rr + nn + cc
            /\ hh = Total(Hands) - InHand(t) + cc
        BY <2>1, <3>2, <4>1
      <4>3. LL <= rr + nn + hh
        <5>1. PICK r \in Nat, n \in Nat, c \in Nat, h \in Nat, L \in Nat :
                /\ r = refs /\ n = taskToNotify /\ L = Len(taskQueue)
                /\ c = InHand(t) /\ h = Total(Hands)
          BY <2>1, <2>3, <2>4
        <5>2. L <= r + n + h /\ LL + r + n + c <= L + rr + nn + cc /\ hh = h - c + cc
          BY <2>4, <4>2, <5>1
        <5> QED BY <5>2
      <4> QED BY <4>1, <4>3
    <3> QED BY <2>6, <3>1, <3>2
  <2>8. Collected'
    <3> SUFFICES ASSUME ~inactive', ~suspend', \A u \in Threads : ~Collecting(u)'
                 PROVE  Len(taskQueue)' <= refs' + Total(Sights)'
      BY DEF Collected
    <3>1. CASE Len(taskQueue)' = 0
      <4>1. \A x, y \in Nat : 0 <= x + y
        OBVIOUS
      <4> QED BY <2>1, <2>5, <3>1, <4>1
    <3>2. CASE Exchange(t)
      <4>1. Total(Hands)' <= Total(Sights)'
        BY <1>3, HandsInSight
      <4>2. InHand(t) = 0 /\ InHand(t)' = taskToNotify
        BY <2>3, <3>2, ReturnLabel DEF Exchange, InHand, Goto
      <4>3. refs' = refs /\ Len(taskQueue)' = Len(taskQueue)
        BY <3>2 DEF Exchange
      <4>4. Total(Hands)' = Total(Hands) + taskToNotify
        BY <2>1, <2>3, <4>2
      <4> QED BY <2>1, <2>4, <2>5, <4>1, <4>3, <4>4, ExchangeSum
    <3>3. CASE Len(taskQueue)' # 0 /\ ~Exchange(t)
      <4>1. /\ ~Collecting(t) /\ UNCHANGED <<inactive, suspend>>
            /\ Len(taskQueue)' + refs + InSight(t) <= Len(taskQueue) + refs' + InSight(t)'
        BY <2>6, <3>3
      <4>2. Len(taskQueue) <= refs + Total(Sights)
        BY <1>3, <2>2, <4>1 DEF Collected
      <4>3. PICK rr \in Nat, cc \in Nat, hh \in Nat, LL \in Nat :
              /\ rr = refs' /\ LL = Len(taskQueue)'
              /\ cc = InSight(t)' /\ hh = Total(Sights)'
        BY <2>1, <2>5
      <4>4. /\ LL + refs + InSight(t) <= Len(taskQueue) + rr + cc
            /\ hh = Total(Sights) - InSight(t) + cc
        BY <2>1, <4>1, <4>3
      <4>5. LL <= rr + hh
        <5>1. PICK r \in Nat, c \in Nat, h \in Nat, L \in Nat :
                /\ r = refs /\ L = Len(taskQueue)
                /\ c = InSight(t) /\ h = Total(Sights)
          BY <2>1, <2>3, <2>4
        <5>2. L <= r + h /\ LL + r + c <= L + rr + cc /\ hh = h - c + cc
          BY <4>2, <4>4, <5>1
        <5> QED BY <5>2
      <4> QED BY <4>3, <4>5
    <3> QED BY <3>1, <3>2, <3>3
  <2> QED BY <2>7, <2>8
<1> QED BY <1>1, <1>2, <1>3 DEF Next

\* No task is ever without a reference, in the executor, in hand or deferred.
THEOREM TasksAreCovered == SafeSpec => []EveryTaskCovered
<1> DEFINE IInv == TypeInv /\ EveryTaskCovered /\ Collected
<1>1. Init => IInv
  BY TypeInductive, CoverInductive
<1>2. IInv /\ [Next]_vars => IInv'
  BY TypeInductive, CoverInductive
<1>3. IInv => EveryTaskCovered
  OBVIOUS
<1> QED BY <1>1, <1>2, <1>3, PTL DEF SafeSpec

\* What was deferred is not forgotten: once an active queue is quiet, the executor
\* has a reference for every task.
THEOREM NobodyIsStranded == SafeSpec => []NoTaskStranded
<1> DEFINE IInv == TypeInv /\ EveryTaskCovered /\ Collected
<1>1. Init => IInv
  BY TypeInductive, CoverInductive
<1>2. IInv /\ [Next]_vars => IInv'
  BY TypeInductive, CoverInductive
<1>3. ASSUME IInv PROVE NoTaskStranded
  <2> SUFFICES ASSUME ~inactive, ~suspend,
                      \A t \in Threads :
                        pc[t] \in {"idle", "body", "sleepInactive", "sleepSuspend"}
               PROVE  Len(taskQueue) <= refs
    BY DEF NoTaskStranded
  <2>1. \A t \in Threads : toAdd[t] = 0 /\ InSight(t) = 0 /\ ~Collecting(t)
    <3>1. \A t \in Threads : toAdd[t] \in Nat /\ (pc[t] = "addRefs" <=> toAdd[t] > 0)
      BY <1>3 DEF TypeInv, TypeOK, InCall
    <3> QED BY <3>1 DEF InSight, InHand, Collecting
  <2>2. Total(Sights) = 0
    <3>1. Sights \in [Threads -> Nat] /\ \A t \in Threads : Sights[t] = 0
      BY <2>1 DEF Sights
    <3> QED BY <3>1, TotalZero
  <2>3. Len(taskQueue) <= refs + 0 /\ refs \in Nat
    BY <1>3, <2>1, <2>2 DEF Collected, TypeInv, TypeOK
  <2> QED BY <2>3
<1> QED BY <1>1, <1>2, <1>3, PTL DEF SafeSpec
=============================================================================
