----------------------------- MODULE GroupProofs -----------------------------
(***************************************************************************)
(* Group for every set of threads and callbacks and any number of tasks    *)
(* and waits: the callback of a group, and what wait() and notify() rely   *)
(* on although tasks enter and leave meanwhile.                            *)
(***************************************************************************)
EXTENDS Group, FiniteSetTheorems, TLAPS
-----------------------------------------------------------------------------
(* DispatchNotify, whatever the object does that derives from it: these    *)
(* are the only steps on its variables.                                    *)

\* A step of a thread inside DispatchNotify, or of a worker with a posted callback.
NotifyStep(t) == \/ \E f \in Callbacks : Claim(t, f)
                 \/ Fill(t) \/ Publish(t)
                 \/ Win(t, "post") \/ Win(t, "drop") \/ Post(t) \/ Drop(t) \/ Reset(t)
                 \/ BeginCallback(t) \/ EndCallback(t)

NotifySpec == NotifyInit /\ [][\E t \in Threads : NotifyStep(t)]_notifyVars

\* Where the callback is while next_ changes hands: only a thread that is setting one
\* has an argument, and next_ is empty exactly when there is nothing to post.
NextHolds ==
  /\ \A t \in Threads : (npc[t] = "fill") = (arg[t] # NoCallback)
  /\ state = "none" => next = NoCallback
  /\ \A t \in Threads : /\ npc[t] \in {"fill", "reset"} => next = NoCallback
                        /\ npc[t] \in {"publish", "post", "drop"} => next # NoCallback

NextInv == NotifyTypeOK /\ NextExclusive /\ NextHolds

\* state_ decides who may touch next_.
LEMMA NextInductive ==
  /\ NotifyInit => NextInv
  /\ NextInv /\ [\E t \in Threads : NotifyStep(t)]_notifyVars => NextInv'
<1> USE DEF NextInv, NotifyTypeOK, NextExclusive, NextHolds
<1>1. NotifyInit => NextInv
  BY NotifyAssumption DEF NotifyAssumption, NotifyInit
<1>2. ASSUME NextInv, [\E t \in Threads : NotifyStep(t)]_notifyVars PROVE NextInv'
  <2> USE <1>2, NotifyAssumption DEF NotifyAssumption, At
  <2>1. ASSUME NEW t \in Threads, NEW f \in Callbacks, Claim(t, f) PROVE NextInv'
    BY <2>1 DEF Claim
  <2>2. ASSUME NEW t \in Threads, Fill(t) PROVE NextInv'
    BY <2>2 DEF Fill
  <2>3. ASSUME NEW t \in Threads, Publish(t) PROVE NextInv'
    BY <2>3 DEF Publish
  <2>4. ASSUME NEW t \in Threads, NEW to \in {"post", "drop"}, Win(t, to) PROVE NextInv'
    BY <2>4 DEF Win
  <2>5. ASSUME NEW t \in Threads, Post(t) PROVE NextInv'
    BY <2>5 DEF Post
  <2>6. ASSUME NEW t \in Threads, Drop(t) PROVE NextInv'
    BY <2>6 DEF Drop
  <2>7. ASSUME NEW t \in Threads, Reset(t) PROVE NextInv'
    <3>1. \A u \in Threads : npc'[u] = "out"
      BY <2>7 DEF Reset
    <3>2. NotifyTypeOK' /\ NextHolds'
      BY <2>7, <3>1 DEF Reset
    <3>3. NextExclusive'
      BY <2>7, <3>1 DEF Reset
    <3> QED BY <3>2, <3>3
  <2>8. ASSUME NEW t \in Threads, BeginCallback(t) PROVE NextInv'
    BY <2>8 DEF BeginCallback
  <2>9. ASSUME NEW t \in Threads, EndCallback(t) PROVE NextInv'
    BY <2>9 DEF EndCallback
  <2>10. CASE UNCHANGED notifyVars
    BY <2>10 DEF notifyVars
  <2> QED
    BY <2>1, <2>2, <2>3, <2>4, <2>5, <2>6, <2>7, <2>8, <2>9, <2>10 DEF NotifyStep
<1> QED BY <1>1, <1>2

\* next_ has at most one owner at a time, and is set whenever it is published.
THEOREM NextIsExclusive == NotifySpec => []NextExclusive
<1>1. NextInv => NextExclusive
  BY DEF NextInv
<1> QED BY <1>1, NextInductive, PTL DEF NotifySpec
-----------------------------------------------------------------------------
\* The places of CallbackOnce are disjoint: a callback is in one of them at most, and
\* nowhere before it was accepted.
OnePlace == /\ \A t \in Threads : arg[t] # NoCallback => arg[t] \notin posted
            /\ called \cup dropped \subseteq registered

OnceInv == NextInv /\ CallbackOnce /\ OnePlace

\* A callback moves from one place to the next, and is in one of them at most.
LEMMA OnceInductive ==
  /\ NotifyInit => OnceInv
  /\ OnceInv /\ [\E t \in Threads : NotifyStep(t)]_notifyVars => OnceInv'
<1>1. NotifyInit => OnceInv
  BY NextInductive DEF OnceInv, CallbackOnce, OnePlace, NotifyInit
<1>2. ASSUME OnceInv, [\E t \in Threads : NotifyStep(t)]_notifyVars PROVE OnceInv'
  <2>0. NextInv /\ NextInv'
    BY <1>2, NextInductive DEF OnceInv
  <2> SUFFICES CallbackOnce' /\ OnePlace'
    BY <2>0 DEF OnceInv
  <2> USE <1>2, <2>0, NotifyAssumption
      DEF NotifyAssumption, At, OnceInv, NextInv, NotifyTypeOK, NextExclusive, NextHolds,
          CallbackOnce, OnePlace
  <2>1. ASSUME NEW t \in Threads, NEW f \in Callbacks, Claim(t, f)
        PROVE  CallbackOnce' /\ OnePlace'
    BY <2>1 DEF Claim
  <2>2. ASSUME NEW t \in Threads, Fill(t) PROVE CallbackOnce' /\ OnePlace'
    BY <2>2 DEF Fill
  <2>3. ASSUME NEW t \in Threads, Publish(t) PROVE CallbackOnce' /\ OnePlace'
    BY <2>3 DEF Publish
  <2>4. ASSUME NEW t \in Threads, NEW to \in {"post", "drop"}, Win(t, to)
        PROVE  CallbackOnce' /\ OnePlace'
    BY <2>4 DEF Win
  <2>5. ASSUME NEW t \in Threads, Post(t) PROVE CallbackOnce' /\ OnePlace'
    BY <2>5 DEF Post
  <2>6. ASSUME NEW t \in Threads, Drop(t) PROVE CallbackOnce' /\ OnePlace'
    BY <2>6 DEF Drop
  <2>7. ASSUME NEW t \in Threads, Reset(t) PROVE CallbackOnce' /\ OnePlace'
    BY <2>7 DEF Reset
  <2>8. ASSUME NEW t \in Threads, BeginCallback(t) PROVE CallbackOnce' /\ OnePlace'
    BY <2>8 DEF BeginCallback
  <2>9. ASSUME NEW t \in Threads, EndCallback(t) PROVE CallbackOnce' /\ OnePlace'
    BY <2>9 DEF EndCallback
  <2>10. CASE UNCHANGED notifyVars
    BY <2>10 DEF notifyVars
  <2> QED
    BY <2>1, <2>2, <2>3, <2>4, <2>5, <2>6, <2>7, <2>8, <2>9, <2>10 DEF NotifyStep
<1> QED BY <1>1, <1>2

\* Each accepted callback is in exactly one place until it is called or cancelled.
THEOREM CalledOnce == NotifySpec => []CallbackOnce
<1>1. OnceInv => CallbackOnce
  BY DEF OnceInv
<1> QED BY <1>1, OnceInductive, PTL DEF NotifySpec
-----------------------------------------------------------------------------
(* The group                                                               *)

\* A group uses DispatchNotify as it is meant to be used.
LEMMA GroupUsesNotify ==
  /\ Init => NotifyInit
  /\ [\E t \in Threads : Step(t)]_vars => [\E t \in Threads : NotifyStep(t)]_notifyVars
<1>1. Init => NotifyInit
  BY DEF Init
<1>2. ASSUME [\E t \in Threads : Step(t)]_vars
      PROVE  [\E t \in Threads : NotifyStep(t)]_notifyVars
  <2>1. ASSUME NEW t \in Threads,
               Enter(t) \/ Leave(t) \/ LeaveSubtracts(t) \/ LeaveStores(t) \/
                 LeaveWakes(t) \/ Wait(t) \/ TakeTicket(t) \/ WaitContinues(t) \/
                 WaitReturns(t) \/ Sleep(t) \/ Reload(t) \/ NotifyReadsCount(t) \/
                 NotifyReadsCountEarly(t) \/ NothingToNotify(t)
        PROVE  UNCHANGED notifyVars
    BY <2>1 DEF Enter, Leave, LeaveSubtracts, LeaveStores, LeaveWakes, Wait, TakeTicket,
                WaitContinues, WaitReturns, Sleep, Reload, NotifyReadsCount,
                NotifyReadsCountEarly, NothingToNotify
  <2>2. ASSUME NEW t \in Threads, NotifyCall(t) PROVE NotifyStep(t)
    BY <2>2 DEF NotifyCall, NotifyStep
  <2>3. ASSUME NEW t \in Threads, NotifyFills(t) PROVE NotifyStep(t)
    BY <2>3 DEF NotifyFills, NotifyStep
  <2>4. ASSUME NEW t \in Threads, NotifyPublishes(t) PROVE NotifyStep(t)
    BY <2>4 DEF NotifyPublishes, NotifyStep
  <2>5. ASSUME NEW t \in Threads, NotifyPublishesLate(t) PROVE NotifyStep(t)
    BY <2>5 DEF NotifyPublishesLate, NotifyStep
  <2>6. ASSUME NEW t \in Threads, DoNotify(t) PROVE NotifyStep(t)
    BY <2>6 DEF DoNotify, NotifyStep
  <2>7. ASSUME NEW t \in Threads, PostCallback(t) PROVE NotifyStep(t)
    BY <2>7 DEF PostCallback, NotifyStep
  <2>8. ASSUME NEW t \in Threads, DoNotifyEnds(t) PROVE NotifyStep(t)
    BY <2>8 DEF DoNotifyEnds, NotifyStep
  <2>9. UNCHANGED vars => UNCHANGED notifyVars
    BY DEF vars
  <2> QED BY <1>2, <2>1, <2>2, <2>3, <2>4, <2>5, <2>6, <2>7, <2>8, <2>9 DEF Step,
         Progress, WaitStep
<1> QED BY <1>1, <1>2

\* next_ of a group belongs to one thread at a time, and a published one is set.
THEOREM GroupNextIsExclusive == SafeSpec => []NextExclusive
<1>1. SafeSpec => NotifySpec
  BY GroupUsesNotify, PTL DEF SafeSpec, NotifySpec
<1> QED BY <1>1, NextIsExclusive, PTL

\* Each callback passed to notify() of a group is called or dropped once, and not lost.
THEOREM GroupCallsOnce == SafeSpec => []CallbackOnce
<1>1. SafeSpec => NotifySpec
  BY GroupUsesNotify, PTL DEF SafeSpec, NotifySpec
<1> QED BY <1>1, CalledOnce, PTL
-----------------------------------------------------------------------------
\* Who is about to subtract from taskCount_, or to draw a ticket.
Leaving == {t \in Threads : pc[t] = "leave"}
Drawing == {t \in Threads : pc[t] = "ticket"}

\* Each leave() has the task that it takes out of the group, and the bound on waits has
\* room for each wait() that has begun.
CountInv == /\ TypeOK
            /\ Cardinality(Leaving) <= taskCount
            /\ waitCount + Cardinality(Drawing) <= MaxWaits

\* They can be counted.
LEMMA CallersFinite == /\ IsFiniteSet(Leaving) /\ Cardinality(Leaving) \in Nat
                       /\ IsFiniteSet(Drawing) /\ Cardinality(Drawing) \in Nat
<1>1. Leaving \in SUBSET Threads /\ Drawing \in SUBSET Threads
  BY DEF Leaving, Drawing
<1> QED BY <1>1, GroupAssumption, FS_Subset, FS_CardinalityType DEF GroupAssumption

\* taskCount_ is never negative and no counter passes its bound.
LEMMA CountInductive ==
  /\ Init /\ NotifyTypeOK => CountInv
  /\ CountInv /\ NotifyTypeOK' /\ [\E t \in Threads : Step(t)]_vars => CountInv'
<1> USE GroupAssumption, CallersFinite DEF GroupAssumption, CountInv, Labels, WaitLabels
<1>1. ASSUME Init, NotifyTypeOK PROVE CountInv
  <2>1. Leaving = {} /\ Drawing = {}
    BY <1>1 DEF Init, Leaving, Drawing
  <2>2. Cardinality(Leaving) = 0 /\ Cardinality(Drawing) = 0
    BY <2>1, FS_EmptySet
  <2>3. emptied \subseteq Callbacks /\ overtaken \in BOOLEAN
    BY <1>1 DEF Init
  <2>4. /\ sawEmpty \in [Threads -> BOOLEAN] /\ pc \in [Threads -> Labels]
        /\ curr \in [Threads -> 0..MaxTasks] /\ ticket \in [Threads -> 0..MaxWaits]
        /\ mayNotify \in [Threads -> 0..MaxWaits]
    BY <1>1 DEF Init
  <2>5. taskCount = 0 /\ waitCount = 0 /\ notifyCount = 0
    BY <1>1 DEF Init
  <2> QED BY <1>1, <2>2, <2>3, <2>4, <2>5 DEF TypeOK
<1>2. ASSUME CountInv, NotifyTypeOK', [\E t \in Threads : Step(t)]_vars PROVE CountInv'
  <2>0. registered \subseteq Callbacks
    BY <1>2 DEF TypeOK, NotifyTypeOK
  <2> USE <1>2, <2>0 DEF TypeOK, Goto, counters, locals, ghosts
  <2>1. ASSUME NEW t \in Threads, Enter(t) PROVE CountInv'
    <3>1. Leaving' = Leaving /\ Drawing' = Drawing
      BY <2>1 DEF Enter, Leaving, Drawing
    <3> QED BY <2>1, <3>1 DEF Enter
  <2>2. ASSUME NEW t \in Threads, Leave(t) PROVE CountInv'
    <3>1. Leaving' = Leaving \cup {t} /\ t \notin Leaving /\ Drawing' = Drawing
      BY <2>2 DEF Leave, Leaving, Drawing
    <3>2. Cardinality(Leaving') = Cardinality(Leaving) + 1
      BY <3>1, FS_AddElement
    <3> QED BY <2>2, <3>1, <3>2 DEF Leave, Leaving
  <2>3. ASSUME NEW t \in Threads, LeaveSubtracts(t) PROVE CountInv'
    <3>1. Leaving' = Leaving \ {t} /\ t \in Leaving /\ Drawing' = Drawing
      BY <2>3 DEF LeaveSubtracts, Leaving, Drawing
    <3>2. Cardinality(Leaving') = Cardinality(Leaving) - 1 /\ Cardinality(Leaving') \in Nat
      BY <3>1, FS_RemoveElement, FS_CardinalityType
    <3>3. taskCount' = taskCount - 1 /\ taskCount >= 1
      BY <2>3, <3>2 DEF LeaveSubtracts
    <3>4. taskCount' \in 0..MaxTasks /\ Cardinality(Leaving') <= taskCount'
      BY <3>2, <3>3
    <3>5. emptied' \subseteq Callbacks /\ overtaken' = overtaken
      BY <2>3 DEF LeaveSubtracts
    <3>6. sawEmpty' \in [Threads -> BOOLEAN]
      BY <2>3 DEF LeaveSubtracts
    <3>7. mayNotify' \in [Threads -> 0..MaxWaits] /\ pc' \in [Threads -> Labels]
      BY <2>3 DEF LeaveSubtracts
    <3> QED BY <2>3, <3>1, <3>4, <3>5, <3>6, <3>7 DEF LeaveSubtracts
  <2>4. ASSUME NEW t \in Threads, LeaveStores(t) PROVE CountInv'
    <3>1. Leaving' = Leaving /\ Drawing' = Drawing
      BY <2>4 DEF LeaveStores, Leaving, Drawing
    <3> QED BY <2>4, <3>1 DEF LeaveStores
  <2>5. ASSUME NEW t \in Threads, LeaveWakes(t) PROVE CountInv'
    <3>1. Leaving' = Leaving /\ Drawing' = Drawing
      BY <2>5 DEF LeaveWakes, Leaving, Drawing
    <3> QED BY <2>5, <3>1 DEF LeaveWakes
  <2>6. ASSUME NEW t \in Threads, Wait(t) PROVE CountInv'
    <3>1. Drawing' = Drawing \cup {t} /\ t \notin Drawing /\ Leaving' = Leaving
      BY <2>6 DEF Wait, Leaving, Drawing
    <3>2. Cardinality(Drawing') = Cardinality(Drawing) + 1
      BY <3>1, FS_AddElement
    <3> QED BY <2>6, <3>1, <3>2 DEF Wait, Drawing
  <2>7. ASSUME NEW t \in Threads, TakeTicket(t) PROVE CountInv'
    <3>1. Drawing' = Drawing \ {t} /\ t \in Drawing /\ Leaving' = Leaving
      BY <2>7 DEF TakeTicket, Leaving, Drawing
    <3>2. Cardinality(Drawing') = Cardinality(Drawing) - 1 /\ Cardinality(Drawing') \in Nat
      BY <3>1, FS_RemoveElement, FS_CardinalityType
    <3> QED BY <2>7, <3>1, <3>2 DEF TakeTicket
  <2>8. ASSUME NEW t \in Threads, WaitContinues(t) PROVE CountInv'
    <3>1. Leaving' = Leaving /\ Drawing' = Drawing
      BY <2>8 DEF WaitContinues, Leaving, Drawing
    <3> QED BY <2>8, <3>1 DEF WaitContinues
  <2>9. ASSUME NEW t \in Threads, WaitReturns(t) PROVE CountInv'
    <3>1. Leaving' = Leaving /\ Drawing' = Drawing
      BY <2>9 DEF WaitReturns, Leaving, Drawing
    <3> QED BY <2>9, <3>1 DEF WaitReturns
  <2>10. ASSUME NEW t \in Threads, Sleep(t) PROVE CountInv'
    <3>1. Leaving' = Leaving /\ Drawing' = Drawing
      BY <2>10 DEF Sleep, Leaving, Drawing
    <3> QED BY <2>10, <3>1 DEF Sleep
  <2>11. ASSUME NEW t \in Threads, Reload(t) PROVE CountInv'
    <3>1. Leaving' = Leaving /\ Drawing' = Drawing
      BY <2>11 DEF Reload, Leaving, Drawing
    <3> QED BY <2>11, <3>1 DEF Reload
  <2>12. ASSUME NEW t \in Threads, NotifyCall(t) PROVE CountInv'
    <3>1. Leaving' = Leaving /\ Drawing' = Drawing
      BY <2>12 DEF NotifyCall, Leaving, Drawing
    <3> QED BY <2>12, <3>1 DEF NotifyCall
  <2>13. ASSUME NEW t \in Threads, NotifyFills(t) PROVE CountInv'
    <3>1. Leaving' = Leaving /\ Drawing' = Drawing
      BY <2>13 DEF NotifyFills, Leaving, Drawing
    <3> QED BY <2>13, <3>1 DEF NotifyFills
  <2>14. ASSUME NEW t \in Threads, NotifyPublishes(t) PROVE CountInv'
    <3>1. Leaving' = Leaving /\ Drawing' = Drawing
      BY <2>14 DEF NotifyPublishes, Leaving, Drawing
    <3> QED BY <2>14, <3>1 DEF NotifyPublishes
  <2>15. ASSUME NEW t \in Threads, NotifyReadsCount(t) PROVE CountInv'
    <3>1. Leaving' = Leaving /\ Drawing' = Drawing
      BY <2>15 DEF NotifyReadsCount, Leaving, Drawing
    <3> QED BY <2>15, <3>1 DEF NotifyReadsCount
  <2>16. ASSUME NEW t \in Threads, NotifyReadsCountEarly(t) PROVE CountInv'
    <3>1. Leaving' = Leaving /\ Drawing' = Drawing
      BY <2>16 DEF NotifyReadsCountEarly, Leaving, Drawing
    <3> QED BY <2>16, <3>1 DEF NotifyReadsCountEarly
  <2>17. ASSUME NEW t \in Threads, NotifyPublishesLate(t) PROVE CountInv'
    <3>1. Leaving' = Leaving /\ Drawing' = Drawing
      BY <2>17 DEF NotifyPublishesLate, Leaving, Drawing
    <3> QED BY <2>17, <3>1 DEF NotifyPublishesLate
  <2>18. ASSUME NEW t \in Threads, DoNotify(t) PROVE CountInv'
    <3>1. Leaving' = Leaving /\ Drawing' = Drawing
      BY <2>18 DEF DoNotify, Leaving, Drawing
    <3> QED BY <2>18, <3>1 DEF DoNotify
  <2>19. ASSUME NEW t \in Threads, NothingToNotify(t) PROVE CountInv'
    <3>1. Leaving' = Leaving /\ Drawing' = Drawing
      BY <2>19 DEF NothingToNotify, Leaving, Drawing
    <3> QED BY <2>19, <3>1 DEF NothingToNotify
  <2>20. ASSUME NEW t \in Threads, PostCallback(t) PROVE CountInv'
    <3>1. Leaving' = Leaving /\ Drawing' = Drawing
      BY <2>20 DEF PostCallback, Leaving, Drawing
    <3> QED BY <2>20, <3>1 DEF PostCallback
  <2>21. ASSUME NEW t \in Threads, DoNotifyEnds(t) PROVE CountInv'
    <3>1. Leaving' = Leaving /\ Drawing' = Drawing
      BY <2>21 DEF DoNotifyEnds, Leaving, Drawing
    <3> QED BY <2>21, <3>1 DEF DoNotifyEnds
  <2>22. CASE UNCHANGED vars
    <3>1. Leaving' = Leaving /\ Drawing' = Drawing
      BY <2>22 DEF vars, Leaving, Drawing
    <3> QED BY <2>22, <3>1 DEF vars
  <2> QED BY <1>2, <2>1, <2>2, <2>3, <2>4, <2>5, <2>6, <2>7, <2>8, <2>9, <2>10, <2>11,
         <2>12, <2>13, <2>14, <2>15, <2>16, <2>17, <2>18, <2>19, <2>20, <2>21, <2>22 DEF
         Step, Progress, WaitStep
<1> QED BY <1>1, <1>2

\* The type invariant.
THEOREM GroupTypeCorrect == SafeSpec => []TypeOK
<1>1. Init => NextInv /\ CountInv
  BY GroupUsesNotify, NextInductive, CountInductive DEF NextInv
<1>2. NextInv /\ CountInv /\ [\E t \in Threads : Step(t)]_vars => (NextInv /\ CountInv)'
  BY GroupUsesNotify, NextInductive, CountInductive DEF NextInv
<1>3. CountInv => TypeOK
  BY DEF CountInv
<1> QED BY <1>1, <1>2, <1>3, PTL DEF SafeSpec
-----------------------------------------------------------------------------
\* Who is between the load of taskCount_ and the late store of state_ is known.
EarlyLoads == \A t \in Threads : pc[t] \in {"publishFire", "publishReturn"} => overtaken

LooksInv == EarlyLoads /\ CallbackNotForgotten

\* The last leave() goes on to doNotify(), and so does a notify() that finds the group
\* empty after it published.
LEMMA LooksInductive ==
  /\ Init => LooksInv
  /\ LooksInv /\ TypeOK /\ TypeOK' /\ [\E t \in Threads : Step(t)]_vars => LooksInv'
<1> USE DEF LooksInv, EarlyLoads, CallbackNotForgotten, Labels, WaitLabels
<1>1. Init => LooksInv
  BY DEF Init, NotifyInit
<1>2. ASSUME LooksInv, TypeOK, TypeOK', [\E t \in Threads : Step(t)]_vars
      PROVE  LooksInv'
  <2>0. pc \in [Threads -> Labels] /\ taskCount \in Nat /\ taskCount' \in Nat
    BY <1>2, GroupAssumption DEF TypeOK, GroupAssumption
  <2> USE <1>2, <2>0 DEF Goto, At, counters, locals, ghosts, notifyVars
  <2>1. ASSUME NEW t \in Threads, Enter(t) PROVE LooksInv'
    BY <2>1 DEF Enter
  <2>2. ASSUME NEW t \in Threads, Leave(t) PROVE LooksInv'
    BY <2>2 DEF Leave
  <2>3. ASSUME NEW t \in Threads, LeaveSubtracts(t) PROVE LooksInv'
    BY <2>3 DEF LeaveSubtracts
  <2>4. ASSUME NEW t \in Threads, LeaveStores(t) PROVE LooksInv'
    BY <2>4 DEF LeaveStores
  <2>5. ASSUME NEW t \in Threads, LeaveWakes(t) PROVE LooksInv'
    BY <2>5 DEF LeaveWakes
  <2>6. ASSUME NEW t \in Threads, Wait(t) PROVE LooksInv'
    BY <2>6 DEF Wait
  <2>7. ASSUME NEW t \in Threads, TakeTicket(t) PROVE LooksInv'
    BY <2>7 DEF TakeTicket
  <2>8. ASSUME NEW t \in Threads, WaitContinues(t) PROVE LooksInv'
    BY <2>8 DEF WaitContinues
  <2>9. ASSUME NEW t \in Threads, WaitReturns(t) PROVE LooksInv'
    BY <2>9 DEF WaitReturns
  <2>10. ASSUME NEW t \in Threads, Sleep(t) PROVE LooksInv'
    BY <2>10 DEF Sleep
  <2>11. ASSUME NEW t \in Threads, Reload(t) PROVE LooksInv'
    BY <2>11 DEF Reload
  <2>12. ASSUME NEW t \in Threads, NotifyCall(t) PROVE LooksInv'
    BY <2>12 DEF NotifyCall, Claim
  <2>13. ASSUME NEW t \in Threads, NotifyFills(t) PROVE LooksInv'
    BY <2>13 DEF NotifyFills, Fill
  <2>14. ASSUME NEW t \in Threads, NotifyPublishes(t) PROVE LooksInv'
    BY <2>14 DEF NotifyPublishes, Publish
  <2>15. ASSUME NEW t \in Threads, NotifyReadsCount(t) PROVE LooksInv'
    BY <2>15 DEF NotifyReadsCount
  <2>16. ASSUME NEW t \in Threads, NotifyReadsCountEarly(t) PROVE LooksInv'
    BY <2>16 DEF NotifyReadsCountEarly
  <2>17. ASSUME NEW t \in Threads, NotifyPublishesLate(t) PROVE LooksInv'
    BY <2>17 DEF NotifyPublishesLate, Publish
  <2>18. ASSUME NEW t \in Threads, DoNotify(t) PROVE LooksInv'
    BY <2>18 DEF DoNotify, Win
  <2>19. ASSUME NEW t \in Threads, NothingToNotify(t) PROVE LooksInv'
    BY <2>19 DEF NothingToNotify
  <2>20. ASSUME NEW t \in Threads, PostCallback(t) PROVE LooksInv'
    BY <2>20 DEF PostCallback, Post
  <2>21. ASSUME NEW t \in Threads, DoNotifyEnds(t) PROVE LooksInv'
    BY <2>21 DEF DoNotifyEnds, Reset
  <2>22. CASE UNCHANGED vars
    BY <2>22 DEF vars
  <2> QED BY <1>2, <2>1, <2>2, <2>3, <2>4, <2>5, <2>6, <2>7, <2>8, <2>9, <2>10, <2>11,
         <2>12, <2>13, <2>14, <2>15, <2>16, <2>17, <2>18, <2>19, <2>20, <2>21, <2>22 DEF
         Step, Progress, WaitStep
<1> QED BY <1>1, <1>2

\* A published callback of an empty group always has somebody who will look at it.
THEOREM CallbackIsNotForgotten == SafeSpec => []CallbackNotForgotten
<1>1. LooksInv => CallbackNotForgotten
  BY DEF LooksInv
<1> QED BY <1>1, LooksInductive, GroupTypeCorrect, PTL DEF SafeSpec
-----------------------------------------------------------------------------
\* Who waits with a ticket.
Ticketed == WaitLabels \ {"ticket"}

\* Why a thread may leave wait(): whatever lets it go, the count it read or the tickets
\* that the last leave() lets pass, comes from a moment during its wait() at which the
\* group was empty.  Tickets drawn later are not below what leave() has read.
Witnessed ==
  /\ notifyCount <= waitCount
  /\ \A t \in Threads : mayNotify[t] <= waitCount
  /\ \A t \in Threads :
       /\ pc[t] \in WaitLabels /\ (taskCount = 0 \/ curr[t] = 0) => sawEmpty[t]
       /\ pc[t] \in Ticketed /\ ticket[t] < notifyCount => sawEmpty[t]
  /\ \A t, u \in Threads :
       pc[t] = "leaveStore" /\ pc[u] \in Ticketed /\ ticket[u] < mayNotify[t] => sawEmpty[u]

\* The last leave() is a moment at which the group is empty for all who wait then.
LEMMA WitnessedInductive ==
  /\ Init => Witnessed
  /\ Witnessed /\ TypeOK /\ TypeOK' /\ [\E t \in Threads : Step(t)]_vars => Witnessed'
<1> USE DEF Witnessed, Ticketed, Labels, WaitLabels
<1>1. Init => Witnessed
  BY DEF Init
<1>2. ASSUME Witnessed, TypeOK, TypeOK', [\E t \in Threads : Step(t)]_vars
      PROVE  Witnessed'
  <2>0. /\ pc \in [Threads -> Labels]
        /\ taskCount \in Nat /\ taskCount' \in Nat
        /\ waitCount \in Nat /\ notifyCount \in Nat
        /\ curr \in [Threads -> Nat] /\ ticket \in [Threads -> Nat]
        /\ mayNotify \in [Threads -> Nat] /\ sawEmpty \in [Threads -> BOOLEAN]
    BY <1>2, GroupAssumption DEF TypeOK, GroupAssumption
  <2> USE <1>2, <2>0 DEF Goto, counters, locals, ghosts
  <2>1. ASSUME NEW t \in Threads, Enter(t) PROVE Witnessed'
    BY <2>1 DEF Enter
  <2>2. ASSUME NEW t \in Threads, Leave(t) PROVE Witnessed'
    BY <2>2 DEF Leave
  <2>3. ASSUME NEW t \in Threads, LeaveSubtracts(t) PROVE Witnessed'
    <3>1. CASE taskCount = 1
      <4>1. \A u \in Threads : pc'[u] \in WaitLabels => sawEmpty'[u]
        BY <2>3, <3>1 DEF LeaveSubtracts
      <4>2. mayNotify' = mayNotify /\ waitCount' = waitCount /\ notifyCount' = notifyCount
        BY <2>3, <3>1 DEF LeaveSubtracts
      <4> QED BY <4>1, <4>2
    <3>2. CASE taskCount # 1
      <4>1. taskCount' # 0
        BY <2>3, <3>2 DEF LeaveSubtracts
      <4>2. /\ mayNotify' = [mayNotify EXCEPT ![t] = 0] /\ sawEmpty' = sawEmpty
            /\ waitCount' = waitCount /\ notifyCount' = notifyCount
            /\ curr' = curr /\ ticket' = ticket
            /\ pc[t] = "leave" /\ pc' = [pc EXCEPT ![t] = "idle"]
        BY <2>3, <3>2 DEF LeaveSubtracts
      <4> QED BY <4>1, <4>2
    <3> QED BY <3>1, <3>2
  <2>4. ASSUME NEW t \in Threads, LeaveStores(t) PROVE Witnessed'
    BY <2>4 DEF LeaveStores
  <2>5. ASSUME NEW t \in Threads, LeaveWakes(t) PROVE Witnessed'
    BY <2>5 DEF LeaveWakes
  <2>6. ASSUME NEW t \in Threads, Wait(t) PROVE Witnessed'
    BY <2>6 DEF Wait
  <2>7. ASSUME NEW t \in Threads, TakeTicket(t) PROVE Witnessed'
    BY <2>7 DEF TakeTicket
  <2>8. ASSUME NEW t \in Threads, WaitContinues(t) PROVE Witnessed'
    BY <2>8 DEF WaitContinues
  <2>9. ASSUME NEW t \in Threads, WaitReturns(t) PROVE Witnessed'
    BY <2>9 DEF WaitReturns
  <2>10. ASSUME NEW t \in Threads, Sleep(t) PROVE Witnessed'
    BY <2>10 DEF Sleep
  <2>11. ASSUME NEW t \in Threads, Reload(t) PROVE Witnessed'
    BY <2>11 DEF Reload
  <2>12. ASSUME NEW t \in Threads, NotifyCall(t) PROVE Witnessed'
    BY <2>12 DEF NotifyCall
  <2>13. ASSUME NEW t \in Threads, NotifyFills(t) PROVE Witnessed'
    BY <2>13 DEF NotifyFills
  <2>14. ASSUME NEW t \in Threads, NotifyPublishes(t) PROVE Witnessed'
    BY <2>14 DEF NotifyPublishes
  <2>15. ASSUME NEW t \in Threads, NotifyReadsCount(t) PROVE Witnessed'
    BY <2>15 DEF NotifyReadsCount
  <2>16. ASSUME NEW t \in Threads, NotifyReadsCountEarly(t) PROVE Witnessed'
    BY <2>16 DEF NotifyReadsCountEarly
  <2>17. ASSUME NEW t \in Threads, NotifyPublishesLate(t) PROVE Witnessed'
    BY <2>17 DEF NotifyPublishesLate
  <2>18. ASSUME NEW t \in Threads, DoNotify(t) PROVE Witnessed'
    BY <2>18 DEF DoNotify
  <2>19. ASSUME NEW t \in Threads, NothingToNotify(t) PROVE Witnessed'
    BY <2>19 DEF NothingToNotify
  <2>20. ASSUME NEW t \in Threads, PostCallback(t) PROVE Witnessed'
    BY <2>20 DEF PostCallback
  <2>21. ASSUME NEW t \in Threads, DoNotifyEnds(t) PROVE Witnessed'
    BY <2>21 DEF DoNotifyEnds
  <2>22. CASE UNCHANGED vars
    BY <2>22 DEF vars
  <2> QED BY <1>2, <2>1, <2>2, <2>3, <2>4, <2>5, <2>6, <2>7, <2>8, <2>9, <2>10, <2>11,
         <2>12, <2>13, <2>14, <2>15, <2>16, <2>17, <2>18, <2>19, <2>20, <2>21, <2>22 DEF
         Step, Progress, WaitStep
<1> QED BY <1>1, <1>2

\* wait() returns only if the group was empty between its call and its return, although
\* taskCount_ may have grown again and notifyCount_ may have gone back since.
THEOREM WaitSawEmpty == SafeSpec => WaitSeesEmpty
<1>1. ASSUME Witnessed, TypeOK, [\E t \in Threads : Step(t)]_vars
      PROVE  [\A t \in Threads : pc[t] = "test" /\ pc'[t] = "idle" => sawEmpty[t]]_vars
  <2> SUFFICES ASSUME NEW u \in Threads, pc[u] = "test", pc'[u] = "idle" PROVE sawEmpty[u]
    OBVIOUS
  <2>0. pc \in [Threads -> Labels]
    BY <1>1 DEF TypeOK
  <2> USE <2>0 DEF Goto, Labels, WaitLabels
  <2>1. ASSUME NEW t \in Threads, Enter(t) PROVE sawEmpty[u]
    BY <2>1 DEF Enter
  <2>2. ASSUME NEW t \in Threads, Leave(t) PROVE sawEmpty[u]
    BY <2>2 DEF Leave
  <2>3. ASSUME NEW t \in Threads, LeaveSubtracts(t) PROVE sawEmpty[u]
    BY <2>3 DEF LeaveSubtracts
  <2>4. ASSUME NEW t \in Threads, LeaveStores(t) PROVE sawEmpty[u]
    BY <2>4 DEF LeaveStores
  <2>5. ASSUME NEW t \in Threads, LeaveWakes(t) PROVE sawEmpty[u]
    BY <2>5 DEF LeaveWakes
  <2>6. ASSUME NEW t \in Threads, Wait(t) PROVE sawEmpty[u]
    BY <2>6 DEF Wait
  <2>7. ASSUME NEW t \in Threads, TakeTicket(t) PROVE sawEmpty[u]
    BY <2>7 DEF TakeTicket
  <2>8. ASSUME NEW t \in Threads, WaitContinues(t) PROVE sawEmpty[u]
    BY <2>8 DEF WaitContinues
  <2>9. ASSUME NEW t \in Threads, WaitReturns(t) PROVE sawEmpty[u]
    <3>1. t = u
      BY <2>9 DEF WaitReturns
    <3>2. ticket[u] \in Nat /\ notifyCount \in Nat
      BY <1>1, GroupAssumption DEF TypeOK, GroupAssumption
    <3> QED BY <1>1, <2>9, <3>1, <3>2 DEF WaitReturns, Witnessed, Ticketed
  <2>10. ASSUME NEW t \in Threads, Sleep(t) PROVE sawEmpty[u]
    BY <2>10 DEF Sleep
  <2>11. ASSUME NEW t \in Threads, Reload(t) PROVE sawEmpty[u]
    BY <2>11 DEF Reload
  <2>12. ASSUME NEW t \in Threads, NotifyCall(t) PROVE sawEmpty[u]
    BY <2>12 DEF NotifyCall
  <2>13. ASSUME NEW t \in Threads, NotifyFills(t) PROVE sawEmpty[u]
    BY <2>13 DEF NotifyFills
  <2>14. ASSUME NEW t \in Threads, NotifyPublishes(t) PROVE sawEmpty[u]
    BY <2>14 DEF NotifyPublishes
  <2>15. ASSUME NEW t \in Threads, NotifyReadsCount(t) PROVE sawEmpty[u]
    BY <2>15 DEF NotifyReadsCount
  <2>16. ASSUME NEW t \in Threads, NotifyReadsCountEarly(t) PROVE sawEmpty[u]
    BY <2>16 DEF NotifyReadsCountEarly
  <2>17. ASSUME NEW t \in Threads, NotifyPublishesLate(t) PROVE sawEmpty[u]
    BY <2>17 DEF NotifyPublishesLate
  <2>18. ASSUME NEW t \in Threads, DoNotify(t) PROVE sawEmpty[u]
    BY <2>18 DEF DoNotify
  <2>19. ASSUME NEW t \in Threads, NothingToNotify(t) PROVE sawEmpty[u]
    BY <2>19 DEF NothingToNotify
  <2>20. ASSUME NEW t \in Threads, PostCallback(t) PROVE sawEmpty[u]
    BY <2>20 DEF PostCallback
  <2>21. ASSUME NEW t \in Threads, DoNotifyEnds(t) PROVE sawEmpty[u]
    BY <2>21 DEF DoNotifyEnds
  <2>22. CASE UNCHANGED vars
    BY <2>22 DEF vars
  <2> QED BY <1>1, <2>1, <2>2, <2>3, <2>4, <2>5, <2>6, <2>7, <2>8, <2>9, <2>10, <2>11,
         <2>12, <2>13, <2>14, <2>15, <2>16, <2>17, <2>18, <2>19, <2>20, <2>21, <2>22 DEF
         Step, Progress, WaitStep
<1> QED BY <1>1, WitnessedInductive, GroupTypeCorrect, PTL DEF SafeSpec, WaitSeesEmpty
=============================================================================
