--------------------------- MODULE WorkItemProofs ---------------------------
(***************************************************************************)
(* WorkItem for every finite set of threads, every set of callbacks and    *)
(* any number of performs.  What DispatchNotify and DispatchKeepAlive      *)
(* guarantee is proved for any object that derives from them and carried   *)
(* over: an item takes no steps on their variables but theirs.             *)
(***************************************************************************)
EXTENDS WorkItem, FiniteSetTheorems, TLAPS
-----------------------------------------------------------------------------
(* DispatchNotify, whatever the object does that derives from it: the      *)
(* lemmas of GroupProofs, repeated so that each module stands by itself.   *)

\* A step of a thread inside DispatchNotify, or of a worker with a posted callback.
NotifyStep(t) == \/ \E f \in Callbacks : Claim(t, f)
                 \/ Fill(t) \/ Publish(t)
                 \/ Win(t, "post") \/ Win(t, "drop") \/ Post(t) \/ Drop(t) \/ Reset(t)
                 \/ BeginCallback(t) \/ EndCallback(t)

NotifySpec == NotifyInit /\ [][\E t \in Threads : NotifyStep(t)]_notifyVars

\* Where the callback is while next_ changes hands: only a thread that is setting one
\* has an argument, and next_ is empty exactly when there is nothing to post.
NextHolds ==
  /\ \A t \in Threads : (npc[t] = "fill") = (arg[t] # NoCallback)
  /\ state = "none" => next = NoCallback
  /\ \A t \in Threads : /\ npc[t] \in {"fill", "reset"} => next = NoCallback
                        /\ npc[t] \in {"publish", "post", "drop"} => next # NoCallback

NextInv == NotifyTypeOK /\ NextExclusive /\ NextHolds

\* state_ decides who may touch next_.
LEMMA NextInductive ==
  /\ NotifyInit => NextInv
  /\ NextInv /\ [\E t \in Threads : NotifyStep(t)]_notifyVars => NextInv'
<1> USE DEF NextInv, NotifyTypeOK, NextExclusive, NextHolds
<1>1. NotifyInit => NextInv
  BY NotifyAssumption DEF NotifyAssumption, NotifyInit
<1>2. ASSUME NextInv, [\E t \in Threads : NotifyStep(t)]_notifyVars PROVE NextInv'
  <2> USE <1>2, NotifyAssumption DEF NotifyAssumption, At
  <2>1. ASSUME NEW t \in Threads, NEW f \in Callbacks, Claim(t, f) PROVE NextInv'
    BY <2>1 DEF Claim
  <2>2. ASSUME NEW t \in Threads, Fill(t) PROVE NextInv'
    BY <2>2 DEF Fill
  <2>3. ASSUME NEW t \in Threads, Publish(t) PROVE NextInv'
    BY <2>3 DEF Publish
  <2>4. ASSUME NEW t \in Threads, NEW to \in {"post", "drop"}, Win(t, to) PROVE NextInv'
    BY <2>4 DEF Win
  <2>5. ASSUME NEW t \in Threads, Post(t) PROVE NextInv'
    BY <2>5 DEF Post
  <2>6. ASSUME NEW t \in Threads, Drop(t) PROVE NextInv'
    BY <2>6 DEF Drop
  <2>7. ASSUME NEW t \in Threads, Reset(t) PROVE NextInv'
    <3>1. \A u \in Threads : npc'[u] = "out"
      BY <2>7 DEF Reset
    <3>2. NotifyTypeOK' /\ NextHolds'
      BY <2>7, <3>1 DEF Reset
    <3>3. NextExclusive'
      BY <2>7, <3>1 DEF Reset
    <3> QED BY <3>2, <3>3
  <2>8. ASSUME NEW t \in Threads, BeginCallback(t) PROVE NextInv'
    BY <2>8 DEF BeginCallback
  <2>9. ASSUME NEW t \in Threads, EndCallback(t) PROVE NextInv'
    BY <2>9 DEF EndCallback
  <2>10. CASE UNCHANGED notifyVars
    BY <2>10 DEF notifyVars
  <2> QED
    BY <2>1, <2>2, <2>3, <2>4, <2>5, <2>6, <2>7, <2>8, <2>9, <2>10 DEF NotifyStep
<1> QED BY <1>1, <1>2

\* next_ has at most one owner at a time, and is set whenever it is published.
THEOREM NextIsExclusive == NotifySpec => []NextExclusive
<1>1. NextInv => NextExclusive
  BY DEF NextInv
<1> QED BY <1>1, NextInductive, PTL DEF NotifySpec
-----------------------------------------------------------------------------
\* The places of CallbackOnce are disjoint: a callback is in one of them at most, and
\* nowhere before it was accepted.
OnePlace == /\ \A t \in Threads : arg[t] # NoCallback => arg[t] \notin posted
            /\ called \cup dropped \subseteq registered

OnceInv == NextInv /\ CallbackOnce /\ OnePlace

\* A callback moves from one place to the next, and is in one of them at most.
LEMMA OnceInductive ==
  /\ NotifyInit => OnceInv
  /\ OnceInv /\ [\E t \in Threads : NotifyStep(t)]_notifyVars => OnceInv'
<1>1. NotifyInit => OnceInv
  BY NextInductive DEF OnceInv, CallbackOnce, OnePlace, NotifyInit
<1>2. ASSUME OnceInv, [\E t \in Threads : NotifyStep(t)]_notifyVars PROVE OnceInv'
  <2>0. NextInv /\ NextInv'
    BY <1>2, NextInductive DEF OnceInv
  <2> SUFFICES CallbackOnce' /\ OnePlace'
    BY <2>0 DEF OnceInv
  <2> USE <1>2, <2>0, NotifyAssumption
      DEF NotifyAssumption, At, OnceInv, NextInv, NotifyTypeOK, NextExclusive, NextHolds,
          CallbackOnce, OnePlace
  <2>1. ASSUME NEW t \in Threads, NEW f \in Callbacks, Claim(t, f)
        PROVE  CallbackOnce' /\ OnePlace'
    BY <2>1 DEF Claim
  <2>2. ASSUME NEW t \in Threads, Fill(t) PROVE CallbackOnce' /\ OnePlace'
    BY <2>2 DEF Fill
  <2>3. ASSUME NEW t \in Threads, Publish(t) PROVE CallbackOnce' /\ OnePlace'
    BY <2>3 DEF Publish
  <2>4. ASSUME NEW t \in Threads, NEW to \in {"post", "drop"}, Win(t, to)
        PROVE  CallbackOnce' /\ OnePlace'
    BY <2>4 DEF Win
  <2>5. ASSUME NEW t \in Threads, Post(t) PROVE CallbackOnce' /\ OnePlace'
    BY <2>5 DEF Post
  <2>6. ASSUME NEW t \in Threads, Drop(t) PROVE CallbackOnce' /\ OnePlace'
    BY <2>6 DEF Drop
  <2>7. ASSUME NEW t \in Threads, Reset(t) PROVE CallbackOnce' /\ OnePlace'
    BY <2>7 DEF Reset
  <2>8. ASSUME NEW t \in Threads, BeginCallback(t) PROVE CallbackOnce' /\ OnePlace'
    BY <2>8 DEF BeginCallback
  <2>9. ASSUME NEW t \in Threads, EndCallback(t) PROVE CallbackOnce' /\ OnePlace'
    BY <2>9 DEF EndCallback
  <2>10. CASE UNCHANGED notifyVars
    BY <2>10 DEF notifyVars
  <2> QED
    BY <2>1, <2>2, <2>3, <2>4, <2>5, <2>6, <2>7, <2>8, <2>9, <2>10 DEF NotifyStep
<1> QED BY <1>1, <1>2

\* Each accepted callback is in exactly one place until it is called or cancelled.
THEOREM CalledOnce == NotifySpec => []CallbackOnce
<1>1. OnceInv => CallbackOnce
  BY DEF OnceInv
<1> QED BY <1>1, OnceInductive, PTL DEF NotifySpec
-----------------------------------------------------------------------------
(* DispatchKeepAlive: the object is not given up while anybody holds a     *)
(* token of it, and is given up once.                                      *)

\* A thread looks for a token only if it has none: it would not have to.
KeepAliveStep(t) == \/ ~token[t] /\ LockLoads(t)
                    \/ LockSteps(t) \/ Release(t) \/ Signal(t)
                    \/ JoinReleases(t) \/ JoinSteps(t)

KeepAliveSpec ==
  KeepAliveInit /\ [][\E t \in Threads : KeepAliveStep(t)]_keepAliveVars

Holders == {t \in Threads : token[t]}

\* keepAliveCount_ is the number of tokens, the object's own one included.
Counted == /\ keepAliveCount = Cardinality(Holders) + (IF keepAliveJoined THEN 0 ELSE 1)
           /\ \A t \in Threads : kpc[t] = "lock" => ~token[t]

\* The last release is noticed by one thread, and passed on once.
Signalling(t) == kpc[t] \in {"signal", "joinSignal"}

OneSignal ==
  /\ \A t, u \in Threads : Signalling(t) /\ Signalling(u) => t = u
  /\ keepAliveRelease \in {0, 1}
  /\ (\E t \in Threads : Signalling(t)) =>
       keepAliveCount = 0 /\ keepAliveRelease = 0 /\ ~destroyed
  /\ keepAliveRelease = 1 => keepAliveCount = 0 /\ ~destroyed
  /\ destroyed => keepAliveCount = 0

KeepAliveInv == KeepAliveTypeOK /\ Counted /\ OneSignal

\* The tokens can be counted.
LEMMA HoldersFinite ==
  IsFiniteSet(Holders) /\ Cardinality(Holders) \in Nat
<1>1. Holders \in SUBSET Threads
  BY DEF Holders
<1> QED BY <1>1, KeepAliveAssumption, FS_Subset, FS_CardinalityType DEF KeepAliveAssumption

\* The count is 0 only if nobody has a token.
LEMMA NoHolder == keepAliveCount = 0 /\ Counted => \A t \in Threads : ~token[t]
<1> SUFFICES ASSUME keepAliveCount = 0, Counted PROVE \A t \in Threads : ~token[t]
  OBVIOUS
<1>1. Cardinality(Holders) = 0
  BY HoldersFinite DEF Counted
<1>2. Holders = {}
  BY <1>1, HoldersFinite, FS_EmptySet
<1> QED BY <1>2 DEF Holders

\* Every token is counted, and the count falls to 0 once.
LEMMA KeepAliveInductive ==
  /\ KeepAliveInit => KeepAliveInv
  /\ KeepAliveInv /\ [\E t \in Threads : KeepAliveStep(t)]_keepAliveVars => KeepAliveInv'
<1>1. ASSUME KeepAliveInit PROVE KeepAliveInv
  <2>1. Holders = {}
    BY <1>1 DEF KeepAliveInit, Holders
  <2>2. Cardinality(Holders) = 0
    BY <2>1, FS_EmptySet
  <2>3. KeepAliveTypeOK
    BY <1>1 DEF KeepAliveInit, KeepAliveTypeOK
  <2>4. Counted
    BY <1>1, <2>2 DEF KeepAliveInit, Counted
  <2>5. OneSignal
    BY <1>1 DEF KeepAliveInit, OneSignal, Signalling
  <2> QED BY <2>3, <2>4, <2>5 DEF KeepAliveInv
<1>2. ASSUME KeepAliveInv, [\E t \in Threads : KeepAliveStep(t)]_keepAliveVars
      PROVE  KeepAliveInv'
  <2>0. KeepAliveTypeOK /\ Counted /\ OneSignal
    BY <1>2 DEF KeepAliveInv
  <2> SUFFICES KeepAliveTypeOK' /\ Counted' /\ OneSignal'
    BY DEF KeepAliveInv
  <2> USE <2>0, HoldersFinite DEF Enters
  <2>1. ASSUME NEW t \in Threads, LockLoads(t), ~token[t]
        PROVE  KeepAliveTypeOK' /\ Counted' /\ OneSignal'
    <3>1. Holders' = Holders
      BY <2>1 DEF LockLoads, Holders, KeepAliveTypeOK
    <3>2. Counted'
      BY <2>1, <3>1 DEF LockLoads, Counted, KeepAliveTypeOK
    <3>3. KeepAliveTypeOK'
      BY <2>1 DEF LockLoads, KeepAliveTypeOK
    <3>4. OneSignal'
      BY <2>1 DEF LockLoads, OneSignal, Signalling, KeepAliveTypeOK
    <3> QED BY <3>2, <3>3, <3>4
  <2>2. ASSUME NEW t \in Threads, LockTakes(t)
        PROVE  KeepAliveTypeOK' /\ Counted' /\ OneSignal'
    <3>a. Holders' = Holders \cup {t} /\ t \notin Holders
      BY <2>2 DEF LockTakes, Holders, KeepAliveTypeOK, Counted
    <3>1. Cardinality(Holders') = Cardinality(Holders) + 1
      BY <3>a, FS_AddElement
    <3>2. Counted'
      BY <2>2, <3>1 DEF LockTakes, Counted, KeepAliveTypeOK
    <3>3. KeepAliveTypeOK'
      BY <2>2 DEF LockTakes, KeepAliveTypeOK
    <3>4. OneSignal'
      BY <2>2 DEF LockTakes, OneSignal, Signalling, KeepAliveTypeOK
    <3> QED BY <3>2, <3>3, <3>4
  <2>3. ASSUME NEW t \in Threads, LockRetries(t)
        PROVE  KeepAliveTypeOK' /\ Counted' /\ OneSignal'
    <3>1. Holders' = Holders
      BY <2>3 DEF LockRetries, Holders, KeepAliveTypeOK
    <3>2. Counted'
      BY <2>3, <3>1 DEF LockRetries, Counted, KeepAliveTypeOK
    <3>3. KeepAliveTypeOK'
      BY <2>3 DEF LockRetries, KeepAliveTypeOK
    <3>4. OneSignal'
      BY <2>3 DEF LockRetries, OneSignal, Signalling, KeepAliveTypeOK
    <3> QED BY <3>2, <3>3, <3>4
  <2>4. ASSUME NEW t \in Threads, LockFails(t)
        PROVE  KeepAliveTypeOK' /\ Counted' /\ OneSignal'
    <3>1. Holders' = Holders
      BY <2>4 DEF LockFails, Holders, KeepAliveTypeOK
    <3>2. Counted'
      BY <2>4, <3>1 DEF LockFails, Counted, KeepAliveTypeOK
    <3>3. KeepAliveTypeOK'
      BY <2>4 DEF LockFails, KeepAliveTypeOK
    <3>4. OneSignal'
      BY <2>4 DEF LockFails, OneSignal, Signalling, KeepAliveTypeOK
    <3> QED BY <3>2, <3>3, <3>4
  <2>5. ASSUME NEW t \in Threads, Release(t)
        PROVE  KeepAliveTypeOK' /\ Counted' /\ OneSignal'
    <3>a. Holders' = Holders \ {t} /\ t \in Holders
      BY <2>5 DEF Release, Holders, KeepAliveTypeOK
    <3>1. /\ Cardinality(Holders') = Cardinality(Holders) - 1
          /\ Cardinality(Holders') \in Nat
      BY <3>a, FS_RemoveElement, FS_CardinalityType
    <3>2. keepAliveCount' \in Nat /\ Counted'
      BY <2>5, <3>1 DEF Release, Counted, KeepAliveTypeOK
    <3>3. KeepAliveTypeOK'
      BY <2>5, <3>2 DEF Release, KeepAliveTypeOK
    <3>4. keepAliveCount > 0
      BY <2>5, <3>1 DEF Release, Counted
    <3>5. ~destroyed /\ keepAliveRelease = 0 /\ \A u \in Threads : ~Signalling(u)
      BY <3>4 DEF OneSignal
    <3>6. OneSignal'
      BY <2>5, <3>4, <3>5 DEF Release, OneSignal, Signalling, KeepAliveTypeOK
    <3> QED BY <3>2, <3>3, <3>6
  <2>6. ASSUME NEW t \in Threads, Signal(t)
        PROVE  KeepAliveTypeOK' /\ Counted' /\ OneSignal'
    <3>1. Holders' = Holders
      BY <2>6 DEF Signal, Holders, KeepAliveTypeOK
    <3>2. Counted'
      BY <2>6, <3>1 DEF Signal, Counted, KeepAliveTypeOK
    <3>3. KeepAliveTypeOK'
      BY <2>6 DEF Signal, KeepAliveTypeOK
    <3>4. OneSignal'
      BY <2>6 DEF Signal, OneSignal, Signalling, KeepAliveTypeOK
    <3> QED BY <3>2, <3>3, <3>4
  <2>7. ASSUME NEW t \in Threads, JoinReleases(t)
        PROVE  KeepAliveTypeOK' /\ Counted' /\ OneSignal'
    <3>1. Holders' = Holders
      BY <2>7 DEF JoinReleases, Holders, KeepAliveTypeOK
    <3>2. keepAliveCount' \in Nat /\ Counted'
      BY <2>7, <3>1 DEF JoinReleases, Counted, KeepAliveTypeOK
    <3>3. KeepAliveTypeOK'
      BY <2>7, <3>2 DEF JoinReleases, KeepAliveTypeOK
    <3>4. keepAliveCount > 0
      BY <2>7, <3>1 DEF JoinReleases, Counted
    <3>5. ~destroyed /\ keepAliveRelease = 0 /\ \A u \in Threads : ~Signalling(u)
      BY <3>4 DEF OneSignal
    <3>6. OneSignal'
      BY <2>7, <3>4, <3>5 DEF JoinReleases, OneSignal, Signalling, KeepAliveTypeOK
    <3> QED BY <3>2, <3>3, <3>6
  <2>8. ASSUME NEW t \in Threads, JoinSignals(t)
        PROVE  KeepAliveTypeOK' /\ Counted' /\ OneSignal'
    <3>1. Holders' = Holders
      BY <2>8 DEF JoinSignals, Holders, KeepAliveTypeOK
    <3>2. Counted'
      BY <2>8, <3>1 DEF JoinSignals, Counted, KeepAliveTypeOK
    <3>3. KeepAliveTypeOK'
      BY <2>8 DEF JoinSignals, KeepAliveTypeOK
    <3>4. OneSignal'
      BY <2>8 DEF JoinSignals, OneSignal, Signalling, KeepAliveTypeOK
    <3> QED BY <3>2, <3>3, <3>4
  <2>9. ASSUME NEW t \in Threads, JoinAcquires(t)
        PROVE  KeepAliveTypeOK' /\ Counted' /\ OneSignal'
    <3>1. Holders' = Holders
      BY <2>9 DEF JoinAcquires, Holders, KeepAliveTypeOK
    <3>2. Counted'
      BY <2>9, <3>1 DEF JoinAcquires, Counted, KeepAliveTypeOK
    <3>3. KeepAliveTypeOK'
      BY <2>9 DEF JoinAcquires, KeepAliveTypeOK
    <3>4. OneSignal'
      BY <2>9 DEF JoinAcquires, OneSignal, Signalling, KeepAliveTypeOK
    <3> QED BY <3>2, <3>3, <3>4
  <2>10. CASE UNCHANGED keepAliveVars
    <3>1. Holders' = Holders
      BY <2>10 DEF keepAliveVars, Holders
    <3> QED
      BY <2>10, <3>1 DEF keepAliveVars, KeepAliveTypeOK, Counted, OneSignal, Signalling
  <2> QED BY <1>2, <2>1, <2>2, <2>3, <2>4, <2>5, <2>6, <2>7, <2>8, <2>9, <2>10
          DEF KeepAliveStep, LockSteps, JoinSteps
<1> QED BY <1>1, <1>2

\* The semaphore that the destructor waits for is released once, after every token of
\* the object is gone, whatever the interleaving of lock() with the last release.
THEOREM IsReleasedOnce == KeepAliveSpec => []ReleasedOnce
<1>1. KeepAliveInv => ReleasedOnce
  BY NoHolder DEF KeepAliveInv, OneSignal, Signalling, ReleasedOnce
<1> QED BY <1>1, KeepAliveInductive, PTL DEF KeepAliveSpec
-----------------------------------------------------------------------------
(* The work item                                                           *)

\* An item uses DispatchNotify as it is meant to be used.
LEMMA UsesNotify == /\ Init => NotifyInit
                    /\ [Next]_vars => [\E t \in Threads : NotifyStep(t)]_notifyVars
<1>1. Init => NotifyInit
  BY DEF Init
<1>2. ASSUME [Next]_vars PROVE [\E t \in Threads : NotifyStep(t)]_notifyVars
  <2>1. ASSUME NEW t \in Threads,
               Submit(t) \/ Perform(t) \/ Wait(t) \/ Cancel(t) \/ Destroy(t) \/
                 TakeTask(t) \/ Locks(t) \/ CountsPerform(t) \/ Accepts(t) \/ Refuses(t)
                 \/ CopiesFunc(t) \/ Runs(t) \/ ReadsFinished(t) \/ StoresFinished(t) \/
                 WakesOne(t) \/ NoCallbackSet(t) \/ Returns(t) \/ Releases(t) \/
                 Signals(t) \/ ReadsCount(t) \/ Sleeps(t) \/ SeesFinished(t) \/
                 Cancels(t) \/ Disposes(t) \/ Joins(t) \/ TimesOut(t)
        PROVE  UNCHANGED notifyVars
    BY <2>1 DEF Submit, Perform, Wait, Cancel, Destroy, TakeTask, Locks, CountsPerform,
                Accepts, Refuses, CopiesFunc, Runs, ReadsFinished, StoresFinished,
                WakesOne, NoCallbackSet, Returns, Releases, Signals, ReadsCount, Sleeps,
                SeesFinished, Cancels, Disposes, Joins, TimesOut
  <2>2. ASSUME NEW t \in Threads, ~terminated, NotifyCall(t) PROVE NotifyStep(t)
    BY <2>2 DEF NotifyCall, NotifyStep
  <2>3. ASSUME NEW t \in Threads, ~terminated, Fires(t) PROVE NotifyStep(t)
    BY <2>3 DEF Fires, NotifyStep
  <2>4. ASSUME NEW t \in Threads, ~terminated, HandlesCallback(t) PROVE NotifyStep(t)
    BY <2>4 DEF HandlesCallback, NotifyStep
  <2>5. ASSUME NEW t \in Threads, ~terminated, FreesCallback(t) PROVE NotifyStep(t)
    BY <2>5 DEF FreesCallback, NotifyStep
  <2>6. ASSUME NEW t \in Threads, ~terminated, SetsCallback(t) PROVE NotifyStep(t)
    BY <2>6 DEF SetsCallback, NotifyStep
  <2>7. ASSUME NEW t \in Threads, ~terminated, NotifyReturns(t) PROVE NotifyStep(t)
    BY <2>7 DEF NotifyReturns, NotifyStep
  <2>8. ASSUME NEW t \in Threads, ~terminated, RunsCallback(t) PROVE NotifyStep(t)
    BY <2>8 DEF RunsCallback, NotifyStep
  <2>9. UNCHANGED vars => UNCHANGED notifyVars
    BY DEF vars
  <2> QED BY <1>2, <2>1, <2>2, <2>3, <2>4, <2>5, <2>6, <2>7, <2>8, <2>9 DEF Next, Call,
         Progress, Performs
<1> QED BY <1>1, <1>2

\* next_ of a work item belongs to one thread at a time, and a published one is set.
THEOREM NextIsExclusiveHere == SafeSpec => []NextExclusive
<1>1. SafeSpec => NotifySpec
  BY UsesNotify, PTL DEF SafeSpec, NotifySpec
<1> QED BY <1>1, NextIsExclusive, PTL

\* Each callback passed to notify() of a work item is called or dropped exactly once, and
\* is not lost in between.
THEOREM CalledOnceHere == SafeSpec => []CallbackOnce
<1>1. SafeSpec => NotifySpec
  BY UsesNotify, PTL DEF SafeSpec, NotifySpec
<1> QED BY <1>1, CalledOnce, PTL
-----------------------------------------------------------------------------
\* Who has a token of the item is performing it for a queue, unless an exception has
\* ended the program there.
TokenPlaced == /\ pc \in [Threads -> Labels]
               /\ \A t \in Threads :
                    /\ token[t] /\ ~terminated => pc[t] \in PerformLabels
                    /\ kpc[t] \in {"joinSignal", "join"} => pc[t] = "join"
                    /\ kpc[t] = "lock" => pc[t] = "lock"

\* An item uses DispatchKeepAlive as it is meant to be used.
LEMMA UsesKeepAlive ==
  /\ Init => KeepAliveInit
  /\ TokenPlaced /\ [Next]_vars => [\E t \in Threads : KeepAliveStep(t)]_keepAliveVars
<1>1. Init => KeepAliveInit
  BY DEF Init
<1>2. ASSUME TokenPlaced, [Next]_vars
      PROVE  [\E t \in Threads : KeepAliveStep(t)]_keepAliveVars
  <2>1. ASSUME NEW t \in Threads,
               Submit(t) \/ Perform(t) \/ Wait(t) \/ NotifyCall(t) \/ Cancel(t) \/
                 Destroy(t) \/ CountsPerform(t) \/ Accepts(t) \/ Refuses(t) \/
                 CopiesFunc(t) \/ Runs(t) \/ ReadsFinished(t) \/ StoresFinished(t) \/
                 WakesOne(t) \/ Fires(t) \/ HandlesCallback(t) \/ FreesCallback(t) \/
                 NoCallbackSet(t) \/ Returns(t) \/ ReadsCount(t) \/ Sleeps(t) \/
                 SeesFinished(t) \/ SetsCallback(t) \/ NotifyReturns(t) \/ Cancels(t) \/
                 TimesOut(t) \/ RunsCallback(t)
        PROVE  UNCHANGED keepAliveVars
    BY <2>1 DEF Submit, Perform, Wait, NotifyCall, Cancel, Destroy, CountsPerform,
                Accepts, Refuses, CopiesFunc, Runs, ReadsFinished, StoresFinished,
                WakesOne, Fires, HandlesCallback, FreesCallback, NoCallbackSet, Returns,
                ReadsCount, Sleeps, SeesFinished, SetsCallback, NotifyReturns, Cancels,
                TimesOut, RunsCallback
  <2>2. ASSUME NEW t \in Threads, ~terminated, TakeTask(t) PROVE KeepAliveStep(t)
    <3>1. pc[t] = "idle" /\ LockLoads(t)
      BY <2>2 DEF TakeTask, Goto
    <3>2. ~token[t]
      BY <2>2, <3>1, <1>2 DEF TokenPlaced, PerformLabels
    <3> QED BY <3>1, <3>2 DEF KeepAliveStep
  <2>3. ASSUME NEW t \in Threads, ~terminated, Locks(t) PROVE KeepAliveStep(t)
    BY <2>3 DEF Locks, KeepAliveStep
  <2>4. ASSUME NEW t \in Threads, ~terminated, Releases(t) PROVE KeepAliveStep(t)
    BY <2>4 DEF Releases, KeepAliveStep
  <2>5. ASSUME NEW t \in Threads, ~terminated, Signals(t) PROVE KeepAliveStep(t)
    BY <2>5 DEF Signals, KeepAliveStep
  <2>6. ASSUME NEW t \in Threads, ~terminated, Disposes(t) PROVE KeepAliveStep(t)
    BY <2>6 DEF Disposes, KeepAliveStep
  <2>7. ASSUME NEW t \in Threads, ~terminated, Joins(t) PROVE KeepAliveStep(t)
    BY <2>7 DEF Joins, KeepAliveStep
  <2>8. UNCHANGED vars => UNCHANGED keepAliveVars
    BY DEF vars
  <2> QED BY <1>2, <2>1, <2>2, <2>3, <2>4, <2>5, <2>6, <2>7, <2>8 DEF Next, Call,
         Progress, Performs
<1> QED BY <1>1, <1>2

\* Only who gets a token with lock() has one, and it gives the token back before it is idle.
LEMMA TokenPlacedInductive ==
  /\ Init => TokenPlaced
  /\ TokenPlaced /\ KeepAliveInv /\ KeepAliveInv' /\ [Next]_vars => TokenPlaced'
<1> USE DEF Labels, PerformLabels, WaitLabels, DestroyLabels
<1>1. Init => TokenPlaced
  BY DEF Init, TokenPlaced, KeepAliveInit
<1>2. ASSUME TokenPlaced, KeepAliveInv, KeepAliveInv', [Next]_vars PROVE TokenPlaced'
  <2>0. /\ token \in [Threads -> BOOLEAN] /\ token' \in [Threads -> BOOLEAN]
        /\ kpc \in [Threads -> {"out", "lock", "signal", "joinSignal", "join"}]
        /\ \A t \in Threads : kpc[t] = "lock" => ~token[t]
    BY <1>2 DEF KeepAliveInv, KeepAliveTypeOK, Counted
  <2> USE <1>2, <2>0 DEF TokenPlaced, Goto, MayCall, keepAliveVars, ghosts, locals
  <2>1. ASSUME NEW t \in Threads, ~terminated, Submit(t) PROVE TokenPlaced'
    BY <2>1 DEF Submit
  <2>2. ASSUME NEW t \in Threads, ~terminated, Perform(t) PROVE TokenPlaced'
    BY <2>2 DEF Perform
  <2>3. ASSUME NEW t \in Threads, ~terminated, Wait(t) PROVE TokenPlaced'
    BY <2>3 DEF Wait
  <2>4. ASSUME NEW t \in Threads, ~terminated, NotifyCall(t) PROVE TokenPlaced'
    BY <2>4 DEF NotifyCall, Claim, At
  <2>5. ASSUME NEW t \in Threads, ~terminated, Cancel(t) PROVE TokenPlaced'
    BY <2>5 DEF Cancel
  <2>6. ASSUME NEW t \in Threads, ~terminated, Destroy(t) PROVE TokenPlaced'
    BY <2>6 DEF Destroy
  <2>7. ASSUME NEW t \in Threads, ~terminated, TakeTask(t) PROVE TokenPlaced'
    BY <2>7 DEF TakeTask, LockLoads, Enters
  <2>8. ASSUME NEW t \in Threads, ~terminated, Locks(t) PROVE TokenPlaced'
    BY <2>8 DEF Locks, LockSteps, LockTakes, LockRetries, LockFails, Enters
  <2>9. ASSUME NEW t \in Threads, ~terminated, CountsPerform(t) PROVE TokenPlaced'
    BY <2>9 DEF CountsPerform
  <2>10. ASSUME NEW t \in Threads, ~terminated, Accepts(t) PROVE TokenPlaced'
    BY <2>10 DEF Accepts
  <2>11. ASSUME NEW t \in Threads, ~terminated, Refuses(t) PROVE TokenPlaced'
    <3>1. token' = token /\ kpc' = kpc /\ terminated' = token[t]
        /\ pc[t] = "readWaited" /\ pc' = [pc EXCEPT ![t] = "idle"]
      BY <2>11 DEF Refuses
    <3>2. ASSUME NEW u \in Threads, token'[u], ~terminated' PROVE pc'[u] \in PerformLabels
      BY <3>1, <3>2, <2>11
    <3>3. pc' \in [Threads -> Labels]
      BY <3>1
    <3> QED BY <3>1, <3>2, <3>3
  <2>12. ASSUME NEW t \in Threads, ~terminated, CopiesFunc(t) PROVE TokenPlaced'
    BY <2>12 DEF CopiesFunc
  <2>13. ASSUME NEW t \in Threads, ~terminated, Runs(t) PROVE TokenPlaced'
    BY <2>13 DEF Runs
  <2>14. ASSUME NEW t \in Threads, ~terminated, ReadsFinished(t) PROVE TokenPlaced'
    BY <2>14 DEF ReadsFinished
  <2>15. ASSUME NEW t \in Threads, ~terminated, StoresFinished(t) PROVE TokenPlaced'
    BY <2>15 DEF StoresFinished
  <2>16. ASSUME NEW t \in Threads, ~terminated, WakesOne(t) PROVE TokenPlaced'
    BY <2>16 DEF WakesOne
  <2>17. ASSUME NEW t \in Threads, ~terminated, Fires(t) PROVE TokenPlaced'
    BY <2>17 DEF Fires, Win, At
  <2>18. ASSUME NEW t \in Threads, ~terminated, HandlesCallback(t) PROVE TokenPlaced'
    BY <2>18 DEF HandlesCallback, Post, Drop, At
  <2>19. ASSUME NEW t \in Threads, ~terminated, FreesCallback(t) PROVE TokenPlaced'
    BY <2>19 DEF FreesCallback, Reset, At
  <2>20. ASSUME NEW t \in Threads, ~terminated, NoCallbackSet(t) PROVE TokenPlaced'
    BY <2>20 DEF NoCallbackSet
  <2>21. ASSUME NEW t \in Threads, ~terminated, Returns(t) PROVE TokenPlaced'
    BY <2>21 DEF Returns
  <2>22. ASSUME NEW t \in Threads, ~terminated, Releases(t) PROVE TokenPlaced'
    BY <2>22 DEF Releases, Release, Enters
  <2>23. ASSUME NEW t \in Threads, ~terminated, Signals(t) PROVE TokenPlaced'
    BY <2>23 DEF Signals, Signal, Enters
  <2>24. ASSUME NEW t \in Threads, ~terminated, ReadsCount(t) PROVE TokenPlaced'
    BY <2>24 DEF ReadsCount
  <2>25. ASSUME NEW t \in Threads, ~terminated, Sleeps(t) PROVE TokenPlaced'
    BY <2>25 DEF Sleeps
  <2>26. ASSUME NEW t \in Threads, ~terminated, SeesFinished(t) PROVE TokenPlaced'
    BY <2>26 DEF SeesFinished
  <2>27. ASSUME NEW t \in Threads, ~terminated, SetsCallback(t) PROVE TokenPlaced'
    BY <2>27 DEF SetsCallback, Fill, At
  <2>28. ASSUME NEW t \in Threads, ~terminated, NotifyReturns(t) PROVE TokenPlaced'
    BY <2>28 DEF NotifyReturns, Publish, At
  <2>29. ASSUME NEW t \in Threads, ~terminated, Cancels(t) PROVE TokenPlaced'
    BY <2>29 DEF Cancels
  <2>30. ASSUME NEW t \in Threads, ~terminated, Disposes(t) PROVE TokenPlaced'
    BY <2>30 DEF Disposes, JoinReleases, Enters
  <2>31. ASSUME NEW t \in Threads, ~terminated, Joins(t) PROVE TokenPlaced'
    <3>1. token' = token /\ terminated' = terminated /\ pc[t] = "join" /\
          pc' = [pc EXCEPT ![t] = IF destroyed' THEN "gone" ELSE "join"]
      BY <2>31 DEF Joins, JoinSteps, JoinSignals, JoinAcquires, Enters
    <3>2. \A u \in Threads : /\ kpc'[u] \in {"joinSignal", "join"} => pc'[u] = "join"
                             /\ kpc'[u] = "lock" => pc'[u] = "lock"
      BY <2>31 DEF KeepAliveInv, OneSignal, Signalling, Joins, JoinSteps, JoinSignals,
               JoinAcquires, Enters
    <3> QED BY <3>1, <3>2
  <2>32. ASSUME NEW t \in Threads, ~terminated, TimesOut(t) PROVE TokenPlaced'
    BY <2>32 DEF TimesOut
  <2>33. ASSUME NEW t \in Threads, ~terminated, RunsCallback(t) PROVE TokenPlaced'
    BY <2>33 DEF RunsCallback, BeginCallback, EndCallback
  <2>34. CASE UNCHANGED vars
    BY <2>34 DEF vars, notifyVars, keepAliveVars, itemVars, locals, ghosts
  <2> QED BY <1>2, <2>1, <2>2, <2>3, <2>4, <2>5, <2>6, <2>7, <2>8, <2>9, <2>10, <2>11,
       <2>12, <2>13, <2>14, <2>15, <2>16, <2>17, <2>18, <2>19, <2>20, <2>21, <2>22,
       <2>23, <2>24, <2>25, <2>26, <2>27, <2>28, <2>29, <2>30, <2>31, <2>32, <2>33,
       <2>34
          DEF Next, Call, Progress, Performs
<1> QED BY <1>1, <1>2

-----------------------------------------------------------------------------
\* The owner is alone with the item once it destroys it: nobody is in a direct call, and
\* DispatchNotify is entered only in a call or by who performs.
Alone == /\ \A t \in Threads : pc[t] \in DestroyLabels => t = Owner
         /\ \A t \in Threads : npc[t] # "out" => pc[t] \in {"notify", "fire"}
         /\ pc[Owner] \in DestroyLabels => \A t \in Threads : Calling(t) => t = Owner
         /\ destroyed => pc[Owner] = "gone"

\* Destroy() begins when nobody is in a call, and no call begins after it.
LEMMA AloneInductive ==
  /\ Init => Alone
  /\ Alone /\ NextInv /\ KeepAliveInv /\ KeepAliveInv' /\ TokenPlaced /\ TokenPlaced'
       /\ [Next]_vars => Alone'
<1> USE DEF Labels, PerformLabels, WaitLabels, DestroyLabels
<1>1. Init => Alone
  BY DEF Init, Alone, Calling, KeepAliveInit, NotifyInit
<1>2. ASSUME Alone, NextInv, KeepAliveInv, KeepAliveInv', TokenPlaced, TokenPlaced',
             [Next]_vars
      PROVE  Alone'
  <2>0. /\ token \in [Threads -> BOOLEAN] /\ token' \in [Threads -> BOOLEAN]
        /\ kpc \in [Threads -> {"out", "lock", "signal", "joinSignal", "join"}]
        /\ npc \in [Threads -> {"out", "fill", "publish", "post", "drop", "reset"}]
        /\ pc \in [Threads -> Labels] /\ Owner \in Threads
        /\ \A t \in Threads : token[t] /\ ~terminated => pc[t] \in PerformLabels
    BY <1>2, WorkItemAssumption
       DEF KeepAliveInv, KeepAliveTypeOK, NextInv, NotifyTypeOK, TokenPlaced,
           WorkItemAssumption
  <2> USE <1>2, <2>0 DEF Alone, Calling, Goto, MayCall, keepAliveVars, notifyVars
  <2>1. ASSUME NEW t \in Threads, ~terminated, Submit(t) PROVE Alone'
    BY <2>1 DEF Submit
  <2>2. ASSUME NEW t \in Threads, ~terminated, Perform(t) PROVE Alone'
    BY <2>2 DEF Perform
  <2>3. ASSUME NEW t \in Threads, ~terminated, Wait(t) PROVE Alone'
    BY <2>3 DEF Wait
  <2>4. ASSUME NEW t \in Threads, ~terminated, NotifyCall(t) PROVE Alone'
    BY <2>4 DEF NotifyCall, Claim, At
  <2>5. ASSUME NEW t \in Threads, ~terminated, Cancel(t) PROVE Alone'
    BY <2>5 DEF Cancel
  <2>6. ASSUME NEW t \in Threads, ~terminated, Destroy(t) PROVE Alone'
    BY <2>6 DEF Destroy
  <2>7. ASSUME NEW t \in Threads, ~terminated, TakeTask(t) PROVE Alone'
    BY <2>7 DEF TakeTask, LockLoads, Enters
  <2>8. ASSUME NEW t \in Threads, ~terminated, Locks(t) PROVE Alone'
    <3>1. /\ pc[t] = "lock" /\ npc' = npc /\ destroyed' = destroyed
          /\ \A u \in Threads : u # t => pc'[u] = pc[u] /\ token'[u] = token[u]
          /\ pc'[t] \in {"lock", "count", "idle"}
          /\ pc'[t] = "count" => token'[t]
      BY <2>8 DEF TokenPlaced, Locks, LockSteps, LockTakes, LockRetries, LockFails, Enters
    <3> QED BY <3>1
  <2>9. ASSUME NEW t \in Threads, ~terminated, CountsPerform(t) PROVE Alone'
    BY <2>9 DEF CountsPerform
  <2>10. ASSUME NEW t \in Threads, ~terminated, Accepts(t) PROVE Alone'
    BY <2>10 DEF Accepts
  <2>11. ASSUME NEW t \in Threads, ~terminated, Refuses(t) PROVE Alone'
    BY <2>11 DEF Refuses
  <2>12. ASSUME NEW t \in Threads, ~terminated, CopiesFunc(t) PROVE Alone'
    BY <2>12 DEF CopiesFunc
  <2>13. ASSUME NEW t \in Threads, ~terminated, Runs(t) PROVE Alone'
    BY <2>13 DEF Runs
  <2>14. ASSUME NEW t \in Threads, ~terminated, ReadsFinished(t) PROVE Alone'
    BY <2>14 DEF ReadsFinished
  <2>15. ASSUME NEW t \in Threads, ~terminated, StoresFinished(t) PROVE Alone'
    BY <2>15 DEF StoresFinished
  <2>16. ASSUME NEW t \in Threads, ~terminated, WakesOne(t) PROVE Alone'
    BY <2>16 DEF WakesOne
  <2>17. ASSUME NEW t \in Threads, ~terminated, Fires(t) PROVE Alone'
    BY <2>17 DEF Fires, Win, At
  <2>18. ASSUME NEW t \in Threads, ~terminated, HandlesCallback(t) PROVE Alone'
    BY <2>18 DEF HandlesCallback, Post, Drop, At
  <2>19. ASSUME NEW t \in Threads, ~terminated, FreesCallback(t) PROVE Alone'
    BY <2>19 DEF FreesCallback, Reset, At
  <2>20. ASSUME NEW t \in Threads, ~terminated, NoCallbackSet(t) PROVE Alone'
    BY <2>20 DEF NoCallbackSet
  <2>21. ASSUME NEW t \in Threads, ~terminated, Returns(t) PROVE Alone'
    BY <2>21 DEF Returns
  <2>22. ASSUME NEW t \in Threads, ~terminated, Releases(t) PROVE Alone'
    BY <2>22 DEF Releases, Release, Enters
  <2>23. ASSUME NEW t \in Threads, ~terminated, Signals(t) PROVE Alone'
    BY <2>23 DEF Signals, Signal, Enters
  <2>24. ASSUME NEW t \in Threads, ~terminated, ReadsCount(t) PROVE Alone'
    BY <2>24 DEF ReadsCount
  <2>25. ASSUME NEW t \in Threads, ~terminated, Sleeps(t) PROVE Alone'
    BY <2>25 DEF Sleeps
  <2>26. ASSUME NEW t \in Threads, ~terminated, SeesFinished(t) PROVE Alone'
    BY <2>26 DEF SeesFinished
  <2>27. ASSUME NEW t \in Threads, ~terminated, SetsCallback(t) PROVE Alone'
    BY <2>27 DEF SetsCallback, Fill, At
  <2>28. ASSUME NEW t \in Threads, ~terminated, NotifyReturns(t) PROVE Alone'
    BY <2>28 DEF NotifyReturns, Publish, At
  <2>29. ASSUME NEW t \in Threads, ~terminated, Cancels(t) PROVE Alone'
    BY <2>29 DEF Cancels
  <2>30. ASSUME NEW t \in Threads, ~terminated, Disposes(t) PROVE Alone'
    BY <2>30 DEF Disposes, JoinReleases, Enters
  <2>31. ASSUME NEW t \in Threads, ~terminated, Joins(t) PROVE Alone'
    <3>1. /\ pc[t] = "join" /\ npc' = npc /\ token' = token
          /\ pc' = [pc EXCEPT ![t] = IF destroyed' THEN "gone" ELSE "join"]
      BY <2>31 DEF TokenPlaced, Joins, JoinSteps, JoinSignals, JoinAcquires, Enters
    <3>2. t = Owner /\ pc'[t] \in DestroyLabels
      BY <3>1
    <3> QED BY <3>1, <3>2
  <2>32. ASSUME NEW t \in Threads, ~terminated, TimesOut(t) PROVE Alone'
    BY <2>32 DEF TimesOut
  <2>33. ASSUME NEW t \in Threads, ~terminated, RunsCallback(t) PROVE Alone'
    BY <2>33 DEF RunsCallback, BeginCallback, EndCallback
  <2>34. CASE UNCHANGED vars
    BY <2>34 DEF vars, notifyVars, keepAliveVars, itemVars, locals, ghosts
  <2> QED BY <1>2, <2>1, <2>2, <2>3, <2>4, <2>5, <2>6, <2>7, <2>8, <2>9, <2>10, <2>11,
       <2>12, <2>13, <2>14, <2>15, <2>16, <2>17, <2>18, <2>19, <2>20, <2>21, <2>22,
       <2>23, <2>24, <2>25, <2>26, <2>27, <2>28, <2>29, <2>30, <2>31, <2>32, <2>33,
       <2>34
          DEF Next, Call, Progress, Performs
<1> QED BY <1>1, <1>2

\* wait() and perform() see each other's flag: a second perform was counted before it
\* looks at waited_, and waited_ is set while a thread waits.
Seen == /\ count \in Nat /\ accepted \in Nat
        /\ (\E t \in Threads : pc[t] = "readWaited") => count >= 2
        /\ count <= 1 => accepted <= count
        /\ \A t \in Threads : pc[t] \in WaitLabels => waited
        /\ \A t, u \in Threads : pc[t] \in WaitLabels /\ pc[u] \in WaitLabels => t = u
        /\ \A t \in Threads : pc[t] \in {"sleep", "asleep", "poll"} => accepted <= 1

\* count_ is raised before waited_ is read, and waited_ is set before count_ is read.
LEMMA SeenInductive ==
  /\ Init => Seen
  /\ Seen /\ TokenPlaced /\ [Next]_vars => Seen'
<1> USE DEF Labels, PerformLabels, WaitLabels, DestroyLabels
<1>1. Init => Seen
  BY DEF Init, Seen
<1>2. ASSUME Seen, TokenPlaced, [Next]_vars PROVE Seen'
  <2>0. pc \in [Threads -> Labels]
    BY <1>2 DEF TokenPlaced
  <2> USE <1>2, <2>0 DEF Seen, Goto, MayCall, itemVars, ghosts, locals
  <2>1. ASSUME NEW t \in Threads, ~terminated, Submit(t) PROVE Seen'
    BY <2>1 DEF Submit
  <2>2. ASSUME NEW t \in Threads, ~terminated, Perform(t) PROVE Seen'
    BY <2>2 DEF Perform
  <2>3. ASSUME NEW t \in Threads, ~terminated, Wait(t) PROVE Seen'
    BY <2>3 DEF Wait
  <2>4. ASSUME NEW t \in Threads, ~terminated, NotifyCall(t) PROVE Seen'
    BY <2>4 DEF NotifyCall, Claim, At
  <2>5. ASSUME NEW t \in Threads, ~terminated, Cancel(t) PROVE Seen'
    BY <2>5 DEF Cancel
  <2>6. ASSUME NEW t \in Threads, ~terminated, Destroy(t) PROVE Seen'
    BY <2>6 DEF Destroy
  <2>7. ASSUME NEW t \in Threads, ~terminated, TakeTask(t) PROVE Seen'
    BY <2>7 DEF TakeTask, LockLoads, Enters
  <2>8. ASSUME NEW t \in Threads, ~terminated, Locks(t) PROVE Seen'
    BY <2>8 DEF Locks, LockSteps, LockTakes, LockRetries, LockFails, Enters
  <2>9. ASSUME NEW t \in Threads, ~terminated, CountsPerform(t) PROVE Seen'
    BY <2>9 DEF CountsPerform
  <2>10. ASSUME NEW t \in Threads, ~terminated, Accepts(t) PROVE Seen'
    BY <2>10 DEF Accepts
  <2>11. ASSUME NEW t \in Threads, ~terminated, Refuses(t) PROVE Seen'
    BY <2>11 DEF Refuses
  <2>12. ASSUME NEW t \in Threads, ~terminated, CopiesFunc(t) PROVE Seen'
    BY <2>12 DEF CopiesFunc
  <2>13. ASSUME NEW t \in Threads, ~terminated, Runs(t) PROVE Seen'
    BY <2>13 DEF Runs
  <2>14. ASSUME NEW t \in Threads, ~terminated, ReadsFinished(t) PROVE Seen'
    BY <2>14 DEF ReadsFinished
  <2>15. ASSUME NEW t \in Threads, ~terminated, StoresFinished(t) PROVE Seen'
    BY <2>15 DEF StoresFinished
  <2>16. ASSUME NEW t \in Threads, ~terminated, WakesOne(t) PROVE Seen'
    BY <2>16 DEF WakesOne
  <2>17. ASSUME NEW t \in Threads, ~terminated, Fires(t) PROVE Seen'
    BY <2>17 DEF Fires, Win, At
  <2>18. ASSUME NEW t \in Threads, ~terminated, HandlesCallback(t) PROVE Seen'
    BY <2>18 DEF HandlesCallback, Post, Drop, At
  <2>19. ASSUME NEW t \in Threads, ~terminated, FreesCallback(t) PROVE Seen'
    BY <2>19 DEF FreesCallback, Reset, At
  <2>20. ASSUME NEW t \in Threads, ~terminated, NoCallbackSet(t) PROVE Seen'
    BY <2>20 DEF NoCallbackSet
  <2>21. ASSUME NEW t \in Threads, ~terminated, Returns(t) PROVE Seen'
    BY <2>21 DEF Returns
  <2>22. ASSUME NEW t \in Threads, ~terminated, Releases(t) PROVE Seen'
    BY <2>22 DEF Releases, Release, Enters
  <2>23. ASSUME NEW t \in Threads, ~terminated, Signals(t) PROVE Seen'
    BY <2>23 DEF Signals, Signal, Enters
  <2>24. ASSUME NEW t \in Threads, ~terminated, ReadsCount(t) PROVE Seen'
    BY <2>24 DEF ReadsCount
  <2>25. ASSUME NEW t \in Threads, ~terminated, Sleeps(t) PROVE Seen'
    BY <2>25 DEF Sleeps
  <2>26. ASSUME NEW t \in Threads, ~terminated, SeesFinished(t) PROVE Seen'
    BY <2>26 DEF SeesFinished
  <2>27. ASSUME NEW t \in Threads, ~terminated, SetsCallback(t) PROVE Seen'
    BY <2>27 DEF SetsCallback, Fill, At
  <2>28. ASSUME NEW t \in Threads, ~terminated, NotifyReturns(t) PROVE Seen'
    BY <2>28 DEF NotifyReturns, Publish, At
  <2>29. ASSUME NEW t \in Threads, ~terminated, Cancels(t) PROVE Seen'
    BY <2>29 DEF Cancels
  <2>30. ASSUME NEW t \in Threads, ~terminated, Disposes(t) PROVE Seen'
    BY <2>30 DEF Disposes, JoinReleases, Enters
  <2>31. ASSUME NEW t \in Threads, ~terminated, Joins(t) PROVE Seen'
    BY <2>31 DEF Joins, JoinSteps, JoinSignals, JoinAcquires, Enters
  <2>32. ASSUME NEW t \in Threads, ~terminated, TimesOut(t) PROVE Seen'
    BY <2>32 DEF TimesOut
  <2>33. ASSUME NEW t \in Threads, ~terminated, RunsCallback(t) PROVE Seen'
    BY <2>33 DEF RunsCallback, BeginCallback, EndCallback
  <2>34. CASE UNCHANGED vars
    BY <2>34 DEF vars, notifyVars, keepAliveVars, itemVars, locals, ghosts
  <2> QED BY <1>2, <2>1, <2>2, <2>3, <2>4, <2>5, <2>6, <2>7, <2>8, <2>9, <2>10, <2>11,
       <2>12, <2>13, <2>14, <2>15, <2>16, <2>17, <2>18, <2>19, <2>20, <2>21, <2>22,
       <2>23, <2>24, <2>25, <2>26, <2>27, <2>28, <2>29, <2>30, <2>31, <2>32, <2>33,
       <2>34
          DEF Next, Call, Progress, Performs
<1> QED BY <1>1, <1>2

WorkItemInv == NextInv /\ KeepAliveInv /\ TokenPlaced /\ Alone /\ Seen

\* The inductive invariant of the item.
LEMMA WorkItemInductive == SafeSpec => []WorkItemInv
<1>1. Init => WorkItemInv
  BY UsesNotify, NextInductive, UsesKeepAlive, KeepAliveInductive, TokenPlacedInductive,
     AloneInductive, SeenInductive
     DEF WorkItemInv
<1>2. WorkItemInv /\ [Next]_vars => WorkItemInv'
  BY UsesNotify, NextInductive, UsesKeepAlive, KeepAliveInductive, TokenPlacedInductive,
     AloneInductive, SeenInductive
     DEF WorkItemInv
<1> QED BY <1>1, <1>2, PTL DEF SafeSpec

\* The binary semaphore of a work item is released once, after the last token is gone.
THEOREM ReleasedOnceHere == SafeSpec => []ReleasedOnce
<1>1. WorkItemInv => ReleasedOnce
  BY NoHolder DEF WorkItemInv, KeepAliveInv, OneSignal, Signalling, ReleasedOnce
<1> QED BY <1>1, WorkItemInductive, PTL

\* The weak references in queues and their lock() are safe: once the destructor has gone
\* past the join, nobody is inside the item, and nobody gets inside any more.
THEOREM NobodyStaysInside == SafeSpec => []NobodyInside
<1>1. WorkItemInv => NobodyInside
  <2> SUFFICES ASSUME WorkItemInv, destroyed, NEW t \in Threads
               PROVE  /\ ~token[t] /\ npc[t] = "out"
                      /\ Calling(t) => t = Owner
    BY DEF NobodyInside
  <2>1. ~token[t]
    BY NoHolder DEF WorkItemInv, KeepAliveInv, OneSignal
  <2>2. pc[Owner] = "gone" /\ (Calling(t) => t = Owner)
    BY DEF WorkItemInv, Alone, DestroyLabels
  <2>3. npc[t] = "out"
    BY <2>1, <2>2 DEF WorkItemInv, Alone, Calling
  <2> QED BY <2>1, <2>2, <2>3
<1> QED BY <1>1, WorkItemInductive, PTL

\* "This work item is only executed once while waiting" (DispatchWorkItem.h:91), for any
\* number of threads that perform it and wait for it.
THEOREM WaitsForOnePerform == SafeSpec => []WaitsForOne
<1>1. WorkItemInv => WaitsForOne
  BY DEF WorkItemInv, Seen, WaitsForOne, WaitLabels
<1> QED BY <1>1, WorkItemInductive, PTL
-----------------------------------------------------------------------------
\* Threads on their way to be counted in count_, and those that were and look at waited_
Starting == {t \in Threads : pc[t] \in {"lock", "count"}}
Testing == {t \in Threads : pc[t] = "readWaited"}

\* No perform is counted that was not asked for, or accepted that was not counted.
PerformsCounted == /\ queued \in Nat /\ requested \in Nat /\ count \in Nat /\ accepted \in Nat
                   /\ requested <= MaxPerforms
                   /\ count + queued + Cardinality(Starting) <= requested
                   /\ accepted + Cardinality(Testing) <= count

\* The flags of the item and what a perform remembers
FlagsTyped == /\ waited \in BOOLEAN /\ isFinished \in BOOLEAN /\ func \in BOOLEAN
              /\ copy \in [Threads -> BOOLEAN] /\ success \in [Threads -> BOOLEAN]
              /\ terminated \in BOOLEAN

\* The steps that have nothing to do with the counts
Aside(t) == \/ Wait(t) \/ NotifyCall(t) \/ Cancel(t) \/ Destroy(t)
            \/ CopiesFunc(t) \/ Runs(t) \/ ReadsFinished(t) \/ StoresFinished(t)
            \/ WakesOne(t) \/ Fires(t) \/ HandlesCallback(t) \/ FreesCallback(t)
            \/ NoCallbackSet(t) \/ Returns(t) \/ Releases(t) \/ Signals(t) \/ ReadsCount(t)
            \/ Sleeps(t) \/ SeesFinished(t) \/ SetsCallback(t) \/ NotifyReturns(t)
            \/ Cancels(t) \/ Disposes(t) \/ Joins(t) \/ TimesOut(t) \/ RunsCallback(t)

\* They leave the counts and the threads that wait to be counted alone.
LEMMA AsideSteps ==
  ASSUME TokenPlaced, NEW t \in Threads, Aside(t)
  PROVE  /\ UNCHANGED <<count, queued, requested, accepted>>
         /\ Starting' = Starting /\ Testing' = Testing
<1>1. UNCHANGED <<count, queued, requested, accepted>>
  BY DEF Aside, Wait, NotifyCall, Cancel, Destroy, CopiesFunc, Runs, ReadsFinished,
         StoresFinished, WakesOne, Fires, HandlesCallback, FreesCallback, NoCallbackSet,
         Returns, Releases, Signals, ReadsCount, Sleeps, SeesFinished, SetsCallback,
         NotifyReturns, Cancels, Disposes, Joins, TimesOut, RunsCallback, itemVars, ghosts
<1>2. pc \in [Threads -> Labels]
  BY DEF TokenPlaced
<1>3. \A u \in Threads : pc'[u] \in {"lock", "count", "readWaited"} \/
                         pc[u] \in {"lock", "count", "readWaited"} => pc'[u] = pc[u]
  <2>1. CASE \/ Wait(t) \/ NotifyCall(t) \/ Cancel(t) \/ Destroy(t) \/ CopiesFunc(t)
             \/ Runs(t) \/ ReadsFinished(t) \/ StoresFinished(t)
    BY <1>2, <2>1 DEF Wait, NotifyCall, Cancel, Destroy, CopiesFunc, Runs, ReadsFinished,
                      StoresFinished, Goto
  <2>2. CASE WakesOne(t)
    BY <1>2, <2>2 DEF WakesOne
  <2>3. CASE \/ Fires(t) \/ HandlesCallback(t) \/ FreesCallback(t) \/ NoCallbackSet(t)
             \/ Returns(t) \/ Releases(t) \/ Signals(t) \/ SetsCallback(t) \/ RunsCallback(t)
    BY <1>2, <2>3 DEF Fires, HandlesCallback, FreesCallback, NoCallbackSet, Returns,
                      Releases, Signals, SetsCallback, RunsCallback, Goto
  <2>4. CASE \/ ReadsCount(t) \/ Sleeps(t) \/ SeesFinished(t) \/ NotifyReturns(t)
             \/ Cancels(t) \/ Disposes(t) \/ TimesOut(t)
    BY <1>2, <2>4 DEF ReadsCount, Sleeps, SeesFinished, NotifyReturns, Cancels, Disposes,
                      TimesOut, Goto
  <2>5. CASE Joins(t)
    <3>1. kpc[t] \in {"joinSignal", "join"}
      BY <2>5 DEF Joins, JoinSteps, JoinSignals, JoinAcquires, Enters
    <3>2. pc[t] = "join"
      BY <3>1 DEF TokenPlaced
    <3> QED BY <1>2, <2>5, <3>2 DEF Joins
  <2> QED BY <2>1, <2>2, <2>3, <2>4, <2>5 DEF Aside
<1>4. \A u \in Threads : (u \in Starting' <=> u \in Starting) /\ (u \in Testing' <=> u \in Testing)
  BY <1>3 DEF Starting, Testing
<1> QED BY <1>1, <1>4 DEF Starting, Testing

\* Performs are counted as they begin, and accepted or refused once they were counted.
LEMMA PerformsInductive ==
  /\ Init => PerformsCounted
  /\ PerformsCounted /\ TokenPlaced /\ [Next]_vars => PerformsCounted'
<1>1. Init => PerformsCounted
  <2> SUFFICES ASSUME Init PROVE PerformsCounted
    OBVIOUS
  <2>1. Starting = {} /\ Testing = {}
    BY DEF Init, Starting, Testing
  <2>2. Cardinality(Starting) = 0 /\ Cardinality(Testing) = 0
    BY <2>1, FS_EmptySet
  <2>3. MaxPerforms \in Nat
    BY WorkItemAssumption DEF WorkItemAssumption
  <2> QED BY <2>2, <2>3 DEF Init, PerformsCounted
<1>2. ASSUME PerformsCounted, TokenPlaced, [Next]_vars PROVE PerformsCounted'
  <2>1. /\ IsFiniteSet(Starting) /\ Cardinality(Starting) \in Nat
        /\ IsFiniteSet(Testing) /\ Cardinality(Testing) \in Nat
    <3>1. Starting \subseteq Threads /\ Testing \subseteq Threads /\ IsFiniteSet(Threads)
      BY KeepAliveAssumption DEF KeepAliveAssumption, Starting, Testing
    <3> QED BY <3>1, FS_Subset, FS_CardinalityType
  <2>2. pc \in [Threads -> Labels] /\ MaxPerforms \in Nat
    BY <1>2, WorkItemAssumption DEF TokenPlaced, WorkItemAssumption
  <2>3. /\ queued \in Nat /\ requested \in Nat /\ count \in Nat /\ accepted \in Nat
        /\ requested <= MaxPerforms
        /\ count + queued + Cardinality(Starting) <= requested
        /\ accepted + Cardinality(Testing) <= count
    BY <1>2 DEF PerformsCounted
  <2>4. ASSUME NEW t \in Threads, Submit(t) PROVE PerformsCounted'
    <3>1. /\ pc' = pc /\ count' = count /\ accepted' = accepted /\ queued' = queued + 1
          /\ requested' = requested + 1 /\ requested < MaxPerforms
      BY <2>4 DEF Submit, itemVars
    <3>2. Starting' = Starting /\ Testing' = Testing
      BY <3>1 DEF Starting, Testing
    <3> QED BY <2>1, <2>2, <2>3, <3>1, <3>2 DEF PerformsCounted
  <2>5. ASSUME NEW t \in Threads, TakeTask(t) \/ Perform(t) PROVE PerformsCounted'
    <3>1. /\ pc[t] = "idle" /\ \E l \in {"lock", "count"} : pc' = [pc EXCEPT ![t] = l]
          /\ count' = count /\ accepted' = accepted
          /\ \/ queued > 0 /\ queued' = queued - 1 /\ requested' = requested
             \/ queued' = queued /\ requested' = requested + 1 /\ requested < MaxPerforms
      BY <2>5 DEF TakeTask, Perform, Goto, itemVars, ghosts
    <3>2. t \notin Starting /\ Starting' = Starting \cup {t} /\ Testing' = Testing
      BY <2>2, <3>1 DEF Starting, Testing
    <3>3. Cardinality(Starting') = Cardinality(Starting) + 1
      BY <2>1, <3>2, FS_AddElement
    <3> QED BY <2>1, <2>2, <2>3, <3>1, <3>2, <3>3 DEF PerformsCounted
  <2>6. ASSUME NEW t \in Threads, Locks(t) PROVE PerformsCounted'
    <3>1. /\ pc[t] = "lock" /\ UNCHANGED <<count, queued, requested, accepted>>
          /\ \E l \in {"lock", "count", "idle"} : pc' = [pc EXCEPT ![t] = l]
      BY <1>2, <2>6 DEF Locks, LockSteps, LockTakes, LockRetries, LockFails, Enters,
                        TokenPlaced, itemVars, ghosts
    <3>2. Starting' \subseteq Starting /\ Testing' = Testing
      BY <2>2, <3>1 DEF Starting, Testing
    <3>3. Cardinality(Starting') <= Cardinality(Starting) /\ Cardinality(Starting') \in Nat
      BY <2>1, <3>2, FS_Subset, FS_CardinalityType
    <3> QED BY <2>1, <2>2, <2>3, <3>1, <3>2, <3>3 DEF PerformsCounted
  <2>7. ASSUME NEW t \in Threads, CountsPerform(t) PROVE PerformsCounted'
    <3>1. /\ pc[t] = "count" /\ count' = count + 1
          /\ UNCHANGED <<queued, requested>>
          /\ pc' = [pc EXCEPT ![t] = IF count > 0 THEN "readWaited" ELSE "copyFunc"]
          /\ accepted' = IF count > 0 THEN accepted ELSE accepted + 1
      BY <2>7 DEF CountsPerform, Goto
    <3>2. t \in Starting /\ Starting' = Starting \ {t} /\ t \notin Testing
      BY <2>2, <3>1 DEF Starting, Testing
    <3>3. Cardinality(Starting') = Cardinality(Starting) - 1
      BY <2>1, <3>2, FS_RemoveElement
    <3>4. CASE count > 0
      <4>1. Testing' = Testing \cup {t}
        BY <2>2, <3>1, <3>4 DEF Testing
      <4>2. Cardinality(Testing') = Cardinality(Testing) + 1
        BY <2>1, <3>2, <4>1, FS_AddElement
      <4> QED BY <2>1, <2>2, <2>3, <3>1, <3>3, <3>4, <4>2 DEF PerformsCounted
    <3>5. CASE ~(count > 0)
      <4>1. Testing' = Testing
        BY <2>2, <3>1, <3>5 DEF Testing
      <4> QED BY <2>1, <2>2, <2>3, <3>1, <3>3, <3>5, <4>1 DEF PerformsCounted
    <3> QED BY <3>4, <3>5
  <2>8. ASSUME NEW t \in Threads, Accepts(t) \/ Refuses(t) PROVE PerformsCounted'
    <3>1. /\ pc[t] = "readWaited" /\ UNCHANGED <<count, queued, requested>>
          /\ \E l \in {"copyFunc", "idle"} : pc' = [pc EXCEPT ![t] = l]
          /\ accepted' = accepted \/ accepted' = accepted + 1
      BY <2>8 DEF Accepts, Refuses, Goto, itemVars
    <3>2. Starting' = Starting /\ t \in Testing /\ Testing' = Testing \ {t}
      BY <2>2, <3>1 DEF Starting, Testing
    <3>3. Cardinality(Testing') = Cardinality(Testing) - 1
      BY <2>1, <3>2, FS_RemoveElement
    <3> QED BY <2>1, <2>2, <2>3, <3>1, <3>2, <3>3 DEF PerformsCounted
  <2>9. ASSUME NEW t \in Threads, Aside(t) PROVE PerformsCounted'
    BY <1>2, <2>9, AsideSteps DEF PerformsCounted
  <2>10. CASE UNCHANGED vars
    BY <1>2, <2>10 DEF vars, itemVars, ghosts, PerformsCounted, Starting, Testing
  <2> QED BY <1>2, <2>4, <2>5, <2>6, <2>7, <2>8, <2>9, <2>10
       DEF Next, Call, Progress, Performs, Aside
<1> QED BY <1>1, <1>2

\* Flags stay flags.
LEMMA FlagsInductive ==
  /\ Init => FlagsTyped
  /\ FlagsTyped /\ KeepAliveInv /\ [Next]_vars => FlagsTyped'
<1>1. Init => FlagsTyped
  BY DEF Init, FlagsTyped
<1>2. ASSUME FlagsTyped, KeepAliveInv, [Next]_vars PROVE FlagsTyped'
  <2>1. /\ waited \in BOOLEAN /\ isFinished \in BOOLEAN /\ func \in BOOLEAN
        /\ copy \in [Threads -> BOOLEAN] /\ success \in [Threads -> BOOLEAN]
        /\ terminated \in BOOLEAN /\ token \in [Threads -> BOOLEAN]
    BY <1>2 DEF FlagsTyped, KeepAliveInv, KeepAliveTypeOK
  <2> USE DEF FlagsTyped, itemVars, locals, ghosts
  <2>2. ASSUME NEW t \in Threads, Refuses(t) PROVE FlagsTyped'
    <3>1. terminated' \in BOOLEAN
      BY <2>1, <2>2 DEF Refuses
    <3> QED BY <2>1, <2>2, <3>1 DEF Refuses
  <2>3. ASSUME NEW t \in Threads, CopiesFunc(t) PROVE FlagsTyped'
    <3>1. copy' \in [Threads -> BOOLEAN]
      BY <2>1, <2>3 DEF CopiesFunc
    <3> QED BY <2>1, <2>3, <3>1 DEF CopiesFunc
  <2>4. ASSUME NEW t \in Threads, Runs(t) PROVE FlagsTyped'
    <3>1. copy' \in [Threads -> BOOLEAN] /\ success' \in [Threads -> BOOLEAN]
      BY <2>1, <2>4 DEF Runs
    <3> QED BY <2>1, <2>4, <3>1 DEF Runs
  <2>5. ASSUME NEW t \in Threads, FreesCallback(t) \/ NoCallbackSet(t) PROVE FlagsTyped'
    <3>1. success' \in [Threads -> BOOLEAN]
      BY <2>1, <2>5 DEF FreesCallback, NoCallbackSet
    <3> QED BY <2>1, <2>5, <3>1 DEF FreesCallback, NoCallbackSet
  <2>6. ASSUME NEW t \in Threads,
               \/ Wait(t) \/ TimesOut(t) \/ StoresFinished(t) \/ Cancels(t) \/ Disposes(t)
        PROVE  FlagsTyped'
    BY <2>1, <2>6 DEF Wait, TimesOut, StoresFinished, Cancels, Disposes
  <2>7. ASSUME NEW t \in Threads,
               \/ Submit(t) \/ Perform(t) \/ NotifyCall(t) \/ Cancel(t) \/ Destroy(t)
               \/ TakeTask(t) \/ Locks(t) \/ CountsPerform(t) \/ Accepts(t) \/ ReadsFinished(t)
               \/ WakesOne(t) \/ Fires(t) \/ HandlesCallback(t) \/ Returns(t) \/ Releases(t)
               \/ Signals(t) \/ ReadsCount(t) \/ Sleeps(t) \/ SeesFinished(t)
               \/ SetsCallback(t) \/ NotifyReturns(t) \/ Joins(t) \/ RunsCallback(t)
        PROVE  FlagsTyped'
    BY <2>1, <2>7 DEF Submit, Perform, NotifyCall, Cancel, Destroy, TakeTask, Locks,
         CountsPerform, Accepts, ReadsFinished, WakesOne, Fires, HandlesCallback, Returns,
         Releases, Signals, ReadsCount, Sleeps, SeesFinished, SetsCallback, NotifyReturns,
         Joins, RunsCallback
  <2>8. CASE UNCHANGED vars
    BY <2>1, <2>8 DEF vars
  <2> QED BY <1>2, <2>2, <2>3, <2>4, <2>5, <2>6, <2>7, <2>8 DEF Next, Call, Progress,
             Performs
<1> QED BY <1>1, <1>2

\* Every reachable state is well typed: no more performs are counted than were asked for,
\* and none is accepted that was not counted.
THEOREM TypeCorrect == SafeSpec => []TypeOK
<1>1. Init => PerformsCounted /\ FlagsTyped
  BY PerformsInductive, FlagsInductive
<1>2. WorkItemInv /\ PerformsCounted /\ FlagsTyped /\ [Next]_vars =>
        PerformsCounted' /\ FlagsTyped'
  BY PerformsInductive, FlagsInductive DEF WorkItemInv
<1>3. WorkItemInv /\ PerformsCounted /\ FlagsTyped => TypeOK
  <2> SUFFICES ASSUME WorkItemInv, PerformsCounted, FlagsTyped PROVE TypeOK
    OBVIOUS
  <2>1. Cardinality(Starting) \in Nat /\ Cardinality(Testing) \in Nat
    <3>1. Starting \subseteq Threads /\ Testing \subseteq Threads /\ IsFiniteSet(Threads)
      BY KeepAliveAssumption DEF KeepAliveAssumption, Starting, Testing
    <3> QED BY <3>1, FS_Subset, FS_CardinalityType
  <2>2. /\ count \in 0..MaxPerforms /\ queued \in 0..MaxPerforms
        /\ requested \in 0..MaxPerforms /\ accepted \in 0..requested
    BY <2>1, WorkItemAssumption DEF PerformsCounted, WorkItemAssumption
  <2> QED BY <2>2 DEF TypeOK, FlagsTyped, WorkItemInv, NextInv, KeepAliveInv, TokenPlaced
<1> QED BY <1>1, <1>2, <1>3, WorkItemInductive, PTL DEF SafeSpec
=============================================================================
