--------------------------- MODULE ExecutorProofs ---------------------------
(***************************************************************************)
(* Executor for any number of clients, workers and adds and every size of  *)
(* the pool: what threadListLock_ keeps in step, that every thread is      *)
(* joined once, and that the guess of addWithPriority() whether a thread   *)
(* was free leaves no reference without one.  The lemmas have one step per *)
(* action of Executor.                                                     *)
(***************************************************************************)
EXTENDS Executor, FiniteSetTheorems, TLAPS

WorkLabels == {"none", "poisoned", "body", "check", "stopLock", "again"} \cup Looking

\* Each kind of thread is where only it can be.
Placed == /\ \A c \in Clients : pc[c] \in {"idle"} \cup Adding
          /\ \A w \in Workers : pc[w] \in WorkLabels
          /\ pc[Owner] \in {"idle", "close", "join", "done"}

\* threadList_ holds the threads that run, and none of them waits to be joined.
Members == threadList = {w \in Workers : pc[w] # "none"} /\ threadList \cap stopped = {}

\* threadListLock_ is held while a thread is started, and by a thread that is about to
\* leave.
Locked == \A t \in Threads : lock = t <=> pc[t] \in {"count", "sizeCheck"}

\* Only who is joining has promised to.
Promised == \A t \in Threads : pc[t] # "join" => joins[t] = 0

\* stop() comes after the last addWithPriority().
Phase == /\ maxThreads = 0 <=> pc[Owner] \in {"join", "done"}
         /\ maxThreads = 0 => /\ lock = Nobody /\ activeThreads = 0
                              /\ \A c \in Clients : pc[c] = "idle"

\* One thread of the pool is not counted while threadListLock_ is held.
Pool == maxThreads > 0 =>
          /\ activeThreads + (IF lock = Nobody THEN 0 ELSE 1) = Cardinality(threadList)
          /\ Cardinality(threadList) <= maxThreads

\* Every call of addWithPriority() may have one thread object.
Pending == {c \in Clients : pc[c] \in Adding \ {"count"}}
Room == maxThreads > 0 =>
          /\ Cardinality(threadList) + Cardinality(stopped) + Cardinality(Pending)
               <= writeCount
          /\ writeCount <= MaxAdds

\* readCount_ is at least the number of workers that will subtract from it.
Counting == {w \in Workers : pc[w] \in {"look", "lookLow", "acquire", "uncount"}}
Readers == Cardinality(Counting) <= readCount

IInv == /\ TypeOK /\ Placed /\ Members /\ Locked /\ Promised /\ Phase
        /\ Pool /\ Room /\ Readers /\ EveryThreadJoined

\* Workers and clients are apart and finitely many.
LEMMA ThreadsApart ==
  /\ IsFiniteSet(Threads) /\ IsFiniteSet(Clients) /\ IsFiniteSet(Workers)
  /\ Clients \cap Workers = {} /\ Owner \notin Clients /\ Owner \notin Workers
  /\ Nobody \notin Threads /\ 0 \notin PoolSizes /\ PoolSizes \subseteq Nat
  /\ Cardinality(Workers) \in Nat /\ MaxAdds \in Nat /\ MaxAdds <= Cardinality(Workers)
<1>1. IsFiniteSet({Owner}) /\ IsFiniteSet(Clients) /\ IsFiniteSet(Workers)
  BY FS_Singleton, ExecutorAssumption DEF ExecutorAssumption
<1>2. IsFiniteSet(Threads)
  BY <1>1, FS_Union DEF Threads
<1>3. Cardinality(Workers) \in Nat
  BY <1>1, FS_CardinalityType
<1> QED BY <1>1, <1>2, <1>3, ExecutorAssumption DEF ExecutorAssumption, Threads

\* What one element more or less does to the size of a set
LEMMA OneMore ==
  ASSUME NEW S, IsFiniteSet(S), NEW x
  PROVE  /\ Cardinality(S) \in Nat
         /\ x \notin S => Cardinality(S \cup {x}) = Cardinality(S) + 1
         /\ x \in S => Cardinality(S \ {x}) = Cardinality(S) - 1 /\ Cardinality(S) >= 1
         /\ \A R \in SUBSET S : Cardinality(R) \in Nat /\ Cardinality(R) <= Cardinality(S)
<1>1. Cardinality(S) \in Nat
  BY FS_CardinalityType
<1>2. x \notin S => Cardinality(S \cup {x}) = Cardinality(S) + 1
  BY FS_AddElement
<1>3. ASSUME x \in S PROVE Cardinality(S \ {x}) = Cardinality(S) - 1 /\ Cardinality(S) >= 1
  <2>1. Cardinality(S \ {x}) = Cardinality(S) - 1 /\ IsFiniteSet(S \ {x})
    BY <1>3, FS_RemoveElement
  <2>2. Cardinality(S \ {x}) \in Nat
    BY <2>1, FS_CardinalityType
  <2> QED BY <1>1, <2>1, <2>2
<1>4. \A R \in SUBSET S : Cardinality(R) \in Nat /\ Cardinality(R) <= Cardinality(S)
  BY FS_Subset, FS_CardinalityType
<1> QED BY <1>1, <1>2, <1>3, <1>4

\* The sizes of the sets the invariant counts
LEMMA Sizes ==
  ASSUME IInv
  PROVE  /\ IsFiniteSet(threadList) /\ Cardinality(threadList) \in Nat
         /\ IsFiniteSet(stopped) /\ Cardinality(stopped) \in Nat
         /\ IsFiniteSet(Pending) /\ Cardinality(Pending) \in Nat
         /\ IsFiniteSet(Counting) /\ Cardinality(Counting) \in Nat
<1>1. /\ threadList \subseteq Workers /\ stopped \subseteq Workers
      /\ Pending \subseteq Clients /\ Counting \subseteq Workers
  BY DEF IInv, TypeOK, Pending, Counting
<1>2. /\ IsFiniteSet(threadList) /\ IsFiniteSet(stopped)
      /\ IsFiniteSet(Pending) /\ IsFiniteSet(Counting)
  BY <1>1, ThreadsApart, FS_Subset
<1> QED BY <1>1, <1>2, FS_CardinalityType

\* There is a thread object for every thread that is started.
LEMMA NewThreadIsFree ==
  ASSUME IInv, NEW t \in Threads, StartThread(t)
  PROVE  NewThread \in Workers /\ pc[NewThread] = "none" /\ NewThread \notin stopped
<1>1. maxThreads > 0 /\ t \in Pending
  BY ThreadsApart DEF IInv, TypeOK, Placed, StartThread, Pending, Adding, WorkLabels,
     Looking, Threads
<1>2. Cardinality(threadList) + Cardinality(stopped) + 1 <= Cardinality(Workers)
  <2>1. Cardinality(Pending) >= 1
    BY <1>1, Sizes, OneMore
  <2>2. Cardinality(threadList) + Cardinality(stopped) + Cardinality(Pending) <= writeCount
    BY <1>1 DEF IInv, Room
  <2>3. writeCount \in Nat /\ writeCount <= MaxAdds
    BY <1>1 DEF IInv, Room, TypeOK
  <2> QED BY <2>1, <2>2, <2>3, Sizes, ThreadsApart
<1>3. Cardinality(threadList \cup stopped) = Cardinality(threadList) + Cardinality(stopped)
  <2>1. threadList \cap stopped = {} /\ Cardinality({}) = 0
    BY FS_EmptySet DEF IInv, Members
  <2>2. Cardinality(threadList \cup stopped)
          = Cardinality(threadList) + Cardinality(stopped)
              - Cardinality(threadList \cap stopped)
    BY Sizes, FS_Union
  <2> QED BY <2>1, <2>2, Sizes, FS_EmptySet
<1>4. threadList \cup stopped # Workers
  <2>1. \A m, n, k \in Nat : m + n + 1 <= k => m + n # k
    OBVIOUS
  <2> QED BY <1>2, <1>3, <2>1, Sizes, ThreadsApart
<1>5. PICK w \in Workers : w \notin threadList /\ w \notin stopped
  BY <1>4 DEF IInv, TypeOK
<1>6. pc[w] = "none"
  BY <1>5 DEF IInv, Members
<1> QED BY <1>5, <1>6 DEF NewThread

\* readCount_ and activeThreads_ are not decremented below zero.
LEMMA NoUnderflow ==
  ASSUME IInv, NEW t \in Workers
  PROVE  /\ Uncount(t) => readCount >= 1
         /\ TimesOut(t) => activeThreads >= 1 /\ maxThreads > 0
<1>1. ASSUME Uncount(t) PROVE readCount >= 1
  <2>1. t \in Counting
    BY <1>1 DEF Uncount, Goto, Counting
  <2>2. Cardinality(Counting) >= 1
    BY <2>1, Sizes, OneMore
  <2> QED BY <2>2, Sizes DEF IInv, Readers, TypeOK
<1>2. ASSUME TimesOut(t) PROVE activeThreads >= 1 /\ maxThreads > 0
  <2>1. t \in threadList
    BY <1>2 DEF TimesOut, Goto, IInv, Members
  <2>2. Cardinality(threadList) >= 1
    BY <2>1, Sizes, OneMore
  <2>3. maxThreads \in Nat /\ activeThreads \in Nat /\ maxThreads # 0
    BY <1>2, <2>2, ThreadsApart DEF IInv, EveryThreadJoined, TypeOK, TimesOut
  <2> QED BY <1>2, <2>2, <2>3, Sizes DEF IInv, Pool, TimesOut
<1> QED BY <1>1, <1>2

\* Whatever a thread may do
Step(t) == Add(t) \/ Close(t) \/ TimeOut(t) \/ Progress(t)

\* The steps that change the pool or who joins what
PoolStep(t) == \/ TakeJoins(t) \/ JoinOne(t) \/ StartThread(t) \/ CountThread(t)
               \/ Stops(t) \/ TimesOut(t) \/ SizeCheckFails(t) \/ ComesBack(t) \/ StopAll(t)

\* Types and places are preserved.
LEMMA PlacesInductive ==
  ASSUME IInv, NEW t \in Threads, Step(t)
  PROVE  (TypeOK /\ Placed /\ Members /\ Locked /\ Promised /\ Phase)'
<1> DEFINE Goal == (TypeOK /\ Placed /\ Members /\ Locked /\ Promised /\ Phase)'
<1>1. Step(t)
  OBVIOUS
<1>2. Goal
  <2> USE ThreadsApart DEF IInv, TypeOK, Placed, Members, Locked, Promised, Phase, Threads,
        Labels, WorkLabels, Adding, Looking, Goto, Branch, TakeStep, Leave, Closing,
        taskQueues, pool, counts, ghosts
  <2>1. ASSUME Add(t) PROVE Goal
    BY <2>1 DEF Add
  <2>2. ASSUME Close(t) PROVE Goal
    BY <2>2 DEF Close
  <2>3. ASSUME TimeOut(t) PROVE Goal
    BY <2>3 DEF TimeOut
  <2>4. ASSUME Push(t), t \in Clients PROVE Goal
    BY <2>4 DEF Push
  <2>5. ASSUME Release(t), t \in Clients PROVE Goal
    BY <2>5 DEF Release
  <2>6. ASSUME Guess(t), t \in Clients PROVE Goal
    BY <2>6 DEF Guess
  <2>7. ASSUME ReadsToJoin(t), t \in Clients PROVE Goal
    BY <2>7 DEF ReadsToJoin
  <2>8. ASSUME TakeJoins(t), t \in Clients PROVE Goal
    BY <2>8 DEF TakeJoins
  <2>9. ASSUME ReadsActive(t), t \in Clients PROVE Goal
    BY <2>9 DEF ReadsActive
  <2>10. ASSUME EnoughThreads(t), t \in Clients PROVE Goal
    BY <2>10 DEF EnoughThreads
  <2>11. ASSUME StartThread(t), t \in Clients PROVE Goal
    <3>1. NewThread \in Workers /\ pc[NewThread] = "none" /\ NewThread \notin stopped
      BY <2>11, NewThreadIsFree
    <3>2. \A u \in Threads :
            pc'[u] = IF u = t THEN "count" ELSE IF u = NewThread THEN "take" ELSE pc[u]
      BY <2>11, <3>1 DEF StartThread
    <3> HIDE DEF NewThread
    <3>3. (TypeOK /\ Placed /\ Promised /\ Phase)'
      BY <2>11, <3>1, <3>2 DEF StartThread
    <3>4. Members'
      BY <2>11, <3>1, <3>2 DEF StartThread
    <3>5. Locked'
      BY <2>11, <3>1, <3>2 DEF StartThread
    <3> QED BY <3>3, <3>4, <3>5
  <2>12. ASSUME StartFails(t), t \in Clients PROVE Goal
    BY <2>12 DEF StartFails
  <2>13. ASSUME CountThread(t), t \in Clients PROVE Goal
    BY <2>13 DEF CountThread
  <2>14. ASSUME JoinOne(t), t \in Clients \cup {Owner} PROVE Goal
    BY <2>14 DEF JoinOne
  <2>15. ASSUME AllJoined(t), t \in Clients \cup {Owner} PROVE Goal
    BY <2>15 DEF AllJoined
  <2>16. ASSUME Take(t), t \in Workers PROVE Goal
    BY <2>16 DEF Take
  <2>17. ASSUME FindRef(t), t \in Workers PROVE Goal
    BY <2>17 DEF FindRef
  <2>18. ASSUME FindNoRef(t), t \in Workers PROVE Goal
    BY <2>18 DEF FindNoRef
  <2>19. ASSUME FindPoison(t), t \in Workers PROVE Goal
    BY <2>19 DEF FindPoison
  <2>20. ASSUME FindNothing(t), t \in Workers PROVE Goal
    BY <2>20 DEF FindNothing
  <2>21. ASSUME Acquire(t), t \in Workers PROVE Goal
    BY <2>21 DEF Acquire
  <2>22. ASSUME Uncount(t), t \in Workers PROVE Goal
    <3>1. readCount >= 1 /\ readCount \in Nat
      BY <2>22, NoUnderflow
    <3>2. readCount - 1 \in Nat
      BY <3>1
    <3> QED BY <2>22, <3>2 DEF Uncount
  <2>23. ASSUME LastChance(t), t \in Workers PROVE Goal
    BY <2>23 DEF LastChance
  <2>24. ASSUME Recount(t), t \in Workers PROVE Goal
    BY <2>24 DEF Recount
  <2>25. ASSUME FinishBody(t), t \in Workers PROVE Goal
    BY <2>25 DEF FinishBody
  <2>26. ASSUME CheckStop(t), t \in Workers PROVE Goal
    BY <2>26 DEF CheckStop
  <2>27. ASSUME SerialGoesOn(t), t \in Workers PROVE Goal
    BY <2>27 DEF SerialGoesOn
  <2>28. ASSUME SerialEnds(t), t \in Workers PROVE Goal
    BY <2>28 DEF SerialEnds
  <2>29. ASSUME Stops(t), t \in Workers PROVE Goal
    BY <2>29 DEF Stops
  <2>30. ASSUME TimesOut(t), t \in Workers PROVE Goal
    <3>1. activeThreads >= 1 /\ activeThreads \in Nat /\ maxThreads > 0
      BY <2>30, NoUnderflow
    <3>2. activeThreads - 1 \in Nat
      BY <3>1
    <3> QED BY <2>30, <3>1, <3>2 DEF TimesOut
  <2>31. ASSUME SizeCheckFails(t), t \in Workers PROVE Goal
    BY <2>31 DEF SizeCheckFails
  <2>32. ASSUME ComesBack(t), t \in Workers PROVE Goal
    BY <2>32 DEF ComesBack
  <2>33. ASSUME StopAll(t), t = Owner PROVE Goal
    <3> DEFINE n == Cardinality(threadList)
    <3>1. n \in Nat
      BY Sizes
    <3>2. /\ threadsToStop + n \in Nat /\ poison + n \in Nat /\ sem + n \in Nat
          /\ writeCount + n \in Nat /\ n + threadsToJoin \in Nat
      BY <3>1
    <3> HIDE DEF n
    <3>3. /\ threadsToStop' = threadsToStop + n
          /\ poison' = poison + n /\ sem' = sem + n /\ writeCount' = writeCount + n
          /\ joins' = [joins EXCEPT ![t] = n + threadsToJoin]
      BY <2>33 DEF StopAll, n
    <3>4. (TypeOK /\ Placed)'
      BY <2>33, <3>2, <3>3 DEF StopAll
    <3> QED BY <2>33, <3>3, <3>4 DEF StopAll
  <2> QED BY <1>1, <2>1, <2>2, <2>3, <2>4, <2>5, <2>6, <2>7, <2>8, <2>9, <2>10, <2>11,
                <2>12, <2>13, <2>14, <2>15, <2>16, <2>17, <2>18, <2>19, <2>20, <2>21,
                <2>22, <2>23, <2>24, <2>25, <2>26, <2>27, <2>28, <2>29, <2>30, <2>31,
                <2>32, <2>33 DEF Step, Progress, AddStep, JoinStep, WorkStep
<1> QED BY <1>2

\* What a step does not change
LEMMA Frames ==
  ASSUME IInv, NEW t \in Threads, Step(t)
  PROVE  /\ Add(t) \/ Pending' \subseteq Pending
         /\ Add(t) \/ StopAll(t) \/ writeCount' = writeCount
         /\ Take(t) \/ Recount(t) \/ Counting' \subseteq Counting
         /\ Take(t) \/ Recount(t) \/ Uncount(t) \/ readCount' = readCount
         /\ PoolStep(t) \/ UNCHANGED <<lock, threadList, stopped, counts, joins>>
         /\ StopAll(t) \/ (UNCHANGED maxThreads /\ (poison = 0 => poison' = 0))
<1> DEFINE Goal == /\ Add(t) \/ Pending' \subseteq Pending
                   /\ Add(t) \/ StopAll(t) \/ writeCount' = writeCount
                   /\ Take(t) \/ Recount(t) \/ Counting' \subseteq Counting
                   /\ Take(t) \/ Recount(t) \/ Uncount(t) \/ readCount' = readCount
                   /\ PoolStep(t) \/ UNCHANGED <<lock, threadList, stopped, counts, joins>>
                   /\ StopAll(t) \/ (UNCHANGED maxThreads /\ (poison = 0 => poison' = 0))
<1>1. Step(t)
  OBVIOUS
<1>2. Goal
  <2> USE ThreadsApart DEF IInv, TypeOK, Placed, Pending, Counting, PoolStep, Threads,
        WorkLabels, Adding, Looking, Goto, Branch, TakeStep, Leave,
        taskQueues, pool, counts, ghosts
  <2>1. ASSUME Add(t) PROVE Goal
    BY <2>1 DEF Add
  <2>2. ASSUME Close(t) PROVE Goal
    BY <2>2 DEF Close
  <2>3. ASSUME TimeOut(t) PROVE Goal
    BY <2>3 DEF TimeOut
  <2>4. ASSUME Push(t), t \in Clients PROVE Goal
    BY <2>4 DEF Push
  <2>5. ASSUME Release(t), t \in Clients PROVE Goal
    BY <2>5 DEF Release
  <2>6. ASSUME Guess(t), t \in Clients PROVE Goal
    BY <2>6 DEF Guess
  <2>7. ASSUME ReadsToJoin(t), t \in Clients PROVE Goal
    BY <2>7 DEF ReadsToJoin
  <2>8. ASSUME TakeJoins(t), t \in Clients PROVE Goal
    BY <2>8 DEF TakeJoins
  <2>9. ASSUME ReadsActive(t), t \in Clients PROVE Goal
    BY <2>9 DEF ReadsActive
  <2>10. ASSUME EnoughThreads(t), t \in Clients PROVE Goal
    BY <2>10 DEF EnoughThreads
  <2>11. ASSUME StartThread(t), t \in Clients PROVE Goal
    <3>1. NewThread \in Workers /\ pc[NewThread] = "none" /\ NewThread \notin stopped
      BY <2>11, NewThreadIsFree
    <3>2. \A u \in Threads :
            pc'[u] = IF u = t THEN "count" ELSE IF u = NewThread THEN "take" ELSE pc[u]
      BY <2>11, <3>1 DEF StartThread
    <3> HIDE DEF NewThread
    <3> QED BY <2>11, <3>1, <3>2 DEF StartThread
  <2>12. ASSUME StartFails(t), t \in Clients PROVE Goal
    BY <2>12 DEF StartFails
  <2>13. ASSUME CountThread(t), t \in Clients PROVE Goal
    BY <2>13 DEF CountThread
  <2>14. ASSUME JoinOne(t), t \in Clients \cup {Owner} PROVE Goal
    BY <2>14 DEF JoinOne
  <2>15. ASSUME AllJoined(t), t \in Clients \cup {Owner} PROVE Goal
    BY <2>15 DEF AllJoined
  <2>16. ASSUME Take(t), t \in Workers PROVE Goal
    BY <2>16 DEF Take
  <2>17. ASSUME FindRef(t), t \in Workers PROVE Goal
    BY <2>17 DEF FindRef
  <2>18. ASSUME FindNoRef(t), t \in Workers PROVE Goal
    BY <2>18 DEF FindNoRef
  <2>19. ASSUME FindPoison(t), t \in Workers PROVE Goal
    BY <2>19 DEF FindPoison
  <2>20. ASSUME FindNothing(t), t \in Workers PROVE Goal
    BY <2>20 DEF FindNothing
  <2>21. ASSUME Acquire(t), t \in Workers PROVE Goal
    BY <2>21 DEF Acquire
  <2>22. ASSUME Uncount(t), t \in Workers PROVE Goal
    BY <2>22 DEF Uncount
  <2>23. ASSUME LastChance(t), t \in Workers PROVE Goal
    BY <2>23 DEF LastChance
  <2>24. ASSUME Recount(t), t \in Workers PROVE Goal
    BY <2>24 DEF Recount
  <2>25. ASSUME FinishBody(t), t \in Workers PROVE Goal
    BY <2>25 DEF FinishBody
  <2>26. ASSUME CheckStop(t), t \in Workers PROVE Goal
    BY <2>26 DEF CheckStop
  <2>27. ASSUME SerialGoesOn(t), t \in Workers PROVE Goal
    BY <2>27 DEF SerialGoesOn
  <2>28. ASSUME SerialEnds(t), t \in Workers PROVE Goal
    BY <2>28 DEF SerialEnds
  <2>29. ASSUME Stops(t), t \in Workers PROVE Goal
    BY <2>29 DEF Stops
  <2>30. ASSUME TimesOut(t), t \in Workers PROVE Goal
    BY <2>30 DEF TimesOut
  <2>31. ASSUME SizeCheckFails(t), t \in Workers PROVE Goal
    BY <2>31 DEF SizeCheckFails
  <2>32. ASSUME ComesBack(t), t \in Workers PROVE Goal
    BY <2>32 DEF ComesBack
  <2>33. ASSUME StopAll(t), t = Owner PROVE Goal
    <3>1. \A u \in Threads \ {Owner} : pc'[u] = pc[u]
      BY <2>33 DEF StopAll
    <3>2. Pending' \subseteq Pending /\ Counting' \subseteq Counting
      BY <3>1
    <3>3. readCount' = readCount
      BY <2>33 DEF StopAll
    <3> QED BY <2>33, <3>2, <3>3
  <2> QED BY <1>1, <2>1, <2>2, <2>3, <2>4, <2>5, <2>6, <2>7, <2>8, <2>9, <2>10, <2>11,
                <2>12, <2>13, <2>14, <2>15, <2>16, <2>17, <2>18, <2>19, <2>20, <2>21,
                <2>22, <2>23, <2>24, <2>25, <2>26, <2>27, <2>28, <2>29, <2>30, <2>31,
                <2>32, <2>33 DEF Step, Progress, AddStep, JoinStep, WorkStep
<1> QED BY <1>2

\* readCount_ covers the workers that will subtract from it.
LEMMA ReadersInductive ==
  ASSUME IInv, NEW t \in Threads, Step(t)
  PROVE  Readers'
<1>1. /\ Cardinality(Counting) \in Nat /\ readCount \in Nat
      /\ Cardinality(Counting) <= readCount
  BY Sizes DEF IInv, Readers, TypeOK
<1>2. CASE Take(t) \/ Recount(t)
  <2>1. t \in Workers /\ t \notin Counting /\ readCount' = readCount + 1
    BY <1>2, ThreadsApart
       DEF IInv, TypeOK, Placed, Threads, Adding, Counting, Take, Recount, Goto
  <2>2. Counting' = Counting \cup {t}
    <3>1. \A u \in Workers : pc'[u] = IF u = t THEN "look" ELSE pc[u]
      BY <1>2 DEF Take, Recount, Goto, IInv, TypeOK, Threads
    <3> QED BY <2>1, <3>1 DEF Counting
  <2>3. Cardinality(Counting') = Cardinality(Counting) + 1
    BY <2>1, <2>2, Sizes, OneMore
  <2> QED BY <1>1, <2>1, <2>3 DEF Readers
<1>3. CASE Uncount(t)
  <2>1. t \in Workers /\ t \in Counting /\ readCount' = readCount - 1
    BY <1>3, ThreadsApart
       DEF IInv, TypeOK, Placed, Threads, Adding, Counting, Uncount, Goto
  <2>2. Counting' = Counting \ {t}
    BY <1>3, <2>1 DEF Counting, Uncount, Goto, IInv, TypeOK
  <2>3. Cardinality(Counting') = Cardinality(Counting) - 1
    BY <2>1, <2>2, Sizes, OneMore
  <2> QED BY <1>1, <2>1, <2>3 DEF Readers
<1>4. CASE ~Take(t) /\ ~Recount(t) /\ ~Uncount(t)
  <2>1. Counting' \subseteq Counting /\ readCount' = readCount
    BY <1>4, Frames
  <2>2. Cardinality(Counting') \in Nat /\ Cardinality(Counting') <= Cardinality(Counting)
    BY <2>1, Sizes, OneMore
  <2> QED BY <1>1, <2>1, <2>2 DEF Readers
<1> QED BY <1>2, <1>3, <1>4

\* What a step does to the pool and to the threads that wait to be joined
LEMMA Moves ==
  ASSUME IInv, NEW t \in Threads, Step(t)
  PROVE  /\ Cardinality(threadList)' \in Nat /\ Cardinality(stopped)' \in Nat
         /\ \/ /\ StartThread(t)
               /\ Cardinality(threadList)' = Cardinality(threadList) + 1
               /\ Cardinality(stopped)' = Cardinality(stopped)
            \/ /\ Stops(t) \/ SizeCheckFails(t)
               /\ Cardinality(threadList)' = Cardinality(threadList) - 1
               /\ Cardinality(stopped)' = Cardinality(stopped) + 1
            \/ /\ JoinOne(t)
               /\ Cardinality(threadList)' = Cardinality(threadList)
               /\ Cardinality(stopped)' = Cardinality(stopped) - 1
            \/ /\ ~StartThread(t) /\ ~Stops(t) /\ ~SizeCheckFails(t) /\ ~JoinOne(t)
               /\ Cardinality(threadList)' = Cardinality(threadList)
               /\ Cardinality(stopped)' = Cardinality(stopped)
<1>1. /\ IsFiniteSet(threadList) /\ Cardinality(threadList) \in Nat
      /\ IsFiniteSet(stopped) /\ Cardinality(stopped) \in Nat
  BY Sizes
<1>2. CASE StartThread(t)
  <2>1. NewThread \notin threadList
    BY <1>2, NewThreadIsFree DEF IInv, Members
  <2>2. threadList' = threadList \cup {NewThread} /\ stopped' = stopped
    BY <1>2 DEF StartThread
  <2>3. Cardinality(threadList') = Cardinality(threadList) + 1
    BY <1>1, <2>1, <2>2, OneMore
  <2> QED BY <1>1, <1>2, <2>2, <2>3
<1>3. CASE Stops(t) \/ SizeCheckFails(t)
  <2>1. t \in threadList /\ t \notin stopped
    BY <1>3, ThreadsApart
       DEF Stops, SizeCheckFails, Leave, Goto, IInv, Members, Placed, Threads, Adding,
           TypeOK
  <2>2. threadList' = threadList \ {t} /\ stopped' = stopped \cup {t}
    BY <1>3 DEF Stops, SizeCheckFails, Leave
  <2>3. /\ Cardinality(threadList') = Cardinality(threadList) - 1
        /\ Cardinality(threadList) >= 1
        /\ Cardinality(stopped') = Cardinality(stopped) + 1
    BY <1>1, <2>1, <2>2, OneMore
  <2> QED BY <1>1, <1>3, <2>3
<1>4. CASE JoinOne(t)
  <2> DEFINE x == CHOOSE w \in stopped : TRUE
  <2>1. x \in stopped /\ stopped' = stopped \ {x} /\ threadList' = threadList
    BY <1>4 DEF JoinOne
  <2> HIDE DEF x
  <2>2. Cardinality(stopped') = Cardinality(stopped) - 1 /\ Cardinality(stopped) >= 1
    BY <1>1, <2>1, OneMore
  <2> QED BY <1>1, <1>4, <2>1, <2>2
<1>5. CASE ~StartThread(t) /\ ~Stops(t) /\ ~SizeCheckFails(t) /\ ~JoinOne(t)
  <2>1. threadList' = threadList /\ stopped' = stopped
    BY <1>5, Frames DEF PoolStep, TakeJoins, CountThread, TimesOut, ComesBack, StopAll
  <2> QED BY <1>1, <1>5, <2>1
<1> QED BY <1>2, <1>3, <1>4, <1>5
\* Every thread that is started was asked for by a call of its own.
LEMMA RoomInductive ==
  ASSUME IInv, NEW t \in Threads, Step(t)
  PROVE  Room'
<1> SUFFICES ASSUME maxThreads' > 0
             PROVE  /\ Cardinality(threadList)' + Cardinality(stopped)'
                         + Cardinality(Pending)' <= writeCount'
                    /\ writeCount' <= MaxAdds
  BY DEF Room
<1>1. ~StopAll(t) /\ maxThreads' = maxThreads
  <2>1. ~StopAll(t)
    BY DEF StopAll
  <2> QED BY <2>1, Frames
<1> DEFINE L == Cardinality(threadList)
           S == Cardinality(stopped)
           P == Cardinality(Pending)
<1>2. /\ L \in Nat /\ S \in Nat /\ P \in Nat /\ writeCount \in Nat
      /\ L + S + P <= writeCount /\ writeCount <= MaxAdds
  BY <1>1, Sizes DEF IInv, TypeOK, Room
<1>3. CASE Add(t)
  <2>1. /\ t \in Clients /\ t \notin Pending
        /\ writeCount < MaxAdds /\ writeCount' = writeCount + 1
    BY <1>3 DEF Add, Goto, Pending, Adding
  <2>2. Pending' = Pending \cup {t}
    <3>1. \A u \in Clients : pc'[u] = IF u = t THEN "push" ELSE pc[u]
      BY <1>3 DEF Add, Goto, IInv, TypeOK, Threads
    <3> QED BY <2>1, <3>1 DEF Pending, Adding
  <2>3. Cardinality(Pending') = P + 1
    BY <2>1, <2>2, Sizes, OneMore
  <2>4. threadList' = threadList /\ stopped' = stopped
    BY <1>3 DEF Add, pool
  <2>5. MaxAdds \in Nat
    BY ThreadsApart
  <2> QED BY <1>2, <2>1, <2>3, <2>4, <2>5
<1>4. CASE StartThread(t)
  <2>1. t \in Clients /\ t \in Pending
    BY <1>4, ThreadsApart
       DEF StartThread, IInv, Placed, WorkLabels, Looking, Pending, Adding, Threads
  <2>2. Pending' \subseteq Pending \ {t}
    <3>1. pc'[t] = "count"
      <4>1. t # NewThread
        BY <1>4, <2>1, ThreadsApart, NewThreadIsFree
      <4> QED BY <1>4, <4>1 DEF StartThread, IInv, TypeOK
    <3>2. ~Add(t)
      BY <1>4 DEF StartThread, Add, Goto
    <3>3. Pending' \subseteq Pending
      BY <3>2, Frames
    <3> QED BY <3>1, <3>3 DEF Pending
  <2>3. Cardinality(Pending') \in Nat /\ Cardinality(Pending') <= P - 1
    <3>1. Cardinality(Pending \ {t}) = P - 1 /\ IsFiniteSet(Pending \ {t})
      BY <2>1, Sizes, OneMore, FS_Subset
    <3> QED BY <2>2, <3>1, OneMore
  <2>4. Cardinality(threadList)' = L + 1 /\ Cardinality(stopped)' = S
    BY <1>4, Moves DEF StartThread, Stops, SizeCheckFails, JoinOne, Leave, Goto
  <2>5. writeCount' = writeCount
    BY <1>4 DEF StartThread, taskQueues
  <2> HIDE DEF L, S, P
  <2> QED BY <1>2, <2>3, <2>4, <2>5
<1>5. CASE ~Add(t) /\ ~StartThread(t)
  <2>1. writeCount' = writeCount /\ Pending' \subseteq Pending
    BY <1>1, <1>5, Frames
  <2>2. Cardinality(Pending') \in Nat /\ Cardinality(Pending') <= P
    BY <2>1, Sizes, OneMore
  <2>3. /\ Cardinality(threadList)' \in Nat /\ Cardinality(stopped)' \in Nat
        /\ Cardinality(threadList)' + Cardinality(stopped)' <= L + S
    BY <1>2, <1>5, Moves
  <2> HIDE DEF L, S, P
  <2> QED BY <1>2, <2>1, <2>2, <2>3
<1> QED BY <1>3, <1>4, <1>5

\* activeThreads_ stays in step with threadList_.
LEMMA PoolInductive ==
  ASSUME IInv, NEW t \in Threads, Step(t)
  PROVE  Pool'
<1> SUFFICES ASSUME maxThreads' > 0
             PROVE  /\ activeThreads' + (IF lock' = Nobody THEN 0 ELSE 1)
                         = Cardinality(threadList)'
                    /\ Cardinality(threadList)' <= maxThreads'
  BY DEF Pool
<1>1. ~StopAll(t) /\ maxThreads' = maxThreads
  <2>1. ~StopAll(t)
    BY DEF StopAll
  <2> QED BY <2>1, Frames
<1> DEFINE L == Cardinality(threadList)
<1>2. /\ L \in Nat /\ maxThreads \in Nat /\ maxThreads > 0 /\ activeThreads \in Nat
      /\ activeThreads + (IF lock = Nobody THEN 0 ELSE 1) = L /\ L <= maxThreads
  BY <1>1, Sizes, ThreadsApart DEF IInv, TypeOK, Pool
<1>3. /\ t # Nobody
      /\ lock = t <=> pc[t] \in {"count", "sizeCheck"}
  BY ThreadsApart DEF IInv, Locked
<1>4. CASE StartThread(t)
  <2>1. Cardinality(threadList)' = L + 1
    BY <1>4, Moves DEF StartThread, Stops, SizeCheckFails, JoinOne, Leave, Goto
  <2>2. /\ lock = Nobody /\ lock' = t
        /\ activeThreads < maxThreads /\ activeThreads' = activeThreads
    BY <1>4 DEF StartThread, counts
  <2> HIDE DEF L
  <2> QED BY <1>1, <1>2, <1>3, <2>1, <2>2
<1>5. CASE SizeCheckFails(t)
  <2>1. Cardinality(threadList)' = L - 1
    BY <1>5, Moves DEF StartThread, SizeCheckFails, JoinOne, Leave, Goto
  <2>2. lock = t /\ lock' = Nobody /\ activeThreads' = activeThreads
    BY <1>3, <1>5 DEF SizeCheckFails, Leave, Goto
  <2> HIDE DEF L
  <2> QED BY <1>1, <1>2, <1>3, <2>1, <2>2
<1>6. ~Stops(t)
  BY <1>2 DEF Stops, IInv, EveryThreadJoined
<1>7. CASE ~StartThread(t) /\ ~SizeCheckFails(t)
  <2>1. Cardinality(threadList)' = L
    BY <1>6, <1>7, Moves
  <2>2. CASE CountThread(t) \/ ComesBack(t)
    <3>1. lock = t /\ lock' = Nobody /\ activeThreads' = activeThreads + 1
      BY <1>3, <2>2 DEF CountThread, ComesBack, Goto
    <3> HIDE DEF L
    <3> QED BY <1>1, <1>2, <1>3, <2>1, <3>1
  <2>3. CASE TimesOut(t)
    <3>1. lock = Nobody /\ lock' = t /\ activeThreads' = activeThreads - 1
      BY <2>3 DEF TimesOut
    <3> HIDE DEF L
    <3> QED BY <1>1, <1>2, <1>3, <2>1, <3>1
  <2>4. CASE ~CountThread(t) /\ ~ComesBack(t) /\ ~TimesOut(t)
    <3>1. lock' = lock /\ activeThreads' = activeThreads
      BY <1>1, <1>6, <1>7, <2>4, Frames DEF PoolStep, TakeJoins, JoinOne, counts
    <3> HIDE DEF L
    <3> QED BY <1>1, <1>2, <2>1, <3>1
  <2> QED BY <2>2, <2>3, <2>4
<1> QED BY <1>4, <1>5, <1>7
-----------------------------------------------------------------------------
(* Joins                                                                   *)

\* One summand can be told apart from the rest.
LEMMA UnitsOfOne ==
  ASSUME NEW S, IsFiniteSet(S), NEW f, \A x \in S : f[x] \in Nat, NEW x \in S
  PROVE  /\ IsFiniteSet(Units(f, S)) /\ IsFiniteSet(Units(f, S \ {x}))
         /\ Cardinality(Units(f, S)) = Cardinality(Units(f, S \ {x})) + f[x]
<1> DEFINE Of(y) == {y} \X (1..f[y])
<1>1. \A y \in S : IsFiniteSet(Of(y)) /\ Cardinality(Of(y)) = f[y]
  <2> SUFFICES ASSUME NEW y \in S, NEW n \in Nat, n = f[y]
               PROVE  IsFiniteSet({y} \X (1..n)) /\ Cardinality({y} \X (1..n)) = n
    OBVIOUS
  <2>1. IsFiniteSet({y}) /\ Cardinality({y}) = 1
    BY FS_Singleton
  <2>2. IsFiniteSet(1..n)
    BY FS_Interval
  <2>3. Cardinality(1..n) = n
    BY FS_Interval, n \in Int, 1 \in Int
  <2>4. /\ IsFiniteSet({y} \X (1..n))
        /\ Cardinality({y} \X (1..n)) = Cardinality({y}) * Cardinality(1..n)
    BY <2>1, <2>2, FS_Product
  <2> QED BY <2>1, <2>3, <2>4
<1>2. IsFiniteSet(Units(f, S \ {x}))
  <2>1. IsFiniteSet(S \ {x})
    BY FS_Subset
  <2> HIDE DEF Of
  <2>2. IsFiniteSet({Of(y) : y \in S \ {x}})
    <3>1. [y \in S \ {x} |-> Of(y)] \in Surjection(S \ {x}, {Of(y) : y \in S \ {x}})
      BY DEF Surjection
    <3> QED BY <2>1, <3>1, FS_Surjection
  <2>3. \A T \in {Of(y) : y \in S \ {x}} : IsFiniteSet(T)
    BY <1>1
  <2>4. IsFiniteSet(UNION {Of(y) : y \in S \ {x}})
    BY <2>2, <2>3, FS_UNION
  <2> QED BY <2>4 DEF Units, Of
<1>3. Units(f, S) = Units(f, S \ {x}) \cup Of(x) /\ Units(f, S \ {x}) \cap Of(x) = {}
  BY DEF Units
<1>4. Cardinality(Units(f, S \ {x})) \in Nat /\ Cardinality({}) = 0
  BY <1>2, FS_CardinalityType, FS_EmptySet
<1>5. /\ IsFiniteSet(Units(f, S \ {x}) \cup Of(x))
      /\ Cardinality(Units(f, S \ {x}) \cup Of(x))
           = Cardinality(Units(f, S \ {x})) + Cardinality(Of(x))
               - Cardinality(Units(f, S \ {x}) \cap Of(x))
  BY <1>1, <1>2, FS_Union
<1> HIDE DEF Of
<1>6. IsFiniteSet(Units(f, S)) /\ Cardinality(Of(x)) = f[x] /\ f[x] \in Nat
  BY <1>1, <1>3, <1>5
<1>7. /\ Units(f, S) = Units(f, S \ {x}) \cup Of(x)
      /\ Cardinality(Units(f, S \ {x}) \cap Of(x)) = 0
  BY <1>3, <1>4
<1>8. Cardinality(Units(f, S)) = Cardinality(Units(f, S \ {x})) + f[x] - 0
  BY <1>5, <1>6, <1>7
<1> QED BY <1>2, <1>4, <1>6, <1>8

\* A total changes by as much as one summand does.
LEMMA TotalChange ==
  ASSUME NEW S, IsFiniteSet(S), NEW f \in [S -> Nat], NEW g \in [S -> Nat], NEW x \in S,
         \A y \in S \ {x} : g[y] = f[y]
  PROVE  /\ Total(f) \in Nat /\ Total(g) \in Nat /\ f[x] <= Total(f)
         /\ Total(g) = Total(f) - f[x] + g[x]
<1>1. Units(f, S \ {x}) = Units(g, S \ {x})
  BY DEF Units
<1>2. /\ IsFiniteSet(Units(f, S \ {x}))
      /\ Total(f) = Cardinality(Units(f, S \ {x})) + f[x]
  BY UnitsOfOne DEF Total
<1>3. Total(g) = Cardinality(Units(f, S \ {x})) + g[x]
  BY <1>1, UnitsOfOne DEF Total
<1> QED BY <1>2, <1>3, FS_CardinalityType

\* The total of nothing
LEMMA TotalZero ==
  ASSUME NEW S, NEW f \in [S -> Nat], \A x \in S : f[x] = 0
  PROVE  Total(f) = 0
<1>1. Units(f, S) = {}
  BY DEF Units
<1> QED BY <1>1, FS_EmptySet DEF Total

\* What one thread still has to join changes the total.
LEMMA JoinsChange ==
  ASSUME TypeOK, TypeOK', NEW t \in Threads, \A u \in Threads \ {t} : joins'[u] = joins[u]
  PROVE  /\ Total(joins) \in Nat /\ Total(joins)' \in Nat
         /\ joins[t] \in Nat /\ joins'[t] \in Nat
         /\ Total(joins)' = Total(joins) - joins[t] + joins'[t]
<1>1. joins \in [Threads -> Nat] /\ joins' \in [Threads -> Nat] /\ IsFiniteSet(Threads)
  BY ThreadsApart DEF TypeOK
<1>2. Total(joins)' = Total(joins')
  BY DEF Total, Units
<1>3. \A f, g \in [Threads -> Nat] :
        (\A u \in Threads \ {t} : g[u] = f[u]) =>
          Total(f) \in Nat /\ Total(g) \in Nat /\ Total(g) = Total(f) - f[t] + g[t]
  BY <1>1, TotalChange
<1> QED BY <1>1, <1>2, <1>3

\* As many joins are promised as there will be threads to join.
LEMMA JoinsInductive ==
  ASSUME IInv, TypeOK', Phase', NEW t \in Threads, Step(t)
  PROVE  EveryThreadJoined'
<1> DEFINE L == Cardinality(threadList)
           S == Cardinality(stopped)
           J == Total(joins)
<1>1. /\ L \in Nat /\ S \in Nat /\ maxThreads \in Nat /\ threadsToJoin \in Nat
      /\ threadsToStop \in Nat
      /\ L' \in Nat /\ S' \in Nat /\ maxThreads' \in Nat /\ threadsToJoin' \in Nat
      /\ threadsToStop' \in Nat
  BY Sizes, Moves, ThreadsApart DEF IInv, TypeOK
<1>2. \A u \in Threads \ {t} : joins'[u] = joins[u]
  <2>1. CASE PoolStep(t)
    BY <2>1 DEF PoolStep, TakeJoins, JoinOne, StartThread, CountThread, Stops, TimesOut,
       SizeCheckFails, ComesBack, StopAll, IInv, TypeOK
  <2>2. CASE ~PoolStep(t)
    BY <2>2, Frames
  <2> QED BY <2>1, <2>2
<1>3. /\ J \in Nat /\ J' \in Nat /\ joins[t] \in Nat /\ joins'[t] \in Nat
      /\ J' = J - joins[t] + joins'[t]
  BY <1>2, JoinsChange DEF IInv
<1>4. /\ threadsToJoin + J = S + (IF maxThreads = 0 THEN L ELSE 0)
      /\ IF maxThreads > 0 THEN threadsToStop = 0 /\ poison = 0 ELSE threadsToStop = L
  BY DEF IInv, EveryThreadJoined
<1> SUFFICES /\ threadsToJoin' + J' = S' + (IF maxThreads' = 0 THEN L' ELSE 0)
             /\ IF maxThreads' > 0 THEN threadsToStop' = 0 /\ poison' = 0
                                   ELSE threadsToStop' = L'
  BY DEF EveryThreadJoined
<1>5. ~StopAll(t) => maxThreads' = maxThreads /\ (poison = 0 => poison' = 0)
  BY Frames
<1>6. t \in Clients /\ pc[t] # "idle" => maxThreads > 0
  BY <1>1 DEF IInv, Phase
<1>7. CASE StopAll(t)
  <2>1. /\ t = Owner /\ pc[t] = "close"
        /\ joins'[t] = L + threadsToJoin
        /\ threadsToStop' = threadsToStop + L /\ threadsToJoin' = 0 /\ maxThreads' = 0
        /\ threadList' = threadList /\ stopped' = stopped
    <3>1. t = Owner
      BY <1>7, ThreadsApart
         DEF StopAll, Goto, IInv, Placed, Threads, WorkLabels, Looking, Adding
    <3> QED BY <1>7, <3>1 DEF StopAll, Goto, IInv, TypeOK
  <2>2. joins[t] = 0 /\ maxThreads > 0
    BY <1>1, <2>1 DEF IInv, Promised, Phase
  <2> HIDE DEF J, L, S
  <2>3. threadsToStop = 0 /\ threadsToJoin + J = S
    BY <1>1, <1>4, <2>2
  <2>4. J' = J + (L + threadsToJoin) /\ L' = L /\ S' = S
    BY <1>1, <1>3, <2>1, <2>2 DEF L, S
  <2> QED BY <1>1, <1>3, <2>1, <2>3, <2>4
<1>8. CASE TakeJoins(t)
  <2>1. /\ joins[t] = 0 /\ joins'[t] = threadsToJoin /\ threadsToJoin' = 0
        /\ threadsToStop' = threadsToStop /\ threadList' = threadList /\ stopped' = stopped
    BY <1>8 DEF TakeJoins, Goto, IInv, TypeOK, Promised
  <2>2. ~StopAll(t)
    BY <1>8 DEF TakeJoins, StopAll, Goto
  <2> HIDE DEF J
  <2> QED BY <1>1, <1>3, <1>4, <1>5, <2>1, <2>2
<1>9. CASE JoinOne(t)
  <2>1. /\ joins'[t] = joins[t] - 1 /\ threadsToJoin' = threadsToJoin
        /\ threadsToStop' = threadsToStop
    BY <1>9 DEF JoinOne, counts, IInv, TypeOK
  <2>2. L' = L /\ S' = S - 1
    BY <1>9, Moves DEF JoinOne, StartThread, Stops, SizeCheckFails, Leave, Goto
  <2>3. ~StopAll(t)
    BY <1>9 DEF JoinOne, StopAll, Goto
  <2> HIDE DEF J, L, S
  <2> QED BY <1>1, <1>3, <1>4, <1>5, <2>1, <2>2, <2>3
<1>10. CASE StartThread(t)
  <2>1. /\ joins' = joins /\ threadsToJoin' = threadsToJoin
        /\ threadsToStop' = threadsToStop
    BY <1>10 DEF StartThread, counts
  <2>2. L' = L + 1 /\ S' = S
    BY <1>10, Moves DEF JoinOne, StartThread, Stops, SizeCheckFails, Leave, Goto
  <2>3. ~StopAll(t)
    BY <1>10 DEF StartThread, StopAll, Goto
  <2>4. maxThreads > 0
    BY <1>1, <1>10 DEF StartThread, IInv, TypeOK
  <2> HIDE DEF J, L, S
  <2>5. J' = J
    BY <1>3, <2>1
  <2> QED BY <1>1, <1>4, <1>5, <2>1, <2>2, <2>3, <2>4, <2>5
<1>11. CASE Stops(t)
  <2>1. /\ joins' = joins /\ threadsToJoin' = threadsToJoin
        /\ threadsToStop > 0 /\ threadsToStop' = threadsToStop - 1
    BY <1>11 DEF Stops
  <2>2. L' = L - 1 /\ S' = S + 1
    BY <1>11, Moves DEF JoinOne, StartThread, Stops, SizeCheckFails, Leave, Goto
  <2>3. ~StopAll(t)
    BY <1>11 DEF Stops, Leave, StopAll, Goto
  <2>4. maxThreads = 0
    BY <1>1, <1>4, <2>1
  <2> HIDE DEF J, L, S
  <2>5. J' = J
    BY <1>3, <2>1
  <2>6. S + 1 + (L - 1) = S + L
    BY <1>1
  <2>7. threadsToJoin' + J' = S' + L' /\ threadsToStop' = L'
    BY <1>1, <1>3, <1>4, <2>1, <2>2, <2>4, <2>5, <2>6
  <2> QED BY <1>5, <2>3, <2>4, <2>7
<1>12. CASE SizeCheckFails(t)
  <2>1. /\ joins' = joins /\ threadsToJoin' = threadsToJoin + 1
        /\ threadsToStop' = threadsToStop
    BY <1>12 DEF SizeCheckFails
  <2>2. L' = L - 1 /\ S' = S + 1
    BY <1>12, Moves DEF JoinOne, StartThread, Stops, SizeCheckFails, Leave, Goto
  <2>3. ~StopAll(t)
    BY <1>12 DEF SizeCheckFails, Leave, StopAll, Goto
  <2>4. maxThreads > 0
    BY <1>1, <1>12, ThreadsApart DEF SizeCheckFails, Leave, Goto, IInv, Locked, Phase
  <2> HIDE DEF J, L, S
  <2> QED BY <1>1, <1>3, <1>4, <1>5, <2>1, <2>2, <2>3, <2>4
<1>13. CASE /\ ~StopAll(t) /\ ~TakeJoins(t) /\ ~JoinOne(t) /\ ~StartThread(t)
            /\ ~Stops(t) /\ ~SizeCheckFails(t)
  <2>1. joins' = joins /\ threadsToJoin' = threadsToJoin /\ threadsToStop' = threadsToStop
    BY <1>13, Frames DEF PoolStep, CountThread, TimesOut, ComesBack, counts
  <2>2. L' = L /\ S' = S
    BY <1>13, Moves
  <2> HIDE DEF J, L, S
  <2>3. J' = J
    BY <1>3, <2>1
  <2> QED BY <1>4, <1>5, <1>13, <2>1, <2>2, <2>3
<1> QED BY <1>7, <1>8, <1>9, <1>10, <1>11, <1>12, <1>13
-----------------------------------------------------------------------------
(* The invariant and the theorems                                          *)

\* The invariant is inductive.
LEMMA Inductive == SafeSpec => []IInv
<1>1. ASSUME Init PROVE IInv
  <2> USE <1>1, ThreadsApart DEF Init, Threads
  <2>1. Placed /\ Members /\ Locked /\ Promised /\ Phase
    BY DEF Placed, Members, Locked, Promised, Phase, WorkLabels
  <2>2. TypeOK
    BY DEF TypeOK, Labels
  <2>3. Pending = {} /\ Counting = {} /\ Cardinality({}) = 0
    BY FS_EmptySet DEF Pending, Counting, Adding
  <2>4. Pool /\ Room /\ Readers
    BY <2>3 DEF Pool, Room, Readers
  <2>5. Total(joins) = 0
    <3>1. joins \in [Threads -> Nat] /\ \A t \in Threads : joins[t] = 0
      OBVIOUS
    <3> QED BY <3>1, TotalZero
  <2>6. EveryThreadJoined
    BY <2>3, <2>5 DEF EveryThreadJoined
  <2> QED BY <2>1, <2>2, <2>4, <2>6 DEF IInv
<1>2. ASSUME IInv, [Next]_vars PROVE IInv'
  <2>1. CASE UNCHANGED vars
    <3> USE <1>2, <2>1 DEF vars, taskQueues, pool, counts, ghosts
    <3>1. (TypeOK /\ Placed /\ Members /\ Locked /\ Promised /\ Phase)'
      BY DEF IInv, TypeOK, Placed, Members, Locked, Promised, Phase
    <3>2. (Pool /\ Room /\ Readers /\ EveryThreadJoined)'
      BY DEF IInv, Pool, Room, Readers, EveryThreadJoined, Pending, Counting, Total, Units
    <3> QED BY <3>1, <3>2 DEF IInv
  <2>2. ASSUME NEW t \in Threads, Step(t) PROVE IInv'
    <3>1. (TypeOK /\ Placed /\ Members /\ Locked /\ Promised /\ Phase)'
      BY <1>2, <2>2, PlacesInductive
    <3>2. (Pool /\ Room /\ Readers)'
      BY <1>2, <2>2, PoolInductive, RoomInductive, ReadersInductive
    <3>3. EveryThreadJoined'
      BY <1>2, <2>2, <3>1, JoinsInductive
    <3> QED BY <3>1, <3>2, <3>3 DEF IInv
  <2> QED BY <1>2, <2>1, <2>2 DEF Next, Step
<1> QED BY <1>1, <1>2, PTL DEF SafeSpec

\* No counter of the pool underflows, and there is a thread object for every thread.
THEOREM TypeCorrect == SafeSpec => []TypeOK
<1>1. IInv => TypeOK
  BY DEF IInv
<1> QED BY <1>1, Inductive, PTL

\* activeThreads_, which addWithPriority() reads without the lock, is exact while the
\* lock is free and never above the limit.
THEOREM ActiveIsExact == SafeSpec => []ActiveExact
<1>1. ASSUME IInv PROVE ActiveExact
  <2>1. /\ maxThreads \in Nat /\ activeThreads \in Nat /\ Cardinality(threadList) \in Nat
    BY <1>1, Sizes, ThreadsApart DEF IInv, TypeOK
  <2>2. maxThreads = 0 => activeThreads = 0
    BY <1>1 DEF IInv, Phase
  <2>3. maxThreads > 0 => /\ activeThreads + (IF lock = Nobody THEN 0 ELSE 1)
                               = Cardinality(threadList)
                          /\ Cardinality(threadList) <= maxThreads
    BY <1>1 DEF IInv, Pool
  <2> QED BY <2>1, <2>2, <2>3 DEF ActiveExact
<1> QED BY <1>1, Inductive, PTL

\* The joins that are promised are as many as the threads there are to join.
THEOREM EveryThreadIsJoined == SafeSpec => []EveryThreadJoined
<1>1. IInv => EveryThreadJoined
  BY DEF IInv
<1> QED BY <1>1, Inductive, PTL
-----------------------------------------------------------------------------
(* The guess of addWithPriority(), before the executor is destroyed        *)

\* Calls whose reference is not in the queue yet, that have not guessed yet, and that
\* guessed that they have to start a thread and did not come to it yet
Pushing == {c \in Clients : pc[c] = "push"}
Guessing == {c \in Clients : pc[c] \in {"release", "guess"}}
Ensuring == {c \in Clients : pc[c] \in {"toJoin", "joinLock", "join", "active", "addLock"}}

\* Workers that will look for a reference before they leave
Lookers == {w \in Workers : pc[w] \in Looking}

\* Calls that counted after c did, of those that have not guessed
Later(c) == {d \in Clients : mine[d] > mine[c]}

\* A call remembers what it counted until it has guessed.
Turns == \A c \in Clients : /\ mine[c] > 0 <=> c \in Pushing \cup Guessing
                            /\ mine[c] <= writeCount
                            /\ \A d \in Clients : mine[c] > 0 /\ mine[c] = mine[d] => c = d

\* If nobody is overtaken, calls guess in the order in which they counted, and whatever
\* was counted later is still on its way.
InTurn == /\ \A c \in Guessing, d \in Clients : c # d /\ mine[d] > 0 => mine[c] < mine[d]
          /\ \A c \in Clients : mine[c] > 0 => writeCount - mine[c] <= Cardinality(Later(c))

\* A reference counted is on its way, in the queue, or was taken by a worker that counted
\* itself in readCount_.
Balance == work + readCount + Cardinality(Pushing) = writeCount + Cardinality(Counting)

\* The references in the queue have as many workers that look, calls about to start one,
\* or calls that have not guessed, unless all threads are up.
Attended == \/ maxThreads <= Cardinality(threadList)
            \/ work <= Cardinality(Guessing) + Cardinality(Lookers) + Cardinality(Ensuring)

GuessInv == ~Closing => /\ Turns /\ Balance
                        /\ ~overtaken => InTurn
                        /\ ~overtaken /\ ~failed => Attended

\* Until stop() nobody is told to leave.
LEMMA NobodyStops ==
  ASSUME IInv, ~Closing
  PROVE  /\ poison = 0 /\ threadsToStop = 0 /\ maxThreads > 0 /\ pc[Owner] = "idle"
         /\ maxThreads \in Nat
<1>1. maxThreads # 0 /\ maxThreads \in Nat
  BY ThreadsApart DEF IInv, Phase, Closing, TypeOK
<1> QED BY <1>1 DEF IInv, EveryThreadJoined, Closing

\* The sets of the invariant can be counted.
LEMMA CallsFinite ==
  /\ IsFiniteSet(Pushing) /\ Cardinality(Pushing) \in Nat
  /\ IsFiniteSet(Guessing) /\ Cardinality(Guessing) \in Nat
  /\ IsFiniteSet(Ensuring) /\ Cardinality(Ensuring) \in Nat
  /\ IsFiniteSet(Lookers) /\ Cardinality(Lookers) \in Nat
  /\ \A c \in Clients : IsFiniteSet(Later(c)) /\ Cardinality(Later(c)) \in Nat
<1>1. /\ Pushing \subseteq Clients /\ Guessing \subseteq Clients /\ Ensuring \subseteq Clients
      /\ Lookers \subseteq Workers /\ \A c \in Clients : Later(c) \subseteq Clients
  BY DEF Pushing, Guessing, Ensuring, Lookers, Later
<1>2. /\ IsFiniteSet(Pushing) /\ IsFiniteSet(Guessing) /\ IsFiniteSet(Ensuring)
      /\ IsFiniteSet(Lookers) /\ \A c \in Clients : IsFiniteSet(Later(c))
  BY <1>1, ThreadsApart, FS_Subset
<1> QED BY <1>2, FS_CardinalityType

\* Who is counted in which set after a step that moves one thread
Moved(S, T, t, l, labels) ==
  T = IF l \in labels THEN S \cup {t} ELSE S \ {t}

LEMMA MovedSets ==
  ASSUME IInv, NEW t \in Threads, NEW l, pc' = [pc EXCEPT ![t] = l]
  PROVE  /\ t \in Clients =>
              /\ Moved(Pushing, Pushing', t, l, {"push"})
              /\ Moved(Guessing, Guessing', t, l, {"release", "guess"})
              /\ Moved(Ensuring, Ensuring', t, l,
                       {"toJoin", "joinLock", "join", "active", "addLock"})
         /\ t \notin Clients => /\ Pushing' = Pushing /\ Guessing' = Guessing
                                /\ Ensuring' = Ensuring
         /\ t \in Workers =>
              /\ Moved(Lookers, Lookers', t, l, Looking)
              /\ Moved(Counting, Counting', t, l, {"look", "lookLow", "acquire", "uncount"})
         /\ t \notin Workers => Lookers' = Lookers /\ Counting' = Counting
<1>1. \A u \in Threads : pc'[u] = IF u = t THEN l ELSE pc[u]
  BY DEF IInv, TypeOK
<1> QED BY <1>1 DEF Moved, Pushing, Guessing, Ensuring, Lookers, Counting, Threads

\* What the steps leave alone before the executor is destroyed
LEMMA GuessFrames ==
  ASSUME IInv, ~Closing', NEW t \in Threads, Step(t)
  PROVE  /\ ~Closing
         /\ \/ Add(t) \/ Push(t) \/ Guess(t)
            \/ UNCHANGED <<writeCount, mine, overtaken, Pushing, Guessing>>
         /\ \/ Push(t) \/ FindRef(t) \/ work' = work
         /\ \/ Take(t) \/ Recount(t) \/ Uncount(t) \/ FindRef(t)
            \/ UNCHANGED <<readCount, Counting>>
         /\ \/ FindRef(t) \/ SizeCheckFails(t) \/ Lookers \subseteq Lookers'
         /\ \/ ReadsActive(t) \/ EnoughThreads(t) \/ StartThread(t) \/ StartFails(t)
            \/ Ensuring \subseteq Ensuring'
         /\ StartThread(t) \/ SizeCheckFails(t) \/ threadList' = threadList
         /\ maxThreads' = maxThreads /\ (failed => failed')
<1> DEFINE Goal ==
         /\ \/ Add(t) \/ Push(t) \/ Guess(t)
            \/ UNCHANGED <<writeCount, mine, overtaken, Pushing, Guessing>>
         /\ \/ Push(t) \/ FindRef(t) \/ work' = work
         /\ \/ Take(t) \/ Recount(t) \/ Uncount(t) \/ FindRef(t)
            \/ UNCHANGED <<readCount, Counting>>
         /\ \/ FindRef(t) \/ SizeCheckFails(t) \/ Lookers \subseteq Lookers'
         /\ \/ ReadsActive(t) \/ EnoughThreads(t) \/ StartThread(t) \/ StartFails(t)
            \/ Ensuring \subseteq Ensuring'
         /\ StartThread(t) \/ SizeCheckFails(t) \/ threadList' = threadList
         /\ maxThreads' = maxThreads /\ (failed => failed')
<1>0. pc \in [Threads -> Labels] /\ Placed /\ Owner \in Threads
  BY DEF IInv, TypeOK, Threads
<1>1. ~Closing /\ ~Close(t) /\ ~StopAll(t) /\ pc[Owner] = "idle"
  <2>1. CASE t = Owner
    <3>1. ~Close(t)
      BY <1>0, <2>1 DEF Close, Branch, Goto, Closing
    <3>2. ~StopAll(t) /\ ~JoinStep(t)
      BY <1>0, <2>1 DEF StopAll, JoinStep, JoinOne, AllJoined, Branch, Goto, Closing
    <3>3. FALSE
      BY <2>1, <3>1, <3>2, ThreadsApart, <1>0
         DEF Step, Progress, Add, TimeOut, Branch, Goto, Placed
    <3> QED BY <3>3
  <2>2. CASE t # Owner
    <3>1. ~Close(t) /\ ~StopAll(t)
      BY <1>0, <2>2, ThreadsApart
         DEF Close, StopAll, Goto, Placed, Threads, WorkLabels, Looking, Adding
    <3>2. pc'[Owner] = pc[Owner]
      BY <1>0, <2>2, <3>1, ThreadsApart, NewThreadIsFree
         DEF Step, Progress, AddStep, JoinStep, WorkStep, Add, TimeOut, Push, Release, Guess,
             ReadsToJoin, TakeJoins, ReadsActive, EnoughThreads, StartThread, StartFails,
             CountThread, JoinOne, AllJoined, Take, FindRef, FindNoRef, FindPoison,
             FindNothing, Acquire, Uncount, LastChance, Recount, FinishBody, CheckStop,
             SerialGoesOn, SerialEnds, Stops, TimesOut, SizeCheckFails, ComesBack, Leave,
             Branch, Goto
    <3> QED BY <3>1, <3>2 DEF Closing
  <2> QED BY <2>1, <2>2
<1>2. poison = 0 /\ threadsToStop = 0
  BY <1>1, NobodyStops
<1>3. Goal
  <2> USE <1>0, ThreadsApart DEF Placed, Pushing, Guessing, Ensuring, Lookers, Counting,
        Threads, WorkLabels, Adding, Looking, Goto, Branch, TakeStep, Leave,
        taskQueues, pool, counts, ghosts
  <2>1. CASE Add(t) \/ Push(t) \/ Release(t) \/ Guess(t)
    BY <2>1 DEF Add, Push, Release, Guess
  <2>2. CASE t \in Clients /\ (ReadsToJoin(t) \/ TakeJoins(t) \/ ReadsActive(t))
    BY <2>2 DEF ReadsToJoin, TakeJoins, ReadsActive
  <2>3. CASE t \in Clients /\ (EnoughThreads(t) \/ StartFails(t) \/ CountThread(t))
    BY <2>3 DEF EnoughThreads, StartFails, CountThread
  <2>4. CASE t \in Clients /\ StartThread(t)
    <3>1. NewThread \in Workers /\ pc[NewThread] = "none" /\ NewThread \notin stopped
      BY <2>4, NewThreadIsFree
    <3>2. \A u \in Threads :
            pc'[u] = IF u = t THEN "count" ELSE IF u = NewThread THEN "take" ELSE pc[u]
      BY <2>4, <3>1 DEF StartThread
    <3> HIDE DEF NewThread
    <3> QED BY <2>4, <3>1, <3>2 DEF StartThread
  <2>5. CASE t \in Clients /\ (JoinOne(t) \/ AllJoined(t))
    BY <2>5 DEF JoinOne, AllJoined
  <2>6. CASE TimeOut(t)
    BY <2>6 DEF TimeOut
  <2>7. CASE t \in Workers /\ (Take(t) \/ FindRef(t) \/ FindNoRef(t) \/ FindNothing(t))
    BY <2>7 DEF Take, FindRef, FindNoRef, FindNothing
  <2>8. CASE t \in Workers /\ (Acquire(t) \/ Uncount(t) \/ LastChance(t) \/ Recount(t))
    BY <2>8 DEF Acquire, Uncount, LastChance, Recount
  <2>9. CASE t \in Workers /\ (FinishBody(t) \/ CheckStop(t) \/ SerialGoesOn(t) \/ SerialEnds(t))
    BY <2>9 DEF FinishBody, CheckStop, SerialGoesOn, SerialEnds
  <2>10. CASE t \in Workers /\ (TimesOut(t) \/ SizeCheckFails(t) \/ ComesBack(t))
    BY <2>10 DEF TimesOut, SizeCheckFails, ComesBack
  <2>11. CASE t \in Workers /\ (FindPoison(t) \/ Stops(t))
    BY <1>2, <2>11 DEF FindPoison, Stops
  <2>12. t = Owner => FALSE
    <3>1. ASSUME t = Owner PROVE ~JoinStep(t)
      BY <1>1, <3>1 DEF JoinStep, JoinOne, AllJoined
    <3>2. ASSUME t = Owner PROVE FALSE
      BY <1>1, <3>1, <3>2 DEF Step, Progress, Add, TimeOut
    <3> QED BY <3>2
  <2> HIDE DEF Goal
  <2> QED BY <1>1, <2>1, <2>2, <2>3, <2>4, <2>5, <2>6, <2>7, <2>8, <2>9, <2>10, <2>11, <2>12
       DEF Step, Progress, AddStep, JoinStep, WorkStep
<1> QED BY <1>1, <1>3

\* Calls keep their turns, as long as nobody is overtaken.
LEMMA TurnsInductive ==
  ASSUME IInv, ~Closing', Turns, ~overtaken => InTurn, NEW t \in Threads, Step(t)
  PROVE  Turns' /\ (~overtaken' => InTurn')
<1>1. /\ mine \in [Clients -> Nat] /\ writeCount \in Nat /\ pc \in [Threads -> Labels]
      /\ Placed
  BY DEF IInv, TypeOK
<1>2. \A c \in Clients : IsFiniteSet(Later(c)) /\ Cardinality(Later(c)) \in Nat
  BY CallsFinite
<1>3. CASE Add(t)
  <2>1. /\ t \in Clients /\ pc[t] = "idle" /\ pc' = [pc EXCEPT ![t] = "push"]
        /\ writeCount' = writeCount + 1 /\ mine' = [mine EXCEPT ![t] = writeCount + 1]
        /\ overtaken' = overtaken
    BY <1>3 DEF Add, Goto, ghosts
  <2>2. Pushing' = Pushing \cup {t} /\ Guessing' = Guessing \ {t}
    BY <2>1, MovedSets DEF Moved
  <2>3. mine[t] = 0 /\ t \notin Pushing /\ t \notin Guessing
    <3>1. t \notin Pushing /\ t \notin Guessing
      BY <2>1 DEF Pushing, Guessing
    <3> QED BY <1>1, <2>1, <3>1 DEF Turns
  <2>4. \A c \in Clients : mine'[c] = IF c = t THEN writeCount + 1 ELSE mine[c]
    BY <1>1, <2>1
  <2>5. Turns'
    BY <1>1, <2>1, <2>2, <2>3, <2>4 DEF Turns
  <2>6. ASSUME ~overtaken PROVE InTurn'
    <3>1. ASSUME NEW c \in Guessing', NEW d \in Clients, c # d, mine'[d] > 0
          PROVE  mine'[c] < mine'[d]
      <4>1. c \in Guessing /\ c # t /\ c \in Clients
        BY <2>2, <2>3, <3>1 DEF Guessing
      <4> QED BY <1>1, <2>4, <2>6, <3>1, <4>1 DEF InTurn, Turns
    <3>2. ASSUME NEW c \in Clients, mine'[c] > 0
          PROVE  writeCount' - mine'[c] <= Cardinality(Later(c))'
      <4>1. CASE c = t
        <5>1. Later(c)' \subseteq Clients
          BY DEF Later
        <5>2. Cardinality(Later(c))' \in Nat
          BY <5>1, ThreadsApart, FS_Subset, FS_CardinalityType
        <5> QED BY <1>1, <2>1, <2>4, <4>1, <5>2
      <4>2. CASE c # t
        <5>1. Later(c)' = Later(c) \cup {t} /\ t \notin Later(c)
          <6>1. /\ mine[c] \in Nat /\ mine[c] <= writeCount /\ mine'[c] = mine[c]
                /\ mine'[t] = writeCount + 1 /\ mine[t] = 0
            BY <1>1, <2>1, <2>3, <2>4, <4>2 DEF Turns
          <6>2. mine'[t] > mine'[c] /\ ~(mine[t] > mine[c])
            BY <1>1, <6>1
          <6> QED BY <2>1, <2>4, <6>1, <6>2 DEF Later
        <5>2. Cardinality(Later(c))' = Cardinality(Later(c)) + 1
          BY <1>2, <5>1, OneMore
        <5>3. writeCount - mine[c] <= Cardinality(Later(c))
          BY <2>4, <2>6, <3>2, <4>2 DEF InTurn
        <5> QED BY <1>1, <1>2, <2>1, <2>4, <4>2, <5>2, <5>3
      <4> QED BY <4>1, <4>2
    <3> QED BY <3>1, <3>2 DEF InTurn
  <2> QED BY <2>1, <2>5, <2>6
<1>4. CASE Push(t)
  <2>1. /\ t \in Clients /\ pc[t] = "push" /\ pc' = [pc EXCEPT ![t] = "release"]
        /\ writeCount' = writeCount /\ mine' = mine
        /\ overtaken' = (overtaken \/ \E c \in Clients : mine[c] \in 1..mine[t] - 1)
    BY <1>1, <1>4, ThreadsApart
       DEF Push, Goto, Placed, Threads, WorkLabels, Looking, taskQueues
  <2>2. Pushing' = Pushing \ {t} /\ Guessing' = Guessing \cup {t} /\ t \in Pushing
    BY <2>1, MovedSets DEF Moved, Pushing
  <2>3. Turns'
    BY <2>1, <2>2 DEF Turns
  <2>4. ASSUME ~overtaken' PROVE InTurn'
    <3>1. ~overtaken /\ \A c \in Clients : mine[c] \notin 1..mine[t] - 1
      BY <2>1, <2>4
    <3>2. ASSUME NEW c \in Guessing', NEW d \in Clients, c # d, mine[d] > 0
          PROVE  mine[c] < mine[d]
      <4>1. CASE c = t
        <5>1. mine[t] > 0 /\ mine[d] # mine[t]
          BY <2>1, <2>2, <3>2, <4>1 DEF Turns
        <5> QED BY <1>1, <2>1, <3>1, <3>2, <4>1, <5>1
      <4>2. CASE c # t
        BY <2>2, <3>1, <3>2, <4>2 DEF InTurn
      <4> QED BY <4>1, <4>2
    <3>3. \A c \in Clients : Later(c)' = Later(c)
      BY <2>1 DEF Later
    <3> QED BY <2>1, <3>1, <3>2, <3>3 DEF InTurn
  <2> QED BY <2>3, <2>4
<1>5. CASE Guess(t)
  <2>1. /\ t \in Clients /\ pc[t] = "guess" /\ \E l \in {"idle", "toJoin"} :
                                                  pc' = [pc EXCEPT ![t] = l]
        /\ UNCHANGED <<writeCount, overtaken>> /\ mine' = [mine EXCEPT ![t] = 0]
    BY <1>1, <1>5, ThreadsApart
       DEF Guess, Goto, Placed, Threads, WorkLabels, Looking, taskQueues, ghosts
  <2>2. Pushing' = Pushing /\ Guessing' = Guessing \ {t} /\ t \in Guessing /\ t \notin Pushing
    <3>1. t \in Guessing /\ t \notin Pushing
      BY <2>1 DEF Guessing, Pushing
    <3>2. PICK l \in {"idle", "toJoin"} : pc' = [pc EXCEPT ![t] = l]
      BY <2>1
    <3>3. /\ Moved(Pushing, Pushing', t, l, {"push"})
          /\ Moved(Guessing, Guessing', t, l, {"release", "guess"})
      BY <2>1, <3>2, MovedSets
    <3> QED BY <3>1, <3>3 DEF Moved
  <2>3. \A c \in Clients : mine'[c] = IF c = t THEN 0 ELSE mine[c]
    BY <1>1, <2>1
  <2>4. Turns'
    BY <1>1, <2>1, <2>2, <2>3 DEF Turns
  <2>5. ASSUME ~overtaken PROVE InTurn'
    <3>1. ASSUME NEW c \in Guessing', NEW d \in Clients, c # d, mine'[d] > 0
          PROVE  mine'[c] < mine'[d]
      <4>1. c \in Guessing /\ c # t /\ c \in Clients
        BY <2>2, <3>1 DEF Guessing
      <4> QED BY <1>1, <2>3, <2>5, <3>1, <4>1 DEF InTurn
    <3>2. ASSUME NEW c \in Clients, mine'[c] > 0
          PROVE  writeCount' - mine'[c] <= Cardinality(Later(c))'
      <4>1. c # t /\ mine'[c] = mine[c] /\ mine[t] < mine[c]
        BY <1>1, <2>2, <2>3, <2>5, <3>2 DEF InTurn
      <4>2. Later(c)' = Later(c)
        BY <1>1, <2>3, <4>1 DEF Later
      <4> QED BY <2>1, <2>5, <3>2, <4>1, <4>2 DEF InTurn
    <3> QED BY <3>1, <3>2 DEF InTurn
  <2> QED BY <2>1, <2>4, <2>5
<1>6. CASE ~Add(t) /\ ~Push(t) /\ ~Guess(t)
  <2>1. UNCHANGED <<writeCount, mine, overtaken, Pushing, Guessing>>
    BY <1>6, GuessFrames
  <2>2. \A c \in Clients : Later(c)' = Later(c)
    BY <2>1 DEF Later
  <2> QED BY <2>1, <2>2 DEF Turns, InTurn
<1> QED BY <1>3, <1>4, <1>5, <1>6

\* No reference is lost or taken twice.
LEMMA BalanceInductive ==
  ASSUME IInv, ~Closing', Balance, NEW t \in Threads, Step(t)
  PROVE  Balance'
<1> DEFINE P == Cardinality(Pushing)
           C == Cardinality(Counting)
<1>1. /\ work \in Nat /\ readCount \in Nat /\ writeCount \in Nat /\ P \in Nat /\ C \in Nat
      /\ work + readCount + P = writeCount + C
      /\ IsFiniteSet(Pushing) /\ IsFiniteSet(Counting)
  BY CallsFinite, Sizes DEF IInv, TypeOK, Balance
<1>2. pc \in [Threads -> Labels] /\ Placed
  BY DEF IInv, TypeOK
<1>3. CASE Add(t)
  <2>1. /\ t \in Clients /\ pc' = [pc EXCEPT ![t] = "push"] /\ t \notin Pushing
        /\ writeCount' = writeCount + 1 /\ UNCHANGED <<work, readCount>>
    BY <1>3 DEF Add, Goto, Pushing
  <2>2. Pushing' = Pushing \cup {t} /\ Counting' = Counting
    BY <2>1, MovedSets, ThreadsApart DEF Moved
  <2>3. Cardinality(Pushing') = P + 1
    BY <1>1, <2>1, <2>2, OneMore
  <2> HIDE DEF P, C
  <2>4. work' + readCount' + Cardinality(Pushing') = writeCount' + C
    BY <1>1, <2>1, <2>3
  <2> QED BY <2>2, <2>4 DEF Balance, C
<1>4. CASE Push(t)
  <2>1. /\ t \in Clients /\ pc' = [pc EXCEPT ![t] = "release"] /\ t \in Pushing
        /\ work' = work + 1 /\ UNCHANGED <<writeCount, readCount>>
    BY <1>2, <1>4, ThreadsApart DEF Push, Goto, Pushing, Placed, Threads, WorkLabels,
       Looking
  <2>2. Pushing' = Pushing \ {t} /\ Counting' = Counting
    BY <2>1, MovedSets, ThreadsApart DEF Moved
  <2>3. Cardinality(Pushing') = P - 1
    BY <1>1, <2>1, <2>2, OneMore
  <2> HIDE DEF P, C
  <2>4. work' + readCount' + Cardinality(Pushing') = writeCount' + C
    BY <1>1, <2>1, <2>3
  <2> QED BY <2>2, <2>4 DEF Balance, C
<1>5. CASE Take(t) \/ Recount(t)
  <2>1. /\ t \in Workers /\ pc' = [pc EXCEPT ![t] = "look"] /\ t \notin Counting
        /\ readCount' = readCount + 1 /\ UNCHANGED <<writeCount, work>>
    BY <1>2, <1>5, ThreadsApart
       DEF Take, Recount, TakeStep, Goto, Counting, Placed, Threads, Adding
  <2>2. Counting' = Counting \cup {t} /\ Pushing' = Pushing
    BY <2>1, MovedSets, ThreadsApart DEF Moved
  <2>3. Cardinality(Counting') = C + 1
    BY <1>1, <2>1, <2>2, OneMore
  <2> HIDE DEF P, C
  <2>4. work' + readCount' + P = writeCount' + Cardinality(Counting')
    BY <1>1, <2>1, <2>3
  <2> QED BY <2>2, <2>4 DEF Balance, P
<1>6. CASE Uncount(t)
  <2>1. /\ t \in Workers /\ pc' = [pc EXCEPT ![t] = "lastChance"] /\ t \in Counting
        /\ readCount' = readCount - 1 /\ UNCHANGED <<writeCount, work>>
    BY <1>2, <1>6, ThreadsApart
       DEF Uncount, TakeStep, Goto, Counting, Placed, Threads, Adding
  <2>2. Counting' = Counting \ {t} /\ Pushing' = Pushing
    <3>1. /\ Moved(Counting, Counting', t, "lastChance",
                   {"look", "lookLow", "acquire", "uncount"})
          /\ Pushing' = Pushing
      BY <2>1, MovedSets, ThreadsApart
    <3> QED BY <3>1 DEF Moved
  <2>3. Cardinality(Counting') = C - 1
    BY <1>1, <2>1, <2>2, OneMore
  <2> HIDE DEF P, C
  <2>4. work' + readCount' + P = writeCount' + Cardinality(Counting')
    BY <1>1, <2>1, <2>3
  <2> QED BY <2>2, <2>4 DEF Balance, P
<1>7. CASE FindRef(t)
  <2>1. /\ t \in Workers /\ \E l \in {"body", "take"} : pc' = [pc EXCEPT ![t] = l]
        /\ t \in Counting /\ work' = work - 1 /\ UNCHANGED <<writeCount, readCount>>
    BY <1>2, <1>7, ThreadsApart
       DEF FindRef, TakeStep, Goto, Counting, Placed, Threads, Adding
  <2>2. Counting' = Counting \ {t} /\ Pushing' = Pushing
    <3>1. PICK l \in {"body", "take"} : pc' = [pc EXCEPT ![t] = l]
      BY <2>1
    <3>2. /\ Moved(Counting, Counting', t, l, {"look", "lookLow", "acquire", "uncount"})
          /\ Pushing' = Pushing
      BY <2>1, <3>1, MovedSets, ThreadsApart
    <3> QED BY <3>2 DEF Moved
  <2>3. Cardinality(Counting') = C - 1
    BY <1>1, <2>1, <2>2, OneMore
  <2> HIDE DEF P, C
  <2>4. work' + readCount' + P = writeCount' + Cardinality(Counting')
    BY <1>1, <2>1, <2>3
  <2> QED BY <2>2, <2>4 DEF Balance, P
<1>8. CASE ~(Add(t) \/ Push(t) \/ Take(t) \/ Recount(t) \/ Uncount(t) \/ FindRef(t))
  <2>1. UNCHANGED <<work, readCount, Counting>>
    BY <1>8, GuessFrames
  <2>2. UNCHANGED <<writeCount, Pushing>>
    <3>1. CASE Guess(t)
      <4>1. /\ t \in Clients /\ \E l \in {"idle", "toJoin"} : pc' = [pc EXCEPT ![t] = l]
            /\ writeCount' = writeCount /\ t \notin Pushing
        BY <1>2, <3>1, ThreadsApart
           DEF Guess, Goto, Pushing, Placed, Threads, WorkLabels, Looking, taskQueues
      <4>2. PICK l \in {"idle", "toJoin"} : pc' = [pc EXCEPT ![t] = l]
        BY <4>1
      <4>3. Moved(Pushing, Pushing', t, l, {"push"})
        BY <4>1, <4>2, MovedSets
      <4> QED BY <4>1, <4>3 DEF Moved
    <3> QED BY <1>8, <3>1, GuessFrames
  <2> QED BY <2>1, <2>2 DEF Balance
<1> QED BY <1>3, <1>4, <1>5, <1>6, <1>7, <1>8

\* A guess that a worker is free is right: the workers that counted themselves in
\* readCount_ are as many as the references in the queue.
LEMMA GuessIsRight ==
  ASSUME IInv, ~Closing, Turns, Balance, InTurn, NEW t \in Clients, Guess(t), Reused(t)
  PROVE  work <= Cardinality(Lookers)
<1>1. /\ work \in Nat /\ readCount \in Nat /\ writeCount \in Nat
      /\ mine \in [Clients -> Nat] /\ mine[t] <= readCount
  BY DEF IInv, TypeOK, Reused
<1>2. t \in Guessing /\ mine[t] > 0
  BY DEF Guess, Goto, Guessing, Turns
<1>3. Later(t) \subseteq Pushing
  <2> SUFFICES ASSUME NEW d \in Clients, mine[d] > mine[t] PROVE d \in Pushing
    BY DEF Later
  <2>1. d \in Pushing \cup Guessing
    BY <1>1, <1>2 DEF Turns
  <2>2. d \notin Guessing
    BY <1>1, <1>2 DEF InTurn
  <2> QED BY <2>1, <2>2
<1>4. Cardinality(Later(t)) <= Cardinality(Pushing)
  BY <1>3, CallsFinite, FS_Subset
<1>5. writeCount - mine[t] <= Cardinality(Later(t))
  BY <1>2 DEF InTurn
<1>6. Counting \subseteq Lookers
  BY DEF Counting, Lookers, Looking
<1>7. Cardinality(Counting) <= Cardinality(Lookers)
  BY <1>6, CallsFinite, FS_Subset
<1>8. work + readCount + Cardinality(Pushing) = writeCount + Cardinality(Counting)
  BY DEF Balance
<1>9. /\ Cardinality(Pushing) \in Nat /\ Cardinality(Counting) \in Nat
      /\ Cardinality(Lookers) \in Nat /\ Cardinality(Later(t)) \in Nat /\ mine[t] \in Nat
  BY <1>1, CallsFinite, Sizes
<1> QED BY <1>1, <1>4, <1>5, <1>7, <1>8, <1>9

\* References stay attended to.
LEMMA AttendedInductive ==
  ASSUME IInv, ~Closing', Turns, Balance, ~overtaken => InTurn,
         ~overtaken /\ ~failed => Attended, ~overtaken', ~failed',
         NEW t \in Threads, Step(t)
  PROVE  Attended'
<1> DEFINE W == Cardinality(threadList)
           G == Cardinality(Guessing)
           L == Cardinality(Lookers)
           E == Cardinality(Ensuring)
<1>1. /\ W \in Nat /\ G \in Nat /\ L \in Nat /\ E \in Nat /\ work \in Nat
      /\ maxThreads \in Nat /\ activeThreads \in Nat /\ maxThreads' = maxThreads
      /\ activeThreads <= W /\ ~Closing /\ pc \in [Threads -> Labels] /\ Placed
  <2>1. ~Closing /\ maxThreads' = maxThreads
    BY GuessFrames
  <2>2. maxThreads > 0 /\ maxThreads \in Nat
    BY <2>1, NobodyStops
  <2>3. W \in Nat /\ activeThreads \in Nat
    BY Sizes DEF IInv, TypeOK
  <2>4. activeThreads + (IF lock = Nobody THEN 0 ELSE 1) = W
    BY <2>2 DEF IInv, Pool
  <2> HIDE DEF W
  <2>5. activeThreads <= W
    BY <2>3, <2>4
  <2> QED BY <2>1, <2>2, <2>3, <2>5, CallsFinite DEF IInv, TypeOK
<1>2. ~overtaken /\ ~failed
  <2>1. overtaken => overtaken'
    <3>1. CASE Add(t) \/ Push(t) \/ Guess(t)
      BY <3>1 DEF Add, Push, Guess, ghosts
    <3> QED BY <3>1, GuessFrames
  <2> QED BY <2>1, GuessFrames
<1>3. /\ InTurn
      /\ maxThreads <= W \/ work <= G + L + E
  BY <1>2 DEF Attended
<1> SUFFICES ASSUME ~(maxThreads <= Cardinality(threadList'))
             PROVE  work' <= Cardinality(Guessing') + Cardinality(Lookers')
                               + Cardinality(Ensuring')
  BY <1>1 DEF Attended
<1>4. ASSUME threadList' = threadList PROVE maxThreads > W /\ work <= G + L + E
  <2>1. ~(maxThreads <= W)
    BY <1>4
  <2> HIDE DEF W, G, L, E
  <2> QED BY <1>1, <1>3, <2>1
<1>5. /\ IsFiniteSet(Guessing) /\ IsFiniteSet(Lookers) /\ IsFiniteSet(Ensuring)
      /\ IsFiniteSet(Guessing') /\ IsFiniteSet(Lookers') /\ IsFiniteSet(Ensuring')
  <2>1. /\ Guessing' \subseteq Clients /\ Ensuring' \subseteq Clients
        /\ Lookers' \subseteq Workers
    BY DEF Guessing, Ensuring, Lookers
  <2> QED BY <2>1, ThreadsApart, CallsFinite, FS_Subset
<1>6. /\ Cardinality(Guessing') \in Nat /\ Cardinality(Lookers') \in Nat
      /\ Cardinality(Ensuring') \in Nat
  BY <1>5, FS_CardinalityType
<1>7. /\ Guessing \subseteq Guessing' => G <= Cardinality(Guessing')
      /\ Lookers \subseteq Lookers' => L <= Cardinality(Lookers')
      /\ Ensuring \subseteq Ensuring' => E <= Cardinality(Ensuring')
  BY <1>5, FS_Subset
<1>8. CASE Push(t)
  <2>1. /\ t \in Clients /\ pc' = [pc EXCEPT ![t] = "release"] /\ pc[t] = "push"
        /\ work' = work + 1 /\ threadList' = threadList
    BY <1>1, <1>8, ThreadsApart DEF Push, Goto, Placed, Threads, WorkLabels, Looking, pool
  <2>2. Guessing' = Guessing \cup {t} /\ Lookers' = Lookers /\ Ensuring' = Ensuring \ {t}
    BY <2>1, MovedSets, ThreadsApart DEF Moved
  <2>3. t \notin Guessing /\ t \notin Ensuring
    BY <2>1 DEF Guessing, Ensuring
  <2>4. Cardinality(Guessing') = G + 1 /\ Ensuring' = Ensuring
    BY <1>5, <2>2, <2>3, OneMore
  <2>5. work <= G + L + E
    BY <1>4, <2>1
  <2>6. Cardinality(Lookers') = L /\ Cardinality(Ensuring') = E
    BY <2>2, <2>4
  <2> HIDE DEF G, L, E, W
  <2> QED BY <1>1, <2>1, <2>4, <2>5, <2>6
<1>9. CASE Guess(t)
  <2>1. /\ t \in Clients /\ pc[t] = "guess" /\ UNCHANGED <<work, threadList>>
        /\ pc' = [pc EXCEPT ![t] = IF Reused(t) THEN "idle" ELSE "toJoin"]
    BY <1>1, <1>9, ThreadsApart
       DEF Guess, Goto, Placed, Threads, WorkLabels, Looking, taskQueues, pool
  <2>2. t \in Guessing /\ t \notin Ensuring
    BY <2>1 DEF Guessing, Ensuring
  <2>3. CASE Reused(t)
    <3>1. work <= L
      BY <1>1, <1>3, <1>9, <2>1, <2>3, GuessIsRight
    <3>2. Lookers' = Lookers
      BY <2>1, MovedSets, ThreadsApart
    <3>3. Cardinality(Lookers') = L
      BY <3>2
    <3> HIDE DEF G, L, E, W
    <3> QED BY <1>1, <1>6, <2>1, <3>1, <3>3
  <2>4. CASE ~Reused(t)
    <3>1. /\ Moved(Guessing, Guessing', t, "toJoin", {"release", "guess"})
          /\ Moved(Ensuring, Ensuring', t, "toJoin",
                   {"toJoin", "joinLock", "join", "active", "addLock"})
          /\ Lookers' = Lookers
      BY <2>1, <2>4, MovedSets, ThreadsApart
    <3>2. Guessing' = Guessing \ {t} /\ Ensuring' = Ensuring \cup {t}
      BY <3>1 DEF Moved
    <3>3. Cardinality(Guessing') = G - 1 /\ Cardinality(Ensuring') = E + 1
      BY <1>5, <2>2, <3>2, OneMore
    <3>4. Cardinality(Lookers') = L /\ work <= G + L + E
      BY <1>4, <2>1, <3>1
    <3> HIDE DEF G, L, E, W
    <3> QED BY <1>1, <2>1, <3>3, <3>4
  <2> QED BY <2>3, <2>4
<1>10. CASE FindRef(t)
  <2>1. /\ t \in Workers /\ work' = work - 1 /\ work > 0 /\ threadList' = threadList
        /\ \E l \in {"body", "take"} : pc' = [pc EXCEPT ![t] = l]
        /\ t \in Lookers
    BY <1>1, <1>10, ThreadsApart
       DEF FindRef, TakeStep, Goto, Placed, Threads, Adding, Lookers, Looking, pool
  <2>2. PICK l \in {"body", "take"} : pc' = [pc EXCEPT ![t] = l]
    BY <2>1
  <2>3. Moved(Lookers, Lookers', t, l, Looking) /\ Guessing' = Guessing /\ Ensuring' = Ensuring
    BY <2>1, <2>2, MovedSets, ThreadsApart
  <2>4. Lookers \ {t} \subseteq Lookers'
    BY <2>3 DEF Moved
  <2>5. Cardinality(Lookers \ {t}) = L - 1 /\ IsFiniteSet(Lookers \ {t})
    BY <1>5, <2>1, OneMore, FS_Subset
  <2>6. Cardinality(Lookers \ {t}) <= Cardinality(Lookers')
    BY <1>5, <2>4, FS_Subset
  <2>7. Cardinality(Guessing') = G /\ Cardinality(Ensuring') = E /\ work <= G + L + E
    BY <1>4, <2>1, <2>3
  <2> HIDE DEF G, L, E, W
  <2> QED BY <1>1, <1>6, <2>1, <2>5, <2>6, <2>7
<1>11. CASE SizeCheckFails(t)
  <2>1. work = 0 /\ work' = work
    BY <1>1, <1>11 DEF SizeCheckFails, taskQueues, IInv, TypeOK
  <2> QED BY <1>6, <2>1
<1>12. CASE StartThread(t)
  <2>1. NewThread \in Workers /\ pc[NewThread] = "none" /\ NewThread \notin threadList
    BY <1>12, NewThreadIsFree DEF IInv, Members
  <2>2. \A u \in Threads :
          pc'[u] = IF u = t THEN "count" ELSE IF u = NewThread THEN "take" ELSE pc[u]
    BY <1>1, <1>12, <2>1 DEF StartThread
  <2>3. /\ t \in Clients /\ pc[t] = "addLock" /\ work' = work
        /\ threadList' = threadList \cup {NewThread}
    BY <1>1, <1>12, ThreadsApart
       DEF StartThread, Placed, Threads, WorkLabels, Looking, taskQueues
  <2>4. PICK n \in Workers : n = NewThread
    BY <2>1
  <2>5. /\ Guessing' = Guessing /\ Ensuring' = Ensuring \ {t} /\ t \in Ensuring
        /\ Lookers' = Lookers \cup {n} /\ n \notin Lookers
    BY <2>1, <2>2, <2>3, <2>4, ThreadsApart
       DEF Guessing, Ensuring, Lookers, Looking, Threads
  <2>6. /\ Cardinality(Ensuring') = E - 1 /\ Cardinality(Lookers') = L + 1
        /\ Cardinality(Guessing') = G
    BY <1>5, <2>5, OneMore
  <2>7. Cardinality(threadList') = W + 1
    BY <2>1, <2>3, Sizes, OneMore
  <2> HIDE DEF G, L, E, W
  <2> QED BY <1>1, <1>3, <2>3, <2>6, <2>7
<1>13. CASE ReadsActive(t) \/ EnoughThreads(t)
  <2>1. /\ t \in Clients /\ UNCHANGED <<work, threadList>>
        /\ pc[t] \in {"active", "addLock"}
        /\ \E l \in {"idle", "addLock"} : pc' = [pc EXCEPT ![t] = l]
        /\ activeThreads >= maxThreads \/ pc' = [pc EXCEPT ![t] = "addLock"]
    BY <1>1, <1>13, ThreadsApart
       DEF ReadsActive, EnoughThreads, Branch, Goto, Placed, Threads, WorkLabels, Looking,
           taskQueues, pool
  <2>2. maxThreads > W /\ work <= G + L + E
    BY <1>4, <2>1
  <2>3. pc' = [pc EXCEPT ![t] = "addLock"]
    <3> HIDE DEF W, G, L, E
    <3> QED BY <1>1, <2>1, <2>2
  <2>4. /\ Moved(Guessing, Guessing', t, "addLock", {"release", "guess"})
        /\ Moved(Ensuring, Ensuring', t, "addLock",
                 {"toJoin", "joinLock", "join", "active", "addLock"})
        /\ Lookers' = Lookers
    BY <2>1, <2>3, MovedSets, ThreadsApart
  <2>5. t \notin Guessing
    BY <2>1 DEF Guessing
  <2>6. Guessing \subseteq Guessing' /\ Ensuring \subseteq Ensuring'
    BY <2>4, <2>5 DEF Moved
  <2>7. /\ G <= Cardinality(Guessing') /\ L <= Cardinality(Lookers')
        /\ E <= Cardinality(Ensuring')
    BY <1>7, <2>4, <2>6
  <2> HIDE DEF G, L, E, W
  <2> QED BY <1>1, <1>6, <2>1, <2>2, <2>7
<1>14. CASE StartFails(t)
  BY <1>14 DEF StartFails
<1>15. CASE ~(\/ Push(t) \/ Guess(t) \/ FindRef(t) \/ SizeCheckFails(t) \/ StartThread(t)
              \/ ReadsActive(t) \/ EnoughThreads(t) \/ StartFails(t))
  <2>1. /\ work' = work /\ threadList' = threadList
        /\ Lookers \subseteq Lookers' /\ Ensuring \subseteq Ensuring'
    BY <1>15, GuessFrames
  <2>2. Guessing \subseteq Guessing'
    <3>1. CASE Add(t)
      <4>1. t \in Clients /\ pc' = [pc EXCEPT ![t] = "push"] /\ t \notin Guessing
        BY <3>1 DEF Add, Goto, Guessing
      <4>2. Moved(Guessing, Guessing', t, "push", {"release", "guess"})
        BY <4>1, MovedSets
      <4> QED BY <4>1, <4>2 DEF Moved
    <3> QED BY <1>15, <3>1, GuessFrames
  <2>3. /\ G <= Cardinality(Guessing') /\ L <= Cardinality(Lookers')
        /\ E <= Cardinality(Ensuring') /\ work <= G + L + E
    BY <1>4, <1>7, <2>1, <2>2
  <2> HIDE DEF G, L, E, W
  <2> QED BY <1>1, <1>6, <2>1, <2>3
<1> QED BY <1>8, <1>9, <1>10, <1>11, <1>12, <1>13, <1>14, <1>15

\* The guess is right from the first call to the last.
LEMMA GuessInductive ==
  /\ Init => GuessInv
  /\ GuessInv /\ IInv /\ [Next]_vars => GuessInv'
<1>1. Init => GuessInv
  <2> SUFFICES ASSUME Init PROVE GuessInv
    OBVIOUS
  <2>1. /\ Pushing = {} /\ Guessing = {} /\ Ensuring = {} /\ Counting = {} /\ Lookers = {}
        /\ \A c \in Clients : mine[c] = 0
    BY ThreadsApart
       DEF Init, Pushing, Guessing, Ensuring, Counting, Lookers, Looking, Threads
  <2>2. Cardinality(Pushing) = 0 /\ Cardinality(Counting) = 0
    BY <2>1, FS_EmptySet
  <2>3. Turns /\ InTurn
    BY <2>1 DEF Init, Turns, InTurn
  <2>4. Balance
    BY <2>2 DEF Init, Balance
  <2>5. Attended
    <3>1. /\ Cardinality(Guessing) \in Nat /\ Cardinality(Lookers) \in Nat
          /\ Cardinality(Ensuring) \in Nat
      BY CallsFinite
    <3> QED BY <3>1 DEF Init, Attended
  <2> QED BY <2>3, <2>4, <2>5 DEF GuessInv
<1>2. ASSUME GuessInv, IInv, [Next]_vars PROVE GuessInv'
  <2>1. CASE UNCHANGED vars
    BY <1>2, <2>1
       DEF vars, taskQueues, pool, counts, ghosts, GuessInv, Closing, Turns, InTurn, Balance,
           Attended, Pushing, Guessing, Ensuring, Lookers, Later, Counting
  <2>2. ASSUME NEW t \in Threads, Step(t) PROVE GuessInv'
    <3> SUFFICES ASSUME ~Closing'
                 PROVE  /\ Turns' /\ Balance' /\ (~overtaken' => InTurn')
                        /\ ~overtaken' /\ ~failed' => Attended'
      BY DEF GuessInv
    <3>1. ~Closing
      BY <1>2, <2>2, GuessFrames
    <3>2. /\ Turns /\ Balance
          /\ ~overtaken => InTurn
          /\ ~overtaken /\ ~failed => Attended
      BY <1>2, <3>1 DEF GuessInv
    <3>3. Turns' /\ (~overtaken' => InTurn')
      BY <1>2, <2>2, <3>2, TurnsInductive
    <3>4. Balance'
      BY <1>2, <2>2, <3>2, BalanceInductive
    <3>5. ~overtaken' /\ ~failed' => Attended'
      BY <1>2, <2>2, <3>2, AttendedInductive
    <3> QED BY <3>3, <3>4, <3>5
  <2> QED BY <1>2, <2>1, <2>2 DEF Next, Step
<1> QED BY <1>1, <1>2

\* With no call under way the references in the queue have as many workers about to look,
\* unless all threads are up, or a guess was made out of turn, or a thread did not start.
THEOREM RefsAreAttended == SafeSpec => []RefsHaveThreads
<1>1. ASSUME IInv, GuessInv PROVE RefsHaveThreads
  <2> SUFFICES ASSUME Settled, ~overtaken, ~failed
               PROVE  \/ activeThreads >= maxThreads
                      \/ work <= Cardinality(Lookers)
    BY DEF RefsHaveThreads, Lookers
  <2>1. ~Closing /\ lock = Nobody /\ \A c \in Clients : pc[c] = "idle"
    BY DEF Settled
  <2>2. Guessing = {} /\ Ensuring = {}
    BY <2>1 DEF Guessing, Ensuring
  <2>3. Cardinality(Guessing) = 0 /\ Cardinality(Ensuring) = 0
    BY <2>2, FS_EmptySet
  <2>4. maxThreads > 0 /\ maxThreads \in Nat
    BY <1>1, <2>1, NobodyStops
  <2>5. activeThreads \in Nat /\ activeThreads + 0 = Cardinality(threadList)
    BY <1>1, <2>1, <2>4 DEF IInv, Pool, TypeOK
  <2>6. \/ maxThreads <= Cardinality(threadList)
        \/ work <= 0 + Cardinality(Lookers) + 0
    BY <1>1, <2>1, <2>3 DEF GuessInv, Attended
  <2> QED BY <2>4, <2>5, <2>6, CallsFinite
<1> QED BY <1>1, Inductive, GuessInductive, PTL DEF SafeSpec
=============================================================================
