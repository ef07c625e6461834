----------------------- MODULE PrioritySemQueueProofs -----------------------
(***************************************************************************)
(* PrioritySemQueue for any number of threads, elements, priorities and    *)
(* adds and every kind of queue: types and readCount_ first, then that     *)
(* priorities are respected, then that no taker is left on the semaphore.  *)
(* The last counts: for every level, what waits there or above is no more  *)
(* than the tokens, the adders that owe one, and the takers that have yet  *)
(* to look there.                                                          *)
(***************************************************************************)
EXTENDS PrioritySemQueue, FiniteSetTheorems, TLAPS

\* Adders add and takers take, and takers are remembered.
Placed == /\ \A t \in Adders : pc[t] \in {"idle", "loadPop", "push", "write", "release"}
          /\ \A t \in Takers : pc[t] \in {"idle", "scan", "pop", "read", "acquire",
                                          "uncount", "lastChance", "recount"}
          /\ \A t \in Takers : pc[t] # "idle" => t \in callers

\* No element is added twice: not to the log, where its place is the only one,
Distinct == \A l1, l2 \in Levels : \A i1 \in 1..Len(log[l1]), i2 \in 1..Len(log[l2]) :
              log[l1][i1] = log[l2][i2] => l1 = l2 /\ i1 = i2

\* and not by two adders, each of which has an element that is not in the log before it
\* pushes it, and not written before it writes it.
Held == \A t \in Adders :
          /\ pc[t] # "idle" => /\ elem[t] \in Elements
                               /\ \A u \in Adders \ {t} : elem[u] # elem[t]
          /\ pc[t] \in {"loadPop", "push"} => elem[t] \notin Added
          /\ pc[t] = "write" => elem[t] \notin written
          /\ pc[t] \in {"write", "release"} =>
               \E i \in 1..Len(log[level[t]]) : log[level[t]][i] = elem[t]

\* The elements that wait to be claimed, and those that were
Waiting == UNION {Unclaimed(l) : l \in Levels}
Taken == Added \ Waiting
After == {t \in Takers : pc[t] \in {"scan", "pop", "acquire", "uncount"}}

BaseInv == /\ TypeOK /\ claimed \in [Levels -> Nat]
           /\ Placed /\ Distinct /\ Held
           /\ IsFiniteSet(Taken) /\ ReadersCounted

Step(t) == Call(t) \/ Progress(t) \/ TimeOut(t)

\* Threads are finitely many, and adders are no takers.
LEMMA ThreadsFinite ==
  /\ IsFiniteSet(Adders) /\ IsFiniteSet(Takers) /\ Adders \cap Takers = {}
  /\ NoElement \notin Elements
  /\ NumPriorities \in Nat /\ NumPriorities >= 1 /\ Capacity \in Nat /\ Capacity >= 1
  /\ 0 \in Levels /\ NumPriorities - 1 \in Levels /\ Levels \subseteq Nat
<1>1. IsFiniteSet(Adders) /\ IsFiniteSet(Takers)
  <2>1. Adders \subseteq Adders \cup Takers /\ Takers \subseteq Adders \cup Takers
    OBVIOUS
  <2> QED BY <2>1, FS_Subset, PrioritySemQueueAssumption DEF PrioritySemQueueAssumption
<1> QED BY <1>1, PrioritySemQueueAssumption DEF PrioritySemQueueAssumption, Levels

\* Whatever the priority, there is a queue for it.
LEMMA LevelExists == \A p \in Priorities : LevelOf(p) \in Levels
<1> TAKE p \in Priorities
<1>1. p \in Int /\ NumPriorities \in Nat /\ NumPriorities >= 1
  BY PrioritySemQueueAssumption DEF PrioritySemQueueAssumption
<1>2. NumPriorities \div 2 \in Nat /\ NumPriorities \div 2 <= NumPriorities - 1
  BY <1>1
<1> QED BY <1>1, <1>2 DEF LevelOf, Levels

\* What one element more or less does to the size of a set
LEMMA OneMore ==
  ASSUME NEW S, IsFiniteSet(S), NEW x
  PROVE  /\ Cardinality(S) \in Nat
         /\ IsFiniteSet(S \cup {x}) /\ IsFiniteSet(S \ {x})
         /\ x \notin S => Cardinality(S \cup {x}) = Cardinality(S) + 1
         /\ x \in S => Cardinality(S \ {x}) = Cardinality(S) - 1 /\ Cardinality(S) >= 1
         /\ \A R \in SUBSET S : Cardinality(R) \in Nat /\ Cardinality(R) <= Cardinality(S)
<1>1. Cardinality(S) \in Nat
  BY FS_CardinalityType
<1>2. IsFiniteSet(S \cup {x}) /\ (x \notin S => Cardinality(S \cup {x}) = Cardinality(S) + 1)
  BY FS_AddElement
<1>3. ASSUME x \in S PROVE Cardinality(S \ {x}) = Cardinality(S) - 1 /\ Cardinality(S) >= 1
  <2>1. Cardinality(S \ {x}) = Cardinality(S) - 1 /\ IsFiniteSet(S \ {x})
    BY <1>3, FS_RemoveElement
  <2>2. Cardinality(S \ {x}) \in Nat
    BY <2>1, FS_CardinalityType
  <2> QED BY <1>1, <2>1, <2>2
<1>4. \A R \in SUBSET S : Cardinality(R) \in Nat /\ Cardinality(R) <= Cardinality(S)
  BY FS_Subset, FS_CardinalityType
<1>5. IsFiniteSet(S \ {x})
  BY FS_Subset
<1> QED BY <1>1, <1>2, <1>3, <1>4, <1>5

\* Only Push() and Claim() touch the tickets, Write() and Read() the slots.
LEMMA Frames ==
  ASSUME NEW t, Step(t)
  PROVE  /\ ~Push(t) => log' = log
         /\ ~Claim(t) => claimed' = claimed
         /\ ~Write(t) => written' = written
         /\ ~Read(t) => read' = read
         /\ kind' = kind
BY DEF Step, Call, Progress, Add, Take, LoadPop, Push, Throw, Write, Release, LoadPush,
   Claim,
       FindEmpty, Read, Acquire, Uncount, LastChance, Recount, TakeNothing, TimeOut,
       StartScan, queues

\* A push puts the element of the thread behind the others of its level.
LEMMA PushEffect ==
  ASSUME BaseInv, NEW t \in Threads, Push(t)
  PROVE  /\ t \in Adders /\ level[t] \in Levels /\ elem[t] \in Elements
         /\ elem[t] \notin Added
         /\ log' \in [Levels -> Seq(Elements)]
         /\ \A l \in Levels : /\ Len(log[l]) \in Nat
                              /\ Len(log'[l]) = IF l = level[t] THEN Len(log[l]) + 1
                                                                ELSE Len(log[l])
                              /\ \A i \in 1..Len(log[l]) : log'[l][i] = log[l][i]
         /\ log'[level[t]][Len(log[level[t]]) + 1] = elem[t]
         /\ claimed' = claimed
<1>1. t \in Adders /\ level[t] \in Levels /\ elem[t] \in Elements /\ elem[t] \notin Added
  BY DEF BaseInv, TypeOK, Placed, Held, Push, Goto, Threads
<1>2. log \in [Levels -> Seq(Elements)]
  BY DEF BaseInv, TypeOK
<1>3. log' = [log EXCEPT ![level[t]] = Append(log[level[t]], elem[t])] /\ claimed' = claimed
  BY DEF Push
<1>4. \A l \in Levels : log[l] \in Seq(Elements)
  BY <1>2
<1>5. /\ Append(log[level[t]], elem[t]) \in Seq(Elements)
      /\ Len(Append(log[level[t]], elem[t])) = Len(log[level[t]]) + 1
      /\ \A i \in 1..Len(log[level[t]]) :
           Append(log[level[t]], elem[t])[i] = log[level[t]][i]
      /\ Append(log[level[t]], elem[t])[Len(log[level[t]]) + 1] = elem[t]
  BY <1>1, <1>4
<1>6. \A l \in Levels : Len(log[l]) \in Nat
  BY <1>4
<1>7. \A l \in Levels : log'[l] = IF l = level[t] THEN Append(log[level[t]], elem[t]) ELSE log[l]
  BY <1>1, <1>2, <1>3
<1>8. log' \in [Levels -> Seq(Elements)]
  BY <1>2, <1>3, <1>5
<1> QED BY <1>1, <1>3, <1>5, <1>6, <1>7, <1>8

\* A claim takes the next element of the taker's level.
LEMMA ClaimEffect ==
  ASSUME BaseInv, NEW t \in Threads, Claim(t)
  PROVE  /\ t \in Takers /\ level[t] \in Levels /\ pc[t] \in {"scan", "pop"}
         /\ claimed[level[t]] \in Nat
         /\ claimed[level[t]] + 1 \in 1..Len(log[level[t]])
         /\ claimed' = [claimed EXCEPT ![level[t]] = claimed[level[t]] + 1]
         /\ elem' = [elem EXCEPT ![t] = log[level[t]][claimed[level[t]] + 1]]
         /\ log[level[t]][claimed[level[t]] + 1] \in Elements
         /\ log' = log /\ pc' = [pc EXCEPT ![t] = "read"]
<1>1. pc[t] \in {"scan", "pop"}
  BY DEF Claim, Looked
<1>2. t \in Takers /\ level[t] \in Levels
  BY <1>1, ThreadsFinite DEF BaseInv, TypeOK, Placed, Threads
<1>3. log[level[t]] \in Seq(Elements) /\ claimed[level[t]] \in Nat
  BY <1>2 DEF BaseInv, TypeOK
<1>4. PICK last \in 0..Len(log[level[t]]) : claimed[level[t]] < last
  BY DEF Claim
<1>5. claimed[level[t]] + 1 \in 1..Len(log[level[t]])
  BY <1>3, <1>4
<1>6. log[level[t]][claimed[level[t]] + 1] \in Elements
  BY <1>3, <1>5
<1> QED BY <1>1, <1>2, <1>3, <1>5, <1>6 DEF Claim

\* What is in the log and what is claimed, in terms of places
LEMMA InLog ==
  ASSUME BaseInv
  PROVE  /\ \A e : e \in Added <=> \E l \in Levels : \E i \in 1..Len(log[l]) : e = log[l][i]
         /\ \A e : e \in Waiting <=> \E l \in Levels : \E i \in claimed[l] + 1..Len(log[l]) :
                                        e = log[l][i]
         /\ \A l \in Levels : Len(log[l]) \in Nat /\ claimed[l] \in Nat /\ log[l] \in Seq(Elements)
         /\ \A l \in Levels : \A i \in claimed[l] + 1..Len(log[l]) : i \in 1..Len(log[l])
         /\ \A l \in Levels : DOMAIN log[l] = 1..Len(log[l])
<1>1. \A l \in Levels : /\ log[l] \in Seq(Elements) /\ Len(log[l]) \in Nat
                        /\ DOMAIN log[l] = 1..Len(log[l])
                        /\ claimed[l] \in Nat
  BY DEF BaseInv, TypeOK
<1>2. \A l \in Levels : \A i \in claimed[l] + 1..Len(log[l]) : i \in 1..Len(log[l])
  BY <1>1
<1> QED BY <1>1, <1>2 DEF Added, Waiting, Unclaimed

\* Who takes an element takes it from those that wait.
LEMMA TakenSteps ==
  ASSUME BaseInv, NEW t \in Threads, Step(t)
  PROVE  /\ Push(t) => /\ Added' = Added \cup {elem[t]}
                       /\ Waiting' = Waiting \cup {elem[t]} /\ Taken' = Taken
         /\ Claim(t) => /\ Added' = Added
                        /\ log[level[t]][claimed[level[t]] + 1] \notin Taken
                        /\ Taken' = Taken \cup {log[level[t]][claimed[level[t]] + 1]}
         /\ ~Push(t) /\ ~Claim(t) => Added' = Added /\ Waiting' = Waiting /\ Taken' = Taken
<1>1. ASSUME Push(t) PROVE /\ Added' = Added \cup {elem[t]}
                           /\ Waiting' = Waiting \cup {elem[t]} /\ Taken' = Taken
  <2> DEFINE m == level[t]
             e == elem[t]
  <2>1. /\ m \in Levels /\ e \notin Added
        /\ log' \in [Levels -> Seq(Elements)] /\ claimed' = claimed
        /\ \A l \in Levels : /\ Len(log[l]) \in Nat
                             /\ Len(log'[l]) = IF l = m THEN Len(log[l]) + 1 ELSE Len(log[l])
                             /\ \A i \in 1..Len(log[l]) : log'[l][i] = log[l][i]
        /\ log'[m][Len(log[m]) + 1] = e
    BY <1>1, PushEffect
  <2> HIDE DEF m, e
  <2>2. \A l \in Levels : DOMAIN log'[l] = 1..Len(log'[l])
    BY <2>1
  <2>3. /\ \A x : x \in Added' <=> \E l \in Levels : \E i \in 1..Len(log'[l]) : x = log'[l][i]
        /\ \A x : x \in Waiting' <=>
                    \E l \in Levels : \E i \in claimed[l] + 1..Len(log'[l]) : x = log'[l][i]
    BY <2>1, <2>2 DEF Added, Waiting, Unclaimed
  <2>4. \A l \in Levels : claimed[l] \in Nat /\ claimed[l] <= Len(log[l])
    BY DEF BaseInv, TypeOK
  <2>5. Added' = Added \cup {e}
    <3>1. ASSUME NEW x \in Added' PROVE x \in Added \cup {e}
      <4>1. PICK l \in Levels : \E i \in 1..Len(log'[l]) : x = log'[l][i]
        BY <2>3
      <4>2. PICK i \in 1..Len(log'[l]) : x = log'[l][i]
        BY <4>1
      <4>3. CASE i \in 1..Len(log[l])
        BY <2>1, <2>4, <4>2, <4>3, InLog
      <4>4. CASE i \notin 1..Len(log[l])
        BY <2>1, <2>4, <4>2, <4>4
      <4> QED BY <4>3, <4>4
    <3>2. ASSUME NEW x \in Added PROVE x \in Added'
      <4>1. PICK l \in Levels : \E i \in 1..Len(log[l]) : x = log[l][i]
        BY InLog
      <4>2. PICK i \in 1..Len(log[l]) : x = log[l][i]
        BY <4>1
      <4>3. i \in 1..Len(log'[l]) /\ x = log'[l][i]
        BY <2>1, <2>4, <4>2
      <4> QED BY <2>3, <4>3
    <3>3. e \in Added'
      <4>1. Len(log[m]) + 1 \in 1..Len(log'[m])
        BY <2>1, <2>4
      <4> QED BY <2>1, <2>3, <4>1
    <3> QED BY <3>1, <3>2, <3>3
  <2>6. Waiting' = Waiting \cup {e}
    <3>1. ASSUME NEW x \in Waiting' PROVE x \in Waiting \cup {e}
      <4>1. PICK l \in Levels : \E i \in claimed[l] + 1..Len(log'[l]) : x = log'[l][i]
        BY <2>3
      <4>2. PICK i \in claimed[l] + 1..Len(log'[l]) : x = log'[l][i]
        BY <4>1
      <4>3. CASE i \in claimed[l] + 1..Len(log[l])
        BY <2>1, <2>4, <4>2, <4>3, InLog
      <4>4. CASE i \notin claimed[l] + 1..Len(log[l])
        BY <2>1, <2>4, <4>2, <4>4
      <4> QED BY <4>3, <4>4
    <3>2. ASSUME NEW x \in Waiting PROVE x \in Waiting'
      <4>1. PICK l \in Levels : \E i \in claimed[l] + 1..Len(log[l]) : x = log[l][i]
        BY InLog
      <4>2. PICK i \in claimed[l] + 1..Len(log[l]) : x = log[l][i]
        BY <4>1
      <4>3. i \in claimed[l] + 1..Len(log'[l]) /\ x = log'[l][i]
        BY <2>1, <2>4, <4>2
      <4> QED BY <2>3, <4>3
    <3>3. e \in Waiting'
      <4>1. Len(log[m]) + 1 \in claimed[m] + 1..Len(log'[m])
        BY <2>1, <2>4
      <4> QED BY <2>1, <2>3, <4>1
    <3> QED BY <3>1, <3>2, <3>3
  <2>7. Taken' = Taken
    BY <2>1, <2>5, <2>6 DEF Taken
  <2> QED BY <2>5, <2>6, <2>7 DEF e
<1>2. ASSUME Claim(t) PROVE /\ Added' = Added
                            /\ log[level[t]][claimed[level[t]] + 1] \notin Taken
                            /\ Taken' = Taken \cup {log[level[t]][claimed[level[t]] + 1]}
  <2> DEFINE m == level[t]
             c == claimed[m]
             e == log[m][c + 1]
  <2>1. /\ m \in Levels /\ c \in Nat /\ c + 1 \in 1..Len(log[m])
        /\ claimed' = [claimed EXCEPT ![m] = c + 1] /\ log' = log
    BY <1>2, ClaimEffect
  <2>2. Added' = Added
    BY <2>1 DEF Added
  <2>3. e \in Waiting /\ e \in Added
    <3>1. c + 1 \in c + 1..Len(log[m])
      BY <2>1
    <3> QED BY <2>1, <3>1, InLog
  <2>4. \A l \in Levels : claimed'[l] = IF l = m THEN c + 1 ELSE claimed[l]
    BY <2>1 DEF BaseInv
  <2>5. \A x : x \in Waiting' <=>
                 \E l \in Levels : \E i \in claimed'[l] + 1..Len(log[l]) : x = log[l][i]
    BY <2>1 DEF Waiting, Unclaimed
  <2>6. \A l \in Levels, i \in Nat :
          i \in claimed'[l] + 1..Len(log[l])
            <=> i \in claimed[l] + 1..Len(log[l]) /\ ~(l = m /\ i = c + 1)
    BY <2>1, <2>4, InLog
  <2>7. \A l \in Levels : \A i \in 1..Len(log[l]) : log[l][i] = e => l = m /\ i = c + 1
    BY <2>1 DEF BaseInv, Distinct
  <2> HIDE DEF c, e, m
  <2>8. Waiting' = Waiting \ {e}
    <3>1. ASSUME NEW x \in Waiting' PROVE x \in Waiting \ {e}
      <4>0. PICK l \in Levels : \E i \in claimed'[l] + 1..Len(log[l]) : x = log[l][i]
        BY <2>5, <3>1
      <4>1. PICK i \in claimed'[l] + 1..Len(log[l]) : x = log[l][i]
        BY <4>0
      <4>2. i \in Nat
        BY <2>1, <2>4, <4>1, InLog
      <4> QED BY <2>6, <2>7, <4>1, <4>2, InLog
    <3>2. ASSUME NEW x \in Waiting, x # e PROVE x \in Waiting'
      <4>0. PICK l \in Levels : \E i \in claimed[l] + 1..Len(log[l]) : x = log[l][i]
        BY <3>2, InLog
      <4>1. PICK i \in claimed[l] + 1..Len(log[l]) : x = log[l][i]
        BY <4>0
      <4>2. i \in Nat /\ ~(l = m /\ i = c + 1)
        BY <3>2, <4>1, InLog DEF e
      <4> QED BY <2>5, <2>6, <4>1, <4>2
    <3> QED BY <3>1, <3>2
  <2>9. e \notin Taken /\ Taken' = Taken \cup {e}
    BY <2>2, <2>3, <2>8 DEF Taken
  <2> QED BY <2>2, <2>9 DEF e, c, m
<1>3. ASSUME ~Push(t), ~Claim(t) PROVE Added' = Added /\ Waiting' = Waiting /\ Taken' = Taken
  BY <1>3, Frames DEF Added, Waiting, Taken, Unclaimed
<1> QED BY <1>1, <1>2, <1>3

\* readCount_ counts what was taken and who is after something.
LEMMA ReadersInductive ==
  ASSUME BaseInv, NEW t \in Threads, Step(t)
  PROVE  IsFiniteSet(Taken') /\ ReadersCounted' /\ readCount' \in Nat
<1>1. /\ readCount = Cardinality(Taken) + Cardinality(After)
      /\ IsFiniteSet(Taken) /\ Cardinality(Taken) \in Nat
      /\ IsFiniteSet(After) /\ Cardinality(After) \in Nat
  <2>1. After \subseteq Takers
    BY DEF After
  <2> QED BY <2>1, ThreadsFinite, FS_Subset, FS_CardinalityType
      DEF BaseInv, ReadersCounted, Taken, Waiting, After
<1>2. pc \in [Threads -> Labels] /\ t \in Threads
  BY DEF BaseInv, TypeOK
<1> SUFFICES /\ IsFiniteSet(Taken')
             /\ readCount' = Cardinality(Taken') + Cardinality(After') /\ readCount' \in Nat
  BY DEF ReadersCounted, Taken, Waiting, After
<1>3. CASE Take(t, TRUE) \/ Take(t, FALSE) \/ Recount(t)
  <2>1. t \in Takers /\ t \notin After
    BY <1>3, ThreadsFinite
       DEF Take, Recount, StartScan, Goto, After, BaseInv, Placed, Threads
  <2>2. After' = After \cup {t}
    <3>1. \A u \in Takers : pc'[u] = IF u = t THEN "scan" ELSE pc[u]
      BY <1>2, <1>3 DEF Take, Recount, StartScan, Goto, Threads
    <3> QED BY <2>1, <3>1 DEF After
  <2>3. Taken' = Taken /\ readCount' = readCount + 1
    <3>1. ~Push(t) /\ ~Claim(t)
      BY <1>3 DEF Take, Recount, StartScan, Goto, Push, Claim, Looked
    <3> QED BY <1>3, <3>1, TakenSteps DEF Take, Recount
  <2>4. Cardinality(After') = Cardinality(After) + 1
    BY <1>1, <2>1, <2>2, OneMore
  <2> QED BY <1>1, <2>3, <2>4
<1>4. CASE Uncount(t)
  <2>1. t \in Takers /\ t \in After
    BY <1>4, ThreadsFinite
       DEF Uncount, Goto, After, BaseInv, Placed, Threads
  <2>2. After' = After \ {t}
    <3>1. \A u \in Takers : pc'[u] = IF u = t THEN "lastChance" ELSE pc[u]
      BY <1>2, <1>4 DEF Uncount, Goto, Threads
    <3> QED BY <2>1, <3>1 DEF After
  <2>3. Taken' = Taken /\ readCount' = readCount - 1
    <3>1. ~Push(t) /\ ~Claim(t)
      BY <1>4 DEF Uncount, Goto, Push, Claim, Looked
    <3> QED BY <1>4, <3>1, TakenSteps DEF Uncount
  <2>4. Cardinality(After') = Cardinality(After) - 1 /\ Cardinality(After) >= 1
    BY <1>1, <2>1, <2>2, OneMore
  <2> QED BY <1>1, <2>3, <2>4
<1>5. CASE Claim(t)
  <2> DEFINE e == log[level[t]][claimed[level[t]] + 1]
  <2>1. e \notin Taken /\ Taken' = Taken \cup {e}
    BY <1>5, TakenSteps
  <2>2. t \in Takers /\ t \in After
    BY <1>5, ClaimEffect DEF After
  <2>3. After' = After \ {t}
    <3>1. \A u \in Takers : pc'[u] = IF u = t THEN "read" ELSE pc[u]
      BY <1>2, <1>5, ClaimEffect DEF Threads
    <3> QED BY <2>2, <3>1 DEF After
  <2>4. readCount' = readCount
    BY <1>5 DEF Claim, counters
  <2> HIDE DEF e
  <2>5. /\ Cardinality(Taken') = Cardinality(Taken) + 1 /\ IsFiniteSet(Taken')
        /\ Cardinality(After') = Cardinality(After) - 1 /\ Cardinality(After) >= 1
    BY <1>1, <2>1, <2>2, <2>3, OneMore
  <2> QED BY <1>1, <2>4, <2>5
<1>6. CASE /\ ~Take(t, TRUE) /\ ~Take(t, FALSE) /\ ~Recount(t)
           /\ ~Uncount(t) /\ ~Claim(t)
  <2>1. readCount' = readCount
    BY <1>6 DEF Step, Call, Progress, Add, LoadPop, Push, Throw, Write, Release, LoadPush,
       FindEmpty, Read, Acquire, LastChance, TakeNothing, TimeOut, counters
  <2>2. After' = After
    <3>1. \A u \in Takers : u \in After' <=> u \in After
      <4> USE <1>2, <1>6, ThreadsFinite DEF After, Goto, BaseInv, Placed, Threads
      <4>1. CASE \/ \E p \in Priorities : Add(t, p)
                 \/ LoadPop(t) \/ Push(t) \/ Throw(t) \/ Write(t) \/ Release(t)
        BY <4>1 DEF Add, LoadPop, Push, Throw, Write, Release
      <4>2. CASE \/ LoadPush(t) \/ FindEmpty(t) \/ Read(t) \/ Acquire(t)
                 \/ LastChance(t) \/ TakeNothing(t) \/ TimeOut(t)
        BY <4>2 DEF LoadPush, FindEmpty, Looked, Read, Acquire, StartScan, LastChance,
           TakeNothing, TimeOut
      <4> QED BY <4>1, <4>2 DEF Step, Call, Progress
    <3> QED BY <3>1 DEF After
  <2>3. Taken' = Taken
    BY <1>6, TakenSteps
  <2> QED BY <1>1, <2>1, <2>2, <2>3
<1> QED BY <1>3, <1>4, <1>5, <1>6

\* Where threads are and what they have in hand
LEMMA LocalsTyped ==
  ASSUME BaseInv, NEW t \in Threads, Step(t)
  PROVE  /\ pc' \in [Threads -> Labels] /\ elem' \in [Threads -> Elements \cup {NoElement}]
         /\ level' \in [Threads -> Levels] /\ seen' \in [Threads -> Nat]
         /\ timed' \in [Threads -> BOOLEAN] /\ present' \in [Threads -> SUBSET Elements]
         /\ callers' \subseteq Takers /\ callers \subseteq callers'
         /\ sem' \in Nat /\ writeCount' \in Nat
         /\ Placed'
         /\ \A u \in Threads \ {t} : /\ pc'[u] = pc[u] /\ elem'[u] = elem[u]
                                     /\ level'[u] = level[u] /\ seen'[u] = seen[u]
                                     /\ present'[u] = present[u]
<1> DEFINE Goal ==
      /\ pc' \in [Threads -> Labels] /\ elem' \in [Threads -> Elements \cup {NoElement}]
      /\ level' \in [Threads -> Levels] /\ seen' \in [Threads -> Nat]
      /\ timed' \in [Threads -> BOOLEAN] /\ present' \in [Threads -> SUBSET Elements]
      /\ callers' \subseteq Takers /\ callers \subseteq callers'
      /\ sem' \in Nat /\ writeCount' \in Nat
      /\ Placed'
      /\ \A u \in Threads \ {t} : /\ pc'[u] = pc[u] /\ elem'[u] = elem[u]
                                  /\ level'[u] = level[u] /\ seen'[u] = seen[u]
                                  /\ present'[u] = present[u]
<1>1. /\ UNION {Unclaimed(l) : l \in Levels} \subseteq Elements
      /\ \A l \in Levels : Len(log[l]) \in Nat /\ claimed[l] \in Nat
  <2>1. Waiting \subseteq Elements
    BY InLog
  <2> QED BY <2>1, InLog DEF Waiting
<1>2. /\ pc \in [Threads -> Labels] /\ elem \in [Threads -> Elements \cup {NoElement}]
      /\ level \in [Threads -> Levels] /\ seen \in [Threads -> Nat]
      /\ timed \in [Threads -> BOOLEAN] /\ present \in [Threads -> SUBSET Elements]
      /\ callers \subseteq Takers /\ sem \in Nat /\ writeCount \in Nat
      /\ Placed
  BY DEF BaseInv, TypeOK
<1>3. Goal
  <2> USE <1>1, <1>2, ThreadsFinite DEF Placed, Threads, Labels, Goto, counters, locals, ghosts
  <2>1. ASSUME NEW p \in Priorities, Add(t, p) PROVE Goal
    BY <2>1, LevelExists DEF Add, Fresh
  <2>2. ASSUME NEW limited \in BOOLEAN, Take(t, limited) PROVE Goal
    BY <2>2 DEF Take, StartScan
  <2>3. ASSUME LoadPop(t) PROVE Goal
    BY <2>3 DEF LoadPop
  <2>4. ASSUME Push(t) PROVE Goal
    BY <2>4 DEF Push
  <2>5. ASSUME Throw(t) PROVE Goal
    BY <2>5 DEF Throw, Forget
  <2>6. ASSUME Write(t) PROVE Goal
    BY <2>6 DEF Write
  <2>7. ASSUME Release(t) PROVE Goal
    BY <2>7 DEF Release, Forget
  <2>8. ASSUME LoadPush(t) PROVE Goal
    BY <2>8 DEF LoadPush
  <2>9. ASSUME Claim(t) PROVE Goal
    BY <2>9, ClaimEffect DEF Claim
  <2>10. ASSUME FindEmpty(t) PROVE Goal
    <3>1. pc[t] \in {"scan", "pop"} /\ t \in Takers
      BY <2>10 DEF FindEmpty, Looked
    <3>2. level[t] # 0 => level[t] - 1 \in Levels
      BY DEF Levels
    <3> QED BY <2>10, <3>1, <3>2 DEF FindEmpty
  <2>11. ASSUME Read(t) PROVE Goal
    BY <2>11 DEF Read, Forget
  <2>12. ASSUME Acquire(t) PROVE Goal
    BY <2>12 DEF Acquire, StartScan
  <2>13. ASSUME Uncount(t) PROVE Goal
    BY <2>13 DEF Uncount
  <2>14. ASSUME LastChance(t) PROVE Goal
    BY <2>14 DEF LastChance
  <2>15. ASSUME Recount(t) PROVE Goal
    BY <2>15 DEF Recount, StartScan
  <2>16. ASSUME TakeNothing(t) PROVE Goal
    BY <2>16 DEF TakeNothing, Forget
  <2>17. ASSUME TimeOut(t) PROVE Goal
    BY <2>17 DEF TimeOut
  <2> QED BY <2>1, <2>2, <2>3, <2>4, <2>5, <2>6, <2>7, <2>8, <2>9, <2>10, <2>11, <2>12,
             <2>13, <2>14, <2>15, <2>16, <2>17 DEF Step, Call, Progress
<1> QED BY <1>3

\* An adder only adds.
LEMMA AdderSteps ==
  ASSUME BaseInv, NEW t \in Adders, Step(t)
  PROVE  \/ \E p \in Priorities : Add(t, p)
         \/ LoadPop(t) \/ Push(t) \/ Throw(t) \/ Write(t) \/ Release(t)
<1>1. pc[t] \in {"idle", "loadPop", "push", "write", "release"} /\ t \notin Takers
  BY ThreadsFinite DEF BaseInv, Placed
<1> QED BY <1>1 DEF Step, Call, Progress, Take, LoadPush, Claim, FindEmpty, Looked, Read,
           Acquire,
           StartScan, Uncount, LastChance, Recount, TakeNothing, TimeOut, Goto

\* A taker only takes.
LEMMA TakerSteps ==
  ASSUME BaseInv, NEW t \in Takers, Step(t)
  PROVE  \/ \E limited \in BOOLEAN : Take(t, limited)
         \/ LoadPush(t) \/ Claim(t) \/ FindEmpty(t) \/ Read(t) \/ Acquire(t)
         \/ Uncount(t) \/ LastChance(t) \/ Recount(t) \/ TakeNothing(t) \/ TimeOut(t)
<1>1. /\ pc[t] \notin {"loadPop", "push", "write", "release"} /\ t \notin Adders
  BY ThreadsFinite DEF BaseInv, Placed
<1> QED BY <1>1 DEF Step, Call, Progress, Add, LoadPop, Push, Throw, Write, Release, Goto

\* Every element has one place, and one adder until it is there.
LEMMA HeldInductive ==
  ASSUME BaseInv, NEW t \in Threads, Step(t)
  PROVE  Distinct' /\ Held'
<1>1. /\ pc \in [Threads -> Labels] /\ elem \in [Threads -> Elements \cup {NoElement}]
      /\ \A u \in Adders : u \in Threads /\ u \notin Takers
      /\ \A u \in Takers : u \in Threads /\ u \notin Adders
      /\ written \subseteq Added
  BY ThreadsFinite DEF BaseInv, TypeOK, Threads
<1>2. \A u \in Threads \ {t} : /\ pc'[u] = pc[u] /\ elem'[u] = elem[u]
                               /\ level'[u] = level[u]
  BY LocalsTyped
<1>3. CASE Push(t)
  <2> DEFINE m == level[t]
             e == elem[t]
  <2>1. /\ m \in Levels /\ e \notin Added /\ e \in Elements /\ t \in Adders
        /\ claimed' = claimed
        /\ \A l \in Levels : /\ Len(log[l]) \in Nat
                             /\ Len(log'[l]) = IF l = m THEN Len(log[l]) + 1 ELSE Len(log[l])
                             /\ \A i \in 1..Len(log[l]) : log'[l][i] = log[l][i]
        /\ log'[m][Len(log[m]) + 1] = e
    BY <1>3, PushEffect
  <2>2. Added' = Added \cup {e}
    BY <1>3, TakenSteps
  <2>3. pc'[t] = "write" /\ elem'[t] = e /\ level'[t] = m /\ written' = written
    BY <1>1, <1>3 DEF Push, Goto, locals
  <2> HIDE DEF m, e
  <2>4. \A l \in Levels : \A i \in 1..Len(log'[l]) :
          \/ i \in 1..Len(log[l]) /\ log'[l][i] = log[l][i]
          \/ l = m /\ i = Len(log[m]) + 1 /\ log'[l][i] = e
    BY <2>1
  <2>5. \A l \in Levels : \A i \in 1..Len(log[l]) : log[l][i] # e /\ i # Len(log[l]) + 1
    BY <2>1, InLog
  <2>6. Distinct'
    <3> SUFFICES ASSUME NEW l1 \in Levels, NEW l2 \in Levels,
                        NEW i1 \in 1..Len(log'[l1]), NEW i2 \in 1..Len(log'[l2]),
                        log'[l1][i1] = log'[l2][i2]
                 PROVE  l1 = l2 /\ i1 = i2
      BY DEF Distinct
    <3>1. CASE i1 \in 1..Len(log[l1]) /\ i2 \in 1..Len(log[l2])
      <4>1. log[l1][i1] = log[l2][i2]
        BY <2>1, <3>1
      <4> QED BY <3>1, <4>1 DEF BaseInv, Distinct
    <3>2. CASE i1 \notin 1..Len(log[l1]) \/ i2 \notin 1..Len(log[l2])
      <4>1. \/ i1 \in 1..Len(log[l1]) /\ log'[l1][i1] = log[l1][i1]
            \/ l1 = m /\ i1 = Len(log[m]) + 1 /\ log'[l1][i1] = e
        BY <2>4
      <4>2. \/ i2 \in 1..Len(log[l2]) /\ log'[l2][i2] = log[l2][i2]
            \/ l2 = m /\ i2 = Len(log[m]) + 1 /\ log'[l2][i2] = e
        BY <2>4
      <4>3. /\ i1 \in 1..Len(log[l1]) => log[l1][i1] # e
            /\ i2 \in 1..Len(log[l2]) => log[l2][i2] # e
        BY <2>5
      <4> QED BY <3>2, <4>1, <4>2, <4>3
    <3> QED BY <3>1, <3>2
  <2>7. Held'
    <3> SUFFICES ASSUME NEW u \in Adders
                 PROVE  /\ pc'[u] # "idle" => /\ elem'[u] \in Elements
                                              /\ \A v \in Adders \ {u} : elem'[v] # elem'[u]
                        /\ pc'[u] \in {"loadPop", "push"} => elem'[u] \notin Added'
                        /\ pc'[u] = "write" => elem'[u] \notin written'
                        /\ pc'[u] \in {"write", "release"} =>
                             \E i \in 1..Len(log'[level'[u]]) : log'[level'[u]][i] = elem'[u]
      BY DEF Held
    <3>1. \A v \in Adders : elem'[v] = elem[v]
      BY <1>1, <1>2, <2>3 DEF e
    <3>2. pc[t] = "push"
      BY <1>3 DEF Push, Goto
    <3>3. CASE u = t
      <4>1. Len(log[m]) + 1 \in 1..Len(log'[m])
        BY <2>1
      <4>2. \A v \in Adders \ {t} : elem[v] # e
        BY <2>1, <3>2 DEF BaseInv, Held, e
      <4> QED BY <1>1, <2>1, <2>3, <3>1, <3>3, <4>1, <4>2
    <3>4. CASE u # t
      <4>1. pc'[u] = pc[u] /\ elem'[u] = elem[u] /\ level'[u] = level[u]
        BY <1>1, <1>2, <3>4
      <4>2. pc[u] # "idle" => elem[u] # e
        BY <2>1, <3>4 DEF BaseInv, Held, e
      <4>3. level[u] \in Levels
        BY <1>1 DEF BaseInv, TypeOK
      <4>4. \A i \in 1..Len(log[level[u]]) :
              i \in 1..Len(log'[level[u]]) /\ log'[level[u]][i] = log[level[u]][i]
        BY <2>1, <4>3
      <4> QED BY <2>2, <2>3, <3>1, <4>1, <4>2, <4>4 DEF BaseInv, Held
    <3> QED BY <3>3, <3>4
  <2> QED BY <2>6, <2>7
<1>4. CASE ~Push(t)
  <2>1. log' = log /\ Added' = Added
    BY <1>4, Frames, TakenSteps
  <2>2. Distinct'
    BY <2>1 DEF BaseInv, Distinct
  <2>3. CASE t \in Takers
    <3>1. \A u \in Adders : pc'[u] = pc[u] /\ elem'[u] = elem[u] /\ level'[u] = level[u]
      BY <1>1, <1>2, <2>3
    <3>2. written' = written
      <4>1. ~Write(t)
        BY <1>1, <2>3 DEF Write, Goto, BaseInv, Placed
      <4> QED BY <4>1, Frames
    <3>3. Held'
      BY <2>1, <3>1, <3>2 DEF BaseInv, Held
    <3> QED BY <2>2, <3>3
  <2>4. CASE \E p \in Priorities : Add(t, p)
    <3>1. PICK p \in Priorities : Add(t, p)
      BY <2>4
    <3>2. PICK e \in Fresh : elem' = [elem EXCEPT ![t] = e]
      BY <3>1 DEF Add
    <3>3. e \in Elements \ Added /\ \A u \in Threads : elem[u] # e
      BY <3>2 DEF Fresh
    <3>4. elem'[t] = e /\ pc'[t] \in {"loadPop", "push"} /\ t \in Adders /\ written' = written
      BY <1>1, <3>1, <3>2 DEF Add, Goto, queues
    <3>5. Held'
      BY <1>1, <1>2, <2>1, <3>3, <3>4 DEF BaseInv, Held
    <3> QED BY <2>2, <3>5
  <2>5. CASE t \in Adders /\ (LoadPop(t) \/ Throw(t) \/ Write(t) \/ Release(t))
    <3>1. CASE LoadPop(t)
      <4>1. /\ pc[t] = "loadPop" /\ pc'[t] = "push" /\ elem'[t] = elem[t]
            /\ written' = written
        BY <1>1, <2>5, <3>1 DEF LoadPop, Goto, queues
      <4>2. Held'
        BY <1>1, <1>2, <2>1, <2>5, <4>1 DEF BaseInv, Held
      <4> QED BY <2>2, <4>2
    <3>2. CASE Throw(t) \/ Release(t)
      <4>1. pc'[t] = "idle" /\ elem'[t] = NoElement /\ written' = written
        BY <1>1, <2>5, <3>2 DEF Throw, Release, Goto, Forget, queues
      <4>2. Held'
        BY <1>1, <1>2, <2>1, <2>5, <4>1, ThreadsFinite DEF BaseInv, Held
      <4> QED BY <2>2, <4>2
    <3>3. CASE Write(t)
      <4>1. /\ pc[t] = "write" /\ pc'[t] = "release" /\ elem'[t] = elem[t]
            /\ level'[t] = level[t] /\ written' = written \cup {elem[t]}
        BY <1>1, <2>5, <3>3 DEF Write, Goto, locals
      <4>2. Held'
        BY <1>1, <1>2, <2>1, <2>5, <4>1 DEF BaseInv, Held
      <4> QED BY <2>2, <4>2
    <3> QED BY <2>5, <3>1, <3>2, <3>3
  <2> QED BY <1>4, <2>3, <2>4, <2>5, AdderSteps DEF Threads
<1> QED BY <1>3, <1>4

\* The tickets and slots are typed: nothing is claimed that was not pushed, or read that
\* was not written.
LEMMA TypeInductive ==
  ASSUME BaseInv, NEW t \in Threads, Step(t)
  PROVE  TypeOK' /\ claimed' \in [Levels -> Nat]
<1>1. /\ log' \in [Levels -> Seq(Elements)]
      /\ \A l \in Levels : Len(log[l]) \in Nat /\ Len(log'[l]) \in Nat
                           /\ Len(log[l]) <= Len(log'[l])
  <2>1. CASE Push(t)
    BY <2>1, PushEffect
  <2>2. CASE ~Push(t)
    BY <2>2, Frames, InLog DEF BaseInv, TypeOK
  <2> QED BY <2>1, <2>2
<1>2. /\ claimed' \in [Levels -> Nat]
      /\ \A l \in Levels : claimed'[l] \in 0..Len(log'[l])
  <2>1. \A l \in Levels : claimed[l] \in 0..Len(log[l])
    BY DEF BaseInv, TypeOK
  <2>2. CASE Claim(t)
    <3>1. /\ level[t] \in Levels /\ claimed[level[t]] + 1 \in 1..Len(log[level[t]])
          /\ claimed' = [claimed EXCEPT ![level[t]] = claimed[level[t]] + 1] /\ log' = log
      BY <2>2, ClaimEffect
    <3>2. claimed \in [Levels -> Nat]
      BY DEF BaseInv
    <3> QED BY <1>1, <2>1, <3>1, <3>2
  <2>3. CASE ~Claim(t)
    BY <1>1, <2>1, <2>3, Frames DEF BaseInv
  <2> QED BY <2>2, <2>3
<1>3. read' \subseteq written' /\ written' \subseteq Added'
  <2>1. read \subseteq written /\ written \subseteq Added /\ Added \subseteq Added'
    BY TakenSteps DEF BaseInv, TypeOK
  <2>2. CASE Write(t)
    <3>1. pc[t] = "write" /\ written' = written \cup {elem[t]} /\ read' = read
      BY <2>2 DEF Write, Goto
    <3>2. t \in Adders
      BY <3>1 DEF BaseInv, Placed, Threads
    <3>3. PICK i \in 1..Len(log[level[t]]) : log[level[t]][i] = elem[t]
      BY <3>1, <3>2 DEF BaseInv, Held
    <3>4. level[t] \in Levels
      BY DEF BaseInv, TypeOK
    <3>5. elem[t] \in Added
      BY <3>3, <3>4, InLog
    <3> QED BY <2>1, <3>1, <3>5
  <2>3. CASE Read(t)
    <3>1. read' = read \cup {elem[t]} /\ elem[t] \in written /\ written' = written
      BY <2>3 DEF Read
    <3> QED BY <2>1, <3>1
  <2>4. CASE ~Write(t) /\ ~Read(t)
    BY <2>1, <2>4, Frames
  <2> QED BY <2>2, <2>3, <2>4
<1>4. kind' \in Kinds
  BY Frames DEF BaseInv, TypeOK
<1>5. readCount' \in Nat
  BY ReadersInductive
<1>6. /\ pc' \in [Threads -> Labels] /\ elem' \in [Threads -> Elements \cup {NoElement}]
      /\ level' \in [Threads -> Levels] /\ seen' \in [Threads -> Nat]
      /\ timed' \in [Threads -> BOOLEAN] /\ present' \in [Threads -> SUBSET Elements]
      /\ callers' \subseteq Takers /\ sem' \in Nat /\ writeCount' \in Nat
  BY LocalsTyped
<1> QED BY <1>1, <1>2, <1>3, <1>4, <1>5, <1>6 DEF TypeOK

\* All of this holds at all times.
LEMMA BaseHolds == SafeSpec => []BaseInv
<1>1. ASSUME Init PROVE BaseInv
  <2>1. \A l \in Levels : log[l] = <<>> /\ claimed[l] = 0
    BY <1>1 DEF Init
  <2>2. \A l \in Levels : Len(log[l]) = 0 /\ DOMAIN log[l] = {}
    BY <2>1
  <2>3. Added = {} /\ Waiting = {} /\ Taken = {}
    BY <2>1, <2>2 DEF Added, Waiting, Taken, Unclaimed
  <2>4. After = {} /\ Cardinality({}) = 0 /\ IsFiniteSet({})
    BY <1>1, FS_EmptySet DEF Init, After, Threads
  <2>5. TypeOK /\ claimed \in [Levels -> Nat]
    <3>1. log \in [Levels -> Seq(Elements)] /\ claimed \in [Levels -> Nat]
      BY <1>1 DEF Init
    <3>2. \A l \in Levels : claimed[l] \in 0..Len(log[l])
      BY <2>1, <2>2
    <3>3. 0 \in Levels
      BY ThreadsFinite
    <3> QED BY <1>1, <3>1, <3>2, <3>3 DEF Init, TypeOK, Labels
  <2>6. Placed /\ Distinct /\ Held
    BY <1>1, <2>2 DEF Init, Placed, Distinct, Held, Threads
  <2>7. IsFiniteSet(Taken) /\ ReadersCounted
    <3>1. readCount = 0
      BY <1>1 DEF Init
    <3>2. readCount = Cardinality(Taken) + Cardinality(After)
      BY <2>3, <2>4, <3>1
    <3> QED BY <2>3, <2>4, <3>2 DEF ReadersCounted, Taken, Waiting, After
  <2> QED BY <2>5, <2>6, <2>7 DEF BaseInv
<1>2. ASSUME BaseInv, [Next]_vars PROVE BaseInv'
  <2>1. CASE UNCHANGED vars
    <3> USE <1>2, <2>1 DEF vars, queues, counters, locals, ghosts
    <3>1. Added' = Added /\ Waiting' = Waiting /\ Taken' = Taken /\ After' = After
      BY DEF Added, Waiting, Taken, After, Unclaimed
    <3>2. TypeOK' /\ (claimed \in [Levels -> Nat])' /\ Placed' /\ Distinct'
      BY <3>1 DEF BaseInv, TypeOK, Placed, Distinct
    <3>3. Held'
      BY <3>1 DEF BaseInv, Held
    <3>4. IsFiniteSet(Taken') /\ ReadersCounted'
      BY DEF BaseInv, ReadersCounted, Taken, Waiting, Added, Unclaimed
    <3> QED BY <3>2, <3>3, <3>4 DEF BaseInv
  <2>2. ASSUME NEW t \in Threads, Step(t) PROVE BaseInv'
    BY <1>2, <2>2, TypeInductive, LocalsTyped, HeldInductive, ReadersInductive DEF BaseInv
  <2> QED BY <1>2, <2>1, <2>2 DEF Next, Step
<1> QED BY <1>1, <1>2, PTL DEF SafeSpec

\* Every reachable state is well typed: no ticket is claimed before it is pushed.
THEOREM TypeCorrect == SafeSpec => []TypeOK
<1>1. BaseInv => TypeOK
  BY DEF BaseInv
<1> QED BY <1>1, BaseHolds, PTL

\* readCount_ is the number of elements taken and of the takers still after one.
THEOREM ReadersAreCounted == SafeSpec => []ReadersCounted
<1>1. BaseInv => ReadersCounted
  BY DEF BaseInv
<1> QED BY <1>1, BaseHolds, PTL
-----------------------------------------------------------------------------
(* Priorities                                                              *)

\* What was there when a taker began to look and still is, is not at the levels it has
\* left behind, nor beyond what it loaded at its own.
Passed == \A t \in Takers :
  /\ present[t] \subseteq Added
  /\ pc[t] \in {"scan", "pop"} =>
       \A l \in Levels : l > level[t] => Unclaimed(l) \cap present[t] = {}
  /\ pc[t] = "pop" =>
       \A i \in 1..Len(log[level[t]]) : i > seen[t] => log[level[t]][i] \notin present[t]

\* A place that waits to be claimed was waiting before, or was just pushed.
LEMMA PlaceSteps ==
  ASSUME BaseInv, NEW t \in Threads, Step(t), NEW l \in Levels,
         NEW i \in claimed'[l] + 1..Len(log'[l])
  PROVE  \/ i \in claimed[l] + 1..Len(log[l]) /\ log'[l][i] = log[l][i]
         \/ Push(t) /\ log'[l][i] = elem[t]
<1>1. /\ Len(log[l]) \in Nat /\ claimed[l] \in Nat /\ log[l] \in Seq(Elements)
  BY InLog
<1>2. CASE Push(t)
  <2>1. /\ claimed' = claimed
        /\ Len(log'[l]) = IF l = level[t] THEN Len(log[l]) + 1 ELSE Len(log[l])
        /\ \A j \in 1..Len(log[l]) : log'[l][j] = log[l][j]
        /\ log'[level[t]][Len(log[level[t]]) + 1] = elem[t]
    BY <1>2, PushEffect
  <2>2. CASE i <= Len(log[l])
    <3>1. i \in claimed[l] + 1..Len(log[l]) /\ i \in 1..Len(log[l])
      BY <1>1, <2>1, <2>2
    <3> QED BY <2>1, <3>1
  <2>3. CASE ~(i <= Len(log[l]))
    <3>1. l = level[t] /\ i = Len(log[l]) + 1
      BY <1>1, <2>1, <2>3
    <3> QED BY <1>2, <2>1, <3>1
  <2> QED BY <2>2, <2>3
<1>3. CASE ~Push(t)
  <2>1. log' = log /\ claimed'[l] \in Nat /\ claimed[l] <= claimed'[l]
    <3>1. CASE Claim(t)
      BY <1>1, <3>1, ClaimEffect DEF BaseInv
    <3>2. CASE ~Claim(t)
      BY <1>1, <1>3, <3>2, Frames
    <3> QED BY <1>3, <3>1, <3>2, Frames
  <2> QED BY <1>1, <2>1
<1> QED BY <1>2, <1>3

\* Only a push adds to what waits at a level.
LEMMA UnclaimedSteps ==
  ASSUME BaseInv, NEW t \in Threads, Step(t), NEW l \in Levels, NEW x \in Unclaimed(l)'
  PROVE  x \in Unclaimed(l) \/ (Push(t) /\ x = elem[t])
<1>1. PICK i \in claimed'[l] + 1..Len(log'[l]) : x = log'[l][i]
  BY DEF Unclaimed
<1> QED BY <1>1, PlaceSteps DEF Unclaimed

\* Takers leave nothing behind that they could have seen.
LEMMA PassedInductive ==
  ASSUME BaseInv, Passed, NEW t \in Threads, Step(t)
  PROVE  Passed'
<1> SUFFICES ASSUME NEW u \in Takers
             PROVE  /\ present'[u] \subseteq Added'
                    /\ pc'[u] \in {"scan", "pop"} =>
                         \A l \in Levels : l > level'[u] => Unclaimed(l)' \cap present'[u] = {}
                    /\ pc'[u] = "pop" =>
                         \A i \in 1..Len(log'[level'[u]]) :
                           i > seen'[u] => log'[level'[u]][i] \notin present'[u]
  BY DEF Passed
<1>1. /\ u \in Threads /\ level[u] \in Levels /\ seen[u] \in Nat
      /\ pc \in [Threads -> Labels] /\ level \in [Threads -> Levels]
      /\ seen \in [Threads -> Nat] /\ present \in [Threads -> SUBSET Elements]
  BY DEF BaseInv, TypeOK, Threads
<1>2. /\ present[u] \subseteq Added /\ Added \subseteq Added'
      /\ Push(t) => elem[t] \notin present[u]
  BY TakenSteps, PushEffect DEF Passed
<1>3. \A l \in Levels : Unclaimed(l) \cap present[u] = {} => Unclaimed(l)' \cap present[u] = {}
  BY <1>2, UnclaimedSteps
<1>4. \A l \in Levels : \A i \in 1..Len(log'[l]) :
        \/ i \in 1..Len(log[l]) /\ log'[l][i] = log[l][i]
        \/ Push(t) /\ log'[l][i] = elem[t]
  <2>1. CASE Push(t)
    BY <2>1, PushEffect
  <2>2. CASE ~Push(t)
    BY <2>2, Frames
  <2> QED BY <2>1, <2>2
\* The taker stays where it is, or begins to read what was loaded.
<1>5. ASSUME /\ present'[u] = present[u] /\ level'[u] = level[u]
             /\ pc'[u] \in {"scan", "pop"} => pc[u] \in {"scan", "pop"}
             /\ pc'[u] = "pop" => \/ pc[u] = "pop" /\ seen'[u] = seen[u]
                                  \/ ~Push(t) /\ seen'[u] = Len(log[level[u]])
      PROVE  /\ present'[u] \subseteq Added'
             /\ pc'[u] \in {"scan", "pop"} =>
                  \A l \in Levels : l > level'[u] => Unclaimed(l)' \cap present'[u] = {}
             /\ pc'[u] = "pop" =>
                  \A i \in 1..Len(log'[level'[u]]) :
                    i > seen'[u] => log'[level'[u]][i] \notin present'[u]
  <2>1. present'[u] \subseteq Added'
    BY <1>2, <1>5
  <2>2. pc'[u] \in {"scan", "pop"} =>
          \A l \in Levels : l > level'[u] => Unclaimed(l)' \cap present'[u] = {}
    BY <1>3, <1>5 DEF Passed
  <2>3. ASSUME pc'[u] = "pop", NEW i \in 1..Len(log'[level[u]]), i > seen'[u]
        PROVE  log'[level[u]][i] \notin present[u]
    <3>1. \/ i \in 1..Len(log[level[u]]) /\ log'[level[u]][i] = log[level[u]][i]
          \/ Push(t) /\ log'[level[u]][i] = elem[t]
      BY <1>1, <1>4
    <3>2. CASE pc[u] = "pop" /\ seen'[u] = seen[u]
      BY <1>2, <2>3, <3>1, <3>2 DEF Passed
    <3>3. CASE ~Push(t) /\ seen'[u] = Len(log[level[u]])
      <4>1. Len(log[level[u]]) \in Nat /\ i \in 1..Len(log[level[u]])
        BY <1>1, <3>1, <3>3, InLog
      <4> QED BY <2>3, <3>3, <4>1
    <3> QED BY <1>5, <2>3, <3>2, <3>3
  <2> QED BY <1>5, <2>1, <2>2, <2>3
<1>6. CASE u # t
  BY <1>1, <1>5, <1>6, LocalsTyped
<1>7. CASE u = t
  <2>1. ASSUME NEW from, StartScan(t, from)
        PROVE  /\ present'[u] \subseteq Added' /\ pc'[u] = "scan"
               /\ \A l \in Levels : ~(l > level'[u])
    <3>1. present'[u] = Waiting /\ level'[u] = NumPriorities - 1 /\ pc'[u] = "scan"
      BY <1>1, <1>7, <2>1 DEF StartScan, Goto, Waiting
    <3>2. Waiting \subseteq Added
      BY InLog
    <3>3. \A l \in Levels : ~(l > NumPriorities - 1)
      BY ThreadsFinite DEF Levels
    <3> QED BY <1>2, <3>1, <3>2, <3>3
  <2>2. CASE (\E limited \in BOOLEAN : Take(t, limited)) \/ Acquire(t) \/ Recount(t)
    <3>1. \E from : StartScan(t, from)
      BY <2>2 DEF Take, Acquire, Recount
    <3> QED BY <2>1, <3>1
  <2>3. CASE FindEmpty(t)
    <3>1. PICK last \in 0..Len(log[level[t]]) : Looked(t, last) /\ claimed[level[t]] >= last
      BY <2>3 DEF FindEmpty
    <3>2. /\ pc[u] \in {"scan", "pop"}
          /\ pc'[u] = IF level[u] = 0 THEN "acquire" ELSE "scan"
          /\ level'[u] = IF level[u] = 0 THEN 0 ELSE level[u] - 1
          /\ present' = present
      BY <1>1, <1>7, <2>3, <3>1 DEF FindEmpty, Looked, ghosts
    <3>3. Unclaimed(level[u]) \cap present[u] = {}
      <4> SUFFICES ASSUME NEW i \in claimed[level[u]] + 1..Len(log[level[u]])
                   PROVE  log[level[u]][i] \notin present[u]
        BY DEF Unclaimed
      <4>1. /\ Len(log[level[u]]) \in Nat /\ claimed[level[u]] \in Nat
            /\ i \in 1..Len(log[level[u]])
        BY <1>1, InLog
      <4>2. CASE pc[t] = "pop" /\ last = seen[t]
        <5>1. i > seen[u]
          BY <1>1, <1>7, <3>1, <4>1, <4>2
        <5> QED BY <1>7, <4>1, <4>2, <5>1 DEF Passed
      <4>3. CASE last = Len(log[level[t]])
        BY <1>7, <3>1, <4>1, <4>3
      <4> QED BY <3>1, <4>2, <4>3 DEF Looked
    <3>4. \A l \in Levels : l > level[u] - 1 => l > level[u] \/ l = level[u]
      BY <1>1 DEF Levels
    <3>5. \A l \in Levels : level[u] # 0 /\ l > level'[u] => Unclaimed(l)' \cap present[u] = {}
      BY <1>3, <3>2, <3>3, <3>4 DEF Passed
    <3> QED BY <1>2, <3>2, <3>5
  <2>4. CASE LoadPush(t)
    <3>1. ~Push(t)
      BY <2>4 DEF LoadPush, Push, Goto
    <3>2. /\ pc[u] = "scan" /\ pc'[u] = "pop" /\ seen'[u] = Len(log[level[u]])
          /\ present' = present /\ level' = level
      BY <1>1, <1>7, <2>4 DEF LoadPush, Goto, ghosts
    <3> HIDE <1>7
    <3> QED BY <1>5, <3>1, <3>2
  <2>5. CASE Claim(t) \/ Uncount(t) \/ LastChance(t) \/ TimeOut(t)
    BY <1>1, <1>5, <1>7, <2>5
       DEF Claim, Uncount, LastChance, TimeOut, Goto, locals, ghosts
  <2>6. CASE Read(t) \/ TakeNothing(t)
    BY <1>1, <1>7, <2>6 DEF Read, TakeNothing, Forget, Goto
  <2> QED BY <1>7, <2>2, <2>3, <2>4, <2>5, <2>6, TakerSteps
<1> QED BY <1>6, <1>7

\* A taker passes over no element of a higher priority that was there when it began to
\* look.
THEOREM PriorityIsRespected == SafeSpec => PriorityRespected
<1>1. BaseInv /\ Init => Passed
  BY DEF Init, Passed, Threads
<1>2. ASSUME BaseInv, Passed, [Next]_vars PROVE Passed'
  <2>1. CASE UNCHANGED vars
    BY <1>2, <2>1 DEF vars, queues, locals, ghosts, Passed, Added, Unclaimed
  <2> QED BY <1>2, <2>1, PassedInductive DEF Next, Step
<1>3. Passed /\ [Next]_vars =>
        [\A t \in Takers : Claim(t) =>
           \A l \in Levels : l > level[t] => Unclaimed(l) \cap present[t] = {}]_vars
  <2> SUFFICES ASSUME Passed, NEW t \in Takers, Claim(t), NEW l \in Levels, l > level[t]
               PROVE  Unclaimed(l) \cap present[t] = {}
    OBVIOUS
  <2>1. pc[t] \in {"scan", "pop"}
    BY DEF Claim, Looked
  <2> QED BY <2>1 DEF Passed
<1> QED BY <1>1, <1>2, <1>3, BaseHolds, PTL DEF SafeSpec, PriorityRespected
-----------------------------------------------------------------------------
(* Takers on the semaphore                                                 *)

\* The elements that wait at a level or above, the adders that owe a token for theirs,
\* and the takers that will look at the level, or at all of them
Open(k) == UNION {Unclaimed(l) : l \in {m \in Levels : m >= k}}
Owed == {t \in Adders : pc[t] \in {"write", "release"}}
Carriers(k) == {t \in Takers : \/ pc[t] = "recount"
                               \/ pc[t] \in {"scan", "pop"} /\ level[t] >= k}

\* What a taker that has loaded the push ticket does not see, at its level and above
Beyond(t) == LET l == level[t]
             IN Open(l + 1) \cup {log[l][i] : i \in {j \in claimed[l] + 1..Len(log[l]) :
                                                       j > seen[t]}}

OnlyCaller == Cardinality(callers) <= 1

\* For every element that waits there is a token in the semaphore, an adder about to
\* release one, or a taker that has yet to look where the element is,
Served == kind = "dynamic" \/ OnlyCaller =>
            \A k \in 0..NumPriorities :
              Cardinality(Open(k)) <= sem + Cardinality(Owed) + Cardinality(Carriers(k))

\* and not only a taker if it is the only one and does not see the element.
SeenServed == OnlyCaller => \A t \in Takers : pc[t] = "pop" =>
                Cardinality(Beyond(t)) <= sem + Cardinality(Owed)

\* Who pushed an element has yet to write it and who claimed one has yet to read it.
Unread == /\ \A e \in Added \ written : \E t \in Adders : pc[t] = "write" /\ elem[t] = e
          /\ \A e \in Taken \ read : \E t \in Takers : pc[t] = "read" /\ elem[t] = e

TokenInv == BaseInv /\ IsFiniteSet(Waiting) /\ Served /\ SeenServed /\ Unread

\* The sets whose sizes are compared are finite.
SizesKnown == /\ \A k \in Nat : /\ Open(k) \subseteq Waiting /\ IsFiniteSet(Open(k))
                                /\ Cardinality(Open(k)) \in Nat
                                /\ IsFiniteSet(Carriers(k)) /\ Cardinality(Carriers(k)) \in Nat
              /\ IsFiniteSet(Owed) /\ Cardinality(Owed) \in Nat
              /\ \A t \in Takers : /\ Beyond(t) \subseteq Waiting /\ IsFiniteSet(Beyond(t))
                                   /\ Cardinality(Beyond(t)) \in Nat
              /\ IsFiniteSet(callers) /\ Cardinality(callers) \in Nat
              /\ sem \in Nat

\* They are, as they consist of threads or of elements that wait.
LEMMA OpenFinite == BaseInv /\ IsFiniteSet(Waiting) => SizesKnown
<1> SUFFICES ASSUME BaseInv, IsFiniteSet(Waiting) PROVE SizesKnown
  OBVIOUS
<1>1. \A k : Open(k) \subseteq Waiting
  BY DEF Open, Waiting
<1>2. \A t \in Takers : Beyond(t) \subseteq Waiting
  <2> TAKE t \in Takers
  <2>1. level[t] \in Levels
    BY DEF BaseInv, TypeOK, Threads
  <2>2. {log[level[t]][i] : i \in {j \in claimed[level[t]] + 1..Len(log[level[t]]) :
                                     j > seen[t]}} \subseteq Unclaimed(level[t])
    BY DEF Unclaimed
  <2>3. Unclaimed(level[t]) \subseteq Waiting
    BY <2>1 DEF Waiting
  <2> QED BY <1>1, <2>2, <2>3 DEF Beyond
<1>3. (\A k : Carriers(k) \subseteq Takers) /\ Owed \subseteq Adders /\ callers \subseteq Takers
  BY DEF Carriers, Owed, BaseInv, TypeOK
<1>4. IsFiniteSet(Takers) /\ IsFiniteSet(Adders)
  BY ThreadsFinite
<1>5. \A S \in SUBSET Waiting : IsFiniteSet(S) /\ Cardinality(S) \in Nat
  BY FS_Subset, FS_CardinalityType
<1>6. \A S \in SUBSET Takers : IsFiniteSet(S) /\ Cardinality(S) \in Nat
  BY <1>4, FS_Subset, FS_CardinalityType
<1>7. \A S \in SUBSET Adders : IsFiniteSet(S) /\ Cardinality(S) \in Nat
  BY <1>4, FS_Subset, FS_CardinalityType
<1>8. sem \in Nat
  BY DEF BaseInv, TypeOK
<1>9. \A k \in Nat : /\ IsFiniteSet(Open(k)) /\ Cardinality(Open(k)) \in Nat
                     /\ IsFiniteSet(Carriers(k)) /\ Cardinality(Carriers(k)) \in Nat
  BY <1>1, <1>3, <1>5, <1>6
<1>10. \A t \in Takers : IsFiniteSet(Beyond(t)) /\ Cardinality(Beyond(t)) \in Nat
  BY <1>2, <1>5
<1> QED BY <1>1, <1>2, <1>3, <1>6, <1>7, <1>8, <1>9, <1>10 DEF SizesKnown

\* What waits grows by a push and shrinks by a claim.
LEMMA OpenSteps ==
  ASSUME BaseInv, NEW t \in Threads, Step(t), NEW k \in Nat
  PROVE  /\ Push(t) => Open(k)' \subseteq Open(k) \cup {elem[t]}
         /\ ~Push(t) => Open(k)' \subseteq Open(k)
         /\ Claim(t) /\ level[t] >= k =>
              \E e \in Open(k) : Open(k)' \subseteq Open(k) \ {e}
<1>1. \A x \in Open(k)' : x \in Open(k) \/ (Push(t) /\ x = elem[t])
  <2> TAKE x \in Open(k)'
  <2>1. PICK l \in Levels : l >= k /\ x \in Unclaimed(l)'
    BY DEF Open
  <2>2. x \in Unclaimed(l) \/ (Push(t) /\ x = elem[t])
    BY <2>1, UnclaimedSteps
  <2> QED BY <2>1, <2>2 DEF Open
<1>2. ASSUME Claim(t), level[t] >= k
      PROVE  \E e \in Open(k) : Open(k)' \subseteq Open(k) \ {e}
  <2> DEFINE m == level[t]
             e == log[m][claimed[m] + 1]
  <2>1. /\ m \in Levels /\ claimed[m] + 1 \in 1..Len(log[m]) /\ claimed[m] \in Nat
        /\ Len(log[m]) \in Nat
    BY <1>2, ClaimEffect, InLog
  <2>2. e \in Open(k)
    <3>1. claimed[m] + 1 \in claimed[m] + 1..Len(log[m])
      BY <2>1
    <3>2. e \in Unclaimed(m)
      BY <3>1 DEF Unclaimed
    <3> QED BY <1>2, <2>1, <3>2 DEF Open
  <2>3. e \in Taken' /\ ~Push(t)
    <3>1. pc[t] \in {"scan", "pop"}
      BY <1>2, ClaimEffect
    <3>2. ~Push(t)
      BY <3>1 DEF Push, Goto
    <3> QED BY <1>2, <3>2, TakenSteps
  <2>4. e \notin Waiting'
    BY <2>3 DEF Taken
  <2>5. Open(k)' \subseteq Waiting'
    BY DEF Open, Waiting
  <2> HIDE DEF e
  <2> QED BY <1>1, <2>2, <2>3, <2>4, <2>5
<1> QED BY <1>1, <1>2

\* Who pushes owes a token until it is released.
LEMMA OwedSteps ==
  ASSUME BaseInv, NEW t \in Threads, Step(t)
  PROVE  /\ Push(t) => t \notin Owed /\ Owed' = Owed \cup {t} /\ sem' = sem
         /\ Release(t) => t \in Owed /\ Owed' = Owed \ {t} /\ sem' = sem + 1
         /\ ~Push(t) /\ ~Release(t) => Owed' = Owed
         /\ ~Release(t) /\ ~Acquire(t) /\ ~LastChance(t) => sem' = sem
         /\ Acquire(t) \/ LastChance(t) => sem > 0 /\ sem' = sem - 1
<1>1. /\ pc \in [Threads -> Labels] /\ t \in Threads
      /\ \A u \in Adders : u \in Threads
  BY DEF BaseInv, TypeOK, Threads
<1>2. /\ ~Release(t) /\ ~Acquire(t) /\ ~LastChance(t) => sem' = sem
      /\ Acquire(t) \/ LastChance(t) => sem > 0 /\ sem' = sem - 1
      /\ Push(t) => sem' = sem
      /\ Release(t) => sem' = sem + 1
  BY DEF Step, Call, Progress, Add, Take, LoadPop, Push, Throw, Write, Release, LoadPush,
     Claim,
       FindEmpty, Read, Acquire, Uncount, LastChance, Recount, TakeNothing, TimeOut, counters
<1>3. \A u \in Adders \ {t} : pc'[u] = pc[u]
  BY <1>1, LocalsTyped
<1>4. CASE t \in Takers
  <2>1. t \notin Adders /\ pc[t] \notin {"push", "release"}
    BY <1>4, ThreadsFinite DEF BaseInv, Placed
  <2>2. ~Push(t) /\ ~Release(t)
    BY <2>1 DEF Push, Release, Goto
  <2>3. Owed' = Owed
    BY <1>3, <2>1 DEF Owed
  <2> QED BY <1>2, <2>2, <2>3
<1>5. CASE t \in Adders
  <2>1. CASE Push(t)
    <3>1. pc[t] = "push" /\ pc'[t] = "write"
      BY <1>1, <2>1 DEF Push, Goto
    <3>2. ~Release(t) /\ ~Acquire(t) /\ ~LastChance(t)
      BY <3>1 DEF Release, Acquire, StartScan, LastChance, Goto
    <3>3. t \notin Owed /\ Owed' = Owed \cup {t}
      BY <1>3, <1>5, <3>1 DEF Owed
    <3> QED BY <1>2, <2>1, <3>2, <3>3
  <2>2. CASE Release(t)
    <3>1. pc[t] = "release" /\ pc'[t] = "idle"
      BY <1>1, <2>2 DEF Release, Goto
    <3>2. ~Push(t) /\ ~Acquire(t) /\ ~LastChance(t)
      BY <3>1 DEF Push, Acquire, StartScan, LastChance, Goto
    <3>3. t \in Owed /\ Owed' = Owed \ {t}
      BY <1>3, <1>5, <3>1 DEF Owed
    <3> QED BY <1>2, <2>2, <3>2, <3>3
  <2>3. CASE ~Push(t) /\ ~Release(t)
    <3>1. (\E p \in Priorities : Add(t, p)) \/ LoadPop(t) \/ Throw(t) \/ Write(t)
      BY <1>5, <2>3, AdderSteps
    <3>2. pc'[t] \in {"write", "release"} <=> pc[t] \in {"write", "release"}
      BY <1>1, <3>1 DEF Add, LoadPop, Throw, Write, Goto
    <3>3. Owed' = Owed
      BY <1>3, <1>5, <3>2 DEF Owed
    <3> QED BY <1>2, <2>3, <3>3
  <2> QED BY <2>1, <2>2, <2>3
<1> QED BY <1>4, <1>5 DEF Threads

\* Who begins to look, or gets a token, will look everywhere; who claims an element looks
\* no further, and who finds a queue empty goes to the next.
LEMMA CarrierSteps ==
  ASSUME BaseInv, NEW t \in Takers, Step(t), NEW k \in 0..NumPriorities - 1
  PROVE  /\ (\E limited \in BOOLEAN : Take(t, limited)) \/ Acquire(t) \/ LastChance(t) =>
              t \notin Carriers(k) /\ Carriers(k)' = Carriers(k) \cup {t}
         /\ Recount(t) => Carriers(k)' = Carriers(k)
         /\ Claim(t) => /\ t \in Carriers(k) <=> level[t] >= k
                        /\ Carriers(k)' = Carriers(k) \ {t}
         /\ FindEmpty(t) => IF k = level[t] THEN Carriers(k + 1) \subseteq Carriers(k)'
                                            ELSE Carriers(k)' = Carriers(k)
         /\ LoadPush(t) \/ Read(t) \/ Uncount(t) \/ TakeNothing(t) \/ TimeOut(t) =>
              Carriers(k)' = Carriers(k)
<1>1. /\ pc \in [Threads -> Labels] /\ level \in [Threads -> Levels] /\ t \in Threads
      /\ \A u \in Takers : u \in Threads
      /\ NumPriorities \in Nat /\ NumPriorities - 1 >= k /\ k \in Nat
  BY ThreadsFinite DEF BaseInv, TypeOK, Threads
<1>2. \A u \in Takers \ {t} : pc'[u] = pc[u] /\ level'[u] = level[u]
  BY <1>1, LocalsTyped
<1>3. \A u \in Takers \ {t} : u \in Carriers(k)' <=> u \in Carriers(k)
  BY <1>2 DEF Carriers
<1>4. ASSUME (\E limited \in BOOLEAN : Take(t, limited)) \/ Acquire(t) \/ LastChance(t)
      PROVE  t \notin Carriers(k) /\ Carriers(k)' = Carriers(k) \cup {t}
  <2>1. /\ pc[t] \in {"idle", "acquire", "lastChance"}
        /\ pc'[t] = "recount" \/ (pc'[t] = "scan" /\ level'[t] = NumPriorities - 1)
    BY <1>1, <1>4 DEF Take, Acquire, LastChance, StartScan, Goto
  <2>2. t \notin Carriers(k) /\ t \in Carriers(k)'
    BY <1>1, <2>1 DEF Carriers
  <2> QED BY <1>3, <2>2 DEF Carriers
<1>5. ASSUME Recount(t) PROVE Carriers(k)' = Carriers(k)
  <2>1. pc[t] = "recount" /\ pc'[t] = "scan" /\ level'[t] = NumPriorities - 1
    BY <1>1, <1>5 DEF Recount, StartScan, Goto
  <2>2. t \in Carriers(k) /\ t \in Carriers(k)'
    BY <1>1, <2>1 DEF Carriers
  <2> QED BY <1>3, <2>2 DEF Carriers
<1>6. ASSUME Claim(t) PROVE /\ t \in Carriers(k) <=> level[t] >= k
                            /\ Carriers(k)' = Carriers(k) \ {t}
  <2>1. pc[t] \in {"scan", "pop"} /\ pc'[t] = "read"
    BY <1>1, <1>6, ClaimEffect
  <2>2. (t \in Carriers(k) <=> level[t] >= k) /\ t \notin Carriers(k)'
    BY <2>1 DEF Carriers
  <2> QED BY <1>3, <2>2 DEF Carriers
<1>7. ASSUME FindEmpty(t)
      PROVE  IF k = level[t] THEN Carriers(k + 1) \subseteq Carriers(k)'
                             ELSE Carriers(k)' = Carriers(k)
  <2>1. /\ pc[t] \in {"scan", "pop"}
        /\ pc'[t] = IF level[t] = 0 THEN "acquire" ELSE "scan"
        /\ level'[t] = IF level[t] = 0 THEN 0 ELSE level[t] - 1
    BY <1>1, <1>7 DEF FindEmpty, Looked
  <2>2. level[t] \in Nat
    BY <1>1, ThreadsFinite
  <2>3. CASE k = level[t]
    <3>1. Carriers(k + 1) \subseteq Carriers(k) /\ t \notin Carriers(k + 1)
      <4>1. \A u \in Takers : level[u] \in Nat
        BY <1>1, ThreadsFinite
      <4> QED BY <1>1, <2>1, <2>3, <4>1 DEF Carriers
    <3> QED BY <1>3, <2>3, <3>1 DEF Carriers
  <2>4. CASE k # level[t]
    <3>1. t \in Carriers(k) <=> level[t] >= k
      BY <2>1 DEF Carriers
    <3>2. t \in Carriers(k)' <=> level[t] # 0 /\ level[t] - 1 >= k
      BY <2>1 DEF Carriers
    <3>3. t \in Carriers(k) <=> t \in Carriers(k)'
      BY <1>1, <2>2, <2>4, <3>1, <3>2
    <3>4. Carriers(k)' = Carriers(k)
      BY <1>3, <3>3 DEF Carriers
    <3> QED BY <2>4, <3>4
  <2> QED BY <2>3, <2>4
<1>8. ASSUME LoadPush(t) \/ Read(t) \/ Uncount(t) \/ TakeNothing(t) \/ TimeOut(t)
      PROVE  Carriers(k)' = Carriers(k)
  <2>1. t \in Carriers(k) <=> t \in Carriers(k)'
    <3>1. CASE LoadPush(t)
      <4>1. pc[t] = "scan" /\ pc'[t] = "pop" /\ level' = level
        BY <1>1, <3>1 DEF LoadPush, Goto
      <4> QED BY <4>1 DEF Carriers
    <3>2. CASE Read(t) \/ Uncount(t) \/ TakeNothing(t) \/ TimeOut(t)
      <4>1. /\ pc[t] \notin {"recount", "scan", "pop"}
            /\ pc'[t] \notin {"recount", "scan", "pop"}
        BY <1>1, <3>2 DEF Read, Uncount, TakeNothing, TimeOut, Goto
      <4> QED BY <4>1 DEF Carriers
    <3> QED BY <1>8, <3>1, <3>2
  <2> QED BY <1>3, <2>1 DEF Carriers
<1> QED BY <1>4, <1>5, <1>6, <1>7, <1>8

\* If only one taker ever called, it is the only one inside a call.
LEMMA Alone ==
  ASSUME BaseInv, OnlyCaller, NEW t \in Takers, NEW u \in Takers,
         t \in callers, u \in callers
  PROVE  t = u
<1> SUFFICES ASSUME t # u PROVE FALSE
  OBVIOUS
<1>1. IsFiniteSet(callers) /\ Cardinality(callers) \in Nat
  BY ThreadsFinite, FS_Subset, FS_CardinalityType DEF BaseInv, TypeOK
<1>2. Cardinality({t}) = 1 /\ {t} \in SUBSET callers
  BY FS_Singleton
<1>3. Cardinality(callers) = 1
  BY <1>1, <1>2, FS_Subset DEF OnlyCaller
<1>4. callers = {t}
  BY <1>1, <1>2, <1>3, FS_Subset
<1> QED BY <1>4

\* Whoever is in a step of a call has called.
LEMMA Callers ==
  ASSUME BaseInv, NEW t \in Threads, Step(t)
  PROVE  /\ OnlyCaller' => OnlyCaller
         /\ \A u \in Takers : pc[u] # "idle" => u \in callers
<1>1. /\ callers' \subseteq Takers /\ callers \subseteq callers'
  BY LocalsTyped
<1>2. /\ IsFiniteSet(callers') /\ Cardinality(callers') \in Nat
      /\ Cardinality(callers) \in Nat /\ Cardinality(callers) <= Cardinality(callers')
  BY <1>1, ThreadsFinite, FS_Subset, FS_CardinalityType
<1> QED BY <1>2 DEF OnlyCaller, BaseInv, Placed

\* A smaller set has no more elements, nor one without or with one element more.
LEMMA Sizes ==
  ASSUME NEW S, IsFiniteSet(S), NEW R
  PROVE  /\ R \subseteq S => IsFiniteSet(R) /\ Cardinality(R) <= Cardinality(S)
         /\ \A x : R \subseteq S \cup {x} => /\ IsFiniteSet(R)
                                             /\ Cardinality(R) <= Cardinality(S) + 1
         /\ \A x \in S : R \subseteq S \ {x} => Cardinality(R) <= Cardinality(S) - 1
<1>1. R \subseteq S => IsFiniteSet(R) /\ Cardinality(R) <= Cardinality(S)
  BY FS_Subset
<1>2. ASSUME NEW x, R \subseteq S \cup {x}
      PROVE  IsFiniteSet(R) /\ Cardinality(R) <= Cardinality(S) + 1
  <2>1. /\ IsFiniteSet(S \cup {x}) /\ Cardinality(S) \in Nat
        /\ Cardinality(S \cup {x}) = IF x \in S THEN Cardinality(S) ELSE Cardinality(S) + 1
    BY FS_AddElement, FS_CardinalityType
  <2>2. IsFiniteSet(R) /\ Cardinality(R) <= Cardinality(S \cup {x})
    BY <1>2, <2>1, FS_Subset
  <2>3. Cardinality(R) \in Nat
    BY <2>2, FS_CardinalityType
  <2> QED BY <2>1, <2>2, <2>3
<1>3. ASSUME NEW x \in S, R \subseteq S \ {x} PROVE Cardinality(R) <= Cardinality(S) - 1
  <2>1. IsFiniteSet(S \ {x}) /\ Cardinality(S \ {x}) = Cardinality(S) - 1
    BY FS_RemoveElement
  <2> QED BY <1>3, <2>1, FS_Subset
<1> QED BY <1>1, <1>2, <1>3

\* Elements, tokens, adders and takers are added and taken together.
LEMMA ServedInductive ==
  ASSUME TokenInv, NEW t \in Threads, Step(t)
  PROVE  IsFiniteSet(Waiting') /\ Served'
<1>1. BaseInv /\ IsFiniteSet(Waiting)
  BY DEF TokenInv
<1>2. IsFiniteSet(Waiting')
  <2>1. Open(0)' \subseteq Open(0) \cup {elem[t]}
    BY <1>1, OpenSteps
  <2>2. Waiting = Open(0) /\ Waiting' = Open(0)'
    <3>1. {m \in Levels : m >= 0} = Levels
      BY DEF Levels
    <3> QED BY <3>1 DEF Waiting, Open
  <2> QED BY <1>1, <2>1, <2>2, Sizes
<1>3. BaseInv' /\ IsFiniteSet(Waiting')
  BY <1>1, <1>2, TypeInductive, LocalsTyped, HeldInductive, ReadersInductive DEF BaseInv
<1> DEFINE Sizes0(k) == /\ Cardinality(Open(k)) \in Nat /\ IsFiniteSet(Open(k))
                        /\ Cardinality(Carriers(k)) \in Nat /\ IsFiniteSet(Carriers(k))
<1>4. /\ \A k \in Nat : Sizes0(k)
      /\ IsFiniteSet(Owed) /\ Cardinality(Owed) \in Nat /\ sem \in Nat
      /\ \A u \in Takers : /\ IsFiniteSet(Beyond(u)) /\ Cardinality(Beyond(u)) \in Nat
      /\ IsFiniteSet(callers) /\ Cardinality(callers) \in Nat
  BY <1>1, OpenFinite DEF SizesKnown
<1>5. /\ \A k \in Nat : Sizes0(k)'
      /\ IsFiniteSet(Owed') /\ Cardinality(Owed') \in Nat /\ sem' \in Nat
  <2>1. SizesKnown'
    <3>1. (BaseInv /\ IsFiniteSet(Waiting))'
      BY <1>3
    <3> QED BY <3>1, OpenFinite, PTL
  <2> QED BY <2>1 DEF SizesKnown
<1>6. ASSUME NEW k \in 0..NumPriorities, (kind = "dynamic" \/ OnlyCaller)'
      PROVE  Cardinality(Open(k)') <= sem' + Cardinality(Owed') + Cardinality(Carriers(k)')
  <2>1. kind = "dynamic" \/ OnlyCaller
    BY <1>1, <1>6, Callers, Frames
  <2>2. k \in Nat /\ NumPriorities \in Nat /\ k <= NumPriorities
    BY ThreadsFinite
  <2>3. Cardinality(Open(k)) <= sem + Cardinality(Owed) + Cardinality(Carriers(k))
    BY <2>1 DEF TokenInv, Served
  <2>4. Sizes0(k) /\ Sizes0(k)'
    BY <1>4, <1>5, <2>2
  <2>5. CASE k = NumPriorities
    <3>1. Open(k)' = {}
      BY <2>5 DEF Open, Levels
    <3>2. Cardinality(Open(k)') = 0
      BY <3>1, FS_EmptySet
    <3> QED BY <1>5, <2>4, <3>2
  <2>6. CASE k # NumPriorities
    <3>0. k \in 0..NumPriorities - 1
      BY <2>2, <2>6
    <3>1. CASE t \in Adders
      <4>1. Carriers(k)' = Carriers(k)
        <5>1. t \notin Takers /\ \A u \in Takers : u \in Threads \ {t}
          BY <3>1, ThreadsFinite DEF Threads
        <5>2. \A u \in Takers : pc'[u] = pc[u] /\ level'[u] = level[u]
          BY <1>1, <5>1, LocalsTyped
        <5> QED BY <5>2 DEF Carriers
      <4>2. ~Acquire(t) /\ ~LastChance(t)
        BY <1>1, <3>1 DEF Acquire, StartScan, LastChance, Goto, BaseInv, Placed
      <4>3. CASE Push(t)
        <5>1. /\ Cardinality(Open(k)') <= Cardinality(Open(k)) + 1
          BY <1>1, <2>2, <2>4, <4>3, OpenSteps, Sizes
        <5>2. Cardinality(Owed') = Cardinality(Owed) + 1 /\ sem' = sem
          BY <1>1, <1>4, <4>3, OwedSteps, OneMore
        <5> HIDE <1>6
        <5> QED BY <1>4, <2>3, <2>4, <4>1, <5>1, <5>2
      <4>4. CASE Release(t)
        <5>1. Cardinality(Open(k)') <= Cardinality(Open(k))
          <6>1. ~Push(t)
            BY <4>4 DEF Push, Release, Goto
          <6> QED BY <1>1, <2>2, <2>4, <6>1, OpenSteps, Sizes
        <5>2. Cardinality(Owed') = Cardinality(Owed) - 1 /\ sem' = sem + 1
          BY <1>1, <1>4, <4>4, OwedSteps, OneMore
        <5> QED BY <1>4, <2>3, <2>4, <4>1, <5>1, <5>2
      <4>5. CASE ~Push(t) /\ ~Release(t)
        <5>1. Cardinality(Open(k)') <= Cardinality(Open(k))
          BY <1>1, <2>2, <2>4, <4>5, OpenSteps, Sizes
        <5>2. Owed' = Owed /\ sem' = sem
          BY <1>1, <4>2, <4>5, OwedSteps
        <5> QED BY <1>4, <2>3, <2>4, <4>1, <5>1, <5>2
      <4> QED BY <4>3, <4>4, <4>5
    <3>2. CASE t \in Takers
      <4>1. ~Push(t) /\ ~Release(t)
        <5>1. pc[t] \notin {"push", "release"}
          BY <1>1, <3>2 DEF BaseInv, Placed
        <5> QED BY <5>1 DEF Push, Release, Goto
      <4>2. /\ Owed' = Owed
            /\ ~Acquire(t) /\ ~LastChance(t) => sem' = sem
            /\ Acquire(t) \/ LastChance(t) => sem > 0 /\ sem' = sem - 1
        BY <1>1, <4>1, OwedSteps
      <4>3. Cardinality(Open(k)') <= Cardinality(Open(k))
        BY <1>1, <2>2, <2>4, <4>1, OpenSteps, Sizes
      <4>4. CASE Acquire(t) \/ LastChance(t)
        <5>1. Cardinality(Carriers(k)') = Cardinality(Carriers(k)) + 1
          BY <1>1, <2>4, <3>0, <3>2, <4>4, CarrierSteps, OneMore
        <5> QED BY <1>4, <2>3, <2>4, <4>2, <4>3, <4>4, <5>1
      <4>5. CASE \E limited \in BOOLEAN : Take(t, limited)
        <5>1. Cardinality(Carriers(k)') = Cardinality(Carriers(k)) + 1
          BY <1>1, <2>4, <3>0, <3>2, <4>5, CarrierSteps, OneMore
        <5>2. sem' = sem
          BY <4>5 DEF Take
        <5> QED BY <1>4, <2>3, <2>4, <4>2, <4>3, <5>1, <5>2
      <4>6. CASE Claim(t)
        <5>0. sem' = sem
          BY <4>6 DEF Claim, counters
        <5>1. CASE level[t] >= k
          <6>1. Cardinality(Carriers(k)') = Cardinality(Carriers(k)) - 1
            BY <1>1, <2>4, <3>0, <3>2, <4>6, <5>1, CarrierSteps, OneMore
          <6>2. Cardinality(Open(k)') <= Cardinality(Open(k)) - 1
            BY <1>1, <2>2, <2>4, <4>6, <5>1, OpenSteps, Sizes
          <6> QED BY <1>4, <2>3, <2>4, <4>2, <5>0, <6>1, <6>2
        <5>2. CASE ~(level[t] >= k)
          <6>1. Carriers(k)' = Carriers(k)
            BY <1>1, <3>0, <3>2, <4>6, <5>2, CarrierSteps
          <6> QED BY <1>4, <2>3, <2>4, <4>2, <4>3, <5>0, <6>1
        <5> QED BY <5>1, <5>2
      <4>7. CASE FindEmpty(t)
        <5>0. sem' = sem
          BY <4>7 DEF FindEmpty, counters
        <5>1. CASE k # level[t]
          <6>1. Carriers(k)' = Carriers(k)
            BY <1>1, <3>0, <3>2, <4>7, <5>1, CarrierSteps
          <6> QED BY <1>4, <2>3, <2>4, <4>2, <4>3, <5>0, <6>1
        <5>2. CASE k = level[t] /\ kind = "dynamic"
          <6>1. Open(k) \subseteq Open(k + 1)
            <7>1. claimed[k] >= Len(log[k])
              BY <4>7, <5>2 DEF FindEmpty, Looked
            <7>2. Len(log[k]) \in Nat /\ claimed[k] \in Nat
              BY <1>1, <3>0, InLog DEF Levels
            <7>3. claimed[k] + 1..Len(log[k]) = {}
              BY <7>1, <7>2
            <7>4. Unclaimed(k) = {}
              BY <7>3 DEF Unclaimed
            <7>5. \A l \in Levels : l >= k => l = k \/ l >= k + 1
              BY <3>0 DEF Levels
            <7> QED BY <7>4, <7>5 DEF Open
          <6>2. /\ k + 1 \in 0..NumPriorities /\ k + 1 \in Nat
            BY <3>0, <2>2
          <6>3. /\ Cardinality(Open(k + 1)) <=
                     sem + Cardinality(Owed) + Cardinality(Carriers(k + 1))
                /\ Sizes0(k + 1)
            BY <1>4, <2>1, <6>2 DEF TokenInv, Served
          <6>4. /\ Cardinality(Open(k)) <= Cardinality(Open(k + 1))
                /\ Cardinality(Carriers(k + 1)) <= Cardinality(Carriers(k)')
            BY <1>1, <2>4, <3>0, <3>2, <4>7, <5>2, <6>1, <6>3, CarrierSteps, Sizes
          <6> QED BY <1>4, <2>4, <4>2, <4>3, <5>0, <6>3, <6>4
        <5>3. CASE k = level[t] /\ kind # "dynamic"
          <6>1. Open(k) \subseteq Beyond(t)
            <7>1. pc[t] = "pop" /\ claimed[k] >= seen[t]
              BY <4>7, <5>3 DEF FindEmpty, Looked
            <7>2. Len(log[k]) \in Nat /\ claimed[k] \in Nat /\ seen[t] \in Nat
              BY <1>1, <3>0, InLog DEF Levels, BaseInv, TypeOK
            <7>3. \A j \in claimed[k] + 1..Len(log[k]) : j > seen[t]
              BY <7>1, <7>2
            <7>4. \A l \in Levels : l >= k => l = k \/ l >= k + 1
              BY <3>0 DEF Levels
            <7>5. Unclaimed(k) \subseteq Beyond(t)
              BY <5>3, <7>3 DEF Unclaimed, Beyond
            <7>6. Open(k + 1) \subseteq Beyond(t)
              BY <5>3 DEF Beyond
            <7>7. \A x \in Open(k) : x \in Unclaimed(k) \/ x \in Open(k + 1)
              BY <7>4 DEF Open
            <7> QED BY <7>5, <7>6, <7>7
          <6>2. Cardinality(Beyond(t)) <= sem + Cardinality(Owed)
            <7>1. pc[t] = "pop"
              BY <4>7, <5>3 DEF FindEmpty, Looked
            <7> QED BY <2>1, <3>2, <5>3, <7>1 DEF TokenInv, SeenServed
          <6>3. Cardinality(Open(k)) <= Cardinality(Beyond(t)) /\ Cardinality(Beyond(t)) \in Nat
            BY <1>4, <3>2, <6>1, Sizes
          <6> QED BY <1>4, <2>4, <4>2, <4>3, <5>0, <6>2, <6>3
        <5> QED BY <5>1, <5>2, <5>3
      <4>8. CASE \/ Recount(t) \/ LoadPush(t) \/ Read(t) \/ Uncount(t)
                 \/ TakeNothing(t) \/ TimeOut(t)
        <5>1. Carriers(k)' = Carriers(k)
          BY <1>1, <3>0, <3>2, <4>8, CarrierSteps
        <5>2. sem' = sem
          BY <4>8 DEF Recount, LoadPush, Read, Uncount, TakeNothing, TimeOut, counters
        <5> QED BY <1>4, <2>3, <2>4, <4>2, <4>3, <5>1, <5>2
      <4> QED BY <1>1, <3>2, <4>4, <4>5, <4>6, <4>7, <4>8, TakerSteps
    <3> QED BY <3>1, <3>2 DEF Threads
  <2> QED BY <2>5, <2>6
<1> QED BY <1>2, <1>6 DEF Served

\* What a taker has not seen grows by a push only.
LEMMA BeyondSteps ==
  ASSUME BaseInv, NEW t \in Threads, Step(t), NEW u \in Takers, u # t
  PROVE  /\ Beyond(u)' \subseteq Beyond(u) \cup {elem[t]}
         /\ ~Push(t) => Beyond(u)' \subseteq Beyond(u)
<1>1. /\ level'[u] = level[u] /\ seen'[u] = seen[u] /\ level[u] \in Levels
      /\ level[u] + 1 \in Nat
  <2>1. u \in Threads /\ level[u] \in Levels
    BY DEF BaseInv, TypeOK, Threads
  <2>2. level[u] + 1 \in Nat
    BY <2>1 DEF Levels
  <2> QED BY <2>1, <2>2, LocalsTyped
<1> DEFINE l == level[u]
           Unseen == {log[l][i] : i \in {j \in claimed[l] + 1..Len(log[l]) : j > seen[u]}}
<1>2. Beyond(u) = Open(l + 1) \cup Unseen
  BY DEF Beyond
<1>3. \A x \in Beyond(u)' :
        \/ x \in Open(l + 1)'
        \/ \E i \in claimed'[l] + 1..Len(log'[l]) : i > seen[u] /\ x = log'[l][i]
  BY <1>1 DEF Beyond
<1>4. ASSUME NEW x \in Beyond(u)'
      PROVE  x \in Beyond(u) \/ (Push(t) /\ x = elem[t])
  <2>1. CASE x \in Open(l + 1)'
    <3>1. x \in Open(l + 1) \/ (Push(t) /\ x = elem[t])
      BY <1>1, <2>1, OpenSteps
    <3> QED BY <1>2, <3>1
  <2>2. CASE \E i \in claimed'[l] + 1..Len(log'[l]) : i > seen[u] /\ x = log'[l][i]
    <3>1. PICK i \in claimed'[l] + 1..Len(log'[l]) : i > seen[u] /\ x = log'[l][i]
      BY <2>2
    <3>2. \/ i \in claimed[l] + 1..Len(log[l]) /\ log'[l][i] = log[l][i]
          \/ Push(t) /\ log'[l][i] = elem[t]
      BY <1>1, PlaceSteps
    <3> QED BY <1>2, <3>1, <3>2
  <2> QED BY <1>3, <2>1, <2>2
<1> QED BY <1>4

\* The only taker does not look past an element without a token for it.
LEMMA SeenInductive ==
  ASSUME TokenInv, NEW t \in Threads, Step(t)
  PROVE  SeenServed'
<1> SUFFICES ASSUME OnlyCaller', NEW u \in Takers, pc'[u] = "pop"
             PROVE  Cardinality(Beyond(u)') <= sem' + Cardinality(Owed')
  BY DEF SeenServed
<1>1. BaseInv /\ IsFiniteSet(Waiting)
  BY DEF TokenInv
<1>2. SizesKnown
  BY <1>1, OpenFinite
<1>3. SizesKnown'
  <2>1. BaseInv' /\ IsFiniteSet(Waiting')
    BY <1>1, ServedInductive, TypeInductive, LocalsTyped, HeldInductive, ReadersInductive
       DEF BaseInv
  <2>2. (BaseInv /\ IsFiniteSet(Waiting))'
    BY <2>1
  <2> QED BY <2>2, OpenFinite, PTL
<1>4. /\ Cardinality(Beyond(u)) \in Nat /\ IsFiniteSet(Beyond(u))
      /\ Cardinality(Beyond(u)') \in Nat
      /\ Cardinality(Owed) \in Nat /\ IsFiniteSet(Owed) /\ sem \in Nat
      /\ Cardinality(Owed') \in Nat /\ sem' \in Nat
  BY <1>2, <1>3 DEF SizesKnown
<1>5. OnlyCaller /\ \A v \in Takers : pc[v] # "idle" => v \in callers
  BY <1>1, Callers
<1>6. pc \in [Threads -> Labels] /\ u \in Threads /\ level \in [Threads -> Levels]
  BY <1>1 DEF BaseInv, TypeOK, Threads
<1>7. CASE u # t
  <2>1. pc[u] = "pop"
    BY <1>1, <1>6, <1>7, LocalsTyped
  <2>2. Cardinality(Beyond(u)) <= sem + Cardinality(Owed)
    BY <1>5, <2>1 DEF TokenInv, SeenServed
  <2>3. ~Acquire(t) /\ ~LastChance(t)
    <3>1. ASSUME Acquire(t) \/ LastChance(t) PROVE FALSE
      <4>1. pc[t] \in {"acquire", "lastChance"}
        BY <3>1 DEF Acquire, LastChance, StartScan, Goto
      <4>2. t \in Takers
        BY <1>1, <4>1 DEF BaseInv, Placed, Threads
      <4> QED BY <1>1, <1>5, <1>7, <2>1, <4>1, <4>2, Alone
    <3> QED BY <3>1
  <2>4. CASE Push(t)
    <3>1. Cardinality(Beyond(u)') <= Cardinality(Beyond(u)) + 1
      BY <1>1, <1>4, <1>7, BeyondSteps, Sizes
    <3>2. Cardinality(Owed') = Cardinality(Owed) + 1 /\ sem' = sem
      BY <1>1, <1>4, <2>4, OwedSteps, OneMore
    <3> QED BY <1>4, <2>2, <3>1, <3>2
  <2>5. CASE Release(t)
    <3>1. Cardinality(Beyond(u)') <= Cardinality(Beyond(u))
      <4>1. ~Push(t)
        BY <2>5 DEF Push, Release, Goto
      <4> QED BY <1>1, <1>4, <1>7, <4>1, BeyondSteps, Sizes
    <3>2. Cardinality(Owed') = Cardinality(Owed) - 1 /\ sem' = sem + 1
      BY <1>1, <1>4, <2>5, OwedSteps, OneMore
    <3> QED BY <1>4, <2>2, <3>1, <3>2
  <2>6. CASE ~Push(t) /\ ~Release(t)
    <3>1. Cardinality(Beyond(u)') <= Cardinality(Beyond(u))
      BY <1>1, <1>4, <1>7, <2>6, BeyondSteps, Sizes
    <3>2. Owed' = Owed /\ sem' = sem
      BY <1>1, <2>3, <2>6, OwedSteps
    <3> QED BY <1>4, <2>2, <3>1, <3>2
  <2> QED BY <2>4, <2>5, <2>6
<1>8. CASE u = t
  <2>1. LoadPush(t)
    <3>1. /\ Acquire(t) \/ Recount(t) => pc'[t] = "scan"
          /\ Claim(t) => pc'[t] = "read"
          /\ FindEmpty(t) => pc'[t] \in {"acquire", "scan"}
          /\ Read(t) \/ Uncount(t) \/ LastChance(t) \/ TakeNothing(t) \/ TimeOut(t) =>
               pc'[t] \in {"idle", "lastChance", "recount", "uncount"}
      BY <1>6, <1>8 DEF Take, Acquire, Recount, StartScan, Goto, Claim, FindEmpty, Read,
           Uncount, LastChance, TakeNothing, TimeOut
    <3>2. ~\E limited \in BOOLEAN : Take(t, limited)
      BY <1>6, <1>8 DEF Take, StartScan, Goto
    <3> QED BY <1>1, <1>8, <3>1, <3>2, TakerSteps
  <2>2. /\ pc[t] = "scan" /\ level'[t] = level[t] /\ seen'[t] = Len(log[level[t]])
        /\ log' = log /\ claimed' = claimed /\ level[t] \in Levels /\ sem' = sem
        /\ seen \in [Threads -> Nat]
    BY <1>1, <1>6, <1>8, <2>1 DEF LoadPush, Goto, queues, counters, BaseInv, TypeOK
  <2>3. /\ level[t] \in Nat /\ level[t] + 1 \in 0..NumPriorities /\ level[t] + 1 \in Nat
        /\ Len(log[level[t]]) \in Nat /\ claimed[level[t]] \in Nat
    <3>1. level[t] \in 0..NumPriorities - 1 /\ NumPriorities \in Nat
      BY <2>2, ThreadsFinite DEF Levels
    <3> QED BY <1>1, <2>2, <3>1, InLog
  <2>4. Beyond(t)' \subseteq Open(level[t] + 1)
    <3>1. Open(level[t] + 1)' = Open(level[t] + 1)
      BY <2>2 DEF Open, Unclaimed
    <3>2. {j \in claimed[level[t]] + 1..Len(log[level[t]]) : j > Len(log[level[t]])} = {}
      BY <2>3
    <3> QED BY <2>2, <3>1, <3>2 DEF Beyond
  <2>5. Carriers(level[t] + 1) = {}
    <3> SUFFICES ASSUME NEW v \in Carriers(level[t] + 1) PROVE FALSE
      OBVIOUS
    <3>1. /\ v \in Takers /\ v \in Threads /\ pc[v] # "idle"
          /\ pc[v] = "recount" \/ level[v] >= level[t] + 1
      BY <1>6 DEF Carriers, Threads
    <3>2. v = t
      BY <1>1, <1>5, <1>8, <2>2, <3>1, Alone
    <3> QED BY <2>2, <2>3, <3>1, <3>2
  <2>6. Owed' = Owed
    <3>1. ~Push(t) /\ ~Release(t)
      BY <2>2 DEF Push, Release, Goto
    <3> QED BY <1>1, <3>1, OwedSteps
  <2>7. /\ Cardinality(Open(level[t] + 1)) <= sem + Cardinality(Owed) + 0
        /\ Cardinality(Open(level[t] + 1)) \in Nat /\ IsFiniteSet(Open(level[t] + 1))
    <3>1. Cardinality(Open(level[t] + 1)) <=
            sem + Cardinality(Owed) + Cardinality(Carriers(level[t] + 1))
      BY <1>5, <2>3 DEF TokenInv, Served
    <3>2. Cardinality(Carriers(level[t] + 1)) = 0
      BY <2>5, FS_EmptySet
    <3> QED BY <1>2, <2>3, <3>1, <3>2 DEF SizesKnown
  <2>8. Cardinality(Beyond(t)') <= Cardinality(Open(level[t] + 1))
    BY <2>4, <2>7, Sizes
  <2> QED BY <1>4, <1>8, <2>2, <2>6, <2>7, <2>8
<1> QED BY <1>7, <1>8

\* An element is written by who pushed it and read by who claimed it.
LEMMA UnreadInductive ==
  ASSUME TokenInv, NEW t \in Threads, Step(t)
  PROVE  Unread'
<1>1. BaseInv /\ Unread
  BY DEF TokenInv
<1>2. /\ pc \in [Threads -> Labels] /\ elem \in [Threads -> Elements \cup {NoElement}]
      /\ \A u \in Adders : u \in Threads
      /\ \A u \in Takers : u \in Threads
  BY <1>1 DEF BaseInv, TypeOK, Threads
<1>3. \A u \in Threads \ {t} : pc'[u] = pc[u] /\ elem'[u] = elem[u]
  BY <1>1, LocalsTyped
<1>4. ASSUME NEW e \in Added' \ written'
      PROVE  \E u \in Adders : pc'[u] = "write" /\ elem'[u] = e
  <2>1. CASE Push(t) /\ e = elem[t]
    <3>1. pc'[t] = "write" /\ elem'[t] = e /\ t \in Adders
      BY <1>1, <1>2, <2>1, PushEffect DEF Push, Goto, locals
    <3> QED BY <3>1
  <2>2. CASE ~(Push(t) /\ e = elem[t])
    <3>1. e \in Added \ written
      <4>1. e \in Added
        BY <1>1, <2>2, TakenSteps
      <4>2. written \subseteq written'
        BY Frames DEF Write
      <4> QED BY <4>1, <4>2
    <3>2. PICK u \in Adders : pc[u] = "write" /\ elem[u] = e
      BY <1>1, <3>1 DEF Unread
    <3>3. u # t
      <4> SUFFICES ASSUME u = t PROVE FALSE
        OBVIOUS
      <4>1. Write(t)
        BY <1>1, <3>2, AdderSteps DEF Add, LoadPop, Push, Throw, Release, Goto
      <4> QED BY <3>2, <4>1 DEF Write
    <3> QED BY <1>2, <1>3, <3>2, <3>3
  <2> QED BY <2>1, <2>2
<1>5. ASSUME NEW e \in Taken' \ read'
      PROVE  \E u \in Takers : pc'[u] = "read" /\ elem'[u] = e
  <2>1. CASE Claim(t) /\ e = log[level[t]][claimed[level[t]] + 1]
    <3>1. pc'[t] = "read" /\ elem'[t] = e /\ t \in Takers
      BY <1>1, <1>2, <2>1, ClaimEffect
    <3> QED BY <3>1
  <2>2. CASE ~(Claim(t) /\ e = log[level[t]][claimed[level[t]] + 1])
    <3>1. e \in Taken \ read
      <4>1. e \in Taken
        BY <1>1, <2>2, TakenSteps
      <4>2. read \subseteq read'
        BY Frames DEF Read
      <4> QED BY <4>1, <4>2
    <3>2. PICK u \in Takers : pc[u] = "read" /\ elem[u] = e
      BY <1>1, <3>1 DEF Unread
    <3>3. u # t
      <4> SUFFICES ASSUME u = t PROVE FALSE
        OBVIOUS
      <4>1. Read(t)
        BY <1>1, <3>2, TakerSteps
           DEF Take, LoadPush, Claim, FindEmpty, Looked, Acquire, StartScan, Uncount,
               LastChance, Recount, TakeNothing, TimeOut, Goto
      <4> QED BY <3>2, <4>1 DEF Read
    <3> QED BY <1>2, <1>3, <3>2, <3>3
  <2> QED BY <2>1, <2>2
<1> QED BY <1>4, <1>5 DEF Unread

\* All of this holds at all times.
LEMMA TokensHold == SafeSpec => []TokenInv
<1>1. ASSUME BaseInv, Init PROVE TokenInv
  <2>1. \A l \in Levels : log[l] = <<>> /\ claimed[l] = 0
    BY <1>1 DEF Init
  <2>2. \A l \in Levels : Len(log[l]) = 0 /\ DOMAIN log[l] = {}
    BY <2>1
  <2>3. Added = {} /\ Waiting = {} /\ Taken = {}
    BY <2>1, <2>2 DEF Added, Waiting, Taken, Unclaimed
  <2>4. IsFiniteSet(Waiting)
    BY <2>3, FS_EmptySet
  <2>5. SizesKnown
    BY <1>1, <2>4, OpenFinite
  <2>6. \A k \in Nat : Cardinality(Open(k)) = 0
    <3>1. \A k \in Nat : Open(k) = {}
      BY <2>3, <2>5 DEF SizesKnown
    <3> QED BY <3>1, FS_EmptySet
  <2>7. Served
    <3>1. \A k \in 0..NumPriorities : k \in Nat
      BY ThreadsFinite
    <3> QED BY <2>5, <2>6, <3>1 DEF SizesKnown, Served
  <2>8. SeenServed /\ Unread
    BY <1>1, <2>3 DEF Init, SeenServed, Unread, Threads
  <2> QED BY <1>1, <2>4, <2>7, <2>8 DEF TokenInv
<1>2. ASSUME TokenInv, BaseInv', [Next]_vars PROVE TokenInv'
  <2>1. CASE UNCHANGED vars
    <3> USE <1>2, <2>1 DEF vars, queues, counters, locals, ghosts
    <3>1. /\ Added' = Added /\ Waiting' = Waiting /\ Taken' = Taken /\ Owed' = Owed
          /\ \A k : Open(k)' = Open(k) /\ Carriers(k)' = Carriers(k)
          /\ \A t : Beyond(t)' = Beyond(t)
      BY DEF Added, Waiting, Taken, Unclaimed, Owed, Open, Carriers, Beyond
    <3>2. IsFiniteSet(Waiting')
      BY <3>1 DEF TokenInv
    <3>3. Served' /\ SeenServed' /\ Unread'
      BY <3>1 DEF TokenInv, Served, SeenServed, OnlyCaller, Unread
    <3> QED BY <3>2, <3>3 DEF TokenInv
  <2>2. ASSUME NEW t \in Threads, Step(t) PROVE TokenInv'
    BY <1>2, <2>2, ServedInductive, SeenInductive, UnreadInductive DEF TokenInv
  <2> QED BY <1>2, <2>1, <2>2 DEF Next, Step
<1> QED BY <1>1, <1>2, BaseHolds, PTL DEF SafeSpec

\* If nobody can move, every writer that is stuck waits for a reader of its slot.
LEMMA StuckWriters ==
  ASSUME BaseInv, Quiet, NEW u \in Owed
  PROVE  /\ pc[u] = "write" /\ kind # "dynamic" /\ elem[u] \in Added
         /\ \A l \in Levels : \A i \in 1..Len(log[l]) :
              log[l][i] = elem[u] => i > Capacity /\ log[l][i - Capacity] \notin read
<1>1. /\ u \in Adders /\ u \in Threads /\ pc[u] \in {"write", "release"}
      /\ level[u] \in Levels
  BY DEF Owed, BaseInv, TypeOK, Threads
<1>2. pc[u] = "write" /\ ~SlotFree(u)
  BY <1>1 DEF Quiet
<1>3. PICK j \in 1..Len(log[level[u]]) : log[level[u]][j] = elem[u]
  BY <1>1 DEF BaseInv, Held
<1>4. elem[u] \in Added
  BY <1>1, <1>3, InLog
<1> DEFINE place == CHOOSE i \in DOMAIN log[level[u]] : log[level[u]][i] = elem[u]
<1>5. place \in 1..Len(log[level[u]]) /\ log[level[u]][place] = elem[u]
  <2>1. DOMAIN log[level[u]] = 1..Len(log[level[u]])
    BY <1>1, InLog
  <2> QED BY <1>3, <2>1
<1>6. kind # "dynamic" /\ place > Capacity /\ log[level[u]][place - Capacity] \notin read
  BY <1>2 DEF SlotFree
<1> HIDE DEF place
<1>7. \A l \in Levels : \A i \in 1..Len(log[l]) :
        log[l][i] = elem[u] => l = level[u] /\ i = place
  BY <1>1, <1>5 DEF BaseInv, Distinct
<1> QED BY <1>2, <1>4, <1>6, <1>7

\* What was claimed no longer waits.
LEMMA ClaimedTaken ==
  ASSUME BaseInv, NEW l \in Levels, NEW i \in 1..Len(log[l]), i <= claimed[l]
  PROVE  log[l][i] \in Taken
<1>1. log[l][i] \in Added
  BY InLog
<1>2. ASSUME log[l][i] \in Waiting PROVE FALSE
  <2>1. PICK m \in Levels : \E j \in claimed[m] + 1..Len(log[m]) : log[l][i] = log[m][j]
    BY <1>2, InLog
  <2>2. PICK j \in claimed[m] + 1..Len(log[m]) : log[l][i] = log[m][j]
    BY <2>1
  <2>3. l = m /\ i = j
    BY <2>2, InLog DEF BaseInv, Distinct
  <2> QED BY <2>2, <2>3, InLog
<1> QED BY <1>1, <1>2 DEF Taken

\* No taker is left on the semaphore while an element waits to be taken, if the queue is
\* dynamic or there is but one taker.
THEOREM TakersAreServed == SafeSpec => []TakersServed
<1>1. ASSUME TokenInv PROVE TakersServed
  <2> SUFFICES ASSUME kind = "dynamic" \/ OnlyCaller, Quiet,
                      NEW t \in Takers, pc[t] = "acquire", Waiting # {}
               PROVE  FALSE
    BY DEF TakersServed, OnlyCaller, Waiting
  <2>1. BaseInv /\ IsFiniteSet(Waiting) /\ Served /\ Unread
    BY <1>1 DEF TokenInv
  <2>2. SizesKnown
    BY <2>1, OpenFinite
  <2>3. \A u \in Takers : pc[u] \in {"idle", "acquire", "read"}
    BY <2>1 DEF Quiet, Threads, BaseInv, Placed
  <2>4. sem = 0
    BY DEF Quiet, Threads
  <2>5. Cardinality(Waiting) <= Cardinality(Owed)
    <3>1. Open(0) = Waiting
      <4>1. {m \in Levels : m >= 0} = Levels
        BY DEF Levels
      <4> QED BY <4>1 DEF Waiting, Open
    <3>2. Carriers(0) = {}
      BY <2>3 DEF Carriers
    <3>3. Cardinality(Open(0)) <= sem + Cardinality(Owed) + Cardinality(Carriers(0))
      BY <2>1, ThreadsFinite DEF Served
    <3>4. Cardinality(Carriers(0)) = 0
      BY <3>2, FS_EmptySet
    <3> QED BY <2>2, <2>4, <3>1, <3>3, <3>4 DEF SizesKnown
  <2>6. Cardinality(Waiting) \in Nat /\ Cardinality(Waiting) # 0
    BY <2>1, FS_EmptySet, FS_CardinalityType
  <2>7. Owed # {} /\ kind # "dynamic" /\ OnlyCaller
    <3>1. Owed # {}
      BY <2>2, <2>5, <2>6, FS_EmptySet DEF SizesKnown
    <3> QED BY <2>1, <3>1, StuckWriters
  <2>8. Taken \subseteq read
    <3> SUFFICES ASSUME NEW e \in Taken \ read PROVE FALSE
      OBVIOUS
    <3>1. PICK u \in Takers : pc[u] = "read"
      BY <2>1 DEF Unread
    <3> QED BY <2>1, <2>7, <3>1, Alone DEF BaseInv, Placed
  <2> DEFINE hand == [u \in Owed |-> elem[u]]
  <2>9. hand \in Injection(Owed, Waiting)
    <3>1. \A u \in Owed : elem[u] \in Waiting
      <4> TAKE u \in Owed
      <4>1. elem[u] \in Added /\ elem[u] \notin written
        BY <2>1, StuckWriters DEF BaseInv, Held, Owed
      <4>2. elem[u] \notin Taken
        BY <2>1, <2>8, <4>1 DEF BaseInv, TypeOK
      <4> QED BY <4>1, <4>2 DEF Taken
    <3>2. \A u, v \in Owed : elem[u] = elem[v] => u = v
      BY <2>1 DEF Owed, BaseInv, Held
    <3> QED BY <3>1, <3>2 DEF Injection, IsInjective
  <2>10. hand \in Surjection(Owed, Waiting)
    <3>1. Cardinality(Owed) <= Cardinality(Waiting)
      BY <2>1, <2>9, FS_Injection
    <3>2. Cardinality(Owed) = Cardinality(Waiting)
      BY <2>2, <2>5, <2>6, <3>1 DEF SizesKnown
    <3> QED BY <2>1, <2>9, <3>2, FS_Injection
  \* The first element that waits has a writer that waits for a claimed element.
  <2>11. PICK l \in Levels : \E i \in claimed[l] + 1..Len(log[l]) : TRUE
    <3>1. PICK x \in Waiting : TRUE
      OBVIOUS
    <3> QED BY <2>1, <3>1, InLog
  <2> DEFINE first == claimed[l] + 1
  <2>12. /\ claimed[l] \in Nat /\ first \in 1..Len(log[l])
         /\ log[l][first] \in Waiting
    <3>1. claimed[l] \in Nat /\ Len(log[l]) \in Nat
      BY <2>1, InLog
    <3>2. first \in 1..Len(log[l]) /\ first \in claimed[l] + 1..Len(log[l])
      BY <2>11, <3>1
    <3> QED BY <2>1, <3>1, <3>2, InLog
  <2>13. PICK u \in Owed : elem[u] = log[l][first]
    BY <2>10, <2>12 DEF Surjection
  <2>14. first > Capacity /\ log[l][first - Capacity] \notin read
    BY <2>1, <2>12, <2>13, StuckWriters
  <2>15. first - Capacity \in 1..Len(log[l]) /\ first - Capacity <= claimed[l]
    <3>1. Len(log[l]) \in Nat
      BY <2>1, InLog
    <3> QED BY <2>12, <2>14, <3>1, ThreadsFinite
  <2> QED BY <2>1, <2>8, <2>14, <2>15, ClaimedTaken
<1> QED BY <1>1, TokensHold, PTL
=============================================================================
