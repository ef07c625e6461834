-------------------------- MODULE PrioritySemQueue --------------------------
(***************************************************************************)
(* PrioritySemMPMCQueue: one MPMCQueue per priority and a semaphore that   *)
(* counts the elements added.  A taker first looks through the queues,     *)
(* highest priority first, and acquires the semaphore only if it found     *)
(* nothing, so tokens and elements part ways.                              *)
(*                                                                         *)
(* Each MPMCQueue is reduced to its tickets (AbstractTicketQueue): the log *)
(* of the elements given a push ticket, how many of them were claimed by   *)
(* takers, which of them are written and which were read.  The dynamic one *)
(* grows instead of making writers wait, and its readIfNotEmpty() reads    *)
(* pushTicket_ after popTicket_; the fixed one reads it before.            *)
(***************************************************************************)
EXTENDS Integers, Sequences, FiniteSets

CONSTANTS Adders,         \* threads that add
          Takers,         \* threads that take
          Elements,       \* elements, each added at most once
          NoElement,      \* no element
          NumPriorities,  \* queues_.size()
          Priorities,     \* priorities that are passed to addWithPriority()
          Capacity,       \* capacity of each fixed MPMCQueue
          Kinds,          \* the kinds of queues that are made, see below
          MaxAdds         \* bound on calls of addWithPriority()

Threads == Adders \cup Takers
Levels == 0..NumPriorities - 1

ASSUME PrioritySemQueueAssumption ==
  /\ Adders \cap Takers = {}
  /\ IsFiniteSet(Adders \cup Takers)
  /\ NoElement \notin Elements
  /\ NumPriorities \in 1..255
  /\ Priorities \subseteq -128..127
  /\ Capacity \in Nat \ {0}
  /\ Kinds \subseteq {"dynamic", "block", "throw"}
  /\ MaxAdds \in Nat

\* The template arguments: a dynamic queue, which is never full, or a fixed one whose
\* addWithPriority() waits for room (BLOCK) or throws (THROW).
VARIABLES
  kind,        \* which of them this queue is
  log,         \* elements given a push ticket of each queue, in order
  claimed,     \* popTicket_ of each queue
  written,     \* elements whose slot was written
  read,        \* elements that were read from their slot
  sem,         \* sem_
  readCount,   \* readCount_
  writeCount,  \* writeCount_
  pc,          \* where each thread is
  elem,        \* the element a thread adds or has claimed
  level,       \* the queue a thread is at
  seen,        \* the other side's ticket counter as loaded before the own one
  timed,       \* whether a taker is in tryTake()
  present,     \* auxiliary: unclaimed elements when a taker began to look
  callers      \* auxiliary: threads that ever called take() or tryTake()

queues == <<log, claimed, written, read, kind>>
counters == <<sem, readCount, writeCount>>
locals == <<elem, level, seen, timed>>
ghosts == <<present, callers>>
vars == <<queues, counters, pc, locals, ghosts>>

Labels == {"idle", "loadPop", "push", "write", "release",
           "scan", "pop", "read", "acquire", "uncount", "lastChance", "recount"}

Init == /\ kind \in Kinds
        /\ log = [l \in Levels |-> <<>>]
        /\ claimed = [l \in Levels |-> 0]
        /\ written = {} /\ read = {}
        /\ sem = 0 /\ readCount = 0 /\ writeCount = 0
        /\ pc = [t \in Threads |-> "idle"]
        /\ elem = [t \in Threads |-> NoElement]
        /\ level = [t \in Threads |-> 0]
        /\ seen = [t \in Threads |-> 0]
        /\ timed = [t \in Threads |-> FALSE]
        /\ present = [t \in Threads |-> {}]
        /\ callers = {}

Goto(t, from, to) == pc[t] = from /\ pc' = [pc EXCEPT ![t] = to]

Added == UNION {{log[l][i] : i \in DOMAIN log[l]} : l \in Levels}
Unclaimed(l) == {log[l][i] : i \in claimed[l] + 1..Len(log[l])}

\* The queue for a priority: the middle one is 0, the others are clamped.
LevelOf(p) == LET mid == NumPriorities \div 2
              IN IF p < 0 THEN IF mid + p < 0 THEN 0 ELSE mid + p
                 ELSE IF mid + p > NumPriorities - 1 THEN NumPriorities - 1 ELSE mid + p
-----------------------------------------------------------------------------
(* addWithPriority()                                                       *)

\* Elements have nothing but their identity: any fresh one will do.
Fresh == {e \in Elements \ Added : \A t \in Threads : elem[t] # e}

Add(t, p) == /\ t \in Adders /\ writeCount < MaxAdds
             /\ Goto(t, "idle", IF kind = "throw" THEN "loadPop" ELSE "push")
             /\ Fresh # {}
             /\ elem' = [elem EXCEPT ![t] = CHOOSE e \in Fresh : TRUE]
             /\ level' = [level EXCEPT ![t] = LevelOf(p)]
             /\ writeCount' = writeCount + 1
             /\ UNCHANGED <<queues, sem, readCount, seen, timed, ghosts>>

LoadPop(t) == /\ Goto(t, "loadPop", "push")
              /\ seen' = [seen EXCEPT ![t] = claimed[level[t]]]
              /\ UNCHANGED <<queues, counters, elem, level, timed, ghosts>>

\* A fixed queue that does not wait takes a ticket only if it seems to have room.
HasRoom(t) == kind # "throw" \/ Len(log[level[t]]) - seen[t] < Capacity

Push(t) == /\ Goto(t, "push", "write")
           /\ HasRoom(t)
           /\ log' = [log EXCEPT ![level[t]] = Append(@, elem[t])]
           /\ UNCHANGED <<claimed, written, read, kind, counters, locals, ghosts>>

\* A call returns: its local variables are no more.
Forget(t) == /\ elem' = [elem EXCEPT ![t] = NoElement]
             /\ level' = [level EXCEPT ![t] = 0]
             /\ seen' = [seen EXCEPT ![t] = 0]
             /\ timed' = [timed EXCEPT ![t] = FALSE]
             /\ present' = [present EXCEPT ![t] = {}]
             /\ UNCHANGED callers

\* addWithPriority() throws with writeCount_ already counted.
Throw(t) == /\ Goto(t, "push", "idle")
            /\ ~HasRoom(t)
            /\ Forget(t)
            /\ UNCHANGED <<queues, counters>>

\* The slot of a fixed queue is free when the element before it was read.
SlotFree(t) ==
  \/ kind = "dynamic"
  \/ LET place == CHOOSE i \in DOMAIN log[level[t]] : log[level[t]][i] = elem[t]
     IN place > Capacity => log[level[t]][place - Capacity] \in read

Write(t) == /\ Goto(t, "write", "release")
            /\ SlotFree(t)
            /\ written' = written \cup {elem[t]}
            /\ UNCHANGED <<log, claimed, read, kind, counters, locals, ghosts>>

\* Release() without a token, a mistake to be noticed
ReleaseNothing(t) == /\ Goto(t, "release", "idle")
                     /\ Forget(t)
                     /\ UNCHANGED <<queues, counters>>

\* addWithPriority() returns after this; that its result compares the two counters is
\* of consequence for the caller only, see Executor.
Release(t) == /\ Goto(t, "release", "idle")
              /\ sem' = sem + 1
              /\ Forget(t)
              /\ UNCHANGED <<queues, readCount, writeCount>>
-----------------------------------------------------------------------------
(* take() and tryTake()                                                    *)

\* StartScan() at the wrong end of the queues, a mistake to be noticed
StartScanLowest(t, from) ==
  /\ Goto(t, from, "scan")
  /\ level' = [level EXCEPT ![t] = 0]
  /\ present' = [present EXCEPT ![t] = UNION {Unclaimed(l) : l \in Levels}]
  /\ UNCHANGED <<queues, writeCount, elem>>

\* The thread begins to look, at the queue of the highest priority.
StartScan(t, from) == /\ Goto(t, from, "scan")
                      /\ level' = [level EXCEPT ![t] = NumPriorities - 1]
                      /\ present' = [present EXCEPT ![t] = UNION {Unclaimed(l) : l \in Levels}]
                      /\ UNCHANGED <<queues, writeCount, elem>>

Take(t, limited) == /\ t \in Takers /\ StartScan(t, "idle")
                    /\ readCount' = readCount + 1
                    /\ timed' = [timed EXCEPT ![t] = limited]
                    /\ callers' = callers \cup {t}
                    /\ UNCHANGED <<sem, seen>>

\* readIfNotEmpty() of the fixed queue loads pushTicket_ first.
LoadPush(t) == /\ kind # "dynamic" /\ Goto(t, "scan", "pop")
               /\ seen' = [seen EXCEPT ![t] = Len(log[level[t]])]
               /\ UNCHANGED <<queues, counters, elem, level, timed, ghosts>>

\* Where the look at one queue ends: what was loaded, or what is there now
Looked(t, last) == \/ kind # "dynamic" /\ pc[t] = "pop" /\ last = seen[t]
                   \/ kind = "dynamic" /\ pc[t] = "scan" /\ last = Len(log[level[t]])

Claim(t) == /\ \E last \in 0..Len(log[level[t]]) :
                 Looked(t, last) /\ claimed[level[t]] < last
            /\ claimed' = [claimed EXCEPT ![level[t]] = @ + 1]
            /\ elem' = [elem EXCEPT ![t] = log[level[t]][claimed[level[t]] + 1]]
            /\ pc' = [pc EXCEPT ![t] = "read"]
            /\ UNCHANGED <<log, written, read, kind, counters, level, seen, timed, ghosts>>

FindEmpty(t) == /\ \E last \in 0..Len(log[level[t]]) :
                     Looked(t, last) /\ claimed[level[t]] >= last
                /\ pc' = [pc EXCEPT ![t] = IF level[t] = 0 THEN "acquire" ELSE "scan"]
                /\ level' = [level EXCEPT ![t] = IF @ = 0 THEN 0 ELSE @ - 1]
                /\ seen' = [seen EXCEPT ![t] = 0]
                /\ UNCHANGED <<queues, counters, elem, timed, ghosts>>

\* Read() that does not wait for the writer, a mistake to be noticed
ReadEarly(t) == /\ Goto(t, "read", "idle")
                /\ read' = read \cup {elem[t]}
                /\ Forget(t)
                /\ UNCHANGED <<log, claimed, written, kind, counters>>

\* A claimed element is waited for until its writer is done.
Read(t) == /\ Goto(t, "read", "idle")
           /\ elem[t] \in written
           /\ read' = read \cup {elem[t]}
           /\ Forget(t)
           /\ UNCHANGED <<log, claimed, written, kind, counters>>

Acquire(t) == /\ StartScan(t, "acquire")
              /\ sem > 0
              /\ sem' = sem - 1
              /\ UNCHANGED <<readCount, seen, timed, callers>>

\* try_acquire_until() gives up at the deadline, with or without a token left.
TimeOut(t) == /\ timed[t] /\ Goto(t, "acquire", "uncount")
              /\ UNCHANGED <<queues, counters, locals, ghosts>>

Uncount(t) == /\ Goto(t, "uncount", "lastChance")
              /\ readCount' = readCount - 1
              /\ UNCHANGED <<queues, sem, writeCount, locals, ghosts>>

LastChance(t) == /\ Goto(t, "lastChance", "recount")
                 /\ sem > 0
                 /\ sem' = sem - 1
                 /\ UNCHANGED <<queues, readCount, writeCount, locals, ghosts>>

\* Recount() that does not count, a mistake to be noticed
RecountNothing(t) == /\ StartScan(t, "recount")
                     /\ UNCHANGED <<sem, readCount, seen, timed, callers>>

Recount(t) == /\ StartScan(t, "recount")
              /\ readCount' = readCount + 1
              /\ UNCHANGED <<sem, seen, timed, callers>>

TakeNothing(t) == /\ Goto(t, "lastChance", "idle")
                  /\ sem = 0
                  /\ Forget(t)
                  /\ UNCHANGED <<queues, counters>>
-----------------------------------------------------------------------------
Call(t) == \/ \E p \in Priorities : Add(t, p)
           \/ \E limited \in BOOLEAN : Take(t, limited)

Progress(t) ==
  \/ LoadPop(t) \/ Push(t) \/ Throw(t) \/ Write(t) \/ Release(t)
  \/ LoadPush(t) \/ Claim(t) \/ FindEmpty(t) \/ Read(t) \/ Acquire(t)
  \/ Uncount(t) \/ LastChance(t) \/ Recount(t) \/ TakeNothing(t)

Next == \E t \in Threads : Call(t) \/ Progress(t) \/ TimeOut(t)

SafeSpec == Init /\ [][Next]_vars

\* A thread inside a call that can take a step takes one.
Spec == SafeSpec /\ \A t \in Threads : WF_vars(Progress(t))
-----------------------------------------------------------------------------
(* Properties                                                              *)

TypeOK == /\ log \in [Levels -> Seq(Elements)]
          /\ \A l \in Levels : claimed[l] \in 0..Len(log[l])
          /\ read \subseteq written /\ written \subseteq Added
          /\ sem \in Nat /\ readCount \in Nat /\ writeCount \in Nat
          /\ pc \in [Threads -> Labels]
          /\ elem \in [Threads -> Elements \cup {NoElement}]
          /\ level \in [Threads -> Levels]
          /\ seen \in [Threads -> Nat]
          /\ timed \in [Threads -> BOOLEAN]
          /\ present \in [Threads -> SUBSET Elements]
          /\ callers \subseteq Takers
          /\ kind \in Kinds

\* Nobody can move without a new call or a deadline.
Quiet == \A t \in Threads : \/ pc[t] = "idle"
                            \/ pc[t] = "acquire" /\ sem = 0
                            \/ pc[t] = "write" /\ ~SlotFree(t)
                            \/ pc[t] = "read" /\ elem[t] \notin written

\* readCount_, which decides whether an adder is told that a taker was free, is the
\* number of the elements that were claimed and of the takers still after one: a taker
\* that gives up takes itself back, and counts again if it gets a token after all.
ReadersCounted ==
  LET waiting == UNION {Unclaimed(l) : l \in Levels}
      after == {t \in Takers : pc[t] \in {"scan", "pop", "acquire", "uncount"}}
  IN readCount = Cardinality(Added \ waiting) + Cardinality(after)

\* PrioritySemMPMCQueueTest.cpp:107 joins as many takers as elements were added.  Takers
\* consume elements without their tokens and tokens without elements, yet none is left
\* asleep on the semaphore while an element waits to be taken: from a dynamic queue, or
\* if there is but one taker.  Two takers of a fixed queue may spoil each other's look.
TakersServed ==
  kind = "dynamic" \/ Cardinality(callers) <= 1 =>
    (Quiet /\ (\E t \in Takers : pc[t] = "acquire") => \A l \in Levels : Unclaimed(l) = {})

\* A taker does not pass over an element of a higher priority that was there when it
\* began to look and that nobody else took.
PriorityRespected ==
  [][\A t \in Takers : Claim(t) =>
       \A l \in Levels : l > level[t] => Unclaimed(l) \cap present[t] = {}]_vars

\* An element that was added to a dynamic queue does not wait for ever while somebody
\* is taking.
EveryElementTaken ==
  \A e \in Elements : [](e \in written /\ kind = "dynamic" =>
    <>(e \in read \/ \A t \in Takers : pc[t] = "idle"))
=============================================================================
