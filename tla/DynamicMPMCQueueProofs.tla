----------------------- MODULE DynamicMPMCQueueProofs -----------------------
(***************************************************************************)
(* MPMCQueue<T, true> for any number of threads, tickets and expansions,   *)
(* and every choice of the capacities: types, and that a ticket is bound   *)
(* to a slot.  A thread that validated what it read under the seqlock has  *)
(* an array as it was when it was the last one; it holds no ticket that a  *)
(* later array begins with or after, since tryExpand() reads both counters *)
(* under the lock before it publishes the next array.                      *)
(***************************************************************************)
EXTENDS DynamicMPMCQueue, FiniteSetTheorems, WellFoundedInduction, TLAPS

\* What Max() and Min() are, of two numbers
LEMMA MaxOfTwo ==
  \A a, b \in Int : Max({a, b}) = (IF a >= b THEN a ELSE b)
<1> TAKE a, b \in Int
<1>1. \E x \in {a, b} : \A y \in {a, b} : x >= y
  OBVIOUS
<1>2. Max({a, b}) \in {a, b} /\ \A y \in {a, b} : Max({a, b}) >= y
  BY <1>1 DEF Max
<1> QED BY <1>2

LEMMA MinOfTwo ==
  \A a, b \in Int : Min({a, b}) = (IF a <= b THEN a ELSE b)
<1> TAKE a, b \in Int
<1>1. \E x \in {a, b} : \A y \in {a, b} : x =< y
  OBVIOUS
<1>2. Min({a, b}) \in {a, b} /\ \A y \in {a, b} : Min({a, b}) =< y
  BY <1>1 DEF Min
<1> QED BY <1>2

\* and of some: the number with the fewest above it.
LEMMA MaxOfSome ==
  ASSUME NEW n \in Nat, NEW S \in SUBSET (0..n), S # {}
  PROVE  Max(S) \in S /\ \A y \in S : Max(S) >= y
<1> DEFINE Above(y) == {k \in 0..n : k > y}
           T == {Above(y) : y \in S}
<1>1. T \subseteq FiniteSubsetsOf(0..n) /\ T # {}
  <2>1. IsFiniteSet(0..n)
    BY FS_Interval
  <2>2. FiniteSubsetsOf(0..n) = SUBSET (0..n)
    BY <2>1, FS_FiniteSubsetsOfFinite
  <2>3. T \subseteq SUBSET (0..n) /\ T # {}
    OBVIOUS
  <2> QED BY <2>2, <2>3
<1>2. PICK A \in T : \A B \in T : ~(<<B, A>> \in StrictSubsetOrdering(0..n))
  <2> HIDE DEF T
  <2> QED BY <1>1, WFMin, FS_StrictSubsetOrderingWellFounded
<1>3. PICK z \in S : A = Above(z)
  BY <1>2
<1>4. \A y \in S : z >= y
  <2> SUFFICES ASSUME NEW y \in S, ~(z >= y) PROVE FALSE
    OBVIOUS
  <2>1. Above(y) \subseteq Above(z) /\ y \in Above(z) /\ y \notin Above(y)
    OBVIOUS
  <2>2. <<Above(y), A>> \in StrictSubsetOrdering(0..n)
    BY <1>3, <2>1 DEF StrictSubsetOrdering
  <2> QED BY <1>2, <2>2
<1> QED BY <1>4 DEF Max

\* Division by a positive number
LEMMA Division ==
  \A c \in Nat \ {0}, k \in Nat :
    k \div c \in Nat /\ k % c \in 0..c - 1 /\ k = (k \div c) * c + (k % c)
  BY SMT

\* undoes the composition of a number.
LEMMA DivideBack ==
  ASSUME NEW c \in Nat \ {0}, NEW q \in Nat, NEW r \in 0..c - 1
  PROVE  (q * c + r) \div c = q /\ (q * c + r) % c = r
<1> DEFINE k == q * c + r
           p == k \div c
           m == k % c
<1>1. k \in Nat /\ q * c \in Nat
  BY SMT
<1>2. p \in Nat /\ m \in 0..c - 1 /\ k = p * c + m
  BY <1>1, Division
<1>3. q * c + r = p * c + m
  BY <1>2
<1> HIDE DEF k, p, m
<1>4. ~(q < p)
  <2> SUFFICES ASSUME q < p PROVE FALSE
    OBVIOUS
  <2>1. (q + 1) * c <= p * c
    BY <1>2
  <2>2. (q + 1) * c = q * c + c
    OBVIOUS
  <2> QED BY <1>1, <1>2, <1>3, <2>1, <2>2
<1>5. ~(p < q)
  <2> SUFFICES ASSUME p < q PROVE FALSE
    OBVIOUS
  <2>1. (p + 1) * c <= q * c
    BY <1>2
  <2>2. (p + 1) * c = p * c + c
    BY <1>2
  <2> QED BY <1>1, <1>2, <1>3, <2>1, <2>2
<1>6. p = q /\ m = r
  <2>1. p = q
    BY <1>2, <1>4, <1>5
  <2> QED BY <1>1, <1>2, <1>3, <2>1
<1> QED BY <1>6 DEF p, m, k

\* What is assumed, and that the arrays can be counted
LEMMA Constants ==
  /\ MaxClosed \in Nat /\ IsFiniteSet(Growing)
  /\ SeqlockSize \in Nat /\ SeqlockSize % 2 = 0 /\ 2 * MaxClosed + 2 <= SeqlockSize
  /\ MinCapacity \in Nat \ {0} /\ MaxCapacity \in Nat /\ MinCapacity <= MaxCapacity
  /\ Multiplier \in Nat /\ Multiplier > 1
  /\ ExtraCapacity \in Nat /\ MaxTickets \in Nat /\ IsFiniteSet(Threads)
<1>1. IsFiniteSet(Growing)
  <2>1. IsFiniteSet(Below)
    BY FS_Interval, DynamicMPMCQueueAssumption DEF Below, DynamicMPMCQueueAssumption
  <2> QED BY <2>1, FS_Subset DEF Growing
<1>2. MaxClosed \in Nat
  BY <1>1, FS_CardinalityType DEF MaxClosed
<1> QED BY <1>1, <1>2, DynamicMPMCQueueAssumption DEF DynamicMPMCQueueAssumption

\* dstate_ as tryExpand() composes it has the parts it is composed of, unlocked.
LEMMA Encoding ==
  ASSUME NEW o \in Nat, NEW k \in 0..MaxClosed
  PROVE  LET s == o * SeqlockSize + 2 * k
         IN  s \in Nat /\ GetOffset(s) = o /\ GetNumClosed(s) = k /\ ~Odd(s)
<1> DEFINE c == SeqlockSize
           s == o * c + 2 * k
           h == c \div 2
<1>1. c \in Nat \ {0} /\ k \in Nat /\ 2 * k \in 0..c - 1
  BY Constants
<1>2. h \in Nat /\ c = h * 2
  BY Constants, Division
<1> HIDE DEF c, h
<1>3. s \in Nat /\ s \div c = o /\ s % c = 2 * k
  <2>1. (o * c + 2 * k) \div c = o /\ (o * c + 2 * k) % c = 2 * k
    BY <1>1, DivideBack
  <2>2. s \in Nat
    BY <1>1
  <2> QED BY <2>1, <2>2
<1>4. (2 * k) \div 2 = k
  BY <1>1, SMT
<1>5. s % 2 = 0
  <2>1. s = (o * h + k) * 2
    BY <1>1, <1>2
  <2>2. o * h + k \in Nat
    BY <1>1, <1>2
  <2> HIDE DEF s
  <2> QED BY <2>1, <2>2
<1> QED BY <1>3, <1>4, <1>5 DEF GetOffset, GetNumClosed, Odd, c

\* The lock bit does not touch the rest.
LEMMA LockBit ==
  ASSUME NEW s \in Nat, ~Odd(s)
  PROVE  /\ GetOffset(s + 1) = GetOffset(s) /\ GetNumClosed(s + 1) = GetNumClosed(s)
         /\ Odd(s + 1) /\ GetOffset(s) \in Nat /\ GetNumClosed(s) \in Nat
<1> DEFINE c == SeqlockSize
           q == s \div c
           r == s % c
           h == c \div 2
<1>1. c \in Nat \ {0} /\ h \in Nat /\ c = h * 2
  BY Constants, Division
<1>2. q \in Nat /\ r \in 0..c - 1 /\ s = q * c + r
  BY <1>1, Division
<1> HIDE DEF c, h, q, r
<1>3. s % 2 = 0
  BY DEF Odd
<1>4. PICK k \in Nat : s = k * 2
  BY <1>3
<1>5. r % 2 = 0
  <2>1. r = (k - q * h) * 2
    BY <1>1, <1>2, <1>4
  <2>2. k - q * h \in Int
    BY <1>1, <1>2
  <2> QED BY <2>1, <2>2
<1>6. PICK j \in Nat : r = j * 2
  BY <1>2, <1>5
<1>7. r + 1 \in 0..c - 1
  BY <1>1, <1>2, <1>6
<1>8. s + 1 = q * c + (r + 1)
  BY <1>1, <1>2
<1>9. (s + 1) \div c = q /\ (s + 1) % c = r + 1
  <2>1. (q * c + (r + 1)) \div c = q /\ (q * c + (r + 1)) % c = r + 1
    BY <1>1, <1>2, <1>7, DivideBack
  <2> QED BY <1>8, <2>1
<1>10. (r + 1) \div 2 = j /\ r \div 2 = j
  BY <1>6
<1>11. (s + 1) % 2 = 1
  BY <1>3
<1> QED BY <1>2, <1>6, <1>9, <1>10, <1>11 DEF GetOffset, GetNumClosed, Odd, c, q, r
-----------------------------------------------------------------------------
\* Labels of a thread that has read an unlocked dstate_, of one that has locked it, and
\* threads that know the array of their ticket
Loaded == {"loadSlots", "loadCapacity", "validate", "bind"}
Holding == {"loadTickets", "loadPop", "loadPush", "allocate", "restore", "storeCapacity",
            "publish"}
Expanding == Holding \cup {"expand", "notifyFailed", "notifyExpanded"}
Bound(t) == \/ pc[t] \in Expanding \cup {"access"}
            \/ pc[t] = "claim" /\ my[t].op \in Writes

\* The arrays by number, whether closed or not
NumClosed == GetNumClosed(dstate)
Array(i) == IF i < dslots THEN closed[i]
            ELSE [offset |-> GetOffset(dstate), capacity |-> dcapacity, slots |-> dslots]

\* The calls that get to each place
CallsKnown == \A t \in Threads :
  /\ my[t].op = "none" <=> pc[t] = "idle"
  /\ pc[t] \in {"loadState", "sleep", "asleep"} \cup Loaded =>
       my[t].op \in Writes \cup {"blockingRead"}
  /\ pc[t] = "testPush" => my[t].op = "readIfNotEmpty"
  /\ pc[t] = "claim" => my[t].op \in {"writeIfNotFull", "readIfNotEmpty"}
  /\ pc[t] = "continue" => my[t].op = "writeIfNotFull"
  /\ pc[t] = "access" => my[t].op \in {"blockingWrite", "blockingRead"}
  /\ pc[t] \in Expanding =>
       \/ my[t].op = "blockingWrite" /\ my[t].refused = "access"
       \/ my[t].op = "writeIfNotFull" /\ my[t].refused \in {"claim", "giveUp"}

\* Who holds a ticket got it from a counter, who may get one has read the counter.
TicketsKnown == \A t \in Threads :
  /\ my[t].op \in Writes => my[t].ticket <= pushTicket
  /\ my[t].op \in Reads => my[t].ticket <= popTicket
  /\ my[t].op = "blockingWrite" => my[t].ticket < pushTicket
  /\ my[t].op = "blockingRead" => my[t].ticket < popTicket

\* Calls that may yet claim a ticket leave room for each other.
Claiming(kind) == {t \in Threads : my[t].op = kind}
CountersBounded == /\ pushTicket + Cardinality(Claiming("writeIfNotFull")) <= MaxTickets
                   /\ popTicket + Cardinality(Claiming("readIfNotEmpty")) <= MaxTickets

\* dstate_ is odd while one thread holds the lock, which found it as it remembers.
Locked ==
  /\ Odd(dstate) => \E h \in Threads : pc[h] \in Holding
  /\ \A h \in Threads : pc[h] \in Holding => dstate = my[h].state + 1
  /\ \A h, k \in Threads : pc[h] \in Holding /\ pc[k] \in Holding => h = k
  /\ \A h \in Threads : pc[h] \in Holding \cup {"expand"} =>
       /\ ~Odd(my[h].state) /\ my[h].cap # MaxCapacity
       /\ my[h].slots = GetNumClosed(my[h].state)
  /\ IF \E h \in Threads : pc[h] \in {"storeCapacity", "publish"}
     THEN dslots = NumClosed + 1 ELSE dslots = NumClosed
  /\ \A h \in Threads : /\ pc[h] \in {"loadPop", "loadPush"} => my[h].base <= MaxTickets
                        /\ pc[h] \in {"allocate", "storeCapacity", "publish"} =>
                             my[h].base <= MaxTickets + 1

\* The arrays have their numbers, and the first begins with ticket 0.
Records ==
  /\ NumClosed \in 0..MaxClosed /\ GetOffset(dstate) \in 0..MaxTickets + 1
  /\ \A i \in 0..NumClosed : Array(i).slots = i
  /\ Array(0).offset = 0 /\ Array(NumClosed).offset = GetOffset(dstate)

\* Capacities grow from one array to the next.
Capacities ==
  /\ dcapacity \in Growing \cup {MaxCapacity}
  /\ \A i \in 0..dslots - 1 :
       /\ closed[i].capacity \in Growing
       /\ \A j \in 0..dslots - 1 : i < j => closed[i].capacity < closed[j].capacity
       /\ closed[i].capacity < dcapacity \/ \E h \in Threads : pc[h] = "storeCapacity"

\* What was read of the expansion belongs together, when dstate_ has not moved on.
Snapshots == \A t \in Threads : LET n == GetNumClosed(my[t].state) IN
  /\ pc[t] \in Loaded => /\ ~Odd(my[t].state) /\ n <= NumClosed
                         /\ GetOffset(my[t].state) = Array(n).offset
  /\ pc[t] \in {"loadCapacity", "validate"} /\ n = dslots => my[t].slots = dslots
  /\ pc[t] = "validate" /\ n = dslots => my[t].cap = dcapacity
  /\ pc[t] = "bind" =>
       Array(n) = [offset |-> GetOffset(my[t].state), capacity |-> my[t].cap,
                   slots |-> my[t].slots]

\* A thread that knows the array of its ticket knows it right.
Bindings == \A t \in Threads : Bound(t) =>
  /\ my[t].slots \in 0..NumClosed
  /\ Array(my[t].slots) = [offset |-> my[t].offset, capacity |-> my[t].cap,
                           slots |-> my[t].slots]
  /\ my[t].offset <= my[t].ticket

\* Arrays that come later begin after the ticket of who has looked at dstate_, and so will
\* the one that is being made.
Seen(t) == IF pc[t] \in Loaded THEN GetNumClosed(my[t].state) ELSE my[t].slots
Exceeds(h, t) ==
  /\ pc[h] = "loadPop" /\ my[t].op \in Writes => my[t].ticket <= my[h].base
  /\ pc[h] = "loadPush" /\ my[t].op \in Reads => my[t].ticket <= my[h].base
  /\ pc[h] \in {"allocate", "storeCapacity", "publish"} => my[t].ticket < my[h].base
LaterBeyond == \A t \in Threads : pc[t] \in Loaded \/ Bound(t) =>
  /\ \A j \in Seen(t) + 1..NumClosed : my[t].ticket < Array(j).offset
  /\ \A h \in Threads : Exceeds(h, t)

IInv == /\ TypeOK /\ CallsKnown /\ TicketsKnown /\ CountersBounded /\ Locked /\ Records
        /\ Capacities /\ Snapshots /\ Bindings /\ LaterBeyond

Step(t) == Call(t) \/ Progress(t)

\* What steps leave alone: the other threads, but that they are woken, and the counters,
\* but that they are incremented.
LEMMA Frames ==
  ASSUME TypeOK, NEW t \in Threads, Step(t)
  PROVE  /\ \A u \in Threads \ {t} :
              /\ my'[u] = my[u]
              /\ pc'[u] = pc[u] \/ (pc[u] = "asleep" /\ pc'[u] = "sleep")
         /\ pushTicket' \in {pushTicket, pushTicket + 1}
         /\ popTicket' \in {popTicket, popTicket + 1}
<1> USE DEF Goto, Local, tickets, expansion, memory
<1>0. pc \in [Threads -> Labels] /\ my \in [Threads -> Locals]
  BY DEF TypeOK
<1>1. CASE NotifyAll(t)
  BY <1>0, <1>1 DEF NotifyAll
<1>2. CASE Call(t) \/ Continue(t) \/ TestPush(t) \/ Claim(t) \/ ClaimFails(t) \/ GiveUp(t)
  BY <1>0, <1>2 DEF Call, BlockingWrite, WriteIfNotFull, BlockingRead, ReadIfNotEmpty,
     Continue, TestPush, Claim, ClaimFails, GiveUp
<1>3. CASE LoadState(t) \/ Sleep(t) \/ LoadSlots(t) \/ LoadCapacity(t) \/ Validate(t)
  BY <1>0, <1>3 DEF LoadState, Sleep, LoadSlots, LoadCapacity, Validate
<1>4. CASE FindsRoom(t) \/ FindsFull(t) \/ FindsExpandable(t)
  BY <1>0, <1>4 DEF FindsRoom, FindsFull, FindsExpandable, Bind
<1>5. CASE Lock(t) \/ LockFails(t) \/ LoadsFirst(t) \/ LoadsSecond(t) \/ AllocationFails(t)
  BY <1>0, <1>5 DEF Lock, LockFails, LoadsFirst, LoadsSecond, AllocationFails
<1>6. CASE Restore(t) \/ StoreSlots(t) \/ StoreCapacity(t) \/ Publish(t)
  BY <1>0, <1>6 DEF Restore, StoreSlots, StoreCapacity, Publish
<1>7. CASE Access(t)
  BY <1>0, <1>7 DEF Access
<1> QED BY <1>1, <1>2, <1>3, <1>4, <1>5, <1>6, <1>7 DEF Step, Progress

\* Where the steps begin and end: a thread gets to know its array in
\* maybeUpdateFromClosed().
LEMMA Moves ==
  ASSUME IInv, NEW t \in Threads, Step(t)
  PROVE  /\ \/ (Call(t) \/ Continue(t)) /\ pc[t] \in {"idle", "continue"}
                                        /\ pc'[t] \in {"loadState", "testPush"}
            \/ TestPush(t) /\ pc[t] = "testPush" /\ pc'[t] \in {"claim", "giveUp"}
            \/ ClaimFails(t) /\ pc[t] = "claim" /\ pc'[t] \in {"continue", "testPush"}
            \/ GiveUp(t) /\ pc[t] = "giveUp" /\ pc'[t] = "idle"
            \/ Claim(t) /\ pc[t] = "claim" /\ pc'[t] \in {"access", "loadState"}
            \/ LoadState(t) /\ pc[t] = "loadState" /\ pc'[t] \in {"sleep", "loadSlots"}
            \/ Sleep(t) /\ pc[t] = "sleep" /\ pc'[t] \in {"asleep", "loadState"}
            \/ LoadSlots(t) /\ pc[t] = "loadSlots" /\ pc'[t] = "loadCapacity"
            \/ LoadCapacity(t) /\ pc[t] = "loadCapacity" /\ pc'[t] = "validate"
            \/ /\ Validate(t)
               /\ pc[t] = "validate" /\ pc'[t] \in {"bind", "sleep", "loadSlots"}
            \/ /\ FindsRoom(t) \/ FindsFull(t)
               /\ pc[t] = "bind" /\ pc'[t] \in {"access", "claim", "giveUp"}
            \/ FindsExpandable(t) /\ pc[t] = "bind" /\ pc'[t] = "expand"
            \/ Lock(t) /\ pc[t] = "expand" /\ pc'[t] = "loadTickets"
            \/ LockFails(t) /\ pc[t] = "expand" /\ pc'[t] \in {"access", "continue"}
            \/ LoadsFirst(t) /\ pc[t] = "loadTickets" /\ pc'[t] \in {"loadPop", "loadPush"}
            \/ LoadsSecond(t) /\ pc[t] \in {"loadPop", "loadPush"} /\ pc'[t] = "allocate"
            \/ AllocationFails(t) /\ pc[t] = "allocate" /\ pc'[t] = "restore"
            \/ Restore(t) /\ pc[t] = "restore" /\ pc'[t] = "notifyFailed"
            \/ StoreSlots(t) /\ pc[t] = "allocate" /\ pc'[t] = "storeCapacity"
            \/ StoreCapacity(t) /\ pc[t] = "storeCapacity" /\ pc'[t] = "publish"
            \/ Publish(t) /\ pc[t] = "publish" /\ pc'[t] = "notifyExpanded"
            \/ /\ NotifyAll(t) /\ pc[t] \in {"notifyFailed", "notifyExpanded"}
               /\ pc'[t] \in {"access", "claim", "giveUp", "continue"}
            \/ Access(t) /\ pc[t] = "access" /\ pc'[t] = "idle"
         /\ ~Bound(t) /\ Bound(t)' => pc[t] = "bind"
<1> USE DEF Goto, Local
<1>0. pc \in [Threads -> Labels] /\ my \in [Threads -> Locals] /\ CallsKnown
  BY DEF IInv, TypeOK
<1> USE DEF Bound, Expanding, Holding
<1>1. CASE Call(t) \/ Continue(t)
  BY <1>0, <1>1 DEF Call, BlockingWrite, WriteIfNotFull, BlockingRead, ReadIfNotEmpty,
     Continue
<1>2. CASE TestPush(t)
  <2>1. my[t].op \notin Writes
    BY <1>0, <1>2 DEF TestPush, CallsKnown, Writes
  <2> QED BY <1>0, <1>2, <2>1 DEF TestPush
<1>3. CASE ClaimFails(t) \/ GiveUp(t)
  BY <1>0, <1>3 DEF ClaimFails, GiveUp
<1>4. CASE Claim(t)
  BY <1>0, <1>4 DEF Claim, Writes
<1>5. CASE LoadState(t) \/ Sleep(t) \/ LoadSlots(t) \/ LoadCapacity(t) \/ Validate(t)
  BY <1>0, <1>5 DEF LoadState, Sleep, LoadSlots, LoadCapacity, Validate
<1>6. CASE FindsRoom(t) \/ FindsFull(t) \/ FindsExpandable(t)
  <2>1. WithoutRoom(t) \in {"access", "claim", "giveUp"}
    BY DEF WithoutRoom
  <2> QED BY <1>0, <1>6, <2>1 DEF FindsRoom, FindsFull, FindsExpandable, Bind
<1>7. CASE Lock(t) \/ LockFails(t) \/ LoadsFirst(t) \/ LoadsSecond(t) \/ AllocationFails(t)
  BY <1>0, <1>7 DEF Lock, LockFails, LoadsFirst, LoadsSecond, AllocationFails, Expanded
<1>8. CASE Restore(t) \/ StoreSlots(t) \/ StoreCapacity(t) \/ Publish(t)
  BY <1>0, <1>8 DEF Restore, StoreSlots, StoreCapacity, Publish
<1>9. CASE NotifyAll(t)
  <2>1. /\ my[t].refused \in {"access", "claim", "giveUp"}
        /\ Expanded(t) \in {"access", "continue"}
    BY <1>0, <1>9 DEF NotifyAll, CallsKnown, Expanded
  <2> QED BY <1>0, <1>9, <2>1 DEF NotifyAll
<1>10. CASE Access(t)
  BY <1>0, <1>10 DEF Access
<1> QED BY <1>1, <1>2, <1>3, <1>4, <1>5, <1>6, <1>7, <1>8, <1>9, <1>10 DEF Step, Progress

\* Only these steps touch the expansion.
Expands(t) == Lock(t) \/ Restore(t) \/ StoreSlots(t) \/ StoreCapacity(t) \/ Publish(t)

\* The others leave it alone.
LEMMA OthersKeep ==
  ASSUME NEW t, Step(t), ~Expands(t)
  PROVE  UNCHANGED expansion
<1> USE DEF Goto, Local, tickets, expansion, memory
<1>1. CASE NotifyAll(t)
  BY <1>1 DEF NotifyAll
<1>2. CASE Call(t) \/ Continue(t) \/ TestPush(t) \/ Claim(t) \/ ClaimFails(t) \/ GiveUp(t)
  BY <1>2 DEF Call, BlockingWrite, WriteIfNotFull, BlockingRead, ReadIfNotEmpty,
     Continue, TestPush, Claim, ClaimFails, GiveUp
<1>3. CASE LoadState(t) \/ Sleep(t) \/ LoadSlots(t) \/ LoadCapacity(t) \/ Validate(t)
  BY <1>3 DEF LoadState, Sleep, LoadSlots, LoadCapacity, Validate
<1>4. CASE FindsRoom(t) \/ FindsFull(t) \/ FindsExpandable(t)
  BY <1>4 DEF FindsRoom, FindsFull, FindsExpandable, Bind
<1>5. CASE LockFails(t) \/ LoadsFirst(t) \/ LoadsSecond(t) \/ AllocationFails(t)
  BY <1>5 DEF LockFails, LoadsFirst, LoadsSecond, AllocationFails
<1>7. CASE Access(t)
  BY <1>7 DEF Access
<1> QED BY <1>1, <1>2, <1>3, <1>4, <1>5, <1>7 DEF Step, Progress, Expands

\* There is a record for the array that is closed next.
LEMMA RoomToClose ==
  ASSUME IInv, NEW t \in Threads, pc[t] = "allocate"
  PROVE  /\ dslots = NumClosed /\ my[t].slots = NumClosed /\ my[t].cap = dcapacity
         /\ GetNumClosed(my[t].state) = NumClosed
         /\ GetOffset(my[t].state) = GetOffset(dstate)
         /\ dcapacity \in Growing /\ NumClosed + 1 \in 0..MaxClosed
<1>1. /\ dslots = NumClosed
      /\ \A h \in Threads : pc[h] # "storeCapacity"
  <2>1. \A h \in Threads : pc[h] \notin {"storeCapacity", "publish"}
    BY DEF IInv, Locked, Holding
  <2> QED BY <2>1 DEF IInv, Locked
<1>2. /\ dstate = my[t].state + 1 /\ ~Odd(my[t].state) /\ my[t].state \in Nat
      /\ my[t].slots = GetNumClosed(my[t].state) /\ my[t].cap # MaxCapacity
  BY DEF IInv, Locked, Holding, TypeOK, Locals
<1>3. /\ GetNumClosed(my[t].state) = NumClosed /\ GetOffset(my[t].state) = GetOffset(dstate)
  BY <1>2, LockBit DEF NumClosed
<1>4. my[t].cap = dcapacity
  <2>1. Array(NumClosed).capacity = my[t].cap
    <3>1. Bound(t)
      BY DEF Bound, Expanding, Holding
    <3>2. Array(my[t].slots) = [offset |-> my[t].offset, capacity |-> my[t].cap,
                                slots |-> my[t].slots]
      BY <3>1 DEF IInv, Bindings
    <3> QED BY <1>2, <1>3, <3>2
  <2>2. NumClosed \in Nat
    BY DEF IInv, Records
  <2> QED BY <1>1, <2>1, <2>2 DEF Array
<1>5. dcapacity \in Growing
  BY <1>2, <1>4 DEF IInv, Capacities
<1>6. NumClosed \in Nat /\ IsFiniteSet(Growing) /\ MaxClosed = Cardinality(Growing)
      /\ MaxClosed \in Nat
  BY Constants DEF IInv, Records, MaxClosed
<1>7. NumClosed + 1 <= MaxClosed
  <2> DEFINE n == NumClosed
             f == [i \in 0..n |-> IF i = n THEN dcapacity ELSE closed[i].capacity]
  <2>1. n \in Nat /\ dslots = n
    BY <1>1, <1>6
  <2>2. \A i \in 0..n - 1 : /\ closed[i].capacity \in Growing
                            /\ closed[i].capacity < dcapacity
                            /\ \A j \in 0..n - 1 :
                                 i < j => closed[i].capacity < closed[j].capacity
    BY <1>1 DEF IInv, Capacities
  <2>3. \A c \in Growing : c \in Nat
    BY Constants DEF Growing, Below
  <2>4. \A i, j \in 0..n : i < j => f[i] < f[j]
    <3> HIDE DEF n
    <3> TAKE i, j \in 0..n
    <3> HAVE i < j
    <3>1. i \in 0..n - 1 /\ f[i] = closed[i].capacity
      BY <2>1
    <3>2. CASE j = n
      BY <2>1, <2>2, <3>1, <3>2
    <3>3. CASE j # n
      <4>1. j \in 0..n - 1 /\ f[j] = closed[j].capacity
        BY <2>1, <3>3
      <4> QED BY <2>2, <3>1, <4>1
    <3> QED BY <3>2, <3>3
  <2>5. f \in [0..n -> Growing]
    <3> HIDE DEF n
    <3> QED BY <1>5, <2>1, <2>2
  <2>6. f \in Injection(0..n, Growing)
    <3>1. \A i, j \in 0..n : f[i] = f[j] => i = j
      <4> HIDE DEF f, n
      <4> TAKE i, j \in 0..n
      <4>1. f[i] \in Nat /\ f[j] \in Nat
        BY <2>3, <2>5
      <4>2. i < j => f[i] < f[j]
        BY <2>4
      <4>3. j < i => f[j] < f[i]
        BY <2>4
      <4> QED BY <2>1, <4>1, <4>2, <4>3
    <3> QED BY <2>5, <3>1 DEF Injection, IsInjective
  <2>7. Cardinality(0..n) <= Cardinality(Growing)
    BY <1>6, <2>6, FS_Injection
  <2>8. Cardinality(0..n) = n + 1
    BY <2>1, FS_Interval
  <2> QED BY <1>6, <2>7, <2>8
<1> QED BY <1>1, <1>2, <1>3, <1>4, <1>5, <1>6, <1>7

\* The lock is taken and given back, and what it holds is published, without a change of
\* the arrays that there are.
LEMMA ArraysStay ==
  ASSUME IInv, NEW t \in Threads, Step(t)
  PROVE  /\ NumClosed \in Nat /\ NumClosed' \in Nat /\ NumClosed <= NumClosed'
         /\ \A i \in 0..NumClosed : Array(i)' = Array(i)
         /\ dslots \in Nat /\ dslots <= dslots' /\ dslots' \in Nat
         /\ ~Publish(t) => NumClosed' = NumClosed /\ GetOffset(dstate') = GetOffset(dstate)
         /\ Publish(t) => /\ NumClosed' = NumClosed + 1 /\ dslots = NumClosed + 1
                          /\ GetOffset(dstate') = my[t].base /\ ~Odd(dstate')
         /\ Restore(t) => ~Odd(dstate')
         /\ Lock(t) => Odd(dstate') /\ ~Odd(dstate)
<1>0. /\ NumClosed \in 0..MaxClosed /\ dslots \in 0..MaxClosed
      /\ dslots \in {NumClosed, NumClosed + 1}
  BY DEF IInv, Records, Locked, TypeOK, Arrays
<1>1. CASE ~Expands(t)
  <2>1. UNCHANGED <<dstate, dslots, dcapacity, closed>>
    BY <1>1, OthersKeep DEF expansion
  <2> QED BY <1>0, <1>1, <2>1 DEF NumClosed, Array, Expands
<1>2. CASE Lock(t)
  <2>1. /\ pc[t] = "expand" /\ dstate = my[t].state /\ dstate' = dstate + 1
        /\ UNCHANGED <<dslots, dcapacity, closed>>
    BY <1>2 DEF Lock, Goto
  <2>2. dstate \in Nat /\ ~Odd(dstate)
    BY <2>1 DEF IInv, TypeOK, Locked
  <2>3. NumClosed' = NumClosed /\ GetOffset(dstate') = GetOffset(dstate) /\ Odd(dstate')
    BY <2>1, <2>2, LockBit DEF NumClosed
  <2>4. ~Publish(t) /\ ~Restore(t)
    BY <2>1 DEF Publish, Restore, Goto
  <2> QED BY <1>0, <2>1, <2>2, <2>3, <2>4 DEF Array
<1>3. CASE Restore(t)
  <2>1. /\ pc[t] = "restore" /\ dstate' = my[t].state
        /\ UNCHANGED <<dslots, dcapacity, closed>>
    BY <1>3 DEF Restore, Goto
  <2>2. dstate = my[t].state + 1 /\ ~Odd(my[t].state) /\ my[t].state \in Nat
    BY <2>1 DEF IInv, Locked, Holding, TypeOK, Locals
  <2>3. NumClosed' = NumClosed /\ GetOffset(dstate') = GetOffset(dstate) /\ ~Odd(dstate')
    BY <2>1, <2>2, LockBit DEF NumClosed
  <2>4. ~Publish(t) /\ ~Lock(t)
    BY <2>1 DEF Publish, Lock, Goto
  <2> QED BY <1>0, <2>1, <2>2, <2>3, <2>4 DEF Array
<1>4. CASE StoreSlots(t)
  <2>1. /\ pc[t] = "allocate" /\ dslots' = GetNumClosed(my[t].state) + 1
        /\ closed' = [closed EXCEPT ![GetNumClosed(my[t].state)] =
             [offset |-> GetOffset(my[t].state), capacity |-> my[t].cap, slots |-> dslots]]
        /\ UNCHANGED <<dstate, dcapacity>>
    BY <1>4 DEF StoreSlots, Goto
  <2>2. /\ dslots = NumClosed /\ my[t].slots = NumClosed /\ my[t].cap = dcapacity
        /\ GetNumClosed(my[t].state) = NumClosed
        /\ GetOffset(my[t].state) = GetOffset(dstate)
        /\ NumClosed + 1 \in 0..MaxClosed
    BY <2>1, RoomToClose
  <2>3. /\ closed'[NumClosed] = [offset |-> GetOffset(dstate), capacity |-> dcapacity,
                                 slots |-> dslots]
        /\ \A i \in 0..NumClosed - 1 : closed'[i] = closed[i]
    BY <1>0, <2>1, <2>2, Constants DEF IInv, TypeOK
  <2>4. NumClosed' = NumClosed
    BY <2>1 DEF NumClosed
  <2>5. ~Publish(t) /\ ~Lock(t) /\ ~Restore(t)
    BY <2>1 DEF Publish, Lock, Restore, Goto
  <2>6. \A i \in 0..NumClosed : Array(i)' = Array(i)
    <3> TAKE i \in 0..NumClosed
    <3>1. Array(i)' = closed'[i]
      BY <1>0, <2>1, <2>2 DEF Array
    <3>2. CASE i = NumClosed
      BY <1>0, <2>2, <2>3, <3>1, <3>2 DEF Array
    <3>3. CASE i # NumClosed
      BY <1>0, <2>2, <2>3, <3>1, <3>3 DEF Array
    <3> QED BY <3>2, <3>3
  <2> QED BY <1>0, <2>1, <2>2, <2>4, <2>5, <2>6
<1>5. CASE StoreCapacity(t)
  <2>1. /\ pc[t] = "storeCapacity" /\ UNCHANGED <<dstate, dslots, closed>>
    BY <1>5 DEF StoreCapacity, Goto
  <2>2. dslots = NumClosed + 1
    BY <2>1 DEF IInv, Locked
  <2>3. ~Publish(t) /\ ~Lock(t) /\ ~Restore(t)
    BY <2>1 DEF Publish, Lock, Restore, Goto
  <2> QED BY <1>0, <2>1, <2>2, <2>3 DEF Array, NumClosed
<1>6. CASE Publish(t)
  <2>1. /\ pc[t] = "publish" /\ UNCHANGED <<dslots, dcapacity, closed>>
        /\ dstate' = my[t].base * SeqlockSize + 2 * (GetNumClosed(my[t].state) + 1)
    BY <1>6 DEF Publish, Goto
  <2>2. dslots = NumClosed + 1
    BY <2>1 DEF IInv, Locked
  <2>3. /\ dstate = my[t].state + 1 /\ ~Odd(my[t].state) /\ my[t].state \in Nat
        /\ my[t].base \in Nat
    BY <2>1 DEF IInv, Locked, Holding, TypeOK, Locals
  <2>4. GetNumClosed(my[t].state) = NumClosed
    BY <2>3, LockBit DEF NumClosed
  <2>5. NumClosed' = NumClosed + 1 /\ GetOffset(dstate') = my[t].base /\ ~Odd(dstate')
    <3> DEFINE k == NumClosed + 1
    <3>1. k \in 0..MaxClosed
      BY <1>0, <2>2
    <3>2. dstate' = my[t].base * SeqlockSize + 2 * k
      BY <2>1, <2>4
    <3> HIDE DEF k
    <3>3. GetNumClosed(dstate') = k /\ GetOffset(dstate') = my[t].base /\ ~Odd(dstate')
      BY <2>3, <3>1, <3>2, Encoding
    <3> QED BY <3>3 DEF k, NumClosed
  <2>6. ~Lock(t) /\ ~Restore(t)
    BY <2>1 DEF Lock, Restore, Goto
  <2> QED BY <1>0, <1>6, <2>1, <2>2, <2>5, <2>6 DEF Array
<1> QED BY <1>1, <1>2, <1>3, <1>4, <1>5, <1>6 DEF Expands

\* maybeUpdateFromClosed() finds the array that the ticket belongs to.
LEMMA BindingRight ==
  ASSUME IInv, NEW t \in Threads, pc[t] = "bind"
  PROVE  \E i \in 0..NumClosed :
           /\ Array(i) = [offset |-> Binding(t).offset, capacity |-> Binding(t).capacity,
                          slots |-> i]
           /\ Binding(t).slots = i /\ Binding(t).offset <= my[t].ticket
           /\ \A j \in i + 1..NumClosed : my[t].ticket < Array(j).offset
           /\ ~InClosed(t) => /\ i = GetNumClosed(my[t].state)
                              /\ Binding(t).capacity = my[t].cap
<1> DEFINE n == GetNumClosed(my[t].state)
           o == GetOffset(my[t].state)
           k == my[t].ticket
<1>1. /\ n \in Nat /\ o \in Nat /\ n <= NumClosed /\ o = Array(n).offset
      /\ Array(n) = [offset |-> o, capacity |-> my[t].cap, slots |-> my[t].slots]
      /\ NumClosed \in 0..MaxClosed /\ dslots \in {NumClosed, NumClosed + 1}
      /\ \A i \in 0..NumClosed : Array(i).slots = i
      /\ Array(0).offset = 0
  <2>1. my[t].state \in Nat /\ ~Odd(my[t].state)
    BY DEF IInv, Snapshots, Loaded, TypeOK, Locals
  <2> QED BY <2>1, LockBit DEF IInv, Snapshots, Loaded, Records, Locked
<1>2. \A j \in n + 1..NumClosed : k < Array(j).offset
  BY DEF IInv, LaterBeyond, Loaded, Seen
<1>3. k \in Nat /\ MaxClosed \in Nat
  BY Constants DEF IInv, TypeOK, Locals
<1>4. CASE ~InClosed(t)
  <2>1. Binding(t) = [offset |-> o, capacity |-> my[t].cap, slots |-> my[t].slots]
    BY <1>4 DEF Binding
  <2>2. o <= k
    BY <1>1, <1>3, <1>4 DEF InClosed
  <2>3. my[t].slots = n /\ n \in 0..NumClosed
    <3>1. n \in 0..NumClosed
      BY <1>1
    <3>2. Array(n) = [offset |-> o, capacity |-> my[t].cap, slots |-> my[t].slots]
      BY <1>1
    <3>3. Array(n).slots = n
      BY <1>1, <3>1
    <3> HIDE DEF n, o
    <3>4. Array(n).slots = my[t].slots
      BY <3>2
    <3> QED BY <3>1, <3>3, <3>4
  <2>4. /\ Binding(t).offset = o /\ Binding(t).capacity = my[t].cap
        /\ Binding(t).slots = n
    BY <2>1, <2>3
  <2>5. Array(n) = [offset |-> Binding(t).offset, capacity |-> Binding(t).capacity,
                    slots |-> n]
    BY <1>1, <2>3, <2>4
  <2> QED BY <1>2, <2>2, <2>3, <2>4, <2>5
<1>5. CASE InClosed(t)
  <2> DEFINE S == {i \in 0..n - 1 : closed[i].offset <= k}
  <2>1. k < o
    BY <1>5 DEF InClosed
  <2>2. n # 0 /\ 0 < dslots /\ closed[0].offset = 0
    BY <1>1, <1>3, <2>1 DEF Array
  <2>3. S # {} /\ S \subseteq 0..n
    BY <1>1, <1>3, <2>2
  <2>4. Max(S) \in S /\ \A y \in S : Max(S) >= y
    BY <1>1, <2>3, MaxOfSome
  <2>5. PICK i \in S : i = Max(S) /\ \A y \in S : i >= y
    BY <2>4
  <2>6. Binding(t) = closed[i]
    BY <1>5, <2>5 DEF Binding
  <2>7. /\ i \in 0..NumClosed /\ i < dslots /\ Array(i) = closed[i]
        /\ \A j \in 0..n - 1 : Array(j) = closed[j]
    BY <1>1, <2>5 DEF Array
  <2>8. \A j \in i + 1..NumClosed : k < Array(j).offset
    <3> SUFFICES ASSUME NEW j \in i + 1..NumClosed PROVE k < Array(j).offset
      OBVIOUS
    <3>1. CASE j < n
      <4>1. j \in 0..n - 1 /\ j \notin S
        BY <1>1, <2>5, <3>1
      <4>2. closed[j].offset \in Nat
        BY <1>1, <1>3, <4>1, Constants DEF IInv, TypeOK
      <4> QED BY <1>3, <2>7, <4>1, <4>2
    <3>2. CASE j = n
      BY <1>1, <2>1, <3>2
    <3>3. CASE j > n
      BY <1>1, <1>2, <2>5, <3>3
    <3> QED BY <1>1, <2>5, <3>1, <3>2, <3>3
  <2>9. closed[i] = [offset |-> closed[i].offset, capacity |-> closed[i].capacity,
                     slots |-> closed[i].slots]
    BY <1>1, <1>3, <2>5 DEF IInv, TypeOK
  <2>10. closed[i].slots = i /\ closed[i].offset <= k
    BY <1>1, <2>5, <2>7
  <2> QED BY <1>5, <2>6, <2>7, <2>8, <2>9, <2>10
<1> QED BY <1>4, <1>5
-----------------------------------------------------------------------------
(* Each part of the invariant is preserved.                                *)

\* The arrays have their numbers, and the last one begins where dstate_ says.
LEMMA RecordsStay ==
  ASSUME IInv, NEW t \in Threads, Step(t), TypeOK', Locked'
  PROVE  Records'
<1>1. NumClosed' \in 0..MaxClosed
  BY ArraysStay, Constants DEF Locked, TypeOK, Arrays
<1>2. GetOffset(dstate') \in 0..MaxTickets + 1
  <2>1. CASE Publish(t)
    <3>1. pc[t] = "publish"
      BY <2>1 DEF Publish, Goto
    <3>2. my[t].base \in Nat /\ my[t].base <= MaxTickets + 1
      BY <3>1 DEF IInv, TypeOK, Locals, Locked
    <3> QED BY <2>1, <3>2, Constants, ArraysStay
  <2>2. CASE ~Publish(t)
    BY <2>2, ArraysStay DEF IInv, Records
  <2> QED BY <2>1, <2>2
<1>3. (Array(0).offset)' = 0
  BY ArraysStay DEF IInv, Records
<1>4. ASSUME NEW i \in 0..NumClosed' PROVE Array(i)'.slots = i
  <2>1. CASE i \in 0..NumClosed
    BY <2>1, ArraysStay DEF IInv, Records
  <2>2. CASE i \notin 0..NumClosed
    <3>1. Publish(t) /\ i = NumClosed + 1 /\ dslots = NumClosed + 1
      BY <1>4, <2>2, ArraysStay
    <3>2. dslots' = dslots
      BY <3>1 DEF Publish
    <3> QED BY <3>1, <3>2, ArraysStay DEF Array
  <2> QED BY <2>1, <2>2
<1>5. (Array(NumClosed).offset = GetOffset(dstate))'
  <2>1. CASE Publish(t)
    <3>1. NumClosed' = dslots /\ dslots' = dslots
      BY <2>1, ArraysStay DEF Publish
    <3>2. NumClosed' \in Nat
      BY <1>1, Constants
    <3> QED BY <3>1, <3>2 DEF Array
  <2>2. CASE ~Publish(t)
    <3>1. NumClosed \in 0..NumClosed
      BY ArraysStay
    <3>2. PICK n \in 0..NumClosed : n = NumClosed
      BY <3>1
    <3>3. Array(n)' = Array(n) /\ NumClosed' = n /\ GetOffset(dstate') = GetOffset(dstate)
      BY <2>2, <3>2, ArraysStay
    <3> QED BY <3>2, <3>3 DEF IInv, Records
  <2> QED BY <2>1, <2>2
<1> QED BY <1>1, <1>2, <1>3, <1>4, <1>5 DEF Records

\* The capacity that follows one below the limit is greater, and one of those foreseen.
LEMMA NextCapacity ==
  ASSUME NEW c \in Growing
  PROVE  /\ c \in Nat /\ c < MaxCapacity
         /\ Min({Multiplier * c, MaxCapacity}) \in Growing \cup {MaxCapacity}
         /\ Min({Multiplier * c, MaxCapacity}) > c
<1>1. c \in Nat /\ c < MaxCapacity /\ c \in Below
  BY Constants DEF Growing, Below
<1>2. Multiplier * c \in Nat
  BY <1>1, Constants
<1>3. c >= 1
  <2> DEFINE S == Below \ {0}
  <2>1. S \in SUBSET Below
    OBVIOUS
  <2>2. MinCapacity < MaxCapacity => MinCapacity \in S
    BY Constants DEF Below
  <2>3. ASSUME NEW k \in S, Multiplier * k < MaxCapacity PROVE Multiplier * k \in S
    <3>1. k \in Nat /\ k # 0
      BY Constants DEF Below
    <3>2. Multiplier * k \in Nat /\ Multiplier * k # 0
      BY <3>1, Constants
    <3> QED BY <2>3, <3>2, Constants DEF Below
  <2>4. c \in S
    <3> HIDE DEF S
    <3> QED BY <2>1, <2>2, <2>3 DEF Growing
  <2> QED BY <1>1, <2>4
<1>4. Multiplier * c > c
  BY <1>1, <1>3, Constants
<1>5. ASSUME Multiplier * c < MaxCapacity PROVE Multiplier * c \in Growing
  <2>1. Multiplier * c \in Below
    BY <1>2, <1>5, Constants DEF Below
  <2> QED BY <1>5, <2>1 DEF Growing
<1>6. Min({Multiplier * c, MaxCapacity}) = IF Multiplier * c <= MaxCapacity
                                           THEN Multiplier * c ELSE MaxCapacity
  BY <1>2, Constants, MinOfTwo
<1> QED BY <1>1, <1>2, <1>4, <1>5, <1>6, Constants

\* The one that is appended is greater than all before it.
LEMMA CapacitiesStay ==
  ASSUME IInv, NEW t \in Threads, Step(t), TypeOK', Locked'
  PROVE  Capacities'
<1>0. /\ pc \in [Threads -> Labels] /\ dslots \in Nat /\ NumClosed \in Nat
      /\ \A i \in 0..dslots - 1 : closed[i].capacity \in Nat
      /\ dcapacity \in Nat
  <2>1. dslots \in 0..MaxClosed /\ closed \in [0..MaxClosed - 1 ->
           [offset : 0..MaxTickets + 1, capacity : Nat, slots : Arrays]]
    BY DEF IInv, TypeOK, Arrays
  <2>2. dcapacity \in Nat /\ pc \in [Threads -> Labels]
    BY Constants DEF IInv, TypeOK
  <2>3. NumClosed \in 0..MaxClosed /\ MaxClosed \in Nat
    BY Constants DEF IInv, Records
  <2>4. dslots \in Nat /\ NumClosed \in Nat
    BY <2>1, <2>3
  <2>5. ASSUME NEW i \in 0..dslots - 1
        PROVE  closed[i].capacity \in Nat
    <3>1. i \in 0..MaxClosed - 1
      BY <2>1, <2>3
    <3> QED BY <2>1, <3>1
  <2> QED BY <2>2, <2>4, <2>5
<1>1. CASE StoreSlots(t)
  <2>1. /\ pc[t] = "allocate" /\ dslots' = GetNumClosed(my[t].state) + 1
        /\ pc' = [pc EXCEPT ![t] = "storeCapacity"] /\ dcapacity' = dcapacity
        /\ closed' = [closed EXCEPT ![GetNumClosed(my[t].state)] =
             [offset |-> GetOffset(my[t].state), capacity |-> my[t].cap, slots |-> dslots]]
    BY <1>1 DEF StoreSlots, Goto
  <2>2. /\ dslots = NumClosed /\ my[t].cap = dcapacity
        /\ GetNumClosed(my[t].state) = NumClosed
        /\ dcapacity \in Growing /\ NumClosed + 1 \in 0..MaxClosed
    BY <2>1, RoomToClose
  <2>3. pc'[t] = "storeCapacity"
    BY <1>0, <2>1
  <2>4. \A h \in Threads : pc[h] # "storeCapacity"
    BY <2>1 DEF IInv, Locked, Holding
  <2>5. /\ closed'[NumClosed].capacity = dcapacity /\ dslots' = NumClosed + 1
        /\ \A i \in 0..NumClosed - 1 : closed'[i] = closed[i]
    <3>1. closed \in [0..MaxClosed - 1 ->
             [offset : 0..MaxTickets + 1, capacity : Nat, slots : Arrays]]
      BY DEF IInv, TypeOK
    <3>2. NumClosed \in 0..MaxClosed - 1
      BY <1>0, <2>2, Constants
    <3>3. \A i \in 0..NumClosed - 1 : i \in 0..MaxClosed - 1 /\ i # NumClosed
      BY <1>0, <3>2, Constants
    <3> QED BY <2>1, <2>2, <3>1, <3>2, <3>3
  <2>6. \A i \in 0..NumClosed - 1 : /\ closed[i].capacity \in Growing
                                    /\ closed[i].capacity < dcapacity
    BY <2>2, <2>4 DEF IInv, Capacities
  <2>7. ASSUME NEW i \in 0..dslots' - 1, NEW j \in 0..dslots' - 1, i < j
        PROVE  closed'[i].capacity < closed'[j].capacity
    <3>1. i \in 0..NumClosed - 1 /\ closed'[i] = closed[i]
      BY <1>0, <2>5, <2>7
    <3>2. CASE j = NumClosed
      BY <2>5, <2>6, <3>1, <3>2
    <3>3. CASE j # NumClosed
      <4>1. j \in 0..dslots - 1 /\ i \in 0..dslots - 1 /\ closed'[j] = closed[j]
        BY <1>0, <2>2, <2>5, <3>1, <3>3
      <4> QED BY <2>7, <3>1, <4>1 DEF IInv, Capacities
    <3> QED BY <3>2, <3>3
  <2>8. \A i \in 0..dslots' - 1 : closed'[i].capacity \in Growing
    BY <1>0, <2>2, <2>5, <2>6
  <2> QED BY <2>1, <2>2, <2>3, <2>7, <2>8 DEF Capacities
<1>2. CASE StoreCapacity(t)
  <2>1. /\ pc[t] = "storeCapacity" /\ UNCHANGED <<dstate, dslots, closed>>
        /\ dcapacity' = Min({Multiplier * my[t].cap, MaxCapacity})
    BY <1>2 DEF StoreCapacity, Goto
  <2>2. dslots = NumClosed + 1
    BY <2>1 DEF IInv, Locked
  <2>3. my[t].cap = closed[NumClosed].capacity
    <3>1. Bound(t) /\ my[t].slots = GetNumClosed(my[t].state)
      BY <2>1 DEF Bound, Expanding, Holding, IInv, Locked
    <3>2. GetNumClosed(my[t].state) = NumClosed
      <4>1. my[t].state \in Nat /\ ~Odd(my[t].state) /\ dstate = my[t].state + 1
        BY <2>1 DEF IInv, TypeOK, Locals, Locked, Holding
      <4> QED BY <4>1, LockBit DEF NumClosed
    <3>3. Array(my[t].slots) = [offset |-> my[t].offset, capacity |-> my[t].cap,
                                slots |-> my[t].slots]
      BY <3>1 DEF IInv, Bindings
    <3> QED BY <1>0, <2>2, <3>1, <3>2, <3>3 DEF Array
  <2>4. \A i \in 0..dslots - 1 :
          /\ closed[i].capacity \in Growing
          /\ \A j \in 0..dslots - 1 : i < j => closed[i].capacity < closed[j].capacity
    BY DEF IInv, Capacities
  <2>5. NumClosed \in 0..dslots - 1 /\ my[t].cap \in Growing
    BY <1>0, <2>2, <2>3, <2>4
  <2>6. /\ dcapacity' \in Growing \cup {MaxCapacity} /\ dcapacity' > my[t].cap
        /\ my[t].cap \in Nat
    BY <2>1, <2>5, NextCapacity
  <2>7. dcapacity' \in Nat
    BY Constants DEF TypeOK
  <2>8. \A i \in 0..dslots - 1 : closed[i].capacity < dcapacity'
    <3> TAKE i \in 0..dslots - 1
    <3>1. closed[i].capacity <= my[t].cap
      BY <1>0, <2>2, <2>3, <2>4, <2>5
    <3> QED BY <1>0, <2>6, <2>7, <3>1
  <2> QED BY <2>1, <2>4, <2>6, <2>8 DEF Capacities
<1>3. CASE ~StoreSlots(t) /\ ~StoreCapacity(t)
  <2>1. UNCHANGED <<dslots, dcapacity, closed>>
    BY <1>3, OthersKeep DEF expansion, Expands, Lock, Restore, Publish
  <2>2. \A h \in Threads : pc[h] = "storeCapacity" => pc'[h] = "storeCapacity"
    <3> TAKE h \in Threads
    <3> HAVE pc[h] = "storeCapacity"
    <3>1. CASE h # t
      BY <3>1, Frames DEF IInv
    <3>2. CASE h = t
      <4>1. ~(pc[t] = "storeCapacity")
        BY <1>3, Moves
      <4> QED BY <3>2, <4>1
    <3> QED BY <3>1, <3>2
  <2> QED BY <2>1, <2>2 DEF IInv, Capacities
<1> QED BY <1>1, <1>2, <1>3

\* Who was sent to sleep does not get anywhere, and everybody else stays where he is.
LEMMA OthersStay ==
  ASSUME IInv, NEW t \in Threads, Step(t), NEW u \in Threads \ {t}
  PROVE  /\ my'[u] = my[u] /\ (pc[u] \notin {"asleep", "sleep"} => pc'[u] = pc[u])
         /\ (pc'[u] \notin {"asleep", "sleep"} => pc'[u] = pc[u])
         /\ (pc[u] \in Loaded <=> pc'[u] \in Loaded) /\ (Bound(u) <=> Bound(u)')
         /\ Seen(u)' = Seen(u)
<1>1. my'[u] = my[u] /\ (pc'[u] = pc[u] \/ (pc[u] = "asleep" /\ pc'[u] = "sleep"))
  BY Frames DEF IInv
<1>2. CASE pc'[u] = pc[u]
  BY <1>1, <1>2 DEF Bound, Seen
<1>3. CASE pc[u] = "asleep" /\ pc'[u] = "sleep"
  BY <1>1, <1>3 DEF Bound, Seen, Loaded, Expanding, Holding
<1> QED BY <1>1, <1>2, <1>3

\* The steps of tryExpand() while the lock is held, and the threads that hold it
LEMMA LockedStays ==
  ASSUME IInv, NEW t \in Threads, Step(t), TypeOK'
  PROVE  Locked'
<1> USE DEF Goto, Local, Holding, expansion
<1>0. /\ pc \in [Threads -> Labels] /\ my \in [Threads -> Locals] /\ MaxTickets \in Nat
      /\ pushTicket \in 0..MaxTickets /\ popTicket \in 0..MaxTickets
  BY Constants DEF IInv, TypeOK
<1>1. \A u \in Threads \ {t} :
        /\ my'[u] = my[u] /\ \A l \in Holding \cup {"expand"} : pc'[u] = l <=> pc[u] = l
  BY OthersStay
<1>2. /\ Odd(dstate) => \E h \in Threads : pc[h] \in Holding
      /\ \A h \in Threads : pc[h] \in Holding => dstate = my[h].state + 1
      /\ \A h, k \in Threads : pc[h] \in Holding /\ pc[k] \in Holding => h = k
      /\ \A h \in Threads : pc[h] \in Holding \cup {"expand"} =>
           /\ ~Odd(my[h].state) /\ my[h].cap # MaxCapacity
           /\ my[h].slots = GetNumClosed(my[h].state)
      /\ IF \E h \in Threads : pc[h] \in {"storeCapacity", "publish"}
         THEN dslots = NumClosed + 1 ELSE dslots = NumClosed
      /\ \A h \in Threads : /\ pc[h] \in {"loadPop", "loadPush"} => my[h].base <= MaxTickets
                            /\ pc[h] \in {"allocate", "storeCapacity", "publish"} =>
                                 my[h].base <= MaxTickets + 1
  BY DEF IInv, Locked
<1>3. CASE pc[t] \notin Holding /\ pc'[t] \notin Holding
  <2>1. UNCHANGED <<dstate, dslots>>
    BY <1>0, <1>3, OthersKeep DEF Expands, Lock, Restore, StoreSlots, StoreCapacity, Publish
  <2>2. pc'[t] = "expand" => /\ ~Odd(my'[t].state) /\ my'[t].cap # MaxCapacity
                             /\ my'[t].slots = GetNumClosed(my'[t].state)
    <3> HAVE pc'[t] = "expand"
    <3>1. FindsExpandable(t)
      BY <1>3, Moves
    <3>2. /\ pc[t] = "bind" /\ MayExpand(t)
          /\ my' = [my EXCEPT ![t] = [my[t] EXCEPT !.slots = Binding(t).slots,
                                       !.cap = Binding(t).capacity,
                                       !.offset = Binding(t).offset,
                                       !.state = my[t].state, !.refused = WithoutRoom(t)]]
      BY <3>1 DEF FindsExpandable, Bind
    <3>3. /\ my'[t].state = my[t].state /\ my'[t].cap = Binding(t).capacity
          /\ my'[t].slots = Binding(t).slots
      BY <1>0, <3>2 DEF Locals
    <3>4. ~InClosed(t) /\ my[t].cap # MaxCapacity
      BY <3>2 DEF MayExpand
    <3>5. /\ Binding(t).slots = GetNumClosed(my[t].state)
          /\ Binding(t).capacity = my[t].cap
      BY <3>2, <3>4, BindingRight
    <3>6. ~Odd(my[t].state)
      BY <3>2 DEF IInv, Snapshots, Loaded
    <3> QED BY <3>3, <3>4, <3>5, <3>6
  <2>3. NumClosed' = NumClosed
    BY <2>1 DEF NumClosed
  <2>4. \A h \in Threads : \A l \in Holding : pc'[h] = l <=> pc[h] = l
    BY <1>1, <1>3
  <2> QED BY <1>1, <1>2, <1>3, <2>1, <2>2, <2>3, <2>4 DEF Locked
<1>4. CASE Lock(t)
  <2>1. /\ pc[t] = "expand" /\ dstate = my[t].state /\ dstate' = dstate + 1 /\ my' = my
        /\ dslots' = dslots /\ pc'[t] = "loadTickets" /\ dstate \in Nat /\ ~Odd(dstate)
    BY <1>0, <1>2, <1>4 DEF Lock, IInv, TypeOK
  <2>2. \A h \in Threads : pc[h] \notin Holding
    <3> SUFFICES ASSUME NEW h \in Threads, pc[h] \in Holding PROVE FALSE
      OBVIOUS
    <3>1. dstate = my[h].state + 1 /\ ~Odd(my[h].state) /\ my[h].state \in Nat
      BY <1>0, <1>2 DEF Locals
    <3> QED BY <2>1, <3>1, LockBit
  <2>3. NumClosed' = NumClosed
    BY <1>4, ArraysStay DEF Lock, Publish
  <2>4. dslots = NumClosed
    BY <1>2, <2>2
  <2>5. \A h \in Threads \ {t} : pc'[h] \notin Holding
    BY <1>1, <2>2
  <2> QED BY <1>0, <1>1, <1>2, <2>1, <2>3, <2>4, <2>5 DEF Locked
<1>5. CASE pc[t] \in Holding /\ pc'[t] \in Holding
  <2>1. \A h \in Threads \ {t} : pc'[h] \notin Holding
    BY <1>1, <1>2, <1>5
  <2>2. /\ dstate' = dstate /\ my'[t].state = my[t].state
        /\ my'[t].slots = my[t].slots /\ my'[t].cap = my[t].cap
        /\ IF pc'[t] \in {"storeCapacity", "publish"} THEN dslots' = NumClosed + 1
           ELSE dslots' = NumClosed
        /\ pc'[t] \in {"loadPop", "loadPush"} => my'[t].base <= MaxTickets
        /\ pc'[t] \in {"allocate", "storeCapacity", "publish"} =>
                             my'[t].base <= MaxTickets + 1
    <3>1. \/ LoadsFirst(t) \/ LoadsSecond(t) \/ AllocationFails(t)
          \/ StoreSlots(t) \/ StoreCapacity(t)
      BY <1>5, Moves
    <3>2. pc[t] \notin {"storeCapacity", "publish"} => dslots = NumClosed
      BY <1>2, <1>5
    <3>3. CASE LoadsFirst(t)
      BY <1>0, <3>2, <3>3 DEF LoadsFirst, Locals
    <3>4. CASE LoadsSecond(t)
      <4>1. my[t].base \in Nat /\ my[t].base <= MaxTickets
        BY <1>0, <1>2, <3>4 DEF LoadsSecond, Locals
      <4>2. \A c \in {pushTicket, popTicket} : Max({my[t].base, c}) <= MaxTickets
        BY <1>0, <4>1, MaxOfTwo
      <4>3. \A c \in {pushTicket, popTicket} : Max({my[t].base, c}) \in Nat
        BY <1>0, <4>1, MaxOfTwo
      <4> QED BY <1>0, <3>2, <3>4, <4>2, <4>3 DEF LoadsSecond, Locals
    <3>5. CASE AllocationFails(t)
      BY <1>0, <3>2, <3>5 DEF AllocationFails, Locals
    <3>6. CASE StoreSlots(t)
      <4>1. GetNumClosed(my[t].state) = NumClosed
        BY <3>6, RoomToClose DEF StoreSlots
      <4> QED BY <1>0, <1>2, <3>6, <4>1 DEF StoreSlots
    <3>7. CASE StoreCapacity(t)
      BY <1>0, <1>2, <3>7 DEF StoreCapacity
    <3> QED BY <3>1, <3>3, <3>4, <3>5, <3>6, <3>7
  <2>3. NumClosed' = NumClosed
    BY <2>2 DEF NumClosed
  <2> QED BY <1>0, <1>1, <1>2, <1>5, <2>1, <2>2, <2>3 DEF Locked
<1>6. CASE Restore(t) \/ Publish(t)
  <2>1. /\ pc[t] \in {"restore", "publish"} /\ pc'[t] \in {"notifyFailed", "notifyExpanded"}
        /\ dslots' = dslots /\ ~Odd(dstate')
    BY <1>0, <1>6, ArraysStay DEF Restore, Publish
  <2>2. \A h \in Threads : pc'[h] \notin Holding
    BY <1>1, <1>2, <2>1
  <2>3. dslots' = NumClosed'
    BY <1>2, <1>6, <2>1, ArraysStay DEF Restore, Publish
  <2> QED BY <1>0, <1>1, <1>2, <2>1, <2>2, <2>3 DEF Locked
<1>7. pc[t] \in Holding /\ pc'[t] \notin Holding => Restore(t) \/ Publish(t)
  BY Moves
<1>8. pc[t] \notin Holding /\ pc'[t] \in Holding => Lock(t)
  BY Moves
<1> QED BY <1>3, <1>4, <1>5, <1>6, <1>7, <1>8

\* What a thread has read stays right, as long as nobody has closed the array.
LEMMA SnapshotsStay ==
  ASSUME IInv, NEW t \in Threads, Step(t), TypeOK', Locked'
  PROVE  Snapshots'
<1> USE DEF Goto, Local
<1>0. /\ pc \in [Threads -> Labels] /\ my \in [Threads -> Locals]
      /\ dstate \in Nat /\ NumClosed \in Nat /\ dslots \in Nat /\ dcapacity \in Nat
      /\ GetOffset(dstate) \in Nat
      /\ dslots \in {NumClosed, NumClosed + 1}
      /\ (~Odd(dstate) => dslots = NumClosed)
  <2>1. /\ pc \in [Threads -> Labels] /\ my \in [Threads -> Locals]
        /\ dstate \in Nat /\ dslots \in Nat /\ dcapacity \in Nat
    BY Constants DEF IInv, TypeOK, Arrays
  <2>2. /\ NumClosed \in Nat /\ GetOffset(dstate) \in Nat
    BY Constants DEF IInv, Records
  <2>3. ~Odd(dstate) => dslots = NumClosed
    <3> HAVE ~Odd(dstate)
    <3>1. \A h \in Threads : pc[h] \notin Holding
      <4> SUFFICES ASSUME NEW h \in Threads, pc[h] \in Holding PROVE FALSE
        OBVIOUS
      <4>1. dstate = my[h].state + 1 /\ ~Odd(my[h].state) /\ my[h].state \in Nat
        BY <2>1 DEF IInv, Locked, Locals
      <4> QED BY <4>1, LockBit
    <3> QED BY <3>1 DEF IInv, Locked, Holding
  <2> QED BY <2>1, <2>2, <2>3 DEF IInv, Locked
<1> DEFINE S(u) == LET n == GetNumClosed(my[u].state) IN
             /\ pc[u] \in Loaded => /\ ~Odd(my[u].state) /\ n <= NumClosed
                                    /\ GetOffset(my[u].state) = Array(n).offset
             /\ pc[u] \in {"loadCapacity", "validate"} /\ n = dslots => my[u].slots = dslots
             /\ pc[u] = "validate" /\ n = dslots => my[u].cap = dcapacity
             /\ pc[u] = "bind" =>
                  Array(n) = [offset |-> GetOffset(my[u].state), capacity |-> my[u].cap,
                              slots |-> my[u].slots]
<1>1. \A u \in Threads : S(u)
  BY DEF IInv, Snapshots
<1>2. \A u \in Threads : pc[u] \in Loaded =>
        /\ my[u].state \in Nat /\ GetNumClosed(my[u].state) \in 0..NumClosed
  <2> TAKE u \in Threads
  <2> HAVE pc[u] \in Loaded
  <2>1. my[u].state \in Nat /\ ~Odd(my[u].state) /\ GetNumClosed(my[u].state) <= NumClosed
    BY <1>0, <1>1 DEF Locals
  <2>2. GetNumClosed(my[u].state) \in Nat
    BY <2>1, LockBit
  <2> QED BY <1>0, <2>1, <2>2
\* Unless it was closed meanwhile, an array is the one that was read.
<1>3. dslots' # dslots \/ dcapacity' # dcapacity => \A n \in 0..NumClosed : n # dslots'
  <2>1. CASE StoreSlots(t)
    <3>1. dslots = NumClosed /\ dslots' = NumClosed + 1
      BY <2>1, RoomToClose DEF StoreSlots
    <3> QED BY <1>0, <3>1
  <2>2. CASE StoreCapacity(t)
    <3>1. dslots = NumClosed + 1 /\ dslots' = dslots
      BY <2>2 DEF StoreCapacity, IInv, Locked
    <3> QED BY <1>0, <3>1
  <2>3. CASE ~StoreSlots(t) /\ ~StoreCapacity(t)
    <3>1. UNCHANGED <<dslots, dcapacity>>
      BY <2>3, OthersKeep DEF expansion, Expands, Lock, Restore, Publish
    <3> QED BY <3>1
  <2> QED BY <2>1, <2>2, <2>3
<1>4. \A n \in 0..NumClosed : n <= NumClosed' /\ Array(n)' = Array(n)
  BY <1>0, ArraysStay
<1>5. ASSUME NEW u \in Threads \ {t} PROVE S(u)'
  <2>1. /\ my'[u] = my[u] /\ (pc[u] \in Loaded <=> pc'[u] \in Loaded)
        /\ (pc'[u] \in Loaded => pc'[u] = pc[u])
    BY OthersStay DEF Loaded
  <2>2. CASE pc[u] \notin Loaded
    BY <2>1, <2>2 DEF Loaded
  <2>3. CASE pc[u] \in Loaded
    <3>1. PICK n \in 0..NumClosed : n = GetNumClosed(my[u].state)
      BY <1>2, <2>3
    <3>2. pc'[u] = pc[u]
      BY <2>1, <2>3
    <3>3. n <= NumClosed' /\ Array(n)' = Array(n)
      BY <1>4
    <3>4. S(u)
      BY <1>1
    <3> QED BY <1>3, <2>1, <3>1, <3>2, <3>3, <3>4
  <2> QED BY <2>2, <2>3
<1>6. CASE pc'[t] \notin Loaded
  <2>1. S(t)'
    BY <1>6 DEF Loaded
  <2> QED BY <1>5, <2>1 DEF Snapshots
<1>7. CASE pc'[t] \in Loaded
  <2>0. UNCHANGED expansion
    BY <1>0, <1>7, OthersKeep DEF Loaded, Expands, Lock, Restore, StoreSlots, StoreCapacity,
       Publish
  <2>1. UNCHANGED <<dstate, dslots, dcapacity, NumClosed>> /\ \A n : Array(n)' = Array(n)
    BY <2>0 DEF expansion, NumClosed, Array
  <2>2. LoadState(t) \/ LoadSlots(t) \/ LoadCapacity(t) \/ Validate(t)
    BY <1>7, Moves DEF Loaded
  <2>3. CASE (LoadState(t) \/ Validate(t)) /\ pc'[t] = "loadSlots"
    <3>1. my'[t].state = dstate /\ ~Odd(dstate)
      BY <1>0, <2>3 DEF LoadState, Validate, Locals
    <3>2. GetOffset(dstate) = Array(NumClosed).offset
      BY <1>0, <3>1 DEF Array
    <3>3. S(t)'
      BY <1>0, <2>1, <2>3, <3>1, <3>2 DEF NumClosed
    <3> QED BY <1>5, <3>3 DEF Snapshots
  <2>4. CASE LoadSlots(t)
    <3>1. /\ pc[t] = "loadSlots" /\ pc'[t] = "loadCapacity"
          /\ my'[t].state = my[t].state /\ my'[t].slots = dslots
      BY <1>0, <2>4 DEF LoadSlots, Locals
    <3>2. S(t)'
      BY <1>1, <2>1, <3>1 DEF Loaded
    <3> QED BY <1>5, <3>2 DEF Snapshots
  <2>5. CASE LoadCapacity(t)
    <3>1. /\ pc[t] = "loadCapacity" /\ pc'[t] = "validate" /\ my'[t].slots = my[t].slots
          /\ my'[t].state = my[t].state /\ my'[t].cap = dcapacity
      BY <1>0, <2>5 DEF LoadCapacity, Locals
    <3>2. S(t)'
      BY <1>1, <2>1, <3>1 DEF Loaded
    <3> QED BY <1>5, <3>2 DEF Snapshots
  <2>6. CASE Validate(t) /\ pc'[t] # "loadSlots"
    <3>1. /\ pc[t] = "validate" /\ pc'[t] = "bind" /\ my'[t] = my[t] /\ dstate = my[t].state
      BY <1>0, <1>7, <2>6 DEF Validate, Loaded
    <3>2. ~Odd(dstate) /\ dslots = NumClosed /\ GetNumClosed(my[t].state) = dslots
      BY <1>0, <1>1, <3>1 DEF Loaded, NumClosed
    <3>3. my[t].slots = dslots /\ my[t].cap = dcapacity
      BY <1>1, <3>1, <3>2
    <3>4. Array(dslots) = [offset |-> GetOffset(dstate), capacity |-> dcapacity,
                           slots |-> dslots]
      BY <1>0 DEF Array
    <3>5. S(t)'
      BY <1>0, <1>1, <2>1, <3>1, <3>2, <3>3, <3>4 DEF Loaded
    <3> QED BY <1>5, <3>5 DEF Snapshots
  <2>7. LoadState(t) => pc'[t] = "loadSlots"
    BY <1>0, <1>7 DEF LoadState, Loaded
  <2> QED BY <2>2, <2>3, <2>4, <2>5, <2>6, <2>7
<1> QED BY <1>6, <1>7

\* The array of a ticket and the ticket stay the same in a step.
BindingKept(t) == /\ my'[t].slots = my[t].slots /\ my'[t].offset = my[t].offset
                  /\ my'[t].cap = my[t].cap /\ my'[t].ticket = my[t].ticket
                  /\ my'[t].op \in Writes <=> my[t].op \in Writes
                  /\ my'[t].op \in Reads <=> my[t].op \in Reads

\* Once known, the array stays the same for the rest of the call.
LEMMA BoundSteps ==
  ASSUME IInv, NEW t \in Threads, Step(t), Bound(t), Bound(t)'
  PROVE  BindingKept(t)
<1> USE DEF Goto, Local
<1>0. /\ pc \in [Threads -> Labels] /\ my \in [Threads -> Locals]
      /\ pc[t] \in Expanding \cup {"access", "claim"}
      /\ pc'[t] \in Expanding \cup {"access", "claim"}
      /\ pc[t] = "claim" => my[t].op = "writeIfNotFull"
      /\ pc[t] \in Expanding => my[t].op \in Writes
  BY DEF IInv, TypeOK, Bound, CallsKnown, Reads, Writes
<1>1. \/ Claim(t) \/ Lock(t) \/ LockFails(t) \/ LoadsFirst(t) \/ LoadsSecond(t)
      \/ AllocationFails(t) \/ Restore(t) \/ StoreSlots(t) \/ StoreCapacity(t) \/ Publish(t)
      \/ NotifyAll(t)
  BY <1>0, Moves DEF Expanding, Holding
<1>2. CASE Claim(t)
  BY <1>0, <1>2 DEF Claim, BindingKept, Locals, Writes, Reads
<1>3. CASE Lock(t) \/ Restore(t) \/ StoreSlots(t) \/ StoreCapacity(t) \/ Publish(t)
  <2>1. my' = my
    BY <1>3 DEF Lock, Restore, StoreSlots, StoreCapacity, Publish
  <2> QED BY <2>1 DEF BindingKept
<1>4. CASE AllocationFails(t)
  BY <1>0, <1>4 DEF AllocationFails, BindingKept
<1>5. CASE LoadsFirst(t) \/ LoadsSecond(t)
  <2>1. PICK b : my' = [my EXCEPT ![t] = [my[t] EXCEPT !.base = b]]
    BY <1>5 DEF LoadsFirst, LoadsSecond
  <2> QED BY <1>0, <2>1 DEF BindingKept, Locals
<1>6. CASE LockFails(t) \/ NotifyAll(t)
  <2>1. my' = [my EXCEPT ![t] = Returned(t)]
    BY <1>6 DEF LockFails, NotifyAll
  <2> QED BY <1>0, <2>1 DEF BindingKept, Locals, Returned
<1> QED BY <1>1, <1>2, <1>3, <1>4, <1>5, <1>6

\* A thread knows its array from the moment it leaves maybeUpdateFromClosed().
LEMMA BindingsStay ==
  ASSUME IInv, NEW t \in Threads, Step(t), TypeOK'
  PROVE  Bindings'
<1> USE DEF Goto, Local
<1>0. pc \in [Threads -> Labels] /\ my \in [Threads -> Locals]
  BY DEF IInv, TypeOK
<1> DEFINE B(u) == Bound(u) =>
             /\ my[u].slots \in 0..NumClosed
             /\ Array(my[u].slots) = [offset |-> my[u].offset, capacity |-> my[u].cap,
                                      slots |-> my[u].slots]
             /\ my[u].offset <= my[u].ticket
<1>1. \A u \in Threads : B(u)
  BY DEF IInv, Bindings
<1>2. /\ \A n \in 0..NumClosed : n \in 0..NumClosed' /\ Array(n)' = Array(n)
  BY ArraysStay
<1>3. ASSUME NEW u \in Threads \ {t} PROVE B(u)'
  <2>1. my'[u] = my[u] /\ (Bound(u) <=> Bound(u)')
    BY OthersStay
  <2> HIDE DEF Bound
  <2>2. CASE Bound(u)
    <3>1. PICK n \in 0..NumClosed : n = my[u].slots
      BY <1>1, <2>2
    <3> QED BY <1>1, <1>2, <2>1, <2>2, <3>1
  <2> QED BY <2>1, <2>2
<1>4. CASE ~Bound(t)'
  BY <1>3, <1>4 DEF Bindings
<1>5. CASE Bound(t)' /\ Bound(t)
  <2>1. BindingKept(t)
    BY <1>5, BoundSteps
  <2>2. PICK n \in 0..NumClosed : n = my[t].slots
    BY <1>1, <1>5
  <2>3. B(t)'
    BY <1>1, <1>2, <1>5, <2>1, <2>2 DEF BindingKept
  <2> QED BY <1>3, <2>3 DEF Bindings
<1>6. CASE Bound(t)' /\ ~Bound(t)
  <2>1. pc[t] = "bind" /\ (FindsRoom(t) \/ FindsFull(t) \/ FindsExpandable(t))
    BY <1>6, Moves
  <2>2. /\ my'[t].slots = Binding(t).slots /\ my'[t].offset = Binding(t).offset
        /\ my'[t].cap = Binding(t).capacity /\ my'[t].ticket = my[t].ticket
    <3>1. PICK st, rf :
            my' = [my EXCEPT ![t] = [my[t] EXCEPT !.slots = Binding(t).slots,
                                       !.cap = Binding(t).capacity,
                                       !.offset = Binding(t).offset,
                                       !.state = st, !.refused = rf]]
      BY <2>1 DEF FindsRoom, FindsFull, FindsExpandable, Bind
    <3> QED BY <1>0, <3>1 DEF Locals
  <2>3. PICK n \in 0..NumClosed :
          /\ Array(n) = [offset |-> Binding(t).offset, capacity |-> Binding(t).capacity,
                         slots |-> n]
          /\ Binding(t).slots = n /\ Binding(t).offset <= my[t].ticket
    BY <2>1, BindingRight
  <2>4. B(t)'
    BY <1>2, <2>2, <2>3
  <2> QED BY <1>3, <2>4 DEF Bindings
<1> QED BY <1>4, <1>5, <1>6

\* A new array begins after every ticket that somebody may take to the old ones.
LEMMA LaterStays ==
  ASSUME IInv, NEW t \in Threads, Step(t), TypeOK', Locked'
  PROVE  LaterBeyond'
<1> USE DEF Goto, Local
<1>0. /\ pc \in [Threads -> Labels] /\ my \in [Threads -> Locals]
      /\ pushTicket \in Nat /\ popTicket \in Nat /\ NumClosed \in Nat
      /\ dstate \in Nat
  BY Constants DEF IInv, TypeOK, Records
<1> DEFINE Looking(u) == pc[u] \in Loaded \/ Bound(u)
           Past(u) == \A j \in Seen(u) + 1..NumClosed : my[u].ticket < Array(j).offset
           All(u) == \A h \in Threads : Exceeds(h, u)
<1>1. \A u \in Threads : Looking(u) => Past(u) /\ All(u)
  BY DEF IInv, LaterBeyond
<1>2. ASSUME NEW u \in Threads, Looking(u)
      PROVE  Seen(u) \in 0..NumClosed
  <2>1. CASE pc[u] \in Loaded
    <3>1. /\ my[u].state \in Nat /\ ~Odd(my[u].state)
          /\ GetNumClosed(my[u].state) <= NumClosed
      BY <1>0, <2>1 DEF IInv, Snapshots, Locals
    <3> QED BY <1>0, <2>1, <3>1, LockBit DEF Seen
  <2>2. CASE pc[u] \notin Loaded
    BY <1>2, <2>2 DEF IInv, Bindings, Seen
  <2> QED BY <2>1, <2>2
\* What a thread that has looked knows of the array that t makes
<1>3. ASSUME NEW u \in Threads, Looking(u), my'[u].ticket = my[u].ticket
      PROVE  \A j \in Seen(u) + 1..NumClosed' : my'[u].ticket < Array(j)'.offset
  <2> TAKE j \in Seen(u) + 1..NumClosed'
  <2>1. CASE j \in 0..NumClosed
    <3>1. Array(j)' = Array(j)
      BY <2>1, ArraysStay
    <3>2. j \in Seen(u) + 1..NumClosed
      BY <1>0, <1>2, <1>3, <2>1
    <3> QED BY <1>1, <1>3, <3>1, <3>2
  <2>2. CASE j \notin 0..NumClosed
    <3>1. j \in Nat /\ NumClosed' \in Nat /\ j > NumClosed /\ j <= NumClosed'
      BY <1>0, <1>2, <1>3, <2>2, ArraysStay
    <3>2. /\ Publish(t) /\ j = NumClosed + 1 /\ dslots = NumClosed + 1
          /\ GetOffset(dstate') = my[t].base
      BY <1>0, <3>1, ArraysStay
    <3>3. pc[t] = "publish" /\ dslots' = dslots
      BY <3>2 DEF Publish
    <3>4. Array(j)'.offset = my[t].base
      BY <1>0, <3>2, <3>3 DEF Array
    <3>5. my[u].ticket < my[t].base
      BY <1>1, <1>3, <3>3 DEF Exceeds
    <3> QED BY <1>3, <3>4, <3>5
  <2> QED BY <2>1, <2>2
<1>4. ASSUME NEW u \in Threads, Looking(u), my'[u].ticket = my[u].ticket,
             my[u].op \in Writes <=> my'[u].op \in Writes,
             my[u].op \in Reads <=> my'[u].op \in Reads,
             my[u].op \in Writes \cup Reads,
             NEW h \in Threads
      PROVE  Exceeds(h, u)'
  <2>0. /\ my[u].ticket \in Nat
        /\ my[u].op \in Writes => my[u].ticket <= pushTicket
        /\ my[u].op \in Reads => my[u].ticket <= popTicket
    BY <1>0 DEF IInv, TicketsKnown, Locals
  <2>1. CASE h # t
    <3>1. my'[h] = my[h] /\ (pc'[h] \in {"loadPop", "loadPush", "allocate",
                                          "storeCapacity", "publish"} => pc'[h] = pc[h])
      BY <2>1, OthersStay
    <3> QED BY <1>1, <1>4, <3>1 DEF Exceeds
  <2>2. CASE LoadsFirst(t)
    BY <1>0, <1>4, <2>0, <2>1, <2>2 DEF LoadsFirst, Exceeds, Writes, Reads, Locals
  <2>3. CASE LoadsSecond(t)
    <3>1. my[t].base \in Nat
      BY <1>0 DEF Locals
    <3>2. \A c \in {pushTicket, popTicket} :
            /\ Max({my[t].base, c}) = IF my[t].base >= c THEN my[t].base ELSE c
      BY <1>0, <3>1, MaxOfTwo
    <3>3. ASSUME NEW c \in {pushTicket, popTicket}
          PROVE  /\ Max({my[t].base, c}) >= my[t].base /\ Max({my[t].base, c}) >= c
                 /\ Max({my[t].base, c}) \in Nat
      <4>1. /\ c \in Nat
            /\ Max({my[t].base, c}) = IF my[t].base >= c THEN my[t].base ELSE c
        BY <1>0, <3>2
      <4> QED BY <3>1, <4>1
    <3>4. /\ pc[t] = "loadPop" /\ my[u].op \in Writes => my[u].ticket <= my[t].base
          /\ pc[t] = "loadPush" /\ my[u].op \in Reads => my[u].ticket <= my[t].base
      BY <1>1, <1>4 DEF Exceeds
    <3>5. /\ pc'[t] = "allocate"
          /\ \/ pc[t] = "loadPop" /\ my'[t].base = Max({my[t].base, popTicket}) + 1
             \/ pc[t] = "loadPush" /\ my'[t].base = Max({my[t].base, pushTicket}) + 1
      BY <1>0, <2>3 DEF LoadsSecond, Locals
    <3>6. my[u].ticket < my'[t].base
      BY <1>0, <1>4, <2>0, <3>1, <3>3, <3>4, <3>5
    <3> QED BY <1>4, <2>1, <3>5, <3>6 DEF Exceeds
  <2>4. CASE StoreSlots(t) \/ StoreCapacity(t)
    <3>1. /\ pc[t] \in {"allocate", "storeCapacity"}
          /\ my' = my /\ pc'[t] \in {"storeCapacity", "publish"}
      BY <1>0, <2>4 DEF StoreSlots, StoreCapacity
    <3> QED BY <1>1, <1>4, <2>1, <3>1 DEF Exceeds
  <2>5. CASE ~(LoadsFirst(t) \/ LoadsSecond(t) \/ StoreSlots(t) \/ StoreCapacity(t))
    <3>1. pc'[t] \notin {"loadPop", "loadPush", "allocate", "storeCapacity", "publish"}
      BY <2>5, Moves
    <3> QED BY <2>1, <3>1 DEF Exceeds
  <2> QED BY <2>2, <2>3, <2>4, <2>5
<1>5. ASSUME NEW u \in Threads, Looking(u) PROVE my[u].op \in Writes \cup Reads
  BY <1>5 DEF IInv, CallsKnown, Loaded, Bound, Expanding, Writes, Reads
<1>6. ASSUME NEW u \in Threads \ {t}, Looking(u)' PROVE (Past(u) /\ All(u))'
  <2>1. my'[u] = my[u] /\ Looking(u) /\ Seen(u)' = Seen(u)
    BY <1>6, OthersStay
  <2>2. All(u)'
    BY <1>4, <1>5, <2>1
  <2>3. Past(u)'
    BY <1>3, <2>1
  <2> QED BY <2>2, <2>3
<1>7. CASE ~Looking(t)'
  BY <1>6, <1>7 DEF LaterBeyond
<1>8. ASSUME Looking(t)', Looking(t), ~(pc[t] = "validate" /\ pc'[t] = "loadSlots")
      PROVE  (Past(t) /\ All(t))'
  <2>1. /\ my'[t].ticket = my[t].ticket
        /\ my[t].op \in Writes <=> my'[t].op \in Writes
        /\ my[t].op \in Reads <=> my'[t].op \in Reads
    <3>1. CASE Bound(t)
      <4>1. pc'[t] \notin Loaded
        BY <3>1, Moves DEF Loaded, Expanding, Holding, Bound
      <4> QED BY <1>8, <3>1, <4>1, BoundSteps DEF BindingKept
    <3>2. CASE pc[t] \in Loaded
      <4>1. \/ LoadSlots(t) \/ LoadCapacity(t) \/ Validate(t)
            \/ FindsRoom(t) \/ FindsFull(t) \/ FindsExpandable(t)
        BY <3>2, Moves DEF Loaded
      <4>2. CASE FindsRoom(t) \/ FindsFull(t) \/ FindsExpandable(t)
        <5>1. PICK st, rf :
                my' = [my EXCEPT ![t] = [my[t] EXCEPT !.slots = Binding(t).slots,
                                           !.cap = Binding(t).capacity,
                                           !.offset = Binding(t).offset,
                                           !.state = st, !.refused = rf]]
          BY <4>2 DEF FindsRoom, FindsFull, FindsExpandable, Bind
        <5> QED BY <1>0, <5>1 DEF Locals
      <4>3. CASE LoadSlots(t)
        BY <1>0, <4>3 DEF LoadSlots, Locals
      <4>4. CASE LoadCapacity(t)
        BY <1>0, <4>4 DEF LoadCapacity, Locals
      <4>5. CASE Validate(t)
        <5>1. \/ my' = [my EXCEPT ![t] = my[t]]
              \/ my' = [my EXCEPT ![t] = [my[t] EXCEPT !.state = dstate, !.slots = 0,
                                                        !.cap = 0]]
          BY <4>5 DEF Validate
        <5>2. CASE my' = [my EXCEPT ![t] = my[t]]
          BY <1>0, <5>2
        <5>3. CASE my' = [my EXCEPT ![t] = [my[t] EXCEPT !.state = dstate, !.slots = 0,
                                                         !.cap = 0]]
          BY <1>0, <5>3 DEF Locals
        <5> QED BY <5>1, <5>2, <5>3
      <4> QED BY <4>1, <4>2, <4>3, <4>4, <4>5
    <3> QED BY <1>8, <3>1, <3>2
  <2>2. All(t)'
    BY <1>4, <1>5, <1>8, <2>1
  <2>3. Seen(t)' = Seen(t) => Past(t)'
    BY <1>3, <1>8, <2>1
  <2>4. CASE Bound(t) /\ Bound(t)'
    <3>1. my'[t].slots = my[t].slots
      BY <1>8, <2>4, BoundSteps DEF BindingKept
    <3>2. pc[t] \notin Loaded /\ pc'[t] \notin Loaded
      BY <2>4 DEF Bound, Loaded, Expanding, Holding
    <3> QED BY <2>2, <2>3, <3>1, <3>2 DEF Seen
  <2>5. CASE pc[t] \in Loaded /\ pc'[t] \in Loaded
    <3>1. my'[t].state = my[t].state
      <4>1. LoadSlots(t) \/ LoadCapacity(t) \/ Validate(t)
        BY <2>5, Moves DEF Loaded
      <4> QED BY <1>0, <1>8, <2>5, <4>1 DEF LoadSlots, LoadCapacity, Validate, Locals,
                 Loaded
    <3> QED BY <2>2, <2>3, <2>5, <3>1 DEF Seen
  <2>6. CASE pc[t] \in Loaded /\ pc'[t] \notin Loaded
    <3>0. pc[t] = "bind" /\ (FindsRoom(t) \/ FindsFull(t) \/ FindsExpandable(t))
      BY <1>8, <2>6, Moves DEF Loaded, Expanding, Holding, Bound
    <3>1. PICK st, rf :
            my' = [my EXCEPT ![t] = [my[t] EXCEPT !.slots = Binding(t).slots,
                                       !.cap = Binding(t).capacity,
                                       !.offset = Binding(t).offset,
                                       !.state = st, !.refused = rf]]
      BY <3>0 DEF FindsRoom, FindsFull, FindsExpandable, Bind
    <3>2. my'[t].slots = Binding(t).slots
      BY <1>0, <3>1 DEF Locals
    <3>3. PICK i \in 0..NumClosed :
            /\ Binding(t).slots = i
            /\ \A j \in i + 1..NumClosed : my[t].ticket < Array(j).offset
      BY <3>0, BindingRight
    <3>4. Seen(t)' = i
      BY <2>6, <3>2, <3>3 DEF Seen
    <3>5. UNCHANGED expansion
      BY <3>0, OthersKeep DEF Expands, Lock, Restore, StoreSlots, StoreCapacity, Publish
    <3>6. NumClosed' = NumClosed /\ \A j : Array(j)' = Array(j)
      BY <3>5 DEF expansion, NumClosed, Array
    <3>7. Past(t)'
      BY <2>1, <3>3, <3>4, <3>6
    <3> QED BY <2>2, <3>7
  <2>7. Bound(t) => Bound(t)'
    <3> HAVE Bound(t)
    <3>1. pc'[t] \notin Loaded
      BY Moves DEF Loaded, Expanding, Holding, Bound
    <3> QED BY <1>8, <3>1
  <2> QED BY <1>8, <2>4, <2>5, <2>6, <2>7
<1>9. ASSUME Looking(t)', ~Looking(t) \/ (pc[t] = "validate" /\ pc'[t] = "loadSlots")
      PROVE  (Past(t) /\ All(t))'
  <2>1. /\ (LoadState(t) \/ Validate(t)) /\ pc'[t] = "loadSlots"
    BY <1>9, Moves DEF Loaded
  <2>2. my'[t].state = dstate /\ ~Odd(dstate)
    BY <1>0, <2>1 DEF LoadState, Validate, Locals
  <2>3. Seen(t)' = NumClosed
    BY <2>1, <2>2 DEF Seen, Loaded, NumClosed
  <2>4. NumClosed' = NumClosed
    BY <2>1, ArraysStay DEF LoadState, Validate, Publish
  <2>5. Past(t)'
    BY <1>0, <2>3, <2>4
  <2>6. \A h \in Threads : pc[h] \notin Holding
    <3> SUFFICES ASSUME NEW h \in Threads, pc[h] \in Holding PROVE FALSE
      OBVIOUS
    <3>1. dstate = my[h].state + 1 /\ ~Odd(my[h].state) /\ my[h].state \in Nat
      BY <1>0 DEF IInv, Locked, Locals
    <3> QED BY <2>2, <3>1, LockBit
  <2>7. \A h \in Threads : pc'[h] \notin Holding
    BY <2>1, <2>6, OthersStay DEF Holding
  <2>8. All(t)'
    BY <2>7 DEF Exceeds, Holding
  <2> QED BY <2>5, <2>8
<1> QED BY <1>6, <1>7, <1>8, <1>9 DEF LaterBeyond

\* The steps that begin a call, begin it again, take its ticket or end it
Calls(t) == \/ Call(t) \/ Continue(t) \/ Claim(t) \/ ClaimFails(t) \/ GiveUp(t) \/ Access(t)

\* No other step changes the ticket or the kind of call, or a counter.
LEMMA SameCall ==
  ASSUME TypeOK, NEW t \in Threads, Step(t), ~Calls(t)
  PROVE  /\ my'[t].op = my[t].op /\ my'[t].ticket = my[t].ticket
         /\ pushTicket' = pushTicket /\ popTicket' = popTicket
         /\ pc[t] \in {"testPush", "notifyFailed", "notifyExpanded", "bind", "expand"}
              \cup Holding \cup Loaded \cup {"loadState", "sleep"}
<1> USE DEF Goto, Local, tickets
<1>0. pc \in [Threads -> Labels] /\ my \in [Threads -> Locals]
  BY DEF TypeOK
<1>1. CASE TestPush(t) \/ AllocationFails(t)
  BY <1>0, <1>1 DEF TestPush, AllocationFails, Holding
<1>2. CASE Lock(t) \/ Restore(t) \/ StoreSlots(t) \/ StoreCapacity(t) \/ Publish(t)
  BY <1>0, <1>2 DEF Lock, Restore, StoreSlots, StoreCapacity, Publish, Holding
<1>3. CASE LoadState(t)
  BY <1>0, <1>3 DEF LoadState, Locals
<1>4. CASE Sleep(t)
  <2>1. my' = my \/ my' = [my EXCEPT ![t] = [my[t] EXCEPT !.state = 0]]
    BY <1>0, <1>4 DEF Sleep
  <2> QED BY <1>0, <1>4, <2>1 DEF Sleep, Locals
<1>5. CASE LoadSlots(t) \/ LoadCapacity(t)
  <2>1. PICK a, b : my' = [my EXCEPT ![t] = [my[t] EXCEPT !.slots = a, !.cap = b]]
    <3>1. \/ my' = [my EXCEPT ![t] = [my[t] EXCEPT !.slots = dslots, !.cap = my[t].cap]]
          \/ my' = [my EXCEPT ![t] = [my[t] EXCEPT !.slots = my[t].slots,
                                                   !.cap = dcapacity]]
      BY <1>0, <1>5 DEF LoadSlots, LoadCapacity, Locals
    <3> QED BY <3>1
  <2> QED BY <1>0, <1>5, <2>1 DEF LoadSlots, LoadCapacity, Locals, Loaded
<1>6. CASE Validate(t)
  <2>1. PICK a, b, c :
          my' = [my EXCEPT ![t] = [my[t] EXCEPT !.state = a, !.slots = b, !.cap = c]]
    <3>1. \/ my' = [my EXCEPT ![t] = [my[t] EXCEPT !.state = my[t].state,
                                        !.slots = my[t].slots, !.cap = my[t].cap]]
          \/ my' = [my EXCEPT ![t] = [my[t] EXCEPT !.state = dstate, !.slots = 0,
                                                   !.cap = 0]]
      BY <1>0, <1>6 DEF Validate, Locals
    <3> QED BY <3>1
  <2> QED BY <1>0, <1>6, <2>1 DEF Validate, Locals, Loaded
<1>7. CASE FindsRoom(t) \/ FindsFull(t) \/ FindsExpandable(t)
  <2>1. PICK st, rf :
          my' = [my EXCEPT ![t] = [my[t] EXCEPT !.slots = Binding(t).slots,
                                     !.cap = Binding(t).capacity,
                                     !.offset = Binding(t).offset,
                                     !.state = st, !.refused = rf]]
    BY <1>7 DEF FindsRoom, FindsFull, FindsExpandable, Bind
  <2>2. UNCHANGED tickets /\ pc[t] = "bind"
    BY <1>7 DEF FindsRoom, FindsFull, FindsExpandable, Bind
  <2> QED BY <1>0, <2>1, <2>2 DEF Locals
<1>8. CASE LoadsFirst(t) \/ LoadsSecond(t)
  <2>1. PICK b : my' = [my EXCEPT ![t] = [my[t] EXCEPT !.base = b]]
    BY <1>8 DEF LoadsFirst, LoadsSecond
  <2> QED BY <1>0, <1>8, <2>1 DEF LoadsFirst, LoadsSecond, Locals, Holding
<1>9. CASE LockFails(t) \/ NotifyAll(t)
  <2>1. my' = [my EXCEPT ![t] = Returned(t)]
    BY <1>9 DEF LockFails, NotifyAll
  <2> QED BY <1>0, <1>9, <2>1 DEF LockFails, NotifyAll, Locals, Returned
<1> QED BY <1>1, <1>2, <1>3, <1>4, <1>5, <1>6, <1>7, <1>8, <1>9 DEF Step, Progress, Calls

\* Tickets come from the counters, which only grow.
LEMMA TicketsKnownStays ==
  ASSUME IInv, NEW t \in Threads, Step(t)
  PROVE  TicketsKnown'
<1> USE DEF Goto, Local
<1>0. /\ pc \in [Threads -> Labels] /\ my \in [Threads -> Locals]
      /\ pushTicket \in Nat /\ popTicket \in Nat /\ TypeOK
  BY Constants DEF IInv, TypeOK
<1> DEFINE K(u) == /\ my[u].op \in Writes => my[u].ticket <= pushTicket
                   /\ my[u].op \in Reads => my[u].ticket <= popTicket
                   /\ my[u].op = "blockingWrite" => my[u].ticket < pushTicket
                   /\ my[u].op = "blockingRead" => my[u].ticket < popTicket
<1>1. \A u \in Threads : K(u) /\ my[u].ticket \in Nat
  BY <1>0 DEF IInv, TicketsKnown, Locals
<1>2. /\ pushTicket' \in Nat /\ popTicket' \in Nat
      /\ pushTicket <= pushTicket' /\ popTicket <= popTicket'
  BY <1>0, Frames
<1>3. ASSUME NEW u \in Threads, my'[u].op = my[u].op, my'[u].ticket = my[u].ticket
      PROVE  K(u)'
  BY <1>0, <1>1, <1>2, <1>3
<1>4. \A u \in Threads \ {t} : K(u)'
  BY <1>0, <1>3, Frames
<1>5. K(t)'
  <2>1. CASE ~Calls(t)
    BY <1>0, <1>3, <2>1, SameCall
  <2>2. CASE BlockingWrite(t)
    BY <1>0, <2>2 DEF BlockingWrite, Starts, NoLocals, Writes, Reads
  <2>3. CASE WriteIfNotFull(t) \/ Continue(t)
    <3>1. my' = [my EXCEPT ![t] = Starts("writeIfNotFull")] /\ UNCHANGED tickets
      BY <2>3 DEF WriteIfNotFull, Continue
    <3>2. /\ Starts("writeIfNotFull").op = "writeIfNotFull"
          /\ Starts("writeIfNotFull").ticket = pushTicket
      BY DEF Starts, NoLocals, Writes
    <3> QED BY <1>0, <3>1, <3>2 DEF Writes, Reads, tickets
  <2>4. CASE BlockingRead(t)
    BY <1>0, <2>4 DEF BlockingRead, Starts, NoLocals, Writes, Reads
  <2>5. CASE ReadIfNotEmpty(t)
    BY <1>0, <2>5 DEF ReadIfNotEmpty, Starts, NoLocals, Writes, Reads, tickets
  <2>6. CASE Claim(t)
    <3>1. CASE my[t].op = "writeIfNotFull"
      <4>1. /\ my[t].ticket = pushTicket /\ pushTicket' = pushTicket + 1
            /\ my' = [my EXCEPT ![t] = [my[t] EXCEPT !.op = "blockingWrite"]]
        BY <1>0, <2>6, <3>1 DEF Claim, Counter, Writes, Reads
      <4>2. my'[t].op = "blockingWrite" /\ my'[t].ticket = my[t].ticket
        BY <1>0, <4>1 DEF Locals
      <4> QED BY <1>0, <4>1, <4>2 DEF Writes, Reads
    <3>2. CASE my[t].op # "writeIfNotFull"
      <4>1. /\ my[t].ticket = popTicket /\ popTicket' = popTicket + 1
            /\ my' = [my EXCEPT ![t] = [my[t] EXCEPT !.op = "blockingRead"]]
        BY <1>0, <2>6, <3>2 DEF Claim, Counter, Writes, Reads
      <4>2. my'[t].op = "blockingRead" /\ my'[t].ticket = my[t].ticket
        BY <1>0, <4>1 DEF Locals
      <4> QED BY <1>0, <4>1, <4>2 DEF Writes, Reads
    <3> QED BY <3>1, <3>2
  <2>7. CASE ClaimFails(t)
    <3>1. CASE my[t].op = "writeIfNotFull"
      BY <1>0, <1>3, <2>7, <3>1 DEF ClaimFails
    <3>2. CASE my[t].op # "writeIfNotFull"
      <4>1. /\ my[t].op = "readIfNotEmpty" /\ popTicket' = popTicket
            /\ my' = [my EXCEPT ![t] = [my[t] EXCEPT !.ticket = popTicket]]
        BY <1>0, <2>7, <3>2 DEF ClaimFails, tickets
      <4>2. my'[t].op = "readIfNotEmpty" /\ my'[t].ticket = popTicket
        BY <1>0, <4>1 DEF Locals
      <4> QED BY <1>0, <4>1, <4>2 DEF Writes, Reads
    <3> QED BY <3>1, <3>2
  <2>8. CASE GiveUp(t) \/ Access(t)
    BY <1>0, <2>8 DEF GiveUp, Access, NoLocals, Writes, Reads
  <2> QED BY <2>1, <2>2, <2>3, <2>4, <2>5, <2>6, <2>7, <2>8 DEF Calls, Call
<1> QED BY <1>4, <1>5 DEF TicketsKnown

\* Calls that may claim a ticket can be counted.
LEMMA ClaimingFinite ==
  \A kind : IsFiniteSet(Claiming(kind)) /\ Cardinality(Claiming(kind)) \in Nat
<1> SUFFICES ASSUME NEW kind
             PROVE  IsFiniteSet(Claiming(kind)) /\ Cardinality(Claiming(kind)) \in Nat
  OBVIOUS
<1>1. Claiming(kind) \in SUBSET Threads
  BY DEF Claiming
<1> QED BY <1>1, Constants, FS_Subset, FS_CardinalityType

\* The tickets in reach stay within their bound.
LEMMA CountersBoundedStays ==
  ASSUME IInv, NEW t \in Threads, Step(t)
  PROVE  CountersBounded'
<1> USE DEF Goto, Local
<1> DEFINE W == Claiming("writeIfNotFull")
           R == Claiming("readIfNotEmpty")
<1>0. /\ pc \in [Threads -> Labels] /\ my \in [Threads -> Locals]
      /\ pushTicket \in Nat /\ popTicket \in Nat /\ TypeOK /\ MaxTickets \in Nat
      /\ pushTicket + Cardinality(W) <= MaxTickets
      /\ popTicket + Cardinality(R) <= MaxTickets
  BY Constants DEF IInv, TypeOK, CountersBounded
<1>1. /\ IsFiniteSet(W) /\ Cardinality(W) \in Nat
      /\ IsFiniteSet(R) /\ Cardinality(R) \in Nat
  BY ClaimingFinite
<1>2. \A u \in Threads \ {t} : my'[u] = my[u]
  BY <1>0, Frames
<1>3. pc[t] = "idle" => my[t].op = "none"
  BY DEF IInv, CallsKnown
<1>4. CASE /\ UNCHANGED tickets
           /\ my'[t].op = my[t].op
  <2>1. W' = W /\ R' = R
    BY <1>2, <1>4 DEF Claiming
  <2> QED BY <1>0, <1>4, <2>1 DEF CountersBounded, tickets
<1>5. CASE ~Calls(t)
  BY <1>0, <1>4, <1>5, SameCall DEF tickets
<1>6. CASE BlockingWrite(t)
  <2>1. /\ pushTicket' = pushTicket + 1 /\ popTicket' = popTicket
        /\ pushTicket + Cardinality(W) < MaxTickets
        /\ my[t].op = "none" /\ my'[t].op = "blockingWrite"
    BY <1>0, <1>3, <1>6 DEF BlockingWrite, Affordable, Claiming, Starts, NoLocals
  <2>2. W' = W /\ R' = R
    BY <1>2, <2>1 DEF Claiming
  <2> HIDE DEF W, R
  <2> QED BY <1>0, <1>1, <2>1, <2>2 DEF CountersBounded, W, R
<1>7. CASE BlockingRead(t)
  <2>1. /\ popTicket' = popTicket + 1 /\ pushTicket' = pushTicket
        /\ popTicket + Cardinality(R) < MaxTickets
        /\ my[t].op = "none" /\ my'[t].op = "blockingRead"
    BY <1>0, <1>3, <1>7 DEF BlockingRead, Affordable, Claiming, Starts, NoLocals
  <2>2. W' = W /\ R' = R
    BY <1>2, <2>1 DEF Claiming
  <2> QED BY <1>0, <1>1, <2>1, <2>2 DEF CountersBounded
<1>8. CASE WriteIfNotFull(t)
  <2>1. /\ popTicket' = popTicket /\ pushTicket' = pushTicket
        /\ pushTicket + Cardinality(W) < MaxTickets
        /\ my[t].op = "none" /\ my'[t].op = "writeIfNotFull"
    BY <1>0, <1>3, <1>8 DEF WriteIfNotFull, Affordable, Claiming, Starts, NoLocals, tickets
  <2>2. W' = W \cup {t} /\ R' = R /\ t \notin W
    BY <1>2, <2>1 DEF Claiming
  <2>3. Cardinality(W') = Cardinality(W) + 1
    BY <1>1, <2>2, FS_AddElement
  <2> QED BY <1>0, <1>1, <2>1, <2>2, <2>3 DEF CountersBounded
<1>9. CASE ReadIfNotEmpty(t)
  <2>1. /\ popTicket' = popTicket /\ pushTicket' = pushTicket
        /\ popTicket + Cardinality(R) < MaxTickets
        /\ my[t].op = "none" /\ my'[t].op = "readIfNotEmpty"
    BY <1>0, <1>3, <1>9 DEF ReadIfNotEmpty, Affordable, Claiming, Starts, NoLocals, tickets
  <2>2. R' = R \cup {t} /\ W' = W /\ t \notin R
    BY <1>2, <2>1 DEF Claiming
  <2>3. Cardinality(R') = Cardinality(R) + 1
    BY <1>1, <2>2, FS_AddElement
  <2> QED BY <1>0, <1>1, <2>1, <2>2, <2>3 DEF CountersBounded
<1>10. CASE Continue(t)
  <2>1. /\ my[t].op = "writeIfNotFull" /\ my'[t].op = "writeIfNotFull" /\ UNCHANGED tickets
    BY <1>0, <1>10 DEF Continue, Starts, NoLocals, IInv, CallsKnown
  <2> QED BY <1>4, <2>1
<1>11. CASE Claim(t) /\ my[t].op = "writeIfNotFull"
  <2>1. pushTicket' = pushTicket + 1 /\ popTicket' = popTicket
    BY <1>11 DEF Claim
  <2>2. my'[t].op = "blockingWrite"
    BY <1>0, <1>11 DEF Claim, Locals
  <2>3. W' = W \ {t} /\ R' = R /\ t \in W
    BY <1>2, <1>11, <2>2 DEF Claiming
  <2>4. Cardinality(W') = Cardinality(W) - 1
    BY <1>1, <2>3, FS_RemoveElement
  <2> QED BY <1>0, <1>1, <2>1, <2>3, <2>4 DEF CountersBounded
<1>12. CASE Claim(t) /\ my[t].op # "writeIfNotFull"
  <2>1. /\ popTicket' = popTicket + 1 /\ pushTicket' = pushTicket
        /\ my[t].op = "readIfNotEmpty"
    BY <1>12 DEF Claim
  <2>2. my'[t].op = "blockingRead"
    BY <1>0, <1>12, <2>1 DEF Claim, Locals
  <2>3. R' = R \ {t} /\ W' = W /\ t \in R
    BY <1>2, <1>12, <2>1, <2>2 DEF Claiming
  <2>4. Cardinality(R') = Cardinality(R) - 1
    BY <1>1, <2>3, FS_RemoveElement
  <2> QED BY <1>0, <1>1, <2>1, <2>3, <2>4 DEF CountersBounded
<1>13. CASE ClaimFails(t)
  <2>1. UNCHANGED tickets
    BY <1>13 DEF ClaimFails
  <2>2. my'[t].op = my[t].op
    BY <1>0, <1>13 DEF ClaimFails, Locals
  <2> QED BY <1>4, <2>1, <2>2
<1>14. CASE GiveUp(t) \/ Access(t)
  <2>1. UNCHANGED tickets /\ my'[t].op = "none"
    BY <1>0, <1>14 DEF GiveUp, Access, NoLocals
  <2>2. W' = W \ {t} /\ R' = R \ {t}
    BY <1>2, <2>1 DEF Claiming
  <2>3. W' \subseteq W /\ R' \subseteq R
    BY <2>2
  <2>4. /\ Cardinality(W') <= Cardinality(W) /\ Cardinality(R') <= Cardinality(R)
        /\ Cardinality(W') \in Nat /\ Cardinality(R') \in Nat
    BY <1>1, <2>3, FS_Subset, FS_CardinalityType
  <2> QED BY <1>0, <1>1, <2>1, <2>4 DEF CountersBounded, tickets
<1> QED BY <1>5, <1>6, <1>7, <1>8, <1>9, <1>10, <1>11, <1>12, <1>13, <1>14 DEF Calls, Call

\* The places a call gets to
LEMMA CallsKnownStays ==
  ASSUME IInv, NEW t \in Threads, Step(t)
  PROVE  CallsKnown'
<1> USE DEF Goto, Local
<1>0. pc \in [Threads -> Labels] /\ my \in [Threads -> Locals] /\ TypeOK
  BY DEF IInv, TypeOK
<1> DEFINE K(u) ==
             /\ my[u].op = "none" <=> pc[u] = "idle"
             /\ pc[u] \in {"loadState", "sleep", "asleep"} \cup Loaded =>
                  my[u].op \in Writes \cup {"blockingRead"}
             /\ pc[u] = "testPush" => my[u].op = "readIfNotEmpty"
             /\ pc[u] = "claim" => my[u].op \in {"writeIfNotFull", "readIfNotEmpty"}
             /\ pc[u] = "continue" => my[u].op = "writeIfNotFull"
             /\ pc[u] = "access" => my[u].op \in {"blockingWrite", "blockingRead"}
             /\ pc[u] \in Expanding =>
                  \/ my[u].op = "blockingWrite" /\ my[u].refused = "access"
                  \/ my[u].op = "writeIfNotFull" /\ my[u].refused \in {"claim", "giveUp"}
<1>1. \A u \in Threads : K(u)
  BY DEF IInv, CallsKnown
<1>2. ASSUME NEW u \in Threads \ {t} PROVE K(u)'
  <2>1. my'[u] = my[u] /\ (pc'[u] = pc[u] \/ (pc[u] = "asleep" /\ pc'[u] = "sleep"))
    BY <1>0, Frames
  <2>2. CASE pc'[u] = pc[u]
    BY <1>1, <2>1, <2>2
  <2>3. CASE pc[u] = "asleep" /\ pc'[u] = "sleep"
    BY <1>1, <2>1, <2>3 DEF Loaded, Expanding, Holding
  <2> QED BY <2>1, <2>2, <2>3
<1>3. K(t)'
  <2> USE DEF Loaded, Expanding, Holding, Writes, Reads
  <2>1. CASE BlockingWrite(t) \/ WriteIfNotFull(t) \/ BlockingRead(t) \/ ReadIfNotEmpty(t)
    <3>1. PICK k \in {"blockingWrite", "writeIfNotFull", "blockingRead", "readIfNotEmpty"} :
            /\ my' = [my EXCEPT ![t] = Starts(k)]
            /\ pc'[t] = IF k = "readIfNotEmpty" THEN "testPush" ELSE "loadState"
      BY <1>0, <2>1 DEF BlockingWrite, WriteIfNotFull, BlockingRead, ReadIfNotEmpty
    <3>2. my'[t].op = k
      BY <1>0, <3>1 DEF Starts, NoLocals
    <3> QED BY <3>1, <3>2
  <2>2. CASE Continue(t)
    <3>1. my'[t].op = "writeIfNotFull" /\ pc'[t] = "loadState"
      BY <1>0, <2>2 DEF Continue, Starts, NoLocals
    <3> QED BY <3>1
  <2>3. CASE Claim(t)
    <3>1. \/ my'[t].op = "blockingWrite" /\ pc'[t] = "access"
          \/ my'[t].op = "blockingRead" /\ pc'[t] = "loadState"
      BY <1>0, <2>3 DEF Claim, Locals
    <3> QED BY <3>1
  <2>4. CASE ClaimFails(t)
    <3>1. \/ my'[t].op = "writeIfNotFull" /\ pc'[t] = "continue"
          \/ my'[t].op = "readIfNotEmpty" /\ pc'[t] = "testPush"
      BY <1>0, <2>4 DEF ClaimFails, Locals
    <3> QED BY <3>1
  <2>5. CASE GiveUp(t) \/ Access(t)
    BY <1>0, <2>5 DEF GiveUp, Access, NoLocals
  <2>6. CASE TestPush(t)
    BY <1>0, <1>1, <2>6 DEF TestPush
  <2>7. CASE LoadState(t) \/ Sleep(t) \/ LoadSlots(t) \/ LoadCapacity(t) \/ Validate(t)
    <3>1. my'[t].op = my[t].op
      BY <1>0, <2>7, SameCall DEF Calls, Call, BlockingWrite, WriteIfNotFull, BlockingRead,
         ReadIfNotEmpty, Continue, Claim, ClaimFails, GiveUp, Access, LoadState, Sleep,
         LoadSlots, LoadCapacity, Validate, Step, Progress
    <3>2. /\ pc[t] \in {"loadState", "sleep", "loadSlots", "loadCapacity", "validate"}
          /\ pc'[t] \in {"loadState", "sleep", "asleep", "loadSlots", "loadCapacity",
                         "validate", "bind"}
      BY <1>0, <2>7 DEF LoadState, Sleep, LoadSlots, LoadCapacity, Validate
    <3> QED BY <1>1, <3>1, <3>2
  <2>8. CASE FindsRoom(t) \/ FindsFull(t) \/ FindsExpandable(t)
    <3>1. PICK st, rf :
            /\ my' = [my EXCEPT ![t] = [my[t] EXCEPT !.slots = Binding(t).slots,
                                          !.cap = Binding(t).capacity,
                                          !.offset = Binding(t).offset,
                                          !.state = st, !.refused = rf]]
            /\ FindsExpandable(t) => rf = WithoutRoom(t)
      BY <2>8 DEF FindsRoom, FindsFull, FindsExpandable, Bind
    <3>2. my'[t].op = my[t].op /\ my'[t].refused = rf
      BY <1>0, <3>1 DEF Locals
    <3>3. my[t].op \in Writes \cup {"blockingRead"}
      BY <1>1, <2>8 DEF FindsRoom, FindsFull, FindsExpandable, Bind
    <3>4. CASE FindsRoom(t)
      BY <1>0, <3>2, <3>3, <3>4 DEF FindsRoom, Bind
    <3>5. /\ my[t].op = "blockingWrite" => WithoutRoom(t) = "access"
          /\ my[t].op = "writeIfNotFull" => WithoutRoom(t) \in {"claim", "giveUp"}
      BY DEF WithoutRoom
    <3>6. CASE FindsFull(t)
      <4>1. my[t].op \in Writes /\ pc'[t] = WithoutRoom(t)
        BY <1>0, <3>6 DEF FindsFull, Bind
      <4> QED BY <3>2, <3>5, <4>1
    <3>7. CASE FindsExpandable(t)
      <4>1. my[t].op \in Writes /\ pc'[t] = "expand"
        BY <1>0, <3>7 DEF FindsExpandable, Bind
      <4> QED BY <3>1, <3>2, <3>5, <3>7, <4>1
    <3> QED BY <2>8, <3>4, <3>6, <3>7
  <2>9. CASE LockFails(t) \/ NotifyAll(t)
    <3>1. my' = [my EXCEPT ![t] = Returned(t)]
      BY <2>9 DEF LockFails, NotifyAll
    <3>2. my'[t].op = my[t].op
      BY <1>0, <3>1 DEF Locals, Returned
    <3>3. pc'[t] = Expanded(t) \/ pc'[t] = my[t].refused
      BY <1>0, <2>9 DEF LockFails, NotifyAll
    <3>4. pc[t] \in Expanding
      BY <2>9 DEF LockFails, NotifyAll
    <3> QED BY <1>1, <3>2, <3>3, <3>4 DEF Expanded
  <2>10. CASE \/ Lock(t) \/ LoadsFirst(t) \/ LoadsSecond(t) \/ AllocationFails(t)
              \/ Restore(t) \/ StoreSlots(t) \/ StoreCapacity(t) \/ Publish(t)
    <3>1. my' = my \/ \E b : my' = [my EXCEPT ![t] = [my[t] EXCEPT !.base = b]]
      BY <1>0, <2>10 DEF Lock, LoadsFirst, LoadsSecond, AllocationFails, Restore,
         StoreSlots, StoreCapacity, Publish
    <3>2. my'[t].op = my[t].op /\ my'[t].refused = my[t].refused
      BY <1>0, <3>1 DEF Locals
    <3>3. pc[t] \in Expanding /\ pc'[t] \in Expanding
      BY <1>0, <2>10 DEF Lock, LoadsFirst, LoadsSecond, AllocationFails, Restore,
         StoreSlots, StoreCapacity, Publish
    <3> QED BY <1>1, <3>2, <3>3
  <2> QED BY <2>1, <2>2, <2>3, <2>4, <2>5, <2>6, <2>7, <2>8, <2>9, <2>10
       DEF Step, Call, Progress
<1> QED BY <1>2, <1>3 DEF CallsKnown

\* Capacities are not less than the first.
LEMMA GrowingFromMin ==
  ASSUME NEW c \in Growing
  PROVE  c \in MinCapacity..MaxCapacity
<1> DEFINE S == {k \in Below : k >= MinCapacity}
<1>1. S \in SUBSET Below
  OBVIOUS
<1>2. MinCapacity < MaxCapacity => MinCapacity \in S
  BY Constants DEF Below
<1>3. ASSUME NEW k \in S, Multiplier * k < MaxCapacity PROVE Multiplier * k \in S
  <2>1. k \in Nat /\ k >= MinCapacity
    BY Constants DEF Below
  <2>2. Multiplier * k \in Nat /\ Multiplier * k >= k
    BY <2>1, Constants
  <2> QED BY <1>3, <2>1, <2>2, Constants DEF Below
<1>4. c \in S
  <2> HIDE DEF S
  <2> QED BY <1>1, <1>2, <1>3 DEF Growing
<1> QED BY <1>4, Constants DEF Below

\* What an array is like
LEMMA ArrayTyped ==
  ASSUME IInv, NEW i \in 0..NumClosed
  PROVE  /\ Array(i).capacity \in MinCapacity..MaxCapacity
         /\ Array(i).offset \in 0..MaxTickets + 1
         /\ i \in Arrays
<1>1. /\ NumClosed \in 0..MaxClosed /\ dslots \in 0..MaxClosed /\ MaxClosed \in Nat
      /\ GetOffset(dstate) \in 0..MaxTickets + 1
      /\ dcapacity \in MinCapacity..MaxCapacity
      /\ closed \in [0..MaxClosed - 1 ->
                       [offset : 0..MaxTickets + 1, capacity : Nat, slots : Arrays]]
  BY Constants DEF IInv, TypeOK, Records, Arrays
<1>2. CASE i < dslots
  <2>1. i \in 0..MaxClosed - 1 /\ i \in 0..dslots - 1 /\ Array(i) = closed[i]
    BY <1>1, <1>2 DEF Array
  <2>2. closed[i].capacity \in Growing
    BY <2>1 DEF IInv, Capacities
  <2> QED BY <1>1, <2>1, <2>2, GrowingFromMin DEF Arrays
<1>3. CASE ~(i < dslots)
  BY <1>1, <1>3 DEF Array, Arrays
<1> QED BY <1>2, <1>3

\* Each thread is somewhere.
LEMMA LabelsStay ==
  ASSUME TypeOK, NEW t \in Threads, Step(t)
  PROVE  pc' \in [Threads -> Labels]
<1> USE DEF Goto, Local, Labels
<1>0. pc \in [Threads -> Labels] /\ my \in [Threads -> Locals]
  BY DEF TypeOK
<1>1. CASE NotifyAll(t)
  <2>1. Expanded(t) \in Labels /\ my[t].refused \in Labels
    BY <1>0 DEF Expanded, Locals
  <2> QED BY <1>0, <1>1, <2>1 DEF NotifyAll
<1>2. CASE Call(t) \/ Continue(t) \/ TestPush(t) \/ Claim(t) \/ ClaimFails(t) \/ GiveUp(t)
  BY <1>0, <1>2 DEF Call, BlockingWrite, WriteIfNotFull, BlockingRead, ReadIfNotEmpty,
     Continue, TestPush, Claim, ClaimFails, GiveUp
<1>3. CASE LoadState(t) \/ Sleep(t) \/ LoadSlots(t) \/ LoadCapacity(t) \/ Validate(t)
  BY <1>0, <1>3 DEF LoadState, Sleep, LoadSlots, LoadCapacity, Validate
<1>4. CASE FindsRoom(t) \/ FindsFull(t) \/ FindsExpandable(t)
  <2>1. WithoutRoom(t) \in Labels
    BY DEF WithoutRoom
  <2> QED BY <1>0, <1>4, <2>1 DEF FindsRoom, FindsFull, FindsExpandable, Bind
<1>5. CASE Lock(t) \/ LockFails(t) \/ LoadsFirst(t) \/ LoadsSecond(t) \/ AllocationFails(t)
  BY <1>0, <1>5 DEF Lock, LockFails, LoadsFirst, LoadsSecond, AllocationFails, Expanded
<1>6. CASE Restore(t) \/ StoreSlots(t) \/ StoreCapacity(t) \/ Publish(t)
  BY <1>0, <1>6 DEF Restore, StoreSlots, StoreCapacity, Publish
<1>7. CASE Access(t)
  BY <1>0, <1>7 DEF Access
<1> QED BY <1>1, <1>2, <1>3, <1>4, <1>5, <1>6, <1>7 DEF Step, Progress

\* What the calls know keeps its type.
LEMMA LocalsStay ==
  ASSUME IInv, NEW t \in Threads, Step(t)
  PROVE  my' \in [Threads -> Locals]
<1> USE DEF Goto, Local
<1>0. /\ pc \in [Threads -> Labels] /\ my \in [Threads -> Locals]
      /\ pushTicket \in 0..MaxTickets /\ popTicket \in 0..MaxTickets /\ MaxTickets \in Nat
      /\ dstate \in Nat /\ dslots \in Arrays /\ dcapacity \in 0..MaxCapacity
      /\ MaxClosed \in Nat /\ MaxCapacity \in Nat
  BY Constants DEF IInv, TypeOK
<1>1. NoLocals \in Locals
  BY <1>0 DEF NoLocals, Locals, Arrays
<1>2. SUFFICES my' = my \/ \E l \in Locals : my' = [my EXCEPT ![t] = l]
  BY <1>0
<1>3. CASE \/ BlockingWrite(t) \/ WriteIfNotFull(t) \/ BlockingRead(t) \/ ReadIfNotEmpty(t)
           \/ Continue(t)
  <2>1. PICK k \in Writes \cup Reads : my' = [my EXCEPT ![t] = Starts(k)]
    BY <1>3 DEF BlockingWrite, WriteIfNotFull, BlockingRead, ReadIfNotEmpty, Continue,
       Writes, Reads
  <2>2. Starts(k) \in Locals
    BY <1>0, <1>1 DEF Starts, Locals
  <2> QED BY <2>1, <2>2
<1>4. CASE GiveUp(t) \/ Access(t)
  BY <1>1, <1>4 DEF GiveUp, Access
<1>5. CASE \/ TestPush(t) \/ Lock(t) \/ AllocationFails(t) \/ Restore(t) \/ StoreSlots(t)
           \/ StoreCapacity(t) \/ Publish(t)
  BY <1>0, <1>5 DEF TestPush, Lock, AllocationFails, Restore, StoreSlots, StoreCapacity,
     Publish
<1>6. CASE Claim(t) \/ ClaimFails(t)
  BY <1>0, <1>6 DEF Claim, ClaimFails, Locals, Writes, Reads
<1>7. CASE LoadState(t) \/ LoadSlots(t) \/ LoadCapacity(t)
  BY <1>0, <1>7 DEF LoadState, LoadSlots, LoadCapacity, Locals
<1>8. CASE Sleep(t)
  BY <1>0, <1>8 DEF Sleep, Locals
<1>9. CASE Validate(t)
  <2>1. \/ my' = [my EXCEPT ![t] = my[t]]
        \/ my' = [my EXCEPT ![t] = [my[t] EXCEPT !.state = dstate, !.slots = 0, !.cap = 0]]
    BY <1>9 DEF Validate
  <2>2. my[t] \in Locals
    BY <1>0
  <2>3. [my[t] EXCEPT !.state = dstate, !.slots = 0, !.cap = 0] \in Locals
    <3>1. 0 \in Arrays /\ 0 \in 0..MaxCapacity /\ dstate \in Nat
      BY <1>0 DEF Arrays
    <3>2. [[my[t] EXCEPT !.state = dstate] EXCEPT !.slots = 0] \in Locals
      BY <2>2, <3>1 DEF Locals
    <3> QED BY <2>2, <3>1, <3>2 DEF Locals
  <2> QED BY <2>1, <2>2, <2>3
<1>10. CASE FindsRoom(t) \/ FindsFull(t) \/ FindsExpandable(t)
  <2>1. PICK st \in Nat, rf \in {"idle", "access", "claim", "giveUp"} :
          my' = [my EXCEPT ![t] = [my[t] EXCEPT !.slots = Binding(t).slots,
                                     !.cap = Binding(t).capacity,
                                     !.offset = Binding(t).offset,
                                     !.state = st, !.refused = rf]]
    <3>1. my[t].state \in Nat
      BY <1>0 DEF Locals
    <3>2. WithoutRoom(t) \in {"idle", "access", "claim", "giveUp"}
      BY DEF WithoutRoom
    <3> QED BY <1>10, <3>1, <3>2 DEF FindsRoom, FindsFull, FindsExpandable, Bind
  <2>2. PICK i \in 0..NumClosed :
          /\ Array(i) = [offset |-> Binding(t).offset, capacity |-> Binding(t).capacity,
                         slots |-> i]
          /\ Binding(t).slots = i
    BY <1>10, BindingRight DEF FindsRoom, FindsFull, FindsExpandable, Bind
  <2>3. /\ Binding(t).slots \in Arrays /\ Binding(t).capacity \in 0..MaxCapacity
        /\ Binding(t).offset \in Nat
    BY <1>0, <2>2, ArrayTyped, Constants
  <2> QED BY <1>0, <2>1, <2>3 DEF Locals
<1>11. CASE LockFails(t) \/ NotifyAll(t)
  <2>1. my' = [my EXCEPT ![t] = Returned(t)]
    BY <1>11 DEF LockFails, NotifyAll
  <2> QED BY <1>0, <2>1 DEF Returned, Locals
<1>12. CASE LoadsFirst(t) \/ LoadsSecond(t)
  <2>1. my[t].base \in Nat /\ pushTicket \in Nat /\ popTicket \in Nat
    BY <1>0 DEF Locals
  <2>2. Max({my[t].base, popTicket}) \in Nat /\ Max({my[t].base, pushTicket}) \in Nat
    BY <2>1, MaxOfTwo
  <2>3. PICK b \in Nat : my' = [my EXCEPT ![t] = [my[t] EXCEPT !.base = b]]
    BY <1>12, <2>1, <2>2 DEF LoadsFirst, LoadsSecond
  <2> QED BY <1>0, <2>3 DEF Locals
<1> QED BY <1>3, <1>4, <1>5, <1>6, <1>7, <1>8, <1>9, <1>10, <1>11, <1>12
     DEF Step, Call, Progress

\* The expansion keeps its type.
LEMMA ExpansionStays ==
  ASSUME IInv, NEW t \in Threads, Step(t)
  PROVE  /\ dstate' \in Nat /\ dslots' \in Arrays
         /\ dcapacity' \in MinCapacity..MaxCapacity
         /\ closed' \in [0..MaxClosed - 1 ->
                           [offset : 0..MaxTickets + 1, capacity : Nat, slots : Arrays]]
<1> USE DEF Goto
<1>0. /\ my[t] \in Locals /\ MaxClosed \in Nat /\ SeqlockSize \in Nat
      /\ dstate \in Nat /\ dslots \in Arrays
      /\ dcapacity \in MinCapacity..MaxCapacity
      /\ closed \in [0..MaxClosed - 1 ->
                       [offset : 0..MaxTickets + 1, capacity : Nat, slots : Arrays]]
      /\ NumClosed \in 0..MaxClosed /\ GetOffset(dstate) \in 0..MaxTickets + 1
  BY Constants DEF IInv, TypeOK, Records
<1>1. CASE ~Expands(t)
  BY <1>0, <1>1, OthersKeep DEF expansion
<1>2. CASE Lock(t) \/ Restore(t)
  <2>1. my[t].state \in Nat
    BY <1>0 DEF Locals
  <2>2. /\ dstate' \in {dstate + 1, my[t].state}
        /\ UNCHANGED <<dslots, dcapacity, closed>>
    BY <1>2 DEF Lock, Restore
  <2> QED BY <1>0, <2>1, <2>2
<1>3. CASE StoreSlots(t)
  <2>1. pc[t] = "allocate"
    BY <1>3 DEF StoreSlots
  <2>2. /\ GetNumClosed(my[t].state) = NumClosed /\ NumClosed + 1 \in 0..MaxClosed
        /\ GetOffset(my[t].state) = GetOffset(dstate)
    BY <2>1, RoomToClose
  <2>3. /\ closed' = [closed EXCEPT ![NumClosed] = [offset |-> GetOffset(dstate),
                                       capacity |-> my[t].cap, slots |-> dslots]]
        /\ dslots' = NumClosed + 1 /\ dstate' = dstate /\ dcapacity' = dcapacity
    BY <1>3, <2>2 DEF StoreSlots
  <2>4. my[t].cap \in Nat
    BY <1>0, Constants DEF Locals
  <2> QED BY <1>0, <2>2, <2>3, <2>4 DEF Arrays
<1>4. CASE StoreCapacity(t)
  <2>1. /\ pc[t] = "storeCapacity"
        /\ dcapacity' = Min({Multiplier * my[t].cap, MaxCapacity})
        /\ UNCHANGED <<dstate, dslots, closed>>
    BY <1>4 DEF StoreCapacity
  <2>2. /\ dslots = NumClosed + 1 /\ ~Odd(my[t].state) /\ dstate = my[t].state + 1
        /\ my[t].slots = GetNumClosed(my[t].state) /\ my[t].state \in Nat
    BY <1>0, <2>1 DEF IInv, Locked, Holding, Locals
  <2>3. my[t].slots = NumClosed
    BY <2>2, LockBit DEF NumClosed
  <2>4. my[t].cap = Array(NumClosed).capacity
    <3>1. Bound(t)
      BY <2>1 DEF Bound, Expanding, Holding
    <3>2. Array(my[t].slots) = [offset |-> my[t].offset, capacity |-> my[t].cap,
                                slots |-> my[t].slots]
      BY <3>1 DEF IInv, Bindings
    <3> QED BY <2>3, <3>2
  <2>5. my[t].cap \in Growing
    <3>1. NumClosed \in 0..dslots - 1 /\ Array(NumClosed) = closed[NumClosed]
      BY <1>0, <2>2 DEF Array
    <3> QED BY <2>4, <3>1 DEF IInv, Capacities
  <2>6. /\ dcapacity' \in Growing \cup {MaxCapacity}
    BY <2>1, <2>5, NextCapacity
  <2> QED BY <1>0, <2>1, <2>6, GrowingFromMin, Constants
<1>5. CASE Publish(t)
  <2>1. /\ pc[t] = "publish" /\ UNCHANGED <<dslots, dcapacity, closed>>
        /\ dstate' = my[t].base * SeqlockSize + 2 * (GetNumClosed(my[t].state) + 1)
    BY <1>5 DEF Publish
  <2>2. /\ ~Odd(my[t].state) /\ my[t].state \in Nat /\ my[t].base \in Nat
    BY <1>0, <2>1 DEF IInv, Locked, Holding, Locals
  <2>3. GetNumClosed(my[t].state) \in Nat
    BY <2>2, LockBit
  <2>4. dstate' \in Nat
    <3> DEFINE n == GetNumClosed(my[t].state)
               b == my[t].base
    <3> HIDE DEF n, b
    <3>1. n \in Nat /\ b \in Nat /\ b * SeqlockSize \in Nat
      BY <1>0, <2>2, <2>3 DEF n, b
    <3>2. dstate' = b * SeqlockSize + 2 * (n + 1)
      BY <2>1 DEF n, b
    <3> QED BY <3>1, <3>2
  <2> QED BY <1>0, <2>1, <2>4
<1> QED BY <1>1, <1>2, <1>3, <1>4, <1>5 DEF Expands

\* So does what is in the slots: a thread that gets to its slot has claimed its ticket, and
\* the slot is in the array.
LEMMA MemoryStays ==
  ASSUME IInv, NEW t \in Threads, Step(t)
  PROVE  /\ turn' \in [Arrays -> [Indices -> Nat]]
         /\ cell' \in [Arrays -> [Indices -> Tickets \cup {NoValue}]]
         /\ got' \subseteq Tickets \X (Tickets \cup {NoValue})
<1> USE DEF Goto, Local, memory
<1>0. /\ turn \in [Arrays -> [Indices -> Nat]]
      /\ cell \in [Arrays -> [Indices -> Tickets \cup {NoValue}]]
      /\ got \subseteq Tickets \X (Tickets \cup {NoValue})
      /\ my[t] \in Locals
      /\ pushTicket \in 0..MaxTickets /\ popTicket \in 0..MaxTickets
  BY DEF IInv, TypeOK
<1>1. CASE Access(t)
  <2> DEFINE a == my[t].slots
             i == Index(t)
  <2>1. /\ pc[t] = "access" /\ turn' = [turn EXCEPT ![a][i] = @ + 1]
        /\ \/ /\ cell' = [cell EXCEPT ![a][i] = my[t].ticket]
              /\ got' = got
           \/ /\ got' = got \cup {<<my[t].ticket, cell[a][i]>>}
              /\ cell' = [cell EXCEPT ![a][i] = NoValue]
    BY <1>1 DEF Access
  <2>2. my[t].ticket \in Tickets
    <3>1. my[t].op \in {"blockingWrite", "blockingRead"} /\ my[t].ticket \in Nat
      BY <1>0, <2>1 DEF IInv, CallsKnown, Locals
    <3>2. my[t].ticket < MaxTickets
      BY <1>0, <3>1, Constants DEF IInv, TicketsKnown
    <3> QED BY <3>1, <3>2, Constants DEF Tickets
  <2>3. /\ a \in 0..NumClosed /\ my[t].offset <= my[t].ticket
        /\ Array(a) = [offset |-> my[t].offset, capacity |-> my[t].cap, slots |-> a]
    BY <2>1 DEF IInv, Bindings, Bound
  <2>4. a \in Arrays /\ my[t].cap \in MinCapacity..MaxCapacity
    BY <2>3, ArrayTyped
  <2>5. i \in Indices
    <3> DEFINE d == my[t].ticket - my[t].offset
               c == ActualCapacity(my[t].cap)
    <3>1. my[t].offset \in Nat /\ my[t].ticket \in Nat
      BY <1>0 DEF Locals
    <3>2. d \in Nat
      BY <2>3, <3>1
    <3>3. c \in Nat \ {0} /\ c <= ActualCapacity(MaxCapacity)
          /\ ActualCapacity(MaxCapacity) \in Nat
      BY <2>4, Constants DEF ActualCapacity
    <3> HIDE DEF d, c
    <3>4. d % c \in 0..c - 1
      BY <3>2, <3>3, Division
    <3>5. d % c \in Indices
      BY <3>3, <3>4 DEF Indices
    <3> QED BY <3>5 DEF Index, d, c
  <2> HIDE DEF a, i
  <2>6. turn' \in [Arrays -> [Indices -> Nat]]
    BY <1>0, <2>1, <2>4, <2>5
  <2>7. cell[a][i] \in Tickets \cup {NoValue}
    BY <1>0, <2>4, <2>5
  <2>8. got' \subseteq Tickets \X (Tickets \cup {NoValue})
    BY <1>0, <2>1, <2>2, <2>7
  <2>9. cell' \in [Arrays -> [Indices -> Tickets \cup {NoValue}]]
    <3>1. PICK v \in Tickets \cup {NoValue} : cell' = [cell EXCEPT ![a][i] = v]
      BY <2>1, <2>2
    <3> QED BY <1>0, <2>4, <2>5, <3>1
  <2> QED BY <2>6, <2>8, <2>9
<1>2. CASE ~Access(t)
  <2>1. UNCHANGED memory
    <3>1. CASE \/ Call(t) \/ Continue(t) \/ TestPush(t) \/ Claim(t) \/ ClaimFails(t)
               \/ GiveUp(t)
      BY <3>1 DEF Call, BlockingWrite, WriteIfNotFull, BlockingRead, ReadIfNotEmpty,
         Continue, TestPush, Claim, ClaimFails, GiveUp
    <3>2. CASE LoadState(t) \/ Sleep(t) \/ LoadSlots(t) \/ LoadCapacity(t) \/ Validate(t)
      BY <3>2 DEF LoadState, Sleep, LoadSlots, LoadCapacity, Validate
    <3>3. CASE FindsRoom(t) \/ FindsFull(t) \/ FindsExpandable(t)
      BY <3>3 DEF FindsRoom, FindsFull, FindsExpandable, Bind
    <3>4. CASE \/ Lock(t) \/ LockFails(t) \/ LoadsFirst(t) \/ LoadsSecond(t)
               \/ AllocationFails(t)
      BY <3>4 DEF Lock, LockFails, LoadsFirst, LoadsSecond, AllocationFails
    <3>5. CASE \/ Restore(t) \/ StoreSlots(t) \/ StoreCapacity(t) \/ Publish(t)
               \/ NotifyAll(t)
      BY <3>5 DEF Restore, StoreSlots, StoreCapacity, Publish, NotifyAll
    <3> QED BY <1>2, <3>1, <3>2, <3>3, <3>4, <3>5 DEF Step, Progress
  <2> QED BY <1>0, <2>1
<1> QED BY <1>1, <1>2

\* All together keep their types.
LEMMA TypesStay ==
  ASSUME IInv, NEW t \in Threads, Step(t)
  PROVE  TypeOK'
<1>1. pushTicket' \in 0..MaxTickets /\ popTicket' \in 0..MaxTickets
  <2> DEFINE W == {u \in Threads : my'[u].op = "writeIfNotFull"}
             R == {u \in Threads : my'[u].op = "readIfNotEmpty"}
  <2>1. /\ pushTicket' + Cardinality(W) <= MaxTickets
        /\ popTicket' + Cardinality(R) <= MaxTickets
    BY CountersBoundedStays DEF CountersBounded, Claiming
  <2>2. Cardinality(W) \in Nat /\ Cardinality(R) \in Nat
    <3>1. W \in SUBSET Threads /\ R \in SUBSET Threads
      OBVIOUS
    <3> QED BY <3>1, Constants, FS_Subset, FS_CardinalityType
  <2>3. pushTicket' \in Nat /\ popTicket' \in Nat
    <3>1. TypeOK /\ pushTicket \in Nat /\ popTicket \in Nat
      BY Constants DEF IInv, TypeOK
    <3>2. /\ pushTicket' \in {pushTicket, pushTicket + 1}
          /\ popTicket' \in {popTicket, popTicket + 1}
      BY <3>1, Frames
    <3> QED BY <3>1, <3>2
  <2> HIDE DEF W, R
  <2> QED BY <2>1, <2>2, <2>3, Constants
<1> QED BY <1>1, LabelsStay, LocalsStay, ExpansionStays, MemoryStays DEF IInv, TypeOK
-----------------------------------------------------------------------------
\* The invariant holds at the start.
LEMMA InitIInv ==
  Init => IInv
<1> SUFFICES ASSUME Init PROVE IInv
  OBVIOUS
<1> USE Constants DEF Init
<1>0. 0 \in Arrays /\ MaxClosed \in Nat /\ MaxTickets \in Nat
  BY DEF Arrays
<1>1. my = [t \in Threads |-> NoLocals] /\ pc = [t \in Threads |-> "idle"]
  OBVIOUS
<1>2. TypeOK
  <2>1. NoLocals \in Locals
    BY <1>0 DEF NoLocals, Locals
  <2>2. /\ turn \in [Arrays -> [Indices -> Nat]]
        /\ cell \in [Arrays -> [Indices -> Tickets \cup {NoValue}]]
        /\ got \subseteq Tickets \X (Tickets \cup {NoValue})
    OBVIOUS
  <2>3. closed \in [0..MaxClosed - 1 ->
                      [offset : 0..MaxTickets + 1, capacity : Nat, slots : Arrays]]
    BY <1>0
  <2>4. my \in [Threads -> Locals] /\ pc \in [Threads -> Labels]
    BY <1>1, <2>1 DEF Labels
  <2>5. /\ pushTicket \in 0..MaxTickets /\ popTicket \in 0..MaxTickets
        /\ dstate \in Nat /\ dslots \in Arrays
        /\ dcapacity \in MinCapacity..MaxCapacity
    BY <1>0
  <2> QED BY <2>2, <2>3, <2>4, <2>5 DEF TypeOK
<1>3. CallsKnown
  BY <1>1 DEF CallsKnown, NoLocals, Loaded, Expanding, Holding
<1>4. TicketsKnown
  BY <1>1 DEF TicketsKnown, NoLocals, Writes, Reads
<1>5. CountersBounded
  <2>1. Claiming("writeIfNotFull") = {} /\ Claiming("readIfNotEmpty") = {}
    BY <1>1 DEF Claiming, NoLocals
  <2>2. Cardinality({}) = 0
    BY FS_EmptySet
  <2>3. pushTicket = 0 /\ popTicket = 0 /\ 0 + 0 <= MaxTickets
    BY <1>0
  <2> QED BY <2>1, <2>2, <2>3 DEF CountersBounded
<1>6. GetOffset(dstate) = 0 /\ NumClosed = 0 /\ ~Odd(dstate)
  <2>1. 0 = 0 * SeqlockSize + 2 * 0 /\ 0 \in 0..MaxClosed
    BY <1>0
  <2>2. LET s == 0 * SeqlockSize + 2 * 0
        IN  GetOffset(s) = 0 /\ GetNumClosed(s) = 0 /\ ~Odd(s)
    BY <2>1, Encoding
  <2> QED BY <2>1, <2>2 DEF NumClosed
<1>7. Locked
  BY <1>1, <1>6 DEF Locked, Holding
<1>8. Array(0) = [offset |-> 0, capacity |-> MinCapacity, slots |-> 0]
  BY <1>6 DEF Array
<1>9. Records
  BY <1>0, <1>6, <1>8 DEF Records
<1>10. Capacities
  <2>1. MinCapacity \in Growing \cup {MaxCapacity}
    BY DEF Growing, Below
  <2> QED BY <2>1 DEF Capacities
<1>11. Snapshots
  BY <1>1 DEF Snapshots, Loaded
<1>12. Bindings /\ LaterBeyond
  BY <1>1 DEF Bindings, LaterBeyond, Bound, Expanding, Holding, Loaded
<1> QED BY <1>2, <1>3, <1>4, <1>5, <1>7, <1>9, <1>10, <1>11, <1>12 DEF IInv

\* Every step preserves it.
LEMMA StepIInv ==
  ASSUME IInv, NEW t \in Threads, Step(t)
  PROVE  IInv'
<1>1. TypeOK'
  BY TypesStay
<1>2. Locked'
  BY <1>1, LockedStays
<1> QED BY <1>1, <1>2, CallsKnownStays, TicketsKnownStays, CountersBoundedStays,
           RecordsStay,
        CapacitiesStay, SnapshotsStay, BindingsStay, LaterStays DEF IInv

\* A step that changes nothing preserves it, too.
LEMMA StutterIInv ==
  IInv /\ UNCHANGED vars => IInv'
<1> SUFFICES ASSUME IInv, UNCHANGED vars PROVE IInv'
  OBVIOUS
<1> USE DEF vars, tickets, expansion, memory
<1>1. TypeOK'
  BY DEF IInv, TypeOK
<1>2. CallsKnown' /\ TicketsKnown' /\ CountersBounded'
  BY DEF IInv, CallsKnown, TicketsKnown, CountersBounded, Claiming
<1>3. NumClosed' = NumClosed /\ \A i : Array(i)' = Array(i)
  BY DEF NumClosed, Array
<1>4. \A t : (Bound(t) <=> Bound(t)') /\ Seen(t)' = Seen(t)
             /\ \A h : Exceeds(h, t) <=> Exceeds(h, t)'
  BY DEF Bound, Seen, Exceeds
<1>5. Locked' /\ Records' /\ Capacities'
  BY <1>3 DEF IInv, Locked, Records, Capacities
<1>6. Snapshots' /\ Bindings' /\ LaterBeyond'
  BY <1>3, <1>4 DEF IInv, Snapshots, Bindings, LaterBeyond
<1> QED BY <1>1, <1>2, <1>5, <1>6 DEF IInv

\* So it always holds.
LEMMA Inductive == SafeSpec => []IInv
<1>1. Init => IInv
  BY InitIInv
<1>2. IInv /\ [Next]_vars => IInv'
  BY StepIInv, StutterIInv DEF Next, Step
<1> QED BY <1>1, <1>2, PTL DEF SafeSpec

\* Every index and counter is in its range: a thread that is at a slot is at one of its
\* array, there is a record for every array that is closed, and no capacity is beyond the
\* limit.
THEOREM TypeCorrect == SafeSpec => []TypeOK
<1>1. IInv => TypeOK
  BY DEF IInv
<1> QED BY <1>1, Inductive, PTL

\* A thread at its slot knows its array right, and its ticket comes before the next array.
LEMMA BoundTickets ==
  IInv => TicketBound
<1> SUFFICES ASSUME IInv, NEW t \in Threads, pc[t] = "access"
             PROVE  LET known == {i \in 0..GetNumClosed(dstate) - 1 :
                                     closed[i].slots = my[t].slots}
                        end(i) == IF i + 1 = GetNumClosed(dstate) THEN GetOffset(dstate)
                                  ELSE closed[i + 1].offset
                    IN  /\ my[t].ticket >= my[t].offset
                        /\ \A i \in known : /\ my[t].cap = closed[i].capacity
                                            /\ my[t].offset = closed[i].offset
                                            /\ my[t].ticket < end(i)
                        /\ known = {} => /\ my[t].offset = GetOffset(dstate)
                                         /\ my[t].slots = GetNumClosed(dstate)
  BY DEF TicketBound
<1> DEFINE n == GetNumClosed(dstate)
           known == {i \in 0..n - 1 : closed[i].slots = my[t].slots}
           end(i) == IF i + 1 = n THEN GetOffset(dstate) ELSE closed[i + 1].offset
<1>1. n = NumClosed
  BY DEF NumClosed
<1>2. NumClosed \in Nat /\ dslots \in {NumClosed, NumClosed + 1}
  BY Constants DEF IInv, Records, Locked
<1>3. /\ my[t].slots \in 0..NumClosed
      /\ Array(my[t].slots) = [offset |-> my[t].offset, capacity |-> my[t].cap,
                               slots |-> my[t].slots]
      /\ my[t].offset <= my[t].ticket
      /\ \A j \in my[t].slots + 1..NumClosed : my[t].ticket < Array(j).offset
      /\ my[t].offset \in Nat /\ my[t].ticket \in Nat
  <2>1. Bound(t) /\ pc[t] \notin Loaded /\ my[t] \in Locals
    BY DEF Bound, Loaded, IInv, TypeOK
  <2>2. Seen(t) = my[t].slots
    BY <2>1 DEF Seen
  <2>3. \A j \in my[t].slots + 1..NumClosed : my[t].ticket < Array(j).offset
    BY <2>1, <2>2 DEF IInv, LaterBeyond
  <2> QED BY <2>1, <2>3, Constants DEF IInv, Bindings, Locals
<1>4. \A i \in 0..NumClosed - 1 : Array(i) = closed[i] /\ closed[i].slots = i
  BY <1>2 DEF IInv, Records, Array
<1>5. Array(NumClosed).offset = GetOffset(dstate)
  BY DEF IInv, Records
<1>6. known = IF my[t].slots < NumClosed THEN {my[t].slots} ELSE {}
  BY <1>1, <1>2, <1>3, <1>4
<1>7. ASSUME NEW i \in known
      PROVE  /\ my[t].cap = closed[i].capacity /\ my[t].offset = closed[i].offset
             /\ my[t].ticket < end(i)
  <2>1. i = my[t].slots /\ i \in 0..NumClosed - 1
    BY <1>2, <1>3, <1>6
  <2>2. Array(i) = closed[i] /\ i + 1 \in i + 1..NumClosed
    BY <1>2, <1>4, <2>1
  <2>3. my[t].ticket < Array(i + 1).offset
    BY <1>3, <2>1, <2>2
  <2>4. end(i) = Array(i + 1).offset
    BY <1>1, <1>2, <1>4, <1>5, <2>1
  <2> QED BY <1>3, <2>1, <2>2, <2>3, <2>4
<1>8. ASSUME known = {}
      PROVE  my[t].offset = GetOffset(dstate) /\ my[t].slots = GetNumClosed(dstate)
  <2>1. my[t].slots = NumClosed
    BY <1>2, <1>3, <1>6, <1>8
  <2> QED BY <1>1, <1>3, <1>5, <2>1
<1> QED BY <1>3, <1>7, <1>8

\* A ticket is bound to a slot: whoever gets to a slot uses the array whose range of tickets
\* his is in, closed or not, and no expansion that comes later moves it to another one.
THEOREM TicketsAreBound == SafeSpec => []TicketBound
  BY Inductive, BoundTickets, PTL
=============================================================================
