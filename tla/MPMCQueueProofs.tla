-------------------------- MODULE MPMCQueueProofs ---------------------------
(***************************************************************************)
(* MPMCQueue for every number of threads, values and tickets and every     *)
(* capacity: the storage of a slot belongs to one thread at a time, and    *)
(* the queue implements AbstractTicketQueue.                               *)
(***************************************************************************)
EXTENDS MPMCQueue, FiniteSetTheorems, TLAPS

\* A ticket is a slot and a round, and a turn of a slot is a round and a kind of call.
LEMMA Division ==
  \A c \in Nat \ {0}, k \in Nat :
    k \div c \in Nat /\ k % c \in 0..c - 1 /\ k = (k \div c) * c + (k % c)
  BY SMT

\* The halves of a turn
LEMMA Parity ==
  \A q \in Nat : /\ (q * 2) % 2 = 0 /\ (q * 2 + 1) % 2 = 1 /\ (q * 2 + 1 + 1) % 2 = 0
                 /\ (q * 2) \div 2 = q /\ (q * 2 + 1) \div 2 = q
  BY SMT

\* What SlotOf() and TurnOf() make of a ticket, and that they lose nothing of it.
LEMMA SlotTurn ==
  ASSUME NEW t \in Threads, ticket[t] \in Nat, op[t] \in {"write", "read"}
  PROVE  /\ SlotOf(t) \in Slots /\ TurnOf(t) \in Nat
         /\ (TurnOf(t) % 2 = 0) = (op[t] = "write")
         /\ ((TurnOf(t) + 1) % 2 = 0) = (op[t] = "read")
         /\ op[t] = "write" => (TurnOf(t) + 1) \div 2 = TurnOf(t) \div 2
         /\ ticket[t] = (TurnOf(t) \div 2) * Capacity + SlotOf(t)
<1>1. /\ SlotOf(t) \in Slots /\ ticket[t] \div Capacity \in Nat
      /\ ticket[t] = (ticket[t] \div Capacity) * Capacity + SlotOf(t)
  BY MPMCQueueAssumption, Division DEF MPMCQueueAssumption, SlotOf, Slots
<1> DEFINE q == ticket[t] \div Capacity
<1>2. q \in Nat /\ ticket[t] = q * Capacity + SlotOf(t)
  BY <1>1
<1>3. /\ op[t] = "write" => TurnOf(t) = q * 2
      /\ op[t] = "read" => TurnOf(t) = q * 2 + 1
  <2> HIDE DEF q
  <2>1. TurnOf(t) = q * 2 + (IF op[t] = "read" THEN 1 ELSE 0)
    BY DEF TurnOf, q
  <2> QED BY <1>2, <2>1
<1> HIDE DEF q
<1>4. CASE op[t] = "write"
  BY <1>1, <1>2, <1>3, <1>4, Parity
<1>5. CASE op[t] = "read"
  BY <1>1, <1>2, <1>3, <1>5, Parity
<1> QED BY <1>4, <1>5
-----------------------------------------------------------------------------
\* The types of what the queue and the calls work with.
TypeInv == /\ pushTicket \in Nat /\ popTicket \in Nat
           /\ turn \in [Slots -> Nat]
           /\ cell \in [Slots -> Values \cup {NoValue}]
           /\ pc \in [Threads -> Labels]
           /\ op \in [Threads -> {"write", "read"}]
           /\ ticket \in [Threads -> Nat]
           /\ value \in [Threads -> Values \cup {NoValue}]
           /\ log \in Seq(Values)
           /\ \A t \in Threads : pc[t] # "idle" /\ op[t] = "write" => value[t] \in Values

\* The types are kept.
LEMMA TypeInductive ==
  /\ Init => TypeInv
  /\ TypeInv /\ [Next]_vars => TypeInv'
<1> USE MPMCQueueAssumption DEF MPMCQueueAssumption, TypeInv, Labels, Undecided
<1>1. Init => TypeInv
  BY DEF Init
<1>2. ASSUME TypeInv, [Next]_vars PROVE TypeInv'
  <2>0. \A t \in Threads : TurnOf(t) \in Nat
    BY <1>2, SlotTurn
  <2> USE <1>2, <2>0 DEF Goto, Counter, slotVars, locals, ghosts
  <2>1. ASSUME NEW t \in Threads, BlockingWrite(t) PROVE TypeInv'
    BY <2>1 DEF BlockingWrite, Blocking, Begin, TakeTicket, Fresh
  <2>2. ASSUME NEW t \in Threads, BlockingRead(t) PROVE TypeInv'
    BY <2>2 DEF BlockingRead, Blocking, Begin, TakeTicket
  <2>3. ASSUME NEW t \in Threads, WriteIfNotFull(t) PROVE TypeInv'
    BY <2>3 DEF WriteIfNotFull, Try, Begin, Fresh
  <2>4. ASSUME NEW t \in Threads, ReadIfNotEmpty(t) PROVE TypeInv'
    BY <2>4 DEF ReadIfNotEmpty, Try, Begin
  <2>5. ASSUME NEW t \in Threads, LoadTicket(t) PROVE TypeInv'
    BY <2>5 DEF LoadTicket
  <2>6. ASSUME NEW t \in Threads, GiveUp(t) PROVE TypeInv'
    BY <2>6 DEF GiveUp, Forget
  <2>7. ASSUME NEW t \in Threads, Claim(t) PROVE TypeInv'
    BY <2>7 DEF Claim, TakeTicket
  <2>8. ASSUME NEW t \in Threads, ClaimFails(t) PROVE TypeInv'
    BY <2>8 DEF ClaimFails
  <2>9. ASSUME NEW t \in Threads, TryAgain(t) PROVE TypeInv'
    BY <2>9 DEF TryAgain
  <2>10. ASSUME NEW t \in Threads, LoadTurn(t) PROVE TypeInv'
    BY <2>10 DEF LoadTurn, TurnStep
  <2>11. ASSUME NEW t \in Threads, Guard(t) PROVE TypeInv'
    BY <2>11 DEF Guard, TurnStep
  <2>12. ASSUME NEW t \in Threads, Sleep(t) PROVE TypeInv'
    BY <2>12 DEF Sleep, TurnStep
  <2>13. ASSUME NEW t \in Threads, Reload(t) PROVE TypeInv'
    BY <2>13 DEF Reload, TurnStep
  <2>14. ASSUME NEW t \in Threads, Unguard(t) PROVE TypeInv'
    BY <2>14 DEF Unguard, TurnStep
  <2>15. ASSUME NEW t \in Threads, Access(t) PROVE TypeInv'
    BY <2>15 DEF Access
  <2>16. ASSUME NEW t \in Threads, StoreTurn(t) PROVE TypeInv'
    <3>1. TurnOf(t) + 1 \in Nat
      BY <2>0
    <3>2. turn' = [turn EXCEPT ![SlotOf(t)] = TurnOf(t) + 1]
      BY <2>16 DEF StoreTurn
    <3>3. turn' \in [Slots -> Nat]
      BY <3>1, <3>2
    <3>4. UNCHANGED <<pushTicket, popTicket, cell, op, ticket, value, log>>
      BY <2>16 DEF StoreTurn
    <3>5. pc' = [pc EXCEPT ![t] = "loadWait"] /\ pc[t] = "store"
      BY <2>16 DEF StoreTurn
    <3> QED BY <3>3, <3>4, <3>5
  <2>17. ASSUME NEW t \in Threads, LoadWait(t) PROVE TypeInv'
    BY <2>17 DEF LoadWait
  <2>18. ASSUME NEW t \in Threads, NoWaiter(t) PROVE TypeInv'
    BY <2>18 DEF NoWaiter, Finish, Forget
  <2>19. ASSUME NEW t \in Threads, NotifyAll(t) PROVE TypeInv'
    BY <2>19 DEF NotifyAll, Forget
  <2>20. ASSUME NEW t \in Threads, LoadsWaitEarly(t) PROVE TypeInv'
    BY <2>20 DEF LoadsWaitEarly
  <2>21. ASSUME NEW t \in Threads, StoresLate(t) PROVE TypeInv'
    <3>1. TurnOf(t) + 1 \in Nat
      BY <2>0
    <3>2. turn' = [turn EXCEPT ![SlotOf(t)] = TurnOf(t) + 1]
      BY <2>21 DEF StoresLate, Finish, Forget
    <3>3. turn' \in [Slots -> Nat]
      BY <3>1, <3>2
    <3>4. CASE /\ Goto(t, "storeNotify", "notify")
               /\ UNCHANGED <<pushTicket, popTicket, cell, locals, ghosts>>
      BY <3>3, <3>4
    <3>5. CASE Finish(t, "storeReturn")
      BY <3>3, <3>5 DEF Finish, Forget
    <3> QED BY <2>21, <3>4, <3>5 DEF StoresLate
  <2>22. CASE UNCHANGED vars
    BY <2>22 DEF vars
  <2> QED BY <1>2, <2>1, <2>2, <2>3, <2>4, <2>5, <2>6, <2>7, <2>8, <2>9, <2>10, <2>11,
         <2>12, <2>13, <2>14, <2>15, <2>16, <2>17, <2>18, <2>19, <2>20, <2>21, <2>22 DEF
         Next, Call, Progress
<1> QED BY <1>1, <1>2
-----------------------------------------------------------------------------
\* Where a thread is that has a ticket.
Decided == Labels \ (Undecided \cup {"idle"})

\* Every ticket is given out once, and the log has the value of each push ticket.
TicketsInv ==
  /\ Len(log) = pushTicket
  /\ \A t \in Threads : pc[t] \in Decided =>
       /\ ticket[t] < Counter(t)
       /\ op[t] = "write" => value[t] = log[ticket[t] + 1]
  /\ \A t, u \in Threads :
       /\ pc[t] \in Decided /\ pc[u] \in Decided
       /\ op[t] = op[u] /\ ticket[t] = ticket[u]
       => t = u

\* Tickets stay as they were given out.
LEMMA TicketsInductive ==
  /\ Init => TicketsInv
  /\ TicketsInv /\ TypeInv /\ TypeInv' /\ [Next]_vars => TicketsInv'
<1> USE MPMCQueueAssumption DEF MPMCQueueAssumption, TicketsInv, Decided, Labels, Undecided
<1>1. Init => TicketsInv
  BY DEF Init
<1>2. ASSUME TicketsInv, TypeInv, TypeInv', [Next]_vars PROVE TicketsInv'
  <2>0. /\ pushTicket \in Nat /\ popTicket \in Nat /\ log \in Seq(Values)
        /\ pc \in [Threads -> Labels] /\ op \in [Threads -> {"write", "read"}]
        /\ ticket \in [Threads -> Nat] /\ value \in [Threads -> Values \cup {NoValue}]
        /\ \A t \in Threads : pc[t] # "idle" /\ op[t] = "write" => value[t] \in Values
    BY <1>2 DEF TypeInv
  <2> USE <1>2, <2>0 DEF Goto, Counter, slotVars, locals, ghosts
  <2>1. ASSUME NEW t \in Threads, BlockingWrite(t) PROVE TicketsInv'
    <3> PICK v \in Values : Blocking(t, "write", v)
      BY <2>1 DEF BlockingWrite, Fresh
    <3>1. /\ pushTicket' = pushTicket + 1 /\ popTicket' = popTicket
          /\ log' = Append(log, v)
          /\ pc[t] = "idle" /\ pc' = [pc EXCEPT ![t] = "loadTurn"]
          /\ op' = [op EXCEPT ![t] = "write"] /\ value' = [value EXCEPT ![t] = v]
          /\ ticket' = [ticket EXCEPT ![t] = pushTicket]
      BY DEF Blocking, Begin, TakeTicket
    <3>2. /\ Len(log') = Len(log) + 1 /\ log'[pushTicket + 1] = v
          /\ \A k \in 1..pushTicket : log'[k] = log[k]
      BY <3>1
    <3> QED BY <3>1, <3>2
  <2>2. ASSUME NEW t \in Threads, BlockingRead(t) PROVE TicketsInv'
    BY <2>2 DEF BlockingRead, Blocking, Begin, TakeTicket
  <2>3. ASSUME NEW t \in Threads, WriteIfNotFull(t) PROVE TicketsInv'
    BY <2>3 DEF WriteIfNotFull, Try, Begin, Fresh
  <2>4. ASSUME NEW t \in Threads, ReadIfNotEmpty(t) PROVE TicketsInv'
    BY <2>4 DEF ReadIfNotEmpty, Try, Begin
  <2>5. ASSUME NEW t \in Threads, LoadTicket(t) PROVE TicketsInv'
    BY <2>5 DEF LoadTicket
  <2>6. ASSUME NEW t \in Threads, GiveUp(t) PROVE TicketsInv'
    BY <2>6 DEF GiveUp, Forget
  <2>7. ASSUME NEW t \in Threads, Claim(t) PROVE TicketsInv'
    BY <2>7 DEF Claim, TakeTicket
  <2>8. ASSUME NEW t \in Threads, ClaimFails(t) PROVE TicketsInv'
    BY <2>8 DEF ClaimFails
  <2>9. ASSUME NEW t \in Threads, TryAgain(t) PROVE TicketsInv'
    BY <2>9 DEF TryAgain
  <2>10. ASSUME NEW t \in Threads, LoadTurn(t) PROVE TicketsInv'
    BY <2>10 DEF LoadTurn, TurnStep
  <2>11. ASSUME NEW t \in Threads, Guard(t) PROVE TicketsInv'
    BY <2>11 DEF Guard, TurnStep
  <2>12. ASSUME NEW t \in Threads, Sleep(t) PROVE TicketsInv'
    BY <2>12 DEF Sleep, TurnStep
  <2>13. ASSUME NEW t \in Threads, Reload(t) PROVE TicketsInv'
    BY <2>13 DEF Reload, TurnStep
  <2>14. ASSUME NEW t \in Threads, Unguard(t) PROVE TicketsInv'
    BY <2>14 DEF Unguard, TurnStep
  <2>15. ASSUME NEW t \in Threads, Access(t) PROVE TicketsInv'
    BY <2>15 DEF Access
  <2>16. ASSUME NEW t \in Threads, StoreTurn(t) PROVE TicketsInv'
    BY <2>16 DEF StoreTurn
  <2>17. ASSUME NEW t \in Threads, LoadWait(t) PROVE TicketsInv'
    BY <2>17 DEF LoadWait
  <2>18. ASSUME NEW t \in Threads, NoWaiter(t) PROVE TicketsInv'
    BY <2>18 DEF NoWaiter, Finish, Forget
  <2>19. ASSUME NEW t \in Threads, NotifyAll(t) PROVE TicketsInv'
    BY <2>19 DEF NotifyAll, Forget
  <2>20. ASSUME NEW t \in Threads, LoadsWaitEarly(t) PROVE TicketsInv'
    BY <2>20 DEF LoadsWaitEarly
  <2>21. ASSUME NEW t \in Threads, StoresLate(t) PROVE TicketsInv'
    <3>1. CASE /\ Goto(t, "storeNotify", "notify")
               /\ UNCHANGED <<pushTicket, popTicket, cell, locals, ghosts>>
      BY <3>1
    <3>2. CASE Finish(t, "storeReturn")
      BY <3>2 DEF Finish, Forget
    <3> QED BY <2>21, <3>1, <3>2 DEF StoresLate
  <2>22. CASE UNCHANGED vars
    BY <2>22 DEF vars
  <2> QED BY <1>2, <2>1, <2>2, <2>3, <2>4, <2>5, <2>6, <2>7, <2>8, <2>9, <2>10, <2>11,
         <2>12, <2>13, <2>14, <2>15, <2>16, <2>17, <2>18, <2>19, <2>20, <2>21, <2>22 DEF
         Next, Call, Progress
<1> QED BY <1>1, <1>2
-----------------------------------------------------------------------------
\* From the moment a thread knows that its turn has come until it passes the turn on.
Holding == {"unguard", "access", "store", "storeNotify", "storeReturn"}

\* The turn of a slot is that of the thread that holds it.
TurnsInv == \A t \in Threads : pc[t] \in Holding => turn[SlotOf(t)] = TurnOf(t)

\* No two threads hold the same slot: they would have the same ticket.
LEMMA OneHolder ==
  ASSUME TypeInv, TicketsInv, TurnsInv, NEW t \in Threads, NEW u \in Threads,
         pc[t] \in Holding, pc[u] \in Holding, SlotOf(t) = SlotOf(u)
  PROVE  t = u
<1>1. TurnOf(t) = TurnOf(u)
  BY DEF TurnsInv
<1>2. /\ ticket[t] \in Nat /\ op[t] \in {"write", "read"}
      /\ ticket[u] \in Nat /\ op[u] \in {"write", "read"}
  BY DEF TypeInv
<1>3. ticket[t] = ticket[u] /\ op[t] = op[u]
  BY <1>1, <1>2, SlotTurn
<1> QED BY <1>3 DEF TicketsInv, Holding, Decided, Labels, Undecided

\* A step that lets nobody hold a slot who did not, and passes no turn on.
LEMMA NoNewHolder ==
  ASSUME TurnsInv, turn' = turn,
         \A u \in Threads : pc'[u] \in Holding =>
           pc[u] \in Holding /\ op'[u] = op[u] /\ ticket'[u] = ticket[u]
  PROVE  TurnsInv'
BY DEF TurnsInv, SlotOf, TurnOf

\* Only who holds a slot passes its turn on.
LEMMA TurnsInductive ==
  /\ Init => TurnsInv
  /\ TurnsInv /\ TypeInv /\ TicketsInv /\ [Next]_vars => TurnsInv'
<1>1. Init => TurnsInv
  BY DEF Init, TurnsInv, Holding
<1>2. ASSUME TurnsInv, TypeInv, TicketsInv, [Next]_vars PROVE TurnsInv'
  <2>0. /\ pc \in [Threads -> Labels] /\ op \in [Threads -> {"write", "read"}]
        /\ ticket \in [Threads -> Nat] /\ turn \in [Slots -> Nat]
    BY <1>2 DEF TypeInv
  <2> USE <1>2, <2>0 DEF Goto
  <2>1. ASSUME NEW t \in Threads, LoadTurn(t) PROVE TurnsInv'
    <3>1. /\ turn' = turn /\ op' = op /\ ticket' = ticket
          /\ \A u \in Threads \ {t} : pc'[u] = pc[u]
      BY <2>1 DEF LoadTurn, TurnStep
    <3>2. pc'[t] \in Holding => turn[SlotOf(t)] = TurnOf(t)
      BY <2>1 DEF LoadTurn, TurnStep, Holding, MyTurn
    <3> QED BY <3>1, <3>2 DEF TurnsInv, SlotOf, TurnOf
  <2>2. ASSUME NEW t \in Threads, Reload(t) PROVE TurnsInv'
    <3>1. /\ turn' = turn /\ op' = op /\ ticket' = ticket
          /\ \A u \in Threads \ {t} : pc'[u] = pc[u]
      BY <2>2 DEF Reload, TurnStep
    <3>2. pc'[t] \in Holding => turn[SlotOf(t)] = TurnOf(t)
      BY <2>2 DEF Reload, TurnStep, Holding, MyTurn
    <3> QED BY <3>1, <3>2 DEF TurnsInv, SlotOf, TurnOf
  <2>3. ASSUME NEW t \in Threads, StoreTurn(t) PROVE TurnsInv'
    <3>1. /\ turn' = [turn EXCEPT ![SlotOf(t)] = TurnOf(t) + 1]
          /\ pc[t] \in Holding /\ pc'[t] \notin Holding
          /\ \A u \in Threads \ {t} :
               pc'[u] = pc[u] /\ op'[u] = op[u] /\ ticket'[u] = ticket[u]
      BY <2>3 DEF StoreTurn, Holding, locals
    <3>2. ASSUME NEW u \in Threads, pc'[u] \in Holding
          PROVE  /\ turn'[SlotOf(u)] = TurnOf(u)
                 /\ SlotOf(u)' = SlotOf(u) /\ TurnOf(u)' = TurnOf(u)
      <4>1. u # t /\ pc[u] \in Holding
        BY <3>1, <3>2
      <4>2. SlotOf(u) # SlotOf(t)
        BY <3>1, <4>1, OneHolder
      <4>3. SlotOf(u)' = SlotOf(u) /\ TurnOf(u)' = TurnOf(u)
        BY <3>1, <4>1 DEF SlotOf, TurnOf
      <4>4. turn'[SlotOf(u)] = turn[SlotOf(u)]
        BY <3>1, <4>2, <4>1, SlotTurn
      <4> QED BY <4>1, <4>3, <4>4 DEF TurnsInv
    <3> QED BY <3>2 DEF TurnsInv
  <2>4. ASSUME NEW t \in Threads, StoresLate(t) PROVE TurnsInv'
    <3>1. /\ turn' = [turn EXCEPT ![SlotOf(t)] = TurnOf(t) + 1]
          /\ pc[t] \in Holding /\ pc'[t] \notin Holding
          /\ \A u \in Threads \ {t} :
               pc'[u] = pc[u] /\ op'[u] = op[u] /\ ticket'[u] = ticket[u]
      BY <2>4 DEF StoresLate, Finish, Forget, Holding, locals
    <3>2. ASSUME NEW u \in Threads, pc'[u] \in Holding
          PROVE  /\ turn'[SlotOf(u)] = TurnOf(u)
                 /\ SlotOf(u)' = SlotOf(u) /\ TurnOf(u)' = TurnOf(u)
      <4>1. u # t /\ pc[u] \in Holding
        BY <3>1, <3>2
      <4>2. SlotOf(u) # SlotOf(t)
        BY <3>1, <4>1, OneHolder
      <4>3. SlotOf(u)' = SlotOf(u) /\ TurnOf(u)' = TurnOf(u)
        BY <3>1, <4>1 DEF SlotOf, TurnOf
      <4>4. turn'[SlotOf(u)] = turn[SlotOf(u)]
        BY <3>1, <4>2, <4>1, SlotTurn
      <4> QED BY <4>1, <4>3, <4>4 DEF TurnsInv
    <3> QED BY <3>2 DEF TurnsInv
  <2>5. ASSUME NEW t \in Threads,
             \/ BlockingWrite(t) \/ BlockingRead(t) \/ WriteIfNotFull(t)
             \/ ReadIfNotEmpty(t) \/ LoadTicket(t) \/ GiveUp(t)
             \/ Claim(t) \/ ClaimFails(t) \/ TryAgain(t)
        PROVE  TurnsInv'
    <3>1. turn' = turn
      BY <2>5 DEF BlockingWrite, Blocking, Begin, TakeTicket, Fresh, BlockingRead,
         WriteIfNotFull, Try, ReadIfNotEmpty, LoadTicket, GiveUp, Forget, Claim,
         ClaimFails, TryAgain, slotVars
    <3>2. \A u \in Threads : pc'[u] \in Holding =>
            pc[u] \in Holding /\ op'[u] = op[u] /\ ticket'[u] = ticket[u]
      BY <2>5 DEF BlockingWrite, Blocking, Begin, TakeTicket, Fresh, BlockingRead,
         WriteIfNotFull, Try, ReadIfNotEmpty, LoadTicket, GiveUp, Forget, Claim,
         ClaimFails, TryAgain, locals, Holding
    <3> QED BY <3>1, <3>2, NoNewHolder
  <2>6. ASSUME NEW t \in Threads,
             \/ Guard(t) \/ Sleep(t) \/ Unguard(t)
             \/ Access(t) \/ LoadWait(t) \/ NoWaiter(t)
             \/ NotifyAll(t) \/ LoadsWaitEarly(t)
        PROVE  TurnsInv'
    <3>1. turn' = turn
      BY <2>6 DEF Guard, TurnStep, Sleep, Unguard, Access, LoadWait, NoWaiter, Finish,
         Forget, NotifyAll, LoadsWaitEarly, slotVars
    <3>2. \A u \in Threads : pc'[u] \in Holding =>
            pc[u] \in Holding /\ op'[u] = op[u] /\ ticket'[u] = ticket[u]
      BY <2>6 DEF Guard, TurnStep, Sleep, Unguard, Access, LoadWait, NoWaiter, Finish,
         Forget, NotifyAll, LoadsWaitEarly, locals, Holding
    <3> QED BY <3>1, <3>2, NoNewHolder
  <2>7. CASE UNCHANGED vars
    BY <2>7 DEF vars, slotVars, locals, TurnsInv, SlotOf, TurnOf
  <2> QED BY <1>2, <2>1, <2>2, <2>3, <2>4, <2>5, <2>6, <2>7 DEF Next, Call, Progress
<1> QED BY <1>1, <1>2
-----------------------------------------------------------------------------
\* Who has touched the storage and not passed the turn on yet.
Storing == {"store", "storeNotify", "storeReturn"}

\* A slot is full when its turn is a reader's, once who has it was there the other way
\* round.
CellsInv ==
  /\ \A t \in Threads : pc[t] \in Storing => (cell[SlotOf(t)] = NoValue) = (op[t] = "read")
  /\ \A i \in Slots : (\A t \in Threads : pc[t] \in Storing => SlotOf(t) # i) =>
       (cell[i] = NoValue) = (turn[i] % 2 = 0)

\* A step that touches no slot.
LEMMA NoStorage ==
  ASSUME CellsInv, turn' = turn, cell' = cell,
         \A u \in Threads : /\ (pc'[u] \in Storing <=> pc[u] \in Storing)
                            /\ pc[u] \in Storing => op'[u] = op[u] /\ ticket'[u] = ticket[u]
  PROVE  CellsInv'
BY DEF CellsInv, SlotOf

\* An access and the turn passed on after it leave the slot as its turn says.
LEMMA CellsInductive ==
  /\ Init => CellsInv
  /\ CellsInv /\ TurnsInv /\ TypeInv /\ TicketsInv /\ [Next]_vars => CellsInv'
<1>1. Init => CellsInv
  BY DEF Init, CellsInv, Storing
<1>2. ASSUME CellsInv, TurnsInv, TypeInv, TicketsInv, [Next]_vars PROVE CellsInv'
  <2>0. /\ pc \in [Threads -> Labels] /\ op \in [Threads -> {"write", "read"}]
        /\ ticket \in [Threads -> Nat] /\ turn \in [Slots -> Nat]
        /\ cell \in [Slots -> Values \cup {NoValue}]
    BY <1>2 DEF TypeInv
  <2> USE <1>2, <2>0 DEF Goto
  <2>1. ASSUME NEW t \in Threads, Access(t) PROVE CellsInv'
    <3>1. /\ turn' = turn /\ op' = op /\ ticket' = ticket
          /\ pc[t] = "access" /\ pc' = [pc EXCEPT ![t] = "store"]
          /\ \A i \in Slots : i # SlotOf(t) => cell'[i] = cell[i]
      BY <2>1 DEF Access, locals
    <3>2. SlotOf(t) \in Slots
      BY SlotTurn
    <3>3. (cell'[SlotOf(t)] = NoValue) = (op[t] = "read")
      BY <2>1, <3>2, MPMCQueueAssumption DEF Access, TypeInv, MPMCQueueAssumption
    <3>4. \A u \in Threads : SlotOf(u)' = SlotOf(u)
      BY <3>1 DEF SlotOf
    <3>5. ASSUME NEW u \in Threads, pc'[u] \in Storing
          PROVE  (cell'[SlotOf(u)'] = NoValue) = (op'[u] = "read")
      <4>1. CASE u = t
        BY <3>1, <3>3, <3>4, <4>1
      <4>2. CASE u # t
        <5>1. pc[u] \in Storing /\ SlotOf(u) # SlotOf(t) /\ SlotOf(u) \in Slots
          BY <3>1, <3>5, <4>2, OneHolder, SlotTurn DEF Storing, Holding
        <5> QED BY <3>1, <3>4, <5>1 DEF CellsInv
      <4> QED BY <4>1, <4>2
    <3>6. ASSUME NEW i \in Slots, \A u \in Threads : pc'[u] \in Storing => SlotOf(u)' # i
          PROVE  (cell'[i] = NoValue) = (turn'[i] % 2 = 0)
      <4>1. i # SlotOf(t)
        BY <3>1, <3>4, <3>6 DEF Storing
      <4>2. \A u \in Threads : pc[u] \in Storing => SlotOf(u) # i
        BY <3>1, <3>4, <3>6 DEF Storing
      <4> QED BY <3>1, <4>1, <4>2 DEF CellsInv
    <3> QED BY <3>5, <3>6 DEF CellsInv
  <2>2. ASSUME NEW t \in Threads, StoreTurn(t) PROVE CellsInv'
    <3>1. /\ turn' = [turn EXCEPT ![SlotOf(t)] = TurnOf(t) + 1] /\ cell' = cell
          /\ pc[t] \in Storing /\ pc'[t] \notin Storing
          /\ \A u \in Threads \ {t} :
               pc'[u] = pc[u] /\ op'[u] = op[u] /\ ticket'[u] = ticket[u]
      BY <2>2 DEF StoreTurn, Storing, locals
    <3>2. /\ SlotOf(t) \in Slots
          /\ \A u \in Threads \ {t} : pc[u] \in Storing => SlotOf(u) # SlotOf(t)
      BY <3>1, SlotTurn, OneHolder DEF Storing, Holding
    <3>3. \A u \in Threads \ {t} : SlotOf(u)' = SlotOf(u)
      BY <3>1 DEF SlotOf
    <3>4. ASSUME NEW u \in Threads, pc'[u] \in Storing
          PROVE  (cell'[SlotOf(u)'] = NoValue) = (op'[u] = "read")
      BY <3>1, <3>3, <3>4 DEF CellsInv
    <3>5. ASSUME NEW i \in Slots, \A u \in Threads : pc'[u] \in Storing => SlotOf(u)' # i
          PROVE  (cell'[i] = NoValue) = (turn'[i] % 2 = 0)
      <4>1. CASE i = SlotOf(t)
        <5>1. turn'[i] = TurnOf(t) + 1
          BY <3>1, <4>1
        <5>2. (turn'[i] % 2 = 0) = (op[t] = "read")
          BY <5>1, SlotTurn
        <5> QED BY <3>1, <4>1, <5>2 DEF CellsInv
      <4>2. CASE i # SlotOf(t)
        <5>1. \A u \in Threads : pc[u] \in Storing => SlotOf(u) # i
          BY <3>1, <3>3, <3>5, <4>2
        <5>2. turn'[i] = turn[i] /\ cell'[i] = cell[i]
          BY <3>1, <4>2
        <5> QED BY <5>1, <5>2 DEF CellsInv
      <4> QED BY <4>1, <4>2
    <3> QED BY <3>4, <3>5 DEF CellsInv
  <2>3. ASSUME NEW t \in Threads, StoresLate(t) PROVE CellsInv'
    <3>1. /\ turn' = [turn EXCEPT ![SlotOf(t)] = TurnOf(t) + 1] /\ cell' = cell
          /\ pc[t] \in Storing /\ pc'[t] \notin Storing
          /\ \A u \in Threads \ {t} :
               pc'[u] = pc[u] /\ op'[u] = op[u] /\ ticket'[u] = ticket[u]
      BY <2>3 DEF StoresLate, Finish, Forget, Storing, locals
    <3>2. /\ SlotOf(t) \in Slots
          /\ \A u \in Threads \ {t} : pc[u] \in Storing => SlotOf(u) # SlotOf(t)
      BY <3>1, SlotTurn, OneHolder DEF Storing, Holding
    <3>3. \A u \in Threads \ {t} : SlotOf(u)' = SlotOf(u)
      BY <3>1 DEF SlotOf
    <3>4. ASSUME NEW u \in Threads, pc'[u] \in Storing
          PROVE  (cell'[SlotOf(u)'] = NoValue) = (op'[u] = "read")
      BY <3>1, <3>3, <3>4 DEF CellsInv
    <3>5. ASSUME NEW i \in Slots, \A u \in Threads : pc'[u] \in Storing => SlotOf(u)' # i
          PROVE  (cell'[i] = NoValue) = (turn'[i] % 2 = 0)
      <4>1. CASE i = SlotOf(t)
        <5>1. turn'[i] = TurnOf(t) + 1
          BY <3>1, <4>1
        <5>2. (turn'[i] % 2 = 0) = (op[t] = "read")
          BY <5>1, SlotTurn
        <5> QED BY <3>1, <4>1, <5>2 DEF CellsInv
      <4>2. CASE i # SlotOf(t)
        <5>1. \A u \in Threads : pc[u] \in Storing => SlotOf(u) # i
          BY <3>1, <3>3, <3>5, <4>2
        <5>2. turn'[i] = turn[i] /\ cell'[i] = cell[i]
          BY <3>1, <4>2
        <5> QED BY <5>1, <5>2 DEF CellsInv
      <4> QED BY <4>1, <4>2
    <3> QED BY <3>4, <3>5 DEF CellsInv
  <2>4. ASSUME NEW t \in Threads,
             \/ BlockingWrite(t) \/ BlockingRead(t) \/ WriteIfNotFull(t)
             \/ ReadIfNotEmpty(t) \/ LoadTicket(t) \/ GiveUp(t)
             \/ Claim(t) \/ ClaimFails(t) \/ TryAgain(t)
        PROVE  CellsInv'
    <3>1. turn' = turn /\ cell' = cell
      BY <2>4 DEF BlockingWrite, Blocking, Begin, TakeTicket, Fresh, BlockingRead,
         WriteIfNotFull, Try, ReadIfNotEmpty, LoadTicket, GiveUp, Forget, Claim,
         ClaimFails, TryAgain, slotVars
    <3>2. \A u \in Threads :
            /\ (pc'[u] \in Storing <=> pc[u] \in Storing)
            /\ pc[u] \in Storing => op'[u] = op[u] /\ ticket'[u] = ticket[u]
      BY <2>4 DEF BlockingWrite, Blocking, Begin, TakeTicket, Fresh, BlockingRead,
         WriteIfNotFull, Try, ReadIfNotEmpty, LoadTicket, GiveUp, Forget, Claim,
         ClaimFails, TryAgain, locals, Storing, Undecided, Labels
    <3> QED BY <3>1, <3>2, NoStorage
  <2>5. ASSUME NEW t \in Threads,
             \/ LoadTurn(t) \/ Guard(t) \/ Sleep(t)
             \/ Reload(t) \/ Unguard(t) \/ LoadWait(t)
             \/ NoWaiter(t) \/ NotifyAll(t) \/ LoadsWaitEarly(t)
        PROVE  CellsInv'
    <3>1. turn' = turn /\ cell' = cell
      BY <2>5 DEF LoadTurn, TurnStep, Guard, Sleep, Reload, Unguard, LoadWait, NoWaiter,
         Finish, Forget, NotifyAll, LoadsWaitEarly, slotVars
    <3>2. \A u \in Threads :
            /\ (pc'[u] \in Storing <=> pc[u] \in Storing)
            /\ pc[u] \in Storing => op'[u] = op[u] /\ ticket'[u] = ticket[u]
      BY <2>5 DEF LoadTurn, TurnStep, Guard, Sleep, Reload, Unguard, LoadWait, NoWaiter,
         Finish, Forget, NotifyAll, LoadsWaitEarly, locals, Storing, Undecided, Labels
    <3> QED BY <3>1, <3>2, NoStorage
  <2>6. CASE UNCHANGED vars
    BY <2>6 DEF vars, slotVars, locals, CellsInv, SlotOf
  <2> QED BY <1>2, <2>1, <2>2, <2>3, <2>4, <2>5, <2>6 DEF Next, Call, Progress
<1> QED BY <1>1, <1>2
-----------------------------------------------------------------------------
\* All of it is inductive.
Inv == TypeInv /\ TicketsInv /\ TurnsInv /\ CellsInv

\* The invariant holds in every reachable state.
LEMMA InvHolds == SafeSpec => []Inv
<1>1. Init => Inv
  BY TypeInductive, TicketsInductive, TurnsInductive, CellsInductive DEF Inv
<1>2. Inv /\ [Next]_vars => Inv'
  BY TypeInductive, TicketsInductive, TurnsInductive, CellsInductive DEF Inv
<1> QED BY <1>1, <1>2, PTL DEF SafeSpec

\* The slot of a thread that is about to touch the storage is as it expects it.
LEMMA AccessReady ==
  ASSUME Inv, NEW t \in Threads, pc[t] = "access"
  PROVE  (cell[SlotOf(t)] = NoValue) = (op[t] = "write")
<1>1. ticket[t] \in Nat /\ op[t] \in {"write", "read"}
  BY DEF Inv, TypeInv
<1>2. \A u \in Threads : pc[u] \in Storing => SlotOf(u) # SlotOf(t)
  BY OneHolder DEF Inv, Storing, Holding
<1>3. turn[SlotOf(t)] = TurnOf(t) /\ SlotOf(t) \in Slots
  BY <1>1, SlotTurn DEF Inv, TurnsInv, Holding
<1>4. (cell[SlotOf(t)] = NoValue) = (turn[SlotOf(t)] % 2 = 0)
  BY <1>2, <1>3 DEF Inv, CellsInv
<1> QED BY <1>1, <1>3, <1>4, SlotTurn

\* storage_ is touched by one thread at a time, never written full and never read empty.
THEOREM StorageIsExclusive == SafeSpec => []StorageExclusive
<1>1. Inv => StorageExclusive
  <2> SUFFICES ASSUME Inv, NEW t \in Threads, pc[t] = "access"
               PROVE  /\ (cell[SlotOf(t)] = NoValue) = (op[t] = "write")
                      /\ \A u \in Threads \ {t} :
                           pc[u] \in {"access", "store"} => SlotOf(u) # SlotOf(t)
    BY DEF StorageExclusive
  <2>1. \A u \in Threads \ {t} : pc[u] \in {"access", "store"} => SlotOf(u) # SlotOf(t)
    BY OneHolder DEF Inv, Holding
  <2> QED BY <2>1, AccessReady
<1> QED BY <1>1, InvHolds, PTL

-----------------------------------------------------------------------------
\* The threads that wait for their turn of a slot, between the guard and the unguard
Waiting(i) == {t \in Threads : /\ pc[t] \in {"sleep", "asleep", "reload", "unguard"}
                               /\ SlotOf(t) = i}

\* waitCount_ is their number.
WaitersCounted == /\ waitCount \in [Slots -> Nat]
                  /\ \A i \in Slots : waitCount[i] = Cardinality(Waiting(i))

\* The types of the rest
RestInv == /\ other \in [Threads -> Nat] /\ cur \in [Threads -> Nat]
           /\ got \subseteq Nat \X (Values \cup {NoValue})
           /\ sawFull \in [Threads -> BOOLEAN] /\ overtaken \in BOOLEAN

\* A thread that begins to wait counts itself, and takes itself back when it has waited.
LEMMA WaitersInductive ==
  /\ Init => WaitersCounted
  /\ TypeInv /\ WaitersCounted /\ [Next]_vars => WaitersCounted'
<1>1. Init => WaitersCounted
  <2> SUFFICES ASSUME Init PROVE WaitersCounted
    OBVIOUS
  <2>1. \A i \in Slots : Waiting(i) = {}
    BY DEF Init, Waiting
  <2> QED BY <2>1, FS_EmptySet DEF Init, WaitersCounted
<1>2. ASSUME TypeInv, WaitersCounted, [Next]_vars PROVE WaitersCounted'
  <2>1. /\ pc \in [Threads -> Labels] /\ ticket \in [Threads -> Nat]
        /\ \A u \in Threads : SlotOf(u) \in Slots
    BY <1>2, SlotTurn DEF TypeInv
  <2>2. \A i : IsFiniteSet(Waiting(i)) /\ Cardinality(Waiting(i)) \in Nat
    <3>1. \A i : Waiting(i) \subseteq Threads
      BY DEF Waiting
    <3> QED BY <3>1, MPMCQueueAssumption, FS_Subset, FS_CardinalityType
         DEF MPMCQueueAssumption
  \* Who does not begin or end to wait leaves the counts alone.
  <2>3. ASSUME waitCount' = waitCount,
               \A u \in Threads :
                 /\ pc'[u] \in {"sleep", "asleep", "reload", "unguard"} <=>
                      pc[u] \in {"sleep", "asleep", "reload", "unguard"}
                 /\ pc[u] \in {"sleep", "asleep", "reload", "unguard"} =>
                      ticket'[u] = ticket[u]
        PROVE  WaitersCounted'
    <3>1. \A i : Waiting(i)' = Waiting(i)
      BY <2>3 DEF Waiting, SlotOf
    <3> QED BY <1>2, <2>3, <3>1 DEF WaitersCounted
  <2>4. ASSUME NEW t \in Threads, Guard(t) PROVE WaitersCounted'
    <3>0. PICK j \in Slots : j = SlotOf(t)
      BY <2>1
    <3>1. /\ ticket' = ticket /\ pc[t] = "guard" /\ pc' = [pc EXCEPT ![t] = "sleep"]
          /\ waitCount' = [waitCount EXCEPT ![j] = waitCount[j] + 1]
      BY <2>4, <3>0 DEF Guard, TurnStep, Goto
    <3>2. t \notin Waiting(j) /\ Waiting(j)' = Waiting(j) \cup {t}
      BY <2>1, <3>0, <3>1 DEF Waiting, SlotOf
    <3>3. \A i \in Slots \ {j} : Waiting(i)' = Waiting(i)
      BY <2>1, <3>0, <3>1 DEF Waiting, SlotOf
    <3>4. Cardinality(Waiting(j)') = Cardinality(Waiting(j)) + 1
      BY <2>2, <3>2, FS_AddElement
    <3>5. /\ waitCount \in [Slots -> Nat] /\ waitCount[j] = Cardinality(Waiting(j))
          /\ \A i \in Slots : waitCount[i] = Cardinality(Waiting(i))
      BY <1>2 DEF WaitersCounted
    <3>6. waitCount[j] + 1 = Cardinality(Waiting(j)') /\ waitCount[j] + 1 \in Nat
      BY <2>2, <3>4, <3>5
    <3>7. waitCount' \in [Slots -> Nat]
      BY <3>1, <3>5, <3>6
    <3>8. \A i \in Slots : waitCount'[i] = Cardinality(Waiting(i)')
      BY <3>1, <3>3, <3>5, <3>6
    <3> QED BY <3>7, <3>8 DEF WaitersCounted
  <2>5. ASSUME NEW t \in Threads, Unguard(t) PROVE WaitersCounted'
    <3>0. PICK j \in Slots : j = SlotOf(t)
      BY <2>1
    <3>1. /\ ticket' = ticket /\ pc[t] = "unguard" /\ pc' = [pc EXCEPT ![t] = "access"]
          /\ waitCount' = [waitCount EXCEPT ![j] = waitCount[j] - 1]
      BY <2>5, <3>0 DEF Unguard, TurnStep, Goto
    <3>2. t \in Waiting(j) /\ Waiting(j)' = Waiting(j) \ {t}
      BY <2>1, <3>0, <3>1 DEF Waiting, SlotOf
    <3>3. \A i \in Slots \ {j} : Waiting(i)' = Waiting(i)
      BY <2>1, <3>0, <3>1 DEF Waiting, SlotOf
    <3>4. /\ Cardinality(Waiting(j)') = Cardinality(Waiting(j)) - 1
          /\ Cardinality(Waiting(j)') \in Nat
      BY <2>2, <3>2, FS_RemoveElement, FS_CardinalityType
    <3>5. /\ waitCount \in [Slots -> Nat] /\ waitCount[j] = Cardinality(Waiting(j))
          /\ \A i \in Slots : waitCount[i] = Cardinality(Waiting(i))
      BY <1>2 DEF WaitersCounted
    <3>6. waitCount[j] - 1 = Cardinality(Waiting(j)') /\ waitCount[j] - 1 \in Nat
      BY <2>2, <3>4, <3>5
    <3>7. waitCount' \in [Slots -> Nat]
      BY <3>1, <3>5, <3>6
    <3>8. \A i \in Slots : waitCount'[i] = Cardinality(Waiting(i)')
      BY <3>1, <3>3, <3>5, <3>6
    <3> QED BY <3>7, <3>8 DEF WaitersCounted
  <2>6. ASSUME NEW t \in Threads, Call(t) \/ LoadTicket(t) \/ GiveUp(t) \/ Claim(t)
                                  \/ ClaimFails(t) \/ TryAgain(t)
        PROVE  WaitersCounted'
    <3>1. /\ waitCount' = waitCount /\ pc[t] \in {"idle"} \cup Undecided
          /\ \E l \in {"idle", "loadTurn"} \cup Undecided : pc' = [pc EXCEPT ![t] = l]
          /\ \A u \in Threads \ {t} : ticket'[u] = ticket[u]
      BY <2>1, <2>6
         DEF Call, BlockingWrite, BlockingRead, Blocking, WriteIfNotFull, ReadIfNotEmpty, Try,
             Begin, Goto, LoadTicket, GiveUp, Claim, ClaimFails, TryAgain, Forget, slotVars,
             locals, Undecided
    <3> QED BY <2>1, <2>3, <3>1 DEF Undecided
  <2>7. ASSUME NEW t \in Threads, LoadTurn(t) \/ Sleep(t) \/ Reload(t) PROVE WaitersCounted'
    <3>1. waitCount' = waitCount /\ ticket' = ticket
      BY <2>7 DEF LoadTurn, Sleep, Reload, TurnStep
    <3>2. \/ pc[t] = "loadTurn" /\ \E l \in {"access", "guard"} : pc' = [pc EXCEPT ![t] = l]
          \/ /\ pc[t] \in {"sleep", "reload"}
             /\ \E l \in {"asleep", "reload", "unguard", "sleep"} : pc' = [pc EXCEPT ![t] = l]
      BY <2>7 DEF LoadTurn, Sleep, Reload, TurnStep, Goto
    <3> QED BY <2>1, <2>3, <3>1, <3>2
  <2>8. ASSUME NEW t \in Threads, Access(t) \/ StoreTurn(t) \/ LoadWait(t) \/ NoWaiter(t)
                                  \/ LoadsWaitEarly(t) \/ StoresLate(t)
        PROVE  WaitersCounted'
    <3>1. waitCount' = waitCount /\ \A u \in Threads \ {t} : ticket'[u] = ticket[u]
      BY <2>1, <2>8 DEF Access, StoreTurn, LoadWait, NoWaiter, Finish, Forget,
         LoadsWaitEarly,
                        StoresLate, slotVars, locals
    <3>2. /\ pc[t] \in {"access", "store", "loadWait", "storeNotify", "storeReturn"}
          /\ \E l \in {"store", "loadWait", "notify", "idle", "storeNotify", "storeReturn"} :
               pc' = [pc EXCEPT ![t] = l]
      BY <2>8 DEF Access, StoreTurn, LoadWait, NoWaiter, Finish, LoadsWaitEarly, StoresLate,
                  Goto
    <3> QED BY <2>1, <2>3, <3>1, <3>2
  <2>9. ASSUME NEW t \in Threads, NotifyAll(t) PROVE WaitersCounted'
    <3>1. waitCount' = waitCount /\ \A u \in Threads \ {t} : ticket'[u] = ticket[u]
      BY <2>1, <2>9 DEF NotifyAll, Forget, slotVars
    <3>2. /\ pc[t] = "notify" /\ pc'[t] = "idle"
          /\ \A u \in Threads \ {t} :
               pc'[u] = pc[u] \/ (pc[u] = "asleep" /\ pc'[u] = "sleep")
      BY <2>9 DEF NotifyAll
    <3> QED BY <2>1, <2>3, <3>1, <3>2
  <2>10. CASE UNCHANGED vars
    <3>1. \A i : Waiting(i)' = Waiting(i)
      BY <2>10 DEF vars, locals, Waiting, SlotOf
    <3> QED BY <1>2, <2>10, <3>1 DEF vars, slotVars, WaitersCounted
  <2> QED BY <1>2, <2>4, <2>5, <2>6, <2>7, <2>8, <2>9, <2>10 DEF Next, Progress
<1> QED BY <1>1, <1>2

\* What calls remember is typed, too.
LEMMA RestInductive ==
  /\ Init => RestInv
  /\ TypeInv /\ TypeInv' /\ RestInv /\ [Next]_vars => RestInv'
<1>1. Init => RestInv
  <2> SUFFICES ASSUME Init PROVE RestInv
    OBVIOUS
  <2>1. other \in [Threads -> Nat] /\ cur \in [Threads -> Nat]
    BY DEF Init
  <2>2. sawFull \in [Threads -> BOOLEAN] /\ overtaken \in BOOLEAN
    BY DEF Init
  <2>3. got \subseteq Nat \X (Values \cup {NoValue})
    BY DEF Init
  <2> QED BY <2>1, <2>2, <2>3 DEF RestInv
<1>2. ASSUME TypeInv, TypeInv', RestInv, [Next]_vars PROVE RestInv'
  <2>1. /\ pushTicket \in Nat /\ popTicket \in Nat /\ ticket \in [Threads -> Nat]
        /\ pushTicket' \in Nat /\ popTicket' \in Nat
        /\ turn \in [Slots -> Nat] /\ cell \in [Slots -> Values \cup {NoValue}]
        /\ \A u \in Threads : SlotOf(u) \in Slots
    BY <1>2, SlotTurn DEF TypeInv
  <2>2. /\ other \in [Threads -> Nat] /\ cur \in [Threads -> Nat]
        /\ got \subseteq Nat \X (Values \cup {NoValue})
        /\ sawFull \in [Threads -> BOOLEAN] /\ overtaken \in BOOLEAN
    BY <1>2 DEF RestInv
  <2> USE DEF RestInv, slotVars, locals, ghosts
  <2>3. ASSUME NEW t \in Threads, BlockingWrite(t) \/ BlockingRead(t) \/ Claim(t)
        PROVE  RestInv'
    <3>1. sawFull' \in [Threads -> BOOLEAN]
      BY <2>2, <2>3 DEF BlockingWrite, BlockingRead, Blocking, Claim, TakeTicket
    <3> QED BY <2>2, <2>3, <3>1 DEF BlockingWrite, BlockingRead, Blocking, Begin, Claim,
               TakeTicket
  <2>4. ASSUME NEW t \in Threads, WriteIfNotFull(t) \/ ReadIfNotEmpty(t)
        PROVE  RestInv'
    <3>1. PICK kind, v : Try(t, kind, v)
      BY <2>4 DEF WriteIfNotFull, ReadIfNotEmpty
    <3>2. other' \in [Threads -> Nat]
      BY <2>1, <2>2, <3>1 DEF Try
    <3>3. sawFull' \in [Threads -> BOOLEAN]
      BY <2>1, <2>2, <3>1 DEF Try
    <3> QED BY <2>2, <3>1, <3>2, <3>3 DEF Try
  <2>5. ASSUME NEW t \in Threads,
               \/ LoadTicket(t) \/ GiveUp(t) \/ ClaimFails(t) \/ TryAgain(t)
               \/ LoadWait(t) \/ NoWaiter(t) \/ StoreTurn(t) \/ StoresLate(t) \/ NotifyAll(t)
               \/ LoadsWaitEarly(t)
        PROVE  RestInv'
    <3>1. CASE LoadTicket(t) \/ ClaimFails(t) \/ LoadWait(t) \/ StoreTurn(t)
      BY <2>2, <3>1 DEF LoadTicket, ClaimFails, LoadWait, StoreTurn
    <3>2. CASE TryAgain(t)
      <4>1. other' \in [Threads -> Nat]
        BY <2>1, <2>2, <3>2 DEF TryAgain
      <4> QED BY <2>2, <3>2, <4>1 DEF TryAgain
    <3>3. ASSUME Forget(t), UNCHANGED <<got, overtaken>> PROVE RestInv'
      <4>1. other' \in [Threads -> Nat] /\ cur' \in [Threads -> Nat]
        BY <2>2, <3>3 DEF Forget
      <4>2. sawFull' \in [Threads -> BOOLEAN]
        BY <2>2, <3>3 DEF Forget
      <4> QED BY <2>2, <3>3, <4>1, <4>2
    <3>4. CASE GiveUp(t) \/ NoWaiter(t) \/ NotifyAll(t)
      BY <3>3, <3>4 DEF GiveUp, NoWaiter, Finish, NotifyAll
    <3>5. CASE StoresLate(t)
      BY <2>2, <3>3, <3>5 DEF StoresLate, Finish
    <3>6. CASE LoadsWaitEarly(t)
      BY <2>2, <3>6 DEF LoadsWaitEarly
    <3> QED BY <2>5, <3>1, <3>2, <3>4, <3>5, <3>6
  <2>6. ASSUME NEW t \in Threads,
               LoadTurn(t) \/ Guard(t) \/ Sleep(t) \/ Reload(t) \/ Unguard(t)
        PROVE  RestInv'
    BY <2>1, <2>2, <2>6 DEF LoadTurn, Guard, Sleep, Reload, Unguard, TurnStep
  <2>7. ASSUME NEW t \in Threads, Access(t) PROVE RestInv'
    <3>1. got' \subseteq Nat \X (Values \cup {NoValue})
      BY <2>1, <2>2, <2>7 DEF Access
    <3> QED BY <2>2, <2>7, <3>1 DEF Access
  <2>8. CASE UNCHANGED vars
    BY <2>2, <2>8 DEF vars
  <2> QED BY <1>2, <2>3, <2>4, <2>5, <2>6, <2>7, <2>8 DEF Next, Call, Progress
<1> QED BY <1>1, <1>2

\* Every reachable state is well typed; waitCount_ never goes below 0, as it counts the
\* threads that wait.
THEOREM TypeCorrect == SafeSpec => []TypeOK
<1>1. Init => TypeInv /\ WaitersCounted /\ RestInv
  BY TypeInductive, WaitersInductive, RestInductive
<1>2. TypeInv /\ WaitersCounted /\ RestInv /\ [Next]_vars =>
        (TypeInv /\ WaitersCounted /\ RestInv)'
  BY TypeInductive, WaitersInductive, RestInductive
<1>3. TypeInv /\ WaitersCounted /\ RestInv => TypeOK
  BY DEF TypeInv, WaitersCounted, RestInv, TypeOK
<1> QED BY <1>1, <1>2, <1>3, PTL DEF SafeSpec

-----------------------------------------------------------------------------
\* The calls that may yet take a ticket of this kind.
Trying(kind) == {t \in Threads : op[t] = kind /\ pc[t] \in Undecided}

\* The bound has room for them.
BoundInv == /\ pushTicket + Cardinality(Trying("write")) <= MaxTickets
            /\ popTicket + Cardinality(Trying("read")) <= MaxTickets

\* They can be counted.
LEMMA TryingFinite ==
  \A kind : IsFiniteSet(Trying(kind)) /\ Cardinality(Trying(kind)) \in Nat
<1> SUFFICES ASSUME NEW kind
             PROVE  IsFiniteSet(Trying(kind)) /\ Cardinality(Trying(kind)) \in Nat
  OBVIOUS
<1>1. Trying(kind) \in SUBSET Threads
  BY DEF Trying
<1> QED BY <1>1, MPMCQueueAssumption, FS_Subset, FS_CardinalityType DEF MPMCQueueAssumption

\* Tickets stay within their bound.
LEMMA BoundInductive ==
  /\ Init => BoundInv
  /\ BoundInv /\ TypeInv /\ [Next]_vars => BoundInv'
<1>1. ASSUME Init PROVE BoundInv
  <2>1. Trying("write") = {} /\ Trying("read") = {}
    BY <1>1 DEF Init, Trying, Undecided
  <2>2. Cardinality(Trying("write")) = 0 /\ Cardinality(Trying("read")) = 0
    BY <2>1, FS_EmptySet
  <2>3. pushTicket = 0 /\ popTicket = 0 /\ MaxTickets \in Nat
    BY <1>1, MPMCQueueAssumption DEF Init, MPMCQueueAssumption
  <2> QED BY <2>2, <2>3 DEF BoundInv
<1>2. ASSUME BoundInv, TypeInv, [Next]_vars PROVE BoundInv'
  <2>0. /\ pushTicket \in Nat /\ popTicket \in Nat
        /\ pc \in [Threads -> Labels] /\ op \in [Threads -> {"write", "read"}]
        /\ MaxTickets \in Nat
    BY <1>2, MPMCQueueAssumption DEF TypeInv, MPMCQueueAssumption
  <2> USE <1>2, <2>0, TryingFinite DEF Goto
  <2>1. ASSUME NEW t \in Threads, BlockingWrite(t) PROVE BoundInv'
    <3>1. /\ pushTicket' = pushTicket + 1 /\ popTicket' = popTicket
          /\ pushTicket + Cardinality(Trying("write")) < MaxTickets
      BY <2>1 DEF BlockingWrite, Blocking, Begin, TakeTicket, Fresh, Affordable, Trying
    <3>2. /\ pc[t] = "idle" /\ pc' = [pc EXCEPT ![t] = "loadTurn"]
          /\ op' = [op EXCEPT ![t] = "write"]
      BY <2>1 DEF BlockingWrite, Blocking, Begin, TakeTicket, Fresh
    <3>3. /\ Trying("write")' = Trying("write") /\ Trying("read")' = Trying("read")
          /\ t \notin Trying("write")
      BY <3>2 DEF Trying, Undecided
    <3> QED BY <3>1, <3>3 DEF BoundInv
  <2>2. ASSUME NEW t \in Threads, BlockingRead(t) PROVE BoundInv'
    <3>1. /\ popTicket' = popTicket + 1 /\ pushTicket' = pushTicket
          /\ popTicket + Cardinality(Trying("read")) < MaxTickets
      BY <2>2 DEF BlockingRead, Blocking, Begin, TakeTicket, Affordable, Trying
    <3>2. /\ pc[t] = "idle" /\ pc' = [pc EXCEPT ![t] = "loadTurn"]
          /\ op' = [op EXCEPT ![t] = "read"]
      BY <2>2 DEF BlockingRead, Blocking, Begin, TakeTicket
    <3>3. /\ Trying("read")' = Trying("read") /\ Trying("write")' = Trying("write")
          /\ t \notin Trying("read")
      BY <3>2 DEF Trying, Undecided
    <3> QED BY <3>1, <3>3 DEF BoundInv
  <2>3. ASSUME NEW t \in Threads, WriteIfNotFull(t) PROVE BoundInv'
    <3>1. /\ pushTicket' = pushTicket /\ popTicket' = popTicket
          /\ pushTicket + Cardinality(Trying("write")) < MaxTickets
      BY <2>3 DEF WriteIfNotFull, Try, Begin, Fresh, Affordable, Trying
    <3>2. /\ pc[t] = "idle" /\ pc' = [pc EXCEPT ![t] = "loadTicket"]
          /\ op' = [op EXCEPT ![t] = "write"]
      BY <2>3 DEF WriteIfNotFull, Try, Begin, Fresh
    <3>3. /\ Trying("write")' = Trying("write") \cup {t} /\ Trying("read")' = Trying("read")
          /\ t \notin Trying("write")
      BY <3>2 DEF Trying, Undecided
    <3>4. Cardinality(Trying("write")') = Cardinality(Trying("write")) + 1
      BY <3>3, FS_AddElement
    <3> QED BY <3>1, <3>3, <3>4 DEF BoundInv
  <2>4. ASSUME NEW t \in Threads, ReadIfNotEmpty(t) PROVE BoundInv'
    <3>1. /\ popTicket' = popTicket /\ pushTicket' = pushTicket
          /\ popTicket + Cardinality(Trying("read")) < MaxTickets
      BY <2>4 DEF ReadIfNotEmpty, Try, Begin, Affordable, Trying
    <3>2. /\ pc[t] = "idle" /\ pc' = [pc EXCEPT ![t] = "loadTicket"]
          /\ op' = [op EXCEPT ![t] = "read"]
      BY <2>4 DEF ReadIfNotEmpty, Try, Begin
    <3>3. /\ Trying("read")' = Trying("read") \cup {t} /\ Trying("write")' = Trying("write")
          /\ t \notin Trying("read")
      BY <3>2 DEF Trying, Undecided
    <3>4. Cardinality(Trying("read")') = Cardinality(Trying("read")) + 1
      BY <3>3, FS_AddElement
    <3> QED BY <3>1, <3>3, <3>4 DEF BoundInv
  <2>5. ASSUME NEW t \in Threads, GiveUp(t) PROVE BoundInv'
    <3>1. CASE op[t] = "write"
      <4>1. pushTicket' = pushTicket /\ popTicket' = popTicket
        BY <2>5, <3>1 DEF GiveUp, Forget
      <4>2. /\ pc[t] = "test" /\ pc' = [pc EXCEPT ![t] = "idle"] /\ op' = op
        BY <2>5 DEF GiveUp, Forget, locals
      <4>3. /\ Trying("write")' = Trying("write") \ {t} /\ t \in Trying("write")
            /\ Trying("read")' = Trying("read")
        BY <3>1, <4>2 DEF Trying, Undecided
      <4>4. Cardinality(Trying("write")') = Cardinality(Trying("write")) - 1
        BY <4>3, FS_RemoveElement
      <4> QED BY <4>1, <4>3, <4>4 DEF BoundInv
    <3>2. CASE op[t] = "read"
      <4>1. popTicket' = popTicket /\ pushTicket' = pushTicket
        BY <2>5, <3>2 DEF GiveUp, Forget
      <4>2. /\ pc[t] = "test" /\ pc' = [pc EXCEPT ![t] = "idle"] /\ op' = op
        BY <2>5 DEF GiveUp, Forget, locals
      <4>3. /\ Trying("read")' = Trying("read") \ {t} /\ t \in Trying("read")
            /\ Trying("write")' = Trying("write")
        BY <3>2, <4>2 DEF Trying, Undecided
      <4>4. Cardinality(Trying("read")') = Cardinality(Trying("read")) - 1
        BY <4>3, FS_RemoveElement
      <4> QED BY <4>1, <4>3, <4>4 DEF BoundInv
    <3> QED BY <3>1, <3>2
  <2>6. ASSUME NEW t \in Threads, Claim(t) PROVE BoundInv'
    <3>1. CASE op[t] = "write"
      <4>1. pushTicket' = pushTicket + 1 /\ popTicket' = popTicket
        BY <2>6, <3>1 DEF Claim, TakeTicket
      <4>2. /\ pc[t] = "test" /\ pc' = [pc EXCEPT ![t] = "loadTurn"] /\ op' = op
        BY <2>6 DEF Claim, TakeTicket, locals
      <4>3. /\ Trying("write")' = Trying("write") \ {t} /\ t \in Trying("write")
            /\ Trying("read")' = Trying("read")
        BY <3>1, <4>2 DEF Trying, Undecided
      <4>4. Cardinality(Trying("write")') = Cardinality(Trying("write")) - 1
        BY <4>3, FS_RemoveElement
      <4> QED BY <4>1, <4>3, <4>4 DEF BoundInv
    <3>2. CASE op[t] = "read"
      <4>1. popTicket' = popTicket + 1 /\ pushTicket' = pushTicket
        BY <2>6, <3>2 DEF Claim, TakeTicket
      <4>2. /\ pc[t] = "test" /\ pc' = [pc EXCEPT ![t] = "loadTurn"] /\ op' = op
        BY <2>6 DEF Claim, TakeTicket, locals
      <4>3. /\ Trying("read")' = Trying("read") \ {t} /\ t \in Trying("read")
            /\ Trying("write")' = Trying("write")
        BY <3>2, <4>2 DEF Trying, Undecided
      <4>4. Cardinality(Trying("read")') = Cardinality(Trying("read")) - 1
        BY <4>3, FS_RemoveElement
      <4> QED BY <4>1, <4>3, <4>4 DEF BoundInv
    <3> QED BY <3>1, <3>2
  <2>7. ASSUME NEW t \in Threads,
             \/ LoadTicket(t) \/ ClaimFails(t) \/ TryAgain(t)
        PROVE  BoundInv'
    <3>1. pushTicket' = pushTicket /\ popTicket' = popTicket
      BY <2>7 DEF LoadTicket, ClaimFails, TryAgain
    <3>2. \A u \in Threads : /\ pc'[u] \in Undecided <=> pc[u] \in Undecided
                             /\ pc[u] \in Undecided => op'[u] = op[u]
      BY <2>7 DEF LoadTicket, ClaimFails, TryAgain, Undecided, Labels, locals
    <3>3. Trying("write")' = Trying("write") /\ Trying("read")' = Trying("read")
      BY <3>2 DEF Trying
    <3> QED BY <3>1, <3>3 DEF BoundInv
  <2>8. ASSUME NEW t \in Threads,
             \/ LoadTurn(t) \/ Guard(t) \/ Sleep(t)
             \/ Reload(t) \/ Unguard(t) \/ Access(t)
             \/ StoreTurn(t) \/ LoadWait(t) \/ NoWaiter(t)
             \/ NotifyAll(t) \/ LoadsWaitEarly(t) \/ StoresLate(t)
        PROVE  BoundInv'
    <3>1. pushTicket' = pushTicket /\ popTicket' = popTicket
      BY <2>8 DEF LoadTurn, TurnStep, Guard, Sleep, Reload, Unguard, Access, StoreTurn,
         LoadWait, NoWaiter, Finish, Forget, NotifyAll, LoadsWaitEarly, StoresLate
    <3>2. \A u \in Threads : /\ pc'[u] \in Undecided <=> pc[u] \in Undecided
                             /\ pc[u] \in Undecided => op'[u] = op[u]
      BY <2>8 DEF LoadTurn, TurnStep, Guard, Sleep, Reload, Unguard, Access, StoreTurn,
         LoadWait, NoWaiter, Finish, Forget, NotifyAll, LoadsWaitEarly, StoresLate,
         Undecided, Labels, locals
    <3>3. Trying("write")' = Trying("write") /\ Trying("read")' = Trying("read")
      BY <3>2 DEF Trying
    <3> QED BY <3>1, <3>3 DEF BoundInv
  <2>9. CASE UNCHANGED vars
    <3>1. Trying("write")' = Trying("write") /\ Trying("read")' = Trying("read")
      BY <2>9 DEF vars, locals, Trying
    <3> QED BY <2>9, <3>1 DEF vars, BoundInv
  <2> QED BY <1>2, <2>1, <2>2, <2>3, <2>4, <2>5, <2>6, <2>7, <2>8, <2>9 DEF Next, Call,
         Progress
<1> QED BY <1>1, <1>2
-----------------------------------------------------------------------------
\* Every step takes a ticket, touches the storage of a slot, passes a turn on, or is
\* nothing to the abstract queue.
Accepts(v) == /\ pushTicket' = pushTicket + 1 /\ log' = Append(log, v)
              /\ UNCHANGED <<popTicket, turn, cell, got>>
Promises == popTicket' = popTicket + 1 /\ UNCHANGED <<pushTicket, turn, cell, log, got>>
Fills(t) == /\ pc[t] = "access" /\ op[t] = "write"
            /\ cell' = [cell EXCEPT ![SlotOf(t)] = value[t]]
            /\ UNCHANGED <<pushTicket, popTicket, turn, log, got>>
Empties(t) == /\ pc[t] = "access" /\ op[t] = "read"
              /\ cell' = [cell EXCEPT ![SlotOf(t)] = NoValue]
              /\ got' = got \cup {<<ticket[t], cell[SlotOf(t)]>>}
              /\ UNCHANGED <<pushTicket, popTicket, turn, log>>
PassesOn(t) == /\ pc[t] \in Storing
               /\ turn' = [turn EXCEPT ![SlotOf(t)] = TurnOf(t) + 1]
               /\ UNCHANGED <<pushTicket, popTicket, cell, log, got>>
Unseen == UNCHANGED <<pushTicket, popTicket, turn, cell, log, got>>

\* The steps of the queue are of these six kinds.
LEMMA StepKinds ==
  ASSUME TypeInv, [Next]_vars
  PROVE  \/ \E v \in Values : Accepts(v)
         \/ Promises
         \/ \E t \in Threads : Fills(t) \/ Empties(t) \/ PassesOn(t)
         \/ Unseen
<1>1. ASSUME NEW t \in Threads, BlockingWrite(t) PROVE \E v \in Values : Accepts(v)
  BY <1>1 DEF BlockingWrite, Fresh, Blocking, TakeTicket, Accepts, slotVars
<1>2. ASSUME NEW t \in Threads, BlockingRead(t) PROVE Promises
  BY <1>2 DEF BlockingRead, Blocking, TakeTicket, Promises, slotVars
<1>3. ASSUME NEW t \in Threads, Claim(t) PROVE Promises \/ \E v \in Values : Accepts(v)
  BY <1>3 DEF Claim, Goto, TakeTicket, Accepts, Promises, slotVars, TypeInv
<1>4. ASSUME NEW t \in Threads, Access(t) PROVE Fills(t) \/ Empties(t)
  BY <1>4 DEF Access, Goto, Fills, Empties
<1>5. ASSUME NEW t \in Threads, StoreTurn(t) \/ StoresLate(t) PROVE PassesOn(t)
  BY <1>5 DEF StoreTurn, StoresLate, Goto, Finish, Forget, PassesOn, Storing, ghosts
<1>6. ASSUME NEW t \in Threads,
             \/ WriteIfNotFull(t) \/ ReadIfNotEmpty(t) \/ LoadTicket(t) \/ GiveUp(t)
             \/ ClaimFails(t) \/ TryAgain(t)
      PROVE  Unseen
  BY <1>6 DEF WriteIfNotFull, ReadIfNotEmpty, Try, LoadTicket, GiveUp, Forget, ClaimFails,
     TryAgain, Unseen, slotVars, ghosts
<1>7. ASSUME NEW t \in Threads,
             \/ LoadTurn(t) \/ Guard(t) \/ Sleep(t) \/ Reload(t) \/ Unguard(t)
             \/ LoadWait(t) \/ NoWaiter(t) \/ NotifyAll(t) \/ LoadsWaitEarly(t)
      PROVE  Unseen
  BY <1>7 DEF LoadTurn, Guard, Sleep, Reload, Unguard, TurnStep, LoadWait, NoWaiter,
     NotifyAll, LoadsWaitEarly, Finish, Forget, Unseen, slotVars, ghosts
<1>8. CASE UNCHANGED vars
  BY <1>8 DEF vars, slotVars, ghosts, Unseen
<1> QED BY <1>1, <1>2, <1>3, <1>4, <1>5, <1>6, <1>7, <1>8 DEF Next, Call, Progress
-----------------------------------------------------------------------------
\* The ticket of the writer that fills slot i in its present round, and of its reader
Place(i) == (turn[i] \div 2) * Capacity + i

\* A full slot has the value of its ticket, and who received a value had its turn.
ContentInv ==
  /\ \A i \in Slots : cell[i] # NoValue =>
       Place(i) < pushTicket /\ cell[i] = log[Place(i) + 1]
  /\ \A k \in Abstract!Delivered :
       k \in Nat /\ turn[k % Capacity] >= (k \div Capacity) * 2 + 1

\* No two slots are meant by the same ticket.
LEMMA OneSlot ==
  \A c \in Nat \ {0} : \A i, j \in 0..c - 1 : \A p, q \in Nat :
    p * c + i = q * c + j => i = j /\ p = q
<1> SUFFICES ASSUME NEW c \in Nat \ {0}, NEW i \in 0..c - 1, NEW j \in 0..c - 1,
                    NEW p \in Nat, NEW q \in Nat, p * c + i = q * c + j
             PROVE  i = j /\ p = q
  OBVIOUS
<1>1. \A a, b \in Nat : a < b => a * c + c <= b * c
  <2> SUFFICES ASSUME NEW a \in Nat, NEW b \in Nat, a < b PROVE a * c + c <= b * c
    OBVIOUS
  <2>1. PICK d \in Nat : b = a + 1 + d
    <3> WITNESS b - a - 1 \in Nat
    <3> QED OBVIOUS
  <2>2. b * c = a * c + c + d * c
    BY <2>1
  <2>3. d * c >= 0
    OBVIOUS
  <2>4. a * c \in Nat /\ d * c \in Nat
    OBVIOUS
  <2> QED BY <2>2, <2>3, <2>4
<1>2. p * c \in Nat /\ q * c \in Nat
  OBVIOUS
<1>3. ~(p < q) /\ ~(q < p)
  BY <1>1, <1>2
<1> QED BY <1>3

\* The slot a thread holds is the place of its ticket.
LEMMA HeldPlace ==
  ASSUME Inv, NEW t \in Threads, pc[t] \in Holding
  PROVE  /\ SlotOf(t) \in Slots /\ turn[SlotOf(t)] = TurnOf(t)
         /\ Place(SlotOf(t)) = ticket[t]
         /\ ticket[t] \in Nat /\ ticket[t] < Counter(t)
         /\ op[t] = "write" => value[t] \in Values /\ value[t] = log[ticket[t] + 1]
<1>1. ticket[t] \in Nat /\ op[t] \in {"write", "read"}
  BY DEF Inv, TypeInv
<1>2. turn[SlotOf(t)] = TurnOf(t)
  BY DEF Inv, TurnsInv
<1>3. SlotOf(t) \in Slots /\ ticket[t] = (TurnOf(t) \div 2) * Capacity + SlotOf(t)
  BY <1>1, SlotTurn
<1>4. pc[t] \in Decided /\ pc[t] # "idle"
  BY DEF Holding, Decided, Labels, Undecided
<1>5. /\ ticket[t] < Counter(t)
      /\ op[t] = "write" => value[t] \in Values /\ value[t] = log[ticket[t] + 1]
  BY <1>4 DEF Inv, TicketsInv, TypeInv
<1> QED BY <1>1, <1>2, <1>3, <1>5 DEF Place

\* Passing a turn on keeps the place of a value that stays in the slot.
LEMMA PassedPlace ==
  ASSUME Inv, NEW t \in Threads, PassesOn(t)
  PROVE  /\ SlotOf(t) \in Slots
         /\ turn'[SlotOf(t)] = turn[SlotOf(t)] + 1
         /\ \A i \in Slots : i # SlotOf(t) => turn'[i] = turn[i]
         /\ \A i \in Slots : cell[i] # NoValue => Place(i)' = Place(i)
<1>1. SlotOf(t) \in Slots /\ turn[SlotOf(t)] = TurnOf(t)
  BY HeldPlace DEF PassesOn, Storing, Holding
<1>2. /\ turn \in [Slots -> Nat] /\ ticket[t] \in Nat /\ op[t] \in {"write", "read"}
      /\ TurnOf(t) \in Nat
  BY SlotTurn DEF Inv, TypeInv
<1>3. /\ turn'[SlotOf(t)] = turn[SlotOf(t)] + 1
      /\ \A i \in Slots : i # SlotOf(t) => turn'[i] = turn[i]
  BY <1>1, <1>2 DEF PassesOn
<1>4. cell[SlotOf(t)] # NoValue => turn'[SlotOf(t)] \div 2 = turn[SlotOf(t)] \div 2
  <2>1. cell[SlotOf(t)] # NoValue => op[t] = "write"
    BY <1>2 DEF PassesOn, Inv, CellsInv
  <2>2. op[t] = "write" => (TurnOf(t) + 1) \div 2 = TurnOf(t) \div 2
    BY <1>2, SlotTurn
  <2> QED BY <1>1, <1>3, <2>1, <2>2
<1>5. \A i \in Slots : cell[i] # NoValue => Place(i)' = Place(i)
  BY <1>3, <1>4 DEF Place
<1> QED BY <1>1, <1>3, <1>5

\* One more pair in got is one more ticket delivered.
LEMMA Receiving ==
  ASSUME NEW k, NEW v, got' = got \cup {<<k, v>>}
  PROVE  Abstract!Delivered' = Abstract!Delivered \cup {k}
<1>1. <<k, v>>[1] = k
  OBVIOUS
<1>2. Abstract!Delivered' = {pair[1] : pair \in got \cup {<<k, v>>}}
  BY DEF Abstract!Delivered
<1>3. Abstract!Delivered = {pair[1] : pair \in got}
  BY DEF Abstract!Delivered
<1> QED BY <1>1, <1>2, <1>3, Zenon

\* What is in a slot and what was received stay what the tickets say.
LEMMA ContentInductive ==
  /\ Init => ContentInv
  /\ ContentInv /\ Inv /\ [Next]_vars => ContentInv'
<1>1. Init => ContentInv
  BY DEF Init, ContentInv, Abstract!Delivered
<1>2. ASSUME ContentInv, Inv, [Next]_vars PROVE ContentInv'
  <2>0. /\ pushTicket \in Nat /\ popTicket \in Nat /\ log \in Seq(Values)
        /\ turn \in [Slots -> Nat] /\ cell \in [Slots -> Values \cup {NoValue}]
        /\ op \in [Threads -> {"write", "read"}] /\ Len(log) = pushTicket
        /\ Capacity \in Nat \ {0}
    BY <1>2, MPMCQueueAssumption DEF Inv, TypeInv, TicketsInv, MPMCQueueAssumption
  <2>1. \A i \in Slots : Place(i) \in Nat
    <3> SUFFICES ASSUME NEW i \in Slots PROVE Place(i) \in Nat
      OBVIOUS
    <3>1. turn[i] \div 2 \in Nat /\ i \in Nat
      BY <2>0 DEF Slots
    <3> QED BY <2>0, <3>1 DEF Place
  <2>2. \A k \in Nat : k % Capacity \in Slots /\ k \div Capacity \in Nat
    BY <2>0, Division DEF Slots
  <2> DEFINE Right(i) == cell[i] # NoValue =>
                           Place(i) < pushTicket /\ cell[i] = log[Place(i) + 1]
             Had(k) == k \in Nat /\ turn[k % Capacity] >= (k \div Capacity) * 2 + 1
  <2>3. ContentInv = (/\ \A i \in Slots : Right(i)
                      /\ \A k \in Abstract!Delivered : Had(k))
    BY DEF ContentInv
  <2>4. ASSUME NEW v \in Values, Accepts(v) PROVE ContentInv'
    <3>1. ASSUME NEW i \in Slots PROVE Right(i)'
      BY <1>2, <2>0, <2>1, <2>4 DEF Accepts, ContentInv, Place
    <3> QED BY <1>2, <2>4, <3>1 DEF ContentInv, Accepts, Abstract!Delivered
  <2>5. ASSUME Promises PROVE ContentInv'
    BY <1>2, <2>5 DEF ContentInv, Promises, Abstract!Delivered, Place
  <2>6. ASSUME Unseen PROVE ContentInv'
    BY <1>2, <2>6 DEF ContentInv, Unseen, Abstract!Delivered, Place
  <2>7. ASSUME NEW t \in Threads, Fills(t) PROVE ContentInv'
    <3>1. /\ SlotOf(t) \in Slots /\ Place(SlotOf(t)) = ticket[t]
          /\ ticket[t] < pushTicket /\ value[t] = log[ticket[t] + 1]
      BY <2>7, HeldPlace, <1>2 DEF Fills, Holding, Counter
    <3>2. ASSUME NEW i \in Slots PROVE Right(i)'
      BY <1>2, <2>0, <2>7, <3>1 DEF Fills, ContentInv, Place
    <3> QED BY <1>2, <2>7, <3>2 DEF ContentInv, Fills, Abstract!Delivered
  <2>8. ASSUME NEW t \in Threads, Empties(t) PROVE ContentInv'
    <3>1. /\ SlotOf(t) \in Slots /\ turn[SlotOf(t)] = TurnOf(t) /\ ticket[t] \in Nat
      BY <2>8, HeldPlace, <1>2 DEF Empties, Holding
    <3>2. TurnOf(t) = (ticket[t] \div Capacity) * 2 + 1
      BY <2>8 DEF Empties, TurnOf
    <3>3. Had(ticket[t])
      <4>1. (ticket[t] \div Capacity) * 2 + 1 \in Nat
        BY <2>2, <3>1
      <4> QED BY <3>1, <3>2, <4>1 DEF SlotOf
    <3>4. Abstract!Delivered' = Abstract!Delivered \cup {ticket[t]} /\ turn' = turn
      BY <2>8, Receiving DEF Empties
    <3>5. \A k \in Abstract!Delivered' : Had(k)'
      BY <1>2, <3>3, <3>4 DEF ContentInv
    <3>6. ASSUME NEW i \in Slots PROVE Right(i)'
      BY <1>2, <2>0, <2>8, <3>1 DEF Empties, ContentInv, Place
    <3> QED BY <3>5, <3>6 DEF ContentInv
  <2>9. ASSUME NEW t \in Threads, PassesOn(t) PROVE ContentInv'
    <3>1. /\ turn'[SlotOf(t)] = turn[SlotOf(t)] + 1
          /\ \A i \in Slots : i # SlotOf(t) => turn'[i] = turn[i]
          /\ \A i \in Slots : cell[i] # NoValue => Place(i)' = Place(i)
      BY <1>2, <2>9, PassedPlace
    <3>2. UNCHANGED <<pushTicket, cell, log, got>>
      BY <2>9 DEF PassesOn
    <3>3. ASSUME NEW i \in Slots PROVE Right(i)'
      BY <1>2, <3>1, <3>2 DEF ContentInv
    <3>4. ASSUME NEW k \in Abstract!Delivered PROVE Had(k)'
      <4>1. Had(k) /\ k % Capacity \in Slots /\ (k \div Capacity) * 2 + 1 \in Nat
        BY <1>2, <2>2 DEF ContentInv
      <4>2. turn'[k % Capacity] >= turn[k % Capacity]
        <5>1. \A i \in Slots : turn[i] \in Nat
          BY <2>0
        <5>2. CASE k % Capacity = SlotOf(t)
          BY <3>1, <4>1, <5>1, <5>2
        <5>3. CASE k % Capacity # SlotOf(t)
          BY <3>1, <4>1, <5>1, <5>3
        <5> QED BY <5>2, <5>3
      <4>3. turn'[k % Capacity] \in Int /\ turn[k % Capacity] \in Int
        BY <2>0, <3>1, <4>1
      <4> QED BY <4>1, <4>2, <4>3
    <3> QED BY <3>2, <3>3, <3>4 DEF ContentInv, Abstract!Delivered
  <2> QED BY <1>2, <2>4, <2>5, <2>6, <2>7, <2>8, <2>9, StepKinds DEF Inv
<1> QED BY <1>1, <1>2
-----------------------------------------------------------------------------
\* A slot that is empty leaves the abstract queue room for one more value.
LEMMA RoomLeft ==
  ASSUME Inv, NEW s \in Slots, cell[s] = NoValue
  PROVE  Cardinality(StoredTickets) < Capacity
<1> DEFINE Full == {j \in Slots : cell[j] # NoValue}
           f == [i \in Full |-> (turn[i] \div 2) * Capacity + i]
<1>1. Capacity \in Nat \ {0}
  BY MPMCQueueAssumption DEF MPMCQueueAssumption
<1>2. IsFiniteSet(Slots) /\ Cardinality(Slots) = Capacity
  BY <1>1, FS_Interval DEF Slots
<1>3. IsFiniteSet(Slots \ {s}) /\ Cardinality(Slots \ {s}) = Capacity - 1
  BY <1>2, FS_RemoveElement
<1>4. Full \in SUBSET (Slots \ {s})
  OBVIOUS
<1>5. IsFiniteSet(Full) /\ Cardinality(Full) <= Capacity - 1
  BY <1>3, <1>4, FS_Subset
<1>6. f \in Surjection(Full, StoredTickets)
  BY DEF Surjection, StoredTickets
<1>7. IsFiniteSet(StoredTickets) /\ Cardinality(StoredTickets) <= Cardinality(Full)
  BY <1>5, <1>6, FS_Surjection
<1>8. Cardinality(Full) \in Nat /\ Cardinality(StoredTickets) \in Nat
  BY <1>5, <1>7, FS_CardinalityType
<1> QED BY <1>1, <1>5, <1>7, <1>8

\* The stored tickets, by the places of the full slots
LEMMA StoredPlaces ==
  /\ StoredTickets = {Place(i) : i \in {j \in Slots : cell[j] # NoValue}}
  /\ StoredTickets' = {Place(i)' : i \in {j \in Slots : cell'[j] # NoValue}}
BY DEF StoredTickets, Place

\* Two slots never hold the same place.
LEMMA PlacesDiffer ==
  ASSUME Inv, NEW i \in Slots, NEW j \in Slots, Place(i) = Place(j)
  PROVE  i = j
<1>1. Capacity \in Nat \ {0} /\ turn \in [Slots -> Nat]
  BY MPMCQueueAssumption DEF MPMCQueueAssumption, Inv, TypeInv
<1>2. turn[i] \div 2 \in Nat /\ turn[j] \div 2 \in Nat
  BY <1>1
<1> DEFINE p == turn[i] \div 2
           q == turn[j] \div 2
<1>3. p * Capacity + i = q * Capacity + j
  BY DEF Place
<1>4. p \in Nat /\ q \in Nat
  BY <1>2
<1>5. \A k, m \in 0..Capacity - 1 : \A a, b \in Nat :
        a * Capacity + k = b * Capacity + m => k = m /\ a = b
  BY <1>1, OneSlot, Zenon
<1>6. i \in 0..Capacity - 1 /\ j \in 0..Capacity - 1
  BY DEF Slots
<1> HIDE DEF p, q
<1> QED BY <1>3, <1>4, <1>5, <1>6, Zenon
-----------------------------------------------------------------------------
\* A write that touches its slot stores its ticket.
LEMMA FillsStores ==
  ASSUME Inv, ContentInv, BoundInv, NEW t \in Threads, Fills(t)
  PROVE  ticket[t] \in Abstract!Places /\ Abstract!AStore(ticket[t])
<1>1. /\ SlotOf(t) \in Slots /\ turn[SlotOf(t)] = TurnOf(t)
      /\ Place(SlotOf(t)) = ticket[t] /\ ticket[t] \in Nat /\ ticket[t] < pushTicket
      /\ value[t] \in Values
  BY HeldPlace DEF Fills, Holding, Counter
<1>2. cell[SlotOf(t)] = NoValue
  BY AccessReady DEF Fills
<1>3. /\ pushTicket \in Nat /\ Len(log) = pushTicket
      /\ cell \in [Slots -> Values \cup {NoValue}] /\ NoValue \notin Values
      /\ MaxTickets \in Nat
  BY MPMCQueueAssumption DEF Inv, TypeInv, TicketsInv, MPMCQueueAssumption
<1>4. ticket[t] \in Abstract!Places
  BY <1>1, <1>3, TryingFinite DEF BoundInv, Abstract!Places
<1>5. ticket[t] \notin StoredTickets
  BY <1>1, <1>2, StoredPlaces, PlacesDiffer
<1>6. ticket[t] \notin Abstract!Delivered
  <2>1. ticket[t] \div Capacity \in Nat
    BY <1>1, Division, MPMCQueueAssumption DEF MPMCQueueAssumption
  <2>2. TurnOf(t) = (ticket[t] \div Capacity) * 2 + 0
    BY DEF Fills, TurnOf
  <2>3. ~(TurnOf(t) >= (ticket[t] \div Capacity) * 2 + 1)
    BY <2>1, <2>2
  <2> QED BY <1>1, <2>3 DEF ContentInv, SlotOf
<1>7. Cardinality(StoredTickets) < Capacity
  BY <1>1, <1>2, RoomLeft
<1>8. StoredTickets' = StoredTickets \cup {ticket[t]}
  <2>1. \A i \in Slots : Place(i)' = Place(i)
    BY DEF Fills, Place
  <2> DEFINE Full == {j \in Slots : cell[j] # NoValue}
  <2>2. {j \in Slots : cell'[j] # NoValue} = Full \cup {SlotOf(t)}
    BY <1>1, <1>3 DEF Fills
  <2>3. StoredTickets' = {Place(i) : i \in {j \in Slots : cell'[j] # NoValue}}
    BY <2>1, StoredPlaces
  <2>4. StoredTickets' = {Place(i) : i \in Full \cup {SlotOf(t)}}
    BY <2>2, <2>3
  <2>5. StoredTickets = {Place(i) : i \in Full} /\ Place(SlotOf(t)) = ticket[t]
    BY <1>1, StoredPlaces
  <2> HIDE DEF Full
  <2> QED BY <2>4, <2>5, Zenon
<1>9. Abstract!Cardinality(StoredTickets) = Cardinality(StoredTickets)
  BY DEF Abstract!Cardinality, Cardinality
<1> QED BY <1>1, <1>3, <1>4, <1>5, <1>6, <1>7, <1>8, <1>9 DEF Fills, Abstract!AStore

\* A read that touches its slot delivers its ticket.
LEMMA EmptiesDelivers ==
  ASSUME Inv, ContentInv, BoundInv, NEW t \in Threads, Empties(t)
  PROVE  ticket[t] \in Abstract!Places /\ Abstract!ADeliver(ticket[t])
<1>1. /\ SlotOf(t) \in Slots /\ Place(SlotOf(t)) = ticket[t]
      /\ ticket[t] \in Nat /\ ticket[t] < popTicket
  BY HeldPlace DEF Empties, Holding, Counter
<1>2. cell[SlotOf(t)] # NoValue
  BY AccessReady DEF Empties
<1>3. /\ popTicket \in Nat /\ cell \in [Slots -> Values \cup {NoValue}]
      /\ MaxTickets \in Nat
  BY MPMCQueueAssumption DEF Inv, TypeInv, MPMCQueueAssumption
<1>4. ticket[t] \in Abstract!Places
  BY <1>1, <1>3, TryingFinite DEF BoundInv, Abstract!Places
<1>5. ticket[t] \in StoredTickets
  BY <1>1, <1>2, StoredPlaces
<1>6. cell[SlotOf(t)] = log[ticket[t] + 1]
  BY <1>1, <1>2 DEF ContentInv
<1>7. StoredTickets' = StoredTickets \ {ticket[t]}
  <2>1. \A i \in Slots : Place(i)' = Place(i)
    BY DEF Empties, Place
  <2>2. {j \in Slots : cell'[j] # NoValue} = {j \in Slots : cell[j] # NoValue} \ {SlotOf(t)}
    BY <1>1, <1>3 DEF Empties
  <2>3. \A i \in Slots : Place(i) = ticket[t] => i = SlotOf(t)
    BY <1>1, PlacesDiffer
  <2> QED BY <1>1, <2>1, <2>2, <2>3, StoredPlaces
<1> QED BY <1>1, <1>4, <1>5, <1>6, <1>7 DEF Empties, Abstract!ADeliver

\* Every step of the queue is a step of the abstract queue or none of its business.
LEMMA StepRefines ==
  ASSUME Inv, ContentInv, BoundInv, [Next]_vars
  PROVE  [Abstract!ANext]_(Abstract!avars)
<1> USE DEF Abstract!avars
<1>1. ASSUME turn' = turn, cell' = cell PROVE StoredTickets' = StoredTickets
  BY <1>1 DEF StoredTickets
<1>2. ASSUME NEW v \in Values, Accepts(v) PROVE Abstract!ANext
  BY <1>1, <1>2 DEF Accepts, Abstract!ANext, Abstract!AWrite
<1>3. ASSUME Promises PROVE Abstract!ANext
  BY <1>1, <1>3 DEF Promises, Abstract!ANext, Abstract!ARead
<1>4. ASSUME NEW t \in Threads, Fills(t) PROVE Abstract!ANext
  BY <1>4, FillsStores DEF Abstract!ANext
<1>5. ASSUME NEW t \in Threads, Empties(t) PROVE Abstract!ANext
  BY <1>5, EmptiesDelivers DEF Abstract!ANext
<1>6. ASSUME NEW t \in Threads, PassesOn(t) PROVE UNCHANGED Abstract!avars
  <2>1. \A i \in Slots : cell[i] # NoValue => Place(i)' = Place(i)
    BY <1>6, PassedPlace
  <2>2. UNCHANGED <<log, popTicket, got, cell>>
    BY <1>6 DEF PassesOn
  <2>3. StoredTickets' = StoredTickets
    BY <2>1, <2>2, StoredPlaces
  <2> QED BY <2>2, <2>3
<1>7. ASSUME Unseen PROVE UNCHANGED Abstract!avars
  BY <1>1, <1>7 DEF Unseen
<1> QED BY <1>2, <1>3, <1>4, <1>5, <1>6, <1>7, StepKinds DEF Inv

\* Whatever the interleaving, pop ticket k receives the value written for push ticket k,
\* once, and never more values than the capacity are in the queue.
THEOREM QueueImplementsAbstract == SafeSpec => Abstract!ASafeSpec
<1>1. Init => Abstract!AInit
  BY DEF Init, Abstract!AInit, StoredTickets
<1>2. Init => Inv /\ ContentInv /\ BoundInv
  BY TypeInductive, TicketsInductive, TurnsInductive, CellsInductive, ContentInductive,
     BoundInductive DEF Inv
<1>3. Inv /\ ContentInv /\ BoundInv /\ [Next]_vars => (Inv /\ ContentInv /\ BoundInv)'
  BY TypeInductive, TicketsInductive, TurnsInductive, CellsInductive, ContentInductive,
     BoundInductive DEF Inv
<1>4. Inv /\ ContentInv /\ BoundInv /\ [Next]_vars => [Abstract!ANext]_(Abstract!avars)
  BY StepRefines
<1> QED BY <1>1, <1>2, <1>3, <1>4, PTL DEF SafeSpec, Abstract!ASafeSpec
=============================================================================
