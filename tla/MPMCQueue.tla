----------------------------- MODULE MPMCQueue -----------------------------
(***************************************************************************)
(* MPMCQueue of a fixed capacity with its Slot and TurnController, one     *)
(* action per access to an atomic variable.                                *)
(*                                                                         *)
(* A ticket of pushTicket_ or popTicket_ names a slot and a turn of that   *)
(* slot; even turns are for writers, odd ones for readers.  A thread that  *)
(* finds another turn sleeps on turn_ until its own comes, touches the     *)
(* storage, and passes the turn on.                                        *)
(*                                                                         *)
(* Move construction and destruction are left out: nobody may use the      *)
(* queue meanwhile.                                                        *)
(***************************************************************************)
EXTENDS Integers, Sequences, FiniteSets

CONSTANTS Threads,
          Values,        \* what may be written, each value once
          NoValue,       \* no value: storage without an object in it
          Capacity,      \* capacity_
          MaxTickets,    \* bound on each of pushTicket_ and popTicket_
          WordSize       \* number of values of a size_t

ASSUME MPMCQueueAssumption ==
  /\ IsFiniteSet(Threads)
  /\ NoValue \notin Values
  /\ Capacity \in Nat \ {0}
  /\ MaxTickets \in Nat
  /\ WordSize \in Nat /\ WordSize > 2 * MaxTickets + Capacity

VARIABLES
  pushTicket,  \* pushTicket_
  popTicket,   \* popTicket_
  turn,        \* turn_ of each slot
  waitCount,   \* waitCount_ of each slot
  cell,        \* storage_ of each slot
  pc,          \* where each thread is
  op,          \* what a thread's call does
  ticket,      \* ticket
  other,       \* curPop in writeIfNotFull(), curPush in readIfNotEmpty()
  value,       \* the argument of a write
  cur,         \* cur in waitForTurn()
  log,         \* auxiliary: the value of each push ticket, in order
  got,         \* auxiliary: pairs of a pop ticket and the value read for it
  sawFull,     \* auxiliary: whether the queue was full during a write that may fail
  overtaken    \* auxiliary: a load has overtaken the store of turn_ before it

slotVars == <<turn, waitCount, cell>>
locals == <<op, ticket, other, value, cur>>
ghosts == <<log, got, sawFull, overtaken>>
vars == <<pushTicket, popTicket, slotVars, pc, locals, ghosts>>

Slots == 0..Capacity - 1
Undecided == {"loadTicket", "test", "again"}
Labels == {"idle", "loadTurn", "guard", "sleep", "asleep", "reload", "unguard", "access",
           "store", "loadWait", "notify", "storeNotify", "storeReturn"} \cup Undecided

Init == /\ pushTicket = 0 /\ popTicket = 0
        /\ turn = [i \in Slots |-> 0]
        /\ waitCount = [i \in Slots |-> 0]
        /\ cell = [i \in Slots |-> NoValue]
        /\ pc = [t \in Threads |-> "idle"]
        /\ op = [t \in Threads |-> "read"]
        /\ ticket = [t \in Threads |-> 0]
        /\ other = [t \in Threads |-> 0]
        /\ value = [t \in Threads |-> NoValue]
        /\ cur = [t \in Threads |-> 0]
        /\ log = <<>> /\ got = {}
        /\ sawFull = [t \in Threads |-> FALSE]
        /\ overtaken = FALSE

Goto(t, from, to) == pc[t] = from /\ pc' = [pc EXCEPT ![t] = to]

SlotOf(t) == ticket[t] % Capacity                                    \* index()
\* TurnOf() with one turn for a write and its read, a mistake to be noticed
TurnOfUndoubled(t) == (ticket[t] \div Capacity) + (IF op[t] = "read" THEN 1 ELSE 0)

TurnOf(t) == (ticket[t] \div Capacity) * 2                           \* writeTurn()
               + (IF op[t] = "read" THEN 1 ELSE 0)                   \* readTurn()

\* The counter a call takes its ticket from
Counter(t) == IF op[t] = "write" THEN pushTicket ELSE popTicket

\* The size test of writeIfNotFull() compares a signed difference with the unsigned
\* capacity_, which makes a negative difference a large number.
MayClaim(t) == IF op[t] = "write" THEN (ticket[t] - other[t]) % WordSize < Capacity
                                  ELSE ticket[t] < other[t]

\* The tickets that calls of this kind may still take stay within the bound.
Affordable(kind) ==
  (IF kind = "write" THEN pushTicket ELSE popTicket)
    + Cardinality({t \in Threads : op[t] = kind /\ pc[t] \in Undecided}) < MaxTickets
-----------------------------------------------------------------------------
(* The ticket: blockingWrite() and blockingRead() take one whatever        *)
(* happens, writeIfNotFull() and readIfNotEmpty() only if the test and     *)
(* then the compare-exchange succeed.                                      *)

Begin(t, kind, v, label) == /\ Goto(t, "idle", label)
                            /\ Affordable(kind)
                            /\ op' = [op EXCEPT ![t] = kind]
                            /\ value' = [value EXCEPT ![t] = v]

\* One more ticket of a kind: who is about to write sees whether the queue is full now.
TakeTicket(kind, v) ==
  /\ pushTicket' = IF kind = "write" THEN pushTicket + 1 ELSE pushTicket
  /\ popTicket' = IF kind = "read" THEN popTicket + 1 ELSE popTicket
  /\ log' = IF kind = "write" THEN Append(log, v) ELSE log
  /\ sawFull' = [u \in Threads |->
                   \/ sawFull[u]
                   \/ /\ op[u] = "write" /\ pc[u] \in Undecided
                      /\ pushTicket' - popTicket' >= Capacity]

Blocking(t, kind, v) == /\ Begin(t, kind, v, "loadTurn")
                        /\ ticket' = [ticket EXCEPT ![t] = IF kind = "write" THEN pushTicket
                                                                             ELSE popTicket]
                        /\ TakeTicket(kind, v)
                        /\ UNCHANGED <<slotVars, other, cur, got, overtaken>>

\* Every value is written once, which tells the reads apart.
Fresh == {v \in Values : /\ \A i \in DOMAIN log : log[i] # v
                         /\ \A t \in Threads : value[t] # v}

BlockingWrite(t) == \E v \in Fresh : Blocking(t, "write", v)
BlockingRead(t) == Blocking(t, "read", NoValue)

\* The first load of a non-blocking call: the other side's counter
Try(t, kind, v) == /\ Begin(t, kind, v, "loadTicket")
                   /\ other' = [other EXCEPT ![t] = IF kind = "write" THEN popTicket
                                                                      ELSE pushTicket]
                   /\ sawFull' = [sawFull EXCEPT
                                  ![t] = kind = "write" /\ pushTicket - popTicket >= Capacity]
                   /\ UNCHANGED <<pushTicket, popTicket, slotVars, ticket, cur, log, got,
                                   overtaken>>

WriteIfNotFull(t) == \E v \in Fresh : Try(t, "write", v)
ReadIfNotEmpty(t) == Try(t, "read", NoValue)

LoadTicket(t) == /\ Goto(t, "loadTicket", "test")
                 /\ ticket' = [ticket EXCEPT ![t] = Counter(t)]
                 /\ UNCHANGED <<pushTicket, popTicket, slotVars, op, other, value, cur,
                                ghosts>>

\* A call returns: its local variables are no more.
Forget(t) == /\ ticket' = [ticket EXCEPT ![t] = 0]
             /\ other' = [other EXCEPT ![t] = 0]
             /\ value' = [value EXCEPT ![t] = NoValue]
             /\ cur' = [cur EXCEPT ![t] = 0]
             /\ sawFull' = [sawFull EXCEPT ![t] = FALSE]
             /\ UNCHANGED op

GiveUp(t) == /\ Goto(t, "test", "idle")
             /\ ~MayClaim(t)
             /\ Forget(t)
             /\ UNCHANGED <<pushTicket, popTicket, slotVars, log, got, overtaken>>

\* Claim() with an addition in place of the compare-exchange, a mistake to be noticed
ClaimStale(t) == /\ Goto(t, "test", "loadTurn")
                 /\ MayClaim(t)
                 /\ TakeTicket(op[t], value[t])
                 /\ UNCHANGED <<slotVars, locals, got, overtaken>>

Claim(t) == /\ Goto(t, "test", "loadTurn")
            /\ MayClaim(t) /\ ticket[t] = Counter(t)
            /\ TakeTicket(op[t], value[t])
            /\ UNCHANGED <<slotVars, locals, got, overtaken>>

ClaimFails(t) == /\ Goto(t, "test", "again")
                 /\ MayClaim(t) /\ ticket[t] # Counter(t)
                 /\ ticket' = [ticket EXCEPT ![t] = Counter(t)]
                 /\ UNCHANGED <<pushTicket, popTicket, slotVars, op, other, value, cur,
                                ghosts>>

TryAgain(t) == /\ Goto(t, "again", "test")
               /\ other' = [other EXCEPT ![t] = IF op[t] = "write" THEN popTicket
                                                                   ELSE pushTicket]
               /\ UNCHANGED <<pushTicket, popTicket, slotVars, op, ticket, value, cur,
                              ghosts>>
-----------------------------------------------------------------------------
(* TurnController and Slot                                                 *)

\* A step that only moves a thread and sets what it remembers of turn_
TurnStep(t, from, to, seen) ==
  /\ Goto(t, from, to)
  /\ cur' = [cur EXCEPT ![t] = seen]
  /\ UNCHANGED <<pushTicket, popTicket, turn, cell, op, ticket, other, value, ghosts>>

MyTurn(t) == turn[SlotOf(t)] = TurnOf(t)

LoadTurn(t) == /\ TurnStep(t, "loadTurn", IF MyTurn(t) THEN "access" ELSE "guard",
                           turn[SlotOf(t)])
               /\ UNCHANGED waitCount

\* Guard() that does not count the waiter, a mistake to be noticed
GuardUncounted(t) == TurnStep(t, "guard", "sleep", cur[t]) /\ UNCHANGED waitCount

Guard(t) == /\ TurnStep(t, "guard", "sleep", cur[t])
            /\ waitCount' = [waitCount EXCEPT ![SlotOf(t)] = @ + 1]

\* turn_.wait(cur) compares the value before it puts the thread to sleep.
Sleep(t) == /\ TurnStep(t, "sleep", IF turn[SlotOf(t)] = cur[t] THEN "asleep" ELSE "reload",
                        cur[t])
            /\ UNCHANGED waitCount

Reload(t) == /\ TurnStep(t, "reload", IF MyTurn(t) THEN "unguard" ELSE "sleep",
                         turn[SlotOf(t)])
             /\ UNCHANGED waitCount

Unguard(t) == /\ TurnStep(t, "unguard", "access", cur[t])
              /\ waitCount' = [waitCount EXCEPT ![SlotOf(t)] = @ - 1]

Access(t) ==
  /\ Goto(t, "access", "store")
  /\ \/ /\ op[t] = "write"
        /\ cell' = [cell EXCEPT ![SlotOf(t)] = value[t]]
        /\ UNCHANGED got
     \/ /\ op[t] = "read"
        /\ got' = got \cup {<<ticket[t], cell[SlotOf(t)]>>}
        /\ cell' = [cell EXCEPT ![SlotOf(t)] = NoValue]
  /\ UNCHANGED <<pushTicket, popTicket, turn, waitCount, locals, log, sawFull, overtaken>>

StoreTurn(t) == /\ Goto(t, "store", "loadWait")
                /\ turn' = [turn EXCEPT ![SlotOf(t)] = TurnOf(t) + 1]
                /\ UNCHANGED <<pushTicket, popTicket, waitCount, cell, locals, ghosts>>

Finish(t, from) == /\ Goto(t, from, "idle")
                   /\ Forget(t)
                   /\ UNCHANGED <<pushTicket, popTicket, waitCount, cell, log, got, overtaken>>

LoadWait(t) == /\ Goto(t, "loadWait", "notify")
               /\ waitCount[SlotOf(t)] > 0
               /\ UNCHANGED <<pushTicket, popTicket, slotVars, locals, ghosts>>

NoWaiter(t) == waitCount[SlotOf(t)] = 0 /\ Finish(t, "loadWait") /\ UNCHANGED turn

\* The release store of turn_ waits in the store buffer while waitCount_ is loaded.
LoadsWaitEarly(t) ==
  /\ Goto(t, "store", IF waitCount[SlotOf(t)] > 0 THEN "storeNotify" ELSE "storeReturn")
  /\ overtaken' = TRUE
  /\ UNCHANGED <<pushTicket, popTicket, slotVars, locals, log, got, sawFull>>

StoresLate(t) == /\ turn' = [turn EXCEPT ![SlotOf(t)] = TurnOf(t) + 1]
                 /\ \/ /\ Goto(t, "storeNotify", "notify")
                       /\ UNCHANGED <<pushTicket, popTicket, waitCount, cell, locals,
                                      ghosts>>
                    \/ Finish(t, "storeReturn")

NotifyAll(t) ==
  /\ pc[t] = "notify"
  /\ pc' = [u \in Threads |-> IF u = t THEN "idle"
                              ELSE IF pc[u] = "asleep" /\ SlotOf(u) = SlotOf(t) THEN "sleep"
                              ELSE pc[u]]
  /\ Forget(t)
  /\ UNCHANGED <<pushTicket, popTicket, slotVars, log, got, overtaken>>
-----------------------------------------------------------------------------
Call(t) == BlockingWrite(t) \/ BlockingRead(t) \/ WriteIfNotFull(t) \/ ReadIfNotEmpty(t)

Progress(t) ==
  \/ LoadTicket(t) \/ GiveUp(t) \/ Claim(t) \/ ClaimFails(t) \/ TryAgain(t)
  \/ LoadTurn(t) \/ Guard(t) \/ Sleep(t) \/ Reload(t) \/ Unguard(t)
  \/ Access(t) \/ StoreTurn(t) \/ LoadWait(t) \/ NoWaiter(t) \/ NotifyAll(t)
  \/ LoadsWaitEarly(t) \/ StoresLate(t)

Next == \E t \in Threads : Call(t) \/ Progress(t)

SafeSpec == Init /\ [][Next]_vars

\* A thread inside a call that can take a step takes one.
Spec == SafeSpec /\ \A t \in Threads : WF_vars(Progress(t))
-----------------------------------------------------------------------------
(* Properties                                                              *)

TypeOK == /\ pushTicket \in Nat /\ popTicket \in Nat
          /\ turn \in [Slots -> Nat]
          /\ waitCount \in [Slots -> Nat]
          /\ cell \in [Slots -> Values \cup {NoValue}]
          /\ pc \in [Threads -> Labels]
          /\ op \in [Threads -> {"write", "read"}]
          /\ ticket \in [Threads -> Nat]
          /\ other \in [Threads -> Nat]
          /\ value \in [Threads -> Values \cup {NoValue}]
          /\ cur \in [Threads -> Nat]
          /\ log \in Seq(Values)
          /\ got \subseteq Nat \X (Values \cup {NoValue})
          /\ sawFull \in [Threads -> BOOLEAN]
          /\ overtaken \in BOOLEAN

\* storage_ is plain memory: two threads never touch the same slot at a time, a
\* writer finds no object in it and a reader finds one.
StorageExclusive ==
  \A t \in Threads : pc[t] = "access" =>
    /\ (cell[SlotOf(t)] = NoValue) = (op[t] = "write")
    /\ \A u \in Threads \ {t} : pc[u] \in {"access", "store"} => SlotOf(u) # SlotOf(t)

\* "When the queue is not full, try to write it" (MPMCQueue.h:170): writeIfNotFull()
\* gives up only if the queue was full at some moment of the call.
GivesUpWhenFull ==
  [][\A t \in Threads : GiveUp(t) /\ op[t] = "write" => sawFull[t]]_vars

\* The ticket whose object each full slot holds
StoredTickets == {(turn[i] \div 2) * Capacity + i : i \in {j \in Slots : cell[j] # NoValue}}

Abstract == INSTANCE AbstractTicketQueue
  WITH Room <- Capacity, claimed <- popTicket, stored <- StoredTickets

\* Pop ticket k receives exactly the value written for push ticket k, the queue holds
\* at most its capacity.  If no load overtakes a store, no write or read that can be
\* served waits for ever.
ImplementsAbstract == Abstract!ASafeSpec /\ ([]~overtaken => Abstract!AFairness)
=============================================================================
