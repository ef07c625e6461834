-------------------------- MODULE DynamicMPMCQueue --------------------------
(***************************************************************************)
(* MPMCQueue<T, true>, whose array of slots grows.  A ticket is bound to   *)
(* a slot of the array that was current when it was issued: dstate_ is a   *)
(* seqlock that holds the first ticket of the current array and how many   *)
(* arrays were closed before it.                                           *)
(*                                                                         *)
(* One action per access to an atomic variable, except that a Slot waits   *)
(* for its turn, is accessed and passes the turn on in one step: module    *)
(* MPMCQueue has the steps of Slot.  Loads and stores are sequentially     *)
(* consistent here.  A value is named by the ticket that its write gets,   *)
(* and a local variable that is not read again is set back.                *)
(***************************************************************************)
EXTENDS Integers, FiniteSetsExt

CONSTANTS Threads,
          NoValue,        \* storage without an object in it
          MinCapacity,    \* the capacity the queue starts with
          MaxCapacity,    \* maxCapacity_
          Multiplier,     \* dmult_
          ExtraCapacity,  \* kExtraCapacity
          SeqlockSize,    \* 2 to the power of kSeqlockBits
          MaxTickets      \* bound on each of pushTicket_ and popTicket_

Tickets == 0..MaxTickets - 1

\* The capacities below the limit that the queue may get to, each by multiplying the one
\* before, and maxClosed in the constructor, which counts them
Below == 0..MaxCapacity - 1
Growing == {c \in Below : \A S \in SUBSET Below :
              /\ MinCapacity < MaxCapacity => MinCapacity \in S
              /\ \A k \in S : Multiplier * k < MaxCapacity => Multiplier * k \in S
              => c \in S}
MaxClosed == Cardinality(Growing)

ASSUME DynamicMPMCQueueAssumption ==
  /\ NoValue \notin Tickets
  /\ MinCapacity \in Nat \ {0} /\ MaxCapacity \in Nat /\ MinCapacity <= MaxCapacity
  /\ Multiplier \in Nat /\ Multiplier > 1
  /\ ExtraCapacity \in Nat /\ MaxTickets \in Nat /\ IsFiniteSet(Threads)
  /\ SeqlockSize \in Nat /\ SeqlockSize % 2 = 0 /\ SeqlockSize >= 2 * (MaxClosed + 1)

VARIABLES
  pushTicket,  \* pushTicket_
  popTicket,   \* popTicket_
  dstate,      \* dstate_
  dslots,      \* dslots_, the number of an array
  dcapacity,   \* dcapacity_
  closed,      \* closed_
  turn,        \* turn_ of each slot of each array
  cell,        \* storage_ of each slot of each array
  pc,          \* where each thread is
  my,          \* the local variables of each thread's call
  got          \* auxiliary: pairs of a pop ticket and the value read for it

tickets == <<pushTicket, popTicket>>
expansion == <<dstate, dslots, dcapacity, closed>>
memory == <<turn, cell, got>>
vars == <<tickets, expansion, memory, pc, my>>

ActualCapacity(c) == c + ExtraCapacity
Arrays == 0..MaxClosed
Indices == 0..ActualCapacity(MaxCapacity) - 1

GetOffset(s) == s \div SeqlockSize
GetNumClosed(s) == (s % SeqlockSize) \div 2
Odd(s) == s % 2 = 1

Writes == {"blockingWrite", "writeIfNotFull"}
Reads == {"blockingRead", "readIfNotEmpty"}

\* "base" is ticket in tryExpand(), "refused" where a thread goes if tryExpand() returns
\* false.
NoLocals == [op |-> "none", ticket |-> 0, state |-> 0, slots |-> 0, cap |-> 0, offset |-> 0,
             base |-> 0, refused |-> "idle"]

Init == /\ pushTicket = 0 /\ popTicket = 0
        /\ dstate = 0 /\ dslots = 0 /\ dcapacity = MinCapacity
        /\ closed = [i \in 0..MaxClosed - 1 |-> [offset |-> 0, capacity |-> 0, slots |-> 0]]
        /\ turn = [a \in Arrays |-> [i \in Indices |-> 0]]
        /\ cell = [a \in Arrays |-> [i \in Indices |-> NoValue]]
        /\ pc = [t \in Threads |-> "idle"]
        /\ my = [t \in Threads |-> NoLocals]
        /\ got = {}

Goto(t, from, to) == pc[t] = from /\ pc' = [pc EXCEPT ![t] = to]

\* A step that leaves the queue alone and sets the local variables of t
Local(t, from, to, locals) == /\ Goto(t, from, to)
                              /\ my' = [my EXCEPT ![t] = locals]
                              /\ UNCHANGED <<tickets, expansion, memory>>

Counter(t) == IF my[t].op \in Writes THEN pushTicket ELSE popTicket

\* The tickets that non-blocking calls may still take stay within the bound.
Affordable(kind, counter) ==
  counter + Cardinality({t \in Threads : my[t].op = kind}) < MaxTickets
-----------------------------------------------------------------------------
(* Mistakes a change of the code could make.  They are no part of the      *)
(* specification: each takes the place of the definition it resembles to   *)
(* see that a property notices.                                            *)

\* LoadsSecond() that takes the next ticket for the first of the new array
LoadsSecondLow(t) ==
  \/ Local(t, "loadPop", "allocate", [my[t] EXCEPT !.base = Max({@, popTicket})])
  \/ Local(t, "loadPush", "allocate", [my[t] EXCEPT !.base = Max({@, pushTicket})])

\* StoreCapacity() without the limit
StoreCapacityUnlimited(t) == /\ Goto(t, "storeCapacity", "publish")
                             /\ dcapacity' = Multiplier * my[t].cap
                             /\ UNCHANGED <<tickets, dstate, dslots, closed, memory, my>>

\* Binding() that takes the oldest closed array
BindingOldest(t) ==
  IF my[t].ticket < GetOffset(my[t].state) THEN closed[0]
  ELSE [offset |-> GetOffset(my[t].state), capacity |-> my[t].cap, slots |-> my[t].slots]
-----------------------------------------------------------------------------
(* The calls                                                               *)

Starts(kind) == [NoLocals EXCEPT !.op = kind,
                                 !.ticket = IF kind \in Writes THEN pushTicket ELSE popTicket]

BlockingWrite(t) == /\ Affordable("writeIfNotFull", pushTicket)
                    /\ Goto(t, "idle", "loadState")
                    /\ my' = [my EXCEPT ![t] = Starts("blockingWrite")]
                    /\ pushTicket' = pushTicket + 1
                    /\ UNCHANGED <<popTicket, expansion, memory>>

WriteIfNotFull(t) == /\ Affordable("writeIfNotFull", pushTicket)
                     /\ Local(t, "idle", "loadState", Starts("writeIfNotFull"))

\* writeIfNotFull() starts again.
Continue(t) == Local(t, "continue", "loadState", Starts("writeIfNotFull"))

BlockingRead(t) == /\ Affordable("readIfNotEmpty", popTicket)
                   /\ Goto(t, "idle", "loadState")
                   /\ my' = [my EXCEPT ![t] = Starts("blockingRead")]
                   /\ popTicket' = popTicket + 1
                   /\ UNCHANGED <<pushTicket, expansion, memory>>

ReadIfNotEmpty(t) == /\ Affordable("readIfNotEmpty", popTicket)
                     /\ Local(t, "idle", "testPush", Starts("readIfNotEmpty"))

TestPush(t) ==
  Local(t, "testPush", IF my[t].ticket >= pushTicket THEN "giveUp" ELSE "claim", my[t])

\* The compare-exchange of a non-blocking call, which goes on as a blocking one
Claim(t) ==
  /\ my[t].ticket = Counter(t)
  /\ \/ /\ my[t].op = "writeIfNotFull" /\ Goto(t, "claim", "access")
        /\ my' = [my EXCEPT ![t].op = "blockingWrite"]
        /\ pushTicket' = pushTicket + 1
        /\ UNCHANGED popTicket
     \/ /\ my[t].op = "readIfNotEmpty" /\ Goto(t, "claim", "loadState")
        /\ my' = [my EXCEPT ![t].op = "blockingRead"]
        /\ popTicket' = popTicket + 1
        /\ UNCHANGED pushTicket
  /\ UNCHANGED <<expansion, memory>>

ClaimFails(t) ==
  /\ my[t].ticket # Counter(t)
  /\ \/ my[t].op = "writeIfNotFull" /\ Local(t, "claim", "continue", my[t])
     \/ /\ my[t].op = "readIfNotEmpty"
        /\ Local(t, "claim", "testPush", [my[t] EXCEPT !.ticket = popTicket])

GiveUp(t) == Local(t, "giveUp", "idle", NoLocals)
-----------------------------------------------------------------------------
(* seqlockReadSection()                                                    *)

LoadState(t) == Local(t, "loadState", IF Odd(dstate) THEN "sleep" ELSE "loadSlots",
                      [my[t] EXCEPT !.state = dstate])

\* dstate_.wait(state) compares the value before it puts the thread to sleep.
Sleep(t) == \/ /\ dstate = my[t].state
               /\ Local(t, "sleep", "asleep", my[t])
            \/ /\ dstate # my[t].state
               /\ Local(t, "sleep", "loadState", [my[t] EXCEPT !.state = 0])

LoadSlots(t) == Local(t, "loadSlots", "loadCapacity", [my[t] EXCEPT !.slots = dslots])

LoadCapacity(t) == Local(t, "loadCapacity", "validate", [my[t] EXCEPT !.cap = dcapacity])

Validate(t) == \/ /\ dstate = my[t].state
                  /\ Local(t, "validate", "bind", my[t])
               \/ /\ dstate # my[t].state
                  /\ Local(t, "validate", IF Odd(dstate) THEN "sleep" ELSE "loadSlots",
                           [my[t] EXCEPT !.state = dstate, !.slots = 0, !.cap = 0])
-----------------------------------------------------------------------------
(* maybeUpdateFromClosed() and the size tests                              *)

\* A ticket issued before the last expansion belongs to a closed array.
InClosed(t) == my[t].ticket < GetOffset(my[t].state)

Binding(t) ==
  IF InClosed(t)
  THEN closed[Max({i \in 0..GetNumClosed(my[t].state) - 1 :
                     closed[i].offset <= my[t].ticket})]
  ELSE [offset |-> GetOffset(my[t].state), capacity |-> my[t].cap, slots |-> my[t].slots]

\* The values there seem to be in the array of t's ticket: curSize
Size(t) == LET tail == Max({popTicket, Binding(t).offset})
           IN  IF my[t].ticket > tail THEN my[t].ticket - tail ELSE 0

Full(t) == Size(t) >= Binding(t).capacity
MayExpand(t) == ~InClosed(t) /\ my[t].cap # MaxCapacity

\* Where a writer goes that does not expand a full array
WithoutRoom(t) ==
  IF my[t].op = "blockingWrite" THEN "access"
  ELSE IF Size(t) >= ActualCapacity(Binding(t).capacity) THEN "giveUp" ELSE "claim"

Bind(t, to, state, refused) ==
  Local(t, "bind", to, [my[t] EXCEPT !.slots = Binding(t).slots, !.cap = Binding(t).capacity,
                                     !.offset = Binding(t).offset,
                                     !.state = state, !.refused = refused])

FindsRoom(t) == /\ my[t].op \in Reads \/ ~Full(t)
                /\ Bind(t, IF my[t].op = "writeIfNotFull" THEN "claim" ELSE "access",
                         0, "idle")

FindsFull(t) == /\ my[t].op \in Writes /\ Full(t) /\ ~MayExpand(t)
                /\ Bind(t, WithoutRoom(t), 0, "idle")

FindsExpandable(t) == /\ my[t].op \in Writes /\ Full(t) /\ MayExpand(t)
                      /\ Bind(t, "expand", my[t].state, WithoutRoom(t))
-----------------------------------------------------------------------------
(* tryExpand()                                                             *)

\* Where a thread goes if tryExpand() returns true
Expanded(t) == IF my[t].op = "blockingWrite" THEN "access" ELSE "continue"

Returned(t) == [my[t] EXCEPT !.state = 0, !.base = 0, !.refused = "idle"]

Lock(t) == /\ Goto(t, "expand", "loadTickets")
           /\ dstate = my[t].state /\ dstate' = dstate + 1
           /\ UNCHANGED <<tickets, dslots, dcapacity, closed, memory, my>>

LockFails(t) == /\ dstate # my[t].state
                /\ Local(t, "expand", Expanded(t), Returned(t))

\* The arguments of std::max() are loaded in either order.
LoadsFirst(t) ==
  \/ Local(t, "loadTickets", "loadPop", [my[t] EXCEPT !.base = pushTicket])
  \/ Local(t, "loadTickets", "loadPush", [my[t] EXCEPT !.base = popTicket])

LoadsSecond(t) ==
  \/ Local(t, "loadPop", "allocate", [my[t] EXCEPT !.base = Max({@, popTicket}) + 1])
  \/ Local(t, "loadPush", "allocate", [my[t] EXCEPT !.base = Max({@, pushTicket}) + 1])

AllocationFails(t) == Local(t, "allocate", "restore", my[t])

Restore(t) == /\ Goto(t, "restore", "notifyFailed")
              /\ dstate' = my[t].state
              /\ UNCHANGED <<tickets, dslots, dcapacity, closed, memory, my>>

\* The closed array is recorded where nobody looks before dstate_ says so.
StoreSlots(t) ==
  LET index == GetNumClosed(my[t].state)
  IN  /\ Goto(t, "allocate", "storeCapacity")
      /\ closed' = [closed EXCEPT ![index] = [offset |-> GetOffset(my[t].state),
                                              capacity |-> my[t].cap, slots |-> dslots]]
      /\ dslots' = index + 1
      /\ UNCHANGED <<tickets, dstate, dcapacity, memory, my>>

StoreCapacity(t) == /\ Goto(t, "storeCapacity", "publish")
                    /\ dcapacity' = Min({Multiplier * my[t].cap, MaxCapacity})
                    /\ UNCHANGED <<tickets, dstate, dslots, closed, memory, my>>

Publish(t) == /\ Goto(t, "publish", "notifyExpanded")
              /\ dstate' = my[t].base * SeqlockSize + 2 * (GetNumClosed(my[t].state) + 1)
              /\ UNCHANGED <<tickets, dslots, dcapacity, closed, memory, my>>

NotifyAll(t) ==
  /\ pc[t] \in {"notifyFailed", "notifyExpanded"}
  /\ pc' = [u \in Threads |->
              IF u = t THEN IF pc[t] = "notifyExpanded" THEN Expanded(t) ELSE my[t].refused
              ELSE IF pc[u] = "asleep" THEN "sleep" ELSE pc[u]]
  /\ my' = [my EXCEPT ![t] = Returned(t)]
  /\ UNCHANGED <<tickets, expansion, memory>>
-----------------------------------------------------------------------------
(* The slot                                                                *)

Index(t) == (my[t].ticket - my[t].offset) % ActualCapacity(my[t].cap)
Turn(t) == 2 * ((my[t].ticket - my[t].offset) \div ActualCapacity(my[t].cap))
             + (IF my[t].op \in Writes THEN 0 ELSE 1)

Access(t) == LET a == my[t].slots
                 i == Index(t)
             IN  /\ Goto(t, "access", "idle")
                 /\ turn[a][i] = Turn(t) /\ turn' = [turn EXCEPT ![a][i] = @ + 1]
                 /\ \/ /\ my[t].op \in Writes
                       /\ cell' = [cell EXCEPT ![a][i] = my[t].ticket]
                       /\ UNCHANGED got
                    \/ /\ my[t].op \in Reads
                       /\ got' = got \cup {<<my[t].ticket, cell[a][i]>>}
                       /\ cell' = [cell EXCEPT ![a][i] = NoValue]
                 /\ my' = [my EXCEPT ![t] = NoLocals]
                 /\ UNCHANGED <<tickets, expansion>>
-----------------------------------------------------------------------------
Call(t) == BlockingWrite(t) \/ WriteIfNotFull(t) \/ BlockingRead(t) \/ ReadIfNotEmpty(t)

Progress(t) ==
  \/ Continue(t) \/ TestPush(t) \/ Claim(t) \/ ClaimFails(t) \/ GiveUp(t)
  \/ LoadState(t) \/ Sleep(t) \/ LoadSlots(t) \/ LoadCapacity(t) \/ Validate(t)
  \/ FindsRoom(t) \/ FindsFull(t) \/ FindsExpandable(t)
  \/ Lock(t) \/ LockFails(t) \/ LoadsFirst(t) \/ LoadsSecond(t)
  \/ AllocationFails(t) \/ Restore(t) \/ StoreSlots(t) \/ StoreCapacity(t) \/ Publish(t)
  \/ NotifyAll(t) \/ Access(t)

Next == \E t \in Threads : Call(t) \/ Progress(t)

SafeSpec == Init /\ [][Next]_vars

\* A thread inside a call that can take a step takes one.
Spec == SafeSpec /\ \A t \in Threads : WF_vars(Progress(t))
-----------------------------------------------------------------------------
(* Properties                                                              *)

Labels == {"idle", "continue", "testPush", "claim", "giveUp", "loadState", "sleep", "asleep",
           "loadSlots", "loadCapacity", "validate", "bind", "expand", "loadTickets",
           "loadPop", "loadPush", "allocate", "restore", "storeCapacity", "publish",
           "notifyFailed", "notifyExpanded", "access"}

Locals == [op : Writes \cup Reads \cup {"none"}, ticket : 0..MaxTickets, state : Nat,
           slots : Arrays, cap : 0..MaxCapacity, offset : Nat, base : Nat,
           refused : {"idle", "access", "claim", "giveUp"}]

TypeOK == /\ pushTicket \in 0..MaxTickets /\ popTicket \in 0..MaxTickets
          /\ dstate \in Nat /\ dslots \in Arrays
          /\ dcapacity \in MinCapacity..MaxCapacity
          /\ closed \in [0..MaxClosed - 1 ->
                           [offset : 0..MaxTickets + 1, capacity : Nat, slots : Arrays]]
          /\ turn \in [Arrays -> [Indices -> Nat]]
          /\ cell \in [Arrays -> [Indices -> Tickets \cup {NoValue}]]
          /\ pc \in [Threads -> Labels]
          /\ my \in [Threads -> Locals]
          /\ got \subseteq Tickets \X (Tickets \cup {NoValue})

\* "In this implementation, ticket is bound to slot" (MPMCQueue.h:582): a thread that
\* holds a ticket uses the array whose range of tickets it is in, and no expansion that
\* comes later moves the ticket to another one.
TicketBound ==
  \A t \in Threads : pc[t] = "access" =>
    LET known == {i \in 0..GetNumClosed(dstate) - 1 : closed[i].slots = my[t].slots}
        end(i) == IF i + 1 = GetNumClosed(dstate) THEN GetOffset(dstate)
                                                  ELSE closed[i + 1].offset
    IN  /\ my[t].ticket >= my[t].offset
        /\ \A i \in known : /\ my[t].cap = closed[i].capacity
                            /\ my[t].offset = closed[i].offset
                            /\ my[t].ticket < end(i)
        /\ known = {} => /\ my[t].offset = GetOffset(dstate)
                         /\ my[t].slots = GetNumClosed(dstate)

\* The names of the values in the slots
Stored == {cell[a][i] : a \in Arrays, i \in Indices} \ {NoValue}

Abstract == INSTANCE AbstractTicketQueue
  WITH Values <- Tickets,
       Capacity <- MaxTickets,
       Room <- ActualCapacity(MinCapacity),
       log <- [n \in 1..pushTicket |-> n - 1],
       claimed <- popTicket,
       stored <- Stored

\* Over all expansions, pop ticket k receives exactly the value written for push ticket k.
\* Unless allocations fail for ever, which can starve whoever reads the seqlock, a value
\* that was promised is delivered, and a write only waits while the queue holds as many
\* values as its smallest array has slots.
ImplementsAbstract ==
  /\ Abstract!ASafeSpec
  /\ <>[](\A t \in Threads : pc[t] # "restore") => Abstract!AFairness
=============================================================================
