------------------------ MODULE AbstractTicketQueue ------------------------
(***************************************************************************)
(* What MPMCQueue promises, with no slots and no turns.  A write fixes the *)
(* place of its value in the log of all values when it is accepted, a read *)
(* is promised the value of the next place nobody was promised, and the    *)
(* values in between are stored, never more than the capacity of them at a *)
(* time.                                                                   *)
(***************************************************************************)
EXTENDS Naturals, Sequences, FiniteSets

CONSTANTS Values,     \* what may be written
          Capacity,   \* how many values the queue holds at most
          Room,       \* with how many values in it no write has to wait
          MaxTickets  \* bound on writes and on reads

VARIABLES log,     \* the values of all accepted writes, in order
          claimed, \* how many reads were promised a value
          stored,  \* the places whose value is in the queue
          got      \* pairs of a place and the value that was read for it

avars == <<log, claimed, stored, got>>

Places == 0..MaxTickets - 1
Delivered == {pair[1] : pair \in got}

AInit == log = <<>> /\ claimed = 0 /\ stored = {} /\ got = {}

AWrite(v) == /\ log' = Append(log, v)
             /\ UNCHANGED <<claimed, stored, got>>

ARead == /\ claimed' = claimed + 1
         /\ UNCHANGED <<log, stored, got>>

AStore(k) == /\ k < Len(log)
             /\ k \notin stored \cup Delivered
             /\ Cardinality(stored) < Capacity
             /\ stored' = stored \cup {k}
             /\ UNCHANGED <<log, claimed, got>>

ADeliver(k) == /\ k \in stored
               /\ k < claimed
               /\ stored' = stored \ {k}
               /\ got' = got \cup {<<k, log[k + 1]>>}
               /\ UNCHANGED <<log, claimed>>

ANext == \/ \E v \in Values : AWrite(v)
         \/ ARead
         \/ \E k \in Places : AStore(k) \/ ADeliver(k)

\* A value with room for it is stored, a promised value is delivered.
AFairness == \A k \in Places : /\ WF_avars(AStore(k) /\ Cardinality(stored) < Room)
                              /\ WF_avars(ADeliver(k))

ASafeSpec == AInit /\ [][ANext]_avars
ASpec == ASafeSpec /\ AFairness
=============================================================================
