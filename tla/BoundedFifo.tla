----------------------------- MODULE BoundedFifo -----------------------------
(***************************************************************************)
(* What a PARCRingBuffer promises its owners, whatever its implementation: *)
(* a FIFO queue of at most Capacity - 1 items (one slot of the array is    *)
(* never used), items enqueued in the order 1, 2, ..., NItems, and on the  *)
(* release of its last reference the items still resident passed, oldest  *)
(* first, to the entry destroyer.                                          *)
(***************************************************************************)
EXTENDS Naturals, Sequences

CONSTANTS Capacity, NItems

VARIABLES queue, enqueued, dequeued, destroyed, live

Usable == Capacity - 1

(* The producer enqueues the next item when there is room.                 *)
Enqueue ==
  /\ live
  /\ enqueued < NItems
  /\ Len(queue) < Usable
  /\ queue' = Append(queue, enqueued + 1)
  /\ enqueued' = enqueued + 1
  /\ UNCHANGED <<dequeued, destroyed, live>>

(* The consumer takes the oldest item.                                     *)
Dequeue ==
  /\ live
  /\ queue /= << >>
  /\ queue' = Tail(queue)
  /\ dequeued' = Append(dequeued, Head(queue))
  /\ UNCHANGED <<enqueued, destroyed, live>>

(* The last reference is released: resident items go to the destroyer.     *)
Destroy ==
  /\ live
  /\ destroyed' = queue
  /\ queue' = << >>
  /\ live' = FALSE
  /\ UNCHANGED <<enqueued, dequeued>>

Init ==
  /\ queue = << >>
  /\ enqueued = 0
  /\ dequeued = << >>
  /\ destroyed = << >>
  /\ live = TRUE

Next == Enqueue \/ Dequeue \/ Destroy

Spec == Init /\ [][Next]_<<queue, enqueued, dequeued, destroyed, live>>

=============================================================================
