---------------------------- MODULE RingBuffer1x1 ----------------------------
(***************************************************************************)
(* PARCRingBuffer1x1, the lock-free single-producer/single-consumer ring   *)
(* buffer, driven by the producer and consumer threads of its unit test    *)
(* (src/parc/concurrent/test/test_parc_RingBuffer_1x1.c, lines 131-175 and *)
(* 197-241).  parc_RingBuffer_1x1.c itself is not in this source tree: Put, *)
(* Get and Release are modelled from the specification (sections 3, 4.1). *)
(*                                                                         *)
(* The ring holds Capacity slots, a power of two; head is the next write   *)
(* position, owned by the producer, tail the next read position, owned by  *)
(* the consumer; indices wrap with the mask Capacity - 1.  Put writes the  *)
(* slot and then publishes head, Get reads the slot and then publishes     *)
(* tail: each is two steps so that the other thread can run in between.   *)
(* The producer puts the items 1, 2, ..., NItems in this order (the test   *)
(* writes itemsWritten), retrying a Put that fails on a full ring.         *)
(***************************************************************************)
EXTENDS Naturals, Sequences

CONSTANTS Capacity, NItems

(* The test vector of _isPowerOfTwo: 1, 2, 16, 32 are powers of two.       *)
IsPowerOfTwo(n) == \E k \in 0 .. n : 2 ^ k = n

ASSUME CapacityAssumption ==
  /\ Capacity \in Nat \ {0}
  /\ IsPowerOfTwo(Capacity)
  /\ NItems \in Nat

Owners == {"producer", "consumer"}

NoItem == 0

VARIABLES
  ring,       \* the slots of the ring, NoItem where nothing was ever written
  head,       \* next write position, published by the producer
  tail,       \* next read position, published by the consumer
  ppc,        \* pc of the producer thread
  cpc,        \* pc of the consumer thread
  written,    \* the test's itemsWritten: items whose Put succeeded
  cItem,      \* the item the consumer has read and not yet published
  got,        \* history: the items returned by successful Gets, in order
  refs,       \* the owners still holding a reference (Create and Acquire)
  destroyed   \* history: the items passed to the entry destroyer

vars == <<ring, head, tail, ppc, cpc, written, cItem, got, refs, destroyed>>

(* index & (Capacity - 1), which is index % Capacity for a power of two.   *)
Mask(i) == i % Capacity

(* The number of items in the ring, (head - tail) mod Capacity.            *)
Occupied == (head - tail + Capacity) % Capacity

(* The resident items from tail to head, oldest first.                     *)
Resident == [k \in 1 .. Occupied |-> ring[Mask(tail + k - 1)]]

-----------------------------------------------------------------------------
(* Create(Capacity, destroyer) then Acquire: one reference for each thread. *)
Init ==
  /\ ring = [i \in 0 .. Capacity - 1 |-> NoItem]
  /\ head = 0
  /\ tail = 0
  /\ ppc = "put"
  /\ cpc = "get"
  /\ written = 0
  /\ cItem = NoItem
  /\ got = << >>
  /\ refs = Owners
  /\ destroyed = << >>

(* Bug variant: Put without the full-ring test.                           *)
PutWriteUnchecked ==
  /\ ppc = "put"
  /\ written < NItems
  /\ ring' = [ring EXCEPT ![head] = written + 1]
  /\ ppc' = "publish"
  /\ UNCHANGED <<head, tail, cpc, written, cItem, got, refs, destroyed>>

(* Put, first half: the ring is not full (head + 1 is not tail, as read by *)
(* the producer), so the next item is written to the slot at head.         *)
PutWrite ==
  /\ ppc = "put"
  /\ written < NItems
  /\ Mask(head + 1) /= tail
  /\ ring' = [ring EXCEPT ![head] = written + 1]
  /\ ppc' = "publish"
  /\ UNCHANGED <<head, tail, cpc, written, cItem, got, refs, destroyed>>

(* Bug variant: the new head is published without the mask.               *)
PutPublishUnmasked ==
  /\ ppc = "publish"
  /\ head' = head + 1
  /\ written' = written + 1
  /\ ppc' = "put"
  /\ UNCHANGED <<ring, tail, cpc, cItem, got, refs, destroyed>>

(* Put, second half: publish the new head; the test counts the item.       *)
PutPublish ==
  /\ ppc = "publish"
  /\ head' = Mask(head + 1)
  /\ written' = written + 1
  /\ ppc' = "put"
  /\ UNCHANGED <<ring, tail, cpc, cItem, got, refs, destroyed>>

(* Bug variant: Get reads the slot after tail.                            *)
GetReadAhead ==
  /\ cpc = "get"
  /\ head /= tail
  /\ cItem' = ring[Mask(tail + 1)]
  /\ cpc' = "publish"
  /\ UNCHANGED <<ring, head, tail, ppc, written, got, refs, destroyed>>

(* Bug variant: Get sees the ring as empty unless two items are in it.    *)
GetReadLagging ==
  /\ cpc = "get"
  /\ Occupied >= 2
  /\ cItem' = ring[tail]
  /\ cpc' = "publish"
  /\ UNCHANGED <<ring, head, tail, ppc, written, got, refs, destroyed>>

(* Get, first half: the ring is not empty (head, as read by the consumer,  *)
(* is not tail), so the slot at tail is read.                              *)
GetRead ==
  /\ cpc = "get"
  /\ head /= tail
  /\ cItem' = ring[tail]
  /\ cpc' = "publish"
  /\ UNCHANGED <<ring, head, tail, ppc, written, got, refs, destroyed>>

(* Get, second half: publish the new tail and return the item.             *)
GetPublish ==
  /\ cpc = "publish"
  /\ tail' = Mask(tail + 1)
  /\ got' = Append(got, cItem)
  /\ cItem' = NoItem
  /\ cpc' = "get"
  /\ UNCHANGED <<ring, head, ppc, written, refs, destroyed>>

(* Bug variant: the last release frees the ring without calling the      *)
(* entry destroyer on the resident items.                                  *)
ReleaseNoDestroyer(o) ==
  /\ o \in refs
  /\ IF o = "producer" THEN ppc = "put" ELSE cpc = "get"
  /\ refs' = refs \ {o}
  /\ IF o = "producer" THEN ppc' = "released" /\ cpc' = cpc
                       ELSE cpc' = "released" /\ ppc' = ppc
  /\ UNCHANGED <<ring, head, tail, written, cItem, got, destroyed>>

(* Bug variant: every release, not only the last, destroys the resident   *)
(* items.                                                                  *)
ReleaseEager(o) ==
  /\ o \in refs
  /\ IF o = "producer" THEN ppc = "put" ELSE cpc = "get"
  /\ refs' = refs \ {o}
  /\ IF o = "producer" THEN ppc' = "released" /\ cpc' = cpc
                       ELSE cpc' = "released" /\ ppc' = ppc
  /\ destroyed' = Resident
  /\ UNCHANGED <<ring, head, tail, written, cItem, got>>

(* Release by owner o between two of its calls; the last release passes    *)
(* the resident items, oldest first, to the entry destroyer.               *)
Release(o) ==
  /\ o \in refs
  /\ IF o = "producer" THEN ppc = "put" ELSE cpc = "get"
  /\ refs' = refs \ {o}
  /\ IF o = "producer" THEN ppc' = "released" /\ cpc' = cpc
                       ELSE cpc' = "released" /\ ppc' = ppc
  /\ destroyed' = IF refs' = {} THEN Resident ELSE destroyed
  /\ UNCHANGED <<ring, head, tail, written, cItem, got>>

Next ==
  \/ PutWrite \/ PutPublish \/ GetRead \/ GetPublish
  \/ \E o \in Owners : Release(o)

(* Both test threads spin until their call succeeds; releasing is up to    *)
(* the owner and is not forced.                                            *)
Fairness ==
  /\ WF_vars(PutWrite) /\ WF_vars(PutPublish)
  /\ WF_vars(GetRead) /\ WF_vars(GetPublish)

Spec == Init /\ [][Next]_vars /\ Fairness

-----------------------------------------------------------------------------
TypeOK ==
  /\ ring \in [0 .. Capacity - 1 -> 0 .. NItems]
  /\ head \in 0 .. Capacity - 1
  /\ tail \in 0 .. Capacity - 1
  /\ ppc \in {"put", "publish", "released"}
  /\ cpc \in {"get", "publish", "released"}
  /\ written \in 0 .. NItems
  /\ cItem \in 0 .. NItems
  /\ got \in Seq(1 .. NItems)
  /\ refs \in SUBSET Owners
  /\ destroyed \in Seq(1 .. NItems)

(* Items are got in exactly the order they were put: the k-th successful   *)
(* Get returns item k (the assertion of the test's consumer, line 144).    *)
FifoOrder == \A k \in 1 .. Len(got) : got[k] = k

(* Never more than Capacity - 1 items are put and not yet got: the one     *)
(* sacrificed slot keeps a full ring from looking empty.                   *)
AtMostCapacityMinusOneResident == written - Len(got) <= Capacity - 1

(* After the last release every item whose Put succeeded was either        *)
(* returned by Get or passed to the destroyer, exactly once and in order.  *)
NoItemLostAtTeardown ==
  refs = {} =>
    got \o destroyed = [k \in 1 .. written |-> k]

(* The state the two threads keep between them, whatever the interleaving *)
(* of their write, read and publish steps: the published slots from tail  *)
(* to head hold exactly the items put and not yet got, in order; a         *)
(* producer between its write and its publish has written the next item   *)
(* into the free slot at head of a ring that is not full; a consumer       *)
(* between its read and its publish holds the item at tail; each thread   *)
(* holds its reference until it releases, and the last release has passed *)
(* the resident items to the destroyer.  It implies FifoOrder,             *)
(* AtMostCapacityMinusOneResident and NoItemLostAtTeardown, and each step  *)
(* of either thread preserves it.                                          *)
RingInv ==
  /\ TypeOK
  /\ FifoOrder
  /\ Occupied = written - Len(got)
  /\ \A k \in 1 .. Occupied : ring[Mask(tail + k - 1)] = Len(got) + k
  /\ ppc = "publish" => /\ written < NItems
                        /\ Occupied < Capacity - 1
                        /\ ring[head] = written + 1
  /\ cpc = "publish" => Occupied > 0 /\ cItem = Len(got) + 1
  /\ ("producer" \in refs) = (ppc /= "released")
  /\ ("consumer" \in refs) = (cpc /= "released")
  /\ destroyed = IF refs = {} THEN Resident ELSE << >>

(* Every item put is eventually got, as long as the consumer holds on.     *)
EveryPutItemIsGot ==
  \A i \in 1 .. NItems :
    (written >= i) ~> (Len(got) >= i \/ "consumer" \notin refs)

(* The ring buffer implements the bounded FIFO: the published resident     *)
(* items are the abstract queue.                                           *)
Fifo == INSTANCE BoundedFifo
          WITH queue <- IF refs = {} THEN << >> ELSE Resident,
               enqueued <- written,
               dequeued <- got,
               live <- refs /= {}

FifoSpec == Fifo!Spec

=============================================================================
