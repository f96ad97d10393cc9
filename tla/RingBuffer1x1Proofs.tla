------------------------- MODULE RingBuffer1x1Proofs -------------------------
(***************************************************************************)
(* Proofs about RingBuffer1x1 for every capacity and number of items:     *)
(* the inductive invariant RingInv, the safety properties the run          *)
(* ring_spsc checks, and that the ring implements BoundedFifo.             *)
(***************************************************************************)
EXTENDS RingBuffer1x1, SequenceTheorems, TLAPS

(* The arithmetic the proofs need of the constants: a positive capacity    *)
(* (that it is a power of two only makes the mask a modulus, which Mask    *)
(* already is) and a natural number of items.                              *)
LEMMA CapacityPositive == Capacity \in Nat \ {0} /\ NItems \in Nat
BY CapacityAssumption

(* Masking an index below twice the capacity subtracts the capacity at     *)
(* most once: the only wrap a head, a tail or an offset from tail makes.   *)
LEMMA MaskSmall ==
  ASSUME NEW x \in 0 .. 2 * Capacity - 1
  PROVE  Mask(x) = IF x < Capacity THEN x ELSE x - Capacity
BY CapacityPositive DEF Mask

(* The number of items between tail and head, without the modulus.         *)
LEMMA OccupiedValue ==
  ASSUME head \in 0 .. Capacity - 1, tail \in 0 .. Capacity - 1
  PROVE  /\ Occupied = IF head >= tail THEN head - tail ELSE head - tail + Capacity
         /\ Occupied \in 0 .. Capacity - 1
<1>1. head - tail + Capacity \in 0 .. 2 * Capacity - 1
  BY CapacityPositive
<1>. QED
  BY <1>1, MaskSmall, CapacityPositive DEF Occupied, Mask

(* The distance from a tail t to a head h that the ring reads as its      *)
(* number of items: zero exactly when the two are equal, below Capacity,   *)
(* and t advanced by it lands on h.                                        *)
LEMMA DistanceFacts ==
  ASSUME NEW h \in 0 .. Capacity - 1, NEW t \in 0 .. Capacity - 1
  PROVE  LET d == (h - t + Capacity) % Capacity
         IN  /\ d = IF h >= t THEN h - t ELSE h - t + Capacity
             /\ d \in 0 .. Capacity - 1
             /\ d = 0 <=> h = t
             /\ Mask(t + d) = h
             /\ \A k \in 1 .. d : /\ Mask(t + k - 1) \in 0 .. Capacity - 1
                                  /\ Mask(t + k - 1) /= h
<1>1. h - t + Capacity \in 0 .. 2 * Capacity - 1
  BY CapacityPositive
<1>2. (h - t + Capacity) % Capacity
        = IF h >= t THEN h - t ELSE h - t + Capacity
  BY <1>1, CapacityPositive
<1>3. \A k \in 1 .. Capacity : t + k - 1 \in 0 .. 2 * Capacity - 1
  BY CapacityPositive
<1>. QED
  BY <1>2, <1>3, MaskSmall, CapacityPositive

(* Put's full-ring test: when head + 1 is not tail there is room for an    *)
(* item besides the sacrificed slot, and publishing head adds one item.    *)
LEMMA DistancePut ==
  ASSUME NEW h \in 0 .. Capacity - 1, NEW t \in 0 .. Capacity - 1,
         Mask(h + 1) /= t
  PROVE  /\ (h - t + Capacity) % Capacity < Capacity - 1
         /\ (Mask(h + 1) - t + Capacity) % Capacity
              = ((h - t + Capacity) % Capacity) + 1
<1>1. h + 1 \in 0 .. 2 * Capacity - 1
  BY CapacityPositive
<1>2. Mask(h + 1) \in 0 .. Capacity - 1
  BY <1>1, CapacityPositive DEF Mask
<1>3. Mask(h + 1) = IF h + 1 < Capacity THEN h + 1 ELSE 0
  BY <1>1, CapacityPositive DEF Mask
<1>4. (h - t + Capacity) % Capacity
        = IF h >= t THEN h - t ELSE h - t + Capacity
  BY CapacityPositive
<1>5. (Mask(h + 1) - t + Capacity) % Capacity
        = IF Mask(h + 1) >= t THEN Mask(h + 1) - t
                              ELSE Mask(h + 1) - t + Capacity
  BY <1>2, CapacityPositive
<1>6. CASE h + 1 < Capacity /\ h >= t
  BY <1>3, <1>4, <1>5, <1>6, CapacityPositive
<1>7. CASE h + 1 < Capacity /\ h < t
  BY <1>3, <1>4, <1>5, <1>7, CapacityPositive
<1>8. CASE h + 1 = Capacity
  BY <1>3, <1>4, <1>5, <1>8, CapacityPositive
<1>. QED
  BY <1>6, <1>7, <1>8, CapacityPositive

(* Get on a non-empty ring: publishing tail removes one item, and the     *)
(* slots after the new tail are those after the old one, shifted by one.   *)
LEMMA DistanceGet ==
  ASSUME NEW h \in 0 .. Capacity - 1, NEW t \in 0 .. Capacity - 1, h /= t
  PROVE  /\ Mask(t + 1) \in 0 .. Capacity - 1
         /\ (h - Mask(t + 1) + Capacity) % Capacity
              = ((h - t + Capacity) % Capacity) - 1
         /\ \A k \in 1 .. Capacity - 1 : Mask(Mask(t + 1) + k - 1) = Mask(t + k)
<1>1. t + 1 \in 0 .. 2 * Capacity - 1
  BY CapacityPositive
<1>2. Mask(t + 1) \in 0 .. Capacity - 1
  BY <1>1, CapacityPositive DEF Mask
<1>3. \A k \in 1 .. Capacity - 1 :
        /\ Mask(t + 1) + k - 1 \in 0 .. 2 * Capacity - 1
        /\ t + k \in 0 .. 2 * Capacity - 1
  BY <1>2, CapacityPositive
<1>4. Mask(t + 1) = IF t + 1 < Capacity THEN t + 1 ELSE 0
  BY <1>1, CapacityPositive DEF Mask
<1>5. (h - t + Capacity) % Capacity
        = IF h >= t THEN h - t ELSE h - t + Capacity
  BY CapacityPositive
<1>6. (h - Mask(t + 1) + Capacity) % Capacity
        = IF h >= Mask(t + 1) THEN h - Mask(t + 1)
                              ELSE h - Mask(t + 1) + Capacity
  BY <1>2, CapacityPositive
<1>7. ASSUME NEW k \in 1 .. Capacity - 1
      PROVE  Mask(Mask(t + 1) + k - 1) = Mask(t + k)
  <2>1. Mask(Mask(t + 1) + k - 1)
          = IF Mask(t + 1) + k - 1 < Capacity THEN Mask(t + 1) + k - 1
                                              ELSE Mask(t + 1) + k - 1 - Capacity
    BY <1>3, CapacityPositive DEF Mask
  <2>2. Mask(t + k) = IF t + k < Capacity THEN t + k ELSE t + k - Capacity
    BY <1>3, CapacityPositive DEF Mask
  <2>. QED
    BY <1>4, <2>1, <2>2, CapacityPositive
<1>. QED
  BY <1>2, <1>4, <1>5, <1>6, <1>7, CapacityPositive

-----------------------------------------------------------------------------
(* The ring starts empty, with both references held.                      *)
LEMMA InitRingInv == Init => RingInv
<1> SUFFICES ASSUME Init PROVE RingInv
  OBVIOUS
<1>1. Occupied = 0
  BY OccupiedValue, CapacityPositive DEF Init
<1>2. TypeOK
  BY CapacityPositive DEF Init, TypeOK
<1>3. Resident = << >>
  BY <1>1 DEF Resident
<1>4. Len(got) = 0 /\ written = 0
  BY DEF Init
<1>8. FifoOrder /\ Occupied = written - Len(got)
  BY <1>1, <1>4 DEF FifoOrder
<1>5. \A k \in 1 .. Occupied : ring[Mask(tail + k - 1)] = Len(got) + k
  BY <1>1, CapacityPositive
<1>6. /\ ("producer" \in refs) = (ppc /= "released")
      /\ ("consumer" \in refs) = (cpc /= "released")
  BY DEF Init, Owners
<1>7. destroyed = IF refs = {} THEN Resident ELSE << >>
  BY DEF Init, Owners
<1>9. ppc = "put" /\ cpc = "get"
  BY DEF Init
<1>. QED
  BY <1>2, <1>8, <1>5, <1>6, <1>7, <1>9 DEF RingInv

-----------------------------------------------------------------------------
(* The facts about head, tail and the distance between them that every    *)
(* step of the proof below starts from.                                    *)
LEMMA RingFacts ==
  ASSUME RingInv
  PROVE  /\ head \in 0 .. Capacity - 1
         /\ tail \in 0 .. Capacity - 1
         /\ Occupied \in 0 .. Capacity - 1
         /\ Occupied = 0 <=> head = tail
         /\ Mask(tail + Occupied) = head
         /\ \A k \in 1 .. Occupied : /\ Mask(tail + k - 1) \in 0 .. Capacity - 1
                                     /\ Mask(tail + k - 1) /= head
<1>1. head \in 0 .. Capacity - 1 /\ tail \in 0 .. Capacity - 1
  BY DEF RingInv, TypeOK
<1>. QED
  BY <1>1, DistanceFacts DEF Occupied

(* A run of consecutive item numbers after b is a sequence of items.      *)
LEMMA ItemRunIsSeq ==
  ASSUME NEW b \in Nat, NEW n \in Nat, b + n <= NItems
  PROVE  [k \in 1 .. n |-> b + k] \in Seq(1 .. NItems)
<1>1. \A k \in 1 .. n : b + k \in 1 .. NItems
  BY CapacityPositive
<1>. QED
  BY <1>1, IsASeq

(* Under RingInv the resident items are the numbers of the next Occupied   *)
(* items the consumer will get, and they form a sequence of item numbers.  *)
LEMMA ResidentItems ==
  ASSUME RingInv
  PROVE  /\ Resident = [k \in 1 .. Occupied |-> Len(got) + k]
         /\ Resident \in Seq(1 .. NItems)
<1>1. Occupied \in 0 .. Capacity - 1
  BY RingFacts
<1>2. Len(got) \in Nat /\ Len(got) + Occupied <= NItems
  BY <1>1 DEF RingInv, TypeOK
<1>3. Resident = [k \in 1 .. Occupied |-> Len(got) + k]
  BY DEF RingInv, Resident
<1>4. [k \in 1 .. Occupied |-> Len(got) + k] \in Seq(1 .. NItems)
  <2>1. Len(got) \in Nat /\ Occupied \in Nat /\ Len(got) + Occupied <= NItems
    BY <1>1, <1>2
  <2>. QED
    BY <2>1, ItemRunIsSeq, Zenon
<1>. QED
  BY <1>3, <1>4

(* Each step of the producer, of the consumer or of a release keeps       *)
(* RingInv.                                                                *)
LEMMA StepRingInv == RingInv /\ [Next]_vars => RingInv'
<1> SUFFICES ASSUME RingInv, [Next]_vars PROVE RingInv'
  OBVIOUS
<1> USE CapacityPositive
<1>1. /\ TypeOK /\ FifoOrder
      /\ Occupied = written - Len(got)
      /\ \A k \in 1 .. Occupied : ring[Mask(tail + k - 1)] = Len(got) + k
      /\ Len(got) \in Nat
  BY DEF RingInv, TypeOK
<1>2. /\ head \in 0 .. Capacity - 1
      /\ tail \in 0 .. Capacity - 1
      /\ Occupied \in 0 .. Capacity - 1
      /\ Occupied = 0 <=> head = tail
      /\ Mask(tail + Occupied) = head
      /\ \A k \in 1 .. Occupied : /\ Mask(tail + k - 1) \in 0 .. Capacity - 1
                                  /\ Mask(tail + k - 1) /= head
  BY RingFacts
<1>3. CASE PutWrite
  <2>1. Occupied' = Occupied
    BY <1>3 DEF PutWrite, Occupied
  <2>2. \A k \in 1 .. Occupied : ring'[Mask(tail + k - 1)] = ring[Mask(tail + k - 1)]
    BY <1>1, <1>2, <1>3 DEF PutWrite, TypeOK
  <2>3. Occupied < Capacity - 1
    BY <1>2, <1>3, DistancePut DEF PutWrite, Occupied
  <2>4. TypeOK'
    <3>1. ring' \in [0 .. Capacity - 1 -> 0 .. NItems]
      <4>1. ring \in [0 .. Capacity - 1 -> 0 .. NItems] /\ written + 1 \in 0 .. NItems
        BY <1>1, <1>3, CapacityPositive DEF PutWrite, TypeOK
      <4>. QED
        BY <4>1, <1>2, <1>3 DEF PutWrite
    <3>2. ppc' \in {"put", "publish", "released"}
      BY <1>3 DEF PutWrite
    <3>. QED
      BY <1>1, <1>3, <3>1, <3>2 DEF PutWrite, TypeOK
  <2>5. "producer" \in refs /\ destroyed = << >>
    BY <1>3 DEF PutWrite, RingInv
  <2>6. ring'[head] = written + 1
    BY <1>1, <1>2, <1>3 DEF PutWrite, TypeOK
  <2>. QED
    BY <1>1, <1>3, <2>1, <2>2, <2>3, <2>4, <2>5, <2>6
    DEF PutWrite, RingInv, FifoOrder
<1>4. CASE PutPublish
  <2>1. Occupied < Capacity - 1 /\ written < NItems /\ ring[head] = written + 1
    BY <1>4 DEF PutPublish, RingInv
  <2>2. Mask(head + 1) /= tail
    BY <1>2, <2>1, CapacityPositive DEF Mask, Occupied
  <2>3. Occupied' = Occupied + 1
    BY <1>2, <1>4, <2>2, DistancePut DEF PutPublish, Occupied
  <2>4. \A k \in 1 .. Occupied' : ring'[Mask(tail' + k - 1)] = Len(got') + k
    <3>1. ASSUME NEW k \in 1 .. Occupied + 1
          PROVE  ring[Mask(tail + k - 1)] = Len(got) + k
      <4>1. CASE k <= Occupied
        BY <1>1, <1>2, <4>1
      <4>2. CASE k = Occupied + 1
        <5>1. tail + k - 1 = tail + Occupied
          BY <1>2, <4>2
        <5>2. Mask(tail + k - 1) = Mask(tail + Occupied)
          BY <5>1, Zenon
        <5>4. Mask(tail + k - 1) = head
          BY <1>2, <5>2
        <5>3. written + 1 = Len(got) + k
          BY <1>1, <1>2, <4>2 DEF TypeOK
        <5>. QED
          BY <2>1, <5>4, <5>3
      <4>. QED
        BY <4>1, <4>2, <1>2
    <3>. QED
      BY <3>1, <2>3, <1>4 DEF PutPublish
  <2>5. TypeOK'
    BY <1>1, <1>2, <1>4, <2>1, CapacityPositive DEF PutPublish, TypeOK, Mask
  <2>6. "producer" \in refs /\ destroyed = << >>
    BY <1>4 DEF PutPublish, RingInv
  <2>7. cpc = "publish" => Occupied > 0 /\ cItem = Len(got) + 1
    BY DEF RingInv
  <2>8. Occupied' = written' - Len(got')
    BY <1>1, <1>4, <2>3 DEF PutPublish, TypeOK
  <2>9. destroyed' = IF refs' = {} THEN Resident' ELSE << >>
    BY <1>4, <2>6 DEF PutPublish
  <2>10. FifoOrder'
    BY <1>1, <1>4 DEF PutPublish, FifoOrder
  <2>11. /\ ("producer" \in refs') = (ppc' /= "released")
         /\ ("consumer" \in refs') = (cpc' /= "released")
    BY <1>4, <2>6 DEF PutPublish, RingInv
  <2>12. cpc' = "publish" => Occupied' > 0 /\ cItem' = Len(got') + 1
    BY <1>2, <1>4, <2>3, <2>7 DEF PutPublish
  <2>. QED
    BY <1>4, <2>4, <2>5, <2>8, <2>9, <2>10, <2>11, <2>12
    DEF PutPublish, RingInv
<1>5. CASE GetRead
  <2>1. Occupied > 0
    BY <1>2, <1>5 DEF GetRead
  <2>2. Mask(tail + 1 - 1) = tail
    BY <1>2, CapacityPositive DEF Mask
  <2>3. cItem' = Len(got) + 1
    BY <1>1, <1>5, <2>1, <2>2 DEF GetRead
  <2>4. Occupied' = Occupied /\ Resident' = Resident
    BY <1>5 DEF GetRead, Occupied, Resident
  <2>5. TypeOK'
    BY <1>1, <1>5, <2>3, <2>1 DEF GetRead, TypeOK
  <2>6. "consumer" \in refs /\ destroyed = << >>
    BY <1>5 DEF GetRead, RingInv
  <2>7. ppc = "publish" => /\ written < NItems
                           /\ Occupied < Capacity - 1
                           /\ ring[head] = written + 1
    BY DEF RingInv
  <2>. QED
    BY <1>1, <1>5, <2>1, <2>3, <2>4, <2>5, <2>6, <2>7
    DEF GetRead, RingInv, FifoOrder
<1>6. CASE GetPublish
  <2>1. Occupied > 0 /\ cItem = Len(got) + 1
    BY <1>6 DEF GetPublish, RingInv
  <2>2. head /= tail
    BY <1>2, <2>1
  <2>3. /\ tail' \in 0 .. Capacity - 1
        /\ Occupied' = Occupied - 1
        /\ \A k \in 1 .. Occupied' : Mask(tail' + k - 1) = Mask(tail + k)
    <3>1. /\ Mask(tail + 1) \in 0 .. Capacity - 1
          /\ (head - Mask(tail + 1) + Capacity) % Capacity
               = ((head - tail + Capacity) % Capacity) - 1
          /\ \A k \in 1 .. Capacity - 1 : Mask(Mask(tail + 1) + k - 1) = Mask(tail + k)
      BY <1>2, <2>2, DistanceGet
    <3>2. tail' = Mask(tail + 1) /\ head' = head
      BY <1>6 DEF GetPublish
    <3>3. Occupied' = Occupied - 1
      BY <3>1, <3>2 DEF Occupied
    <3>4. ASSUME NEW k \in 1 .. Occupied'
          PROVE  Mask(tail' + k - 1) = Mask(tail + k)
      <4>1. k \in 1 .. Capacity - 1
        BY <1>2, <3>3
      <4>2. Mask(Mask(tail + 1) + k - 1) = Mask(tail + k)
        BY <3>1, <4>1
      <4>. QED
        BY <3>2, <4>2, Zenon
    <3>. QED
      BY <1>2, <3>1, <3>2, <3>3, <3>4
  <2>4. /\ Len(got') = Len(got) + 1
        /\ \A k \in 1 .. Len(got) : got'[k] = got[k]
        /\ got'[Len(got) + 1] = Len(got) + 1
    BY <1>1, <1>6, <2>1, AppendProperties DEF GetPublish, TypeOK
  <2>5. \A k \in 1 .. Occupied' : ring'[Mask(tail' + k - 1)] = Len(got') + k
    <3>1. ASSUME NEW k \in 1 .. Occupied'
          PROVE  ring'[Mask(tail' + k - 1)] = Len(got') + k
      <4>1. k + 1 \in 1 .. Occupied
        BY <1>2, <2>3
      <4>2. ring[Mask(tail + (k + 1) - 1)] = Len(got) + (k + 1)
        BY <1>1, <4>1
      <4>3. Mask(tail' + k - 1) = Mask(tail + (k + 1) - 1)
        BY <2>3
      <4>. QED
        BY <1>1, <1>6, <2>4, <4>2, <4>3 DEF GetPublish
    <3>. QED
      BY <3>1
  <2>6. FifoOrder'
    BY <1>1, <2>4 DEF FifoOrder
  <2>7. Len(got) + 1 \in 1 .. NItems
    BY <1>1, <2>1 DEF TypeOK
  <2>8. TypeOK'
    <3>1. got' \in Seq(1 .. NItems)
      BY <1>1, <1>6, <2>1, <2>7, AppendProperties DEF GetPublish, TypeOK
    <3>. QED
      BY <1>1, <1>6, <2>3, <3>1 DEF GetPublish, TypeOK, NoItem
  <2>9. "consumer" \in refs /\ destroyed = << >>
    BY <1>6 DEF GetPublish, RingInv
  <2>10. ppc = "publish" => /\ written < NItems
                            /\ Occupied < Capacity - 1
                            /\ ring[head] = written + 1
    BY DEF RingInv
  <2>11. Occupied' = written' - Len(got')
    BY <1>1, <1>6, <2>3, <2>4 DEF GetPublish, TypeOK
  <2>12. ppc' = "publish" => /\ written' < NItems
                             /\ Occupied' < Capacity - 1
                             /\ ring'[head'] = written' + 1
    BY <1>2, <1>6, <2>3, <2>10 DEF GetPublish
  <2>13. /\ ("producer" \in refs') = (ppc' /= "released")
         /\ ("consumer" \in refs') = (cpc' /= "released")
    BY <1>6, <2>9 DEF GetPublish, RingInv
  <2>14. destroyed' = IF refs' = {} THEN Resident' ELSE << >>
    BY <1>6, <2>9 DEF GetPublish
  <2>. QED
    BY <1>6, <2>5, <2>6, <2>8, <2>11, <2>12, <2>13, <2>14
    DEF GetPublish, RingInv
<1>7. ASSUME NEW o \in Owners, Release(o) PROVE RingInv'
  <2>1. Occupied' = Occupied /\ Resident' = Resident
    BY <1>7 DEF Release, Occupied, Resident
  <2>2. Resident \in Seq(1 .. NItems)
    BY ResidentItems
  <2>3. destroyed = << >>
    BY <1>7 DEF Release, RingInv
  <2>4. TypeOK'
    BY <1>1, <1>7, <2>2, <2>3 DEF Release, TypeOK
  <2>5. /\ ("producer" \in refs') = (ppc' /= "released")
        /\ ("consumer" \in refs') = (cpc' /= "released")
    BY <1>7 DEF Release, RingInv, Owners
  <2>6. destroyed' = IF refs' = {} THEN Resident' ELSE << >>
    BY <1>7, <2>1, <2>3 DEF Release
  <2>7. /\ ppc' = "publish" => ppc = "publish"
        /\ cpc' = "publish" => cpc = "publish"
    BY <1>7 DEF Release
  <2>. QED
    BY <1>1, <1>7, <2>1, <2>4, <2>5, <2>6, <2>7 DEF Release, RingInv, FifoOrder
<1>8. CASE UNCHANGED vars
  BY <1>8 DEF vars, RingInv, TypeOK, FifoOrder, Occupied, Resident
<1>. QED
  BY <1>3, <1>4, <1>5, <1>6, <1>7, <1>8 DEF Next

-----------------------------------------------------------------------------
(* RingInv holds in every state of every run of the producer and consumer, *)
(* whatever the capacity and the number of items.                         *)
THEOREM RingInvariant == Spec => []RingInv
<1>1. Init => RingInv
  BY InitRingInv
<1>2. RingInv /\ [Next]_vars => RingInv'
  BY StepRingInv
<1>. QED
  BY <1>1, <1>2, PTL DEF Spec

(* The ring's indices stay in the array and the items stay item numbers.   *)
THEOREM TypeCorrect == Spec => []TypeOK
<1>1. RingInv => TypeOK
  BY DEF RingInv
<1>. QED
  BY <1>1, RingInvariant, PTL

(* Get returns the items in the order Put stored them: the k-th successful *)
(* Get returns item k, which the test's consumer asserts (line 144).       *)
THEOREM FifoOrderInvariant == Spec => []FifoOrder
<1>1. RingInv => FifoOrder
  BY DEF RingInv
<1>. QED
  BY <1>1, RingInvariant, PTL

(* The full-ring test of Put keeps at most Capacity - 1 items put and not *)
(* yet got, for every capacity.                                            *)
THEOREM CapacityBound == Spec => []AtMostCapacityMinusOneResident
<1>1. RingInv => AtMostCapacityMinusOneResident
  BY RingFacts DEF RingInv, AtMostCapacityMinusOneResident
<1>. QED
  BY <1>1, RingInvariant, PTL

(* After the last Release every item whose Put succeeded was either got or *)
(* passed to the entry destroyer, once each and in order.                  *)
THEOREM TeardownLosesNoItem == Spec => []NoItemLostAtTeardown
<1>1. RingInv => NoItemLostAtTeardown
  <2> SUFFICES ASSUME RingInv, refs = {}
               PROVE  got \o destroyed = [k \in 1 .. written |-> k]
    BY DEF NoItemLostAtTeardown
  <2> USE CapacityPositive
  <2>1. /\ got \in Seq(1 .. NItems)
        /\ \A k \in 1 .. Len(got) : got[k] = k
        /\ written \in 0 .. NItems
        /\ Occupied = written - Len(got)
        /\ destroyed = Resident
    BY DEF RingInv, TypeOK, FifoOrder
  <2>2. /\ Resident = [k \in 1 .. Occupied |-> Len(got) + k]
        /\ Resident \in Seq(1 .. NItems)
        /\ Occupied \in 0 .. Capacity - 1
    BY ResidentItems, RingFacts
  <2>3. /\ got \o destroyed \in Seq(1 .. NItems)
        /\ Len(got \o destroyed) = written
        /\ \A i \in 1 .. written : (got \o destroyed)[i] = i
    <3>1. /\ got \o destroyed \in Seq(1 .. NItems)
          /\ Len(got \o destroyed) = Len(got) + Len(destroyed)
          /\ \A i \in 1 .. Len(got) + Len(destroyed) :
               (got \o destroyed)[i] = IF i <= Len(got) THEN got[i]
                                                       ELSE destroyed[i - Len(got)]
      BY <2>1, <2>2, ConcatProperties
    <3>2. Len(destroyed) = Occupied /\ Len(got) \in Nat
      BY <2>1, <2>2
    <3>. QED
      BY <2>1, <2>2, <3>1, <3>2
  <2>4. [k \in 1 .. written |-> k] \in Seq(1 .. NItems)
    <3>1. [k \in 1 .. written |-> 0 + k] \in Seq(1 .. NItems)
      BY <2>1, ItemRunIsSeq
    <3>. QED
      BY <3>1
  <2>5. /\ Len([k \in 1 .. written |-> k]) = written
        /\ \A i \in 1 .. written : [k \in 1 .. written |-> k][i] = i
    BY <2>1, <2>4
  <2>. QED
    BY <2>3, <2>4, <2>5, SeqEqual, Zenon
<1>. QED
  BY <1>1, RingInvariant, PTL

-----------------------------------------------------------------------------
(* Under the refinement mapping Fifo, a step of the ring is a step of the  *)
(* bounded FIFO or leaves the FIFO's state alone: writing a slot and       *)
(* reading one are invisible, publishing head is Enqueue, publishing tail  *)
(* is Dequeue, the last Release is Destroy and an earlier one is invisible. *)
LEMMA StepRefinesFifo ==
  ASSUME RingInv, RingInv', [Next]_vars
  PROVE  [Fifo!Next]_<<IF refs = {} THEN << >> ELSE Resident, written, got,
                       destroyed, refs /= {}>>
<1> USE CapacityPositive
<1> DEFINE Q == IF refs = {} THEN << >> ELSE Resident
<1>1. /\ Resident = [k \in 1 .. Occupied |-> Len(got) + k]
      /\ Resident \in Seq(1 .. NItems)
      /\ Occupied \in 0 .. Capacity - 1
      /\ Occupied = written - Len(got)
      /\ Len(got) \in Nat
      /\ written \in 0 .. NItems
  <2>1. /\ Resident = [k \in 1 .. Occupied |-> Len(got) + k]
        /\ Resident \in Seq(1 .. NItems)
        /\ Occupied \in 0 .. Capacity - 1
    BY ResidentItems, RingFacts
  <2>2. Occupied = written - Len(got) /\ got \in Seq(1 .. NItems)
        /\ written \in 0 .. NItems
    BY DEF RingInv, TypeOK
  <2>. QED
    BY <2>1, <2>2
<1>2. /\ Resident' = [k \in 1 .. Occupied' |-> Len(got') + k]
      /\ Occupied' = written' - Len(got')
  BY DEF RingInv, Resident
<1>3. CASE PutWrite \/ GetRead
  <2>1. Occupied' = Occupied /\ got' = got /\ refs' = refs
    BY <1>3 DEF PutWrite, GetRead, Occupied
  <2>2. Resident' = Resident
    BY <1>1, <1>2, <2>1
  <2>. QED
    BY <1>3, <2>1, <2>2 DEF PutWrite, GetRead
<1>4. CASE PutPublish
  <2>1. /\ written < NItems /\ Occupied < Capacity - 1
        /\ "producer" \in refs
    BY <1>4 DEF PutPublish, RingInv
  <2>2. refs' = refs /\ got' = got /\ written' = written + 1
        /\ destroyed' = destroyed
    BY <1>4 DEF PutPublish
  <2>3. Resident' = Append(Resident, written + 1)
    <3>1. Append(Resident, written + 1)
            = [k \in 1 .. Occupied + 1 |-> Len(got) + k]
      BY <1>1
    <3>. QED
      BY <1>1, <1>2, <2>2, <3>1
  <2>4. Len(Resident) = Occupied
    BY <1>1
  <2>. QED
    BY <2>1, <2>2, <2>3, <2>4 DEF Fifo!Next, Fifo!Enqueue, Fifo!Usable
<1>5. CASE GetPublish
  <2>1. /\ Occupied > 0 /\ cItem = Len(got) + 1
        /\ "consumer" \in refs
    BY <1>5 DEF GetPublish, RingInv
  <2>2. refs' = refs /\ written' = written /\ destroyed' = destroyed
        /\ got' = Append(got, cItem)
    BY <1>5 DEF GetPublish
  <2>3. Len(got') = Len(got) + 1
    BY <1>1, <2>2, AppendProperties, <2>1 DEF RingInv, TypeOK
  <2>4. /\ Resident /= << >>
        /\ Head(Resident) = cItem
        /\ Tail(Resident) = [k \in 1 .. Occupied - 1 |-> Len(got) + 1 + k]
    <3>1. Resident /= << >>
      <4>1. Len(Resident) = Occupied
        BY <1>1
      <4>. QED
        BY <4>1, <2>1, EmptySeq
    <3>2. /\ Tail(Resident) \in Seq(1 .. NItems)
          /\ Len(Tail(Resident)) = Len(Resident) - 1
          /\ \A i \in 1 .. Len(Tail(Resident)) : Tail(Resident)[i] = Resident[i + 1]
      BY <1>1, <3>1, HeadTailProperties
    <3>3. Head(Resident) = cItem
      BY <1>1, <2>1
    <3>4. [k \in 1 .. Occupied - 1 |-> Len(got) + 1 + k] \in Seq(1 .. NItems)
      <4>1. Len(got) + 1 \in Nat /\ Occupied - 1 \in Nat
            /\ (Len(got) + 1) + (Occupied - 1) <= NItems
        BY <1>1, <2>1
      <4>. QED
        BY <4>1, ItemRunIsSeq, Zenon
    <3>5. /\ Len(Tail(Resident)) = Len([k \in 1 .. Occupied - 1 |-> Len(got) + 1 + k])
          /\ \A i \in 1 .. Len(Tail(Resident)) :
               Tail(Resident)[i] = [k \in 1 .. Occupied - 1 |-> Len(got) + 1 + k][i]
      BY <1>1, <2>1, <3>2, <3>4
    <3>. QED
      BY <3>1, <3>2, <3>3, <3>4, <3>5, SeqEqual, Zenon
  <2>5. Resident' = Tail(Resident)
    BY <1>1, <1>2, <2>2, <2>3, <2>4
  <2>. QED
    BY <2>1, <2>2, <2>4, <2>5 DEF Fifo!Next, Fifo!Dequeue
<1>6. ASSUME NEW o \in Owners, Release(o)
      PROVE  [Fifo!Next]_<<Q, written, got, destroyed, refs /= {}>>
  <2>1. o \in refs /\ refs' = refs \ {o}
        /\ written' = written /\ got' = got
        /\ destroyed' = IF refs' = {} THEN Resident ELSE destroyed
    BY <1>6 DEF Release
  <2>2. Resident' = Resident
    BY <1>6 DEF Release, Resident, Occupied
  <2>3. CASE refs' = {}
    BY <2>1, <2>2, <2>3 DEF Fifo!Next, Fifo!Destroy
  <2>4. CASE refs' /= {}
    BY <2>1, <2>2, <2>4
  <2>. QED
    BY <2>3, <2>4
<1>7. CASE UNCHANGED vars
  BY <1>7 DEF vars, Resident, Occupied
<1>. QED
  BY <1>3, <1>4, <1>5, <1>6, <1>7 DEF Next

(* The ring buffer driven by its two test threads implements the bounded  *)
(* FIFO of BoundedFifo: the property FifoSpec that ring_spsc checks, for   *)
(* every capacity and number of items.                                     *)
THEOREM RingImplementsFifo == Spec => FifoSpec
<1>1. Init => Fifo!Init
  <2> SUFFICES ASSUME Init PROVE Fifo!Init
    OBVIOUS
  <2>1. Occupied = 0
    BY OccupiedValue, CapacityPositive DEF Init
  <2>2. Resident = << >>
    BY <2>1 DEF Resident
  <2>. QED
    BY <2>2 DEF Init, Fifo!Init, Owners
<1>2. RingInv /\ RingInv' /\ [Next]_vars
        => [Fifo!Next]_<<IF refs = {} THEN << >> ELSE Resident, written, got,
                          destroyed, refs /= {}>>
  BY StepRefinesFifo
<1>. QED
  BY <1>1, <1>2, RingInvariant, PTL DEF Spec, FifoSpec, Fifo!Spec

=============================================================================
