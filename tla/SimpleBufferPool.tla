--------------------------- MODULE SimpleBufferPool ---------------------------
(***************************************************************************)
(* PARCSimpleBufferPool (src/examples/How To Create an Object Pool/        *)
(* parc_SimpleBufferPool.c): buffers allocated with a descriptor whose     *)
(* destructor puts a released buffer back on the pool's free list, a       *)
(* PARCLinkedList of up to limit buffers, instead of freeing it.  The      *)
(* free list is the LinkedList model.  refs is each buffer's reference     *)
(* count (parcObject_Acquire and parcObject_Release, outside this tree:    *)
(* the last release runs the descriptor's destructor, which frees the      *)
(* buffer unless it returns false).  The free list holds one reference of  *)
(* each buffer it lists; the callers hold the others.                      *)
(***************************************************************************)
EXTENDS Naturals, Sequences, FiniteSets

CONSTANTS
  Buffers,          \* the buffer addresses the allocator can return
  Nodes,            \* the free list's node addresses
  Nil, NoObject, Void,
  Limit,            \* the limit given to parcSimpleBufferPool_Create
  MaxRefs,          \* bound on a buffer's reference count
  ReleasePoolLast   \* callers release the pool only once they hold no buffer

VARIABLES
  head, tail, size, next, previous, object, free, live, iterator, aborted, ret,
  poolLive,     \* the pool has not been destroyed
  status,       \* per buffer: "free" memory or "allocated"
  descriptor,   \* per buffer: "pool" (the pool's descriptor) or "plain" PARCBuffer
  refs,         \* per buffer: its reference count
  freedPoolRead \* a buffer destructor has read the destroyed pool

listVars == <<head, tail, size, next, previous, object, free, live, iterator, aborted, ret>>

vars == <<listVars, poolLive, status, descriptor, refs, freedPoolRead>>

FreeList == INSTANCE LinkedList WITH Objects <- Buffers, InsertIndexes <- {}

(* The buffers the free list holds while it lives, and the references     *)
(* callers hold.                                                           *)
Listed ==
  IF live THEN {b \in Buffers : \E i \in DOMAIN FreeList!Content : FreeList!Content[i] = b}
          ELSE {}

CallerRefs(b) == refs[b] - (IF b \in Listed THEN 1 ELSE 0)

-----------------------------------------------------------------------------
(* parcSimpleBufferPool_Create (lines 112-131): an empty free list.        *)
Init ==
  /\ FreeList!Init
  /\ poolLive = TRUE
  /\ status = [b \in Buffers |-> "free"]
  /\ descriptor = [b \in Buffers |-> "plain"]
  /\ refs = [b \in Buffers |-> 0]
  /\ freedPoolRead = FALSE

Running == poolLive /\ ~aborted /\ ~freedPoolRead

(* parcSimpleBufferPool_GetInstance (lines 133-146): the first buffer of   *)
(* the free list, whose reference passes to the caller, or a new buffer    *)
(* with the pool's descriptor.                                             *)
GetInstance ==
  /\ Running
  /\ IF size > 0
       THEN /\ FreeList!RemoveFirst /\ UNCHANGED iterator
            /\ UNCHANGED <<status, descriptor, refs>>
       ELSE /\ \E b \in Buffers :
                 /\ status[b] = "free"
                 /\ status' = [status EXCEPT ![b] = "allocated"]
                 /\ descriptor' = [descriptor EXCEPT ![b] = "pool"]
                 /\ refs' = [refs EXCEPT ![b] = 1]
            /\ UNCHANGED listVars
  /\ UNCHANGED <<poolLive, freedPoolRead>>

(* A caller's parcBuffer_Acquire of a buffer it holds.                     *)
AcquireBuffer(b) ==
  /\ ~aborted /\ ~freedPoolRead
  /\ CallerRefs(b) > 0
  /\ refs[b] < MaxRefs
  /\ refs' = [refs EXCEPT ![b] = @ + 1]
  /\ UNCHANGED <<listVars, poolLive, status, descriptor, freedPoolRead>>

(* Bug variant: the free list may grow to one more than limit.            *)
HasRoomOrFull == Limit >= size

(* The test of line 94: the free list is shorter than limit.              *)
HasRoom == Limit > size

(* A caller's parcBuffer_Release.  The last reference runs the destructor: *)
(* a plain buffer is freed; a pooled one goes to                           *)
(* _parcSimpleBufferPool_BufferDestructor (lines 86-103), which reads the  *)
(* pool from the descriptor (line 92) and appends the buffer to the free   *)
(* list while it is shorter than limit, or else makes the buffer plain and *)
(* acquires and releases it, which frees it.                               *)
ReleaseBuffer(b) ==
  /\ ~aborted /\ ~freedPoolRead
  /\ CallerRefs(b) > 0
  /\ IF refs[b] > 1 THEN
          /\ refs' = [refs EXCEPT ![b] = @ - 1]
          /\ UNCHANGED <<listVars, poolLive, status, descriptor, freedPoolRead>>
     ELSE IF descriptor[b] = "plain" THEN
          /\ refs' = [refs EXCEPT ![b] = 0]
          /\ status' = [status EXCEPT ![b] = "free"]
          /\ UNCHANGED <<listVars, poolLive, descriptor, freedPoolRead>>
     ELSE IF ~poolLive THEN
          /\ freedPoolRead' = TRUE
          /\ UNCHANGED <<listVars, poolLive, status, descriptor, refs>>
     ELSE IF HasRoom THEN
          /\ FreeList!ListAppend(b) /\ UNCHANGED iterator
          /\ refs' = [refs EXCEPT ![b] = 1]
          /\ UNCHANGED <<poolLive, status, descriptor, freedPoolRead>>
     ELSE /\ descriptor' = [descriptor EXCEPT ![b] = "plain"]
          /\ refs' = [refs EXCEPT ![b] = 0]
          /\ status' = [status EXCEPT ![b] = "free"]
          /\ UNCHANGED <<listVars, poolLive, freedPoolRead>>

(* Bug variant: the listed buffers keep the pool's descriptor.            *)
ListedMadePlainSkipped == descriptor

(* parcLinkedList_Apply(freeList, parcObject_SetDescriptor, PARCBuffer)   *)
(* (line 79): every listed buffer becomes a plain PARCBuffer.              *)
ListedMadePlain == [b \in Buffers |-> IF b \in Listed THEN "plain" ELSE descriptor[b]]

(* Bug variant: the free list is dropped without releasing its buffers.   *)
FreedListedSkipped == status

(* parcLinkedList_Release(&pool->freeList) (line 81) releases each listed  *)
(* buffer, now plain, and so frees it.                                     *)
FreedListed == [b \in Buffers |-> IF b \in Listed THEN "free" ELSE status[b]]

(* The last parcSimpleBufferPool_Release: _parcSimpleBufferPool_Destructor *)
(* (lines 72-84) makes every listed buffer plain, then releases the free   *)
(* list, whose destruction releases each of them: a plain one is freed,   *)
(* one that still has the pool's descriptor runs the buffer destructor,    *)
(* which reads the pool being destroyed and its released free list.       *)
ReleasePool ==
  /\ Running
  /\ ReleasePoolLast => \A b \in Buffers : CallerRefs(b) = 0
  /\ FreeList!Release /\ UNCHANGED iterator
  /\ descriptor' = ListedMadePlain
  /\ refs' = [b \in Buffers |-> IF b \in Listed THEN 0 ELSE refs[b]]
  /\ status' = FreedListed
  /\ poolLive' = FALSE
  /\ freedPoolRead' = \E b \in Listed : ListedMadePlain[b] = "pool"

(* A new pool once no buffer of the last one is allocated.                 *)
CreatePool ==
  /\ ~poolLive
  /\ ~freedPoolRead
  /\ \A b \in Buffers : status[b] = "free"
  /\ FreeList!Create /\ UNCHANGED iterator
  /\ poolLive' = TRUE
  /\ UNCHANGED <<status, descriptor, refs, freedPoolRead>>

Next ==
  \/ GetInstance
  \/ \E b \in Buffers : AcquireBuffer(b) \/ ReleaseBuffer(b)
  \/ ReleasePool
  \/ CreatePool

Spec == Init /\ [][Next]_vars

-----------------------------------------------------------------------------
TypeOK ==
  /\ FreeList!TypeOK
  /\ poolLive \in BOOLEAN
  /\ status \in [Buffers -> {"free", "allocated"}]
  /\ descriptor \in [Buffers -> {"pool", "plain"}]
  /\ refs \in [Buffers -> 0 .. MaxRefs]
  /\ freedPoolRead \in BOOLEAN

(* Every buffer is accounted for across GetInstance, the buffer           *)
(* destructor and the pool's destructor: a buffer is allocated exactly     *)
(* while a caller holds it or the live pool's free list lists it.  So     *)
(* neither the full-list branch of the buffer destructor (lines 97-99)     *)
(* nor the pool's destructor (lines 79-81) leaks a buffer, and no caller  *)
(* and no free list holds a freed one.                                     *)
BuffersAccounted ==
  \A b \in Buffers : status[b] = "allocated" <=> (CallerRefs(b) > 0 \/ b \in Listed)

(* The free list holds at most limit buffers, each allocated, listed once, *)
(* with the pool's descriptor and no reference but the list's: a buffer   *)
(* GetInstance hands out is held by no other caller.                       *)
FreeListSound ==
  poolLive =>
  /\ size <= Limit
  /\ Len(FreeList!Content) = Cardinality(Listed)
  /\ \A b \in Listed : status[b] = "allocated" /\ descriptor[b] = "pool" /\ refs[b] = 1

=============================================================================
