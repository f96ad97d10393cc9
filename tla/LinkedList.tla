------------------------------ MODULE LinkedList ------------------------------
(***************************************************************************)
(* PARCLinkedList (src/parc/algol/parc_LinkedList.c): a doubly linked list *)
(* of object pointers with head, tail and size.  The model keeps the       *)
(* pointers: Nodes are the addresses parcMemory_Allocate can return, and   *)
(* next, previous and object are the fields of every node, stale in a      *)
(* freed one.  One thread calls it; each public call is one step.          *)
(* parcObject_Equals is equality of the model values in Objects.           *)
(*                                                                         *)
(* The assertTrue(parcLinkedList_IsValid(list)) that ends a removal or an  *)
(* insertion aborts the program when it fails: aborted.  The callers keep  *)
(* to the range the code needs (index <= size for InsertAtIndex, index <   *)
(* size for GetAtIndex); outside it the code dereferences NULL.            *)
(***************************************************************************)
EXTENDS Naturals, Sequences, FiniteSets

CONSTANTS
  Objects,        \* the object pointers callers store
  Nodes,          \* the node addresses the allocator can return
  Nil,            \* NULL as a node pointer
  NoObject,       \* NULL as an object pointer
  Void,           \* the return value of a call whose result is fixed
  InsertIndexes   \* the indexes callers pass to InsertAtIndex

VARIABLES
  head, tail, size,        \* the fields of struct parc_linkedlist
  next, previous, object,  \* the fields of every node, by address
  free,                    \* the node addresses not allocated
  live,                    \* the list has not been released
  iterator,                \* the node an open iterator is at, Nil before head, Void if none
  aborted,                 \* an assertion failed and the program stopped
  ret                      \* the value returned by the last call

vars == <<head, tail, size, next, previous, object, free, live, iterator, aborted, ret>>

-----------------------------------------------------------------------------
(* The nodes reached from head by next, position by position: Nil once the *)
(* chain ends (one more position than there are nodes shows a cycle).      *)
Chain ==
  LET f[i \in 1 .. Cardinality(Nodes) + 1] ==
        IF i = 1 THEN head
        ELSE IF f[i - 1] = Nil THEN Nil ELSE next[f[i - 1]]
  IN  f

(* The nodes a walk from head visits, in order.                            *)
Walk ==
  LET c == Chain
  IN  [i \in 1 .. Cardinality({j \in DOMAIN c : c[j] /= Nil}) |-> c[i]]

(* The objects the list holds, from head to tail.                          *)
Content == [i \in 1 .. Len(Walk) |-> object[Walk[i]]]

(* _parcLinkedListNode_IsValid (lines 81-111).  The code only ever sets    *)
(* result to true, so a node passes when either neighbour links back.     *)
NodeIsValid(n) ==
  /\ n /= Nil
  /\ object[n] /= NoObject
  /\ \/ next[n] = Nil
     \/ previous[next[n]] = n
     \/ previous[n] = Nil
     \/ next[previous[n]] = n

(* parcLinkedList_IsValid (lines 288-319).                                  *)
IsValid ==
  IF size > 0
    THEN /\ head /= Nil
         /\ tail /= Nil
         /\ \A i \in DOMAIN Walk : NodeIsValid(Walk[i])
    ELSE head = Nil /\ tail = Nil

(* The assertTrue(parcLinkedList_IsValid(list)) that ends a call.          *)
AssertValid == aborted' = ~IsValid'

(* Bug variant: the tail is not moved off a removed last node.           *)
UnlinkKeepTail(n) ==
  /\ size' = size - 1
  /\ head' = IF n = head THEN next[n] ELSE head
  /\ UNCHANGED tail
  /\ next' = IF previous[n] /= Nil THEN [next EXCEPT ![previous[n]] = next[n]]
                                   ELSE next
  /\ previous' = IF next[n] /= Nil THEN [previous EXCEPT ![next[n]] = previous[n]]
                                   ELSE previous
  /\ free' = free \cup {n}
  /\ UNCHANGED object

(* _parcLinkedListNode_RemoveNoChecks (lines 195-212) with                 *)
(* _parcLinkedListNode_Destroy (lines 139-148): unlink node n and free it. *)
Unlink(n) ==
  /\ size' = size - 1
  /\ head' = IF n = head THEN next[n] ELSE head
  /\ tail' = IF n = tail THEN previous[n] ELSE tail
  /\ next' = IF previous[n] /= Nil THEN [next EXCEPT ![previous[n]] = next[n]]
                                   ELSE next
  /\ previous' = IF next[n] /= Nil THEN [previous EXCEPT ![next[n]] = previous[n]]
                                   ELSE previous
  /\ free' = free \cup {n}
  /\ UNCHANGED object

-----------------------------------------------------------------------------
(* parcLinkedList_Create (lines 275-286).                                   *)
Init ==
  /\ head = Nil
  /\ tail = Nil
  /\ size = 0
  /\ next = [n \in Nodes |-> Nil]
  /\ previous = [n \in Nodes |-> Nil]
  /\ object = [n \in Nodes |-> NoObject]
  /\ free = Nodes
  /\ live = TRUE
  /\ iterator = Void
  /\ aborted = FALSE
  /\ ret = Void

(* Every call needs a live list and a running program.                    *)
Running == live /\ ~aborted

(* Callers change the list only through an open iterator, if there is one. *)
Idle == Running /\ iterator = Void

(* parcLinkedList_Append (lines 365-384): a node n is created after tail.  *)
ListAppend(o) ==
  /\ Idle
  /\ \E n \in free :
       /\ object' = [object EXCEPT ![n] = o]
       /\ previous' = [previous EXCEPT ![n] = tail]
       /\ next' = IF tail = Nil THEN [next EXCEPT ![n] = Nil]
                                ELSE [next EXCEPT ![n] = Nil, ![tail] = n]
       /\ tail' = n
       /\ head' = IF head = Nil THEN n ELSE head
       /\ free' = free \ {n}
  /\ size' = size + 1
  /\ ret' = Void
  /\ UNCHANGED <<live, aborted>>

(* The other lists a caller passes: their contents, of up to two objects. *)
OtherLists == {<< >>} \cup {<<o>> : o \in Objects} \cup {<<o, p>> : o, p \in Objects}

(* No list a caller passes is longer than there are nodes.               *)
MaxOther == Cardinality(Nodes)

(* parcLinkedList_AppendAll (lines 386-394): parcLinkedList_Append of each *)
(* element of other, read by GetAtIndex, in order; nodes ns[1], ns[2], ... *)
(* are created after tail.  other may be the list itself: its size is read *)
(* once, so its elements are appended once.                                *)
AppendAll(s) ==
  /\ Idle
  /\ \E ns \in [1 .. Len(s) -> free] :
       /\ \A i, j \in 1 .. Len(s) : i /= j => ns[i] /= ns[j]
       /\ LET last == IF s = << >> THEN tail ELSE ns[Len(s)]
              Before(i) == IF i = 1 THEN tail ELSE ns[i - 1]
              After(i) == IF i = Len(s) THEN Nil ELSE ns[i + 1]
              New == {ns[i] : i \in 1 .. Len(s)}
          IN  /\ object' = [n \in Nodes |-> IF \E i \in 1 .. Len(s) : ns[i] = n
                                              THEN s[CHOOSE i \in 1 .. Len(s) : ns[i] = n]
                                              ELSE object[n]]
              /\ previous' = [n \in Nodes |-> IF n \in New
                                                THEN Before(CHOOSE i \in 1 .. Len(s) : ns[i] = n)
                                                ELSE previous[n]]
              /\ next' = [n \in Nodes |-> CASE n \in New ->
                                                 After(CHOOSE i \in 1 .. Len(s) : ns[i] = n)
                                            [] n = tail /\ s /= << >> -> ns[1]
                                            [] OTHER -> next[n]]
              /\ tail' = last
              /\ head' = IF head = Nil /\ s /= << >> THEN ns[1] ELSE head
              /\ free' = free \ New
  /\ size' = size + Len(s)
  /\ ret' = Void
  /\ UNCHANGED <<live, aborted>>

(* parcLinkedList_Equals (lines 589-613) with a list holding s: equal     *)
(* sizes, then the objects compared pairwise along next.                   *)
Equals(s) ==
  /\ Running
  /\ ret' = [equal |-> size = Len(s) /\ \A i \in DOMAIN Walk : i <= Len(s) /\ object[Walk[i]] = s[i]]
  /\ UNCHANGED <<head, tail, size, next, previous, object, free, live, aborted>>

(* parcLinkedList_Copy (lines 332-345): a new list to which each object   *)
(* from head is appended; the caller gets its content.                     *)
Copy ==
  /\ Running
  /\ ret' = [copy |-> Content]
  /\ UNCHANGED <<head, tail, size, next, previous, object, free, live, aborted>>

(* parcLinkedList_Prepend (lines 396-417), ending in the assertion that    *)
(* the new node is valid.                                                   *)
Prepend(o) ==
  /\ Idle
  /\ \E n \in free :
       /\ object' = [object EXCEPT ![n] = o]
       /\ next' = [next EXCEPT ![n] = head]
       /\ previous' = IF head = Nil THEN [previous EXCEPT ![n] = Nil]
                                    ELSE [previous EXCEPT ![n] = Nil, ![head] = n]
       /\ head' = n
       /\ tail' = IF tail = Nil THEN n ELSE tail
       /\ free' = free \ {n}
       /\ aborted' = ~NodeIsValid(n)'
  /\ size' = size + 1
  /\ ret' = Void
  /\ UNCHANGED live

(* A NULL pointer the code follows: the program crashes.                   *)
NullDereference ==
  /\ aborted' = TRUE
  /\ UNCHANGED <<head, tail, size, next, previous, object, free, live, ret>>

(* The node parcLinkedList_InsertAtIndex stops at: index steps from head  *)
(* along next, or fewer if the chain ends first (lines 558-561).           *)
InsertionPoint(i) == Walk[IF i < Len(Walk) THEN i + 1 ELSE Len(Walk)]

(* The pointers InsertAtIndex follows at index i are NULL: tail at the end *)
(* (line 554), head, or the previous of the insertion point (line 565).    *)
InsertDereferencesNull(i) ==
  \/ i /= 0 /\ i = size /\ tail = Nil
  \/ i /= 0 /\ i /= size /\ (head = Nil \/ previous[InsertionPoint(i)] = Nil)

(* parcLinkedList_InsertAtIndex (lines 531-573).  At index 0 of a list     *)
(* that is not empty the code sets tail to the old head (line 549).        *)
InsertAtIndex(i, o) ==
  /\ Idle
  /\ i <= size
  /\ IF InsertDereferencesNull(i) THEN NullDereference ELSE
     /\ \E n \in free :
          /\ object' = [object EXCEPT ![n] = o]
          /\ free' = free \ {n}
          /\ CASE i = 0 /\ head = Nil ->
                    /\ next' = [next EXCEPT ![n] = Nil]
                    /\ previous' = [previous EXCEPT ![n] = Nil]
                    /\ head' = n
                    /\ tail' = n
               [] i = 0 ->
                    /\ next' = [next EXCEPT ![n] = head]
                    /\ previous' = [previous EXCEPT ![n] = Nil, ![head] = n]
                    /\ tail' = head
                    /\ head' = n
               [] i = size ->
                    /\ next' = [next EXCEPT ![n] = Nil, ![tail] = n]
                    /\ previous' = [previous EXCEPT ![n] = tail]
                    /\ tail' = n
                    /\ UNCHANGED head
               [] OTHER ->
                    LET at == InsertionPoint(i)
                    IN  /\ next' = [next EXCEPT ![n] = at, ![previous[at]] = n]
                        /\ previous' = [previous EXCEPT ![n] = previous[at], ![at] = n]
                        /\ UNCHANGED <<head, tail>>
     /\ size' = size + 1
     /\ AssertValid
     /\ ret' = Void
     /\ UNCHANGED live

(* The positions of the nodes whose object equals o.                      *)
Hits(o) == {i \in DOMAIN Walk : object[Walk[i]] = o}

(* Bug variant: the search keeps the last match instead of stopping.      *)
LastHit(o) == CHOOSE i \in Hits(o) : \A j \in Hits(o) : j <= i

(* The loop of parcLinkedList_Remove (lines 424-438) walks from head and   *)
(* stops at the first node whose object equals o.                          *)
FirstHit(o) == CHOOSE i \in Hits(o) : \A j \in Hits(o) : i <= j

(* parcLinkedList_Remove (lines 419-441): unlink the first node, from      *)
(* head, whose object equals o.                                            *)
Remove(o) ==
  /\ Idle
  /\ IF Hits(o) = {}
       THEN /\ UNCHANGED <<head, tail, size, next, previous, object, free>>
            /\ ret' = [removed |-> FALSE]
       ELSE /\ Unlink(Walk[FirstHit(o)])
            /\ ret' = [removed |-> TRUE]
  /\ AssertValid
  /\ UNCHANGED live

(* parcLinkedList_RemoveFirst (lines 443-460) and parcLinkedList_RemoveLast *)
(* (lines 462-477): the end node's object goes to the caller.              *)
RemoveEnd(end) ==
  /\ Idle
  /\ IF end = Nil
       THEN /\ UNCHANGED <<head, tail, size, next, previous, object, free>>
            /\ ret' = [data |-> NoObject]
       ELSE /\ Unlink(end)
            /\ ret' = [data |-> object[end]]
  /\ AssertValid
  /\ UNCHANGED live

RemoveFirst == RemoveEnd(head)

RemoveLast == RemoveEnd(tail)

(* parcLinkedList_PeekFirst and PeekLast (lines 479-501).                   *)
Peek(end) ==
  /\ Running
  /\ ret' = [data |-> IF end = Nil THEN NoObject ELSE object[end]]
  /\ UNCHANGED <<head, tail, size, next, previous, object, free, live, aborted>>

(* parcLinkedList_GetAtIndex (lines 575-587): index steps along next; a   *)
(* chain shorter than size leads it to NULL.                               *)
GetAtIndex(i) ==
  /\ Running
  /\ i < size
  /\ IF Chain[i + 1] = Nil
       THEN NullDereference
       ELSE /\ ret' = [data |-> object[Chain[i + 1]]]
            /\ UNCHANGED <<head, tail, size, next, previous, object, free, live, aborted>>

(* parcLinkedList_Contains (lines 347-363).                                 *)
Contains(o) ==
  /\ Running
  /\ ret' = [found |-> \E i \in DOMAIN Walk : object[Walk[i]] = o]
  /\ UNCHANGED <<head, tail, size, next, previous, object, free, live, aborted>>

(* parcLinkedList_Size and parcLinkedList_IsEmpty (lines 519-529).          *)
Size ==
  /\ Running
  /\ ret' \in {[size |-> size], [empty |-> size = 0]}
  /\ UNCHANGED <<head, tail, size, next, previous, object, free, live, aborted>>

(* The last parcLinkedList_Release: _parcLinkedList_Destroy (lines 150-160) *)
(* frees the nodes a walk from head reaches.                               *)
Release ==
  /\ Idle
  /\ free' = free \cup {Walk[i] : i \in DOMAIN Walk}
  /\ live' = FALSE
  /\ ret' = Void
  /\ UNCHANGED <<head, tail, size, next, previous, object, aborted>>

(* A new parcLinkedList_Create once the last one is released: the nodes   *)
(* its destruction did not reach stay allocated.                           *)
Create ==
  /\ ~live
  /\ ~aborted
  /\ head' = Nil
  /\ tail' = Nil
  /\ size' = 0
  /\ live' = TRUE
  /\ ret' = Void
  /\ UNCHANGED <<next, previous, object, free, aborted>>

(* parcLinkedList_CreateIterator (lines 260-273): _parcLinkedIterator_Init *)
(* (lines 162-166) starts it before head.                                   *)
CreateIterator ==
  /\ Idle
  /\ iterator' = Nil
  /\ UNCHANGED <<head, tail, size, next, previous, object, free, live, aborted, ret>>

(* _parcLinkedListNode_HasNext (lines 231-250).                              *)
HasNext(c) == IF c = Nil THEN head /= Nil ELSE next[c] /= Nil

(* The caller's HasNext, then _parcLinkedListNode_Next (lines 174-191) and *)
(* _parcLinkedListNode_Element (lines 252-256), each asserting that the    *)
(* nodes it handles are valid.                                             *)
IteratorNext ==
  /\ Running
  /\ iterator /= Void
  /\ HasNext(iterator)
  /\ LET n == IF iterator = Nil THEN head ELSE next[iterator]
     IN  /\ iterator' = n
         /\ ret' = [data |-> object[n]]
         /\ aborted' = (~NodeIsValid(n) \/ (iterator /= Nil /\ ~NodeIsValid(iterator)))
  /\ UNCHANGED <<head, tail, size, next, previous, object, free, live>>

(* Bug variant: the iterator is left on the node it removes.              *)
StepBackStay(c) == c

(* Where _parcLinkedListNode_Remove leaves the iterator that stood at c:  *)
(* *nodePtr = node->previous (line 222).                                   *)
StepBack(c) == previous[c]

(* _parcLinkedListNode_Remove (lines 214-229): the iterator steps back to  *)
(* the previous node and the node it was at is unlinked and released,      *)
(* between two assertions that the list is valid.                          *)
IteratorRemove ==
  /\ Running
  /\ iterator \in Nodes
  /\ IF ~IsValid
       THEN /\ aborted' = TRUE
            /\ UNCHANGED <<head, tail, size, next, previous, object, free, iterator, ret>>
       ELSE /\ iterator' = StepBack(iterator)
            /\ Unlink(iterator)
            /\ AssertValid
            /\ ret' = Void
  /\ UNCHANGED live

(* The iterator's release; _parcLinkedListNode_Fini (lines 168-172).        *)
ReleaseIterator ==
  /\ Running
  /\ iterator /= Void
  /\ iterator' = Void
  /\ UNCHANGED <<head, tail, size, next, previous, object, free, live, aborted, ret>>

ListStep ==
  \/ \E o \in Objects : \/ ListAppend(o) \/ Prepend(o) \/ Remove(o) \/ Contains(o)
                        \/ \E i \in InsertIndexes : InsertAtIndex(i, o)
  \/ RemoveFirst \/ RemoveLast
  \/ Peek(head) \/ Peek(tail)
  \/ \E i \in InsertIndexes : GetAtIndex(i)
  \/ Size
  \/ \E s \in OtherLists : AppendAll(s) \/ Equals(s)
  \/ AppendAll(Content)
  \/ Copy
  \/ Release
  \/ Create

Next ==
  \/ ListStep /\ UNCHANGED iterator
  \/ CreateIterator
  \/ IteratorNext
  \/ IteratorRemove
  \/ ReleaseIterator

Spec == Init /\ [][Next]_vars

-----------------------------------------------------------------------------
TypeOK ==
  /\ head \in Nodes \cup {Nil}
  /\ tail \in Nodes \cup {Nil}
  /\ size \in Nat
  /\ next \in [Nodes -> Nodes \cup {Nil}]
  /\ previous \in [Nodes -> Nodes \cup {Nil}]
  /\ object \in [Nodes -> Objects \cup {NoObject}]
  /\ free \subseteq Nodes
  /\ live \in BOOLEAN
  /\ iterator \in Nodes \cup {Nil, Void}
  /\ aborted \in BOOLEAN
  /\ ret \in {Void} \cup [data : Objects \cup {NoObject}] \cup [removed : BOOLEAN]
             \cup [found : BOOLEAN] \cup [size : Nat] \cup [empty : BOOLEAN]
             \cup [equal : BOOLEAN] \cup [copy : Seq(Objects)]

(* While the list lives, its nodes form one well-linked chain: the walk    *)
(* from head visits size distinct allocated nodes and every allocated one, *)
(* ends at tail, and each node's previous is the node before it.  This is  *)
(* more than parcLinkedList_IsValid checks: it does not look at tail.      *)
WellFormed ==
  live =>
    /\ Len(Walk) = size
    /\ {Walk[i] : i \in DOMAIN Walk} = Nodes \ free
    /\ tail = IF size = 0 THEN Nil ELSE Walk[size]
    /\ \A i \in DOMAIN Walk : previous[Walk[i]] = IF i = 1 THEN Nil ELSE Walk[i - 1]

(* An open iterator is before head or at a node of the list, never at a   *)
(* node that was freed: removing through the iterator steps it back first. *)
IteratorOnList ==
  live /\ iterator \in Nodes => \E i \in DOMAIN Walk : Walk[i] = iterator

(* The list implements the abstract PARCList: the objects from head to    *)
(* tail are the sequence, and every call returns what the sequence says.   *)
Abstract == INSTANCE ObjectList WITH list <- IF live THEN Content ELSE << >>

ListSpec == Abstract!Spec

=============================================================================
