------------------------------ MODULE ArrayList ------------------------------
(***************************************************************************)
(* PARCArrayList (src/parc/algol/parc_ArrayList.c): an array of pointers,  *)
(* numberOfElements of its limit slots in use, grown by realloc.  array    *)
(* is the allocated block, slot by slot from 0; a slot never written holds *)
(* Unset.  The list is created with a destroyElement function, so Destroy, *)
(* Clear and RemoveAndDestroyAtIndex destroy the elements they drop.       *)
(*                                                                         *)
(* Ownership of an element: callers add objects they have not stored       *)
(* before (used); an element leaves the list to the caller (handedBack)   *)
(* when RemoveAtIndex or Pop returns it or Set overwrites it, or is        *)
(* destroyed, destroyed[o] counting the destroyElement calls on it.        *)
(* The calls keep to the index ranges the code traps on; the allocator     *)
(* does not fail.                                                          *)
(***************************************************************************)
EXTENDS Naturals, Sequences, FiniteSets

CONSTANTS
  Objects,            \* the element pointers callers store
  Unset,              \* the content of a slot never written
  Void,               \* the return value of a call whose result is fixed
  InitialCapacities,  \* the sizes given to parcArrayList_Create_Capacity (0: Create)
  InsertDepths        \* how far from the end callers insert: index = size - depth

VARIABLES
  array, numberOfElements, limit,  \* the fields of struct parc_array_list
  live,                            \* the list has not been destroyed
  used, handedBack, destroyed,     \* where the stored objects have gone
  ret                              \* the value returned by the last call

vars == <<array, numberOfElements, limit, live, used, handedBack, destroyed, ret>>

-----------------------------------------------------------------------------
(* The elements in use, as a sequence.                                      *)
Elements == [i \in 1 .. numberOfElements |-> array[i - 1]]

(* The slots in use that hold o.                                           *)
Occurrences(o) == Cardinality({i \in 0 .. numberOfElements - 1 : array[i] = o})

(* _ensureRemaining (lines 126-136) with _remaining (lines 106-110): the  *)
(* capacity grows to size + remnant when fewer than remnant slots are free. *)
NewLimit(remnant) ==
  IF limit - numberOfElements < remnant THEN numberOfElements + remnant ELSE limit

(* _ensureCapacity (lines 112-124): the reallocated block keeps the slots *)
(* of the old one.                                                          *)
EnsuredArray(remnant) ==
  [i \in 0 .. NewLimit(remnant) - 1 |-> IF i < limit THEN array[i] ELSE Unset]

(* The loop of RemoveAtIndex and RemoveAndDestroyAtIndex (lines 270-272, *)
(* 379-381): a[i] = a[i + 1] for i from index up to size - 2.              *)
ElideAt(a, index) ==
  LET s[k \in 0 .. numberOfElements - 1 - index] ==
        IF k = 0 THEN a ELSE [s[k - 1] EXCEPT ![index + k - 1] = s[k - 1][index + k]]
  IN  s[numberOfElements - 1 - index]

(* The loop of InsertAtIndex (lines 400-402): a[i + 1] = a[i] for i from   *)
(* index up to length - 1, in increasing i.                                *)
ShiftUp(a, index) ==
  LET s[k \in 0 .. numberOfElements - index] ==
        IF k = 0 THEN a ELSE [s[k - 1] EXCEPT ![index + k] = s[k - 1][index + k - 1]]
  IN  s[numberOfElements - index]

-----------------------------------------------------------------------------
(* parcArrayList_Create (lines 177-184) or parcArrayList_Create_Capacity   *)
(* (lines 186-199) with _parcArrayList_Init (lines 159-175).               *)
Init ==
  /\ limit \in InitialCapacities
  /\ array = [i \in 0 .. limit - 1 |-> Unset]
  /\ numberOfElements = 0
  /\ live = TRUE
  /\ used = {}
  /\ handedBack = {}
  /\ destroyed = [o \in Objects |-> 0]
  /\ ret = Void

(* An object no list has stored yet.                                       *)
Fresh(o) == o \notin used

(* parcArrayList_Add (lines 201-212).                                       *)
Add(o) ==
  /\ live
  /\ Fresh(o)
  /\ array' = [EnsuredArray(1) EXCEPT ![numberOfElements] = o]
  /\ limit' = NewLimit(1)
  /\ numberOfElements' = numberOfElements + 1
  /\ used' = used \cup {o}
  /\ ret' = Void
  /\ UNCHANGED <<live, handedBack, destroyed>>

(* The argument vectors a caller passes: up to two objects.               *)
OtherLists == {<< >>} \cup {<<o>> : o \in Objects} \cup {<<o, p>> : o, p \in Objects}

(* No vector a caller passes is longer than there are objects.            *)
MaxOther == Cardinality(Objects)

(* parcArrayList_AddAll (lines 214-222): parcArrayList_Add of argv[0] up  *)
(* to argv[argc - 1]; each Add makes room for one more, so the capacity    *)
(* ends at size + argc when it was smaller.                                *)
AddAll(s) ==
  /\ live
  /\ \A i \in 1 .. Len(s) : Fresh(s[i])
  /\ \A i, j \in 1 .. Len(s) : i /= j => s[i] /= s[j]
  /\ array' = [i \in 0 .. NewLimit(Len(s)) - 1 |->
                 IF i \in numberOfElements .. numberOfElements + Len(s) - 1
                   THEN s[i - numberOfElements + 1]
                   ELSE EnsuredArray(Len(s))[i]]
  /\ limit' = NewLimit(Len(s))
  /\ numberOfElements' = numberOfElements + Len(s)
  /\ used' = used \cup {s[i] : i \in 1 .. Len(s)}
  /\ ret' = Void
  /\ UNCHANGED <<live, handedBack, destroyed>>

(* parcArrayList_Equals (lines 232-260) with a list holding s, created     *)
(* without equalsElement: equal sizes, then the pointers slot by slot.     *)
Equals(s) ==
  /\ live
  /\ ret' = [equal |-> numberOfElements = Len(s) /\ \A i \in 1 .. Len(s) : array[i - 1] = s[i]]
  /\ UNCHANGED <<array, numberOfElements, limit, live, used, handedBack, destroyed>>

(* parcArrayList_InsertAtIndex (lines 390-408): the slots from index are   *)
(* shifted up by the loop before the pointer is stored at index.           *)
InsertAtIndex(index, o) ==
  /\ live
  /\ Fresh(o)
  /\ index <= numberOfElements
  /\ array' = [ShiftUp(EnsuredArray(numberOfElements + 1), index) EXCEPT ![index] = o]
  /\ limit' = NewLimit(numberOfElements + 1)
  /\ numberOfElements' = numberOfElements + 1
  /\ used' = used \cup {o}
  /\ ret' = Void
  /\ UNCHANGED <<live, handedBack, destroyed>>

(* Bug variant: the element returned is read after the slots are shifted. *)
RemoveAtIndexLateRead(index) ==
  /\ live
  /\ index < numberOfElements
  /\ array' = ElideAt(array, index)
  /\ numberOfElements' = numberOfElements - 1
  /\ handedBack' = handedBack \cup {array[index]}
  /\ ret' = [data |-> ElideAt(array, index)[index]]
  /\ UNCHANGED <<limit, live, used, destroyed>>

(* parcArrayList_RemoveAtIndex (lines 262-276), and parcArrayList_Pop      *)
(* (lines 410-414) at the last index: the element goes to the caller.      *)
RemoveAtIndex(index) ==
  /\ live
  /\ index < numberOfElements
  /\ array' = ElideAt(array, index)
  /\ numberOfElements' = numberOfElements - 1
  /\ handedBack' = handedBack \cup {array[index]}
  /\ ret' = [data |-> array[index]]
  /\ UNCHANGED <<limit, live, used, destroyed>>

(* Bug variant: the element destroyed is read after the slots are shifted. *)
RemoveAndDestroyAtIndexLate(index) ==
  /\ live
  /\ index < numberOfElements
  /\ destroyed' = [destroyed EXCEPT ![ElideAt(array, index)[index]] = @ + 1]
  /\ array' = ElideAt(array, index)
  /\ numberOfElements' = numberOfElements - 1
  /\ ret' = Void
  /\ UNCHANGED <<limit, live, used, handedBack>>

(* parcArrayList_RemoveAndDestroyAtIndex (lines 367-388).                  *)
RemoveAndDestroyAtIndex(index) ==
  /\ live
  /\ index < numberOfElements
  /\ destroyed' = [destroyed EXCEPT ![array[index]] = @ + 1]
  /\ array' = ElideAt(array, index)
  /\ numberOfElements' = numberOfElements - 1
  /\ ret' = Void
  /\ UNCHANGED <<limit, live, used, handedBack>>

(* parcArrayList_Set (lines 278-284): the old pointer is overwritten.      *)
Set(index, o) ==
  /\ live
  /\ Fresh(o)
  /\ index < numberOfElements
  /\ array' = [array EXCEPT ![index] = o]
  /\ used' = used \cup {o}
  /\ handedBack' = handedBack \cup {array[index]}
  /\ ret' = Void
  /\ UNCHANGED <<numberOfElements, limit, live, destroyed>>

(* parcArrayList_Get and parcArrayList_Peek (lines 286-298).                *)
Get(index) ==
  /\ live
  /\ index < numberOfElements
  /\ ret' = [data |-> array[index]]
  /\ UNCHANGED <<array, numberOfElements, limit, live, used, handedBack, destroyed>>

(* parcArrayList_Size and parcArrayList_IsEmpty (lines 224-230, 300-304).   *)
Size ==
  /\ live
  /\ ret' \in {[size |-> numberOfElements], [empty |-> numberOfElements = 0]}
  /\ UNCHANGED <<array, numberOfElements, limit, live, used, handedBack, destroyed>>

(* parcArrayList_Clear (lines 416-422): RemoveAndDestroyAtIndex of the     *)
(* last element until the list is empty.                                   *)
Clear ==
  /\ live
  /\ destroyed' = [o \in Objects |-> destroyed[o] + Occurrences(o)]
  /\ numberOfElements' = 0
  /\ ret' = Void
  /\ UNCHANGED <<array, limit, live, used, handedBack>>

(* parcArrayList_Destroy (lines 306-331): destroyElement on every element, *)
(* then the array and the list are freed.                                  *)
Destroy ==
  /\ live
  /\ destroyed' = [o \in Objects |-> destroyed[o] + Occurrences(o)]
  /\ live' = FALSE
  /\ numberOfElements' = 0
  /\ array' = << >>
  /\ limit' = 0
  /\ ret' = Void
  /\ UNCHANGED <<used, handedBack>>

(* A new list once the last one is destroyed; its objects are fresh too.   *)
Create ==
  /\ ~live
  /\ \E c \in InitialCapacities :
       /\ limit' = c
       /\ array' = [i \in 0 .. c - 1 |-> Unset]
  /\ live' = TRUE
  /\ ret' = Void
  /\ UNCHANGED <<numberOfElements, used, handedBack, destroyed>>

Next ==
  \/ \E o \in Objects :
       \/ Add(o)
       \/ \E d \in InsertDepths \cap 0 .. numberOfElements :
            InsertAtIndex(numberOfElements - d, o)
       \/ \E i \in 0 .. numberOfElements - 1 : Set(i, o)
  \/ \E i \in 0 .. numberOfElements - 1 :
       RemoveAtIndex(i) \/ RemoveAndDestroyAtIndex(i) \/ Get(i)
  \/ Size
  \/ \E s \in OtherLists : AddAll(s) \/ Equals(s)
  \/ Clear
  \/ Destroy
  \/ Create

Spec == Init /\ [][Next]_vars

-----------------------------------------------------------------------------
TypeOK ==
  /\ limit \in Nat
  /\ numberOfElements \in 0 .. limit
  /\ array \in [0 .. limit - 1 -> Objects \cup {Unset}]
  /\ live \in BOOLEAN
  /\ used \subseteq Objects
  /\ handedBack \subseteq used
  /\ destroyed \in [Objects -> Nat]

(* Every object a caller stored is accounted for exactly once: it is in    *)
(* one slot in use, or was handed back to the caller, or was destroyed by  *)
(* one destroyElement call.  An element lost, duplicated in the array or   *)
(* destroyed twice (a double free) breaks it.                              *)
ElementsOwnedOnce ==
  \A o \in used :
    Occurrences(o) + (IF o \in handedBack THEN 1 ELSE 0) + destroyed[o] = 1

(* The array list implements the abstract PARCList.                        *)
Abstract == INSTANCE ObjectList WITH list <- Elements, NoObject <- Unset

ListSpec == Abstract!Spec

=============================================================================
