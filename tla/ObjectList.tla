------------------------------ MODULE ObjectList ------------------------------
(***************************************************************************)
(* What a PARCList promises its caller (the PARCListInterface that both    *)
(* PARCLinkedList and PARCArrayList export): a finite sequence of object   *)
(* pointers.  Positions here are 1-based; the C indices are 0-based.       *)
(* ret is the value the last call returned: Void for calls whose result is *)
(* fixed (the list itself, or true), an element or NoObject for NULL.      *)
(* A destroyed list is the empty sequence; nothing happens after it.       *)
(***************************************************************************)
EXTENDS Naturals, Sequences

CONSTANTS
  Objects, NoObject, Void,
  MaxOther   \* bound on the length of another list a call takes

VARIABLES list, ret

SX == INSTANCE SequencesExt

Init ==
  /\ list = << >>
  /\ ret = Void

(* Add, Append, Prepend and InsertAtIndex.                                 *)
InsertAt(i, o) ==
  /\ i \in 1 .. Len(list) + 1
  /\ list' = SX!InsertAt(list, i, o)
  /\ ret' = Void

(* RemoveAtIndex, RemoveFirst and RemoveLast hand the element back.        *)
RemoveAt(i) ==
  /\ i \in 1 .. Len(list)
  /\ list' = SX!RemoveAt(list, i)
  /\ ret' = [data |-> list[i]]

(* RemoveAndDestroyAtIndex drops the element.                              *)
DropAt(i) ==
  /\ i \in 1 .. Len(list)
  /\ list' = SX!RemoveAt(list, i)
  /\ ret' = Void

SetAt(i, o) ==
  /\ i \in 1 .. Len(list)
  /\ list' = [list EXCEPT ![i] = o]
  /\ ret' = Void

(* Get, GetAtIndex, Peek, PeekFirst and PeekLast.                          *)
Read(i) ==
  /\ i \in 1 .. Len(list)
  /\ ret' = [data |-> list[i]]
  /\ UNCHANGED list

(* A peek or a removal at an end of the empty list returns NULL.          *)
NoneAtEnd ==
  /\ list = << >>
  /\ ret' = [data |-> NoObject]
  /\ UNCHANGED list

(* Remove(element): the first equal element goes; whether one did.        *)
RemoveEqual(o) ==
  /\ ret' = [removed |-> SX!Contains(list, o)]
  /\ list' = SX!RemoveFirst(list, o)

Find(o) ==
  /\ ret' = [found |-> SX!Contains(list, o)]
  /\ UNCHANGED list

Length ==
  /\ ret' \in {[size |-> Len(list)], [empty |-> list = << >>]}
  /\ UNCHANGED list

(* AppendAll and AddAll: the elements of s go at the end, in order.       *)
Concat(s) ==
  /\ list' = list \o s
  /\ ret' = Void

(* Equals with a list holding s.                                           *)
Equal(s) ==
  /\ ret' = [equal |-> list = s]
  /\ UNCHANGED list

(* Copy returns a list holding the same elements in order.                 *)
Duplicate ==
  /\ ret' = [copy |-> list]
  /\ UNCHANGED list

(* Clear, and the destruction of the list.                                 *)
Clear ==
  /\ list' = << >>
  /\ ret' = Void

Next ==
  \/ \E i \in 1 .. Len(list) + 1, o \in Objects : InsertAt(i, o)
  \/ \E i \in 1 .. Len(list) : RemoveAt(i) \/ DropAt(i) \/ Read(i)
                               \/ \E o \in Objects : SetAt(i, o)
  \/ NoneAtEnd
  \/ \E o \in Objects : RemoveEqual(o) \/ Find(o)
  \/ Length
  \/ \E n \in 0 .. MaxOther : \E s \in [1 .. n -> Objects] : Concat(s) \/ Equal(s)
  \/ Duplicate
  \/ Clear

Spec == Init /\ [][Next]_<<list, ret>>

=============================================================================
