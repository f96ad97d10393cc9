------------------------------ MODULE FiniteMap ------------------------------
(***************************************************************************)
(* What a PARCHashCodeTable promises its caller: a finite map from keys to *)
(* data.  Add stores a key that is absent and reports whether it did, Del  *)
(* forgets a key, Get returns the data of a key or NULL, Length counts the *)
(* keys.  ret is the value the last call returned, tagged by the call.    *)
(***************************************************************************)
EXTENDS Naturals, FiniteSets

CONSTANTS Keys, Values, Null, Void

VARIABLES dict, ret

(* The keys the map holds.                                                 *)
Present == {k \in Keys : dict[k] /= Null}

Init ==
  /\ dict = [k \in Keys |-> Null]
  /\ ret = Void

(* An absent key is stored; a present one is left as it is.              *)
Add(k, v) ==
  /\ ret' = [added |-> dict[k] = Null]
  /\ dict' = IF dict[k] = Null THEN [dict EXCEPT ![k] = v] ELSE dict

Del(k) ==
  /\ dict' = [dict EXCEPT ![k] = Null]
  /\ ret' = Void

Get(k) ==
  /\ ret' = [data |-> dict[k]]
  /\ UNCHANGED dict

Length ==
  /\ ret' = [length |-> Cardinality(Present)]
  /\ UNCHANGED dict

Next ==
  \/ \E k \in Keys : \/ \E v \in Values : Add(k, v)
                     \/ Del(k)
                     \/ Get(k)
  \/ Length

Spec == Init /\ [][Next]_<<dict, ret>>

=============================================================================
