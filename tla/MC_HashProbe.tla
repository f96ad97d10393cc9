---------------------------- MODULE MC_HashProbe ----------------------------
(* HashCodeTable with keys that all have one hash code, enough of them to  *)
(* fill a whole probe of MAX_PROBE_LENGTH slots.  The keys are 1 .. N and  *)
(* the caller adds them in that order, so that the table's contents after  *)
(* n adds do not depend on the order (with any order the states would be   *)
(* the orderings of the keys, beyond TLC).                                 *)
EXTENDS HashCodeTable

(* keyHashCodeFunc gives every key the same hash code.                     *)
MC_SameHash == [k \in Keys |-> 7]

(* The caller's next key: the first one not yet in the table.             *)
NextKey(k) == \A j \in Keys : j < k => TableGet(hashtable, j) /= Null

ProbeNext ==
  \/ \E k \in Keys : /\ NextKey(k)
                     /\ \E v \in Values : Add(k, v)
  \/ \E k \in Keys : Get(k)
  \/ Length

ProbeSpec == Init /\ [][ProbeNext]_vars

=============================================================================
