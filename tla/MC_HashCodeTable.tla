-------------------------- MODULE MC_HashCodeTable --------------------------
(* Small instances of HashCodeTable for TLC.                               *)
EXTENDS HashCodeTable

CONSTANTS k1, k2, k3, v1, v2

MC_Keys == {k1, k2, k3}
MC_Values == {v1, v2}

(* k1 and k2 share home slot 0; k3 has home slot 3 in tables of 4, 8 and  *)
(* 12 slots, out of reach of the cluster at slot 0 that two keys make.     *)
MC_ApartHash == [k \in MC_Keys |-> CASE k = k1 -> 0 [] k = k2 -> 0 [] k = k3 -> 3]

(* Only k3, which no other key ever probes past, is deleted.              *)
MC_ApartDelKeys == {k3}

(* k1 and k2 share a hashcode, k3 collides with them in a 2-slot table.   *)
MC_CollidingHash == [k \in MC_Keys |-> CASE k = k1 -> 0 [] k = k2 -> 0 [] k = k3 -> 2]

=============================================================================
