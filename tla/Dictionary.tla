------------------------------ MODULE Dictionary ------------------------------
(***************************************************************************)
(* What a PARCBufferDictionary promises its caller: a map from key buffers *)
(* to value buffers.  Put stores a value and returns the one it replaced   *)
(* or NULL, Get returns the value of a key or NULL, Remove forgets a key   *)
(* and returns its value.  ret is the value the last call returned.        *)
(***************************************************************************)
CONSTANTS Keys, Values, Null, Void

VARIABLES dict, ret

Init ==
  /\ dict = [k \in Keys |-> Null]
  /\ ret = Void

Put(k, v) ==
  /\ ret' = [data |-> dict[k]]
  /\ dict' = [dict EXCEPT ![k] = v]

Get(k) ==
  /\ ret' = [data |-> dict[k]]
  /\ UNCHANGED dict

Remove(k) ==
  /\ ret' = [data |-> dict[k]]
  /\ dict' = [dict EXCEPT ![k] = Null]

Next ==
  \E k \in Keys : \/ \E v \in Values : Put(k, v)
                  \/ Get(k)
                  \/ Remove(k)

Spec == Init /\ [][Next]_<<dict, ret>>

=============================================================================
