------------------------------ MODULE MC_Base64 ------------------------------
(* The base64 codec on texts that the sender ends with a line break.      *)
EXTENDS Base64

(* Byte arrays of 1 to 3 bytes: one quantum of text.                       *)
MC_NonEmptyPlains == UNION {[1 .. n -> {0, 99, 255}] : n \in 1 .. 3}

=============================================================================
