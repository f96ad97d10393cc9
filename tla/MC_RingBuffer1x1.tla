--------------------------- MODULE MC_RingBuffer1x1 ---------------------------
(* Small instances of RingBuffer1x1 for TLC.                               *)
EXTENDS RingBuffer1x1
=============================================================================
