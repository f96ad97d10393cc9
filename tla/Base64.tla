-------------------------------- MODULE Base64 --------------------------------
(***************************************************************************)
(* parc_Base64 (src/parc/algol/parc_Base64.c): encoding of bytes in        *)
(* 3-byte quanta to 4 characters of base64code, padded with '=', and       *)
(* decoding in 4-character quanta that skips CR and LF.  A byte or a       *)
(* character is its code, 0 .. 255; the bit fields of a quantum are cut    *)
(* out with div and mod, as the code does with shifts and masks.           *)
(*                                                                         *)
(* The state is one use of the codec: a caller encodes plain into a        *)
(* PARCBufferComposer, the text is sent (the sender may break it into      *)
(* lines with CR LF), and the receiver decodes what arrives into another  *)
(* composer.                                                               *)
(***************************************************************************)
EXTENDS Naturals, Sequences, FiniteSets

CONSTANTS
  Plains,          \* the byte arrays a caller encodes
  BreakPositions,  \* where the sender may put a CR LF, counted in characters
  MaxBreaks,       \* bound on the line breaks in one text
  BreakAtEnd,      \* whether the sender also ends the text with a CR LF
  NotDecoded       \* result before the receiver has decoded

VARIABLES
  plain,    \* the bytes the caller encoded
  wire,     \* the text as it arrives
  breaks,   \* the number of line breaks put into it
  result    \* what parcBase64_DecodeArray gave the receiver

vars == <<plain, wire, breaks, result>>

CR == 13
LF == 10

(* pad, and the markers invalid ('~') and skip ('_') of decodeTable.      *)
Pad == 61
Invalid == 126
Skip == 95

(* base64code (line 88): the character of each 6-bit value.               *)
Base64Code(v) ==
  CASE v < 26 -> 65 + v
    [] v < 52 -> 97 + v - 26
    [] v < 62 -> 48 + v - 52
    [] v = 62 -> 43
    [] v = 63 -> 47

(* decodeTable (lines 96-113): the value of a base64 character, skip for  *)
(* LF and CR, invalid for the others (pad included).                       *)
DecodeTable(c) ==
  CASE c \in 65 .. 90 -> c - 65
    [] c \in 97 .. 122 -> c - 97 + 26
    [] c \in 48 .. 57 -> c - 48 + 52
    [] c = 43 -> 62
    [] c = 47 -> 63
    [] c \in {LF, CR} -> Skip
    [] OTHER -> Invalid

Min(a, b) == IF a < b THEN a ELSE b

-----------------------------------------------------------------------------
(* Bug variant: the third field takes the high bits of the third byte.    *)
SixBitShifted(p, index) ==
  CASE index = 0 -> p[1] \div 4
    [] index = 1 -> (p[1] % 4) * 16 + p[2] \div 16
    [] index = 2 -> (p[2] % 16) * 4 + ((p[3] \div 16) % 4)
    [] index = 3 -> p[3] % 64

(* The four 6-bit fields aaaaaabb | bbbbcccc | ccdddddd of a quantum p.   *)
SixBit(p, index) ==
  CASE index = 0 -> p[1] \div 4
    [] index = 1 -> (p[1] % 4) * 16 + p[2] \div 16
    [] index = 2 -> (p[2] % 16) * 4 + p[3] \div 64
    [] index = 3 -> p[3] % 64

(* _encodeWithPad (lines 119-166): the 3 - padLength bytes of quantum,     *)
(* zero-filled to 3, as 4 characters of which the last padLength are pad. *)
EncodeWithPad(quantum, padLength) ==
  LET p == [i \in 1 .. 3 |-> IF i <= 3 - padLength THEN quantum[i] ELSE 0]
  IN  [index \in 0 .. 3 |-> IF index + padLength < 4
                              THEN Base64Code(SixBit(p, index))
                              ELSE Pad]

(* parcBase64_EncodeArray (lines 242-256), and parcBase64_Encode (lines    *)
(* 230-240) on the remaining bytes of a buffer: one quantum per 3 bytes    *)
(* from offset 0, the last padded by 3 - min(3, length - offset).           *)
EncodeArray(a) ==
  LET Quantum(j) ==
        EncodeWithPad([i \in 1 .. 3 |-> IF 3 * j + i <= Len(a) THEN a[3 * j + i] ELSE 0],
                      3 - Min(3, Len(a) - 3 * j))
  IN  [i \in 1 .. 4 * ((Len(a) + 2) \div 3) |-> Quantum((i - 1) \div 4)[(i - 1) % 4]]

(* _decode (lines 171-228): the bytes of a quantum of 4 characters; pad   *)
(* contributes nothing, and length_to_append is set by the last character *)
(* that is not pad.  An invalid character fails.                           *)
Decode(quantum) ==
  LET v(i) == IF quantum[i + 1] = Pad THEN 0 ELSE DecodeTable(quantum[i + 1])
      threebytes == << v(0) * 4 + v(1) \div 16,
                       (v(1) % 16) * 16 + v(2) \div 4,
                       (v(2) % 4) * 64 + v(3) >>
      Set == {i \in 1 .. 3 : quantum[i + 1] /= Pad}
      length == IF Set = {} THEN 0 ELSE CHOOSE i \in Set : \A j \in Set : j <= i
  IN  IF \E i \in 0 .. 3 : quantum[i + 1] /= Pad /\ DecodeTable(quantum[i + 1]) = Invalid
        THEN [ok |-> FALSE, bytes |-> << >>]
        ELSE [ok |-> TRUE, bytes |-> SubSeq(threebytes, 1, length)]

(* Bug variant: CR and LF end a quantum instead of being skipped.         *)
GatherNoSkip(a, offset) ==
  LET Taken(i) == DecodeTable(a[i]) < 64 \/ a[i] = Pad
      Stop == {i \in offset + 1 .. Len(a) : ~Taken(i)}
      end == IF Stop = {} THEN Len(a) + 1 ELSE CHOOSE i \in Stop : \A j \in Stop : i <= j
      Found == {i \in offset + 1 .. end - 1 : Taken(i)}
      Nth(n) == CHOOSE i \in Found : Cardinality({j \in Found : j <= i}) = n
      index == Min(4, Cardinality(Found))
  IN  [index |-> index,
       quantum |-> [n \in 1 .. index |-> a[Nth(n)]],
       offset |-> IF index = 4 THEN Nth(4) ELSE end - 1]

(* The inner loop of parcBase64_DecodeArray (lines 296-318) from offset:   *)
(* the next 4 characters that are base64 or pad, skipping CR and LF and   *)
(* stopping at any other character or at the end of the input.  index is *)
(* how many it found, offset where it stopped.                             *)
Gather(a, offset) ==
  LET Taken(i) == DecodeTable(a[i]) < 64 \/ a[i] = Pad
      Stop == {i \in offset + 1 .. Len(a) : ~Taken(i) /\ DecodeTable(a[i]) /= Skip}
      end == IF Stop = {} THEN Len(a) + 1 ELSE CHOOSE i \in Stop : \A j \in Stop : i <= j
      Found == {i \in offset + 1 .. end - 1 : Taken(i)}
      Nth(n) == CHOOSE i \in Found : Cardinality({j \in Found : j <= i}) = n
      index == Min(4, Cardinality(Found))
  IN  [index |-> index,
       quantum |-> [n \in 1 .. index |-> a[Nth(n)]],
       offset |-> IF index = 4 THEN Nth(4) ELSE end - 1]

(* parcBase64_DecodeArray (lines 277-332), and parcBase64_Decode and       *)
(* DecodeString (lines 258-275) on a whole buffer or string: quanta are     *)
(* decoded while input remains; an iteration that does not find 4         *)
(* characters, or whose quantum fails, rewinds the output and returns      *)
(* NULL.  ok is FALSE for NULL.                                            *)
DecodeArray(a) ==
  LET step[j \in 0 .. Len(a)] ==
        IF j = 0 THEN [offset |-> 0, success |-> TRUE, bytes |-> << >>]
        ELSE LET p == step[j - 1]
                 g == Gather(a, p.offset)
                 d == Decode(g.quantum)
             IN  IF ~(p.offset < Len(a) /\ p.success) THEN p
                 ELSE [offset |-> g.offset,
                       success |-> g.index = 4 /\ d.ok,
                       bytes |-> IF g.index = 4 THEN p.bytes \o d.bytes ELSE p.bytes]
  IN  IF step[Len(a)].success THEN [ok |-> TRUE, bytes |-> step[Len(a)].bytes]
                              ELSE [ok |-> FALSE, bytes |-> << >>]

-----------------------------------------------------------------------------
(* The caller encodes a byte array with parcBase64_EncodeArray.            *)
Encode(a) ==
  /\ plain' = a
  /\ wire' = EncodeArray(a)
  /\ breaks' = 0
  /\ result' = NotDecoded

(* The first text has just been encoded.                                   *)
Init ==
  /\ plain \in Plains
  /\ wire = EncodeArray(plain)
  /\ breaks = 0
  /\ result = NotDecoded

(* The sender breaks the text with a CR LF after its first i characters;  *)
(* at the end of the text only when BreakAtEnd.                            *)
LineBreak(i) ==
  /\ result = NotDecoded
  /\ breaks < MaxBreaks
  /\ i < Len(wire) \/ (BreakAtEnd /\ i = Len(wire))
  /\ wire' = SubSeq(wire, 1, i) \o << CR, LF >> \o SubSeq(wire, i + 1, Len(wire))
  /\ breaks' = breaks + 1
  /\ UNCHANGED <<plain, result>>

(* The receiver decodes the text with parcBase64_DecodeArray.              *)
Receive ==
  /\ result = NotDecoded
  /\ result' = DecodeArray(wire)
  /\ UNCHANGED <<plain, wire, breaks>>

Next ==
  \/ \E a \in Plains : Encode(a)
  \/ \E i \in BreakPositions : LineBreak(i)
  \/ Receive

Spec == Init /\ [][Next]_vars

-----------------------------------------------------------------------------
TypeOK ==
  /\ plain \in Plains
  /\ wire \in Seq(0 .. 255)
  /\ breaks \in 0 .. MaxBreaks
  /\ result \in [ok : BOOLEAN, bytes : Seq(0 .. 255)] \cup {NotDecoded}

(* RFC 4648 base64 of a, from its bits: each group of 6 bits, the last   *)
(* filled with zero bits, is a character, and '=' pads to a multiple of 4. *)
Rfc4648(a) ==
  LET nbits == 8 * Len(a)
      B(k) == IF k <= nbits THEN (a[(k - 1) \div 8 + 1] \div 2 ^ (7 - ((k - 1) % 8))) % 2 ELSE 0
      Group(g) == 32 * B(6 * g + 1) + 16 * B(6 * g + 2) + 8 * B(6 * g + 3)
                  + 4 * B(6 * g + 4) + 2 * B(6 * g + 5) + B(6 * g + 6)
      nchars == (nbits + 5) \div 6
  IN  [i \in 1 .. 4 * ((nchars + 3) \div 4) |->
         IF i <= nchars THEN Base64Code(Group(i - 1)) ELSE Pad]

(* parcBase64_EncodeArray produces the standard base64 of the bytes: the   *)
(* quanta, their bit fields and their padding agree with RFC 4648, which   *)
(* the file's header follows.                                              *)
StandardEncoding == breaks = 0 => wire = Rfc4648(plain)

(* Decoding gives back the bytes that were encoded, whatever line breaks   *)
(* the sender put into the text: the header of parc_Base64.c says decoding *)
(* accepts CRLF line breaks in the data and skips them.                    *)
RoundTrip ==
  result /= NotDecoded => result = [ok |-> TRUE, bytes |-> plain]

=============================================================================
