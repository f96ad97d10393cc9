--------------------------------- MODULE URI ---------------------------------
(***************************************************************************)
(* PARCURI (src/parc/algol/parc_URI.c): parcURI_Parse splits a string into *)
(* scheme, authority, path, query and fragment, parcURI_ToString builds   *)
(* the string back, parcURI_Copy and parcURI_Equals copy and compare the  *)
(* parts.  A string is a sequence of characters; a part that is absent is *)
(* Null (a NULL pointer), which differs from the empty string.  Reading   *)
(* past the end of a string reads its terminating NUL.                    *)
(*                                                                         *)
(* The path is a PARCURIPath, whose code is not in this tree: its parse  *)
(* is taken to skip one leading '/' and to take the characters up to '?', *)
(* '#' or the end, and parcURIPath_BuildString to give them back, after   *)
(* the '/' that parcURI_BuildString puts before it.                        *)
(***************************************************************************)
EXTENDS Naturals, Sequences

CONSTANTS
  Texts,   \* the strings callers parse
  Null     \* a NULL pointer

VARIABLES
  text,    \* the string last given to parcURI_Parse
  uri,     \* the PARCURI it returned, Null when the parse failed
  built    \* the string parcURI_ToString last returned for uri, or Null

vars == <<text, uri, built>>

NUL == "NUL"

(* The character at i, and NUL past the end.                               *)
At(s, i) == IF i \in 1 .. Len(s) THEN s[i] ELSE NUL

(* The first index from i on whose character is in stops or is NUL.       *)
Scan(s, i, stops) ==
  LET hits == {j \in i .. Len(s) + 1 : At(s, j) \in stops \cup {NUL}}
  IN  CHOOSE j \in hits : \A h \in hits : j <= h

(* The characters from i to j - 1 (parcMemory_StringDuplicate).            *)
Copied(s, i, j) == SubSeq(s, i, j - 1)

(* A parser's result: the part, and where the pointer is left.             *)
Part(value, next) == [value |-> value, next |-> next]

-----------------------------------------------------------------------------
(* _parseScheme (lines 251-275): the characters before the first ':';     *)
(* NULL when there is no ':' or nothing before it.                         *)
ParseScheme(s) ==
  LET end == Scan(s, 1, {":"})
  IN  IF At(s, end) = NUL \/ end = 1 THEN Part(Null, 1)
                                      ELSE Part(Copied(s, 1, end), end + 1)

(* _parseAuthority (lines 290-311): after "//", the characters up to the   *)
(* next '/' or the end; the pointer is left at that '/'.                   *)
ParseAuthority(s, i) ==
  IF At(s, i) = "/" /\ At(s, i + 1) = "/"
    THEN LET end == Scan(s, i + 2, {"/"}) IN Part(Copied(s, i + 2, end), end)
    ELSE Part(Null, i)

(* parcURIPath_Parse, not in this tree (see the header).                   *)
ParsePath(s, i) ==
  LET from == IF At(s, i) = "/" THEN i + 1 ELSE i
      end == Scan(s, from, {"?", "#"})
  IN  Part(Copied(s, from, end), end)

(* _parseQuery (lines 313-329): after '?', the characters up to '#' or    *)
(* the end.                                                                *)
ParseQuery(s, i) ==
  IF At(s, i) = "?"
    THEN LET end == Scan(s, i + 1, {"#"}) IN Part(Copied(s, i + 1, end), end)
    ELSE Part(Null, i)

(* _parseFragment (lines 331-346): after '#', the rest of the string.     *)
ParseFragment(s, i) ==
  IF At(s, i) = "#"
    THEN Part(Copied(s, i + 1, Len(s) + 1), Len(s) + 1)
    ELSE Part(Null, i)

(* parcURI_Parse (lines 399-421): the parts in order, each parser starting *)
(* where the last one left the pointer; NULL when the scheme is malformed. *)
Parse(s) ==
  LET scheme == ParseScheme(s)
      authority == ParseAuthority(s, scheme.next)
      path == ParsePath(s, authority.next)
      query == ParseQuery(s, path.next)
      fragment == ParseFragment(s, query.next)
  IN  IF scheme.value = Null THEN Null
      ELSE [scheme |-> scheme.value, authority |-> authority.value,
            path |-> path.value, query |-> query.value, fragment |-> fragment.value]

(* Bug variant: an empty part is left out as if it were NULL.            *)
MarkedNonEmpty(marker, part) == IF part = Null \/ part = << >> THEN << >> ELSE marker \o part

(* A part after its marker, or nothing when it is NULL: the tests          *)
(* if (parcURI_GetAuthority(uri)) and the like (lines 443, 451, 455).      *)
Marked(marker, part) == IF part = Null THEN << >> ELSE marker \o part

(* parcURI_BuildString (lines 438-461), with parcURI_ToString (lines       *)
(* 462-479) producing the composer's string.                               *)
BuildString(u) ==
  u.scheme \o << ":" >> \o Marked(<< "/", "/" >>, u.authority) \o << "/" >> \o u.path
    \o Marked(<< "?" >>, u.query) \o Marked(<< "#" >>, u.fragment)

(* parcURI_Equals (lines 217-249) with _parcURI_SchemeEquals,              *)
(* AuthorityEquals, QueryEquals and FragmentEquals (lines 169-215): each  *)
(* part is the same pointer, both NULL, or equal strings.                  *)
Equals(a, b) ==
  \/ a = b
  \/ /\ a /= Null /\ b /= Null
     /\ \A p \in {"scheme", "authority", "path", "query", "fragment"} : a[p] = b[p]

-----------------------------------------------------------------------------
Init ==
  /\ text = << >>
  /\ uri = Null
  /\ built = Null

(* parcURI_Parse, and parcURI_CreateFromFormatString and CreateFromValist *)
(* (lines 139-163) on the formatted string.                                *)
ParseText(s) ==
  /\ text' = s
  /\ uri' = Parse(s)
  /\ built' = Null

(* parcURI_ToString on the parsed URI.                                     *)
ToString ==
  /\ uri /= Null
  /\ built' = BuildString(uri)
  /\ UNCHANGED <<text, uri>>

Next ==
  \/ \E s \in Texts : ParseText(s)
  \/ ToString

Spec == Init /\ [][Next]_vars

-----------------------------------------------------------------------------
TypeOK ==
  /\ text \in Seq(STRING)
  /\ uri = Null \/ DOMAIN uri = {"scheme", "authority", "path", "query", "fragment"}
  /\ built = Null \/ built \in Seq(STRING)

(* The string parcURI_ToString builds for a parsed URI parses back to an  *)
(* equal URI (parcURI_Equals): the separators BuildString puts and the     *)
(* places where _parseAuthority, the path, _parseQuery and _parseFragment *)
(* stop agree, for every part that may be absent or empty.                 *)
URIRoundTrip == built /= Null => Equals(Parse(built), uri)

=============================================================================
