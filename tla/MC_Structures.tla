---------------------------- MODULE MC_Structures ----------------------------
(***************************************************************************)
(* The single-threaded collections of the library, checked side by side:  *)
(* PARCHashCodeTable, PARCLinkedList, PARCArrayList, PARCBufferDictionary  *)
(* PARCSimpleBufferPool with its PARCLinkedList free list, the base64     *)
(* codec and PARCURI.  A behaviour exercises one of them, chosen at the    *)
(* start (component), so                                                   *)
(* their state spaces add up instead of multiplying.  The dictionary's     *)
(* state is a hash table: it runs on the variables of the table component. *)
(***************************************************************************)
EXTENDS MC_HashCodeTable, BufferDictionary, TLC

CONSTANTS o1, o2, o3, n1, n2, n3, p1, p2, b1, b2, Nil

VARIABLES
  component,
  llHead, llTail, llSize, llNext, llPrevious, llObject, llFree, llLive,
  llIterator, llAborted, llRet,
  alArray, alSize, alLimit, alLive, alUsed, alHandedBack, alDestroyed, alRet,
  pHead, pTail, pSize, pNext, pPrevious, pObject, pFree, pLive, pIterator,
  pAborted, pRet, poolLive, pStatus, pDescriptor, pRefs, pFreedPoolRead,
  b64Plain, b64Wire, b64Breaks, b64Result,
  uText, uURI, uBuilt

Components == {"table", "linkedList", "arrayList", "dictionary", "pool", "codec", "uri"}

MC_Nodes == {n1, n2, n3}

(* The allocator may return any free node, so node addresses that are     *)
(* permuted give the same behaviours of the list.                          *)
MC_NodeSymmetry == Permutations(MC_Nodes)

LL == INSTANCE LinkedList WITH
        head <- llHead, tail <- llTail, size <- llSize, next <- llNext,
        previous <- llPrevious, object <- llObject, free <- llFree, live <- llLive,
        iterator <- llIterator, aborted <- llAborted, ret <- llRet,
        Objects <- {o1, o2}, Nodes <- MC_Nodes, NoObject <- Null,
        InsertIndexes <- {1, 2}

AL == INSTANCE ArrayList WITH
        array <- alArray, numberOfElements <- alSize, limit <- alLimit,
        live <- alLive, used <- alUsed, handedBack <- alHandedBack,
        destroyed <- alDestroyed, ret <- alRet,
        Objects <- {o1, o2, o3}, Unset <- Null,
        InitialCapacities <- {0, 2}, InsertDepths <- {0, 1}

Pool == INSTANCE SimpleBufferPool WITH
          head <- pHead, tail <- pTail, size <- pSize, next <- pNext,
          previous <- pPrevious, object <- pObject, free <- pFree, live <- pLive,
          iterator <- pIterator, aborted <- pAborted, ret <- pRet,
          status <- pStatus, descriptor <- pDescriptor, refs <- pRefs,
          freedPoolRead <- pFreedPoolRead,
          Buffers <- {b1, b2}, Nodes <- {p1, p2}, NoObject <- Null,
          Limit <- 1, MaxRefs <- 2, ReleasePoolLast <- TRUE

(* The byte arrays of up to 4 bytes, from bytes whose bits differ in each *)
(* 6-bit field: 0, 99 (01100011) and 255.                                  *)
MC_Plains == UNION {[1 .. n -> {0, 99, 255}] : n \in 0 .. 4}

Codec == INSTANCE Base64 WITH
           plain <- b64Plain, wire <- b64Wire, breaks <- b64Breaks, result <- b64Result,
           Plains <- MC_Plains, BreakPositions <- {0, 1, 3, 4, 5, 8}, MaxBreaks <- 2,
           BreakAtEnd <- FALSE, NotDecoded <- Null

(* The strings of up to 4 characters over the URI delimiters and a letter. *)
MC_Texts == UNION {[1 .. n -> {"a", ":", "/", "?", "#"}] : n \in 0 .. 4}

Uri == INSTANCE URI WITH text <- uText, uri <- uURI, built <- uBuilt, Texts <- MC_Texts

llVars == <<llHead, llTail, llSize, llNext, llPrevious, llObject, llFree, llLive,
            llIterator, llAborted, llRet>>
alVars == <<alArray, alSize, alLimit, alLive, alUsed, alHandedBack, alDestroyed, alRet>>
pVars == <<pHead, pTail, pSize, pNext, pPrevious, pObject, pFree, pLive, pIterator,
           pAborted, pRet, poolLive, pStatus, pDescriptor, pRefs, pFreedPoolRead>>
cVars == <<b64Plain, b64Wire, b64Breaks, b64Result>>
uVars == <<uText, uURI, uBuilt>>
allVars == <<component, vars, llVars, alVars, pVars, cVars, uVars>>

StructuresInit ==
  /\ component \in Components
  /\ Init
  /\ LL!Init
  /\ AL!Init
  /\ component /= "arrayList" => alLimit = 0
  /\ Pool!Init
  /\ Codec!Init
  /\ component /= "codec" => b64Plain = << >>
  /\ Uri!Init

StructuresNext ==
  \/ component = "table" /\ Next /\ UNCHANGED <<component, llVars, alVars, pVars, cVars, uVars>>
  \/ component = "dictionary" /\ DictionaryNext
     /\ UNCHANGED <<component, llVars, alVars, pVars, cVars, uVars>>
  \/ component = "linkedList" /\ LL!Next /\ UNCHANGED <<component, vars, alVars, pVars, cVars, uVars>>
  \/ component = "arrayList" /\ AL!Next /\ UNCHANGED <<component, vars, llVars, pVars, cVars, uVars>>
  \/ component = "pool" /\ Pool!Next /\ UNCHANGED <<component, vars, llVars, alVars, cVars, uVars>>
  \/ component = "codec" /\ Codec!Next
     /\ UNCHANGED <<component, vars, llVars, alVars, pVars, uVars>>
  \/ component = "uri" /\ Uri!Next
     /\ UNCHANGED <<component, vars, llVars, alVars, pVars, cVars>>

StructuresSpec == StructuresInit /\ [][StructuresNext]_allVars

-----------------------------------------------------------------------------
(* The table's state seen by each phase: the map it represents and the    *)
(* last result while that phase runs, an empty map and Void otherwise.    *)
PhaseLookup(c) == IF component = c THEN Lookup ELSE [k \in Keys |-> Null]

PhaseRet(c) == IF component = c THEN ret ELSE Void

TableMap == INSTANCE FiniteMap WITH dict <- PhaseLookup("table"), ret <- PhaseRet("table")

DictionaryMap == INSTANCE Dictionary WITH dict <- PhaseLookup("dictionary"),
                                          ret <- PhaseRet("dictionary")

(* The hash table's Add, Del, Get and Length behave as on a finite map.   *)
TableMapSpec == TableMap!Spec

(* PARCBufferDictionary behaves as a map whose Put returns the old value. *)
BufferDictionarySpec == DictionaryMap!Spec

(* The linked list's nodes form one chain from head to tail of size nodes. *)
LinkedListWellFormed == LL!WellFormed

(* An open iterator never stands on a freed node.                          *)
IteratorOnList == LL!IteratorOnList

(* PARCLinkedList implements the abstract PARCList.                        *)
LinkedListSpec == LL!ListSpec

(* Every element stored in a PARCArrayList is in it once, handed back, or  *)
(* destroyed once.                                                         *)
ElementsOwnedOnce == AL!ElementsOwnedOnce

(* PARCArrayList implements the abstract PARCList.                         *)
ArrayListSpec == AL!ListSpec

(* Every buffer of the pool is allocated exactly while a caller holds it   *)
(* or the free list lists it: no leak, no freed buffer in use.             *)
BuffersAccounted == Pool!BuffersAccounted

(* The pool's free list is within its limit and holds unreferenced buffers. *)
FreeListSound == Pool!FreeListSound

(* parcBase64_EncodeArray gives the RFC 4648 encoding of the bytes.        *)
StandardEncoding == Codec!StandardEncoding

(* parcBase64_DecodeArray gives back the encoded bytes, skipping the CR LF *)
(* line breaks the sender put between characters.                          *)
RoundTrip == Codec!RoundTrip

(* parcURI_ToString of a parsed URI parses back to an equal URI.           *)
URIRoundTrip == Uri!URIRoundTrip

=============================================================================
