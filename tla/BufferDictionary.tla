--------------------------- MODULE BufferDictionary ---------------------------
(***************************************************************************)
(* PARCBufferDictionary (src/parc/algol/parc_BufferDictionary.c): a        *)
(* PARCHashCodeTable from key buffers to value buffers, its only state.    *)
(* Each call is a sequence of table calls, composed here from the table    *)
(* operators of HashCodeTable on the dictionary's table.  Buffers are      *)
(* compared by value (_parcBufferEquals) and hashed by HashCode.  The     *)
(* table parcHashCodeTable_Create makes has MIN_SIZE (256) slots; one of   *)
(* MinimumSize slots behaves the same for hash codes below its size, and   *)
(* expands sooner.  The reference counts of the buffers are not modelled:  *)
(* each Acquire is matched by the table's release of what it drops.        *)
(* The caller removes only the keys in DelKeys.                            *)
(***************************************************************************)
EXTENDS HashCodeTable

(* parcBufferDictionary_Create (lines 128-137) with _init (lines 102-107)  *)
(* is HashCodeTable's Init.                                                *)

(* Bug variant: the old value is read after the key is deleted.          *)
PutLateGet(k, v) ==
  \E first \in {TableAdd(hashtable, k, v)} :
    /\ first.done
    /\ IF first.added
         THEN /\ hashtable' = first.table
              /\ expandCount' = expandCount + first.tries
              /\ ret' = [data |-> Null]
         ELSE \E second \in {TableAdd(TableDel(first.table, k), k, v)} :
              /\ second.done
              /\ hashtable' = second.table
              /\ expandCount' = expandCount + first.tries + second.tries
              /\ ret' = [data |-> TableGet(TableDel(first.table, k), k)]

(* parcBufferDictionary_Put (lines 143-165): Add; when the key is there,   *)
(* Get the old value, Del the key and Add again, ignoring that result.     *)
Put(k, v) ==
  \E first \in {TableAdd(hashtable, k, v)} :
    /\ first.done
    /\ IF first.added
         THEN /\ hashtable' = first.table
              /\ expandCount' = expandCount + first.tries
              /\ ret' = [data |-> Null]
         ELSE \E second \in {TableAdd(TableDel(first.table, k), k, v)} :
              /\ second.done
              /\ hashtable' = second.table
              /\ expandCount' = expandCount + first.tries + second.tries
              /\ ret' = [data |-> TableGet(first.table, k)]

(* parcBufferDictionary_Get (lines 167-174).                                *)
DictionaryGet(k) ==
  /\ ret' = [data |-> TableGet(hashtable, k)]
  /\ UNCHANGED <<hashtable, expandCount>>

(* parcBufferDictionary_Remove (lines 176-187): Get, Acquire and Del.  The *)
(* caller removes keys it has put (parcBuffer_Acquire(NULL) is outside     *)
(* this tree).                                                             *)
Remove(k) ==
  /\ k \in DelKeys
  /\ TableGet(hashtable, k) /= Null
  /\ ret' = [data |-> TableGet(hashtable, k)]
  /\ hashtable' = TableDel(hashtable, k)
  /\ UNCHANGED expandCount

DictionaryNext ==
  \E k \in Keys : \/ \E v \in Values : Put(k, v)
                  \/ DictionaryGet(k)
                  \/ Remove(k)

DictionarySpec == Init /\ [][DictionaryNext]_vars

-----------------------------------------------------------------------------
(* Put returns the value it replaces, Get the value last put, and Remove  *)
(* the value it forgets: the dictionary behaves as a map, through the      *)
(* Get-Del-Add sequence of Put on a key that is there.                     *)
Dict == INSTANCE Dictionary WITH dict <- Lookup

DictionaryMapSpec == Dict!Spec

=============================================================================
