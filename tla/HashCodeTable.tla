---------------------------- MODULE HashCodeTable ----------------------------
(***************************************************************************)
(* PARCHashCodeTable (src/parc/algol/parc_HashCodeTable.c): an open-       *)
(* addressing table with linear probing over at most MAX_PROBE_LENGTH      *)
(* slots, grown by _expand when three quarters full or when a probe runs   *)
(* out.  The table is used by one thread: each public call is one step.   *)
(* Keys are compared by value; HashCode is the caller's keyHashCodeFunc.   *)
(* The key and data destroyers are the caller's and are not modelled.     *)
(***************************************************************************)
EXTENDS Naturals, FiniteSets

CONSTANTS
  Keys,         \* the keys a caller passes
  Values,       \* the data a caller stores
  HashCode,     \* keyHashCodeFunc, a function from Keys to Nat
  DelKeys,      \* the keys the caller ever deletes
  MinimumSize,  \* the minimumSize given to parcHashCodeTable_Create_Size
  MaxProbe,     \* MAX_PROBE_LENGTH (20)
  ExpandBound,  \* bound on the factors tried by _expand and on its retries
  Null          \* NULL, also a cleared key or data field

ASSUME Assumptions ==
  /\ HashCode \in [Keys -> Nat]
  /\ DelKeys \subseteq Keys
  /\ MinimumSize \in Nat \ {0}
  /\ MaxProbe \in Nat \ {0}
  /\ ExpandBound \in Nat \ {0, 1}
  /\ Null \notin Keys \cup Values

VARIABLES
  hashtable,    \* table->hashtable: entries, tableLimit, tableSize, expandThreshold
  expandCount,  \* table->expandCount
  ret           \* the value returned by the last call

vars == <<hashtable, expandCount, ret>>

(* Returned values, tagged by the call: Add's bool, Get's data, Length's   *)
(* count, and nothing for Create and Del.                                  *)
Void == [void |-> TRUE]

AddResults == {"ADD_OK", "ADD_DUP", "ADD_NOSPACE"}

(* A zeroed HashTableEntry: not in use.                                   *)
Empty == [key |-> Null, data |-> Null, hashcode |-> 0]

Entries == [key : Keys \cup {Null}, data : Values \cup {Null}, hashcode : Nat]

Least(S) == CHOOSE s \in S : \A r \in S : s <= r

(* A freshly allocated and cleared LinearAddressingHashTable of limit      *)
(* slots, expanding at 75% use (lines 221-224, 258-266).                   *)
NewTable(limit) ==
  [entries |-> [i \in 0 .. limit - 1 |-> Empty],
   tableLimit |-> limit,
   tableSize |-> 0,
   expandThreshold |-> limit - limit \div 4]

(* The slot visited after s steps of a probe from hashcode h.             *)
Slot(t, h, s) == (h + s) % t.tableLimit

(* Bug variant: the probe stops only at an empty slot.                    *)
InnerAddNoDupCheck(t, h, k, v) ==
  LET Stops == {s \in 0 .. MaxProbe - 1 : t.entries[Slot(t, h, s)].key = Null}
  IN  IF Stops = {} THEN [result |-> "ADD_NOSPACE", table |-> t]
      ELSE LET i == Slot(t, h, Least(Stops))
           IN  [result |-> "ADD_OK",
                table |-> [t EXCEPT !.entries[i] = [key |-> k, data |-> v,
                                                    hashcode |-> h],
                                    !.tableSize = @ + 1]]

(* _innerTableAdd: probe up to MaxProbe slots from the home slot; the      *)
(* first empty slot takes the entry, an equal key first means a duplicate. *)
InnerAdd(t, h, k, v) ==
  LET Stops == {s \in 0 .. MaxProbe - 1 :
                  LET e == t.entries[Slot(t, h, s)]
                  IN  e.key = Null \/ (e.hashcode = h /\ e.key = k)}
  IN  IF Stops = {} THEN [result |-> "ADD_NOSPACE", table |-> t]
      ELSE LET i == Slot(t, h, Least(Stops))
           IN  IF t.entries[i].key = Null
                 THEN [result |-> "ADD_OK",
                       table |-> [t EXCEPT !.entries[i] = [key |-> k, data |-> v,
                                                           hashcode |-> h],
                                           !.tableSize = @ + 1]]
                 ELSE [result |-> "ADD_DUP", table |-> t]

(* The number of slots of t in use.                                      *)
InUse(t) == Cardinality({i \in 0 .. t.tableLimit - 1 : t.entries[i].key /= Null})

(* The rehash after an _innerTableAdd with result r, going on at slot i.  *)
Continue(r, i) == [result |-> r.result, table |-> r.table, from |-> i]

(* Bug variant: the rehash loop stops one entry short.                    *)
RehashIntoSkipLast(t, limit) ==
  LET step[j \in 0 .. InUse(t)] ==
        IF j = 0 THEN [result |-> "ADD_OK", table |-> NewTable(limit), from |-> 0]
        ELSE LET p == step[j - 1]
                 i == Least({u \in p.from .. t.tableLimit - 1 : t.entries[u].key /= Null})
                 e == t.entries[i]
             IN  IF p.result /= "ADD_OK" \/ j = InUse(t) THEN p
                 ELSE Continue(InnerAdd(p.table, e.hashcode, e.key, e.data), i + 1)
  IN  step[InUse(t)]

(* _rehash (lines 193-206) into a new table of limit slots: the entries  *)
(* in use are added in slot order (from is the slot after the last one    *)
(* added); the first result other than ADD_OK stops it.                   *)
RehashInto(t, limit) ==
  LET step[j \in 0 .. InUse(t)] ==
        IF j = 0 THEN [result |-> "ADD_OK", table |-> NewTable(limit), from |-> 0]
        ELSE LET p == step[j - 1]
                 i == Least({u \in p.from .. t.tableLimit - 1 : t.entries[u].key /= Null})
                 e == t.entries[i]
             IN  IF p.result /= "ADD_OK" THEN p
                 ELSE Continue(InnerAdd(p.table, e.hashcode, e.key, e.data), i + 1)
  IN  step[InUse(t)]

(* _expand: try factors 2, 3, ... until the rehash does not run out of     *)
(* probes; each try counts in expandCount.  The table rehashed so far is   *)
(* installed whatever else the rehash returned.  done is FALSE when no     *)
(* factor up to ExpandBound works (the code would go on looping).          *)
Expand(t) ==
  LET Works == {e \in 2 .. ExpandBound :
                  RehashInto(t, t.tableLimit * e).result /= "ADD_NOSPACE"}
  IN  IF Works = {} THEN [done |-> FALSE, table |-> t, tries |-> 0]
      ELSE [done |-> TRUE,
            table |-> RehashInto(t, t.tableLimit * Least(Works)).table,
            tries |-> Least(Works) - 1]

(* The do-while of parcHashCodeTable_Add (lines 319-324): add, and expand  *)
(* and add again as long as the add runs out of probes.                    *)
AddLoop(t, h, k, v) ==
  LET step[j \in 0 .. ExpandBound] ==
        IF j = 0 THEN [done |-> TRUE, tries |-> 0, r |-> InnerAdd(t, h, k, v)]
        ELSE LET p == step[j - 1]
                 x == Expand(p.r.table)
             IN  IF ~p.done \/ p.r.result /= "ADD_NOSPACE" THEN p
                 ELSE [done |-> x.done, tries |-> p.tries + x.tries,
                       r |-> InnerAdd(x.table, h, k, v)]
  IN  step[ExpandBound]

(* _findIndex: the first of min(MaxProbe, tableLimit) slots from the home  *)
(* slot that holds key k with its hashcode.                                *)
FindIndex(t, k) ==
  LET h == HashCode[k]
      Hits == {s \in 0 .. MaxProbe - 1 :
                 /\ s < t.tableLimit
                 /\ t.entries[Slot(t, h, s)].key = k
                 /\ t.entries[Slot(t, h, s)].hashcode = h}
  IN  IF Hits = {} THEN [found |-> FALSE, index |-> 0]
      ELSE [found |-> TRUE, index |-> Slot(t, h, Least(Hits))]

(* parcHashCodeTable_Add (lines 305-327) on table t: expand first when at *)
(* the threshold, then the add loop.  done is FALSE where the code would   *)
(* loop for ever; added is the returned bool, result == ADD_OK.            *)
TableAdd(t, k, v) ==
  LET pre == IF t.tableSize >= t.expandThreshold
               THEN Expand(t)
               ELSE [done |-> TRUE, table |-> t, tries |-> 0]
      loop == AddLoop(pre.table, HashCode[k], k, v)
  IN  [done |-> pre.done /\ loop.done /\ loop.r.result /= "ADD_NOSPACE",
       table |-> loop.r.table,
       tries |-> pre.tries + loop.tries,
       added |-> loop.r.result = "ADD_OK"]

(* Bug variant: the count drops even when the key is not found.          *)
TableDelUnconditional(t, k) ==
  LET f == FindIndex(t, k)
  IN  [t EXCEPT !.entries = IF f.found THEN [@ EXCEPT ![f.index] = Empty] ELSE @,
                !.tableSize = @ - 1]

(* parcHashCodeTable_Del (lines 329-355) on table t: zero the entry the    *)
(* key is found in and count one entry less.                               *)
TableDel(t, k) ==
  LET f == FindIndex(t, k)
  IN  IF f.found THEN [t EXCEPT !.entries[f.index] = Empty, !.tableSize = @ - 1]
                 ELSE t

(* parcHashCodeTable_Get (lines 357-372) on table t.                        *)
TableGet(t, k) ==
  LET f == FindIndex(t, k)
  IN  IF f.found THEN t.entries[f.index].data ELSE Null

-----------------------------------------------------------------------------
(* parcHashCodeTable_Create_Size(..., MinimumSize).                         *)
Init ==
  /\ hashtable = NewTable(MinimumSize)
  /\ expandCount = 0
  /\ ret = Void

Add(k, v) ==
  LET r == TableAdd(hashtable, k, v)
  IN  /\ r.done
      /\ hashtable' = r.table
      /\ expandCount' = expandCount + r.tries
      /\ ret' = [added |-> r.added]

Del(k) ==
  /\ k \in DelKeys
  /\ hashtable' = TableDel(hashtable, k)
  /\ ret' = Void
  /\ UNCHANGED expandCount

Get(k) ==
  /\ ret' = [data |-> TableGet(hashtable, k)]
  /\ UNCHANGED <<hashtable, expandCount>>

(* parcHashCodeTable_Length (lines 374-379).                                *)
Length ==
  /\ ret' = [length |-> hashtable.tableSize]
  /\ UNCHANGED <<hashtable, expandCount>>

Next ==
  \/ \E k \in Keys : \/ \E v \in Values : Add(k, v)
                     \/ Del(k)
                     \/ Get(k)
  \/ Length

Spec == Init /\ [][Next]_vars

-----------------------------------------------------------------------------
TypeOK ==
  /\ hashtable.tableLimit \in Nat \ {0}
  /\ hashtable.entries \in [0 .. hashtable.tableLimit - 1 -> Entries]
  /\ hashtable.tableSize \in 0 .. hashtable.tableLimit
  /\ hashtable.expandThreshold \in Nat
  /\ expandCount \in Nat
  /\ ret \in [added : BOOLEAN] \cup [data : Values \cup {Null}]
           \cup [length : Nat] \cup {Void}

(* No key is held in two slots: _innerTableAdd returns ADD_DUP for a key   *)
(* already in the table (line 177), so a key is never stored twice.        *)
NoDuplicateKey ==
  \A i, j \in DOMAIN hashtable.entries :
    (i /= j /\ hashtable.entries[i].key /= Null)
      => hashtable.entries[i].key /= hashtable.entries[j].key

(* The data Get would return for each key: the map the table represents.  *)
Lookup == [k \in Keys |-> TableGet(hashtable, k)]

(* Add, Del, Get and Length behave as on a finite map: Add returns TRUE    *)
(* exactly for an absent key, a deleted key is gone, Get returns the data *)
(* stored, and Length counts the keys.                                     *)
Map == INSTANCE FiniteMap WITH dict <- Lookup

MapSpec == Map!Spec

(* An expansion keeps every key that Get found before it (lines 227-236).  *)
NoKeyLostByExpand ==
  [][expandCount' > expandCount =>
       \A k \in Keys : FindIndex(hashtable, k).found =>
                         FindIndex(hashtable', k).found]_vars

(* Every Add returns: the do-while of parcHashCodeTable_Add (lines       *)
(* 319-324) and the loop of _expand (lines 219-233) end for any key and    *)
(* data the caller may pass next.  Keys whose probes collide beyond        *)
(* MAX_PROBE_LENGTH (line 168) must not make them expand for ever.        *)
AddReturns == \A k \in Keys, v \in Values : TableAdd(hashtable, k, v).done

=============================================================================
