# Formal models of Libparc's concurrency core, collections and codecs

This directory holds TLA+ models of the concurrent parts of Libparc (`src/parc/concurrent`), of its collections (hash code table, linked list, array list, buffer dictionary, the simple buffer pool example) and of its Base64 and URI codecs (`src/parc/algol`), their TLC configurations and TLAPS proofs.
`PROJECT.json` lists every component, run, mutant, mapping to source lines, finding, hazard and theorem in machine-readable form. This file explains them.

## 1. The system and its parts

| Part | Source | Concurrency | Module(s) | Status |
|---|---|---|---|---|
| Scheduled thread pool: dispatcher thread, `Schedule`, `Submit`, `ShutdownNow` | `src/parc/concurrent/parc_ScheduledThreadPool.c` | dispatcher + callers + closer, one monitor | `ScheduledThreadPool`, `MC_ScheduledThreadPool`, `ScheduledThreadPoolProofs` | partly (see §7) |
| Ring buffer, single producer / single consumer | implementation not in this tree. Driver: `src/parc/concurrent/test/test_parc_RingBuffer_1x1.c` | two threads, no lock | `RingBuffer1x1`, `BoundedFifo`, `MC_RingBuffer1x1`, `RingBuffer1x1Proofs` | modelled (spec-modelled internals) |
| Ring buffer, N x M | `parc_RingBuffer_NxM.h` (header only) | locked | none | not modelled |
| Worker pool `PARCThreadPool` | external (its test only) | | abstracted as the history `handed` | not modelled |
| Hash code table: `Add`, `Del`, `Get`, `Length`, expansion and rehash | `src/parc/algol/parc_HashCodeTable.c` | single-threaded | `HashCodeTable`, `FiniteMap`, `MC_HashCodeTable`, `MC_HashProbe` | partly (see §7) |
| Linked list and its iterator | `src/parc/algol/parc_LinkedList.c` | single-threaded | `LinkedList`, `ObjectList` | partly |
| Array list | `src/parc/algol/parc_ArrayList.c` | single-threaded | `ArrayList`, `ObjectList` | partly |
| Buffer dictionary | `src/parc/algol/parc_BufferDictionary.c` | single-threaded, over the hash table | `BufferDictionary`, `Dictionary` | partly |
| Simple buffer pool (example) | `src/examples/How To Create an Object Pool/parc_SimpleBufferPool.c` | single-threaded, over the linked list | `SimpleBufferPool` | modelled |
| Base64 codec | `src/parc/algol/parc_Base64.c` | pure functions | `Base64`, `MC_Base64` | modelled |
| URI parse, build, equality | `src/parc/algol/parc_URI.c` | pure functions | `URI` | partly |
| JSON parser and array, event socket, security façade | `src/parc/algol/…`, `src/parc/security/…` | | none | not modelled (§7) |

The sequential parts are checked together by `MC_Structures`, which picks one of them at the start of each behaviour.

How they interact:

- A caller of `parcScheduledThreadPool_Schedule(pool, task, delay)` computes `now + delay`, wraps the task in a `PARCScheduledTask`, and inserts it into `pool->workQueue`.
  - The work queue is a `PARCSortedList` ordered by execution time, and it has its own monitor (lock, wait, notify).
- The dispatcher thread `_workerThread` loops until it is cancelled. On each pass it:
  - locks the queue;
  - peeks at the first task;
  - if the task is due, removes it, unlocks, and hands it to the worker pool with `parcThreadPool_Execute`;
  - otherwise waits until the task is due, or waits without a timeout when the queue is empty.
- `ShutdownNow` cancels the dispatcher, shuts the worker pool down, notifies the queue, and joins the dispatcher.
- The ring buffer is the lock-free hand-off primitive of the specification. Its implementation file is absent, so its module follows the specification (sections 3, 4.1, 7 and 8), driven by the producer and consumer threads of its unit test.

## 2. Modules

### `ScheduledThreadPool` (parc_ScheduledThreadPool.c)

**State:**

| Variable | What it models |
|---|---|
| `workQueue` | The sorted list, as a sequence of tasks |
| `execTime` | Each task's uint64 execution time, mod `2^TimeBits` |
| `due` | Ghost: the exact deadline `now + delay` the caller asked for |
| `now` | The monotonic clock |
| `dispatcher` | The pc of `_workerThread` |
| `peeked` | The task returned by `GetFirst` |
| `wakeAt` | When the current timed wait ends |
| `caller` | Per task: `idle`, `adding`, `done` |
| `cancelled` | The dispatcher's cancellation flag |
| `poolShutdown` | Whether the worker pool was shut down |
| `closer` | The pc of the thread in `ShutdownNow` |
| `handed` | History: the tasks passed to `parcThreadPool_Execute` |

**Locking.** The monitor is held across several dispatcher steps only from `GetFirst` to `RemoveFirst` (lines 88-94). Every other locked section is one atomic step: `Schedule`'s add and notify, `ShutdownNow`'s notify, and the relock and notify at lines 97-99. So the lock is derived from the dispatcher's pc (`QueueLocked`), and the locked actions are guarded by `~QueueLocked`. `Submit` takes no lock, so its action has no such guard: this is the code's behaviour, not a modelling choice.

**Actions:**

| Action | Lines | What it does |
|---|---|---|
| `DispatcherExit` / `DispatcherLoop` | 87 | The cancellation test, outside the lock |
| `DispatcherWait` | 88-89, 103-104 | Empty queue: wait without a timeout |
| `DispatcherDue` | 88-92 | Peek at the first task; it is due |
| `DispatcherTimedWait` | 88-91, 100-101 | Peek at the first task; it is not due, so wait `executionDelay` |
| `DispatcherRemove` | 93-94 | `RemoveFirst`, then unlock |
| `DispatcherExecute` | 95-99, 107 | Execute, release, relock, notify, unlock |
| `DispatcherTimeout` | 101 | The timed wait ends |
| `ScheduleBegin(t, d)` | 288-290 | Clock read and task creation |
| `ScheduleAdd(t)` | 292-298 | Lock, add, notify, unlock |
| `Submit(t)` | 357-364 | Execution time 0, an unlocked add, no notify |
| `ShutdownCancel`, `ShutdownPool`, `ShutdownNotify`, `ShutdownJoin` | 337, 339, 341-349, 351 | The four steps of `ShutdownNow` |
| `Tick` | | The clock |

A wake-up from a wait moves the dispatcher back to `check`, the `while` test of line 87, as returning from `parcSortedList_Wait` does.

`parcSortedList_Add` is not in this tree. It is modelled from the specification: a task goes to any position that keeps execution times ascending, and the place among equal times is left open (specification §9).

**Arithmetic.** Time arithmetic is kept at width `TimeBits`:
- `execTime` is `(now + d) % 2^TimeBits`;
- `executionDelay` is the unsigned difference read as two's complement (`Signed`), which is what the int64 assignment of line 91 does.

### `RingBuffer1x1` and `BoundedFifo`

- Put and Get are each split into a write or read step and a publish step, so that the other thread can run in between.
- `ring` holds the slots, `head` and `tail` the published indices, and `written` the test's `itemsWritten`.
- `got` is the history of successful Gets, and `destroyed` the items passed to the entry destroyer on the last Release.
- `BoundedFifo` is the abstract specification: a FIFO of at most `Capacity - 1` items that hands its remaining items to the destroyer when the last reference goes.
- `RingBuffer1x1` implements it under the mapping: `queue` is the resident items from `tail` to `head` while a reference is held, and `live` means at least one reference remains.

### `HashCodeTable` and `FiniteMap` (parc_HashCodeTable.c)

- `hashtable` is the `LinearAddressingHashTable` record: `entries`, `tableLimit`, `tableSize` and `expandThreshold`. `expandCount` is the table's counter, and `ret` is what the last call returned.
- Keys are model values compared by value, and `HashCode` is the caller's hash function given as a constant. Only the keys in `DelKeys` are ever deleted, which lets a passing run keep `Del` away from a collision cluster (finding 1 is what happens inside one).
- Each public call is one action: the table has no lock and the code never shares it between threads.
- The helpers follow the code's functions:
  - `InnerAdd` is `_innerTableAdd`. It probes at most `MaxProbe` slots, and the first slot that is empty or holds the same key and hash code decides the result.
  - `RehashInto` is `_rehash`, a recursive function over the old slots that stops at the first result other than `ADD_OK`.
  - `Expand` is `_expand`. It tries factors 2, 3, … and counts each try; like the code, it installs the rehashed table whatever the rehash returned unless it ran out of probes.
  - `AddLoop` is the add-and-expand do-while of `parcHashCodeTable_Add`.
  - `FindIndex` is `_findIndex`.
- `ExpandBound` caps the factors `_expand` tries. An `Add` whose expansion would need more is not enabled, and `TableAdd(...).done` is false for it: in the code it never returns. Only `hash_probe_livelock` reaches the cap, where it is the finding.
- `FiniteMap` is the abstract specification: a map from keys to data with `Add` (stores an absent key and returns whether it did), `Del`, `Get` and `Length`. The table implements it under the mapping `dict <- Lookup`, where `Lookup` is what `Get` would return for each key.


### `LinkedList` and `ObjectList` (parc_LinkedList.c)

- The model keeps the pointers. `Nodes` are the addresses the allocator can return. `next`, `previous` and `object` are the fields of every node, stale in a freed one. `head`, `tail` and `size` are the list's fields, and `free` the addresses not allocated.
- `Walk` is the chain from `head` by `next`, and `Content` the objects along it.
- Each public call is one action, and any assertion the code runs at its end is part of that action. When `parcLinkedList_IsValid` fails, `aborted` is set and the program stops. `IsValid` is translated as written, and it does not look at `tail`.
- Actions (each with its lines in `PROJECT.json`):
  - `ListAppend`, `AppendAll` (also of the list itself), `Prepend` and `InsertAtIndex`. `InsertAtIndex` keeps its three branches, including the head branch of line 549.
  - `Remove` (first hit), `RemoveFirst`, `RemoveLast`, `Peek`, `GetAtIndex`, `Contains`, `Size`, `Equals`, `Copy`, `Release` and `Create`.
  - The iterator: `CreateIterator`, `IteratorNext` (guarded by `HasNext`), `IteratorRemove` (which steps the iterator back before unlinking) and `ReleaseIterator`.
- `ObjectList` is the abstract specification both lists promise (the PARCList interface): a sequence with insertion at a position, removal, reads, concatenation, comparison and copy. Another list a call takes has at most `MaxOther` elements.
- The refinement maps `list` to `Content` while the list lives.

### `ArrayList` (parc_ArrayList.c)

- `array` is the allocated block, slot by slot; `numberOfElements` and `limit` are the struct's fields.
- `NewLimit` and `EnsuredArray` are `_ensureRemaining` and `_ensureCapacity`.
- `ElideAt` and `ShiftUp` are the element loops of the removals and of `InsertAtIndex`, as recursive functions that copy one slot per iteration in the code's order.
- Ownership is tracked:
  - `used`: the objects a caller stored;
  - `handedBack`: the objects returned by `RemoveAtIndex` or overwritten by `Set`;
  - `destroyed[o]`: the number of `destroyElement` calls on `o`.
- `InsertDepths` is the distance from the end at which callers insert.
- The list refines `ObjectList` with `list <- Elements`.

### `BufferDictionary` (parc_BufferDictionary.c)

- The dictionary's only state is its hash table. `Put`, `DictionaryGet` and `Remove` are composed from `TableAdd`, `TableGet` and `TableDel` of `HashCodeTable`.
- `Put` on a present key is `Add`, then `Get`, `Del` and `Add` again. It ignores the second result, as the code does.
- `Dictionary` is the abstract map whose `Put` returns the value it replaced.

### `SimpleBufferPool` (the object-pool example)

- The free list is an instance of `LinkedList`.
- Per buffer, the module tracks:
  - `status`: the memory is allocated or free;
  - `descriptor`: the pool's descriptor or a plain `PARCBuffer`;
  - `refs`: the reference count.
- `poolLive` says whether the pool is alive. `freedPoolRead` records that a buffer destructor ran with the pool already destroyed, reading it through the dangling `typeState` at line 92.
- Actions:
  - `GetInstance`;
  - a caller's `AcquireBuffer` and `ReleaseBuffer`. The last reference runs the pool's buffer destructor for a pooled buffer: it lists the buffer while `HasRoom`, and otherwise frees it. `ReleaseBuffer` is an IF/ELSE chain in the order of the code's tests (more references, plain buffer, destroyed pool, room on the list), so that each arm holds only when the earlier tests failed;
  - `ReleasePool`, the pool's destructor. It makes the listed buffers plain (line 79), then releases the list, which frees them (`FreedListed`, line 81). Under the constant `ReleasePoolLast`, which `structures` sets, callers release the pool only when they hold no buffer: a caller contract the code does not state (see the observations in §4);
  - `CreatePool`.

### `Base64` (parc_Base64.c)

- Bytes and characters are their codes, 0..255. The bit fields are cut with `div` and `mod`, as the code cuts them with shifts and masks.
- `DecodeTable` is the code's 256-entry table, with `Skip` for CR and LF.
- The codec's functions are operators:
  - `EncodeWithPad`, `EncodeArray` and `Encode`;
  - `Decode` (`_decode`);
  - `DecodeArray`, whose quantum loop is a recursive function over the input. `Gather` collects one quantum and skips CR and LF.
- The state is one use of the codec. A caller encodes `plain`. A sender may put CR LF breaks into the text (`LineBreak`, at most `MaxBreaks`, at the end only when `BreakAtEnd`). The receiver decodes it (`Receive`).
- `Rfc4648` is a reference definition of base64 from the bits of the input, independent of the code's quantum arithmetic.

### `URI` (parc_URI.c)

- A string is a sequence of characters, and reading past its end reads NUL.
- An absent part is `Null`, which differs from the empty string.
- The parsers `ParseScheme`, `ParseAuthority`, `ParseQuery` and `ParseFragment` translate the code's pointer scans. Each returns a part and where it left the pointer, and `Parse` chains them as `parcURI_Parse` does.
- `BuildString` is `parcURI_BuildString`, and `Equals` is `parcURI_Equals`.
- `PARCURIPath` is not in this tree. `ParsePath` assumes that the path parser skips one leading `/` and takes the characters up to `?`, `#` or the end, and that the path builds back to those characters.
- Actions are `ParseText` (parse a caller's string) and `ToString`.

### `MC_Structures`

- The sequential parts are independent of one another. The one that runs in a behaviour is chosen in `Init` (`component`), so their state spaces add up instead of multiplying.
- Every other component's variables stay at their initial state. The codec's initial plain is pinned to the empty array when the codec is not chosen.
- The table's refinements are stated through `PhaseLookup` and `PhaseRet`. The map is empty, and the result `Void`, whenever the table or the dictionary is not the running component.

## 3. Runs

Deadlock:
- The passing runs of the scheduled pool and the ring turn deadlock checking off (`CHECK_DEADLOCK FALSE`), for reasons that are the system's own:
  - once the closer has returned and the dispatcher has exited, nothing is left to run;
  - a dispatcher idle on an empty queue with no more callers waits forever by design (line 104);
  - the ring's threads stop once they have released it.
- `structures` checks deadlock. Every component has a call that is always enabled, such as `Get`, `Size`, parsing a new string or encoding a new array.
- `ll_head_insert` turns deadlock checking off because a failed assertion ends the program.

| Run | Instance | Properties | Result |
|---|---|---|---|
| `sched_core` | 3 Schedule callers, delays {0,1,3}, clock to 2, 5-bit time | TypeOK, NoTaskLostOrDuplicated, NoEarlyDispatch, DispatchInDeadlineOrder, NoDispatchAfterShutdown, QueuedTaskEventuallyHanded | pass |
| `sched_submit` | 1 Schedule + 1 Submit caller | TypeOK, NoEarlyDispatch | pass |
| `sched_submit_race` | 1 Schedule + 1 Submit | NoTaskLostOrDuplicated | violated: finding 6 |
| `sched_submit_nowake` | 1 Submit | QueuedTaskEventuallyHanded | violated: finding 7 |
| `sched_shutdown_hang` | 1 Schedule | ShutdownNowReturns | violated: finding 8 |
| `ring_spsc` | 4 slots, 6 items | TypeOK, FifoOrder, AtMostCapacityMinusOneResident, NoItemLostAtTeardown, EveryPutItemIsGot, FifoSpec | pass |
| `structures` | see below | TypeOK, NoDuplicateKey, TableMapSpec, BufferDictionarySpec, LinkedListWellFormed, IteratorOnList, LinkedListSpec, ElementsOwnedOnce, ArrayListSpec, BuffersAccounted, FreeListSound, StandardEncoding, RoundTrip, URIRoundTrip | pass (about 27 000 states) |
| `hash_rehash_loss` | k1, k2 share a hash code, 2 slots, every key deletable | NoKeyLostByExpand | violated: finding 1 |
| `hash_probe_livelock` | 21 keys with one hash code, 256 slots, MAX_PROBE_LENGTH 20 | AddReturns | violated: finding 2 |
| `ll_head_insert` | 2 objects, 3 nodes, inserts at index 0 | ListSpec (of `LinkedList`) | violated: finding 3 |
| `al_insert_shift` | 3 objects, inserts 2 from the end | ListSpec (of `ArrayList`) | violated: finding 4 |
| `base64_trailing_crlf` | 1 to 3 bytes, a CR LF after the text | RoundTrip | violated: finding 5 |

**What `structures` shows, per component.**

- **Hash table.**
  - No key is stored twice.
  - The table implements `FiniteMap`, through the pre-expansion, the expand-and-retry loop and the rehash.
- **Buffer dictionary.** It implements `Dictionary`, through `Put`'s Get-Del-Add on a present key: the value returned is the one replaced.
- **Linked list.**
  - While the list lives, its nodes form one chain. That chain is stronger than what `IsValid` checks: it has `size` distinct allocated nodes, every allocated node is on it, it ends at `tail`, and the back links agree.
  - An open iterator never stands on a freed node.
  - The list implements `ObjectList`.
- **Array list.**
  - Every object stored is, exactly once, in a slot, handed back to the caller, or destroyed. A lost element, a duplicated slot or a double free breaks this.
  - The list implements `ObjectList`.
- **Buffer pool.**
  - Every buffer is allocated exactly while a caller holds it or the live pool's free list lists it. So neither the full-list branch of the buffer destructor (lines 97-99) nor the pool's destructor (lines 79-81) leaks a buffer, and no freed buffer is held or listed.
  - The free list holds at most `limit` buffers, each once, allocated, with the pool's descriptor and only the list's reference.
- **Base64.**
  - The encoding is RFC 4648's, computed from the bits.
  - Decoding gives back the bytes that were encoded, whatever CR LF breaks the sender put inside the text.
- **URI.** The string `ToString` builds parses back to an equal URI.

**Bounds.**
- **Scheduled pool.**
  - Three tasks let two of them race for the lock while a third sits in the queue, so an insert ahead of a peeked task is possible.
  - Delays 0, 1 and 3 against a clock stopped at 2 give due tasks and tasks not yet due, timed waits that must outlive the clock bound, and deadlines that tie and differ.
  - No deadline in these runs wraps: `sched_submit` runs at 4 time bits and `sched_core` at 5, which also meets the hypothesis of `DeadlineOrderProved`.
- **Ring.** 4 slots and 6 items, so the indices wrap and the ring fills: 3 items is the most it can hold.
- **Hash table in `structures`.**
  - 3 keys in a 4-slot table reach its threshold of 3 and expand it to 8.
  - k1 and k2 share a home slot, so a probe crosses an occupied slot and a displaced key is rehashed.
  - Only k3, outside the cluster, is deleted. A Del inside a cluster is finding 1.
  - `MaxProbe` keeps the code's value of 20. Filling a probe is what `hash_probe_livelock` does, with 21 keys added in a fixed order so that the states do not multiply by the orderings.
- **Linked list.**
  - 3 nodes and 2 objects give duplicates, so `Remove` must take the first hit.
  - The list can fill the node pool.
  - Inserts go at indexes 1 and 2, the middle and end branches. Index 0 is finding 3, and is left to `ll_head_insert`.
- **Array list.**
  - 3 objects, initial capacities 0 and 2, so the array grows from empty and from a full block.
  - Inserts go at the end or one slot before it, which is what the code does correctly. Deeper inserts are finding 4, and are left to `al_insert_shift`.
- **Pool.** 2 buffers, 2 list nodes, `limit` 1 and up to 2 references, so the free list fills and a second released buffer must be freed.
- **Base64.** All arrays of up to 4 bytes from {0, 99, 255} (whose bits differ in every 6-bit field), so every padding case occurs, with up to 2 CR LF breaks at positions inside and between quanta. A break after the text is finding 5.
- **URI.** All strings of up to 4 characters from {a, :, /, ?, #}. This covers every separator, repeated and adjacent separators, and absent and empty parts.

**Fairness.**
- Weak fairness of the dispatcher: it is a dedicated thread that only blocks in the modelled waits.
- Weak fairness of each begun `ScheduleAdd`: the caller is blocked only on the lock, which the dispatcher releases.
- Weak fairness of the rest of `ShutdownNow` once it has begun.
- Weak fairness of the clock.
- Nothing forces a caller to call `Schedule`, `Submit` or `ShutdownNow`, or the ring's owners to release.
- The ring's threads spin on Put and Get until they succeed (lines 140-147 and 162-172), which justifies weak fairness of each of their steps.
- The sequential components assume no fairness: their properties are safety and refinement.

**Mutants.** Each property of a passing run is broken by a plausible bug in the code it is about. The bug variant is written just before the definition it replaces, and `PROJECT.json` lists them. Examples:
- Schedule adding without the lock;
- `_innerTableAdd` without its duplicate check;
- `_rehash` skipping the last slot;
- an unlink that forgets the tail;
- an iterator left on the node it removed;
- `Remove` taking the last hit;
- `RemoveAndDestroyAtIndex` destroying after the shift;
- `Put` reading the old value after the `Del`;
- the pool's destructor dropping its free list without freeing the buffers on it;
- a free list allowed one buffer too many;
- a shifted 6-bit field;
- a decoder that stops at CR;
- `BuildString` leaving out empty parts.

## 4. Findings

1. **A deleted slot lets a key in twice, and the next rehash drops keys (hash table, lines 351, 169, 200, code bug).**
   - `Del` zeroes the entry and leaves no tombstone, and `_innerTableAdd` takes the first empty slot before it has seen the rest of the cluster. After `Del(k1)`, `Add(k2)` of a colliding `k2` stores it a second time.
   - `_rehash` then stops at `ADD_DUP`. `_expand` retries only on `ADD_NOSPACE` and installs the partly filled table, so `Get` loses keys it found before.
   - The buffer dictionary inherits this: its `Put` and `Remove` are table calls.
2. **`Add` never returns with 21 colliding keys (hash table, lines 168, 319-324, code bug).**
   - Every probe from the common home slot sees 20 slots of the same cluster, whatever the table's size.
   - `Add` therefore expands and retries for ever, contrary to the comment at line 167 ("it will fit eventually").
3. **`InsertAtIndex(0)` moves the tail (linked list, line 549, code bug).**
   - On a non-empty list, `tail` becomes the old head. `IsValid` does not check the tail, so nothing traps.
   - A later `Append` links after the old head and drops the nodes that followed it, while `size` still counts them.
4. **`InsertAtIndex` shifts in the wrong order (array list, lines 400-402, code bug).**
   - The copy `array[i + 1] = array[i]` runs for increasing `i`.
   - Inserting `o3` at 0 into `[o1, o2]` gives `[o3, o1, o1]`: `o2` is lost, and `Destroy` would free `o1` twice.
5. **A trailing CR LF fails the decode (Base64, lines 294-327).**
   - The file's header (line 58) says decoding accepts and skips CRLF line breaks.
   - A CR LF after the last quantum starts an iteration that finds no character, so the whole decode returns NULL.
6. **`Submit` races the dispatcher (scheduled pool, line 361, code bug).**
   - The add is unlocked. Between `GetFirst` (line 90) and `RemoveFirst` (line 93), a submitted task with execution time 0 becomes first, and `RemoveFirst` removes it: it is lost.
   - The peeked task stays queued and is released at line 96, so it is dispatched again later.
7. **`Submit` never notifies (line 361).** A dispatcher waiting on an empty queue (line 104) never runs the task, contrary to specification §8 scenario 4.
8. **Lost wakeup at shutdown (line 87, code bug).**
   - The cancellation test is outside the lock.
   - A `ShutdownNow` between line 87 and the wait at line 104 notifies nobody, so the dispatcher waits forever and `parcThread_Join` (line 351) never returns.

**Observed while modelling, without a run of their own.** The project's runs are spent on the findings above.
- **`Schedule` reads the clock before the lock (line 288).** A task with an earlier deadline can be queued after a later one was already handed on. `HandedInDeadlineOrder` in `ScheduledThreadPool` states the order, and TLC finds it violated with two callers.
- **`Submit` uses execution time 0 (line 359), not now.** A submitted task therefore overtakes overdue scheduled tasks.
- **Delay wrap (line 91).** A delay of 2^63 ns or more makes the int64 `executionDelay` negative. The model keeps the modular arithmetic (`Signed`), and `NoEarlyDispatch` is checked at a width where no delay wraps.
- **A task can be handed to a worker pool already shut down (scheduled pool, lines 339-351).** `ShutdownNow` shuts the worker pool down at line 339 and joins the dispatcher only at line 351. A dispatcher between `RemoveFirst` and `parcThreadPool_Execute` hands its task over in that window, and the model allows this as the code does. What `PARCThreadPool` does with it is outside this tree. `NoDispatchAfterShutdown` covers only the steps after the join.
- **A buffer released after its pool reads freed memory (buffer pool, line 92).** The pool's destructor makes only the listed buffers plain. A buffer a caller still holds keeps the pool's descriptor, whose `typeState` points at the freed pool. With `ReleasePoolLast` off, TLC reaches this read in three steps: `GetInstance`, `ReleasePool`, `ReleaseBuffer`. The code states no contract against it. `structures` keeps the contract on, so that its other pool properties are checked on states the code defines.
- **`parcLinkedList_SetEquals` (lines 640-658) returns true for any two lists of equal size.** Its `break` leaves only the inner loop, and `result = true` follows unconditionally. Its unit test compares only lists of different sizes.
- **`Schedule` always returns NULL.** It returns `scheduledTask` after `parcScheduledTask_Release(&scheduledTask)` has set it to NULL (lines 294, 298).

## 5. Proofs

`ScheduledThreadPoolProofs` and `RingBuffer1x1Proofs` are checked by `tlapm`, every leaf. Each theorem whose statement names a property that a run checks is listed in `PROJECT.json` under `theorems`. For that property, the run covers one small instance and the theorem covers every value of the constants.

### Scheduled pool (`ScheduledThreadPoolProofs`)

**Assumptions.**
- `Assumptions`: `Submitters \subseteq Tasks`, delays natural, `MaxTime \in Nat`, `TimeBits \in Nat \ {0}`.
- `ModulusAssumption`: `2^TimeBits` is a natural of at least 2, a fact the provers cannot derive from the exponent.

**`TypeCorrect`: `Spec => []TypeOK`.**
- `TypeOK` alone is not inductive.
- The inductive invariant `TypeInv` adds two facts:
  - the dispatcher holds a real task in `remove` and `execute`;
  - the queue is non-empty in `remove`, which makes `Tail` well typed in `DispatcherRemove`.
- The proof shows `Init => TypeInv` and `TypeInv /\ [Next]_vars => TypeInv'`, with one step per action. It uses the lemmas `InsertBeforeType` and `ExecutionDelayType`.

**`TaskAccounting`: `Submitters = {} => (Spec => []NoTaskLostOrDuplicated)`, for any number of tasks.**
- The inductive invariant `TaskInv` is `TypeInv /\ NoTaskLostOrDuplicated /\ (dispatcher = "remove" => peeked = Head(workQueue))`.
  - The last conjunct is what the lock provides: while the dispatcher holds it between `GetFirst` and `RemoveFirst`, the task it peeked is still first.
- The step proof has one case per action. Its lemmas `InsertBeforeElems`, `TailElems` and `AppendElems` state what an insert, `Tail` or `Append` does to the set of elements and to distinctness.
- The hypothesis `Submitters = {}` is essential: with `Submit`, the property is false (finding 6).

**`NoEarlyDispatchProved`: `DelaysBelowHalf => (Spec => []NoEarlyDispatch)`, with submitters, for every clock width.**
- The dispatcher compares wrapped times: `ExecutionDelay(t) = (execTime[t] - now) % Modulus`, taken as a signed value. So the wrapped delay it reads is the true delay only while that delay is below half the modulus.
- The inductive invariant `EarlyInv` says that every task in the queue has been created. It also says that every created task is `Timely`: either it is already due, or `execTime[t] = due[t] % Modulus` with `due[t] < now + Modulus \div 2`. Finally, a dispatcher in `remove` or `execute` holds a created task whose deadline has passed.
  - A `Tick` keeps `Timely`: when `now` passes `due[t]` the first disjunct takes over.
- The lemma `DueTestSound` is the core. From `Timely(t)` and a non-positive wrapped delay, it derives `due[t] <= now`.
  - It rests on the generic modular lemmas `DivisionFacts`, `ModOfMultiplePlus`, `ModMinusMultiple` and `ModDifference`, stated for any positive modulus.
- `DelaysBelowHalf` (every delay below `Modulus \div 2`, i.e. 2^63 ns for the code's 64-bit clock) is necessary, not a convenience. TLC was run with `TimeBits = 4` and `Delays = {0, 9}`. It violates `NoEarlyDispatch`: the delay wraps to a negative value and the task is dispatched at once. The runs' `Delays = {0, 1, 3}` satisfy it at 4 bits (`sched_submit`) and at 5 bits (`sched_core`).

**`ShutdownStopsDispatch`: `Spec => NoDispatchAfterShutdown`** (the action property).
- It rests on the invariant `JoinInv`: `closer = "done" => dispatcher = "done"`. The join returns only after the dispatcher has finished, and no dispatcher action starts from `done`. So no step after the join can add a task to the worker pool.

**`DeadlineOrderProved`: under `Submitters = {}` and `ClockNeverWraps(D)`, `Spec => []DispatchInDeadlineOrder`.**
- `ClockNeverWraps(D)`: `Tasks` is finite, every delay is at most `D`, and `MaxTime + |Tasks| * D < Modulus \div 2`. It holds for the code's 64-bit clock for any realistic run; `sched_core` runs at 5 bits so that its instance satisfies it with `D = 3` (2 + 3 * 3 < 16).
- The queue is sorted by the wrapped `execTime`, so the order is the deadline order only while no deadline has wrapped. The inductive invariant `OrderInv(D)` (checked by TLC on `sched_core` before it was proved) says:
  - `TaskInv` holds, and the work queue is sorted by `execTime`;
  - with `Created` the tasks whose `Schedule` has begun, `now`, every created task's `due` and the timed-wait target `wakeAt` are at most `ClockBound(D, |Created|) = MaxTime + |Created| * D`, and `execTime[t] = due[t]` (no wrap).
- Each `ScheduleBegin` adds one task to `Created` and raises the bound by `D`, which covers `now + d`. `ClockBoundBelowHalf` keeps the bound under `Modulus \div 2`, and `SignedExact` turns the wrapped difference the dispatcher computes for its timed wait back into the true one.
- Lemmas on the queue: `InsertBeforeSorted` (inserting before the first later element keeps a sequence sorted) and `TailSorted`.
- Both hypotheses are necessary: with `Submit` the race of finding 6 puts a task out of place, and with a clock that wraps a later deadline sorts first. TLC finds `DispatchInDeadlineOrder` violated in both cases.

### 1x1 ring (`RingBuffer1x1Proofs`)

**Assumption.** `CapacityAssumption`: `Capacity` is a positive power of two and `NItems` is natural. The lemma `CapacityPositive` restates the part the provers use, without the exponent, which makes Z3 stall.

**`RingInvariant`: `Spec => []RingInv`.** `RingInv` (in `RingBuffer1x1`) was checked by TLC on `ring_spsc` before it was proved. None of the four properties is inductive alone. The invariant has to add:
- the published slots `Mask(tail + k - 1)` for `k \in 1..Occupied` hold `Len(got) + k`. This is the content of the ring that `FifoOrder` is about;
- a producer between its write and its publish has written `written + 1` into the free slot at `head` of a ring that is not full. Without this, `PutPublish` could publish garbage or overrun `tail`;
- a consumer between its read and its publish holds the item at `tail`;
- each thread holds its reference exactly while its program counter is not `released`;
- `destroyed` is the resident run once both references are gone.

The step proof has one case per action (`PutWrite`, `PutPublish`, `GetRead`, `GetPublish`, `Release(o)`), and under each, one step per conjunct the action changes. Its lemmas are about the masked index arithmetic:
- `DistanceFacts` gives the value and range of `(head - tail + C) % C`, and that `Mask(tail + Occupied) = head`;
- `DistancePut` and `DistanceGet` state how a publish moves that distance by one;
- `ResidentItems` gives `Resident = [k \in 1..Occupied |-> Len(got) + k]`.

**Corollaries.** `TypeCorrect`, `FifoOrderInvariant`, `CapacityBound` and `TeardownLosesNoItem` follow from `RingInvariant`. They are the four invariants of `ring_spsc`, for every capacity and item count. The last one uses `got \o Resident = [k \in 1..written |-> k]`.

**`RingImplementsFifo`: `Spec => FifoSpec`.**
- Under the refinement mapping of `RingBuffer1x1`, `queue` is the resident items while a reference is held.
- `Init` maps to `BoundedFifo`'s `Init`.
- `PutPublish` maps to `Enqueue`: `Resident' = Append(Resident, written + 1)`, and the length stays within `Capacity - 1`.
- `GetPublish` maps to `Dequeue`: `Resident' = Tail(Resident)`, and the item got is `Head(Resident)`.
- The last `Release` maps to `Destroy`.
- Every other step is a stutter of the abstract variables.
- The proof is `StepRefinesFifo` from `RingInv /\ RingInv' /\ [Next]_vars`, combined with `RingInvariant` by `PTL`.

### Left to TLC

- **Liveness.** `QueuedTaskEventuallyHanded`, `EveryPutItemIsGot` and `ShutdownNowReturns` stay with TLC. TLAPS handles neither liveness under fairness nor `ENABLED`.
- **Refinements of the table, the lists and the dictionary, and the invariants of `MC_Structures` and `HashCodeTable`.** These models are built on recursive functions over their data: the list walk, the rehash, the array loops and the decode loop. What these compute for every input needs induction over data, which the installed provers cannot do with the library's induction theorems. They are checked on the bounded inputs above.
  - `WellFormed` and `IteratorOnList` of the linked list, and `FreeListSound` and `BuffersAccounted` of the pool (through the listed buffers), are statements about the walk `Chain` from the head along the `next` pointers, a recursive function. What it visits for every pointer graph needs induction over the list. `WellFormed` also needs a head index other than 0, which is exactly what finding `ll_head_insert` shows the code does not ensure.
  - `NoDuplicateKey` and `TypeOK` of `HashCodeTable` go through `RehashInto`, a recursive function over the entries in use, and through `Cardinality`.

## 6. Coverage of the code

`PROJECT.json`'s `map` names, for every definition that models code, the source lines it translates. Definitions modelled from the specification are marked `spec_modelled`: the sorted list, the clock and the 1x1 ring's internals, which are not in this tree.

## 7. Not modelled, and why

- **Scheduled pool, other operations.** The destructor and `Release`/`Acquire` (memory management), `Copy` (creates an independent pool), `Execute` (an empty function) and the read-only getters are left out. The worker pool is external: only the hand-off to it is recorded.
- **`parcSortedList`, `parcTime` and the 1x1 ring's internals** are not in this tree and are modelled from the specification.
- **The N x M ring** has no implementation here, only a header.
- **Hash table `Destroy`**, and the key and data destroyers: they only free memory. The code's endless `_expand` loop is cut off by `ExpandBound`, where `AddReturns` reports it.
- **Linked list:**
  - `SetEquals`: see §4. The list refines `ObjectList`, which has no set comparison.
  - `HashCode` and `Display`: read-only.
- **Array list:** `Copy`, whose copy shares the elements under the same `destroyElement`, so that destroying both frees them twice. It is a caller's contract, not a state change of the list.
- **Buffer dictionary:** the buffers' reference counts and `_destroy`, which only release.
- **URI:**
  - `Copy`, a part-by-part duplicate that the model cannot tell from the original;
  - the setters and getters;
  - the path, whose code is not in this tree (see its assumption in §2).
- **JSON parser and JSON array.** The parser is a cursor over a `PARCBuffer`, whose code is not in this tree.
  - `parcJSONParser_ParseString` is lenient where RFC 8259 is strict: it accepts an unknown escape such as `\a` as the letter.
  - It is also strict where RFC 8259 is lenient: `iscntrl` rejects DEL, which the RFC allows unescaped.
  - With no run left for a contract of its own, it is not modelled. `PARCJSONArray` is a wrapper over `PARCList`.
- **Priority queue:** a header only.
- **Event socket, security wrappers:** thin façades over libevent and the crypto library, with no state of their own.
