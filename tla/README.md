# TLA+ models of the hybrid DRAM/NVM B+-tree (osdi21ae)

This directory holds TLA+ models of the index engine in `src/mysrc`. Each
module is written from the C++ source. Where a function is declared but its
body is not in the repository, the module is written from `spec.md`, and
`PROJECT.json` marks those definitions `spec_modelled`. `PROJECT.json` also
maps every definition to the source lines it models, and lists every run, the
code mutants that each passing property must catch, the findings and the
hazards.

## 1. The system

| Part | Source | State it keeps | Operations | Interacts with |
|---|---|---|---|---|
| Persistent node `nvmpage` | `single_pmdk.h` 59-510 | `hdr` (mutex, `switch_counter` uint8, `last_index`, `leftmost_ptr`, `sibling_ptr`, level); `records[]` (key, ptr) terminated by a NULL ptr | `remove_key`, `count`, `linear_search` (leaf and internal), `linear_search_range`, constructors. `insert_key`, `update_key`, `store` (split) and `merge` are declared only | Writers hold `hdr.mtx`; readers take no lock and validate against `switch_counter` |
| DRAM mirror node `bpnode`, class `btree` | declared only | (same contract, no flush) | (not in src) | |
| Subtree | `single_pmdk.h` 615-878 | `flag` (DRAM/NVM), roots, sibling/pre links, `heat`, `numa_heat[]`, `numa_visit[]`, `hotspot_numa`, log allocator, `rt`, `change`, mutex | constructors, `increaseHeat`, `refreshHeat`, getters/setters. Insert, migrate (`DFS`, `nvm_to_dram`, `dram_to_nvm`), rebalance and recovery are declared only | Worker threads call `increaseHeat`; the policy thread calls `refreshHeat` and migrates |
| `newSubtreeRoot` | 880-918 | | creates a subtree, from a split when `pre` is given, with heat `pre->heat*2/3` (DRAM) or `/2` (NVM) | |
| Coordinator `MyBtree` | 529-613 | pools, head of the subtree chain, singleton; the root object of pool 0 | `getInitial` (create pools and construct, or open pools and `Recover`), `setHead`, `setSubtreeNum` | Owns the subtrees; the front ends call `getInitial` once at start-up |
| WAL `LogAllocator` | `nvm_allocator.cpp` 67-140 | per-subtree log area | `writeKv`, `updateKv`, `deleteKey`, `operateTree` (32- and 16-byte records), `log_persist` | Used by subtree structural changes (declared only) |
| Allocator pools | `nvm_allocator.cpp` 10-65, 142-152 | `node_alloc`, `value_alloc`, `log_alloc_pool` per NUMA node | `AllocatorInit`, `AllocatorExit`, `alloc_memalign` | |
| API wrappers | `nvm_btree.cpp`, `nftree_nap.cpp` 27-81 | `bt` / `tree_`, `mybt` | `Init` (AllocatorInit, then `getInitial`, then `getBt`), destructors (`exitBtree`, `AllocatorExit`); Insert/Update copy the value into a `value_alloc` chunk; `Insert(key, char*)` and `NFTree::Put` store the caller's 8 bytes as the pointer | Forward to `btree` (declared only) |
| Benchmarks, tests | `nftree_nap.cpp` main, `src/test` | | workload drivers | |

The hard behaviours are these:

- **Lock-free readers against one locked writer.** A writer shifts entries one 8-byte store at a time. A reader loads the counter, then keys and pointers in a different order, and then loads the counter again.
- **Unordered operand loads.** The two loads of the duplicate test `records[i-1].ptr != (t = records[i].ptr)` happen in an order that C++ leaves unspecified.
- **A counter that only tracks direction.** The writer changes `switch_counter` only when the shift direction changes.
- **A racy heat counter.** `numa_visit += 1` is a plain read-modify-write shared by threads and by the policy thread's reset.
- **Uninitialised fields.** A `new subtree` does not initialise its heat fields.
- **Write-back order.** A store reaches persistent memory when the code flushes its cache line or whenever the cache evicts it. `sizeof(nvmheader)` is 40 bytes, not the 32 the comment at line 117 states, so every fourth entry has its key and its pointer in different lines.
- **Crashes.** A crash can happen during start-up between two persistent writes (pool files, the root object), between a log record's copy and its flush, mid-shift, or between a log record and the change it describes. The code that recovers from this (`Recover`) is not in `src`.

The properties that make each part correct are these:

- **Node:**
  - a search returns a value its key had during the search (spec §5, §8 "read consistency");
  - every search terminates once writers stop;
  - the node stays sorted, NULL-terminated and with the right `last_index`;
  - the node's content behaves as a dictionary;
  - after a crash at any point of `remove_key`, whatever the cache has written back, the persisted node reads as a content it really had (spec §4.1, §5).
- **Heat:**
  - the hotspot is a node holding at least 60% of the heat, and such a node is never missed;
- **Start-up and the log:**
  - `Recover` only runs on a store that was fully created: its root constructed, every pool open (spec §4.5, §7);
  - a log record whose append returned survives any crash whole;
  - (not yet modelled) replay at every record boundary yields the state before or after the operation, never a third state.

## 2. Modules

### `NvmPage.tla`: one `nvmpage`, leaf or internal

The constants are:

- `Keys`, `KeyMax` (`LONG_MAX`) and `Cap` (the slots; `records[Cap]` is the sentinel).
- `Readers` and `Writers`, plus `NoOwner` for the mutex.
- `MaxOps`, which bounds the writer operations.
- `WriterOps` ⊆ {insert, remove, update}.
- `InitKeys`, the keys inserted before checking starts, and `InitCounters`: 0 if that setup ended with an insert, 1 if it ended with a `remove_key` of another key (so the counter is odd and readers scan backward).
- `ReaderOps` ⊆ {search, range} and `RangeBounds`, the `(min, max)` pairs a range scan is called with.
- `FreshValues` / `RawValues`: where the stored value pointers come from. Every run uses fresh pointers from the value allocator.
- `LeftmostPtr`: `hdr.leftmost_ptr`, NULL for a leaf, a child pointer for an internal node; it is set by the constructor and never stored again.
- `SearchKeys`: the keys a search is called with (an internal node is searched for keys between its separators too).

The state is:

- `records`, `last_index` and `switch_counter`, taken % 256.
- `owner`, which is the mutex.
- Per-thread locals: `wst` for writers and `rst` for readers.
- Ghosts:
  - `dict`, the logical content;
  - `dictPre`, the content before the writer currently running;
  - per reader, `snaps`: every logical content the node had while its search or scan ran. A result is judged against these snapshots.

How the actions correspond to the code:

- **`remove_key_*`** (lines 192-229), one action per shared store:
  - `lock` takes the mutex and performs the counter flip of lines 194-196. A missing key returns false here.
  - `first` overwrites the removed slot's ptr with its left neighbour's (lines 201-205).
  - `shift_key` and `shift_ptr` (lines 207-209) repeat until the NULL terminator is copied.
  - `end` decrements `last_index` and unlocks (lines 224-228).
  - The flush is not modelled, because nothing crashes in this module.
- **`insert_key_*`** (spec-modelled, FAST&FAIR shift right):
  - the counter is changed before the shift begins (spec.md 4.1) and left even: the next even value, so a reader that loaded it earlier sees it change;
  - the terminator is copied one slot right;
  - each larger record moves right as ptr, key, ptr;
  - the new key and pointer are written, then `last_index` and the unlock.
- **`update_key`** (spec-modelled): one pointer store under the lock.
- **`linear_search_*`** (lines 337-404): one action per shared load.
  - The pass loads the counter.
  - Slot 0 is tested separately.
  - The forward loop, and the backward loop that starts from `count()`, test one candidate at a time: they load the key, then the operand pair in either order, then re-load the key.
  - The pass ends by re-checking the counter.
- **`linear_search_inner_*`** (lines 405-446), when `leftmost_ptr` is not NULL: the route to a child.
  - Slot 0: if the key is below `records[0].key` the answer is `leftmost_ptr`.
  - Forward, the loop condition reads `last_index`; each turn loads a key and, when the search key is below it, the pair `records[i-1].ptr` / `records[i].ptr` in either order; past the loop, the tail slot.
  - Backward, from `last_index` down; the pair test takes `records[i].ptr` when it differs from `records[i-1].ptr`, with no NULL test and no key re-load (the leaf branch has both).
  - `linear_search_check` (lines 450-461) re-checks the counter and turns a NULL answer into `leftmost_ptr`.
  - The reference answer is `Lookup`: the pointer of the largest separator ≤ key, else `leftmost_ptr`.
- **`count_*`** (lines 165-190) is the same, one load per step.
- **`linear_search_range_*`** (lines 250-335), on one leaf whose `sibling_ptr` is NULL, so the outer `while` runs once.
  - `pass` loads the counter and empties `buf` (`off = old_off`).
  - Forward, it tests slot 0 and then slots 1.. while the ptr is non-NULL (`cond`). Backward, it calls `count()` and walks from `count()-1` down to slot 0 (`bloop`).
  - Each slot is tested by `key` (`> min`; `>= max` returns at once, without the counter check), `pair` (the two ptr loads in either order; at slot 0 the other operand is NULL) and `rekey`, which appends `<<key, ptr>>` to `buf`.
  - The pass ends at the shared counter check.

`KVStore.tla` is the abstract dictionary: insert of an absent key, update or remove of a present key. `NvmPage` refines it through `AbsDict`:

- when the mutex is free, `AbsDict` is the node's content;
- while a writer holds it, `AbsDict` is the content before that writer.

A writer's whole operation therefore maps to one abstract step at its unlock. The property `KVSpec` is `KV!Spec`, with `KV == INSTANCE KVStore WITH dict <- AbsDict`.

### `SubtreeHeat.tla`: heat accounting of subtrees

The constants are:

- `NUMACOUNT`;
- `Threads`, each with a `ThreadId`, which is `my_thread_id`;
- `Uninit`, the values a field left uninitialised may hold;
- `MaxSubtrees` and `MaxCalls`.

The actions are:

- **`increaseHeat_load` / `_store`**: the racy `+= 1` of line 777.
- **`refreshHeat_begin`, `_fold` (line 784), `_reset` (line 785, which also adds to `new_heat`) and `_classify` (lines 787-794).** Only the policy thread writes `numa_heat`, `heat` and `hotspot_numa`, so classification is a single step.
- **`newSubtreeRoot(pre, kind)`** (lines 880-918). It uses `Construct`, the constructors of lines 649-714, which leave `numa_heat`, `numa_visit` and `hotspot_numa` as a nondeterministic choice from `Uninit`.

The ghosts are `calls` (completed increments) and `classified`. Heat is best-effort (spec §3, §4.3), so the lost increment of line 777 is not a property. `refreshHeat_begin` picks any live subtree; the policy loop that orders this (`MyBtree::Redistribute`) is not in `src`.

### `Lifecycle.tla`: start-up, the log, shutdown and crashes

Start-up runs on one thread (`NVMBtree::Init` or `NFTree`'s constructor and `Init`), so the only interleaving is a crash between two steps. The constants are:

- `NUMACOUNT`, one pool file per node;
- `Frontend` (`NVMBtree` or `NFTree`) and `HasValue` (`NVMBtree::Init`'s flag);
- `MaxBoots`, which bounds the process starts;
- `CrashPoints`, the positions at which a crash may happen;
- `LogSlots`, the records a subtree's log has room for;
- `MaxValues`, which bounds the value chunks handed out.

The state that survives a crash:

- `poolFile`, one per node;
- `root`, the root object of pool 0: `none`, `zeroed` (allocated by `POBJ_ROOT`) or `built`;
- `logNvm`: each log record `empty`, `torn` or `whole` on the media;
- `logTail`: the records handed out;
- `valueUsed`: the value chunks handed out.

Everything else (`pc`, the loop index, the allocator handles, `pop[]`, `mybt`, `bt`, `logCache`) is DRAM and is reset by `Boot`. `logAcked` is a ghost: the records whose append returned.

The actions are:

- `AllocatorInit`: either overload, the whole loop, because its state is volatile.
- `getInitial_check` (line 545): the store is new exactly when pool file 0 is missing.
- `getInitial_create`: one turn of the create loop per pool.
- `getInitial_root_create` / `_open`: `POBJ_ROOT`.
- `getInitial_construct`: `MyBtree::constructor`.
- `getInitial_open`: one turn of the open loop; `pmemobj_open` yields NULL for a missing file.
- `getInitial_recover`: `Recover`. Its body is not in `src`, so it is spec-modelled. On a sound store it hands out the tree. Otherwise it may abort, or return with a NULL or non-NULL `bt`.
- `Init_getBt`: `NVMBtree` asserts on a NULL `bt`; `NFTree` takes it unchecked.
- `log_store` then `nvm_persist`: `LogAllocator::writeKv`, `updateKv`, `deleteKey` and `operateTree`, in both forms. The copy leaves the record in the CPU cache; the flush makes it whole on the media, and then the call returns.
- `Destructor`: `~NVMBtree` / `~NFTree`, with `AllocatorExit`.
- `Insert_value`: `NVMBtree::Insert` / `Update` with a string value (lines 30-44). They take a chunk from `value_alloc[my_thread_id % NUMACOUNT]` unchecked, so a NULL allocator kills the process (`pc = "segv"`). The calls that only forward to the tree (`Insert(key, char*)`, `Delete`, `Get`, `GetRange`) change no state of this module. No run sets `HasValue = FALSE`, a caller error that would reach it.
- `Restart`: after an exit or an abort; the cache is written back.
- `Crash`: at a position in `CrashPoints`. DRAM is lost, and a cached record becomes `empty`, `torn` or `whole`.

### `NvmPageCrash.tla`: what of a leaf survives a power failure

It extends `NvmPage` with a persisted copy of the node and runs `remove_key`, the only writer in `src`, against it. The state it adds is:

- `base`: the page's address modulo 64. pmemobj hands out 16-byte aligned objects, so the constant `PageOffsets` is {0, 16, 32, 48}.
- `precords`, `psc`, `pli`: the persisted records, `switch_counter` and `last_index`.
- `pending`: the lines of the `pmemobj_persist` the writer issues next.
- `contents`: a ghost, every content the node has had.

The layout is that of the code: a 40-byte header, then 16-byte entries, so `records[i]` sits at `base + 40 + 16i`. The counter and `last_index` are at `+28..31`. A store goes to the cache, and a line is written back whole:

- `Evict` writes back any line at any time; this is the fault model, since the hardware decides it;
- `remove_key_shift_ptr_flush` is the ptr store of a shift step together with its `do_flush` test (lines 211-216). It sets `pending` to the lines of `pmemobj_persist(&records[i], 64)`;
- `remove_key_persist` writes those lines back, before the writer's next store.

A crash needs no action of its own. The property is an invariant over the persisted copy: `ImageSearch` runs the leaf `linear_search` of lines 336-384, with `count()` as `ImageCount`, on `precords`, as the first search after a restart would.

`MCNvmPage.tla`, `MCSubtreeHeat.tla` and `MCLifecycle.tla` define the model values and functions the cfgs use.

## 3. Runs

All runs use TLC with `-workers 2`; each run is a `.cfg` file.

| Run (cfg) | Expect | Checks | Shows |
|---|---|---|---|
| `NvmPageRemoveSearch` | pass | `ReadConsistency`, `SearchReturns` under `FairSpec` | With the code actually in `src` (`remove_key`, 4 keys, 4 removes), a concurrent leaf search never returns a wrong value and always returns. 1.09M states. |
| `NvmPageWriters` | pass | `TypeOK`, `NodeWellFormed`, `KVSpec` | On an internal node, any sequence of insert, remove and update keeps the node well formed and refines `KVStore`, while a child lookup runs. 505k states. |
| `NvmPageInsertSearch` | pass | `ReadConsistency` | Three inserts into an empty leaf, the counter starting even or odd, racing one lock-free search: with the counter changed at the start of every insert, the search never returns a value its key did not have. 159k states. |
| `NvmPageUpdateRange` | pass | `RangeConsistency` | A range scan `(10, LONG_MAX)` in either direction, racing `update_key`, returns each in-range value once, nothing out of range, and every value held throughout. 10k states. |
| `NvmPageRemoveRange` | violation | `RangeConsistency` | Once `remove_key` has made the counter odd, a scan `(0, 25)` runs backward, meets key 40 ≥ max first and returns empty (line 307). |
| `NvmPageInsertRange` | violation | `RangeConsistency` | One `insert_key` of 10 into {20}. The counter changes before the shift, and a forward range scan that loads it afterwards takes slot 0 `(20, p)`. The shift then moves it to slot 1 and leaves `leftmost_ptr` (NULL) in slot 0. The pair test of line 283 takes `p` again, and the unchanged counter ends the pass (line 325). |
| `NvmPageInnerSearch` | violation | `ReadConsistency` | A backward child lookup racing `remove_key` of the last separator takes the NULL left in the last slot and returns `leftmost_ptr` for key 40 (line 442). |
| `NvmPageRemoveCrash` | violation | `CrashConsistent` | One `remove_key`, for example of 20 from {10,20,30,40} at `base % 64 = 0`. The 40-byte header puts entry 1's key at byte 56 (line 0) and its ptr at byte 64 (line 1). The shift stores key 30 and then ptr 3 into entry 1. The `pmemobj_persist` from byte 56 covers both lines, but before it runs the cache writes back line 1 alone. The persisted entry 1 is then `(20, ptr of 30)`: within a line, stores would persist in order and the duplicate-ptr rule would hide the half-shifted entry, but across two lines it cannot. Which key and offset TLC reports depends on the search order. |
| `SubtreeHeatSplit` | pass | `TypeOK`, `NoMissedHotspot` | After `newSubtreeRoot` splits, with uninitialised counters, `increaseHeat` and `refreshHeat` on both subtrees, a NUMA node holding 60% of the heat is always made the hotspot. 1.67M states, about 20s. |
| `SubtreeHeatThreshold` | violation | `HotspotHasShare` | Two visits on node 1 give heat 1 after the refresh; `(1/5)*3` is 0, so node 0 becomes the hotspot with no heat at all (line 790). |
| `LifecycleReopen` | pass | `TypeOK`, `RecoverSound`, `LogDurable` | With crashes anywhere outside the create path (during `AllocatorInit`, the reopen path, `Init`, or a log append) and clean restarts, `Recover` only runs on a constructed store with every pool open, and no returned log record is lost. 2 nodes, 4 starts, 2 log records, 2 values; 1489 states. |
| `LifecycleCrashCreate` | violation | `RecoverSound` | A crash after `pmemobj_create` of pool 0 and before pool 1 exists: the next start sees pool 0, takes the reopen branch and runs `Recover` on a zero-filled root with pool 1 missing (line 545). |

Two defects found earlier have no standing run:

- with caller values stored as pointers (`NFTree::Put`), equal adjacent values hide a key even without concurrency (`FreshValues = FALSE`);
- two workers on one NUMA node lose an increment of `numa_visit` (line 777). spec §3 calls heat best-effort, so this is no longer checked.

Both are listed as hazards in `PROJECT.json`.

Every property of a passing run has a mutant in `PROJECT.json`: a plausible bug in a mapped definition, which TLC must catch. Examples:

- the writer never flipping the counter;
- the search loading `previous_switch_counter` only once;
- `>` in place of `>=`;
- a counter that changes only when the shift direction does.

### Bounds

- **One reader.** Readers write no shared state, so a second reader adds no behaviour that a single reader cannot show. With two readers the state space exceeded 25M states.
- **One writer.** Writers are serialised by the node mutex. A second writer adds only lock contention, which nothing reads.
- **Three or four slots and 3-4 operations.** These are enough for two overlapping shifts in the same direction, for a shift from slot 0, and for the backward scan from `count()`.
- **Start-up.** Two NUMA nodes are the fewest for which the create loop can be cut between pools, and four starts allow a crash, a restart after it, a clean exit and one more start. Two log records let a crash cut one append while an earlier one has returned.
- **Crash.** Four keys and four slots place the records over two or three cache lines at every offset in `PageOffsets`, so some entry straddles a line and some shift crosses a line. One `remove_key` suffices, since the persisted copy starts equal to the cached one.
- **Counter wrap-around** would need 256 direction changes within one pass. It is recorded as a hazard that no run reaches.
- **Heat.** Two NUMA nodes, at most two calls and `Uninit = {0, 5}` (the fields the constructors leave uninitialised) are enough for:
  - a heat of at least 10 where no node is hot;
  - a heat below 5, where the threshold rounds to 0;

  Refresh is unbounded, because decay keeps the values finite.

  `SubtreeHeatSplit` runs one worker. With two workers on different NUMA nodes (`Threads = {"t1", "t2"}`, otherwise the same constants), `TypeOK` and `NoMissedHotspot` also hold: 13.26M states in 2m49s with two workers. That is too slow for a standing run, so it was checked once.

### Fairness

`FairSpec` assumes weak fairness for each reader. A reader's steps are plain loads that no lock can block, so a thread that is scheduled keeps running. Writers get no fairness: `SearchReturns` is stated for every behaviour in which writers stop after `MaxOps` operations, which is how the retry loop is meant to terminate.

`Lifecycle` assumes no fairness: its runs check invariants only. `CHECK_DEADLOCK FALSE` in its cfgs reflects that the process stops for good after its last permitted start.

## 4. Not modelled, and why

What is left of `src` falls into three groups.

**Bodies that are not in the repository.** These are declared in `single_pmdk.h` and called from code that is not in `src`:

- `btree`, `bpnode`, `insert_key`, `store` (split), `merge`;
- the subtree operations `subtree_insert`, `DFS`, `nvm_to_dram`, `dram_to_nvm`, `rebalance`, `recovery`;
- `MyBtree::constructor`, `Recover`, `Redistribute`, `exitBtree`;
- `NVMAllocator` and `NVMLogPool`.

A model of log replay, of the subtree chain or of migration would be written from spec.md alone. It would hold because it was written to. The parts of them that the code in `src` does fix are already modelled:

- the log's append and flush;
- the constructors' links and heat;
- `getInitial`.

`setHead` and `setSubtreeNum` have no caller in `src`. `setHead` stores a `subtree*` that `newSubtreeRoot` takes from `new`, that is, from DRAM, into the persistent root. This is listed as a hazard.

**Code with no effect on index state.**

- `char8toint64`, `fillchar8wirhint64` and `KeyCompare` are called only by `CaculateCDF`, which nothing calls.
- `sting_to_uint64` and `main` in `nftree_nap.cpp` belong to the YCSB benchmark. Its hazards are listed in `PROJECT.json`:
  - the key bytes the hash drops;
  - run queues whose last `READ_WRITE_NUM % thread_num` entries are never run, or whose unset entries are run.

  Modelling `main` would need a run of its own. Each run answers a question about the engine, so `main` is not modelled.
- `src/test` holds raw bandwidth tests, and the rest is printing.

**Defects seen in the model that have no run of their own:**

- `insert_key` racing the forward child lookup of an internal node makes it return the wrong child (`ReadConsistency`, keys {20, 40}, one insert of 10). Like `NvmPageInsertRange`, it rests on the spec-modelled `insert_key`.
- A backward scan appends in decreasing key order, whereas spec.md 7 wants increasing order.
- `NVMBtree::Get` copies 256 bytes from a value chunk allocated with `value.size()` bytes.
