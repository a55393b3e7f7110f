# TLA+ models of letree (WIPE)

These modules model the learned-index persistent-memory key-value store
`letree` of `src/src/letree.h` and `src/src/pointer_bentry.h`, with its linear
models from `src/src/rmi_model.h`. The main model is of the default build:
`MULTI_THREAD` is commented out at `letree.h:16`, and `buncket_t` is
`UnSortBuncket`. The `MULTI_THREAD` build has a module of its own
(`LETreeMT`), as do the two other bucket kinds that the `buncket_t` typedef
can select (`Buncket`, `SortBuncket`).

The same directory also holds a second index, the combo-tree:
`src/src/alevel.*`, `blevel.*`, `bentry.*`, `kvbuffer.h` and `clevel.*`.
It is modelled by `CLevel`, `BEntry`, `ALevel` and `ComboTree`.

A third index, `src/src/learn_group.h`, is built over the same PointerBEntry
and bucket: a `RootModel` with an RMI (`src/include/learnindex/rmi_impl.h`)
over an array of `LearnGroup`s. It is modelled by `RMI` and `LearnGroup`.
Everything is checked with TLC.

## The system and how its parts interact

```
letree (root linear model, group_space[nr_groups_])
  └─ group g = clamp(model.predict(key) / min_entry_count), corrected by find_group's walks
       └─ group (nr_entries_, next_entry_count, min_key, model, entry_space[])
            └─ find_entry: model prediction + exponential_search_upper_bound
                 └─ PointerBEntry (up to 4 eentries [entry_key, bucket pointer])
                      └─ Find_pos: binary search over the slots
                           └─ UnSortBuncket (unsorted records, at most 15)
```

- `letree::Put` is a retry loop:
  1. The bucket takes the record.
  2. If the bucket is full and its PointerBEntry has a free slot, the bucket
     splits (`Expand_`), and the new eentry goes into slot `pos + 1`.
  3. If the entry is full, `group::Put` increments `next_entry_count`, and the
     group re-deals one eentry per PointerBEntry (`group::expand`).
  4. When `next_entry_count > max_entry_count`, `letree::ExpandTree` rebuilds
     every group from the trained root model.
- `Get`, `Update` and `Delete` route the same way and act on the bucket.
- Buckets come from a bump allocator, `CLevel::MemControl::Allocate`.

The combo-tree:

```
ALevel (entry_[]: CDF slot of a key -> [key, offset into BLevel])
  └─ GetBLevelRange_: [begin, end] of BLevel entries, begin-- when they meet
       └─ BLevel (entries_[], size_, physical_nr_entries_)
            └─ Find_: middle probe, then a linear scan inside [begin, end]
                 └─ BEntry (entry_key, KVBuffer of max_entries unsorted pairs)
                      └─ CLevel (B+-tree of SortBuffer nodes in MemControl)
```

- `BEntry::Put` stores a pair in the buffer. When the buffer is full, it
  first flushes the buffer into the CLevel: `Setup` builds the tree if there
  is none, and `CLevel::Put` inserts into it otherwise. A leaf split moves
  its upper half to a new leaf and pushes that leaf's first key up. An index
  split pushes its middle key up.
- `BLevel::Expansion` rebuilds the entry array into a new PM file:
  - from a sorted vector, the first load;
  - or from the old BLevel, whose entries it reads through `BEntry::Iter`,
    which merges each entry's CLevel leaf chain with its buffer.

  Each pair goes through `ExpandPut_`. That fills a `key_buf` of
  `BLEVEL_EXPAND_BUF_KEY` pairs and spills it (`FlushToEntry`) into a new
  entry or into the last one. A new `ALevel` is then built over the entries.

The learn_group index (`EXPAND_ALL` is defined at `learn_group.h:24`):

```
RootModel (TwoStageRMI<Key_64, 3, 2> model, group_entrys_[nr_groups_], max_groups_)
  └─ FindGroup: RMI prediction, then min_key <= key < max_key or a walk right / left
       └─ LearnGroup (PGM segment_, entries_[nr_entries_], min_key, max_key)
            └─ Find_: segment prediction, then a walk to the last entry_key <= key
                 └─ PointerBEntry, Find_pos, UnSortBuncket (as above)
```

- `RootModel::Load` cuts the sorted pairs into groups of `max_entry_counts`
  PointerBEntries of one pair each, and trains the RMI on the groups' first keys.
- `LearnGroup::Put` calls `PointerBEntry::Put` (bucket put and split). On
  Full it merges with the left neighbour if that holds at most
  `entry_count / 2` eentries, else with the right one (`MergePointerBEntry`
  moves one eentry across and puts the key into the side it now belongs to).
  A Full that remains goes back to `RootModel::Put`.
- `RootModel::Put` then runs `ExpandAllGroup`: every old group is re-cut into
  new groups of one eentry per PointerBEntry (`ExpandMeta::ExpandGroup`) in
  an array of `nr_groups_ * 3`, the RMI is retrained, and the Put retries.

## Modules

| Module | Models | State and actions |
|---|---|---|
| `LearnedSearch` | `group::find_entry`, `exponential_search_upper_bound`, the linear and binary upper-bound searches (letree.h 202-264), and `PointerBEntry::Find_pos` (pointer_bentry.h 2391-2421) | Pure operators. The loops are function definitions over sequences. The out-of-bounds read `entrys[4]` in `Find_pos` is modelled explicitly (`SlotKeyOrZero`). |
| `LinearModel` | `LinearModel::predict`, `LinearModelBuilder::add/build`, `rmi_line_model::init` (rmi_model.h) | Pure operators with exact rationals; `Trunc` is the `static_cast<int>`. |
| `UnSortBucket` | `UnSortBuncket`: `Find`, `Put`/`PutBufKV`, `Get`, `Update`, `remove_key`, `Delete`, `min_key`, `getSortedIndex`, `Expand_` (pointer_bentry.h 1573-2052) | Pure operators on a record `[rec, n]`. `Expand_` is modelled with its removal loop that rereads keys (`RemoveUpper`). |
| `SortBucket` | `SortBuncket` as built (`USE_DELETE_0` defined, pointer_bentry.h 869-1530): `PutBufKV` with its compaction and insertion loop, `Put`, `Find`, `LinearFind`, `Get`, `Update`, `remove_key`, `Delete`, `Expand_` | Pure operators on `[rec, lp, n]`: the records array, `last_pos`, `entries`. A delete leaves a hole (key 0, value 0) in place. |
| `Buncket` | `Buncket`, the `#else` branch of pointer_bentry.h 455-857: `PutBufKV` (`find_first_zero_bit`), `Put`, `Find`, `Get`, `Update`/`SetValue`, `Delete`/`DeletePos`, `Expand_` | Pure operators on `[buf, bits, idx]`: the slots, the set bits of `bitmap`, and `total_indexs[0 .. entries-1]`. `buf` spans the 40 bits the scan looks at, so a slot past `max_entries` is representable. |
| `PointerBEntry` | `PointerBEntry` over any bucket kind (pointer_bentry.h 2341-2555): the constructor, `Put` with its split-and-retry loop, `Get`, `Update`, `Delete` | The bucket operations are operator constants (`BkPut`, `BkSplit`, ...), so one caller serves every bucket kind. Variables: `ents` (the eentries), `bkt`, `nbkt`, `pend`, `ret`. Actions: `Put`, then `PutInBucket`, `SplitBucket` or `PutFull`; `Get`, `Update`, `Delete`. |
| `KVStore` | The promise of spec.md: a map from keys to values | `dict`, `ret`; `Put`, `Get`, `Update`, `Delete`, `BulkLoad(S, f)` (the map becomes `f` on `S`, and `ret` records the load), and `Scan(k, len)`, which returns the first `len` present keys `>= k` in ascending order with their values. |
| `LETree` | The whole single-threaded index | Variables: `bkt` (the buckets), `nbkt` (the allocator cursor), `grp` (group_space with each group's `ents`, `nec`, `minKey` and `mdl`), `root` (the root model), `pend` (the Put in progress) and `ret`. The actions follow below this table. |
| `LETreeMT` | The `MULTI_THREAD` build of letree.h: `trans_begin`, `find_group`, the group mutexes of `lock_space`, Put's recheck, `ExpandTree`'s CAS, copy, install and notify | Keys are abstracted to group indices. Every read or write of shared synchronisation state is a step of its own. Variables: per thread `pc`, `op`, `grpOf` and `lkGen` (the `lock_space` generation its lock call read); shared `flag` (`is_tree_expand`), `waitSet`, `gen`, `owner` and `freed`. |
| `MC_Algorithms` | TLC harness for the pure operators | The inputs of `MC_UnSortBucket` (every bucket for `Expand_`) and `MC_LearnedSearch` (every small sorted array) are initial states. |
| `MC_LETree`, `MC_SortBucket`, `MC_SortBucketDel`, `MC_Buncket` | TLC harnesses | Each adds `absDict`, the abstract map computed after every step, and instantiates `KVStore` with `dict <- absDict`. The bucket harnesses instantiate `PointerBEntry` with one bucket kind's operators; `MC_BucketKinds` runs `MC_SortBucket` and `MC_Buncket`, and `MC_SortBucketDel` has no run (see the hazards). |
| `MC_LETreeBulk` | TLC harness that adds `bulk_load` of any non-empty set of pairs to `MC_LETree` | `absDict` is not recomputed after a load, because a tree without groups cannot be read. |
| `MC_BucketKinds` | TLC harness for the two bucket kinds the build does not select | `kind` is `"sort"` or `"bitmap"`, fixed in the initial state. The other variables are those of `MC_SortBucket` or `MC_Buncket`, and only that harness takes steps. Each kind is checked against `KVStore` on its own key set. |
| `MC_LETreeScan` | TLC harness that adds `Scan` to `MC_LETree` | `MCNextScan` is `MCNext` or a scan from any key for any length up to one more than there are keys. |
| `MC_LETreeMT` | TLC harness for `LETreeMT` | Two threads; the violation configurations choose their own bounds. |
| `RMI` | `TwoStageRMI` and `LinearModel` of rmi_impl.h: `prepare_model` (least squares), `LinearModel::predict`, `adjust_rmi`'s starting model count, `init`/`train_rmi`, `pick_next_stage_model`, `predict` | Pure operators. A line is the exact rational `(a * x + b) / d`. Training is defined for fewer than `2 * root_error_bound` keys, where there is one second-stage model. |
| `LearnGroup` | learn_group.h with `EXPAND_ALL`: `RootModel` (`Load`, `Put` with `retry0`, `Get`, `Update`, `Delete`, `FindGroup`, `ExpandAllGroup`), `LearnGroup` (`Find_`, `Put` with both merges, `Get`, `Update`, `Delete`), `ExpandMeta::ExpandGroup` and `MergePointerBEntry` | Variables: `bkt`, `nbkt`, `grp` (each group's `ents`, a sequence of PointerBEntries, each a sequence of eentries `[key, b]`, with `minKey` and `maxKey`), `model` (the trained RMI), `cap` (`max_groups_`), `pend` (the Put in progress, with `merged`: this `LearnGroup::Put` already merged) and `ret`. Actions: `Load`, `Put`, then `BucketPut`, `BucketSplit`, `MergeLeft`, `MergeRight` or `ExpandAllGroup`; `Get`, `Update`, `Delete`. The PGM segment's prediction is any position (`SegPreds`), since `Find_` corrects from any start. |
| `MC_LearnGroup` | TLC harness for `LearnGroup` | `Load` of the sets in `LoadSets`; `absDict` is the map read back through `LookupIn`, and `KV` instantiates `KVStore` with it. |
| `CLevel` | The combo-tree's `CLevel` (clevel.h, clevel.cc): `Node::Put` with `LeafSplit` and `IndexSplit`, `PutChild`, `FindLeaf`, `FindHead`, `Setup` from a KVBuffer, `Get`, `Update`, `Delete`, the leaf-chain `Iter`, and `MemControl`'s node allocation | Pure operators on a record `m` (the node pool: `node`, `nn`) and a root index. A node is its sorted view (`recs`, `next`, `first`). The `sorted_index` nibble permutation of `SortBuffer` is abstracted to that order. |
| `BEntry` | `KVBuffer` (kvbuffer.h: `Find`, `Put`, `Delete`, `Update`) and `BEntry` (bentry.cc, bentry.h: `Put` with its flush rule, `FlushToCLevel`, `Get`, `Update`, `Delete`) | Pure operators on an entry `[key, buf, root]` and the node pool. |
| `ALevel` | `ALevel`'s constructor (alevel.cc 10-61, with `CDFIndex_`), `GetBLevelRange_` and `BLevel::Find_` | Pure operators. The CDF is computed in exact rational arithmetic, not in `double`. |
| `ComboTree` | `BLevel` with its `ALevel` in front: `Put`, `Get`, `Update`, `Delete`, `Expansion(data)` (`Load`) and `Expansion(old)` | Variables: `mem`, `ents`, `phys`, `al`, `size`, `ret`, and the counters `dels` and `exps`. Each operation is one action. Expansion is a fold of `ExpandPut` over the pairs the merging `Iter` emits (`OldPairs`), then `ExpandFinish` and `Install`, which puts the new entry array and ALevel in place. |
| `MC_ComboTree` | TLC harness for `ComboTree` | `absDict` is the map read back with `LookupIn` (ALevel range, `Find_`, `BEntry::Get`) after every step, and `absPrev` is the one before. `KV` instantiates `KVStore` with them. `AbsRet` maps `ret`: Put's `false` (status OK converted to bool) and Delete's constant `true` say nothing about the map, so they become KVStore's results. |
| `MC_ALevel`, `MC_CLevel` | Harnesses for the pure combo-tree operators, instantiated by `MC_Algorithms` | `MC_ALevel`: every entry array of up to six entries over keys 1..9, under spans 1..3. `MC_CLevel`: every insertion order of six keys into a CLevel of 3-record nodes. |

The actions of `LETree`:

- `Put(k, v)` starts a Put, and the four steps of the retry loop follow:
  - `BucketPut` (`PointerBEntry::Put`, including the lowering of `entry_key`);
  - `BucketSplit` (`Expand_`, the slot shift, `entries++` and `next_entry_count++`);
  - `GroupExpand` (`group::expand`);
  - `ExpandTree` (`letree::ExpandTree`).
- `Get`, `Update` and `Delete` are one step each. Each one's guard and
  result come from the code's early returns.
- `BulkLoad(S, f)` is `letree::bulk_load` of the pairs of `f`, sorted:
  - the root model is trained on the keys;
  - `nr_groups_ = size / min_entry_count`;
  - the keys are counted per predicted group;
  - each non-empty group takes the next pairs in order (`BulkLoaded`);
  - `group::bulk_load` (`GroupLoaded`) sets `min_key` to the first key of
    the whole load;
  - each pair takes a new bucket.

  `MC_LETree`'s `MCSpecBulk` adds it.
- `Scan(k, len)` is one step too. It runs the whole call chain as
  operators, and `ret` records the pairs it pushed:
  - `letree::Scan` and `scan_fast` (`ScanFastGroup`);
  - `scan_slow`, with its unbounded skip over empty groups
    (`SlowFrom`, `NonEmptyFrom`);
  - `group::Scan` (`GroupScan`, `GScanFrom`);
  - `PointerBEntry::Scan` (`PBScan`, with the retry loop `ScanAgain`);
  - `UnSortBuncket::Scan`, in the `if_first` form (`BScanFirst`) and the
    other form (`BScanRest`).

  A scan that can never return has `ret.op = "hang"`, and one that reads
  `group_space` past its end has `ret.op = "ub"`. `Scan` is not part of
  `LETree`'s `Next`: the passing runs check the other operations, and
  `MC_LETreeScan` adds it.

The steps of a thread in `LETreeMT`, in the code's order:

1. `Start`: the thread enters an operation.
2. `TransBegin` and `WaitCV`: `trans_begin` tests `is_tree_expand`, and if
   it is set, waits on `expand_wait_cv`. `Wake` and `SpuriousWake` end the
   wait.
3. `FindGroup`.
4. `LockRead` and `Acquire`: `pthread_mutex_lock`, whose read of
   `lock_space` is a step of its own.
5. `Recheck`: Put only.
6. `GroupOp`.
7. `Unlock` and `UnlockCurrent`: the unlock reads `lock_space` again.
8. `Return`.

A thread whose Put returned Full runs `ExpandTree`: `ExpandBegin` (the
compare-exchange), then `ExpandBuild`, `ExpandInstall` (which `delete[]`s
the old `lock_space`), `ExpandClear` and `ExpandNotify`. `Get` is a single
step, `Read`.

## Runs

| Run | Config | Checks | Result |
|---|---|---|---|
| `algorithms` | `MC_Algorithms.cfg` | `SplitPartitions`: `UnSortBuncket::Expand_` on every bucket of up to 5 distinct keys, in every order, gives two buckets that hold exactly the original records, divided at `split_key`. `FindEntryIsUpperBound`, `FindPosIsUpperBound`: from any prediction, including clamped ones, `find_entry` and `Find_pos` agree with a reference upper bound. The arrays are all sorted arrays of up to 6 keys from 0..8, plus arrays of 13, 17 and 20 keys, which take the binary-search path. `ALevelRoutes`: for every combo-tree entry array of up to six entries over keys 1..9 and every span 1..3, the `ALevel` range and `BLevel::Find_` give each key the last entry whose key is `<=` it. `CLevelBuildSound`: for all 720 insertion orders of six keys, `Setup` and `CLevel::Put` (with leaf and index splits) leave a tree whose leaf chain holds every key once, in order, that `Get` finds every key in, and whose nodes all have room. | Pass, 32,214 states. |
| `letree` | `MC_LETree.cfg` | `TypeOK`; `EntryRouting` (entry keys strictly increase along the tree, and every bucket holds only keys between its entry key and the next); `NecCounts` (`next_entry_count` equals the group's eentries); `KVRefinement` (the tree implements `KVStore`); `PutCompletes` (every Put returns). | Pass, 31,099 states. |
| `mt_protocol` | `MC_LETreeMT.cfg` | `TypeOK`; `ExpandExclusive` (one `ExpandTree` at a time); `ExpansionEnds` (`is_tree_expand`, once set, is cleared again). Two threads, each doing two of Put, Update, Delete and Get, and two expansions. | Pass, 326,439 states. |
| `mt_lost_wakeup` | `MC_LETreeMT_lostwake.cfg` | `WaitersWake`. | Violation (finding 1). |
| `mt_expand_race` | `MC_LETreeMT_race.cfg` | `NoWriterDuringExpand`. | Violation (finding 2). |
| `mt_stale_unlock` | `MC_LETreeMT_stale.cfg` | `GroupExclusive`. | Violation (finding 3). |
| `letree_scan` | `MC_LETreeScan.cfg` | `KVRefinement` with `Scan` added. | Violation (finding 4). |
| `bucket_kinds` | `MC_BucketKinds.cfg` | Either bucket kind, chosen in the initial state. For `SortBuncket`, five keys, with Put, Get, Update and splits but no Delete: `TypeOK` (`last_pos` within the records array, `entries <= last_pos`) and `BucketsSorted` (the records below `last_pos`, holes aside, in ascending order). For `Buncket`, four keys, with Delete too: `TypeOK` (used slots within `max_entries`), `BitmapMatchesIndex` (the set bits are exactly the slots `total_indexs` names, each once) and `IndexSorted`. For both kinds: `KVRefinement`. | Pass, 49,638 states. |
| `combo_tree` | `MC_ComboTree.cfg` | `TypeOK`; `RoutedToOwner` (entry keys increase, the ALevel range and `Find_` route every key to the last entry whose key is `<=` it, and every pair is held by that entry); `CLevelSound` (every CLevel's leaf chain is sorted, `FindLeaf` reaches each of its keys, and no node is full); `KVRefinement` (the combo-tree implements `KVStore`, and `Expansion` leaves the map unchanged). A first load, fresh Puts, Gets, Updates, two Deletes and two `Expansion(old)` calls. | Pass, 6,385 states. |
| `combo_phantom` | `MC_ComboTree_phantom.cfg` | `KVRefinement` with a third Delete. | Violation (finding 5). |
| `learn_group` | `MC_LearnGroup.cfg` | `TypeOK`; `IndexOrder` (entry keys strictly increase within and across the PointerBEntries of a group, every bucket holds only keys between its eentry's key and the next, and each group's `min_key` is its first entry key and its `max_key` the next group's `min_key`); `KVRefinement` (the RootModel implements `KVStore` from every segment prediction, and merges and `ExpandAllGroup` leave the map unchanged); `PutCompletes` (every Put returns, through merges and expansions). | Pass, 32,110 states. |
| `learn_group_overflow` | `MC_LearnGroup_overflow.cfg` | `GroupsFit` (the group array never holds more groups than were allocated) at the code's `entry_count` of 4. | Violation (finding 6). |

More configurations reproduce defects that have no run of their own. Three
are of `SortBuncket` once Delete is enabled (`MC_SortBucketDel`), and one
more is of the `MULTI_THREAD` build. Two more are of the default build:
they were runs, and the project keeps them as reproductions. All are
listed as hazards in `PROJECT.json`. `SortBuncket` is not the bucket the
build selects. The freed-mutex use shares its cause with finding 3. The
former runs gave way to the combo-tree and learn_group runs under the
project's cap of twelve runs.

- `MC_SortBucketDel_blocked.cfg` violates `KVRefinement`:
  - `Find` bisects only `records[0 .. entries-1]`, and `remove_key` stops at
    the first hole;
  - so after Put 1, Put 2, Delete 1, Update 2 returns NoExist while Get
    finds key 2.
- `MC_SortBucketDel_unsorted.cfg` violates `BucketsSorted`:
  - the insertion loop stops at a hole's key 0;
  - Put 1, Delete 1, Put 2, Put 1 leaves `[2, hole, 1]`.
- `MC_SortBucketDel_lastpos.cfg` violates `TypeOK`:
  - a Put into a bucket with `entries = 0` writes slot 0 and still increments
    `last_pos`;
  - after repeated put and delete, `last_pos` passes the array.
- `MC_LETree_dup.cfg` violates `KVRefinement` (duplicate Put, reproduction 1
  below).
- `MC_LETreeMT_update.cfg` violates `LocksReleased` (Update never unlocks,
  reproduction 2 below).
- `MC_ComboTree_fullleaf.cfg` violates `CLevelSound` when
  `BLEVEL_EXPAND_BUF_KEY` equals `max_entries`. Neither is defined in the
  shipped sources, and `FlushToEntry` then stores a full buffer with no
  CLevel. The next `BEntry::Put` sets the CLevel up from all of it, a full
  leaf, and `SortBuffer::Put`'s `assert(index(11) < max_entries)` fails on
  the Put after. It is listed as a hazard, since it depends on a value the
  repository leaves open.
- `MC_LETreeBulk.cfg` violates `HasGroup` (`bulk_load` of few pairs,
  reproduction 3 below).
- `MC_LETree_values.cfg` passes `KVRefinement` with two values and
  `bulk_load` of at least `min_entry_count` pairs between the other
  operations (`MCSpecBulk`, 9,367 states, 7 s). It was the run that checked
  `Update`'s overwrite and `bulk_load`; no run checks them now.
- `MC_LETreeMT_freed.cfg` violates `NoFreedMutexUse`:
  - a writer's `pthread_mutex_lock` reads `lock_space`, and `ExpandTree`
    `delete[]`s that array (letree.h:1047) before the lock is taken.

### Findings

1. **Lost wake-up** (letree.h:666). `trans_begin` tests `is_tree_expand`,
   then waits on `expand_wait_cv` with no predicate and without holding the
   wait lock across the test. If `ExpandTree` clears the flag and notifies
   in between, the thread sleeps until a later expansion, possibly forever.
2. **ExpandTree copies groups without locks** (letree.h:967). `Delete` has no
   recheck of the flag, and a Put may already be past its recheck. So a group
   is modified while `ExpandTree` copies it, and the change is lost.
3. **Stale unlock after the `lock_space` swap** (letree.h:807, and 814
   likewise). Each unlock reads `lock_space` again. In the trace, thread 2's
   Put locks group 0 of the old array; thread 1's `ExpandTree` installs the
   new array; thread 3 locks group 0 of the new array and enters the group.
   Thread 2's recheck sees `is_tree_expand`, unlocks group 0 of the *new*
   array (thread 3's mutex, leaving the old one locked), retries, locks that
   mutex and enters the group alongside thread 3. `GroupExclusive` compares
   mutexes (generation and index), so two threads under mutexes of different
   generations, the expansion race and the freed array, do not count here.
4. **Scan returns keys below the start key** (pointer_bentry.h:2455).
   `scan_slow` scans its first group with `if_first`. `PointerBEntry::Scan`
   then passes start key 0, not `start_key`, to the first bucket. So after
   `Put(1, 1)`, `Scan(2, 1)` returns `<<1, 1>>`. spec.md says every returned
   key is `>= k`.

   The same scan path has two more defects:
   - The `if_first` bucket loop starts at `i = sorted_index_[0]`
     (pointer_bentry.h:1996). That is a record position used as a rank, so
     the loop can skip the smallest keys.
   - The retry loop of `PointerBEntry::Scan` (2467) never advances `pos`.
     It pushes the records of `entrys[1]` again and again as duplicates.
     When that bucket is empty, it never returns.

   With `Keys = {1, 2, 3}` the model reaches the hang after Put 1, Put 3
   (a split), Put 2, Delete 3 and `Scan(1, 3)`.
5. **Expansion brings a deleted key back** (blevel.cc:607).
   `Expansion(old)` reads each old entry with a do-while over
   `bentry_t::Iter`. It reads `key()` and `value()` before it asks `next()`.
   When an entry has a CLevel that is empty and an empty buffer, that first
   read goes through `sorted_index_[0]`, which `GetSortedIndex` never wrote.
   The model takes that uninitialized int as any slot `0 .. max_entries-1`
   of the buffer, and every one of them still holds a deleted pair.
   Load {1, 2, 4}, Put 3 (a flush sets up the CLevel), Delete 1, 2 and 3,
   then Expansion: key 3 is back, with its old value.
6. **ExpandAllGroup writes past its group array** (learn_group.h:324).
   `ExpandAllGroup` allocates `nr_groups_ * 3` LearnGroups (line 400).
   `ExpandMeta::ExpandGroup` gives every eentry a PointerBEntry of its own,
   `max_entry_counts` per new group, so an old group whose PointerBEntries
   each hold `entry_count` = 4 eentries becomes four groups. Placement-new
   at `groups_[nr_group_]` has no bound, and `assert(meta.nr_group_ <=
   new_cap)` (line 416) comes after the writes, and is compiled out
   under `NDEBUG`. The trace: Load one pair into one group of one
   PointerBEntry (`max_entry_counts = 1`), Put 2 to 5 (three splits fill
   the PointerBEntry with 4 eentries), then Put 6 into a full bucket: with
   no neighbour to merge with, `ExpandAllGroup` writes 4 groups into an
   array of 3. The code's `max_entry_counts` only changes how many old
   groups it takes.

### Reproductions

These defects of the default build are shown by configurations that are
no longer runs (see above); `FreshPuts = TRUE` in every passing run
exists because of the first.

1. **Duplicate Put** (pointer_bentry.h:1931). `UnSortBuncket::Put` appends
   without looking for the key, and no caller checks either. The sequence
   `Put(1,1)`, `Put(1,1)`, `Delete(1)` leaves key 1 visible, because
   `Delete` removes only the first record. spec.md says put inserts or
   updates, and that get after delete returns NotFound. The passing runs
   therefore set `FreshPuts = TRUE`: Put is only called on keys that are
   absent.
2. **Update never unlocks** (letree.h:833). `letree::Update` locks the
   group mutex and returns without unlocking it. The next writer of that
   group blocks forever.
3. **`bulk_load` of few pairs leaves no group** (letree.h:768).
   `nr_groups_ = size / min_entry_count` is 0 for fewer than 64 pairs.
   The clamp of the predicted group then gives -1, `inc_entry_count` writes
   `group_space[-1]`, and every later operation reads it. spec.md's seed
   scenario 1 bulk-loads three pairs and then expects `get(1)` to return
   101.

Every property of every passing run has a mutant in `PROJECT.json`: a
plausible bug in the code it is about, under which TLC reports the property
violated. The mutants include:

- a split that inserts at `pos` instead of `pos + 1`;
- a missing room check;
- find_group's left walk using `<=` instead of `<`;
- `ExpandTree` setting the flag without the compare-exchange, or never
  clearing it;
- `SortBuncket`'s split key taken one record too low;
- `Buncket::Delete` leaving the bit set;
- `Buncket::Put` appending to `total_indexs` instead of inserting;
- `Buncket`'s Full test off by one;
- a leaf split that pushes up the last key of the lower half, or that does
  not count the new root node;
- an index split that pushes up the key after the middle one;
- `ExpandPut_` naming a new entry after the last buffered key instead of
  the key that does not fit;
- the ALevel constructor without its back-fill of empty slots;
- `KVBuffer::Delete` that lowers the count without moving the last pair
  into the hole;
- learn_group's cut making groups of `max_entry_counts + 1` eentries;
- `MergePointerBEntry` appending a full left's last eentry behind right's
  instead of in front;
- `LearnGroup::Find_`'s rightward walk stopping before an equal
  `entry_key`;
- `LearnGroup::Put` merging again on the Full that follows a merge, which
  makes two PointerBEntries pass one eentry back and forth forever.

## Bounds and why they suffice

In `MC_LETree.cfg`:

- `BucketCap = 2`, `EntryCap = 2`, `MinEntryCount = 2`,
  `MaxEntryCount = 2` and `MaxBuckets = 4`. These are the code's 15, 4, 64,
  1024 and the PM file size, scaled down, so that every branch of the retry
  loop happens.
- Keys 1..5 are the fewest that reach `ExpandTree`: with 4 keys it never
  fires. Coverage shows every action and every disjunct firing.
- `LinearSample = 1`. `rmi_line_model::init` ignores `sg_num` and samples
  every `linear_sample` keys, so the value only thins the training set.
- `Vals = {1}`: the tree's shape does not depend on values. With two
  values and `bulk_load` the model grows past 330,000 states in 15 minutes
  without finishing; `MC_LETree_values.cfg` uses two values on fewer keys.
- The `VIEW` leaves out `ret` and `absDict`, which are functions of the rest
  of the state.

`MC_LETreeMT.cfg` uses:

- two threads, so that an operation and an expansion interleave, and one
  thread can wait in `trans_begin` while the other expands;
- `MaxGen = 2`, so that a thread can hold a mutex across two swaps;
- `MaxOps = 2`: each thread starts at most two operations;
- `NGroups = 2`.

Each violation configuration uses the fewest threads and expansions that
reach its defect. `MC_LETreeMT_stale.cfg` needs three threads: one
expands, one locked the old array before the swap, and one holds the new
mutex that the second unlocks. `MC_LETreeMT_freed.cfg` uses the same bounds.

`MC_LETree_values.cfg` has `MaxBuckets = 3`, so a bulk load holds two
pairs and makes one group. Multi-group loads (`MinEntryCount = 1`, or
`MaxBuckets = 4`) pass too, but they take 2 to 5 minutes, longer than a run
may. `MC_LETreeBulk.cfg` sets `MinEntryCount = 4`, so any load of one to
three keys is too small.

`MC_LearnGroup.cfg` scales learn_group down:

- `BucketCap = 2`, `EntryCap = 2` (`entry_count`), `MaxEntryCounts = 2`
  (`max_entry_counts`), `MaxBuckets = 4`, keys 1..5, one value, and loads
  of `{1}` or `{1, 5}`. With these, every path of a Put happens: a bucket
  put, a split, a merge with the left and with the right neighbour, a
  Full after a merge, and `ExpandAllGroup` from both.
- `Epsilon = 4`, and `max_entry_counts <= 2 * epsilon + 1`: every set of
  that many points fits one segment within `epsilon`, so the PGM fitting's
  `add_point` never fails and groups are cut by count alone.
- `RootErrorBound = 3`: with fewer than 6 groups (`Train` asserts it) the
  RMI has one second-stage model, which is the case `RMI` defines.
- `EntryCap = 2` keeps the expansion within `nr_groups_ * 3`; at the code's
  4 it is not (finding 6), so the pass run checks everything but that.

`MC_BucketKinds.cfg` gives `SortBuncket` five keys, the fewest with which
an entry fills up (`PutFull`). `Buncket`, which also deletes, gets four.

`MC_LETreeScan.cfg` uses keys 1 and 2 and the sizes of `MC_LETree.cfg`:
one Put before a scan from key 2 is enough to show finding 4.

The bucket harnesses use buckets of 2 records and entries of 2 eentries.
With these sizes every Put path happens: into the bucket, split, and entry
full. `Buncket`'s `BitScan = 3` lets a scan past `max_entries` find a slot.
`SortBuncket` with `Cap = 4` is needed for the unsorted trace, which takes
three live records.

`MC_ComboTree.cfg`:

- `Keys = {1, 2, 3, 4}` and `MaxEntries = 3`. Three is the smallest
  `max_entries` with a leaf split that keeps a record on each side.
  `ExpandBufKey = 2`, so a first load of one to four keys writes several
  entries. Then a buffer flushes into a CLevel, a leaf splits, an index root
  appears, and two expansions read those trees back.
- `MaxDeletes = 2` and `MaxExpansions = 2`. The third Delete is what
  finding 5 needs, so `MC_ComboTree_phantom.cfg` allows three Deletes and
  one expansion.
- `MaxNodes = 8` bounds each BLevel's node pool. A step that would pass
  it is not taken.
- `Span = 2`. Routing with other spans and longer entry arrays is the
  `ALevelRoutes` property of the `algorithms` run, over arrays of up to six
  entries on keys 1..9 and spans 1..3.
- `EntrySizeFactor = 1`. `BLEVEL_EXPAND_BUF_KEY` and `ENTRY_SIZE_FACTOR`
  have no definition in the shipped sources, since `letree_config.h` is
  missing.

The index split of a CLevel needs more keys than that run can afford. It
is covered by `CLevelBuildSound`, over every order of six keys.

## Fairness

The default build runs one operation at a time on the caller's thread, and
nothing inside `letree::Put` waits. So the steps of a Put in progress
(`PutStep`) are weakly fair, in `LETree`, `PointerBEntry` and `LearnGroup`
alike.
Nothing is assumed of the client's calls.

In `LETreeMT`, each thread is an OS thread, so each thread's steps (`Step(t)`)
are weakly fair. This fairness covers waking from `expand_wait_cv.wait`
once notified. It does not cover starting an operation, because nothing makes
a client call again. It does not cover a spurious wake-up either, because
none is promised. `ExpansionEnds` holds under this fairness. `WaitersWake`
does not (finding 1).

The combo-tree runs check safety only and assume no fairness. Each
operation is one step, called by a front end that is not in `src/src`,
so there is nothing in progress that must finish.

## Not modelled yet (plan for later sittings)

1. **Crashes and persistence.** The plan is to model the order of the
   `Mem_persist` calls within a split (pointer_bentry.h 2522-2535) and within
   `ExpandTree`, and to state what is reachable after a crash. The repository
   has no recovery code.
2. **The vector overloads of `bulk_load`** (letree.h 714-753, 133-163),
   which the driver does not call, and the `Scan` of the bucket kinds the
   build does not select. `SortBuncket::Scan` (pointer_bentry.h:1458)
   declares a second `pos` that shadows the one it advances.
3. **`USE_TMP_WRITE_BUFFER`**, the FastFair write buffer used during
   expansion in the `MULTI_THREAD` build.
4. **Allocator exhaustion.** `MemControl::Allocate` only asserts that it has
   room (clevel.h:182). Today the model bounds it with `MaxBuckets`.
5. **Numeric limits.** The `int` conversion in `predict` can overflow on
   large keys; this is outside TLC's reach at the code's widths.
6. **Combo-tree parts.** The model takes the build with every option of
   the missing `letree_config.h` undefined, except `USE_LIBPMEM`.
   - `BRANGE`: `ranges_`, the intervals, and `PrepareExpansion`'s
     multi-threaded expansion. Without `BRANGE`, the `else` branches of
     `ExpandPut_` and `ExpandFinish_` still name `ranges_`, so that build
     does not compile as shipped. The model keeps what the "put into the
     last entry" branch does, without its lock.
   - The per-entry `shared_mutex`: the operations are modelled one at a
     time, because their caller is not in `src/src`.
   - The `NearPos` operations, `Scan`, the start-key `Iter`, `NoSortIter`,
     and the `BUF_SORT` branches.
   - The `SortBuffer` nibble permutation. A node is modelled by its sorted
     view. The uninitialized `sorted_index_[0]` read of finding 5 is
     modelled as a choice of any buffer slot.
   - The ALevel's `double` arithmetic. The CDF is exact in the model.
   - `MemControl`'s PM files and flushes.
   - `learn_index`, the `pgm` and `rmi` wrappers, `PmemKV` and
     `manifest.h`. Their callers are not in `src/src`. The wrappers call
     external libraries, `PmemKV` is a `std::map` with reference counts,
     and `manifest.h` is file I/O.
7. **Code letree does not use.**
   - The `USET_PREFIX_COMPRESS` branch of `Buncket`.
   - The workload driver and the statistics, which are I/O only.
8. **learn_group parts.**
   - The build without `EXPAND_ALL` (`ExpandEntrys`, repeated group
     pointers), which `learn_group.h:24` switches off.
   - The PGM fitting (`OptimalPiecewiseLinearModel`, in
     `piecewise_linear_model.hpp`, which is not in the repository). A
     segment's prediction is any position; `Segment::operator()` clamps a
     negative one to 0, and `Find_` corrects from any start. The last
     group `Load` builds never sets `segment_`: `Expansion` only does so on
     `break`, and the constructor leaves it alone. On zeroed (fresh)
     memory that segment predicts 0, which the model covers; on reused
     memory `operator()` can return a value whose `int` conversion in
     `Find_` is negative, and `entries_[pos]` is then read before the
     array. The model does not cover that read.
   - The RMI with several second-stage models (6 or more groups) and
     `adjust_rmi`'s error-driven trial loop, and its `double` arithmetic.
   - RootModel's iterators and `Scan`, and the persistence calls.
