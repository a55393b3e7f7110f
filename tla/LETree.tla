------------------------------- MODULE LETree -------------------------------
(***************************************************************************)
(* The letree index of src/src/letree.h and src/src/pointer_bentry.h, as  *)
(* built by default (MULTI_THREAD off, buncket_t = UnSortBuncket):        *)
(*                                                                         *)
(*   root model --predict/min_entry_count--> group (group_space[g])       *)
(*   group      --model + exponential search--> PointerBEntry (<= 4 slots) *)
(*   slot       --Find_pos--> eentry [entry_key, pointer to a bucket]     *)
(*   bucket     --linear scan--> unsorted records [key, value]            *)
(*                                                                         *)
(* One operation runs at a time.  letree::Put is a retry loop; each pass  *)
(* through it that changes the tree is one step here: the bucket accepts *)
(* the record (BucketPut), or it is full and its B-level entry has a free *)
(* slot (BucketSplit), or the entry is full and the group may grow        *)
(* (GroupExpand), or the group is too large and the whole tree is rebuilt *)
(* (ExpandTree).  Between two passes the tree is in a state the code      *)
(* really reaches before it re-enters the loop.                           *)
(*                                                                         *)
(* Keys are 1..; key 0 is the entry_key of the first entry created by     *)
(* letree::Init, and 0 is also what a zeroed record slot holds.           *)
(***************************************************************************)
EXTENDS Integers, Sequences, FiniteSets, TLC, LearnedSearch, LinearModel, UnSortBucket
LOCAL INSTANCE SequencesExt

CONSTANTS
    Keys,            \* user keys, a set of positive integers
    Vals,            \* values, a set of positive integers
    NotFound,        \* result of Get on an absent key
    EntryCap,        \* PointerBEntry::entry_count (4 in the code)
    MinEntryCount,   \* min_entry_count: entries per group (64 in the code)
    MaxEntryCount,   \* max_entry_count: group size before ExpandTree (1024)
    MaxBuckets,      \* buckets MemControl can hand out
    FreshPuts        \* TRUE: Put is only called on keys not in the tree

ASSUME /\ Keys \subseteq Nat \ {0} /\ Vals \subseteq Nat \ {0}
       /\ BucketCap >= 2 /\ EntryCap >= 2
       /\ MinEntryCount >= 1 /\ MaxEntryCount >= 1 /\ MaxBuckets >= 1

KeySpace  == {0} \cup Keys
ValSpace  == {0} \cup Vals
BucketIds == 1..MaxBuckets

NoPut == [k |-> 0, v |-> 0]

VARIABLES
    bkt,    \* bucket id -> UnSortBuncket: records rec[1..BucketCap], entries n
    nbkt,   \* MemControl bump cursor: buckets 1..nbkt are allocated
    grp,    \* group_space: a sequence of groups, group g (0-based) is grp[g+1]
            \*   ents: entry_space, a sequence of PointerBEntry, each a sequence
            \*         of eentry [key |-> entry_key, b |-> bucket]
            \*   nec:  next_entry_count, minKey: min_key, mdl: the group model
    root,   \* letree::model, the root linear model
    pend,   \* the key and value of the Put in progress, or NoPut
    ret     \* what the last completed operation returned

vars == <<bkt, nbkt, grp, root, pend, ret>>

Result(op, k, res) == [op |-> op, k |-> k, res |-> res]

-----------------------------------------------------------------------------
(* Reading the tree.  Lookups take the tree as a value                     *)
(* t = [bkt, grp, root], so that the same operators read the state before *)
(* and after a step.                                                      *)

Tree == [bkt |-> bkt, grp |-> grp, root |-> root]

Grp(t, g) == t.grp[g + 1]
NrEntries(t, g) == Len(Grp(t, g).ents)
BEnt(t, g, e) == Grp(t, g).ents[e + 1]

(* PointerBEntry::entry_key aliases entrys[0].entry_key. *)
EntryKeyOf(be) == be[1].key
EntryKeys(ents) == [i \in 1..Len(ents) |-> EntryKeyOf(ents[i])]
SlotKeys(be) == [i \in 1..Len(be) |-> be[i].key]

(* The group the root model predicts, clamped (find_group, find_fast). *)
PredictedGroup(mdl, key, nGroups) ==
    Clamp(Trunc(Predict(mdl, key), MinEntryCount), 0, nGroups - 1)

(* Fault model: find_group also walking left past a group whose first  *)
(* entry key equals the key.                                              *)
WalkLeftInclusive(t, g0, key) ==
    LET walk[g \in 0..g0] ==
            IF g > 0 /\ (NrEntries(t, g) = 0 \/ key <= EntryKeyOf(BEnt(t, g, 0)))
            THEN walk[g - 1] ELSE g
    IN  walk[g0]

(* letree::find_group: walk left while the group is empty or starts after *)
(* the key, then right over empty groups.                                 *)
WalkLeft(t, g0, key) ==
    LET walk[g \in 0..g0] ==
            IF g > 0 /\ (NrEntries(t, g) = 0 \/ key < EntryKeyOf(BEnt(t, g, 0)))
            THEN walk[g - 1] ELSE g
    IN  walk[g0]

(* The rightward walk has no bound in the code: walking past the last    *)
(* group would leave the domain here, and TLC would report it.           *)
WalkRight(t, g0) ==
    LET walk[g \in g0..Len(t.grp) - 1] ==
            IF NrEntries(t, g) = 0 THEN walk[g + 1] ELSE g
    IN  walk[g0]

FindGroup(t, key) ==
    WalkRight(t, WalkLeft(t, PredictedGroup(t.root, key, Len(t.grp)), key))

(* Where a key goes in group g: group::find_entry picks B-level entry e,  *)
(* PointerBEntry::Find_pos slot p, whose eentry points to bucket b.      *)
(* An eentry: entry_key and the bucket it points to. *)
EEntryRec == [key : Int, b : Int]

GroupRec == [ents : Seq(Seq(EEntryRec)), nec : Int, minKey : Int,
             mdl : ModelRec]

(* The slot chosen by Find_pos in B-level entry e and the bucket it      *)
(* points to.                                                             *)
SlotIn[be \in Seq(EEntryRec), g \in Int, e \in Int, p \in Int] ==
    [g |-> g, e |-> e, p |-> p, b |-> be[p + 1].b]

EntryIn[be \in Seq(EEntryRec), g \in Int, e \in Int, key \in Int] ==
    SlotIn[be, g, e, FindPos[SlotKeys(be), key]]

LocateEntry[gr \in GroupRec, g \in Int, key \in Int] ==
    LET e == FindEntry[EntryKeys(gr.ents), Predict(gr.mdl, key), key]
    IN  EntryIn[gr.ents[e + 1], g, e, key]

LocateIn(t, g, key) == LocateEntry[Grp(t, g), g, key]

(* group::Get on the bucket found: the value it holds, or NotFound. *)
BucketGet[bk \in BucketRec, key \in Int] ==
    IF BHas(bk, key) THEN BGet(bk, key) ELSE NotFound

GroupGet(t, g, key) == BucketGet[t.bkt[LocateIn(t, g, key).b], key]

(* letree::Get: find_fast (with group::fast_fail), then find_slow. *)
Lookup(t, key) ==
    LET g    == PredictedGroup(t.root, key, Len(t.grp))
        fast == IF NrEntries(t, g) <= 0 \/ key < Grp(t, g).minKey THEN NotFound
                ELSE GroupGet(t, g, key)
    IN  IF fast # NotFound THEN fast ELSE GroupGet(t, FindGroup(t, key), key)

(* The map the tree represents, as letree::Get reads it. *)
Contents(t) == [k \in Keys |-> Lookup(t, k)]

(* The eentries of a sequence of PointerBEntry, in order (EntryIter). *)
EEntries(ents) == FlattenSeq(ents)

(* All eentries of the tree in group order (group::EntryIter per group). *)
AllEntries(gs) == FlattenSeq([i \in 1..Len(gs) |-> EEntries(gs[i].ents)])

-----------------------------------------------------------------------------
(* Scanning.  A scan's progress is [out |-> the pairs pushed onto results *)
(* so far, len |-> what is left of the int &len, fault |-> "none", or     *)
(* "hang" for a loop that can never end, or "ub" for a read of           *)
(* group_space past nr_groups_].  Every callee succeeds exactly when len  *)
(* has reached 0: UnSortBuncket::Scan returns Failed while len > 0 and OK *)
(* after, and the callers pass that on.                                   *)
Pair(r) == <<r.k, r.v>>

Scanned(acc, r) == [out |-> acc.out \o r.out, len |-> r.len, fault |-> acc.fault]

(* UnSortBuncket::Scan with if_first: the loop starts at                 *)
(* i = sorted_index_[0] (the record position of the least key, used as   *)
(* an index into sorted_index_), and pushes key(sorted_index_[i]) when it *)
(* is >= start_key, while len > 0.  An empty bucket's sorted_index_[0]   *)
(* is an uninitialised int; it is taken as >= 0, so the loop body never  *)
(* runs.                                                                  *)
BScanFirst(bk, start, len) ==
    LET si   == SortedIndex(bk)
        i0   == IF bk.n = 0 THEN 0 ELSE si[1] - 1
        hits == SelectSeq([j \in 1..bk.n - i0 |-> bk.rec[si[i0 + j]]],
                          LAMBDA r : r.k >= start)
        take == IF len <= 0 THEN 0 ELSE Min({len, Len(hits)})
    IN  [out |-> [j \in 1..take |-> Pair(hits[j])], len |-> len - take]

(* UnSortBuncket::Scan without if_first, which ignores start_key: when   *)
(* len >= entries every record is pushed in record order; otherwise the  *)
(* while (len > 0) loop pushes record 0 until len is 0.                  *)
BScanRest(bk, len) ==
    IF len >= bk.n
    THEN [out |-> [j \in 1..bk.n |-> Pair(bk.rec[j])], len |-> len - bk.n]
    ELSE IF len > 0
    THEN [out |-> [j \in 1..len |-> Pair(bk.rec[1])], len |-> 0]
    ELSE [out |-> <<>>, len |-> len]

(* The loop of PointerBEntry::Scan: while the bucket scan fails and pos   *)
(* < entries it scans entrys[pos] again, never advancing pos.  An empty   *)
(* bucket there leaves len unchanged for ever.                            *)
RECURSIVE ScanAgain(_, _)
ScanAgain(bk, acc) ==
    IF acc.len <= 0 THEN acc
    ELSE IF bk.n = 0 THEN [acc EXCEPT !.fault = "hang"]
    ELSE ScanAgain(bk, Scanned(acc, BScanRest(bk, acc.len)))

(* PointerBEntry::Scan: with if_first, entrys[0]'s bucket from start key *)
(* 0; otherwise the bucket of the slot Find_pos gives (a shadowing inner  *)
(* pos); then the outer pos, still 0, becomes 1 for the loop.            *)
PBScan(t, be, start, len, first) ==
    LET r0 == IF first
              THEN BScanFirst(t.bkt[be[1].b], 0, len)
              ELSE BScanRest(t.bkt[be[FindPos[SlotKeys(be), start] + 1].b], len)
        a0 == [out |-> r0.out, len |-> r0.len, fault |-> "none"]
    IN  IF Len(be) > 1 THEN ScanAgain(t.bkt[be[2].b], a0) ELSE a0

(* The loop of group::Scan: the next PointerBEntries, while ret is false. *)
RECURSIVE GScanFrom(_, _, _, _, _)
GScanFrom(t, g, start, e, acc) ==
    IF acc.fault # "none" \/ acc.len <= 0 \/ e >= NrEntries(t, g) - 1 THEN acc
    ELSE GScanFrom(t, g, start, e + 1,
                   LET r == PBScan(t, BEnt(t, g, e + 1), start, acc.len, FALSE)
                   IN  [r EXCEPT !.out = acc.out \o @])

(* group::Scan: entry 0 with if_first, else the entry find_entry gives. *)
GroupScan(t, g, start, len, first) ==
    LET gr == Grp(t, g)
        e0 == IF first THEN 0
              ELSE FindEntry[EntryKeys(gr.ents), Predict(gr.mdl, start), start]
    IN  GScanFrom(t, g, start, e0, PBScan(t, BEnt(t, g, e0), start, len, first))

(* The inner loop of scan_slow: ++group_id while the group is empty, with *)
(* no bound; Len(t.grp) is a read past the end.                          *)
RECURSIVE NonEmptyFrom(_, _)
NonEmptyFrom(t, g) ==
    IF g >= Len(t.grp) \/ NrEntries(t, g) # 0 THEN g ELSE NonEmptyFrom(t, g + 1)

(* The outer loop of scan_slow: the next non-empty group, with if_first   *)
(* false, while ret is false and group_id < nr_groups_ - 1.             *)
RECURSIVE SlowFrom(_, _, _, _)
SlowFrom(t, start, g, acc) ==
    IF acc.fault # "none" \/ acc.len <= 0 \/ g >= Len(t.grp) - 1 THEN acc
    ELSE LET g2 == NonEmptyFrom(t, g + 1)
         IN  IF g2 = Len(t.grp) THEN [acc EXCEPT !.fault = "ub"]
             ELSE SlowFrom(t, start, g2,
                           LET r == GroupScan(t, g2, start, acc.len, FALSE)
                           IN  [r EXCEPT !.out = acc.out \o @])

(* letree::scan_slow: the fast group if it is not 0, else find_group;     *)
(* that group with if_first, then the loop.                              *)
ScanSlow(t, start, len, fg) ==
    LET g == IF fg # 0 THEN fg ELSE FindGroup(t, start)
    IN  SlowFrom(t, start, g, GroupScan(t, g, start, len, TRUE))

(* letree::scan_fast: the predicted group, when scan_fast_fail holds    *)
(* (the group is non-empty and start_key >= min_key), else 0, which is   *)
(* where scan_slow, called next either way, starts from: a failed        *)
(* scan_fast makes letree::Scan call scan_slow with fast_group_id 0.     *)
ScanFastGroup(t, start) ==
    LET g == PredictedGroup(t.root, start, Len(t.grp))
    IN  IF NrEntries(t, g) > 0 /\ start >= Grp(t, g).minKey THEN g ELSE 0

(* letree::Scan: the results vector and the fault, if any. *)
ScanResult(t, start, len) == ScanSlow(t, start, len, ScanFastGroup(t, start))

-----------------------------------------------------------------------------
(* Restructuring *)

(* PointerBEntry::AdjustEntryKey on entry_space[0]: entry_key becomes the *)
(* min_key() of its first bucket.                                        *)
AdjustEntryKey(ents) ==
    [ents EXCEPT ![1][1].key = BMinKey(bkt[ents[1][1].b])]
(* One PointerBEntry per eentry: the eentry-copying PointerBEntry        *)
(* constructor that group::expand and group::append_entry use.           *)
OnePerEntry(es) == [i \in 1..Len(es) |-> <<es[i]>>]

(* group::expand: adjust the first entry key, give every eentry its own   *)
(* PointerBEntry and retrain the group model; min_key is left as it was. *)
GroupExpanded[gr \in GroupRec] ==
    LET es == EEntries(AdjustEntryKey(gr.ents))
    IN  [gr EXCEPT !.ents = OnePerEntry(es), !.nec = Len(es),
                   !.mdl = TrainModel[SlotKeys(es)]]

(* A group of the zeroed group_space: pmem_memset_persist(group_space, 0). *)
ZeroedGroup == [ents |-> <<>>, nec |-> 0, minKey |-> 0, mdl |-> ZeroModel]

(* The second half of letree::ExpandTree: every eentry, in order, is       *)
(* appended to the new group the model predicts (inc_entry_count then     *)
(* append_entry), and each non-empty new group is retrained (re_tarin     *)
(* sets its min_key to its first entry key); the others stay zeroed.      *)
DealEntries[all \in Seq(EEntryRec), mdl \in ModelRec, newN \in Int] ==
    LET Member(j) == SelectSeq(all, LAMBDA x : PredictedGroup(mdl, x.key, newN) = j)
        NewGroup(m) ==
            IF m = <<>>
            THEN ZeroedGroup
            ELSE [ents |-> OnePerEntry(m), nec |-> Len(m), minKey |-> m[1].key,
                  mdl |-> TrainModel[SlotKeys(m)]]
    IN  [j \in 1..newN |-> NewGroup(Member(j - 1))]

(* The first half of letree::ExpandTree over the groups adj whose first    *)
(* entry keys are already adjusted: train the root model on the entry keys *)
(* of the non-empty groups, size the new group_space by the sum of their  *)
(* next_entry_count, and deal the entries.                                *)
RebuiltTree[adj \in Seq(GroupRec)] ==
    LET used  == SelectSeq(adj, LAMBDA gr : gr.nec # 0)
        count == SumFunction([i \in 1..Len(used) |-> used[i].nec])
        newN  == (count + MinEntryCount - 1) \div MinEntryCount
        mdl   == TrainModel[SlotKeys(AllEntries(used))]
    IN  [grp |-> DealEntries[AllEntries(adj), mdl, newN], root |-> mdl]

(* letree::ExpandTree: AdjustEntryKey on every non-empty group, then       *)
(* rebuild.  Returns the new group_space and root model.                  *)
ExpandedTree ==
    RebuiltTree[[i \in 1..Len(grp) |->
                    IF grp[i].nec = 0 THEN grp[i]
                    ELSE [grp[i] EXCEPT !.ents = AdjustEntryKey(@)]]]

(* group::bulk_load(data, start, count): one PointerBEntry per eentry of *)
(* chunk, min_key = data[0].first (the first key of all the data, not of  *)
(* the chunk), the model trained on the entry keys, next_entry_count =    *)
(* count.                                                                  *)
GroupLoaded(chunk, first) ==
    [ents |-> OnePerEntry(chunk), nec |-> Len(chunk), minKey |-> first,
     mdl |-> TrainModel[SlotKeys(chunk)]]

(* letree::bulk_load(data, size) on the sorted keys ks, the data's keys, *)
(* whose eentries get the buckets from nb + 1 on, in order.  The root     *)
(* model is trained on all keys; nr_groups_ = size / min_entry_count; the *)
(* first loop counts the keys each group is predicted to hold             *)
(* (inc_entry_count); the second hands each non-empty group the next      *)
(* next_entry_count pairs of data, in order (group::bulk_load).          *)
BulkLoaded(ks, nb) ==
    LET mdl   == TrainModel[ks]
        ng    == Len(ks) \div MinEntryCount
        cnt   == [i \in 0..ng - 1 |->
                    Len(SelectSeq(ks, LAMBDA k : PredictedGroup(mdl, k, ng) = i))]
        start == [i \in 0..ng - 1 |-> SumFunction([j \in 0..i - 1 |-> cnt[j]])]
        Chunk(i) == [j \in 1..cnt[i] |-> [key |-> ks[start[i] + j], b |-> nb + start[i] + j]]
    IN  [grp  |-> [i \in 1..ng |->
                     IF cnt[i - 1] = 0 THEN ZeroedGroup
                     ELSE GroupLoaded(Chunk(i - 1), ks[1])],
         root |-> mdl]

-----------------------------------------------------------------------------
(* Operations *)

Init ==
    /\ bkt  = [b \in BucketIds |-> EmptyBucket]
    /\ nbkt = 1
    \* letree::Init -> group::Init: one PointerBEntry(0, 8, mem) whose
    \* eentry has key 0 and a new empty bucket; model trained on key 0.
    /\ grp  = << [ents |-> << << [key |-> 0, b |-> 1] >> >>, nec |-> 1,
                  minKey |-> 0, mdl |-> TrainModel[<<0>>]] >>
    /\ root = ZeroModel
    /\ pend = NoPut
    /\ ret  = Result("none", 0, NotFound)

Idle == pend = NoPut

(* letree::Put(key, value) is called; at most one bucket split follows,   *)
(* so a Put is only started while MemControl still has a bucket to give. *)
Put(k, v) ==
    /\ Idle
    /\ nbkt < MaxBuckets
    /\ FreshPuts => Lookup(Tree, k) = NotFound
    /\ pend' = [k |-> k, v |-> v]
    /\ UNCHANGED <<bkt, nbkt, grp, root, ret>>

(* Where the pending Put goes: find_group, find_entry, Find_pos. *)
Target == LocateIn(Tree, FindGroup(Tree, pend.k), pend.k)

(* UnSortBuncket::Put succeeds; PointerBEntry::Put then lowers its        *)
(* entry_key to the key if the key is smaller.                           *)
BucketPut ==
    \E t \in {Target} :
    LET bk == bkt[t.b]
    IN  /\ ~Idle
        /\ bk.n < BucketCap
        /\ bkt' = [bkt EXCEPT ![t.b] = BPut(bk, pend.k, pend.v)]
        /\ grp' = IF EntryKeyOf(BEnt(Tree, t.g, t.e)) > pend.k
                  THEN [grp EXCEPT ![t.g + 1].ents[t.e + 1][1].key = pend.k]
                  ELSE grp
        /\ pend' = NoPut
        /\ ret'  = Result("put", pend.k, TRUE)
        /\ UNCHANGED <<nbkt, root>>

(* Fault models of the split: the new eentry placed at pos instead of    *)
(* pos + 1, and the split not counted in next_entry_count.                *)
BucketSplitAtPos ==
    \E t \in {Target} :
    LET s  == Expand_[bkt[t.b]]
        nb == nbkt + 1
    IN  /\ ~Idle
        /\ bkt[t.b].n = BucketCap
        /\ Len(BEnt(Tree, t.g, t.e)) < EntryCap
        /\ nbkt < MaxBuckets
        /\ bkt'  = [bkt EXCEPT ![t.b] = s.old, ![nb] = s.new]
        /\ nbkt' = nb
        /\ grp'  = [grp EXCEPT ![t.g + 1].ents[t.e + 1] =
                                   InsertAt(@, t.p + 1, [key |-> s.splitKey, b |-> nb]),
                               ![t.g + 1].nec = @ + 1]
        /\ UNCHANGED <<root, pend, ret>>

(* Fault model: splitting without PointerBEntry::Put's check that the    *)
(* entry has a free slot.                                                 *)
BucketSplitNoRoomCheck ==
    \E t \in {Target} :
    LET s  == Expand_[bkt[t.b]]
        nb == nbkt + 1
    IN  /\ ~Idle
        /\ bkt[t.b].n = BucketCap
        /\ nbkt < MaxBuckets
        /\ bkt'  = [bkt EXCEPT ![t.b] = s.old, ![nb] = s.new]
        /\ nbkt' = nb
        /\ grp'  = [grp EXCEPT ![t.g + 1].ents[t.e + 1] =
                                   InsertAt(@, t.p + 2, [key |-> s.splitKey, b |-> nb]),
                               ![t.g + 1].nec = @ + 1]
        /\ UNCHANGED <<root, pend, ret>>

BucketSplitUncounted ==
    \E t \in {Target} :
    LET s  == Expand_[bkt[t.b]]
        nb == nbkt + 1
    IN  /\ ~Idle
        /\ bkt[t.b].n = BucketCap
        /\ Len(BEnt(Tree, t.g, t.e)) < EntryCap
        /\ nbkt < MaxBuckets
        /\ bkt'  = [bkt EXCEPT ![t.b] = s.old, ![nb] = s.new]
        /\ nbkt' = nb
        /\ grp'  = [grp EXCEPT ![t.g + 1].ents[t.e + 1] =
                                   InsertAt(@, t.p + 2, [key |-> s.splitKey, b |-> nb])]
        /\ UNCHANGED <<root, pend, ret>>

(* The bucket is Full and the PointerBEntry has a free slot: Expand_     *)
(* splits the bucket into a new one, the slots after pos shift right, the *)
(* new eentry [split_key, next] goes to pos + 1, and group::Put counts   *)
(* the split in next_entry_count.                                        *)
BucketSplit ==
    \E t \in {Target} :
    LET s  == Expand_[bkt[t.b]]
        nb == nbkt + 1
    IN  /\ ~Idle
        /\ bkt[t.b].n = BucketCap
        /\ Len(BEnt(Tree, t.g, t.e)) < EntryCap
        /\ nbkt < MaxBuckets
        /\ bkt'  = [bkt EXCEPT ![t.b] = s.old, ![nb] = s.new]
        /\ nbkt' = nb
        /\ grp'  = [grp EXCEPT ![t.g + 1].ents[t.e + 1] =
                                   InsertAt(@, t.p + 2, [key |-> s.splitKey, b |-> nb]),
                               ![t.g + 1].nec = @ + 1]
        /\ UNCHANGED <<root, pend, ret>>

(* Fault model: group::expand retraining the model but never installing *)
(* the new entry_space, so the retry finds the same full entry.          *)
GroupExpandLost ==
    \E t \in {Target} :
        /\ ~Idle
        /\ bkt[t.b].n = BucketCap
        /\ Len(BEnt(Tree, t.g, t.e)) = EntryCap
        /\ Grp(Tree, t.g).nec <= MaxEntryCount
        /\ grp' = [grp EXCEPT ![t.g + 1].mdl = GroupExpanded[grp[t.g + 1]].mdl]
        /\ UNCHANGED <<bkt, nbkt, root, pend, ret>>

(* The PointerBEntry is full too and next_entry_count <= max_entry_count: *)
(* group::Put expands the group and retries.                              *)
GroupExpand ==
    \E t \in {Target} :
        /\ ~Idle
        /\ bkt[t.b].n = BucketCap
        /\ Len(BEnt(Tree, t.g, t.e)) = EntryCap
        /\ Grp(Tree, t.g).nec <= MaxEntryCount
        /\ grp' = [grp EXCEPT ![t.g + 1] = GroupExpanded[@]]
        /\ UNCHANGED <<bkt, nbkt, root, pend, ret>>

(* next_entry_count > max_entry_count: group::Put returns Full and        *)
(* letree::Put rebuilds the tree and retries.                             *)
ExpandTree ==
    \E t \in {Target} :
        /\ ~Idle
        /\ bkt[t.b].n = BucketCap
        /\ Len(BEnt(Tree, t.g, t.e)) = EntryCap
        /\ Grp(Tree, t.g).nec > MaxEntryCount
        /\ grp'  = ExpandedTree.grp
        /\ root' = ExpandedTree.root
        /\ UNCHANGED <<bkt, nbkt, pend, ret>>

(* letree::Get *)
Get(k) ==
    /\ Idle
    /\ ret' = Result("get", k, Lookup(Tree, k))
    /\ UNCHANGED <<bkt, nbkt, grp, root, pend>>

(* letree::Update -> group::Update -> PointerBEntry::Update -> bucket.    *)
Update(k, v) ==
    LET b   == LocateIn(Tree, FindGroup(Tree, k), k).b
        hit == BHas(bkt[b], k)
    IN  /\ Idle
        /\ bkt' = IF hit THEN [bkt EXCEPT ![b] = BUpdate(@, k, v)] ELSE bkt
        /\ ret' = Result("upd", k, hit)
        /\ UNCHANGED <<nbkt, grp, root, pend>>

(* letree::Delete -> group::Delete -> PointerBEntry::Delete -> bucket.    *)
Delete(k) ==
    LET b   == LocateIn(Tree, FindGroup(Tree, k), k).b
        hit == BHas(bkt[b], k)
    IN  /\ Idle
        /\ bkt' = IF hit THEN [bkt EXCEPT ![b] = BDelete(@, k)] ELSE bkt
        /\ ret' = Result("del", k, hit)
        /\ UNCHANGED <<nbkt, grp, root, pend>>

(* letree::bulk_load(data, size) with the pairs of f, sorted by key.     *)
(* Each pair's PointerBEntry(key, value, 0, mem) takes a new bucket from  *)
(* MemControl and puts the pair in it; the old groups and buckets are     *)
(* left where they were.  With fewer than min_entry_count pairs           *)
(* nr_groups_ is 0: the clamp gives group -1, whose inc_entry_count       *)
(* writes before group_space (not modelled), and the tree has no group.  *)
BulkLoad(S, f) ==
    LET ks == SetToSortSeq(S, <)
    IN  /\ Idle
        /\ nbkt + Len(ks) <= MaxBuckets
        /\ bkt'  = [b \in BucketIds |->
                       IF b - nbkt \in 1..Len(ks)
                       THEN BPut(EmptyBucket, ks[b - nbkt], f[ks[b - nbkt]])
                       ELSE bkt[b]]
        /\ nbkt' = nbkt + Len(ks)
        /\ grp'  = BulkLoaded(ks, nbkt).grp
        /\ root' = BulkLoaded(ks, nbkt).root
        /\ ret'  = Result("load", 0, TRUE)
        /\ UNCHANGED pend

(* letree::Scan(start_key, len, results): ret records the results; a    *)
(* scan that hangs or reads past group_space records the fault as its op. *)
Scan(k, len) ==
    LET r == ScanResult(Tree, k, len)
    IN  /\ Idle
        /\ ret' = Result(IF r.fault = "none" THEN "scan" ELSE r.fault, k, r.out)
        /\ UNCHANGED <<bkt, nbkt, grp, root, pend>>

PutStep == BucketPut \/ BucketSplit \/ GroupExpand \/ ExpandTree

Next ==
    \/ \E k \in Keys : \/ Get(k)
                       \/ Delete(k)
                       \/ \E v \in Vals : Put(k, v) \/ Update(k, v)
    \/ PutStep

(* A Put call runs to completion: nothing blocks a single thread inside   *)
(* letree::Put, so its steps are weakly fair.                            *)
Spec == Init /\ [][Next]_vars /\ WF_vars(PutStep)


-----------------------------------------------------------------------------
(* Properties *)

TypeOK ==
    /\ bkt \in [BucketIds -> [rec : [1..BucketCap -> [k : KeySpace, v : ValSpace]],
                              n : 0..BucketCap]]
    /\ nbkt \in 1..MaxBuckets
    /\ \A i \in 1..Len(grp) :
          /\ grp[i].nec \in Nat /\ grp[i].minKey \in KeySpace
          /\ \A e \in 1..Len(grp[i].ents) :
                /\ Len(grp[i].ents[e]) \in 1..EntryCap
                /\ \A j \in 1..Len(grp[i].ents[e]) :
                      grp[i].ents[e][j] \in [key : KeySpace, b : 1..nbkt]
    /\ pend \in {NoPut} \cup [k : Keys, v : Vals]

(* The routing order every lookup relies on: along the tree (groups, then *)
(* PointerBEntries, then slots) entry keys strictly increase, and each    *)
(* bucket holds only keys from its entry key up to the next entry key.   *)
(* Put lowers entry keys, splits insert slots, group::expand and          *)
(* ExpandTree re-deal eentries and reset first keys from min_key(): any   *)
(* of them getting a key or a slot position wrong breaks this, and only   *)
(* a later lookup, many operations on, would notice.                      *)
EntryRouting ==
    LET es == AllEntries(grp)
    IN  \A i \in 1..Len(es) :
            /\ i < Len(es) => es[i].key < es[i + 1].key
            /\ \A x \in LiveKeys(bkt[es[i].b]) :
                  /\ es[i].key <= x
                  /\ i < Len(es) => x < es[i + 1].key

(* next_entry_count counts the eentries of its group.  group::expand      *)
(* asserts it, and ExpandTree sizes the new tree by it: a split that is   *)
(* not counted, or a count that is not reset by an expansion, drifts.    *)
NecCounts ==
    \A i \in 1..Len(grp) : grp[i].nec = Len(EEntries(grp[i].ents))

(* letree has a group: find_fast, find_group, scan_fast and Put clamp a   *)
(* predicted group into 0 .. nr_groups_ - 1 and read group_space there,   *)
(* so with nr_groups_ = 0 every operation reads group_space[-1].  Init    *)
(* makes one group, and ExpandTree and bulk_load size group_space from    *)
(* the number of entries divided by min_entry_count.                      *)
HasGroup == Len(grp) >= 1

(* Every letree::Put returns: the retry loop of letree::Put, group::Put   *)
(* and PointerBEntry::Put reaches a bucket with room after finitely many  *)
(* splits and expansions.                                                 *)
PutCompletes == ~Idle ~> Idle

=============================================================================
