---------------------------- MODULE LearnGroup ----------------------------
(***************************************************************************)
(* The learned-group index of src/src/learn_group.h as built (EXPAND_ALL  *)
(* is defined at line 24): a RootModel whose TwoStageRMI routes a key to   *)
(* one of nr_groups_ LearnGroups, each an array of PointerBEntries        *)
(* (pointer_bentry.h) of up to entry_count eentries over UnSortBuncket    *)
(* buckets.                                                                *)
(*                                                                         *)
(*  - Load fills groups of one key per PointerBEntry and trains the RMI;  *)
(*  - Put goes FindGroup, LearnGroup::Find_, PointerBEntry::Put (bucket   *)
(*    split and retry); a Full PointerBEntry is merged with a neighbour   *)
(*    of at most entry_count / 2 eentries (MergePointerBEntry), else      *)
(*    RootModel::Put runs ExpandAllGroup and retries;                      *)
(*  - Get, Update and Delete route the same way to one bucket.            *)
(*                                                                         *)
(* The PGM segment of a group (segment_, pgm_index_nvm.hpp) is fitted by  *)
(* OptimalPiecewiseLinearModel, which is not part of the repository: its *)
(* prediction is any position >= 0 (Segment::operator() clamps at 0).     *)
(* Every group and PointerBEntry holds at most max_entry_counts <=        *)
(* 2 * epsilon + 1 points, and any such point set fits one segment of     *)
(* error epsilon, so add_point never fails here and groups break only at  *)
(* max_entry_counts.                                                      *)
(***************************************************************************)
EXTENDS Integers, Sequences, FiniteSets, TLC, LearnedSearch, UnSortBucket
LOCAL INSTANCE SequencesExt

CONSTANTS
    Keys,            \* user keys, positive integers
    Vals,            \* values, positive integers
    NotFound,        \* result of Get on an absent key
    EntryCap,        \* PointerBEntry::entry_count (4)
    MaxEntryCounts,  \* LearnGroup::max_entry_counts (256)
    Epsilon,         \* LearnGroup::epsilon (4)
    MaxGroups,       \* RootModel(max_groups): group_entrys_ capacity (64)
    RootErrorBound,  \* TwoStageRMI<Key_64, 3, 2>: root_error_bound (3)
    MaxBuckets,      \* buckets MemControl can hand out
    FreshPuts        \* TRUE: Put is only called on keys not in the index

ASSUME /\ Keys \subseteq Nat \ {0} /\ Vals \subseteq Nat \ {0}
       /\ BucketCap >= 2 /\ EntryCap >= 2 /\ MaxBuckets >= 1
       /\ MaxEntryCounts \in 1..(2 * Epsilon + 1)

R == INSTANCE RMI

KeySpace  == {0} \cup Keys
ValSpace  == {0} \cup Vals
BucketIds == 1..MaxBuckets

(* UINT64_MAX, the max_key of the last group Load makes: above every key. *)
KeyMax == Max(Keys) + 1

NoPut == [k |-> 0, v |-> 0, merged |-> FALSE]

VARIABLES
    bkt,    \* bucket id -> UnSortBuncket
    nbkt,   \* MemControl bump cursor: buckets 1..nbkt are allocated
    grp,    \* group_entrys_[0 .. nr_groups_ - 1] as a sequence of
            \*   [ents |-> entries_ (PointerBEntries, each a sequence of
            \*             eentries [key |-> entry_key, b |-> bucket]),
            \*    minKey |-> min_key, maxKey |-> max_key]
    model,  \* the root TwoStageRMI
    cap,    \* max_groups_: the LearnGroups group_entrys_ was allocated for
    pend,   \* the Put in progress (key, value, and whether LearnGroup::Put
            \* has merged, so that a Full goes back to RootModel), or NoPut
    ret     \* what the last completed operation returned

vars == <<bkt, nbkt, grp, model, cap, pend, ret>>

Idle   == pend = NoPut
Loaded == grp # <<>>

Result(op, k, res) == [op |-> op, k |-> k, res |-> res]

EEntryRec == [key : Int, b : Int]
GroupRec  == [ents : Seq(Seq(EEntryRec)), minKey : Int, maxKey : Int]
GroupSeq  == Seq(GroupRec)

(* What Segment::operator() may return, after Find_'s min with           *)
(* nr_entries_ - 1 every value at or above it acts the same.              *)
SegPreds == 0..(MaxEntryCounts - 1)

-----------------------------------------------------------------------------
(* Routing *)

(* RootModel::FindGroup (EXPAND_ALL branch) from the RMI prediction pred: *)
(* the predicted group if min_key <= key < max_key, else a walk right     *)
(* (while min_key <= key, then one back) or left (while min_key > key).  *)
FindGroup[gs \in GroupSeq, pred \in Int, key \in Int] ==
    LET n  == Len(gs)
        p0 == MinI(pred, n - 1)
        right[i \in 0..n] == IF i < n /\ gs[i + 1].minKey <= key THEN right[i + 1] ELSE i - 1
        left[i \in -1..n] == IF i > 0 /\ gs[i + 1].minKey > key THEN left[i - 1] ELSE i
    IN  IF gs[p0 + 1].minKey <= key /\ key < gs[p0 + 1].maxKey THEN p0
        ELSE MaxI(IF gs[p0 + 1].minKey < key THEN right[p0 + 1] ELSE left[p0 - 1], 0)

(* Fault model: Find_'s rightward walk stopping before an entry_key equal *)
(* to the key.                                                            *)
EntryStartsBelow(ks, i, key) == At(ks, i + 1) < key

(* The condition of Find_'s rightward walk: the next entry_key is at most *)
(* the key.                                                               *)
EntryStartsAtMost(ks, i, key) == At(ks, i + 1) <= key

(* LearnGroup::Find_ over the entry keys ks from the segment prediction.  *)
Find_[ks \in Seq(Int), pred \in Int, key \in Int] ==
    LET n  == Len(ks)
        p0 == MinI(pred, n - 1)
        right[i \in 0..n - 1] == IF i + 1 < n /\ EntryStartsAtMost(ks, i, key) THEN right[i + 1] ELSE i
        left[i \in -1..n - 1] == IF i > 0 /\ At(ks, i) > key THEN left[i - 1] ELSE i
    IN  IF At(ks, p0) = key THEN p0
        ELSE IF At(ks, p0) < key THEN right[p0]
        ELSE MaxI(left[p0 - 1], 0)

(* entry_key of each PointerBEntry: its entrys[0].entry_key. *)
EntryKeys(g) == [i \in 1..Len(g.ents) |-> g.ents[i][1].key]
SlotKeys(be) == [j \in 1..Len(be) |-> be[j].key]

(* Where an operation on key goes in the groups gs routed by the RMI r:  *)
(* group g, PointerBEntry e, slot p (all 0-based) and its bucket.  Each   *)
(* step is a separate operator so that every search is evaluated once.    *)
RouteSlot(gs, g, e, p) == [g |-> g, e |-> e, p |-> p, b |-> gs[g + 1].ents[e + 1][p + 1].b]
RouteEntry(gs, g, e, key) == RouteSlot(gs, g, e, FindPos[SlotKeys(gs[g + 1].ents[e + 1]), key])
RouteGroup(gs, g, sp, key) == RouteEntry(gs, g, Find_[EntryKeys(gs[g + 1]), sp, key], key)
RouteIn(gs, r, sp, key) == RouteGroup(gs, FindGroup[gs, R!Predict(r, key), key], sp, key)
Route(sp, key) == RouteIn(grp, model, sp, key)

BucketGet[bk \in BucketRec, key \in Int] ==
    IF BHas(bk, key) THEN BGet(bk, key) ELSE NotFound

LookupIn(bs, gs, r, sp, key) == BucketGet[bs[RouteIn(gs, r, sp, key).b], key]
Lookup(sp, key) == LookupIn(bkt, grp, model, sp, key)

-----------------------------------------------------------------------------
(* Group construction *)

MinKeys(gs) == [i \in 1..Len(gs) |-> gs[i].minKey]

(* Fault model: groups of max_entry_counts + 1 eentries (the break test *)
(* entry_pos > max_entry_counts).                                        *)
CutOneMore(es, last) ==
    LET m == MaxEntryCounts + 1
        c == (Len(es) + m - 1) \div m
        first(j) == (j - 1) * m + 1
    IN  [j \in 1..c |->
            [ents   |-> [i \in 1..MinI(m, Len(es) - first(j) + 1) |-> <<es[first(j) + i - 1]>>],
             minKey |-> es[first(j)].key,
             maxKey |-> IF j = c THEN last ELSE es[first(j + 1)].key]]

(* The groups cut from the sequence es of eentries: max_entry_counts per  *)
(* group, each eentry the only one of its PointerBEntry, min_key the first *)
(* key, max_key the next group's first key or last.                        *)
Cut(es, last) ==
    LET c == (Len(es) + MaxEntryCounts - 1) \div MaxEntryCounts
        first(j) == (j - 1) * MaxEntryCounts + 1
    IN  [j \in 1..c |->
            [ents   |-> [i \in 1..MinI(MaxEntryCounts, Len(es) - first(j) + 1) |->
                            <<es[first(j) + i - 1]>>],
             minKey |-> es[first(j)].key,
             maxKey |-> IF j = c THEN last ELSE es[first(j + 1)].key]]

(* ExpandMeta::ExpandGroup: walk the old group's eentries with EntryIter  *)
(* and ExpandPut_ each into a new PointerBEntry built from it.           *)
ExpandGroup(og) == Cut(FlattenSeq(og.ents), og.maxKey)

(* PointerBEntry::AdjustEntryKey on group 0's first PointerBEntry:        *)
(* entry_key = Pointer(0)->min_key().                                     *)
AdjustEntryKey(gs) == [gs EXCEPT ![1].ents[1][1].key = BMinKey(bkt[gs[1].ents[1][1].b])]

(* Fault model: a full left's last eentry appended behind right's.       *)
MergePointerBEntryAppend(l, r) ==
    IF Len(l) = EntryCap THEN [l |-> Front(l), r |-> Append(r, Last(l))]
    ELSE [l |-> Append(l, r[1]), r |-> Tail(r)]

(* MergePointerBEntry(left, right) on the eentries: a full left gives its *)
(* last eentry to the front of right, otherwise right's first eentry goes *)
(* to the end of left.                                                    *)
MergePointerBEntry(l, r) ==
    IF Len(l) = EntryCap THEN [l |-> Front(l), r |-> <<Last(l)>> \o r]
    ELSE [l |-> Append(l, r[1]), r |-> Tail(r)]

MergeAt(ents, i) ==
    LET m == MergePointerBEntry(ents[i + 1], ents[i + 2])
    IN  [ents EXCEPT ![i + 1] = m.l, ![i + 2] = m.r]

-----------------------------------------------------------------------------
(* Actions *)

(* The RootModel(max_groups) constructor: no group, a fresh MemControl.   *)
(* The RMI is not trained until Load.                                     *)
Init ==
    /\ bkt   = [b \in BucketIds |-> EmptyBucket]
    /\ nbkt  = 0
    /\ grp   = <<>>
    /\ model = R!Init[<<>>]
    /\ cap   = MaxGroups
    /\ pend  = NoPut
    /\ ret   = Result("none", 0, NotFound)

(* Install new groups and train the RMI on their min_keys (model.init),  *)
(* which asks for fewer than 2 * root_error_bound groups (see RMI).       *)
Train(gs) ==
    /\ Assert(Len(gs) < 2 * RootErrorBound, "more groups than one RMI model covers")
    /\ grp'   = gs
    /\ model' = R!Init[MinKeys(gs)]

(* RootModel::Load(data) with the pairs of f sorted by key, once, on the  *)
(* empty model (the RootModel has to be loaded before use).  Expansion   *)
(* builds one PointerBEntry(key, value, prefix_len, mem) per pair, each   *)
(* with a new bucket holding the pair; a group takes max_entry_counts of *)
(* them.  max_groups_ is only asserted afterwards.                       *)
Load(S, f) ==
    LET ks == SetToSortSeq(S, <)
        es == [i \in 1..Len(ks) |-> [key |-> ks[i], b |-> nbkt + i]]
    IN  /\ Idle
        /\ ~Loaded
        /\ nbkt + Len(ks) <= MaxBuckets
        /\ bkt'  = [b \in BucketIds |->
                       IF b > nbkt /\ b <= nbkt + Len(ks)
                       THEN BPut(EmptyBucket, ks[b - nbkt], f[ks[b - nbkt]])
                       ELSE bkt[b]]
        /\ nbkt' = nbkt + Len(ks)
        /\ Train(Cut(es, KeyMax))
        /\ ret'  = Result("load", 0, TRUE)
        /\ UNCHANGED <<cap, pend>>

(* RootModel::Put is called; its steps follow. *)
Put(k, v) ==
    /\ Idle
    /\ Loaded
    /\ nbkt < MaxBuckets
    /\ FreshPuts => Lookup(0, k) = NotFound
    /\ pend' = [k |-> k, v |-> v, merged |-> FALSE]
    /\ UNCHANGED <<bkt, nbkt, grp, model, cap, ret>>

(* Where the pending Put goes, for a segment prediction sp. *)
Target(sp) == Route(sp, pend.k)

BEntryOf(t) == grp[t.g + 1].ents[t.e + 1]

(* UnSortBuncket::Put succeeds; PointerBEntry::Put lowers its entry_key  *)
(* to the key if the key is smaller, and the Put returns OK.            *)
BucketPut(sp) ==
    ~Idle /\ \E t \in {Target(sp)} :
        /\ bkt[t.b].n < BucketCap
        /\ bkt' = [bkt EXCEPT ![t.b] = BPut(@, pend.k, pend.v)]
        /\ grp' = IF BEntryOf(t)[1].key > pend.k
                  THEN [grp EXCEPT ![t.g + 1].ents[t.e + 1][1].key = pend.k]
                  ELSE grp
        /\ pend' = NoPut
        /\ ret'  = Result("put", pend.k, TRUE)
        /\ UNCHANGED <<nbkt, model, cap>>

(* The bucket is Full and the PointerBEntry has a free slot: Expand_     *)
(* splits the bucket, the slots after pos move up, [split_key, next]     *)
(* goes to pos + 1, and PointerBEntry::Put retries.                      *)
BucketSplit(sp) ==
    ~Idle /\ \E t \in {Target(sp)} :
    LET s  == Expand_[bkt[t.b]]
        nb == nbkt + 1
    IN  /\ bkt[t.b].n = BucketCap
        /\ Len(BEntryOf(t)) < EntryCap
        /\ nbkt < MaxBuckets
        /\ bkt'  = [bkt EXCEPT ![t.b] = s.old, ![nb] = s.new]
        /\ nbkt' = nb
        /\ grp'  = [grp EXCEPT ![t.g + 1].ents[t.e + 1] =
                                   InsertAt(@, t.p + 2, [key |-> s.splitKey, b |-> nb])]
        /\ UNCHANGED <<model, cap, pend, ret>>

(* PointerBEntry::Put returned Full: every slot is used. *)
EntryFull(t) ==
    /\ bkt[t.b].n = BucketCap
    /\ Len(BEntryOf(t)) = EntryCap

(* Fault model: LearnGroup::Put merging again on every Full.             *)
MergeRetried == FALSE

(* This LearnGroup::Put has already merged: the Full of the left or right *)
(* Put after MergePointerBEntry is returned to RootModel::Put.            *)
MergeDone == pend.merged

LeftMergeable(t)  == t.e > 0 /\ Len(grp[t.g + 1].ents[t.e]) <= EntryCap \div 2
RightMergeable(t) == /\ t.e + 1 < Len(grp[t.g + 1].ents)
                     /\ Len(grp[t.g + 1].ents[t.e + 2]) <= EntryCap \div 2

(* LearnGroup::Put on Full: MergePointerBEntry(pos - 1, pos) when the     *)
(* left neighbour has at most entry_count / 2 eentries, else              *)
(* MergePointerBEntry(pos, pos + 1) when the right one has.  The merge    *)
(* then puts the key into left if key < right->entry_key, else into      *)
(* right, which is where Find_ routes it in the merged group: the Put    *)
(* goes on from the merged state, and a Full from it is returned.        *)
MergeLeft(sp) ==
    ~Idle /\ \E t \in {Target(sp)} :
        /\ EntryFull(t)
        /\ ~MergeDone
        /\ LeftMergeable(t)
        /\ grp'  = [grp EXCEPT ![t.g + 1].ents = MergeAt(@, t.e - 1)]
        /\ pend' = [pend EXCEPT !.merged = TRUE]
        /\ UNCHANGED <<bkt, nbkt, model, cap, ret>>

MergeRight(sp) ==
    ~Idle /\ \E t \in {Target(sp)} :
        /\ EntryFull(t)
        /\ ~MergeDone
        /\ ~LeftMergeable(t)
        /\ RightMergeable(t)
        /\ grp'  = [grp EXCEPT ![t.g + 1].ents = MergeAt(@, t.e)]
        /\ pend' = [pend EXCEPT !.merged = TRUE]
        /\ UNCHANGED <<bkt, nbkt, model, cap, ret>>

(* No neighbour to merge with, or the Put after a merge was Full:        *)
(* LearnGroup::Put returns Full and                                       *)
(* RootModel::Put calls ExpandAllGroup, then retries (goto retry0).      *)
(* ExpandAllGroup allocates nr_groups_ * 3 new groups, adjusts group 0's *)
(* first entry_key, splits every group with ExpandMeta::ExpandGroup into *)
(* the new array, asserts the count, installs it and retrains the RMI.  *)
ExpandAllGroup(sp) ==
    ~Idle /\ \E t \in {Target(sp)} :
        /\ EntryFull(t)
        /\ MergeDone \/ (~LeftMergeable(t) /\ ~RightMergeable(t))
        /\ \E adj \in {AdjustEntryKey(grp)} :
              Train(FlattenSeq([i \in 1..Len(adj) |-> ExpandGroup(adj[i])]))
        /\ cap'  = 3 * Len(grp)
        /\ pend' = [pend EXCEPT !.merged = FALSE]
        /\ UNCHANGED <<bkt, nbkt, ret>>

PutStep ==
    \E sp \in SegPreds :
        \/ BucketPut(sp)
        \/ BucketSplit(sp)
        \/ MergeLeft(sp)
        \/ MergeRight(sp)
        \/ ExpandAllGroup(sp)

(* RootModel::Get, Update and Delete: FindGroup, then the group's        *)
(* operation (Find_, Find_pos, the bucket).                               *)
Get(k) ==
    \E sp \in SegPreds :
        /\ Idle
        /\ Loaded
        /\ ret' = Result("get", k, Lookup(sp, k))
        /\ UNCHANGED <<bkt, nbkt, grp, model, cap, pend>>

Update(k, v) ==
    /\ Idle
    /\ Loaded
    /\ \E sp \in SegPreds : \E b \in {Route(sp, k).b} :
        /\ bkt' = IF BHas(bkt[b], k) THEN [bkt EXCEPT ![b] = BUpdate(@, k, v)] ELSE bkt
        /\ ret' = Result("upd", k, BHas(bkt[b], k))
        /\ UNCHANGED <<nbkt, grp, model, cap, pend>>

Delete(k) ==
    /\ Idle
    /\ Loaded
    /\ \E sp \in SegPreds : \E b \in {Route(sp, k).b} :
        /\ bkt' = IF BHas(bkt[b], k) THEN [bkt EXCEPT ![b] = BDelete(@, k)] ELSE bkt
        /\ ret' = Result("del", k, BHas(bkt[b], k))
        /\ UNCHANGED <<nbkt, grp, model, cap, pend>>

Next ==
    \/ \E S \in SUBSET Keys \ {{}} : \E f \in [S -> Vals] : Load(S, f)
    \/ \E k \in Keys : Get(k) \/ Delete(k)
    \/ \E k \in Keys, v \in Vals : Put(k, v) \/ Update(k, v)
    \/ PutStep

Spec == Init /\ [][Next]_vars /\ WF_vars(PutStep)

(* The map the index with buckets bs, groups gs and RMI r represents,    *)
(* read with Get.                                                         *)
ContentsOf(bs, gs, r) == [k \in Keys |-> IF gs # <<>> THEN LookupIn(bs, gs, r, 0, k) ELSE NotFound]
Contents == ContentsOf(bkt, grp, model)

-----------------------------------------------------------------------------
(* Properties *)

TypeOK ==
    /\ bkt \in [BucketIds -> [rec : [1..BucketCap -> [k : KeySpace, v : ValSpace]],
                              n : 0..BucketCap]]
    /\ nbkt \in 0..MaxBuckets
    /\ cap \in Nat
    /\ \A i \in 1..Len(grp) :
          /\ grp[i].minKey \in KeySpace /\ grp[i].maxKey \in KeySpace \cup {KeyMax}
          /\ Len(grp[i].ents) \in 1..MaxEntryCounts
          /\ \A e \in 1..Len(grp[i].ents) :
                /\ Len(grp[i].ents[e]) \in 1..EntryCap
                /\ \A j \in 1..Len(grp[i].ents[e]) :
                      grp[i].ents[e][j] \in [key : KeySpace, b : 1..nbkt]
    /\ pend \in {NoPut} \cup [k : Keys, v : Vals, merged : BOOLEAN]

(* Every eentry of the index, group by group, PointerBEntry by            *)
(* PointerBEntry, slot by slot.                                          *)
AllEntries == FlattenSeq([g \in 1..Len(grp) |-> FlattenSeq(grp[g].ents)])

(* The order every lookup relies on, across the three levels: eentry keys *)
(* strictly increase along the index and each bucket holds only keys     *)
(* from its eentry's key up to the next one's; every group after the     *)
(* first starts at its min_key, and max_key is the next group's min_key  *)
(* (UINT64_MAX for the last).  MergePointerBEntry moving an eentry       *)
(* across PointerBEntries, entry_key lowered by Put, AdjustEntryKey and  *)
(* ExpandGroup's cut of groups and max_key all have to keep it; a slip  *)
(* shows only in a lookup many operations later.                          *)
IndexOrder ==
    LET es == AllEntries
    IN  /\ \A i \in 1..Len(es) :
              /\ i < Len(es) => es[i].key < es[i + 1].key
              /\ \A x \in LiveKeys(bkt[es[i].b]) :
                    /\ es[i].key <= x
                    /\ i < Len(es) => x < es[i + 1].key
        /\ \A g \in 1..Len(grp) :
              /\ g > 1 => grp[g].minKey = grp[g].ents[1][1].key
              /\ grp[g].maxKey = IF g < Len(grp) THEN grp[g + 1].minKey ELSE KeyMax

(* Every RootModel::Put returns: the retry loops of RootModel::Put       *)
(* (ExpandAllGroup, goto retry0) and PointerBEntry::Put (split, goto     *)
(* retry) reach a bucket with room after finitely many steps.             *)
PutCompletes == ~Idle ~> Idle

(* ExpandAllGroup writes at most the nr_groups_ * 3 LearnGroups it        *)
(* allocated (its assert), and Load at most max_groups_: group_entrys_    *)
(* never holds more groups than it was allocated for.                     *)
GroupsFit == Len(grp) <= cap

=============================================================================
