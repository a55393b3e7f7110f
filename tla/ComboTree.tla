------------------------------ MODULE ComboTree ------------------------------
(***************************************************************************)
(* The combo-tree index of src/src (alevel, blevel, bentry, clevel): an    *)
(* ALevel (alevel.h, alevel.cc) that maps a key by its CDF to a range of  *)
(* BLevel entries, a BLevel (blevel.h, blevel.cc) whose sorted array of   *)
(* BEntries holds the pairs, each BEntry a KVBuffer in front of a CLevel  *)
(* B+-tree, and BLevel::Expansion, which rebuilds the array from a sorted *)
(* vector (the first load) or from the old BLevel.                        *)
(*                                                                         *)
(* Build: no letree_config.h is shipped, so every option is taken as      *)
(* undefined (BRANGE, BUF_SORT, POINTER_BENTRY, NO_ENTRY_BUF, the        *)
(* STREAMING ones) except USE_LIBPMEM, which ALevel's pmem_map_file      *)
(* needs: every BLevel and ALevel lives in a new, zeroed PM file.  The    *)
(* operations are called one at a time (the caller, a combo-tree front  *)
(* end, is not in src/src); the shared_mutex per entry is left out.      *)
(*                                                                         *)
(* State:                                                                  *)
(*   mem    the BLevel's MemControl, the node pool of all its CLevels;     *)
(*   ents   entries_[0 .. nr_entries_ - 1] as BEntry values;               *)
(*   phys   physical_nr_entries_;                                          *)
(*   al     the ALevel: min_key_, max_key_, nr_blevel_entry_, nr_entry_    *)
(*          and entry_ as a function from 0 .. nr_entry_ - 1 to [key, off];*)
(*   size   size_;                                                         *)
(*   ret    what the last operation returned.                             *)
(***************************************************************************)
EXTENDS BEntry, ALevel, FiniteSets

CONSTANTS
    Keys,             \* the keys callers use, all above 0 (entry 0's key)
    Vals,
    NotFound,
    ExpandBufKey,     \* BLEVEL_EXPAND_BUF_KEY
    EntrySizeFactor,  \* ENTRY_SIZE_FACTOR
    FreshPuts,        \* callers Put only keys that are absent
    MaxNodes,         \* bound on the CLevel nodes of one BLevel's MemControl
    MaxDeletes,       \* bound on Delete calls
    MaxExpansions     \* bound on Expansion(old) calls

ASSUME /\ Keys \subseteq Nat \ {0}
       /\ ExpandBufKey >= 1 /\ EntrySizeFactor >= 1

VARIABLES mem, ents, phys, al, size, ret, dels, exps

vars == <<mem, ents, phys, al, size, ret, dels, exps>>

Result(op, k, res) == [op |-> op, k |-> k, res |-> res]

(* ALevel::Put/Get/Update/Delete: the range, then BLevel's Find_. *)
Route(key) == LET r == GetBLevelRange(al, key) IN Find(ents, key, r.b, r.e)

(* ExpandData::FlushToEntry (POINTER_BENTRY and NO_ENTRY_BUF undefined): *)
(* while more than max_entries pairs are buffered, the last max_entries   *)
(* of them fill the entry's buffer and FlushToCLevel moves them to the    *)
(* CLevel; the rest are copied to slots 0 .. buf_count - 1.  Slots above  *)
(* keep what they held.                                                    *)
RECURSIVE FlushToEntry(_, _, _), FlushRest(_, _)
FlushToEntry(m, e, kb) ==
    IF Len(kb) > MaxEntries
    THEN LET top == SubSeq(kb, Len(kb) - MaxEntries + 1, Len(kb))
         IN  FlushRest(Flush(m, [e EXCEPT !.buf = [rec |-> [i \in 0..MaxEntries - 1 |-> top[i + 1]],
                                                   n |-> MaxEntries]]),
                       SubSeq(kb, 1, Len(kb) - MaxEntries))
    ELSE [m |-> m,
          e |-> [e EXCEPT !.buf = [rec |-> [i \in 0..MaxEntries - 1 |->
                                              IF i < Len(kb) THEN kb[i + 1] ELSE e.buf.rec[i]],
                                   n |-> Len(kb)]]]

FlushRest(f, kb) == FlushToEntry(f.m, f.e, kb)

(* BEntry::Put of each buffered pair into the entry, in key_buf order. *)
RECURSIVE PutSeq(_, _, _), PutRest(_, _)
PutSeq(m, e, kb) ==
    IF kb = <<>> THEN [m |-> m, e |-> e]
    ELSE PutRest(EPut(m, e, Head(kb).k, Head(kb).v), Tail(kb))

PutRest(r, kb) == PutSeq(r.m, r.e, kb)

(* The buffered pairs go to a new entry keyed entry_key when a physical   *)
(* entry is left, whose successor's key is nk, else into the last entry  *)
(* (ExpandPut_'s and ExpandFinish_'s two branches).  d is the ExpandData: *)
(* es the entries written, ekey entry_key, kb the key_buf/value_buf       *)
(* pairs, m the memory, n its size.                                        *)
NewEntryDone(d, f, nk) == [d EXCEPT !.es = Append(@, f.e), !.m = f.m, !.kb = <<>>, !.ekey = nk]

LastEntryDone(d, p) == [d EXCEPT !.es[Len(d.es)] = p.e, !.m = p.m, !.kb = <<>>]

SpillBuf(d, ph, nk) ==
    IF Len(d.es) < ph
    THEN NewEntryDone(d, FlushToEntry(d.m, NewEntry(d.ekey), d.kb), nk)
    ELSE LastEntryDone(d, PutSeq(d.m, d.es[Len(d.es)], d.kb))

Buffered(d, r) == [d EXCEPT !.kb = Append(@, r), !.n = @ + 1]

(* Mutant: the next entry is keyed by the last key spilled. *)
ExpandPutLastKey(ph, d, r) ==
    Buffered(IF Len(d.kb) = ExpandBufKey THEN SpillBuf(d, ph, Last(d.kb).k) ELSE d, r)

(* ExpandPut_: a full key_buf is spilled first (a new entry's successor   *)
(* key is this key); then the pair is buffered and size counted.          *)
ExpandPut(ph, d, r) ==
    Buffered(IF Len(d.kb) = ExpandBufKey THEN SpillBuf(d, ph, r.k) ELSE d, r)

ExpandFinish(ph, d) == IF d.kb = <<>> THEN d ELSE SpillBuf(d, ph, d.ekey)

(* ExpandData(entries_, entries_ + physical_nr_entries_, 0), every pair   *)
(* ExpandPut_, then ExpandFinish_, which spills what is left.             *)
ExpandAll(ph, pairs) ==
    ExpandFinish(ph, FoldLeft(LAMBDA x, r : ExpandPut(ph, x, r),
                              [es |-> <<>>, ekey |-> 0, kb |-> <<>>, m |-> EmptyMem, n |-> 0],
                              pairs))

(* BLevel(data_size): physical_nr_entries_. *)
PhysEntries(dataSize) ==
    ((dataSize + 1 + ExpandBufKey - 1) \div ExpandBufKey) * EntrySizeFactor

(* BEntry::Iter's merge of the tree's records and the sorted buffer; on   *)
(* equal keys the buffer's record comes first.                            *)
RECURSIVE MergeIter(_, _)
MergeIter(c, b) ==
    IF c = <<>> THEN b
    ELSE IF b = <<>> THEN c
    ELSE IF c[1].k < b[1].k THEN <<c[1]>> \o MergeIter(Tail(c), b)
    ELSE <<b[1]>> \o MergeIter(c, Tail(b))

(* The pairs Expansion(old) takes from one old entry.  With a CLevel the   *)
(* do-while reads biter.key() and value() before asking biter.next():     *)
(* when the tree and the buffer are both empty that read is                *)
(* entry_key(0) = key(sorted_index_[0]), and GetSortedIndex wrote no      *)
(* sorted_index_ slot, so it is slot s of the buffer, s the uninitialized *)
(* int.  Without a CLevel the buffer is emitted in GetSortedIndex order.  *)
IterPairs(c, e, s) ==
    IF c = <<>> /\ e.buf.n = 0 THEN <<e.buf.rec[s]>>
    ELSE MergeIter(c, SortSeq(Live(e.buf), LAMBDA x, y : x.k < y.k))

EntryPairs(m, e, s) ==
    IF e.root = Nil THEN SortSeq(Live(e.buf), LAMBDA x, y : x.k < y.k)
    ELSE IterPairs(LeafChain(m, HeadLeaf(m, e.root)), e, s)


(* The pairs Expansion(old) reads, entry by entry; g picks the slot of   *)
(* each entry's uninitialized read.                                       *)
OldPairs(g) ==
    FoldLeft(LAMBDA acc, i : acc \o EntryPairs(mem, ents[i], g[i]), <<>>, [i \in 1..Len(ents) |-> i])

(* What BLevel::Get finds for k in a BLevel m, es with ALevel a. *)
LookupIn(m, es, a, k) ==
    LET r == GetBLevelRange(a, k)
    IN  EGet(m, es[Find(es, k, r.b, r.e) + 1], k, NotFound)

GetOf(k) == LookupIn(mem, ents, al, k)

(* Before the first load there is no BLevel and no ALevel. *)
NoALevel == [min |-> 0, max |-> 0, nrb |-> 0, ne |-> 1, ent |-> (0 :> [key |-> 0, off |-> 0])]

Init ==
    /\ mem = EmptyMem
    /\ ents = <<>>
    /\ phys = 0
    /\ al = NoALevel
    /\ size = 0
    /\ ret = Result("none", 0, NotFound)
    /\ dels = 0
    /\ exps = 0

(* The BLevel an expansion d built, with ph physical entries, and an      *)
(* ALevel on it become the tree.                                           *)
Install(ph, d) ==
    /\ d.m.nn <= MaxNodes
    /\ mem' = d.m
    /\ ents' = d.es
    /\ phys' = ph
    /\ al' = NewALevel(d.es)
    /\ size' = d.n

(* The first load: BLevel(data.size()), Expansion(data) of a sorted      *)
(* vector of distinct keys (data.empty() returns at once, so it has at   *)
(* least one), and an ALevel on the result.                              *)
Load ==
    /\ phys = 0
    /\ \E S \in SUBSET Keys \ {{}} : \E f \in [S -> Vals] :
        LET ph == PhysEntries(Cardinality(S))
        IN  Install(ph, ExpandAll(ph, [i \in 1..Cardinality(S) |->
                                         LET k == SetToSortSeq(S, <)[i] IN Rec(k, f[k])]))
    /\ ret' = Result("load", 0, TRUE)
    /\ UNCHANGED <<dels, exps>>

(* Entry i and the memory after an entry operation with result r. *)
PutEntry(i, r) ==
    /\ r.m.nn <= MaxNodes
    /\ mem' = r.m
    /\ ents' = [ents EXCEPT ![i + 1] = r.e]

UpdEntry(i, k, u) == PutEntry(i, u) /\ ret' = Result("upd", k, u.ok)

(* ALevel::Put: BEntry::Put at the entry and size_++; the bool returned   *)
(* is status::OK converted, false.                                         *)
Put(k, v) ==
    /\ Len(ents) > 0
    /\ FreshPuts => GetOf(k) = NotFound
    /\ LET i == Route(k) IN PutEntry(i, EPut(mem, ents[i + 1], k, v))
    /\ size' = size + 1
    /\ ret' = Result("put", k, FALSE)
    /\ UNCHANGED <<phys, al, dels, exps>>

Get(k) ==
    /\ Len(ents) > 0
    /\ ret' = Result("get", k, GetOf(k))
    /\ UNCHANGED <<mem, ents, phys, al, size, dels, exps>>

Update(k, v) ==
    /\ Len(ents) > 0
    /\ LET i == Route(k) IN UpdEntry(i, k, EUpdate(mem, ents[i + 1], k, v))
    /\ UNCHANGED <<phys, al, size, dels, exps>>

(* BLevel::Delete_: BEntry::Delete, size_--, and true whatever it found. *)
Delete(k) ==
    /\ Len(ents) > 0
    /\ dels < MaxDeletes
    /\ LET i == Route(k) IN PutEntry(i, EDelete(mem, ents[i + 1], k))
    /\ size' = size - 1
    /\ ret' = Result("del", k, TRUE)
    /\ dels' = dels + 1
    /\ UNCHANGED <<phys, al, exps>>

(* A new BLevel(old.Size()) with its own MemControl, Expansion(old), and *)
(* a new ALevel on it, which replace the old ones.  The front end expands *)
(* a tree that holds pairs (size_ > 0); from an empty BLevel Expansion    *)
(* would build no entry, and the ALevel's nr_blevel_entry_ would be       *)
(* Entries() - 1 = 2^64 - 1.                                              *)
Expansion ==
    /\ exps < MaxExpansions
    /\ size > 0
    /\ \E g \in [1..Len(ents) -> 0..MaxEntries - 1] :
        Install(PhysEntries(size), ExpandAll(PhysEntries(size), OldPairs(g)))
    /\ exps' = exps + 1
    /\ UNCHANGED <<ret, dels>>

Next ==
    \/ Load
    \/ \E k \in Keys, v \in Vals : Put(k, v) \/ Update(k, v)
    \/ \E k \in Keys : Get(k) \/ Delete(k)
    \/ Expansion

Spec == Init /\ [][Next]_vars

-----------------------------------------------------------------------------
(***************************************************************************)
(* Properties                                                             *)
(***************************************************************************)

KeyOrZero == Keys \cup {0}
RecT == [k : KeyOrZero, v : Vals \cup {0}]
NodeT == [type : {"leaf", "index"}, recs : Seq([k : KeyOrZero, v : Nat]), next : Nat, first : Nat]
BufT == [rec : [0..MaxEntries - 1 -> RecT], n : 0..MaxEntries]
EntryT == [key : KeyOrZero, buf : BufT, root : Nat]

TypeOK ==
    /\ mem.nn \in 0..MaxNodes /\ mem.node \in [1..mem.nn -> NodeT]
    /\ ents \in Seq(EntryT)
    /\ phys \in Nat /\ Len(ents) <= phys
    /\ size \in Int
    /\ ret.op \in {"none", "load", "put", "get", "upd", "del"} /\ ret.k \in KeyOrZero
    /\ ret.res \in BOOLEAN \/ ret.res \in Vals \cup {0, NotFound}
    /\ dels \in 0..MaxDeletes /\ exps \in 0..MaxExpansions

(* The keys an entry holds: its live buffer slots and its tree's leaves. *)
TreeKeys(c) == {c[j].k : j \in DOMAIN c}

Held(e) == {Live(e.buf)[i].k : i \in 1..e.buf.n}
           \cup (IF e.root = Nil THEN {} ELSE TreeKeys(LeafChain(mem, HeadLeaf(mem, e.root))))

(* The entry that owns key k: the last whose entry_key is <= k. *)
Owner(k) == Max({i \in 0..Len(ents) - 1 : EntryKey(ents, i) <= k})

(* Routing: the entry keys Expansion wrote increase, and for every key    *)
(* the ALevel's CDF range (GetBLevelRange_, over the entry_ table the    *)
(* constructor back-filled) followed by BLevel::Find_'s middle probe and *)
(* linear scan reaches the entry that owns it, and every pair an entry   *)
(* holds is one it owns.                                                   *)
RoutedToOwner ==
    Len(ents) > 0 =>
        /\ \A i \in 1..Len(ents) - 1 : ents[i].key < ents[i + 1].key
        /\ \A k \in Keys : Route(k) = Owner(k)
        /\ \A i \in 1..Len(ents) : \A k \in Held(ents[i]) : Owner(k) = i - 1

(* Every CLevel is a B+-tree: its leaves, read along next from FindHead,  *)
(* hold strictly increasing keys; each of them is found by FindLeaf from *)
(* the root (FindLE on index nodes); and no node is left full, since a   *)
(* node that reaches max_entries splits in the same Put (a full leaf     *)
(* would take its next record in a slot past max_entries).                *)
ChainSound(c, root) ==
    /\ \A j \in 1..Len(c) - 1 : c[j].k < c[j + 1].k
    /\ \A j \in 1..Len(c) : CGet(mem, root, c[j].k, NotFound) = c[j].v

CLevelSound ==
    /\ \A i \in 1..mem.nn : Len(mem.node[i].recs) < MaxEntries
    /\ \A i \in 1..Len(ents) : ents[i].root # Nil =>
         ChainSound(LeafChain(mem, HeadLeaf(mem, ents[i].root)), ents[i].root)


=============================================================================
