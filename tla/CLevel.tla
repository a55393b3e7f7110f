------------------------------- MODULE CLevel -------------------------------
(***************************************************************************)
(* CLevel (src/src/clevel.h, clevel.cc), the persistent B+-tree that a    *)
(* combo-tree BEntry spills its write buffer into, with its nodes'        *)
(* SortBuffer (src/src/sortbuffer.h).                                     *)
(*                                                                         *)
(* Nodes come from MemControl's bump allocator, shared by every tree of   *)
(* a BLevel: a memory value is [node |-> [1..nn -> Node], nn |-> the     *)
(* nodes handed out]; NewNode adds node nn + 1.  A node is [type, recs, next, first]:          *)
(*   recs   the SortBuffer's records in sorted order (sort_key and        *)
(*          sort_value of positions 0 .. entries - 1); an index node's    *)
(*          values are child node numbers;                                *)
(*   next   a leaf's successor, or Nil (the LSB-1 null of next[6]);       *)
(*   first  an index node's first_child.                                  *)
(* The slot permutation in the SortBuffer header (sorted_index) is left   *)
(* out: with BUF_SORT undefined FromKVBuffer fills its free positions, so *)
(* Put always takes a free slot and the sorted view is all a lookup sees. *)
(* Keys inside one tree share the prefix its entry strips, so they are    *)
(* kept whole.                                                            *)
(***************************************************************************)
EXTENDS Integers, SequencesExt

CONSTANT MaxEntries   \* max_entries = 112 / (8 + suffix_bytes): 7 to 12

ASSUME MaxEntries >= 3

Nil == 0

EmptyMem == [node |-> <<>>, nn |-> 0]

Rec(key, val) == [k |-> key, v |-> val]

(* SortBuffer::Find: binary search over the sorted positions; the        *)
(* position found, or the insertion position left.  0-based.             *)
RECURSIVE SBSearch(_, _, _, _)
SBSearch(s, t, l, r) ==
    IF l > r THEN [pos |-> l, found |-> FALSE]
    ELSE LET m == (l + r) \div 2
         IN  IF s[m + 1].k = t THEN [pos |-> m, found |-> TRUE]
             ELSE IF s[m + 1].k > t THEN SBSearch(s, t, l, m - 1)
             ELSE SBSearch(s, t, m + 1, r)

SBFind(s, t) == SBSearch(s, t, 0, Len(s) - 1)

(* SortBuffer::FindLE: the first position whose key is t, else the one   *)
(* before the first key above t, else entries - 1.                       *)
SBFindLE(s, t) ==
    LET i == Min({j \in 0..Len(s) : j = Len(s) \/ s[j + 1].k >= t})
    IN  IF i < Len(s) /\ s[i + 1].k = t THEN i ELSE i - 1

(* Node::GetChild: child 0 is first_child, child i the value at i - 1. *)
GetChild(nd, i) == IF i = 0 THEN nd.first ELSE nd.recs[i].v

(* Node::FindLeaf: descend through FindLE + 1 down to a leaf. *)
RECURSIVE FindLeaf(_, _, _)
FindLeaf(m, id, key) ==
    IF m.node[id].type = "leaf" THEN id
    ELSE FindLeaf(m, GetChild(m.node[id], SBFindLE(m.node[id].recs, key) + 1), key)

(* Node::PutChild: SortBuffer::Put of [key, child] at Find's position. *)
PutChild(nd, key, child) ==
    [nd EXCEPT !.recs = InsertAt(@, SBFind(@, key).pos + 1, Rec(key, child))]

(* Node::Put on a leaf.  An existing key has its value overwritten.      *)
(* Otherwise the record is inserted, and a leaf that has reached         *)
(* max_entries splits: the upper half (from entries / 2) goes to a new   *)
(* leaf that takes over next, the parent (or a new root index node whose *)
(* first_child is this leaf) gets the new leaf's first key, this leaf's  *)
(* next becomes the new leaf, and DeleteData cuts this leaf to the lower *)
(* half.  The result is the node Put returns: this leaf, the new leaf    *)
(* (a split under a parent) or the new root.  f is leaf_buf.Find's       *)
(* result and r1 the records after leaf_buf.Put.                          *)
(* Mutant: the separator is the last key left behind. *)
LeafSplitSepLow(m, id, parent, r1) ==
    LET nd == m.node[id]
        h  == Len(r1) \div 2
        nw == m.nn + 1
        sep == r1[h].k
        newLeaf == [type |-> "leaf", recs |-> SubSeq(r1, h + 1, Len(r1)),
                    next |-> nd.next, first |-> Nil]
        old == [nd EXCEPT !.recs = SubSeq(r1, 1, h), !.next = nw]
    IN  IF Len(r1) # MaxEntries
        THEN [m |-> [m EXCEPT !.node[id].recs = r1], ret |-> id]
        ELSE IF parent = Nil
        THEN [m |-> [node |-> [m.node EXCEPT ![id] = old] @@ (nw :> newLeaf)
                                @@ ((nw + 1) :> [type |-> "index", recs |-> <<Rec(sep, nw)>>,
                                                 next |-> Nil, first |-> id]),
                     nn |-> m.nn + 2],
              ret |-> nw + 1]
        ELSE [m |-> [node |-> [m.node EXCEPT ![id] = old, ![parent] = PutChild(@, sep, nw)]
                                @@ (nw :> newLeaf),
                     nn |-> m.nn + 1],
              ret |-> nw]

(* Mutant: the new root node is not counted in nn. *)
LeafSplitUncounted(m, id, parent, r1) ==
    LET nd == m.node[id]
        h  == Len(r1) \div 2
        nw == m.nn + 1
        sep == r1[h + 1].k
        newLeaf == [type |-> "leaf", recs |-> SubSeq(r1, h + 1, Len(r1)),
                    next |-> nd.next, first |-> Nil]
        old == [nd EXCEPT !.recs = SubSeq(r1, 1, h), !.next = nw]
    IN  IF Len(r1) # MaxEntries
        THEN [m |-> [m EXCEPT !.node[id].recs = r1], ret |-> id]
        ELSE IF parent = Nil
        THEN [m |-> [node |-> [m.node EXCEPT ![id] = old] @@ (nw :> newLeaf)
                                @@ ((nw + 1) :> [type |-> "index", recs |-> <<Rec(sep, nw)>>,
                                                 next |-> Nil, first |-> id]),
                     nn |-> m.nn + 1],
              ret |-> nw + 1]
        ELSE [m |-> [node |-> [m.node EXCEPT ![id] = old, ![parent] = PutChild(@, sep, nw)]
                                @@ (nw :> newLeaf),
                     nn |-> m.nn + 1],
              ret |-> nw]

LeafSplit(m, id, parent, r1) ==
    LET nd == m.node[id]
        h  == Len(r1) \div 2
        nw == m.nn + 1
        sep == r1[h + 1].k
        newLeaf == [type |-> "leaf", recs |-> SubSeq(r1, h + 1, Len(r1)),
                    next |-> nd.next, first |-> Nil]
        old == [nd EXCEPT !.recs = SubSeq(r1, 1, h), !.next = nw]
    IN  IF Len(r1) # MaxEntries
        THEN [m |-> [m EXCEPT !.node[id].recs = r1], ret |-> id]
        ELSE IF parent = Nil
        THEN [m |-> [node |-> [m.node EXCEPT ![id] = old] @@ (nw :> newLeaf)
                                @@ ((nw + 1) :> [type |-> "index", recs |-> <<Rec(sep, nw)>>,
                                                 next |-> Nil, first |-> id]),
                     nn |-> m.nn + 2],
              ret |-> nw + 1]
        ELSE [m |-> [node |-> [m.node EXCEPT ![id] = old, ![parent] = PutChild(@, sep, nw)]
                                @@ (nw :> newLeaf),
                     nn |-> m.nn + 1],
              ret |-> nw]

LeafPutAt(m, id, key, val, parent, f) ==
    IF f.found
    THEN [m |-> [m EXCEPT !.node[id].recs[f.pos + 1].v = val], ret |-> id]
    ELSE LeafSplit(m, id, parent, InsertAt(m.node[id].recs, f.pos + 1, Rec(key, val)))

LeafPut(m, id, key, val, parent) ==
    LeafPutAt(m, id, key, val, parent, SBFind(m.node[id].recs, key))

(* Mutant: the key after the middle one goes up. *)
IndexSplitUpNext(m, id, parent) ==
    LET nd == m.node[id]
        c  == (Len(nd.recs) + 1) \div 2
        nw == m.nn + 1
        up == nd.recs[c + 1].k
        newIdx == [type |-> "index", recs |-> SubSeq(nd.recs, c + 1, Len(nd.recs)),
                   next |-> Nil, first |-> nd.recs[c].v]
        old == [nd EXCEPT !.recs = SubSeq(@, 1, c - 1)]
    IN  IF parent = Nil
        THEN [m |-> [node |-> [m.node EXCEPT ![id] = old] @@ (nw :> newIdx)
                                @@ ((nw + 1) :> [type |-> "index", recs |-> <<Rec(up, nw)>>,
                                                 next |-> Nil, first |-> id]),
                     nn |-> m.nn + 2],
              ret |-> nw + 1]
        ELSE [m |-> [node |-> [m.node EXCEPT ![id] = old, ![parent] = PutChild(@, up, nw)]
                                @@ (nw :> newIdx),
                     nn |-> m.nn + 1],
              ret |-> nw]

(* An index node that its child's split has filled to max_entries        *)
(* splits: CopyData moves the positions from c = (entries + 1) / 2 on to *)
(* a new index node whose first_child is the child at position c - 1,    *)
(* the key at c - 1 goes up to the parent (or a new root), and          *)
(* DeleteData keeps the positions below c - 1.                           *)
IndexSplit(m, id, parent) ==
    LET nd == m.node[id]
        c  == (Len(nd.recs) + 1) \div 2
        nw == m.nn + 1
        up == nd.recs[c].k
        newIdx == [type |-> "index", recs |-> SubSeq(nd.recs, c + 1, Len(nd.recs)),
                   next |-> Nil, first |-> nd.recs[c].v]
        old == [nd EXCEPT !.recs = SubSeq(@, 1, c - 1)]
    IN  IF parent = Nil
        THEN [m |-> [node |-> [m.node EXCEPT ![id] = old] @@ (nw :> newIdx)
                                @@ ((nw + 1) :> [type |-> "index", recs |-> <<Rec(up, nw)>>,
                                                 next |-> Nil, first |-> id]),
                     nn |-> m.nn + 2],
              ret |-> nw + 1]
        ELSE [m |-> [node |-> [m.node EXCEPT ![id] = old, ![parent] = PutChild(@, up, nw)]
                                @@ (nw :> newIdx),
                     nn |-> m.nn + 1],
              ret |-> nw]

(* Node::Put: a leaf puts; an index node puts into the child FindLE      *)
(* picks, passing itself as parent, and splits when the child's split   *)
(* has filled it.                                                        *)
(* r is what the child's Put returned. *)
IndexAfter(r, id, child, parent) ==
    IF r.ret = child \/ Len(r.m.node[id].recs) # MaxEntries
    THEN [m |-> r.m, ret |-> id]
    ELSE IndexSplit(r.m, id, parent)

RECURSIVE NodePut(_, _, _, _, _)
NodePut(m, id, key, val, parent) ==
    IF m.node[id].type = "leaf" THEN LeafPut(m, id, key, val, parent)
    ELSE LET child == GetChild(m.node[id], SBFindLE(m.node[id].recs, key) + 1)
         IN  IndexAfter(NodePut(m, child, key, val, id), id, child, parent)

(* CLevel::Put: Node::Put from the root; a different node returned is   *)
(* the new root, which root_ is set to.                                  *)
NewRoot(r) == [m |-> r.m, root |-> r.ret]

CPut(m, root, key, val) == NewRoot(NodePut(m, root, key, val, Nil))

(* CLevel::Setup(mem, buf): a new leaf holding the buffer's records,     *)
(* FromKVBuffer ordering them by GetSortedIndex's std::sort on the key,  *)
(* with next null; root_ points to it.                                   *)
CSetup(m, buf) ==
    [m    |-> [node |-> m.node @@ ((m.nn + 1) :>
                          [type |-> "leaf", recs |-> SortSeq(buf, LAMBDA a, b : a.k < b.k),
                           next |-> Nil, first |-> Nil]),
               nn |-> m.nn + 1],
     root |-> m.nn + 1]

(* CLevel::Get: FindLeaf, then Find in the leaf. *)
LeafGet(lf, f, notFound) == IF f.found THEN lf.recs[f.pos + 1].v ELSE notFound

CGet(m, root, key, notFound) ==
    LET lf == m.node[FindLeaf(m, root, key)]
    IN  LeafGet(lf, SBFind(lf.recs, key), notFound)

(* CLevel::Update: FindLeaf and Find; a missing key is assert(0), which  *)
(* a release build passes, returning false.                              *)
LeafUpdate(m, id, val, f) ==
    IF f.found THEN [ok |-> TRUE, m |-> [m EXCEPT !.node[id].recs[f.pos + 1].v = val]]
    ELSE [ok |-> FALSE, m |-> m]

CUpdate(m, root, key, val) ==
    LET id == FindLeaf(m, root, key)
    IN  LeafUpdate(m, id, val, SBFind(m.node[id].recs, key))

(* CLevel::Delete: FindLeaf and Find; a found record leaves the leaf      *)
(* (SortBuffer::Delete rotates its slot out of the sorted positions).   *)
(* The result is true whether or not the key was there.                 *)
LeafDelete(m, id, f) ==
    IF f.found THEN [m EXCEPT !.node[id].recs = RemoveAt(@, f.pos + 1)] ELSE m

CDelete(m, root, key) ==
    LET id == FindLeaf(m, root, key)
    IN  LeafDelete(m, id, SBFind(m.node[id].recs, key))

(* CLevel::Iter from FindHead: the leaves' records along next. *)
RECURSIVE HeadLeaf(_, _)
HeadLeaf(m, id) == IF m.node[id].type = "leaf" THEN id ELSE HeadLeaf(m, m.node[id].first)

RECURSIVE LeafChain(_, _)
LeafChain(m, id) == IF id = Nil THEN <<>> ELSE m.node[id].recs \o LeafChain(m, m.node[id].next)

=============================================================================
