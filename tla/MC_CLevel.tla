------------------------------ MODULE MC_CLevel ------------------------------
(***************************************************************************)
(* A CLevel built the way BEntry builds one: Setup from a buffer of        *)
(* max_entries - 1 records (the flush of a buffer one short of full), then *)
(* CLevel::Put of each further key.  Every order of InsertKeys is an       *)
(* initial state of order; nothing changes it.                              *)
(***************************************************************************)
EXTENDS CLevel

CONSTANT InsertKeys

VARIABLE order

Init == order \in SetToSeqs(InsertKeys)

Next == UNCHANGED order

(* The tree after Setup of the first max_entries - 1 keys and Put of the *)
(* rest, each with value key * 10.                                        *)
Built ==
    LET s == [i \in 1..MaxEntries - 1 |-> Rec(order[i], order[i] * 10)]
    IN  FoldLeft(LAMBDA t, k : CPut(t.m, t.root, k, k * 10),
                 CSetup(EmptyMem, s),
                 SubSeq(order, MaxEntries, Len(order)))

TreeSound(t) ==
    /\ \A i \in 1..t.m.nn : Len(t.m.node[i].recs) < MaxEntries
    /\ LeafChain(t.m, HeadLeaf(t.m, t.root)) = [i \in 1..Cardinality(InsertKeys) |->
                                                 LET k == SetToSortSeq(InsertKeys, <)[i]
                                                 IN  Rec(k, k * 10)]
    /\ \A k \in InsertKeys : CGet(t.m, t.root, k, 0) = k * 10

(* Whatever the order the keys arrive in, leaf splits (the upper half to *)
(* a new leaf taking over next, the first key of the new leaf to the     *)
(* parent) and index splits (the middle key moving up, the new index     *)
(* node's first_child taken from it) leave a tree whose leaves, read     *)
(* along next from the leftmost one, hold every key once in increasing   *)
(* order, in which FindLeaf and Find find each key, and whose nodes all   *)
(* have room for the next record.                                          *)
CLevelBuildSound == TreeSound(Built)

=============================================================================
