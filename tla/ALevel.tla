------------------------------- MODULE ALevel -------------------------------
(***************************************************************************)
(* The combo-tree's routing from a key to a BLevel entry: the ALevel      *)
(* (src/src/alevel.h, alevel.cc), a table of nr_entry_ = nr_blevel_entry_ *)
(* / span + 1 slots built over the BLevel's sorted entry keys, whose CDF   *)
(* of a key gives a [begin, end] range of entries, and BLevel::Find_      *)
(* (blevel.cc), which searches that range.  es is the BLevel's entries_  *)
(* array as a sequence of records with a key field; the ALevel is         *)
(* [min, max, nrb, ne, ent] with ent from 0 .. ne - 1 to [key, off].       *)
(* CalculateCDF_ divides doubles; the model computes the index exactly,   *)
(* so a double product that rounds just below an integer is not modelled.*)
(***************************************************************************)
EXTENDS Integers, Sequences, FiniteSetsExt

CONSTANT Span   \* span_, DEFAULT_SPAN

ASSUME Span \in Nat \ {0}

(* BLevel::EntryKey(i): entry i's key; past nr_entries_ the zeroed file.   *)
EntryKey(es, i) == IF 0 <= i /\ i < Len(es) THEN es[i + 1].key ELSE 0

(* CDFIndex_: 0 below min_key_, nr_entry_ - 1 above max_key_, else        *)
(* (CDF(key) * nr_blevel_entry_ + 1) / span_ truncated, computed exactly. *)
CDFIndex(a, key) ==
    IF key < a.min THEN 0
    ELSE IF key > a.max THEN a.ne - 1
    ELSE ((key - a.min) * a.nrb + (a.max - a.min)) \div ((a.max - a.min) * Span)

(* Mutant: only the slot the key lands on is filled. *)
FillSlotNoBackfill(a, ent, off, ck) ==
    LET idx == CDFIndex(a, ck)
    IN  IF ent[idx].key # 0 THEN ent ELSE [ent EXCEPT ![idx] = [key |-> ck, off |-> off]]

(* The constructor's loop body for one B-level offset: the first key that *)
(* lands on an empty slot of entry_ takes it and the empty slots below it *)
(* down to slot 1.                                                         *)
FillSlot(a, ent, off, ck) ==
    LET idx == CDFIndex(a, ck)
    IN  IF ent[idx].key # 0 THEN ent
        ELSE [i \in DOMAIN ent |->
                IF i = idx \/ (0 < i /\ i < idx /\ \A j \in i..idx - 1 : ent[j].key = 0)
                THEN [key |-> ck, off |-> off] ELSE ent[i]]

RECURSIVE FillFrom(_, _, _, _)
FillFrom(a, es, off, ent) ==
    IF off >= Len(es) THEN ent
    ELSE FillFrom(a, es, off + 1, FillSlot(a, ent, off, EntryKey(es, off)))

(* ALevel::ALevel(blevel, span): entry 0 of the B-level is key 0, so the  *)
(* model starts at entry 1; the last slot gets max_key_.                   *)
NewALevel(es) ==
    LET nrb == Len(es) - 1
        a   == [min |-> EntryKey(es, 1), max |-> EntryKey(es, nrb), nrb |-> nrb,
                ne |-> (nrb + 1) \div Span + 1]
        e0  == [i \in 0..a.ne - 1 |-> IF i = 0 THEN [key |-> a.min, off |-> 1]
                                      ELSE [key |-> 0, off |-> 0]]
        ent == FillFrom(a, es, 2, e0)
    IN  [min |-> a.min, max |-> a.max, nrb |-> nrb, ne |-> a.ne,
         ent |-> [ent EXCEPT ![a.ne - 1] = [key |-> a.max, off |-> nrb]]]

(* GetBLevelRange_: the [begin, end] the B-level search is given. *)
GetBLevelRange(a, key) ==
    LET c == CDFIndex(a, key)
    IN  IF key < a.min THEN [b |-> 0, e |-> 0]
        ELSE IF key >= a.max THEN [b |-> a.ent[a.ne - 1].off, e |-> a.ent[a.ne - 1].off]
        ELSE IF key >= a.ent[c].key
        THEN [b |-> a.ent[c].off,
              e |-> IF c = a.ne - 1 THEN a.ent[c].off ELSE a.ent[c + 1].off]
        ELSE LET b0 == a.ent[c - 1].off
             IN  [b |-> IF b0 = a.ent[c].off THEN b0 - 1 ELSE b0, e |-> a.ent[c].off]

(* Find_(key, begin, end): one probe at the middle, then a linear scan up *)
(* or down; the index of the last entry whose key is <= key.              *)
Find(es, key, b, e) ==
    LET mid == (b + e) \div 2
        mk  == EntryKey(es, mid)
    IN  IF mk = key THEN mid
        ELSE IF mk < key
        THEN Min({i \in mid + 1..e + 1 : i > e \/ EntryKey(es, i) > key}) - 1
        ELSE Max({i \in b - 1..mid - 1 : i < b \/ EntryKey(es, i) <= key})

=============================================================================
