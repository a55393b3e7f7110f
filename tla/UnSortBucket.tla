---------------------------- MODULE UnSortBucket ----------------------------
(***************************************************************************)
(* UnSortBuncket (src/src/pointer_bentry.h): a 256-byte persistent bucket *)
(* of unsorted records.  A bucket value is                                *)
(*   [rec |-> [1..BucketCap -> [k, v]], n |-> entries]                    *)
(* where rec[i] is the code's records[i - 1].  Records at positions >= n  *)
(* are not cleared by the code and keep whatever they held; every         *)
(* operator here keeps them too, because Find, min_key and Expand_ can   *)
(* read them.                                                             *)
(***************************************************************************)
EXTENDS Integers, Sequences, TLC

CONSTANT BucketCap   \* max_entries = min(buf_size / 16, entry_count) = 15

EmptyRec == [k |-> 0, v |-> 0]
EmptyBucket == [rec |-> [i \in 1..BucketCap |-> EmptyRec], n |-> 0]

LiveRecs(bk) == {bk.rec[i] : i \in 1..bk.n}
LiveKeys(bk) == {bk.rec[i].k : i \in 1..bk.n}

(* Find: the first position (0-based) among the first n whose key is key, *)
(* else n.                                                                *)
BFind(bk, key) ==
    LET hits == {i \in 0..bk.n - 1 : bk.rec[i + 1].k = key}
    IN  IF hits = {} THEN bk.n ELSE CHOOSE i \in hits : \A j \in hits : i <= j

BHas(bk, key) == BFind(bk, key) < bk.n

(* Put (with PutBufKV): append at position entries, no duplicate check.   *)
(* The caller checks n < BucketCap; otherwise the code returns Full.      *)
BPut(bk, key, val) ==
    [rec |-> [bk.rec EXCEPT ![bk.n + 1] = [k |-> key, v |-> val]], n |-> bk.n + 1]

(* Get: the value of the first record with the key. *)
BGet(bk, key) == bk.rec[BFind(bk, key) + 1].v

(* Fault model: Update writing the value to the last live record. *)
BUpdateLast(bk, key, val) == [bk EXCEPT !.rec[bk.n].v = val]

(* Update: overwrite the value of the first record with the key. *)
BUpdate(bk, key, val) ==
    [bk EXCEPT !.rec[BFind(bk, key) + 1].v = val]

(* Fault model: remove_key moving only the key of record idx - 1 into   *)
(* the hole, leaving the removed record's value behind.                  *)
RemoveKeyKeyOnly(bk, key, idx) ==
    LET pos == BFind(bk, key)
    IN  IF pos = bk.n \/ pos = idx - 1 THEN bk
        ELSE [bk EXCEPT !.rec[pos + 1].k = bk.rec[idx].k]

(* remove_key(key, value, idx): fill the hole left by key with record     *)
(* idx - 1; the caller then lowers entries.  Find scans the first n      *)
(* records, whatever idx is.                                              *)
RemoveKey(bk, key, idx) ==
    LET pos == BFind(bk, key)
    IN  IF pos = bk.n \/ pos = idx - 1 THEN bk
        ELSE [bk EXCEPT !.rec[pos + 1] = bk.rec[idx]]

(* Delete of a present key: remove_key(key, value, entries); entries--. *)
BDelete(bk, key) == [RemoveKey(bk, key, bk.n) EXCEPT !.n = @ - 1]

(* min_key(): records[0].key when the bucket is empty. *)
BMinKey(bk) ==
    LET ks == {bk.rec[i].k : i \in 1..IF bk.n = 0 THEN 1 ELSE bk.n}
    IN  CHOOSE x \in ks : \A y \in ks : x <= y

(* getSortedIndex: positions (1-based here) of the live records by key. *)
SortedIndex(bk) ==
    SortSeq([i \in 1..bk.n |-> i], LAMBDA x, y : bk.rec[x].k < bk.rec[y].k)

(* The removal loop of Expand_: for i in entries/2 .. entries-1 it calls  *)
(* remove_key(key(sorted_index_[i]), nullptr, idx--), reading the key    *)
(* from the records as the earlier iterations left them.                 *)
RECURSIVE RemoveUpper(_, _, _, _)
RemoveUpper(bk, si, j, idx) ==
    IF j > bk.n THEN bk
    ELSE RemoveUpper(RemoveKey(bk, bk.rec[si[j]].k, idx), si, j + 1, idx - 1)

(* Expand_: split a full bucket at the median key.  The upper half is     *)
(* copied in key order into a fresh bucket (zeroed memory), then removed  *)
(* from this one, which keeps entries / 2 records.  A function, so that  *)
(* the bucket argument is evaluated once.                                 *)
BucketRec == [rec : [1..BucketCap -> [k : Int, v : Int]], n : Int]

Expand_[bk \in BucketRec] ==
    LET si    == SortedIndex(bk)
        half  == bk.n \div 2
        upper == [j \in 1..(bk.n - half) |-> bk.rec[si[half + j]]]
        next  == [rec |-> [i \in 1..BucketCap |->
                              IF i <= Len(upper) THEN upper[i] ELSE EmptyRec],
                  n   |-> Len(upper)]
        rest  == RemoveUpper(bk, si, half + 1, bk.n)
    IN  [splitKey |-> bk.rec[si[half + 1]].k,
         old      |-> [rest EXCEPT !.n = half],
         new      |-> next]

=============================================================================
