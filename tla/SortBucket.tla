----------------------------- MODULE SortBucket -----------------------------
(***************************************************************************)
(* SortBuncket (src/src/pointer_bentry.h 869-1530), the sorted C-level    *)
(* bucket that the typedef at pointer_bentry.h:2055 can select instead of *)
(* UnSortBuncket, as built: USE_DELETE_0 is defined (line 31), so a      *)
(* delete leaves a hole of key 0 and value 0 in place, and USE_MEM is not *)
(* (the flushes change no value and are left out).                        *)
(*                                                                         *)
(* A bucket value is [rec |-> [0..Cap-1 -> [k, v]], lp |-> last_pos,      *)
(* n |-> entries], rec being the code's records array indexed as in the  *)
(* code.  Buckets come from MemControl's bump allocator over a new PM    *)
(* file, so a fresh bucket's records are all zero.  Records at or past   *)
(* lp keep whatever they held.                                            *)
(***************************************************************************)
EXTENDS Integers, FiniteSetsExt

CONSTANT Cap   \* max_entries = entry_count = (256 - 12) / 16 = 15

ASSUME Cap >= 2

Hole == [k |-> 0, v |-> 0]

(* The constructor SortBuncket(key, prefix_len) on zeroed memory. *)
SEmpty == [rec |-> [i \in 0..Cap - 1 |-> Hole], lp |-> 0, n |-> 0]

(* records[i]; an index past the array reads the memory after the bucket. *)
(* The only such read (PutBufKV's shift when last_pos = Cap) copies into  *)
(* a slot that the insertion below always overwrites, so its value does  *)
(* not matter and is taken as a hole.                                     *)
At(bk, i) == IF i \in 0..Cap - 1 THEN bk.rec[i] ELSE Hole

(* LinearFind: the first i < last_pos whose key is not below target. *)
LinearFind(bk, t) ==
    LET i == Min({j \in 0..bk.lp : j = bk.lp \/ ~(t > At(bk, j).k)})
    IN  [pos |-> i, found |-> i < bk.lp /\ At(bk, i).k = t]

(* Find: binary search over records[0 .. entries - 1]. *)
RECURSIVE BinFind(_, _, _, _)
BinFind(bk, t, l, r) ==
    IF l > r THEN [pos |-> l, found |-> FALSE]
    ELSE LET m == (l + r) \div 2
         IN  IF At(bk, m).k = t THEN [pos |-> m, found |-> TRUE]
             ELSE IF At(bk, m).k > t THEN BinFind(bk, t, l, m - 1)
             ELSE BinFind(bk, t, m + 1, r)

SFind(bk, t) == BinFind(bk, t, 0, bk.n - 1)

(* PutBufKV's compaction: when last_pos has reached max_entries - 1 and  *)
(* some slot is a hole, the records after the last hole below last_pos   *)
(* move down by one; last_pos drops by one whether or not a hole was     *)
(* found.                                                                 *)
Compact(bk) ==
    IF bk.lp >= Cap - 1 /\ bk.lp # bk.n
    THEN LET holes == {i \in 0..bk.lp - 1 : At(bk, i).k = 0}
             h     == IF holes = {} THEN bk.lp ELSE Max(holes)
         IN  [bk EXCEPT !.rec = [j \in 0..Cap - 1 |->
                                   IF h <= j /\ j < bk.lp THEN At(bk, j + 1) ELSE @[j]],
                        !.lp  = @ - 1]
    ELSE bk

(* Fault model: the loop's test reversed, moving smaller keys up. *)
RECURSIVE InsertDownReversed(_, _, _)
InsertDownReversed(r, i, kv) ==
    IF i < 0 THEN [r EXCEPT ![0] = kv]
    ELSE IF kv.k > r[i].k THEN InsertDownReversed([r EXCEPT ![i + 1] = r[i]], i - 1, kv)
    ELSE [r EXCEPT ![i + 1] = kv]

(* PutBufKV's insertion loop, from i = last_pos - 1 down: a larger key    *)
(* moves up one slot; the first key that is not larger (a hole's 0        *)
(* included) stops the loop and the new record goes just above it.        *)
RECURSIVE InsertDown(_, _, _)
InsertDown(r, i, kv) ==
    IF i < 0 THEN [r EXCEPT ![0] = kv]
    ELSE IF kv.k < r[i].k THEN InsertDown([r EXCEPT ![i + 1] = r[i]], i - 1, kv)
    ELSE [r EXCEPT ![i + 1] = kv]

(* PutBufKV, called with entries < max_entries.  An empty bucket (entries *)
(* = 0, whatever last_pos is) takes the record at slot 0.                 *)
SPutBuf(bk, key, val) ==
    LET kv == [k |-> key, v |-> val]
    IN  IF bk.n = 0
        THEN [bk EXCEPT !.rec = [@ EXCEPT ![0] = kv, ![1].v = 0]]
        ELSE LET c == Compact(bk)
             IN  [c EXCEPT !.rec = InsertDown(@, c.lp - 1, kv)]

(* Put: PutBufKV returns Full when entries >= max_entries. *)
SFull(bk) == bk.n >= Cap

(* Fault model: Put counting the record in entries but not in last_pos. *)
SPutNoLastPos(bk, key, val) == [SPutBuf(bk, key, val) EXCEPT !.n = @ + 1]

SPut(bk, key, val) ==
    [SPutBuf(bk, key, val) EXCEPT !.n = @ + 1, !.lp = @ + 1]

(* Get: LinearFind; a record of value 0 counts as absent. *)
SGet(bk, key, notFound) ==
    LET f == LinearFind(bk, key)
    IN  IF f.found /\ bk.rec[f.pos].v # 0 THEN bk.rec[f.pos].v ELSE notFound

(* Update: Find (binary, over the first entries slots); SetValue. *)
SUpdate(bk, key, val) ==
    LET f == SFind(bk, key)
    IN  IF f.found /\ bk.rec[f.pos].v # 0
        THEN [ok |-> TRUE, bk |-> [bk EXCEPT !.rec[f.pos].v = val]]
        ELSE [ok |-> FALSE, bk |-> bk]

(* remove_key: the loop runs while records[i].key != 0 and i < last_pos, *)
(* so it stops at the first hole. *)
RemovePos(bk, key) ==
    LET stop == Min({i \in 0..bk.lp : i = bk.lp \/ At(bk, i).k = 0})
        hits == {i \in 0..stop - 1 : bk.rec[i].k = key}
    IN  IF hits = {} THEN -1 ELSE Min(hits)

(* Delete: remove_key sets the record to zero; entries--. *)
SDelete(bk, key) ==
    LET p == RemovePos(bk, key)
    IN  IF p < 0 THEN [ok |-> FALSE, bk |-> bk]
        ELSE [ok |-> TRUE, bk |-> [bk EXCEPT !.rec[p] = Hole, !.n = @ - 1]]

(* Expand_'s copy loop: the non-hole records from m to last_pos - 1 go   *)
(* into next through PutBufKV, each followed by entries++, last_pos++.   *)
RECURSIVE MoveUpper(_, _, _)
MoveUpper(bk, nb, i) ==
    IF i >= bk.lp THEN nb
    ELSE IF At(bk, i).k = 0 THEN MoveUpper(bk, nb, i + 1)
    ELSE MoveUpper(bk, SPut(nb, At(bk, i).k, At(bk, i).v), i + 1)

(* Fault model: split_key taken one record too low, from the last record *)
(* that stays. *)
SExpandKeyBelow(bk) ==
    LET m  == bk.lp \div 2
        nb == MoveUpper(bk, SEmpty, m)
    IN  [old      |-> [bk EXCEPT !.rec[m].v = 0, !.n = @ - nb.n, !.lp = m],
         new      |-> nb,
         splitKey |-> At(bk, m - 1).k]

(* Expand_: split_key = key(last_pos / 2) and m = ceil(last_pos / 2),    *)
(* both of the integer last_pos / 2; the upper records move to a new    *)
(* bucket, records[m].ptr is zeroed, entries drops by what moved and     *)
(* last_pos becomes m.                                                    *)
SExpand(bk) ==
    LET m  == bk.lp \div 2
        nb == MoveUpper(bk, SEmpty, m)
    IN  [old      |-> [bk EXCEPT !.rec[m].v = 0, !.n = @ - nb.n, !.lp = m],
         new      |-> nb,
         splitKey |-> At(bk, m).k]

=============================================================================
