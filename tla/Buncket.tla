------------------------------- MODULE Buncket -------------------------------
(***************************************************************************)
(* Buncket (src/src/pointer_bentry.h 455-857, the branch compiled when    *)
(* USET_PREFIX_COMPRESS is not defined, line 39), the bucket that the     *)
(* typedef at pointer_bentry.h:2054 can select: records sit in free slots *)
(* of buf, a bitmap marks the used slots, and total_indexs lists the used *)
(* slots in key order.                                                    *)
(*                                                                         *)
(* A bucket value is [buf |-> [0..BitScan-1 -> [k, v]], bits |-> the set  *)
(* bits of bitmap, idx |-> total_indexs[0 .. entries - 1] as a sequence]; *)
(* buf[Cap ..] is the memory after the array, which a slot that           *)
(* find_first_zero_bit finds past max_entries would be written to.        *)
(* entries is Len(idx): every step that changes entries moves exactly    *)
(* the first entries indexes (the memmoves of Put and Delete), and no    *)
(* code reads total_indexs at or past entries.                            *)
(***************************************************************************)
EXTENDS Integers, SequencesExt

CONSTANTS
    Cap,      \* max_entries = min((256 - 32) / 16, 16) = 14
    BitScan   \* find_first_zero_bit(bitmap, 40) looks at 40 bits

ASSUME Cap >= 2 /\ BitScan >= Cap

Zero == [k |-> 0, v |-> 0]

(* The constructor Buncket(key, prefix_len) on zeroed memory. *)
BEmpty == [buf |-> [i \in 0..BitScan - 1 |-> Zero], bits |-> {}, idx |-> <<>>]

Entries(bk) == Len(bk.idx)

(* key(i) and value(i): the record of slot total_indexs[i]. *)
KeyAt(bk, i) == bk.buf[bk.idx[i + 1]].k
ValAt(bk, i) == bk.buf[bk.idx[i + 1]].v

(* Find: binary search over key(0 .. entries - 1). *)
RECURSIVE UFind(_, _, _, _)
UFind(bk, t, l, r) ==
    IF l > r THEN [pos |-> l, found |-> FALSE]
    ELSE LET m == (l + r) \div 2
         IN  IF KeyAt(bk, m) = t THEN [pos |-> m, found |-> TRUE]
             ELSE IF KeyAt(bk, m) > t THEN UFind(bk, t, l, m - 1)
             ELSE UFind(bk, t, m + 1, r)

NFind(bk, t) == UFind(bk, t, 0, Entries(bk) - 1)

(* Present: Find hits the key and its value is not 0. *)
NHas(bk, t) == NFind(bk, t).found /\ ValAt(bk, NFind(bk, t).pos) # 0

(* Fault model: the free slot counted from 1. *)
FirstZeroFromOne(bits) == Min({i \in 0..BitScan - 1 : i \notin bits}) + 1

(* find_first_zero_bit(bitmap, 40). *)
FirstZero(bits) == Min({i \in 0..BitScan - 1 : i \notin bits})

(* Fault model: the Full test off by one. *)
NFullPastCap(bk) == Entries(bk) > Cap

(* PutBufKV returns Full when entries >= max_entries. *)
NFull(bk) == Entries(bk) >= Cap

(* Fault model: Put without the memmove, appending the slot to the end. *)
NPutAppend(bk, key, val) ==
    LET slot == FirstZero(bk.bits)
    IN  [buf  |-> [bk.buf EXCEPT ![slot] = [k |-> key, v |-> val]],
         bits |-> bk.bits \cup {slot},
         idx  |-> Append(bk.idx, slot)]

(* Put, when Find misses the key (it returns Exist otherwise) and the    *)
(* bucket is not Full: PutBufKV writes the record into the first free    *)
(* slot and sets its bit; Put moves total_indexs[pos ..] up one and puts *)
(* the slot at pos.                                                       *)
NPut(bk, key, val) ==
    LET slot == FirstZero(bk.bits)
        pos  == NFind(bk, key).pos
    IN  [buf  |-> [bk.buf EXCEPT ![slot] = [k |-> key, v |-> val]],
         bits |-> bk.bits \cup {slot},
         idx  |-> InsertAt(bk.idx, pos + 1, slot)]

NGet(bk, key, notFound) ==
    IF NHas(bk, key) THEN ValAt(bk, NFind(bk, key).pos) ELSE notFound

(* Fault model: SetValue given the sorted position instead of its slot. *)
NUpdateAtPos(bk, key, val) ==
    IF NHas(bk, key)
    THEN [ok |-> TRUE, bk |-> [bk EXCEPT !.buf[NFind(bk, key).pos].v = val]]
    ELSE [ok |-> FALSE, bk |-> bk]

(* Update: SetValue(total_indexs[pos], value). *)
NUpdate(bk, key, val) ==
    IF NHas(bk, key)
    THEN [ok |-> TRUE, bk |-> [bk EXCEPT !.buf[bk.idx[NFind(bk, key).pos + 1]].v = val]]
    ELSE [ok |-> FALSE, bk |-> bk]

(* Fault model: Delete dropping the index but leaving the slot's bit set. *)
NDeleteKeepBit(bk, key) ==
    LET p == NFind(bk, key).pos
    IN  IF NHas(bk, key)
        THEN [ok |-> TRUE, bk |-> [bk EXCEPT !.idx = RemoveAt(@, p + 1)]]
        ELSE [ok |-> FALSE, bk |-> bk]

(* Delete: DeletePos clears the slot's bit, total_indexs[pos + 1 ..]     *)
(* moves down one, entries--.  The record stays in buf.                  *)
NDelete(bk, key) ==
    LET p == NFind(bk, key).pos
    IN  IF NHas(bk, key)
        THEN [ok |-> TRUE, bk |-> [bk EXCEPT !.bits = @ \ {bk.idx[p + 1]},
                                             !.idx  = RemoveAt(@, p + 1)]]
        ELSE [ok |-> FALSE, bk |-> bk]

(* Expand_'s copy loop: next->Put(key(i), value(i)) for i = entries / 2  *)
(* to entries - 1. *)
RECURSIVE PutUpper(_, _, _)
PutUpper(bk, nb, i) ==
    IF i >= Entries(bk) THEN nb
    ELSE PutUpper(bk, NPut(nb, KeyAt(bk, i), ValAt(bk, i)), i + 1)

(* Expand_: split_key = key(entries / 2); the upper half is put into a    *)
(* new bucket, its slots' bits are cleared, entries becomes entries / 2. *)
NExpand(bk) ==
    LET h == Entries(bk) \div 2
    IN  [old      |-> [bk EXCEPT !.bits = @ \ {bk.idx[i] : i \in h + 1..Entries(bk)},
                                 !.idx  = SubSeq(@, 1, h)],
         new      |-> PutUpper(bk, BEmpty, h),
         splitKey |-> KeyAt(bk, h)]

=============================================================================
