---------------------------- MODULE PointerBEntry ----------------------------
(***************************************************************************)
(* PointerBEntry (src/src/pointer_bentry.h 2120-2555), the B-level entry  *)
(* of up to entry_count = 4 eentries [entry_key, bucket pointer], over    *)
(* any of the C-level bucket kinds that the typedef of buncket_t          *)
(* (pointer_bentry.h 2054-2056) can select.  The bucket kind is given by *)
(* the operator constants Bk*, so that each kind is checked in the same  *)
(* caller: Put with its split-and-retry loop, Get, Update and Delete,    *)
(* each routed by Find_pos.                                               *)
(*                                                                         *)
(* ents is the sequence of eentries in slot order (ents[i + 1] is        *)
(* entrys[i]), bkt the buckets by allocation order.  A bucket that is    *)
(* not allocated yet is BkNew: the allocator hands out zeroed PM.         *)
(***************************************************************************)
EXTENDS Integers, SequencesExt

CONSTANTS
    Keys, Vals, NotFound,
    EntryCap,        \* entry_count = 4
    MaxBuckets,      \* bound on the buckets MemControl hands out
    FreshPuts,       \* Put is only called on keys Get does not find
    BkNew,           \* the bucket constructor buncket_t(key, prefix_len)
    BkFull(_),       \* Put of the bucket would return Full
    BkPut(_, _, _),  \* the bucket after a Put that returned OK
    BkGet(_, _),     \* what Get returns: the value, or NotFound
    BkUpdate(_, _, _),   \* [ok, bk]: Update's result and the bucket after it
    BkDelete(_, _),      \* [ok, bk]: Delete's result and the bucket after it
    BkSplit(_)       \* Expand_: [old, new, splitKey]

LS == INSTANCE LearnedSearch

VARIABLES
    ents,   \* entrys[0 .. buf.entries - 1] as [key |-> entry_key, b |-> bucket]
    bkt,    \* bucket number -> bucket
    nbkt,   \* buckets allocated so far
    pend,   \* the Put in progress, or NoPut
    ret     \* what the last operation returned

vars == <<ents, bkt, nbkt, pend, ret>>

NoPut == [k |-> 0, v |-> 0]
Idle == pend = NoPut

Result(op, k, res) == [op |-> op, k |-> k, res |-> res]

(* The eentry Find_pos picks for key. *)
Slot(key) == LS!FindPos[[i \in 1..Len(ents) |-> ents[i].key], key]
BucketOf(key) == ents[Slot(key) + 1].b

(* group::Init's PointerBEntry(0, 8, mem): one eentry of key 0 with a new *)
(* bucket.                                                                *)
Init ==
    /\ ents = <<[key |-> 0, b |-> 1]>>
    /\ bkt  = [i \in 1..MaxBuckets |-> BkNew]
    /\ nbkt = 1
    /\ pend = NoPut
    /\ ret  = Result("none", 0, NotFound)

(* A Put is called; its steps follow. *)
Put(k, v) ==
    /\ Idle
    /\ nbkt < MaxBuckets
    /\ FreshPuts => BkGet(bkt[BucketOf(k)], k) = NotFound
    /\ pend' = [k |-> k, v |-> v]
    /\ UNCHANGED <<ents, bkt, nbkt, ret>>

(* The bucket takes the record; entry_key (entrys[0]'s) is lowered to the *)
(* key if it is larger.                                                  *)
PutInBucket ==
    LET p == Slot(pend.k)
        b == ents[p + 1].b
    IN  /\ ~Idle
        /\ ~BkFull(bkt[b])
        /\ bkt' = [bkt EXCEPT ![b] = BkPut(@, pend.k, pend.v)]
        /\ ents' = IF ents[1].key > pend.k THEN [ents EXCEPT ![1].key = pend.k] ELSE ents
        /\ pend' = NoPut
        /\ ret' = Result("put", pend.k, TRUE)
        /\ UNCHANGED nbkt

(* The bucket is Full and a slot is free: Expand_ splits it, the slots   *)
(* after pos move up, [split_key, next] goes to pos + 1, and Put retries. *)
SplitBucket ==
    LET p == Slot(pend.k)
        b == ents[p + 1].b
        s == BkSplit(bkt[b])
    IN  /\ ~Idle
        /\ BkFull(bkt[b])
        /\ Len(ents) < EntryCap
        /\ nbkt < MaxBuckets
        /\ bkt'  = [bkt EXCEPT ![b] = s.old, ![nbkt + 1] = s.new]
        /\ nbkt' = nbkt + 1
        /\ ents' = InsertAt(ents, p + 2, [key |-> s.splitKey, b |-> nbkt + 1])
        /\ UNCHANGED <<pend, ret>>

(* The bucket is Full and every slot is used: Put returns Full to its    *)
(* caller (group::Put), having changed nothing.                          *)
PutFull ==
    LET b == BucketOf(pend.k)
    IN  /\ ~Idle
        /\ BkFull(bkt[b])
        /\ Len(ents) = EntryCap
        /\ pend' = NoPut
        /\ UNCHANGED <<ents, bkt, nbkt, ret>>

PutStep == PutInBucket \/ SplitBucket \/ PutFull

(* Get, Update and Delete: Find_pos, then the bucket's operation. *)
Get(k) ==
    /\ Idle
    /\ ret' = Result("get", k, BkGet(bkt[BucketOf(k)], k))
    /\ UNCHANGED <<ents, bkt, nbkt, pend>>

Update(k, v) ==
    LET b == BucketOf(k)
        u == BkUpdate(bkt[b], k, v)
    IN  /\ Idle
        /\ bkt' = [bkt EXCEPT ![b] = u.bk]
        /\ ret' = Result("upd", k, u.ok)
        /\ UNCHANGED <<ents, nbkt, pend>>

Delete(k) ==
    LET b == BucketOf(k)
        d == BkDelete(bkt[b], k)
    IN  /\ Idle
        /\ bkt' = [bkt EXCEPT ![b] = d.bk]
        /\ ret' = Result("del", k, d.ok)
        /\ UNCHANGED <<ents, nbkt, pend>>

Next ==
    \/ \E k \in Keys : Get(k) \/ Delete(k)
    \/ \E k \in Keys, v \in Vals : Put(k, v) \/ Update(k, v)
    \/ PutStep

Spec == Init /\ [][Next]_vars /\ WF_vars(PutStep)

(* The map the entry represents, read with Get. *)
Contents == [k \in Keys |-> BkGet(bkt[BucketOf(k)], k)]

=============================================================================
