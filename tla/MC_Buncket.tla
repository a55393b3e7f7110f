----------------------------- MODULE MC_Buncket -----------------------------
(***************************************************************************)
(* A PointerBEntry whose buckets are Buncket (the typedef at              *)
(* pointer_bentry.h:2054), with buckets of Cap slots and EntryCap         *)
(* eentries, under Put, Get, Update, Delete and splits.                   *)
(***************************************************************************)
EXTENDS Buncket

CONSTANTS Keys, Vals, NotFound, EntryCap, MaxBuckets, FreshPuts

VARIABLES ents, bkt, nbkt, pend, ret, absDict

PB == INSTANCE PointerBEntry WITH
        BkNew <- BEmpty, BkFull <- NFull, BkPut <- NPut,
        BkGet <- LAMBDA bk, key : NGet(bk, key, NotFound),
        BkUpdate <- NUpdate, BkDelete <- NDelete, BkSplit <- NExpand

AbsStep == absDict' = PB!Contents'

MCInit == PB!Init /\ absDict = PB!Contents

MCNext ==
    \/ \E k \in Keys : PB!Get(k) /\ AbsStep
    \/ \E k \in Keys : PB!Delete(k) /\ AbsStep
    \/ \E k \in Keys, v \in Vals : PB!Put(k, v) /\ AbsStep
    \/ \E k \in Keys, v \in Vals : PB!Update(k, v) /\ AbsStep
    \/ PB!PutInBucket /\ AbsStep
    \/ PB!SplitBucket /\ AbsStep
    \/ PB!PutFull /\ AbsStep

MCSpec == MCInit /\ [][MCNext]_<<PB!vars, absDict>> /\ WF_<<PB!vars>>(PB!PutStep)

StateView == <<ents, bkt, nbkt, pend>>

(* Every bucket's used slots lie within the max_entries slots of buf. *)
TypeOK ==
    /\ nbkt \in 1..MaxBuckets
    /\ \A b \in 1..MaxBuckets :
          /\ bkt[b].buf \in [0..BitScan - 1 -> [k : Keys \cup {0}, v : Vals \cup {0}]]
          /\ bkt[b].bits \subseteq 0..Cap - 1
          /\ bkt[b].idx \in Seq(0..Cap - 1)

(* The bitmap and total_indexs agree: the set bits are exactly the slots *)
(* total_indexs[0 .. entries - 1] names, each once.  PutBufKV picks a    *)
(* slot by the bitmap, so a bit left set leaks a slot and a bit cleared  *)
(* too early lets a later Put overwrite a live record.                   *)
BitmapMatchesIndex ==
    \A b \in 1..nbkt :
       /\ bkt[b].bits = Range(bkt[b].idx)
       /\ Len(bkt[b].idx) = Cardinality(bkt[b].bits)

(* total_indexs lists the records in strictly ascending key order, which *)
(* Find's bisection relies on. *)
IndexSorted ==
    \A b \in 1..nbkt :
       \A i \in 0..Entries(bkt[b]) - 2 : KeyAt(bkt[b], i) < KeyAt(bkt[b], i + 1)

(* The entry, read with Get, implements the key-value map: Put, Get,     *)
(* Update and Delete of Buncket behave as KVStore says, and a split      *)
(* changes nothing Get sees.                                              *)
KV == INSTANCE KVStore WITH dict <- absDict

KVRefinement == KV!Spec

=============================================================================
