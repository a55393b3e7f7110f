---------------------------- MODULE MC_SortBucket ----------------------------
(***************************************************************************)
(* A PointerBEntry whose buckets are SortBuncket (the typedef at          *)
(* pointer_bentry.h:2055 instead of 2056), with the sizes scaled down:   *)
(* buckets of Cap records and EntryCap eentries.  MCNext leaves Delete   *)
(* out: without it no record becomes a hole, which is the case in which  *)
(* SortBuncket is correct; MC_SortBucketDel adds it.                      *)
(***************************************************************************)
EXTENDS SortBucket

CONSTANTS Keys, Vals, NotFound, EntryCap, MaxBuckets, FreshPuts

VARIABLES ents, bkt, nbkt, pend, ret, absDict

PB == INSTANCE PointerBEntry WITH
        BkNew <- SEmpty, BkFull <- SFull, BkPut <- SPut,
        BkGet <- LAMBDA bk, key : SGet(bk, key, NotFound),
        BkUpdate <- SUpdate, BkDelete <- SDelete, BkSplit <- SExpand

(* absDict is PB!Contents as of the current state (see MC_LETree). *)
AbsStep == absDict' = PB!Contents'

MCInit == PB!Init /\ absDict = PB!Contents

MCNext ==
    \/ \E k \in Keys : PB!Get(k) /\ AbsStep
    \/ \E k \in Keys, v \in Vals : PB!Put(k, v) /\ AbsStep
    \/ \E k \in Keys, v \in Vals : PB!Update(k, v) /\ AbsStep
    \/ PB!PutInBucket /\ AbsStep
    \/ PB!SplitBucket /\ AbsStep
    \/ PB!PutFull /\ AbsStep

MCSpec == MCInit /\ [][MCNext]_<<PB!vars, absDict>> /\ WF_<<PB!vars>>(PB!PutStep)

StateView == <<ents, bkt, nbkt, pend>>

Recs == [k : Keys \cup {0}, v : Vals \cup {0}]

(* Every bucket is a SortBuncket whose last_pos stays within its records *)
(* array and whose entries count does not exceed last_pos.               *)
TypeOK ==
    /\ nbkt \in 1..MaxBuckets
    /\ \A b \in 1..MaxBuckets :
          /\ bkt[b].rec \in [0..Cap - 1 -> Recs]
          /\ bkt[b].lp \in 0..Cap
          /\ bkt[b].n \in 0..bkt[b].lp

(* The records of every bucket below last_pos, holes aside, are in        *)
(* strictly ascending key order: LinearFind (Get) stops at the first key *)
(* not below the target, and Find (Update) bisects, so both rely on it.  *)
BucketsSorted ==
    \A b \in 1..nbkt :
       \A i, j \in 0..bkt[b].lp - 1 :
          (i < j /\ At(bkt[b], i).k # 0 /\ At(bkt[b], j).k # 0)
             => At(bkt[b], i).k < At(bkt[b], j).k

(* The entry, read with Get, implements the key-value map: Put, Get,     *)
(* Update and Delete of SortBuncket behave as KVStore says, and a split   *)
(* changes nothing Get sees.                                              *)
KV == INSTANCE KVStore WITH dict <- absDict

KVRefinement == KV!Spec

=============================================================================
