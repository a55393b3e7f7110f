-------------------------- MODULE MC_UnSortBucket --------------------------
(***************************************************************************)
(* Every bucket of n distinct keys, 2 <= n <= BucketCap, in every record  *)
(* order, is an input of UnSortBuncket::Expand_ (which the code calls on  *)
(* full buckets of 15; n of both parities exercises entries / 2).         *)
(***************************************************************************)
EXTENDS UnSortBucket, FiniteSets

CONSTANTS SplitKeys, SplitVals

VARIABLE bk

SplitInputs ==
    UNION { { [rec |-> [i \in 1..BucketCap |->
                          IF i <= n THEN [k |-> ks[i], v |-> vs[i]] ELSE EmptyRec],
               n   |-> n] :
              ks \in {f \in [1..n -> SplitKeys] : \A i, j \in 1..n : i # j => f[i] # f[j]},
              vs \in [1..n -> SplitVals] } : n \in 2..BucketCap }

Init == bk \in SplitInputs
Next == UNCHANGED bk

(* Expand_ splits a full bucket into two that together hold exactly its   *)
(* records, each once: the old bucket keeps the entries/2 smallest keys, *)
(* all below split_key, and the new one holds the rest, all >= split_key. *)
(* The removal loop rewrites records it later reads keys from, so this is *)
(* what a slip in its idx bookkeeping would break.                       *)
SplitPartitions ==
    LET r == Expand_[bk]
    IN  /\ LiveRecs(r.old) \cup LiveRecs(r.new) = LiveRecs(bk)
        /\ Cardinality(LiveRecs(r.old)) = r.old.n
        /\ Cardinality(LiveRecs(r.new)) = r.new.n
        /\ r.old.n = bk.n \div 2
        /\ \A x \in LiveKeys(r.old) : x < r.splitKey
        /\ \A y \in LiveKeys(r.new) : y >= r.splitKey

=============================================================================
