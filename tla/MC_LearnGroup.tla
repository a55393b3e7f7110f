---------------------------- MODULE MC_LearnGroup ----------------------------
(***************************************************************************)
(* The learned-group index with its sizes scaled down: buckets of         *)
(* BucketCap records, PointerBEntries of EntryCap eentries and groups of  *)
(* MaxEntryCounts PointerBEntries, so that bucket splits, merges of       *)
(* neighbouring PointerBEntries and ExpandAllGroup all happen with a      *)
(* handful of keys.                                                       *)
(***************************************************************************)
EXTENDS LearnGroup

(* The key sets RootModel::Load is called with. *)
CONSTANT LoadSets

ASSUME LoadSets \subseteq SUBSET Keys \ {{}}

(* absDict holds Contents, the map the index represents: the refinement  *)
(* mapping.  It is a function of the other variables.                     *)
VARIABLE absDict

AbsStep == absDict' = ContentsOf(bkt', grp', model')

MCInit == Init /\ absDict = Contents

(* Next of LearnGroup, one disjunct per action, each updating absDict. *)
MCNext ==
    \/ \E S \in LoadSets : \E f \in [S -> Vals] : Load(S, f) /\ AbsStep
    \/ \E k \in Keys : Get(k) /\ AbsStep
    \/ \E k \in Keys : Delete(k) /\ AbsStep
    \/ \E k \in Keys, v \in Vals : Put(k, v) /\ AbsStep
    \/ \E k \in Keys, v \in Vals : Update(k, v) /\ AbsStep
    \/ \E sp \in SegPreds : BucketPut(sp) /\ AbsStep
    \/ \E sp \in SegPreds : BucketSplit(sp) /\ AbsStep
    \/ \E sp \in SegPreds : MergeLeft(sp) /\ AbsStep
    \/ \E sp \in SegPreds : MergeRight(sp) /\ AbsStep
    \/ \E sp \in SegPreds : ExpandAllGroup(sp) /\ AbsStep

MCSpec == MCInit /\ [][MCNext]_<<vars, absDict>> /\ WF_vars(PutStep)

(* ret only records what the last operation returned and no action reads *)
(* it, model is trained on the groups' min_keys, which only change when  *)
(* it is retrained, and absDict is determined by the rest: states that   *)
(* differ only in them have the same futures, so they are explored once. *)
(* Properties about them are checked on every transition.                *)
StateView == <<bkt, nbkt, grp, cap, pend>>

KV == INSTANCE KVStore WITH dict <- absDict

KVRefinement == KV!Spec

=============================================================================
