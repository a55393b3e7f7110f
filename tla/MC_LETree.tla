----------------------------- MODULE MC_LETree -----------------------------
(***************************************************************************)
(* The single-threaded letree with the code's sizes scaled down: buckets  *)
(* of BucketCap records, PointerBEntries of EntryCap slots, groups that   *)
(* expand the tree past MaxEntryCount eentries and hold MinEntryCount     *)
(* after it, and linear models sampling every LinearSample-th key, so     *)
(* that bucket splits, group expansions and tree expansions all happen    *)
(* with a handful of keys.                                                *)
(***************************************************************************)
EXTENDS LETree

(* absDict holds Contents(Tree), the map the tree represents, as of the  *)
(* current state: the refinement mapping below.  It is carried as a      *)
(* variable so that TLC evaluates Contents on the next state's values    *)
(* (Tree') rather than priming the whole lookup; it is a function of the *)
(* other variables, so it adds no states and restricts no step.          *)
VARIABLE absDict

TreeAfter == [bkt |-> bkt', grp |-> grp', root |-> root']

AbsStep == absDict' = Contents(TreeAfter)

MCInit == Init /\ absDict = Contents(Tree)

(* Next of LETree, one disjunct per action, each also updating absDict. *)
MCNext ==
    \/ \E k \in Keys : Get(k) /\ AbsStep
    \/ \E k \in Keys : Delete(k) /\ AbsStep
    \/ \E k \in Keys, v \in Vals : Put(k, v) /\ AbsStep
    \/ \E k \in Keys, v \in Vals : Update(k, v) /\ AbsStep
    \/ BucketPut /\ AbsStep
    \/ BucketSplit /\ AbsStep
    \/ GroupExpand /\ AbsStep
    \/ ExpandTree /\ AbsStep
MCSpec == MCInit /\ [][MCNext]_<<vars, absDict>> /\ WF_vars(PutStep)

(* MCNext with letree::bulk_load, called at any time with at least       *)
(* min_entry_count pairs (MC_LETreeBulk loads fewer).                     *)
MCNextBulk ==
    \/ MCNext
    \/ \E S \in SUBSET Keys : \E f \in [S -> Vals] :
          Cardinality(S) >= MinEntryCount /\ BulkLoad(S, f) /\ AbsStep

MCSpecBulk == MCInit /\ [][MCNextBulk]_<<vars, absDict>> /\ WF_vars(PutStep)

(* ret only records what the last operation returned and no action reads *)
(* it, and absDict is determined by the rest: states that differ only in *)
(* them have the same futures, so they are explored once.  Properties   *)
(* about ret are checked on every transition.                            *)
StateView == <<bkt, nbkt, grp, root, pend>>

(* The tree implements the key-value map of KVStore.  Reading the map off *)
(* the tree with letree::Get (fast path, then slow path), every Put,     *)
(* Update, Delete and Get changes it, and reports, what KVStore says, and *)
(* every bucket split, group expansion and tree expansion inside a Put   *)
(* leaves it unchanged.                                                   *)
KV == INSTANCE KVStore WITH dict <- absDict

KVRefinement == KV!Spec

=============================================================================
