--------------------------- MODULE MC_LETreeBulk ---------------------------
(***************************************************************************)
(* MC_LETree with letree::bulk_load of any non-empty set of pairs, as      *)
(* LetDB::Bulk_load passes the workload's size through.  absDict is not   *)
(* recomputed after a load: on a tree without groups every lookup would   *)
(* read group_space[-1].                                                  *)
(***************************************************************************)
EXTENDS MC_LETree

MCNextAnyBulk ==
    \/ MCNext
    \/ \E S \in SUBSET Keys \ {{}} : \E f \in [S -> Vals] :
          BulkLoad(S, f) /\ UNCHANGED absDict

MCSpecAnyBulk == MCInit /\ [][MCNextAnyBulk]_<<vars, absDict>> /\ WF_vars(PutStep)

=============================================================================
