-------------------------- MODULE MC_SortBucketDel --------------------------
(***************************************************************************)
(* MC_SortBucket with Delete: the runs that show what the holes left by   *)
(* SortBuncket::remove_key (USE_DELETE_0) do to Put, Get and Delete.      *)
(***************************************************************************)
EXTENDS MC_SortBucket

MCNextDel == MCNext \/ \E k \in Keys : PB!Delete(k) /\ AbsStep

MCSpecDel == MCInit /\ [][MCNextDel]_<<PB!vars, absDict>> /\ WF_<<PB!vars>>(PB!PutStep)

=============================================================================
