--------------------------- MODULE MC_LETreeScan ---------------------------
(***************************************************************************)
(* MC_LETree with letree::Scan added: a scan from any key, asking for any *)
(* number of pairs up to one more than there are keys, between the other *)
(* operations.  KVStore's Scan is what spec.md promises of it.           *)
(***************************************************************************)
EXTENDS MC_LETree

MCNextScan ==
    \/ MCNext
    \/ \E k \in Keys, len \in KV!ScanLens : Scan(k, len) /\ AbsStep

MCSpecScan == MCInit /\ [][MCNextScan]_<<vars, absDict>> /\ WF_vars(PutStep)

=============================================================================
