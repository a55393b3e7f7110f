---------------------------- MODULE MC_LETreeMT ----------------------------
(***************************************************************************)
(* LETreeMT for TLC: threads are model values and interchangeable, so     *)
(* the runs that check only invariants explore one state per permutation *)
(* of them.                                                               *)
(***************************************************************************)
EXTENDS LETreeMT, TLC

ThreadSymmetry == Permutations(Threads)

=============================================================================
