--------------------------- MODULE MC_Algorithms ---------------------------
(***************************************************************************)
(* The pure algorithms in one run: every input of MC_UnSortBucket (a      *)
(* bucket for Expand_), of MC_LearnedSearch (a sorted array of entry      *)
(* keys), of MC_ALevel (a combo-tree BLevel and span) and of MC_CLevel (an *)
(* insertion order) is an initial state, the other variables holding      *)
(* NoInput, and each check applies to the states that carry its input.    *)
(***************************************************************************)
CONSTANTS BucketCap, SplitKeys, SplitVals, SmallLen, SmallMax, LongLens, NoInput,
          RouteMaxKey, RouteMaxLen, RouteSpans, CLevelEntries, InsertKeys

VARIABLES bk, arr, rt, order

Split  == INSTANCE MC_UnSortBucket
Search == INSTANCE MC_LearnedSearch
Route  == INSTANCE MC_ALevel
Tree   == INSTANCE MC_CLevel WITH MaxEntries <- CLevelEntries

Init ==
    \/ Split!Init /\ arr = NoInput /\ rt = NoInput /\ order = NoInput
    \/ Search!Init /\ bk = NoInput /\ rt = NoInput /\ order = NoInput
    \/ Route!Init /\ bk = NoInput /\ arr = NoInput /\ order = NoInput
    \/ Tree!Init /\ bk = NoInput /\ arr = NoInput /\ rt = NoInput

Next == UNCHANGED <<bk, arr, rt, order>>

(* UnSortBuncket::Expand_ partitions every bucket exactly at split_key   *)
(* (SplitPartitions of MC_UnSortBucket).                                  *)
SplitPartitions == bk # NoInput => Split!SplitPartitions

(* group::find_entry returns the last entry whose key is <= the key from *)
(* any prediction (FindEntryIsUpperBound of MC_LearnedSearch).            *)
FindEntryIsUpperBound == arr # NoInput => Search!FindEntryIsUpperBound

(* PointerBEntry::Find_pos returns the last slot whose key is <= the key *)
(* (FindPosIsUpperBound of MC_LearnedSearch).                             *)
FindPosIsUpperBound == arr # NoInput => Search!FindPosIsUpperBound

(* The combo-tree's ALevel range and BLevel::Find_ route every key to the *)
(* last entry whose key is <= it (ALevelRoutes of MC_ALevel).             *)
ALevelRoutes == rt # NoInput => Route!ALevelRoutes

(* CLevel's leaf and index splits keep a sound B+-tree for every order of *)
(* insertion (CLevelBuildSound of MC_CLevel).                             *)
CLevelBuildSound == order # NoInput => Tree!CLevelBuildSound

=============================================================================
