--------------------------- MODULE MC_BucketKinds ---------------------------
(***************************************************************************)
(* The two bucket kinds that the typedef of buncket_t can select instead  *)
(* of UnSortBuncket, each under the same PointerBEntry caller: kind is    *)
(* fixed in the initial state, and from then on only that kind's harness *)
(* (MC_SortBucket or MC_Buncket) takes steps.                             *)
(***************************************************************************)
CONSTANTS SortKeys, BitmapKeys, Vals, NotFound, Cap, BitScan, EntryCap, MaxBuckets, FreshPuts

VARIABLES kind, ents, bkt, nbkt, pend, ret, absDict

Sort   == INSTANCE MC_SortBucket WITH Keys <- SortKeys
Bitmap == INSTANCE MC_Buncket WITH Keys <- BitmapKeys

vars == <<kind, ents, bkt, nbkt, pend, ret, absDict>>

Init ==
    \/ kind = "sort" /\ Sort!MCInit
    \/ kind = "bitmap" /\ Bitmap!MCInit

Next ==
    /\ UNCHANGED kind
    /\ \/ kind = "sort" /\ Sort!MCNext
       \/ kind = "bitmap" /\ Bitmap!MCNext

(* A Put in progress runs to completion, whichever the bucket kind. *)
Spec ==
    /\ Init /\ [][Next]_vars
    /\ WF_vars(kind = "sort" /\ Sort!PB!PutStep)
    /\ WF_vars(kind = "bitmap" /\ Bitmap!PB!PutStep)

StateView == <<kind, ents, bkt, nbkt, pend>>

(* Every bucket is well formed for its kind: a SortBuncket's last_pos     *)
(* within its records and entries <= last_pos; a Buncket's used slots     *)
(* within max_entries.                                                    *)
TypeOK ==
    /\ kind \in {"sort", "bitmap"}
    /\ kind = "sort" => Sort!TypeOK
    /\ kind = "bitmap" => Bitmap!TypeOK

(* SortBuncket: the records below last_pos, holes aside, ascend, which   *)
(* LinearFind (Get) and Find (Update) rely on.                            *)
BucketsSorted == kind = "sort" => Sort!BucketsSorted

(* Buncket: the bitmap's set bits are exactly the slots total_indexs     *)
(* names, each once; a stale bit makes a later Put skip a free slot, a    *)
(* missing one makes it overwrite a live record.                          *)
BitmapMatchesIndex == kind = "bitmap" => Bitmap!BitmapMatchesIndex

(* Buncket: total_indexs lists its slots in ascending key order, which    *)
(* Find's bisection relies on.                                            *)
IndexSorted == kind = "bitmap" => Bitmap!IndexSorted

(* Either kind, read with Get, implements KVStore over its keys: its    *)
(* Put, Get, Update and (for Buncket) Delete behave as KVStore says, and *)
(* a split changes nothing Get sees.  This is KVStore's Spec (Init and   *)
(* [][Next]_vars) of the kind's harness.                                  *)
KVRefinement ==
    /\ kind = "sort" => Sort!KV!Init
    /\ kind = "bitmap" => Bitmap!KV!Init
    /\ [][/\ kind = "sort" => [Sort!KV!Next]_(Sort!KV!vars)
          /\ kind = "bitmap" => [Bitmap!KV!Next]_(Bitmap!KV!vars)]_vars

=============================================================================
