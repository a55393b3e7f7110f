-------------------------- MODULE MC_LearnedSearch --------------------------
(***************************************************************************)
(* The searches of LearnedSearch against their reference: over a sorted   *)
(* array of distinct entry keys, the index of the last key <= the key     *)
(* searched for, or 0 when there is none.                                 *)
(*                                                                         *)
(* Inputs: every strictly increasing array of up to SmallLen keys from    *)
(* 0..SmallMax, and long arrays (multiples of 3, of the lengths in        *)
(* LongLens) on which the doubling loop leaves a range of 6 or more, so   *)
(* that binary_search_upper_bound runs, not only the linear search.  Each *)
(* input is a state; the checks quantify over every prediction and key.   *)
(***************************************************************************)
EXTENDS LearnedSearch, FiniteSets

CONSTANTS SmallLen, SmallMax, LongLens

VARIABLE arr

(* The elements of a finite set of integers in increasing order. *)
Sorted(S) ==
    [i \in 1..Cardinality(S) |-> CHOOSE x \in S : Cardinality({y \in S : y < x}) = i - 1]

Arrays ==
    {Sorted(S) : S \in {T \in SUBSET (0..SmallMax) : Cardinality(T) \in 1..SmallLen}}
    \cup {[i \in 1..n |-> 3 * i] : n \in LongLens}

Init == arr \in Arrays
Next == UNCHANGED arr

(* The reference: the greatest 0-based index whose key is <= key, else 0. *)
UpperBoundRef(s, key) ==
    LET le == {i \in 0..Len(s) - 1 : At(s, i) <= key}
    IN  IF le = {} THEN 0 ELSE CHOOSE i \in le : \A j \in le : j <= i

KeysAround(s) == -1..(s[Len(s)] + 2)

(* group::find_entry finds the B-level entry a key belongs to from any   *)
(* prediction of the model, however wrong, including predictions beyond  *)
(* either end that it clamps: the doubling loops, the choice between the *)
(* linear and binary search and the final "- 1" agree on every input.    *)
FindEntryIsUpperBound ==
    \A p \in -2..Len(arr) + 1, key \in KeysAround(arr) :
        FindEntry[arr, p, key] = UpperBoundRef(arr, key)

(* PointerBEntry::Find_pos, the binary search over the slots of a B-level *)
(* entry with its "left or left - 1" correction, picks the slot whose key *)
(* is the greatest one <= key.                                            *)
FindPosIsUpperBound ==
    \A key \in KeysAround(arr) : FindPos[arr, key] = UpperBoundRef(arr, key)

=============================================================================
