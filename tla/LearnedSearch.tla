--------------------------- MODULE LearnedSearch ---------------------------
(***************************************************************************)
(* The search routines that reconcile a learned prediction with the real   *)
(* position of a key, over a sorted array of entry keys.                   *)
(*                                                                         *)
(*  - ExponentialSearchUpperBound: group::exponential_search_upper_bound   *)
(*    with linear_search_upper_bound / binary_search_upper_bound           *)
(*    (src/src/letree.h), used by group::find_entry;                      *)
(*  - FindPos: PointerBEntry::Find_pos (src/src/pointer_bentry.h), the     *)
(*    binary search among the <= 4 slots of a B-level entry.              *)
(*                                                                         *)
(* A TLA+ sequence s stands for a C array a with a[i] = s[i+1]: every      *)
(* index below is the code's 0-based index.                               *)
(***************************************************************************)
EXTENDS Integers, Sequences

At(s, i) == s[i + 1]

MinI(a, b) == IF a < b THEN a ELSE b
MaxI(a, b) == IF a > b THEN a ELSE b
Clamp(x, lo, hi) == MinI(MaxI(lo, x), hi)

(* The searches are functions rather than operators: the arguments of a   *)
(* function application are evaluated once, to values, whereas an         *)
(* operator argument or a LET name is re-evaluated at every use when TLC  *)
(* evaluates ENABLED (for fairness) or the next state (for a refinement   *)
(* mapping).  Each loop is a recursive function over its loop variables.  *)

(* Fault model: the upper-bound test written as a strict comparison. *)
KeyBelow(s, i, key) == At(s, i) < key

(* The test entry_space[i].entry_key <= key of the upper-bound searches. *)
KeyAtMost(s, i, key) == At(s, i) <= key

(* linear_search_upper_bound(l, r, key) *)
LinearUB[s \in Seq(Int), l \in Int, r \in Int, key \in Int] ==
    LET lub[i \in l..r] == IF i < r /\ KeyAtMost(s, i, key) THEN lub[i + 1] ELSE i
    IN  lub[l]

(* binary_search_upper_bound(l, r, key) *)
BinaryUB[s \in Seq(Int), l \in Int, r \in Int, key \in Int] ==
    LET bub[lo \in l..r, hi \in l..r] ==
            IF lo >= hi THEN lo
            ELSE LET mid == lo + (hi - lo) \div 2
                 IN  IF KeyAtMost(s, mid, key) THEN bub[mid + 1, hi] ELSE bub[lo, mid]
    IN  bub[l, r]

(* The two doubling loops of exponential_search_upper_bound. *)
GrowLeft[s \in Seq(Int), m \in Int, key \in Int] ==
    LET grow[bound \in Nat] ==
            IF bound < m /\ At(s, m - bound) > key THEN grow[2 * bound] ELSE bound
    IN  grow[1]

GrowRight[s \in Seq(Int), m \in Int, key \in Int] ==
    LET grow[bound \in Nat] ==
            IF bound < Len(s) - m /\ KeyAtMost(s, m + bound, key) THEN grow[2 * bound] ELSE bound
    IN  grow[1]

(* The range [l, r] the doubling loops leave for the final search. *)
SearchRange[s \in Seq(Int), m \in Int, key \in Int] ==
    IF At(s, m) > key
    THEN LET bound == GrowLeft[s, m, key]
         IN  [l |-> m - MinI(bound, m), r |-> m - bound \div 2]
    ELSE LET bound == GrowRight[s, m, key]
         IN  [l |-> m + bound \div 2, r |-> m + MinI(bound, Len(s) - m)]

(* exponential_search_upper_bound(m, key): the index of the entry whose   *)
(* key is the greatest one <= key, or 0, starting from prediction m.      *)
UBIn[s \in Seq(Int), l \in Int, r \in Int, key \in Int] ==
    IF r - l < 6 THEN LinearUB[s, l, r, key] ELSE BinaryUB[s, l, r, key]

ExponentialSearchUpperBound[s \in Seq(Int), m \in Int, key \in Int] ==
    LET rg == SearchRange[s, m, key]
    IN  MaxI(UBIn[s, rg.l, rg.r, key] - 1, 0)

(* group::find_entry: clamp the model's prediction, then search. *)
FindEntry[s \in Seq(Int), prediction \in Int, key \in Int] ==
    ExponentialSearchUpperBound[s, Clamp(prediction, 0, Len(s) - 1), key]

(* The binary search loop of PointerBEntry::Find_pos. *)
FindPosLoop[s \in Seq(Int), key \in Int] ==
    LET loop[left \in 0..Len(s), right \in 0..Len(s)] ==
            IF left >= right THEN [hit |-> FALSE, at |-> left]
            ELSE LET p == (left + right) \div 2
                 IN  IF At(s, p) = key THEN [hit |-> TRUE, at |-> p]
                     ELSE IF At(s, p) > key THEN loop[left, p]
                     ELSE loop[p + 1, right]
    IN  loop[0, Len(s)]

(* After the loop Find_pos reads entrys[left] also when left =          *)
(* buf.entries: a slot not in use yet, or, when all entry_count slots are *)
(* used, past the array (the next PointerBEntry's first eentry).  Neither *)
(* holds the key being searched for (an unused slot is zeroed, and the    *)
(* next entry's key is greater), so that read is taken as 0.              *)
SlotKeyOrZero(s, i) == IF i < Len(s) THEN At(s, i) ELSE 0

(* Fault model: Find_pos returning left without the "- 1" correction. *)
FindPosLeft(s, key, res) == res.at

(* ppos = left == 0 || entrys[left].entry_key == key ? left : left - 1 *)
FindPosResult(s, key, res) ==
    IF res.hit THEN res.at
    ELSE IF res.at = 0 \/ SlotKeyOrZero(s, res.at) = key THEN res.at
    ELSE res.at - 1

FindPos[s \in Seq(Int), key \in Int] == FindPosResult(s, key, FindPosLoop[s, key])

=============================================================================
