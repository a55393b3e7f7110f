-------------------------------- MODULE RMI --------------------------------
(***************************************************************************)
(* RMI::TwoStageRMI and RMI::LinearModel (src/include/learnindex/         *)
(* rmi_impl.h), the root model of learn_group.h's RootModel               *)
(* (TwoStageRMI<Key_64, 3, 2>): it is trained on the min_key of every     *)
(* LearnGroup and predicts the group of a key.                            *)
(*                                                                         *)
(* The weights are doubles in the code; here a linear model is the exact  *)
(* rational line (a * x + b) / d, d > 0, so rounding is left out.  Only  *)
(* the case of fewer than 2 * root_error_bound training keys is defined: *)
(* adjust_rmi then trains exactly one second-stage model (SecondStageN),  *)
(* which every prediction picks.                                          *)
(***************************************************************************)
EXTENDS Integers, Sequences, Functions

CONSTANT RootErrorBound   \* root_error_bound, 3 for RootModel

(* LinearModel::prepare_model(first, start, size): the least-squares line *)
(* of the keys ks against the positions start, start + 1, ...  With one  *)
(* key only weights[1] = start is set and weights[0] keeps what the      *)
(* allocator left (set = FALSE).                                          *)
PrepareModel[ks \in Seq(Int), start \in Int] ==
    LET n   == Len(ks)
        sx  == SumFunction([i \in 1..n |-> ks[i]])
        sy  == SumFunction([i \in 1..n |-> start + i - 1])
        sxx == SumFunction([i \in 1..n |-> ks[i] * ks[i]])
        sxy == SumFunction([i \in 1..n |-> ks[i] * (start + i - 1)])
    IN  IF n = 1 THEN [set |-> FALSE, a |-> 0, b |-> start, d |-> 1]
        ELSE [set |-> TRUE, a |-> n * sxy - sx * sy,
              b |-> sxx * sy - sx * sxy, d |-> n * sxx - sx * sx]

(* LinearModel::predict: res = weights[0] * x + weights[1], returned as   *)
(* size_t (truncated) when positive, else 0.  An unset weights[0] is     *)
(* taken as 0: TwoStageRMI only has such a model when keys_n = 1, and    *)
(* then clamps every prediction to keys_n - 1 = 0 whatever it holds.     *)
LinearPredict(m, x) ==
    LET v == m.a * x + m.b
    IN  IF v > 0 THEN v \div m.d ELSE 0

(* adjust_rmi: the number of second-stage models it starts with.        *)
SecondStageN(n) ==
    LET maxModelN == IF n \div RootErrorBound > 1 THEN n \div RootErrorBound ELSE 1
        trial     == IF (n \div RootErrorBound) \div 4 > 1
                     THEN (n \div RootErrorBound) \div 4 ELSE 1
    IN  IF trial < maxModelN THEN trial ELSE maxModelN

(* TwoStageRMI::init(first, last) on the sorted keys ks: keys_n, the     *)
(* first stage over all keys from position 0, and train_rmi's single     *)
(* second-stage model over the same keys.  With one model adjust_rmi's   *)
(* trial loop stops at once: a mean error above root_error_bound cannot  *)
(* grow past max_model_n = 1, and the error (|i - pred| + 1) is never   *)
(* below root_error_bound / 2 = 1.                                        *)
Init[ks \in Seq(Int)] ==
    [n |-> Len(ks), stage1 |-> PrepareModel[ks, 0], stage2 |-> <<PrepareModel[ks, 0]>>]

(* pick_next_stage_model: group_i_pred * model_n / keys_n, at most       *)
(* model_n - 1.                                                           *)
PickNextStageModel(r, pred) ==
    LET i == (pred * SecondStageN(r.n)) \div r.n
    IN  IF i >= SecondStageN(r.n) THEN SecondStageN(r.n) - 1 ELSE i

(* TwoStageRMI::predict: min(rmi_2nd_stage[pick].predict(key), keys_n - 1). *)
Predict(r, key) ==
    LET m == r.stage2[PickNextStageModel(r, LinearPredict(r.stage1, key)) + 1]
        p == LinearPredict(m, key)
    IN  IF p < r.n - 1 THEN p ELSE r.n - 1

=============================================================================
