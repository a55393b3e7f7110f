---------------------------- MODULE LinearModel ----------------------------
(***************************************************************************)
(* LearnModel::LinearModel, LinearModelBuilder and rmi_line_model         *)
(* (src/src/rmi_model.h): the least-squares line that predicts the        *)
(* position of a key, used both by the root of the tree and by each group.*)
(*                                                                         *)
(* The code computes in long double and stores a double slope a_ and      *)
(* intercept b_; here they are exact rationals <<numerator, denominator>> *)
(* with a positive denominator, so floating-point rounding is left out.   *)
(***************************************************************************)
EXTENDS Integers, Sequences, Functions

CONSTANT LinearSample   \* rmi_line_model::linear_sample (8 in the code)

AbsI(x) == IF x < 0 THEN -x ELSE x

RECURSIVE GCD(_, _)
GCD(a, b) == IF b = 0 THEN a ELSE GCD(b, a % b)

(* The rational n / d, d # 0, in lowest terms with a positive denominator. *)
Ratio(n, d) ==
    IF n = 0 THEN <<0, 1>>
    ELSE LET g == GCD(AbsI(n), AbsI(d))
             s == IF d < 0 THEN -1 ELSE 1
         IN  <<s * (n \div g), s * (d \div g)>>

ModelRec == [a : Int \X Int, b : Int \X Int]

(* A default-constructed LinearModel: a_ = b_ = 0. *)
ZeroModel == [a |-> <<0, 1>>, b |-> <<0, 1>>]

(* static_cast<int>(double): truncation toward zero, d > 0. *)
Trunc(n, d) == IF n >= 0 THEN n \div d ELSE -((-n) \div d)

(* LinearModel::predict: (int)(a_ * x + b_). *)
Predict(mdl, x) ==
    Trunc(mdl.a[1] * x * mdl.b[2] + mdl.b[1] * mdl.a[2], mdl.a[2] * mdl.b[2])

(* LinearModelBuilder::build over the points pts = << <<x, y>>, ... >>    *)
(* that add() accumulated into count_, x_sum_, ..., y_max_.  This and    *)
(* TrainModel are functions so that the points are evaluated once.        *)
Build[pts \in Seq(Int \X Int)] ==
    LET c    == Len(pts)
        sx   == SumFunction([i \in 1..c |-> pts[i][1]])
        sy   == SumFunction([i \in 1..c |-> pts[i][2]])
        sxx  == SumFunction([i \in 1..c |-> pts[i][1] * pts[i][1]])
        sxy  == SumFunction([i \in 1..c |-> pts[i][1] * pts[i][2]])
        den  == c * sxx - sx * sx
        num  == c * sxy - sx * sy
        xs   == {pts[i][1] : i \in 1..c}
        ys   == {pts[i][2] : i \in 1..c}
        xmin == CHOOSE x \in xs : \A z \in xs : x <= z
        xmax == CHOOSE x \in xs : \A z \in xs : x >= z
        ymin == CHOOSE y \in ys : \A z \in ys : y <= z
        ymax == CHOOSE y \in ys : \A z \in ys : y >= z
    IN  IF c <= 1 THEN [a |-> <<0, 1>>, b |-> Ratio(sy, 1)]
        ELSE IF den = 0 THEN [a |-> <<0, 1>>, b |-> Ratio(sy, c)]
        ELSE IF num <= 0    \* slope <= 0: fit the spline through the extremes
             THEN [a |-> Ratio(ymax - ymin, xmax - xmin),
                   b |-> Ratio(-xmin * (ymax - ymin), xmax - xmin)]
        ELSE [a |-> Ratio(num, den), b |-> Ratio(sy * den - num * sx, c * den)]

(* The points a model is trained on from the sorted keys ks: the i-th key *)
(* (0-based) with y = i, for every i that is a multiple of linear_sample. *)
(* rmi_line_model::init and builder_t::add (key_seq % linear_sample)      *)
(* take the same points.                                                  *)
SamplePoints(ks) ==
    [j \in 1..((Len(ks) - 1) \div LinearSample + 1) |->
        <<ks[(j - 1) * LinearSample + 1], (j - 1) * LinearSample>>]

(* rmi_line_model::init(first, size, ...): train on the keys ks. *)
TrainModel[ks \in Seq(Int)] == IF ks = <<>> THEN Build[<<>>] ELSE Build[SamplePoints(ks)]

=============================================================================
