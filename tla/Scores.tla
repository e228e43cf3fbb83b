------------------------------- MODULE Scores -------------------------------
(***************************************************************************)
(* Score arithmetic of the ladder: the comparisons by which a confirmed    *)
(* score is ranked, claims a milestone or advances the public frontier     *)
(* (internal/platform/adjudication.go).  Scores are integer ticks; the     *)
(* code computes them with math/big: no overflow, and Int is exact.        *)
(***************************************************************************)
EXTENDS Integers

Direction == {"maximize", "minimize"}

(* A locked metric: validate.go:118-132 requires a positive minimum delta   *)
(* and a tolerance that is not negative.                                    *)
Metric == [direction : Direction, baseline : Int,
           minimumDelta : Nat \ {0}, tolerance : Nat]

better(a, b, direction) == IF direction = "maximize" THEN a > b ELSE a < b

crosses(score, threshold, direction) ==
  IF direction = "maximize" THEN score >= threshold ELSE score <= threshold

(* The gain of score over prior, in the metric's direction. *)
Gain(score, prior, direction) ==
  IF direction = "minimize" THEN -(score - prior) ELSE score - prior

meaningful(score, prior, m) == Gain(score, prior, m.direction) >= m.minimumDelta

AbsDiff(a, b) == IF a >= b THEN a - b ELSE b - a

(* ConfirmedScore fails when the two runs disagree beyond the tolerance ... *)
WithinTolerance(a, b, m) == AbsDiff(a, b) <= m.tolerance

(* ... and otherwise keeps the run that is worse for the solver. *)
ConfirmedScore(a, b, m) == IF better(a, b, m.direction) THEN b ELSE a
=============================================================================
