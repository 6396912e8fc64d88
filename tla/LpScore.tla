------------------------------ MODULE LpScore ------------------------------
(***************************************************************************)
(* lp_compute_score of src/src/lp_score.cpp.  The score is a sum of five   *)
(* terms 1 - num/den against the baseline; it is scaled by the product of  *)
(* the nonzero denominators, so that it is an integer and two scores       *)
(* against one baseline compare as the code's doubles do.                  *)
(***************************************************************************)
EXTENDS Integers

\* LpMetrics without its score: what lp_compute_metrics fills in.
Figures == [wns_ss : Int, tns_ss : Int, wns_ff : Int, tns_ff : Int, area : Nat]

Positive(x) == IF x < 0 THEN -x ELSE 0            \* score_pos_wns, score_pos_tns
NonZero(den) == IF den = 0 THEN 1 ELSE den

ScoreScale(base) ==
  NonZero(Positive(base.tns_ss)) * NonZero(Positive(base.wns_ss)) *
  NonZero(Positive(base.tns_ff)) * NonZero(Positive(base.wns_ff)) *
  NonZero(base.area)

\* score_term_ratio, times the scale.
TermRatio(num, den, scale) ==
  IF den = 0 THEN (IF num = 0 THEN scale ELSE 0)
             ELSE num * (scale \div den)

Score(m, base) ==
  LET scale == ScoreScale(base)
      term(num, den) == scale - TermRatio(num, den, scale)
  IN  term(Positive(m.tns_ss), Positive(base.tns_ss))
      + term(Positive(m.wns_ss), Positive(base.wns_ss))
      + term(Positive(m.tns_ff), Positive(base.tns_ff))
      + term(Positive(m.wns_ff), Positive(base.wns_ff))
      + term(m.area, base.area)
=============================================================================
