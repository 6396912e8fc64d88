----------------------------- MODULE LpDescent ------------------------------
(***************************************************************************)
(* The LP phase on designs: lp_solve_mo_init with the evaluation and the   *)
(* gradient that lp_mo_init.cpp computes, so that what a step does to the  *)
(* slacks can be said.                                                     *)
(***************************************************************************)
EXTENDS LpMoInit, LpGradient

CONSTANT Designs    \* the design of each problem

\* ori of lp_build_from_design.
Baseline(pb) == PdTiming(Designs[pb])

ASSUME DesignsAssumption ==
  \A pb \in Problem :
    LET d == Designs[pb] IN
    /\ Branch = Branches(d) /\ Path = Paths(d)
    /\ IsFiniteSet(Branch) /\ IsFiniteSet(Path)
    /\ {d.period, d.t_setup, d.t_hold} \subseteq Int
    /\ \A p \in Path : {d.paths[p].data_ss, d.paths[p].data_ff} \subseteq Int
    /\ Baseline(pb) \in Figures

\* kStep is positive, and so is the rounding guard of the denominators.
ASSUME GradientAssumption ==
  /\ Gain \in Nat /\ EpsPerUnit \in Nat
  /\ \A pb \in Problem : \A v \in OnGrid :
       /\ Evaluate(pb, v) = MoContext(Designs[pb], Baseline(pb), v)
       /\ Correction(pb, Evaluate(pb, v)) = MoCorrection(Designs[pb], Baseline(pb), Evaluate(pb, v))
=============================================================================
