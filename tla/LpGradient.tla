----------------------------- MODULE LpGradient -----------------------------
(***************************************************************************)
(* What the LP phase computes from a design d and vectors v = [ss, ff] of  *)
(* branch delays, src/src/lp_mo_init.cpp: slacks, objective and the        *)
(* correction of the next step.  Delays are grid integers, and a path's    *)
(* pull on a branch is rounded down to the grid.                           *)
(*                                                                         *)
(* An operator named Mut... is the definition that follows it with a       *)
(* plausible mistake; no specification uses it.                            *)
(***************************************************************************)
EXTENDS SaEval

CONSTANTS
  Gain,          \* step, in grid units
  EpsPerUnit     \* grid units per eps

\* init_from_design: a buffer's own cell at its branch's fanout.
DesignDelays(d, corner) ==
  [b \in Branches(d) |->
     IF Insertable(d, b) THEN 0
     ELSE BranchDelay(d.cells[d.cell[b]], corner, BranchFanout(d, b))]

\* A branch into a flip-flop takes area as soon as it has a delay.
MoArea(d, v) ==
  SumFunction([b \in Branches(d) |->
                 IF ~Insertable(d, b) \/ v.ss[b] > 0 \/ v.ff[b] > 0
                   THEN BranchArea(d, b) ELSE 0])

\* eval_solution against the baseline ori of lp_build_from_design.
MoContext(d, ori, v) ==
  LET setup == [p \in Paths(d) |-> SetupSlack(d, p, SaSkew(d, v.ss, p))]
      hold == [p \in Paths(d) |-> HoldSlack(d, p, SaSkew(d, v.ff, p))]
  IN  [slack |-> [ss |-> setup, ff |-> hold],
       wns |-> [ss |-> WorstSlack(setup), ff |-> WorstSlack(hold)],
       obj |-> -Score(Metrics(setup, hold, MoArea(d, v)), ori)]

-----------------------------------------------------------------------------
(* Lines 226-264: the gradient, as what is added to the delays.            *)

Shortfall(ctx, corner, p) ==
  IF ctx.slack[corner][p] < 0 THEN -ctx.slack[corner][p] ELSE 0

\* step * v / (|ori| + eps)
Scaled(v, ori) == (Gain * EpsPerUnit * v) \div (EpsPerUnit * (IF ori < 0 THEN -ori ELSE ori) + 1)

\* -(gt + gw) of a path: the second only for the worst ones.
Pull(ctx, corner, p, tns_ori, wns_ori) ==
  Scaled(Shortfall(ctx, corner, p), tns_ori)
  + (IF ctx.slack[corner][p] <= ctx.wns[corner]
       THEN Scaled(Shortfall(ctx, corner, p), wns_ori) ELSE 0)

SetupPull(ori, ctx, p) == Pull(ctx, "ss", p, ori.tns_ss, ori.wns_ss)
HoldPull(ori, ctx, p) == Pull(ctx, "ff", p, ori.tns_ff, ori.wns_ff)

\* Capture delays rise and launch delays fall, for setup ...
MutSwappedEnds(d, ori, ctx, b) ==
  SumFunction([p \in Paths(d) |->
    (IF b \in LaunchBranches(d, p) THEN SetupPull(ori, ctx, p) ELSE 0)
    - (IF b \in CaptureBranches(d, p) THEN SetupPull(ori, ctx, p) ELSE 0)])

SetupCorrection(d, ori, ctx, b) ==
  SumFunction([p \in Paths(d) |->
    (IF b \in CaptureBranches(d, p) THEN SetupPull(ori, ctx, p) ELSE 0)
    - (IF b \in LaunchBranches(d, p) THEN SetupPull(ori, ctx, p) ELSE 0)])

\* ... and for hold in the same directions, the capture side at half weight.
HoldCorrection(d, ori, ctx, b) ==
  SumFunction([p \in Paths(d) |->
    (IF b \in CaptureBranches(d, p) THEN HoldPull(ori, ctx, p) \div 2 ELSE 0)
    - (IF b \in LaunchBranches(d, p) THEN HoldPull(ori, ctx, p) ELSE 0)])

MoCorrection(d, ori, ctx) ==
  [ss |-> [b \in Branches(d) |-> SetupCorrection(d, ori, ctx, b)],
   ff |-> [b \in Branches(d) |-> HoldCorrection(d, ori, ctx, b)]]
=============================================================================
