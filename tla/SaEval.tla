------------------------------- MODULE SaEval ------------------------------
(***************************************************************************)
(* The search's own view of a design, src/src/sa_eval.cpp: arrival times   *)
(* as sums of branch delays, slacks, WNS, TNS, area from the buffer-chain  *)
(* tables and the score; and the delays a branch may be given.             *)
(*                                                                         *)
(* dp is [ss |-> table, ff |-> table], tables as in ChainLookup.           *)
(*                                                                         *)
(* An operator named Mut... is the definition that follows it with a       *)
(* plausible mistake; no specification uses it.                            *)
(***************************************************************************)
EXTENDS LpBranch, LpScore, ChainLookup
LOCAL INSTANCE FiniteSetsExt
LOCAL INSTANCE SequencesExt

-----------------------------------------------------------------------------
(* Contexts: sa_build_ctx, sa_build_path_index.                            *)

\* The branches above a flip-flop, none for an end that was not found.  A
\* path end that is not a flip-flop has no index either.
EndBranches(d, n) ==
  IF n \in FlipFlops(d) THEN RootPath(d, n) \cap Branches(d) ELSE {}

LaunchBranches(d, p) == EndBranches(d, d.paths[p].launch)
CaptureBranches(d, p) == EndBranches(d, d.paths[p].capture)

-----------------------------------------------------------------------------
(* sa_eval_state: every path counts, a missing end arriving at time 0.     *)

EndArrival(d, delay, n) ==
  SumFunction([b \in EndBranches(d, n) |-> delay[b]])

SaSkew(d, delay, p) ==
  EndArrival(d, delay, d.paths[p].capture) - EndArrival(d, delay, d.paths[p].launch)

MutRoundedDown(table, fanout, delay) ==
  IF fanout \in DOMAIN table /\ delay \div UnitsPerKey \in DOMAIN table[fanout]
    THEN table[fanout][delay \div UnitsPerKey].area ELSE 0

\* What a lookup adds to the maximum the code takes: nothing when no chain
\* is found.
LookupArea(table, fanout, delay) ==
  IF Reachable(table, fanout, delay) THEN Lookup(table, fanout, delay).area ELSE 0

\* branch_area_dp.
ChainArea(d, dp, b, dss, dff) ==
  LET fanout == IF Insertable(d, b) THEN 1 ELSE BranchFanout(d, b)
      ss == LookupArea(dp.ss, fanout, dss)
      ff == LookupArea(dp.ff, fanout, dff)
      area == IF ss < ff THEN ff ELSE ss
  IN  IF Insertable(d, b) /\ dss = 0 /\ dff = 0 THEN 0
      ELSE IF ~Insertable(d, b) /\ area = 0 THEN BranchArea(d, b)
      ELSE area

SaMetrics(d, dp, a) ==
  Metrics([p \in Paths(d) |-> SetupSlack(d, p, SaSkew(d, a.ss, p))],
          [p \in Paths(d) |-> HoldSlack(d, p, SaSkew(d, a.ff, p))],
          SumFunction([b \in Branches(d) |-> ChainArea(d, dp, b, a.ss[b], a.ff[b])]))

\* The part of the context the path search reads, against the baseline base.
EvalContext(d, dp, base, a) ==
  LET m == SaMetrics(d, dp, a) IN
  [slack_ss |-> [p \in Paths(d) |-> SetupSlack(d, p, SaSkew(d, a.ss, p))],
   slack_ff |-> [p \in Paths(d) |-> HoldSlack(d, p, SaSkew(d, a.ff, p))],
   tns_ss |-> m.tns_ss,
   score |-> Score(m, base)]

-----------------------------------------------------------------------------
(* sa_build_branch_opts and sa_init_from_design.                           *)

\* The entries kept of a list that is too long: both ends and an even spread.
Subsample(delays, max_n) ==
  IF Len(delays) <= max_n THEN delays
  ELSE [i \in 1 .. max_n |->
          delays[1 + ((i - 1) * (Len(delays) - 1)) \div (max_n - 1)]]

BranchOptions(d, corner, b, max_n) ==
  LET fanout == IF Insertable(d, b) THEN 1 ELSE BranchFanout(d, b)
      bounds == DelayBounds(d, corner, b)
      strong == SelectSeq(d.cells, LAMBDA c : Len(c[corner]) >= fanout)
      delays == [i \in DOMAIN strong |-> BranchDelay(strong[i], corner, fanout)]
      within == SelectSeq(delays, LAMBDA x :
                  IF Insertable(d, b) THEN x > 0 ELSE x \in bounds.min .. bounds.max)
      ends == IF Insertable(d, b) THEN <<>> ELSE <<bounds.min, bounds.max>>
  IN  Subsample(<<0>> \o within \o ends, max_n)

\* The first option at the least distance.
Nearest(v, opts) ==
  LET distance(i) == IF opts[i] < v THEN v - opts[i] ELSE opts[i] - v
      nearest == {i \in DOMAIN opts : \A j \in DOMAIN opts : distance(i) <= distance(j)}
  IN  opts[Min(nearest)]

InitialDelay(d, corner, b, max_n) ==
  LET own == IF Insertable(d, b) THEN 0
             ELSE BranchDelay(d.cells[d.cell[b]], corner, BranchFanout(d, b))
  IN  Nearest(own, BranchOptions(d, corner, b, max_n))
=============================================================================
