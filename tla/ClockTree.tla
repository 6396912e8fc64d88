----------------------------- MODULE ClockTree -----------------------------
(***************************************************************************)
(* The design of src/include/pd_types.h and the timing the C library       *)
(* computes from it: pd_clock.c (arrival times, area) and pd_timing.c      *)
(* (slacks, WNS, TNS).  This is the tool's judge: the baseline and every   *)
(* reported result come from here, while the search uses SaEval.           *)
(*                                                                         *)
(* A design d is a record:                                                 *)
(*   kind, parent  functions on the nodes 0 .. n-1; a parent precedes its  *)
(*                 children; a root has the parent -1, and only the root 0 *)
(*                 has children                                            *)
(*   cell          the library cell of each BUF node                       *)
(*   cells         a sequence of library cells [ss, ff, area]; ss and ff   *)
(*                 hold the delay for each fanout, both of length          *)
(*                 max_fanout; delays and areas are grid integers          *)
(*   paths         a sequence of [launch, capture, data_ss, data_ff], a    *)
(*                 node being -1 when its name was not found               *)
(*   period, t_setup, t_hold                                               *)
(***************************************************************************)
EXTENDS Integers, Sequences, FiniteSets, Functions
LOCAL INSTANCE FiniteSetsExt

Nodes(d) == DOMAIN d.kind

Buffers(d) == {n \in Nodes(d) : d.kind[n] = "BUF"}

FlipFlops(d) == {n \in Nodes(d) : d.kind[n] = "FF"}

Paths(d) == DOMAIN d.paths

NChildren(d, n) == Cardinality({c \in Nodes(d) : d.parent[c] = n})

AtLeastOne(n) == IF n > 0 THEN n ELSE 1

\* cell_delay: the table entry for the fanout, clamped to the table.
CellDelay(c, corner, fanout) ==
  LET max_fanout == Len(c[corner])
      clamped == IF fanout > max_fanout THEN max_fanout ELSE fanout
  IN  c[corner][AtLeastOne(clamped)]

\* The edges from the root down to n, each named by its child node.
RootPath(d, n) ==
  LET up[m \in Nodes(d)] ==
        IF d.parent[m] < 0 THEN {} ELSE {m} \cup up[d.parent[m]]
  IN  up[n]

-----------------------------------------------------------------------------
(* pd_annotate_clock.                                                      *)

\* The delay a buffer adds: its own cell driving its own children.
OwnDelay(d, corner, n) ==
  CellDelay(d.cells[d.cell[n]], corner, AtLeastOne(NChildren(d, n)))

\* What annotate_subtree reaches: it returns at a flip-flop.
Annotated(d) ==
  {n \in Nodes(d) : \A m \in RootPath(d, n) \ {n} : d.kind[m] # "FF"}

\* d_clk_ss, d_clk_ff of a node: 0 unless it is a flip-flop that is reached.
ClockArrival(d, corner, n) ==
  LET stages == IF n \in FlipFlops(d) \cap Annotated(d)
                  THEN RootPath(d, n) \cap Buffers(d) ELSE {}
  IN  SumFunction([b \in stages |-> OwnDelay(d, corner, b)])

\* The area of a buffer that is not reached stays 0.
TotalArea(d) ==
  SumFunction([b \in Buffers(d) \cap Annotated(d) |-> d.cells[d.cell[b]].area])

-----------------------------------------------------------------------------
(* pd_compute_timing: paths with an unknown end are skipped.               *)

Resolved(d) == {p \in Paths(d) : d.paths[p].launch >= 0 /\ d.paths[p].capture >= 0}

SetupSlack(d, p, skew) == d.period - d.t_setup - d.paths[p].data_ss + skew
HoldSlack(d, p, skew) == d.paths[p].data_ff - d.t_hold - skew

PathSkew(d, corner, p) ==
  ClockArrival(d, corner, d.paths[p].capture) - ClockArrival(d, corner, d.paths[p].launch)

\* The worst of a function of slacks (0 when there is none) and the sum of
\* its negative values.
WorstSlack(slack) == IF DOMAIN slack = {} THEN 0 ELSE Min(Range(slack))
TotalNegativeSlack(slack) ==
  SumFunction([p \in DOMAIN slack |-> IF slack[p] < 0 THEN slack[p] ELSE 0])

\* The four timing figures and the area, as lp_compute_metrics reads them.
Metrics(setup, hold, area) ==
  [wns_ss |-> WorstSlack(setup), tns_ss |-> TotalNegativeSlack(setup),
   wns_ff |-> WorstSlack(hold), tns_ff |-> TotalNegativeSlack(hold),
   area |-> area]

PdTiming(d) ==
  Metrics([p \in Resolved(d) |-> SetupSlack(d, p, PathSkew(d, "ss", p))],
          [p \in Resolved(d) |-> HoldSlack(d, p, PathSkew(d, "ff", p))],
          TotalArea(d))
=============================================================================
