---------------------------- MODULE SaAgreement -----------------------------
(***************************************************************************)
(* The program with the search's own view of the design beside it.  The    *)
(* tables are the reference tables of the library, a tree's timing is that *)
(* of ClockTree, and SaEval says what the search believes of delays: does  *)
(* the report say the same of the cells that realise them?                 *)
(***************************************************************************)
EXTENDS SaMain, SaEval

CONSTANT MaxDelayKey   \* delay_key(dp_max_delay)

\* The library as the tables of one corner see it.
CornerCells(corner) ==
  [c \in DOMAIN Design.cells |->
     [delay |-> Design.cells[c][corner], area |-> Design.cells[c].area]]

\* dp_ss and dp_ff.
SsChains == INSTANCE BufferChains WITH
  Cells <- CornerCells("ss"), MaxKey <- MaxDelayKey

FfChains == INSTANCE BufferChains WITH
  Cells <- CornerCells("ff"), MaxKey <- MaxDelayKey

Tables == [ss |-> SsChains!ChainTable, ff |-> FfChains!ChainTable]

\* A tree as the parser builds it: only Root lines make nodes without parents,
\* a parent is there before its children, and of the roots only node 0 is one.
\* The paths run between nodes.
ASSUME TreeAssumption ==
  /\ {"kind", "parent", "cells", "paths", "period", "t_setup", "t_hold"} \subseteq DOMAIN Design
  /\ IsFiniteSet(Nodes(Design)) /\ Nodes(Design) \subseteq Nat
  /\ Design.kind \in [Nodes(Design) -> {"ROOT", "BUF", "FF"}]
  /\ Design.parent \in [Nodes(Design) -> Int]
  /\ \A n \in Nodes(Design) :
       IF Design.kind[n] = "ROOT" THEN Design.parent[n] < 0
       ELSE Design.parent[n] \in
              {m \in Nodes(Design) : m < n /\ (Design.kind[m] = "ROOT" => m = 0)}
  /\ \A p \in Paths(Design) :
       {Design.paths[p].launch, Design.paths[p].capture} \subseteq Nodes(Design)

\* A cell has an area, and as many delays in one corner as in the other.  One
\* without area would be priced as if the table had no chain for its delay.
ASSUME CellsAssumption ==
  /\ MaxDelayKey \in Nat
  /\ Design.cells \in Seq([ss : Seq(Nat), ff : Seq(Nat), area : Nat \ {0}])
  /\ \A c \in DOMAIN Design.cells :
       Len(Design.cells[c].ss) >= 1 /\ Len(Design.cells[c].ff) = Len(Design.cells[c].ss)

ASSUME FiguresAssumption ==
  /\ Table = Tables.ss
  /\ \A c \in CellChoices : Timing(c) = PdTiming(WithCells(c))

-----------------------------------------------------------------------------
(* Properties.                                                             *)

\* The tree without what stands below a flip-flop: all that the report sees.
CutAtFlipFlops(d) ==
  [d EXCEPT !.kind = Restrict(@, Annotated(d)), !.parent = Restrict(@, Annotated(d))]

Seen == CutAtFlipFlops(Design)

\* Vectors a tree can have: every buffer's delays are those of one cell, the
\* one the table picks, at the fanout it has both in its branch and in the
\* tree, and no flip-flop's branch has a delay.
Realisable(v) ==
  \A b \in Branches(Seen) :
    IF Insertable(Design, b) THEN v.ss[b] = 0 /\ v.ff[b] = 0
    ELSE LET fanout == BranchFanout(Design, b) IN
         /\ NChildren(Design, b) = fanout
         /\ ChainFound(Design, Table, b, v.ss[b])
         /\ \A corner \in {"ss", "ff"} :
              v[corner][b] =
                BranchDelay(Design.cells[Lookup(Table, fanout, v.ss[b]).last], corner, fanout)

\* The report on a solution a tree can have has the five figures sa_eval.cpp
\* computes of the tree without what stands below a flip-flop, through rounding,
\* tables, application and annotation; the LP snapshot's report likewise.  Where
\* flip-flops drive nothing, that is what the search said.  Below them it is
\* not: the search times and prices what pd_clock.c never reaches.
RealisableSolutionsAgree ==
  /\ Fresh("result.txt") /\ Realisable(solution) =>
       files["result.txt"].opt = SaMetrics(Seen, Tables, solution)
  /\ Fresh("result_lp.txt") /\ Realisable(initial) =>
       files["result_lp.txt"].opt = SaMetrics(Seen, Tables, initial)

\* architect.md: the search begins at the cell delays of the original tree.
\* Their timing is that of the baseline the score compares with.
SearchSeesBaseline ==
  LET own == [corner \in {"ss", "ff"} |->
                [b \in Branches(Design) |-> InitialDelay(Design, corner, b, 32)]]
  IN  pc = "lp" => [SaMetrics(Design, Tables, own) EXCEPT !.area = pb_ori.area] = pb_ori
=============================================================================
