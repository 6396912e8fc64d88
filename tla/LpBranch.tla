----------------------------- MODULE LpBranch ------------------------------
(***************************************************************************)
(* The branch model of src/src/lp_branch.cpp: every edge of the clock tree *)
(* into a buffer (ExistingBuf) or a flip-flop (Insertable) becomes a       *)
(* branch with a delay of its own.  A branch is named by its child node.   *)
(***************************************************************************)
EXTENDS ClockTree
LOCAL INSTANCE FiniteSetsExt

Branches(d) == {n \in Nodes(d) : d.parent[n] >= 0 /\ d.kind[n] \in {"BUF", "FF"}}

Insertable(d, b) == d.kind[b] = "FF"

\* add_branch counts the children of the edge's PARENT.
BranchFanout(d, b) == AtLeastOne(NChildren(d, d.parent[b]))

\* lp_eval_branch_delay_ss and _ff: the fanout clamped to the cell's table.
BranchDelay(c, corner, fanout) == CellDelay(c, corner, fanout)

\* The delays the library offers at a fanout.  A cell too weak for it is
\* taken at its own largest fanout, not left out.
LibraryDelays(d, corner, fanout) ==
  {BranchDelay(d.cells[c], corner, fanout) : c \in DOMAIN d.cells}

\* d_ss_min and d_ss_max (d_ff_min and d_ff_max) of a branch.
DelayBounds(d, corner, b) ==
  IF Insertable(d, b)
    THEN [min |-> 0, max |-> Max(LibraryDelays(d, corner, 1) \cup {0})]
    ELSE [min |-> Min(LibraryDelays(d, corner, BranchFanout(d, b))),
          max |-> Max(LibraryDelays(d, corner, BranchFanout(d, b)) \cup {0})]

\* area_per_ss: the branch's own cell, or the first of the library.
BranchArea(d, b) ==
  IF Insertable(d, b) THEN d.cells[1].area ELSE d.cells[d.cell[b]].area
=============================================================================
