--------------------------- MODULE MCSaPathSolve ----------------------------
(***************************************************************************)
(* SaPathSolve on a small design: a buffer drives the flip-flops that      *)
(* launch and capture paths.  EvalState, the option lists and the branches *)
(* of a path come from SaEval, the areas from BufferChains.                *)
(***************************************************************************)
EXTENDS SaPathSolve, SmallDesign

CONSTANTS Design, UnitsPerKey

E == INSTANCE SaEval

Table(corner) ==
  LET Chains == INSTANCE BufferChains WITH
        Cells <- [c \in DOMAIN Design.cells |->
                    [delay |-> Design.cells[c][corner], area |-> Design.cells[c].area]],
        MaxKey <- 3
  IN  Chains!ChainTable

MCBranch == E!Branches(Design)
MCPath == E!Paths(Design)
MCDelay == 0 .. 2
MCOptSS == [b \in MCBranch |-> E!BranchOptions(Design, "ss", b, 32)]
MCOptFF == [b \in MCBranch |-> E!BranchOptions(Design, "ff", b, 32)]
MCLaunch == [p \in MCPath |-> E!LaunchBranches(Design, p)]
MCCapture == [p \in MCPath |-> E!CaptureBranches(Design, p)]

MCAssignment == [ss : [MCBranch -> MCDelay], ff : [MCBranch -> MCDelay]]

\* Evaluated once for every assignment.
MCEval ==
  LET dp == [ss |-> Table("ss"), ff |-> Table("ff")]
      ori == E!PdTiming(Design)
  IN  [a \in MCAssignment |-> E!EvalContext(Design, dp, ori, a)] @@ <<>>
MCEvalState(a) == MCEval[a]

\* The design's own delays, as sa_init_from_Design finds them.
MCOriginal ==
  {[ss |-> [b \in MCBranch |-> E!InitialDelay(Design, "ss", b, 32)],
    ff |-> [b \in MCBranch |-> E!InitialDelay(Design, "ff", b, 32)]]}

\* What the LP phase may hand over: any vectors within the branch bounds.
MCWithinBounds ==
  {a \in MCAssignment :
     \A b \in MCBranch : LET bss == E!DelayBounds(Design, "ss", b)
                             bff == E!DelayBounds(Design, "ff", b)
                         IN  a.ss[b] \in bss.min .. bss.max /\ a.ff[b] \in bff.min .. bff.max}

\* Flip-flop 3 captures late data, with no hold margin; the way back has
\* margin, so that all violations can be repaired.
BothWays == Tree({2, 3}, <<TimingPath(2, 3, 11, 1), TimingPath(3, 2, 6, 2)>>)

\* Three flip-flops, one of them at the root, and all six paths between
\* them.  Every path meets the buffer, more paths than there are branches, and
\* a path to flip-flop 4 has its own branch only.  Two setup violations are
\* equally bad.
AllPairs ==
  [Tree({2, 3, 4}, <<TimingPath(2, 3, 12, 4), TimingPath(3, 2, 13, 4),
                     TimingPath(2, 4, 12, 4), TimingPath(4, 2, 9, 4),
                     TimingPath(3, 4, 8, 4), TimingPath(4, 3, 11, 4)>>)
     EXCEPT !.parent[4] = 0, !.cells[1].ss = <<2, 2>>, !.cells[2].ss = <<2, 2>>]

\* No hold violation, and no hold margin on the way out of flip-flop 3, which
\* captures late data.  The root has two loads, like the buffer, so that the
\* search sees the baseline as pd_timing.c does.
CleanHold ==
  [Tree({2, 3, 4}, <<TimingPath(2, 3, 12, 4), TimingPath(3, 4, 1, 1)>>)
     EXCEPT !.parent[4] = 0, !.t_hold = 3, !.cells[1].ss = <<2, 2>>]

-----------------------------------------------------------------------------
(* What the documents say of the search.                                   *)

\* architect.md: the best solution in history is kept.  In the score phase
\* no accepted solution scores above the one that would be returned.
HistoricalBestKept == ~SetupOnly => ctx.score <= EvalState(best).score

\* architect.md: the score counts improvements of WNS, TNS and area over the
\* initial design.  What the search keeps in the score phase because it scores
\* above the initial design is better than it in some figure.
ScoreMeansImprovement ==
  LET figures(a) == E!SaMetrics(Design, [ss |-> Table("ss"), ff |-> Table("ff")], a)
      better(m, n) == \/ m.area < n.area
                      \/ \E f \in {"wns_ss", "tns_ss", "wns_ff", "tns_ff"} : m[f] > n[f]
  IN  \A a \in MCOriginal :
        EvalState(best).score > EvalState(a).score => better(figures(best), figures(a))
=============================================================================
