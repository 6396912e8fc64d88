----------------------------- MODULE MCLpMoInit -----------------------------
(***************************************************************************)
(* LpDescent on trees whose root drives one buffer, which drives two       *)
(* flip-flops.  Problems are numbered.                                     *)
(***************************************************************************)
EXTENDS LpDescent, SmallDesign

\* A library whose bounds leave room for a few steps.
MCCells == <<[ss |-> <<3, 3>>, ff |-> <<2, 2>>, area |-> 1],
             [ss |-> <<1, 1>>, ff |-> <<0, 1>>, area |-> 2]>>

Fork(c, paths) == [Tree({2, 3}, paths) EXCEPT !.cells = MCCells, !.cell = (1 :> c)]

\* One path that may violate setup and one back that may violate hold, from
\* both original sizings and with several margins.
MCDesigns ==
  <<Fork(1, <<TimingPath(2, 3, 12, 4), TimingPath(3, 2, 6, 0)>>),
    Fork(1, <<TimingPath(2, 3, 10, 0), TimingPath(3, 2, 11, 0)>>),
    Fork(2, <<TimingPath(2, 3, 14, 4), TimingPath(3, 2, 7, 4)>>),
    Fork(2, <<TimingPath(2, 3, 6, 0), TimingPath(3, 2, 12, 4)>>),
    Fork(2, <<TimingPath(2, 3, 12, 3), TimingPath(3, 2, 8, 2)>>)>>

\* One path violates hold and nothing else is wrong.
MCHoldDesign == <<Fork(1, <<TimingPath(2, 3, 5, 0)>>)>>

MCProblem == DOMAIN Designs
MCBranch == 1 .. 3
MCDelay == 0 .. 3
MCPath == DOMAIN Designs[1].paths

MCStart(pb) == [ss |-> DesignDelays(Designs[pb], "ss"), ff |-> DesignDelays(Designs[pb], "ff")]

\* Evaluated once for every problem, and once for every vector.
MCBaseline == [pb \in MCProblem |-> Baseline(pb)] @@ <<>>
MCBound(end(_)) ==
  [pb \in MCProblem |->
     [corner \in Corner |-> [b \in MCBranch |-> end(DelayBounds(Designs[pb], corner, b))] @@ <<>>]
     @@ <<>>] @@ <<>>
MCLowerTable == MCBound(LAMBDA bounds : bounds.min)
MCUpperTable == MCBound(LAMBDA bounds : bounds.max)
MCLower(pb) == MCLowerTable[pb]
MCUpper(pb) == MCUpperTable[pb]

MCEvaluation ==
  [pb \in MCProblem |->
     [v \in [ss : [MCBranch -> MCDelay], ff : [MCBranch -> MCDelay]] |->
        MoContext(Designs[pb], MCBaseline[pb], v)] @@ <<>>] @@ <<>>
MCEvaluate(pb, v) == MCEvaluation[pb][v]
MCCorrection(pb, c) == MoCorrection(Designs[pb], MCBaseline[pb], c)
=============================================================================
