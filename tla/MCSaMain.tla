------------------------------ MODULE MCSaMain ------------------------------
(***************************************************************************)
(* SaAgreement on two trees: one whose buffers drive as many loads as      *)
(* their parents, and one on which search and report disagree.             *)
(***************************************************************************)
EXTENDS SaAgreement, SmallDesign

TreeOf(up, sizes, paths) ==
  LET Kind(n) == IF n = 0 THEN "ROOT" ELSE IF n \in DOMAIN sizes THEN "BUF" ELSE "FF"
  IN  [kind |-> [n \in DOMAIN up |-> Kind(n)] @@ <<>>, parent |-> up,
       cell |-> sizes, cells |-> <<Weak, Strong>>, paths |-> paths,
       period |-> 10, t_setup |-> 1, t_hold |-> 1]

\* The root, both buffers above flip-flops and flip-flop 6 drive two loads
\* each.  Buffer 7 and flip-flops 8 and 9 stand below flip-flop 6; the last
\* path ends there.
MCEvenDesign ==
  TreeOf(0 :> -1 @@ 1 :> 0 @@ 2 :> 1 @@ 3 :> 1 @@ 4 :> 2 @@ 5 :> 2 @@ 6 :> 0
           @@ 7 :> 6 @@ 8 :> 7 @@ 9 :> 6,
         1 :> 2 @@ 2 :> 1 @@ 7 :> 1,
         <<TimingPath(4, 3, 9, 4), TimingPath(6, 5, 12, 1), TimingPath(4, 8, 8, 3)>>)

\* The root and buffer 2 drive one load each, buffer 1 two.
MCUnevenDesign ==
  TreeOf(0 :> -1 @@ 1 :> 0 @@ 2 :> 1 @@ 3 :> 1 @@ 4 :> 2,
         1 :> 2 @@ 2 :> 1,
         <<TimingPath(4, 3, 9, 4), TimingPath(3, 4, 12, 1)>>)

MCTable == Tables.ss @@ <<>>

MCCellTiming ==
  [c \in CellChoices |-> PdTiming(WithCells(c))] @@ <<>>

MCTiming(c) == MCCellTiming[c]

VectorsOf(buffers_ss, buffers_ff, sinks) ==
  LET Delay(b, buffers) == IF b \in Buffers(Design) THEN buffers[b] ELSE sinks
  IN  [ss |-> [b \in Branches(Design) |-> Delay(b, buffers_ss)],
       ff |-> [b \in Branches(Design) |-> Delay(b, buffers_ff)]]

\* Two vectors that are the delays of single cells, and one that a tree cannot
\* have: delay 0 has no chain and leaves its buffer the cell, 4 has the key of
\* delay 3 and gets its cell, and flip-flops' branches have delays.  Odd delays
\* lie between two keys.
MCVectors ==
  {VectorsOf(1 :> 3 @@ 2 :> 2 @@ 7 :> 3, 1 :> 2 @@ 2 :> 1 @@ 7 :> 2, 0),
   VectorsOf(1 :> 2 @@ 2 :> 2 @@ 7 :> 1, 1 :> 1 @@ 2 :> 1 @@ 7 :> 1, 0),
   VectorsOf(1 :> 0 @@ 2 :> 4 @@ 7 :> 0, 1 :> 3 @@ 2 :> 2 @@ 7 :> 0, 1)}
=============================================================================
