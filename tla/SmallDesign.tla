---------------------------- MODULE SmallDesign ----------------------------
(***************************************************************************)
(* Designs small enough for TLC.  The library has two cells, each for up   *)
(* to two loads.                                                           *)
(***************************************************************************)
EXTENDS Integers, Sequences, TLC

Weak == [ss |-> <<2, 3>>, ff |-> <<1, 2>>, area |-> 1]
Strong == [ss |-> <<1, 2>>, ff |-> <<1, 1>>, area |-> 2]

TimingPath(launch, capture, data_ss, data_ff) ==
  [launch |-> launch, capture |-> capture, data_ss |-> data_ss, data_ff |-> data_ff]

\* The root 0 drives the buffer 1, which drives the flip-flops ffs.
Tree(ffs, paths) ==
  [kind |-> [n \in {0, 1} \cup ffs |->
               IF n = 0 THEN "ROOT" ELSE IF n = 1 THEN "BUF" ELSE "FF"],
   parent |-> [n \in {0, 1} \cup ffs |-> IF n > 1 THEN 1 ELSE n - 1],
   cell |-> (1 :> 1),
   cells |-> <<Weak, Strong>>,
   paths |-> paths,
   period |-> 10, t_setup |-> 1, t_hold |-> 1]
=============================================================================
