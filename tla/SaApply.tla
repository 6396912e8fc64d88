------------------------------ MODULE SaApply ------------------------------
(***************************************************************************)
(* sa_apply_solution of src/src/sa_apply.cpp: a buffer gets the last cell  *)
(* of the cheapest chain for its SS delay.  The FF delays and the branches *)
(* into flip-flops are not realised.                                       *)
(*                                                                         *)
(* table is the SS table of BufferChains, sol the delays d_ss of the       *)
(* branches.  An operator named Mut... is a plausible mistake.             *)
(***************************************************************************)
EXTENDS LpBranch, ChainLookup

\* dp_ss->lookup finds a chain for the branch.
ChainFound(d, table, b, delay) ==
  Reachable(table, BranchFanout(d, b), delay)

\* The cells after writing sol over those the design has.  Without a chain
\* a buffer keeps its cell.
AppliedCells(d, table, sol) ==
  [b \in Buffers(d) |->
     IF ChainFound(d, table, b, sol[b])
       THEN Lookup(table, BranchFanout(d, b), sol[b]).last
       ELSE d.cell[b]]
=============================================================================
