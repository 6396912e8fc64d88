---------------------------- MODULE ChainLookup ----------------------------
(***************************************************************************)
(* LpBufferChainDp::lookup of src/src/lp_buffer_dp.cpp: a delay is rounded *)
(* to a key of the table, and the entry of that key answers for it.  The   *)
(* tables are built with the same rounding.                                *)
(*                                                                         *)
(* A table gives for each fanout, and each key some chain has, the area    *)
(* and the last cell of the cheapest one.                                  *)
(***************************************************************************)
EXTENDS Integers

CONSTANT UnitsPerKey    \* kDelayStep, in units of the delays

ASSUME StepAssumption == UnitsPerKey \in Nat \ {0}

\* delay_key: to the nearest step, halves upwards, nothing below 0.
DelayKey(delay) ==
  IF delay < 0 THEN 0 ELSE (2 * delay + UnitsPerKey) \div (2 * UnitsPerKey)

\* Whether lookup finds a chain, and the entry it then returns.
Reachable(table, fanout, delay) ==
  fanout \in DOMAIN table /\ DelayKey(delay) \in DOMAIN table[fanout]

Lookup(table, fanout, delay) == table[fanout][DelayKey(delay)]
=============================================================================
