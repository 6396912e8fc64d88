---------------------------- MODULE BufferChains ----------------------------
(***************************************************************************)
(* What src/include/lp_buffer_dp.hpp promises: the minimum-area buffer     *)
(* chain of a given total delay, "(0+ fanout-1 cells) then one fanout-n    *)
(* cell", for one corner.  Stated by recursion on the delay, without the   *)
(* rounds of the code.                                                     *)
(*                                                                         *)
(* Each cell's delay is rounded to a key by itself.                        *)
(***************************************************************************)
EXTENDS ChainLookup, Integers, Sequences, FiniteSetsExt

CONSTANTS
  Cells,   \* the library: a sequence of [delay : per fanout, area]
  MaxKey   \* delay_key(max_delay)

ASSUME LibraryAssumption ==
  /\ Cells \in Seq([delay : Seq(Nat), area : Nat])
  /\ \A c \in DOMAIN Cells : Len(Cells[c].delay) >= 1
  /\ MaxKey \in Nat

CellIndex == DOMAIN Cells

\* The delays a table is made for.
Key == 0 .. MaxKey

MaxFanout(c) == Len(Cells[c].delay)

Supports(c, n) == n <= MaxFanout(c)

\* The key a cell adds when it drives n loads.
CellKey(c, n) == DelayKey(Cells[c].delay[n])

\* Cells that can be in front of the last: those with a delay at fanout 1.
PrefixCells == {c \in CellIndex : Cells[c].delay[1] > 0}

\* max_fanout_
TableFanoutMax == Max({1} \cup {MaxFanout(c) : c \in CellIndex})

TableFanouts == 1 .. TableFanoutMax

-----------------------------------------------------------------------------
(* The reference.                                                          *)

\* A chain's key and area.
ChainKey(chain) ==
  LET sum[i \in 0 .. Len(chain)] ==
        IF i = 0 THEN 0 ELSE sum[i - 1] + CellKey(chain[i], 1)
  IN  sum[Len(chain)]

ChainArea(chain) ==
  LET sum[i \in 0 .. Len(chain)] ==
        IF i = 0 THEN 0 ELSE sum[i - 1] + Cells[chain[i]].area
  IN  sum[Len(chain)]

\* Areas that chains of fanout-1 cells of total key k can have, the least
\* one only: an empty set when no chain has that key.
LeastPrefixArea ==
  LET least[k \in Key] ==
        LET via(c) == {a + Cells[c].area : a \in least[k - CellKey(c, 1)]}
            areas == UNION {via(c) : c \in {x \in PrefixCells : CellKey(x, 1) \in 1 .. k}}
        IN  IF k = 0 THEN {0} ELSE IF areas = {} THEN {} ELSE {Min(areas)}
  IN  least

\* Chains of key k whose last cell c drives n loads: their areas, the least
\* one only.
AreasEndingIn(n, k, c) ==
  IF Supports(c, n) /\ CellKey(c, n) <= k
    THEN {a + Cells[c].area : a \in LeastPrefixArea[k - CellKey(c, n)]}
    ELSE {}

ChainAreas(n, k) == UNION {AreasEndingIn(n, k, c) : c \in CellIndex}

\* For each fanout the reachable delays, with the least area and, among the
\* last cells that attain it, the first of the library.
ChainTable ==
  [n \in TableFanouts |->
     [k \in {j \in Key : ChainAreas(n, j) # {}} |->
        LET least == Min(ChainAreas(n, k))
        IN  [area |-> least,
             last |-> Min({c \in CellIndex : least \in AreasEndingIn(n, k, c)})]]]
=============================================================================
