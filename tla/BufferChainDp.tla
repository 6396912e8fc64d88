--------------------------- MODULE BufferChainDp ----------------------------
(***************************************************************************)
(* LpBufferChainDp::build of src/src/lp_buffer_dp.cpp for one corner: the  *)
(* prefixes of fanout-1 cells are extended by one cell a round, from a     *)
(* snapshot, until nothing changes or RoundLimit rounds are over; then     *)
(* every fanout gets its row.                                              *)
(*                                                                         *)
(* The tables are hash maps: the entries of a round's snapshot are visited *)
(* in any order.  Areas are compared exactly (1e-12 in the code).          *)
(* Operators named Mut... are plausible mistakes; no specification uses    *)
(* them.                                                                   *)
(***************************************************************************)
EXTENDS BufferChains

CONSTANT RoundLimit     \* 64 in the code

ASSUME RoundAssumption == RoundLimit \in Nat

VARIABLES
  pc,        \* "round", "relax", "rows", "done"
  prefix,    \* prefix_: a function from the keys reached to entries
  snapshot,  \* the prefix_ a round started from
  pending,   \* the keys of the snapshot not yet visited
  rounds, changed,
  table,     \* table_: a map for every fanout
  fanout     \* the row to be built next

rowVars == <<table, fanout>>
vars == <<pc, prefix, snapshot, pending, rounds, changed, rowVars>>

\* LpBufferChainEntry; a delay is its key, an absent key is unreachable.
Entry == [area : Nat, cell_indices : Seq(CellIndex)]

\* A hash map: entries at some of the keys.
IsMap(f) == DOMAIN f \subseteq Key /\ f \in [DOMAIN f -> Entry]

MutExtendKeepsArea(entry, c) ==
  [area |-> IF entry.area = 0 THEN Cells[c].area ELSE entry.area,
   cell_indices |-> Append(entry.cell_indices, c)]

Extend(entry, c) ==
  [area |-> entry.area + Cells[c].area,
   cell_indices |-> Append(entry.cell_indices, c)]

-----------------------------------------------------------------------------
(* One visit: every cell is tried after the snapshot's entry at k.         *)

\* Several cells can lead to one key: the first of the cheapest stays.
FirstCheapest(cs) ==
  CHOOSE c \in cs : \A x \in cs :
    Cells[c].area < Cells[x].area \/ (Cells[c].area = Cells[x].area /\ c <= x)

CellsTo(k, nk) == {c \in PrefixCells : k + CellKey(c, 1) = nk}

MutNoDelayLimit(k) == {nk \in 0 .. 2 * MaxKey : CellsTo(k, nk) # {}}

Successors(k) == {nk \in Key : CellsTo(k, nk) # {}}

MutOfferFromLiveMap(k, nk) == Extend(prefix[k], FirstCheapest(CellsTo(k, nk)))

Offer(k, nk) == Extend(snapshot[k], FirstCheapest(CellsTo(k, nk)))

MutOfferTies(k, nk) ==
  nk \notin DOMAIN prefix \/ Offer(k, nk).area <= prefix[nk].area

MutOfferAlways(k, nk) == TRUE

OfferBetter(k, nk) ==
  nk \notin DOMAIN prefix \/ Offer(k, nk).area < prefix[nk].area

Relaxed(k) ==
  [nk \in DOMAIN prefix \cup Successors(k) |->
     IF nk \in Successors(k) /\ OfferBetter(k, nk) THEN Offer(k, nk) ELSE prefix[nk]]

-----------------------------------------------------------------------------
(* One row: a last cell for n loads behind any prefix.                     *)

\* The last cells that complete a chain of key k; the prefix has the rest.
LastCells(n, k) ==
  {c \in CellIndex : Supports(c, n) /\ k - CellKey(c, n) \in DOMAIN prefix}

MutRowIgnoresPrefixArea(n, k, c) == Cells[c].area

RowArea(n, k, c) == prefix[k - CellKey(c, n)].area + Cells[c].area

BestLastCell(n, k) ==
  CHOOSE x \in LastCells(n, k) : \A y \in LastCells(n, k) :
    \/ RowArea(n, k, x) < RowArea(n, k, y)
    \/ RowArea(n, k, x) = RowArea(n, k, y) /\ x <= y

MutRowDropsPrefix(n, k) ==
  [area |-> RowArea(n, k, BestLastCell(n, k)), cell_indices |-> <<BestLastCell(n, k)>>]

RowEntry(n, k) ==
  LET c == BestLastCell(n, k)
  IN  [area |-> RowArea(n, k, c),
       cell_indices |-> Append(prefix[k - CellKey(c, n)].cell_indices, c)]

Row(n) == [k \in {j \in Key : LastCells(n, j) # {}} |-> RowEntry(n, k)]

-----------------------------------------------------------------------------

Init ==
  /\ pc = "round"
  /\ prefix = [k \in {0} |-> [area |-> 0, cell_indices |-> <<>>]]
  /\ snapshot = prefix
  /\ pending = {}
  /\ rounds = 0
  /\ changed = TRUE
  /\ table = [n \in TableFanouts |-> <<>>]
  /\ fanout = 1

BeginRound ==
  /\ pc = "round"
  /\ changed /\ rounds < RoundLimit
  /\ rounds' = rounds + 1
  /\ changed' = FALSE
  /\ snapshot' = prefix
  /\ pending' = DOMAIN prefix
  /\ pc' = "relax"
  /\ UNCHANGED <<prefix, rowVars>>

Visit(k) ==
  /\ pc = "relax"
  /\ k \in pending
  /\ prefix' = Relaxed(k)
  /\ changed' = (changed \/ \E nk \in Successors(k) : OfferBetter(k, nk))
  /\ pending' = pending \ {k}
  /\ UNCHANGED <<pc, snapshot, rounds, rowVars>>

EndRound ==
  /\ pc = "relax"
  /\ pending = {}
  /\ pc' = "round"
  /\ UNCHANGED <<prefix, snapshot, pending, rounds, changed, rowVars>>

EndPrefixes ==
  /\ pc = "round"
  /\ ~changed \/ rounds >= RoundLimit
  /\ pc' = "rows"
  /\ UNCHANGED <<prefix, snapshot, pending, rounds, changed, rowVars>>

BuildRow ==
  /\ pc = "rows"
  /\ fanout \in TableFanouts
  /\ table' = [table EXCEPT ![fanout] = Row(fanout)]
  /\ fanout' = fanout + 1
  /\ UNCHANGED <<pc, prefix, snapshot, pending, rounds, changed>>

Finish ==
  /\ pc = "rows"
  /\ fanout \notin TableFanouts
  /\ pc' = "done"
  /\ UNCHANGED <<prefix, snapshot, pending, rounds, changed, rowVars>>

Step ==
  \/ BeginRound
  \/ \E k \in pending : Visit(k)
  \/ EndRound
  \/ EndPrefixes
  \/ BuildRow
  \/ Finish

Terminated == pc = "done" /\ UNCHANGED vars

Next == Step \/ Terminated

Spec == Init /\ [][Next]_vars

-----------------------------------------------------------------------------
(* Properties.                                                             *)

\* Every variable has its type, the maps within their keys.
TypeOK ==
  /\ pc \in {"round", "relax", "rows", "done"}
  /\ IsMap(prefix)
  /\ IsMap(snapshot)
  /\ pending \subseteq DOMAIN snapshot
  /\ rounds \in 0 .. RoundLimit
  /\ changed \in BOOLEAN
  /\ fanout \in 1 .. TableFanoutMax + 1
  /\ DOMAIN table = TableFanouts
  /\ \A n \in TableFanouts : IsMap(table[n])

\* The recorded cells really make the entry: their keys add up to its key
\* and their areas to its area, and each can be a prefix cell.
PrefixEntriesAreChains ==
  \A k \in DOMAIN prefix :
    LET e == prefix[k] IN
    /\ \A i \in DOMAIN e.cell_indices : e.cell_indices[i] \in PrefixCells
    /\ ChainKey(e.cell_indices) = k
    /\ ChainArea(e.cell_indices) = e.area

\* What sa_apply takes from a row, the last cell, can drive the row's loads,
\* and the cells before it are a prefix of the remaining key.
RowEntriesAreChains ==
  \A n \in DOMAIN table : \A k \in DOMAIN table[n] :
    LET cs == table[n][k].cell_indices
        last == cs[Len(cs)]
        front == SubSeq(cs, 1, Len(cs) - 1)
    IN  /\ cs # <<>>
        /\ Supports(last, n)
        /\ ChainKey(front) = k - CellKey(last, n)
        /\ ChainArea(front) + Cells[last].area = table[n][k].area

\* The area of a chain of at most r prefix cells: the reference for rounds.
LeastAreaInRounds ==
  LET least[r \in 0 .. RoundLimit] ==
        [k \in Key |->
           LET longer == UNION {{a + Cells[c].area : a \in least[r - 1][k - CellKey(c, 1)]} :
                                  c \in {x \in PrefixCells : CellKey(x, 1) \in 0 .. k}}
               areas == longer \cup least[r - 1][k]
           IN  IF r = 0 THEN (IF k = 0 THEN {0} ELSE {})
               ELSE {a \in areas : \A b \in areas : a <= b}]
  IN  least

\* Between rounds the entries are exact for chains of as many cells as there
\* were rounds, in whatever order the hash map was visited.
RoundsAreExact ==
  pc = "round" =>
    \A k \in Key :
      (IF k \in DOMAIN prefix THEN {prefix[k].area} ELSE {}) = LeastAreaInRounds[rounds][k]

TableContents ==
  [n \in DOMAIN table |->
     [k \in DOMAIN table[n] |->
        LET e == table[n][k]
        IN  [area |-> e.area, last |-> e.cell_indices[Len(e.cell_indices)]]]]

\* When the rounds ended because nothing changed, the table holds exactly the
\* reachable delays, each with the least area there is and, whatever the
\* order of the visits, the first last cell that attains it.
ConvergedTableIsMinimal == pc = "done" /\ ~changed => TableContents = ChainTable

\* A reached key stays reached and never becomes more expensive.
AreasNeverRise ==
  [][\A k \in DOMAIN prefix : k \in DOMAIN prefix' /\ prefix'[k].area <= prefix[k].area]_vars

\* Chains longer than MaxKey cells are useless, so the rounds end by
\* themselves, one round after the last that can change anything.
RoundsEndByThemselves == rounds <= MaxKey + 1
=============================================================================
