--------------------------- MODULE MCBufferChainDp --------------------------
(***************************************************************************)
(* BufferChainDp on libraries of three cells.                              *)
(***************************************************************************)
EXTENDS BufferChainDp

Cell(delay, area) == [delay |-> delay, area |-> area]

\* With 3 units to a key: the keys at fanout 1 are 1, 2 and 0 (rounded away).
\* Two of the first cell are cheaper than the second, which is found earlier.
MCCells == <<Cell(<<3, 4>>, 1), Cell(<<5, 6, 8>>, 3), Cell(<<1, 6>>, 1)>>
=============================================================================
