----------------------------- MODULE MCPdParser -----------------------------
(***************************************************************************)
(* PdParser with a few kinds of each line: two flip-flops and a buffer,    *)
(* one cell the library may define and one it never does, levels that      *)
(* leave one out, two pairs of path ends, one of an unknown node.          *)
(***************************************************************************)
EXTENDS PdOutput

MCLibraryLines ==
  {[kind |-> "cell", name |-> "X2"],
   [kind |-> "row", corner |-> "ss", delays |-> <<2, 1>>],
   [kind |-> "close"]}

NodeText(level, name, cell, sink) ==
  [kind |-> "node", level |-> level, name |-> name, cell |-> cell, sink |-> sink]

MCStructureLines ==
  {[kind |-> "root", name |-> "CLK"], [kind |-> "text"],
   NodeText(0, "FF_1", "D", TRUE),
   NodeText(1, "BUF_1", "X2", TRUE), NodeText(1, "BUF_1", "X9", FALSE),
   NodeText(2, "FF_1", "D", TRUE), NodeText(3, "FF_2", "D", FALSE)}

PathText(launch, capture, delay) ==
  [kind |-> "row", launch |-> launch, capture |-> capture, delay |-> delay]

MCReportLines ==
  {[kind |-> "header"], [kind |-> "period", value |-> 2],
   PathText("FF_1", "FF_2", 1), PathText("FF_1", "FF_2", 2), PathText("FF_2", "FF_2", 1)}

MCMaxLines == [library |-> 2, structure |-> 5, SS |-> 3, FF |-> 3]
=============================================================================
