------------------------------ MODULE PdParser ------------------------------
(***************************************************************************)
(* pd_load_design of src/src/pd_parser.c: buf.lib, clk_tree.structure and  *)
(* the two delay reports are read one after the other, line by line, into  *)
(* the design.  A line is what the code's patterns recognise in it; which  *)
(* lines a file holds, and whether it can be opened, is free.              *)
(*                                                                         *)
(* Nodes have the indices of the code, 0 first; cells and paths are        *)
(* sequences.  A delay row is what was read of it; the code pads rows with *)
(* 0 up to the longest.                                                    *)
(*                                                                         *)
(* An operator named Mut... is the definition that follows it with a       *)
(* plausible mistake; no specification uses it.                            *)
(***************************************************************************)
EXTENDS Integers, Sequences, FiniteSets

CONSTANTS
  Name,            \* of nodes and path ends
  FFName,          \* those that begin with "FF_"
  CellName,
  Value,           \* delays and periods
  LibraryLine, StructureLine, ReportLine,
  MaxCells,        \* PD_MAX_CELLS
  MaxLines         \* bound: lines of each file

File == {"library", "structure", "SS", "FF"}

LineOf(kinds) == [kind : kinds]

ASSUME LineAssumption ==
  /\ FFName \subseteq Name
  /\ LibraryLine \subseteq
       [kind : {"cell"}, name : CellName]
       \cup [kind : {"row"}, corner : {"ss", "ff"}, delays : Seq(Value)]
       \cup LineOf({"close", "text"})
  /\ StructureLine \subseteq
       [kind : {"root"}, name : Name]
       \cup [kind : {"node"}, level : Int, name : Name, cell : CellName, sink : BOOLEAN]
       \cup LineOf({"blank", "text"})
  /\ ReportLine \subseteq
       [kind : {"row"}, launch : Name, capture : Name, delay : Value]
       \cup [kind : {"period"}, value : Value]
       \cup LineOf({"header", "text"})
  /\ 0 \in Value

ASSUME LimitAssumption == MaxCells \in Nat /\ MaxLines \in [File -> Nat]

VARIABLES
  stage,           \* the file that is read, "loaded" or "failed"
  read,            \* the lines read of that file
  cells, in_cell,
  nodes,           \* d->nodes, a function on 0 .. n_nodes - 1
  stack, root_done,
  paths, in_paths,
  clock_period

library == <<cells, in_cell>>
tree == <<nodes, stack, root_done>>
report == <<paths, in_paths, clock_period>>
vars == <<stage, read, library, tree, report>>

-----------------------------------------------------------------------------

Init ==
  /\ stage = "library"
  /\ read = <<>>
  /\ cells = <<>> /\ in_cell = FALSE
  /\ nodes = <<>> /\ stack = <<>> /\ root_done = FALSE
  /\ paths = <<>> /\ in_paths = FALSE
  /\ clock_period = 0

\* The next line of the open file.
Line(file, line) ==
  /\ stage = file
  /\ Len(read) < MaxLines[file]
  /\ read' = Append(read, line)

GoOn == UNCHANGED stage
Fail == stage' = "failed"

CannotOpen ==
  /\ stage \in File /\ read = <<>>
  /\ Fail
  /\ UNCHANGED <<read, library, tree, report>>

EndOfFile ==
  /\ stage \in File
  /\ read' = <<>>
  /\ in_cell' = FALSE /\ stack' = <<>> /\ in_paths' = FALSE
  /\ stage' = CASE stage = "library" -> "structure"
                [] stage = "structure" -> IF root_done THEN "SS" ELSE "failed"
                [] stage = "SS" -> "FF"
                [] stage = "FF" -> "loaded"
  /\ UNCHANGED <<cells, nodes, root_done, paths, clock_period>>

-----------------------------------------------------------------------------
(* parse_buf_lib.                                                          *)

MutNoCellLimit(line) ==
  /\ Line("library", line) /\ line.kind = "cell"
  /\ GoOn
  /\ cells' = Append(cells, [name |-> line.name, ss |-> <<>>, ff |-> <<>>])
  /\ in_cell' = TRUE
  /\ UNCHANGED <<tree, report>>

CellLine(line) ==
  /\ Line("library", line) /\ line.kind = "cell"
  /\ IF Len(cells) >= MaxCells THEN Fail /\ UNCHANGED library
     ELSE /\ GoOn
          /\ cells' = Append(cells, [name |-> line.name, ss |-> <<>>, ff |-> <<>>])
          /\ in_cell' = TRUE
  /\ UNCHANGED <<tree, report>>

\* A shorter row leaves the end of an earlier one.
Overwrite(old, row) == row \o SubSeq(old, Len(row) + 1, Len(old))

RowLine(line) ==
  /\ Line("library", line) /\ line.kind = "row"
  /\ cells' = IF in_cell
                THEN [cells EXCEPT ![Len(cells)][line.corner] = Overwrite(@, line.delays)]
                ELSE cells
  /\ GoOn
  /\ UNCHANGED <<in_cell, tree, report>>

\* The end of a cell, and what is passed over.
OtherLibraryLine(line) ==
  /\ Line("library", line) /\ line.kind \in {"close", "text"}
  /\ in_cell' = (in_cell /\ line.kind # "close")
  /\ GoOn
  /\ UNCHANGED <<cells, tree, report>>

-----------------------------------------------------------------------------
(* parse_structure.                                                        *)

NNodes == Cardinality(DOMAIN nodes)

\* find_cell: the first of its name.
CellsNamed(name) == {c \in DOMAIN cells : cells[c].name = name}
FindCell(name) == CHOOSE c \in CellsNamed(name) : \A e \in CellsNamed(name) : c <= e

Extended(node) == [n \in 0 .. NNodes |-> IF n = NNodes THEN node ELSE nodes[n]]

MutPushNewRoot(line) ==
  /\ Line("structure", line) /\ line.kind = "root"
  /\ nodes' = Extended([kind |-> "ROOT", name |-> line.name, cell |-> "", level |-> 0,
                        parent |-> -1, children |-> <<>>, sink |-> FALSE, cell_idx |-> 0])
  /\ stack' = Append(stack, NNodes)
  /\ root_done' = TRUE
  /\ GoOn
  /\ UNCHANGED <<library, report>>

\* Every Root line adds a node, and pushes node 0.
RootLine(line) ==
  /\ Line("structure", line) /\ line.kind = "root"
  /\ nodes' = Extended([kind |-> "ROOT", name |-> line.name, cell |-> "", level |-> 0,
                        parent |-> -1, children |-> <<>>, sink |-> FALSE, cell_idx |-> 0])
  /\ stack' = Append(stack, 0)
  /\ root_done' = TRUE
  /\ GoOn
  /\ UNCHANGED <<library, report>>

MutPopHigher(level) == {i \in DOMAIN stack : nodes[stack[i]].level <= level}

\* The entries the pops may stop at: those of a lower level.
Above(level) == {i \in DOMAIN stack : nodes[stack[i]].level < level}

\* The last of them is where they stop.
Depth(level) == CHOOSE i \in Above(level) : \A j \in Above(level) : j <= i

NewNode(line, parent) ==
  LET is_ff == line.name \in FFName IN
  [kind |-> IF is_ff THEN "FF" ELSE "BUF", name |-> line.name, cell |-> line.cell,
   level |-> line.level, parent |-> parent, children |-> <<>>, sink |-> line.sink,
   cell_idx |-> IF is_ff THEN 0 ELSE FindCell(line.cell)]

NodeLine(line) ==
  /\ Line("structure", line) /\ line.kind = "node"
  /\ root_done /\ Above(line.level) # {}
  /\ line.name \in FFName \/ CellsNamed(line.cell) # {}
  /\ LET depth == Depth(line.level) IN
     /\ nodes' = [Extended(NewNode(line, stack[depth])) EXCEPT
                    ![stack[depth]].children = Append(@, NNodes)]
     /\ stack' = Append(SubSeq(stack, 1, depth), NNodes)
  /\ GoOn
  /\ UNCHANGED <<root_done, library, report>>

\* Before the root, at no level below it, or of an unknown cell.
BadLine(line) ==
  /\ Line("structure", line)
  /\ \/ line.kind \in {"node", "text"} /\ ~root_done
     \/ /\ line.kind = "node" /\ root_done
        /\ \/ Above(line.level) = {}
           \/ line.name \notin FFName /\ CellsNamed(line.cell) = {}
  /\ Fail
  /\ UNCHANGED <<library, tree, report>>

PassedOver(line) ==
  /\ Line("structure", line)
  /\ line.kind = "blank" \/ (line.kind = "text" /\ root_done)
  /\ GoOn
  /\ UNCHANGED <<library, tree, report>>

-----------------------------------------------------------------------------
(* parse_delay_rpt.                                                        *)

\* pd_find_node_by_name: the first of its name, or -1.
FindNode(name) ==
  LET named == {n \in DOMAIN nodes : nodes[n].name = name}
  IN  IF named = {} THEN -1 ELSE CHOOSE n \in named : \A m \in named : n <= m

SSRow(line) ==
  /\ Line("SS", line) /\ line.kind = "row"
  /\ paths' = IF in_paths
                THEN Append(paths, [launch |-> line.launch, capture |-> line.capture,
                                    launch_id |-> FindNode(line.launch),
                                    capture_id |-> FindNode(line.capture),
                                    data_ss |-> line.delay, data_ff |-> 0])
                ELSE paths
  /\ GoOn
  /\ UNCHANGED <<in_paths, clock_period, library, tree>>

MutSameCapture(line) == {p \in DOMAIN paths : paths[p].capture = line.capture}

Matching(line) ==
  {p \in DOMAIN paths : paths[p].launch = line.launch /\ paths[p].capture = line.capture}

FirstMatch(line) == CHOOSE p \in Matching(line) : \A q \in Matching(line) : p <= q

FFRow(line) ==
  /\ Line("FF", line) /\ line.kind = "row"
  /\ IF in_paths /\ Matching(line) = {} THEN Fail ELSE GoOn
  /\ paths' = IF in_paths /\ Matching(line) # {}
                THEN [paths EXCEPT ![FirstMatch(line)].data_ff = line.delay]
                ELSE paths
  /\ UNCHANGED <<in_paths, clock_period, library, tree>>

\* The rows begin after the header; the period may stand anywhere.
OtherReportLine(line) ==
  /\ \E file \in {"SS", "FF"} : Line(file, line)
  /\ line.kind \in {"period", "header", "text"}
  /\ in_paths' = (in_paths \/ line.kind = "header")
  /\ clock_period' = IF line.kind = "period" THEN line.value ELSE clock_period
  /\ GoOn
  /\ UNCHANGED <<paths, library, tree>>

-----------------------------------------------------------------------------

ReadLine ==
  \/ \E line \in LibraryLine : CellLine(line) \/ RowLine(line) \/ OtherLibraryLine(line)
  \/ \E line \in StructureLine :
       RootLine(line) \/ NodeLine(line) \/ BadLine(line) \/ PassedOver(line)
  \/ \E line \in ReportLine : SSRow(line) \/ FFRow(line) \/ OtherReportLine(line)

Terminated == stage \in {"loaded", "failed"} /\ UNCHANGED vars

Next == CannotOpen \/ ReadLine \/ EndOfFile \/ Terminated

Spec == Init /\ [][Next]_vars

-----------------------------------------------------------------------------
(* Properties.                                                             *)

NodeIndex == DOMAIN nodes

Node ==
  [kind : {"ROOT", "BUF", "FF"}, name : Name, cell : CellName \cup {""}, level : Int,
   parent : NodeIndex \cup {-1}, children : Seq(NodeIndex), sink : BOOLEAN, cell_idx : Nat]

PathRow ==
  [launch : Name, capture : Name, launch_id : NodeIndex \cup {-1},
   capture_id : NodeIndex \cup {-1}, data_ss : Value, data_ff : Value]

\* Every variable has its type; the indices in it are of what there is.
TypeOK ==
  /\ stage \in File \cup {"loaded", "failed"}
  /\ cells \in Seq([name : CellName, ss : Seq(Value), ff : Seq(Value)])
  /\ Len(cells) <= MaxCells
  /\ in_cell \in BOOLEAN /\ (in_cell => cells # <<>>)
  /\ NodeIndex = 0 .. NNodes - 1
  /\ nodes \in [NodeIndex -> Node]
  /\ stack \in Seq(NodeIndex)
  /\ root_done \in BOOLEAN /\ (root_done <=> nodes # <<>>)
  /\ paths \in Seq(PathRow) /\ in_paths \in BOOLEAN
  /\ clock_period \in Value

\* The tree the file's levels describe: the parent of a node is the last node
\* before it of a lower level.  Where that is a Root line after the first, it
\* is the first root, since only node 0 is ever pushed for a root.
ParentIsNearestAbove ==
  \A n \in NodeIndex :
    nodes[n].kind # "ROOT" =>
      \E m \in 0 .. n - 1 :
        /\ nodes[m].level < nodes[n].level
        /\ \A k \in m + 1 .. n - 1 : nodes[k].level >= nodes[n].level
        /\ nodes[n].parent = IF nodes[m].kind = "ROOT" THEN 0 ELSE m

\* The rows of the open report with the ends of path p.
RowsFor(p) ==
  {i \in DOMAIN read :
     /\ read[i].kind = "row"
     /\ read[i].launch = paths[p].launch /\ read[i].capture = paths[p].capture
     /\ \E h \in 1 .. i - 1 : read[h].kind = "header"}

\* A path's hold delay is the last one read for its two ends; of several
\* paths between the same ends only the first gets it, and a path without
\* a row keeps 0.
HoldDelayIsOfItsPair ==
  stage = "FF" =>
    \A p \in DOMAIN paths :
      LET namesakes == {q \in 1 .. p - 1 : /\ paths[q].launch = paths[p].launch
                                           /\ paths[q].capture = paths[p].capture}
      IN  IF namesakes # {} \/ RowsFor(p) = {} THEN paths[p].data_ff = 0
          ELSE \E i \in RowsFor(p) : /\ \A j \in RowsFor(p) : j <= i
                                     /\ paths[p].data_ff = read[i].delay
=============================================================================
