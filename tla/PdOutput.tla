------------------------------ MODULE PdOutput ------------------------------
(***************************************************************************)
(* pd_write_structure of src/src/pd_output.c over the nodes the parser     *)
(* builds: what is written, as the lines the parser would read.            *)
(***************************************************************************)
EXTENDS PdParser, SequencesExt

\* A buffer is written without the SINK mark.
Written(node) ==
  IF node.kind = "ROOT" THEN [kind |-> "root", name |-> node.name]
  ELSE [kind |-> "node", level |-> node.level, name |-> node.name, cell |-> node.cell,
        sink |-> node.sink /\ node.kind = "FF"]

\* write_node_recursive from each node: a node before its children.
NodeLines(ns) ==
  LET lines[n \in DOMAIN ns] ==
        <<Written(ns[n])>>
        \o FlattenSeq([i \in DOMAIN ns[n].children |-> lines[ns[n].children[i]]])
  IN  lines

WrittenFile(ns) == IF ns = <<>> THEN <<>> ELSE NodeLines(ns)[0]

-----------------------------------------------------------------------------

\* The lines read that say something of the tree below the first root.
TreeLines ==
  {i \in DOMAIN read :
     \/ read[i].kind = "node"
     \/ read[i].kind = "root" /\ \A j \in 1 .. i - 1 : read[j].kind # "root"}

\* Of such a line only the SINK mark of a buffer is lost.
AsWritten(line) ==
  IF line.kind = "node" /\ line.name \notin FFName THEN [line EXCEPT !.sink = FALSE] ELSE line

\* Reading a structure file and writing it gives the file back, line for
\* line and level for level, also when levels are left out, when nodes are
\* below flip-flops and when there are several Root lines, of which the first
\* is kept with the nodes of all.
WriterReproduces ==
  stage = "structure" =>
    LET file == WrittenFile(nodes)
        place(i) == Cardinality({j \in TreeLines : j <= i})
    IN  /\ Len(file) = Cardinality(TreeLines)
        /\ \A i \in TreeLines : file[place(i)] = AsWritten(read[i])
=============================================================================
