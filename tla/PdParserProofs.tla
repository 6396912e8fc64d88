--------------------------- MODULE PdParserProofs ---------------------------
(***************************************************************************)
(* Theorems about the parser, for files of any lines and any length: the   *)
(* tree is the one the levels describe, each hold delay goes to its pair,  *)
(* and the writer gives the structure file back.                           *)
(***************************************************************************)
EXTENDS PdOutput, FiniteSetTheorems, SequenceTheorems, WellFoundedInduction, TLAPS

-----------------------------------------------------------------------------
(* First and last members, which the searches of the code return.          *)

LEMMA Least ==
  ASSUME NEW S \in SUBSET Nat, S # {}
  PROVE  \E x \in S : \A y \in S : x <= y
<1> DEFINE R == OpToRel(<, Nat)
<1>1. R = {pair \in Nat \X Nat : pair[1] < pair[2]}
  BY Zenon DEF OpToRel
<1>2. IsWellFoundedOn(R, Nat)
  BY ONLY NatLessThanWellFounded, Zenon
<1> HIDE DEF R
<1>3. \E x \in S : \A y \in S : ~(<<y, x>> \in R)
  BY <1>2, WFMin, Zenon
<1>4. PICK x \in S : \A y \in S : ~(<<y, x>> \in R)
  BY <1>3
<1>5. ASSUME NEW y \in S PROVE x <= y
  <2>1. CASE y < x
    <3>1. <<y, x>> \in R
      BY <1>1, <2>1
    <3>2. QED
      BY <1>4, <3>1
  <2>2. CASE ~(y < x)
    BY <2>2
  <2>3. QED
    BY <2>1, <2>2
<1>6. QED
  BY <1>5

LEMMA Greatest ==
  ASSUME NEW n \in Nat, NEW S \in SUBSET (1 .. n), S # {}
  PROVE  \E x \in S : \A y \in S : y <= x
<1> DEFINE T == {n - x : x \in S}
<1>1. T \in SUBSET Nat /\ T # {}
  <2>1. \A x \in S : n - x \in Nat
    OBVIOUS
  <2>2. PICK x \in S : TRUE
    OBVIOUS
  <2>3. n - x \in T
    BY <2>2
  <2>4. QED
    BY <2>1, <2>3
<1>2. PICK t \in T : \A u \in T : t <= u
  BY <1>1, Least
<1>3. PICK x \in S : t = n - x
  BY <1>2
<1>4. \A y \in S : n - y \in T
  OBVIOUS
<1>5. \A y \in S : n - x <= n - y
  BY <1>2, <1>3, <1>4
<1>6. QED
  BY <1>3, <1>5

\* What the lines of the structure file hold.
LEMMA StructureLineType ==
  ASSUME NEW line \in StructureLine
  PROVE  /\ line.kind = "root" => line.name \in Name
         /\ line.kind = "node" => /\ line.level \in Int /\ line.name \in Name
                                  /\ line.cell \in CellName /\ line.sink \in BOOLEAN
BY LineAssumption DEF LineOf

-----------------------------------------------------------------------------
(* The nodes: each line of the structure file adds one at the end.         *)

NodeRecord(k) ==
  [kind : {"ROOT", "BUF", "FF"}, name : Name, cell : CellName \cup {""}, level : Int,
   parent : 0 .. k - 1 \cup {-1}, children : Seq(0 .. k - 1), sink : BOOLEAN, cell_idx : Nat]

CellRecord == [name : CellName, ss : Seq(Value), ff : Seq(Value)]

\* The nodes are numbered from 0, the first is a root and roots have level 0.
NodesInv ==
  /\ NNodes \in Nat
  /\ nodes \in [0 .. NNodes - 1 -> NodeRecord(NNodes)]
  /\ stack \in Seq(0 .. NNodes - 1)
  /\ NNodes > 0 => nodes[0].kind = "ROOT"
  /\ \A n \in 0 .. NNodes - 1 : nodes[n].kind = "ROOT" => nodes[n].level = 0
  /\ root_done \in BOOLEAN /\ (root_done <=> NNodes > 0)
  /\ cells \in Seq(CellRecord)
  /\ stage = "library" => NNodes = 0

LEMMA RecordOfParts ==
  ASSUME NEW k \in Nat,
         NEW kind \in {"ROOT", "BUF", "FF"}, NEW name \in Name, NEW cell \in CellName \cup {""},
         NEW level \in Int, NEW parent \in 0 .. k - 1 \cup {-1}, NEW sink \in BOOLEAN,
         NEW idx \in Nat
  PROVE  [kind |-> kind, name |-> name, cell |-> cell, level |-> level, parent |-> parent,
          children |-> <<>>, sink |-> sink, cell_idx |-> idx] \in NodeRecord(k)
<1>1. <<>> \in Seq(0 .. k - 1)
  BY EmptySeq
<1>2. QED
  BY <1>1 DEF NodeRecord

\* A node of k nodes is one of k + 1, with or without the last as a child.
LEMMA WiderRecord ==
  ASSUME NEW k \in Nat, NEW r \in NodeRecord(k)
  PROVE  r \in NodeRecord(k + 1) /\ r.children \in Seq(0 .. k)
<1>1. r.children \in Seq(0 .. k - 1)
  BY DEF NodeRecord
<1>2. r.children \in Seq(0 .. k)
  BY <1>1
<1>3. 0 .. (k + 1) - 1 = 0 .. k
  OBVIOUS
<1>4. r.parent \in 0 .. k \cup {-1}
  <2>1. r.parent \in 0 .. k - 1 \cup {-1}
    BY DEF NodeRecord
  <2>2. QED
    BY <2>1
<1>5. QED
  BY <1>2, <1>3, <1>4 DEF NodeRecord

LEMMA ChildAdded ==
  ASSUME NEW k \in Nat, NEW r \in NodeRecord(k), NEW q, q = [r EXCEPT !.children = Append(@, k)]
  PROVE  q \in NodeRecord(k + 1) /\ q.kind = r.kind /\ q.level = r.level /\ q.parent = r.parent
<1>1. r \in NodeRecord(k + 1) /\ r.children \in Seq(0 .. k)
  BY WiderRecord
<1>2. Append(r.children, k) \in Seq(0 .. k)
  BY <1>1, AppendProperties
<1>3. 0 .. (k + 1) - 1 = 0 .. k
  OBVIOUS
<1> DEFINE c == Append(r.children, k)
<1>4. q = [r EXCEPT !.children = c] /\ c \in Seq(0 .. (k + 1) - 1)
  BY <1>2, <1>3
<1> HIDE DEF c
<1>5. QED
  BY <1>1, <1>4 DEF NodeRecord

LEMMA NumberOfNodes ==
  ASSUME NEW k \in Nat
  PROVE  Cardinality(0 .. k) = k + 1
<1>1. Cardinality(0 .. k) = IF 0 > k THEN 0 ELSE k - 0 + 1
  BY FS_Interval
<1>2. QED
  BY <1>1

LEMMA ExtendedNodes ==
  ASSUME NodesInv, NEW node
  PROVE  /\ DOMAIN Extended(node) = 0 .. NNodes
         /\ Extended(node)[NNodes] = node
         /\ \A n \in 0 .. NNodes - 1 : Extended(node)[n] = nodes[n]
<1>1. NNodes \in Nat
  BY DEF NodesInv
<1> HIDE DEF NNodes
<1>2. QED
  BY <1>1 DEF Extended

\* What a line leaves of the nodes that were there: all but the children.
Same(n) == /\ nodes'[n] \in NodeRecord(NNodes + 1)
           /\ nodes'[n].kind = nodes[n].kind
           /\ nodes'[n].level = nodes[n].level
           /\ nodes'[n].parent = nodes[n].parent

RootNode(name) ==
  [kind |-> "ROOT", name |-> name, cell |-> "", level |-> 0,
   parent |-> -1, children |-> <<>>, sink |-> FALSE, cell_idx |-> 0]

LEMMA RootLineEffect ==
  ASSUME NodesInv, NEW line \in StructureLine, RootLine(line)
  PROVE  /\ NNodes' = NNodes + 1 /\ nodes' = [n \in 0 .. NNodes |-> nodes'[n]]
         /\ nodes'[NNodes].kind = "ROOT" /\ nodes'[NNodes].level = 0
         /\ nodes'[NNodes] \in NodeRecord(NNodes + 1)
         /\ \A n \in 0 .. NNodes - 1 : Same(n)
         /\ nodes'[NNodes] = RootNode(line.name)
         /\ \A n \in 0 .. NNodes - 1 : nodes'[n] = nodes[n]
         /\ stack' = Append(stack, 0)
<1>1. nodes' = Extended(RootNode(line.name)) /\ stack' = Append(stack, 0) /\ line.kind = "root"
  BY DEF RootLine, RootNode
<1>2. /\ DOMAIN nodes' = 0 .. NNodes /\ nodes'[NNodes] = RootNode(line.name)
      /\ \A n \in 0 .. NNodes - 1 : nodes'[n] = nodes[n]
  BY <1>1, ExtendedNodes
<1>9. nodes' = [n \in 0 .. NNodes |-> nodes'[n]]
  <2>1. nodes' = [n \in DOMAIN nodes' |-> nodes'[n]]
    BY <1>1 DEF Extended
  <2>2. QED
    BY <1>2, <2>1, Zenon
<1>3. NNodes' = Cardinality(0 .. NNodes)
  BY <1>2 DEF NNodes
<1>4. NNodes' = NNodes + 1
  BY <1>3, NumberOfNodes DEF NodesInv
<1>5. RootNode(line.name) \in NodeRecord(NNodes + 1)
  <2>1. /\ line.name \in Name /\ "" \in CellName \cup {""} /\ NNodes + 1 \in Nat
        /\ "ROOT" \in {"ROOT", "BUF", "FF"} /\ 0 \in Int /\ FALSE \in BOOLEAN /\ 0 \in Nat
    BY <1>1, StructureLineType DEF NodesInv
  <2>2. ASSUME NEW k \in Nat, NEW nm \in Name
        PROVE  [kind |-> "ROOT", name |-> nm, cell |-> "", level |-> 0, parent |-> -1,
                children |-> <<>>, sink |-> FALSE, cell_idx |-> 0] \in NodeRecord(k)
    <3>1. ASSUME NEW parent \in 0 .. k - 1 \cup {-1}
          PROVE  [kind |-> "ROOT", name |-> nm, cell |-> "", level |-> 0, parent |-> parent,
                  children |-> <<>>, sink |-> FALSE, cell_idx |-> 0] \in NodeRecord(k)
      BY <2>1, RecordOfParts
    <3>2. -1 \in 0 .. k - 1 \cup {-1}
      OBVIOUS
    <3>3. QED
      BY <3>1, <3>2
  <2> HIDE DEF NNodes
  <2>3. QED
    BY <2>1, <2>2 DEF RootNode
<1>6. RootNode(line.name).kind = "ROOT" /\ RootNode(line.name).level = 0
  BY DEF RootNode
<1>7. ASSUME NEW n \in 0 .. NNodes - 1 PROVE Same(n)
  <2>1. NNodes \in Nat /\ nodes[n] \in NodeRecord(NNodes)
    BY DEF NodesInv
  <2> HIDE DEF NNodes
  <2>2. nodes[n] \in NodeRecord(NNodes + 1)
    BY <2>1, WiderRecord
  <2>3. QED
    BY <1>2, <2>2 DEF Same
<1>8. QED
  BY <1>1, <1>2, <1>4, <1>5, <1>6, <1>7, <1>9

\* The pops stop at the last entry of a lower level.
LEMMA DepthIsLast ==
  ASSUME NodesInv, NEW level, Above(level) # {}
  PROVE  /\ Depth(level) \in Above(level) /\ Depth(level) \in 1 .. Len(stack)
         /\ \A i \in Above(level) : i <= Depth(level)
<1>1. Above(level) \in SUBSET (1 .. Len(stack)) /\ Len(stack) \in Nat
  BY DEF Above, NodesInv
<1>2. \E x \in Above(level) : \A y \in Above(level) : y <= x
  BY <1>1, Greatest
<1>3. QED
  BY <1>1, <1>2 DEF Depth

LEMMA FoundCell ==
  ASSUME NodesInv, NEW name, CellsNamed(name) # {}
  PROVE  FindCell(name) \in Nat
<1>1. CellsNamed(name) \in SUBSET Nat
  BY DEF CellsNamed, NodesInv
<1>2. \E c \in CellsNamed(name) : \A e \in CellsNamed(name) : c <= e
  BY <1>1, Least
<1>3. FindCell(name) \in CellsNamed(name)
  BY <1>2 DEF FindCell
<1>4. QED
  BY <1>1, <1>3

LEMMA NodeLineEffect ==
  ASSUME NodesInv, NEW line \in StructureLine, NodeLine(line)
  PROVE  \E d \in 1 .. Len(stack) :
         /\ nodes[stack[d]].level < line.level
         /\ \A i \in 1 .. Len(stack) : nodes[stack[i]].level < line.level => i <= d
         /\ NNodes' = NNodes + 1 /\ nodes' = [n \in 0 .. NNodes |-> nodes'[n]]
         /\ nodes'[NNodes] \in NodeRecord(NNodes + 1)
         /\ nodes'[NNodes].kind # "ROOT"
         /\ nodes'[NNodes].level = line.level /\ line.level \in Int
         /\ nodes'[NNodes].parent = stack[d]
         /\ \A n \in 0 .. NNodes - 1 : Same(n)
         /\ nodes'[NNodes] = NewNode(line, stack[d])
         /\ nodes'[stack[d]] = [nodes[stack[d]] EXCEPT !.children = Append(@, NNodes)]
         /\ \A n \in 0 .. NNodes - 1 : n # stack[d] => nodes'[n] = nodes[n]
         /\ stack' = Append(SubSeq(stack, 1, d), NNodes)
<1> DEFINE d == Depth(line.level)
           node == NewNode(line, stack[d])
           ext == Extended(node)
<1>1. /\ line.kind = "node" /\ Above(line.level) # {}
      /\ nodes' = [ext EXCEPT ![stack[d]].children = Append(@, NNodes)]
      /\ stack' = Append(SubSeq(stack, 1, d), NNodes)
      /\ line.name \in FFName \/ CellsNamed(line.cell) # {}
  BY DEF NodeLine
<1>2. /\ d \in 1 .. Len(stack) /\ nodes[stack[d]].level < line.level
      /\ \A i \in 1 .. Len(stack) : nodes[stack[i]].level < line.level => i <= d
  <2>1. /\ d \in Above(line.level) /\ d \in 1 .. Len(stack)
        /\ \A i \in Above(line.level) : i <= d
    BY <1>1, DepthIsLast
  <2>2. DOMAIN stack = 1 .. Len(stack)
    BY DEF NodesInv
  <2> HIDE DEF d
  <2>3. QED
    BY <2>1, <2>2 DEF Above
<1>3. stack[d] \in 0 .. NNodes - 1 /\ NNodes \in Nat
  <2> HIDE DEF d, NNodes
  <2>1. QED
    BY <1>2 DEF NodesInv
<1>4. /\ DOMAIN ext = 0 .. NNodes /\ ext[NNodes] = node
      /\ \A n \in 0 .. NNodes - 1 : ext[n] = nodes[n]
  BY ExtendedNodes
<1>5. /\ node \in NodeRecord(NNodes + 1) /\ node.kind # "ROOT"
      /\ node.level = line.level /\ node.parent = stack[d] /\ line.level \in Int
  <2>1. line.name \notin FFName => FindCell(line.cell) \in Nat
    BY <1>1, FoundCell
  <2>2. stack[d] \in Int /\ line.level \in Int
    <3> HIDE DEF d, NNodes
    <3>1. QED
      BY <1>1, <1>3, StructureLineType
  <2> DEFINE kind == IF line.name \in FFName THEN "FF" ELSE "BUF"
             idx == IF line.name \in FFName THEN 0 ELSE FindCell(line.cell)
  <2>3. /\ kind \in {"ROOT", "BUF", "FF"} /\ kind # "ROOT" /\ idx \in Nat
        /\ line.name \in Name /\ line.cell \in CellName \cup {""} /\ line.sink \in BOOLEAN
    BY <1>1, <2>1, StructureLineType
  <2>4. node = [kind |-> kind, name |-> line.name, cell |-> line.cell, level |-> line.level,
                parent |-> stack[d], children |-> <<>>, sink |-> line.sink, cell_idx |-> idx]
    BY DEF NewNode
  <2>5. stack[d] \in 0 .. (NNodes + 1) - 1 \cup {-1} /\ NNodes + 1 \in Nat
    <3> HIDE DEF d, NNodes
    <3>1. QED
      BY <1>3
  <2> HIDE DEF d, NNodes, node, kind, idx
  <2> DEFINE l == NNodes + 1
             p == stack[d]
  <2>6. node \in NodeRecord(l)
    <3>1. l \in Nat /\ p \in 0 .. l - 1 \cup {-1}
      BY <2>5
    <3> HIDE DEF l, p
    <3>2. [kind |-> kind, name |-> line.name, cell |-> line.cell, level |-> line.level,
           parent |-> p, children |-> <<>>, sink |-> line.sink, cell_idx |-> idx]
          \in NodeRecord(l)
      BY <2>2, <2>3, <3>1, RecordOfParts
    <3>3. QED
      BY <2>4, <3>2 DEF p
  <2>7. QED
    BY <2>2, <2>3, <2>4, <2>6
<1>0. node = NewNode(line, stack[d])
  OBVIOUS
<1> HIDE DEF d, ext, node
<1>6. DOMAIN nodes' = 0 .. NNodes
  BY <1>1, <1>4
<1>11. nodes' = [n \in 0 .. NNodes |-> nodes'[n]]
  <2>1. nodes' = [n \in DOMAIN nodes' |-> nodes'[n]]
    BY <1>1
  <2>2. QED
    BY <1>6, <2>1, Zenon
<1>7. NNodes' = NNodes + 1
  <2>1. NNodes' = Cardinality(0 .. NNodes)
    BY <1>6 DEF NNodes
  <2>2. QED
    BY <1>3, <2>1, NumberOfNodes
<1> HIDE DEF NNodes
<1>8. nodes'[NNodes] = node
  BY <1>1, <1>3, <1>4
<1>12. nodes'[stack[d]] = [nodes[stack[d]] EXCEPT !.children = Append(@, NNodes)]
  <2>1. stack[d] \in DOMAIN ext /\ ext[stack[d]] = nodes[stack[d]]
    BY <1>3, <1>4
  <2>2. QED
    BY <1>1, <2>1, Zenon
<1>13. ASSUME NEW n \in 0 .. NNodes - 1, n # stack[d] PROVE nodes'[n] = nodes[n]
  BY <1>1, <1>3, <1>4, <1>13
<1>9. ASSUME NEW n \in 0 .. NNodes - 1 PROVE Same(n)
  <2>1. nodes[n] \in NodeRecord(NNodes) /\ nodes[n] \in NodeRecord(NNodes + 1)
    BY <1>3, WiderRecord DEF NodesInv
  <2>2. CASE n = stack[d]
    BY <1>3, <1>12, <2>1, <2>2, ChildAdded DEF Same
  <2>3. CASE n # stack[d]
    BY <1>13, <2>1, <2>3 DEF Same
  <2>4. QED
    BY <2>2, <2>3
<1>10. QED
  BY <1>0, <1>1, <1>2, <1>5, <1>7, <1>8, <1>9, <1>11, <1>12, <1>13

-----------------------------------------------------------------------------
(* Types.                                                                  *)

AnyLine == LibraryLine \cup StructureLine \cup ReportLine

TypeInv ==
  /\ stage \in File \cup {"loaded", "failed"}
  /\ read \in Seq(AnyLine)
  /\ Len(cells) <= MaxCells
  /\ in_cell \in BOOLEAN /\ (in_cell => cells # <<>>)
  /\ in_paths \in BOOLEAN
  /\ NodesInv

LEMMA StructureStep ==
  ASSUME NodesInv, NEW line \in StructureLine, RootLine(line) \/ NodeLine(line)
  PROVE  NodesInv'
<1>1. /\ NNodes' = NNodes + 1 /\ nodes' = [n \in 0 .. NNodes |-> nodes'[n]]
      /\ \A n \in 0 .. NNodes - 1 : Same(n)
      /\ nodes'[NNodes] \in NodeRecord(NNodes + 1)
      /\ nodes'[NNodes].kind = "ROOT" => nodes'[NNodes].level = 0
      /\ NNodes = 0 => nodes'[NNodes].kind = "ROOT"
  <2>1. CASE RootLine(line)
    BY <2>1, RootLineEffect
  <2>2. CASE NodeLine(line)
    <3>1. NNodes # 0
      BY <2>2 DEF NodeLine, NodesInv
    <3>2. QED
      BY <2>2, <3>1, NodeLineEffect
  <2>3. QED
    BY <2>1, <2>2
<1>2. /\ NNodes \in Nat /\ nodes \in [0 .. NNodes - 1 -> NodeRecord(NNodes)]
      /\ NNodes > 0 => nodes[0].kind = "ROOT"
      /\ \A n \in 0 .. NNodes - 1 : nodes[n].kind = "ROOT" => nodes[n].level = 0
      /\ stack \in Seq(0 .. NNodes - 1)
  BY DEF NodesInv
<1>3. stack' \in Seq(0 .. NNodes)
  <2>1. CASE RootLine(line)
    <3>1. stack' = Append(stack, 0)
      BY <2>1, RootLineEffect
    <3> HIDE DEF NNodes
    <3>2. stack \in Seq(0 .. NNodes) /\ 0 \in 0 .. NNodes
      BY <1>2
    <3>3. QED
      BY <3>1, <3>2, AppendProperties
  <2>2. CASE NodeLine(line)
    <3>1. PICK d \in 1 .. Len(stack) : stack' = Append(SubSeq(stack, 1, d), NNodes)
      BY <2>2, NodeLineEffect
    <3> HIDE DEF NNodes
    <3>2. stack \in Seq(0 .. NNodes) /\ NNodes \in 0 .. NNodes /\ Len(stack) \in Nat
      BY <1>2
    <3>3. SubSeq(stack, 1, d) \in Seq(0 .. NNodes)
      BY <3>2, SubSeqProperties
    <3>4. QED
      BY <3>1, <3>2, <3>3, AppendProperties
  <2>3. QED
    BY <2>1, <2>2
<1>4. cells' = cells /\ root_done' = TRUE /\ stage = "structure" /\ stage' = stage
  <2>1. CASE RootLine(line)
    BY <2>1 DEF RootLine, Line, GoOn, library
  <2>2. CASE NodeLine(line)
    BY <2>2 DEF NodeLine, Line, GoOn, library, NodesInv
  <2>3. QED
    BY <2>1, <2>2
<1>5. cells \in Seq(CellRecord)
  BY DEF NodesInv
<1>6. /\ NNodes' \in Nat /\ NNodes' > 0 /\ NNodes' - 1 = NNodes
      /\ nodes' \in [0 .. NNodes -> NodeRecord(NNodes')]
      /\ nodes'[0].kind = "ROOT"
      /\ \A n \in 0 .. NNodes : nodes'[n].kind = "ROOT" => nodes'[n].level = 0
  <2> DEFINE k == NNodes
             l == NNodes'
  <2> HIDE DEF k, l
  <2>1. /\ l = k + 1 /\ nodes' = [n \in 0 .. k |-> nodes'[n]] /\ k \in Nat
        /\ nodes'[k] \in NodeRecord(k + 1)
        /\ nodes'[k].kind = "ROOT" => nodes'[k].level = 0
        /\ k = 0 => nodes'[k].kind = "ROOT"
        /\ k > 0 => nodes[0].kind = "ROOT"
        /\ \A n \in 0 .. k - 1 : /\ nodes'[n] \in NodeRecord(k + 1)
                                 /\ nodes'[n].kind = nodes[n].kind
                                 /\ nodes'[n].level = nodes[n].level
                                 /\ nodes[n].kind = "ROOT" => nodes[n].level = 0
    BY <1>1, <1>2 DEF k, l, Same
  <2>2. \A n \in 0 .. k : n = k \/ n \in 0 .. k - 1
    BY <2>1
  <2>3. /\ \A n \in 0 .. k : nodes'[n] \in NodeRecord(l)
        /\ \A n \in 0 .. k : nodes'[n].kind = "ROOT" => nodes'[n].level = 0
    BY <2>1, <2>2
  <2>4. nodes' \in [0 .. k -> NodeRecord(l)]
    BY <2>1, <2>3
  <2>5. nodes'[0].kind = "ROOT"
    BY <2>1
  <2>6. l \in Nat /\ l > 0 /\ l - 1 = k
    BY <2>1
  <2>7. QED
    BY <2>3, <2>4, <2>5, <2>6 DEF k, l
<1> HIDE DEF NNodes
<1>7. QED
  BY <1>3, <1>4, <1>5, <1>6 DEF NodesInv

LEMMA LibraryLineType ==
  ASSUME NEW line \in LibraryLine
  PROVE  /\ line.kind = "cell" => line.name \in CellName
         /\ line.kind = "row" => line.corner \in {"ss", "ff"} /\ line.delays \in Seq(Value)
BY LineAssumption DEF LineOf

LEMMA OverwriteType ==
  ASSUME NEW old \in Seq(Value), NEW row \in Seq(Value)
  PROVE  Overwrite(old, row) \in Seq(Value)
<1>1. Len(row) \in Nat /\ Len(old) \in Nat
  OBVIOUS
<1>2. \A i \in Len(row) + 1 .. Len(old) : old[i] \in Value
  BY <1>1
<1>3. SubSeq(old, Len(row) + 1, Len(old)) \in Seq(Value)
  BY <1>1, <1>2, SubSeqProperties
<1>4. QED
  BY <1>3, ConcatProperties DEF Overwrite

LEMMA AppendedRead ==
  ASSUME read \in Seq(AnyLine), NEW line \in AnyLine, NEW file, Line(file, line)
  PROVE  read' \in Seq(AnyLine) /\ stage = file
BY AppendProperties DEF Line

\* The library: whatever its lines, a list of at most MaxCells cells.
LEMMA LibraryStep ==
  ASSUME TypeInv, NEW line \in LibraryLine,
         CellLine(line) \/ RowLine(line) \/ OtherLibraryLine(line)
  PROVE  TypeInv'
<1>1. line \in AnyLine
  BY DEF AnyLine
<1>2. Line("library", line) /\ UNCHANGED tree /\ UNCHANGED in_paths
  BY DEF CellLine, RowLine, OtherLibraryLine, report
<1>3. read' \in Seq(AnyLine) /\ stage = "library"
  BY <1>1, <1>2, AppendedRead DEF TypeInv
<1>4. /\ cells' \in Seq(CellRecord) /\ Len(cells') <= MaxCells
      /\ in_cell' \in BOOLEAN /\ (in_cell' => cells' # <<>>)
      /\ stage' \in {"library", "failed"}
  <2>1. /\ cells \in Seq(CellRecord) /\ Len(cells) <= MaxCells /\ Len(cells) \in Nat
        /\ in_cell \in BOOLEAN /\ (in_cell => cells # <<>>) /\ MaxCells \in Nat
    BY LimitAssumption DEF TypeInv, NodesInv
  <2>2. CASE CellLine(line) /\ Len(cells) >= MaxCells
    BY <2>1, <2>2 DEF CellLine, Fail, library
  <2>3. CASE CellLine(line) /\ ~(Len(cells) >= MaxCells)
    <3> DEFINE new == [name |-> line.name, ss |-> <<>>, ff |-> <<>>]
    <3>1. cells' = Append(cells, new) /\ in_cell' = TRUE /\ stage' = stage
      BY <2>3 DEF CellLine, GoOn
    <3>2. <<>> \in Seq(Value) /\ line.name \in CellName
      BY <2>3, EmptySeq, LibraryLineType DEF CellLine
    <3>3. new \in CellRecord
      BY <3>2 DEF CellRecord
    <3> HIDE DEF new
    <3>4. cells' \in Seq(CellRecord) /\ cells' # <<>> /\ Len(cells') = Len(cells) + 1
      BY <2>1, <3>1, <3>3, AppendProperties
    <3>5. QED
      BY <1>3, <2>1, <2>3, <3>1, <3>4
  <2>4. CASE RowLine(line) /\ in_cell
    <3> DEFINE c == Len(cells)
               old == cells[c]
    <3>1. /\ cells' = [cells EXCEPT ![c][line.corner] = Overwrite(@, line.delays)]
          /\ in_cell' = in_cell /\ stage' = stage
      BY <2>4 DEF RowLine, GoOn
    <3>2. line.corner \in {"ss", "ff"} /\ line.delays \in Seq(Value)
      BY <2>4, LibraryLineType DEF RowLine
    <3>3. c \in 1 .. Len(cells)
      BY <2>1, <2>4
    <3>4. old \in CellRecord
      BY <2>1, <3>3
    <3>5. old[line.corner] \in Seq(Value)
      BY <3>2, <3>4 DEF CellRecord
    <3>6. Overwrite(old[line.corner], line.delays) \in Seq(Value)
      BY <3>2, <3>5, OverwriteType
    <3> DEFINE new == [old EXCEPT ![line.corner] = Overwrite(@, line.delays)]
    <3>7. new \in CellRecord
      <4> DEFINE over == Overwrite(old[line.corner], line.delays)
      <4>1. new = [old EXCEPT ![line.corner] = over] /\ over \in Seq(Value)
        BY <3>6
      <4> HIDE DEF old, new, over
      <4>2. QED
        BY <3>2, <3>4, <4>1 DEF CellRecord
    <3>8. cells' = [cells EXCEPT ![c] = new]
      BY <3>1
    <3> HIDE DEF new
    <3>9. cells' \in Seq(CellRecord) /\ Len(cells') = Len(cells)
      BY <2>1, <3>3, <3>7, <3>8
    <3>10. cells' # <<>>
      BY <2>1, <3>3, <3>9
    <3>11. QED
      BY <1>3, <2>1, <3>1, <3>9, <3>10
  <2>5. CASE RowLine(line) /\ ~in_cell
    BY <1>3, <2>1, <2>5 DEF RowLine, GoOn
  <2>6. CASE OtherLibraryLine(line)
    BY <1>3, <2>1, <2>6 DEF OtherLibraryLine, GoOn
  <2>7. QED
    BY <2>2, <2>3, <2>4, <2>5, <2>6
<1>5. NNodes' = NNodes /\ nodes' = nodes /\ stack' = stack /\ root_done' = root_done
  BY <1>2 DEF tree, NNodes
<1> HIDE DEF NNodes
<1>6. NodesInv'
  BY <1>3, <1>4, <1>5 DEF TypeInv, NodesInv
<1>7. QED
  BY <1>2, <1>3, <1>4, <1>6 DEF TypeInv, File

\* What touches neither the library nor the tree.
LEMMA OtherStep ==
  ASSUME TypeInv, UNCHANGED <<cells, nodes, root_done>>,
         stack' \in {stack, <<>>}, in_cell' \in {in_cell, FALSE}, in_paths' \in BOOLEAN,
         read' \in Seq(AnyLine),
         stage' \in {stage, "structure", "SS", "FF", "loaded", "failed"}
  PROVE  TypeInv'
<1>1. NNodes' = NNodes
  BY DEF NNodes
<1>2. stack' \in Seq(0 .. NNodes - 1)
  BY EmptySeq DEF TypeInv, NodesInv
<1> HIDE DEF NNodes
<1>3. NodesInv'
  BY <1>1, <1>2 DEF TypeInv, NodesInv
<1>4. in_cell' \in BOOLEAN /\ (in_cell' => cells' # <<>>)
  <2>1. CASE in_cell' = in_cell
    BY <2>1 DEF TypeInv
  <2>2. CASE in_cell' = FALSE
    BY <2>2
  <2>3. QED
    BY <2>1, <2>2
<1>5. Len(cells') <= MaxCells /\ stage' \in File \cup {"loaded", "failed"}
  BY DEF TypeInv, File
<1>6. QED
  BY <1>3, <1>4, <1>5 DEF TypeInv

LEMMA TypeStep ==
  ASSUME TypeInv, [Next]_vars
  PROVE  TypeInv'
<1>1. CASE CannotOpen
  BY <1>1, OtherStep DEF CannotOpen, Fail, library, tree, report, TypeInv
<1>2. ASSUME NEW line \in LibraryLine,
             CellLine(line) \/ RowLine(line) \/ OtherLibraryLine(line)
      PROVE  TypeInv'
  BY <1>2, LibraryStep
<1>3. ASSUME NEW line \in StructureLine, RootLine(line) \/ NodeLine(line)
      PROVE  TypeInv'
  <2>1. NodesInv'
    BY <1>3, StructureStep DEF TypeInv
  <2>2. /\ Line("structure", line) /\ stage' = stage
        /\ UNCHANGED <<cells, in_cell, in_paths>>
    BY <1>3 DEF RootLine, NodeLine, GoOn, library, report
  <2>3. read' \in Seq(AnyLine)
    BY <2>2, AppendedRead DEF TypeInv, AnyLine
  <2>4. QED
    BY <2>1, <2>2, <2>3 DEF TypeInv
<1>4. ASSUME NEW line \in StructureLine, BadLine(line) \/ PassedOver(line)
      PROVE  TypeInv'
  <2>1. Line("structure", line) /\ stage' \in {stage, "failed"} /\ UNCHANGED <<library, tree, report>>
    BY <1>4 DEF BadLine, PassedOver, Fail, GoOn
  <2>2. read' \in Seq(AnyLine)
    BY <2>1, AppendedRead DEF TypeInv, AnyLine
  <2>3. QED
    BY <2>1, <2>2, OtherStep DEF library, tree, report, TypeInv
<1>5. ASSUME NEW line \in ReportLine, SSRow(line) \/ FFRow(line) \/ OtherReportLine(line)
      PROVE  TypeInv'
  <2>1. /\ \E file \in {"SS", "FF"} : Line(file, line)
        /\ stage' \in {stage, "failed"} /\ UNCHANGED <<library, tree>>
    BY <1>5 DEF SSRow, FFRow, OtherReportLine, Fail, GoOn
  <2>2. read' \in Seq(AnyLine)
    BY <2>1, AppendedRead DEF TypeInv, AnyLine
  <2>3. in_paths' \in BOOLEAN
    BY <1>5 DEF SSRow, FFRow, OtherReportLine, TypeInv
  <2>4. QED
    BY <2>1, <2>2, <2>3, OtherStep DEF library, tree, TypeInv
<1>6. CASE EndOfFile
  BY <1>6, OtherStep, EmptySeq DEF EndOfFile, File
<1>7. CASE UNCHANGED vars
  BY <1>7, OtherStep DEF vars, library, tree, report, TypeInv
<1>8. QED
  BY <1>1, <1>2, <1>3, <1>4, <1>5, <1>6, <1>7 DEF Next, ReadLine, Terminated

-----------------------------------------------------------------------------
(* The stack stands for the nodes that can still get children: r names     *)
(* them, oldest first.  Every other node is hidden behind a later one of   *)
(* them that is no deeper.                                                 *)

StandsFor(r) ==
  /\ r \in [1 .. Len(stack) -> 0 .. NNodes - 1]
  /\ \A i, j \in 1 .. Len(stack) : i < j => r[i] < r[j]
  /\ \A i \in 1 .. Len(stack) :
       /\ nodes[stack[i]].level = nodes[r[i]].level
       /\ stack[i] = IF nodes[r[i]].kind = "ROOT" THEN 0 ELSE r[i]
  /\ \A m \in 0 .. NNodes - 1 :
       \E i \in 1 .. Len(stack) :
         m = r[i] \/ (m < r[i] /\ nodes[r[i]].level <= nodes[m].level)

StackInv == stage = "structure" => \E r : StandsFor(r)

TreeInv == TypeInv /\ StackInv /\ ParentIsNearestAbove

LEMMA RootKeepsStack ==
  ASSUME TreeInv, NEW line \in StructureLine, RootLine(line)
  PROVE  StackInv'
<1>1. /\ NNodes' = NNodes + 1 /\ nodes' = [n \in 0 .. NNodes |-> nodes'[n]]
      /\ nodes'[NNodes].kind = "ROOT" /\ nodes'[NNodes].level = 0
      /\ \A n \in 0 .. NNodes - 1 : nodes'[n].kind = nodes[n].kind /\ nodes'[n].level = nodes[n].level
      /\ stack' = Append(stack, 0)
  BY RootLineEffect DEF TreeInv, TypeInv, Same
<1>2. /\ NNodes \in Nat /\ stack \in Seq(0 .. NNodes - 1)
      /\ nodes \in [0 .. NNodes - 1 -> NodeRecord(NNodes)]
      /\ NNodes > 0 => nodes[0].kind = "ROOT"
      /\ \A n \in 0 .. NNodes - 1 : nodes[n].kind = "ROOT" => nodes[n].level = 0
  BY DEF TreeInv, TypeInv, NodesInv
<1>3. stage = "structure"
  BY DEF RootLine, Line
<1>4. PICK r : StandsFor(r)
  BY <1>3 DEF TreeInv, StackInv
<1> DEFINE k == NNodes
           len == Len(stack)
           s == [i \in 1 .. len + 1 |-> IF i = len + 1 THEN k ELSE r[i]]
<1>5. /\ len \in Nat /\ Len(stack') = len + 1 /\ k \in Nat /\ NNodes' - 1 = k
      /\ stack'[len + 1] = 0 /\ \A i \in 1 .. len : stack'[i] = stack[i] /\ stack[i] \in 0 .. k - 1
      /\ \A i \in 1 .. len + 1 : i = len + 1 \/ i \in 1 .. len
      /\ \A n \in 0 .. k : n = k \/ n \in 0 .. k - 1
  BY <1>1, <1>2, AppendProperties
<1>6. /\ \A i \in 1 .. len : r[i] \in 0 .. k - 1
      /\ \A i, j \in 1 .. len : i < j => r[i] < r[j]
      /\ \A i \in 1 .. len :
           /\ nodes[stack[i]].level = nodes[r[i]].level
           /\ stack[i] = IF nodes[r[i]].kind = "ROOT" THEN 0 ELSE r[i]
      /\ \A m \in 0 .. k - 1 :
           \E i \in 1 .. len : m = r[i] \/ (m < r[i] /\ nodes[r[i]].level <= nodes[m].level)
  BY <1>4 DEF StandsFor
<1>7. /\ nodes'[0].level = 0
      /\ nodes'[k].level = 0 /\ nodes'[k].kind = "ROOT"
      /\ \A n \in 0 .. k - 1 : nodes'[n].kind = nodes[n].kind /\ nodes'[n].level = nodes[n].level
  <2> HIDE DEF NNodes
  <2>1. CASE NNodes = 0
    BY <1>1, <2>1
  <2>2. CASE NNodes # 0
    <3>1. 0 \in 0 .. NNodes - 1 /\ nodes[0].kind = "ROOT"
      BY <1>2, <2>2
    <3>2. QED
      BY <1>1, <1>2, <3>1
  <2>3. QED
    BY <2>1, <2>2
<1>8. s[len + 1] = k /\ \A i \in 1 .. len : s[i] = r[i]
  BY <1>5
<1> HIDE DEF k, len
<1>9. s \in [1 .. len + 1 -> 0 .. k]
  BY <1>5, <1>6
<1> HIDE DEF s
<1>10. ASSUME NEW i \in 1 .. len + 1, NEW j \in 1 .. len + 1, i < j
       PROVE  s[i] < s[j]
  <2>1. i \in 1 .. len
    BY <1>5, <1>10
  <2>2. CASE j = len + 1
    BY <1>5, <1>6, <1>8, <2>1, <2>2
  <2>3. CASE j \in 1 .. len
    BY <1>6, <1>8, <1>10, <2>1, <2>3
  <2>4. QED
    BY <1>5, <2>2, <2>3
<1>11. ASSUME NEW i \in 1 .. len + 1
       PROVE  /\ nodes'[stack'[i]].level = nodes'[s[i]].level
              /\ stack'[i] = IF nodes'[s[i]].kind = "ROOT" THEN 0 ELSE s[i]
  <2>1. CASE i = len + 1
    BY <1>5, <1>7, <1>8, <2>1
  <2>2. CASE i \in 1 .. len
    <3>1. stack'[i] = stack[i] /\ stack[i] \in 0 .. k - 1 /\ s[i] = r[i] /\ r[i] \in 0 .. k - 1
      BY <1>5, <1>6, <1>8, <2>2
    <3>2. /\ nodes[stack[i]].level = nodes[r[i]].level
          /\ stack[i] = IF nodes[r[i]].kind = "ROOT" THEN 0 ELSE r[i]
      BY <1>6, <2>2
    <3>3. /\ nodes'[stack[i]].level = nodes[stack[i]].level
          /\ nodes'[r[i]].level = nodes[r[i]].level
          /\ nodes'[r[i]].kind = nodes[r[i]].kind
      BY <1>7, <3>1
    <3>4. QED
      BY <3>1, <3>2, <3>3
  <2>3. QED
    BY <1>5, <2>1, <2>2
<1>12. ASSUME NEW m \in 0 .. k
       PROVE  \E i \in 1 .. len + 1 :
                m = s[i] \/ (m < s[i] /\ nodes'[s[i]].level <= nodes'[m].level)
  <2>1. CASE m = k
    BY <1>5, <1>8, <2>1
  <2>2. CASE m \in 0 .. k - 1
    <3>1. PICK i \in 1 .. len : m = r[i] \/ (m < r[i] /\ nodes[r[i]].level <= nodes[m].level)
      BY <1>6, <2>2
    <3>2. i \in 1 .. len + 1
      BY <1>5
    <3>3. QED
      BY <1>6, <1>7, <1>8, <2>2, <3>1, <3>2
  <2>3. QED
    BY <1>5, <2>1, <2>2
<1>13. PICK q : q = s
  OBVIOUS
<1> HIDE DEF NNodes
<1>14. StandsFor(q)'
  BY <1>5, <1>9, <1>10, <1>11, <1>12, <1>13 DEF StandsFor
<1>15. QED
  BY <1>14 DEF StackInv

\* A node line cuts the stack behind the parent and adds the node; what it
\* cuts off, the node hides.
LEMMA NodeKeepsStack ==
  ASSUME TreeInv, NEW line \in StructureLine, NodeLine(line)
  PROVE  StackInv' /\ ParentIsNearestAbove'
<1>1. PICK d \in 1 .. Len(stack) :
         /\ nodes[stack[d]].level < line.level
         /\ \A i \in 1 .. Len(stack) : nodes[stack[i]].level < line.level => i <= d
         /\ NNodes' = NNodes + 1 /\ nodes' = [n \in 0 .. NNodes |-> nodes'[n]]
         /\ nodes'[NNodes].kind # "ROOT"
         /\ nodes'[NNodes].level = line.level /\ line.level \in Int
         /\ nodes'[NNodes].parent = stack[d]
         /\ \A n \in 0 .. NNodes - 1 : Same(n)
         /\ stack' = Append(SubSeq(stack, 1, d), NNodes)
  BY NodeLineEffect DEF TreeInv, TypeInv
<1>2. /\ NNodes \in Nat /\ stack \in Seq(0 .. NNodes - 1) /\ Len(stack) \in Nat
      /\ DOMAIN nodes = 0 .. NNodes - 1
      /\ \A n \in 0 .. NNodes - 1 : nodes[n] \in NodeRecord(NNodes)
  BY DEF TreeInv, TypeInv, NodesInv
<1>3. stage = "structure"
  BY DEF NodeLine, Line
<1>4. PICK r : StandsFor(r)
  BY <1>3 DEF TreeInv, StackInv
<1> DEFINE k == NNodes
           len == Len(stack)
           s == [i \in 1 .. d + 1 |-> IF i = d + 1 THEN k ELSE r[i]]
<1>5. /\ len \in Nat /\ d \in 1 .. len /\ k \in Nat /\ NNodes' - 1 = k
      /\ \A i \in 1 .. d + 1 : i = d + 1 \/ (i \in 1 .. d /\ i \in 1 .. len)
      /\ \A n \in 0 .. k : n = k \/ n \in 0 .. k - 1
  <2>1. len \in Nat /\ d \in 1 .. len /\ k \in Nat /\ NNodes' = k + 1
    BY <1>1, <1>2
  <2> HIDE DEF len, k, s
  <2>2. QED
    BY <2>1
<1>6. /\ \A i \in 1 .. len : r[i] \in 0 .. k - 1
      /\ \A i, j \in 1 .. len : i < j => r[i] < r[j]
      /\ \A i \in 1 .. len :
           /\ nodes[stack[i]].level = nodes[r[i]].level
           /\ stack[i] = IF nodes[r[i]].kind = "ROOT" THEN 0 ELSE r[i]
      /\ \A m \in 0 .. k - 1 :
           \E i \in 1 .. len : m = r[i] \/ (m < r[i] /\ nodes[r[i]].level <= nodes[m].level)
  BY <1>4 DEF StandsFor
<1>7. /\ nodes'[k].level = line.level /\ line.level \in Int /\ nodes'[k].kind # "ROOT"
      /\ nodes'[k].parent = stack[d]
      /\ \A n \in 0 .. k - 1 : /\ nodes'[n].kind = nodes[n].kind
                               /\ nodes'[n].level = nodes[n].level
                               /\ nodes'[n].parent = nodes[n].parent
                               /\ nodes[n].level \in Int
      /\ DOMAIN nodes = 0 .. k - 1 /\ DOMAIN nodes' = 0 .. k
  <2> HIDE DEF NNodes
  <2>1. \A n \in 0 .. NNodes - 1 : nodes[n].level \in Int
    BY <1>2 DEF NodeRecord
  <2>2. DOMAIN nodes' = 0 .. NNodes
    BY <1>1, Zenon
  <2>3. QED
    BY <1>1, <1>2, <2>1, <2>2 DEF Same
<1>8. s[d + 1] = k /\ \A i \in 1 .. d : s[i] = r[i]
  BY <1>5
<1>9. /\ Len(stack') = d + 1 /\ stack'[d + 1] = k
      /\ \A i \in 1 .. d : stack'[i] = stack[i] /\ stack[i] \in 0 .. k - 1
  <2> HIDE DEF NNodes
  <2>1. \A i \in 1 .. d : stack[i] \in 0 .. NNodes
    BY <1>2
  <2>2. /\ SubSeq(stack, 1, d) \in Seq(0 .. NNodes) /\ Len(SubSeq(stack, 1, d)) = d
        /\ \A i \in 1 .. d : SubSeq(stack, 1, d)[i] = stack[i]
    BY <1>2, <2>1, SubSeqProperties
  <2>3. NNodes \in 0 .. NNodes
    BY <1>2
  <2>4. /\ Len(stack') = d + 1 /\ stack'[d + 1] = NNodes
        /\ \A i \in 1 .. d : stack'[i] = stack[i]
    BY <1>1, <2>2, <2>3, AppendProperties
  <2>5. \A i \in 1 .. d : stack[i] \in 0 .. NNodes - 1
    BY <1>2
  <2>6. QED
    BY <2>4, <2>5
<1> DEFINE level == line.level
<1>10. \A i \in 1 .. len : /\ nodes[r[i]].level < level => i <= d
                           /\ i = d => nodes[r[i]].level < level
  BY <1>1, <1>6
<1> HIDE DEF k, len, level
<1>11. s \in [1 .. d + 1 -> 0 .. k]
  BY <1>5, <1>6
<1> HIDE DEF s
<1>12. ASSUME NEW i \in 1 .. d + 1, NEW j \in 1 .. d + 1, i < j
       PROVE  s[i] < s[j]
  <2>1. i \in 1 .. d /\ i \in 1 .. len
    BY <1>5, <1>12
  <2>2. CASE j = d + 1
    <3>1. s[i] = r[i] /\ s[j] = k
      BY <1>8, <2>1, <2>2
    <3>2. r[i] \in 0 .. k - 1
      BY <1>6, <2>1
    <3>3. QED
      BY <1>5, <3>1, <3>2
  <2>3. CASE j \in 1 .. d /\ j \in 1 .. len
    <3>1. s[i] = r[i] /\ s[j] = r[j]
      BY <1>8, <2>1, <2>3
    <3>2. r[i] < r[j]
      BY <1>6, <1>12, <2>1, <2>3
    <3>3. QED
      BY <3>1, <3>2
  <2>4. QED
    BY <1>5, <2>2, <2>3
<1>13. ASSUME NEW i \in 1 .. d + 1
       PROVE  /\ nodes'[stack'[i]].level = nodes'[s[i]].level
              /\ stack'[i] = IF nodes'[s[i]].kind = "ROOT" THEN 0 ELSE s[i]
  <2>1. CASE i = d + 1
    BY <1>7, <1>8, <1>9, <2>1
  <2>2. CASE i \in 1 .. d /\ i \in 1 .. len
    <3>1. stack'[i] = stack[i] /\ stack[i] \in 0 .. k - 1 /\ s[i] = r[i] /\ r[i] \in 0 .. k - 1
      BY <1>6, <1>8, <1>9, <2>2
    <3>2. /\ nodes[stack[i]].level = nodes[r[i]].level
          /\ stack[i] = IF nodes[r[i]].kind = "ROOT" THEN 0 ELSE r[i]
      BY <1>6, <2>2
    <3>3. /\ nodes'[stack[i]].level = nodes[stack[i]].level
          /\ nodes'[r[i]].level = nodes[r[i]].level
          /\ nodes'[r[i]].kind = nodes[r[i]].kind
      BY <1>7, <3>1
    <3>4. QED
      BY <3>1, <3>2, <3>3
  <2>3. QED
    BY <1>5, <2>1, <2>2
<1>14. ASSUME NEW m \in 0 .. k
       PROVE  \E i \in 1 .. d + 1 :
                m = s[i] \/ (m < s[i] /\ nodes'[s[i]].level <= nodes'[m].level)
  <2>1. CASE m = k
    BY <1>5, <1>8, <2>1
  <2>2. CASE m \in 0 .. k - 1
    <3>1. PICK i \in 1 .. len : m = r[i] \/ (m < r[i] /\ nodes[r[i]].level <= nodes[m].level)
      BY <1>6, <2>2
    <3>2. CASE i <= d
      <4>1. i \in 1 .. d /\ i \in 1 .. d + 1 /\ s[i] = r[i] /\ r[i] \in 0 .. k - 1
        BY <1>5, <1>6, <1>8, <3>2
      <4>2. QED
        BY <1>7, <2>2, <3>1, <4>1
    <3>3. CASE ~(i <= d)
      <4>1. r[i] \in 0 .. k - 1 /\ ~(nodes[r[i]].level < level)
        BY <1>6, <1>10, <3>3
      <4>2. level <= nodes[m].level
        BY <1>7, <2>2, <3>1, <4>1 DEF level
      <4>3. d + 1 \in 1 .. d + 1 /\ m < s[d + 1] /\ nodes'[s[d + 1]].level <= nodes'[m].level
        BY <1>5, <1>7, <1>8, <2>2, <4>2 DEF level
      <4>4. QED
        BY <4>3
    <3>4. QED
      BY <1>5, <3>2, <3>3
  <2>3. QED
    BY <1>5, <2>1, <2>2
<1>15. StackInv'
  <2>1. PICK q : q = s
    OBVIOUS
  <2> HIDE DEF NNodes
  <2>2. StandsFor(q)'
    BY <1>5, <1>9, <1>11, <1>12, <1>13, <1>14, <2>1 DEF StandsFor
  <2>3. QED
    BY <2>2 DEF StackInv
\* The last entry of a lower level is the last node of a lower level.
<1>16. /\ r[d] \in 0 .. k - 1 /\ nodes[r[d]].level < level
       /\ \A m \in r[d] + 1 .. k - 1 : nodes[m].level >= level
       /\ stack[d] = IF nodes[r[d]].kind = "ROOT" THEN 0 ELSE r[d]
  <2>1. r[d] \in 0 .. k - 1 /\ nodes[r[d]].level < level
    BY <1>5, <1>6, <1>10
  <2>2. ASSUME NEW m \in r[d] + 1 .. k - 1
        PROVE  nodes[m].level >= level
    <3>1. m \in 0 .. k - 1 /\ r[d] < m
      BY <1>5, <2>1
    <3>2. PICK i \in 1 .. len : m = r[i] \/ (m < r[i] /\ nodes[r[i]].level <= nodes[m].level)
      BY <1>6, <3>1
    <3>3. r[i] \in 0 .. k - 1 /\ r[d] < r[i]
      BY <1>6, <2>1, <3>1, <3>2
    <3>4. ~(i <= d)
      BY <1>5, <1>6, <3>3
    <3>5. ~(nodes[r[i]].level < level)
      BY <1>10, <3>4
    <3>6. nodes[r[i]].level \in Int /\ nodes[m].level \in Int /\ level \in Int
      BY <1>7, <3>1, <3>3 DEF level
    <3>7. QED
      BY <3>2, <3>5, <3>6
  <2>3. QED
    BY <1>5, <1>6, <2>1, <2>2
<1>17. ASSUME NEW n \in 0 .. k, nodes'[n].kind # "ROOT"
       PROVE  \E m \in 0 .. n - 1 :
                /\ nodes'[m].level < nodes'[n].level
                /\ \A j \in m + 1 .. n - 1 : nodes'[j].level >= nodes'[n].level
                /\ nodes'[n].parent = IF nodes'[m].kind = "ROOT" THEN 0 ELSE m
  <2>1. CASE n = k
    <3>1. \A j \in r[d] + 1 .. k - 1 : j \in 0 .. k - 1
      BY <1>5, <1>16
    <3>2. \A j \in r[d] + 1 .. k - 1 : nodes'[j].level >= nodes'[n].level
      BY <1>7, <1>16, <2>1, <3>1 DEF level
    <3>3. QED
      BY <1>7, <1>16, <2>1, <3>2 DEF level
  <2>2. CASE n \in 0 .. k - 1
    <3>1. nodes[n].kind # "ROOT"
      BY <1>7, <1>17, <2>2
    <3>2. PICK m \in 0 .. n - 1 :
                /\ nodes[m].level < nodes[n].level
                /\ \A j \in m + 1 .. n - 1 : nodes[j].level >= nodes[n].level
                /\ nodes[n].parent = IF nodes[m].kind = "ROOT" THEN 0 ELSE m
      BY <1>7, <2>2, <3>1 DEF TreeInv, ParentIsNearestAbove, NodeIndex
    <3>3. m \in 0 .. k - 1 /\ \A j \in m + 1 .. n - 1 : j \in 0 .. k - 1
      BY <1>5, <2>2
    <3>4. QED
      BY <1>7, <2>2, <3>2, <3>3
  <2>3. QED
    BY <1>5, <2>1, <2>2
<1>18. ParentIsNearestAbove'
  BY <1>7, <1>17 DEF ParentIsNearestAbove, NodeIndex
<1>19. QED
  BY <1>15, <1>18

LEMMA RootKeepsParents ==
  ASSUME TreeInv, NEW line \in StructureLine, RootLine(line)
  PROVE  ParentIsNearestAbove'
<1> DEFINE k == NNodes
<1>1. /\ nodes'[k].kind = "ROOT" /\ DOMAIN nodes' = 0 .. k /\ DOMAIN nodes = 0 .. k - 1
      /\ \A n \in 0 .. k - 1 : Same(n)
      /\ k \in Nat
  BY RootLineEffect, Zenon DEF TreeInv, TypeInv, NodesInv
<1> HIDE DEF k
<1>2. ASSUME NEW n \in 0 .. k, nodes'[n].kind # "ROOT"
      PROVE  \E m \in 0 .. n - 1 :
               /\ nodes'[m].level < nodes'[n].level
               /\ \A j \in m + 1 .. n - 1 : nodes'[j].level >= nodes'[n].level
               /\ nodes'[n].parent = IF nodes'[m].kind = "ROOT" THEN 0 ELSE m
  <2>1. n \in 0 .. k - 1
    BY <1>1, <1>2
  <2>2. nodes[n].kind # "ROOT"
    BY <1>1, <1>2, <2>1 DEF Same
  <2>3. PICK m \in 0 .. n - 1 :
              /\ nodes[m].level < nodes[n].level
              /\ \A j \in m + 1 .. n - 1 : nodes[j].level >= nodes[n].level
              /\ nodes[n].parent = IF nodes[m].kind = "ROOT" THEN 0 ELSE m
    BY <1>1, <2>1, <2>2 DEF TreeInv, ParentIsNearestAbove, NodeIndex
  <2>4. m \in 0 .. k - 1 /\ \A j \in m + 1 .. n - 1 : j \in 0 .. k - 1
    BY <1>1, <2>1
  <2>5. QED
    BY <1>1, <2>1, <2>3, <2>4 DEF Same
<1>3. QED
  BY <1>1, <1>2 DEF ParentIsNearestAbove, NodeIndex

LEMMA TreeStep ==
  ASSUME TreeInv, [Next]_vars
  PROVE  TreeInv'
<1>1. SUFFICES StackInv' /\ ParentIsNearestAbove'
  BY TypeStep DEF TreeInv
<1>2. ASSUME NEW line \in StructureLine, RootLine(line)
      PROVE  StackInv' /\ ParentIsNearestAbove'
  BY <1>2, RootKeepsStack, RootKeepsParents
<1>3. ASSUME NEW line \in StructureLine, NodeLine(line)
      PROVE  StackInv' /\ ParentIsNearestAbove'
  BY <1>3, NodeKeepsStack
<1>4. ASSUME UNCHANGED nodes, UNCHANGED stack, stage' = "structure" => stage = "structure"
      PROVE  StackInv' /\ ParentIsNearestAbove'
  <2>1. ParentIsNearestAbove'
    BY <1>4 DEF TreeInv, ParentIsNearestAbove, NodeIndex
  <2>2. \A r : StandsFor(r) => StandsFor(r)'
    BY <1>4 DEF StandsFor, NNodes
  <2>3. StackInv'
    BY <1>4, <2>2 DEF TreeInv, StackInv
  <2>4. QED
    BY <2>1, <2>3
<1>5. CASE EndOfFile
  <2>1. nodes' = nodes /\ stack' = <<>>
    BY <1>5 DEF EndOfFile
  <2>2. ParentIsNearestAbove'
    BY <2>1 DEF TreeInv, ParentIsNearestAbove, NodeIndex
  <2>3. CASE stage' = "structure"
    <3>1. stage = "library"
      BY <1>5, <2>3 DEF EndOfFile, File
    <3>2. NNodes = 0 /\ NNodes' = 0
      BY <2>1, <3>1 DEF TreeInv, TypeInv, NodesInv, NNodes
    <3> HIDE DEF NNodes
    <3>3. StandsFor(<<>>)'
      BY <2>1, <3>2 DEF StandsFor
    <3>4. QED
      BY <2>2, <3>3 DEF StackInv
  <2>4. CASE stage' # "structure"
    BY <2>2, <2>4 DEF StackInv
  <2>5. QED
    BY <2>3, <2>4
<1>6. CASE CannotOpen
  BY <1>4, <1>6 DEF CannotOpen, Fail, tree
<1>7. ASSUME NEW line \in LibraryLine,
             CellLine(line) \/ RowLine(line) \/ OtherLibraryLine(line)
      PROVE  StackInv' /\ ParentIsNearestAbove'
  BY <1>4, <1>7 DEF CellLine, RowLine, OtherLibraryLine, Fail, GoOn, tree
<1>8. ASSUME NEW line \in StructureLine, BadLine(line) \/ PassedOver(line)
      PROVE  StackInv' /\ ParentIsNearestAbove'
  BY <1>4, <1>8 DEF BadLine, PassedOver, Fail, GoOn, tree
<1>9. ASSUME NEW line \in ReportLine, SSRow(line) \/ FFRow(line) \/ OtherReportLine(line)
      PROVE  StackInv' /\ ParentIsNearestAbove'
  BY <1>4, <1>9 DEF SSRow, FFRow, OtherReportLine, Fail, GoOn, tree
<1>10. CASE UNCHANGED vars
  BY <1>4, <1>10 DEF vars, tree
<1>11. QED
  BY <1>2, <1>3, <1>5, <1>6, <1>7, <1>8, <1>9, <1>10 DEF Next, ReadLine, Terminated

LEMMA TreeInit ==
  ASSUME Init
  PROVE  TreeInv
<1>1. DOMAIN nodes = {} /\ nodes = <<>>
  BY DEF Init
<1>2. NNodes = 0
  BY <1>1, FS_EmptySet DEF NNodes
<1>3. <<>> \in Seq(AnyLine) /\ <<>> \in Seq(0 .. NNodes - 1) /\ <<>> \in Seq(CellRecord)
  BY EmptySeq
<1> HIDE DEF NNodes
<1>4. nodes \in [0 .. NNodes - 1 -> NodeRecord(NNodes)]
  BY <1>1, <1>2
<1>5. NodesInv
  <2>1. /\ NNodes \in Nat /\ ~(NNodes > 0) /\ 0 .. NNodes - 1 = {}
        /\ stack = <<>> /\ cells = <<>> /\ root_done = FALSE
    BY <1>2 DEF Init
  <2>2. QED
    BY <1>2, <1>3, <1>4, <2>1, Zenon DEF NodesInv
<1>6. TypeInv
  <2>1. /\ stage = "library" /\ read = <<>> /\ Len(cells) = 0 /\ 0 <= MaxCells
        /\ in_cell = FALSE /\ in_paths = FALSE
    BY LimitAssumption DEF Init
  <2>2. QED
    BY <1>3, <1>5, <2>1 DEF TypeInv, File
<1>7. QED
  BY <1>1, <1>6 DEF Init, TreeInv, StackInv, ParentIsNearestAbove, NodeIndex

\* The tree is the one the levels of the file describe: ParentIsNearestAbove,
\* for files of any length, levels in any order and any number of Root lines.
THEOREM ParentsAreNearest == Spec => []ParentIsNearestAbove
<1>1. Init => TreeInv
  BY TreeInit
<1>2. TreeInv /\ [Next]_vars => TreeInv'
  BY TreeStep
<1>3. TreeInv => ParentIsNearestAbove
  BY DEF TreeInv
<1>4. QED
  BY <1>1, <1>2, <1>3, PTL DEF Spec

-----------------------------------------------------------------------------
(* The delay reports.                                                      *)

HeaderRead == \E h \in 1 .. Len(read) : read[h].kind = "header"

PathsInv ==
  /\ paths \in Seq(PathRow)
  /\ clock_period \in Value
  /\ stage \in {"library", "structure"} => paths = <<>>
  /\ stage = "SS" => \A p \in DOMAIN paths : paths[p].data_ff = 0
  /\ stage = "FF" => (in_paths <=> HeaderRead)

ReportInv == TypeInv /\ PathsInv /\ HoldDelayIsOfItsPair

LEMMA ReportLineType ==
  ASSUME NEW line \in ReportLine
  PROVE  /\ line.kind = "row" => /\ line.launch \in Name /\ line.capture \in Name
                                 /\ line.delay \in Value
         /\ line.kind = "period" => line.value \in Value
BY LineAssumption DEF LineOf

LEMMA FoundNode ==
  ASSUME NodesInv, NEW name
  PROVE  FindNode(name) \in NodeIndex \cup {-1}
<1> DEFINE named == {n \in DOMAIN nodes : nodes[n].name = name}
<1>1. CASE named = {}
  BY <1>1 DEF FindNode
<1>2. CASE named # {}
  <2>1. named \in SUBSET Nat
    BY DEF NodesInv
  <2>2. \E n \in named : \A m \in named : n <= m
    BY <1>2, <2>1, Least
  <2>3. FindNode(name) \in named
    BY <1>2, <2>2 DEF FindNode
  <2>4. QED
    BY <2>3 DEF NodeIndex
<1>3. QED
  BY <1>1, <1>2

\* In the SS report rows become paths.
LEMMA SSRowStep ==
  ASSUME ReportInv, NEW line \in ReportLine, SSRow(line)
  PROVE  PathsInv' /\ HoldDelayIsOfItsPair'
<1>1. /\ stage = "SS" /\ stage' = "SS" /\ line.kind = "row"
      /\ UNCHANGED <<nodes, clock_period>>
  BY DEF SSRow, Line, GoOn, tree
<1>2. /\ paths \in Seq(PathRow) /\ \A p \in DOMAIN paths : paths[p].data_ff = 0
  BY <1>1 DEF ReportInv, PathsInv
<1>3. paths' \in Seq(PathRow) /\ \A p \in DOMAIN paths' : paths'[p].data_ff = 0
  <2>1. CASE ~in_paths
    BY <1>2, <2>1 DEF SSRow
  <2>2. CASE in_paths
    <3> DEFINE new == [launch |-> line.launch, capture |-> line.capture,
                       launch_id |-> FindNode(line.launch),
                       capture_id |-> FindNode(line.capture),
                       data_ss |-> line.delay, data_ff |-> 0]
    <3>1. paths' = Append(paths, new)
      BY <2>2 DEF SSRow
    <3>2. /\ FindNode(line.launch) \in NodeIndex \cup {-1}
          /\ FindNode(line.capture) \in NodeIndex \cup {-1}
      BY FoundNode DEF ReportInv, TypeInv
    <3>3. new \in PathRow /\ new.data_ff = 0
      BY <1>1, <3>2, ReportLineType, LineAssumption DEF PathRow
    <3> HIDE DEF new
    <3>4. /\ paths' \in Seq(PathRow) /\ Len(paths') = Len(paths) + 1
          /\ paths'[Len(paths) + 1] = new
          /\ \A p \in 1 .. Len(paths) : paths'[p] = paths[p]
      BY <1>2, <3>1, <3>3, AppendProperties
    <3>5. QED
      BY <1>2, <3>3, <3>4
  <2>3. QED
    BY <2>1, <2>2
<1>4. PathRow' = PathRow
  BY <1>1 DEF PathRow, NodeIndex
<1>5. QED
  BY <1>1, <1>3, <1>4 DEF ReportInv, PathsInv, HoldDelayIsOfItsPair

\* A line adds to the rows of a path if it is a row with its ends behind the
\* header.
LEMMA RowsAfter ==
  ASSUME read \in Seq(AnyLine), NEW line, read' = Append(read, line),
         NEW p, paths'[p].launch = paths[p].launch, paths'[p].capture = paths[p].capture
  PROVE  /\ RowsFor(p) \in SUBSET (1 .. Len(read))
         /\ \A i \in 1 .. Len(read) : read'[i] = read[i]
         /\ read'[Len(read) + 1] = line
         /\ RowsFor(p)' = RowsFor(p) \cup
              {i \in {Len(read) + 1} : /\ line.kind = "row"
                                       /\ line.launch = paths[p].launch
                                       /\ line.capture = paths[p].capture
                                       /\ HeaderRead}
<1>1. Len(read) \in Nat
  OBVIOUS
<1>2. /\ Len(read') = Len(read) + 1 /\ read'[Len(read) + 1] = line
      /\ \A i \in 1 .. Len(read) : read'[i] = read[i]
      /\ DOMAIN read' = 1 .. Len(read) + 1 /\ DOMAIN read = 1 .. Len(read)
  BY <1>1
<1> DEFINE new == {i \in {Len(read) + 1} : /\ line.kind = "row"
                                           /\ line.launch = paths[p].launch
                                           /\ line.capture = paths[p].capture
                                           /\ HeaderRead}
<1>3. ASSUME NEW i \in RowsFor(p)'
      PROVE  i \in RowsFor(p) \cup new
  <2>1. CASE i \in 1 .. Len(read)
    BY <1>1, <1>2, <1>3, <2>1 DEF RowsFor
  <2>2. CASE i = Len(read) + 1
    BY <1>1, <1>2, <1>3, <2>2 DEF RowsFor, HeaderRead
  <2>3. QED
    BY <1>1, <1>2, <1>3, <2>1, <2>2 DEF RowsFor
<1>4. ASSUME NEW i \in RowsFor(p) PROVE i \in RowsFor(p)'
  BY <1>1, <1>2, <1>4 DEF RowsFor
<1>5. ASSUME NEW i \in new PROVE i \in RowsFor(p)'
  BY <1>1, <1>2, <1>5 DEF RowsFor, HeaderRead
<1>6. RowsFor(p) \in SUBSET (1 .. Len(read))
  BY <1>2 DEF RowsFor
<1>7. RowsFor(p)' = RowsFor(p) \cup new
  <2> HIDE DEF new
  <2>1. QED
    BY <1>3, <1>4, <1>5, Zenon
<1>8. QED
  BY <1>2, <1>6, <1>7

\* The paths before p with its ends.
Namesakes(p) == {q \in 1 .. p - 1 : /\ paths[q].launch = paths[p].launch
                                    /\ paths[q].capture = paths[p].capture}

\* HoldDelayIsOfItsPair for one path.
HoldOf(p) ==
  IF Namesakes(p) # {} \/ RowsFor(p) = {} THEN paths[p].data_ff = 0
  ELSE \E i \in RowsFor(p) : /\ \A j \in RowsFor(p) : j <= i
                             /\ paths[p].data_ff = read[i].delay

LEMMA HoldByPath ==
  HoldDelayIsOfItsPair <=> (stage = "FF" => \A p \in DOMAIN paths : HoldOf(p))
BY DEF HoldDelayIsOfItsPair, HoldOf, Namesakes

\* A path that gets no new row and keeps its delay.
LEMMA HoldKept ==
  ASSUME read \in Seq(AnyLine), NEW line, read' = Append(read, line),
         NEW p, HoldOf(p), Namesakes(p)' = Namesakes(p), paths'[p] = paths[p],
         RowsFor(p)' = RowsFor(p) \/ Namesakes(p) # {}
  PROVE  HoldOf(p)'
<1>1. /\ RowsFor(p) \in SUBSET (1 .. Len(read))
      /\ \A i \in 1 .. Len(read) : read'[i] = read[i]
  BY RowsAfter
<1>2. CASE Namesakes(p) # {}
  BY <1>2 DEF HoldOf
<1>3. CASE RowsFor(p)' = RowsFor(p) /\ Namesakes(p) = {}
  <2>1. CASE RowsFor(p) = {}
    BY <1>3, <2>1 DEF HoldOf
  <2>2. CASE RowsFor(p) # {}
    <3>1. PICK i \in RowsFor(p) : /\ \A j \in RowsFor(p) : j <= i
                                  /\ paths[p].data_ff = read[i].delay
      BY <1>3, <2>2 DEF HoldOf
    <3>2. read'[i] = read[i]
      BY <1>1
    <3>3. i \in RowsFor(p)' /\ \A j \in RowsFor(p)' : j <= i
      BY <1>3, <3>1
    <3>4. paths'[p].data_ff = read'[i].delay
      BY <3>1, <3>2
    <3>5. QED
      BY <3>3, <3>4, <1>3, <2>2 DEF HoldOf
  <2>3. QED
    BY <2>1, <2>2
<1>4. QED
  BY <1>2, <1>3

LEMMA FirstOfMatches ==
  ASSUME paths \in Seq(PathRow), NEW line, Matching(line) # {}
  PROVE  FirstMatch(line) \in Matching(line) /\ \A q \in Matching(line) : FirstMatch(line) <= q
<1>1. Matching(line) \in SUBSET Nat
  BY DEF Matching
<1>2. \E p \in Matching(line) : \A q \in Matching(line) : p <= q
  BY <1>1, Least
<1>3. QED
  BY <1>2 DEF FirstMatch

LEMMA FFRowStep ==
  ASSUME ReportInv, NEW line \in ReportLine, FFRow(line)
  PROVE  PathsInv' /\ HoldDelayIsOfItsPair'
<1>1. /\ stage = "FF" /\ line.kind = "row" /\ read' = Append(read, line)
      /\ UNCHANGED <<nodes, clock_period, in_paths>>
      /\ stage' \in {"FF", "failed"}
  BY DEF FFRow, Line, Fail, GoOn, tree
<1>2. /\ paths \in Seq(PathRow) /\ read \in Seq(AnyLine) /\ (in_paths <=> HeaderRead)
      /\ \A p \in DOMAIN paths : HoldOf(p)
      /\ in_paths \in BOOLEAN
  BY <1>1, HoldByPath DEF ReportInv, PathsInv, TypeInv
<1>3. PathRow' = PathRow
  BY <1>1 DEF PathRow, NodeIndex
<1>4. HeaderRead' <=> HeaderRead
  <2>1. Len(read) \in Nat /\ Len(read') = Len(read) + 1 /\ read'[Len(read) + 1] = line
        /\ \A i \in 1 .. Len(read) : read'[i] = read[i]
    BY <1>1, <1>2
  <2>2. \A i \in 1 .. Len(read) + 1 : i = Len(read) + 1 \/ i \in 1 .. Len(read)
    BY <2>1
  <2>3. QED
    BY <1>1, <2>1, <2>2 DEF HeaderRead
<1>5. /\ paths' \in Seq(PathRow) /\ DOMAIN paths' = DOMAIN paths
      /\ \A p \in DOMAIN paths : /\ paths'[p].launch = paths[p].launch
                                 /\ paths'[p].capture = paths[p].capture
      /\ \A p \in DOMAIN paths :
           ~(in_paths /\ Matching(line) # {} /\ p = FirstMatch(line)) => paths'[p] = paths[p]
      /\ in_paths /\ Matching(line) # {} => paths'[FirstMatch(line)].data_ff = line.delay
  <2>1. CASE ~(in_paths /\ Matching(line) # {})
    BY <1>2, <2>1 DEF FFRow
  <2>2. CASE in_paths /\ Matching(line) # {}
    <3> DEFINE f == FirstMatch(line)
               new == [paths[f] EXCEPT !.data_ff = line.delay]
    <3>1. f \in DOMAIN paths
      BY <1>2, <2>2, FirstOfMatches DEF Matching
    <3>2. paths[f] \in PathRow /\ line.delay \in Value
      BY <1>1, <1>2, <3>1, ReportLineType
    <3>3. paths' = [paths EXCEPT ![f] = new]
      BY <2>2 DEF FFRow
    <3> HIDE DEF f
    <3>4. /\ new \in PathRow /\ new.data_ff = line.delay
          /\ new.launch = paths[f].launch /\ new.capture = paths[f].capture
      BY <3>2 DEF PathRow
    <3> HIDE DEF new
    <3>5. QED
      BY <1>2, <2>2, <3>1, <3>3, <3>4 DEF f
  <2>3. QED
    BY <2>1, <2>2
<1>6. \A p \in DOMAIN paths : Namesakes(p)' = Namesakes(p)
  <2>1. \A p \in DOMAIN paths : \A q \in 1 .. p - 1 : q \in DOMAIN paths
    BY <1>2
  <2>2. QED
    BY <1>5, <2>1 DEF Namesakes
<1>7. ASSUME NEW p \in DOMAIN paths, stage' = "FF"
      PROVE  HoldOf(p)'
  <2>1. /\ RowsFor(p) \in SUBSET (1 .. Len(read)) /\ Len(read) \in Nat
        /\ read'[Len(read) + 1] = line
        /\ RowsFor(p)' = RowsFor(p) \cup
             {i \in {Len(read) + 1} : /\ line.kind = "row"
                                      /\ line.launch = paths[p].launch
                                      /\ line.capture = paths[p].capture
                                      /\ HeaderRead}
    BY <1>1, <1>2, <1>5, RowsAfter
  <2>2. CASE ~in_paths \/ p \notin Matching(line)
    <3>1. RowsFor(p)' = RowsFor(p)
      BY <1>2, <2>1, <2>2 DEF Matching
    <3>2. paths'[p] = paths[p]
      BY <1>2, <1>5, <2>2, FirstOfMatches
    <3>3. QED
      BY <1>1, <1>2, <1>6, <3>1, <3>2, HoldKept
  <2>3. CASE in_paths /\ p \in Matching(line) /\ p # FirstMatch(line)
    <3>1. FirstMatch(line) \in Matching(line) /\ FirstMatch(line) <= p
      BY <1>2, <2>3, FirstOfMatches
    <3>2. FirstMatch(line) \in Namesakes(p)
      BY <1>2, <2>3, <3>1 DEF Matching, Namesakes
    <3>3. paths'[p] = paths[p]
      BY <1>5, <2>3
    <3>4. QED
      BY <1>1, <1>2, <1>6, <3>2, <3>3, HoldKept
  <2>4. CASE in_paths /\ p \in Matching(line) /\ p = FirstMatch(line)
    <3>1. \A q \in Matching(line) : p <= q
      BY <1>2, <2>4, FirstOfMatches
    <3>2. Namesakes(p) = {}
      <4>1. ASSUME NEW q \in Namesakes(p) PROVE FALSE
        <5>1. q \in Matching(line)
          BY <1>2, <2>4 DEF Matching, Namesakes
        <5>2. QED
          BY <1>2, <3>1, <5>1 DEF Namesakes
      <4>2. QED
        BY <4>1
    <3>3. RowsFor(p)' = RowsFor(p) \cup {Len(read) + 1}
      BY <1>1, <1>2, <2>1, <2>4 DEF Matching
    <3>4. Len(read) + 1 \in RowsFor(p)' /\ \A j \in RowsFor(p)' : j <= Len(read) + 1
      BY <2>1, <3>3
    <3>5. paths'[p].data_ff = read'[Len(read) + 1].delay
      BY <1>5, <2>1, <2>4
    <3>6. Namesakes(p)' = {} /\ RowsFor(p)' # {}
      BY <1>6, <3>2, <3>4
    <3>7. QED
      BY <3>4, <3>5, <3>6 DEF HoldOf
  <2>5. QED
    BY <1>2, <2>2, <2>3, <2>4
<1>8. HoldDelayIsOfItsPair'
  BY <1>5, <1>7 DEF HoldDelayIsOfItsPair, HoldOf, Namesakes
<1>9. PathsInv'
  BY <1>1, <1>2, <1>3, <1>4, <1>5 DEF ReportInv, PathsInv
<1>10. QED
  BY <1>8, <1>9

LEMMA OtherReportLineStep ==
  ASSUME ReportInv, NEW line \in ReportLine, OtherReportLine(line)
  PROVE  PathsInv' /\ HoldDelayIsOfItsPair'
<1>1. /\ stage \in {"SS", "FF"} /\ stage' = stage /\ read' = Append(read, line)
      /\ line.kind # "row" /\ UNCHANGED <<nodes, paths>>
      /\ in_paths' = (in_paths \/ line.kind = "header")
      /\ clock_period' = IF line.kind = "period" THEN line.value ELSE clock_period
  BY DEF OtherReportLine, Line, GoOn, tree
<1>2. /\ paths \in Seq(PathRow) /\ read \in Seq(AnyLine) /\ clock_period \in Value
      /\ stage = "FF" => (in_paths <=> HeaderRead) /\ \A p \in DOMAIN paths : HoldOf(p)
      /\ stage = "SS" => \A p \in DOMAIN paths : paths[p].data_ff = 0
      /\ in_paths \in BOOLEAN
  BY HoldByPath DEF ReportInv, PathsInv, TypeInv
<1>3. HeaderRead' <=> HeaderRead \/ line.kind = "header"
  <2>1. Len(read) \in Nat /\ Len(read') = Len(read) + 1 /\ read'[Len(read) + 1] = line
        /\ \A i \in 1 .. Len(read) : read'[i] = read[i]
    BY <1>1, <1>2
  <2>2. \A i \in 1 .. Len(read) + 1 : i = Len(read) + 1 \/ i \in 1 .. Len(read)
    BY <2>1
  <2>3. Len(read) + 1 \in 1 .. Len(read) + 1 /\ \A i \in 1 .. Len(read) : i \in 1 .. Len(read) + 1
    BY <2>1
  <2>4. QED
    BY <2>1, <2>2, <2>3 DEF HeaderRead
<1>4. clock_period' \in Value
  BY <1>1, <1>2, ReportLineType
<1>5. PathRow' = PathRow
  BY <1>1 DEF PathRow, NodeIndex
<1>6. PathsInv'
  <2>1. stage = "FF" => (in_paths' <=> HeaderRead')
    BY <1>1, <1>2, <1>3
  <2>2. stage = "SS" => \A p \in DOMAIN paths' : paths'[p].data_ff = 0
    BY <1>1, <1>2
  <2>3. /\ paths' \in Seq(PathRow') /\ stage' = stage
        /\ stage \notin {"library", "structure"}
    BY <1>1, <1>2, <1>5
  <2>4. /\ stage' \in {"library", "structure"} => paths' = <<>>
        /\ stage' = "SS" => \A p \in DOMAIN paths' : paths'[p].data_ff = 0
        /\ stage' = "FF" => (in_paths' <=> HeaderRead')
    BY <2>1, <2>2, <2>3
  <2> HIDE DEF PathRow, HeaderRead
  <2>5. QED
    BY <1>4, <2>3, <2>4 DEF PathsInv
<1>7. ASSUME NEW p \in DOMAIN paths, stage = "FF"
      PROVE  HoldOf(p)'
  <2>1. RowsFor(p)' = RowsFor(p)
    BY <1>1, <1>2, RowsAfter
  <2>2. Namesakes(p)' = Namesakes(p)
    BY <1>1 DEF Namesakes
  <2>3. QED
    BY <1>1, <1>2, <1>7, <2>1, <2>2, HoldKept
<1>8. HoldDelayIsOfItsPair'
  BY <1>1, <1>7 DEF HoldDelayIsOfItsPair, HoldOf, Namesakes
<1>9. QED
  BY <1>6, <1>8

LEMMA ReportStep ==
  ASSUME ReportInv, [Next]_vars
  PROVE  ReportInv'
<1>1. SUFFICES PathsInv' /\ HoldDelayIsOfItsPair'
  BY TypeStep DEF ReportInv
<1>2. ASSUME NEW line \in ReportLine, SSRow(line) \/ FFRow(line) \/ OtherReportLine(line)
      PROVE  PathsInv' /\ HoldDelayIsOfItsPair'
  BY <1>2, SSRowStep, FFRowStep, OtherReportLineStep
\* A step of the library or of the structure, where there are no paths yet.
<1>3. ASSUME UNCHANGED <<paths, clock_period>>, stage \in {"library", "structure"},
             stage' \in {"library", "structure", "failed"}
      PROVE  PathsInv' /\ HoldDelayIsOfItsPair'
  <2>1. paths' = <<>> /\ clock_period' \in Value
    BY <1>3 DEF ReportInv, PathsInv
  <2>2. paths' \in Seq(PathRow')
    BY <2>1, EmptySeq
  <2>3. QED
    BY <1>3, <2>1, <2>2 DEF PathsInv, HoldDelayIsOfItsPair
<1>4. ASSUME NEW line \in LibraryLine,
             CellLine(line) \/ RowLine(line) \/ OtherLibraryLine(line)
      PROVE  PathsInv' /\ HoldDelayIsOfItsPair'
  BY <1>3, <1>4 DEF CellLine, RowLine, OtherLibraryLine, Line, Fail, GoOn, report
<1>5. ASSUME NEW line \in StructureLine,
             RootLine(line) \/ NodeLine(line) \/ BadLine(line) \/ PassedOver(line)
      PROVE  PathsInv' /\ HoldDelayIsOfItsPair'
  BY <1>3, <1>5 DEF RootLine, NodeLine, BadLine, PassedOver, Line, Fail, GoOn, report
<1>6. CASE CannotOpen
  <2>1. stage' = "failed" /\ UNCHANGED <<paths, clock_period, nodes>>
    BY <1>6 DEF CannotOpen, Fail, tree, report
  <2>2. PathRow' = PathRow
    BY <2>1 DEF PathRow, NodeIndex
  <2>3. QED
    BY <2>1, <2>2 DEF ReportInv, PathsInv, HoldDelayIsOfItsPair
<1>7. CASE EndOfFile
  <2>1. /\ UNCHANGED <<paths, clock_period, nodes>> /\ read' = <<>> /\ in_paths' = FALSE
        /\ stage \in File
        /\ stage = "library" => stage' = "structure"
        /\ stage = "structure" => stage' \in {"SS", "failed"}
        /\ stage = "SS" => stage' = "FF"
        /\ stage = "FF" => stage' = "loaded"
    BY <1>7 DEF EndOfFile, File
  <2>2. PathRow' = PathRow
    BY <2>1 DEF PathRow, NodeIndex
  <2>3. ~HeaderRead'
    BY <2>1 DEF HeaderRead
  <2>4. PathsInv'
    BY <2>1, <2>2, <2>3 DEF ReportInv, PathsInv, File
  <2>5. \A p : RowsFor(p)' = {}
    BY <2>1 DEF RowsFor
  <2>6. HoldDelayIsOfItsPair'
    <3>1. CASE stage = "SS"
      <4>1. \A p \in DOMAIN paths' : paths'[p].data_ff = 0
        BY <2>1, <3>1 DEF ReportInv, PathsInv
      <4>2. QED
        BY <2>5, <4>1 DEF HoldDelayIsOfItsPair
    <3>2. CASE stage # "SS"
      BY <2>1, <3>2 DEF HoldDelayIsOfItsPair, File
    <3>3. QED
      BY <3>1, <3>2
  <2>7. QED
    BY <2>4, <2>6
<1>8. CASE UNCHANGED vars
  <2>1. UNCHANGED <<stage, read, nodes, paths, in_paths, clock_period>>
    BY <1>8 DEF vars, tree, report
  <2>2. PathRow' = PathRow /\ HeaderRead' = HeaderRead /\ \A p : RowsFor(p)' = RowsFor(p)
    BY <2>1 DEF PathRow, NodeIndex, HeaderRead, RowsFor
  <2>3. PathsInv'
    BY <2>1, <2>2 DEF ReportInv, PathsInv
  <2>4. HoldDelayIsOfItsPair'
    BY <2>1, <2>2 DEF ReportInv, HoldDelayIsOfItsPair
  <2>5. QED
    BY <2>3, <2>4
<1>9. QED
  BY <1>2, <1>4, <1>5, <1>6, <1>7, <1>8 DEF Next, ReadLine, Terminated

LEMMA ReportInit ==
  ASSUME Init
  PROVE  ReportInv
<1>1. TypeInv
  BY TreeInit DEF TreeInv
<1>2. paths = <<>> /\ stage = "library" /\ clock_period \in Value
  BY LineAssumption DEF Init
<1>3. QED
  BY <1>1, <1>2, EmptySeq DEF ReportInv, PathsInv, HoldDelayIsOfItsPair

\* A hold delay goes to the first path between its two ends:
\* HoldDelayIsOfItsPair, whatever the reports hold.
THEOREM HoldDelaysAreOfTheirPairs == Spec => []HoldDelayIsOfItsPair
<1>1. Init => ReportInv
  BY ReportInit
<1>2. ReportInv /\ [Next]_vars => ReportInv'
  BY ReportStep
<1>3. ReportInv => HoldDelayIsOfItsPair
  BY DEF ReportInv
<1>4. QED
  BY <1>1, <1>2, <1>3, PTL DEF Spec

\* The indices the parser stores are of what is there: TypeOK.
THEOREM TypeCorrect == Spec => []TypeOK
<1>1. Init => ReportInv
  BY ReportInit
<1>2. ReportInv /\ [Next]_vars => ReportInv'
  BY ReportStep
<1>3. ReportInv => TypeOK
  <2> SUFFICES ASSUME ReportInv PROVE TypeOK
    OBVIOUS
  <2>1. /\ NNodes \in Nat /\ nodes \in [0 .. NNodes - 1 -> NodeRecord(NNodes)]
        /\ stack \in Seq(0 .. NNodes - 1)
        /\ root_done \in BOOLEAN /\ (root_done <=> NNodes > 0)
        /\ cells \in Seq(CellRecord)
    BY DEF ReportInv, TypeInv, NodesInv
  <2> HIDE DEF NNodes
  <2>2. NodeIndex = 0 .. NNodes - 1
    BY <2>1 DEF NodeIndex
  <2>3. NodeRecord(NNodes) = Node
    BY <2>2 DEF NodeRecord, Node
  <2>4. nodes # <<>> <=> NNodes > 0
    <3>1. DOMAIN nodes = 0 .. NNodes - 1
      BY <2>1
    <3>2. ASSUME NNodes > 0 PROVE nodes # <<>>
      <4>1. 0 \in DOMAIN nodes
        BY <2>1, <3>1, <3>2
      <4>2. 0 \notin DOMAIN <<>>
        OBVIOUS
      <4>3. QED
        BY <4>1, <4>2
    <3>3. ASSUME ~(NNodes > 0) PROVE nodes = <<>>
      <4>1. DOMAIN nodes = {} /\ nodes = [n \in DOMAIN nodes |-> nodes[n]]
        BY <2>1, <3>1, <3>3
      <4>2. QED
        BY <4>1
    <3>4. QED
      BY <3>2, <3>3
  <2>5. QED
    BY <2>1, <2>2, <2>3, <2>4 DEF ReportInv, TypeInv, PathsInv, TypeOK, CellRecord
<1>4. QED
  BY <1>1, <1>2, <1>3, PTL DEF Spec
-----------------------------------------------------------------------------
(* Joining a sequence of sequences, which is how the lines below a node    *)
(* are put together.                                                       *)

FlatAt(g, s, i) == IF i = 1 THEN s[i] ELSE g[i - 1] \o s[i]

IsFlat(g, s, k) == g = [i \in 1 .. k |-> FlatAt(g, s, i)]

LEMMA FlatStep ==
  ASSUME NEW g, NEW s, NEW k, IsFlat(g, s, k), NEW i \in 1 .. k
  PROVE  g[i] = FlatAt(g, s, i)
BY DEF IsFlat

LEMMA FlatExists ==
  ASSUME NEW X, NEW s \in Seq(Seq(X)), NEW k \in 0 .. Len(s)
  PROVE  \E g \in [1 .. k -> Seq(X)] : IsFlat(g, s, k)
<1> DEFINE bad == {m \in 0 .. Len(s) : ~ \E g \in [1 .. m -> Seq(X)] : IsFlat(g, s, m)}
<1>1. ASSUME bad # {} PROVE FALSE
  <2>1. PICK m \in bad : \A l \in bad : m <= l
    <3>1. bad \in SUBSET Nat
      OBVIOUS
    <3> HIDE DEF bad
    <3>2. QED
      BY <1>1, <3>1, Least
  <2>2. m \in 0 .. Len(s) /\ ~ \E g \in [1 .. m -> Seq(X)] : IsFlat(g, s, m)
    BY <2>1
  <2>3. m # 0
    <3>1. [i \in {} |-> <<>>] \in [1 .. 0 -> Seq(X)] /\ IsFlat([i \in {} |-> <<>>], s, 0)
      BY DEF IsFlat
    <3>2. QED
      BY <2>2, <3>1
  <2>4. PICK g \in [1 .. m - 1 -> Seq(X)] : IsFlat(g, s, m - 1)
    <3>1. m - 1 \in 0 .. Len(s) /\ ~(m <= m - 1)
      BY <2>2, <2>3
    <3>2. m - 1 \notin bad
      BY <2>1, <3>1
    <3>3. QED
      BY <3>1, <3>2
  <2> DEFINE h == [i \in 1 .. m |-> IF i = m THEN FlatAt(g, s, m) ELSE g[i]]
  <2>5. FlatAt(g, s, m) \in Seq(X)
    <3>1. s[m] \in Seq(X)
      BY <2>2, <2>3
    <3>2. m # 1 => g[m - 1] \in Seq(X)
      BY <2>2, <2>3
    <3>3. QED
      BY <3>1, <3>2, ConcatProperties DEF FlatAt
  <2>6. h \in [1 .. m -> Seq(X)]
    <3>1. \A i \in 1 .. m : i # m => i \in 1 .. m - 1
      BY <2>2
    <3>2. QED
      BY <2>5, <3>1
  <2>7. \A i \in 1 .. m : h[i] = FlatAt(h, s, i)
    <3>1. TAKE i \in 1 .. m
    <3>2. i # 1 => i - 1 \in 1 .. m /\ i - 1 # m
      BY <2>2
    <3>3. i # m => i \in 1 .. m - 1
      BY <2>2
    <3>4. CASE i = m
      BY <3>2, <3>4 DEF FlatAt
    <3>5. CASE i # m
      <4>1. g[i] = FlatAt(g, s, i)
        BY <2>4, <3>3, <3>5 DEF IsFlat
      <4>2. QED
        BY <3>2, <3>5, <4>1 DEF FlatAt
    <3>6. QED
      BY <3>4, <3>5
  <2>8. IsFlat(h, s, m)
    <3>1. h = [i \in 1 .. m |-> h[i]]
      OBVIOUS
    <3> HIDE DEF h
    <3>2. QED
      BY <2>7, <3>1 DEF IsFlat
  <2>9. QED
    BY <2>2, <2>6, <2>8
<1>2. QED
  BY <1>1

LEMMA FlatUnique ==
  ASSUME NEW s, NEW k \in Nat, NEW g, NEW h, IsFlat(g, s, k), IsFlat(h, s, k)
  PROVE  \A i \in 1 .. k : g[i] = h[i]
<1> DEFINE bad == {i \in 1 .. k : g[i] # h[i]}
<1>1. ASSUME bad # {} PROVE FALSE
  <2>1. PICK m \in bad : \A i \in bad : m <= i
    <3>1. bad \in SUBSET Nat
      OBVIOUS
    <3> HIDE DEF bad
    <3>2. QED
      BY <1>1, <3>1, Least
  <2>2. m \in 1 .. k
    OBVIOUS
  <2>3. g[m] = FlatAt(g, s, m) /\ h[m] = FlatAt(h, s, m)
    BY <2>2, FlatStep
  <2>4. m # 1 => g[m - 1] = h[m - 1]
    <3>1. m # 1 => m - 1 \in 1 .. k /\ ~(m <= m - 1)
      BY <2>2
    <3>2. QED
      BY <2>1, <3>1
  <2>5. QED
    BY <2>1, <2>3, <2>4 DEF FlatAt
<1>2. QED
  BY <1>1

LEMMA FlattenIsLast ==
  ASSUME NEW s, NEW k \in Nat \ {0}, Len(s) = k, NEW g, IsFlat(g, s, k)
  PROVE  FlattenSeq(s) = g[k]
<1> DEFINE c == CHOOSE h : IsFlat(h, s, k)
<1>1. FlattenSeq(s) = c[k]
  BY DEF FlattenSeq, IsFlat, FlatAt
<1>2. IsFlat(c, s, k)
  <2> HIDE DEF IsFlat
  <2>1. QED
    OBVIOUS
<1> HIDE DEF c
<1>3. c[k] = g[k]
  BY <1>2, FlatUnique
<1>4. QED
  BY <1>1, <1>3

LEMMA FlattenEmpty ==
  ASSUME NEW s, Len(s) = 0, NEW X, s \in Seq(X)
  PROVE  FlattenSeq(s) = <<>>
BY EmptySeq DEF FlattenSeq

LEMMA FlattenType ==
  ASSUME NEW X, NEW s \in Seq(Seq(X))
  PROVE  FlattenSeq(s) \in Seq(X)
<1>1. CASE Len(s) = 0
  BY <1>1, FlattenEmpty, EmptySeq
<1>2. CASE Len(s) # 0
  <2> DEFINE k == Len(s)
  <2>1. k \in Nat \ {0} /\ k \in 0 .. Len(s)
    BY <1>2
  <2>2. PICK g \in [1 .. k -> Seq(X)] : IsFlat(g, s, k)
    BY <2>1, FlatExists
  <2>3. FlattenSeq(s) = g[k]
    BY <2>1, <2>2, FlattenIsLast
  <2>4. k \in 1 .. k
    BY <2>1
  <2> HIDE DEF k
  <2>5. QED
    BY <2>2, <2>3, <2>4
<1>3. QED
  BY <1>1, <1>2

LEMMA FlattenAppend ==
  ASSUME NEW X, NEW s \in Seq(Seq(X)), NEW x \in Seq(X)
  PROVE  FlattenSeq(Append(s, x)) = FlattenSeq(s) \o x
<1> DEFINE longer == Append(s, x)
           n == Len(s)
<1>1. longer \in Seq(Seq(X)) /\ Len(longer) = n + 1 /\ n \in Nat /\ longer[n + 1] = x
      /\ \A i \in 1 .. n : s[i] = longer[i]
  BY AppendProperties
<1> HIDE DEF longer, n
<1>2. PICK h \in [1 .. n + 1 -> Seq(X)] : IsFlat(h, longer, n + 1)
  <2>1. n + 1 \in 0 .. Len(longer)
    BY <1>1
  <2>2. QED
    BY <1>1, <2>1, FlatExists
<1>3. FlattenSeq(longer) = h[n + 1] /\ h[n + 1] = FlatAt(h, longer, n + 1)
  <2>1. FlattenSeq(longer) = h[n + 1]
    BY <1>1, <1>2, FlattenIsLast
  <2>2. n + 1 \in 1 .. n + 1
    BY <1>1
  <2>4. h[n + 1] = FlatAt(h, longer, n + 1)
    BY <1>2, <2>2, FlatStep
  <2>3. QED
    BY <2>1, <2>4
<1>4. CASE n = 0
  <2>1. FlattenSeq(s) = <<>>
    BY <1>4, FlattenEmpty DEF n
  <2>2. FlattenSeq(longer) = x
    BY <1>1, <1>3, <1>4 DEF FlatAt
  <2>3. QED
    BY <2>1, <2>2, ConcatEmptySeq DEF longer
<1>5. CASE n # 0
  <2> DEFINE g == [i \in 1 .. n |-> h[i]]
  <2>1. \A i \in 1 .. n : h[i] = FlatAt(g, s, i)
    <3>1. TAKE i \in 1 .. n
    <3>2. i \in 1 .. n + 1 /\ (i # 1 => i - 1 \in 1 .. n) /\ s[i] = longer[i]
      BY <1>1
    <3>3. h[i] = FlatAt(h, longer, i)
      BY <1>2, <3>2, FlatStep
    <3>4. QED
      BY <3>2, <3>3 DEF FlatAt
  <2>2. IsFlat(g, s, n)
    <3>1. g = [i \in 1 .. n |-> FlatAt(g, s, i)]
      <4>1. g = [i \in 1 .. n |-> g[i]] /\ \A i \in 1 .. n : g[i] = FlatAt(g, s, i)
        BY <2>1
      <4> HIDE DEF g
      <4>2. QED
        BY <4>1
    <3> HIDE DEF g
    <3>2. QED
      BY <3>1 DEF IsFlat
  <2>3. FlattenSeq(s) = h[n]
    <3>1. n \in Nat \ {0} /\ Len(s) = n /\ n \in 1 .. n
      BY <1>1, <1>5 DEF n
    <3>2. g[n] = h[n]
      BY <3>1
    <3> HIDE DEF g
    <3>3. FlattenSeq(s) = g[n]
      BY <2>2, <3>1, FlattenIsLast
    <3>4. QED
      BY <3>2, <3>3
  <2>4. FlatAt(h, longer, n + 1) = h[n] \o x
    <3>1. n + 1 # 1 /\ (n + 1) - 1 = n /\ longer[n + 1] = x
      BY <1>1, <1>5
    <3>2. FlatAt(h, longer, n + 1) = h[(n + 1) - 1] \o longer[n + 1]
      BY <3>1 DEF FlatAt
    <3>3. QED
      BY <3>1, <3>2
  <2>5. QED
    BY <1>3, <2>3, <2>4 DEF longer
<1>6. QED
  BY <1>4, <1>5

LEMMA AppendToJoin ==
  ASSUME NEW X, NEW a \in Seq(X), NEW b \in Seq(X), NEW w \in X
  PROVE  a \o Append(b, w) = Append(a \o b, w)
<1> DEFINE l == a \o Append(b, w)
           r == Append(a \o b, w)
<1>1. Append(b, w) \in Seq(X) /\ a \o b \in Seq(X)
  BY AppendProperties, ConcatProperties
<1>2. l \in Seq(X) /\ r \in Seq(X) /\ Len(l) = Len(r)
  BY <1>1, AppendProperties, ConcatProperties
<1>3. \A i \in 1 .. Len(l) : l[i] = r[i]
  <2>1. Len(l) = Len(a) + Len(b) + 1 /\ Len(a) \in Nat /\ Len(b) \in Nat
    BY <1>1, AppendProperties, ConcatProperties
  <2>2. TAKE i \in 1 .. Len(l)
  <2>3. l[i] = IF i <= Len(a) THEN a[i] ELSE Append(b, w)[i - Len(a)]
    BY <1>1, <2>1, AppendProperties, ConcatProperties
  <2>4. r[i] = IF i = Len(a) + Len(b) + 1 THEN w ELSE (a \o b)[i]
    BY <1>1, <2>1, AppendProperties, ConcatProperties
  <2>5. CASE i = Len(a) + Len(b) + 1
    BY <2>1, <2>3, <2>4, <2>5, AppendProperties
  <2>6. CASE i # Len(a) + Len(b) + 1
    <3>1. (a \o b)[i] = IF i <= Len(a) THEN a[i] ELSE b[i - Len(a)]
      BY <2>1, <2>6, ConcatProperties
    <3>2. i > Len(a) => Append(b, w)[i - Len(a)] = b[i - Len(a)]
      BY <2>1, <2>6, AppendProperties
    <3>3. QED
      BY <2>3, <2>4, <2>6, <3>1, <3>2
  <2>7. QED
    BY <2>5, <2>6
<1> HIDE DEF l, r
<1>4. l = r
  BY <1>2, <1>3, SeqEqual
<1>5. QED
  BY <1>4 DEF l, r

\* One more at the end of the last sequence is one more at the end of all.
LEMMA FlattenLonger ==
  ASSUME NEW X, NEW s \in Seq(Seq(X)), NEW x \in Seq(X), NEW w \in X
  PROVE  FlattenSeq(Append(s, Append(x, w))) = Append(FlattenSeq(Append(s, x)), w)
<1>1. FlattenSeq(s) \in Seq(X) /\ Append(x, w) \in Seq(X)
  BY FlattenType, AppendProperties
<1>2. FlattenSeq(Append(s, Append(x, w))) = FlattenSeq(s) \o Append(x, w)
  BY <1>1, FlattenAppend
<1>3. FlattenSeq(Append(s, x)) = FlattenSeq(s) \o x
  BY FlattenAppend
<1>4. FlattenSeq(s) \o Append(x, w) = Append(FlattenSeq(s) \o x, w)
  BY <1>1, AppendToJoin
<1>5. QED
  BY <1>2, <1>3, <1>4

-----------------------------------------------------------------------------
(* The lines of a tree, node by node.                                      *)

Text ==
  [kind : {"root"}, name : Name]
  \cup [kind : {"node"}, level : Int, name : Name, cell : CellName \cup {""}, sink : BOOLEAN]

Images(f, c) == [i \in DOMAIN c |-> f[c[i]]]

ChildLines(f, ns, n) == Images(f, ns[n].children)

IsLines(f, ns) ==
  f = [n \in DOMAIN ns |-> <<Written(ns[n])>> \o FlattenSeq(ChildLines(f, ns, n))]

\* Children come after their parent, each once.
Tree(ns, k) ==
  /\ ns \in [0 .. k - 1 -> NodeRecord(k)]
  /\ \A n \in 0 .. k - 1 : \A i \in 1 .. Len(ns[n].children) :
       /\ ns[n].children[i] > n
       /\ ns[ns[n].children[i]].parent = n
       /\ \A j \in 1 .. i - 1 : ns[n].children[j] # ns[n].children[i]

LEMMA WrittenType ==
  ASSUME NEW k, NEW r \in NodeRecord(k)
  PROVE  Written(r) \in Text
BY DEF NodeRecord, Written, Text

LEMMA TreeChildren ==
  ASSUME NEW k \in Nat, NEW ns, Tree(ns, k), NEW n \in 0 .. k - 1
  PROVE  /\ ns[n] \in NodeRecord(k) /\ ns[n].children \in Seq(0 .. k - 1)
         /\ DOMAIN ns[n].children = 1 .. Len(ns[n].children)
         /\ \A i \in 1 .. Len(ns[n].children) :
              ns[n].children[i] \in 0 .. k - 1 /\ ns[n].children[i] > n
<1>1. ns[n] \in NodeRecord(k)
  BY DEF Tree
<1>2. ns[n].children \in Seq(0 .. k - 1)
  BY <1>1 DEF NodeRecord
<1>3. \A i \in 1 .. Len(ns[n].children) : ns[n].children[i] > n
  BY DEF Tree
<1>4. QED
  BY <1>1, <1>2, <1>3

LEMMA LinesUnique ==
  ASSUME NEW k \in Nat, NEW ns, Tree(ns, k),
         NEW f, NEW g, IsLines(f, ns), IsLines(g, ns)
  PROVE  f = g
<1>1. DOMAIN ns = 0 .. k - 1
  BY DEF Tree
<1> DEFINE bad == {m \in 1 .. k : f[m - 1] # g[m - 1]}
<1>2. ASSUME bad # {} PROVE FALSE
  <2>1. PICK m \in bad : \A l \in bad : l <= m
    <3>1. bad \in SUBSET (1 .. k)
      OBVIOUS
    <3> HIDE DEF bad
    <3>2. QED
      BY <1>2, <3>1, Greatest
  <2> DEFINE n == m - 1
  <2>2. n \in 0 .. k - 1 /\ f[n] # g[n]
    OBVIOUS
  <2>3. \A c \in 0 .. k - 1 : c > n => f[c] = g[c]
    <3>1. TAKE c \in 0 .. k - 1
    <3>2. c > n => c + 1 \in 1 .. k /\ ~(c + 1 <= m) /\ (c + 1) - 1 = c
      OBVIOUS
    <3>3. QED
      BY <2>1, <3>2
  <2> HIDE DEF n
  <2>4. ChildLines(f, ns, n) = ChildLines(g, ns, n)
    <3>1. \A i \in DOMAIN ns[n].children : f[ns[n].children[i]] = g[ns[n].children[i]]
      BY <2>2, <2>3, TreeChildren
    <3>2. QED
      BY <3>1 DEF ChildLines, Images
  <2>5. /\ f[n] = <<Written(ns[n])>> \o FlattenSeq(ChildLines(f, ns, n))
        /\ g[n] = <<Written(ns[n])>> \o FlattenSeq(ChildLines(g, ns, n))
    BY <1>1, <2>2 DEF IsLines
  <2>6. QED
    BY <2>2, <2>4, <2>5
<1>3. \A n \in 0 .. k - 1 : f[n] = g[n]
  <2>1. TAKE n \in 0 .. k - 1
  <2>2. n + 1 \in 1 .. k /\ (n + 1) - 1 = n
    OBVIOUS
  <2>3. QED
    BY <1>2, <2>2
<1>4. f = [n \in DOMAIN ns |-> f[n]] /\ g = [n \in DOMAIN ns |-> g[n]]
  BY DEF IsLines
<1>5. QED
  BY <1>1, <1>3, <1>4

LEMMA LinesChosen ==
  ASSUME NEW k \in Nat, NEW ns, Tree(ns, k), NEW f, IsLines(f, ns)
  PROVE  NodeLines(ns) = f
<1> DEFINE c == CHOOSE g : IsLines(g, ns)
<1>1. NodeLines(ns) = c
  BY DEF NodeLines, IsLines, ChildLines, Images
<1>2. IsLines(c, ns)
  <2> HIDE DEF IsLines
  <2>1. QED
    OBVIOUS
<1> HIDE DEF c
<1>3. c = f
  BY <1>2, LinesUnique
<1>4. QED
  BY <1>1, <1>3

AreImages(v, f, c, Y) ==
  v \in Seq(Y) /\ Len(v) = Len(c) /\ \A i \in 1 .. Len(c) : v[i] = f[c[i]]

LEMMA ImagesType ==
  ASSUME NEW S, NEW c \in Seq(S), NEW f, NEW Y, \A x \in S : f[x] \in Y
  PROVE  AreImages(Images(f, c), f, c, Y)
<1>1. Len(c) \in Nat /\ DOMAIN c = 1 .. Len(c) /\ \A i \in 1 .. Len(c) : c[i] \in S
  OBVIOUS
<1>2. Images(f, c) = [i \in 1 .. Len(c) |-> f[c[i]]]
  BY <1>1 DEF Images
<1>3. \A i \in 1 .. Len(c) : f[c[i]] \in Y
  BY <1>1
<1>4. QED
  BY <1>1, <1>2, <1>3 DEF AreImages

LEMMA ImagesAppend ==
  ASSUME NEW S, NEW c \in Seq(S), NEW e \in S, NEW f
  PROVE  Images(f, Append(c, e)) = Append(Images(f, c), f[e])
<1> DEFINE d == Append(c, e)
           a == Images(f, c)
           u == Append(a, f[e])
           v == Images(f, d)
           Y == {f[x] : x \in S}
<1>0. \A x \in S : f[x] \in Y
  OBVIOUS
<1> HIDE DEF Y
<1>1. AreImages(a, f, c, Y)
  BY <1>0, ImagesType
<1>2. d \in Seq(S) /\ Len(d) = Len(c) + 1 /\ d[Len(c) + 1] = e /\ \A i \in 1 .. Len(c) : d[i] = c[i]
  BY AppendProperties
<1> HIDE DEF d
<1>3. AreImages(v, f, d, Y)
  <2>1. d \in Seq(S)
    BY <1>2
  <2>2. QED
    BY <1>0, <2>1, ImagesType
<1> HIDE DEF a
<1>4. /\ u \in Seq(Y) /\ Len(u) = Len(c) + 1 /\ u[Len(c) + 1] = f[e]
      /\ \A i \in 1 .. Len(c) : u[i] = f[c[i]]
  <2>1. /\ a \in Seq(Y) /\ Len(a) = Len(c) /\ \A i \in 1 .. Len(c) : a[i] = f[c[i]]
        /\ f[e] \in Y
    BY <1>0, <1>1 DEF AreImages
  <2>2. QED
    BY <2>1, AppendProperties
<1> HIDE DEF u, v
<1>5. v \in Seq(Y) /\ Len(v) = Len(u) /\ \A i \in 1 .. Len(c) + 1 : v[i] = f[d[i]]
  BY <1>2, <1>3, <1>4 DEF AreImages
<1>6. \A i \in 1 .. Len(v) : v[i] = u[i]
  <2>1. TAKE i \in 1 .. Len(v)
  <2>2. i = Len(c) + 1 \/ i \in 1 .. Len(c)
    BY <1>4, <1>5
  <2>3. QED
    BY <1>2, <1>4, <1>5, <2>2
<1>7. v = u
  BY <1>4, <1>5, <1>6, SeqEqual
<1>8. QED
  BY <1>7 DEF a, d, u, v

NoneIn(c, B) == \A i \in 1 .. Len(c) : c[i] \notin B

OnlyLastIn(c, B) == c # <<>> /\ \A i \in 1 .. Len(c) : c[i] \in B <=> i = Len(c)

\* B is a branch to p: of a node on it, the last child and no other is on it.
\* There is none to the parent -1 of a root.
BranchTo(ns, k, B, p) ==
  /\ B \subseteq 0 .. k - 1 /\ (p \in B \/ (B = {} /\ p = -1))
  /\ \A n \in B \ {p} : OnlyLastIn(ns[n].children, B)
  /\ \A n \in 0 .. k - 1 : n \notin B \/ n = p => NoneIn(ns[n].children, B)

\* Node k is added, as the last child of p if there is one.
GrownBy(ns, ms, k, p, node) ==
  /\ DOMAIN ms = 0 .. k /\ ms[k] = node /\ node.children = <<>> /\ node.parent = p
  /\ p # -1 => ms[p] = [ns[p] EXCEPT !.children = Append(@, k)]
  /\ \A n \in 0 .. k - 1 : n # p => ms[n] = ns[n]

GrownLines(f, k, B, w) ==
  [n \in 0 .. k |-> IF n = k THEN <<w>> ELSE IF n \in B THEN Append(f[n], w) ELSE f[n]]

AreGrown(g, f, k, B, w) ==
  /\ k \in Nat /\ f \in [0 .. k - 1 -> Seq(Text)] /\ w \in Text
  /\ g \in [0 .. k -> Seq(Text)] /\ g[k] = <<w>>
  /\ \A n \in 0 .. k - 1 : g[n] = IF n \in B THEN Append(f[n], w) ELSE f[n]

LEMMA GrownLinesType ==
  ASSUME NEW k \in Nat, NEW f \in [0 .. k - 1 -> Seq(Text)], NEW B, NEW w \in Text
  PROVE  AreGrown(GrownLines(f, k, B, w), f, k, B, w)
<1> DEFINE g == GrownLines(f, k, B, w)
<1>1. \A n \in 0 .. k : n = k \/ n \in 0 .. k - 1
  OBVIOUS
<1>2. /\ g = [n \in 0 .. k |-> g[n]] /\ g[k] = <<w>>
      /\ \A n \in 0 .. k - 1 : g[n] = IF n \in B THEN Append(f[n], w) ELSE f[n]
  BY DEF GrownLines
<1>3. <<w>> \in Seq(Text) /\ \A n \in 0 .. k - 1 : Append(f[n], w) \in Seq(Text)
  BY AppendProperties
<1> HIDE DEF g
<1>4. \A n \in 0 .. k : g[n] \in Seq(Text)
  BY <1>1, <1>2, <1>3
<1>5. AreGrown(g, f, k, B, w)
  BY <1>2, <1>4 DEF AreGrown
<1>6. QED
  BY <1>5 DEF g

LEMMA ImagesOff ==
  ASSUME NEW k, NEW f, NEW B, NEW w, NEW g, AreGrown(g, f, k, B, w),
         NEW c \in Seq(0 .. k - 1), NoneIn(c, B)
  PROVE  Images(g, c) = Images(f, c)
<1>1. /\ k \in Nat
      /\ \A n \in 0 .. k - 1 : g[n] = IF n \in B THEN Append(f[n], w) ELSE f[n]
  BY DEF AreGrown
<1>2. DOMAIN c = 1 .. Len(c) /\ \A i \in 1 .. Len(c) : c[i] \in 0 .. k - 1
  BY <1>1
<1>3. \A i \in DOMAIN c : g[c[i]] = f[c[i]]
  BY <1>1, <1>2 DEF NoneIn
<1>4. QED
  BY <1>3 DEF Images

\* What a node on the branch says grows with its last child.
LEMMA LastImageLonger ==
  ASSUME NEW k, NEW f, NEW B, NEW w, NEW g, AreGrown(g, f, k, B, w),
         NEW c \in Seq(0 .. k - 1), OnlyLastIn(c, B)
  PROVE  FlattenSeq(Images(g, c)) = Append(FlattenSeq(Images(f, c)), w)
<1>1. k \in Nat /\ w \in Text /\ \A n \in 0 .. k - 1 : f[n] \in Seq(Text)
  BY DEF AreGrown
<1>2. PICK b \in Seq(0 .. k - 1), e \in 0 .. k - 1 : c = Append(b, e)
  BY SequenceEmptyOrAppend DEF OnlyLastIn
<1>3. /\ Len(c) = Len(b) + 1 /\ Len(b) \in Nat /\ c[Len(b) + 1] = e
      /\ \A i \in 1 .. Len(b) : c[i] = b[i]
  BY <1>2, AppendProperties
<1>4. NoneIn(b, B) /\ e \in B
  <2>1. \A i \in 1 .. Len(b) : i \in 1 .. Len(c) /\ i # Len(c)
    BY <1>3
  <2>2. Len(c) \in 1 .. Len(c)
    BY <1>3
  <2>3. \A i \in 1 .. Len(c) : c[i] \in B <=> i = Len(c)
    BY DEF OnlyLastIn
  <2>4. QED
    BY <1>3, <2>1, <2>2, <2>3 DEF NoneIn
<1>5. Images(g, b) = Images(f, b)
  BY <1>4, ImagesOff
<1>6. g[e] = Append(f[e], w) /\ f[e] \in Seq(Text)
  BY <1>1, <1>4 DEF AreGrown
<1>7. Images(f, Append(b, e)) = Append(Images(f, b), f[e])
  BY ImagesAppend
<1>8. Images(g, Append(b, e)) = Append(Images(g, b), g[e])
  BY ImagesAppend
<1>9. Images(f, b) \in Seq(Seq(Text))
  BY <1>1, ImagesType DEF AreImages
<1>10. FlattenSeq(Append(Images(f, b), Append(f[e], w)))
       = Append(FlattenSeq(Append(Images(f, b), f[e])), w)
  BY <1>1, <1>6, <1>9, FlattenLonger
<1>11. QED
  BY <1>2, <1>5, <1>6, <1>7, <1>8, <1>10

\* What the parent of the new node says grows with its new child.
LEMMA NewImage ==
  ASSUME NEW k, NEW f, NEW B, NEW w, NEW g, AreGrown(g, f, k, B, w),
         NEW c \in Seq(0 .. k - 1), NoneIn(c, B)
  PROVE  FlattenSeq(Images(g, Append(c, k))) = Append(FlattenSeq(Images(f, c)), w)
<1>1. /\ g[k] = <<w>> /\ <<w>> \in Seq(Text) /\ w \in Text /\ k \in Nat
      /\ \A n \in 0 .. k - 1 : f[n] \in Seq(Text)
  BY DEF AreGrown
<1>2. Images(g, c) = Images(f, c)
  BY ImagesOff
<1>3. Images(g, Append(c, k)) = Append(Images(g, c), g[k])
  <2>1. c \in Seq(0 .. k) /\ k \in 0 .. k
    BY <1>1
  <2>2. QED
    BY <1>1, <2>1, ImagesAppend
<1>4. Images(f, c) \in Seq(Seq(Text))
  BY <1>1, ImagesType DEF AreImages
<1>5. FlattenSeq(Append(Images(f, c), <<w>>)) = FlattenSeq(Images(f, c)) \o <<w>>
  BY <1>1, <1>4, FlattenAppend
<1>6. FlattenSeq(Images(f, c)) \o <<w>> = Append(FlattenSeq(Images(f, c)), w)
  BY <1>1, <1>4, FlattenType, AppendIsConcat
<1>7. QED
  BY <1>1, <1>2, <1>3, <1>5, <1>6

\* The line of the new node comes last in the lines of the nodes of B.
LEMMA LinesGrow ==
  ASSUME NEW k \in Nat, NEW ns, Tree(ns, k), NEW f \in [0 .. k - 1 -> Seq(Text)], IsLines(f, ns),
         NEW B, NEW p, BranchTo(ns, k, B, p),
         NEW ms, NEW node, GrownBy(ns, ms, k, p, node), Written(node) \in Text
  PROVE  /\ IsLines(GrownLines(f, k, B, Written(node)), ms)
         /\ GrownLines(f, k, B, Written(node)) \in [0 .. k -> Seq(Text)]
<1> DEFINE w == Written(node)
           g == GrownLines(f, k, B, w)
           L(n) == <<Written(ms[n])>> \o FlattenSeq(ChildLines(g, ms, n))
<1>1. \A n \in 0 .. k : n = k \/ n \in 0 .. k - 1
  OBVIOUS
<1>3. w \in Text /\ <<w>> \in Seq(Text)
  OBVIOUS
<1>4. AreGrown(g, f, k, B, w)
  BY GrownLinesType
<1> HIDE DEF g, w
<1>2. /\ g \in [0 .. k -> Seq(Text)] /\ g[k] = <<w>>
      /\ \A n \in 0 .. k - 1 : g[n] = IF n \in B THEN Append(f[n], w) ELSE f[n]
  BY <1>4 DEF AreGrown
<1>5. ASSUME NEW n \in 0 .. k - 1
      PROVE  /\ f[n] = <<Written(ns[n])>> \o FlattenSeq(Images(f, ns[n].children))
             /\ ns[n].children \in Seq(0 .. k - 1)
             /\ FlattenSeq(Images(f, ns[n].children)) \in Seq(Text)
             /\ <<Written(ns[n])>> \in Seq(Text)
  <2>1. DOMAIN ns = 0 .. k - 1
    BY DEF Tree
  <2>2. ns[n].children \in Seq(0 .. k - 1) /\ ns[n] \in NodeRecord(k)
    BY TreeChildren
  <2>3. FlattenSeq(Images(f, ns[n].children)) \in Seq(Text)
    <3>1. Images(f, ns[n].children) \in Seq(Seq(Text))
      <4>1. \A m \in 0 .. k - 1 : f[m] \in Seq(Text)
        OBVIOUS
      <4>2. QED
        BY <2>2, <4>1, ImagesType DEF AreImages
    <3>2. QED
      BY <3>1, FlattenType
  <2>4. Written(ns[n]) \in Text
    BY <2>2, WrittenType
  <2>5. f[n] = <<Written(ns[n])>> \o FlattenSeq(Images(f, ns[n].children))
    BY <2>1 DEF IsLines, ChildLines
  <2>6. QED
    BY <2>2, <2>3, <2>4, <2>5
<1>6. B \subseteq 0 .. k - 1 /\ (p \in B \/ p = -1) /\ DOMAIN ms = 0 .. k
  BY DEF BranchTo, GrownBy
<1>7. g[k] = L(k)
  <2>1. ChildLines(g, ms, k) = <<>>
    BY DEF GrownBy, ChildLines, Images
  <2>2. FlattenSeq(<<>>) = <<>>
    BY FlattenEmpty, EmptySeq
  <2>3. Written(ms[k]) = w
    BY DEF GrownBy, w
  <2>4. <<w>> \o <<>> = <<w>>
    BY <1>3, ConcatEmptySeq
  <2>5. QED
    BY <1>2, <2>1, <2>2, <2>3, <2>4
<1>8. ASSUME NEW n \in 0 .. k - 1, n \notin B PROVE g[n] = L(n)
  <2>1. ms[n] = ns[n]
    BY <1>6, <1>8 DEF GrownBy
  <2>2. NoneIn(ns[n].children, B)
    BY <1>8 DEF BranchTo
  <2>3. ns[n].children \in Seq(0 .. k - 1)
    BY <1>5
  <2>4. Images(g, ns[n].children) = Images(f, ns[n].children)
    BY <1>3, <1>4, <2>2, <2>3, ImagesOff
  <2>5. QED
    BY <1>2, <1>5, <1>8, <2>1, <2>4 DEF ChildLines
<1>9. ASSUME NEW n \in B, n # p PROVE g[n] = L(n)
  <2> DEFINE c == ns[n].children
  <2>1. n \in 0 .. k - 1 /\ ms[n] = ns[n]
    BY <1>9 DEF BranchTo, GrownBy
  <2>2. OnlyLastIn(c, B)
    BY <1>9 DEF BranchTo
  <2>3. c \in Seq(0 .. k - 1)
    BY <1>5, <2>1
  <2>4. FlattenSeq(Images(g, c)) = Append(FlattenSeq(Images(f, c)), w)
    BY <1>3, <1>4, <2>2, <2>3, LastImageLonger
  <2>5. <<Written(ns[n])>> \o Append(FlattenSeq(Images(f, c)), w)
        = Append(<<Written(ns[n])>> \o FlattenSeq(Images(f, c)), w)
    BY <1>3, <1>5, <2>1, AppendToJoin
  <2>6. g[n] = Append(f[n], w) /\ f[n] = <<Written(ns[n])>> \o FlattenSeq(Images(f, c))
    BY <1>2, <1>5, <1>9, <2>1
  <2>7. L(n) = <<Written(ns[n])>> \o FlattenSeq(Images(g, c))
    BY <2>1 DEF ChildLines
  <2> HIDE DEF c, L
  <2>8. QED
    BY <2>4, <2>5, <2>6, <2>7
<1>10. ASSUME p \in B PROVE g[p] = L(p)
  <2> DEFINE c == ns[p].children
  <2>1. NoneIn(c, B)
    BY <1>6, <1>10 DEF BranchTo
  <2>2. c \in Seq(0 .. k - 1)
    BY <1>5, <1>6, <1>10
  <2>3. ms[p].children = Append(c, k) /\ Written(ms[p]) = Written(ns[p])
    <3>1. ns[p] \in NodeRecord(k)
      BY <1>6, <1>10, TreeChildren
    <3>2. ms[p] = [ns[p] EXCEPT !.children = Append(@, k)]
      BY <1>6, <1>10 DEF GrownBy
    <3>3. QED
      BY <3>1, <3>2 DEF NodeRecord, Written
  <2>4. FlattenSeq(Images(g, Append(c, k))) = Append(FlattenSeq(Images(f, c)), w)
    BY <1>3, <1>4, <2>1, <2>2, NewImage
  <2>5. <<Written(ns[p])>> \o Append(FlattenSeq(Images(f, c)), w)
        = Append(<<Written(ns[p])>> \o FlattenSeq(Images(f, c)), w)
    BY <1>3, <1>5, <1>6, <1>10, AppendToJoin
  <2>6. g[p] = Append(f[p], w) /\ f[p] = <<Written(ns[p])>> \o FlattenSeq(Images(f, c))
    BY <1>2, <1>5, <1>6, <1>10
  <2>7. L(p) = <<Written(ns[p])>> \o FlattenSeq(Images(g, Append(c, k)))
    BY <2>3 DEF ChildLines
  <2> HIDE DEF c, L
  <2>8. QED
    BY <2>4, <2>5, <2>6, <2>7
<1>11. \A n \in 0 .. k : g[n] = L(n)
  <2> HIDE DEF L
  <2>1. QED
    BY <1>1, <1>7, <1>8, <1>9, <1>10
<1>12. IsLines(g, ms)
  <2>1. g = [n \in DOMAIN ms |-> L(n)]
    <3> HIDE DEF L
    <3>1. QED
      BY <1>2, <1>6, <1>11
  <2>2. QED
    BY <2>1 DEF IsLines
<1>13. QED
  BY <1>2, <1>12 DEF g, w

LEMMA TreeGrows ==
  ASSUME NEW k \in Nat, NEW ns, Tree(ns, k), NEW B, NEW p, BranchTo(ns, k, B, p),
         NEW ms \in [0 .. k -> NodeRecord(k + 1)], NEW node, GrownBy(ns, ms, k, p, node)
  PROVE  Tree(ms, k + 1)
<1>1. p \in 0 .. k - 1 \/ p = -1
  BY DEF BranchTo
<1>2. \A n \in 0 .. k - 1 : ms[n].parent = ns[n].parent
  <2>1. TAKE n \in 0 .. k - 1
  <2>2. ns[n] \in NodeRecord(k)
    BY TreeChildren
  <2>3. CASE n = p
    <3>1. p # -1
      BY <2>3
    <3>2. ms[p] = [ns[p] EXCEPT !.children = Append(@, k)]
      BY <3>1 DEF GrownBy
    <3>3. QED
      BY <2>2, <2>3, <3>2 DEF NodeRecord
  <2>4. CASE n # p
    BY <2>4 DEF GrownBy
  <2>5. QED
    BY <2>3, <2>4
<1> DEFINE Good(n) == \A i \in 1 .. Len(ms[n].children) :
                        /\ ms[n].children[i] > n
                        /\ ms[ms[n].children[i]].parent = n
                        /\ \A j \in 1 .. i - 1 : ms[n].children[j] # ms[n].children[i]
<1>3. ASSUME NEW n \in 0 .. k - 1
      PROVE  /\ ns[n].children \in Seq(0 .. k - 1) /\ Len(ns[n].children) \in Nat
             /\ \A i \in 1 .. Len(ns[n].children) :
                  /\ ns[n].children[i] \in 0 .. k - 1 /\ ns[n].children[i] > n
                  /\ ms[ns[n].children[i]].parent = n
                  /\ \A j \in 1 .. i - 1 : ns[n].children[j] # ns[n].children[i]
  <2>1. /\ ns[n].children \in Seq(0 .. k - 1)
        /\ \A i \in 1 .. Len(ns[n].children) :
             ns[n].children[i] \in 0 .. k - 1 /\ ns[n].children[i] > n
    BY TreeChildren
  <2>2. \A i \in 1 .. Len(ns[n].children) :
          /\ ns[ns[n].children[i]].parent = n
          /\ \A j \in 1 .. i - 1 : ns[n].children[j] # ns[n].children[i]
    BY DEF Tree
  <2>3. \A i \in 1 .. Len(ns[n].children) : ms[ns[n].children[i]].parent = n
    BY <1>2, <2>1, <2>2
  <2>4. QED
    BY <2>1, <2>2, <2>3
<1>4. Good(k)
  BY EmptySeq DEF GrownBy
<1>5. ASSUME NEW n \in 0 .. k - 1, n # p PROVE Good(n)
  <2>1. ms[n] = ns[n]
    BY <1>5 DEF GrownBy
  <2>2. QED
    BY <1>3, <2>1
<1>6. ASSUME p \in 0 .. k - 1 PROVE Good(p)
  <2> DEFINE c == ns[p].children
             e == ms[p].children
  <2>1. e = Append(c, k) /\ ms[k].parent = p
    <3>1. ns[p] \in NodeRecord(k)
      BY <1>6, TreeChildren
    <3>2. ms[p] = [ns[p] EXCEPT !.children = Append(@, k)] /\ ms[k].parent = p
      BY <1>6 DEF GrownBy
    <3>3. QED
      BY <3>1, <3>2 DEF NodeRecord
  <2>2. /\ c \in Seq(0 .. k - 1) /\ Len(c) \in Nat
        /\ \A i \in 1 .. Len(c) : /\ c[i] \in 0 .. k - 1 /\ c[i] > p /\ ms[c[i]].parent = p
                                  /\ \A j \in 1 .. i - 1 : c[j] # c[i]
    BY <1>3, <1>6
  <2> HIDE DEF c, e
  <2>3. Len(e) = Len(c) + 1 /\ e[Len(c) + 1] = k /\ \A i \in 1 .. Len(c) : e[i] = c[i]
    <3>1. c \in Seq(0 .. k) /\ k \in 0 .. k
      BY <2>2
    <3>2. QED
      BY <2>1, <3>1, AppendProperties
  <2>4. ASSUME NEW i \in 1 .. Len(e)
        PROVE  e[i] > p /\ ms[e[i]].parent = p /\ \A j \in 1 .. i - 1 : e[j] # e[i]
    <3>1. \A j \in 1 .. i - 1 : j \in 1 .. Len(c)
      BY <2>2, <2>3
    <3>2. CASE i \in 1 .. Len(c)
      BY <2>2, <2>3, <3>1, <3>2
    <3>3. CASE i = Len(c) + 1
      <4>1. \A j \in 1 .. Len(c) : c[j] # k
        BY <2>2
      <4>2. QED
        BY <1>6, <2>1, <2>3, <3>1, <3>3, <4>1
    <3>4. QED
      BY <2>2, <2>3, <3>2, <3>3
  <2>5. QED
    BY <2>4 DEF e
<1>7. \A n \in 0 .. k : n = k \/ n \in 0 .. k - 1
  OBVIOUS
<1>8. \A n \in 0 .. k : Good(n)
  <2> HIDE DEF Good
  <2>1. QED
    BY <1>1, <1>4, <1>5, <1>6, <1>7
<1>9. (k + 1) - 1 = k
  OBVIOUS
<1>10. QED
  BY <1>8, <1>9 DEF Tree

\* What is known of the lines of a tree, and kept as it grows.
HasLines(ns, k) ==
  NodeLines(ns) \in [0 .. k - 1 -> Seq(Text)] /\ IsLines(NodeLines(ns), ns)

LEMMA LinesAfter ==
  ASSUME NEW k \in Nat, NEW ns, Tree(ns, k), HasLines(ns, k), NEW B, NEW p, BranchTo(ns, k, B, p),
         NEW ms \in [0 .. k -> NodeRecord(k + 1)], NEW node, GrownBy(ns, ms, k, p, node)
  PROVE  /\ Tree(ms, k + 1) /\ HasLines(ms, k + 1)
         /\ NodeLines(ms) = GrownLines(NodeLines(ns), k, B, Written(node))
<1>1. Tree(ms, k + 1)
  BY TreeGrows
<1>2. Written(node) \in Text
  <2>1. node \in NodeRecord(k + 1)
    BY DEF GrownBy
  <2>2. QED
    BY <2>1, WrittenType
<1> DEFINE f == NodeLines(ns)
           g == GrownLines(f, k, B, Written(node))
<1>3. f \in [0 .. k - 1 -> Seq(Text)] /\ IsLines(f, ns)
  BY DEF HasLines
<1> HIDE DEF f
<1>4. IsLines(g, ms) /\ g \in [0 .. k -> Seq(Text)]
  BY <1>2, <1>3, LinesGrow
<1> HIDE DEF g
<1>5. NodeLines(ms) = g
  <2>1. k + 1 \in Nat
    OBVIOUS
  <2>2. QED
    BY <1>1, <1>4, <2>1, LinesChosen
<1>6. (k + 1) - 1 = k
  OBVIOUS
<1>7. HasLines(ms, k + 1)
  BY <1>4, <1>5, <1>6 DEF HasLines
<1>8. QED
  BY <1>1, <1>5, <1>7 DEF f, g

-----------------------------------------------------------------------------
(* From its last 0 on, the stack is a branch of the tree, each node on it  *)
(* the last child of the one before.                                       *)

Rightmost(ns, st, z) ==
  /\ st[z] = 0
  /\ \A i, j \in z .. Len(st) : i < j => st[i] < st[j]
  /\ \A j \in z .. Len(st) - 1 :
       /\ ns[st[j]].children # <<>>
       /\ ns[st[j]].children[Len(ns[st[j]].children)] = st[j + 1]

\* A child on it is the last child of the one before.
OnlyByParent(ns, k, st, z) ==
  \A n \in 0 .. k - 1 : \A i \in 1 .. Len(ns[n].children) : \A j \in z .. Len(st) :
    ns[n].children[i] = st[j] => j > z /\ st[j - 1] = n /\ i = Len(ns[n].children)

LEMMA ChildOnBranch ==
  ASSUME NEW k \in Nat, NEW ns, Tree(ns, k), NEW st \in Seq(0 .. k - 1), NEW z \in 1 .. Len(st),
         Rightmost(ns, st, z)
  PROVE  OnlyByParent(ns, k, st, z)
<1> SUFFICES ASSUME NEW n \in 0 .. k - 1, NEW i \in 1 .. Len(ns[n].children),
                    NEW j \in z .. Len(st), ns[n].children[i] = st[j]
             PROVE  j > z /\ st[j - 1] = n /\ i = Len(ns[n].children)
  BY DEF OnlyByParent
<1>1. j # z
  <2>1. st[z] = 0 /\ st[j] > n
    BY TreeChildren DEF Rightmost
  <2>2. QED
    BY <2>1
<1>2. j - 1 \in z .. Len(st) - 1 /\ j - 1 \in 1 .. Len(st) /\ (j - 1) + 1 = j
  BY <1>1
<1> DEFINE m == st[j - 1]
           c == ns[m].children
<1>3. m \in 0 .. k - 1
  <2>1. \A i2 \in 1 .. Len(st) : st[i2] \in 0 .. k - 1
    BY ElementOfSeq
  <2>2. QED
    BY <1>2, <2>1
<1>4. c # <<>> /\ c[Len(c)] = st[j]
  BY <1>2 DEF Rightmost
<1>5. c \in Seq(0 .. k - 1)
  BY <1>3, TreeChildren
<1>6. Len(c) \in 1 .. Len(c)
  <2> HIDE DEF c
  <2>1. Len(c) \in Nat /\ Len(c) # 0
    BY <1>4, <1>5
  <2>2. QED
    BY <2>1
<1>7. ns[c[Len(c)]].parent = m
  BY <1>3, <1>6 DEF Tree
<1>8. ns[ns[n].children[i]].parent = n
  BY DEF Tree
<1>9. m = n
  BY <1>4, <1>7, <1>8
<1> DEFINE l == Len(c)
<1>10. i = l
  <2>1. l \in 1 .. l /\ i \in 1 .. l /\ c[l] = c[i]
    BY <1>4, <1>6, <1>9
  <2>2. \A j2 \in 1 .. l - 1 : c[j2] # c[l]
    BY <1>3, <1>6 DEF Tree
  <2> HIDE DEF l
  <2>3. i \in 1 .. l - 1 \/ i = l
    BY <2>1
  <2>4. QED
    BY <2>1, <2>2, <2>3
<1>11. QED
  BY <1>2, <1>9, <1>10

LEMMA BranchIs ==
  ASSUME NEW k \in Nat, NEW ns, Tree(ns, k), NEW st \in Seq(0 .. k - 1), NEW z \in 1 .. Len(st),
         Rightmost(ns, st, z), NEW d \in z .. Len(st), NEW B, B = {st[j] : j \in z .. d}
  PROVE  BranchTo(ns, k, B, st[d])
<1>1. \A j \in z .. d : j \in 1 .. Len(st) /\ j \in z .. Len(st) /\ st[j] \in 0 .. k - 1
  OBVIOUS
<1>2. B \subseteq 0 .. k - 1 /\ st[d] \in B
  BY <1>1
<1>3. \A i, j \in z .. d : i < j => st[i] < st[j]
  BY <1>1 DEF Rightmost
<1>8. OnlyByParent(ns, k, st, z)
  BY ChildOnBranch
<1>4. ASSUME NEW n \in 0 .. k - 1, NEW i \in 1 .. Len(ns[n].children), ns[n].children[i] \in B
      PROVE  /\ i = Len(ns[n].children)
             /\ n \in B /\ n # st[d]
  <2>1. PICK j \in z .. d : ns[n].children[i] = st[j]
    BY <1>4
  <2>2. j > z /\ st[j - 1] = n /\ i = Len(ns[n].children)
    BY <1>1, <1>8, <2>1 DEF OnlyByParent
  <2>3. j - 1 \in z .. d /\ j - 1 < d
    BY <2>2
  <2>4. st[j - 1] < st[d] /\ st[j - 1] \in 0 .. k - 1 /\ st[d] \in 0 .. k - 1
    BY <1>1, <1>3, <2>3
  <2>5. st[j - 1] \in B
    BY <2>3
  <2>6. st[j - 1] # st[d]
    BY <2>4
  <2>7. QED
    BY <2>2, <2>5, <2>6
<1>5. ASSUME NEW n \in B \ {st[d]} PROVE OnlyLastIn(ns[n].children, B)
  <2> DEFINE c == ns[n].children
  <2>1. PICK j \in z .. d : n = st[j]
    OBVIOUS
  <2>2. j \in z .. Len(st) - 1 /\ j + 1 \in z .. d
    BY <2>1
  <2>3. c # <<>> /\ c[Len(c)] = st[j + 1]
    BY <2>1, <2>2 DEF Rightmost
  <2>4. c[Len(c)] \in B
    BY <2>2, <2>3
  <2>5. \A i \in 1 .. Len(c) : c[i] \in B => i = Len(c)
    BY <1>2, <1>4
  <2>6. QED
    BY <2>3, <2>4, <2>5 DEF OnlyLastIn
<1>6. ASSUME NEW n \in 0 .. k - 1, n \notin B \/ n = st[d] PROVE NoneIn(ns[n].children, B)
  BY <1>4, <1>6 DEF NoneIn
<1>7. QED
  BY <1>2, <1>5, <1>6 DEF BranchTo

EndsWith(c, e) == c # <<>> /\ c[Len(c)] = e

LEMMA LastAppended ==
  ASSUME NEW S, NEW c \in Seq(S), NEW e \in S
  PROVE  EndsWith(Append(c, e), e)
<1> DEFINE a == Append(c, e)
<1>1. Len(c) \in Nat /\ Len(a) = Len(c) + 1
  BY AppendProperties
<1>2. a[Len(c) + 1] = e
  BY AppendProperties
<1>3. a # <<>>
  BY AppendProperties
<1>4. QED
  BY <1>1, <1>2, <1>3 DEF EndsWith

LEMMA StackGrows ==
  ASSUME NEW k \in Nat, NEW ns, Tree(ns, k), NEW st \in Seq(0 .. k - 1), NEW z \in 1 .. Len(st),
         Rightmost(ns, st, z), NEW d \in z .. Len(st),
         NEW ms, NEW node, GrownBy(ns, ms, k, st[d], node)
  PROVE  LET new == Append(SubSeq(st, 1, d), k)
         IN  z \in 1 .. Len(new) /\ Rightmost(ms, new, z)
<1> DEFINE new == Append(SubSeq(st, 1, d), k)
<1>1. /\ Len(new) = d + 1 /\ new[d + 1] = k /\ \A j \in 1 .. d : new[j] = st[j]
  <2>1. \A j \in 1 .. d : st[j] \in 0 .. k - 1
    OBVIOUS
  <2>2. /\ SubSeq(st, 1, d) \in Seq(0 .. k - 1) /\ Len(SubSeq(st, 1, d)) = d
        /\ \A j \in 1 .. d : SubSeq(st, 1, d)[j] = st[j]
    BY <2>1, SubSeqProperties
  <2>3. SubSeq(st, 1, d) \in Seq(0 .. k) /\ k \in 0 .. k
    BY <2>2
  <2>4. QED
    BY <2>2, <2>3, AppendProperties
<1> HIDE DEF new
<1>2. \A j \in z .. d : st[j] \in 0 .. k - 1 /\ j \in 1 .. d /\ j \in z .. Len(st)
  OBVIOUS
<1>3. new[z] = 0
  BY <1>1, <1>2 DEF Rightmost
<1>4. ASSUME NEW i \in z .. d + 1, NEW j \in z .. d + 1, i < j PROVE new[i] < new[j]
  <2>1. i \in z .. d /\ new[i] = st[i] /\ st[i] \in 0 .. k - 1
    BY <1>1, <1>2, <1>4
  <2>2. CASE j = d + 1
    BY <1>1, <2>1, <2>2
  <2>3. CASE j \in z .. d
    BY <1>1, <1>2, <1>4, <2>1, <2>3 DEF Rightmost
  <2>4. QED
    BY <2>2, <2>3
<1>5. ASSUME NEW j \in z .. d
      PROVE  /\ ms[new[j]].children # <<>>
             /\ ms[new[j]].children[Len(ms[new[j]].children)] = new[j + 1]
  <2>1. new[j] = st[j] /\ st[j] \in 0 .. k - 1
    BY <1>1, <1>2
  <2>2. CASE j = d
    <3> DEFINE c == ns[st[d]].children
    <3>1. ns[st[d]] \in NodeRecord(k) /\ c \in Seq(0 .. k - 1)
      BY <1>2, TreeChildren
    <3>2. st[d] # -1
      BY <1>2
    <3>3. ms[st[d]] = [ns[st[d]] EXCEPT !.children = Append(@, k)]
      BY <3>2 DEF GrownBy
    <3>4. ms[st[d]].children = Append(c, k)
      BY <3>1, <3>3 DEF NodeRecord
    <3> HIDE DEF c
    <3>5. c \in Seq(0 .. k) /\ k \in 0 .. k
      BY <3>1
    <3>6. Append(c, k) # <<>> /\ Append(c, k)[Len(Append(c, k))] = k
      BY <3>5, LastAppended DEF EndsWith
    <3>7. QED
      BY <1>1, <2>1, <2>2, <3>4, <3>6
  <2>3. CASE j \in z .. d - 1
    <3>1. /\ j + 1 \in 1 .. d /\ j \in z .. Len(st) - 1 /\ j < d
          /\ j \in z .. Len(st) /\ d \in z .. Len(st)
      BY <2>3
    <3>4. st[j] < st[d]
      BY <3>1 DEF Rightmost
    <3>5. st[j] # st[d] /\ st[j] \in 0 .. k - 1
      BY <1>2, <2>1, <3>4
    <3>2. ms[st[j]] = ns[st[j]]
      BY <3>5 DEF GrownBy
    <3>3. QED
      BY <1>1, <2>1, <3>1, <3>2 DEF Rightmost
  <2>4. QED
    BY <2>2, <2>3
<1>6. z \in 1 .. Len(new) /\ Len(new) - 1 = d
  BY <1>1
<1>7. QED
  BY <1>1, <1>3, <1>4, <1>5, <1>6 DEF Rightmost, new


-----------------------------------------------------------------------------
(* The lines kept of those read, and the file that gives them back.        *)

IsKept(line, rd) ==
  line.kind = "node" \/ (line.kind = "root" /\ \A j \in DOMAIN rd : rd[j].kind # "root")

Kept(rd) ==
  {i \in DOMAIN rd :
     rd[i].kind = "node" \/ (rd[i].kind = "root" /\ \A j \in 1 .. i - 1 : rd[j].kind # "root")}

Place(rd, i) == Cardinality({j \in Kept(rd) : j <= i})

GivesBack(file, rd) ==
  Len(file) = Cardinality(Kept(rd)) /\ \A i \in Kept(rd) : file[Place(rd, i)] = AsWritten(rd[i])

LEMMA WriterGives == WriterReproduces <=> (stage = "structure" => GivesBack(WrittenFile(nodes), read))
BY DEF WriterReproduces, TreeLines, Kept, Place, GivesBack

LEMMA KeptFinite ==
  ASSUME NEW S, NEW rd \in Seq(S)
  PROVE  /\ Kept(rd) \subseteq 1 .. Len(rd) /\ IsFiniteSet(Kept(rd)) /\ Cardinality(Kept(rd)) \in Nat
         /\ \A i \in Kept(rd) : Place(rd, i) \in 1 .. Cardinality(Kept(rd))
<1>1. Kept(rd) \subseteq 1 .. Len(rd) /\ Len(rd) \in Nat
  BY DEF Kept
<1>2. IsFiniteSet(1 .. Len(rd))
  BY <1>1, FS_Interval
<1>3. IsFiniteSet(Kept(rd)) /\ Cardinality(Kept(rd)) \in Nat
  BY <1>1, <1>2, FS_Subset, FS_CardinalityType
<1>4. ASSUME NEW i \in Kept(rd) PROVE Place(rd, i) \in 1 .. Cardinality(Kept(rd))
  <2> DEFINE P == {j \in Kept(rd) : j <= i}
             A == {i}
  <2>1. P \subseteq Kept(rd) /\ A \subseteq P
    BY <1>1
  <2> HIDE DEF P
  <2>2. IsFiniteSet(P) /\ Cardinality(P) \in Nat /\ Cardinality(P) <= Cardinality(Kept(rd))
    BY <1>3, <2>1, FS_Subset, FS_CardinalityType
  <2>3. Cardinality(A) = 1
    BY FS_Singleton
  <2> HIDE DEF A
  <2>4. Cardinality(A) <= Cardinality(P)
    BY <2>1, <2>2, FS_Subset
  <2>5. Place(rd, i) = Cardinality(P)
    BY DEF Place, P
  <2>6. QED
    BY <1>3, <2>2, <2>3, <2>4, <2>5
<1>5. QED
  BY <1>1, <1>3, <1>4

LEMMA PlaceBefore ==
  ASSUME NEW S, NEW rd \in Seq(S), NEW line \in S, NEW i \in Kept(rd),
         Kept(Append(rd, line)) \in {Kept(rd), Kept(rd) \cup {Len(rd) + 1}}
  PROVE  Place(Append(rd, line), i) = Place(rd, i) /\ Append(rd, line)[i] = rd[i]
<1>1. i \in 1 .. Len(rd) /\ Len(rd) \in Nat
  BY KeptFinite
<1>2. ~(Len(rd) + 1 <= i)
  BY <1>1
<1>3. {j \in Kept(Append(rd, line)) : j <= i} = {j \in Kept(rd) : j <= i}
  BY <1>2
<1>4. Append(rd, line)[i] = rd[i]
  BY <1>1, AppendProperties
<1>5. QED
  BY <1>3, <1>4 DEF Place

LEMMA KeptAfter ==
  ASSUME NEW S, NEW rd \in Seq(S), NEW line \in S
  PROVE  /\ IsKept(line, rd) => Kept(Append(rd, line)) = Kept(rd) \cup {Len(rd) + 1}
         /\ ~IsKept(line, rd) => Kept(Append(rd, line)) = Kept(rd)
<1> DEFINE new == Append(rd, line)
           n == Len(rd)
<1>1. n \in Nat /\ DOMAIN rd = 1 .. n
  OBVIOUS
<1>2. DOMAIN new = 1 .. n + 1 /\ new[n + 1] = line /\ \A i \in 1 .. n : new[i] = rd[i]
  <2>1. new \in Seq(S) /\ Len(new) = n + 1
    BY AppendProperties
  <2>2. new[n + 1] = line /\ \A i \in 1 .. n : new[i] = rd[i]
    BY AppendProperties
  <2> HIDE DEF new
  <2>3. DOMAIN new = 1 .. n + 1
    BY <2>1
  <2>4. QED
    BY <2>2, <2>3
<1> HIDE DEF new, n
<1>3. \A i \in 1 .. n : i \in Kept(new) <=> i \in Kept(rd)
  <2>1. TAKE i \in 1 .. n
  <2>2. i \in 1 .. n + 1 /\ \A j \in 1 .. i - 1 : j \in 1 .. n
    BY <1>1
  <2>3. QED
    BY <1>1, <1>2, <2>2 DEF Kept
<1>4. n + 1 \in Kept(new) <=> IsKept(line, rd)
  <2>1. (n + 1) - 1 = n /\ n + 1 \in 1 .. n + 1
    BY <1>1
  <2>2. QED
    BY <1>1, <1>2, <2>1 DEF Kept, IsKept
<1>5. Kept(rd) \subseteq 1 .. n /\ Kept(new) \subseteq 1 .. n + 1
  BY <1>1, <1>2 DEF Kept
<1>6. \A i \in 1 .. n + 1 : i \in 1 .. n \/ i = n + 1
  BY <1>1
<1>7. QED
  BY <1>3, <1>4, <1>5, <1>6 DEF new, n

LEMMA PassedLine ==
  ASSUME NEW S, NEW rd \in Seq(S), NEW line \in S, NEW file, GivesBack(file, rd), ~IsKept(line, rd)
  PROVE  GivesBack(file, Append(rd, line))
<1>1. Kept(Append(rd, line)) = Kept(rd)
  BY KeptAfter
<1>2. \A i \in Kept(rd) : Place(Append(rd, line), i) = Place(rd, i) /\ Append(rd, line)[i] = rd[i]
  BY <1>1, PlaceBefore
<1>3. QED
  BY <1>1, <1>2 DEF GivesBack

LEMMA KeptLine ==
  ASSUME NEW S, NEW rd \in Seq(S), NEW line \in S,
         NEW W, NEW file \in Seq(W), NEW w \in W, w = AsWritten(line),
         GivesBack(file, rd), IsKept(line, rd)
  PROVE  GivesBack(Append(file, w), Append(rd, line))
<1> DEFINE new == Append(rd, line)
           n == Len(rd)
           longer == Append(file, w)
           K == Kept(rd)
           size == Cardinality(K)
<1>1. Kept(new) = K \cup {n + 1}
  BY KeptAfter
<1>2. K \subseteq 1 .. n /\ IsFiniteSet(K) /\ size \in Nat /\ n \in Nat
      /\ \A i \in K : Place(rd, i) \in 1 .. size
  BY KeptFinite
<1>3. n + 1 \notin K
  BY <1>2
<1>4. Cardinality(Kept(new)) = size + 1
  <2> HIDE DEF K, n, new
  <2>1. Cardinality(K \cup {n + 1}) = Cardinality(K) + 1
    BY <1>2, <1>3, FS_AddElement
  <2>2. QED
    BY <1>1, <2>1
<1>5. new[n + 1] = line
  BY AppendProperties
<1>6. Place(new, n + 1) = size + 1
  <2>1. \A j \in Kept(new) : j <= n + 1
    BY <1>1, <1>2
  <2>2. {j \in Kept(new) : j <= n + 1} = Kept(new)
    BY <2>1
  <2>3. QED
    BY <1>4, <2>2 DEF Place
<1>7. \A i \in K : Place(new, i) = Place(rd, i) /\ new[i] = rd[i]
  BY <1>1, PlaceBefore
<1>8. Len(file) = size /\ \A i \in K : file[Place(rd, i)] = AsWritten(rd[i])
  BY DEF GivesBack
<1>9. Len(longer) = Len(file) + 1 /\ longer[Len(file) + 1] = w
      /\ \A i \in 1 .. Len(file) : longer[i] = file[i]
  BY AppendProperties
<1> HIDE DEF new, n, longer, K, size
<1>10. ASSUME NEW i \in Kept(new) PROVE longer[Place(new, i)] = AsWritten(new[i])
  <2>1. CASE i = n + 1
    BY <1>5, <1>6, <1>8, <1>9, <2>1
  <2>2. CASE i \in K
    BY <1>2, <1>7, <1>8, <1>9, <2>2
  <2>3. QED
    BY <1>1, <1>10, <2>1, <2>2
<1>11. Len(longer) = Cardinality(Kept(new))
  BY <1>4, <1>8, <1>9
<1>12. GivesBack(longer, new)
  BY <1>10, <1>11 DEF GivesBack
<1>13. QED
  BY <1>12 DEF longer, new


-----------------------------------------------------------------------------
(* The writer gives back what the parser reads.                            *)

WriterInv ==
  stage = "structure" =>
    /\ Tree(nodes, NNodes) /\ HasLines(nodes, NNodes)
    /\ \A n \in 0 .. NNodes - 1 : nodes[n].level >= 0
    /\ NNodes > 0 => \E z \in 1 .. Len(stack) : Rightmost(nodes, stack, z)
    /\ root_done <=> \E j \in DOMAIN read : read[j].kind = "root"
    /\ GivesBack(WrittenFile(nodes), read)

LEMMA FirstNodeLines ==
  ASSUME NEW k \in Nat, NEW ns, DOMAIN ns = 0 .. k
  PROVE  WrittenFile(ns) = NodeLines(ns)[0]
<1>1. 0 \in DOMAIN ns
  OBVIOUS
<1>2. ns # <<>>
  BY <1>1
<1>3. QED
  BY <1>2 DEF WrittenFile

LEMMA FileType ==
  ASSUME NEW k \in Nat, NEW ns, DOMAIN ns = 0 .. k - 1, HasLines(ns, k)
  PROVE  WrittenFile(ns) \in Seq(Text)
<1>1. CASE ns = <<>>
  BY <1>1, EmptySeq DEF WrittenFile
<1>2. CASE ns # <<>>
  <2>1. k # 0
    BY <1>2
  <2>2. 0 \in 0 .. k - 1
    BY <2>1
  <2>3. NodeLines(ns)[0] \in Seq(Text)
    BY <2>2 DEF HasLines
  <2>4. QED
    BY <1>2, <2>3 DEF WrittenFile
<1>3. QED
  BY <1>1, <1>2

LEMMA RootsRead ==
  ASSUME NEW S, NEW rd \in Seq(S), NEW line \in S
  PROVE  (\E j \in DOMAIN Append(rd, line) : Append(rd, line)[j].kind = "root")
         <=> (line.kind = "root" \/ \E j \in DOMAIN rd : rd[j].kind = "root")
<1> DEFINE new == Append(rd, line)
           n == Len(rd)
<1>1. n \in Nat /\ DOMAIN rd = 1 .. n
  OBVIOUS
<1>2. DOMAIN new = 1 .. n + 1 /\ new[n + 1] = line /\ \A i \in 1 .. n : new[i] = rd[i]
  <2>1. new \in Seq(S) /\ Len(new) = n + 1
    BY AppendProperties
  <2>2. new[n + 1] = line /\ \A i \in 1 .. n : new[i] = rd[i]
    BY AppendProperties
  <2> HIDE DEF new
  <2>3. DOMAIN new = 1 .. n + 1
    BY <2>1
  <2>4. QED
    BY <2>2, <2>3
<1> HIDE DEF new, n
<1>3. \A i \in 1 .. n + 1 : i \in 1 .. n \/ i = n + 1
  BY <1>1
<1>4. n + 1 \in 1 .. n + 1 /\ \A i \in 1 .. n : i \in 1 .. n + 1
  BY <1>1
<1>5. QED
  BY <1>1, <1>2, <1>3, <1>4 DEF new

LEMMA WrittenNode ==
  ASSUME NEW line \in StructureLine, line.kind = "node", NEW p
  PROVE  Written(NewNode(line, p)) = AsWritten(line)
<1>1. line \in [kind : {"node"}, level : Int, name : Name, cell : CellName, sink : BOOLEAN]
  BY LineAssumption DEF LineOf
<1>2. CASE line.name \in FFName
  BY <1>1, <1>2 DEF NewNode, Written, AsWritten
<1>3. CASE line.name \notin FFName
  BY <1>1, <1>3 DEF NewNode, Written, AsWritten
<1>4. QED
  BY <1>2, <1>3

LEMMA WrittenRoot ==
  ASSUME NEW line \in StructureLine, line.kind = "root"
  PROVE  Written(RootNode(line.name)) = AsWritten(line)
<1>1. line \in [kind : {"root"}, name : Name]
  BY LineAssumption DEF LineOf
<1>2. QED
  BY <1>1 DEF RootNode, Written, AsWritten

\* What an added node leaves of the invariant to show.
LEMMA WriterInvAfter ==
  ASSUME stage' = "structure", NEW k \in Nat, NNodes' = k + 1,
         Tree(nodes', k + 1), HasLines(nodes', k + 1),
         \A n \in 0 .. k : nodes'[n].level >= 0,
         NEW z \in 1 .. Len(stack'), Rightmost(nodes', stack', z),
         root_done' = TRUE, \E j \in DOMAIN read' : read'[j].kind = "root",
         GivesBack(WrittenFile(nodes'), read')
  PROVE  WriterInv'
<1>1. (k + 1) - 1 = k
  OBVIOUS
<1> HIDE DEF NNodes
<1>2. QED
  BY <1>1 DEF WriterInv

LEMMA NodeLineWritten ==
  ASSUME TypeInv, WriterInv, NEW line \in StructureLine, NodeLine(line)
  PROVE  WriterInv'
<1> DEFINE k == NNodes
<1>1. PICK d \in 1 .. Len(stack) :
        /\ nodes[stack[d]].level < line.level
        /\ \A i \in 1 .. Len(stack) : nodes[stack[i]].level < line.level => i <= d
        /\ NNodes' = k + 1 /\ line.level \in Int
        /\ nodes'[k].level = line.level
        /\ \A n \in 0 .. k - 1 : Same(n)
        /\ nodes'[k] = NewNode(line, stack[d])
        /\ nodes'[stack[d]] = [nodes[stack[d]] EXCEPT !.children = Append(@, k)]
        /\ \A n \in 0 .. k - 1 : n # stack[d] => nodes'[n] = nodes[n]
        /\ stack' = Append(SubSeq(stack, 1, d), k)
  <2>1. NodesInv
    BY DEF TypeInv
  <2> HIDE DEF NodesInv, NNodes
  <2>2. QED
    BY <2>1, NodeLineEffect
<1>2. /\ stage = "structure" /\ stage' = stage /\ read' = Append(read, line)
      /\ root_done = TRUE /\ root_done' = TRUE /\ line.kind = "node"
  BY DEF NodeLine, Line, GoOn, TypeInv, NodesInv
<1>3. /\ k \in Nat /\ k > 0 /\ stack \in Seq(0 .. k - 1)
      /\ DOMAIN nodes = 0 .. k - 1
      /\ nodes[0].level = 0
      /\ \A n \in 0 .. k - 1 : nodes[n].level \in Int
  <2>1. /\ k \in Nat /\ nodes \in [0 .. k - 1 -> NodeRecord(k)] /\ stack \in Seq(0 .. k - 1)
        /\ k > 0
        /\ nodes[0].kind = "ROOT"
        /\ \A n \in 0 .. k - 1 : nodes[n].kind = "ROOT" => nodes[n].level = 0
    BY <1>2 DEF TypeInv, NodesInv
  <2> HIDE DEF k
  <2>2. 0 \in 0 .. k - 1
    BY <2>1
  <2>3. \A n \in 0 .. k - 1 : nodes[n].level \in Int
    BY <2>1 DEF NodeRecord
  <2>4. QED
    BY <2>1, <2>2, <2>3
<1>4. /\ Tree(nodes, k) /\ HasLines(nodes, k)
      /\ \A n \in 0 .. k - 1 : nodes[n].level >= 0
      /\ \E z \in 1 .. Len(stack) : Rightmost(nodes, stack, z)
      /\ \E j \in DOMAIN read : read[j].kind = "root"
      /\ GivesBack(WrittenFile(nodes), read)
  BY <1>2, <1>3 DEF WriterInv
<1>5. nodes' \in [0 .. k -> NodeRecord(k + 1)] /\ read \in Seq(AnyLine) /\ line \in AnyLine
  <2>1. NodesInv'
    BY StructureStep DEF TypeInv
  <2>2. NNodes' - 1 = k
    BY <1>1, <1>3
  <2>3. nodes' \in [0 .. NNodes' - 1 -> NodeRecord(NNodes')]
    BY <2>1 DEF NodesInv
  <2>4. QED
    BY <1>1, <2>2, <2>3 DEF TypeInv, AnyLine
<1> HIDE DEF k
<1>6. PICK z \in 1 .. Len(stack) : Rightmost(nodes, stack, z)
  BY <1>4
<1>7. stack[d] \in 0 .. k - 1 /\ Len(stack) \in Nat
  BY <1>3
<1>8. line.level > 0
  <2>1. nodes[stack[d]].level \in Int /\ nodes[stack[d]].level >= 0
    BY <1>3, <1>4, <1>7
  <2>2. nodes[stack[d]].level < line.level /\ line.level \in Int
    BY <1>1
  <2>3. QED
    BY <2>1, <2>2
<1>9. d \in z .. Len(stack)
  <2>1. nodes[stack[z]].level < line.level
    BY <1>1, <1>3, <1>6, <1>8 DEF Rightmost
  <2>2. z <= d
    BY <1>1, <1>6, <2>1
  <2>3. QED
    BY <1>6, <1>7, <2>2
<1> DEFINE B == {stack[j] : j \in z .. d}
           p == stack[d]
           node == NewNode(line, p)
<1>10. BranchTo(nodes, k, B, p)
  BY <1>3, <1>4, <1>6, <1>9, BranchIs
<1>11. 0 \in B
  <2>1. z \in z .. d /\ stack[z] = 0
    BY <1>6, <1>9 DEF Rightmost
  <2>2. QED
    BY <2>1
<1>12. GrownBy(nodes, nodes', k, p, node)
  <2>1. node.children = <<>> /\ node.parent = p
    BY DEF NewNode
  <2>2. DOMAIN nodes' = 0 .. k
    BY <1>5
  <2> HIDE DEF node
  <2>3. nodes'[k] = node
    BY <1>1 DEF node
  <2>4. QED
    BY <1>1, <2>1, <2>2, <2>3 DEF GrownBy
<1> DEFINE w == Written(node)
<1>13. w = AsWritten(line)
  BY <1>2, WrittenNode
<1>21. LET new == Append(SubSeq(stack, 1, d), k)
       IN  z \in 1 .. Len(new) /\ Rightmost(nodes', new, z)
  <2> HIDE DEF B, node
  <2>1. QED
    BY <1>3, <1>4, <1>6, <1>9, <1>12, StackGrows
<1>14. z \in 1 .. Len(stack') /\ Rightmost(nodes', stack', z)
  BY <1>1, <1>21
<1> HIDE DEF B, p, node
<1>15. /\ Tree(nodes', k + 1) /\ HasLines(nodes', k + 1)
       /\ NodeLines(nodes') = GrownLines(NodeLines(nodes), k, B, w)
  <2>1. k \in Nat /\ nodes' \in [0 .. k -> NodeRecord(k + 1)]
    BY <1>3, <1>5
  <2>2. Tree(nodes, k) /\ HasLines(nodes, k)
    BY <1>4
  <2> HIDE DEF w
  <2>3. /\ Tree(nodes', k + 1) /\ HasLines(nodes', k + 1)
        /\ NodeLines(nodes') = GrownLines(NodeLines(nodes), k, B, Written(node))
    BY <1>10, <1>12, <2>1, <2>2, LinesAfter
  <2>4. QED
    BY <2>3 DEF w
<1>16. \A n \in 0 .. k : nodes'[n].level >= 0
  <2>1. \A n \in 0 .. k : n = k \/ n \in 0 .. k - 1
    BY <1>3
  <2>2. \A n \in 0 .. k - 1 : nodes'[n].level >= 0
    BY <1>1, <1>4 DEF Same
  <2>3. nodes'[k].level >= 0
    BY <1>1, <1>8
  <2>4. QED
    BY <2>1, <2>2, <2>3
<1>17. WrittenFile(nodes') = Append(WrittenFile(nodes), w)
  <2>1. WrittenFile(nodes') = NodeLines(nodes')[0]
    BY <1>3, <1>5, FirstNodeLines
  <2>2. WrittenFile(nodes) = NodeLines(nodes)[0]
    <3>1. k - 1 \in Nat
      BY <1>3
    <3>2. QED
      BY <1>3, <3>1, FirstNodeLines
  <2>3. 0 \in 0 .. k /\ 0 # k
    BY <1>3
  <2>4. GrownLines(NodeLines(nodes), k, B, w)[0] = Append(NodeLines(nodes)[0], w)
    BY <1>11, <2>3 DEF GrownLines
  <2>5. QED
    BY <1>15, <2>1, <2>2, <2>4
<1>18. WrittenFile(nodes) \in Seq(Text) /\ w \in Text
  <2>1. WrittenFile(nodes) \in Seq(Text)
    BY <1>3, <1>4, FileType
  <2>2. node \in NodeRecord(k + 1)
    <3>1. k \in 0 .. k
      BY <1>3
    <3>2. QED
      BY <1>1, <1>5, <3>1 DEF node, p
  <2>3. QED
    BY <2>1, <2>2, WrittenType
<1> HIDE DEF w
<1>19. GivesBack(WrittenFile(nodes'), read')
  <2>1. IsKept(line, read)
    BY <1>2 DEF IsKept
  <2>2. GivesBack(Append(WrittenFile(nodes), w), Append(read, line))
    BY <1>4, <1>5, <1>13, <1>18, <2>1, KeptLine
  <2>3. QED
    BY <1>2, <1>17, <2>2
<1>20. \E j \in DOMAIN read' : read'[j].kind = "root"
  <2>1. (\E j \in DOMAIN read' : read'[j].kind = "root")
        <=> (line.kind = "root" \/ \E j \in DOMAIN read : read[j].kind = "root")
    BY <1>2, <1>5, RootsRead
  <2>2. QED
    BY <1>4, <2>1
<1>22. QED
  <2>1. /\ stage' = "structure" /\ NNodes' = k + 1 /\ k \in Nat /\ root_done' = TRUE
        /\ Tree(nodes', k + 1) /\ HasLines(nodes', k + 1)
    BY <1>1, <1>2, <1>3, <1>15
  <2> HIDE DEF NNodes
  <2>2. QED
    BY <1>14, <1>16, <1>19, <1>20, <2>1, WriterInvAfter

\* A root is pushed as node 0, and is on no branch of the others.
LEMMA RootLineWritten ==
  ASSUME TypeInv, WriterInv, NEW line \in StructureLine, RootLine(line)
  PROVE  WriterInv'
<1> DEFINE k == NNodes
           node == RootNode(line.name)
           w == Written(node)
<1>1. /\ NNodes' = k + 1 /\ nodes'[k] = node
      /\ \A n \in 0 .. k - 1 : nodes'[n] = nodes[n]
      /\ stack' = Append(stack, 0)
  <2>1. NodesInv
    BY DEF TypeInv
  <2> HIDE DEF NodesInv
  <2>2. QED
    BY <2>1, RootLineEffect
<1>2. /\ stage = "structure" /\ stage' = stage /\ read' = Append(read, line)
      /\ root_done' = TRUE /\ line.kind = "root"
  BY DEF RootLine, Line, GoOn
<1>3. /\ k \in Nat /\ stack \in Seq(0 .. k - 1) /\ DOMAIN nodes = 0 .. k - 1
      /\ (root_done <=> k > 0)
  BY DEF TypeInv, NodesInv
<1>4. /\ Tree(nodes, k) /\ HasLines(nodes, k)
      /\ \A n \in 0 .. k - 1 : nodes[n].level >= 0
      /\ root_done <=> \E j \in DOMAIN read : read[j].kind = "root"
      /\ GivesBack(WrittenFile(nodes), read)
  BY <1>2 DEF WriterInv
<1>5. nodes' \in [0 .. k -> NodeRecord(k + 1)] /\ read \in Seq(AnyLine) /\ line \in AnyLine
  <2>1. NodesInv'
    BY StructureStep DEF TypeInv
  <2>2. NNodes' - 1 = k
    BY <1>1, <1>3
  <2>3. nodes' \in [0 .. NNodes' - 1 -> NodeRecord(NNodes')]
    BY <2>1 DEF NodesInv
  <2>4. QED
    BY <1>1, <2>2, <2>3 DEF TypeInv, AnyLine
<1> HIDE DEF k, node, w
<1>6. BranchTo(nodes, k, {}, -1)
  BY DEF BranchTo, NoneIn
<1>7. GrownBy(nodes, nodes', k, -1, node)
  <2>1. node.children = <<>> /\ node.parent = -1
    BY DEF node, RootNode
  <2>2. DOMAIN nodes' = 0 .. k
    BY <1>5
  <2>3. QED
    BY <1>1, <2>1, <2>2 DEF GrownBy
<1>8. /\ Tree(nodes', k + 1) /\ HasLines(nodes', k + 1)
      /\ NodeLines(nodes') = GrownLines(NodeLines(nodes), k, {}, w)
  <2>1. k \in Nat /\ nodes' \in [0 .. k -> NodeRecord(k + 1)]
    BY <1>3, <1>5
  <2>2. Tree(nodes, k) /\ HasLines(nodes, k)
    BY <1>4
  <2>3. /\ Tree(nodes', k + 1) /\ HasLines(nodes', k + 1)
        /\ NodeLines(nodes') = GrownLines(NodeLines(nodes), k, {}, Written(node))
    BY <1>6, <1>7, <2>1, <2>2, LinesAfter
  <2>4. QED
    BY <2>3 DEF w
<1>9. \A n \in 0 .. k : nodes'[n].level >= 0
  <2>1. \A n \in 0 .. k : n = k \/ n \in 0 .. k - 1
    BY <1>3
  <2>2. nodes'[k].level = 0
    <3>1. node.level = 0
      BY DEF node, RootNode
    <3>2. QED
      BY <1>1, <3>1
  <2>3. QED
    BY <1>1, <1>4, <2>1, <2>2
<1> DEFINE z == Len(stack) + 1
<1>10. z \in 1 .. Len(stack') /\ Rightmost(nodes', stack', z)
  <2>1. stack \in Seq(0 .. k) /\ 0 \in 0 .. k
    BY <1>3
  <2>2. Len(stack) \in Nat /\ Len(stack') = z /\ stack'[z] = 0
    BY <1>1, <2>1, AppendProperties
  <2>3. z \in 1 .. Len(stack') /\ z .. Len(stack') = {z} /\ z .. Len(stack') - 1 = {} /\ ~(z < z)
    BY <2>2
  <2> HIDE DEF z
  <2>4. QED
    BY <2>2, <2>3 DEF Rightmost
<1> HIDE DEF z
<1>11. w = AsWritten(line) /\ w \in Text
  <2>1. w = AsWritten(line)
    BY <1>2, WrittenRoot DEF w, node
  <2>2. node \in NodeRecord(k + 1)
    <3>1. k \in 0 .. k
      BY <1>3
    <3>2. QED
      BY <1>1, <1>5, <3>1
  <2>3. QED
    BY <2>1, <2>2, WrittenType DEF w
<1>12. WrittenFile(nodes') = NodeLines(nodes')[0]
  BY <1>3, <1>5, FirstNodeLines
<1>13. ASSUME k = 0 PROVE GivesBack(WrittenFile(nodes'), read')
  <2>1. GivesBack(Append(WrittenFile(nodes), w), Append(read, line))
    <3>1. IsKept(line, read)
      BY <1>2, <1>3, <1>4, <1>13 DEF IsKept
    <3>2. WrittenFile(nodes) \in Seq(Text)
      BY <1>3, <1>4, FileType
    <3>3. QED
      BY <1>4, <1>5, <1>11, <3>1, <3>2, KeptLine
  <2>2. WrittenFile(nodes) = <<>>
    <3>1. DOMAIN nodes = {}
      BY <1>3, <1>13
    <3>2. nodes = <<>>
      <4>1. nodes = [n \in DOMAIN nodes |-> nodes[n]]
        BY DEF TypeInv, NodesInv
      <4>2. QED
        BY <3>1, <4>1
    <3>3. QED
      BY <3>2 DEF WrittenFile
  <2>3. GrownLines(NodeLines(nodes), k, {}, w)[0] = <<w>>
    BY <1>13 DEF GrownLines
  <2>4. Append(<<>>, w) = <<w>>
    OBVIOUS
  <2>5. QED
    BY <1>2, <1>8, <1>12, <2>1, <2>2, <2>3, <2>4
<1>14. ASSUME k > 0 PROVE GivesBack(WrittenFile(nodes'), read')
  <2>1. GivesBack(WrittenFile(nodes), Append(read, line))
    <3>1. ~IsKept(line, read)
      BY <1>2, <1>3, <1>4, <1>14 DEF IsKept
    <3>2. QED
      BY <1>4, <1>5, <3>1, PassedLine
  <2>2. WrittenFile(nodes) = NodeLines(nodes)[0]
    <3>1. k - 1 \in Nat
      BY <1>3, <1>14
    <3>2. QED
      BY <1>3, <3>1, FirstNodeLines
  <2>3. 0 \in 0 .. k /\ 0 # k
    BY <1>3, <1>14
  <2>4. GrownLines(NodeLines(nodes), k, {}, w)[0] = NodeLines(nodes)[0]
    BY <2>3 DEF GrownLines
  <2>5. QED
    BY <1>2, <1>8, <1>12, <2>1, <2>2, <2>4
<1>15. GivesBack(WrittenFile(nodes'), read')
  BY <1>2, <1>3, <1>13, <1>14
<1>16. \E j \in DOMAIN read' : read'[j].kind = "root"
  BY <1>2, <1>5, RootsRead
<1>17. QED
  BY <1>1, <1>2, <1>3, <1>8, <1>9, <1>10, <1>15, <1>16, WriterInvAfter DEF k

LEMMA NothingWritten ==
  ASSUME nodes' = <<>>, NNodes' = 0, read' = <<>>, root_done' = FALSE
  PROVE  WriterInv'
<1>1. 0 .. 0 - 1 = {} /\ DOMAIN nodes' = {} /\ DOMAIN read' = {} /\ ~(NNodes' > 0)
  <2>1. 0 .. 0 - 1 = {} /\ DOMAIN nodes' = {} /\ DOMAIN read' = {}
    OBVIOUS
  <2>2. QED
    BY <2>1
<1> HIDE DEF NNodes
<1>2. nodes' \in [0 .. 0 - 1 -> NodeRecord(0)]
  BY <1>1
<1>3. Tree(nodes', 0)
  BY <1>1, <1>2 DEF Tree
<1> DEFINE f == [n \in DOMAIN nodes' |-> <<Written(nodes'[n])>>]
<1>4. IsLines(f, nodes')
  BY <1>1 DEF IsLines
<1>5. f \in [0 .. 0 - 1 -> Seq(Text)]
  BY <1>1
<1> HIDE DEF f
<1>6. NodeLines(nodes') = f
  BY <1>3, <1>4, LinesChosen
<1>7. HasLines(nodes', 0)
  BY <1>4, <1>5, <1>6 DEF HasLines
<1>8. GivesBack(WrittenFile(nodes'), read')
  <2>1. Kept(read') = {}
    BY <1>1 DEF Kept
  <2>2. WrittenFile(nodes') = <<>>
    BY DEF WrittenFile
  <2>3. Cardinality({}) = 0 /\ Len(<<>>) = 0
    BY FS_EmptySet
  <2>4. QED
    BY <2>1, <2>2, <2>3 DEF GivesBack
<1>9. QED
  BY <1>1, <1>3, <1>7, <1>8 DEF WriterInv

LEMMA PassedOverWritten ==
  ASSUME TypeInv, WriterInv, NEW line \in StructureLine, PassedOver(line)
  PROVE  WriterInv'
<1>1. /\ stage = "structure" /\ stage' = stage /\ read' = Append(read, line)
      /\ nodes' = nodes /\ stack' = stack /\ root_done' = root_done
      /\ line.kind \in {"blank", "text"}
  BY DEF PassedOver, Line, GoOn, tree
<1>2. NNodes' = NNodes
  BY <1>1 DEF NNodes
<1>3. read \in Seq(AnyLine) /\ line \in AnyLine
  BY DEF TypeInv, AnyLine
<1> HIDE DEF NNodes
<1>4. ~IsKept(line, read)
  BY <1>1 DEF IsKept
<1>5. GivesBack(WrittenFile(nodes), read)
  BY <1>1 DEF WriterInv
<1>6. GivesBack(WrittenFile(nodes'), read')
  BY <1>1, <1>3, <1>4, <1>5, PassedLine
<1>7. root_done' <=> \E j \in DOMAIN read' : read'[j].kind = "root"
  <2>1. root_done <=> \E j \in DOMAIN read : read[j].kind = "root"
    BY <1>1 DEF WriterInv
  <2>2. (\E j \in DOMAIN read' : read'[j].kind = "root")
        <=> (line.kind = "root" \/ \E j \in DOMAIN read : read[j].kind = "root")
    BY <1>1, <1>3, RootsRead
  <2>3. QED
    BY <1>1, <2>1, <2>2
<1>8. QED
  BY <1>1, <1>2, <1>6, <1>7 DEF WriterInv

LEMMA WriterStep ==
  ASSUME TypeInv, WriterInv, [Next]_vars
  PROVE  WriterInv'
<1>1. ASSUME stage' # "structure" PROVE WriterInv'
  BY <1>1 DEF WriterInv
<1>2. CASE CannotOpen
  BY <1>1, <1>2 DEF CannotOpen, Fail
<1>3. ASSUME NEW line \in LibraryLine,
             CellLine(line) \/ RowLine(line) \/ OtherLibraryLine(line)
      PROVE  WriterInv'
  <2>1. stage' # "structure"
    BY <1>3 DEF CellLine, RowLine, OtherLibraryLine, Line, GoOn, Fail
  <2>2. QED
    BY <1>1, <2>1
<1>4. ASSUME NEW line \in StructureLine,
             RootLine(line) \/ NodeLine(line) \/ BadLine(line) \/ PassedOver(line)
      PROVE  WriterInv'
  <2>1. CASE BadLine(line)
    BY <1>1, <2>1 DEF BadLine, Fail
  <2>2. QED
    BY <1>4, <2>1, RootLineWritten, NodeLineWritten, PassedOverWritten
<1>5. ASSUME NEW line \in ReportLine, SSRow(line) \/ FFRow(line) \/ OtherReportLine(line)
      PROVE  WriterInv'
  <2>1. stage' # "structure"
    BY <1>5 DEF SSRow, FFRow, OtherReportLine, Line, GoOn, Fail
  <2>2. QED
    BY <1>1, <2>1
<1>6. CASE EndOfFile
  <2>1. CASE stage = "library"
    <3>1. NNodes = 0 /\ nodes = <<>> /\ root_done = FALSE
      <4>1. /\ NNodes = 0 /\ DOMAIN nodes = 0 .. 0 - 1 /\ nodes = [n \in DOMAIN nodes |-> nodes[n]]
            /\ root_done \in BOOLEAN /\ (root_done <=> NNodes > 0)
        BY <2>1 DEF TypeInv, NodesInv
      <4>2. DOMAIN nodes = {}
        BY <4>1
      <4> HIDE DEF NNodes
      <4>3. QED
        BY <4>1, <4>2
    <3>2. nodes' = nodes /\ root_done' = root_done /\ read' = <<>>
      BY <1>6 DEF EndOfFile
    <3>3. NNodes' = NNodes
      BY <3>2 DEF NNodes
    <3> HIDE DEF NNodes
    <3>4. QED
      BY <3>1, <3>2, <3>3, NothingWritten
  <2>2. CASE stage # "library"
    <3>1. stage' # "structure"
      BY <1>6, <2>2 DEF EndOfFile, File
    <3>2. QED
      BY <1>1, <3>1
  <2>3. QED
    BY <2>1, <2>2
<1>7. CASE UNCHANGED vars
  <2>1. /\ stage' = stage /\ read' = read /\ nodes' = nodes /\ stack' = stack
        /\ root_done' = root_done
    BY <1>7 DEF vars, tree
  <2>2. NNodes' = NNodes
    BY <2>1 DEF NNodes
  <2> HIDE DEF NNodes
  <2>3. QED
    BY <2>1, <2>2 DEF WriterInv
<1>8. QED
  BY <1>2, <1>3, <1>4, <1>5, <1>6, <1>7 DEF Next, ReadLine, Terminated

\* Of a structure file of any lines and any length, what was read is written
\* back: WriterReproduces, also between the lines.  The inductive invariant
\* keeps what one more line changes: the stack from its last 0 on is the
\* branch along which the lines of all nodes end.
THEOREM WriterGivesBack == Spec => []WriterReproduces
<1>1. Init => TypeInv /\ WriterInv
  <2>1. Init => TypeInv
    BY TreeInit DEF TreeInv
  <2>2. Init => WriterInv
    BY DEF Init, WriterInv
  <2>3. QED
    BY <2>1, <2>2
<1>2. TypeInv /\ WriterInv /\ [Next]_vars => TypeInv' /\ WriterInv'
  BY TypeStep, WriterStep
<1>3. WriterInv => WriterReproduces
  BY WriterGives DEF WriterInv
<1>4. QED
  BY <1>1, <1>2, <1>3, PTL DEF Spec
=============================================================================
