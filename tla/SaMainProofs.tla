---------------------------- MODULE SaMainProofs ----------------------------
(***************************************************************************)
(* Theorems about the program's stages, for every design, table, timing    *)
(* and setting of the limits, and whatever cannot be written; and that     *)
(* search and report agree, for every tree and library (the last part,     *)
(* which alone uses the assumptions of SaAgreement).                       *)
(***************************************************************************)
EXTENDS SaAgreement, LpScoreProofs, SumFacts, SequenceTheorems

Tree == "modified_clk_tree.structure"

-----------------------------------------------------------------------------
(* The design in memory.  It is the original one except from the snapshot  *)
(* to its restoration and after the solution has been applied.             *)

MemoryInv ==
  /\ pc \in {"build", "baseline", "lp", "snapshot", "search_start", "search", "apply"}
       => cell = Design.cell
  /\ pc \in {"snapshot_structure", "restore"} => buf_snap = Design.cell
  /\ pc = "structure" => cell = AppliedCells(Design, Table, solution.ss)

\* The directory holds a file for each name, and the result's tree is of this
\* run only at the end.
FilesInv ==
  /\ files = [f \in File |-> files[f]]
  /\ Fresh(Tree) => pc = "exit" /\ ResultFromOriginal

\* All that ResultFromOriginal rests on.
MainInv == MemoryInv /\ FilesInv

\* What a write does to each file.
LEMMA WriteEffect ==
  ASSUME files = [f \in File |-> files[f]], NEW name \in File, NEW content, Write(name, content)
  PROVE  /\ files' = [f \in File |-> files'[f]]
         /\ files'[name] \in {files[name], content}
         /\ \A f \in File \ {name} : files'[f] = files[f]
<1>1. CASE files' = files
  BY <1>1
<1>2. CASE files' = [files EXCEPT ![name] = content]
  BY <1>2
<1>3. QED
  BY <1>1, <1>2 DEF Write

\* Putting the original cells into the design gives the original design.
LEMMA OriginalCells == WithCells(Design.cell) = Design
BY DesignAssumption DEF WithCells

\* A file other than the result's tree may be written before the end.
LEMMA OtherFileWritten ==
  ASSUME FilesInv, pc # "exit", NEW name \in File \ {Tree}, NEW content, Write(name, content)
  PROVE  FilesInv'
<1>1. /\ files' = [f \in File |-> files'[f]]
      /\ files'[Tree] = files[Tree]
  BY WriteEffect DEF FilesInv, File, Tree
<1>2. ~Fresh(Tree)'
  BY <1>1 DEF FilesInv, Fresh
<1>3. QED
  BY <1>1, <1>2 DEF FilesInv

\* The program starts with no file of its own.
LEMMA MainInit == Init => MainInv
<1> SUFFICES ASSUME Init PROVE MemoryInv /\ FilesInv
  BY DEF MainInv
<1>1. MemoryInv
  BY DEF Init, MemoryInv
<1>2. files = [f \in File |-> files[f]] /\ \A f \in File : files[f] \in {Absent, Stale}
  BY DEF Init
<1>3. ~Fresh(Tree)
  BY <1>2 DEF Fresh, Absent, Stale, Tree, File
<1>4. QED
  BY <1>1, <1>2, <1>3 DEF FilesInv

\* One case for the stages that write no file, one for each that does.
LEMMA MainStep == MainInv /\ [Next]_vars => MainInv'
<1> SUFFICES ASSUME MemoryInv, FilesInv, [Next]_vars PROVE MemoryInv' /\ FilesInv'
  BY DEF MainInv
<1> USE DEF GoTo, Exit, memory
<1>1. ASSUME UNCHANGED files, pc # "exit" PROVE FilesInv'
  BY <1>1 DEF FilesInv, Fresh
<1>2. CASE Load \/ Build \/ Baseline \/ LpInit \/ SearchStart \/ Search
  <2>1. UNCHANGED files /\ pc # "exit"
    BY <1>2 DEF Load, Build, Baseline, LpInit, SearchStart, Search
  <2>2. MemoryInv'
    BY <1>2 DEF Load, Build, Baseline, LpInit, SearchStart, Search, MemoryInv
  <2>3. QED
    BY <1>1, <2>1, <2>2
<1>3. CASE Restore
  <2>1. UNCHANGED files /\ pc # "exit"
    BY <1>3 DEF Restore
  <2>2. MemoryInv'
    BY <1>3 DEF Restore, MemoryInv
  <2>3. QED
    BY <1>1, <2>1, <2>2
<1>4. CASE Snapshot
  <2>1. FilesInv'
    <3>1. pc # "exit" /\ "result_lp.txt" \in File \ {Tree}
      BY <1>4 DEF Snapshot, File, Tree
    <3>2. PICK content : Write("result_lp.txt", content)
      BY <1>4 DEF Snapshot
    <3>3. QED
      BY <3>1, <3>2, OtherFileWritten
  <2>2. MemoryInv'
    BY <1>4 DEF Snapshot, MemoryInv
  <2>3. QED
    BY <2>1, <2>2
<1>5. CASE SnapshotStructure
  <2>1. FilesInv'
    <3>1. pc # "exit" /\ "lp_init_clk_tree.structure" \in File \ {Tree}
      BY <1>5 DEF SnapshotStructure, File, Tree
    <3>2. PICK content : Write("lp_init_clk_tree.structure", content)
      BY <1>5 DEF SnapshotStructure
    <3>3. QED
      BY <3>1, <3>2, OtherFileWritten
  <2>2. MemoryInv'
    BY <1>5 DEF SnapshotStructure, MemoryInv
  <2>3. QED
    BY <2>1, <2>2
<1>6. CASE ApplyAndReport
  <2>1. FilesInv'
    <3>1. pc # "exit" /\ "result.txt" \in File \ {Tree}
      BY <1>6 DEF ApplyAndReport, File, Tree
    <3>2. PICK content : Write("result.txt", content)
      BY <1>6 DEF ApplyAndReport
    <3>3. QED
      BY <3>1, <3>2, OtherFileWritten
  <2>2. cell' = AppliedCells(Design, Table, solution.ss) /\ UNCHANGED solution
    BY <1>6, OriginalCells DEF ApplyAndReport, Apply, MemoryInv
  <2>3. QED
    BY <1>6, <2>1, <2>2 DEF ApplyAndReport, MemoryInv
<1>7. CASE FinalStructure
  <2>1. /\ pc' = "exit"
        /\ files' = [f \in File |-> files'[f]]
        /\ files'[Tree] \in {files[Tree], Structure(cell)}
    BY <1>7, WriteEffect DEF FinalStructure, FilesInv, File, Tree
  <2>2. UNCHANGED solution /\ cell = AppliedCells(Design, Table, solution.ss)
    BY <1>7 DEF FinalStructure, MemoryInv
  <2>3. Fresh(Tree)' => files'[Tree].cell = AppliedCells(Design, Table, solution.ss)'
    <3>1. CASE files'[Tree] = files[Tree]
      BY <1>7, <3>1 DEF FilesInv, Fresh, FinalStructure
    <3>2. CASE files'[Tree] = Structure(cell)
      BY <2>2, <3>2 DEF Structure
    <3>3. QED
      BY <2>1, <3>1, <3>2
  <2>4. QED
    BY <2>1, <2>3 DEF FilesInv, ResultFromOriginal, MemoryInv, Tree
<1>8. CASE Tick \/ Terminated \/ UNCHANGED vars
  BY <1>8 DEF Tick, Terminated, vars, MemoryInv, FilesInv, Fresh, ResultFromOriginal
<1>9. QED
  BY <1>2, <1>3, <1>4, <1>5, <1>6, <1>7, <1>8 DEF Next, Step

\* main.cpp restores the cells it saved before the LP snapshot and applies the
\* result of the search to them, so the tree that is written is the solution
\* applied to the original one: for every design, table, solution and limit,
\* with or without a result directory and whatever files cannot be opened.
THEOREM ResultIsFromOriginal == Spec => []ResultFromOriginal
<1>1. MainInv => ResultFromOriginal
  BY DEF MainInv, FilesInv, ResultFromOriginal, Tree
<1>2. QED
  BY <1>1, MainInit, MainStep, PTL DEF Spec

-----------------------------------------------------------------------------
(* The reports.  Each is written before its tree and from the cells the    *)
(* tree is written from, and all compare with one baseline.                *)

BaselineReport == [metrics |-> Timing(Design.cell), score |-> 0]

\* The baseline figures from the branch model on, the baseline itself from
\* the LP phase on.
BaselineInv ==
  /\ pc = "baseline" => pb_ori = Timing(Design.cell) /\ annotated = Design.cell
  /\ pc \notin {"load", "build", "baseline", "exit"}
       => pb_ori = Timing(Design.cell) /\ ori = BaselineReport

BeforeSnapshot == {"load", "build", "baseline", "lp", "snapshot"}

\* The files of a pair appear in order, and between the two the report's
\* figures are those of the cells in memory.
OrderInv ==
  /\ pc \in BeforeSnapshot => ~Fresh("result_lp.txt")
  /\ pc \in BeforeSnapshot \cup {"snapshot_structure"} => ~Fresh("lp_init_clk_tree.structure")
  /\ pc \notin {"structure", "exit"} => ~Fresh("result.txt")
  /\ pc = "snapshot_structure" /\ Fresh("result_lp.txt")
       => files["result_lp.txt"].opt = Timing(cell)
  /\ pc = "structure" /\ Fresh("result.txt") => files["result.txt"].opt = Timing(cell)

ReportsInv ==
  /\ BaselineInv /\ OrderInv /\ ReportsMatchStructures /\ BaselineIsOriginal

\* Both properties of the reports speak of the files alone.
LEMMA FilesKept ==
  ASSUME ReportsMatchStructures, BaselineIsOriginal, UNCHANGED files
  PROVE  ReportsMatchStructures' /\ BaselineIsOriginal'
BY DEF ReportsMatchStructures, BaselineIsOriginal, Fresh

\* A report written after its tree's last state and before the next one: the
\* tree is not of this run yet, so the pair still agrees.
LEMMA ReportWritten ==
  ASSUME NEW r \in {"result.txt", "result_lp.txt"},
         files = [f \in File |-> files[f]], ReportsMatchStructures, BaselineIsOriginal,
         ~Fresh(IF r = "result.txt" THEN Tree ELSE "lp_init_clk_tree.structure"),
         ~Fresh(r), NEW c, NEW score, Write(r, Report(BaselineReport, Timing(c), score))
  PROVE  /\ ReportsMatchStructures' /\ BaselineIsOriginal'
         /\ \A f \in File \ {r} : Fresh(f)' = Fresh(f)
         /\ Fresh(r)' => files'[r].opt = Timing(c)
<1> DEFINE new == Report(BaselineReport, Timing(c), score)
<1>1. /\ r \in File
      /\ files'[r] \in {files[r], new}
      /\ \A f \in File \ {r} : files'[f] = files[f]
  BY WriteEffect DEF File
<1>2. \A f \in File \ {r} : Fresh(f)' = Fresh(f)
  BY <1>1 DEF Fresh
<1>3. Fresh(r)' => files'[r] = new
  BY <1>1 DEF Fresh
<1>4. new.ori = BaselineReport /\ new.opt = Timing(c)
  BY DEF Report
<1>5. BaselineIsOriginal'
  <2>1. ASSUME NEW f \in {"result.txt", "result_lp.txt"}, Fresh(f)'
        PROVE  files'[f].ori = BaselineReport
    <3>1. CASE f = r
      BY <1>3, <1>4, <2>1, <3>1
    <3>2. CASE f # r
      BY <1>1, <1>2, <2>1, <3>2 DEF BaselineIsOriginal, BaselineReport, File
    <3>3. QED
      BY <3>1, <3>2
  <2>2. QED
    BY <2>1 DEF BaselineIsOriginal, BaselineReport
<1>6. ReportsMatchStructures'
  BY <1>1, <1>2 DEF ReportsMatchStructures, File, Tree
<1>7. QED
  BY <1>2, <1>3, <1>4, <1>5, <1>6

\* A tree written from cells that have the report's figures.
LEMMA StructureWritten ==
  ASSUME NEW t \in {Tree, "lp_init_clk_tree.structure"},
         files = [f \in File |-> files[f]], ReportsMatchStructures, BaselineIsOriginal,
         ~Fresh(t), NEW c, Write(t, Structure(c)),
         LET r == IF t = Tree THEN "result.txt" ELSE "result_lp.txt"
         IN  Fresh(r) => files[r].opt = Timing(c)
  PROVE  /\ ReportsMatchStructures' /\ BaselineIsOriginal'
         /\ \A f \in File \ {t} : Fresh(f)' = Fresh(f)
<1>1. /\ t \in File
      /\ files'[t] \in {files[t], Structure(c)}
      /\ \A f \in File \ {t} : files'[f] = files[f]
  BY WriteEffect DEF File, Tree
<1>2. \A f \in File \ {t} : Fresh(f)' = Fresh(f)
  BY <1>1 DEF Fresh
<1>3. Fresh(t)' => files'[t].cell = c
  BY <1>1 DEF Fresh, Structure
<1>4. BaselineIsOriginal'
  BY <1>1, <1>2 DEF BaselineIsOriginal, File, Tree
<1>5. ReportsMatchStructures'
  BY <1>1, <1>2, <1>3 DEF ReportsMatchStructures, File, Tree
<1>6. QED
  BY <1>2, <1>4, <1>5

\* The program starts with no report of its own.
LEMMA ReportsInit == Init => ReportsInv
<1> SUFFICES ASSUME Init PROVE ReportsInv
  OBVIOUS
<1>1. \A f \in File : ~Fresh(f)
  BY DEF Init, Fresh, Absent, Stale, File
<1>2. BaselineInv
  BY DEF Init, BaselineInv
<1>3. QED
  BY <1>1, <1>2 DEF Init, ReportsInv, OrderInv, ReportsMatchStructures, BaselineIsOriginal,
                    File

\* Every stage keeps reports, trees and baseline in step.
LEMMA ReportsStep == MainInv /\ ReportsInv /\ [Next]_vars => ReportsInv'
<1> SUFFICES ASSUME MainInv, ReportsInv, [Next]_vars PROVE ReportsInv'
  OBVIOUS
<1> USE DEF GoTo, Exit, memory
<1>1. /\ BaselineInv /\ OrderInv /\ ReportsMatchStructures /\ BaselineIsOriginal
      /\ MemoryInv /\ files = [f \in File |-> files[f]] /\ (pc # "exit" => ~Fresh(Tree))
  BY DEF ReportsInv, MainInv, FilesInv
<1>2. CASE Load \/ Build \/ LpInit \/ SearchStart \/ Search \/ Restore
  <2>1. UNCHANGED files
    BY <1>2 DEF Load, Build, LpInit, SearchStart, Search, Restore
  <2>2. BaselineInv'
    BY <1>1, <1>2 DEF Load, Build, LpInit, SearchStart, Search, Restore, BaselineInv, MemoryInv
  <2>3. OrderInv'
    BY <1>1, <1>2, <2>1 DEF Load, Build, LpInit, SearchStart, Search, Restore, OrderInv, Fresh,
                            BeforeSnapshot
  <2>4. QED
    BY <1>1, <2>1, <2>2, <2>3, FilesKept DEF ReportsInv
<1>3. CASE Baseline
  <2>1. UNCHANGED files
    BY <1>3 DEF Baseline
  <2>2. Score(Timing(Design.cell), Timing(Design.cell)) = 0
    BY BaselineScoresZero, TimingAssumption
  <2>3. BaselineInv'
    BY <1>1, <1>3, <2>2 DEF Baseline, BaselineInv, BaselineReport, ComputedMetrics
  <2>4. OrderInv'
    BY <1>1, <1>3, <2>1 DEF Baseline, OrderInv, Fresh, BeforeSnapshot
  <2>5. QED
    BY <1>1, <2>1, <2>3, <2>4, FilesKept DEF ReportsInv
<1>4. CASE Snapshot
  <2>1. /\ pc = "snapshot" /\ pc' = "snapshot_structure"
        /\ UNCHANGED <<pb_ori, ori>> /\ annotated' = cell'
    BY <1>4 DEF Snapshot, Apply
  <2>2. /\ ori = BaselineReport
        /\ ~Fresh("result_lp.txt") /\ ~Fresh("lp_init_clk_tree.structure")
        /\ ~Fresh("result.txt") /\ ~Fresh(Tree)
    BY <1>1, <2>1 DEF BaselineInv, OrderInv, BeforeSnapshot
  <2>3. PICK score :
          Write("result_lp.txt", Report(BaselineReport, Timing(cell'), score))
    BY <1>4, <2>1, <2>2 DEF Snapshot
  <2>4. /\ ReportsMatchStructures' /\ BaselineIsOriginal'
        /\ \A f \in File \ {"result_lp.txt"} : Fresh(f)' = Fresh(f)
        /\ Fresh("result_lp.txt")' => files'["result_lp.txt"].opt = Timing(cell')
    BY <1>1, <2>2, <2>3, ReportWritten
  <2>5. BaselineInv'
    BY <1>1, <2>1 DEF BaselineInv
  <2>6. OrderInv'
    BY <2>1, <2>2, <2>4 DEF OrderInv, BeforeSnapshot, File
  <2>7. QED
    BY <2>4, <2>5, <2>6 DEF ReportsInv
<1>5. CASE SnapshotStructure
  <2>1. /\ pc = "snapshot_structure" /\ pc' = "restore"
        /\ UNCHANGED <<pb_ori, ori>>
        /\ Write("lp_init_clk_tree.structure", Structure(cell))
    BY <1>5 DEF SnapshotStructure
  <2>2. /\ ~Fresh("lp_init_clk_tree.structure") /\ ~Fresh("result.txt")
        /\ Fresh("result_lp.txt") => files["result_lp.txt"].opt = Timing(cell)
    BY <1>1, <2>1 DEF OrderInv
  <2>3. /\ ReportsMatchStructures' /\ BaselineIsOriginal'
        /\ \A f \in File \ {"lp_init_clk_tree.structure"} : Fresh(f)' = Fresh(f)
    BY <1>1, <2>1, <2>2, StructureWritten DEF Tree
  <2>4. BaselineInv'
    BY <1>1, <2>1 DEF BaselineInv
  <2>5. OrderInv'
    BY <2>1, <2>2, <2>3 DEF OrderInv, BeforeSnapshot, File
  <2>6. QED
    BY <2>3, <2>4, <2>5 DEF ReportsInv
<1>6. CASE ApplyAndReport
  <2>1. /\ pc = "apply" /\ pc' = "structure"
        /\ UNCHANGED <<pb_ori, ori>> /\ annotated' = cell'
    BY <1>6 DEF ApplyAndReport, Apply
  <2>2. ori = BaselineReport /\ ~Fresh("result.txt") /\ ~Fresh(Tree)
    BY <1>1, <2>1 DEF BaselineInv, OrderInv
  <2>3. PICK score : Write("result.txt", Report(BaselineReport, Timing(cell'), score))
    BY <1>6, <2>1, <2>2 DEF ApplyAndReport
  <2>4. /\ ReportsMatchStructures' /\ BaselineIsOriginal'
        /\ Fresh("result.txt")' => files'["result.txt"].opt = Timing(cell')
    BY <1>1, <2>2, <2>3, ReportWritten
  <2>5. BaselineInv'
    BY <1>1, <2>1 DEF BaselineInv
  <2>6. OrderInv'
    BY <2>1, <2>4 DEF OrderInv, BeforeSnapshot
  <2>7. QED
    BY <2>4, <2>5, <2>6 DEF ReportsInv
<1>7. CASE FinalStructure
  <2>1. /\ pc = "structure" /\ pc' = "exit"
        /\ Write(Tree, Structure(cell))
    BY <1>7 DEF FinalStructure, Tree
  <2>2. ~Fresh(Tree) /\ (Fresh("result.txt") => files["result.txt"].opt = Timing(cell))
    BY <1>1, <2>1 DEF OrderInv
  <2>3. ReportsMatchStructures' /\ BaselineIsOriginal'
    BY <1>1, <2>1, <2>2, StructureWritten
  <2>4. BaselineInv' /\ OrderInv'
    BY <2>1 DEF BaselineInv, OrderInv, BeforeSnapshot
  <2>5. QED
    BY <2>3, <2>4 DEF ReportsInv
<1>8. CASE Tick \/ Terminated \/ UNCHANGED vars
  <2>1. UNCHANGED <<pc, cell, annotated, pb_ori, ori, files>>
    BY <1>8 DEF Tick, Terminated, vars
  <2>2. BaselineInv' /\ OrderInv'
    BY <1>1, <2>1 DEF BaselineInv, OrderInv, Fresh
  <2>3. QED
    BY <1>1, <2>1, <2>2, FilesKept DEF ReportsInv
<1>9. QED
  BY <1>2, <1>3, <1>4, <1>5, <1>6, <1>7, <1>8 DEF Next, Step

\* The figures in result.txt and in result_lp.txt are those of the tree
\* written beside them, whichever of the four files cannot be opened and
\* whatever an earlier run left: the report comes from the annotation, the
\* tree from the cells, and the two are in step at each of them.
THEOREM ReportsAreOfTheirTrees == Spec => []ReportsMatchStructures
<1>1. Init => MainInv /\ ReportsInv
  BY MainInit, ReportsInit
<1>2. MainInv /\ ReportsInv /\ [Next]_vars => (MainInv /\ ReportsInv)'
  BY MainStep, ReportsStep
<1>3. MainInv /\ ReportsInv => ReportsMatchStructures
  BY DEF ReportsInv
<1>4. QED
  BY <1>1, <1>2, <1>3, PTL DEF Spec

\* Every report compares with the tree as it was loaded, although the LP
\* snapshot overwrites it in between, and that tree has the score 0.
THEOREM BaselineIsKept == Spec => []BaselineIsOriginal
<1>1. Init => MainInv /\ ReportsInv
  BY MainInit, ReportsInit
<1>2. MainInv /\ ReportsInv /\ [Next]_vars => (MainInv /\ ReportsInv)'
  BY MainStep, ReportsStep
<1>3. MainInv /\ ReportsInv => BaselineIsOriginal
  BY DEF ReportsInv
<1>4. QED
  BY <1>1, <1>2, <1>3, PTL DEF Spec

-----------------------------------------------------------------------------
(* The types, and with them the time the program can take.                 *)

\* When the phase under way began, after how many stretches at most.
ClockInv ==
  /\ now \in Nat /\ phase_t0 \in Nat
  /\ phase_t0 <= now /\ now <= phase_t0 + LongestStretch
  /\ pc \in {"load", "build", "baseline"} => phase_t0 = 0
  /\ pc \in {"lp", "snapshot", "snapshot_structure", "restore", "search_start"}
       => phase_t0 <= LongestStretch
  /\ phase_t0 <= 2 * LongestStretch

TypeInv == TypeOK /\ ClockInv

\* The cells that are applied are cells of the library.
LEMMA AppliedType ==
  ASSUME NEW c \in CellChoices, NEW sol
  PROVE  AppliedCells(WithCells(c), Table, sol) \in CellChoices
<1>1. /\ Buffers(WithCells(c)) = Buffers(Design)
      /\ WithCells(c).cell = c
  BY DesignAssumption DEF WithCells, Buffers, Nodes
<1>2. ASSUME NEW b \in Buffers(Design)
      PROVE  AppliedCells(WithCells(c), Table, sol)[b] \in DOMAIN Design.cells
  <2>1. CASE ChainFound(WithCells(c), Table, b, sol[b])
    <3>1. AppliedCells(WithCells(c), Table, sol)[b]
            = Lookup(Table, BranchFanout(WithCells(c), b), sol[b]).last
      BY <1>1, <2>1 DEF AppliedCells
    <3>2. QED
      BY <2>1, <3>1, TableAssumption DEF ChainFound, Reachable, Lookup
  <2>2. CASE ~ChainFound(WithCells(c), Table, b, sol[b])
    <3>1. AppliedCells(WithCells(c), Table, sol)[b] = c[b]
      BY <1>1, <2>2 DEF AppliedCells
    <3>2. QED
      BY <3>1 DEF CellChoices
  <2>3. QED
    BY <2>1, <2>2
<1>3. QED
  BY <1>1, <1>2 DEF AppliedCells, CellChoices

\* Three stretches, counted from the phase under way.
LEMMA ThreeStretches ==
  ASSUME NEW n \in Nat, NEW t0 \in Nat, NEW l \in Nat, t0 <= n, n <= t0 + l, t0 <= 2 * l
  PROVE  n \in 0 .. 3 * l /\ t0 \in 0 .. n
<1>1. n <= 3 * l
  OBVIOUS
<1>2. QED
  BY <1>1

\* The types hold at the start.
LEMMA TypeInit == Init => TypeInv
BY MainAssumption DEF Init, TypeInv, TypeOK, ClockInv, Stage, File

\* Every stage keeps the types and its time.
LEMMA TypeStep == MainInv /\ TypeInv /\ [Next]_vars => TypeInv'
<1> SUFFICES ASSUME MainInv, TypeOK, ClockInv, [Next]_vars PROVE TypeOK' /\ ClockInv'
  BY DEF TypeInv
<1> USE DEF GoTo, Exit, memory
<1>1. DOMAIN files' = File
  <2>1. MainInv'
    BY MainStep
  <2>2. QED
    BY <2>1 DEF MainInv, FilesInv
<1>2. LongestStretch \in Nat
  BY MainAssumption
<1>3. ClockInv'
  <2>1. CASE Tick
    BY <1>2, <2>1 DEF Tick, ClockInv
  <2>2. CASE Baseline \/ SearchStart
    BY <1>2, <2>2 DEF Baseline, SearchStart, ClockInv
  <2>3. CASE Load \/ Build \/ LpInit \/ Snapshot \/ SnapshotStructure \/ Restore \/ Search
             \/ ApplyAndReport \/ FinalStructure
    <3>1. UNCHANGED <<now, phase_t0>>
      BY <2>3 DEF Load, Build, LpInit, Snapshot, SnapshotStructure, Restore, Search,
                  ApplyAndReport, FinalStructure
    <3>2. /\ pc' \in {"load", "build", "baseline"} => pc \in {"load", "build", "baseline"}
          /\ pc' \in {"lp", "snapshot", "snapshot_structure", "restore", "search_start"}
               => pc \in {"lp", "snapshot", "snapshot_structure", "restore", "search_start"}
      BY <2>3 DEF Load, Build, LpInit, Snapshot, SnapshotStructure, Restore, Search,
                  ApplyAndReport, FinalStructure
    <3>3. QED
      BY <3>1, <3>2 DEF ClockInv
  <2>4. CASE Terminated \/ UNCHANGED vars
    BY <2>4 DEF Terminated, vars, ClockInv
  <2>5. QED
    BY <2>1, <2>2, <2>3, <2>4 DEF Next, Step
<1>4. now' \in 0 .. 3 * LongestStretch /\ phase_t0' \in 0 .. now'
  <2>1. /\ now' \in Nat /\ phase_t0' \in Nat /\ phase_t0' <= now'
        /\ now' <= phase_t0' + LongestStretch /\ phase_t0' <= 2 * LongestStretch
    BY <1>3 DEF ClockInv
  <2>2. QED
    BY <1>2, <2>1, ThreeStretches
<1>5. CASE Tick \/ Terminated \/ SearchStart \/ SnapshotStructure \/ FinalStructure
           \/ UNCHANGED vars
  <2>1. UNCHANGED <<result_dir, cell, annotated, initial, solution, buf_snap>>
    BY <1>5 DEF Tick, Terminated, SearchStart, SnapshotStructure, FinalStructure, vars
  <2>2. /\ pc' \in Stage /\ exit_code' \in {0, 1}
        /\ pc \in {"load", "exit"} => pc' \in {"load", "exit"}
    BY <1>5 DEF Tick, Terminated, SearchStart, SnapshotStructure, FinalStructure, vars, TypeOK,
                Stage
  <2>3. QED
    BY <1>1, <1>3, <1>4, <2>1, <2>2 DEF TypeOK
<1>6. CASE Load \/ Build \/ Baseline \/ LpInit \/ Search
  <2>1. /\ pc' \in Stage /\ exit_code' \in {0, 1} /\ UNCHANGED <<result_dir, buf_snap>>
        /\ initial' \in Vectors \cup {NoVectors} /\ solution' \in Vectors \cup {NoVectors}
        /\ annotated' \in CellChoices \cup {<<>>}
    BY <1>6 DEF Load, Build, Baseline, LpInit, Search, TypeOK, Stage
  <2>2. cell' \in CellChoices \cup (IF pc' \in {"load", "exit"} THEN {<<>>} ELSE {})
    BY <1>6, TimingAssumption DEF Load, Build, Baseline, LpInit, Search, TypeOK
  <2>3. QED
    BY <1>1, <1>3, <1>4, <2>1, <2>2 DEF TypeOK
<1>7. CASE Restore
  <2>1. cell' \in CellChoices /\ annotated' \in CellChoices
    BY <1>7, TimingAssumption DEF Restore, MainInv, MemoryInv
  <2>2. /\ pc' \in Stage
        /\ UNCHANGED <<result_dir, initial, solution, buf_snap, exit_code>>
    BY <1>7 DEF Restore, Stage
  <2>3. QED
    BY <1>1, <1>3, <1>4, <2>1, <2>2 DEF TypeOK
<1>8. CASE Snapshot \/ ApplyAndReport
  <2>1. cell \in CellChoices
    BY <1>8 DEF Snapshot, ApplyAndReport, TypeOK
  <2>2. cell' \in CellChoices /\ annotated' = cell'
    BY <1>8, <2>1, AppliedType DEF Snapshot, ApplyAndReport, Apply
  <2>3. /\ pc' \in Stage /\ UNCHANGED <<result_dir, initial, solution, exit_code>>
        /\ buf_snap' \in CellChoices \cup {<<>>}
    BY <1>8, <2>1 DEF Snapshot, ApplyAndReport, Stage, TypeOK
  <2>4. QED
    BY <1>1, <1>3, <1>4, <2>2, <2>3 DEF TypeOK
<1>9. QED
  BY <1>3, <1>5, <1>6, <1>7, <1>8 DEF Next, Step

\* Cells, files and vectors keep their types in every stage, and the program
\* is never longer under way than three stretches.
THEOREM TypeCorrect == Spec => []TypeOK
<1>1. Init => MainInv /\ TypeInv
  BY MainInit, TypeInit
<1>2. MainInv /\ TypeInv /\ [Next]_vars => (MainInv /\ TypeInv)'
  BY MainStep, TypeStep
<1>3. MainInv /\ TypeInv => TypeOK
  BY DEF TypeInv
<1>4. QED
  BY <1>1, <1>2, <1>3, PTL DEF Spec

-----------------------------------------------------------------------------
(* Search and report.  What the tables say of a cell that stands alone     *)
(* comes from BufferChainFacts, once for each corner.                      *)

SsFacts == INSTANCE BufferChainFacts WITH
  Cells <- CornerCells("ss"), MaxKey <- MaxDelayKey

FfFacts == INSTANCE BufferChainFacts WITH
  Cells <- CornerCells("ff"), MaxKey <- MaxDelayKey

\* The cells of a library are records.
LEMMA CellRecords ==
  /\ DOMAIN Design.cells = 1 .. Len(Design.cells) /\ Len(Design.cells) \in Nat
  /\ \A c \in DOMAIN Design.cells :
       /\ Design.cells[c] \in [ss : Seq(Nat), ff : Seq(Nat), area : Nat \ {0}]
       /\ Design.cells[c].ss \in Seq(Nat) /\ Design.cells[c].ff \in Seq(Nat)
       /\ Design.cells[c].area \in Nat \ {0}
<1> DEFINE S == [ss : Seq(Nat), ff : Seq(Nat), area : Nat \ {0}]
           cells == Design.cells
<1>1. cells \in Seq(S)
  BY CellsAssumption
<1> HIDE DEF S, cells
<1>2. DOMAIN cells = 1 .. Len(cells) /\ Len(cells) \in Nat /\ \A c \in DOMAIN cells : cells[c] \in S
  BY <1>1, ElementOfSeq
<1>3. \A r \in S : r.ss \in Seq(Nat) /\ r.ff \in Seq(Nat) /\ r.area \in Nat \ {0}
  BY DEF S
<1>4. QED
  BY <1>2, <1>3 DEF S, cells

\* The library of a corner is one the facts about tables speak of.
LEMMA CornerLibrary ==
  ASSUME NEW corner \in {"ss", "ff"}
  PROVE  /\ CornerCells(corner) \in Seq([delay : Seq(Nat), area : Nat])
         /\ \A c \in DOMAIN CornerCells(corner) : Len(CornerCells(corner)[c].delay) >= 1
<1>1. DOMAIN Design.cells = 1 .. Len(Design.cells) /\ Len(Design.cells) \in Nat
  BY CellRecords
<1>2. \A c \in DOMAIN Design.cells :
        /\ Design.cells[c][corner] \in Seq(Nat) /\ Design.cells[c].area \in Nat
        /\ Len(Design.cells[c][corner]) >= 1
  BY CellRecords, CellsAssumption
<1>3. \A c \in DOMAIN Design.cells :
        CornerCells(corner)[c] \in [delay : Seq(Nat), area : Nat]
  BY <1>2 DEF CornerCells
<1>4. CornerCells(corner) \in Seq([delay : Seq(Nat), area : Nat])
  <2> DEFINE S == [delay : Seq(Nat), area : Nat]
             cells == CornerCells(corner)
             n == Len(Design.cells)
  <2>1. DOMAIN cells = 1 .. n /\ n \in Nat /\ cells = [c \in DOMAIN cells |-> cells[c]]
    BY <1>1 DEF CornerCells
  <2>2. \A c \in 1 .. n : cells[c] \in S
    BY <1>1, <1>3
  <2> HIDE DEF S, cells, n
  <2>3. cells \in [1 .. n -> S]
    BY <2>1, <2>2
  <2>4. cells \in Seq(S)
    BY <2>1, <2>3, SeqDef
  <2>5. QED
    BY <2>4 DEF S, cells
<1>5. QED
  BY <1>2, <1>4 DEF CornerCells

\* For the SS library
LEMMA SsLibrary == SsFacts!LibraryAssumption /\ SsFacts!StepAssumption
BY CornerLibrary, CellsAssumption, StepAssumption DEF SsFacts!LibraryAssumption, SsFacts!StepAssumption

\* and the FF library.
LEMMA FfLibrary == FfFacts!LibraryAssumption /\ FfFacts!StepAssumption
BY CornerLibrary, CellsAssumption, StepAssumption DEF FfFacts!LibraryAssumption, FfFacts!StepAssumption

\* The SS table is the one the facts are about,
LEMMA SsTable == SsChains!ChainTable = SsFacts!ChainTable
<1>1. SsChains!LeastPrefixArea = SsFacts!LeastPrefixArea
  BY DEF SsChains!LeastPrefixArea, SsFacts!LeastPrefixArea, SsChains!Key, SsFacts!Key,
    SsChains!PrefixCells, SsFacts!PrefixCells, SsChains!CellKey, SsFacts!CellKey,
    SsChains!DelayKey, SsFacts!DelayKey, SsChains!CellIndex, SsFacts!CellIndex,
    SsChains!Min, SsFacts!Min
<1>2. QED
  BY <1>1 DEF SsChains!ChainTable, SsFacts!ChainTable, SsChains!Key, SsFacts!Key,
    SsChains!TableFanouts, SsFacts!TableFanouts, SsChains!TableFanoutMax, SsFacts!TableFanoutMax,
    SsChains!ChainAreas, SsFacts!ChainAreas, SsChains!AreasEndingIn, SsFacts!AreasEndingIn,
    SsChains!Supports, SsFacts!Supports, SsChains!MaxFanout, SsFacts!MaxFanout,
    SsChains!CellKey, SsFacts!CellKey,
    SsChains!DelayKey, SsFacts!DelayKey, SsChains!CellIndex, SsFacts!CellIndex,
    SsChains!Min, SsFacts!Min, SsChains!Max, SsFacts!Max

\* and so is the FF table.
LEMMA FfTable == FfChains!ChainTable = FfFacts!ChainTable
<1>1. FfChains!LeastPrefixArea = FfFacts!LeastPrefixArea
  BY DEF FfChains!LeastPrefixArea, FfFacts!LeastPrefixArea, FfChains!Key, FfFacts!Key,
    FfChains!PrefixCells, FfFacts!PrefixCells, FfChains!CellKey, FfFacts!CellKey,
    FfChains!DelayKey, FfFacts!DelayKey, FfChains!CellIndex, FfFacts!CellIndex,
    FfChains!Min, FfFacts!Min
<1>2. QED
  BY <1>1 DEF FfChains!ChainTable, FfFacts!ChainTable, FfChains!Key, FfFacts!Key,
    FfChains!TableFanouts, FfFacts!TableFanouts, FfChains!TableFanoutMax, FfFacts!TableFanoutMax,
    FfChains!ChainAreas, FfFacts!ChainAreas, FfChains!AreasEndingIn, FfFacts!AreasEndingIn,
    FfChains!Supports, FfFacts!Supports, FfChains!MaxFanout, FfFacts!MaxFanout,
    FfChains!CellKey, FfFacts!CellKey,
    FfChains!DelayKey, FfFacts!DelayKey, FfChains!CellIndex, FfFacts!CellIndex,
    FfChains!Min, FfFacts!Min, FfChains!Max, FfFacts!Max

-----------------------------------------------------------------------------
(* The tree that realises a solution.                                      *)

\* Other cells leave the tree as it is.
LEMMA SameTree ==
  ASSUME NEW c
  PROVE  LET d == WithCells(c) IN
         /\ d.cell = c /\ d.cells = Design.cells /\ d.kind = Design.kind
         /\ d.parent = Design.parent /\ d.paths = Design.paths
         /\ d.period = Design.period /\ d.t_setup = Design.t_setup /\ d.t_hold = Design.t_hold
BY DesignAssumption, TreeAssumption DEF WithCells

\* The edges above a node, as a function of what they depend on.
IsUp(up, nodes, parent) ==
  up = [m \in nodes |-> IF parent[m] < 0 THEN {} ELSE {m} \cup up[parent[m]]]

\* Other cells leave the way from the root to a node as it is.
LEMMA SamePaths ==
  ASSUME NEW c, NEW n
  PROVE  RootPath(WithCells(c), n) = RootPath(Design, n)
<1>1. \A d : RootPath(d, n) = (CHOOSE up : IsUp(up, Nodes(d), d.parent))[n]
  BY DEF RootPath, IsUp
<1>2. WithCells(c).parent = Design.parent /\ WithCells(c).kind = Design.kind
  BY SameTree
<1> DEFINE d == WithCells(c)
<1>3. d.parent = Design.parent /\ Nodes(d) = Nodes(Design)
  BY <1>2 DEF Nodes
<1>4. RootPath(d, n) = (CHOOSE up : IsUp(up, Nodes(d), d.parent))[n]
  BY <1>1
<1>5. RootPath(Design, n) = (CHOOSE up : IsUp(up, Nodes(Design), Design.parent))[n]
  BY <1>1
<1> HIDE DEF d, IsUp
<1>6. RootPath(d, n) = RootPath(Design, n)
  BY <1>3, <1>4, <1>5
<1>7. QED
  BY <1>6 DEF d

-----------------------------------------------------------------------------
(* Above a node.  RootPath is a function defined by recursion on the       *)
(* parent; a parent comes before its children.                             *)

IsTree(nodes, parent) ==
  /\ nodes \subseteq Nat
  /\ \A n \in nodes : parent[n] \in Int
  /\ \A n \in nodes : parent[n] < 0 \/ parent[n] \in nodes
  /\ \A n \in nodes : parent[n] < n

\* The parsed tree is one.
LEMMA DesignIsTree == IsTree(Nodes(Design), Design.parent)
<1>1. \A n \in Nodes(Design) : Design.parent[n] \in Int /\ n \in Nat
  BY TreeAssumption
<1>2. \A n \in Nodes(Design) : Design.parent[n] < 0 \/ Design.parent[n] \in Nodes(Design)
  BY TreeAssumption
<1>3. ASSUME NEW n \in Nodes(Design) PROVE Design.parent[n] < n
  <2>1. Design.parent[n] < 0 \/ Design.parent[n] < n
    BY TreeAssumption
  <2>2. QED
    BY <1>1, <2>1
<1>4. QED
  BY <1>1, <1>2, <1>3 DEF IsTree

\* The recursion has a solution: the edges in every set of nodes that holds the
\* node and the parents of its members.
LEMMA UpExists ==
  ASSUME NEW nodes, NEW parent, IsTree(nodes, parent)
  PROVE  \E up : IsUp(up, nodes, parent)
<1> DEFINE Closed(S) == \A x \in S : parent[x] < 0 \/ parent[x] \in S
           Above(n) == {m \in nodes : /\ ~(parent[m] < 0)
                                      /\ \A S \in SUBSET nodes : n \in S /\ Closed(S) => m \in S}
           up == [n \in nodes |-> Above(n)]
<1>1. ASSUME NEW n \in nodes, parent[n] < 0 PROVE Above(n) = {}
  <2>1. {n} \in SUBSET nodes /\ Closed({n})
    BY <1>1
  <2>2. ASSUME NEW m \in Above(n) PROVE FALSE
    <3>1. m \in {n} /\ ~(parent[m] < 0)
      BY <2>1, <2>2
    <3>2. QED
      BY <1>1, <3>1
  <2>3. QED
    BY <2>2
<1>2. ASSUME NEW n \in nodes, ~(parent[n] < 0) PROVE Above(n) = {n} \cup Above(parent[n])
  <2>1. parent[n] \in nodes
    BY <1>2 DEF IsTree
  <2>2. n \in Above(n)
    BY <1>2
  <2>3. ASSUME NEW m \in Above(parent[n]) PROVE m \in Above(n)
    <3>1. ASSUME NEW S \in SUBSET nodes, n \in S, Closed(S) PROVE m \in S
      <4>1. parent[n] \in S
        BY <1>2, <3>1
      <4>2. QED
        BY <2>3, <3>1, <4>1
    <3>2. QED
      BY <2>3, <3>1
  <2>4. ASSUME NEW m \in Above(n), m # n PROVE m \in Above(parent[n])
    <3>1. ASSUME NEW S \in SUBSET nodes, parent[n] \in S, Closed(S) PROVE m \in S
      <4>1. S \cup {n} \in SUBSET nodes /\ n \in S \cup {n}
        OBVIOUS
      <4>2. Closed(S \cup {n})
        BY <3>1
      <4> HIDE DEF Closed
      <4>3. m \in S \cup {n}
        BY <2>4, <4>1, <4>2
      <4>4. QED
        BY <2>4, <4>3
    <3>2. QED
      BY <2>4, <3>1
  <2> HIDE DEF Above
  <2>5. QED
    BY <2>2, <2>3, <2>4
<1> HIDE DEF Above
<1>3. \A n \in nodes : up[n] = IF parent[n] < 0 THEN {} ELSE {n} \cup up[parent[n]]
  <2>1. \A n \in nodes : ~(parent[n] < 0) => parent[n] \in nodes
    BY DEF IsTree
  <2>2. QED
    BY <1>1, <1>2, <2>1
<1>4. up = [n \in nodes |-> up[n]]
  OBVIOUS
<1> HIDE DEF up
<1>5. IsUp(up, nodes, parent)
  BY <1>3, <1>4 DEF IsUp
<1>6. QED
  BY <1>5

\* So the recursion may be unfolded.
LEMMA RootPathUnfolds ==
  ASSUME NEW d, IsTree(Nodes(d), d.parent), NEW n \in Nodes(d)
  PROVE  RootPath(d, n) = IF d.parent[n] < 0 THEN {} ELSE {n} \cup RootPath(d, d.parent[n])
<1> DEFINE up == CHOOSE f : IsUp(f, Nodes(d), d.parent)
<1>1. \A m : RootPath(d, m) = up[m]
  BY DEF RootPath, IsUp
<1>2. IsUp(up, Nodes(d), d.parent)
  <2>1. \E f : IsUp(f, Nodes(d), d.parent)
    BY UpExists
  <2> HIDE DEF IsUp
  <2>2. QED
    BY <2>1
<1> HIDE DEF up
<1>3. up[n] = IF d.parent[n] < 0 THEN {} ELSE {n} \cup up[d.parent[n]]
  BY <1>2 DEF IsUp
<1>4. QED
  BY <1>1, <1>3

\* What stands above a node: nodes with parents, none of them later, and all
\* but the node itself with a child.
LEMMA RootPathNodes ==
  ASSUME NEW d, IsTree(Nodes(d), d.parent), NEW n \in Nodes(d), NEW m \in RootPath(d, n)
  PROVE  /\ m \in Nodes(d) /\ m <= n /\ ~(d.parent[m] < 0)
         /\ m # n => \E c \in Nodes(d) : d.parent[c] = m
<1> DEFINE Good(x, k) == /\ x \in Nodes(d) /\ x <= k /\ ~(d.parent[x] < 0)
                         /\ x # k => \E c \in Nodes(d) : d.parent[c] = x
           failing == {k \in Nodes(d) : \E x \in RootPath(d, k) : ~Good(x, k)}
<1>1. ASSUME failing # {} PROVE FALSE
  <2>1. failing \in SUBSET Nat
    BY DEF IsTree
  <2>2. PICK k \in failing : \A i \in failing : k <= i
    <3> HIDE DEF failing
    <3>1. QED
      BY <1>1, <2>1, SsLibrary, SsFacts!Least
  <2>3. PICK x \in RootPath(d, k) : ~Good(x, k)
    BY <2>2
  <2>4. k \in Nodes(d) /\ k \in Nat
    BY <2>2, <2>1
  <2>5. ~(d.parent[k] < 0) /\ x \in {k} \cup RootPath(d, d.parent[k])
    BY <2>3, <2>4, RootPathUnfolds
  <2>6. d.parent[k] \in Nodes(d) /\ d.parent[k] \in Nat /\ d.parent[k] < k
    BY <2>4, <2>5 DEF IsTree
  <2>7. CASE x = k
    BY <2>3, <2>4, <2>5, <2>7
  <2>8. CASE x # k
    <3>1. x \in RootPath(d, d.parent[k])
      BY <2>5, <2>8
    <3>2. d.parent[k] \notin failing
      <4> HIDE DEF failing
      <4>1. ~(k <= d.parent[k])
        BY <2>4, <2>6
      <4>2. QED
        BY <2>2, <4>1
    <3>3. Good(x, d.parent[k])
      BY <2>6, <3>1, <3>2
    <3>4. x <= k /\ x \in Nat
      <4>1. x \in Nodes(d) /\ x <= d.parent[k]
        BY <3>3
      <4>2. x \in Nat
        BY <4>1 DEF IsTree
      <4>3. QED
        BY <2>4, <2>6, <4>1, <4>2
    <3>5. \E c \in Nodes(d) : d.parent[c] = x
      BY <2>4, <3>3
    <3>6. QED
      BY <2>3, <3>3, <3>4, <3>5
  <2>9. QED
    BY <2>7, <2>8
<1>2. Good(m, n)
  BY <1>1
<1>3. QED
  BY <1>2

-----------------------------------------------------------------------------
(* What the report sees of the tree.                                       *)

\* A node that is reached hangs from one that is reached and is no flip-flop.
LEMMA AnnotatedParent ==
  ASSUME NEW n \in Annotated(Design), ~(Design.parent[n] < 0)
  PROVE  /\ Design.parent[n] \in Annotated(Design)
         /\ Design.kind[Design.parent[n]] # "FF"
<1> DEFINE p == Design.parent[n]
<1>1. n \in Nodes(Design) /\ \A m \in RootPath(Design, n) \ {n} : Design.kind[m] # "FF"
  BY DEF Annotated
<1>2. RootPath(Design, n) = {n} \cup RootPath(Design, p)
  BY <1>1, DesignIsTree, RootPathUnfolds
<1>3. p \in Nodes(Design) /\ p < n /\ p \in Nat /\ n \in Nat
  BY <1>1, DesignIsTree DEF IsTree
<1> HIDE DEF p
<1>4. ASSUME NEW m \in RootPath(Design, p) PROVE Design.kind[m] # "FF"
  <2>1. m \in Nodes(Design) /\ m <= p
    BY <1>3, <1>4, DesignIsTree, RootPathNodes
  <2>2. m \in Nat
    BY <2>1, DesignIsTree DEF IsTree
  <2>3. m # n
    BY <1>3, <2>1, <2>2
  <2>4. QED
    BY <1>1, <1>2, <1>4, <2>3
<1>5. Design.kind[p] # "FF"
  <2>1. CASE Design.parent[p] < 0
    <3>1. Design.kind[p] = "ROOT"
      <4>1. Design.parent[p] \in Int
        BY <1>3, DesignIsTree DEF IsTree
      <4>2. \A q \in Nodes(Design) : q \in Nat
        BY DesignIsTree DEF IsTree
      <4>3. Design.kind[p] # "ROOT" => Design.parent[p] \in Nodes(Design)
        BY <1>3, TreeAssumption
      <4>4. QED
        BY <2>1, <4>1, <4>2, <4>3
    <3>2. QED
      BY <3>1
  <2>2. CASE ~(Design.parent[p] < 0)
    <3>1. p \in RootPath(Design, p)
      BY <1>3, <2>2, DesignIsTree, RootPathUnfolds
    <3>2. QED
      BY <1>4, <3>1
  <2>3. QED
    BY <2>1, <2>2
<1>6. p \in Annotated(Design)
  BY <1>3, <1>4 DEF Annotated
<1>7. QED
  BY <1>5, <1>6 DEF p

\* The tree cut off below its flip-flops is a tree of the nodes reached.
LEMMA SeenTree ==
  /\ Nodes(Seen) = Annotated(Design) /\ Annotated(Design) \subseteq Nodes(Design)
  /\ \A n \in Annotated(Design) :
       Seen.kind[n] = Design.kind[n] /\ Seen.parent[n] = Design.parent[n]
  /\ Seen.cell = Design.cell /\ Seen.cells = Design.cells /\ Seen.paths = Design.paths
  /\ Seen.period = Design.period /\ Seen.t_setup = Design.t_setup /\ Seen.t_hold = Design.t_hold
  /\ IsTree(Nodes(Seen), Seen.parent)
<1> DEFINE S == Annotated(Design)
<1>1. /\ Seen.kind = Restrict(Design.kind, S) /\ Seen.parent = Restrict(Design.parent, S)
      /\ Seen.cell = Design.cell /\ Seen.cells = Design.cells /\ Seen.paths = Design.paths
      /\ Seen.period = Design.period /\ Seen.t_setup = Design.t_setup /\ Seen.t_hold = Design.t_hold
  <2> HIDE DEF S
  <2>1. Seen = [Design EXCEPT !.kind = Restrict(Design.kind, S), !.parent = Restrict(Design.parent, S)]
    BY DEF Seen, CutAtFlipFlops, S
  <2>2. Design = [f \in DOMAIN Design |-> Design[f]]
    BY DesignAssumption
  <2>3. {"kind", "parent", "cell", "cells", "paths", "period", "t_setup", "t_hold"} \subseteq DOMAIN Design
    BY DesignAssumption, TreeAssumption
  <2>4. QED
    BY <2>1, <2>2, <2>3
<1>2. S \subseteq Nodes(Design)
  BY DEF Annotated
<1>3. Nodes(Seen) = S /\ \A n \in S : Seen.kind[n] = Design.kind[n] /\ Seen.parent[n] = Design.parent[n]
  <2> HIDE DEF S
  <2>1. QED
    BY <1>1 DEF Restrict, Nodes
<1>4. \A n \in S : Design.parent[n] < 0 \/ Design.parent[n] \in S
  BY AnnotatedParent
<1> HIDE DEF S
<1>5. IsTree(Nodes(Seen), Seen.parent)
  BY <1>2, <1>3, <1>4, DesignIsTree DEF IsTree
<1>6. QED
  BY <1>1, <1>2, <1>3, <1>5 DEF S

\* The way from the root to a node that is reached is all there.
LEMMA SeenPaths ==
  ASSUME NEW n \in Annotated(Design)
  PROVE  /\ RootPath(Seen, n) = RootPath(Design, n)
         /\ RootPath(Design, n) \subseteq Annotated(Design)
<1> DEFINE failing == {k \in Annotated(Design) : RootPath(Seen, k) # RootPath(Design, k)}
<1>1. ASSUME failing # {} PROVE FALSE
  <2>1. failing \in SUBSET Nat
    BY DesignIsTree DEF IsTree, Annotated
  <2>2. PICK k \in failing : \A i \in failing : k <= i
    <3> HIDE DEF failing
    <3>1. QED
      BY <1>1, <2>1, SsLibrary, SsFacts!Least
  <2>3. /\ k \in Annotated(Design) /\ RootPath(Seen, k) # RootPath(Design, k)
        /\ k \in Nodes(Seen) /\ k \in Nodes(Design) /\ Seen.parent[k] = Design.parent[k]
    BY <2>2, SeenTree
  <2>4. RootPath(Seen, k) = IF Design.parent[k] < 0 THEN {}
                            ELSE {k} \cup RootPath(Seen, Design.parent[k])
    BY <2>3, SeenTree, RootPathUnfolds
  <2>5. RootPath(Design, k) = IF Design.parent[k] < 0 THEN {}
                              ELSE {k} \cup RootPath(Design, Design.parent[k])
    BY <2>3, DesignIsTree, RootPathUnfolds
  <2>6. ~(Design.parent[k] < 0)
    BY <2>3, <2>4, <2>5
  <2>7. Design.parent[k] \in Annotated(Design)
    BY <2>3, <2>6, AnnotatedParent
  <2>8. ~(k <= Design.parent[k])
    BY <2>3, <2>6, DesignIsTree DEF IsTree
  <2>9. Design.parent[k] \notin failing
    <3> HIDE DEF failing
    <3>1. QED
      BY <2>2, <2>8
  <2>10. RootPath(Seen, Design.parent[k]) = RootPath(Design, Design.parent[k])
    BY <2>7, <2>9
  <2>11. QED
    BY <2>3, <2>4, <2>5, <2>10
<1>2. RootPath(Seen, n) = RootPath(Design, n)
  BY <1>1
<1>3. \A m \in RootPath(Seen, n) : m \in Nodes(Seen)
  BY SeenTree, RootPathNodes
<1>4. QED
  BY <1>2, <1>3, SeenTree

\* A node that is reached and is no flip-flop has all its children there.
LEMMA SeenChildren ==
  ASSUME NEW n \in Annotated(Design), Design.kind[n] # "FF"
  PROVE  NChildren(Seen, n) = NChildren(Design, n)
<1>1. n \in Nodes(Design) /\ n \in Nat
  BY DesignIsTree DEF IsTree, Annotated
<1>2. ASSUME NEW c \in Nodes(Design), Design.parent[c] = n PROVE c \in Annotated(Design)
  <2>1. RootPath(Design, c) = {c} \cup RootPath(Design, n)
    <3>1. ~(Design.parent[c] < 0)
      BY <1>1, <1>2
    <3>2. QED
      BY <1>2, <3>1, DesignIsTree, RootPathUnfolds
  <2>2. \A m \in RootPath(Design, n) : Design.kind[m] # "FF"
    BY DEF Annotated
  <2>3. QED
    BY <2>1, <2>2 DEF Annotated
<1>3. {c \in Nodes(Seen) : Seen.parent[c] = n} = {c \in Nodes(Design) : Design.parent[c] = n}
  BY <1>2, SeenTree
<1>4. QED
  BY <1>3 DEF NChildren

\* The branches that are seen are branches of the design, with the same kind,
\* fanout and area.
LEMMA SeenBranch ==
  ASSUME NEW b \in Branches(Seen)
  PROVE  /\ b \in Branches(Design) /\ b \in Annotated(Design)
         /\ Seen.kind[b] = Design.kind[b]
         /\ BranchFanout(Seen, b) = BranchFanout(Design, b)
         /\ BranchArea(Seen, b) = BranchArea(Design, b)
<1>1. /\ b \in Annotated(Design) /\ b \in Nodes(Design) /\ Design.parent[b] >= 0
      /\ Seen.kind[b] = Design.kind[b] /\ Seen.parent[b] = Design.parent[b]
      /\ Seen.kind[b] \in {"BUF", "FF"}
  BY SeenTree DEF Branches
<1>2. Design.parent[b] \in Int
  BY <1>1, DesignIsTree DEF IsTree
<1>3. Design.parent[b] \in Annotated(Design) /\ Design.kind[Design.parent[b]] # "FF"
  BY <1>1, <1>2, AnnotatedParent
<1>4. NChildren(Seen, Design.parent[b]) = NChildren(Design, Design.parent[b])
  BY <1>3, SeenChildren
<1>5. BranchFanout(Seen, b) = BranchFanout(Design, b)
  BY <1>1, <1>4 DEF BranchFanout
<1>6. BranchArea(Seen, b) = BranchArea(Design, b)
  BY <1>1, SeenTree DEF BranchArea, Insertable
<1>7. QED
  BY <1>1, <1>5, <1>6 DEF Branches

\* A buffer that is reached is a branch that is seen.
LEMMA SeenBuffer ==
  ASSUME NEW b \in Buffers(Design) \cap Annotated(Design)
  PROVE  b \in Branches(Seen) /\ ~Insertable(Design, b)
<1>1. b \in Nodes(Design) /\ Design.kind[b] = "BUF"
  BY DEF Buffers
<1>2. Design.parent[b] \in Nodes(Design) /\ Design.parent[b] \in Nat
  BY <1>1, TreeAssumption
<1>3. QED
  BY <1>1, <1>2, SeenTree DEF Branches, Insertable

\* A buffer's loads, as the branch has them, the key a lookup finds its delay
\* under, and the cell a solution gives it.
Loads(b) == BranchFanout(Design, b)
KeyOf(v, b) == DelayKey(v.ss[b])
Realising(v, b) == Table[Loads(b)][KeyOf(v, b)].last

\* The buffers the report sees.
SeenBuffers == Buffers(Design) \cap Annotated(Design)

\* What a realisable solution says of a buffer.
LEMMA RealisableBuffer ==
  ASSUME NEW v, Realisable(v), NEW b \in SeenBuffers
  PROVE  /\ NChildren(Design, b) = Loads(b)
         /\ Loads(b) \in DOMAIN Table /\ KeyOf(v, b) \in DOMAIN Table[Loads(b)]
         /\ v.ss[b] = BranchDelay(Design.cells[Realising(v, b)], "ss", Loads(b))
         /\ v.ff[b] = BranchDelay(Design.cells[Realising(v, b)], "ff", Loads(b))
         /\ AppliedCells(Design, Table, v.ss)[b] = Realising(v, b)
<1>1. b \in Branches(Seen) /\ ~Insertable(Design, b) /\ b \in Buffers(Design)
  BY SeenBuffer DEF SeenBuffers
<1>2. Lookup(Table, Loads(b), v.ss[b]).last = Realising(v, b)
  BY DEF Lookup, Realising, KeyOf
<1>3. /\ NChildren(Design, b) = Loads(b)
      /\ ChainFound(Design, Table, b, v.ss[b])
      /\ \A corner \in {"ss", "ff"} :
           v[corner][b] = BranchDelay(Design.cells[Realising(v, b)], corner, Loads(b))
  BY <1>1, <1>2 DEF Realisable, Loads
<1>4. AppliedCells(Design, Table, v.ss)[b] = Realising(v, b)
  BY <1>1, <1>2, <1>3 DEF AppliedCells, Loads
<1>5. Loads(b) \in DOMAIN Table /\ KeyOf(v, b) \in DOMAIN Table[Loads(b)]
  BY <1>3 DEF ChainFound, Reachable, Loads, KeyOf
<1>6. QED
  BY <1>3, <1>4, <1>5

\* The recorded cell can drive the loads, in both corners.
LEMMA RealisingCell ==
  ASSUME NEW v, NEW b, Loads(b) \in DOMAIN Table, KeyOf(v, b) \in DOMAIN Table[Loads(b)]
  PROVE  /\ Loads(b) \in Nat /\ Loads(b) >= 1
         /\ Realising(v, b) \in DOMAIN Design.cells
         /\ \A corner \in {"ss", "ff"} :
              Loads(b) \in 1 .. Len(Design.cells[Realising(v, b)][corner])
<1> DEFINE n == Loads(b)
           k == KeyOf(v, b)
           l == Realising(v, b)
<1>1. Table = SsFacts!ChainTable
  BY FiguresAssumption, SsTable DEF Tables
<1>2. l = Table[n][k].last
  BY DEF Realising
<1> HIDE DEF n, k, l
<1>3. n \in DOMAIN Table /\ k \in DOMAIN Table[n]
  BY DEF n, k
<1>4. n \in SsFacts!TableFanouts
  BY <1>1, <1>3, SsLibrary, SsFacts!TableDomain
<1>5. n \in Nat /\ n >= 1
  BY <1>4, SsLibrary, SsFacts!FanoutMax DEF SsFacts!TableFanouts
<1>6. l \in SsFacts!CellIndex /\ SsFacts!AreasEndingIn(n, k, l) # {}
  BY <1>1, <1>2, <1>3, <1>4, SsLibrary, SsFacts!TableEntry
<1>7. SsFacts!Supports(l, n)
  BY <1>6 DEF SsFacts!AreasEndingIn
<1>8. l \in DOMAIN Design.cells
  BY <1>6 DEF SsFacts!CellIndex, CornerCells
<1>9. n <= Len(Design.cells[l].ss)
  BY <1>7, <1>8 DEF SsFacts!Supports, SsFacts!MaxFanout, CornerCells
<1>10. Len(Design.cells[l].ff) = Len(Design.cells[l].ss) /\ Len(Design.cells[l].ss) \in Nat
  <2>1. Len(Design.cells[l].ff) = Len(Design.cells[l].ss)
    BY <1>8, CellsAssumption
  <2>2. Design.cells[l].ss \in Seq(Nat)
    BY <1>8, CellRecords
  <2>3. Len(Design.cells[l].ss) \in Nat
    BY <2>2, LenProperties
  <2>4. QED
    BY <2>1, <2>3
<1>11. n \in 1 .. Len(Design.cells[l].ss) /\ n \in 1 .. Len(Design.cells[l].ff)
  BY <1>5, <1>9, <1>10
<1>12. QED
  BY <1>5, <1>8, <1>11 DEF n, l

\* The cell that realises a delay drives the buffer's loads, alone, in the
\* time the solution asks for.
LEMMA RealisedDelay ==
  ASSUME NEW v, Realisable(v), NEW b \in SeenBuffers, NEW corner \in {"ss", "ff"}
  PROVE  /\ v[corner][b] = Design.cells[Realising(v, b)][corner][Loads(b)]
         /\ v[corner][b] \in Nat
<1> DEFINE n == Loads(b)
           cell_ == Design.cells[Realising(v, b)]
           row == cell_[corner]
<1>1. /\ Realising(v, b) \in DOMAIN Design.cells
      /\ n \in Nat /\ n >= 1 /\ n \in 1 .. Len(row)
  BY RealisableBuffer, RealisingCell
<1>2. v[corner][b] = BranchDelay(cell_, corner, n)
  BY RealisableBuffer
<1>3. row \in Seq(Nat)
  BY <1>1, CellRecords
<1> HIDE DEF n, cell_
<1>4. ~(n > Len(row)) /\ AtLeastOne(n) = n
  BY <1>1 DEF AtLeastOne
<1>5. BranchDelay(cell_, corner, n) = row[n]
  BY <1>4 DEF BranchDelay, CellDelay
<1> HIDE DEF row
<1>6. row[n] \in Nat
  BY <1>1, <1>3, ElementOfSeq
<1>7. QED
  BY <1>2, <1>5, <1>6 DEF row, cell_, n

\* The realising tree is slow where the search says so: a buffer's own delay
\* is the delay of its branch.
LEMMA RealisedOwnDelay ==
  ASSUME NEW v, Realisable(v), NEW b \in SeenBuffers, NEW corner \in {"ss", "ff"}
  PROVE  /\ OwnDelay(WithCells(AppliedCells(Design, Table, v.ss)), corner, b) = v[corner][b]
         /\ v[corner][b] \in Nat
<1> DEFINE n == Loads(b)
           l == Realising(v, b)
           cells == AppliedCells(Design, Table, v.ss)
           d == WithCells(cells)
<1>1. NChildren(Design, b) = n /\ cells[b] = l
  BY RealisableBuffer
<1>2. n \in Nat /\ n >= 1 /\ n \in 1 .. Len(Design.cells[l][corner])
  BY RealisableBuffer, RealisingCell
<1>3. v[corner][b] = Design.cells[l][corner][n] /\ v[corner][b] \in Nat
  BY RealisedDelay
<1> HIDE DEF cells
<1>4. d.cell = cells /\ d.cells = Design.cells /\ d.kind = Design.kind /\ d.parent = Design.parent
  BY SameTree
<1> HIDE DEF n, l, d
<1>5. d.cells[d.cell[b]] = Design.cells[l] /\ NChildren(d, b) = n
  BY <1>1, <1>4 DEF NChildren, Nodes
<1>6. AtLeastOne(n) = n /\ ~(n > Len(Design.cells[l][corner]))
  BY <1>2 DEF AtLeastOne
<1>7. OwnDelay(d, corner, b) = CellDelay(Design.cells[l], corner, n)
  BY <1>5, <1>6 DEF OwnDelay
<1>8. CellDelay(Design.cells[l], corner, n) = Design.cells[l][corner][n]
  BY <1>6 DEF CellDelay
<1>9. QED
  BY <1>3, <1>7, <1>8 DEF d, cells

\* Other cells leave what is reached as it is.
LEMMA SameAnnotated ==
  ASSUME NEW c
  PROVE  /\ Annotated(WithCells(c)) = Annotated(Design)
         /\ Buffers(WithCells(c)) = Buffers(Design)
         /\ FlipFlops(WithCells(c)) = FlipFlops(Design)
<1> DEFINE d == WithCells(c)
<1>1. d.kind = Design.kind /\ \A n : RootPath(d, n) = RootPath(Design, n)
  BY SameTree, SamePaths
<1> HIDE DEF d
<1>2. /\ Annotated(d) = Annotated(Design) /\ Buffers(d) = Buffers(Design)
      /\ FlipFlops(d) = FlipFlops(Design)
  BY <1>1 DEF Annotated, Buffers, FlipFlops, Nodes
<1>3. QED
  BY <1>2 DEF d

\* The flip-flops of the seen tree are those that are reached.
LEMMA SeenFlipFlops == FlipFlops(Seen) = FlipFlops(Design) \cap Annotated(Design)
BY SeenTree DEF FlipFlops

\* A node's clock arrives when the search says it does of the seen tree: both
\* add up the same branches above a flip-flop that is reached, and nothing
\* anywhere else.
LEMMA ArrivalsAgree ==
  ASSUME NEW v, Realisable(v), NEW corner \in {"ss", "ff"}, NEW n
  PROVE  ClockArrival(WithCells(AppliedCells(Design, Table, v.ss)), corner, n)
           = EndArrival(Seen, v[corner], n)
<1> DEFINE cells == AppliedCells(Design, Table, v.ss)
           d == WithCells(cells)
           E == EndBranches(Seen, n)
           S == IF n \in FlipFlops(Seen) THEN RootPath(Design, n) \cap Buffers(Design) ELSE {}
           f == [b \in E |-> v[corner][b]]
           g == [b \in S |-> OwnDelay(d, corner, b)]
<1>1. EndArrival(Seen, v[corner], n) = SumFunction(f)
  BY DEF EndArrival
<1>2. /\ RootPath(d, n) = RootPath(Design, n) /\ Buffers(d) = Buffers(Design)
      /\ FlipFlops(d) \cap Annotated(d) = FlipFlops(Seen)
  BY SamePaths, SameAnnotated, SeenFlipFlops
<1>3. ClockArrival(d, corner, n) = SumFunction(g)
  <2>1. S = IF n \in FlipFlops(d) \cap Annotated(d) THEN RootPath(d, n) \cap Buffers(d) ELSE {}
    BY <1>2
  <2> HIDE DEF d, S
  <2>2. QED
    BY <2>1 DEF ClockArrival
<1>4. S \subseteq SeenBuffers /\ S \subseteq E /\ E \subseteq Branches(Seen)
  <2>1. CASE n \in FlipFlops(Seen)
    <3>1. RootPath(Seen, n) = RootPath(Design, n) /\ RootPath(Design, n) \subseteq Annotated(Design)
      BY <2>1, SeenFlipFlops, SeenPaths
    <3>2. S \subseteq SeenBuffers
      BY <3>1 DEF SeenBuffers
    <3>3. SeenBuffers \subseteq Branches(Seen)
      BY SeenBuffer DEF SeenBuffers
    <3>4. QED
      BY <2>1, <3>1, <3>2, <3>3 DEF EndBranches
  <2>2. CASE n \notin FlipFlops(Seen)
    BY <2>2 DEF EndBranches
  <2>3. QED
    BY <2>1, <2>2
<1>5. IsFiniteSet(E) /\ IsFiniteSet(S)
  <2>1. E \subseteq Nodes(Design)
    BY <1>4, SeenTree DEF Branches
  <2> HIDE DEF E, S
  <2>2. QED
    BY <1>4, <2>1, TreeAssumption, FS_Subset
<1>6. \A b \in S : g[b] = f[b] /\ f[b] \in Int
  <2>1. ASSUME NEW b \in S PROVE g[b] = f[b] /\ f[b] \in Int
    <3>1. b \in SeenBuffers /\ b \in E
      BY <1>4
    <3>2. OwnDelay(d, corner, b) = v[corner][b] /\ v[corner][b] \in Nat
      BY <3>1, RealisedOwnDelay
    <3> HIDE DEF d, E, S
    <3>3. QED
      BY <3>1, <3>2
  <2>2. QED
    BY <2>1
<1>7. \A b \in E \ S : f[b] = 0
  <2>1. ASSUME NEW b \in E \ S PROVE v[corner][b] = 0
    <3>1. /\ n \in FlipFlops(Seen) /\ b \in RootPath(Seen, n) /\ b \in Branches(Seen)
          /\ ~(b \in RootPath(Design, n) /\ b \in Buffers(Design))
      BY DEF EndBranches
    <3>2. RootPath(Seen, n) = RootPath(Design, n)
      BY <3>1, SeenFlipFlops, SeenPaths
    <3>3. b \in Nodes(Design) /\ b \notin Buffers(Design) /\ Design.kind[b] \in {"BUF", "FF"}
      BY <3>1, <3>2, SeenBranch DEF Branches
    <3>4. Insertable(Design, b)
      BY <3>3 DEF Buffers, Insertable
    <3>5. v.ss[b] = 0 /\ v.ff[b] = 0
      BY <3>1, <3>4 DEF Realisable
    <3>6. QED
      BY <3>5
  <2>2. QED
    BY <2>1
<1>8. DOMAIN f = E /\ DOMAIN g = S /\ S \in SUBSET E
  BY <1>4
<1> HIDE DEF E, S, f, g, d
<1>9. IsFiniteSet(E)
  BY <1>5
<1>10. SumFunction(g) = SumFunction(f)
  BY <1>6, <1>7, <1>8, <1>9, SumWithoutZeros, SMTT(30)
<1>11. QED
  BY <1>1, <1>3, <1>10 DEF d

\* Tables and lookups round alike.
LEMMA KeyOfDelay ==
  \A c \in DOMAIN Design.cells, n \in Nat :
    /\ SsFacts!CellKey(c, n) = DelayKey(Design.cells[c].ss[n])
    /\ FfFacts!CellKey(c, n) = DelayKey(Design.cells[c].ff[n])
BY DEF SsFacts!CellKey, FfFacts!CellKey, SsFacts!DelayKey, FfFacts!DelayKey, DelayKey, CornerCells

\* The SS table has the realising cell's own area: it is a chain by itself,
\* and the one that is recorded.
LEMMA SsAreaOfCell ==
  ASSUME NEW v, Realisable(v), NEW b \in SeenBuffers
  PROVE  LookupArea(Tables.ss, Loads(b), v.ss[b]) = Design.cells[Realising(v, b)].area
<1> DEFINE n == Loads(b)
           l == Realising(v, b)
           k == KeyOf(v, b)
<1>1. n \in DOMAIN Table /\ k \in DOMAIN Table[n] /\ Table[n][k].last = l
  BY RealisableBuffer DEF Realising
<1>2. l \in DOMAIN Design.cells /\ n \in Nat /\ n \in 1 .. Len(Design.cells[l].ss)
  BY RealisableBuffer, RealisingCell
<1>3. k = DelayKey(Design.cells[l].ss[n])
  BY RealisedDelay DEF KeyOf
<1>4. Table = SsFacts!ChainTable /\ Tables.ss = SsFacts!ChainTable
  BY FiguresAssumption, SsTable DEF Tables
<1> HIDE DEF n, l, k
<1>5. n \in SsFacts!TableFanouts /\ k \in SsFacts!Key
  BY <1>1, <1>4, SsLibrary, SsFacts!TableDomain
<1>6. l \in SsFacts!CellIndex /\ SsFacts!Supports(l, n)
  BY <1>2 DEF SsFacts!CellIndex, SsFacts!Supports, SsFacts!MaxFanout, CornerCells
<1>7. SsFacts!CellKey(l, n) = k
  BY <1>2, <1>3, KeyOfDelay
<1>8. SsFacts!ChainTable[n][k].area = CornerCells("ss")[l].area
  BY <1>1, <1>4, <1>5, <1>6, <1>7, SsLibrary, SsFacts!SingleCells
<1>9. CornerCells("ss")[l].area = Design.cells[l].area
  BY <1>2 DEF CornerCells
<1>10. LookupArea(Tables.ss, n, v.ss[b]) = Tables.ss[n][k].area
  BY <1>1, <1>4 DEF LookupArea, Reachable, Lookup, KeyOf, k
<1>11. QED
  BY <1>4, <1>8, <1>9, <1>10 DEF n, l

\* The FF table has nothing larger: the realising cell is a chain there too.
LEMMA FfAreaOfCell ==
  ASSUME NEW v, Realisable(v), NEW b \in SeenBuffers
  PROVE  /\ LookupArea(Tables.ff, Loads(b), v.ff[b]) \in Nat
         /\ LookupArea(Tables.ff, Loads(b), v.ff[b]) <= Design.cells[Realising(v, b)].area
<1> DEFINE n == Loads(b)
           l == Realising(v, b)
           k == DelayKey(v.ff[b])
           table == FfFacts!ChainTable
<1>1. l \in DOMAIN Design.cells /\ n \in Nat /\ n \in 1 .. Len(Design.cells[l].ff)
  BY RealisableBuffer, RealisingCell
<1>2. k = DelayKey(Design.cells[l].ff[n])
  BY RealisedDelay
<1>3. Tables.ff = table
  BY FfTable DEF Tables
<1>4. Design.cells[l].area \in Nat
  BY <1>1, CellRecords
<1> HIDE DEF n, l, k
<1>5. CASE n \in DOMAIN table /\ k \in DOMAIN table[n]
  <2>1. n \in FfFacts!TableFanouts /\ k \in FfFacts!Key
    BY <1>5, FfLibrary, FfFacts!TableDomain
  <2>2. l \in FfFacts!CellIndex /\ FfFacts!Supports(l, n)
    BY <1>1 DEF FfFacts!CellIndex, FfFacts!Supports, FfFacts!MaxFanout, CornerCells
  <2>3. FfFacts!CellKey(l, n) = k
    BY <1>1, <1>2, KeyOfDelay
  <2>4. table[n][k].area <= CornerCells("ff")[l].area
    BY <2>1, <2>2, <2>3, FfLibrary, FfFacts!SingleCells
  <2>5. table[n][k].area \in Nat
    BY <1>5, <2>1, FfLibrary, FfFacts!TableEntry
  <2>6. CornerCells("ff")[l].area = Design.cells[l].area
    BY <1>1 DEF CornerCells
  <2> HIDE DEF table
  <2>7. LookupArea(table, n, v.ff[b]) = table[n][k].area
    BY <1>5 DEF LookupArea, Reachable, Lookup, k
  <2>8. QED
    BY <1>3, <2>4, <2>5, <2>6, <2>7 DEF n, l
<1>6. CASE ~(n \in DOMAIN table /\ k \in DOMAIN table[n])
  <2> HIDE DEF table
  <2>1. LookupArea(table, n, v.ff[b]) = 0
    BY <1>6 DEF LookupArea, Reachable, k
  <2>2. QED
    BY <1>3, <1>4, <2>1 DEF n, l
<1>7. QED
  BY <1>5, <1>6

\* So the search pays for a realisable delay what the cell that realises it
\* has in area.
LEMMA RealisedArea ==
  ASSUME NEW v, Realisable(v), NEW b \in SeenBuffers
  PROVE  /\ ChainArea(Seen, Tables, b, v.ss[b], v.ff[b])
              = Design.cells[AppliedCells(Design, Table, v.ss)[b]].area
         /\ Design.cells[AppliedCells(Design, Table, v.ss)[b]].area \in Nat
<1> DEFINE size == Design.cells[Realising(v, b)].area
           ss == LookupArea(Tables.ss, Loads(b), v.ss[b])
           ff == LookupArea(Tables.ff, Loads(b), v.ff[b])
<1>1. AppliedCells(Design, Table, v.ss)[b] = Realising(v, b)
  BY RealisableBuffer
<1>2. size \in Nat /\ size # 0
  BY RealisableBuffer, RealisingCell, CellRecords
<1>3. ss = size /\ ff \in Nat /\ ff <= size
  BY SsAreaOfCell, FfAreaOfCell
<1>4. ~Insertable(Seen, b) /\ BranchFanout(Seen, b) = Loads(b)
  <2>1. b \in Branches(Seen) /\ ~Insertable(Design, b)
    BY SeenBuffer DEF SeenBuffers
  <2>2. QED
    BY <2>1, SeenBranch DEF Insertable, Loads
<1>5. ChainArea(Seen, Tables, b, v.ss[b], v.ff[b])
        = LET area == IF ss < ff THEN ff ELSE ss
          IN  IF area = 0 THEN BranchArea(Seen, b) ELSE area
  BY <1>4 DEF ChainArea
<1> HIDE DEF size, ss, ff
<1>6. ChainArea(Seen, Tables, b, v.ss[b], v.ff[b]) = size
  BY <1>2, <1>3, <1>5
<1>7. QED
  BY <1>1, <1>2, <1>6 DEF size

\* The areas add up alike: the search pays nothing for a flip-flop's branch.
LEMMA AreasAgree ==
  ASSUME NEW v, Realisable(v)
  PROVE  TotalArea(WithCells(AppliedCells(Design, Table, v.ss)))
           = SumFunction([b \in Branches(Seen) |->
                            ChainArea(Seen, Tables, b, v.ss[b], v.ff[b])])
<1> DEFINE cells == AppliedCells(Design, Table, v.ss)
           d == WithCells(cells)
           E == Branches(Seen)
           S == SeenBuffers
           f == [b \in E |-> ChainArea(Seen, Tables, b, v.ss[b], v.ff[b])]
           g == [b \in S |-> Design.cells[cells[b]].area]
<1>1. TotalArea(d) = SumFunction(g)
  <2>1. Buffers(d) \cap Annotated(d) = S /\ d.cells = Design.cells /\ d.cell = cells
    BY SameTree, SameAnnotated DEF SeenBuffers
  <2> HIDE DEF d, cells
  <2>2. QED
    BY <2>1 DEF TotalArea
<1>2. S \subseteq E /\ IsFiniteSet(E) /\ IsFiniteSet(S)
  <2>1. S \subseteq E /\ E \subseteq Nodes(Design)
    BY SeenBuffer, SeenBranch DEF SeenBuffers, Branches
  <2> HIDE DEF E, S
  <2>2. QED
    BY <2>1, TreeAssumption, FS_Subset
<1>3. \A b \in S : f[b] \in Int /\ g[b] = f[b]
  <2>1. ASSUME NEW b \in S PROVE f[b] \in Int /\ g[b] = f[b]
    <3>1. /\ ChainArea(Seen, Tables, b, v.ss[b], v.ff[b]) = Design.cells[cells[b]].area
          /\ Design.cells[cells[b]].area \in Nat
      BY RealisedArea
    <3> HIDE DEF cells
    <3>2. QED
      BY <1>2, <3>1
  <2>2. QED
    BY <2>1
<1>4. \A b \in E \ S : f[b] = 0
  <2>1. ASSUME NEW b \in E \ S PROVE f[b] = 0
    <3>1. /\ b \in Branches(Seen) /\ b \notin SeenBuffers /\ b \in Annotated(Design)
          /\ b \in Nodes(Design) /\ Design.kind[b] \in {"BUF", "FF"}
          /\ Seen.kind[b] = Design.kind[b]
      BY SeenBranch DEF Branches
    <3>2. Insertable(Design, b) /\ Insertable(Seen, b)
      BY <3>1 DEF SeenBuffers, Buffers, Insertable
    <3>3. v.ss[b] = 0 /\ v.ff[b] = 0
      BY <3>1, <3>2 DEF Realisable
    <3>4. QED
      BY <3>1, <3>2, <3>3 DEF ChainArea
  <2>2. QED
    BY <2>1
<1>5. DOMAIN f = E /\ DOMAIN g = S
  OBVIOUS
<1> HIDE DEF E, S, f, g
<1>6. SumFunction(g) = SumFunction(f)
  BY <1>2, <1>3, <1>4, <1>5, SumWithoutZeros
<1>7. QED
  BY <1>1, <1>6 DEF f, E

\* The slacks of every path are the same on both sides.
LEMMA SlacksAgree ==
  ASSUME NEW v, Realisable(v), NEW p \in Paths(Design)
  PROVE  LET d == WithCells(AppliedCells(Design, Table, v.ss)) IN
         /\ SetupSlack(d, p, PathSkew(d, "ss", p)) = SetupSlack(Seen, p, SaSkew(Seen, v.ss, p))
         /\ HoldSlack(d, p, PathSkew(d, "ff", p)) = HoldSlack(Seen, p, SaSkew(Seen, v.ff, p))
<1> DEFINE cells == AppliedCells(Design, Table, v.ss)
           d == WithCells(cells)
           launch == Design.paths[p].launch
           capture == Design.paths[p].capture
<1>1. /\ ClockArrival(d, "ss", launch) = EndArrival(Seen, v["ss"], launch)
      /\ ClockArrival(d, "ss", capture) = EndArrival(Seen, v["ss"], capture)
      /\ ClockArrival(d, "ff", launch) = EndArrival(Seen, v["ff"], launch)
      /\ ClockArrival(d, "ff", capture) = EndArrival(Seen, v["ff"], capture)
  <2> HIDE DEF launch, capture
  <2>1. QED
    BY ArrivalsAgree
<1>2. d.paths = Design.paths /\ d.period = Design.period
      /\ d.t_setup = Design.t_setup /\ d.t_hold = Design.t_hold
  BY SameTree
<1>3. /\ Seen.paths = Design.paths /\ Seen.period = Design.period
      /\ Seen.t_setup = Design.t_setup /\ Seen.t_hold = Design.t_hold
  BY SeenTree
<1> HIDE DEF cells, d
<1>4. /\ PathSkew(d, "ss", p) = SaSkew(Seen, v.ss, p)
      /\ PathSkew(d, "ff", p) = SaSkew(Seen, v.ff, p)
  BY <1>1, <1>2, <1>3 DEF PathSkew, SaSkew
<1>5. QED
  BY <1>2, <1>3, <1>4 DEF SetupSlack, HoldSlack, d, cells

\* The five figures of a realisable solution, on the seen tree, are those of
\* its tree.
LEMMA FiguresAgree ==
  ASSUME NEW v, Realisable(v)
  PROVE  Timing(AppliedCells(Design, Table, v.ss)) = SaMetrics(Seen, Tables, v)
<1> DEFINE cells == AppliedCells(Design, Table, v.ss)
           d == WithCells(cells)
<1>1. cells \in CellChoices
  BY TimingAssumption, OriginalCells, AppliedType
<1>2. Timing(cells) = PdTiming(d)
  BY <1>1, FiguresAssumption
<1>3. Paths(d) = Paths(Design) /\ d.paths = Design.paths /\ Paths(Seen) = Paths(Design)
  BY SameTree, SeenTree DEF Paths
<1>4. Resolved(d) = Paths(Design)
  <2>1. ASSUME NEW p \in Paths(Design)
        PROVE  Design.paths[p].launch >= 0 /\ Design.paths[p].capture >= 0
    <3>1. Design.paths[p].launch \in Nat /\ Design.paths[p].capture \in Nat
      BY TreeAssumption
    <3>2. QED
      BY <3>1
  <2> HIDE DEF d
  <2>2. QED
    BY <1>3, <2>1 DEF Resolved
<1>5. \A p \in Paths(Design) :
        /\ SetupSlack(d, p, PathSkew(d, "ss", p)) = SetupSlack(Seen, p, SaSkew(Seen, v.ss, p))
        /\ HoldSlack(d, p, PathSkew(d, "ff", p)) = HoldSlack(Seen, p, SaSkew(Seen, v.ff, p))
  BY SlacksAgree
<1>6. TotalArea(d) = SumFunction([b \in Branches(Seen) |->
                                    ChainArea(Seen, Tables, b, v.ss[b], v.ff[b])])
  BY AreasAgree
<1> HIDE DEF d
<1>7. PdTiming(d) = SaMetrics(Seen, Tables, v)
  BY <1>3, <1>4, <1>5, <1>6 DEF PdTiming, SaMetrics
<1>8. QED
  BY <1>2, <1>7

-----------------------------------------------------------------------------
(* The program.                                                            *)

\* Each report has the timing of the vectors applied to the original cells.
FiguresInv ==
  /\ Fresh("result.txt") =>
       files["result.txt"].opt = Timing(AppliedCells(Design, Table, solution.ss))
  /\ Fresh("result_lp.txt") =>
       files["result_lp.txt"].opt = Timing(AppliedCells(Design, Table, initial.ss))

\* Every stage keeps it: the vectors change before their report is written.
LEMMA FiguresStep == MainInv /\ ReportsInv /\ FiguresInv /\ [Next]_vars => FiguresInv'
<1> SUFFICES ASSUME MainInv, ReportsInv, FiguresInv, [Next]_vars PROVE FiguresInv'
  OBVIOUS
<1> USE DEF memory
<1>1. CASE Tick \/ Load \/ Build \/ Baseline \/ Restore \/ SearchStart \/ Terminated \/ UNCHANGED vars
  <2>1. UNCHANGED <<files, solution, initial>>
    BY <1>1 DEF Tick, Load, Build, Baseline, Restore, SearchStart, Terminated, vars
  <2>2. QED
    BY <2>1 DEF FiguresInv, Fresh
<1>2. CASE LpInit
  <2>1. UNCHANGED <<files, solution>> /\ pc = "lp"
    BY <1>2 DEF LpInit
  <2>2. ~Fresh("result_lp.txt") /\ ~Fresh("result.txt")
    BY <2>1 DEF ReportsInv, OrderInv, BeforeSnapshot
  <2>3. QED
    BY <2>1, <2>2 DEF FiguresInv, Fresh
<1>3. CASE Search
  <2>1. UNCHANGED <<files, initial>> /\ pc = "search"
    BY <1>3 DEF Search
  <2>2. ~Fresh("result.txt")
    BY <2>1 DEF ReportsInv, OrderInv
  <2>3. QED
    BY <2>1, <2>2 DEF FiguresInv, Fresh
<1>4. CASE Snapshot
  <2>1. /\ UNCHANGED <<solution, initial>> /\ pc = "snapshot"
        /\ annotated' = AppliedCells(WithCells(cell), Table, initial.ss)
        /\ \E score : Write("result_lp.txt", Report(ori, Timing(annotated'), score))
    BY <1>4 DEF Snapshot, Apply
  <2>2. annotated' = AppliedCells(Design, Table, initial.ss)
    BY <2>1, OriginalCells DEF MainInv, MemoryInv
  <2>3. PICK score : Write("result_lp.txt", Report(ori, Timing(annotated'), score))
    BY <2>1
  <2>4. /\ files'["result_lp.txt"] \in {files["result_lp.txt"], Report(ori, Timing(annotated'), score)}
        /\ files'["result.txt"] = files["result.txt"]
    BY <2>3, WriteEffect DEF MainInv, FilesInv, File
  <2>5. ~Fresh("result_lp.txt")
    BY <2>1 DEF ReportsInv, OrderInv, BeforeSnapshot
  <2>6. QED
    BY <2>1, <2>2, <2>4, <2>5 DEF FiguresInv, Fresh, Report
<1>5. CASE ApplyAndReport
  <2>1. /\ UNCHANGED <<solution, initial>> /\ pc = "apply"
        /\ annotated' = AppliedCells(WithCells(cell), Table, solution.ss)
        /\ \E score : Write("result.txt", Report(ori, Timing(annotated'), score))
    BY <1>5 DEF ApplyAndReport, Apply
  <2>2. annotated' = AppliedCells(Design, Table, solution.ss)
    BY <2>1, OriginalCells DEF MainInv, MemoryInv
  <2>3. PICK score : Write("result.txt", Report(ori, Timing(annotated'), score))
    BY <2>1
  <2>4. /\ files'["result.txt"] \in {files["result.txt"], Report(ori, Timing(annotated'), score)}
        /\ files'["result_lp.txt"] = files["result_lp.txt"]
    BY <2>3, WriteEffect DEF MainInv, FilesInv, File
  <2>5. ~Fresh("result.txt")
    BY <2>1 DEF ReportsInv, OrderInv
  <2>6. QED
    BY <2>1, <2>2, <2>4, <2>5 DEF FiguresInv, Fresh, Report
<1>6. CASE SnapshotStructure \/ FinalStructure
  <2>1. UNCHANGED <<solution, initial>>
    BY <1>6 DEF SnapshotStructure, FinalStructure
  <2>2. PICK name \in {"lp_init_clk_tree.structure", Tree} : \E content : Write(name, content)
    BY <1>6 DEF SnapshotStructure, FinalStructure, Tree
  <2>3. PICK content : Write(name, content)
    BY <2>2
  <2>4. files'["result.txt"] = files["result.txt"] /\ files'["result_lp.txt"] = files["result_lp.txt"]
    BY <2>2, <2>3, WriteEffect DEF MainInv, FilesInv, File, Tree
  <2>5. QED
    BY <2>1, <2>4 DEF FiguresInv, Fresh
<1>7. QED
  BY <1>1, <1>2, <1>3, <1>4, <1>5, <1>6 DEF Next, Step

\* What sa_eval.cpp computes of a solution a tree can have, on that tree
\* without what stands below its flip-flops, is what the report says of the
\* tree written for it, and the same for the LP snapshot: for every tree the
\* parser builds, every library, on the grid of the keys or off it, and every
\* range of delays, through the rounded tables and lookups, the application
\* of the solution and the annotation, whatever the program did in between.
THEOREM SearchAndReportAgree == Spec => []RealisableSolutionsAgree
<1>1. Init => MainInv /\ ReportsInv /\ FiguresInv
  <2>1. Init => FiguresInv
    BY DEF Init, FiguresInv, Fresh, Absent, Stale, File
  <2>2. QED
    BY <2>1, MainInit, ReportsInit
<1>2. MainInv /\ ReportsInv /\ FiguresInv /\ [Next]_vars => (MainInv /\ ReportsInv /\ FiguresInv)'
  BY MainStep, ReportsStep, FiguresStep
<1>3. FiguresInv => RealisableSolutionsAgree
  BY FiguresAgree DEF FiguresInv, RealisableSolutionsAgree
<1>4. QED
  BY <1>1, <1>2, <1>3, PTL DEF Spec

\* Where flip-flops drive nothing there is nothing below them to cut: there the
\* theorem above compares with what sa_eval.cpp computes of the whole design,
\* which is what the search went by.
THEOREM NothingIsCut ==
  (\A f \in FlipFlops(Design) : NChildren(Design, f) = 0) => Seen = Design
<1> SUFFICES ASSUME \A f \in FlipFlops(Design) : NChildren(Design, f) = 0
             PROVE  Seen = Design
  OBVIOUS
<1>1. ASSUME NEW f \in FlipFlops(Design), NEW c \in Nodes(Design) PROVE Design.parent[c] # f
  <2> DEFINE children == {x \in Nodes(Design) : Design.parent[x] = f}
  <2>1. Cardinality(children) = 0
    BY DEF NChildren
  <2>2. IsFiniteSet(children)
    <3>1. children \subseteq Nodes(Design) /\ IsFiniteSet(Nodes(Design))
      BY TreeAssumption
    <3> HIDE DEF children
    <3>2. QED
      BY <3>1, FS_Subset
  <2>3. children = {}
    <3> HIDE DEF children
    <3>1. QED
      BY <2>1, <2>2, FS_EmptySet
  <2>4. QED
    BY <2>3
<1>2. ASSUME NEW n \in Nodes(Design), NEW m \in RootPath(Design, n) \ {n}
      PROVE  Design.kind[m] # "FF"
  <2>1. m \in Nodes(Design) /\ \E c \in Nodes(Design) : Design.parent[c] = m
    BY DesignIsTree, RootPathNodes
  <2>2. QED
    BY <1>1, <2>1 DEF FlipFlops
<1>3. Annotated(Design) = Nodes(Design)
  BY <1>2 DEF Annotated
<1>4. /\ Restrict(Design.kind, Nodes(Design)) = Design.kind
      /\ Restrict(Design.parent, Nodes(Design)) = Design.parent
  BY TreeAssumption DEF Restrict
<1>5. Design = [f \in DOMAIN Design |-> Design[f]]
  BY DesignAssumption
<1>6. QED
  BY <1>3, <1>4, <1>5 DEF Seen, CutAtFlipFlops
=============================================================================
