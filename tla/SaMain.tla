------------------------------- MODULE SaMain -------------------------------
(***************************************************************************)
(* The program sa_solver, src/src/main.cpp: load, branch model, tables,    *)
(* LP start, LP snapshot, annealing, application, output.  Its state is    *)
(* the design in memory, whose cells the snapshot and the result overwrite,*)
(* and the files of the result directory.                                  *)
(*                                                                         *)
(* The two optimisers are represented by what they hand over: any of       *)
(* Vectors, at a time their limits allow.  Opening an output file may      *)
(* fail, and the directory may hold the files of an earlier run.           *)
(* sa_apply_solution, sa_build_ctx, lp_solve_mo_init, sa_path_solve and    *)
(* the table construction cannot fail on the program's own arguments, so   *)
(* the branches that handle it are left out.                               *)
(*                                                                         *)
(* An operator named Mut... is the definition that follows it with a       *)
(* plausible mistake; no specification uses it.                            *)
(***************************************************************************)
EXTENDS SaApply, LpScore

CONSTANTS
  Design,          \* what the input files hold
  Table,           \* dp_ss
  Timing(_),       \* timing and area of the design with given cells
  Vectors,         \* the delays [ss, ff] the optimisers may hand over
  TotalLimit,      \* SA_TIME_LIMIT, in clock ticks
  LpInitLimit,     \* LP_INIT_TIME_LIMIT
  SaPhaseLimit,    \* SA_PHASE_TIME_LIMIT
  LongestStretch   \* bound: ticks followed from one phase start to the next

\* A design is a record, one field of which holds the cells.
ASSUME DesignAssumption ==
  /\ Design = [f \in DOMAIN Design |-> Design[f]]
  /\ "cell" \in DOMAIN Design

\* The cells a design may have; the timing of each choice has its figures.
CellChoices == [Buffers(Design) -> DOMAIN Design.cells]

ASSUME TimingAssumption ==
  /\ Design.cell \in CellChoices
  /\ \A c \in CellChoices : Timing(c) \in Figures

\* The table's chains end in cells of the library.
ASSUME TableAssumption ==
  \A fanout \in DOMAIN Table : \A delay \in DOMAIN Table[fanout] :
    Table[fanout][delay].last \in DOMAIN Design.cells

ASSUME MainAssumption ==
  /\ TotalLimit \in Nat /\ LpInitLimit \in Nat /\ SaPhaseLimit \in Nat
  /\ LongestStretch \in Nat
  /\ LongestStretch >= LpInitLimit /\ LongestStretch >= SaPhaseLimit

VARIABLES
  result_dir,   \* whether a result directory is given (argc >= 3)
  pc,           \* the next stage, or "exit"
  now,          \* the wall clock since wall_t0
  phase_t0,     \* when the LP or SA phase began
  cell,         \* design.nodes[].cell_idx of the buffers
  annotated,    \* the cells that d_clk_ss, d_clk_ff and total_area belong to
  pb_ori,       \* problem.wns_ss_ori ... area_ori
  ori,          \* metrics and score of the baseline
  initial, solution,
  buf_snap,
  files,        \* the result directory
  exit_code

memory == <<cell, annotated, pb_ori, ori, initial, solution, buf_snap>>
vars == <<result_dir, pc, now, phase_t0, memory, files, exit_code>>

-----------------------------------------------------------------------------

File == {"result_lp.txt", "lp_init_clk_tree.structure",
         "result.txt", "modified_clk_tree.structure"}

\* A file that is missing, left by an earlier run, or of this run.
Absent == [run |-> "none"]
Stale == [run |-> "earlier"]
Report(o, m, score) == [run |-> "this", ori |-> o, opt |-> m, score |-> score]
Structure(c) == [run |-> "this", cell |-> c]

Fresh(f) == files[f].run = "this"

\* A cleared LpSolution.
NoVectors == [ss |-> <<>>, ff |-> <<>>]

WithCells(c) == [Design EXCEPT !.cell = c]

\* lp_compute_metrics: from the annotation, whatever the cells are now.
ComputedMetrics == Timing(annotated)

\* lp_write_result_txt and pd_write_structure: the file is written, or it
\* cannot be opened and stays as it was; the program goes on.
Write(name, content) ==
  files' \in {files} \cup (IF result_dir THEN {[files EXCEPT ![name] = content]} ELSE {})

\* sa_apply_solution.
MutApplyWithoutAnnotate(sol) ==
  /\ cell' = AppliedCells(WithCells(cell), Table, sol.ss)
  /\ annotated' = annotated

Apply(sol) ==
  /\ cell' = AppliedCells(WithCells(cell), Table, sol.ss)
  /\ annotated' = cell'

GoTo(stage) == pc' = stage

Exit(code) == pc' = "exit" /\ exit_code' = code

-----------------------------------------------------------------------------

Init ==
  /\ pc = "load"
  /\ now = 0 /\ phase_t0 = 0
  /\ cell = <<>> /\ annotated = <<>>
  /\ pb_ori = <<>> /\ ori = <<>>
  /\ initial = NoVectors /\ solution = NoVectors /\ buf_snap = <<>>
  /\ result_dir \in BOOLEAN
  /\ files \in {[f \in File |-> Absent], [f \in File |-> Stale]}
  /\ exit_code = 0

Tick ==
  /\ pc # "exit"
  /\ now - phase_t0 < LongestStretch
  /\ now' = now + 1
  /\ UNCHANGED <<result_dir, pc, phase_t0, memory, files, exit_code>>

Load ==
  /\ pc = "load"
  /\ \/ GoTo("build") /\ cell' = Design.cell /\ UNCHANGED exit_code
     \/ Exit(1) /\ UNCHANGED cell
  /\ UNCHANGED <<result_dir, now, phase_t0, annotated, pb_ori, ori, initial, solution, buf_snap, files>>

\* lp_build_from_design: annotates the clock and keeps the baseline figures.
Build ==
  /\ pc = "build"
  /\ annotated' = cell
  /\ pb_ori' = Timing(cell)
  /\ IF Branches(Design) = {} THEN Exit(1) ELSE GoTo("baseline") /\ UNCHANGED exit_code
  /\ UNCHANGED <<result_dir, now, phase_t0, cell, ori, initial, solution, buf_snap, files>>

\* Lines 96-122: the tables and the baseline; the LP clock starts.
Baseline ==
  /\ pc = "baseline"
  /\ ori' = [metrics |-> ComputedMetrics, score |-> Score(ComputedMetrics, pb_ori)]
  /\ phase_t0' = now
  /\ GoTo("lp")
  /\ UNCHANGED <<result_dir, now, cell, annotated, pb_ori, initial, solution, buf_snap, files, exit_code>>

\* lp_solve_mo_init iterates until its time is over.
LpInit ==
  /\ pc = "lp"
  /\ now - phase_t0 >= LpInitLimit
  /\ initial' \in Vectors
  /\ GoTo(IF result_dir THEN "snapshot" ELSE "search_start")
  /\ UNCHANGED <<result_dir, now, phase_t0, cell, annotated, pb_ori, ori, solution, buf_snap, files,
                 exit_code>>

MutSnapshotIntoOri ==
  /\ pc = "snapshot"
  /\ buf_snap' = cell
  /\ Apply(initial)
  /\ LET m == Timing(annotated') IN ori' = [metrics |-> m, score |-> Score(m, pb_ori)]
  /\ Write("result_lp.txt", Report(ori', ori'.metrics, ori'.score))
  /\ GoTo("snapshot_structure")
  /\ UNCHANGED <<result_dir, now, phase_t0, pb_ori, initial, solution, exit_code>>

MutSnapshotUnsaved ==
  /\ pc = "snapshot"
  /\ Apply(initial)
  /\ LET m == Timing(annotated') IN
     Write("result_lp.txt", Report(ori, m, Score(m, pb_ori)))
  /\ GoTo("snapshot_structure")
  /\ UNCHANGED <<result_dir, now, phase_t0, pb_ori, ori, initial, solution, buf_snap, exit_code>>

\* Lines 152-191: the cells are saved, the start is applied and reported.
Snapshot ==
  /\ pc = "snapshot"
  /\ buf_snap' = cell
  /\ Apply(initial)
  /\ LET m == Timing(annotated') IN
     Write("result_lp.txt", Report(ori, m, Score(m, pb_ori)))
  /\ GoTo("snapshot_structure")
  /\ UNCHANGED <<result_dir, now, phase_t0, pb_ori, ori, initial, solution, exit_code>>

SnapshotStructure ==
  /\ pc = "snapshot_structure"
  /\ Write("lp_init_clk_tree.structure", Structure(cell))
  /\ GoTo("restore")
  /\ UNCHANGED <<result_dir, now, phase_t0, memory, exit_code>>

MutRestoreOnlyAnnotation ==
  /\ pc = "restore"
  /\ annotated' = buf_snap
  /\ GoTo("search_start")
  /\ UNCHANGED <<result_dir, now, phase_t0, cell, pb_ori, ori, initial, solution, buf_snap, files, exit_code>>

Restore ==
  /\ pc = "restore"
  /\ cell' = buf_snap
  /\ annotated' = buf_snap
  /\ GoTo("search_start")
  /\ UNCHANGED <<result_dir, now, phase_t0, pb_ori, ori, initial, solution, buf_snap, files, exit_code>>

SearchStart ==
  /\ pc = "search_start"
  /\ phase_t0' = now
  /\ GoTo("search")
  /\ UNCHANGED <<result_dir, now, memory, files, exit_code>>

\* The test of the search loop.
MaySearch == now - phase_t0 < SaPhaseLimit

\* sa_path_solve returns: converged, stalled or at the end of its time.
Search ==
  /\ pc = "search"
  /\ solution' \in Vectors
  /\ GoTo("apply")
  /\ UNCHANGED <<result_dir, now, phase_t0, cell, annotated, pb_ori, ori, initial, buf_snap, files,
                 exit_code>>

\* Lines 231-263; without a result directory nothing is written.
ApplyAndReport ==
  /\ pc = "apply"
  /\ Apply(solution)
  /\ LET m == Timing(annotated') IN
     Write("result.txt", Report(ori, m, Score(m, pb_ori)))
  /\ GoTo("structure")
  /\ UNCHANGED <<result_dir, now, phase_t0, pb_ori, ori, initial, solution, buf_snap, exit_code>>

MutRetryStructure ==
  /\ pc = "structure"
  /\ Write("modified_clk_tree.structure", Structure(cell))
  /\ IF files'["modified_clk_tree.structure"].run = "this"
       THEN Exit(0) ELSE UNCHANGED <<pc, exit_code>>
  /\ UNCHANGED <<result_dir, now, phase_t0, memory>>

FinalStructure ==
  /\ pc = "structure"
  /\ Write("modified_clk_tree.structure", Structure(cell))
  /\ Exit(0)
  /\ UNCHANGED <<result_dir, now, phase_t0, memory>>

Step ==
  \/ Load \/ Build \/ Baseline \/ LpInit
  \/ Snapshot \/ SnapshotStructure \/ Restore
  \/ SearchStart \/ Search
  \/ ApplyAndReport \/ FinalStructure

Terminated == pc = "exit" /\ UNCHANGED vars

Next == Tick \/ Step \/ Terminated

Spec == Init /\ [][Next]_vars

\* The clock advances and the single thread runs.
FairSpec == Spec /\ WF_vars(Tick) /\ WF_vars(Step)

-----------------------------------------------------------------------------
(* Properties.                                                             *)

Stage == {"load", "build", "baseline", "lp", "snapshot", "snapshot_structure",
          "restore", "search_start", "search", "apply", "structure", "exit"}

\* Every variable has its type.
TypeOK ==
  /\ result_dir \in BOOLEAN
  /\ pc \in Stage
  /\ now \in 0 .. 3 * LongestStretch /\ phase_t0 \in 0 .. now
  /\ cell \in CellChoices \cup (IF pc \in {"load", "exit"} THEN {<<>>} ELSE {})
  /\ annotated \in CellChoices \cup {<<>>} /\ buf_snap \in CellChoices \cup {<<>>}
  /\ initial \in Vectors \cup {NoVectors} /\ solution \in Vectors \cup {NoVectors}
  /\ DOMAIN files = File
  /\ exit_code \in {0, 1}

\* The figures of a report are those of the tree written beside it, for the
\* result and for the LP snapshot.
ReportsMatchStructures ==
  \A pair \in {<<"result.txt", "modified_clk_tree.structure">>,
               <<"result_lp.txt", "lp_init_clk_tree.structure">>} :
    Fresh(pair[1]) /\ Fresh(pair[2]) =>
      files[pair[1]].opt = Timing(files[pair[2]].cell)

\* Every report compares with the tree as it was loaded, which scores 0.
BaselineIsOriginal ==
  \A f \in {"result.txt", "result_lp.txt"} :
    Fresh(f) => files[f].ori = [metrics |-> Timing(Design.cell), score |-> 0]

\* The tree that is written is the solution applied to the original cells:
\* nothing of the LP snapshot is left in buffers the solution does not set.
ResultFromOriginal ==
  Fresh("modified_clk_tree.structure") =>
    files["modified_clk_tree.structure"].cell = AppliedCells(Design, Table, solution.ss)

\* The program comes to its end.
Exits == <>(pc = "exit")

\* architect.md: the search goes on only while elapsed(wall_t0) is below
\* SA_TIME_LIMIT, the LP's time included.
SearchHeedsTotalLimit == pc = "search" /\ MaySearch => now < TotalLimit
=============================================================================
