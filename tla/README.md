# Verification of sa_solver

This directory is the formal model of `sa_solver`, the clock-tree optimiser for
ICCAD 2026 Problem D: TLA+ modules translated from the C++ and C sources, TLC
configurations that check them on small designs, and proofs that TLAPS checks
for every design. Sources are cited as `src/...`; the program itself is in
`src/src` and `src/include`.

## 1. The system

`sa_solver <testcase_dir> [result_dir]` is one process with one thread. It
reads a clock tree, a buffer library and two delay reports, gives every tree
edge ("branch") a delay per corner (SS for setup, FF for hold), searches for
delays that repair violations, maps them back to library cells and writes the
tree and a report.

    pd_parser -> PdDesign --> lp_branch: LpProblem ----------------------+
                    |          (branches, baseline)                      |
                    |              |                                     v
                    |         lp_mo_init (LP time) --> initial --> sa_path_solve
                    |                                   |  (SA time)  |  ^
                    |                                   |             |  sa_eval <- lp_buffer_dp
                    v                                   v             v
              pd_clock / pd_timing  <--- sa_apply (snapshot) --- sa_apply (result)
                    |                                   |             |
                    v                                   v             v
               lp_score ------------------------> result_lp.txt   result.txt, structure

| Component | State it keeps | Operations | What makes it correct |
|---|---|---|---|
| path-heap annealing `sa_path_solve.cpp` | current, best vectors, cached context, phase, counters, pool size, blacklist | loop head, choice, move, accept, return | context and incumbents in step with vectors; phases separated; terminates; result says why it ended |
| evaluation `sa_eval.cpp` | `SaPgCtx`, filled anew by each call | build, evaluate, options, start | equals what the report later says for realisable delays, as far as the report sees the tree |
| branch model `lp_branch.cpp` | `LpProblem` | build | one branch per edge, bounds offered by the library |
| score `lp_score.cpp` | none | score, write a report | better figures score higher |
| clock and timing `pd_clock.c`, `pd_timing.c` | annotation of the design | annotate (down to the first flip-flop on each way), compute | agrees with the cells when read |
| chain tables `lp_buffer_dp.cpp` | `prefix_`, `table_` | build, lookup | cheapest chain per fanout and delay, independent of visiting order |
| application `sa_apply.cpp` | writes `cell_idx` | apply | sets each reachable buffer, re-annotates |
| stages `main.cpp` | design in memory, snapshot, limits | see `SaMain` | result from the original tree; reports match trees; ends |
| LP start `lp_mo_init.cpp` | vectors, context, best so far | projected gradient until its time is over | best never lost, vectors in bounds, a step does not make a violation worse |
| parser `pd_parser.c` | cells, nodes, node stack, paths | four files, line by line | each node below the nearest node of a lower level, each path with its hold delay |
| writer `pd_output.c` | none | depth-first print | gives back the file that was read |

The hard behaviours are not concurrency but *time and bookkeeping*: two phases
with different objectives share one incumbent; counters decide when to stop and
which branches to give up; the deadline can fall between any two steps; the
design in memory is overwritten twice and restored once; files fail one by one;
hash maps are visited in any order. `PROJECT.json` lists each of these hazards
at its line.

## 2. Modules

| Module | Models | State and actions |
|---|---|---|
| `ClockTree` | `pd_clock.c`, `pd_timing.c`, `pd_types.h` | operators on a design record: `Annotated` (what `annotate_subtree` reaches: it returns at a flip-flop), arrival and area of what is reached, slack, `PdTiming` |
| `LpBranch` | `lp_branch.cpp` | `Branches`, `BranchFanout` (the parent's loads, as in the code), `DelayBounds` |
| `LpScore` | `lp_compute_score` | `Score`, scaled to an integer |
| `SaEval` | `sa_eval.cpp` | `EvalContext`, `BranchOptions`, `InitialDelay`, `SaMetrics` |
| `BestSoFar` | what both optimisers promise | abstract: `Pass`, `Keep`, `Change` of objective, `HandBack` |
| `SaPathSolve` | `sa_path_solve.cpp` | see below; refines `BestSoFar` |
| `LpGradient` | evaluation and gradient of `lp_mo_init.cpp` | `MoContext`, `MoCorrection` |
| `LpDescent` | `LpMoInit` with `LpGradient` on designs | |
| `LpMoInit` | `lp_solve_mo_init` | `Iterate`, `Deadline`, `Return`, `Tick`; refines `BestSoFar` |
| `ChainLookup` | `delay_key` and `lookup` of `lp_buffer_dp.cpp` | `DelayKey`, `Reachable`, `Lookup`: the rounding, for the tables, `SaEval` and `SaApply` alike |
| `BufferChains` | what `lp_buffer_dp.hpp` promises | `ChainTable`, by recursion on the delay, without rounds |
| `BufferChainDp` | `LpBufferChainDp::build` | `BeginRound`, `Visit(k)` (one snapshot entry), `EndRound`, `EndPrefixes`, `BuildRow`, `Finish` |
| `SaApply` | `sa_apply.cpp` | `AppliedCells` |
| `SaMain` | `main.cpp` with the file writers | one action per stage, `Tick` |
| `SaAgreement` | `SaMain` with `SaEval`, `ClockTree` and the tables of both corners | the search's view and the report's of one solution, on the tree cut at its flip-flops (`Seen`) |
| `PdParser` | `pd_parser.c` | one action per kind of line, `EndOfFile`, `CannotOpen` |
| `PdOutput` | `pd_output.c` | `NodeLines` (the recursion) and `WrittenFile`, over the nodes of `PdParser` |
| `SmallDesign`, `MCSaPathSolve`, `MCSaMain`, `MCLpMoInit`, `MCBufferChainDp`, `MCPdParser` | designs, libraries and lines for TLC | |
| `SumFacts` | | lemmas on `SumFunction` and on sums over sets |
| `BufferChainFacts` | | lemmas on the reference tables |
| `SaPathSolveProofs`, `LpMoInitProofs`, `LpScoreProofs`, `SaMainProofs`, `BufferChainDpProofs`, `PdParserProofs` | theorems | |

The modules compose in three places. `MCSaPathSolve` runs the search on contexts,
options and paths that `SaEval`, `LpBranch`, `ClockTree` and the tables of
`BufferChains` compute from a design. `LpDescent` gives `LpMoInit` the evaluation and the gradient
of `LpGradient` on designs, which `MCLpMoInit` lists. `SaAgreement` takes for the tables of `SaMain` the reference
tables of the design's library, for its timing that of `ClockTree`, and puts
`SaEval` beside it, so that what the search says of delays is compared with what
the report says of the tree written for them. `ChainLookup` is one module so that
tables, pricing and application round alike; `MCSaMain` gives all of them two designs.

**SaPathSolve.** One iteration is two steps. `LoopHead` is lines 194-208: the
deadline test, `iterations++`, the phase switch (`SwitchPhase`), the growth of
the pool (`GrowPool`) and the re-evaluation. The body is one of `NoViolation`
(222-226), `MoveFails` (247-250), `PickFromEmpty` (line 100 with no branch to
choose) and `Move` (252-308, with acceptance `AcceptMove` and counters
`CountMove`). `Deadline` is the failed loop test, `Return` lines 310-321 with the
second reading of the clock, `Tick` the clock itself, which may fall between any
two of them. Variables have the names of the code; `cur` and `best` are the
pairs of vectors, `out` is the `SaSolveResult`.

**LpMoInit.** One turn of the loop is one action, `Iterate`: gradient, step,
projection, evaluation, comparison with the best. Nothing else reads or writes
the vectors in between.

**SaMain.** `cell` is `design.nodes[].cell_idx`; `annotated` are the cells the
stored arrival times belong to, so a report made without re-annotation would
show. `files` says of every output whether it is missing, of an earlier run, or
of this run and with what content. The optimisers are what they hand over: any
of `Vectors`, at a time their own limit allows.

**PdParser.** `stage` is the file being read, `read` the lines read of it. A line
is what the code's patterns recognise in it (`[kind, ...]`), so a file is any
sequence of such lines, malformed ones included. The stack of node indices is
that of `parse_structure`: a Root line pushes node 0 whatever node it adds, a
node line pops to the nearest lower level.

### Abstractions

- Delays and areas are integers of a grid coarser than the tolerances (1e-9,
  1e-12) the code compares with, so a tolerant comparison is an exact one.
- Rounding to the table's keys (`llround(d / 1e-4)`) is modelled wherever the code
  rounds: while the tables are built and in every lookup (`ChainLookup`).
  `UnitsPerKey` is the key step in units of the grid: 3 in `dp_rounds`, 2 in the
  runs of `MCSaMain`, so that delays lie between keys, and 1 in the runs of the
  two optimisers, where every delay has a key of its own. It is free in the proofs.
- The score is multiplied by the baseline's denominators; order and equality
  are those of the doubles up to rounding.
- A path's share of the LP step is rounded down to the grid.
- Temperature and random draws are nondeterministic. What is kept: an equal or
  better trial is always accepted (`exp(0) = 1` exceeds every draw of [0, 1)).
- An index drawn from an empty vector ends the modelled run in `"undefined"`:
  the read may return anything.
- Branches of the code that handle errors that cannot happen in `main` (null
  arguments, `sa_build_ctx`, table construction, LP and apply results, which are
  constants) and failures of memory are left out.
- Texts, console output and the layout of reports are left out.

## 3. Runs

| Run | Property | Kind |
|---|---|---|
| `search` | `TypeOK`, `ContextFresh`, `IncumbentDominates`, `SetupIncumbentExact`, `StallWindowWithinPhase`, `PoolFollowsIterations`, `PlainResultMeansConverged`, `HandsBackTheBest`, `SetupRepairOneWay`, `BlacklistIsPermanent` | pass |
| `many_paths` | `PoolIsWorst`, `WindowBackedByAttempts`, `SetupBestNeverLost`, `Terminates` | pass, fair |
| `lp_search` | `TypeOK`, `HandsBackTheBest`, `SetupStepRepairs` | pass |
| `dp_rounds` | `TypeOK`, `PrefixEntriesAreChains`, `RowEntriesAreChains`, `RoundsAreExact`, `ConvergedTableIsMinimal`, `RoundsEndByThemselves`, `AreasNeverRise` | pass |
| `main` | `TypeOK`, `ReportsMatchStructures`, `BaselineIsOriginal`, `ResultFromOriginal`, `RealisableSolutionsAgree`, `Exits` | pass, fair |
| `parse` | `TypeOK`, `ParentIsNearestAbove`, `HoldDelayIsOfItsPair`, `WriterReproduces` | pass |
| `move_has_a_branch` | `MoveHasABranch` | violated |
| `score_zero_baseline` | `ScoreMeansImprovement` | violated |
| `historical_best` | `HistoricalBestKept` | violated |
| `main_total_limit` | `SearchHeedsTotalLimit` | violated |
| `search_fanout` | `SearchSeesBaseline` | violated |
| `lp_hold_step` | `HoldStepRepairs` | violated |

`HandsBackTheBest` is the refinement: with the incumbent as `kept`, the value to
beat as `bar` and the phase as the objective, every step of the search, or of the
gradient, is a step of `BestSoFar` or leaves it alone. `RealisableSolutionsAgree`
is the composition's property: for vectors that are the delays of single cells
at fanouts the tree has, the five figures in the report are those `SaEval`
computes, through the rounded tables and lookups, the application and the
annotation. `SaEval` is asked about the tree cut at its flip-flops: `pd_clock.c:32-35`
returns there, so a flip-flop below another keeps arrival 0 and a buffer below one
area 0 in every report, while `sa_eval.cpp` sums and prices all the way down. On
a tree with nodes below a flip-flop, which the parser accepts and which none of
the recorded cases has, search and report therefore disagree; where flip-flops
drive nothing the cut removes nothing and the property is about what the search
went by (`NothingIsCut`, section 4).

`PoolIsWorst` states what the code does and not what is written about it:
`src/architect.md:61-63` and `src/plan.txt:11` draw from the ten worst and ten
random violating paths, 20 at most, while `sa_path_solve.cpp:228-242` takes the worst
alone, 20 at first and 10 more every 500 iterations (`sa_config.hpp:12-19`). A
violating path beyond the pool can be chosen by the documents and cannot by the
code until the pool has grown up to it.

**Bounds.**

- *Search.* Three branches (one buffer, two flip-flops), two paths, delays 0..2,
  phase switch after iteration 3, up to 9 iterations, stall after 3, blacklist
  after 2, pool 1 growing every 3. So the switch, a stall in each phase, a
  blacklisted branch carried over the switch, two pool growths, convergence and
  the deadline at every point all occur. The run starts from every vector
  within the branch bounds, which is what the LP phase can hand over.
  `many_paths` has six paths over four branches with two equally bad ones: the
  pool is smaller than the violating set, branches are used up after one failed
  attempt, so the search also ends with nothing left to choose, and the buffer's
  six paths exceed n_br + 1, so it also meets the empty choice. The relation of
  the limits is free in the proofs. `MaxIterations` bounds only how many
  iterations the machine makes before the deadline; `TimeLimit = 1` is enough
  because only "before" and "after" matter.
- *LP start.* Five designs over three branches, one path each way, with slack
  patterns in which the step overshoots and swings back and in which it is held
  by a bound; up to six steps before the deadline.
- *Tables.* Three cells (one rounded to key 0, one that two of another undercut,
  one without a table at fanout 3), 6 keys, every visiting order. The cap of 64
  rounds is a constant and is not reached with 6 keys; a library with more than
  64 cells to the longest chain would lose the longer chains
  (`lp_buffer_dp.cpp:50`). `LimitLosesNoChain` (section 4) says when it is enough.
- *Stages.* A tree whose root and buffers drive two loads each, so that the
  fanouts of search and report agree, with a buffer and two flip-flops below one of
  its flip-flops and a path into them, which the report does not see; delays half
  of which lie between two keys; vectors a tree can have and one that leaves
  a buffer its cell; every combination of failing and stale files.
  `LongestStretch` bounds how long a phase may take beyond its limit.
- *Files.* Up to two library lines, five structure lines and three lines of each
  report, of every kind that matters: unknown cells, levels left out, nodes below flip-flops,
  several roots, two paths between one pair, rows before the header, paths to
  unknown nodes, a library at its limit, any file missing.

`CHECK_DEADLOCK` stays on: a finished run stutters through `Terminated`.

**Fairness.** `FairSpec` asks weak fairness of `Tick` and of `Step`. The program
is one thread that the operating system runs, and `steady_clock` advances.
Nothing else is assumed: in particular not that a move improves, that a violation
is repaired, or that random choices are fair. With a `MaxIterations` bound the
search can only end through the clock when every branch is blacklisted, which
is the point of `Terminates`.

### What the violated runs show

1. `sa_path_solve.cpp:87`: the least path count starts at n_br + 1. Four of the six
   recorded cases have an edge with more paths than that (`testcase1`: 2226 paths,
   2173 branches; `testcase4`: 68421 and 57426), so an edge near the root can be the
   only eligible one, and line 100 then indexes an empty vector. `ChoiceIsDefined`
   (section 4) is the converse.
2. `lp_score.cpp:20`: a figure whose baseline is 0 adds 1 to the score as soon as it
   becomes a violation. In the trace one FF delay of a buffer falls from 2 to 1: the
   hold slack becomes -1, which violates worst and total hold slack, the area grows
   from 1 to 2, the setup figures stay. No figure is better; the two hold terms
   gain 1 each, the area term loses 1, and the score is higher by one whole term
   (9 at a scale of 9). `ScoreIsMonotone` (section 4) is the converse.
3. `sa_path_solve.cpp:199-202`: the switch resets the value to beat, not the
   incumbent vectors. In the trace the current solution, accepted during the setup
   phase, scores above the vectors that would be returned; at the switch its
   score becomes the value to beat and the vectors stay.
4. `main.cpp:217`: the total limit does not bound the search.
5. `lp_branch.cpp:67` against `pd_clock.c:26`: the branch into a buffer has the
   fanout of its parent, the buffer is timed with its own. On a tree with
   different fanouts the search's view of the original delays is not the
   baseline.
6. `lp_mo_init.cpp:253` and `:261`: the hold terms carry the sign of the setup
   terms, so the first step makes a lone hold violation worse.

## 4. Proofs

All theorems hold for every value of the constants under the named assumptions
of the modules (`GraphAssumption`, `DelayAssumption`, `EvalAssumption`,
`ConfigAssumption`, `BoundsAssumption`, `EvaluationAssumption`, `TimeAssumption`,
`StepAssumption`, `LibraryAssumption`, `RoundAssumption`, `DesignAssumption`, `TimingAssumption`,
`TableAssumption`, `MainAssumption`, `LineAssumption`, `LimitAssumption`), which TLC
evaluates in the runs. Three theorems use more: `SearchAndReportAgree` and
`NothingIsCut` the `TreeAssumption`, `CellsAssumption` and `FiguresAssumption` of
`SaAgreement`, and `SetupStepsRepair` the `DesignsAssumption` and `GradientAssumption` of `LpDescent`.
`TreeAssumption` describes what the parser builds (only Root lines make nodes without
parents, parents come first, only node 0 of the roots has children), whatever
stands below flip-flops. `SumFacts` is what these theorems and the search need of
sums: `SumFunction` adds in the order of a CHOOSE, and the lemmas say that the
order does not matter (argued on a least subset for which a claim would fail), that
larger summands make a larger sum and what changing one summand does.

**`SaPathSolveProofs`**: any finite set of branches and paths, any option lists,
any evaluation function into contexts, any limits.

- `TypeCorrect`. `TypeOK` is not inductive: the window can only be shown to stay
  within `NoImproveLimit` if it is strictly below whenever the loop goes on. The
  invariant is `TypeInv == TypeOK /\ WindowOpen`.
- `ContextIsFresh`, `IncumbentIsBest`, `SetupIncumbentIsExact`, `SetupBestIsKept`
  rest on `SearchInv`, the conjunction of the first three with `TypeInv`. They
  need each other: the value the switch takes over is an upper bound only
  because the context is that of the current vectors.
- `ImplementsBestSoFar` maps each step from `SearchInv` and from what `out` holds
  at the end.
- `SetupRepairIsOneWay`, `BlacklistIsKept` are step properties from `TypeInv`, with
  the lemmas on `NextHigher`, `NextLower` and on what a move may change
  (`MoveEffect`).
- `WindowIsWithinPhase`: `WindowInv` counts the iteration under way apart.
- `WindowIsBacked`: `no_improve_iters <= SumFunction(branch_stall)`. A move that
  does not improve counts in the window and charges a branch; the failure of a
  move does neither; an acceptance that improves resets the window and leaves the
  charges. A charge is kept up to the limit only of branches that still had
  attempts (`ChosenBranch`), so the sum grows whenever the window does
  (`SumFacts!SumOfOne`).
- `PoolIsInStep`: `PoolInv` gives the size before and after `LoopHead`, which is
  where a period of iterations may be completed; division by the period is unique.
- `PoolIsTheWorst`: the pool is a prefix of the violating paths in the order
  "heavier, or as heavy and of a lower index". The order is total, so the paths
  before a given one are as many as its place says, and a prefix has as many
  elements as were asked for.
- `PlainResultIsConverged`: `ReasonInv` carries the reason for leaving the loop
  from the exit to the result.
- `ChoiceIsDefined`: if no branch lies on more than n_br + 1 paths
  (`FewPathsPerBranch`), every move finds a branch. The run `move_has_a_branch`
  shows that the condition cannot be dropped.

**`LpMoInitProofs`**: any problems, bounds, evaluation and gradient.
`TypeCorrect`: the vectors, present and best, stay within the bounds of their
branches, for which the start must be projected as well as every step.
`ImplementsBestSoFar` from the same invariant. `SetupStepsRepair`, for every design:
with one path in violation every other pulls by 0, so the sum over paths is the
pull of that one (`LonePull`); a delay that was within its bounds keeps the sense
of its move through the projection (`ClampFollows`); branches above both ends do
not move; so the capture arrives no earlier and the launch no later. The run
`lp_hold_step` shows that the same is false for hold.

**`LpScoreProofs`**: `BaselineScoresZero` and `ScoreIsMonotone`: when no figure of
the baseline is 0, better figures in every term never score lower.

**`SaMainProofs`**: every design, table, timing, set of vectors and limits,
whichever files fail. `ResultIsFromOriginal` by `MainInv`, which says where in the
program the cells, or the snapshot, are the original ones, and that the result's
tree is of this run only at the end. `ReportsAreOfTheirTrees` and `BaselineIsKept`
by `ReportsInv`, which adds what each file of this run was written from; the
second uses that a baseline scores 0 against itself. `TypeCorrect` adds the clock:
how far a phase can have run when the next begins.

`SearchAndReportAgree`, for every parsed tree, every library, on the grid of the keys or
off it, and every range of delays: the report on a solution a tree can have has the
figures `sa_eval.cpp` computes of it on `Seen`, the tree cut at its flip-flops. The
argument has three parts.

- *What the report sees.* `RootPath` is defined by recursion on the parent; that the
  recursion may be unfolded (`RootPathUnfolds`) is proved from a solution given
  without recursion, the edges in every set of nodes that holds a node and the
  parents of its members (`UpExists`). From it: a node that is reached hangs from
  one that is reached and is no flip-flop (`AnnotatedParent`), the way from the root
  to it is all in `Seen` (`SeenPaths`, on the least node for which it would fail), and
  branches in `Seen` have the fanout and area they have in the design (`SeenBranch`).
- *Delays.* The chain a lookup finds under the rounded delay ends in a cell whose own
  delay, at the buffer's fanout and in both corners, is the delay asked for
  (`RealisedDelay`): the lookup may round, the cell that is written does not. So
  arrival times are sums of the same summands above a flip-flop that is
  reached and 0 at every other node (`ArrivalsAgree`).
- *Areas.* A row's key is the sum of rounded delays and a lookup rounds the sum; a cell
  that stands alone is found under its own key by both (`KeyOfDelay`, `SingleCells`
  of `BufferChainFacts`), so the search pays for a delay the area of the cell
  (`RealisedArea`), and the areas agree (`AreasAgree`). A cell without area would be
  priced as if no chain existed (`sa_eval.cpp:33`), hence the positive areas in
  `CellsAssumption`.

`FiguresInv` carries the equality from the reports to the end, since nothing changes the
vectors after they are used. `NothingIsCut`: where flip-flops drive nothing, `Seen` is
the design, so there the report has the figures the search went by. Where one does
drive something the two differ in the code; no theorem says otherwise.

**`BufferChainDpProofs`, with `BufferChainFacts`**: any library, any number of keys,
every visiting order.

- `TypeCorrect`, `AreasDoNotRise`: the entry of a key is only ever replaced by a
  cheaper one.
- `PrefixesAreChains`, `RowsAreChains`: each entry is the delay and area of a real
  chain of its length. The sum over a chain is a function defined by recursion;
  that appending a cell adds its share is proved on the shortest prefix for
  which it would fail.
- `ConvergedTableIsReference`: when the rounds end because nothing changed, the
  table is that of `BufferChains`. `MinimalInv`: every entry is paid for by one
  of a lower key (`Supported`), the entries visited in a round leave nothing to
  improve from the snapshot (`ClosedAt`), and with no change the prefixes are the
  snapshot. A supported and closed map is the least one (`SettledIsLeast`), argued
  on the least key at which it would not be.
- `EveryRoundIsExact`: `RoundsInv` follows a round through its visits. What is added
  is an entry of the snapshot or a cell behind one (`MadeFrom`), and what was visited
  leaves nothing to improve; when all is visited the two meet in the least areas of
  one cell more (`RoundIsExact`).
- `RoundsAreBounded`: round r can only improve keys of at least r (`RoundsSettle`), by
  induction on the rounds; a cell of key 0 can only make its own key dearer.
- `LimitLosesNoChain`: with cells of at least m keys, round r can only improve keys of
  at least r * m. If the limit of rounds times m exceeds the largest key, the rounds
  end because nothing changed and the table is the reference table. This covers the
  recorded libraries: the fastest cell takes 21 keys (`FF_DELAY 0.0021`), the slowest
  0.108, so the largest key is 1280 (`main.cpp:96-101`) and 64 * 21 = 1344. A library
  whose fastest cell took 0.0020 would no longer be covered.

**`PdParserProofs`**: any names, cells, values and lines, files of any length.

- `TypeCorrect`: `NodesInv` ties indices to what has been read.
- `ParentsAreNearest`. The stack alone does not say that what was popped cannot be
  a parent again. `StackInv`: the stack stands for an increasing choice of nodes,
  and every other node has a later one of them that is no deeper and hides it.
- `HoldDelaysAreOfTheirPairs`: `ReportInv` follows the rows read so far; a row of
  the same ends replaces the delay of the first path and of no other.
- `WriterGivesBack`, for any levels and any number of Root lines. The print is defined
  by recursion over the tree; `Tree` says that children come after their parent, so
  there is one function that satisfies the definition (`LinesUnique`), and it has not
  to be computed to be reasoned about. `WriterInv`: from its last 0 on, the stack is
  a branch of the tree of which each node is the last child of the one before
  (`Rightmost`). A new node goes below a node of that branch, and then the lines of
  exactly the nodes from 0 down to its parent grow, each by its line at the end
  (`LinesGrow`, with the lemmas on `FlattenSeq`); so the file grows by one line for
  every line that says something of the tree, and by none for a Root line after the
  first, which is on no branch.

**Only model-checked.** The liveness properties `Terminates` and `Exits`, which are out
of the prover's reach. Every other property of a passing run is stated by a theorem.
That the six violated properties fail is shown by their runs.

## 5. Not modelled

- GLPK, which is most of the lines of the repository, is vendored, not linked into
  `sa_solver` and not called by it.
- The earlier solvers `sa_solve.cpp` and `sa_vds.cpp`: not linked.
- The union-find of `sa_build_path_index` and `sa_branch_weights`: the solver does
  not read what they compute.
- The LP input dump, string helpers, the layout of reports and console, the table
  test and the timed script, the recorded cases and results.
- Six hazards in `PROJECT.json` have no property, each with its reason: option
  lists that begin with 0 (`sa_eval.cpp:281`), delays the tables do not reach and
  what they are priced at (`sa_eval.cpp:33`), the cells of a chain that are not
  written (`sa_apply.cpp:24`), a directory with files of two runs (`main.cpp:269`),
  paths with an unknown end (`sa_eval.cpp:217`) and delay rows of different lengths
  (`pd_parser.c:123`). `Realisable` excludes the first three: no tree has such delays,
  so there is no report to compare with.

`SaEval` and `LpScore` are therefore listed as partly modelled.

## 6. Plan

1. The figures of the search within the types of `LpScore` for every design, so that
   `EvalAssumption` and `EvaluationAssumption` follow from the design.
2. The LP phase's postcondition in place of `Vectors` in `SaMain`.
3. Designs with unknown path ends and with rows of different lengths.
4. The union-find of `sa_build_path_index` against the transitive closure.
