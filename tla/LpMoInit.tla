------------------------------ MODULE LpMoInit ------------------------------
(***************************************************************************)
(* lp_solve_mo_init of src/src/lp_mo_init.cpp: a projected gradient from   *)
(* the design's own delays that goes on until its time is over and hands   *)
(* back the best vectors it has met.                                       *)
(*                                                                         *)
(* The wall clock runs beside the loop, so the deadline can pass between   *)
(* any two steps and before the second reading of the clock.               *)
(*                                                                         *)
(* An operator named Mut... is the definition that follows it with a       *)
(* plausible mistake; no specification uses it.                            *)
(***************************************************************************)
EXTENDS Integers, FiniteSets

CONSTANTS
  Problem,           \* the designs that may be given
  Branch, Path,
  Delay,             \* the delays within any bounds
  Start(_),          \* init_from_design
  Lower(_), Upper(_),\* d_ss_min, d_ff_min; d_ss_max, d_ff_max
  Evaluate(_, _),    \* eval_solution
  Correction(_, _),  \* -step times the gradient
  TimeLimit,         \* time_limit_sec, in clock ticks
  MaxIterations      \* bound: iterations the machine can make in TimeLimit

Corner == {"ss", "ff"}

\* The decision vectors d_ss and d_ff.
Vectors == [ss : [Branch -> Int], ff : [Branch -> Int]]

\* The part of LpPgCtx the loop reads.
Context == [slack : [ss : [Path -> Int], ff : [Path -> Int]],
            wns : [ss : Int, ff : Int],
            obj : Int]

\* Vectors of grid points, and those within the bounds of a problem.
OnGrid == [ss : [Branch -> Delay], ff : [Branch -> Delay]]

InBox(pb, v) ==
  /\ v \in OnGrid
  /\ \A corner \in Corner : \A b \in Branch :
       v[corner][b] \in Lower(pb)[corner][b] .. Upper(pb)[corner][b]

\* lp_cell_delay_bounds: the least delay of the library is at most the
\* greatest.
ASSUME BoundsAssumption ==
  \A pb \in Problem :
    /\ Start(pb) \in Vectors
    /\ Lower(pb) \in Vectors /\ Upper(pb) \in Vectors
    /\ \A corner \in Corner : \A b \in Branch :
         /\ Lower(pb)[corner][b] <= Upper(pb)[corner][b]
         /\ Lower(pb)[corner][b] .. Upper(pb)[corner][b] \subseteq Delay

ASSUME EvaluationAssumption ==
  \A pb \in Problem : \A v \in OnGrid :
    /\ Evaluate(pb, v) \in Context
    /\ Correction(pb, Evaluate(pb, v)) \in Vectors

ASSUME TimeAssumption == TimeLimit \in Nat /\ MaxIterations \in Nat

VARIABLES
  problem,          \* the design and its LpProblem
  pc,               \* "loop", "return", "done"
  now,              \* elapsed_sec(t0)
  iterations,
  cur, ctx, best, best_obj,   \* cur stands for d_ss and d_ff
  sol               \* what the caller receives

search == <<cur, ctx, best, best_obj>>
vars == <<problem, pc, now, iterations, search, sol>>

NoSolution == <<>>

-----------------------------------------------------------------------------

Clamp(x, lo, hi) == IF x < lo THEN lo ELSE IF x > hi THEN hi ELSE x

MutProjectOneCorner(v) ==
  [ss |-> [b \in Branch |-> Clamp(v.ss[b], Lower(problem).ss[b], Upper(problem).ss[b])],
   ff |-> [b \in Branch |-> Clamp(v.ff[b], Lower(problem).ss[b], Upper(problem).ss[b])]]

\* project_bounds.
Project(v) ==
  [ss |-> [b \in Branch |-> Clamp(v.ss[b], Lower(problem).ss[b], Upper(problem).ss[b])],
   ff |-> [b \in Branch |-> Clamp(v.ff[b], Lower(problem).ff[b], Upper(problem).ff[b])]]

Descend(v, step) ==
  [ss |-> [b \in Branch |-> v.ss[b] + step.ss[b]],
   ff |-> [b \in Branch |-> v.ff[b] + step.ff[b]]]

Init ==
  /\ problem \in Problem
  /\ pc = "loop"
  /\ now = 0
  /\ iterations = 0
  /\ cur = Project(Start(problem))
  /\ ctx = Evaluate(problem, cur)
  /\ best = cur
  /\ best_obj = ctx.obj
  /\ sol = NoSolution

\* The wall clock; it needs to be followed no further than the deadline.
Tick ==
  /\ pc # "done"
  /\ now < TimeLimit
  /\ now' = now + 1
  /\ UNCHANGED <<problem, pc, iterations, search, sol>>

MutKeepValueOnly ==
  IF ctx'.obj < best_obj THEN best' = cur /\ best_obj' = ctx'.obj
                         ELSE UNCHANGED <<best, best_obj>>

\* Lines 271-275.
KeepBest ==
  IF ctx'.obj < best_obj THEN best' = cur' /\ best_obj' = ctx'.obj
                         ELSE UNCHANGED <<best, best_obj>>

\* One turn of the loop.
Iterate ==
  /\ pc = "loop"
  /\ now < TimeLimit
  /\ iterations < MaxIterations
  /\ iterations' = iterations + 1
  /\ cur' = Project(Descend(cur, Correction(problem, ctx)))
  /\ ctx' = Evaluate(problem, cur')
  /\ KeepBest
  /\ UNCHANGED <<problem, pc, now, sol>>

Deadline ==
  /\ pc = "loop"
  /\ now >= TimeLimit
  /\ pc' = "return"
  /\ UNCHANGED <<problem, now, iterations, search, sol>>

\* The second reading of the clock and the result.
Return ==
  /\ pc = "return"
  /\ sol' = [vectors |-> best, status |-> IF now >= TimeLimit THEN 1 ELSE 0]
  /\ pc' = "done"
  /\ UNCHANGED <<problem, now, iterations, search>>

Step == Iterate \/ Deadline \/ Return

Terminated == pc = "done" /\ UNCHANGED vars

Next == Tick \/ Step \/ Terminated

Spec == Init /\ [][Next]_vars

-----------------------------------------------------------------------------
(* Properties.                                                             *)

\* Every variable has its type; the vectors, present and best, stay within
\* the bounds of their branches.
TypeOK ==
  /\ problem \in Problem
  /\ pc \in {"loop", "return", "done"}
  /\ now \in 0 .. TimeLimit
  /\ iterations \in 0 .. MaxIterations
  /\ InBox(problem, cur) /\ InBox(problem, best)
  /\ ctx \in Context /\ best_obj \in Int
  /\ sol # NoSolution =>
       sol \in [vectors : OnGrid, status : {0, 1}] /\ InBox(problem, sol.vectors)

\* A solution of the abstract optimiser is a problem with its vectors.
Merit(objective, s) == -Evaluate(s[1], s[2]).obj

Promise == INSTANCE BestSoFar WITH
  Solution <- Problem \X OnGrid,
  Objective <- {"lp"},
  Value <- Merit,
  objective <- "lp",
  current <- <<problem, cur>>,
  kept <- <<problem, best>>,
  bar <- -best_obj,
  result <- IF sol = NoSolution THEN <<>> ELSE <<problem, sol.vectors>>

\* The phase keeps what its name promises: whatever the gradient does and
\* whenever the deadline falls, the vectors handed over are the best met.
HandsBackTheBest == Promise!Spec

OnlyViolation(corner, p) ==
  /\ ctx.slack[corner][p] < 0
  /\ \A q \in Path \ {p} : ctx.slack[corner][q] >= 0

\* A step never makes the only setup violation worse, on branches that both
\* ends share and at the bounds too.
SetupStepRepairs ==
  [][\A p \in Path : OnlyViolation("ss", p) => ctx'.slack.ss[p] >= ctx.slack.ss[p]]_vars

\* lp_mo_init.hpp: the gradient minimises the violations of both corners.  A
\* step never makes the only hold violation worse.
HoldStepRepairs ==
  [][\A p \in Path : OnlyViolation("ff", p) => ctx'.slack.ff[p] >= ctx.slack.ff[p]]_vars
=============================================================================
