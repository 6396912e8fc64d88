---------------------------- MODULE SaPathSolve ----------------------------
(***************************************************************************)
(* The path-heap simulated annealing of src/src/sa_path_solve.cpp, the     *)
(* optimisation core of sa_solver.                                         *)
(*                                                                         *)
(* One iteration of the loop is two steps: the loop head (deadline test,   *)
(* counters, phase switch, re-evaluation) and the rest of the body (choice *)
(* of a violating path, move, acceptance, bookkeeping).  The wall clock    *)
(* runs beside them, so the deadline can pass between any two steps and    *)
(* before the second clock reading after the loop.                         *)
(*                                                                         *)
(* Delays are points of a grid coarser than the code's tolerances (1e-9 for*)
(* delays, 1e-12 for objectives), so that its tolerant comparisons are the *)
(* exact ones.  The random number generator and the temperature become     *)
(* nondeterministic choices.                                               *)
(*                                                                         *)
(* An operator named Mut... is the definition that follows it with a       *)
(* plausible mistake; no specification uses it.                            *)
(***************************************************************************)
EXTENDS Integers, Sequences, FiniteSets, Functions

CONSTANTS
  Branch,              \* clock-tree edges
  Path,                \* timing paths, numbered as in pb->path_ids
  Delay,               \* the delays a branch can be given
  OptSS, OptFF,        \* opts[b].ss_delays and ff_delays, one list per branch
  Launch, Capture,     \* the branches between the root and a path's two FFs
  EvalState(_),        \* sa_eval_state: slacks, setup TNS and score
  InitAssignments,     \* what sa_path_solve may be started from
  NoImproveLimit, BranchNoImproveLimit,
  TopPathPoolInit, TopPathPoolGrowEvery, TopPathPoolGrowStep,
  SetupTnsOnlyIters,
  TimeLimit,           \* sa_time_sec, in clock ticks
  MaxIterations        \* bound: iterations the machine can make in TimeLimit

VARIABLES
  pc,                  \* "head", "body", "return", "done", "undefined"
  now,                 \* elapsed_sec(sa_t0)
  iterations, cur, ctx, best, best_tns_ss, best_score,
  no_improve_iters, stalled, top_pool_size, branch_stall,
  out                  \* what the caller receives

search == <<cur, ctx, best, best_tns_ss, best_score>>
counters == <<iterations, no_improve_iters, stalled, top_pool_size, branch_stall>>
vars == <<pc, now, search, counters, out>>

-----------------------------------------------------------------------------
(* Parameters and types.                                                   *)

\* The decision vectors d_ss and d_ff.
Assignment == [ss : [Branch -> Delay], ff : [Branch -> Delay]]

\* The part of SaPgCtx the search reads.
Context == [slack_ss : [Path -> Int], slack_ff : [Path -> Int],
            tns_ss : Int, score : Int]

Result == [solution : Assignment, timed_out : BOOLEAN, status : {0, 2},
           solver_name : {"path_heap_sa(stall)", "path_heap_sa(timed_out)",
                          "path_heap_sa"}]

NoResult == <<>>

ASSUME GraphAssumption ==
  /\ IsFiniteSet(Branch)
  /\ IsFiniteSet(Path) /\ Path \subseteq Int
  /\ Launch \in [Path -> SUBSET Branch]
  /\ Capture \in [Path -> SUBSET Branch]

ASSUME DelayAssumption ==
  /\ Delay \subseteq Nat
  /\ OptSS \in [Branch -> Seq(Delay)]
  /\ OptFF \in [Branch -> Seq(Delay)]
  /\ InitAssignments \subseteq Assignment

ASSUME EvalAssumption == \A a \in Assignment : EvalState(a) \in Context

ASSUME ConfigAssumption ==
  /\ NoImproveLimit \in Nat \ {0}
  /\ BranchNoImproveLimit \in Nat \ {0}
  /\ TopPathPoolInit \in Nat \ {0}
  /\ TopPathPoolGrowEvery \in Nat \ {0}
  /\ TopPathPoolGrowStep \in Nat
  /\ SetupTnsOnlyIters \in Nat
  /\ TimeLimit \in Nat
  /\ MaxIterations \in Nat

-----------------------------------------------------------------------------
(* Option lists: the neighbour of a delay.  When no option lies beyond     *)
(* the delay the code takes the extreme of the list and the delay itself,  *)
(* which is the delay itself.                                              *)

NextHigher(d, opts) ==
  LET above == {x \in Range(opts) : x > d}
  IN  IF above = {} THEN d ELSE CHOOSE x \in above : \A y \in above : x <= y

NextLower(d, opts) ==
  LET below == {x \in Range(opts) : x < d}
  IN  IF below = {} THEN d ELSE CHOOSE x \in below : \A y \in below : x >= y

RaiseSS(b) == [cur EXCEPT !.ss[b] = NextHigher(@, OptSS[b])]
LowerSS(b) == [cur EXCEPT !.ss[b] = NextLower(@, OptSS[b])]
RaiseFF(b) == [cur EXCEPT !.ff[b] = NextHigher(@, OptFF[b])]
LowerFF(b) == [cur EXCEPT !.ff[b] = NextLower(@, OptFF[b])]

-----------------------------------------------------------------------------
(* Paths: violation, weight, pool.                                         *)

SetupOnly == iterations <= SetupTnsOnlyIters

FixSetup(p) == ctx.slack_ss[p] < 0
FixHold(p) == ctx.slack_ff[p] < 0

Violating ==
  {p \in Path : IF SetupOnly THEN FixSetup(p) ELSE FixSetup(p) \/ FixHold(p)}

\* sa_path_setup_violation_weight and sa_path_violation_weight.
Weight(p) ==
  LET neg(slack) == IF slack < 0 THEN -slack ELSE 0
  IN  neg(ctx.slack_ss[p]) + (IF SetupOnly THEN 0 ELSE neg(ctx.slack_ff[p]))

MutHeavierOnly(q, p) == Weight(q) > Weight(p)

\* The sort order: heavier first, then the smaller index.
Before(q, p) == Weight(q) > Weight(p) \/ (Weight(q) = Weight(p) /\ q < p)

\* The first top_pool_size violating paths in that order.
Pool == {p \in Violating :
           Cardinality({q \in Violating : Before(q, p)}) < top_pool_size}

-----------------------------------------------------------------------------
(* apply_path_move: which branch, which move.                              *)

\* branch_path_count, of sa_build_path_index.
BranchPathCount(b) == Cardinality({p \in Path : b \in Launch[p] \cup Capture[p]})

CandidateBranches(p) == IF FixSetup(p) \/ SetupOnly THEN Capture[p] ELSE Launch[p]

MutNeverBlacklisted(p) == CandidateBranches(p)

Eligible(p) == {b \in CandidateBranches(p) : branch_stall[b] < BranchNoImproveLimit}

\* min_impact starts at branch_path_count.size() + 1, not above every count:
\* a branch on more paths than that never attains the minimum.
MinBranches(p) ==
  {b \in Eligible(p) :
     /\ BranchPathCount(b) <= Cardinality(Branch) + 1
     /\ \A c \in Eligible(p) : BranchPathCount(b) <= BranchPathCount(c)}

MutMoveWrongCorner(p, b) ==
  IF FixSetup(p) \/ SetupOnly THEN {RaiseSS(b), LowerSS(b)} ELSE {RaiseFF(b)}

\* The vectors the move on branch b may produce: an empty set is "return false".
Moves(p, b) ==
  IF (FixSetup(p) \/ SetupOnly) /\ Len(OptSS[b]) > 1
    THEN {RaiseSS(b), LowerFF(b)}
  ELSE IF ~SetupOnly /\ FixHold(p) /\ Len(OptFF[b]) > 1
    THEN {RaiseFF(b), LowerSS(b)}
  ELSE IF ~SetupOnly /\ Len(OptSS[b]) > 1
    THEN {RaiseSS(b)}
  ELSE IF ~SetupOnly /\ Len(OptFF[b]) > 1
    THEN {RaiseFF(b)}
  ELSE {}

-----------------------------------------------------------------------------
(* The search.                                                             *)

Init ==
  /\ pc = "head"
  /\ now = 0
  /\ iterations = 0
  /\ cur \in InitAssignments
  /\ ctx = EvalState(cur)
  /\ best = cur
  /\ best_tns_ss = ctx.tns_ss
  /\ best_score = ctx.score
  /\ no_improve_iters = 0
  /\ stalled = FALSE
  /\ top_pool_size = TopPathPoolInit
  /\ branch_stall = [b \in Branch |-> 0]
  /\ out = NoResult

\* The wall clock; it needs to be followed no further than the deadline.
Tick ==
  /\ pc \notin {"done", "undefined"}
  /\ now < TimeLimit
  /\ now' = now + 1
  /\ UNCHANGED <<pc, search, counters, out>>

\* Iteration i enters the score phase: a new window, a new value to beat.
\* The incumbent vectors stay those of the setup phase.
MutSwitchKeepsWindow(i) ==
  /\ no_improve_iters' = no_improve_iters
  /\ best_score' = IF i = SetupTnsOnlyIters + 1 THEN ctx.score ELSE best_score

MutSwitchKeepsScore(i) ==
  /\ no_improve_iters' = IF i = SetupTnsOnlyIters + 1 THEN 0 ELSE no_improve_iters
  /\ best_score' = best_score

SwitchPhase(i) ==
  IF i = SetupTnsOnlyIters + 1
    THEN no_improve_iters' = 0 /\ best_score' = ctx.score
    ELSE UNCHANGED <<no_improve_iters, best_score>>

MutGrowAtOnce(i) ==
  top_pool_size' = IF (i - 1) % TopPathPoolGrowEvery = 0
                     THEN top_pool_size + TopPathPoolGrowStep
                     ELSE top_pool_size

GrowPool(i) ==
  top_pool_size' = IF i > 1 /\ (i - 1) % TopPathPoolGrowEvery = 0
                     THEN top_pool_size + TopPathPoolGrowStep
                     ELSE top_pool_size

\* The top of an iteration, up to and including the re-evaluation.
LoopHead ==
  /\ pc = "head"
  /\ now < TimeLimit
  /\ iterations < MaxIterations
  /\ iterations' = iterations + 1
  /\ SwitchPhase(iterations + 1)
  /\ GrowPool(iterations + 1)
  /\ ctx' = EvalState(cur)
  /\ pc' = "body"
  /\ UNCHANGED <<now, cur, best, best_tns_ss, stalled, branch_stall, out>>

Deadline ==
  /\ pc = "head"
  /\ now >= TimeLimit
  /\ pc' = "return"
  /\ UNCHANGED <<now, search, counters, out>>

\* Nothing to repair: the setup phase goes on, the score phase ends the search.
MutEndInSetupPhase ==
  /\ pc = "body"
  /\ Violating = {}
  /\ pc' = "return"
  /\ UNCHANGED <<now, search, counters, out>>

NoViolation ==
  /\ pc = "body"
  /\ Violating = {}
  /\ pc' = IF SetupOnly THEN "head" ELSE "return"
  /\ UNCHANGED <<now, search, counters, out>>

MutFailedMoveCounts ==
  /\ pc = "body"
  /\ \E p \in Pool :
       \/ Eligible(p) = {}
       \/ \E b \in MinBranches(p) : Moves(p, b) = {}
  /\ no_improve_iters' = no_improve_iters + 1
  /\ stalled' = (no_improve_iters' >= NoImproveLimit)
  /\ pc' = IF stalled' THEN "return" ELSE "head"
  /\ UNCHANGED <<now, search, iterations, top_pool_size, branch_stall, out>>

MutRetryInPlace ==
  /\ pc = "body"
  /\ \E p \in Pool :
       \/ Eligible(p) = {}
       \/ \E b \in MinBranches(p) : Moves(p, b) = {}
  /\ UNCHANGED vars

\* apply_path_move returns false; the iteration is not counted as one
\* without improvement.
MoveFails ==
  /\ pc = "body"
  /\ \E p \in Pool :
       \/ Eligible(p) = {}
       \/ \E b \in MinBranches(p) : Moves(p, b) = {}
  /\ pc' = "head"
  /\ UNCHANGED <<now, search, counters, out>>

\* Every eligible branch lies on more than n_br + 1 paths: min_branches is
\* empty, the index is drawn from (0, -1) and the access is out of bounds.
\* The draw is a random 32-bit offset; the model ends where anything may follow.
PickFromEmpty ==
  /\ pc = "body"
  /\ \E p \in Pool : Eligible(p) # {} /\ MinBranches(p) = {}
  /\ pc' = "undefined"
  /\ UNCHANGED <<now, search, counters, out>>

\* Metropolis: a worse trial may be accepted, any other always is
\* (exp(0) = 1 exceeds every draw).
MayDecide(accept, trial) ==
  LET delta == IF SetupOnly THEN trial.tns_ss - ctx.tns_ss
                            ELSE trial.score - ctx.score
  IN  delta >= 0 => accept

MutImprovesOnCurrent(trial) ==
  IF SetupOnly THEN trial.tns_ss > ctx.tns_ss ELSE trial.score > best_score

Improves(trial) ==
  IF SetupOnly THEN trial.tns_ss > best_tns_ss ELSE trial.score > best_score

\* Lines 288-303: the branch counter, the run counter and the stall exit.
MutStallOneLate(b, improved) ==
  /\ branch_stall' = [branch_stall EXCEPT ![b] = IF improved THEN 0 ELSE @ + 1]
  /\ no_improve_iters' = IF improved THEN 0 ELSE no_improve_iters + 1
  /\ stalled' = (~improved /\ no_improve_iters' > NoImproveLimit)
  /\ pc' = IF stalled' THEN "return" ELSE "head"

CountMove(b, improved) ==
  /\ branch_stall' = [branch_stall EXCEPT ![b] = IF improved THEN 0 ELSE @ + 1]
  /\ no_improve_iters' = IF improved THEN 0 ELSE no_improve_iters + 1
  /\ stalled' = (~improved /\ no_improve_iters' >= NoImproveLimit)
  /\ pc' = IF stalled' THEN "return" ELSE "head"

MutStaleContext(trial) ==
  /\ cur' = trial
  /\ ctx' = ctx
  /\ UNCHANGED <<best, best_score, best_tns_ss>>

MutSetupForgetsScore(trial) ==
  /\ cur' = trial
  /\ ctx' = EvalState(trial)
  /\ IF Improves(ctx')
       THEN /\ best' = trial
            /\ best_score' = IF SetupOnly THEN best_score ELSE ctx'.score
            /\ best_tns_ss' = IF SetupOnly THEN ctx'.tns_ss ELSE best_tns_ss
       ELSE UNCHANGED <<best, best_score, best_tns_ss>>

AcceptMove(trial) ==
  /\ cur' = trial
  /\ ctx' = EvalState(trial)
  /\ IF Improves(ctx')
       THEN /\ best' = trial
            /\ best_score' = ctx'.score
            /\ best_tns_ss' = IF SetupOnly THEN ctx'.tns_ss ELSE best_tns_ss
       ELSE UNCHANGED <<best, best_score, best_tns_ss>>

\* A move on branch b for path p, accepted or not.
Move(p, b) ==
  /\ pc = "body"
  /\ \E trial \in Moves(p, b), accept \in BOOLEAN :
       /\ MayDecide(accept, EvalState(trial))
       /\ CountMove(b, accept /\ Improves(EvalState(trial)))
       /\ IF accept THEN AcceptMove(trial) ELSE UNCHANGED search
  /\ UNCHANGED <<now, iterations, top_pool_size, out>>

\* After the loop: the second clock reading and the result.
Return ==
  /\ pc = "return"
  /\ LET timed_out == now >= TimeLimit IN
     out' = [solution |-> best,
             timed_out |-> timed_out,
             status |-> IF timed_out THEN 2 ELSE 0,
             solver_name |-> IF stalled THEN "path_heap_sa(stall)"
                             ELSE IF timed_out THEN "path_heap_sa(timed_out)"
                             ELSE "path_heap_sa"]
  /\ pc' = "done"
  /\ UNCHANGED <<now, search, counters>>

Step ==
  \/ LoopHead
  \/ Deadline
  \/ NoViolation
  \/ MoveFails
  \/ PickFromEmpty
  \/ \E p \in Pool : \E b \in MinBranches(p) : Move(p, b)
  \/ Return

\* The program has returned, or its behaviour is undefined.
Terminated == pc \in {"done", "undefined"} /\ UNCHANGED vars

Next == Tick \/ Step \/ Terminated

Spec == Init /\ [][Next]_vars

\* The clock advances and the single thread runs.
FairSpec == Spec /\ WF_vars(Tick) /\ WF_vars(Step)

-----------------------------------------------------------------------------
(* Properties.                                                             *)

\* Every variable has its type.
TypeOK ==
  /\ pc \in {"head", "body", "return", "done", "undefined"}
  /\ now \in 0 .. TimeLimit
  /\ iterations \in 0 .. MaxIterations
  /\ cur \in Assignment /\ best \in Assignment
  /\ ctx \in Context
  /\ best_tns_ss \in Int /\ best_score \in Int
  /\ no_improve_iters \in 0 .. NoImproveLimit
  /\ stalled \in BOOLEAN
  /\ top_pool_size \in Nat
  /\ branch_stall \in [Branch -> Nat]
  /\ out \in Result \cup {NoResult}

\* The cached context is the evaluation of the current vectors at every
\* point where the code reads it: old_obj, slacks and the phase switch.
ContextFresh == ctx = EvalState(cur)

\* No accepted solution is ever better than the incumbent value the
\* search compares with, in the phase's own objective.
IncumbentDominates ==
  IF SetupOnly THEN ctx.tns_ss <= best_tns_ss ELSE ctx.score <= best_score

\* During the setup phase the two incumbent values are those of the
\* incumbent vectors.
SetupIncumbentExact ==
  SetupOnly => /\ best_tns_ss = EvalState(best).tns_ss
               /\ best_score = EvalState(best).score

\* While only setup TNS is optimised, the solution that would be returned
\* never loses setup TNS.
SetupBestNeverLost ==
  [][SetupOnly' => EvalState(best').tns_ss >= EvalState(best).tns_ss]_vars

\* Setup repair is one-way: until the switch no SS delay falls and no FF
\* delay rises, rejected and accepted moves alike.
SetupRepairOneWay ==
  [][SetupOnly' => \A b \in Branch : /\ cur'.ss[b] >= cur.ss[b]
                                     /\ cur'.ff[b] <= cur.ff[b]]_vars

\* A branch that has used up its attempts is never moved again, not even
\* after the phase switch: its counter cannot be reset any more.
BlacklistIsPermanent ==
  [][\A b \in Branch : branch_stall[b] >= BranchNoImproveLimit =>
       /\ branch_stall'[b] = branch_stall[b]
       /\ cur'.ss[b] = cur.ss[b]
       /\ cur'.ff[b] = cur.ff[b]]_vars

\* The run of iterations without improvement never reaches back over the
\* phase switch: the score phase gets a window of its own before a stall.
StallWindowWithinPhase ==
  no_improve_iters <= IF SetupOnly THEN iterations ELSE iterations - SetupTnsOnlyIters

\* The pool grows by one step after every full period of iterations,
\* whichever way each of those iterations ended.
PoolFollowsIterations ==
  top_pool_size =
    TopPathPoolInit +
      (IF iterations = 0 THEN 0
       ELSE TopPathPoolGrowStep * ((iterations - 1) \div TopPathPoolGrowEvery))

\* Lines 228-242: the pool is as large as it can be, and no violating path
\* outside it is worse than one inside.  This is the code, not the documents:
\* architect.md:61-63 and plan.txt:11 add as many random violating paths to the
\* worst ten, so that every violating path could be chosen.  Here one beyond
\* the pool cannot be, however long nothing in the pool can be repaired, until
\* the pool has grown up to it.
PoolIsWorst ==
  pc = "body" =>
    /\ Cardinality(Pool) = IF Cardinality(Violating) < top_pool_size
                             THEN Cardinality(Violating) ELSE top_pool_size
    /\ \A p \in Pool, q \in Violating \ Pool : Weight(p) >= Weight(q)

\* Each iteration of the stall window has used up an attempt of some branch:
\* the search can only stall where the branches together have
\* NoImproveLimit attempts to lose.
WindowBackedByAttempts == no_improve_iters <= SumFunction(branch_stall)

\* A result that is neither timed out nor stalled is reported only when the
\* last vectors left no setup and no hold violation.
PlainResultMeansConverged ==
  pc = "done" /\ ~out.timed_out /\ out.solver_name = "path_heap_sa" =>
    \A p \in Path : /\ EvalState(cur).slack_ss[p] >= 0
                    /\ EvalState(cur).slack_ff[p] >= 0

\* The search as an abstract optimiser: it optimises setup TNS first and the
\* score from the switch on.
Merit(objective, a) ==
  IF objective = "setup" THEN EvalState(a).tns_ss ELSE EvalState(a).score

Promise == INSTANCE BestSoFar WITH
  Solution <- Assignment,
  Objective <- {"setup", "score"},
  Value <- Merit,
  objective <- IF SetupOnly THEN "setup" ELSE "score",
  current <- cur,
  kept <- best,
  bar <- IF SetupOnly THEN best_tns_ss ELSE best_score,
  result <- IF out = NoResult THEN <<>> ELSE out.solution

\* Through contexts, caches, rejected moves and counters the search is a
\* best-so-far search: the objective changes at a moment, the value to beat is
\* then that of the present vectors, every solution that beats it is kept, and
\* what is handed back is the one kept last.
HandsBackTheBest == Promise!Spec

\* Each move picks a branch on the path (architect.md): the program never
\* indexes an empty set of candidates.
MoveHasABranch == pc # "undefined"

\* The search ends, even when no move can be made any more.
Terminates == <>(pc \in {"done", "undefined"})
=============================================================================
