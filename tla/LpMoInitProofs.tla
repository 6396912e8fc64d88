--------------------------- MODULE LpMoInitProofs ---------------------------
(***************************************************************************)
(* Theorems about the LP phase, for every design, library, gradient and    *)
(* time limit: its vectors never leave their bounds, and it is an          *)
(* optimiser in the sense of BestSoFar.  The last part, which alone uses   *)
(* the assumptions of LpDescent, is about the gradient itself: its steps   *)
(* work against a setup violation.                                         *)
(***************************************************************************)
EXTENDS LpDescent, SumFacts

-----------------------------------------------------------------------------
(* Bounds.                                                                 *)

\* Clamping lands within bounds that are in order.
LEMMA ClampInBounds ==
  ASSUME NEW x \in Int, NEW lo \in Int, NEW hi \in Int, lo <= hi
  PROVE  Clamp(x, lo, hi) \in lo .. hi
BY DEF Clamp

\* project_bounds puts any vectors into the box, whatever they were.
LEMMA ProjectInBox ==
  ASSUME problem \in Problem, NEW v \in Vectors
  PROVE  InBox(problem, Project(v))
<1> DEFINE w == Project(v)
<1>1. \A b \in Branch : /\ w.ss[b] \in Lower(problem).ss[b] .. Upper(problem).ss[b]
                        /\ w.ss[b] \in Delay
  <2> SUFFICES ASSUME NEW b \in Branch
               PROVE  /\ w.ss[b] \in Lower(problem).ss[b] .. Upper(problem).ss[b]
                      /\ w.ss[b] \in Delay
    OBVIOUS
  <2>1. /\ Lower(problem).ss[b] \in Int /\ Upper(problem).ss[b] \in Int /\ v.ss[b] \in Int
        /\ Lower(problem)["ss"][b] <= Upper(problem)["ss"][b]
        /\ Lower(problem)["ss"][b] .. Upper(problem)["ss"][b] \subseteq Delay
    BY BoundsAssumption DEF Vectors, Corner
  <2>2. w.ss[b] = Clamp(v.ss[b], Lower(problem).ss[b], Upper(problem).ss[b])
    BY DEF Project
  <2>3. QED
    BY <2>1, <2>2, ClampInBounds
<1>2. \A b \in Branch : /\ w.ff[b] \in Lower(problem).ff[b] .. Upper(problem).ff[b]
                        /\ w.ff[b] \in Delay
  <2> SUFFICES ASSUME NEW b \in Branch
               PROVE  /\ w.ff[b] \in Lower(problem).ff[b] .. Upper(problem).ff[b]
                      /\ w.ff[b] \in Delay
    OBVIOUS
  <2>1. /\ Lower(problem).ff[b] \in Int /\ Upper(problem).ff[b] \in Int /\ v.ff[b] \in Int
        /\ Lower(problem)["ff"][b] <= Upper(problem)["ff"][b]
        /\ Lower(problem)["ff"][b] .. Upper(problem)["ff"][b] \subseteq Delay
    BY BoundsAssumption DEF Vectors, Corner
  <2>2. w.ff[b] = Clamp(v.ff[b], Lower(problem).ff[b], Upper(problem).ff[b])
    BY DEF Project
  <2>3. QED
    BY <2>1, <2>2, ClampInBounds
<1>3. w \in OnGrid
  BY <1>1, <1>2 DEF Project, OnGrid
<1>4. QED
  BY <1>1, <1>2, <1>3 DEF InBox, Corner

\* A step of the gradient from vectors in the box gives vectors.
LEMMA DescendGivesVectors ==
  ASSUME NEW v \in Vectors, NEW step \in Vectors
  PROVE  Descend(v, step) \in Vectors
BY DEF Descend, Vectors

-----------------------------------------------------------------------------
(* The inductive invariant: the context belongs to the present vectors,    *)
(* the value to beat to the kept ones, and the loop is over when there is  *)
(* a solution.                                                             *)

ContextCurrent == ctx = Evaluate(problem, cur)

BestExact == best_obj = Evaluate(problem, best).obj

SolutionOnlyAtEnd == (sol # NoSolution) => (pc = "done")

Inv == TypeOK /\ ContextCurrent /\ BestExact /\ SolutionOnlyAtEnd

\* Delays are naturals or not, a vector on the grid is one of integers.
LEMMA InBoxIsVectors ==
  ASSUME NEW pb \in Problem, NEW v, InBox(pb, v)
  PROVE  v \in Vectors
<1>1. \A b \in Branch : v.ss[b] \in Int /\ v.ff[b] \in Int
  BY DEF InBox, Corner
<1>2. QED
  BY <1>1 DEF InBox, OnGrid, Vectors

\* The evaluation of vectors in the box.
LEMMA EvaluateInBox ==
  ASSUME NEW pb \in Problem, NEW v, InBox(pb, v)
  PROVE  /\ Evaluate(pb, v) \in Context
         /\ Evaluate(pb, v).obj \in Int
         /\ Correction(pb, Evaluate(pb, v)) \in Vectors
<1>1. v \in OnGrid
  BY DEF InBox
<1>2. QED
  BY <1>1, EvaluationAssumption DEF Context

\* The projected start is within the bounds.
LEMMA InitInv == Init => Inv
<1> SUFFICES ASSUME Init PROVE Inv
  OBVIOUS
<1>1. problem \in Problem /\ Start(problem) \in Vectors
  BY BoundsAssumption DEF Init
<1>2. InBox(problem, cur)
  BY <1>1, ProjectInBox DEF Init
<1>3. QED
  BY <1>1, <1>2, EvaluateInBox, TimeAssumption
  DEF Init, Inv, TypeOK, ContextCurrent, BestExact, SolutionOnlyAtEnd, NoSolution

\* A turn of the loop keeps the bounds and the best.
LEMMA IterateInv ==
  ASSUME Inv, Iterate
  PROVE  /\ InBox(problem, cur') /\ InBox(problem, best')
         /\ problem' = problem /\ problem \in Problem
         /\ Inv'
<1>1. problem \in Problem /\ InBox(problem, cur) /\ InBox(problem, best)
  BY DEF Inv, TypeOK
<1>2. Correction(problem, ctx) \in Vectors
  BY <1>1, EvaluateInBox DEF Inv, ContextCurrent
<1>3. Descend(cur, Correction(problem, ctx)) \in Vectors
  BY <1>1, <1>2, InBoxIsVectors, DescendGivesVectors
<1>4. InBox(problem, cur')
  BY <1>1, <1>3, ProjectInBox DEF Iterate
<1>5. /\ ctx' = Evaluate(problem, cur')
      /\ ctx' \in Context /\ ctx'.obj \in Int
  BY <1>1, <1>4, EvaluateInBox DEF Iterate
<1>6. /\ InBox(problem, best')
      /\ best_obj' = Evaluate(problem, best').obj
      /\ best_obj' \in Int
  BY <1>1, <1>4, <1>5 DEF Iterate, KeepBest, Inv, TypeOK, BestExact
<1>7. problem' = problem /\ pc' = pc /\ now' = now /\ sol' = sol
  BY DEF Iterate
<1>8. iterations' \in 0 .. MaxIterations
  BY TimeAssumption DEF Iterate, Inv, TypeOK
<1>9. InBox(problem', cur') /\ InBox(problem', best')
  BY <1>4, <1>6, <1>7
<1>10. TypeOK'
  <2>1. sol' # NoSolution =>
          sol' \in [vectors : OnGrid, status : {0, 1}] /\ InBox(problem, sol'.vectors)
    BY <1>7 DEF Inv, TypeOK
  <2>2. QED
    BY <1>1, <1>5, <1>6, <1>7, <1>8, <1>9, <2>1 DEF Inv, TypeOK
<1>11. QED
  BY <1>1, <1>4, <1>5, <1>6, <1>7, <1>10
  DEF Inv, ContextCurrent, BestExact, SolutionOnlyAtEnd

\* So does every step.
LEMMA NextInv == Inv /\ [Next]_vars => Inv'
<1> SUFFICES ASSUME Inv, [Next]_vars PROVE Inv'
  OBVIOUS
<1> USE DEF Inv
<1>1. CASE Tick
  BY <1>1, TimeAssumption
  DEF Tick, search, TypeOK, InBox, OnGrid, ContextCurrent, BestExact, SolutionOnlyAtEnd, NoSolution
<1>2. CASE Iterate
  BY <1>2, IterateInv
<1>3. CASE Deadline
  BY <1>3
  DEF Deadline, search, TypeOK, InBox, OnGrid, ContextCurrent, BestExact, SolutionOnlyAtEnd, NoSolution
<1>4. CASE Return
  <2>1. sol' \in [vectors : OnGrid, status : {0, 1}] /\ sol'.vectors = best
    BY <1>4 DEF Return, TypeOK, InBox
  <2>2. QED
    BY <1>4, <2>1
    DEF Return, search, TypeOK, InBox, OnGrid, ContextCurrent, BestExact, SolutionOnlyAtEnd
<1>5. CASE UNCHANGED vars
  BY <1>5
  DEF vars, search, TypeOK, InBox, OnGrid, ContextCurrent, BestExact, SolutionOnlyAtEnd, NoSolution
<1>6. QED
  BY <1>1, <1>2, <1>3, <1>4, <1>5 DEF Next, Step, Terminated

\* Every variable keeps its type, and neither the present nor the best
\* vectors ever leave the bounds of their branches.
THEOREM TypeCorrect == Spec => []TypeOK
<1>1. Inv => TypeOK
  BY DEF Inv
<1>2. QED
  BY InitInv, NextInv, <1>1, PTL DEF Spec

-----------------------------------------------------------------------------
(* Refinement of BestSoFar.                                                *)

\* The pair of a problem and vectors in its box is a solution, worth the
\* opposite of its objective.
LEMMA SolutionWorth ==
  ASSUME NEW pb \in Problem, NEW v, InBox(pb, v)
  PROVE  /\ <<pb, v>> \in Problem \X OnGrid
         /\ \A o : Merit(o, <<pb, v>>) = -Evaluate(pb, v).obj
BY DEF InBox, Merit

\* The start of the LP phase is a start of BestSoFar.
LEMMA PromiseInit == Init => Promise!Init
<1> SUFFICES ASSUME Init PROVE Promise!Init
  OBVIOUS
<1>1. problem \in Problem /\ InBox(problem, cur) /\ best_obj = Evaluate(problem, cur).obj
  BY InitInv DEF Init, Inv, TypeOK
<1>2. QED
  BY <1>1, SolutionWorth DEF Init, Promise!Init, Promise!NotYet, NoSolution

\* Every step of the LP phase is one of BestSoFar or leaves it alone.
LEMMA PromiseNext == Inv /\ [Next]_vars => [Promise!Next]_(Promise!vars)
<1> SUFFICES ASSUME Inv, [Next]_vars PROVE [Promise!Next]_(Promise!vars)
  OBVIOUS
<1>1. CASE Iterate
  <2>1. /\ problem' = problem /\ problem \in Problem /\ InBox(problem, cur')
        /\ sol' = sol /\ sol = NoSolution
    BY <1>1, IterateInv DEF Iterate, Inv, SolutionOnlyAtEnd
  <2>2. /\ ctx' = Evaluate(problem, cur')
        /\ ctx'.obj \in Int /\ best_obj \in Int
    BY <1>1, <2>1, EvaluateInBox DEF Iterate, Inv, TypeOK
  <2>3. /\ <<problem, cur'>> \in Problem \X OnGrid
        /\ Merit("lp", <<problem, cur'>>) = -ctx'.obj
    BY <2>1, <2>2, SolutionWorth
  <2>4. CASE ctx'.obj < best_obj
    <3>1. best' = cur' /\ best_obj' = ctx'.obj
      BY <1>1, <2>4 DEF Iterate, KeepBest
    <3>2. -ctx'.obj > -best_obj
      BY <2>2, <2>4
    <3>3. Promise!Keep
      BY <2>1, <2>3, <3>1, <3>2 DEF Promise!Keep, Promise!NotYet
    <3>4. QED
      BY <3>3 DEF Promise!Next
  <2>5. CASE ~(ctx'.obj < best_obj)
    <3>1. best' = best /\ best_obj' = best_obj
      BY <1>1, <2>5 DEF Iterate, KeepBest
    <3>2. -ctx'.obj <= -best_obj
      BY <2>2, <2>5
    <3>3. Promise!Pass
      BY <2>1, <2>3, <3>1, <3>2 DEF Promise!Pass, Promise!NotYet
    <3>4. QED
      BY <3>3 DEF Promise!Next
  <2>6. QED
    BY <2>4, <2>5
<1>2. CASE Return
  <2>1. sol = NoSolution
    BY <1>2 DEF Return, Inv, SolutionOnlyAtEnd
  <2>2. sol' # NoSolution /\ sol'.vectors = best
    BY <1>2 DEF Return, NoSolution
  <2>3. problem' = problem /\ cur' = cur /\ best' = best /\ best_obj' = best_obj
    BY <1>2 DEF Return, search
  <2>4. Promise!HandBack
    BY <2>1, <2>2, <2>3 DEF Promise!HandBack, Promise!NotYet
  <2>5. QED
    BY <2>4 DEF Promise!Next
<1>3. CASE Tick \/ Deadline \/ UNCHANGED vars
  BY <1>3 DEF Tick, Deadline, vars, search, Promise!vars
<1>4. QED
  BY <1>1, <1>2, <1>3 DEF Next, Step, Terminated

\* The LP phase implements BestSoFar: whatever the gradient is and whenever
\* the deadline falls, what it hands over is the best it has met.
THEOREM ImplementsBestSoFar == Spec => HandsBackTheBest
<1>1. Spec => []Inv
  BY InitInv, NextInv, PTL DEF Spec
<1>2. QED
  BY <1>1, PromiseInit, PromiseNext, PTL DEF Spec, HandsBackTheBest, Promise!Spec

-----------------------------------------------------------------------------
(* The setup half of the gradient, for every design.                       *)

Pulled(c, pb, p) == SetupPull(Baseline(pb), c, p)

\* Clamping a delay that was within its bounds does not turn its move round.
LEMMA ClampFollows ==
  ASSUME NEW lo \in Int, NEW hi \in Int, NEW x \in lo .. hi, NEW move \in Int
  PROVE  /\ move >= 0 => Clamp(x + move, lo, hi) >= x
         /\ move <= 0 => Clamp(x + move, lo, hi) <= x
         /\ Clamp(x + move, lo, hi) \in Int
BY DEF Clamp

\* A shortfall pulls by a natural number, none does not pull.
LEMMA ScaledNat ==
  ASSUME NEW v \in Nat, NEW ori \in Int
  PROVE  /\ Scaled(v, ori) \in Nat
         /\ v = 0 => Scaled(v, ori) = 0
<1> DEFINE size == IF ori < 0 THEN -ori ELSE ori
           num == Gain * EpsPerUnit * v
           den == EpsPerUnit * size + 1
<1>1. Gain \in Nat /\ EpsPerUnit \in Nat /\ size \in Nat
  BY GradientAssumption
<1>2. num \in Nat /\ (v = 0 => num = 0)
  BY <1>1
<1>3. EpsPerUnit * size \in Nat
  BY <1>1
<1> HIDE DEF size
<1>4. den \in Nat \ {0}
  BY <1>3
<1>5. Scaled(v, ori) = num \div den
  BY DEF Scaled, size
<1> HIDE DEF num, den
<1>6. num \div den \in Nat /\ (num = 0 => num \div den = 0)
  BY <1>2, <1>4
<1>7. QED
  BY <1>2, <1>5, <1>6

\* A path in violation pulls by a natural number, any other not at all.
LEMMA SetupPullNat ==
  ASSUME NEW pb \in Problem, NEW c, NEW p, c.slack.ss[p] \in Int
  PROVE  /\ Pulled(c, pb, p) \in Nat
         /\ c.slack.ss[p] >= 0 => Pulled(c, pb, p) = 0
<1> DEFINE ori == Baseline(pb)
           v == Shortfall(c, "ss", p)
<1>1. ori.tns_ss \in Int /\ ori.wns_ss \in Int
  BY DesignsAssumption DEF Figures
<1>2. v \in Nat /\ (c.slack.ss[p] >= 0 => v = 0)
  BY DEF Shortfall
<1> HIDE DEF v
<1>3. /\ Scaled(v, ori.tns_ss) \in Nat /\ Scaled(v, ori.wns_ss) \in Nat
      /\ v = 0 => Scaled(v, ori.tns_ss) = 0 /\ Scaled(v, ori.wns_ss) = 0
  BY <1>1, <1>2, ScaledNat
<1>4. Pulled(c, pb, p)
        = Scaled(v, ori.tns_ss)
          + (IF c.slack["ss"][p] <= c.wns["ss"] THEN Scaled(v, ori.wns_ss) ELSE 0)
  BY DEF Pulled, SetupPull, Pull, v
<1> HIDE DEF ori
<1>5. QED
  BY <1>2, <1>3, <1>4

\* When one path alone violates setup, a branch is moved by what that path
\* pulls: up on its capture side, down on its launch side.
LEMMA LonePull ==
  ASSUME NEW pb \in Problem, NEW c \in Context, NEW p \in Path,
         \A q \in Path \ {p} : c.slack.ss[q] >= 0,
         NEW b \in Branch
  PROVE  SetupCorrection(Designs[pb], Baseline(pb), c, b)
           = (IF b \in CaptureBranches(Designs[pb], p) THEN Pulled(c, pb, p) ELSE 0)
             - (IF b \in LaunchBranches(Designs[pb], p) THEN Pulled(c, pb, p) ELSE 0)
<1> DEFINE d == Designs[pb]
           up(q) == IF b \in CaptureBranches(d, q) THEN Pulled(c, pb, q) ELSE 0
           down(q) == IF b \in LaunchBranches(d, q) THEN Pulled(c, pb, q) ELSE 0
           f == [q \in Path |-> up(q) - down(q)]
<1>1. IsFiniteSet(Path) /\ Paths(d) = Path
  BY DesignsAssumption
<1>2. \A q \in Path : Pulled(c, pb, q) \in Nat /\ (q # p => Pulled(c, pb, q) = 0)
  <2>1. ASSUME NEW q \in Path
        PROVE  Pulled(c, pb, q) \in Nat /\ (q # p => Pulled(c, pb, q) = 0)
    <3>1. c.slack.ss[q] \in Int
      BY DEF Context
    <3>2. QED
      BY <3>1, SetupPullNat
  <2>2. QED
    BY <2>1
<1>3. SetupCorrection(d, Baseline(pb), c, b) = SumFunction(f)
  BY <1>1 DEF SetupCorrection, Pulled
<1>4. \A q \in Path : up(q) \in Nat /\ down(q) \in Nat /\ (q # p => up(q) = 0 /\ down(q) = 0)
  BY <1>2
<1> HIDE DEF up, down
<1>5. DOMAIN f = Path /\ f[p] \in Int /\ f[p] = up(p) - down(p) /\ \A q \in Path \ {p} : f[q] = 0
  BY <1>4
<1> HIDE DEF f
<1>6. SumFunction(f) = f[p]
  BY <1>1, <1>5, SumFunctionIsSum, SumOfOne
<1>7. QED
  BY <1>3, <1>5, <1>6 DEF up, down, d

\* An end's clock arrives no earlier when no branch above it got faster.
LEMMA ArrivalMonotone ==
  ASSUME NEW pb \in Problem, NEW n,
         NEW f \in [Branch -> Int], NEW g \in [Branch -> Int],
         \A b \in EndBranches(Designs[pb], n) : f[b] <= g[b]
  PROVE  /\ EndArrival(Designs[pb], f, n) <= EndArrival(Designs[pb], g, n)
         /\ EndArrival(Designs[pb], f, n) \in Int /\ EndArrival(Designs[pb], g, n) \in Int
<1> DEFINE S == EndBranches(Designs[pb], n)
           old == [b \in S |-> f[b]]
           new == [b \in S |-> g[b]]
<1>1. S \in SUBSET Branch /\ IsFiniteSet(Branch)
  BY DesignsAssumption DEF EndBranches
<1>2. IsFiniteSet(S)
  BY <1>1, FS_Subset
<1> HIDE DEF S
<1>3. old \in [S -> Int] /\ new \in [S -> Int] /\ \A b \in S : old[b] <= new[b]
  BY <1>1 DEF S
<1> HIDE DEF old, new
<1>4. /\ SumFunction(old) <= SumFunction(new)
      /\ SumFunction(old) \in Int /\ SumFunction(new) \in Int
  BY <1>2, <1>3, SumFunctionIsMonotone, SumFunctionIsInt
<1>5. QED
  BY <1>4 DEF EndArrival, S, old, new

\* The moves of a lone violation keep to their sides through the projection.
LEMMA LoneMoves ==
  ASSUME Inv, Iterate, NEW p \in Path, OnlyViolation("ss", p)
  PROVE  /\ \A b \in CaptureBranches(Designs[problem], p) \ LaunchBranches(Designs[problem], p) :
              cur.ss[b] <= cur'.ss[b]
         /\ \A b \in LaunchBranches(Designs[problem], p) \ CaptureBranches(Designs[problem], p) :
              cur'.ss[b] <= cur.ss[b]
         /\ \A b \in CaptureBranches(Designs[problem], p) \cap LaunchBranches(Designs[problem], p) :
              cur'.ss[b] = cur.ss[b]
<1> DEFINE d == Designs[problem]
           C == CaptureBranches(d, p)
           L == LaunchBranches(d, p)
           pull == Pulled(ctx, problem, p)
           move(b) == (IF b \in C THEN pull ELSE 0) - (IF b \in L THEN pull ELSE 0)
           lo(b) == Lower(problem).ss[b]
           hi(b) == Upper(problem).ss[b]
<1>1. problem \in Problem /\ ctx \in Context /\ InBox(problem, cur) /\ ctx = Evaluate(problem, cur)
  BY DEF Inv, TypeOK, ContextCurrent
<1>2. C \subseteq Branch /\ L \subseteq Branch
  BY <1>1, DesignsAssumption DEF CaptureBranches, LaunchBranches, EndBranches
<1>3. pull \in Nat
  <2>1. ctx.slack.ss[p] \in Int
    BY <1>1 DEF Context
  <2>2. QED
    BY <1>1, <2>1, SetupPullNat
<1>4. ASSUME NEW b \in Branch
      PROVE  cur'.ss[b] = Clamp(cur.ss[b] + move(b), lo(b), hi(b))
  <2>1. cur' = Project(Descend(cur, Correction(problem, ctx)))
    BY DEF Iterate
  <2>2. Correction(problem, ctx) = MoCorrection(d, Baseline(problem), ctx)
    BY <1>1, GradientAssumption DEF InBox
  <2>3. Correction(problem, ctx).ss[b] = SetupCorrection(d, Baseline(problem), ctx, b)
    BY <1>1, <2>2, DesignsAssumption DEF MoCorrection
  <2>4. \A q \in Path \ {p} : ctx.slack.ss[q] >= 0
    BY DEF OnlyViolation
  <2>5. SetupCorrection(d, Baseline(problem), ctx, b) = move(b)
    BY <1>1, <2>4, LonePull
  <2> HIDE DEF move, d
  <2>6. QED
    BY <2>1, <2>3, <2>5 DEF Project, Descend
<1>5. ASSUME NEW b \in Branch
      PROVE  /\ cur.ss[b] \in lo(b) .. hi(b) /\ cur.ss[b] \in Int
             /\ lo(b) \in Int /\ hi(b) \in Int
  <2>1. cur["ss"][b] \in Lower(problem)["ss"][b] .. Upper(problem)["ss"][b]
    BY <1>1 DEF InBox, Corner
  <2>2. lo(b) \in Int /\ hi(b) \in Int
    BY <1>1, BoundsAssumption DEF Vectors
  <2>3. QED
    BY <2>1, <2>2
<1>6. \A b \in Branch : /\ b \in C \ L => move(b) = pull
                        /\ b \in L \ C => move(b) = -pull
                        /\ b \in C \cap L => move(b) = 0
  BY <1>3
<1>7. ASSUME NEW b \in Branch, move(b) \in Int
      PROVE  /\ move(b) >= 0 => cur'.ss[b] >= cur.ss[b]
             /\ move(b) <= 0 => cur'.ss[b] <= cur.ss[b]
             /\ cur'.ss[b] \in Int
  <2> HIDE DEF move, lo, hi
  <2>1. QED
    BY <1>4, <1>5, <1>7, ClampFollows
<1> HIDE DEF move, lo, hi, C, L, pull
<1>8. \A b \in C \ L : cur.ss[b] <= cur'.ss[b]
  BY <1>2, <1>3, <1>5, <1>6, <1>7
<1>9. \A b \in L \ C : cur'.ss[b] <= cur.ss[b]
  BY <1>2, <1>3, <1>5, <1>6, <1>7
<1>10. \A b \in C \cap L : cur'.ss[b] = cur.ss[b]
  <2>1. ASSUME NEW b \in C \cap L PROVE cur'.ss[b] = cur.ss[b]
    <3>1. b \in Branch /\ move(b) = 0
      BY <1>2, <1>6
    <3>2. cur'.ss[b] \in Int /\ cur.ss[b] \in Int /\ cur'.ss[b] >= cur.ss[b] /\ cur'.ss[b] <= cur.ss[b]
      BY <1>5, <1>7, <3>1
    <3>3. QED
      BY <3>2
  <2>2. QED
    BY <2>1
<1>11. QED
  BY <1>8, <1>9, <1>10 DEF C, L, d

\* Slacks are what the arrivals of the two ends make of a path.
LEMMA SlackOfVectors ==
  ASSUME NEW pb \in Problem, NEW v, InBox(pb, v), NEW p \in Path
  PROVE  LET d == Designs[pb] IN
         Evaluate(pb, v).slack.ss[p]
           = d.period - d.t_setup - d.paths[p].data_ss
             + (EndArrival(d, v.ss, d.paths[p].capture) - EndArrival(d, v.ss, d.paths[p].launch))
<1> DEFINE d == Designs[pb]
<1>1. Evaluate(pb, v) = MoContext(d, Baseline(pb), v)
  BY GradientAssumption DEF InBox
<1>2. p \in Paths(d)
  BY DesignsAssumption
<1>3. MoContext(d, Baseline(pb), v).slack.ss[p] = SetupSlack(d, p, SaSkew(d, v.ss, p))
  BY <1>2 DEF MoContext
<1>4. QED
  BY <1>1, <1>3 DEF SetupSlack, SaSkew

\* In every design, a step of the LP phase does not make the only setup
\* violation worse: with overshooting steps, at the bounds of the delays and
\* on branches above both ends alike.
THEOREM SetupStepsRepair == Spec => SetupStepRepairs
<1>1. ASSUME Inv, [Next]_vars, NEW p \in Path, OnlyViolation("ss", p)
      PROVE  ctx'.slack.ss[p] >= ctx.slack.ss[p]
  <2>1. problem \in Problem /\ ctx \in Context /\ InBox(problem, cur) /\ ctx = Evaluate(problem, cur)
    BY <1>1 DEF Inv, TypeOK, ContextCurrent
  <2>2. ctx.slack.ss[p] \in Int
    BY <2>1 DEF Context
  <2>3. CASE Iterate
    <3> DEFINE d == Designs[problem]
               capture == d.paths[p].capture
               launch == d.paths[p].launch
               f == cur.ss
               g == cur'.ss
               k == d.period - d.t_setup - d.paths[p].data_ss
    <3>1. InBox(problem, cur') /\ ctx' = Evaluate(problem, cur')
      BY <1>1, <2>3, IterateInv DEF Iterate
    <3>2. f \in [Branch -> Int] /\ g \in [Branch -> Int]
      BY <2>1, <3>1, InBoxIsVectors DEF Vectors
    <3>3. /\ \A b \in EndBranches(d, capture) : f[b] <= g[b]
          /\ \A b \in EndBranches(d, launch) : g[b] <= f[b]
      <4>1. EndBranches(d, capture) \subseteq Branch /\ EndBranches(d, launch) \subseteq Branch
        BY <2>1, DesignsAssumption DEF EndBranches
      <4>2. \A b \in Branch : f[b] \in Int /\ (g[b] = f[b] => g[b] <= f[b] /\ f[b] <= g[b])
        BY <3>2
      <4>3. /\ \A b \in EndBranches(d, capture) \ EndBranches(d, launch) : f[b] <= g[b]
            /\ \A b \in EndBranches(d, launch) \ EndBranches(d, capture) : g[b] <= f[b]
            /\ \A b \in EndBranches(d, capture) \cap EndBranches(d, launch) : g[b] = f[b]
        BY <1>1, <2>3, LoneMoves DEF CaptureBranches, LaunchBranches
      <4> HIDE DEF d, capture, launch, f, g
      <4>4. QED
        BY <4>1, <4>2, <4>3
    <3>4. k \in Int
      BY <2>1, DesignsAssumption
    <3>5. /\ ctx.slack.ss[p] = k + (EndArrival(d, f, capture) - EndArrival(d, f, launch))
          /\ ctx'.slack.ss[p] = k + (EndArrival(d, g, capture) - EndArrival(d, g, launch))
      BY <2>1, <3>1, SlackOfVectors
    <3>6. /\ EndArrival(d, f, capture) <= EndArrival(d, g, capture)
          /\ EndArrival(d, f, capture) \in Int /\ EndArrival(d, g, capture) \in Int
          /\ EndArrival(d, g, launch) <= EndArrival(d, f, launch)
          /\ EndArrival(d, f, launch) \in Int /\ EndArrival(d, g, launch) \in Int
      <4> HIDE DEF capture, launch, f, g
      <4>1. QED
        BY <2>1, <3>2, <3>3, ArrivalMonotone
    <3> HIDE DEF d, capture, launch, f, g, k
    <3>7. QED
      BY <3>4, <3>5, <3>6
  <2>4. CASE ctx' = ctx
    BY <2>2, <2>4
  <2>5. QED
    BY <1>1, <2>3, <2>4 DEF Next, Step, Tick, Deadline, Return, Terminated, vars, search
<1>2. Spec => []Inv
  BY InitInv, NextInv, PTL DEF Spec
<1>3. Inv /\ [Next]_vars => [\A p \in Path : OnlyViolation("ss", p) => ctx'.slack.ss[p] >= ctx.slack.ss[p]]_vars
  BY <1>1
<1>4. QED
  BY <1>2, <1>3, PTL DEF Spec, SetupStepRepairs
=============================================================================
