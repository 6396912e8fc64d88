------------------------- MODULE SaPathSolveProofs --------------------------
(***************************************************************************)
(* Theorems about the search of SaPathSolve, for every clock tree, library *)
(* of options, evaluation and setting of the limits.                       *)
(***************************************************************************)
EXTENDS SaPathSolve, SumFacts

-----------------------------------------------------------------------------
(* Option lists.                                                           *)

\* A set of naturals has a least element.
LEMMA LeastNatural ==
  ASSUME NEW T \in SUBSET Nat, T # {}
  PROVE  \E x \in T : \A y \in T : x <= y
<1>1. PICK x \in T : \A y \in T : <<y, x>> \notin OpToRel(<, Nat)
  BY WFMin, NatLessThanWellFounded
<1>2. \A y \in T : ~(y < x)
  BY <1>1 DEF OpToRel
<1>3. QED
  BY <1>2

\* The next higher option is a delay and never below the present one.
LEMMA NextHigherProperties ==
  ASSUME NEW d \in Delay, NEW opts \in Seq(Delay)
  PROVE  NextHigher(d, opts) \in Delay /\ NextHigher(d, opts) >= d
<1> DEFINE above == {x \in Range(opts) : x > d}
<1>1. Range(opts) \subseteq Delay /\ Delay \subseteq Nat
  BY DelayAssumption DEF Range
<1>2. CASE above = {}
  BY <1>1, <1>2 DEF NextHigher
<1>3. CASE above # {}
  <2>1. \E x \in above : \A y \in above : x <= y
    BY <1>1, <1>3, LeastNatural
  <2>2. NextHigher(d, opts) \in above
    BY <1>3, <2>1 DEF NextHigher
  <2>3. QED
    <3> DEFINE x == NextHigher(d, opts)
    <3>1. x \in Range(opts) /\ x > d
      BY <2>2
    <3>2. x \in Delay /\ x \in Nat /\ d \in Nat
      BY <1>1, <3>1
    <3>3. QED
      BY <3>1, <3>2
<1>4. QED
  BY <1>2, <1>3

\* The next lower option is a delay and never above the present one.
LEMMA NextLowerProperties ==
  ASSUME NEW d \in Delay, NEW opts \in Seq(Delay)
  PROVE  NextLower(d, opts) \in Delay /\ NextLower(d, opts) <= d
<1> DEFINE below == {x \in Range(opts) : x < d}
           gap == {n \in Nat : d - n \in below}
<1>1. Range(opts) \subseteq Delay /\ Delay \subseteq Nat
  BY DelayAssumption DEF Range
<1>2. CASE below = {}
  BY <1>1, <1>2 DEF NextLower
<1>3. CASE below # {}
  <2>1. PICK z \in below : TRUE
    BY <1>3
  <2>2. d - z \in gap
    <3>1. d \in Nat /\ z \in Nat /\ z < d
      BY <1>1
    <3>2. d - z \in Nat /\ d - (d - z) = z
      BY <3>1
    <3>3. QED
      BY <2>1, <3>2
  <2>3. PICK n \in gap : \A m \in gap : n <= m
    BY <2>2, LeastNatural
  <2>4. d - n \in below /\ \A y \in below : d - n >= y
    <3>1. d - n \in below
      BY <2>3
    <3>2. ASSUME NEW y \in below PROVE d - n >= y
      <4>1. d \in Nat /\ y \in Nat /\ y < d /\ n \in Nat
        BY <1>1
      <4>2. d - y \in Nat /\ d - (d - y) = y
        BY <4>1
      <4>3. d - y \in gap
        BY <4>2
      <4>4. n <= d - y
        BY <2>3, <4>3
      <4>5. QED
        BY <4>1, <4>4
    <3>3. QED
      BY <3>1, <3>2
  <2>5. NextLower(d, opts) \in below
    BY <1>3, <2>4 DEF NextLower
  <2>6. QED
    <3> DEFINE x == NextLower(d, opts)
    <3>1. x \in Range(opts) /\ x < d
      BY <2>5
    <3>2. x \in Delay /\ x \in Nat /\ d \in Nat
      BY <1>1, <3>1
    <3>3. QED
      BY <3>1, <3>2
<1>4. QED
  BY <1>2, <1>3

-----------------------------------------------------------------------------
(* Moves.                                                                  *)

\* A chosen branch exists and has attempts left.
LEMMA ChosenBranch ==
  ASSUME TypeOK, NEW p \in Pool, NEW b \in MinBranches(p)
  PROVE  p \in Path /\ b \in Branch /\ branch_stall[b] < BranchNoImproveLimit
BY GraphAssumption
DEF Pool, Violating, MinBranches, Eligible, CandidateBranches

\* A move keeps the vectors well formed, changes the chosen branch only and,
\* in the setup phase, only raises SS delays and lowers FF delays.
LEMMA MoveEffect ==
  ASSUME TypeOK, NEW p \in Pool, NEW b \in MinBranches(p), NEW trial \in Moves(p, b)
  PROVE  /\ trial \in Assignment
         /\ \A c \in Branch \ {b} : trial.ss[c] = cur.ss[c] /\ trial.ff[c] = cur.ff[c]
         /\ SetupOnly => \A c \in Branch : /\ trial.ss[c] >= cur.ss[c]
                                           /\ trial.ff[c] <= cur.ff[c]
<1>1. b \in Branch
  BY ChosenBranch
<1>2. /\ cur \in Assignment
      /\ cur.ss[b] \in Delay /\ OptSS[b] \in Seq(Delay)
      /\ cur.ff[b] \in Delay /\ OptFF[b] \in Seq(Delay)
  BY <1>1, DelayAssumption DEF TypeOK, Assignment
<1>3. \A c \in Branch : cur.ss[c] \in Nat /\ cur.ff[c] \in Nat
  BY DelayAssumption DEF TypeOK, Assignment
<1>4. CASE trial = RaiseSS(b)
  <2>1. /\ NextHigher(cur.ss[b], OptSS[b]) \in Delay
        /\ NextHigher(cur.ss[b], OptSS[b]) >= cur.ss[b]
    BY <1>2, NextHigherProperties
  <2> DEFINE v == NextHigher(cur.ss[b], OptSS[b])
  <2>2. trial = [cur EXCEPT !.ss = [cur.ss EXCEPT ![b] = v]]
    BY <1>4 DEF RaiseSS
  <2>3. /\ trial.ff = cur.ff /\ trial.ss = [cur.ss EXCEPT ![b] = v]
        /\ trial \in Assignment
    BY <1>2, <2>1, <2>2 DEF Assignment
  <2>4. /\ trial.ss[b] = v
        /\ \A c \in Branch \ {b} : trial.ss[c] = cur.ss[c]
    BY <1>1, <1>2, <2>3 DEF Assignment
  <2>5. QED
    BY <1>3, <1>4, <2>1, <2>3, <2>4
<1>5. CASE trial = LowerFF(b)
  <2>1. /\ NextLower(cur.ff[b], OptFF[b]) \in Delay
        /\ NextLower(cur.ff[b], OptFF[b]) <= cur.ff[b]
    BY <1>2, NextLowerProperties
  <2> DEFINE v == NextLower(cur.ff[b], OptFF[b])
  <2>2. trial = [cur EXCEPT !.ff = [cur.ff EXCEPT ![b] = v]]
    BY <1>5 DEF LowerFF
  <2>3. /\ trial.ss = cur.ss /\ trial.ff = [cur.ff EXCEPT ![b] = v]
        /\ trial \in Assignment
    BY <1>2, <2>1, <2>2 DEF Assignment
  <2>4. /\ trial.ff[b] = v
        /\ \A c \in Branch \ {b} : trial.ff[c] = cur.ff[c]
    BY <1>1, <1>2, <2>3 DEF Assignment
  <2>5. QED
    BY <1>3, <1>5, <2>1, <2>3, <2>4
<1>6. CASE trial = RaiseFF(b) /\ ~SetupOnly
  <2>1. NextHigher(cur.ff[b], OptFF[b]) \in Delay
    BY <1>2, NextHigherProperties
  <2> DEFINE v == NextHigher(cur.ff[b], OptFF[b])
  <2>2. trial = [cur EXCEPT !.ff = [cur.ff EXCEPT ![b] = v]]
    BY <1>6 DEF RaiseFF
  <2>3. /\ trial.ss = cur.ss /\ trial.ff = [cur.ff EXCEPT ![b] = v]
        /\ trial \in Assignment
    BY <1>2, <2>1, <2>2 DEF Assignment
  <2>4. /\ trial.ff[b] = v
        /\ \A c \in Branch \ {b} : trial.ff[c] = cur.ff[c]
    BY <1>1, <1>2, <2>3 DEF Assignment
  <2>5. QED
    BY <1>3, <1>6, <2>1, <2>3, <2>4
<1>7. CASE trial = LowerSS(b) /\ ~SetupOnly
  <2>1. NextLower(cur.ss[b], OptSS[b]) \in Delay
    BY <1>2, NextLowerProperties
  <2> DEFINE v == NextLower(cur.ss[b], OptSS[b])
  <2>2. trial = [cur EXCEPT !.ss = [cur.ss EXCEPT ![b] = v]]
    BY <1>7 DEF LowerSS
  <2>3. /\ trial.ff = cur.ff /\ trial.ss = [cur.ss EXCEPT ![b] = v]
        /\ trial \in Assignment
    BY <1>2, <2>1, <2>2 DEF Assignment
  <2>4. /\ trial.ss[b] = v
        /\ \A c \in Branch \ {b} : trial.ss[c] = cur.ss[c]
    BY <1>1, <1>2, <2>3 DEF Assignment
  <2>5. QED
    BY <1>3, <1>7, <2>1, <2>3, <2>4
<1>8. QED
  BY <1>4, <1>5, <1>6, <1>7 DEF Moves

-----------------------------------------------------------------------------
(* Type correctness.  The stall exit is taken as soon as the window is     *)
(* used up, so the window is open whenever the loop goes on.               *)

WindowOpen == pc \in {"head", "body"} => no_improve_iters < NoImproveLimit

TypeInv == TypeOK /\ WindowOpen

\* The search starts well-typed, with room in its stall window.
LEMMA TypeInit == Init => TypeInv
<1> SUFFICES ASSUME Init PROVE TypeInv
  OBVIOUS
<1>1. cur \in Assignment /\ ctx \in Context
  BY DelayAssumption, EvalAssumption DEF Init
<1>2. ctx.tns_ss \in Int /\ ctx.score \in Int
  BY <1>1 DEF Context
<1>3. QED
  <2>1. /\ pc = "head" /\ now \in 0 .. TimeLimit /\ iterations \in 0 .. MaxIterations
        /\ top_pool_size \in Nat /\ no_improve_iters \in 0 .. NoImproveLimit
        /\ no_improve_iters < NoImproveLimit
    BY ConfigAssumption DEF Init
  <2>2. /\ branch_stall \in [Branch -> Nat] /\ stalled \in BOOLEAN
        /\ out \in Result \cup {NoResult}
    BY Zenon DEF Init
  <2>3. best \in Assignment /\ best_tns_ss \in Int /\ best_score \in Int
    BY <1>1, <1>2 DEF Init
  <2>4. TypeOK
    BY <1>1, <2>1, <2>2, <2>3 DEF TypeOK
  <2>5. QED
    BY <2>1, <2>4 DEF TypeInv, WindowOpen

\* One case per action; the stall exit keeps the window below its limit.
LEMMA TypeStep == TypeInv /\ [Next]_vars => TypeInv'
<1> SUFFICES ASSUME TypeInv, [Next]_vars PROVE TypeInv'
  OBVIOUS
<1> USE DEF TypeInv, WindowOpen
<1>1. CASE Tick
  BY <1>1, ConfigAssumption DEF Tick, TypeOK, search, counters
<1>2. CASE LoopHead
  <2>1. ctx' \in Context /\ ctx.score \in Int
    BY <1>2, EvalAssumption DEF LoopHead, TypeOK, Context
  <2>2. no_improve_iters' \in 0 .. NoImproveLimit /\ no_improve_iters' < NoImproveLimit
    BY <1>2, ConfigAssumption DEF LoopHead, TypeOK, SwitchPhase
  <2>3. best_score' \in Int
    BY <1>2, <2>1 DEF LoopHead, TypeOK, SwitchPhase
  <2>4. top_pool_size' \in Nat
    BY <1>2, ConfigAssumption DEF LoopHead, TypeOK, GrowPool
  <2>5. iterations' \in 0 .. MaxIterations
    BY <1>2, ConfigAssumption DEF LoopHead, TypeOK
  <2>6. QED
    BY <1>2, <2>1, <2>2, <2>3, <2>4, <2>5 DEF LoopHead, TypeOK
<1>3. CASE Deadline \/ NoViolation \/ MoveFails \/ PickFromEmpty
  BY <1>3 DEF Deadline, NoViolation, MoveFails, PickFromEmpty, TypeOK, search, counters
<1>4. ASSUME NEW p \in Pool, NEW b \in MinBranches(p), Move(p, b) PROVE TypeInv'
  <2>1. b \in Branch
    BY ChosenBranch
  <2>2. PICK trial \in Moves(p, b), accept \in BOOLEAN :
          /\ CountMove(b, accept /\ Improves(EvalState(trial)))
          /\ IF accept THEN AcceptMove(trial) ELSE UNCHANGED search
    BY <1>4 DEF Move
  <2>3. trial \in Assignment /\ EvalState(trial) \in Context
    BY MoveEffect, EvalAssumption
  <2>4. EvalState(trial).tns_ss \in Int /\ EvalState(trial).score \in Int
    BY <2>3 DEF Context
  <2>5. /\ cur' \in Assignment /\ best' \in Assignment /\ ctx' \in Context
        /\ best_tns_ss' \in Int /\ best_score' \in Int
    BY <2>2, <2>3, <2>4 DEF TypeOK, AcceptMove, search
  <2>6. branch_stall' \in [Branch -> Nat]
    BY <2>1, <2>2 DEF TypeOK, CountMove
  <2>7. /\ no_improve_iters' \in 0 .. NoImproveLimit
        /\ stalled' \in BOOLEAN
        /\ pc' \in {"head", "return"}
        /\ pc' = "head" => no_improve_iters' < NoImproveLimit
    <3>1. no_improve_iters \in Nat /\ no_improve_iters < NoImproveLimit
      BY <1>4, ConfigAssumption DEF Move, TypeOK
    <3> DEFINE improved == accept /\ Improves(EvalState(trial))
    <3>2. /\ no_improve_iters' = IF improved THEN 0 ELSE no_improve_iters + 1
          /\ stalled' = (~improved /\ no_improve_iters' >= NoImproveLimit)
          /\ pc' = IF stalled' THEN "return" ELSE "head"
      BY <2>2 DEF CountMove
    <3> HIDE DEF improved
    <3>3. CASE improved
      BY <3>2, <3>3, ConfigAssumption
    <3>4. CASE ~improved
      <4>1. no_improve_iters' = no_improve_iters + 1
        BY <3>2, <3>4
      <4>2. CASE no_improve_iters' >= NoImproveLimit
        <5>1. stalled' = TRUE
          BY <3>2, <3>4, <4>2, Zenon
        <5>2. no_improve_iters' = NoImproveLimit
          BY <3>1, <4>1, <4>2, ConfigAssumption
        <5>3. QED
          BY <3>2, <5>1, <5>2, ConfigAssumption
      <4>3. CASE ~(no_improve_iters' >= NoImproveLimit)
        BY <3>1, <3>2, <3>4, <4>1, <4>3, ConfigAssumption
      <4>4. QED
        BY <4>2, <4>3
    <3>5. QED
      BY <3>3, <3>4
  <2>8. QED
    BY <1>4, <2>5, <2>6, <2>7 DEF Move, TypeOK
<1>5. CASE Return
  BY <1>5 DEF Return, TypeOK, Result, search, counters
<1>6. CASE UNCHANGED vars
  BY <1>6 DEF vars, TypeOK, search, counters
<1>7. QED
  BY <1>1, <1>2, <1>3, <1>4, <1>5, <1>6 DEF Next, Step, Terminated

\* The variables keep their types; in particular the count of iterations
\* without improvement never passes kNoImproveLimit.
THEOREM TypeCorrect == Spec => []TypeOK
<1>1. TypeInv => TypeOK
  BY DEF TypeInv
<1>2. QED
  BY <1>1, TypeInit, TypeStep, PTL DEF Spec

-----------------------------------------------------------------------------
(* The shapes a step can have.                                             *)

\* Only the loop head and a move change the search or its counters.
LEMMA StepShape ==
  ASSUME [Next]_vars
  PROVE  \/ LoopHead
         \/ \E p \in Pool : \E b \in MinBranches(p) : Move(p, b)
         \/ UNCHANGED <<search, counters>>
BY DEF Next, Step, Tick, Deadline, NoViolation, MoveFails, PickFromEmpty, Return,
       Terminated, vars

\* A move is rejected, accepted, or accepted as the new incumbent.
LEMMA MoveOutcome ==
  ASSUME TypeInv, NEW p \in Pool, NEW b \in MinBranches(p), Move(p, b)
  PROVE  /\ iterations' = iterations
         /\ \E trial \in Moves(p, b) :
              /\ trial \in Assignment /\ EvalState(trial) \in Context
              /\ \/ UNCHANGED search
                 \/ /\ cur' = trial /\ ctx' = EvalState(trial)
                    /\ ~Improves(EvalState(trial))
                    /\ UNCHANGED <<best, best_tns_ss, best_score>>
                 \/ /\ cur' = trial /\ ctx' = EvalState(trial)
                    /\ Improves(EvalState(trial))
                    /\ best' = trial /\ best_score' = EvalState(trial).score
                    /\ SetupOnly => best_tns_ss' = EvalState(trial).tns_ss
<1>1. PICK trial \in Moves(p, b), accept \in BOOLEAN :
        IF accept THEN AcceptMove(trial) ELSE UNCHANGED search
  BY DEF Move
<1>2. trial \in Assignment /\ EvalState(trial) \in Context
  BY MoveEffect, EvalAssumption DEF TypeInv
<1>3. CASE ~accept
  BY <1>1, <1>2, <1>3 DEF Move
<1>4. CASE accept /\ Improves(EvalState(trial))
  BY <1>1, <1>2, <1>4 DEF Move, AcceptMove
<1>5. CASE accept /\ ~Improves(EvalState(trial))
  BY <1>1, <1>2, <1>5 DEF Move, AcceptMove
<1>6. QED
  BY <1>3, <1>4, <1>5

-----------------------------------------------------------------------------
(* The incumbent.                                                          *)

SearchInv == TypeInv /\ ContextFresh /\ IncumbentDominates /\ SetupIncumbentExact

\* The incumbent is the start and its values are the start's.
LEMMA SearchInit == Init => SearchInv
<1> SUFFICES ASSUME Init PROVE SearchInv
  OBVIOUS
<1>1. TypeInv
  BY TypeInit
<1>2. ctx.tns_ss \in Int /\ ctx.score \in Int
  BY <1>1 DEF TypeInv, TypeOK, Context
<1>3. QED
  BY <1>1, <1>2 DEF Init, SearchInv, ContextFresh, IncumbentDominates, SetupIncumbentExact

\* A loop head may change the phase, a move the vectors; nothing else counts.
LEMMA SearchStep == SearchInv /\ [Next]_vars => SearchInv'
<1> SUFFICES ASSUME SearchInv, [Next]_vars PROVE SearchInv'
  OBVIOUS
<1>1. TypeInv /\ TypeInv'
  BY TypeStep DEF SearchInv
<1>2. /\ iterations \in Int /\ SetupTnsOnlyIters \in Int
      /\ ctx.tns_ss \in Int /\ ctx.score \in Int /\ best_tns_ss \in Int /\ best_score \in Int
  BY <1>1, ConfigAssumption DEF TypeInv, TypeOK, Context
<1>3. CASE LoopHead
  <2>1. ctx' = ctx /\ cur' = cur /\ ContextFresh'
    BY <1>3 DEF LoopHead, SearchInv, ContextFresh
  <2>2. iterations' = iterations + 1 /\ UNCHANGED <<best, best_tns_ss>>
    BY <1>3 DEF LoopHead
  <2>3. best_score' = IF iterations' = SetupTnsOnlyIters + 1 THEN ctx.score ELSE best_score
    BY <1>3, <2>2 DEF LoopHead, SwitchPhase
  <2>4. IncumbentDominates'
    BY <1>2, <2>1, <2>2, <2>3 DEF SearchInv, IncumbentDominates, SetupOnly
  <2>5. SetupIncumbentExact'
    BY <1>2, <2>2, <2>3 DEF SearchInv, SetupIncumbentExact, SetupOnly
  <2>6. QED
    BY <1>1, <2>1, <2>4, <2>5 DEF SearchInv
<1>4. ASSUME NEW p \in Pool, NEW b \in MinBranches(p), Move(p, b) PROVE SearchInv'
  <2>1. PICK trial \in Moves(p, b) :
          /\ EvalState(trial) \in Context
          /\ \/ UNCHANGED search
             \/ /\ cur' = trial /\ ctx' = EvalState(trial)
                /\ ~Improves(EvalState(trial))
                /\ UNCHANGED <<best, best_tns_ss, best_score>>
             \/ /\ cur' = trial /\ ctx' = EvalState(trial)
                /\ Improves(EvalState(trial))
                /\ best' = trial /\ best_score' = EvalState(trial).score
                /\ SetupOnly => best_tns_ss' = EvalState(trial).tns_ss
    BY <1>1, <1>4, MoveOutcome
  <2>2. EvalState(trial).tns_ss \in Int /\ EvalState(trial).score \in Int
    BY <2>1 DEF Context
  <2>3. iterations' = iterations
    BY <1>4 DEF Move
  <2>4. ContextFresh'
    BY <2>1 DEF SearchInv, ContextFresh, search
  <2>5. IncumbentDominates'
    BY <1>2, <2>1, <2>2, <2>3
    DEF SearchInv, IncumbentDominates, SetupOnly, Improves, search
  <2>6. SetupIncumbentExact'
    BY <2>1, <2>3 DEF SearchInv, SetupIncumbentExact, SetupOnly, search
  <2>7. QED
    BY <1>1, <2>4, <2>5, <2>6 DEF SearchInv
<1>5. CASE UNCHANGED <<search, counters>>
  BY <1>1, <1>5
  DEF SearchInv, ContextFresh, IncumbentDominates, SetupIncumbentExact, SetupOnly,
      search, counters
<1>6. QED
  BY <1>3, <1>4, <1>5, StepShape

\* The context and the incumbents agree with the vectors at every step.
LEMMA SearchInvariant == Spec => []SearchInv
BY SearchInit, SearchStep, PTL DEF Spec

\* The evaluation the loop reads belongs to the vectors it holds.
THEOREM ContextIsFresh == Spec => []ContextFresh
<1>1. SearchInv => ContextFresh
  BY DEF SearchInv
<1>2. QED
  BY <1>1, SearchInvariant, PTL

\* No accepted solution beats the incumbent value of its phase.
THEOREM IncumbentIsBest == Spec => []IncumbentDominates
<1>1. SearchInv => IncumbentDominates
  BY DEF SearchInv
<1>2. QED
  BY <1>1, SearchInvariant, PTL

\* The setup phase's incumbent values are those of the incumbent vectors.
THEOREM SetupIncumbentIsExact == Spec => []SetupIncumbentExact
<1>1. SearchInv => SetupIncumbentExact
  BY DEF SearchInv
<1>2. QED
  BY <1>1, SearchInvariant, PTL

\* In the setup phase the solution to be returned never loses setup TNS.
THEOREM SetupBestIsKept == Spec => SetupBestNeverLost
<1>1. SearchInv /\ SearchInv' /\ [Next]_vars =>
        [SetupOnly' => EvalState(best').tns_ss >= EvalState(best).tns_ss]_vars
  <2> SUFFICES ASSUME SearchInv, SearchInv', [Next]_vars, SetupOnly'
               PROVE  EvalState(best').tns_ss >= EvalState(best).tns_ss
    OBVIOUS
  <2>1. /\ TypeInv
        /\ iterations \in Int /\ SetupTnsOnlyIters \in Int
        /\ best_tns_ss \in Int /\ best_tns_ss' \in Int
    BY ConfigAssumption DEF SearchInv, TypeInv, TypeOK
  <2>2. best_tns_ss' = EvalState(best').tns_ss
    BY DEF SearchInv, SetupIncumbentExact
  <2>3. CASE LoopHead \/ UNCHANGED <<search, counters>>
    <3>1. SetupOnly /\ best' = best
      BY <2>1, <2>3 DEF LoopHead, SetupOnly, search, counters
    <3>2. QED
      BY <2>1, <2>2, <3>1 DEF SearchInv, SetupIncumbentExact
  <2>4. ASSUME NEW p \in Pool, NEW b \in MinBranches(p), Move(p, b)
        PROVE  EvalState(best').tns_ss >= EvalState(best).tns_ss
    <3>1. SetupOnly
      BY <2>4 DEF Move, SetupOnly
    <3>2. best_tns_ss = EvalState(best).tns_ss
      BY <3>1 DEF SearchInv, SetupIncumbentExact
    <3>3. PICK trial \in Moves(p, b) :
            /\ EvalState(trial) \in Context
            /\ \/ UNCHANGED search
               \/ UNCHANGED <<best, best_tns_ss>>
               \/ /\ Improves(EvalState(trial))
                  /\ best' = trial
      BY <2>1, <2>4, MoveOutcome
    <3>4. EvalState(trial).tns_ss \in Int
      BY <3>3 DEF Context
    <3>5. QED
      BY <2>1, <3>1, <3>2, <3>3, <3>4 DEF Improves, search
  <2>5. QED
    BY <2>3, <2>4, StepShape
<1>2. QED
  BY <1>1, SearchInvariant, PTL DEF Spec, SetupBestNeverLost

-----------------------------------------------------------------------------
(* What moves may do.                                                      *)

\* The typing that the step properties below rest on.
LEMMA TypeInvariant == Spec => []TypeInv
BY TypeInit, TypeStep, PTL DEF Spec

\* The delays of typed vectors are naturals, so they can be compared.
LEMMA CurrentVectorsAreNat ==
  ASSUME TypeOK, NEW b \in Branch
  PROVE  cur.ss[b] \in Nat /\ cur.ff[b] \in Nat
BY DelayAssumption DEF TypeOK, Assignment

\* Setup repair only raises SS delays and lowers FF delays.
THEOREM SetupRepairIsOneWay == Spec => SetupRepairOneWay
<1> DEFINE Way == SetupOnly' => \A b \in Branch : /\ cur'.ss[b] >= cur.ss[b]
                                                  /\ cur'.ff[b] <= cur.ff[b]
<1>1. TypeInv /\ [Next]_vars => [Way]_vars
  <2> SUFFICES ASSUME TypeInv, [Next]_vars, SetupOnly'
               PROVE  \A b \in Branch : cur'.ss[b] >= cur.ss[b] /\ cur'.ff[b] <= cur.ff[b]
    OBVIOUS
  <2>1. TypeOK /\ \A b \in Branch : cur.ss[b] \in Nat /\ cur.ff[b] \in Nat
    BY CurrentVectorsAreNat DEF TypeInv
  <2>2. CASE LoopHead \/ UNCHANGED <<search, counters>>
    <3>1. cur' = cur
      BY <2>2 DEF LoopHead, search
    <3>2. QED
      BY <2>1, <3>1
  <2>3. ASSUME NEW p \in Pool, NEW b \in MinBranches(p), Move(p, b)
        PROVE  \A c \in Branch : cur'.ss[c] >= cur.ss[c] /\ cur'.ff[c] <= cur.ff[c]
    <3>1. SetupOnly
      BY <2>3 DEF Move, SetupOnly
    <3>2. PICK trial \in Moves(p, b) : cur' = cur \/ cur' = trial
      BY <2>3, MoveOutcome DEF search
    <3>3. QED
      BY <2>1, <3>1, <3>2, MoveEffect
  <2>4. QED
    BY <2>2, <2>3, StepShape
<1>2. QED
  BY <1>1, TypeInvariant, PTL DEF Spec, SetupRepairOneWay

\* A branch without attempts left keeps its delays and its counter.
THEOREM BlacklistIsKept == Spec => BlacklistIsPermanent
<1> DEFINE Kept == \A b \in Branch : branch_stall[b] >= BranchNoImproveLimit =>
                     /\ branch_stall'[b] = branch_stall[b]
                     /\ cur'.ss[b] = cur.ss[b]
                     /\ cur'.ff[b] = cur.ff[b]
<1>1. TypeInv /\ [Next]_vars => [Kept]_vars
  <2> SUFFICES ASSUME TypeInv, [Next]_vars,
                      NEW b \in Branch, branch_stall[b] >= BranchNoImproveLimit
               PROVE  /\ branch_stall'[b] = branch_stall[b]
                      /\ cur'.ss[b] = cur.ss[b]
                      /\ cur'.ff[b] = cur.ff[b]
    OBVIOUS
  <2>1. CASE LoopHead \/ UNCHANGED <<search, counters>>
    BY <2>1 DEF LoopHead, search, counters
  <2>2. ASSUME NEW p \in Pool, NEW moved \in MinBranches(p), Move(p, moved)
        PROVE  /\ branch_stall'[b] = branch_stall[b]
               /\ cur'.ss[b] = cur.ss[b]
               /\ cur'.ff[b] = cur.ff[b]
    <3>1. moved \in Branch /\ branch_stall[moved] < BranchNoImproveLimit
      BY ChosenBranch DEF TypeInv
    <3>2. /\ branch_stall \in [Branch -> Nat]
          /\ BranchNoImproveLimit \in Nat
      BY ConfigAssumption DEF TypeInv, TypeOK
    <3>3. b # moved
      BY <3>1, <3>2
    <3>4. branch_stall'[b] = branch_stall[b]
      BY <2>2, <3>2, <3>3 DEF Move, CountMove
    <3>5. PICK trial \in Moves(p, moved) : cur' = cur \/ cur' = trial
      BY <2>2, MoveOutcome DEF search
    <3>6. QED
      BY <3>3, <3>4, <3>5, MoveEffect DEF TypeInv
  <2>3. QED
    BY <2>1, <2>2, StepShape
<1>2. QED
  BY <1>1, TypeInvariant, PTL DEF Spec, BlacklistIsPermanent

-----------------------------------------------------------------------------
(* The stall window.  While an iteration is under way it has not been      *)
(* counted yet.                                                            *)

PhaseIterations == IF SetupOnly THEN iterations ELSE iterations - SetupTnsOnlyIters

WindowInv ==
  no_improve_iters <= IF pc = "body" THEN PhaseIterations - 1 ELSE PhaseIterations

\* The window grows by at most one for an iteration and is reset at the switch.
LEMMA WindowStep == TypeInv /\ WindowInv /\ [Next]_vars => WindowInv'
<1> SUFFICES ASSUME TypeInv, WindowInv, [Next]_vars PROVE WindowInv'
  OBVIOUS
<1>1. iterations \in Nat /\ SetupTnsOnlyIters \in Nat /\ no_improve_iters \in Nat
  BY ConfigAssumption DEF TypeInv, TypeOK
<1> USE DEF WindowInv, PhaseIterations, SetupOnly
<1>2. CASE LoopHead
  <2>1. /\ pc = "head" /\ pc' = "body" /\ iterations' = iterations + 1
        /\ no_improve_iters' = IF iterations + 1 = SetupTnsOnlyIters + 1
                                 THEN 0 ELSE no_improve_iters
    BY <1>2 DEF LoopHead, SwitchPhase
  <2>2. QED
    BY <1>1, <2>1
<1>3. ASSUME NEW p \in Pool, NEW b \in MinBranches(p), Move(p, b) PROVE WindowInv'
  <2>1. /\ pc = "body" /\ pc' # "body" /\ iterations' = iterations
        /\ no_improve_iters' \in {0, no_improve_iters + 1}
    BY <1>3 DEF Move, CountMove
  <2>2. QED
    BY <1>1, <2>1
<1>4. CASE Tick \/ Return \/ UNCHANGED vars
  BY <1>1, <1>4 DEF Tick, Return, vars, counters
<1>5. CASE Deadline \/ NoViolation \/ MoveFails \/ PickFromEmpty
  <2>1. pc' # "body" /\ UNCHANGED <<iterations, no_improve_iters>>
    BY <1>5 DEF Deadline, NoViolation, MoveFails, PickFromEmpty, counters
  <2>2. QED
    BY <1>1, <2>1
<1>6. QED
  BY <1>2, <1>3, <1>4, <1>5 DEF Next, Step, Terminated

\* The score phase starts with a stall window of its own.
THEOREM WindowIsWithinPhase == Spec => []StallWindowWithinPhase
<1>1. Init => WindowInv
  BY ConfigAssumption DEF Init, WindowInv, PhaseIterations, SetupOnly
<1>2. TypeInv /\ WindowInv => StallWindowWithinPhase
  BY ConfigAssumption
  DEF TypeInv, TypeOK, WindowInv, PhaseIterations, StallWindowWithinPhase, SetupOnly
<1>3. QED
  BY <1>1, <1>2, WindowStep, TypeInvariant, PTL DEF Spec

-----------------------------------------------------------------------------
(* The stall window against the attempts of the branches: a move adds one  *)
(* to both or clears one counter of each.                                  *)

\* Every step keeps the window backed by attempts.
LEMMA BackedStep == TypeInv /\ WindowBackedByAttempts /\ [Next]_vars => WindowBackedByAttempts'
<1> SUFFICES ASSUME TypeInv, WindowBackedByAttempts, [Next]_vars
             PROVE  WindowBackedByAttempts'
  OBVIOUS
<1>1. /\ IsFiniteSet(Branch)
      /\ branch_stall \in [Branch -> Nat] /\ branch_stall \in [Branch -> Int]
      /\ no_improve_iters \in Nat
      /\ SumFunction(branch_stall) \in Nat
      /\ no_improve_iters <= SumFunction(branch_stall)
  <2>1. IsFiniteSet(Branch) /\ branch_stall \in [Branch -> Nat] /\ no_improve_iters \in Nat
    BY GraphAssumption, ConfigAssumption DEF TypeInv, TypeOK
  <2>2. QED
    BY <2>1, SumOfNaturals DEF WindowBackedByAttempts
<1>2. CASE LoopHead
  <2>1. branch_stall' = branch_stall /\ no_improve_iters' \in {0, no_improve_iters}
    BY <1>2 DEF LoopHead, SwitchPhase
  <2>2. QED
    BY <1>1, <2>1 DEF WindowBackedByAttempts
<1>3. ASSUME NEW p \in Pool, NEW b \in MinBranches(p), Move(p, b)
      PROVE  WindowBackedByAttempts'
  <2>1. b \in Branch
    BY ChosenBranch DEF TypeInv
  <2>2. PICK improved \in BOOLEAN :
          /\ branch_stall' = [branch_stall EXCEPT ![b] = IF improved THEN 0 ELSE @ + 1]
          /\ no_improve_iters' = IF improved THEN 0 ELSE no_improve_iters + 1
    BY <1>3 DEF Move, CountMove
  <2>3. CASE improved
    <3>1. branch_stall' = [branch_stall EXCEPT ![b] = 0] /\ no_improve_iters' = 0
      BY <2>2, <2>3
    <3>2. branch_stall' \in [Branch -> Nat]
      BY <1>1, <3>1
    <3>3. SumFunction(branch_stall') \in Nat
      BY <1>1, <3>2, SumOfNaturals
    <3>4. QED
      BY <3>1, <3>3 DEF WindowBackedByAttempts
  <2>4. CASE ~improved
    <3> DEFINE n == branch_stall[b] + 1
    <3>1. branch_stall' = [branch_stall EXCEPT ![b] = n] /\ no_improve_iters' = no_improve_iters + 1
      BY <2>2, <2>4
    <3>2. n \in Int /\ branch_stall[b] \in Int
      BY <1>1, <2>1
    <3>3. SumFunction(branch_stall') = SumFunction(branch_stall) - branch_stall[b] + n
      BY <1>1, <2>1, <3>1, <3>2, SumOfUpdate
    <3>4. SumFunction(branch_stall') = SumFunction(branch_stall) + 1
      BY <1>1, <3>2, <3>3
    <3>5. QED
      BY <1>1, <3>1, <3>4 DEF WindowBackedByAttempts
  <2>5. QED
    BY <2>3, <2>4
<1>4. CASE UNCHANGED <<search, counters>>
  BY <1>4 DEF counters, WindowBackedByAttempts
<1>5. QED
  BY <1>2, <1>3, <1>4, StepShape

\* Every iteration of the stall window has cost some branch an attempt that
\* is still counted.
THEOREM WindowIsBacked == Spec => []WindowBackedByAttempts
<1>1. Init => WindowBackedByAttempts
  <2> SUFFICES ASSUME Init PROVE WindowBackedByAttempts
    OBVIOUS
  <2>1. branch_stall \in [Branch -> Nat] /\ IsFiniteSet(Branch) /\ no_improve_iters = 0
    BY GraphAssumption DEF Init
  <2>2. SumFunction(branch_stall) \in Nat
    BY <2>1, SumOfNaturals
  <2>3. QED
    BY <2>1, <2>2 DEF WindowBackedByAttempts
<1>2. QED
  BY <1>1, BackedStep, TypeInvariant, PTL DEF Spec

-----------------------------------------------------------------------------
(* The pool: its size, and which paths are in it.                          *)

\* A quotient grows by one where the division comes out even, else it stays.
LEMMA QuotientStep ==
  ASSUME NEW n \in Nat, NEW g \in Nat \ {0}
  PROVE  (n + 1) \div g = (n \div g) + IF (n + 1) % g = 0 THEN 1 ELSE 0
<1> DEFINE q == n \div g
           r == n % g
           Q == (n + 1) \div g
           R == (n + 1) % g
<1>1. /\ q \in Int /\ r \in Int /\ n = g * q + r /\ 0 <= r /\ r < g
  OBVIOUS
<1>2. /\ Q \in Int /\ R \in Int /\ n + 1 = g * Q + R /\ 0 <= R /\ R < g
  OBVIOUS
<1> DEFINE d == Q - q
<1>3. d \in Int /\ g * Q = g * q + g * d
  BY <1>1, <1>2
<1> HIDE DEF q, r, Q, R, d
<1>4. g * d = r + 1 - R
  BY <1>1, <1>2, <1>3
<1>5. d \in {0, 1}
  <2>1. CASE d <= -1
    <3>1. g * d <= -g
      BY <1>3, <2>1
    <3>2. QED
      BY <1>1, <1>2, <1>4, <3>1
  <2>2. CASE d >= 2
    <3>1. g * d >= 2 * g
      BY <1>3, <2>2
    <3>2. QED
      BY <1>1, <1>2, <1>4, <3>1
  <2>3. QED
    BY <1>3, <2>1, <2>2
<1>6. Q = q + IF R = 0 THEN 1 ELSE 0
  <2>1. CASE d = 0
    <3>1. Q = q
      BY <1>1, <1>2, <2>1 DEF d
    <3>2. R = r + 1
      BY <1>1, <1>2, <1>4, <2>1
    <3>3. QED
      BY <1>1, <1>2, <3>1, <3>2
  <2>2. CASE d = 1
    <3>1. Q = q + 1
      BY <1>1, <1>2, <2>2 DEF d
    <3>2. R = r + 1 - g
      BY <1>1, <1>2, <1>4, <2>2
    <3>3. QED
      BY <1>1, <1>2, <3>1, <3>2
  <2>3. QED
    BY <1>5, <2>1, <2>2
<1>7. QED
  BY <1>6 DEF q, Q, R

\* Every step keeps the pool in step with the iterations.
LEMMA PoolSizeStep ==
  TypeInv /\ PoolFollowsIterations /\ [Next]_vars => PoolFollowsIterations'
<1> SUFFICES ASSUME TypeInv, PoolFollowsIterations, [Next]_vars
             PROVE  PoolFollowsIterations'
  OBVIOUS
<1>1. /\ iterations \in Nat /\ top_pool_size \in Nat
      /\ TopPathPoolInit \in Nat /\ TopPathPoolGrowStep \in Nat
      /\ TopPathPoolGrowEvery \in Nat \ {0}
  BY ConfigAssumption DEF TypeInv, TypeOK
<1>2. CASE LoopHead
  <2> DEFINE g == TopPathPoolGrowEvery
             step == TopPathPoolGrowStep
             q == iterations \div g
  <2>1. /\ iterations' = iterations + 1
        /\ top_pool_size' = IF iterations' > 1 /\ iterations % g = 0
                              THEN top_pool_size + step ELSE top_pool_size
    BY <1>1, <1>2 DEF LoopHead, GrowPool
  <2>2. q \in Int
    BY <1>1
  <2>3. top_pool_size' = TopPathPoolInit + step * q
    <3>1. CASE iterations = 0
      <4>1. q = 0
        BY <1>1, <3>1
      <4>2. top_pool_size' = top_pool_size /\ top_pool_size = TopPathPoolInit
        BY <1>1, <2>1, <3>1 DEF PoolFollowsIterations
      <4>3. QED
        BY <1>1, <4>1, <4>2
    <3>2. CASE iterations # 0
      <4> DEFINE n == iterations - 1
                 old == n \div g
      <4>1. n \in Nat /\ n + 1 = iterations /\ old \in Int
        BY <1>1, <3>2
      <4>2. q = old + IF iterations % g = 0 THEN 1 ELSE 0
        BY <1>1, <4>1, QuotientStep
      <4>3. top_pool_size = TopPathPoolInit + step * old
        BY <3>2 DEF PoolFollowsIterations
      <4>4. top_pool_size' = IF iterations % g = 0 THEN top_pool_size + step ELSE top_pool_size
        BY <1>1, <2>1, <3>2
      <4>5. step * (old + 1) = step * old + step
        BY <1>1, <4>1
      <4> HIDE DEF old, q, n
      <4>6. QED
        BY <1>1, <2>2, <4>1, <4>2, <4>3, <4>4, <4>5
    <3>3. QED
      BY <3>1, <3>2
  <2>4. iterations' # 0 /\ iterations' - 1 = iterations
    BY <1>1, <2>1
  <2>5. QED
    BY <2>3, <2>4 DEF PoolFollowsIterations
<1>3. CASE UNCHANGED <<iterations, top_pool_size>>
  BY <1>3 DEF PoolFollowsIterations
<1>4. QED
  BY <1>2, <1>3, StepShape DEF Move, counters

\* The pool follows the count of iterations, however each of them ended.
THEOREM PoolIsInStep == Spec => []PoolFollowsIterations
<1>1. Init => PoolFollowsIterations
  BY ConfigAssumption DEF Init, PoolFollowsIterations
<1>2. QED
  BY <1>1, PoolSizeStep, TypeInvariant, PTL DEF Spec

Ahead(p) == {q \in Violating : Before(q, p)}
Rank(p) == Cardinality(Ahead(p))

\* The order of the sort is total and strict.
LEMMA OrderIsStrict ==
  ASSUME TypeOK, NEW p \in Path, NEW q \in Path
  PROVE  /\ Weight(p) \in Int
         /\ ~Before(p, p)
         /\ p # q => Before(p, q) \/ Before(q, p)
         /\ \A r \in Path : Before(p, q) /\ Before(q, r) => Before(p, r)
<1>1. \A r \in Path : r \in Int /\ Weight(r) \in Int
  <2>1. \A r \in Path : ctx.slack_ss[r] \in Int /\ ctx.slack_ff[r] \in Int
    BY DEF TypeOK, Context
  <2>2. QED
    BY <2>1, GraphAssumption DEF Weight
<1>2. QED
  BY <1>1 DEF Before

\* A path has more before it than each of those has.
LEMMA RankGrows ==
  ASSUME TypeOK, NEW p \in Violating, NEW q \in Violating
  PROVE  /\ IsFiniteSet(Violating)
         /\ Ahead(p) \subseteq Violating \ {p}
         /\ Rank(p) \in Nat
         /\ Before(q, p) => Rank(q) < Rank(p)
<1>1. Violating \subseteq Path /\ IsFiniteSet(Violating)
  BY GraphAssumption, FS_Subset DEF Violating
<1>2. Ahead(p) \subseteq Violating \ {p}
  BY <1>1, OrderIsStrict DEF Ahead
<1>3. IsFiniteSet(Ahead(p)) /\ IsFiniteSet(Ahead(q)) /\ Rank(p) \in Nat /\ Rank(q) \in Nat
  <2>1. Ahead(p) \in SUBSET Violating /\ Ahead(q) \in SUBSET Violating
    BY DEF Ahead
  <2>2. QED
    BY <1>1, <2>1, FS_Subset, FS_CardinalityType DEF Rank
<1>4. ASSUME Before(q, p) PROVE Rank(q) < Rank(p)
  <2>1. Ahead(q) \in SUBSET Ahead(p)
    BY <1>1, <1>4, OrderIsStrict DEF Ahead
  <2>2. q \in Ahead(p) /\ q \notin Ahead(q)
    BY <1>1, <1>4, OrderIsStrict DEF Ahead
  <2>3. Rank(q) <= Rank(p) /\ Rank(p) # Rank(q)
    BY <1>3, <2>1, <2>2, FS_Subset DEF Rank
  <2>4. QED
    BY <1>3, <2>3
<1>5. QED
  BY <1>1, <1>2, <1>3, <1>4

\* The paths of the first n ranks are n paths, or all there are.
LEMMA FirstRanks ==
  ASSUME TypeOK, NEW n \in Nat
  PROVE  LET first == {p \in Violating : Rank(p) < n} IN
         Cardinality(first)
           = IF Cardinality(Violating) < n THEN Cardinality(Violating) ELSE n
<1> DEFINE first == {p \in Violating : Rank(p) < n}
<1>1. IsFiniteSet(Violating) /\ Violating \subseteq Path
  BY GraphAssumption, FS_Subset DEF Violating
<1>2. /\ first \in SUBSET Violating
      /\ IsFiniteSet(first) /\ Cardinality(first) \in Nat /\ Cardinality(Violating) \in Nat
      /\ Cardinality(first) <= Cardinality(Violating)
  BY <1>1, FS_Subset, FS_CardinalityType
<1>3. Cardinality(first) <= n
  <2> DEFINE ranks == 0 .. (n - 1)
             rank == [p \in first |-> Rank(p)]
  <2>1. IsFiniteSet(ranks) /\ Cardinality(ranks) = n
    BY FS_Interval
  <2>2. \A p \in first : Rank(p) \in ranks
    BY RankGrows
  <2>3. rank \in [first -> ranks]
    BY <2>2
  <2>4. \A p, q \in first : rank[p] = rank[q] => p = q
    <3> SUFFICES ASSUME NEW p \in first, NEW q \in first, Rank(p) = Rank(q), p # q
                 PROVE  FALSE
      OBVIOUS
    <3>1. Before(p, q) \/ Before(q, p)
      BY <1>1, OrderIsStrict
    <3>2. Rank(p) \in Nat /\ (Rank(p) < Rank(q) \/ Rank(q) < Rank(p))
      BY <3>1, RankGrows
    <3>3. QED
      BY <3>2
  <2> HIDE DEF rank, ranks, first
  <2>5. ~(Cardinality(ranks) < Cardinality(first))
    BY <1>2, <2>1, <2>3, <2>4, FS_PigeonHole
  <2>6. QED
    BY <1>2, <2>1, <2>5
<1>4. ASSUME first # Violating PROVE n <= Cardinality(first)
  <2> DEFINE outside == Violating \ first
             ranks == {Rank(p) : p \in outside}
  <2>1. ranks \in SUBSET Nat /\ ranks # {}
    BY <1>4, RankGrows
  <2>2. PICK m \in ranks : \A k \in ranks : m <= k
    BY <2>1, LeastNatural
  <2>3. PICK p \in outside : Rank(p) = m
    BY <2>2
  <2>4. Rank(p) \in Nat /\ n <= Rank(p)
    BY RankGrows
  <2>5. Ahead(p) = first
    <3>1. ASSUME NEW q \in Ahead(p) PROVE q \in first
      <4>1. q \in Violating /\ Rank(q) \in Nat /\ Rank(q) < Rank(p)
        BY <3>1, RankGrows DEF Ahead
      <4>2. q \notin outside
        BY <2>2, <2>3, <2>4, <4>1
      <4>3. QED
        BY <4>1, <4>2
    <3>2. ASSUME NEW q \in first PROVE q \in Ahead(p)
      <4>1. Rank(q) \in Nat /\ Rank(q) < Rank(p) /\ q # p
        BY <2>4, RankGrows
      <4>2. ~Before(p, q)
        BY <2>4, <4>1, RankGrows
      <4>3. Before(q, p)
        BY <1>1, <4>1, <4>2, OrderIsStrict
      <4>4. QED
        BY <4>3 DEF Ahead
    <3>3. QED
      BY <3>1, <3>2
  <2>6. QED
    BY <2>4, <2>5 DEF Rank
<1>5. QED
  <2>1. CASE first = Violating
    BY <1>2, <1>3, <2>1
  <2>2. CASE first # Violating
    BY <1>2, <1>3, <1>4, <2>2
  <2>3. QED
    BY <2>1, <2>2

\* The pool holds as many paths as it may, and none outside is worse.
THEOREM PoolIsTheWorst == Spec => []PoolIsWorst
<1>1. TypeInv => PoolIsWorst
  <2> SUFFICES ASSUME TypeOK
               PROVE  /\ Cardinality(Pool) = IF Cardinality(Violating) < top_pool_size
                                               THEN Cardinality(Violating) ELSE top_pool_size
                      /\ \A p \in Pool, q \in Violating \ Pool : Weight(p) >= Weight(q)
    BY DEF TypeInv, PoolIsWorst
  <2>1. Pool = {p \in Violating : Rank(p) < top_pool_size} /\ top_pool_size \in Nat
    BY DEF Pool, Rank, Ahead, TypeOK
  <2>2. ASSUME NEW p \in Pool, NEW q \in Violating \ Pool PROVE Weight(p) >= Weight(q)
    <3>1. p \in Violating /\ p \in Path /\ q \in Path /\ p # q
      BY <2>1 DEF Violating
    <3>2. Rank(p) \in Nat /\ Rank(q) \in Nat /\ Rank(p) < Rank(q)
      BY <2>1, <3>1, RankGrows
    <3>3. ~Before(q, p)
      BY <3>1, <3>2, RankGrows
    <3>4. QED
      BY <3>1, <3>3, OrderIsStrict DEF Before
  <2>3. QED
    BY <2>1, <2>2, FirstRanks
<1>2. QED
  BY <1>1, TypeInvariant, PTL

-----------------------------------------------------------------------------
(* Why the search stopped.                                                 *)

Converged == \A p \in Path : EvalState(cur).slack_ss[p] >= 0 /\ EvalState(cur).slack_ff[p] >= 0

\* Every way to the end has its reason, and the result records it.
ReasonInv ==
  /\ pc = "return" => now >= TimeLimit \/ stalled \/ Converged
  /\ pc = "done" => out.timed_out \/ out.solver_name = "path_heap_sa(stall)" \/ Converged

\* The loop is left for one of its three reasons, and the reason stays true.
LEMMA ReasonStep == SearchInv /\ ReasonInv /\ [Next]_vars => ReasonInv'
<1> SUFFICES ASSUME SearchInv, ReasonInv, [Next]_vars PROVE ReasonInv'
  OBVIOUS
<1>1. CASE Tick
  <2>1. now \in Nat /\ TimeLimit \in Nat
    BY ConfigAssumption DEF SearchInv, TypeInv, TypeOK
  <2>2. QED
    BY <1>1, <2>1 DEF Tick, ReasonInv, Converged, search, counters
<1>2. CASE LoopHead
  BY <1>2 DEF LoopHead, ReasonInv
<1>3. CASE Deadline
  BY <1>3 DEF Deadline, ReasonInv
<1>4. CASE NoViolation
  <2>1. CASE SetupOnly
    BY <1>4, <2>1 DEF NoViolation, ReasonInv
  <2>2. CASE ~SetupOnly
    <3>1. ctx \in Context /\ ctx = EvalState(cur)
      BY DEF SearchInv, TypeInv, TypeOK, ContextFresh
    <3>2. \A p \in Path : ctx.slack_ss[p] \in Int /\ ctx.slack_ff[p] \in Int
      BY <3>1 DEF Context
    <3>3. \A p \in Path : ~(ctx.slack_ss[p] < 0) /\ ~(ctx.slack_ff[p] < 0)
      BY <1>4, <2>2 DEF NoViolation, Violating, FixSetup, FixHold
    <3>4. Converged
      BY <3>1, <3>2, <3>3 DEF Converged
    <3>5. pc' = "return" /\ Converged'
      BY <1>4, <2>2, <3>4 DEF NoViolation, Converged, search
    <3>6. QED
      BY <3>5 DEF ReasonInv
  <2>3. QED
    BY <2>1, <2>2
<1>5. CASE MoveFails \/ PickFromEmpty
  BY <1>5 DEF MoveFails, PickFromEmpty, ReasonInv
<1>6. ASSUME NEW p \in Pool, NEW b \in MinBranches(p), Move(p, b) PROVE ReasonInv'
  BY <1>6 DEF Move, CountMove, ReasonInv
<1>7. CASE Return
  <2>1. pc = "return" /\ pc' = "done" /\ UNCHANGED <<search, counters>>
    BY <1>7 DEF Return
  <2>2. /\ out'.timed_out = (now >= TimeLimit)
        /\ stalled => out'.solver_name = "path_heap_sa(stall)"
    BY <1>7 DEF Return
  <2>3. QED
    BY <2>1, <2>2 DEF ReasonInv, Converged, search
<1>8. CASE UNCHANGED vars
  BY <1>8 DEF vars, ReasonInv, Converged, search, counters
<1>9. QED
  BY <1>1, <1>2, <1>3, <1>4, <1>5, <1>6, <1>7, <1>8 DEF Next, Step, Terminated

\* A result that is neither timed out nor stalled has no violation left.
THEOREM PlainResultIsConverged == Spec => []PlainResultMeansConverged
<1>1. Init => ReasonInv
  BY DEF Init, ReasonInv
<1>2. ReasonInv => PlainResultMeansConverged
  BY DEF ReasonInv, PlainResultMeansConverged, Converged
<1>3. QED
  BY <1>1, <1>2, ReasonStep, SearchInvariant, PTL DEF Spec

-----------------------------------------------------------------------------
(* Refinement of BestSoFar.                                                *)

\* Nothing is handed over before the end.
ResultAtEnd == pc # "done" => out = NoResult

\* No result is recorded before the end.
LEMMA ResultAtEndStep == ResultAtEnd /\ [Next]_vars => ResultAtEnd'
<1> SUFFICES ASSUME ResultAtEnd, [Next]_vars PROVE ResultAtEnd'
  OBVIOUS
<1>1. CASE Tick \/ LoopHead \/ Deadline \/ NoViolation \/ MoveFails \/ PickFromEmpty
           \/ Return \/ UNCHANGED vars
  BY <1>1
  DEF Tick, LoopHead, Deadline, NoViolation, MoveFails, PickFromEmpty, Return, vars, ResultAtEnd
<1>2. ASSUME NEW p \in Pool, NEW b \in MinBranches(p), Move(p, b) PROVE ResultAtEnd'
  BY <1>2 DEF Move, CountMove, ResultAtEnd
<1>3. QED
  BY <1>1, <1>2 DEF Next, Step, Terminated

\* The search starts as its abstraction does, optimising setup TNS.
LEMMA PromiseInit == Init => Promise!Init
<1> SUFFICES ASSUME Init PROVE Promise!Init
  OBVIOUS
<1>1. SetupOnly
  BY ConfigAssumption DEF Init, SetupOnly
<1>2. cur \in Assignment
  BY DelayAssumption DEF Init
<1>3. QED
  BY <1>1, <1>2 DEF Init, Promise!Init, Promise!NotYet, Merit, NoResult

\* The first iteration of the score phase changes the objective; no other loop
\* head is seen.
LEMMA PromiseLoopHead ==
  ASSUME SearchInv, ResultAtEnd, LoopHead
  PROVE  [Promise!Next]_(Promise!vars)
<1>1. /\ UNCHANGED <<cur, best, best_tns_ss, out>>
      /\ iterations' = iterations + 1
      /\ out = NoResult
  BY DEF LoopHead, ResultAtEnd
<1>2. iterations \in Int /\ SetupTnsOnlyIters \in Int
  BY ConfigAssumption DEF SearchInv, TypeInv, TypeOK
<1>3. CASE iterations' = SetupTnsOnlyIters + 1
  <2>1. SetupOnly /\ ~SetupOnly'
    BY <1>1, <1>2, <1>3 DEF SetupOnly
  <2>2. best_score' = ctx.score /\ ctx = EvalState(cur)
    BY <1>1, <1>3 DEF LoopHead, SwitchPhase, SearchInv, ContextFresh
  <2>3. Promise!Change
    BY <1>1, <2>1, <2>2 DEF Promise!Change, Promise!NotYet, Merit, NoResult
  <2>4. QED
    BY <2>3 DEF Promise!Next
<1>4. CASE iterations' # SetupTnsOnlyIters + 1
  <2>1. SetupOnly' = SetupOnly
    BY <1>1, <1>2, <1>4 DEF SetupOnly
  <2>2. best_score' = best_score
    BY <1>1, <1>4 DEF LoopHead, SwitchPhase
  <2>3. QED
    BY <1>1, <2>1, <2>2 DEF Promise!vars
<1>5. QED
  BY <1>3, <1>4

\* An accepted move is passed or kept by the measure of its phase.
LEMMA PromiseMove ==
  ASSUME SearchInv, ResultAtEnd, NEW p \in Pool, NEW b \in MinBranches(p), Move(p, b)
  PROVE  [Promise!Next]_(Promise!vars)
<1>1. PICK trial \in Moves(p, b) :
        /\ trial \in Assignment /\ EvalState(trial) \in Context
        /\ \/ UNCHANGED search
           \/ /\ cur' = trial /\ ctx' = EvalState(trial)
              /\ ~Improves(EvalState(trial))
              /\ UNCHANGED <<best, best_tns_ss, best_score>>
           \/ /\ cur' = trial /\ ctx' = EvalState(trial)
              /\ Improves(EvalState(trial))
              /\ best' = trial /\ best_score' = EvalState(trial).score
              /\ SetupOnly => best_tns_ss' = EvalState(trial).tns_ss
  BY MoveOutcome DEF SearchInv
<1>2. /\ out = NoResult /\ out' = out
      /\ SetupOnly' = SetupOnly
  BY DEF Move, ResultAtEnd, SetupOnly
<1>3. /\ EvalState(trial).tns_ss \in Int /\ EvalState(trial).score \in Int
      /\ best_tns_ss \in Int /\ best_score \in Int
  BY <1>1 DEF Context, SearchInv, TypeInv, TypeOK
<1>4. CASE UNCHANGED search
  BY <1>2, <1>4 DEF Promise!vars, search
<1>5. CASE /\ cur' = trial /\ ~Improves(EvalState(trial))
           /\ UNCHANGED <<best, best_tns_ss, best_score>>
  <2>1. Promise!Pass
    BY <1>1, <1>2, <1>3, <1>5
    DEF Promise!Pass, Promise!NotYet, Merit, Improves, NoResult
  <2>2. QED
    BY <2>1 DEF Promise!Next
<1>6. CASE /\ cur' = trial /\ Improves(EvalState(trial))
           /\ best' = trial /\ best_score' = EvalState(trial).score
           /\ SetupOnly => best_tns_ss' = EvalState(trial).tns_ss
  <2>1. Promise!Keep
    BY <1>1, <1>2, <1>3, <1>6
    DEF Promise!Keep, Promise!NotYet, Merit, Improves, NoResult
  <2>2. QED
    BY <2>1 DEF Promise!Next
<1>7. QED
  BY <1>1, <1>4, <1>5, <1>6

\* Every step of the search is one of BestSoFar or leaves it alone.
LEMMA PromiseNext ==
  SearchInv /\ ResultAtEnd /\ [Next]_vars => [Promise!Next]_(Promise!vars)
<1> SUFFICES ASSUME SearchInv, ResultAtEnd, [Next]_vars
             PROVE  [Promise!Next]_(Promise!vars)
  OBVIOUS
<1>1. CASE LoopHead
  BY <1>1, PromiseLoopHead
<1>2. ASSUME NEW p \in Pool, NEW b \in MinBranches(p), Move(p, b)
      PROVE  [Promise!Next]_(Promise!vars)
  BY <1>2, PromiseMove
<1>3. CASE Return
  <2>1. /\ out = NoResult
        /\ out' # NoResult /\ out'.solution = best
        /\ UNCHANGED <<search, iterations>>
    BY <1>3 DEF Return, ResultAtEnd, NoResult, counters
  <2>2. Promise!HandBack
    BY <2>1 DEF Promise!HandBack, Promise!NotYet, NoResult, SetupOnly, search
  <2>3. QED
    BY <2>2 DEF Promise!Next
<1>4. CASE Tick \/ Deadline \/ NoViolation \/ MoveFails \/ PickFromEmpty \/ UNCHANGED vars
  <2>1. UNCHANGED <<search, iterations, out>>
    BY <1>4
    DEF Tick, Deadline, NoViolation, MoveFails, PickFromEmpty, vars, counters
  <2>2. QED
    BY <2>1 DEF Promise!vars, SetupOnly, search
<1>5. QED
  BY <1>1, <1>2, <1>3, <1>4 DEF Next, Step, Terminated

\* The search implements BestSoFar: every solution that beats the value of its
\* phase is kept, and the one kept last is handed back.
THEOREM ImplementsBestSoFar == Spec => HandsBackTheBest
<1>1. Init => ResultAtEnd
  BY DEF Init, ResultAtEnd
<1>2. Spec => []ResultAtEnd
  BY <1>1, ResultAtEndStep, PTL DEF Spec
<1>3. QED
  BY <1>2, SearchInvariant, PromiseInit, PromiseNext, PTL
  DEF Spec, HandsBackTheBest, Promise!Spec

-----------------------------------------------------------------------------
(* The choice of a branch.                                                 *)

\* What keeps the index in bounds: no branch is on more than n_br + 1 paths.
FewPathsPerBranch == \A b \in Branch : BranchPathCount(b) <= Cardinality(Branch) + 1

\* Among finitely many branches one lies on the fewest paths.
LEMMA SomeBranchAttainsMinimum ==
  ASSUME FewPathsPerBranch, TypeOK, NEW p \in Pool, Eligible(p) # {}
  PROVE  MinBranches(p) # {}
<1> DEFINE counts == {BranchPathCount(b) : b \in Eligible(p)}
<1>1. Eligible(p) \subseteq Branch
  BY GraphAssumption DEF Eligible, CandidateBranches, Pool, Violating
<1>2. \A b \in Branch : BranchPathCount(b) \in Nat
  <2> TAKE b \in Branch
  <2>1. IsFiniteSet({p_1 \in Path : b \in Launch[p_1] \cup Capture[p_1]})
    BY GraphAssumption, FS_Subset
  <2>2. QED
    BY <2>1, FS_CardinalityType DEF BranchPathCount
<1>3. counts \in SUBSET Nat /\ counts # {}
  BY <1>1, <1>2
<1>4. PICK n \in counts : \A m \in counts : n <= m
  BY <1>3, LeastNatural
<1>5. PICK b \in Eligible(p) : n = BranchPathCount(b)
  BY <1>4
<1>6. b \in MinBranches(p)
  BY <1>1, <1>4, <1>5 DEF MinBranches, FewPathsPerBranch
<1>7. QED
  BY <1>6

\* Under that condition every move picks one of its candidates.
THEOREM ChoiceIsDefined == FewPathsPerBranch => (Spec => []MoveHasABranch)
<1> SUFFICES ASSUME FewPathsPerBranch PROVE Spec => []MoveHasABranch
  OBVIOUS
<1>1. Init => MoveHasABranch
  BY DEF Init, MoveHasABranch
<1>2. TypeInv /\ MoveHasABranch /\ [Next]_vars => MoveHasABranch'
  <2> SUFFICES ASSUME TypeInv, MoveHasABranch, [Next]_vars PROVE MoveHasABranch'
    OBVIOUS
  <2>1. ~PickFromEmpty
    BY SomeBranchAttainsMinimum DEF PickFromEmpty, TypeInv
  <2>2. ASSUME NEW p \in Pool, NEW b \in MinBranches(p), Move(p, b) PROVE MoveHasABranch'
    BY <2>2 DEF Move, CountMove, MoveHasABranch
  <2>3. CASE Tick \/ LoopHead \/ Deadline \/ NoViolation \/ MoveFails \/ Return \/ UNCHANGED vars
    BY <2>3
    DEF Tick, LoopHead, Deadline, NoViolation, MoveFails, Return, vars, MoveHasABranch
  <2>4. QED
    BY <2>1, <2>2, <2>3 DEF Next, Step, Terminated
<1>3. QED
  BY <1>1, <1>2, TypeInvariant, PTL DEF Spec
=============================================================================
