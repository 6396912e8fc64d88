------------------------------ MODULE SumFacts ------------------------------
(***************************************************************************)
(* Facts about the sums the figures and counters of sa_solver are made of: *)
(* arrival times, TNS, areas, gradients, attempts.  SumFunction and        *)
(* SumFunctionOnSet take the elements in the order of CHOOSE; the facts    *)
(* show that the order does not matter.                                    *)
(*                                                                         *)
(* Induction over a finite set is argued on a least subset for which the   *)
(* claim would fail.                                                       *)
(***************************************************************************)
EXTENDS Functions, FiniteSets, FiniteSetTheorems, WellFoundedInduction, TLAPS

\* A family of subsets of a finite set that is not empty has a member
\* of which no proper subset belongs to it.
LEMMA LeastSubset ==
  ASSUME NEW S, IsFiniteSet(S), NEW Bad \in SUBSET (SUBSET S), Bad # {}
  PROVE  \E T \in Bad : \A U \in SUBSET T : U # T => U \notin Bad
<1>1. IsWellFoundedOn(StrictSubsetOrdering(S), SUBSET S)
  BY FS_StrictSubsetOrderingWellFounded, FS_FiniteSubsetsOfFinite, Zenon
<1>2. PICK T \in Bad : \A U \in Bad : ~(<<U, T>> \in StrictSubsetOrdering(S))
  BY <1>1, WFMin, Zenon
<1>3. ASSUME NEW U \in SUBSET T, U # T, U \in Bad PROVE FALSE
  <2>1. <<U, T>> \in StrictSubsetOrdering(S)
    BY <1>3 DEF StrictSubsetOrdering
  <2>2. QED
    BY <1>2, <1>3, <2>1
<1>4. QED
  BY <1>2, <1>3

-----------------------------------------------------------------------------
(* The recursion behind a sum has a solution, and only one.                *)

\* The element the recursion takes out of a set.
First(s) == CHOOSE x \in s : TRUE

SumAt(g, f, s) == IF s = {} THEN 0 ELSE f[First(s)] + g[s \ {First(s)}]

IsSum(g, f, S) == g = [s \in SUBSET S |-> SumAt(g, f, s)]

\* The sum over a set is the value of the chosen solution.
LEMMA SumIsChosen ==
  ASSUME NEW f, NEW S
  PROVE  SumFunctionOnSet(f, S) = (CHOOSE g : IsSum(g, f, S))[S]
BY DEF SumFunctionOnSet, FoldFunctionOnSet, MapThenFoldSet, IsSum, SumAt, First

\* Two solutions, for different sets, agree on what they have in common.
LEMMA SumsAgree ==
  ASSUME NEW S, IsFiniteSet(S), NEW T, NEW f, NEW g, NEW h,
         IsSum(g, f, S), IsSum(h, f, T)
  PROVE  \A s \in SUBSET (S \cap T) : g[s] = h[s]
<1> DEFINE bad == {s \in SUBSET (S \cap T) : g[s] # h[s]}
<1>1. ASSUME bad # {} PROVE FALSE
  <2>1. PICK s \in bad : \A u \in SUBSET s : u # s => u \notin bad
    <3>1. bad \in SUBSET (SUBSET S)
      OBVIOUS
    <3> HIDE DEF bad
    <3>2. QED
      BY <1>1, <3>1, LeastSubset
  <2>2. g[s] = SumAt(g, f, s) /\ h[s] = SumAt(h, f, s)
    BY DEF IsSum
  <2>3. CASE s = {}
    BY <2>2, <2>3 DEF SumAt
  <2>4. CASE s # {}
    <3>1. First(s) \in s
      BY <2>4 DEF First
    <3>2. g[s \ {First(s)}] = h[s \ {First(s)}]
      BY <2>1, <3>1
    <3>3. QED
      BY <2>1, <2>2, <2>4, <3>2 DEF SumAt
  <2>5. QED
    BY <2>3, <2>4
<1>2. QED
  BY <1>1

\* A solution exists for every finite set.
LEMMA SumExists ==
  ASSUME NEW S, IsFiniteSet(S), NEW f
  PROVE  \E g : IsSum(g, f, S)
<1> DEFINE bad == {T \in SUBSET S : ~ \E g : IsSum(g, f, T)}
<1>1. ASSUME bad # {} PROVE FALSE
  <2>1. PICK T \in bad : \A U \in SUBSET T : U # T => U \notin bad
    <3>1. bad \in SUBSET (SUBSET S)
      OBVIOUS
    <3> HIDE DEF bad
    <3>2. QED
      BY <1>1, <3>1, LeastSubset
  <2> DEFINE V(u) == SumFunctionOnSet(f, u)
             h == [s \in SUBSET T |-> IF s = {} THEN 0 ELSE f[First(s)] + V(s \ {First(s)})]
  <2>2. ASSUME NEW u \in SUBSET T, u # T
        PROVE  \E g : IsSum(g, f, u) /\ V(u) = g[u]
    <3>1. \E g : IsSum(g, f, u)
      BY <2>1, <2>2
    <3>2. IsSum(CHOOSE g : IsSum(g, f, u), f, u)
      <4> HIDE DEF IsSum
      <4>1. QED
        BY <3>1
    <3>3. QED
      BY <3>2, SumIsChosen
  <2>3. ASSUME NEW u \in SUBSET T, u # T
        PROVE  V(u) = h[u]
    <3>1. PICK g : IsSum(g, f, u) /\ V(u) = g[u]
      BY <2>2, <2>3
    <3>2. V(u) = SumAt(g, f, u)
      BY <3>1 DEF IsSum
    <3>3. CASE u = {}
      BY <3>2, <3>3 DEF SumAt
    <3>4. CASE u # {}
      <4> DEFINE w == u \ {First(u)}
      <4>1. First(u) \in u
        BY <3>4 DEF First
      <4>2. w \in SUBSET T /\ w # T /\ w \in SUBSET u
        BY <4>1
      <4>3. PICK k : IsSum(k, f, w) /\ V(w) = k[w]
        BY <2>2, <4>2
      <4>4. IsFiniteSet(w)
        BY <4>2, FS_Subset
      <4>5. k[w] = g[w]
        BY <3>1, <4>2, <4>3, <4>4, SumsAgree
      <4>6. QED
        BY <3>2, <3>4, <4>3, <4>5 DEF SumAt
    <3>5. QED
      BY <3>3, <3>4
  <2>4. ASSUME NEW s \in SUBSET T PROVE h[s] = SumAt(h, f, s)
    <3>1. CASE s = {}
      BY <3>1 DEF SumAt
    <3>2. CASE s # {}
      <4> DEFINE w == s \ {First(s)}
      <4>1. w \in SUBSET T /\ w # T
        BY <3>2 DEF First
      <4>2. h[s] = f[First(s)] + V(w)
        BY <3>2
      <4>3. V(w) = h[w]
        BY <2>3, <4>1
      <4> HIDE DEF h
      <4>4. QED
        BY <3>2, <4>2, <4>3 DEF SumAt
    <3>3. QED
      BY <3>1, <3>2
  <2>5. h = [s \in SUBSET T |-> h[s]]
    OBVIOUS
  <2> HIDE DEF h
  <2>6. IsSum(h, f, T)
    BY <2>4, <2>5 DEF IsSum
  <2>7. QED
    BY <2>1, <2>6
<1>2. QED
  BY <1>1

\* The sum over a set: 0 for the empty set, else the first element and the
\* sum over the others.
LEMMA SumStep ==
  ASSUME NEW S, IsFiniteSet(S), NEW f
  PROVE  /\ S = {} => SumFunctionOnSet(f, S) = 0
         /\ S # {} => /\ First(S) \in S
                      /\ SumFunctionOnSet(f, S)
                         = f[First(S)] + SumFunctionOnSet(f, S \ {First(S)})
<1>1. \A T \in SUBSET S : \E g : IsSum(g, f, T) /\ SumFunctionOnSet(f, T) = g[T]
  <2>1. ASSUME NEW T \in SUBSET S
        PROVE  \E g : IsSum(g, f, T) /\ SumFunctionOnSet(f, T) = g[T]
    <3>1. \E g : IsSum(g, f, T)
      BY FS_Subset, SumExists
    <3>2. IsSum(CHOOSE g : IsSum(g, f, T), f, T)
      <4> HIDE DEF IsSum
      <4>1. QED
        BY <3>1
    <3>3. QED
      BY <3>2, SumIsChosen
  <2>2. QED
    BY <2>1
<1>2. PICK g : IsSum(g, f, S) /\ SumFunctionOnSet(f, S) = g[S]
  BY <1>1
<1>3. SumFunctionOnSet(f, S) = SumAt(g, f, S)
  BY <1>2 DEF IsSum
<1>4. CASE S # {}
  <2> DEFINE w == S \ {First(S)}
  <2>1. First(S) \in S
    BY <1>4 DEF First
  <2>2. PICK k : IsSum(k, f, w) /\ SumFunctionOnSet(f, w) = k[w]
    BY <1>1
  <2>3. k[w] = g[w]
    <3>1. IsFiniteSet(w)
      BY FS_Subset
    <3>2. QED
      BY <1>2, <2>2, <3>1, SumsAgree
  <2>4. QED
    BY <1>3, <1>4, <2>1, <2>2, <2>3 DEF SumAt
<1>5. QED
  BY <1>3, <1>4 DEF SumAt

-----------------------------------------------------------------------------
(* What follows for every sum of integers.                                 *)

Sum(f, S) == SumFunctionOnSet(f, S)

\* A sum of integers is an integer.
LEMMA SumIsInt ==
  ASSUME NEW S, IsFiniteSet(S), NEW f, \A x \in S : f[x] \in Int
  PROVE  Sum(f, S) \in Int
<1> DEFINE bad == {T \in SUBSET S : Sum(f, T) \notin Int}
<1>1. ASSUME bad # {} PROVE FALSE
  <2>1. PICK T \in bad : \A U \in SUBSET T : U # T => U \notin bad
    <3>1. bad \in SUBSET (SUBSET S)
      OBVIOUS
    <3> HIDE DEF bad
    <3>2. QED
      BY <1>1, <3>1, LeastSubset
  <2>2. IsFiniteSet(T)
    BY FS_Subset
  <2>3. CASE T = {}
    BY <2>1, <2>2, <2>3, SumStep DEF Sum
  <2>4. CASE T # {}
    <3>1. First(T) \in T /\ Sum(f, T) = f[First(T)] + Sum(f, T \ {First(T)})
      BY <2>2, <2>4, SumStep DEF Sum
    <3>2. Sum(f, T \ {First(T)}) \in Int
      BY <2>1, <3>1
    <3>3. QED
      BY <2>1, <3>1, <3>2
  <2>5. QED
    BY <2>3, <2>4
<1>2. QED
  BY <1>1

\* Any element may be taken out first.
LEMMA SumWithout ==
  ASSUME NEW S, IsFiniteSet(S), NEW f, \A x \in S : f[x] \in Int, NEW x \in S
  PROVE  Sum(f, S) = f[x] + Sum(f, S \ {x})
<1> DEFINE bad == {T \in SUBSET S : \E y \in T : Sum(f, T) # f[y] + Sum(f, T \ {y})}
<1>1. ASSUME bad # {} PROVE FALSE
  <2>1. PICK T \in bad : \A U \in SUBSET T : U # T => U \notin bad
    <3>1. bad \in SUBSET (SUBSET S)
      OBVIOUS
    <3> HIDE DEF bad
    <3>2. QED
      BY <1>1, <3>1, LeastSubset
  <2>2. PICK y \in T : Sum(f, T) # f[y] + Sum(f, T \ {y})
    BY <2>1
  <2> DEFINE c == First(T)
             both == T \ {c, y}
  <2>3. T \in SUBSET S /\ IsFiniteSet(T) /\ \A U \in SUBSET T : IsFiniteSet(U)
    BY <2>1, FS_Subset
  <2>4. c \in T /\ Sum(f, T) = f[c] + Sum(f, T \ {c})
    BY <2>2, <2>3, SumStep DEF Sum
  <2>5. c # y
    BY <2>2, <2>4
  <2>6. Sum(f, T \ {c}) = f[y] + Sum(f, both)
    <3>1. T \ {c} \notin bad /\ y \in T \ {c} /\ (T \ {c}) \ {y} = both
      BY <2>1, <2>4, <2>5
    <3>2. QED
      BY <2>3, <3>1
  <2>7. Sum(f, T \ {y}) = f[c] + Sum(f, both)
    <3>1. T \ {y} \notin bad /\ c \in T \ {y} /\ (T \ {y}) \ {c} = both
      BY <2>1, <2>4, <2>5
    <3>2. QED
      BY <2>3, <3>1
  <2>8. Sum(f, both) \in Int
    <3>1. IsFiniteSet(both) /\ \A z \in both : f[z] \in Int
      BY <2>3
    <3>2. QED
      BY <3>1, SumIsInt
  <2>9. f[c] \in Int /\ f[y] \in Int
    BY <2>3, <2>4
  <2> HIDE DEF both, c
  <2>10. QED
    BY <2>2, <2>4, <2>6, <2>7, <2>8, <2>9
<1>2. S \notin bad
  BY <1>1
<1>3. QED
  BY <1>2

\* A larger function has a larger sum, an equal one the same.
LEMMA SumIsMonotone ==
  ASSUME NEW S, IsFiniteSet(S), NEW f, NEW g,
         \A x \in S : f[x] \in Int /\ g[x] \in Int /\ f[x] <= g[x]
  PROVE  Sum(f, S) <= Sum(g, S)
<1> DEFINE bad == {T \in SUBSET S : ~(Sum(f, T) <= Sum(g, T))}
<1>1. ASSUME bad # {} PROVE FALSE
  <2>1. PICK T \in bad : \A U \in SUBSET T : U # T => U \notin bad
    <3>1. bad \in SUBSET (SUBSET S)
      OBVIOUS
    <3> HIDE DEF bad
    <3>2. QED
      BY <1>1, <3>1, LeastSubset
  <2>2. T \in SUBSET S /\ IsFiniteSet(T)
    BY <2>1, FS_Subset
  <2>3. CASE T = {}
    <3>1. Sum(f, T) = 0 /\ Sum(g, T) = 0
      BY <2>2, <2>3, SumStep DEF Sum
    <3>2. QED
      BY <2>1, <3>1
  <2>4. CASE T # {}
    <3> DEFINE c == First(T)
               rest == T \ {c}
    <3>1. /\ c \in T
          /\ Sum(f, T) = f[c] + Sum(f, rest)
          /\ Sum(g, T) = g[c] + Sum(g, rest)
      BY <2>2, <2>4, SumStep DEF Sum
    <3>2. Sum(f, rest) <= Sum(g, rest)
      BY <2>1, <3>1
    <3>3. Sum(f, rest) \in Int /\ Sum(g, rest) \in Int
      <4>1. IsFiniteSet(rest) /\ \A z \in rest : f[z] \in Int /\ g[z] \in Int
        BY <2>2, FS_Subset
      <4>2. QED
        BY <4>1, SumIsInt
    <3>4. f[c] \in Int /\ g[c] \in Int /\ f[c] <= g[c]
      BY <2>2, <3>1
    <3> HIDE DEF c, rest
    <3>5. QED
      BY <2>1, <3>1, <3>2, <3>3, <3>4
  <2>5. QED
    BY <2>3, <2>4
<1>2. S \notin bad
  BY <1>1
<1>3. QED
  BY <1>2

\* Equal values have equal sums.
LEMMA SumIsLocal ==
  ASSUME NEW S, IsFiniteSet(S), NEW f, NEW g,
         \A x \in S : f[x] \in Int /\ g[x] = f[x]
  PROVE  Sum(f, S) = Sum(g, S)
<1>1. \A x \in S : f[x] \in Int /\ g[x] \in Int /\ f[x] <= g[x] /\ g[x] <= f[x]
  OBVIOUS
<1>2. Sum(f, S) <= Sum(g, S) /\ Sum(g, S) <= Sum(f, S)
  BY <1>1, SumIsMonotone
<1>3. Sum(f, S) \in Int /\ Sum(g, S) \in Int
  BY <1>1, SumIsInt
<1>4. QED
  BY <1>2, <1>3

\* Elements that add nothing may be left out.
LEMMA SumOverRelevant ==
  ASSUME NEW S, IsFiniteSet(S), NEW T \in SUBSET S, NEW f,
         \A x \in S : f[x] \in Int, \A x \in S \ T : f[x] = 0
  PROVE  Sum(f, S) = Sum(f, T)
<1> DEFINE bad == {U \in SUBSET S : Sum(f, U) # Sum(f, U \cap T)}
<1>1. ASSUME bad # {} PROVE FALSE
  <2>1. PICK U \in bad : \A W \in SUBSET U : W # U => W \notin bad
    <3>1. bad \in SUBSET (SUBSET S)
      OBVIOUS
    <3> HIDE DEF bad
    <3>2. QED
      BY <1>1, <3>1, LeastSubset
  <2>2. U \in SUBSET S /\ \A W \in SUBSET U : IsFiniteSet(W) /\ \A x \in W : f[x] \in Int
    BY <2>1, FS_Subset
  <2>3. PICK x \in U : x \notin T
    <3>1. CASE U \subseteq T
      <4>1. U \cap T = U
        BY <3>1
      <4>2. QED
        BY <2>1, <4>1
    <3>2. QED
      BY <3>1
  <2>4. Sum(f, U) = f[x] + Sum(f, U \ {x})
    BY <2>2, SumWithout
  <2>5. f[x] = 0 /\ Sum(f, U \ {x}) \in Int
    BY <2>2, <2>3, SumIsInt
  <2>6. Sum(f, U \ {x}) = Sum(f, (U \ {x}) \cap T)
    BY <2>1
  <2>7. (U \ {x}) \cap T = U \cap T
    BY <2>3
  <2>8. QED
    BY <2>1, <2>4, <2>5, <2>6, <2>7
<1>2. S \notin bad /\ S \cap T = T
  BY <1>1
<1>3. QED
  BY <1>2

\* Where only one element counts, the sum is its value.
LEMMA SumOfOne ==
  ASSUME NEW S, IsFiniteSet(S), NEW f, NEW x \in S, f[x] \in Int,
         \A y \in S \ {x} : f[y] = 0
  PROVE  Sum(f, S) = f[x]
<1>1. \A y \in S : f[y] \in Int
  OBVIOUS
<1>2. Sum(f, S) = Sum(f, {x})
  BY <1>1, SumOverRelevant
<1>3. IsFiniteSet({x}) /\ First({x}) = x /\ {x} \ {x} = {} /\ IsFiniteSet({})
  BY FS_Singleton, FS_EmptySet DEF First
<1>4. Sum(f, {x}) = f[x] + Sum(f, {}) /\ Sum(f, {}) = 0
  BY <1>3, SumStep DEF Sum
<1>5. QED
  BY <1>2, <1>4

-----------------------------------------------------------------------------
(* The same of SumFunction.                                                *)

\* The sum of a function is the sum over its domain.
LEMMA SumFunctionIsSum ==
  ASSUME NEW f
  PROVE  SumFunction(f) = Sum(f, DOMAIN f)
BY DEF SumFunction, Sum

\* Functions that agree where the summands are not 0 have the same sum.
LEMMA SumWithoutZeros ==
  ASSUME NEW E, IsFiniteSet(E), NEW S \in SUBSET E, NEW f, NEW g, DOMAIN f = E, DOMAIN g = S,
         \A x \in S : g[x] = f[x] /\ f[x] \in Int, \A x \in E \ S : f[x] = 0
  PROVE  SumFunction(g) = SumFunction(f)
<1>1. IsFiniteSet(S)
  BY FS_Subset
<1>2. SumFunction(f) = Sum(f, E) /\ SumFunction(g) = Sum(g, S)
  BY <1>1, SumFunctionIsSum
<1>3. \A x \in E : f[x] \in Int
  OBVIOUS
<1>4. Sum(f, E) = Sum(f, S)
  BY <1>3, SumOverRelevant
<1>5. Sum(f, S) = Sum(g, S)
  BY <1>1, SumIsLocal
<1>6. QED
  BY <1>2, <1>4, <1>5

\* A sum of integers is an integer.
LEMMA SumFunctionIsInt ==
  ASSUME NEW S, IsFiniteSet(S), NEW f \in [S -> Int]
  PROVE  SumFunction(f) \in Int
BY SumFunctionIsSum, SumIsInt

\* A larger function has a larger sum.
LEMMA SumFunctionIsMonotone ==
  ASSUME NEW S, IsFiniteSet(S), NEW f \in [S -> Int], NEW g \in [S -> Int],
         \A x \in S : f[x] <= g[x]
  PROVE  SumFunction(f) <= SumFunction(g)
<1>1. Sum(f, S) <= Sum(g, S)
  BY SumIsMonotone
<1>2. QED
  BY <1>1, SumFunctionIsSum

\* A sum of naturals is a natural.
LEMMA SumOfNaturals ==
  ASSUME NEW S, IsFiniteSet(S), NEW f \in [S -> Nat]
  PROVE  SumFunction(f) \in Nat
<1> DEFINE zero == [x \in S |-> 0]
<1>1. zero \in [S -> Int] /\ f \in [S -> Int] /\ \A x \in S : zero[x] <= f[x]
  OBVIOUS
<1>2. SumFunction(zero) <= SumFunction(f)
  BY <1>1, SumFunctionIsMonotone
<1>3. SumFunction(zero) = 0
  <2>1. Sum(zero, S) = Sum(zero, {})
    BY SumOverRelevant
  <2>2. Sum(zero, {}) = 0
    BY SumStep, FS_EmptySet DEF Sum
  <2>3. QED
    BY <2>1, <2>2, SumFunctionIsSum
<1>4. SumFunction(f) \in Int
  BY <1>1, SumFunctionIsInt
<1>5. QED
  BY <1>2, <1>3, <1>4

\* One value changes: the sum changes by as much.
LEMMA SumOfUpdate ==
  ASSUME NEW S, IsFiniteSet(S), NEW f \in [S -> Int], NEW x \in S, NEW v \in Int
  PROVE  SumFunction([f EXCEPT ![x] = v]) = SumFunction(f) - f[x] + v
<1> DEFINE g == [f EXCEPT ![x] = v]
           rest == S \ {x}
<1>1. g \in [S -> Int] /\ g[x] = v /\ \A y \in rest : g[y] = f[y] /\ f[y] \in Int
  OBVIOUS
<1> HIDE DEF g
<1>2. SumFunction(g) = v + Sum(g, rest) /\ SumFunction(f) = f[x] + Sum(f, rest)
  <2>1. Sum(g, S) = g[x] + Sum(g, rest) /\ Sum(f, S) = f[x] + Sum(f, rest)
    BY <1>1, SumWithout
  <2>2. QED
    BY <1>1, <2>1, SumFunctionIsSum
<1>3. IsFiniteSet(rest)
  BY FS_Subset
<1>4. Sum(f, rest) = Sum(g, rest) /\ Sum(f, rest) \in Int
  BY <1>1, <1>3, SumIsLocal, SumIsInt
<1>5. SumFunction(g) = SumFunction(f) - f[x] + v
  BY <1>1, <1>2, <1>4
<1>6. QED
  BY <1>5 DEF g
=============================================================================
