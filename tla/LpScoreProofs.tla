--------------------------- MODULE LpScoreProofs ---------------------------
(***************************************************************************)
(* What lp_compute_score says, for every baseline and every result.        *)
(***************************************************************************)
EXTENDS LpScore, TLAPS

\* The denominators of the terms, in their order.
Denominators(base) ==
  <<Positive(base.tns_ss), Positive(base.wns_ss),
    Positive(base.tns_ff), Positive(base.wns_ff), base.area>>

-----------------------------------------------------------------------------

\* A factor divides its product without rest.
LEMMA DivideProduct ==
  ASSUME NEW a \in Nat \ {0}, NEW b \in Int
  PROVE  (a * b) \div a = b
OBVIOUS

\* What is left of a figure is a natural.
LEMMA PositiveType == \A x \in Int : Positive(x) \in Nat
BY DEF Positive

\* A denominator is never 0.
LEMMA NonZeroType ==
  \A x \in Nat : NonZero(x) \in Nat \ {0} /\ (x # 0 => NonZero(x) = x)
BY DEF NonZero

\* Five denominators, and the scale as a multiple of each of them.
LEMMA ScaleOfBaseline ==
  ASSUME NEW base \in Figures
  PROVE  /\ Denominators(base) \in [1 .. 5 -> Nat]
         /\ ScoreScale(base) \in Nat \ {0}
         /\ \A i \in 1 .. 5 : \E rest \in Nat \ {0} :
              ScoreScale(base) = NonZero(Denominators(base)[i]) * rest
<1> DEFINE z(i) == NonZero(Denominators(base)[i])
<1>1. Denominators(base) \in [1 .. 5 -> Nat]
  BY PositiveType DEF Denominators, Figures
<1>2. /\ z(1) \in Nat \ {0} /\ z(2) \in Nat \ {0} /\ z(3) \in Nat \ {0}
      /\ z(4) \in Nat \ {0} /\ z(5) \in Nat \ {0}
  BY <1>1, NonZeroType
<1>3. ScoreScale(base) = z(1) * z(2) * z(3) * z(4) * z(5)
  BY DEF ScoreScale, Denominators
<1> HIDE DEF z
<1>4. \A a, b \in Nat \ {0} : a * b \in Nat \ {0}
  OBVIOUS
<1>5. ScoreScale(base) \in Nat \ {0}
  <2>1. z(1) * z(2) \in Nat \ {0}
    BY <1>2, <1>4
  <2>2. z(1) * z(2) * z(3) \in Nat \ {0}
    BY <1>2, <1>4, <2>1
  <2>3. z(1) * z(2) * z(3) * z(4) \in Nat \ {0}
    BY <1>2, <1>4, <2>2
  <2>4. QED
    BY <1>2, <1>3, <1>4, <2>3
<1>6. ASSUME NEW i \in 1 .. 5
      PROVE  \E rest \in Nat \ {0} : ScoreScale(base) = z(i) * rest
  <2> DEFINE r1 == z(2) * z(3) * z(4) * z(5)
             r2 == z(1) * z(3) * z(4) * z(5)
             r3 == z(1) * z(2) * z(4) * z(5)
             r4 == z(1) * z(2) * z(3) * z(5)
             r5 == z(1) * z(2) * z(3) * z(4)
  <2>1. \A p, q, r, s \in Nat \ {0} : p * q * r * s \in Nat \ {0}
    <3>1. ASSUME NEW p \in Nat \ {0}, NEW q \in Nat \ {0},
                 NEW r \in Nat \ {0}, NEW s \in Nat \ {0}
          PROVE  p * q * r * s \in Nat \ {0}
      <4>1. p * q \in Nat \ {0}
        BY <1>4
      <4>2. p * q * r \in Nat \ {0}
        BY <1>4, <4>1
      <4>3. QED
        BY <1>4, <4>2
    <3>2. QED
      BY <3>1
  <2>2. /\ r1 \in Nat \ {0} /\ r2 \in Nat \ {0} /\ r3 \in Nat \ {0}
        /\ r4 \in Nat \ {0} /\ r5 \in Nat \ {0}
    <3> HIDE DEF z
    <3>1. QED
      BY <1>2, <2>1, Zenon
  <2>3. /\ ScoreScale(base) = z(1) * r1
        /\ ScoreScale(base) = z(2) * r2
        /\ ScoreScale(base) = z(3) * r3
        /\ ScoreScale(base) = z(4) * r4
        /\ ScoreScale(base) = z(5) * r5
    BY <1>2, <1>3
  <2> HIDE DEF r1, r2, r3, r4, r5
  <2>4. CASE i = 1
    BY <2>2, <2>3, <2>4
  <2>5. CASE i = 2
    BY <2>2, <2>3, <2>5
  <2>6. CASE i = 3
    BY <2>2, <2>3, <2>6
  <2>7. CASE i = 4
    BY <2>2, <2>3, <2>7
  <2>8. CASE i = 5
    BY <2>2, <2>3, <2>8
  <2>9. QED
    BY <2>4, <2>5, <2>6, <2>7, <2>8
<1>7. QED
  <2>1. \A i \in 1 .. 5 : \E rest \in Nat \ {0} : ScoreScale(base) = z(i) * rest
    BY <1>6
  <2>2. QED
    BY <1>1, <1>5, <2>1 DEF z

\* A figure that is as it was counts as a whole.
LEMMA RatioOfSame ==
  ASSUME NEW den \in Nat, NEW rest \in Nat \ {0}
  PROVE  TermRatio(den, den, NonZero(den) * rest) = NonZero(den) * rest
BY DivideProduct DEF TermRatio, NonZero

\* A larger figure never has the smaller ratio, if its baseline was not 0.
LEMMA RatioMonotone ==
  ASSUME NEW den \in Nat \ {0}, NEW rest \in Nat \ {0},
         NEW x \in Nat, NEW y \in Nat, x <= y
  PROVE  TermRatio(x, den, NonZero(den) * rest) <= TermRatio(y, den, NonZero(den) * rest)
<1>1. TermRatio(x, den, NonZero(den) * rest) = x * rest
  BY DivideProduct DEF TermRatio, NonZero
<1>2. TermRatio(y, den, NonZero(den) * rest) = y * rest
  BY DivideProduct DEF TermRatio, NonZero
<1>3. QED
  BY <1>1, <1>2

\* The score term by term.
LEMMA ScoreByTerms ==
  ASSUME NEW base \in Figures, NEW m \in Figures
  PROVE  LET term(i) == ScoreScale(base)
                        - TermRatio(Denominators(m)[i], Denominators(base)[i], ScoreScale(base))
         IN  Score(m, base) = term(1) + term(2) + term(3) + term(4) + term(5)
BY DEF Score, Denominators

-----------------------------------------------------------------------------

\* lp_compute_score gives the initial design, compared with itself, the score
\* 0, whatever its figures are: a clean figure counts as unchanged.
THEOREM BaselineScoresZero == \A m \in Figures : Score(m, m) = 0
<1> SUFFICES ASSUME NEW m \in Figures PROVE Score(m, m) = 0
  OBVIOUS
<1>1. \A i \in 1 .. 5 :
        TermRatio(Denominators(m)[i], Denominators(m)[i], ScoreScale(m)) = ScoreScale(m)
  BY ScaleOfBaseline, RatioOfSame
<1>2. QED
  BY <1>1, ScaleOfBaseline, ScoreByTerms

\* Where no figure of the baseline is 0, the score does what architect.md says
\* of it: of two results the one that is no worse in any figure does not
\* score less.  A figure whose baseline is 0 breaks this (lp_score.cpp:20).
THEOREM ScoreIsMonotone ==
  ASSUME NEW base \in Figures, \A i \in 1 .. 5 : Denominators(base)[i] # 0,
         NEW better \in Figures, NEW worse \in Figures,
         \A i \in 1 .. 5 : Denominators(better)[i] <= Denominators(worse)[i]
  PROVE  Score(better, base) >= Score(worse, base)
<1> DEFINE ratio(m, i) ==
      TermRatio(Denominators(m)[i], Denominators(base)[i], ScoreScale(base))
<1>1. /\ Denominators(better) \in [1 .. 5 -> Nat]
      /\ Denominators(worse) \in [1 .. 5 -> Nat]
      /\ Denominators(base) \in [1 .. 5 -> Nat]
      /\ ScoreScale(base) \in Nat
  BY ScaleOfBaseline
<1>2. ASSUME NEW i \in 1 .. 5
      PROVE  /\ ratio(better, i) \in Int /\ ratio(worse, i) \in Int
             /\ ratio(better, i) <= ratio(worse, i)
  <2>1. PICK rest \in Nat \ {0} : ScoreScale(base) = NonZero(Denominators(base)[i]) * rest
    BY ScaleOfBaseline
  <2>2. ratio(better, i) <= ratio(worse, i)
    BY <1>1, <2>1, RatioMonotone
  <2>3. ratio(better, i) \in Int /\ ratio(worse, i) \in Int
    BY <1>1, <2>1, DivideProduct DEF TermRatio, NonZero
  <2>4. QED
    BY <2>2, <2>3
<1> HIDE DEF ratio
<1>3. QED
  BY <1>1, <1>2, ScoreByTerms DEF ratio
=============================================================================
