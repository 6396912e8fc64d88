-------------------------- MODULE BufferChainFacts --------------------------
(***************************************************************************)
(* Facts about the reference table of lp_buffer_dp.hpp, for every library: *)
(* types, the recursion on the key, and what the table says of a cell that *)
(* stands alone.                                                           *)
(***************************************************************************)
EXTENDS BufferChains, SequenceTheorems, WellFoundedInduction, TLAPS

-----------------------------------------------------------------------------
(* Types.                                                                  *)

\* A set of naturals that is not empty has a least element.
LEMMA Least ==
  ASSUME NEW S \in SUBSET Nat, S # {}
  PROVE  \E x \in S : \A y \in S : x <= y
<1> DEFINE R == OpToRel(<, Nat)
<1>1. R = {pair \in Nat \X Nat : pair[1] < pair[2]}
  BY Zenon DEF OpToRel
<1>2. IsWellFoundedOn(R, Nat)
  BY ONLY NatLessThanWellFounded, Zenon
<1> HIDE DEF R
<1>3. \E x \in S : \A y \in S : ~(<<y, x>> \in R)
  BY <1>2, WFMin, Zenon
<1>4. PICK x \in S : \A y \in S : ~(<<y, x>> \in R)
  BY <1>3
<1>5. ASSUME NEW y \in S PROVE x <= y
  <2>1. CASE y < x
    <3>1. <<y, x>> \in R
      BY <1>1, <2>1
    <3>2. QED
      BY <1>4, <3>1
  <2>2. CASE ~(y < x)
    BY <2>2
  <2>3. QED
    BY <2>1, <2>2
<1>6. QED
  BY <1>5

\* The least element of a set is its minimum.
LEMMA LeastIsMin ==
  ASSUME NEW S \in SUBSET Nat, NEW m \in S, \A x \in S : m <= x
  PROVE  Min(S) = m
<1> DEFINE First(x) == x \in S /\ \A y \in S : x <= y
<1>1. First(m)
  OBVIOUS
<1>2. Min(S) \in S /\ \A y \in S : Min(S) <= y
  BY <1>1 DEF Min
<1>3. Min(S) \in Nat /\ m \in Nat
  BY <1>2
<1>4. Min(S) <= m
  BY <1>2
<1>5. m <= Min(S)
  BY <1>2
<1>6. QED
  BY <1>3, <1>4, <1>5

\* The types of a library's cells.
LEMMA CellTypes ==
  /\ CellIndex \in SUBSET Nat /\ CellIndex = 1 .. Len(Cells) /\ Len(Cells) \in Nat
  /\ \A c \in CellIndex : /\ Cells[c].area \in Nat /\ Cells[c].delay \in Seq(Nat)
                          /\ MaxFanout(c) \in Nat /\ MaxFanout(c) >= 1
<1>1. Cells \in Seq([delay : Seq(Nat), area : Nat])
  BY LibraryAssumption
<1>2. CellIndex = 1 .. Len(Cells) /\ Len(Cells) \in Nat
  BY <1>1 DEF CellIndex
<1>3. \A c \in CellIndex : Cells[c].area \in Nat /\ Cells[c].delay \in Seq(Nat)
  <2>1. ASSUME NEW c \in CellIndex PROVE Cells[c].area \in Nat /\ Cells[c].delay \in Seq(Nat)
    <3>1. Cells[c] \in [delay : Seq(Nat), area : Nat]
      BY <1>1, <1>2, ElementOfSeq
    <3>2. QED
      BY <3>1
  <2>2. QED
    BY <2>1
<1>4. \A c \in CellIndex : MaxFanout(c) \in Nat /\ MaxFanout(c) >= 1
  BY <1>3, LibraryAssumption DEF MaxFanout, CellIndex
<1>5. QED
  BY <1>2, <1>3, <1>4

\* The table has a row for every fanout up to the largest of the library.
LEMMA FanoutMax == TableFanoutMax \in Nat /\ TableFanoutMax >= 1
<1> DEFINE Bounded(i) == \E m \in Nat : m >= 1 /\ \A c \in 1 .. i : MaxFanout(c) <= m
           unbounded == {i \in 0 .. Len(Cells) : ~Bounded(i)}
<1>1. Bounded(Len(Cells))
  <2>1. ASSUME unbounded # {} PROVE FALSE
    <3>1. unbounded \in SUBSET Nat
      BY CellTypes
    <3> HIDE DEF unbounded
    <3>2. PICK i \in unbounded : \A j \in unbounded : i <= j
      BY <2>1, <3>1, Least
    <3> USE DEF unbounded
    <3>3. i # 0
      BY <3>2
    <3>4. i - 1 \in 0 .. Len(Cells) /\ i - 1 \notin unbounded /\ i \in CellIndex /\ i \in Nat
      <4>1. i \in 0 .. Len(Cells) /\ Len(Cells) \in Nat
        BY <3>2, CellTypes
      <4>2. i \in 1 .. Len(Cells) /\ i - 1 \in 0 .. Len(Cells) /\ ~(i <= i - 1)
        BY <3>3, <4>1
      <4> HIDE DEF unbounded
      <4>3. QED
        BY <3>2, <4>2, CellTypes
    <3>5. PICK m \in Nat : m >= 1 /\ \A c \in 1 .. i - 1 : MaxFanout(c) <= m
      BY <3>4
    <3>6. MaxFanout(i) \in Nat
      BY <3>4, CellTypes
    <3>7. CASE MaxFanout(i) <= m
      <4>1. \A c \in 1 .. i : MaxFanout(c) <= m
        BY <3>4, <3>5, <3>7, CellTypes
      <4>2. QED
        BY <3>2, <3>5, <4>1
    <3>8. CASE ~(MaxFanout(i) <= m)
      <4>1. \A c \in 1 .. i : MaxFanout(c) <= MaxFanout(i)
        <5>1. ASSUME NEW c \in 1 .. i PROVE MaxFanout(c) <= MaxFanout(i)
          <6>1. c \in CellIndex /\ MaxFanout(c) \in Nat
            <7>1. i \in 1 .. Len(Cells) /\ Len(Cells) \in Nat
              BY <3>4, CellTypes
            <7>2. c \in 1 .. Len(Cells)
              BY <7>1
            <7>3. QED
              BY <7>2, CellTypes
          <6>2. CASE c = i
            BY <3>6, <6>2
          <6>3. CASE c \in 1 .. i - 1
            BY <3>5, <3>6, <3>8, <6>1, <6>3
          <6>4. QED
            BY <3>4, <6>2, <6>3, CellTypes
        <5>2. QED
          BY <5>1
      <4>2. MaxFanout(i) >= 1
        BY <3>5, <3>6, <3>8
      <4>3. QED
        BY <3>2, <3>6, <4>1, <4>2
    <3>9. QED
      BY <3>7, <3>8
  <2>2. Len(Cells) \in 0 .. Len(Cells)
    BY CellTypes
  <2>3. QED
    BY <2>1, <2>2
<1>2. PICK m \in Nat : m >= 1 /\ \A c \in 1 .. Len(Cells) : MaxFanout(c) <= m
  BY <1>1
<1> DEFINE S == {1} \cup {MaxFanout(c) : c \in CellIndex}
           T == {m - x : x \in S}
<1>3. S \in SUBSET Nat /\ \A x \in S : x <= m
  BY <1>2, CellTypes
<1>4. T \in SUBSET Nat /\ T # {}
  <2> HIDE DEF S
  <2>1. \A x \in S : m - x \in Nat
    BY <1>2, <1>3
  <2>2. 1 \in S
    BY DEF S
  <2>3. QED
    BY <2>1, <2>2
<1>5. PICK t \in T : \A u \in T : t <= u
  BY <1>4, Least
<1>6. PICK x \in S : t = m - x
  BY <1>5
<1>7. \A y \in S : x >= y
  <2> HIDE DEF S
  <2>1. ASSUME NEW y \in S PROVE x >= y
    <3>1. m - x <= m - y
      BY <1>5, <1>6
    <3>2. QED
      BY <1>3, <3>1
  <2>2. QED
    BY <2>1
<1>8. TableFanoutMax \in S /\ \A y \in S : TableFanoutMax >= y
  <2> HIDE DEF S
  <2>1. Max(S) \in S /\ \A y \in S : Max(S) >= y
    BY <1>7 DEF Max
  <2>2. QED
    BY <2>1 DEF TableFanoutMax, S
<1>9. QED
  BY <1>3, <1>8

\* The types of keys.
LEMMA KeyType ==
  /\ \A k \in Key : k \in Nat /\ \A i \in 0 .. k : i \in Key
  /\ \A c \in PrefixCells : c \in CellIndex /\ CellKey(c, 1) \in Nat
  /\ \A n \in TableFanouts, c \in CellIndex : Supports(c, n) => CellKey(c, n) \in Nat
<1>1. \A d \in Nat : DelayKey(d) \in Nat
  BY StepAssumption DEF DelayKey
<1>2. \A c \in CellIndex : \A n \in 1 .. MaxFanout(c) : Cells[c].delay[n] \in Nat
  <2>1. ASSUME NEW c \in CellIndex, NEW n \in 1 .. MaxFanout(c)
        PROVE  Cells[c].delay[n] \in Nat
    <3>1. Cells[c].delay \in Seq(Nat) /\ n \in 1 .. Len(Cells[c].delay)
      BY CellTypes DEF MaxFanout
    <3>2. QED
      BY <3>1, ElementOfSeq
  <2>2. QED
    BY <2>1
<1>3. \A c \in CellIndex : 1 \in 1 .. MaxFanout(c)
  BY CellTypes
<1>4. \A n \in TableFanouts, c \in CellIndex : Supports(c, n) => n \in 1 .. MaxFanout(c)
  BY CellTypes, FanoutMax DEF TableFanouts, Supports
<1>5. \A k \in Key : k \in Nat /\ \A i \in 0 .. k : i \in Key
  BY LibraryAssumption DEF Key
<1>6. QED
  BY <1>1, <1>2, <1>3, <1>4, <1>5 DEF CellKey, PrefixCells

-----------------------------------------------------------------------------
(* The reference is defined by recursion on the key; a key's areas come    *)
(* from those of lower keys.                                               *)

Via(f, k) ==
  UNION {{a + Cells[c].area : a \in f[k - CellKey(c, 1)]} :
           c \in {x \in PrefixCells : CellKey(x, 1) \in 1 .. k}}

LeastAt(f, k) == IF k = 0 THEN {0} ELSE IF Via(f, k) = {} THEN {} ELSE {Min(Via(f, k))}

IsLeast(f, n) == f = [k \in 0 .. n |-> LeastAt(f, k)]

\* What the recursion gives a key depends on lower keys only.
LEMMA LeastAtIsLocal ==
  ASSUME NEW f, NEW g, NEW k \in Nat, \A i \in 0 .. k - 1 : f[i] = g[i]
  PROVE  LeastAt(f, k) = LeastAt(g, k)
<1>1. \A c \in {x \in PrefixCells : CellKey(x, 1) \in 1 .. k} :
        f[k - CellKey(c, 1)] = g[k - CellKey(c, 1)]
  OBVIOUS
<1>2. Via(f, k) = Via(g, k)
  BY <1>1 DEF Via
<1>3. QED
  BY <1>2 DEF LeastAt

\* The recursion has a solution up to every key.
LEMMA LeastExists ==
  ASSUME NEW n \in Nat
  PROVE  \E f : IsLeast(f, n)
<1> DEFINE failing == {k \in 0 .. n : ~ \E f : IsLeast(f, k)}
<1>1. ASSUME failing # {} PROVE FALSE
  <2>1. failing \in SUBSET Nat
    OBVIOUS
  <2>2. PICK k \in failing : \A i \in failing : k <= i
    <3> HIDE DEF failing
    <3>1. QED
      BY <1>1, <2>1, Least
  <2>3. k \in 0 .. n /\ ~ \E f : IsLeast(f, k)
    BY <2>2
  <2>4. \E g : \A i \in 0 .. k - 1 : g[i] = LeastAt(g, i)
    <3>1. CASE k = 0
      BY <3>1
    <3>2. CASE k # 0
      <4>1. k - 1 \in 0 .. n /\ ~(k <= k - 1)
        BY <2>3, <3>2
      <4>2. k - 1 \notin failing
        <5> HIDE DEF failing
        <5>1. QED
          BY <2>2, <4>1
      <4>3. PICK g : IsLeast(g, k - 1)
        BY <4>1, <4>2
      <4>4. QED
        BY <4>3 DEF IsLeast
    <3>3. QED
      BY <3>1, <3>2
  <2>5. PICK g : \A i \in 0 .. k - 1 : g[i] = LeastAt(g, i)
    BY <2>4
  <2> DEFINE h == [i \in 0 .. k |-> IF i = k THEN LeastAt(g, k) ELSE g[i]]
  <2>6. k \in Nat /\ \A i \in 0 .. k - 1 : h[i] = g[i]
    BY <2>3
  <2>7. ASSUME NEW i \in 0 .. k PROVE h[i] = LeastAt(h, i)
    <3>1. i \in Nat /\ \A j \in 0 .. i - 1 : j \in 0 .. k - 1
      BY <2>3
    <3>2. \A j \in 0 .. i - 1 : h[j] = g[j]
      BY <2>6, <3>1
    <3>3. h[i] = LeastAt(g, i)
      <4>1. i = k \/ i \in 0 .. k - 1
        BY <2>3
      <4>2. QED
        BY <2>5, <2>6, <4>1
    <3> HIDE DEF h
    <3>4. QED
      BY <3>1, <3>2, <3>3, LeastAtIsLocal
  <2>8. h = [i \in 0 .. k |-> h[i]]
    OBVIOUS
  <2> HIDE DEF h
  <2>9. IsLeast(h, k)
    BY <2>7, <2>8 DEF IsLeast
  <2>10. QED
    BY <2>3, <2>9
<1>2. n \in 0 .. n
  OBVIOUS
<1>3. QED
  BY <1>1, <1>2

\* The reference satisfies its recursion.
LEMMA ReferenceIsLeast ==
  \A k \in Key : LeastPrefixArea[k] = LeastAt(LeastPrefixArea, k)
<1>1. \E f : IsLeast(f, MaxKey)
  BY LeastExists, LibraryAssumption
<1>2. IsLeast(CHOOSE f : IsLeast(f, MaxKey), MaxKey)
  <2> HIDE DEF IsLeast
  <2>1. QED
    BY <1>1
<1>3. LeastPrefixArea = CHOOSE f : IsLeast(f, MaxKey)
  BY DEF LeastPrefixArea, Key, IsLeast, LeastAt, Via
<1>4. IsLeast(LeastPrefixArea, MaxKey)
  BY <1>2, <1>3
<1>5. QED
  BY <1>4 DEF IsLeast, Key

-----------------------------------------------------------------------------
(* The table.                                                              *)

\* The areas of the reference are naturals, and no cells have area 0.
LEMMA ReferenceType ==
  /\ LeastPrefixArea[0] = {0}
  /\ \A k \in Key : LeastPrefixArea[k] \in SUBSET Nat
<1> DEFINE failing == {k \in Key : LeastPrefixArea[k] \notin SUBSET Nat}
<1>1. ASSUME failing # {} PROVE FALSE
  <2>1. failing \in SUBSET Nat
    BY KeyType
  <2>2. PICK k \in failing : \A i \in failing : k <= i
    <3> HIDE DEF failing
    <3>1. QED
      BY <1>1, <2>1, Least
  <2>3. k \in Key /\ k \in Nat /\ LeastPrefixArea[k] = LeastAt(LeastPrefixArea, k)
    BY <2>2, KeyType, ReferenceIsLeast
  <2>4. ASSUME NEW x \in Via(LeastPrefixArea, k) PROVE x \in Nat
    <3>1. PICK c \in {y \in PrefixCells : CellKey(y, 1) \in 1 .. k} :
            x \in {a + Cells[c].area : a \in LeastPrefixArea[k - CellKey(c, 1)]}
      BY DEF Via
    <3>2. k - CellKey(c, 1) \in 0 .. k /\ ~(k <= k - CellKey(c, 1)) /\ c \in CellIndex
      BY <2>3, <3>1, KeyType
    <3>3. k - CellKey(c, 1) \in Key
      BY <2>3, <3>2, KeyType
    <3>4. LeastPrefixArea[k - CellKey(c, 1)] \in SUBSET Nat
      BY <2>2, <3>2, <3>3
    <3>5. PICK a \in LeastPrefixArea[k - CellKey(c, 1)] : x = a + Cells[c].area
      BY <3>1
    <3>6. a \in Nat /\ Cells[c].area \in Nat
      BY <3>2, <3>4, <3>5, CellTypes
    <3>7. QED
      BY <3>5, <3>6
  <2>5. CASE k = 0
    BY <2>2, <2>3, <2>5 DEF LeastAt
  <2>6. CASE k # 0
    <3>1. CASE Via(LeastPrefixArea, k) = {}
      BY <2>2, <2>3, <2>6, <3>1 DEF LeastAt
    <3>2. CASE Via(LeastPrefixArea, k) # {}
      <4> DEFINE via == Via(LeastPrefixArea, k)
      <4>1. via \in SUBSET Nat /\ via # {}
        BY <2>4, <3>2
      <4> HIDE DEF via
      <4>2. Min(via) \in via
        BY <4>1, Least, LeastIsMin
      <4>3. LeastPrefixArea[k] = {Min(via)}
        BY <2>3, <2>6, <3>2 DEF LeastAt, via
      <4>4. QED
        BY <2>2, <4>1, <4>2, <4>3
    <3>3. QED
      BY <3>1, <3>2
  <2>7. QED
    BY <2>5, <2>6
<1>2. 0 \in Key
  BY LibraryAssumption DEF Key
<1>3. LeastPrefixArea[0] = {0}
  BY <1>2, ReferenceIsLeast DEF LeastAt
<1>4. QED
  BY <1>1, <1>3

\* The areas of chains are naturals.
LEMMA ChainAreasType ==
  ASSUME NEW n \in TableFanouts, NEW k \in Key
  PROVE  /\ \A c \in CellIndex : AreasEndingIn(n, k, c) \in SUBSET Nat
         /\ ChainAreas(n, k) \in SUBSET Nat
<1>1. ASSUME NEW c \in CellIndex PROVE AreasEndingIn(n, k, c) \in SUBSET Nat
  <2>1. CASE Supports(c, n) /\ CellKey(c, n) <= k
    <3>1. k - CellKey(c, n) \in 0 .. k
      BY <2>1, KeyType
    <3>2. k - CellKey(c, n) \in Key
      BY <3>1, KeyType
    <3>3. LeastPrefixArea[k - CellKey(c, n)] \in SUBSET Nat /\ Cells[c].area \in Nat
      BY <3>2, ReferenceType, CellTypes
    <3>4. QED
      BY <2>1, <3>3 DEF AreasEndingIn
  <2>2. CASE ~(Supports(c, n) /\ CellKey(c, n) <= k)
    BY <2>2 DEF AreasEndingIn
  <2>3. QED
    BY <2>1, <2>2
<1>2. QED
  BY <1>1 DEF ChainAreas

\* An entry has the least area of the chains of its delay, one of which ends
\* in the recorded cell.
LEMMA TableEntry ==
  ASSUME NEW n \in TableFanouts, NEW k \in DOMAIN ChainTable[n]
  PROVE  LET e == ChainTable[n][k] IN
         /\ k \in Key
         /\ e.area \in ChainAreas(n, k) /\ e.area \in Nat
         /\ \A a \in ChainAreas(n, k) : e.area <= a
         /\ e.last \in CellIndex /\ e.area \in AreasEndingIn(n, k, e.last)
<1> DEFINE areas == ChainAreas(n, k)
           least == Min(areas)
           lasts == {c \in CellIndex : least \in AreasEndingIn(n, k, c)}
<1>1. /\ k \in Key /\ areas # {}
      /\ ChainTable[n][k] = [area |-> least, last |-> Min(lasts)]
  BY DEF ChainTable
<1>2. areas \in SUBSET Nat
  BY <1>1, ChainAreasType
<1>3. least \in areas /\ \A a \in areas : least <= a
  <2> HIDE DEF areas
  <2>1. PICK m \in areas : \A a \in areas : m <= a
    BY <1>1, <1>2, Least
  <2>2. Min(areas) = m
    BY <1>2, <2>1, LeastIsMin
  <2>3. QED
    BY <2>1, <2>2
<1>4. lasts \in SUBSET Nat /\ lasts # {}
  <2>1. \E c \in CellIndex : least \in AreasEndingIn(n, k, c)
    BY <1>3 DEF ChainAreas
  <2>2. CellIndex \in SUBSET Nat
    BY CellTypes
  <2> HIDE DEF least
  <2>3. QED
    BY <2>1, <2>2
<1>5. Min(lasts) \in lasts
  <2> HIDE DEF lasts
  <2>1. PICK m \in lasts : \A a \in lasts : m <= a
    BY <1>4, Least
  <2>2. Min(lasts) = m
    BY <1>4, <2>1, LeastIsMin
  <2>3. QED
    BY <2>1, <2>2
<1> HIDE DEF areas, least
<1>6. Min(lasts) \in CellIndex /\ least \in AreasEndingIn(n, k, Min(lasts))
  BY <1>5
<1> HIDE DEF lasts
<1>7. least \in Nat
  BY <1>2, <1>3
<1>8. QED
  BY <1>1, <1>3, <1>6, <1>7 DEF areas

\* What the table has rows and entries for.
LEMMA TableDomain ==
  /\ DOMAIN ChainTable = TableFanouts
  /\ \A n \in TableFanouts : DOMAIN ChainTable[n] \subseteq Key
BY DEF ChainTable

\* A cell that stands alone is a chain: the entry of its delay is no larger,
\* and just as large where it is the cell that is recorded.
THEOREM SingleCells ==
  ASSUME NEW n \in TableFanouts, NEW c \in CellIndex, Supports(c, n), CellKey(c, n) \in Key
  PROVE  /\ CellKey(c, n) \in DOMAIN ChainTable[n]
         /\ ChainTable[n][CellKey(c, n)].area <= Cells[c].area
         /\ ChainTable[n][CellKey(c, n)].last = c
              => ChainTable[n][CellKey(c, n)].area = Cells[c].area
<1> DEFINE k == CellKey(c, n)
<1>1. k \in Nat /\ k <= k /\ k - k = 0 /\ Cells[c].area \in Nat
  BY KeyType, CellTypes
<1>2. AreasEndingIn(n, k, c) = {a + Cells[c].area : a \in LeastPrefixArea[0]}
  BY <1>1 DEF AreasEndingIn
<1>3. AreasEndingIn(n, k, c) = {Cells[c].area}
  BY <1>1, <1>2, ReferenceType
<1> HIDE DEF k
<1>4. Cells[c].area \in ChainAreas(n, k)
  BY <1>3 DEF ChainAreas
<1>5. k \in DOMAIN ChainTable[n]
  BY <1>4 DEF ChainTable, k
<1>6. /\ ChainTable[n][k].area <= Cells[c].area
      /\ ChainTable[n][k].area \in AreasEndingIn(n, k, ChainTable[n][k].last)
  BY <1>4, <1>5, TableEntry
<1>7. ChainTable[n][k].last = c => ChainTable[n][k].area = Cells[c].area
  BY <1>3, <1>6
<1>8. QED
  BY <1>5, <1>6, <1>7 DEF k
=============================================================================
