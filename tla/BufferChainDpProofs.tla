------------------------ MODULE BufferChainDpProofs -------------------------
(***************************************************************************)
(* Theorems about the construction of the tables, for every library, every *)
(* range of delays and every order in which a hash map is visited: the     *)
(* entries are chains, each round is exact, and rounds that end because    *)
(* nothing changed leave the reference table of BufferChains.              *)
(***************************************************************************)
EXTENDS BufferChainDp, BufferChainFacts

-----------------------------------------------------------------------------
(* The choices the code makes exist.                                       *)

\* Of several cells one is the first of the cheapest.
LEMMA FirstOfLeast ==
  ASSUME NEW S \in SUBSET Nat, S # {}, NEW f \in [S -> Nat]
  PROVE  \E x \in S : \A y \in S : f[x] < f[y] \/ (f[x] = f[y] /\ x <= y)
<1> DEFINE values == {f[x] : x \in S}
<1>1. values \in SUBSET Nat /\ values # {}
  OBVIOUS
<1>2. PICK v \in values : \A w \in values : v <= w
  BY <1>1, Least
<1> DEFINE cheapest == {x \in S : f[x] = v}
<1>3. cheapest \in SUBSET Nat /\ cheapest # {}
  BY <1>2
<1>4. PICK x \in cheapest : \A y \in cheapest : x <= y
  BY <1>3, Least
<1>5. ASSUME NEW y \in S PROVE f[x] < f[y] \/ (f[x] = f[y] /\ x <= y)
  <2>1. f[y] \in values /\ f[x] = v /\ v <= f[y] /\ v \in Nat /\ f[y] \in Nat
    BY <1>1, <1>2
  <2>2. CASE f[y] = v
    BY <1>4, <2>1, <2>2
  <2>3. CASE f[y] # v
    BY <2>1, <2>3
  <2>4. QED
    BY <2>2, <2>3
<1>6. QED
  BY <1>5

-----------------------------------------------------------------------------
(* One visit and one row.                                                  *)

\* The cell that stays of those leading to one key is one of them.
LEMMA FirstCheapestOf ==
  ASSUME NEW cs \in SUBSET CellIndex, cs # {}
  PROVE  FirstCheapest(cs) \in cs
<1> DEFINE f == [c \in cs |-> Cells[c].area]
<1>1. cs \in SUBSET Nat /\ f \in [cs -> Nat]
  BY CellTypes
<1>2. PICK x \in cs : \A y \in cs : f[x] < f[y] \/ (f[x] = f[y] /\ x <= y)
  BY <1>1, FirstOfLeast
<1>3. \A y \in cs : Cells[x].area < Cells[y].area \/ (Cells[x].area = Cells[y].area /\ x <= y)
  BY <1>2
<1>4. QED
  BY <1>3 DEF FirstCheapest

\* The entries of a map have types.
LEMMA MapEntry ==
  ASSUME NEW f, IsMap(f), NEW k \in DOMAIN f
  PROVE  k \in Key /\ f[k] \in Entry /\ f[k].area \in Nat /\ f[k].cell_indices \in Seq(CellIndex)
BY DEF IsMap, Entry

\* An extended entry is an entry.
LEMMA ExtendType ==
  ASSUME NEW entry \in Entry, NEW c \in CellIndex
  PROVE  Extend(entry, c) \in Entry /\ Extend(entry, c).area \in Nat
<1>1. entry.area \in Nat /\ entry.cell_indices \in Seq(CellIndex)
  BY DEF Entry
<1>2. entry.area + Cells[c].area \in Nat
  BY <1>1, CellTypes
<1>3. Append(entry.cell_indices, c) \in Seq(CellIndex)
  BY <1>1, AppendProperties
<1>4. QED
  BY <1>2, <1>3 DEF Extend, Entry

\* What a visit offers a successor is an entry.
LEMMA OfferType ==
  ASSUME IsMap(snapshot), NEW k \in DOMAIN snapshot, NEW nk \in Successors(k)
  PROVE  Offer(k, nk) \in Entry /\ Offer(k, nk).area \in Nat /\ nk \in Key
<1>1. CellsTo(k, nk) \in SUBSET CellIndex /\ CellsTo(k, nk) # {} /\ nk \in Key
  BY DEF Successors, CellsTo, PrefixCells
<1>2. FirstCheapest(CellsTo(k, nk)) \in CellIndex
  BY <1>1, FirstCheapestOf
<1>3. QED
  BY <1>1, <1>2, MapEntry, ExtendType DEF Offer

\* A visit leaves a map, in which no entry is dearer than before.
LEMMA VisitedMap ==
  ASSUME IsMap(snapshot), IsMap(prefix), NEW k \in DOMAIN snapshot
  PROVE  /\ IsMap(Relaxed(k))
         /\ \A j \in DOMAIN prefix : j \in DOMAIN Relaxed(k) /\ Relaxed(k)[j].area <= prefix[j].area
<1>1. DOMAIN Relaxed(k) = DOMAIN prefix \cup Successors(k)
  BY DEF Relaxed
<1>2. ASSUME NEW j \in DOMAIN Relaxed(k)
      PROVE  /\ j \in Key /\ Relaxed(k)[j] \in Entry
             /\ j \in DOMAIN prefix => Relaxed(k)[j].area <= prefix[j].area
  <2>1. CASE j \in Successors(k) /\ OfferBetter(k, j)
    <3>1. Relaxed(k)[j] = Offer(k, j)
      BY <1>1, <2>1 DEF Relaxed
    <3>2. Offer(k, j) \in Entry /\ Offer(k, j).area \in Nat /\ j \in Key
      BY <2>1, OfferType
    <3>3. ASSUME j \in DOMAIN prefix PROVE Offer(k, j).area <= prefix[j].area
      BY <2>1, <3>2, <3>3, MapEntry DEF OfferBetter
    <3>4. QED
      BY <3>1, <3>2, <3>3
  <2>2. CASE ~(j \in Successors(k) /\ OfferBetter(k, j))
    <3>1. j \in DOMAIN prefix
      BY <1>1, <2>2 DEF OfferBetter
    <3>2. Relaxed(k)[j] = prefix[j]
      BY <1>1, <2>2 DEF Relaxed
    <3>3. QED
      BY <3>1, <3>2, MapEntry
  <2>3. QED
    BY <2>1, <2>2
<1>3. Relaxed(k) = [j \in DOMAIN Relaxed(k) |-> Relaxed(k)[j]]
  BY DEF Relaxed
<1>4. IsMap(Relaxed(k))
  <2> DEFINE m == Relaxed(k)
  <2>1. m = [j \in DOMAIN m |-> m[j]] /\ \A j \in DOMAIN m : j \in Key /\ m[j] \in Entry
    BY <1>2, <1>3
  <2> HIDE DEF m
  <2>2. IsMap(m)
    BY <2>1 DEF IsMap
  <2>3. QED
    BY <2>2 DEF m
<1>5. QED
  BY <1>1, <1>2, <1>4

\* The last cell of a row's entry completes a chain and is the first of the cheapest.
LEMMA BestLastCellOf ==
  ASSUME IsMap(prefix), NEW n, NEW k \in Key, LastCells(n, k) # {}
  PROVE  /\ BestLastCell(n, k) \in LastCells(n, k)
         /\ \A c \in LastCells(n, k) :
              \/ RowArea(n, k, BestLastCell(n, k)) < RowArea(n, k, c)
              \/ RowArea(n, k, BestLastCell(n, k)) = RowArea(n, k, c) /\ BestLastCell(n, k) <= c
         /\ \A c \in LastCells(n, k) : RowArea(n, k, c) \in Nat
<1> DEFINE cs == LastCells(n, k)
           f == [c \in cs |-> RowArea(n, k, c)]
<1>1. ASSUME NEW c \in cs
      PROVE  c \in CellIndex /\ RowArea(n, k, c) \in Nat
  <2>1. c \in CellIndex /\ k - CellKey(c, n) \in DOMAIN prefix
    BY DEF LastCells
  <2>2. prefix[k - CellKey(c, n)].area \in Nat /\ Cells[c].area \in Nat
    BY <2>1, MapEntry, CellTypes
  <2>3. QED
    BY <2>1, <2>2 DEF RowArea
<1>2. cs \in SUBSET Nat /\ f \in [cs -> Nat] /\ cs # {}
  BY <1>1, CellTypes
<1>3. PICK x \in cs : \A y \in cs : f[x] < f[y] \/ (f[x] = f[y] /\ x <= y)
  <2> HIDE DEF cs, f
  <2>1. QED
    BY <1>2, FirstOfLeast
<1> DEFINE Wins(x_) == \A y \in cs : \/ RowArea(n, k, x_) < RowArea(n, k, y)
                                     \/ RowArea(n, k, x_) = RowArea(n, k, y) /\ x_ <= y
<1>4. Wins(x)
  BY <1>3
<1>5. BestLastCell(n, k) \in cs /\ Wins(BestLastCell(n, k))
  BY <1>4 DEF BestLastCell
<1>6. QED
  BY <1>1, <1>5

\* A row is a map.
LEMMA RowIsMap ==
  ASSUME IsMap(prefix), NEW n \in TableFanouts
  PROVE  IsMap(Row(n))
<1>1. ASSUME NEW k \in Key, LastCells(n, k) # {}
      PROVE  RowEntry(n, k) \in Entry
  <2> DEFINE c == BestLastCell(n, k)
  <2>1. c \in CellIndex /\ k - CellKey(c, n) \in DOMAIN prefix /\ RowArea(n, k, c) \in Nat
    BY <1>1, BestLastCellOf DEF LastCells
  <2>2. prefix[k - CellKey(c, n)].cell_indices \in Seq(CellIndex)
    BY <2>1, MapEntry
  <2>3. Append(prefix[k - CellKey(c, n)].cell_indices, c) \in Seq(CellIndex)
    BY <2>1, <2>2, AppendProperties
  <2>4. QED
    BY <2>1, <2>3 DEF RowEntry, Entry
<1>2. QED
  BY <1>1 DEF Row, IsMap

-----------------------------------------------------------------------------
(* The construction.                                                       *)

\* The types hold at the start.
LEMMA TypeInit ==
  ASSUME Init
  PROVE  TypeOK
<1>1. <<>> \in Seq(CellIndex) /\ 0 \in Key
  BY EmptySeq, LibraryAssumption DEF Key
<1>2. IsMap(prefix)
  BY <1>1 DEF Init, IsMap, Entry
<1>3. IsMap(<<>>)
  BY DEF IsMap
<1>4. 1 \in 1 .. TableFanoutMax + 1 /\ 0 \in 0 .. RoundLimit
  BY FanoutMax, RoundAssumption
<1>5. QED
  BY <1>2, <1>3, <1>4 DEF Init, TypeOK

\* Every step keeps the types.
LEMMA TypeStep ==
  ASSUME TypeOK, [Next]_vars
  PROVE  TypeOK'
<1> USE DEF rowVars
<1>1. CASE BeginRound
  <2>1. rounds + 1 \in 0 .. RoundLimit
    BY <1>1, RoundAssumption DEF BeginRound, TypeOK
  <2>2. QED
    BY <1>1, <2>1 DEF BeginRound, TypeOK
<1>2. ASSUME NEW k \in pending, Visit(k) PROVE TypeOK'
  <2>1. IsMap(prefix')
    BY <1>2, VisitedMap DEF Visit, TypeOK
  <2>2. changed' \in BOOLEAN /\ pending' \subseteq DOMAIN snapshot
    BY <1>2 DEF Visit, TypeOK
  <2>3. QED
    BY <1>2, <2>1, <2>2 DEF Visit, TypeOK
<1>3. CASE EndRound
  BY <1>3 DEF EndRound, TypeOK
<1>4. CASE EndPrefixes
  BY <1>4 DEF EndPrefixes, TypeOK
<1>5. CASE BuildRow
  <2>1. fanout + 1 \in 1 .. TableFanoutMax + 1
    BY <1>5, FanoutMax DEF BuildRow, TableFanouts, TypeOK
  <2>2. IsMap(Row(fanout))
    BY <1>5, RowIsMap DEF BuildRow, TypeOK
  <2>3. DOMAIN table' = TableFanouts /\ \A n \in TableFanouts : IsMap(table'[n])
    BY <1>5, <2>2 DEF BuildRow, TypeOK
  <2>4. QED
    BY <1>5, <2>1, <2>3 DEF BuildRow, TypeOK
<1>6. CASE Finish
  BY <1>6 DEF Finish, TypeOK
<1>7. CASE UNCHANGED vars
  BY <1>7 DEF vars, TypeOK
<1>8. QED
  BY <1>1, <1>2, <1>3, <1>4, <1>5, <1>6, <1>7 DEF Next, Step, Terminated

\* Every index is of a cell, every key within the table: TypeOK.
THEOREM TypeCorrect == Spec => []TypeOK
<1>1. Init => TypeOK
  BY TypeInit
<1>2. TypeOK /\ [Next]_vars => TypeOK'
  BY TypeStep
<1>3. QED
  BY <1>1, <1>2, PTL DEF Spec

\* Whatever the order of the visits, a reached delay stays reached and never
\* gets a dearer chain.
THEOREM AreasDoNotRise == Spec => AreasNeverRise
<1> DEFINE Falls == \A k \in DOMAIN prefix : k \in DOMAIN prefix' /\ prefix'[k].area <= prefix[k].area
<1>1. TypeOK /\ [Next]_vars => [Falls]_vars
  <2> SUFFICES ASSUME TypeOK, [Next]_vars PROVE [Falls]_vars
    OBVIOUS
  <2>1. ASSUME NEW k \in pending, Visit(k) PROVE Falls
    BY <2>1, VisitedMap DEF Visit, TypeOK
  <2>2. ASSUME UNCHANGED prefix PROVE Falls
    BY <2>2, MapEntry DEF TypeOK
  <2>3. QED
    BY <2>1, <2>2 DEF Next, Step, Terminated, BeginRound, EndRound, EndPrefixes, BuildRow, Finish, vars
<1>2. QED
  BY <1>1, TypeCorrect, PTL DEF Spec, AreasNeverRise

-----------------------------------------------------------------------------
(* Keys and areas of chains.  They are sums by recursion on a length; that *)
(* they exist and grow by one term with each cell is shown on the least    *)
(* length for which it would fail.                                         *)

IsSums(g, v, n) == g = [i \in 0 .. n |-> IF i = 0 THEN 0 ELSE g[i - 1] + v[i]]

\* Partial sums exist for any number of terms.
LEMMA SumsExist ==
  ASSUME NEW n \in Nat, NEW v
  PROVE  \E g : IsSums(g, v, n)
<1> DEFINE failing == {j \in 0 .. n : ~ \E g : IsSums(g, v, j)}
<1>1. ASSUME failing # {} PROVE FALSE
  <2>1. failing \in SUBSET Nat
    OBVIOUS
  <2>2. PICK j \in failing : \A i \in failing : j <= i
    <3> HIDE DEF failing
    <3>1. QED
      BY <1>1, <2>1, Least
  <2>3. j \in 0 .. n /\ ~ \E g : IsSums(g, v, j)
    BY <2>2
  <2>4. CASE j = 0
    <3> DEFINE g == [i \in 0 .. 0 |-> 0]
    <3>1. IsSums(g, v, 0)
      BY DEF IsSums
    <3>2. QED
      BY <2>3, <2>4, <3>1
  <2>5. CASE j # 0
    <3>1. j - 1 \in 0 .. n /\ j - 1 \notin failing /\ j \in Nat
      <4>1. j - 1 \in 0 .. n /\ ~(j <= j - 1) /\ j \in Nat
        BY <2>3, <2>5
      <4> HIDE DEF failing
      <4>2. QED
        BY <2>2, <4>1
    <3>2. PICK g : IsSums(g, v, j - 1)
      BY <3>1
    <3> DEFINE h == [i \in 0 .. j |-> IF i = j THEN g[j - 1] + v[j] ELSE g[i]]
    <3>3. ASSUME NEW i \in 0 .. j
          PROVE  h[i] = IF i = 0 THEN 0 ELSE h[i - 1] + v[i]
      <4>1. CASE i = j
        BY <2>5, <3>1, <4>1
      <4>2. CASE i \in 0 .. j - 1
        <5>1. h[i] = g[i] /\ i # j
          BY <3>1, <4>2
        <5>2. g[i] = IF i = 0 THEN 0 ELSE g[i - 1] + v[i]
          BY <3>2, <4>2 DEF IsSums
        <5>3. i # 0 => h[i - 1] = g[i - 1]
          BY <3>1, <4>2
        <5>4. QED
          BY <5>1, <5>2, <5>3
      <4>3. QED
        BY <3>1, <4>1, <4>2
    <3>4. h = [i \in 0 .. j |-> h[i]]
      OBVIOUS
    <3> HIDE DEF h
    <3>5. IsSums(h, v, j)
      BY <3>3, <3>4 DEF IsSums
    <3>6. QED
      BY <2>3, <3>5
  <2>6. QED
    BY <2>4, <2>5
<1>2. n \in 0 .. n
  OBVIOUS
<1>3. QED
  BY <1>1, <1>2

\* Sums depend on nothing but the terms.
LEMMA SumsAgree ==
  ASSUME NEW n \in Nat, NEW m \in Nat, n <= m, NEW v, NEW w, NEW g, NEW h,
         IsSums(g, v, n), IsSums(h, w, m), \A i \in 1 .. n : v[i] = w[i]
  PROVE  \A i \in 0 .. n : g[i] = h[i]
<1> DEFINE differ == {i \in 0 .. n : g[i] # h[i]}
<1>1. ASSUME differ # {} PROVE FALSE
  <2>1. differ \in SUBSET Nat
    OBVIOUS
  <2>2. PICK j \in differ : \A i \in differ : j <= i
    <3> HIDE DEF differ
    <3>1. QED
      BY <1>1, <2>1, Least
  <2>3. j \in 0 .. n /\ j \in 0 .. m /\ g[j] # h[j]
    BY <2>2
  <2>4. /\ g[j] = IF j = 0 THEN 0 ELSE g[j - 1] + v[j]
        /\ h[j] = IF j = 0 THEN 0 ELSE h[j - 1] + w[j]
    BY <2>3 DEF IsSums
  <2>5. j # 0
    BY <2>3, <2>4
  <2>6. j - 1 \in 0 .. n /\ ~(j <= j - 1) /\ j \in 1 .. n
    BY <2>3, <2>5
  <2>7. g[j - 1] = h[j - 1]
    BY <2>2, <2>6
  <2>8. QED
    BY <2>3, <2>4, <2>5, <2>6, <2>7
<1>2. QED
  BY <1>1

AreaTerms(chain) == [i \in 1 .. Len(chain) |-> Cells[chain[i]].area]
KeyTerms(chain) == [i \in 1 .. Len(chain) |-> CellKey(chain[i], 1)]

\* The area of a chain is a partial sum of its cells' areas.
LEMMA AreaIsSum ==
  ASSUME NEW chain, Len(chain) \in Nat
  PROVE  \E g : IsSums(g, AreaTerms(chain), Len(chain)) /\ ChainArea(chain) = g[Len(chain)]
<1> DEFINE n == Len(chain)
           Sum(g) == g = [i \in 0 .. n |-> IF i = 0 THEN 0 ELSE g[i - 1] + Cells[chain[i]].area]
<1>1. \A g : Sum(g) <=> IsSums(g, AreaTerms(chain), n)
  <2>1. \A i \in 0 .. n : i = 0 \/ AreaTerms(chain)[i] = Cells[chain[i]].area
    BY DEF AreaTerms
  <2>2. ASSUME NEW g
        PROVE  [i \in 0 .. n |-> IF i = 0 THEN 0 ELSE g[i - 1] + Cells[chain[i]].area]
               = [i \in 0 .. n |-> IF i = 0 THEN 0 ELSE g[i - 1] + AreaTerms(chain)[i]]
    BY <2>1
  <2>3. QED
    BY <2>2 DEF IsSums
<1>2. \E g : Sum(g)
  BY <1>1, SumsExist
<1>3. Sum(CHOOSE g : Sum(g))
  <2> HIDE DEF Sum
  <2>1. QED
    BY <1>2
<1>4. ChainArea(chain) = (CHOOSE g : Sum(g))[n]
  BY DEF ChainArea
<1> HIDE DEF Sum
<1>5. QED
  BY <1>1, <1>3, <1>4

\* The key of a chain is a partial sum of its cells' keys.
LEMMA KeyIsSum ==
  ASSUME NEW chain, Len(chain) \in Nat
  PROVE  \E g : IsSums(g, KeyTerms(chain), Len(chain)) /\ ChainKey(chain) = g[Len(chain)]
<1> DEFINE n == Len(chain)
           Sum(g) == g = [i \in 0 .. n |-> IF i = 0 THEN 0 ELSE g[i - 1] + CellKey(chain[i], 1)]
<1>1. \A g : Sum(g) <=> IsSums(g, KeyTerms(chain), n)
  <2>1. \A i \in 0 .. n : i = 0 \/ KeyTerms(chain)[i] = CellKey(chain[i], 1)
    BY DEF KeyTerms
  <2>2. ASSUME NEW g
        PROVE  [i \in 0 .. n |-> IF i = 0 THEN 0 ELSE g[i - 1] + CellKey(chain[i], 1)]
               = [i \in 0 .. n |-> IF i = 0 THEN 0 ELSE g[i - 1] + KeyTerms(chain)[i]]
    BY <2>1
  <2>3. QED
    BY <2>2 DEF IsSums
<1>2. \E g : Sum(g)
  BY <1>1, SumsExist
<1>3. Sum(CHOOSE g : Sum(g))
  <2> HIDE DEF Sum
  <2>1. QED
    BY <1>2
<1>4. ChainKey(chain) = (CHOOSE g : Sum(g))[n]
  BY DEF ChainKey
<1> HIDE DEF Sum
<1>5. QED
  BY <1>1, <1>3, <1>4

\* One more cell adds its key and its area.
LEMMA ChainGrows ==
  ASSUME NEW chain \in Seq(CellIndex), NEW c \in CellIndex
  PROVE  /\ ChainArea(Append(chain, c)) = ChainArea(chain) + Cells[c].area
         /\ ChainKey(Append(chain, c)) = ChainKey(chain) + CellKey(c, 1)
<1> DEFINE n == Len(chain)
           longer == Append(chain, c)
<1>1. /\ n \in Nat /\ Len(longer) = n + 1 /\ n + 1 \in Nat /\ longer[n + 1] = c
      /\ \A i \in 1 .. n : longer[i] = chain[i]
  BY AppendProperties
<1> HIDE DEF longer
<1>2. ASSUME NEW v, NEW w, NEW g, NEW h, IsSums(g, v, n), IsSums(h, w, n + 1),
             \A i \in 1 .. n : v[i] = w[i]
      PROVE  h[n + 1] = g[n] + w[n + 1]
  <2> HIDE DEF n
  <2>1. n <= n + 1 /\ n \in 0 .. n /\ n + 1 \in 0 .. n + 1
    BY <1>1
  <2>2. g[n] = h[n]
    BY <1>1, <1>2, <2>1, SumsAgree
  <2>3. h[n + 1] = h[n] + w[n + 1]
    BY <1>1, <1>2, <2>1 DEF IsSums
  <2>4. QED
    BY <2>2, <2>3
<1>3. ChainArea(longer) = ChainArea(chain) + Cells[c].area
  <2>1. PICK g : IsSums(g, AreaTerms(chain), n) /\ ChainArea(chain) = g[n]
    BY <1>1, AreaIsSum
  <2>2. PICK h : IsSums(h, AreaTerms(longer), n + 1) /\ ChainArea(longer) = h[n + 1]
    BY <1>1, AreaIsSum
  <2>3. /\ \A i \in 1 .. n : AreaTerms(chain)[i] = AreaTerms(longer)[i]
        /\ AreaTerms(longer)[n + 1] = Cells[c].area
    BY <1>1 DEF AreaTerms
  <2>4. QED
    BY <1>2, <2>1, <2>2, <2>3
<1>4. ChainKey(longer) = ChainKey(chain) + CellKey(c, 1)
  <2>1. PICK g : IsSums(g, KeyTerms(chain), n) /\ ChainKey(chain) = g[n]
    BY <1>1, KeyIsSum
  <2>2. PICK h : IsSums(h, KeyTerms(longer), n + 1) /\ ChainKey(longer) = h[n + 1]
    BY <1>1, KeyIsSum
  <2>3. /\ \A i \in 1 .. n : KeyTerms(chain)[i] = KeyTerms(longer)[i]
        /\ KeyTerms(longer)[n + 1] = CellKey(c, 1)
    BY <1>1 DEF KeyTerms
  <2>4. QED
    BY <1>2, <2>1, <2>2, <2>3
<1>5. QED
  BY <1>3, <1>4 DEF longer

\* The chain of no cells has area 0 and key 0.
LEMMA EmptyChain == ChainArea(<<>>) = 0 /\ ChainKey(<<>>) = 0
<1>1. Len(<<>>) = 0
  OBVIOUS
<1>2. ChainArea(<<>>) = 0
  BY <1>1, AreaIsSum DEF IsSums
<1>3. ChainKey(<<>>) = 0
  BY <1>1, KeyIsSum DEF IsSums
<1>4. QED
  BY <1>2, <1>3

-----------------------------------------------------------------------------
(* The entries are chains.                                                 *)

IsChain(e, k) ==
  /\ \A i \in DOMAIN e.cell_indices : e.cell_indices[i] \in PrefixCells
  /\ ChainKey(e.cell_indices) = k
  /\ ChainArea(e.cell_indices) = e.area

AreChains(f) == \A k \in DOMAIN f : IsChain(f[k], k)

\* RowEntriesAreChains for one row.
RowOfChains(n, row) ==
  \A k \in DOMAIN row :
    LET cs == row[k].cell_indices
        last == cs[Len(cs)]
        front == SubSeq(cs, 1, Len(cs) - 1)
    IN  /\ cs # <<>>
        /\ Supports(last, n)
        /\ ChainKey(front) = k - CellKey(last, n)
        /\ ChainArea(front) + Cells[last].area = row[k].area

ChainsInv ==
  /\ TypeOK
  /\ AreChains(prefix) /\ AreChains(snapshot)
  /\ \A n \in TableFanouts : RowOfChains(n, table[n])

\* An entry made by a visit is a chain of its key.
LEMMA OfferIsChain ==
  ASSUME IsMap(snapshot), AreChains(snapshot), NEW k \in DOMAIN snapshot, NEW nk \in Successors(k)
  PROVE  IsChain(Offer(k, nk), nk)
<1> DEFINE c == FirstCheapest(CellsTo(k, nk))
           chain == snapshot[k].cell_indices
<1>1. CellsTo(k, nk) \in SUBSET CellIndex /\ CellsTo(k, nk) # {}
  BY DEF Successors, CellsTo, PrefixCells
<1>2. c \in CellIndex /\ c \in PrefixCells /\ k + CellKey(c, 1) = nk
  BY <1>1, FirstCheapestOf DEF CellsTo
<1>3. /\ chain \in Seq(CellIndex) /\ Len(chain) \in Nat
      /\ \A i \in 1 .. Len(chain) : chain[i] \in PrefixCells
      /\ ChainKey(chain) = k /\ ChainArea(chain) = snapshot[k].area
  BY MapEntry DEF AreChains, IsChain
<1>4. /\ Offer(k, nk).cell_indices = Append(chain, c)
      /\ Offer(k, nk).area = snapshot[k].area + Cells[c].area
  BY DEF Offer, Extend
<1> HIDE DEF c, chain
<1>5. ChainKey(Append(chain, c)) = nk /\ ChainArea(Append(chain, c)) = Offer(k, nk).area
  BY <1>2, <1>3, <1>4, ChainGrows
<1>6. /\ DOMAIN Append(chain, c) = 1 .. Len(chain) + 1 /\ Append(chain, c)[Len(chain) + 1] = c
      /\ \A i \in 1 .. Len(chain) : Append(chain, c)[i] = chain[i]
  BY <1>2, <1>3, AppendProperties
<1>7. \A i \in 1 .. Len(chain) + 1 : i = Len(chain) + 1 \/ i \in 1 .. Len(chain)
  BY <1>3
<1>8. \A i \in DOMAIN Append(chain, c) : Append(chain, c)[i] \in PrefixCells
  BY <1>2, <1>3, <1>6, <1>7
<1>9. QED
  BY <1>4, <1>5, <1>8 DEF IsChain

\* An entry made for a row is a prefix and a last cell.
LEMMA RowEntryIsChain ==
  ASSUME IsMap(prefix), AreChains(prefix), NEW n \in TableFanouts
  PROVE  RowOfChains(n, Row(n))
<1>1. ASSUME NEW k \in Key, LastCells(n, k) # {}
      PROVE  LET cs == RowEntry(n, k).cell_indices
                 last == cs[Len(cs)]
                 front == SubSeq(cs, 1, Len(cs) - 1)
             IN  /\ cs # <<>>
                 /\ Supports(last, n)
                 /\ ChainKey(front) = k - CellKey(last, n)
                 /\ ChainArea(front) + Cells[last].area = RowEntry(n, k).area
  <2> DEFINE c == BestLastCell(n, k)
             j == k - CellKey(c, n)
             chain == prefix[j].cell_indices
             cs == Append(chain, c)
  <2>1. c \in CellIndex /\ Supports(c, n) /\ j \in DOMAIN prefix
    BY <1>1, BestLastCellOf DEF LastCells
  <2>2. /\ chain \in Seq(CellIndex) /\ ChainKey(chain) = j /\ ChainArea(chain) = prefix[j].area
    BY <2>1, MapEntry DEF AreChains, IsChain
  <2>3. RowEntry(n, k).cell_indices = cs /\ RowEntry(n, k).area = prefix[j].area + Cells[c].area
    BY DEF RowEntry, RowArea
  <2> HIDE DEF c, j, chain
  <2>4. cs # <<>> /\ cs[Len(cs)] = c /\ SubSeq(cs, 1, Len(cs) - 1) = chain
    BY <2>1, <2>2, AppendProperties
  <2>5. j = k - CellKey(c, n)
    BY DEF j
  <2> HIDE DEF cs
  <2>6. QED
    BY <2>1, <2>2, <2>3, <2>4, <2>5
<1>2. /\ DOMAIN Row(n) = {j \in Key : LastCells(n, j) # {}}
      /\ \A k \in DOMAIN Row(n) : Row(n)[k] = RowEntry(n, k)
  BY DEF Row
<1>3. QED
  BY <1>1, <1>2 DEF RowOfChains

\* Every step leaves entries that are chains.
LEMMA ChainsStep ==
  ASSUME ChainsInv, [Next]_vars
  PROVE  ChainsInv'
<1>1. TypeOK' /\ TypeOK
  BY TypeStep DEF ChainsInv
<1>2. SUFFICES /\ AreChains(prefix)' /\ AreChains(snapshot)'
               /\ \A n \in TableFanouts : RowOfChains(n, table[n])'
  BY <1>1 DEF ChainsInv
<1> USE DEF rowVars
<1>3. CASE BeginRound
  BY <1>3 DEF BeginRound, ChainsInv, AreChains
<1>4. ASSUME NEW k \in pending, Visit(k)
      PROVE  /\ AreChains(prefix)' /\ AreChains(snapshot)'
             /\ \A n \in TableFanouts : RowOfChains(n, table[n])'
  <2>1. /\ prefix' = Relaxed(k) /\ UNCHANGED <<snapshot, table>> /\ k \in DOMAIN snapshot
        /\ AreChains(prefix) /\ AreChains(snapshot) /\ IsMap(snapshot)
    BY <1>1, <1>4 DEF Visit, TypeOK, ChainsInv
  <2>2. ASSUME NEW j \in DOMAIN Relaxed(k) PROVE IsChain(Relaxed(k)[j], j)
    <3>1. CASE j \in Successors(k) /\ OfferBetter(k, j)
      <4>1. Relaxed(k)[j] = Offer(k, j)
        BY <3>1 DEF Relaxed
      <4>2. QED
        BY <2>1, <3>1, <4>1, OfferIsChain
    <3>2. CASE ~(j \in Successors(k) /\ OfferBetter(k, j))
      <4>1. j \in DOMAIN prefix /\ Relaxed(k)[j] = prefix[j]
        BY <3>2 DEF Relaxed, OfferBetter
      <4>2. QED
        BY <2>1, <4>1 DEF AreChains
    <3>3. QED
      BY <3>1, <3>2
  <2>3. AreChains(Relaxed(k))
    BY <2>2 DEF AreChains
  <2>4. QED
    BY <2>1, <2>3 DEF ChainsInv, AreChains, RowOfChains
<1>5. CASE BuildRow
  <2>1. /\ table' = [table EXCEPT ![fanout] = Row(fanout)] /\ UNCHANGED <<prefix, snapshot>>
        /\ fanout \in TableFanouts /\ DOMAIN table = TableFanouts
    BY <1>1, <1>5 DEF BuildRow, TypeOK
  <2>2. RowOfChains(fanout, Row(fanout))
    BY <1>1, <2>1, RowEntryIsChain DEF TypeOK, ChainsInv
  <2>3. \A n \in TableFanouts : RowOfChains(n, table'[n])
    BY <2>1, <2>2 DEF ChainsInv
  <2>4. QED
    BY <2>1, <2>3 DEF ChainsInv, AreChains, RowOfChains
<1>6. ASSUME UNCHANGED <<prefix, snapshot, table>>
      PROVE  /\ AreChains(prefix)' /\ AreChains(snapshot)'
             /\ \A n \in TableFanouts : RowOfChains(n, table[n])'
  BY <1>6 DEF ChainsInv, AreChains, RowOfChains
<1>7. QED
  BY <1>3, <1>4, <1>5, <1>6
     DEF Next, Step, Terminated, EndRound, EndPrefixes, Finish, vars

\* The one entry of the start is the chain of no cells.
LEMMA ChainsInit ==
  ASSUME Init
  PROVE  ChainsInv
<1>1. IsChain([area |-> 0, cell_indices |-> <<>>], 0)
  BY EmptyChain DEF IsChain
<1>2. AreChains(prefix) /\ AreChains(snapshot)
  BY <1>1 DEF Init, AreChains
<1>3. \A n \in TableFanouts : RowOfChains(n, table[n])
  BY DEF Init, RowOfChains
<1>4. QED
  BY <1>2, <1>3, TypeInit DEF ChainsInv

\* Every prefix entry is made by the cells it records, whatever the order of
\* the visits: PrefixEntriesAreChains.
THEOREM PrefixesAreChains == Spec => []PrefixEntriesAreChains
<1>1. Init => ChainsInv
  BY ChainsInit
<1>2. ChainsInv /\ [Next]_vars => ChainsInv'
  BY ChainsStep
<1>3. ChainsInv => PrefixEntriesAreChains
  BY DEF ChainsInv, AreChains, IsChain, PrefixEntriesAreChains
<1>4. QED
  BY <1>1, <1>2, <1>3, PTL DEF Spec

\* What sa_apply takes from the table can drive its loads and completes its
\* chain: RowEntriesAreChains.
THEOREM RowsAreChains == Spec => []RowEntriesAreChains
<1>1. Init => ChainsInv
  BY ChainsInit
<1>2. ChainsInv /\ [Next]_vars => ChainsInv'
  BY ChainsStep
<1>3. ChainsInv => RowEntriesAreChains
  BY DEF ChainsInv, TypeOK, RowOfChains, RowEntriesAreChains
<1>4. QED
  BY <1>1, <1>2, <1>3, PTL DEF Spec

-----------------------------------------------------------------------------
(* A map that no cell can improve, and whose entries all come from lower   *)
(* keys, is the reference.                                                 *)

\* No cell after an entry gives a new or a cheaper one.
ClosedAt(f, k, area) ==
  \A c \in PrefixCells :
    k + CellKey(c, 1) \in Key =>
      /\ k + CellKey(c, 1) \in DOMAIN f
      /\ f[k + CellKey(c, 1)].area <= area + Cells[c].area

Closed(f) == \A k \in DOMAIN f : ClosedAt(f, k, f[k].area)

\* An entry is paid for by one of a lower key.
Supported(f) ==
  /\ 0 \in DOMAIN f /\ f[0].area = 0
  /\ \A k \in DOMAIN f : k # 0 =>
       \E c \in PrefixCells :
         /\ CellKey(c, 1) \in 1 .. k
         /\ k - CellKey(c, 1) \in DOMAIN f
         /\ f[k - CellKey(c, 1)].area + Cells[c].area <= f[k].area

AreaAt(f, k) == IF k \in DOMAIN f THEN {f[k].area} ELSE {}

\* Such a map is the least one, key by key.
LEMMA SettledIsLeast ==
  ASSUME NEW f, IsMap(f), Closed(f), Supported(f)
  PROVE  \A k \in Key : LeastPrefixArea[k] = AreaAt(f, k)
<1> DEFINE failing == {k \in Key : LeastPrefixArea[k] # AreaAt(f, k)}
<1>1. ASSUME failing # {} PROVE FALSE
  <2>1. failing \in SUBSET Nat
    BY KeyType
  <2>2. PICK k \in failing : \A i \in failing : k <= i
    <3> HIDE DEF failing
    <3>1. QED
      BY <1>1, <2>1, Least
  <2>3. k \in Key /\ k \in Nat /\ LeastPrefixArea[k] # AreaAt(f, k)
    BY <2>2, KeyType
  <2>4. \A i \in 0 .. k - 1 : LeastPrefixArea[i] = AreaAt(f, i)
    <3>1. ASSUME NEW i \in 0 .. k - 1 PROVE LeastPrefixArea[i] = AreaAt(f, i)
      <4>1. i \in 0 .. k /\ ~(k <= i)
        BY <2>3
      <4>2. i \in Key
        BY <2>3, <4>1, KeyType
      <4>3. QED
        BY <2>2, <4>1, <4>2
    <3>2. QED
      BY <3>1
  <2>5. LeastPrefixArea[k] = LeastAt(LeastPrefixArea, k)
    BY <2>3, ReferenceIsLeast
  <2>6. CASE k = 0
    BY <2>3, <2>5, <2>6 DEF LeastAt, AreaAt, Supported
  <2>7. CASE k # 0
    <3> DEFINE via == Via(LeastPrefixArea, k)
    <3>1. ASSUME NEW x \in via
          PROVE  k \in DOMAIN f /\ f[k].area <= x /\ x \in Nat
      <4>1. PICK c \in {y \in PrefixCells : CellKey(y, 1) \in 1 .. k} :
              x \in {a + Cells[c].area : a \in LeastPrefixArea[k - CellKey(c, 1)]}
        BY DEF Via
      <4> DEFINE j == k - CellKey(c, 1)
      <4>2. j \in 0 .. k - 1 /\ c \in CellIndex /\ j + CellKey(c, 1) = k
        BY <2>3, <4>1, KeyType
      <4>3. j \in DOMAIN f /\ x = f[j].area + Cells[c].area
        <5> HIDE DEF j
        <5>1. LeastPrefixArea[j] = AreaAt(f, j)
          BY <2>4, <4>2
        <5>2. QED
          BY <4>1, <5>1 DEF AreaAt, j
      <4>4. f[j].area \in Nat /\ Cells[c].area \in Nat
        BY <4>2, <4>3, MapEntry, CellTypes
      <4> HIDE DEF j
      <4>5. ClosedAt(f, j, f[j].area)
        BY <4>3 DEF Closed
      <4>6. k \in DOMAIN f /\ f[k].area <= f[j].area + Cells[c].area
        BY <2>3, <4>1, <4>2, <4>5 DEF ClosedAt
      <4>7. QED
        BY <4>3, <4>4, <4>6
    <3>2. ASSUME k \in DOMAIN f
          PROVE  f[k].area \in via
      <4>1. PICK c \in PrefixCells :
              /\ CellKey(c, 1) \in 1 .. k
              /\ k - CellKey(c, 1) \in DOMAIN f
              /\ f[k - CellKey(c, 1)].area + Cells[c].area <= f[k].area
        BY <2>7, <3>2 DEF Supported
      <4> DEFINE j == k - CellKey(c, 1)
      <4>2. j \in 0 .. k - 1
        BY <2>3, <4>1
      <4>3. LeastPrefixArea[j] = {f[j].area}
        <5> HIDE DEF j
        <5>1. LeastPrefixArea[j] = AreaAt(f, j)
          BY <2>4, <4>2
        <5>2. QED
          BY <4>1, <5>1 DEF AreaAt, j
      <4>4. f[j].area + Cells[c].area \in via
        BY <4>1, <4>3 DEF Via
      <4>5. /\ f[k].area <= f[j].area + Cells[c].area
            /\ f[j].area + Cells[c].area <= f[k].area
            /\ f[j].area + Cells[c].area \in Nat /\ f[k].area \in Nat
        <5> HIDE DEF via
        <5>1. f[k].area \in Nat
          BY <3>2, MapEntry
        <5>2. QED
          BY <3>1, <4>1, <4>4, <5>1
      <4>6. QED
        BY <4>4, <4>5
    <3> HIDE DEF via
    <3>3. LeastAt(LeastPrefixArea, k) = IF via = {} THEN {} ELSE {Min(via)}
      BY <2>7 DEF LeastAt, via
    <3>4. CASE k \in DOMAIN f
      <4>1. f[k].area \in via /\ \A x \in via : f[k].area <= x /\ x \in Nat
        BY <3>1, <3>2, <3>4
      <4>2. Min(via) = f[k].area
        BY <4>1 DEF Min
      <4>3. QED
        BY <2>3, <2>5, <3>3, <3>4, <4>1, <4>2 DEF AreaAt
    <3>5. CASE k \notin DOMAIN f
      <4>1. via = {}
        BY <3>1, <3>5
      <4>2. QED
        BY <2>3, <2>5, <3>3, <3>5, <4>1 DEF AreaAt
    <3>6. QED
      BY <3>4, <3>5
  <2>8. QED
    BY <2>6, <2>7
<1>2. QED
  BY <1>1

\* The row of such a map is the row of the reference.
LEMMA RowIsReference ==
  ASSUME IsMap(prefix), Closed(prefix), Supported(prefix),
         NEW n \in TableFanouts, NEW k \in Key
  PROVE  /\ LastCells(n, k) # {} <=> ChainAreas(n, k) # {}
         /\ LastCells(n, k) # {} =>
              /\ RowEntry(n, k).area = Min(ChainAreas(n, k))
              /\ BestLastCell(n, k)
                 = Min({c \in CellIndex : Min(ChainAreas(n, k)) \in AreasEndingIn(n, k, c)})
<1> DEFINE lasts == LastCells(n, k)
<1>1. ASSUME NEW c \in CellIndex
      PROVE  AreasEndingIn(n, k, c) = IF c \in lasts THEN {RowArea(n, k, c)} ELSE {}
  <2> DEFINE j == k - CellKey(c, n)
  <2>1. CASE Supports(c, n) /\ CellKey(c, n) <= k
    <3>1. j \in 0 .. k
      BY <2>1, KeyType
    <3>2. j \in Key
      BY <3>1, KeyType
    <3>3. LeastPrefixArea[j] = AreaAt(prefix, j)
      BY <3>2, SettledIsLeast
    <3>4. AreasEndingIn(n, k, c) = {a + Cells[c].area : a \in LeastPrefixArea[j]}
      BY <2>1 DEF AreasEndingIn
    <3>5. c \in lasts <=> j \in DOMAIN prefix
      BY <2>1 DEF LastCells
    <3>6. RowArea(n, k, c) = prefix[j].area + Cells[c].area
      BY DEF RowArea
    <3> HIDE DEF j, lasts
    <3>7. CASE c \in lasts
      BY <3>3, <3>4, <3>5, <3>6, <3>7 DEF AreaAt
    <3>8. CASE c \notin lasts
      BY <3>3, <3>4, <3>5, <3>8 DEF AreaAt
    <3>9. QED
      BY <3>7, <3>8
  <2>2. CASE ~(Supports(c, n) /\ CellKey(c, n) <= k)
    <3>1. c \notin lasts
      <4>1. ASSUME c \in lasts PROVE FALSE
        <5>1. Supports(c, n) /\ j \in DOMAIN prefix
          BY <4>1 DEF LastCells
        <5>2. j \in Key /\ CellKey(c, n) \in Nat
          BY <5>1, MapEntry, KeyType
        <5>3. j >= 0 /\ k \in Nat
          BY <5>2, KeyType
        <5>4. QED
          BY <2>2, <5>1, <5>2, <5>3
      <4>2. QED
        BY <4>1
    <3>2. QED
      BY <2>2, <3>1 DEF AreasEndingIn
  <2>3. QED
    BY <2>1, <2>2
<1>2. lasts \subseteq CellIndex
  BY DEF LastCells
<1>3. ChainAreas(n, k) = {RowArea(n, k, c) : c \in lasts}
  BY <1>1, <1>2 DEF ChainAreas
<1>4. lasts # {} <=> ChainAreas(n, k) # {}
  BY <1>3
<1>5. ASSUME lasts # {}
      PROVE  /\ RowEntry(n, k).area = Min(ChainAreas(n, k))
             /\ BestLastCell(n, k)
                = Min({c \in CellIndex : Min(ChainAreas(n, k)) \in AreasEndingIn(n, k, c)})
  <2> DEFINE best == BestLastCell(n, k)
             least == RowArea(n, k, best)
  <2>1. /\ best \in lasts /\ \A c \in lasts : RowArea(n, k, c) \in Nat
        /\ \A c \in lasts : \/ RowArea(n, k, best) < RowArea(n, k, c)
                            \/ RowArea(n, k, best) = RowArea(n, k, c) /\ best <= c
    BY <1>5, BestLastCellOf
  <2> HIDE DEF lasts, best
  <2>2. least \in ChainAreas(n, k) /\ \A x \in ChainAreas(n, k) : least <= x /\ x \in Nat
    BY <1>3, <2>1
  <2>3. Min(ChainAreas(n, k)) = least
    BY <2>2 DEF Min
  <2>4. RowEntry(n, k).area = least
    BY DEF RowEntry, best
  <2> DEFINE S == {c \in CellIndex : Min(ChainAreas(n, k)) \in AreasEndingIn(n, k, c)}
  <2>5. best \in S
    BY <1>1, <1>2, <2>1, <2>3
  <2>6. \A c \in S : best <= c /\ c \in Nat
    <3>1. \A c \in S : c \in CellIndex /\ c \in lasts /\ RowArea(n, k, c) = least
      BY <1>1, <2>3
    <3>2. \A c \in S : c \in Nat /\ best \in Nat
      BY <1>2, <2>1, <3>1, CellTypes
    <3> HIDE DEF S
    <3>3. QED
      BY <2>1, <3>1, <3>2
  <2> HIDE DEF S
  <2>7. best \in Nat
    BY <1>2, <2>1, CellTypes
  <2>8. Min(S) = best
    BY <2>5, <2>6, <2>7, LeastIsMin
  <2>9. QED
    BY <2>3, <2>4, <2>8 DEF S, best
<1>6. QED
  BY <1>4, <1>5

-----------------------------------------------------------------------------
(* The rounds.                                                             *)

MinimalInv ==
  /\ TypeOK
  /\ Supported(prefix)
  /\ \A k \in DOMAIN snapshot : k \in DOMAIN prefix /\ prefix[k].area <= snapshot[k].area
  /\ pc = "relax" =>
       \A k \in DOMAIN snapshot \ pending : ClosedAt(prefix, k, snapshot[k].area)
  /\ pc = "relax" /\ ~changed => prefix = snapshot
  /\ pc # "relax" /\ ~changed => Closed(prefix)
  /\ pc \in {"round", "relax"} => fanout = 1
  /\ pc \in {"rows", "done"} => \A n \in TableFanouts : n < fanout => table[n] = Row(n)
  /\ pc = "done" => fanout \notin TableFanouts

\* After a visit nothing that comes after k can be improved from the snapshot.
LEMMA VisitCloses ==
  ASSUME IsMap(snapshot), IsMap(prefix), NEW k \in DOMAIN snapshot
  PROVE  ClosedAt(Relaxed(k), k, snapshot[k].area)
<1> SUFFICES ASSUME NEW c \in PrefixCells, k + CellKey(c, 1) \in Key
             PROVE  /\ k + CellKey(c, 1) \in DOMAIN Relaxed(k)
                    /\ Relaxed(k)[k + CellKey(c, 1)].area <= snapshot[k].area + Cells[c].area
  BY DEF ClosedAt
<1> DEFINE nk == k + CellKey(c, 1)
           cs == CellsTo(k, nk)
           f == [x \in cs |-> Cells[x].area]
           first == FirstCheapest(cs)
<1>1. nk \in Successors(k) /\ c \in cs /\ cs \in SUBSET CellIndex
  BY DEF CellsTo, Successors, PrefixCells
<1>2. cs \in SUBSET Nat /\ f \in [cs -> Nat] /\ cs # {}
  BY <1>1, CellTypes
<1>3. PICK x \in cs : \A y \in cs : f[x] < f[y] \/ (f[x] = f[y] /\ x <= y)
  <2> HIDE DEF cs, f
  <2>1. QED
    BY <1>2, FirstOfLeast
<1>4. \A y \in cs : Cells[x].area < Cells[y].area \/ (Cells[x].area = Cells[y].area /\ x <= y)
  BY <1>3
<1>5. /\ first \in cs
      /\ \A y \in cs : \/ Cells[first].area < Cells[y].area
                       \/ (Cells[first].area = Cells[y].area /\ first <= y)
  <2> HIDE DEF cs
  <2>1. QED
    BY <1>4 DEF FirstCheapest
<1>6. /\ Cells[first].area <= Cells[c].area /\ Cells[first].area \in Nat /\ Cells[c].area \in Nat
      /\ snapshot[k].area \in Nat
  <2> HIDE DEF cs, first
  <2>1. first \in CellIndex /\ c \in CellIndex
    BY <1>1, <1>5
  <2>2. Cells[first].area \in Nat /\ Cells[c].area \in Nat /\ snapshot[k].area \in Nat
    BY <2>1, CellTypes, MapEntry
  <2>3. QED
    BY <1>1, <1>5, <2>2
<1>7. Offer(k, nk).area = snapshot[k].area + Cells[first].area
  BY DEF Offer, Extend
<1>8. nk \in DOMAIN Relaxed(k) /\ Relaxed(k)[nk].area <= Offer(k, nk).area
  <2> HIDE DEF nk
  <2>1. nk \in DOMAIN Relaxed(k) /\ Offer(k, nk).area \in Nat
    BY <1>1, OfferType DEF Relaxed
  <2>2. CASE OfferBetter(k, nk)
    BY <1>1, <2>1, <2>2 DEF Relaxed
  <2>3. CASE ~OfferBetter(k, nk)
    <3>1. nk \in DOMAIN prefix /\ ~(Offer(k, nk).area < prefix[nk].area)
      BY <2>3 DEF OfferBetter
    <3>2. Relaxed(k)[nk] = prefix[nk] /\ prefix[nk].area \in Nat
      BY <2>3, <3>1, MapEntry DEF Relaxed
    <3>3. QED
      BY <2>1, <3>1, <3>2
  <2>4. QED
    BY <2>2, <2>3
<1> HIDE DEF nk, first
<1>9. Relaxed(k)[nk].area \in Nat
  BY <1>8, VisitedMap, MapEntry
<1>10. QED
  BY <1>6, <1>7, <1>8, <1>9 DEF nk

\* What was closed stays closed when areas fall.
LEMMA ClosedStays ==
  ASSUME NEW f, NEW g, IsMap(f), IsMap(g), NEW k, NEW area \in Nat, ClosedAt(f, k, area),
         \A j \in DOMAIN f : j \in DOMAIN g /\ g[j].area <= f[j].area
  PROVE  ClosedAt(g, k, area)
<1> SUFFICES ASSUME NEW c \in PrefixCells, k + CellKey(c, 1) \in Key
             PROVE  /\ k + CellKey(c, 1) \in DOMAIN g
                    /\ g[k + CellKey(c, 1)].area <= area + Cells[c].area
  BY DEF ClosedAt
<1> DEFINE j == k + CellKey(c, 1)
<1>1. j \in DOMAIN f /\ f[j].area <= area + Cells[c].area
  BY DEF ClosedAt
<1> HIDE DEF j
<1>2. j \in DOMAIN g /\ g[j].area <= f[j].area
  BY <1>1
<1>3. f[j].area \in Nat /\ g[j].area \in Nat /\ Cells[c].area \in Nat
  BY <1>1, <1>2, MapEntry, KeyType, CellTypes
<1>4. QED
  BY <1>1, <1>2, <1>3 DEF j

\* A visit pays every entry it makes from the one it extends; key 0 keeps its
\* empty chain, since no chain is cheaper.
LEMMA VisitSupports ==
  ASSUME IsMap(snapshot), IsMap(prefix), Supported(prefix), NEW k \in DOMAIN snapshot,
         \A j \in DOMAIN snapshot : j \in DOMAIN prefix /\ prefix[j].area <= snapshot[j].area
  PROVE  Supported(Relaxed(k))
<1> DEFINE g == Relaxed(k)
<1>1. /\ IsMap(g) /\ DOMAIN g = DOMAIN prefix \cup Successors(k)
      /\ \A j \in DOMAIN prefix : j \in DOMAIN g /\ g[j].area <= prefix[j].area
  BY VisitedMap DEF Relaxed
<1>2. ASSUME NEW nk \in Successors(k), OfferBetter(k, nk)
      PROVE  nk # 0 /\ \E c \in PrefixCells :
               /\ CellKey(c, 1) \in 1 .. nk
               /\ nk - CellKey(c, 1) \in DOMAIN g
               /\ g[nk - CellKey(c, 1)].area + Cells[c].area <= g[nk].area
  <2> DEFINE c == FirstCheapest(CellsTo(k, nk))
  <2>1. c \in PrefixCells /\ k + CellKey(c, 1) = nk
    <3>1. CellsTo(k, nk) \in SUBSET CellIndex /\ CellsTo(k, nk) # {}
      BY DEF Successors, CellsTo, PrefixCells
    <3>2. c \in CellsTo(k, nk)
      BY <3>1, FirstCheapestOf
    <3>3. QED
      BY <3>2 DEF CellsTo
  <2>2. Offer(k, nk).area = snapshot[k].area + Cells[c].area
    BY DEF Offer, Extend
  <2>3. g[nk] = Offer(k, nk) /\ Offer(k, nk).area \in Nat
    BY <1>2, OfferType DEF Relaxed
  <2> HIDE DEF c, g
  <2>4. /\ k \in Nat /\ nk \in Nat /\ CellKey(c, 1) \in Nat /\ Cells[c].area \in Nat
        /\ snapshot[k].area \in Nat /\ prefix[k].area \in Nat /\ g[k].area \in Nat
        /\ prefix[k].area <= snapshot[k].area /\ g[k].area <= prefix[k].area
        /\ k \in DOMAIN prefix /\ k \in DOMAIN g
    <3>1. c \in CellIndex /\ CellKey(c, 1) \in Nat /\ Cells[c].area \in Nat
      BY <2>1, KeyType, CellTypes
    <3>2. k \in DOMAIN prefix /\ k \in DOMAIN g
      BY <1>1
    <3>3. nk \in Nat
      BY KeyType DEF Successors
    <3>4. k \in Nat
      BY MapEntry, KeyType
    <3>5. QED
      BY <1>1, <3>1, <3>2, <3>3, <3>4, MapEntry
  <2>5. CellKey(c, 1) # 0
    <3>1. ASSUME CellKey(c, 1) = 0 PROVE FALSE
      <4>1. nk = k
        BY <2>1, <2>4, <3>1
      <4>2. Offer(k, nk).area < prefix[k].area
        BY <1>2, <2>4, <4>1 DEF OfferBetter
      <4>3. QED
        BY <2>2, <2>4, <4>2
    <3>2. QED
      BY <3>1
  <2>6. nk # 0 /\ CellKey(c, 1) \in 1 .. nk /\ nk - CellKey(c, 1) = k
    BY <2>1, <2>4, <2>5
  <2>7. g[k].area + Cells[c].area <= g[nk].area
    BY <2>2, <2>3, <2>4
  <2>8. QED
    BY <2>1, <2>4, <2>6, <2>7
<1>3. ASSUME NEW j \in DOMAIN prefix, ~(j \in Successors(k) /\ OfferBetter(k, j))
      PROVE  g[j] = prefix[j]
  BY <1>3 DEF Relaxed
<1>4. 0 \in DOMAIN g /\ g[0].area = 0
  <2>1. 0 \in DOMAIN prefix /\ prefix[0].area = 0
    BY DEF Supported
  <2> HIDE DEF g
  <2>2. QED
    BY <1>1, <1>2, <1>3, <2>1
<1>5. ASSUME NEW j \in DOMAIN g, j # 0
      PROVE  \E c \in PrefixCells :
               /\ CellKey(c, 1) \in 1 .. j
               /\ j - CellKey(c, 1) \in DOMAIN g
               /\ g[j - CellKey(c, 1)].area + Cells[c].area <= g[j].area
  <2> HIDE DEF g
  <2>1. CASE j \in Successors(k) /\ OfferBetter(k, j)
    BY <1>2, <2>1
  <2>2. CASE ~(j \in Successors(k) /\ OfferBetter(k, j))
    <3>1. j \in DOMAIN prefix
      BY <1>1, <2>2 DEF OfferBetter
    <3>2. PICK c \in PrefixCells :
            /\ CellKey(c, 1) \in 1 .. j
            /\ j - CellKey(c, 1) \in DOMAIN prefix
            /\ prefix[j - CellKey(c, 1)].area + Cells[c].area <= prefix[j].area
      BY <1>5, <3>1 DEF Supported
    <3> DEFINE i == j - CellKey(c, 1)
    <3>3. i \in DOMAIN prefix /\ prefix[i].area + Cells[c].area <= prefix[j].area
      BY <3>2
    <3> HIDE DEF i
    <3>4. /\ i \in DOMAIN g /\ g[i].area <= prefix[i].area
          /\ g[i].area \in Nat /\ prefix[i].area \in Nat /\ prefix[j].area \in Nat
          /\ Cells[c].area \in Nat
      BY <1>1, <3>1, <3>3, MapEntry, KeyType, CellTypes
    <3>5. g[j] = prefix[j]
      BY <1>3, <2>2, <3>1
    <3>6. g[i].area + Cells[c].area <= g[j].area
      BY <3>3, <3>4, <3>5
    <3>7. QED
      BY <3>2, <3>4, <3>6 DEF i
  <2>3. QED
    BY <2>1, <2>2
<1>6. QED
  BY <1>4, <1>5 DEF Supported

\* The start is supported, and nothing has been visited.
LEMMA MinimalInit ==
  ASSUME Init
  PROVE  MinimalInv
<1>1. /\ prefix = [k \in {0} |-> [area |-> 0, cell_indices |-> <<>>]] /\ snapshot = prefix
      /\ pc = "round" /\ changed = TRUE /\ fanout = 1
  BY DEF Init
<1>2. Supported(prefix)
  BY <1>1 DEF Supported
<1>3. \A k \in DOMAIN snapshot : k \in DOMAIN prefix /\ prefix[k].area <= snapshot[k].area
  BY <1>1
<1>4. QED
  BY <1>1, <1>2, <1>3, TypeInit DEF MinimalInv

\* A visit closes its key and keeps the entries paid for.
LEMMA MinimalVisit ==
  ASSUME MinimalInv, NEW k \in pending, Visit(k), TypeOK'
  PROVE  MinimalInv'
<1>1. /\ IsMap(prefix) /\ IsMap(snapshot) /\ k \in DOMAIN snapshot /\ pc = "relax"
      /\ prefix' = Relaxed(k) /\ pending' = pending \ {k}
      /\ UNCHANGED <<pc, snapshot, table, fanout>>
      /\ changed' = (changed \/ \E nk \in Successors(k) : OfferBetter(k, nk))
      /\ changed \in BOOLEAN
  BY DEF Visit, MinimalInv, TypeOK, rowVars
<1>2. /\ IsMap(prefix')
      /\ \A j \in DOMAIN prefix : j \in DOMAIN prefix' /\ prefix'[j].area <= prefix[j].area
  BY <1>1, VisitedMap
<1>3. Supported(prefix)'
  <2>1. Supported(Relaxed(k))
    BY <1>1, VisitSupports DEF MinimalInv
  <2>2. QED
    BY <1>1, <2>1 DEF Supported
<1>4. ASSUME NEW j \in DOMAIN snapshot
      PROVE  j \in DOMAIN prefix' /\ prefix'[j].area <= snapshot[j].area
  <2>1. /\ j \in DOMAIN prefix /\ prefix[j].area <= snapshot[j].area
        /\ j \in DOMAIN prefix' /\ prefix'[j].area <= prefix[j].area
    BY <1>2 DEF MinimalInv
  <2>2. prefix[j].area \in Nat /\ prefix'[j].area \in Nat /\ snapshot[j].area \in Nat
    BY <1>1, <1>2, <2>1, MapEntry
  <2>3. QED
    BY <2>1, <2>2
<1>5. ASSUME NEW j \in DOMAIN snapshot \ (pending \ {k})
      PROVE  ClosedAt(prefix', j, snapshot[j].area)
  <2>1. CASE j = k
    BY <1>1, <2>1, VisitCloses
  <2>2. CASE j # k
    <3>1. ClosedAt(prefix, j, snapshot[j].area) /\ snapshot[j].area \in Nat
      BY <1>1, <2>2, MapEntry DEF MinimalInv
    <3>2. QED
      BY <1>1, <1>2, <3>1, ClosedStays
  <2>3. QED
    BY <2>1, <2>2
<1>6. ASSUME ~changed' PROVE prefix' = snapshot
  <2>1. ~changed /\ \A nk \in Successors(k) : ~OfferBetter(k, nk)
    BY <1>1, <1>6
  <2>2. prefix = snapshot
    BY <1>1, <2>1 DEF MinimalInv
  <2>3. Successors(k) \subseteq DOMAIN prefix
    BY <2>1 DEF OfferBetter
  <2>4. Relaxed(k) = [j \in DOMAIN prefix |-> prefix[j]]
    BY <2>1, <2>3 DEF Relaxed
  <2>5. prefix = [j \in DOMAIN prefix |-> prefix[j]]
    BY <1>1 DEF IsMap
  <2>6. QED
    BY <1>1, <2>2, <2>4, <2>5
<1>7. \A j : ClosedAt(prefix, j, snapshot[j].area)' <=> ClosedAt(prefix', j, snapshot[j].area)
  BY <1>1 DEF ClosedAt
<1>8. QED
  BY <1>1, <1>3, <1>4, <1>5, <1>6, <1>7 DEF MinimalInv

\* A row depends on the prefixes only.
LEMMA RowKept ==
  ASSUME NEW n, UNCHANGED prefix
  PROVE  Row(n)' = Row(n)
<1>1. \A k : LastCells(n, k)' = LastCells(n, k)
  BY DEF LastCells
<1>2. \A k, c : RowArea(n, k, c)' = RowArea(n, k, c)
  BY DEF RowArea
<1>3. \A k : BestLastCell(n, k)' = BestLastCell(n, k)
  BY DEF BestLastCell, LastCells, RowArea
<1>4. \A k : RowEntry(n, k)' = RowEntry(n, k)
  BY <1>2, <1>3, Zenon DEF RowEntry
<1>5. DOMAIN Row(n)' = DOMAIN Row(n) /\ \A k \in DOMAIN Row(n) : Row(n)'[k] = Row(n)[k]
  BY <1>1, <1>4 DEF Row
<1>6. Row(n)' = [k \in DOMAIN Row(n)' |-> Row(n)'[k]] /\ Row(n) = [k \in DOMAIN Row(n) |-> Row(n)[k]]
  BY DEF Row
<1>7. QED
  BY <1>5, <1>6

\* Every step keeps MinimalInv.
LEMMA MinimalStep ==
  ASSUME MinimalInv, [Next]_vars
  PROVE  MinimalInv'
<1>1. TypeOK /\ TypeOK'
  BY TypeStep DEF MinimalInv
<1> USE DEF rowVars
<1>2. CASE BeginRound
  <2>1. /\ pc' = "relax" /\ snapshot' = prefix /\ prefix' = prefix /\ pending' = DOMAIN prefix
        /\ changed' = FALSE /\ pc = "round" /\ UNCHANGED <<table, fanout>>
    BY <1>2 DEF BeginRound
  <2>2. Supported(prefix)'
    BY <2>1 DEF MinimalInv, Supported
  <2>3. \A k \in DOMAIN snapshot' : k \in DOMAIN prefix' /\ prefix'[k].area <= snapshot'[k].area
    BY <1>1, <2>1, MapEntry DEF TypeOK
  <2>4. \A k : k \notin DOMAIN snapshot' \ pending'
    BY <2>1
  <2>5. fanout' = 1
    BY <2>1 DEF MinimalInv
  <2>6. QED
    BY <1>1, <2>1, <2>2, <2>3, <2>4, <2>5 DEF MinimalInv
<1>3. ASSUME NEW k \in pending, Visit(k) PROVE MinimalInv'
  BY <1>1, <1>3, MinimalVisit
<1>4. CASE EndRound
  <2>1. /\ pc = "relax" /\ pc' = "round" /\ pending = {}
        /\ UNCHANGED <<prefix, snapshot, pending, changed, table, fanout>>
    BY <1>4 DEF EndRound
  <2>2. ASSUME ~changed PROVE Closed(prefix)
    <3>1. prefix = snapshot /\ \A k \in DOMAIN snapshot : ClosedAt(prefix, k, snapshot[k].area)
      BY <2>1, <2>2 DEF MinimalInv
    <3>2. QED
      BY <3>1 DEF Closed
  <2>3. Closed(prefix)' <=> Closed(prefix)
    BY <2>1 DEF Closed, ClosedAt
  <2>4. Supported(prefix)'
    BY <2>1 DEF MinimalInv, Supported
  <2>5. QED
    BY <1>1, <2>1, <2>2, <2>3, <2>4 DEF MinimalInv
<1>5. CASE EndPrefixes
  <2>1. /\ pc = "round" /\ pc' = "rows"
        /\ UNCHANGED <<prefix, snapshot, changed, table, fanout>>
    BY <1>5 DEF EndPrefixes
  <2>2. fanout = 1
    BY <2>1 DEF MinimalInv
  <2>3. Closed(prefix)' <=> Closed(prefix)
    BY <2>1 DEF Closed, ClosedAt
  <2>4. Supported(prefix)'
    BY <2>1 DEF MinimalInv, Supported
  <2>5. \A n \in TableFanouts : ~(n < fanout')
    BY <2>1, <2>2, FanoutMax DEF TableFanouts
  <2>6. QED
    BY <1>1, <2>1, <2>3, <2>4, <2>5 DEF MinimalInv
<1>6. CASE BuildRow
  <2>1. /\ pc = "rows" /\ fanout \in TableFanouts /\ fanout' = fanout + 1
        /\ table' = [table EXCEPT ![fanout] = Row(fanout)] /\ DOMAIN table = TableFanouts
        /\ UNCHANGED <<pc, prefix, snapshot, pending, changed>>
    BY <1>1, <1>6 DEF BuildRow, TypeOK
  <2>2. Closed(prefix)' <=> Closed(prefix)
    BY <2>1 DEF Closed, ClosedAt
  <2>3. Supported(prefix)'
    BY <2>1 DEF MinimalInv, Supported
  <2>4. \A n \in TableFanouts : Row(n)' = Row(n)
    BY <2>1, RowKept
  <2>5. ASSUME NEW n \in TableFanouts, n < fanout' PROVE table'[n] = Row(n)
    <3>1. n = fanout \/ n < fanout
      BY <2>1, <2>5, FanoutMax DEF TableFanouts
    <3>2. QED
      BY <2>1, <3>1 DEF MinimalInv
  <2>6. QED
    BY <1>1, <2>1, <2>2, <2>3, <2>4, <2>5 DEF MinimalInv
<1>7. ASSUME UNCHANGED <<prefix, snapshot, pending, changed, table, fanout>>,
             pc' = pc \/ (pc = "rows" /\ pc' = "done" /\ fanout \notin TableFanouts)
      PROVE  MinimalInv'
  <2>1. Closed(prefix)' <=> Closed(prefix)
    BY <1>7 DEF Closed, ClosedAt
  <2>2. Supported(prefix)'
    BY <1>7 DEF MinimalInv, Supported
  <2>3. \A n \in TableFanouts : Row(n)' = Row(n)
    BY <1>7, RowKept
  <2>4. \A k : ClosedAt(prefix, k, snapshot[k].area)' <=> ClosedAt(prefix, k, snapshot[k].area)
    BY <1>7 DEF ClosedAt
  <2>5. QED
    BY <1>1, <1>7, <2>1, <2>2, <2>3, <2>4 DEF MinimalInv
<1>8. CASE Finish
  BY <1>7, <1>8 DEF Finish
<1>9. CASE UNCHANGED vars
  BY <1>7, <1>9 DEF vars
<1>10. QED
  BY <1>2, <1>3, <1>4, <1>5, <1>6, <1>8, <1>9 DEF Next, Step, Terminated

\* A table whose rounds ended because nothing changed is the reference:
\* ConvergedTableIsMinimal.
THEOREM ConvergedTableIsReference == Spec => []ConvergedTableIsMinimal
<1>1. Init => MinimalInv
  BY MinimalInit
<1>2. MinimalInv /\ [Next]_vars => MinimalInv'
  BY MinimalStep
<1>3. MinimalInv => ConvergedTableIsMinimal
  <2> SUFFICES ASSUME MinimalInv, pc = "done", ~changed
               PROVE  TableContents = ChainTable
    BY DEF ConvergedTableIsMinimal
  <2>1. /\ IsMap(prefix) /\ Closed(prefix) /\ Supported(prefix)
        /\ DOMAIN table = TableFanouts /\ fanout \in 1 .. TableFanoutMax + 1
        /\ fanout \notin TableFanouts
    BY DEF MinimalInv, TypeOK
  <2>2. \A n \in TableFanouts : n < fanout
    BY <2>1, FanoutMax DEF TableFanouts
  <2>3. \A n \in TableFanouts : table[n] = Row(n)
    BY <2>2 DEF MinimalInv
  <2>4. ASSUME NEW n \in TableFanouts
        PROVE  [k \in DOMAIN table[n] |->
                  LET e == table[n][k]
                  IN  [area |-> e.area, last |-> e.cell_indices[Len(e.cell_indices)]]]
               = [k \in {j \in 0 .. MaxKey : ChainAreas(n, j) # {}} |->
                    LET least == Min(ChainAreas(n, k))
                    IN  [area |-> least,
                         last |-> Min({c \in CellIndex : least \in AreasEndingIn(n, k, c)})]]
    <3>1. DOMAIN table[n] = {j \in 0 .. MaxKey : ChainAreas(n, j) # {}}
      <4>1. DOMAIN Row(n) = {j \in Key : LastCells(n, j) # {}}
        BY DEF Row
      <4>2. \A j \in Key : LastCells(n, j) # {} <=> ChainAreas(n, j) # {}
        BY <2>1, RowIsReference
      <4>3. QED
        BY <2>3, <4>1, <4>2 DEF Key
    <3>2. ASSUME NEW k \in DOMAIN table[n]
          PROVE  /\ table[n][k].area = Min(ChainAreas(n, k))
                 /\ table[n][k].cell_indices[Len(table[n][k].cell_indices)]
                    = Min({c \in CellIndex : Min(ChainAreas(n, k)) \in AreasEndingIn(n, k, c)})
      <4>1. k \in Key /\ LastCells(n, k) # {} /\ table[n][k] = RowEntry(n, k)
        BY <2>3 DEF Row
      <4> DEFINE c == BestLastCell(n, k)
                 chain == prefix[k - CellKey(c, n)].cell_indices
      <4>2. /\ RowEntry(n, k).area = Min(ChainAreas(n, k))
            /\ c = Min({x \in CellIndex : Min(ChainAreas(n, k)) \in AreasEndingIn(n, k, x)})
        BY <2>1, <4>1, RowIsReference
      <4>3. c \in CellIndex /\ k - CellKey(c, n) \in DOMAIN prefix
        BY <2>1, <4>1, BestLastCellOf DEF LastCells
      <4>4. chain \in Seq(CellIndex)
        BY <2>1, <4>3, MapEntry
      <4>5. RowEntry(n, k).cell_indices = Append(chain, c)
        BY DEF RowEntry
      <4> HIDE DEF c, chain
      <4>6. Append(chain, c)[Len(Append(chain, c))] = c
        BY <4>3, <4>4, AppendProperties
      <4>7. QED
        BY <4>1, <4>2, <4>5, <4>6
    <3>3. QED
      BY <3>1, <3>2
  <2>5. QED
    BY <2>1, <2>4 DEF TableContents, ChainTable, Key
<1>4. QED
  BY <1>1, <1>2, <1>3, PTL DEF Spec

-----------------------------------------------------------------------------
(* The reference for rounds, by recursion on the number of cells.          *)

\* The areas that one more cell, or none, makes of those in f.
LongerAreas(f, k) ==
  LET longer == UNION {{a + Cells[c].area : a \in f[k - CellKey(c, 1)]} :
                         c \in {x \in PrefixCells : CellKey(x, 1) \in 0 .. k}}
  IN  longer \cup f[k]

LeastOf(areas) == {a \in areas : \A b \in areas : a <= b}

NextAreas(f) == [k \in Key |-> LeastOf(LongerAreas(f, k))]

NoCells == [k \in Key |-> IF k = 0 THEN {0} ELSE {}]

RoundAt(f, r) == IF r = 0 THEN NoCells ELSE NextAreas(f[r - 1])

IsRounds(f, n) == f = [r \in 0 .. n |-> RoundAt(f, r)]

\* The recursion has a solution for every number of rounds.
LEMMA RoundsExist ==
  ASSUME NEW n \in Nat
  PROVE  \E f : IsRounds(f, n)
<1> DEFINE failing == {r \in 0 .. n : ~ \E f : IsRounds(f, r)}
<1>1. ASSUME failing # {} PROVE FALSE
  <2>1. failing \in SUBSET Nat
    OBVIOUS
  <2>2. PICK r \in failing : \A i \in failing : r <= i
    <3> HIDE DEF failing
    <3>1. QED
      BY <1>1, <2>1, Least
  <2>3. r \in 0 .. n /\ ~ \E f : IsRounds(f, r)
    BY <2>2
  <2>4. \E g : \A i \in 0 .. r - 1 : g[i] = RoundAt(g, i)
    <3>1. CASE r = 0
      BY <3>1
    <3>2. CASE r # 0
      <4>1. r - 1 \in 0 .. n /\ ~(r <= r - 1)
        BY <2>3, <3>2
      <4>2. r - 1 \notin failing
        <5> HIDE DEF failing
        <5>1. QED
          BY <2>2, <4>1
      <4>3. PICK g : IsRounds(g, r - 1)
        BY <4>1, <4>2
      <4>4. QED
        BY <4>3 DEF IsRounds
    <3>3. QED
      BY <3>1, <3>2
  <2>5. PICK g : \A i \in 0 .. r - 1 : g[i] = RoundAt(g, i)
    BY <2>4
  <2> DEFINE h == [i \in 0 .. r |-> IF i = r THEN RoundAt(g, r) ELSE g[i]]
  <2>6. r \in Nat /\ \A i \in 0 .. r - 1 : h[i] = g[i]
    BY <2>3
  <2>7. ASSUME NEW i \in 0 .. r PROVE h[i] = RoundAt(h, i)
    <3>1. h[i] = RoundAt(g, i)
      BY <2>5, <2>6
    <3>2. i # 0 => h[i - 1] = g[i - 1]
      BY <2>6
    <3> HIDE DEF h
    <3>3. QED
      BY <3>1, <3>2 DEF RoundAt
  <2>8. h = [i \in 0 .. r |-> h[i]]
    OBVIOUS
  <2> HIDE DEF h
  <2>9. IsRounds(h, r)
    BY <2>7, <2>8 DEF IsRounds
  <2>10. QED
    BY <2>3, <2>9
<1>2. n \in 0 .. n
  OBVIOUS
<1>3. QED
  BY <1>1, <1>2

\* The reference satisfies its recursion.
LEMMA RoundsRecursion ==
  \A r \in 0 .. RoundLimit : LeastAreaInRounds[r] = RoundAt(LeastAreaInRounds, r)
<1>1. \E f : IsRounds(f, RoundLimit)
  BY RoundsExist, RoundAssumption
<1>2. IsRounds(CHOOSE f : IsRounds(f, RoundLimit), RoundLimit)
  <2> HIDE DEF IsRounds
  <2>1. QED
    BY <1>1
<1> DEFINE body(f, r) ==
             [k \in Key |->
                LET longer == UNION {{a + Cells[c].area : a \in f[r - 1][k - CellKey(c, 1)]} :
                                       c \in {x \in PrefixCells : CellKey(x, 1) \in 0 .. k}}
                    areas == longer \cup f[r - 1][k]
                IN  IF r = 0 THEN (IF k = 0 THEN {0} ELSE {})
                    ELSE {a \in areas : \A b \in areas : a <= b}]
<1>3. ASSUME NEW f, NEW r PROVE body(f, r) = RoundAt(f, r)
  <2>1. CASE r = 0
    BY <2>1 DEF RoundAt, NoCells
  <2>2. CASE r # 0
    BY <2>2 DEF RoundAt, NextAreas, LeastOf, LongerAreas
  <2>3. QED
    BY <2>1, <2>2
<1>4. LeastAreaInRounds = CHOOSE f : f = [r \in 0 .. RoundLimit |-> body(f, r)]
  BY DEF LeastAreaInRounds
<1> HIDE DEF body
<1>5. ASSUME NEW f PROVE [r \in 0 .. RoundLimit |-> body(f, r)] = [r \in 0 .. RoundLimit |-> RoundAt(f, r)]
  BY <1>3
<1>6. LeastAreaInRounds = CHOOSE f : IsRounds(f, RoundLimit)
  BY <1>4, <1>5 DEF IsRounds
<1>7. IsRounds(LeastAreaInRounds, RoundLimit)
  BY <1>2, <1>6
<1>8. QED
  BY <1>7 DEF IsRounds

\* An area that is not of the key itself has a cell behind another key.
LEMMA LongerMember ==
  ASSUME NEW f, NEW k \in Key, NEW x \in LongerAreas(f, k)
  PROVE  \/ x \in f[k]
         \/ \E c \in PrefixCells, j \in Key :
              /\ j \in Nat /\ k \in Nat /\ CellKey(c, 1) \in Nat /\ Cells[c].area \in Nat
              /\ j + CellKey(c, 1) = k
              /\ \E a \in f[j] : x = a + Cells[c].area
<1>1. ASSUME NEW c \in PrefixCells, CellKey(c, 1) \in 0 .. k,
             NEW a \in f[k - CellKey(c, 1)], x = a + Cells[c].area
      PROVE  \E j \in Key :
               /\ j \in Nat /\ k \in Nat /\ CellKey(c, 1) \in Nat /\ Cells[c].area \in Nat
               /\ j + CellKey(c, 1) = k
               /\ \E b \in f[j] : x = b + Cells[c].area
  <2> DEFINE j == k - CellKey(c, 1)
  <2>1. k \in Nat /\ CellKey(c, 1) \in Nat /\ Cells[c].area \in Nat
    BY KeyType, CellTypes
  <2>2. j \in 0 .. k /\ j \in Nat /\ j + CellKey(c, 1) = k
    BY <1>1, <2>1
  <2>3. j \in Key
    BY <2>2, KeyType
  <2>4. a \in f[j]
    OBVIOUS
  <2> HIDE DEF j
  <2>5. QED
    BY <1>1, <2>1, <2>2, <2>3, <2>4
<1>2. CASE x \notin f[k]
  <2>1. PICK c \in {y \in PrefixCells : CellKey(y, 1) \in 0 .. k} :
          x \in {a + Cells[c].area : a \in f[k - CellKey(c, 1)]}
    BY <1>2 DEF LongerAreas
  <2>2. PICK a \in f[k - CellKey(c, 1)] : x = a + Cells[c].area
    BY <2>1
  <2>3. c \in PrefixCells /\ CellKey(c, 1) \in 0 .. k
    OBVIOUS
  <2>4. QED
    BY <1>1, <2>2, <2>3
<1>3. QED
  BY <1>2

\* One more cell leaves natural areas natural.
LEMMA LongerNat ==
  ASSUME NEW f \in [Key -> SUBSET Nat], NEW k \in Key
  PROVE  LongerAreas(f, k) \in SUBSET Nat
<1>1. ASSUME NEW x \in LongerAreas(f, k) PROVE x \in Nat
  <2>1. CASE x \in f[k]
    BY <2>1
  <2>2. CASE x \notin f[k]
    <3>1. PICK c \in PrefixCells, j \in Key :
            Cells[c].area \in Nat /\ \E a \in f[j] : x = a + Cells[c].area
      BY <2>2, LongerMember
    <3>2. f[j] \subseteq Nat
      OBVIOUS
    <3>3. QED
      BY <3>1, <3>2
  <2>3. QED
    BY <2>1, <2>2
<1>2. QED
  BY <1>1

\* An area of a lower key and a cell in between make an area of the key.
LEMMA LongerOf ==
  ASSUME NEW f, NEW k \in Key, NEW c \in PrefixCells, NEW j \in Key, j + CellKey(c, 1) = k,
         NEW a \in f[j]
  PROVE  a + Cells[c].area \in LongerAreas(f, k)
<1>1. j \in Nat /\ k \in Nat /\ CellKey(c, 1) \in Nat
  BY KeyType
<1>2. CellKey(c, 1) \in 0 .. k /\ k - CellKey(c, 1) = j
  BY <1>1
<1>3. QED
  BY <1>2 DEF LongerAreas

\* The areas of every round are natural numbers.
LEMMA RoundsType ==
  \A r \in 0 .. RoundLimit : LeastAreaInRounds[r] \in [Key -> SUBSET Nat]
<1> DEFINE L == LeastAreaInRounds
           failing == {r \in 0 .. RoundLimit : L[r] \notin [Key -> SUBSET Nat]}
<1>1. ASSUME failing # {} PROVE FALSE
  <2>1. failing \in SUBSET Nat
    BY RoundAssumption
  <2>2. PICK r \in failing : \A i \in failing : r <= i
    <3> HIDE DEF failing
    <3>1. QED
      BY <1>1, <2>1, Least
  <2>3. r \in 0 .. RoundLimit /\ r \in Nat /\ L[r] = RoundAt(L, r)
    BY <2>2, RoundsRecursion, RoundAssumption
  <2>4. CASE r = 0
    BY <2>2, <2>3, <2>4 DEF RoundAt, NoCells
  <2>5. CASE r # 0
    <3>1. r - 1 \in 0 .. RoundLimit /\ ~(r <= r - 1)
      BY <2>3, <2>5, RoundAssumption
    <3>2. L[r - 1] \in [Key -> SUBSET Nat]
      BY <2>2, <3>1
    <3>3. L[r] = NextAreas(L[r - 1])
      BY <2>3, <2>5 DEF RoundAt
    <3> DEFINE f == L[r - 1]
    <3> HIDE DEF f
    <3>4. f \in [Key -> SUBSET Nat]
      BY <3>2 DEF f
    <3>5. NextAreas(f) \in [Key -> SUBSET Nat]
      BY <3>4, LongerNat DEF NextAreas, LeastOf
    <3>6. QED
      BY <2>2, <3>3, <3>5 DEF f
  <2>6. QED
    BY <2>4, <2>5
<1>2. QED
  BY <1>1

-----------------------------------------------------------------------------
(* A round computes the next areas from those of its snapshot.             *)

\* An entry is one of the snapshot, or a cell behind one.
MadeFrom(f, g) ==
  \A k \in DOMAIN f :
    \/ k \in DOMAIN g /\ f[k].area = g[k].area
    \/ \E c \in PrefixCells : /\ k - CellKey(c, 1) \in DOMAIN g
                              /\ f[k].area = g[k - CellKey(c, 1)].area + Cells[c].area

\* When every key of the snapshot has been visited the entries are the least
\* areas of chains with one cell more.
LEMMA RoundIsExact ==
  ASSUME NEW f, NEW g, IsMap(f), IsMap(g), MadeFrom(f, g),
         \A k \in DOMAIN g : /\ k \in DOMAIN f /\ f[k].area <= g[k].area
                             /\ ClosedAt(f, k, g[k].area),
         NEW areas, \A k \in Key : areas[k] = AreaAt(g, k),
         NEW k \in Key
  PROVE  AreaAt(f, k) = LeastOf(LongerAreas(areas, k))
<1> DEFINE longer == LongerAreas(areas, k)
<1>1. ASSUME NEW x \in longer
      PROVE  k \in DOMAIN f /\ f[k].area <= x /\ x \in Nat
  <2>1. CASE x \in areas[k]
    <3>1. k \in DOMAIN g /\ x = g[k].area
      BY <2>1 DEF AreaAt
    <3>2. QED
      BY <3>1, MapEntry
  <2>2. CASE x \notin areas[k]
    <3>1. PICK c \in PrefixCells, j \in Key :
            /\ j \in Nat /\ k \in Nat /\ CellKey(c, 1) \in Nat /\ Cells[c].area \in Nat
            /\ j + CellKey(c, 1) = k
            /\ \E a \in areas[j] : x = a + Cells[c].area
      BY <2>2, LongerMember
    <3>2. j \in DOMAIN g /\ x = g[j].area + Cells[c].area
      BY <3>1 DEF AreaAt
    <3>3. g[j].area \in Nat
      BY <3>2, MapEntry
    <3>4. ClosedAt(f, j, g[j].area)
      BY <3>2
    <3>5. k \in DOMAIN f /\ f[k].area <= g[j].area + Cells[c].area
      BY <3>1, <3>4 DEF ClosedAt
    <3>6. QED
      BY <3>1, <3>2, <3>3, <3>5
  <2>3. QED
    BY <2>1, <2>2
<1>2. ASSUME k \in DOMAIN f PROVE f[k].area \in longer
  <2>1. CASE k \in DOMAIN g /\ f[k].area = g[k].area
    BY <2>1 DEF AreaAt, LongerAreas
  <2>2. CASE \E c \in PrefixCells : /\ k - CellKey(c, 1) \in DOMAIN g
                                    /\ f[k].area = g[k - CellKey(c, 1)].area + Cells[c].area
    <3>1. PICK c \in PrefixCells : /\ k - CellKey(c, 1) \in DOMAIN g
                                   /\ f[k].area = g[k - CellKey(c, 1)].area + Cells[c].area
      BY <2>2
    <3> DEFINE j == k - CellKey(c, 1)
    <3>2. j \in DOMAIN g /\ j \in Key /\ f[k].area = g[j].area + Cells[c].area
      BY <3>1, MapEntry
    <3>3. j + CellKey(c, 1) = k
      <4>1. k \in Nat /\ CellKey(c, 1) \in Nat
        BY KeyType
      <4>2. QED
        BY <4>1
    <3> HIDE DEF j
    <3>4. g[j].area \in areas[j]
      BY <3>2 DEF AreaAt
    <3>5. QED
      BY <3>2, <3>3, <3>4, LongerOf
  <2>3. QED
    BY <1>2, <2>1, <2>2 DEF MadeFrom
<1> HIDE DEF longer
<1>3. CASE k \in DOMAIN f
  <2>1. f[k].area \in longer /\ \A x \in longer : f[k].area <= x /\ x \in Nat
    BY <1>1, <1>2, <1>3
  <2>2. LeastOf(longer) = {f[k].area}
    BY <2>1 DEF LeastOf
  <2>3. QED
    BY <1>3, <2>2 DEF AreaAt, longer
<1>4. CASE k \notin DOMAIN f
  <2>1. longer = {}
    BY <1>1, <1>4
  <2>2. QED
    BY <1>4, <2>1 DEF LeastOf, AreaAt, longer
<1>5. QED
  BY <1>3, <1>4

\* A visit adds entries behind one of the snapshot.
LEMMA VisitMakes ==
  ASSUME IsMap(snapshot), IsMap(prefix), MadeFrom(prefix, snapshot), NEW k \in DOMAIN snapshot
  PROVE  MadeFrom(Relaxed(k), snapshot)
<1> SUFFICES ASSUME NEW j \in DOMAIN Relaxed(k)
             PROVE  \/ j \in DOMAIN snapshot /\ Relaxed(k)[j].area = snapshot[j].area
                    \/ \E c \in PrefixCells :
                         /\ j - CellKey(c, 1) \in DOMAIN snapshot
                         /\ Relaxed(k)[j].area = snapshot[j - CellKey(c, 1)].area + Cells[c].area
  BY DEF MadeFrom
<1>1. CASE j \in Successors(k) /\ OfferBetter(k, j)
  <2> DEFINE c == FirstCheapest(CellsTo(k, j))
  <2>1. CellsTo(k, j) \in SUBSET CellIndex /\ CellsTo(k, j) # {}
    BY <1>1 DEF Successors, CellsTo, PrefixCells
  <2>2. c \in CellsTo(k, j)
    BY <2>1, FirstCheapestOf
  <2>3. c \in PrefixCells /\ k + CellKey(c, 1) = j
    BY <2>2 DEF CellsTo
  <2>4. Relaxed(k)[j].area = snapshot[k].area + Cells[c].area
    BY <1>1 DEF Relaxed, Offer, Extend
  <2>5. j - CellKey(c, 1) = k
    <3>1. k \in Nat /\ CellKey(c, 1) \in Nat
      BY <2>3, MapEntry, KeyType
    <3> HIDE DEF c
    <3>2. QED
      BY <2>3, <3>1
  <2>6. QED
    BY <2>3, <2>4, <2>5
<1>2. CASE ~(j \in Successors(k) /\ OfferBetter(k, j))
  <2>1. j \in DOMAIN prefix /\ Relaxed(k)[j] = prefix[j]
    BY <1>2 DEF Relaxed, OfferBetter
  <2>2. QED
    BY <2>1 DEF MadeFrom
<1>3. QED
  BY <1>1, <1>2

-----------------------------------------------------------------------------
(* How many rounds can change anything.                                    *)

\* Where a round changed nothing below a key, the next one does not change
\* the key: an area of its own can only be extended by cells of key 0.
LEMMA SettledBelow ==
  ASSUME NEW f \in [Key -> SUBSET Nat], NEW k \in Key,
         NextAreas(f) \in [Key -> SUBSET Nat],
         \A j \in Key : j < k => NextAreas(f)[j] = f[j]
  PROVE  NextAreas(NextAreas(f))[k] = NextAreas(f)[k]
<1> DEFINE g == NextAreas(f)
<1>1. g \in [Key -> SUBSET Nat] /\ g[k] = LeastOf(LongerAreas(f, k))
  BY DEF NextAreas
<1>2. NextAreas(g)[k] = LeastOf(LongerAreas(g, k))
  BY DEF NextAreas
<1>3. \A x \in g[k] : x \in Nat /\ x \in LongerAreas(f, k) /\ \A y \in LongerAreas(f, k) : x <= y
  BY <1>1 DEF LeastOf
<1>4. ASSUME NEW x \in LongerAreas(g, k)
      PROVE  \/ x \in LongerAreas(f, k) /\ x \in Nat
             \/ \E a \in g[k] : a <= x /\ x \in Nat
  <2> HIDE DEF g
  <2>1. CASE x \in g[k]
    BY <1>1, <2>1
  <2>2. CASE x \notin g[k]
    <3>1. PICK c \in PrefixCells, j \in Key :
            /\ j \in Nat /\ k \in Nat /\ CellKey(c, 1) \in Nat /\ Cells[c].area \in Nat
            /\ j + CellKey(c, 1) = k
            /\ \E a \in g[j] : x = a + Cells[c].area
      BY <2>2, LongerMember
    <3>2. PICK a \in g[j] : x = a + Cells[c].area
      BY <3>1
    <3>3. a \in Nat /\ x \in Nat
      BY <1>1, <3>1, <3>2
    <3>4. CASE CellKey(c, 1) = 0
      <4>1. j = k /\ a <= x
        BY <3>1, <3>2, <3>3, <3>4
      <4>2. QED
        BY <3>2, <3>3, <4>1
    <3>5. CASE CellKey(c, 1) # 0
      <4>1. j < k
        BY <3>1, <3>5
      <4>2. a \in f[j]
        BY <3>2, <4>1 DEF g
      <4>3. x \in LongerAreas(f, k)
        BY <3>1, <3>2, <4>2, LongerOf
      <4>4. QED
        BY <3>3, <4>3
    <3>6. QED
      BY <3>4, <3>5
  <2>3. QED
    BY <2>1, <2>2
<1>5. g[k] \subseteq LongerAreas(g, k)
  BY DEF LongerAreas
<1>6. ASSUME LongerAreas(f, k) # {} PROVE g[k] # {}
  <2>1. LongerAreas(f, k) \in SUBSET Nat
    BY LongerNat
  <2>2. PICK m \in LongerAreas(f, k) : \A y \in LongerAreas(f, k) : m <= y
    BY <1>6, <2>1, Least
  <2>3. m \in g[k]
    BY <1>1, <2>2 DEF LeastOf
  <2>4. QED
    BY <2>3
<1> HIDE DEF g
<1>7. ASSUME NEW x \in LongerAreas(g, k) PROVE \E a \in g[k] : a <= x /\ x \in Nat
  <2>1. CASE x \in LongerAreas(f, k) /\ x \in Nat
    <3>1. PICK a \in g[k] : TRUE
      BY <1>6, <2>1
    <3>2. QED
      BY <1>3, <2>1, <3>1
  <2>2. QED
    BY <1>4, <2>1
<1>8. \A a, b \in g[k] : a = b
  BY <1>3
<1>9. ASSUME NEW a \in g[k] PROVE a \in LeastOf(LongerAreas(g, k))
  <2>1. \A x \in LongerAreas(g, k) : a <= x
    BY <1>7, <1>8
  <2>2. QED
    BY <1>5, <2>1 DEF LeastOf
<1>10. ASSUME NEW x \in LeastOf(LongerAreas(g, k)) PROVE x \in g[k]
  <2>1. x \in LongerAreas(g, k) /\ \A y \in LongerAreas(g, k) : x <= y
    BY DEF LeastOf
  <2>2. PICK a \in g[k] : a <= x /\ x \in Nat
    BY <1>7, <2>1
  <2>3. x <= a /\ a \in Nat
    BY <1>3, <1>5, <2>1
  <2>4. x = a
    BY <2>2, <2>3
  <2>5. QED
    BY <2>4
<1>11. LeastOf(LongerAreas(g, k)) = g[k]
  BY <1>9, <1>10
<1>12. QED
  BY <1>2, <1>11 DEF g

\* A round can only improve keys that are at least its number.
LEMMA RoundsSettle ==
  \A r \in 1 .. RoundLimit : \A k \in Key :
    k < r => LeastAreaInRounds[r][k] = LeastAreaInRounds[r - 1][k]
<1> DEFINE L == LeastAreaInRounds
           settled(r) == \A k \in Key : k < r => L[r][k] = L[r - 1][k]
           failing == {r \in 1 .. RoundLimit : ~settled(r)}
<1>1. ASSUME failing # {} PROVE FALSE
  <2>1. failing \in SUBSET Nat
    BY RoundAssumption
  <2>2. PICK r \in failing : \A i \in failing : r <= i
    <3> HIDE DEF failing
    <3>1. QED
      BY <1>1, <2>1, Least
  <2>3. r \in 1 .. RoundLimit /\ r \in Nat /\ r # 0 /\ r \in 0 .. RoundLimit /\ r - 1 \in 0 .. RoundLimit
    BY <2>2, RoundAssumption
  <2>4. PICK k \in Key : k < r /\ L[r][k] # L[r - 1][k]
    BY <2>2
  <2> HIDE DEF settled, failing
  <2>5. L[r] = NextAreas(L[r - 1]) /\ L[r - 1] \in [Key -> SUBSET Nat] /\ L[r] \in [Key -> SUBSET Nat]
    BY <2>3, RoundsRecursion, RoundsType DEF RoundAt
  <2>6. CASE r = 1
    <3>1. k = 0 /\ L[r - 1] = NoCells
      BY <2>3, <2>4, <2>6, KeyType, RoundsRecursion DEF RoundAt
    <3>2. L[r - 1][k] = {0}
      BY <3>1 DEF NoCells
    <3>3. L[r][k] = LeastOf(LongerAreas(L[r - 1], k))
      BY <2>5 DEF NextAreas
    <3>4. ASSUME NEW x \in LongerAreas(L[r - 1], k) PROVE x >= 0
      <4>1. CASE x \in L[r - 1][k]
        BY <3>2, <4>1
      <4>2. CASE x \notin L[r - 1][k]
        <5>1. PICK c \in PrefixCells, j \in Key :
                /\ j \in Nat /\ k \in Nat /\ CellKey(c, 1) \in Nat /\ Cells[c].area \in Nat
                /\ j + CellKey(c, 1) = k
                /\ \E a \in L[r - 1][j] : x = a + Cells[c].area
          BY <4>2, LongerMember
        <5>2. j = k
          BY <3>1, <5>1
        <5>3. x = 0 + Cells[c].area
          BY <3>2, <5>1, <5>2
        <5>4. QED
          BY <5>1, <5>3
      <4>3. QED
        BY <4>1, <4>2
    <3>5. 0 \in LongerAreas(L[r - 1], k)
      BY <3>2 DEF LongerAreas
    <3>6. ASSUME NEW x \in LeastOf(LongerAreas(L[r - 1], k)) PROVE x = 0
      <4>1. x <= 0 /\ x >= 0 /\ x \in L[r][k]
        BY <3>3, <3>4, <3>5 DEF LeastOf
      <4>2. x \in Nat
        BY <2>5, <4>1
      <4>3. QED
        BY <4>1, <4>2
    <3>7. 0 \in LeastOf(LongerAreas(L[r - 1], k))
      <4>1. \A x \in LongerAreas(L[r - 1], k) : 0 <= x
        BY <3>4
      <4>2. QED
        BY <3>5, <4>1 DEF LeastOf
    <3>8. L[r][k] = {0}
      BY <3>3, <3>6, <3>7
    <3>9. QED
      BY <2>4, <3>2, <3>8
  <2>7. CASE r # 1
    <3> DEFINE f == L[r - 2]
    <3>1. /\ r - 1 \in 1 .. RoundLimit /\ ~(r <= r - 1) /\ r - 1 # 0 /\ (r - 1) - 1 = r - 2
          /\ r - 2 \in 0 .. RoundLimit /\ r - 1 \in 0 .. RoundLimit
      <4>1. r \in Nat /\ r >= 2 /\ r <= RoundLimit /\ RoundLimit \in Nat
        BY <2>3, <2>7, RoundAssumption
      <4>2. QED
        BY <4>1
    <3>2. L[r - 1] = NextAreas(f) /\ f \in [Key -> SUBSET Nat]
      BY <3>1, RoundsRecursion, RoundsType DEF RoundAt
    <3>3. settled(r - 1)
      BY <2>2, <3>1 DEF failing
    <3>4. \A j \in Key : j < k => L[r - 1][j] = f[j]
      <4>1. ASSUME NEW j \in Key, j < k PROVE L[r - 1][j] = f[j]
        <5>1. j \in Nat /\ k \in Nat
          BY KeyType
        <5>2. j < r - 1
          BY <2>3, <2>4, <4>1, <5>1
        <5>3. QED
          BY <3>1, <3>3, <5>2 DEF settled
      <4>2. QED
        BY <4>1
    <3> HIDE DEF f
    <3>5. NextAreas(NextAreas(f))[k] = NextAreas(f)[k]
      BY <2>5, <3>2, <3>4, SettledBelow
    <3>6. QED
      BY <2>4, <2>5, <3>2, <3>5
  <2>8. QED
    BY <2>6, <2>7
<1>2. QED
  BY <1>1

-----------------------------------------------------------------------------
(* The rounds of the code.                                                 *)

\* A key is new, or cheaper than in the snapshot.
Improved == \E k \in DOMAIN prefix : k \notin DOMAIN snapshot \/ prefix[k].area < snapshot[k].area

RoundsInv ==
  /\ MinimalInv
  /\ pc = "round" => \A k \in Key : AreaAt(prefix, k) = LeastAreaInRounds[rounds][k]
  /\ pc = "relax" => /\ rounds \in 1 .. RoundLimit
                     /\ rounds <= MaxKey + 1
                     /\ \A k \in Key : AreaAt(snapshot, k) = LeastAreaInRounds[rounds - 1][k]
                     /\ MadeFrom(prefix, snapshot)
                     /\ changed => Improved
  /\ pc = "round" /\ changed => rounds <= MaxKey
  /\ rounds <= MaxKey + 1

\* Before the first round there is the chain of no cells.
LEMMA RoundsInit ==
  ASSUME Init
  PROVE  RoundsInv
<1>1. MinimalInv
  BY MinimalInit
<1>2. /\ prefix = [k \in {0} |-> [area |-> 0, cell_indices |-> <<>>]]
      /\ pc = "round" /\ rounds = 0
  BY DEF Init
<1>3. LeastAreaInRounds[0] = NoCells
  BY RoundsRecursion, RoundAssumption DEF RoundAt
<1>4. \A k \in Key : AreaAt(prefix, k) = LeastAreaInRounds[rounds][k]
  BY <1>2, <1>3 DEF AreaAt, NoCells
<1>5. rounds <= MaxKey /\ rounds <= MaxKey + 1
  BY <1>2, LibraryAssumption
<1>6. QED
  BY <1>1, <1>2, <1>4, <1>5 DEF RoundsInv

\* A visit makes only areas of the round, and says so if it improves one.
LEMMA RoundsVisit ==
  ASSUME RoundsInv, NEW k \in pending, Visit(k), MinimalInv'
  PROVE  RoundsInv'
<1>1. /\ IsMap(prefix) /\ IsMap(snapshot) /\ k \in DOMAIN snapshot /\ pc = "relax"
      /\ prefix' = Relaxed(k)
      /\ UNCHANGED <<pc, snapshot, rounds>>
      /\ changed' = (changed \/ \E nk \in Successors(k) : OfferBetter(k, nk))
      /\ \A j \in DOMAIN snapshot : j \in DOMAIN prefix /\ prefix[j].area <= snapshot[j].area
  BY DEF Visit, RoundsInv, MinimalInv, TypeOK, rowVars
<1>2. MadeFrom(prefix, snapshot)'
  <2>1. MadeFrom(Relaxed(k), snapshot)
    BY <1>1, VisitMakes DEF RoundsInv
  <2>2. QED
    BY <1>1, <2>1 DEF MadeFrom
<1>3. ASSUME changed' PROVE Improved'
  <2>1. CASE changed
    <3>1. PICK j \in DOMAIN prefix : j \notin DOMAIN snapshot \/ prefix[j].area < snapshot[j].area
      BY <1>1, <2>1 DEF RoundsInv, Improved
    <3>2. j \in DOMAIN prefix' /\ prefix'[j].area <= prefix[j].area /\ IsMap(prefix')
      BY <1>1, VisitedMap
    <3>3. CASE j \in DOMAIN snapshot
      <4>1. prefix[j].area \in Nat /\ prefix'[j].area \in Nat /\ snapshot[j].area \in Nat
        BY <1>1, <3>2, <3>3, MapEntry
      <4>2. prefix'[j].area < snapshot[j].area
        BY <3>1, <3>2, <3>3, <4>1
      <4>3. QED
        BY <1>1, <3>2, <4>2 DEF Improved
    <3>4. CASE j \notin DOMAIN snapshot
      BY <1>1, <3>2, <3>4 DEF Improved
    <3>5. QED
      BY <3>3, <3>4
  <2>2. CASE \E nk \in Successors(k) : OfferBetter(k, nk)
    <3>1. PICK nk \in Successors(k) : OfferBetter(k, nk)
      BY <2>2
    <3>2. nk \in DOMAIN prefix' /\ prefix'[nk] = Offer(k, nk) /\ Offer(k, nk).area \in Nat
      BY <1>1, <3>1, OfferType DEF Relaxed
    <3>3. CASE nk \in DOMAIN snapshot
      <4>1. /\ nk \in DOMAIN prefix /\ prefix[nk].area <= snapshot[nk].area
            /\ Offer(k, nk).area < prefix[nk].area
            /\ prefix[nk].area \in Nat /\ snapshot[nk].area \in Nat
        BY <1>1, <3>1, <3>3, MapEntry DEF OfferBetter
      <4>2. prefix'[nk].area < snapshot[nk].area
        BY <3>2, <4>1
      <4>3. QED
        BY <1>1, <3>2, <4>2 DEF Improved
    <3>4. CASE nk \notin DOMAIN snapshot
      BY <1>1, <3>2, <3>4 DEF Improved
    <3>5. QED
      BY <3>3, <3>4
  <2>3. QED
    BY <1>1, <1>3, <2>1, <2>2
<1>4. QED
  BY <1>1, <1>2, <1>3 DEF RoundsInv, AreaAt

\* When all is visited the entries are those of the round.
LEMMA RoundComplete ==
  ASSUME RoundsInv, EndRound
  PROVE  /\ rounds \in 1 .. RoundLimit
         /\ \A k \in Key : /\ AreaAt(prefix, k) = LeastAreaInRounds[rounds][k]
                          /\ AreaAt(snapshot, k) = LeastAreaInRounds[rounds - 1][k]
<1>1. pc = "relax" /\ pending = {}
  BY DEF EndRound
<1>2. /\ IsMap(prefix) /\ IsMap(snapshot) /\ MadeFrom(prefix, snapshot)
      /\ \A k \in DOMAIN snapshot : /\ k \in DOMAIN prefix /\ prefix[k].area <= snapshot[k].area
                                    /\ ClosedAt(prefix, k, snapshot[k].area)
  BY <1>1 DEF RoundsInv, MinimalInv, TypeOK
<1> DEFINE L == LeastAreaInRounds
           before == L[rounds - 1]
<1>3. rounds \in 1 .. RoundLimit /\ \A k \in Key : before[k] = AreaAt(snapshot, k)
  BY <1>1 DEF RoundsInv
<1>4. rounds \in 0 .. RoundLimit /\ rounds # 0 /\ rounds \in Nat /\ MaxKey \in Nat
  BY <1>3, RoundAssumption, LibraryAssumption
<1>5. L[rounds] = NextAreas(before)
  BY <1>4, RoundsRecursion DEF RoundAt
<1> HIDE DEF before
<1>6. \A k \in Key : AreaAt(prefix, k) = L[rounds][k]
  <2>1. ASSUME NEW k \in Key PROVE AreaAt(prefix, k) = L[rounds][k]
    <3>1. AreaAt(prefix, k) = LeastOf(LongerAreas(before, k))
      BY <1>2, <1>3, RoundIsExact
    <3>2. QED
      BY <1>5, <3>1 DEF NextAreas
  <2>2. QED
    BY <2>1
<1>7. QED
  BY <1>3, <1>6 DEF before

\* A round that changed something changed the area of some key.
LEMMA ChangedRound ==
  ASSUME RoundsInv, EndRound, changed
  PROVE  \E k \in Key : LeastAreaInRounds[rounds][k] # LeastAreaInRounds[rounds - 1][k]
<1>1. pc = "relax" /\ IsMap(prefix) /\ IsMap(snapshot)
  BY DEF EndRound, RoundsInv, MinimalInv, TypeOK
<1>2. PICK k \in DOMAIN prefix : k \notin DOMAIN snapshot \/ prefix[k].area < snapshot[k].area
  BY <1>1 DEF RoundsInv, Improved
<1>3. k \in Key /\ prefix[k].area \in Nat
  BY <1>1, MapEntry
<1>4. AreaAt(prefix, k) # AreaAt(snapshot, k)
  <2>1. CASE k \in DOMAIN snapshot
    <3>1. prefix[k].area # snapshot[k].area
      BY <1>1, <1>2, <1>3, <2>1, MapEntry
    <3>2. QED
      BY <2>1, <3>1 DEF AreaAt
  <2>2. CASE k \notin DOMAIN snapshot
    BY <2>2 DEF AreaAt
  <2>3. QED
    BY <2>1, <2>2
<1>5. QED
  BY <1>3, <1>4, RoundComplete

\* The end of a round keeps RoundsInv.
LEMMA RoundsEndRound ==
  ASSUME RoundsInv, EndRound, MinimalInv'
  PROVE  RoundsInv'
<1> DEFINE L == LeastAreaInRounds
<1>1. /\ pc = "relax" /\ pc' = "round"
      /\ UNCHANGED <<prefix, snapshot, rounds, changed>>
  BY DEF EndRound
<1>3. rounds \in 1 .. RoundLimit /\ \A k \in Key : AreaAt(prefix, k) = L[rounds][k]
  BY RoundComplete
<1>4. rounds \in Nat /\ MaxKey \in Nat
  BY <1>3, RoundAssumption, LibraryAssumption
<1>7. ASSUME changed PROVE rounds <= MaxKey
  <2>1. PICK k \in Key : L[rounds][k] # L[rounds - 1][k]
    BY <1>7, ChangedRound
  <2>2. ~(k < rounds) /\ k \in Nat /\ k <= MaxKey
    <3>1. ~(k < rounds)
      BY <1>3, <2>1, RoundsSettle
    <3>2. k \in 0 .. MaxKey
      BY DEF Key
    <3>3. QED
      BY <1>4, <3>1, <3>2
  <2>3. QED
    BY <1>4, <2>2
<1>8. rounds' <= MaxKey + 1
  BY <1>1 DEF RoundsInv
<1>9. QED
  BY <1>1, <1>3, <1>7, <1>8 DEF RoundsInv, AreaAt

\* Every step keeps RoundsInv.
LEMMA RoundsStep ==
  ASSUME RoundsInv, [Next]_vars
  PROVE  RoundsInv'
<1>1. MinimalInv /\ MinimalInv'
  BY MinimalStep DEF RoundsInv
<1> USE DEF rowVars
<1>2. CASE BeginRound
  <2>1. /\ pc = "round" /\ changed /\ rounds < RoundLimit /\ rounds' = rounds + 1
        /\ changed' = FALSE /\ snapshot' = prefix /\ prefix' = prefix /\ pc' = "relax"
    BY <1>2 DEF BeginRound
  <2>2. rounds \in Nat /\ rounds <= MaxKey /\ MaxKey \in Nat /\ RoundLimit \in Nat
    BY <1>1, <2>1, RoundAssumption, LibraryAssumption DEF RoundsInv, MinimalInv, TypeOK
  <2>3. rounds' \in 1 .. RoundLimit /\ rounds' - 1 = rounds /\ rounds' <= MaxKey + 1
    BY <2>1, <2>2
  <2>4. \A k \in Key : AreaAt(snapshot, k)' = LeastAreaInRounds[rounds][k]
    BY <2>1 DEF RoundsInv, AreaAt
  <2>5. MadeFrom(prefix, snapshot)'
    BY <2>1 DEF MadeFrom
  <2>6. QED
    BY <1>1, <2>1, <2>3, <2>4, <2>5 DEF RoundsInv
<1>3. ASSUME NEW k \in pending, Visit(k) PROVE RoundsInv'
  BY <1>1, <1>3, RoundsVisit
<1>4. CASE EndRound
  BY <1>1, <1>4, RoundsEndRound
<1>5. CASE EndPrefixes \/ BuildRow \/ Finish
  <2>1. pc' \in {"rows", "done"} /\ UNCHANGED rounds
    BY <1>5 DEF EndPrefixes, BuildRow, Finish
  <2>2. QED
    BY <1>1, <2>1 DEF RoundsInv
<1>6. CASE UNCHANGED vars
  BY <1>1, <1>6 DEF vars, RoundsInv, AreaAt, MadeFrom, Improved
<1>7. QED
  BY <1>2, <1>3, <1>4, <1>5, <1>6 DEF Next, Step, Terminated

\* RoundsInv is an invariant.
LEMMA RoundsInvariant == Spec => []RoundsInv
<1>1. Init => RoundsInv
  BY RoundsInit
<1>2. RoundsInv /\ [Next]_vars => RoundsInv'
  BY RoundsStep
<1>3. QED
  BY <1>1, <1>2, PTL DEF Spec

\* Between rounds the entries are exact for chains of as many cells as there
\* were rounds: RoundsAreExact.
THEOREM EveryRoundIsExact == Spec => []RoundsAreExact
<1>1. RoundsInv => RoundsAreExact
  BY DEF RoundsInv, RoundsAreExact, AreaAt
<1>2. QED
  BY <1>1, RoundsInvariant, PTL

\* At most MaxKey + 1 rounds are begun, wherever the limit of rounds is:
\* RoundsEndByThemselves.
THEOREM RoundsAreBounded == Spec => []RoundsEndByThemselves
<1>1. RoundsInv => RoundsEndByThemselves
  BY DEF RoundsInv, RoundsEndByThemselves
<1>2. QED
  BY <1>1, RoundsInvariant, PTL

-----------------------------------------------------------------------------
(* How many rounds are enough: as many as cells of the smallest delay fit  *)
(* into the largest key.  All cells in front of a last one have a key of   *)
(* at least m here.                                                        *)

CellsTake(m) == m \in Nat \ {0} /\ \A c \in PrefixCells : m <= CellKey(c, 1)

\* Where a round changed nothing m keys below, the next does not change a key.
LEMMA SettledFarBelow ==
  ASSUME NEW m, CellsTake(m),
         NEW f \in [Key -> SUBSET Nat], NEW k \in Key,
         \A j \in Key : j + m <= k => NextAreas(f)[j] = f[j]
  PROVE  NextAreas(NextAreas(f))[k] = NextAreas(f)[k]
<1> DEFINE g == NextAreas(f)
<1>1. g[k] = LeastOf(LongerAreas(f, k)) /\ NextAreas(g)[k] = LeastOf(LongerAreas(g, k))
  BY DEF NextAreas
<1>2. g[k] \subseteq LongerAreas(f, k) /\ g[k] \subseteq LongerAreas(g, k)
  BY <1>1 DEF LeastOf, LongerAreas
<1> HIDE DEF g
<1>3. ASSUME NEW x \in LongerAreas(g, k) PROVE x \in LongerAreas(f, k)
  <2>1. CASE x \in g[k]
    BY <1>2, <2>1
  <2>2. CASE x \notin g[k]
    <3>1. PICK c \in PrefixCells, j \in Key :
            /\ j \in Nat /\ k \in Nat /\ CellKey(c, 1) \in Nat
            /\ j + CellKey(c, 1) = k
            /\ \E a \in g[j] : x = a + Cells[c].area
      BY <2>2, LongerMember
    <3>2. PICK a \in g[j] : x = a + Cells[c].area
      BY <3>1
    <3>3. j + m <= k
      BY <3>1 DEF CellsTake
    <3>4. a \in f[j]
      BY <3>2, <3>3 DEF g
    <3>5. QED
      BY <3>1, <3>2, <3>4, LongerOf
  <2>3. QED
    BY <2>1, <2>2
<1>4. ASSUME NEW x \in LeastOf(LongerAreas(g, k)) PROVE x \in g[k]
  <2>1. x \in LongerAreas(f, k) /\ LongerAreas(f, k) \in SUBSET Nat
    BY <1>3, LongerNat DEF LeastOf
  <2>2. PICK y \in LongerAreas(f, k) : \A z \in LongerAreas(f, k) : y <= z
    BY <2>1, Least
  <2>3. y \in g[k]
    BY <1>1, <2>2 DEF LeastOf
  <2>4. x <= y /\ y <= x /\ x \in Nat /\ y \in Nat
    BY <1>2, <2>1, <2>2, <2>3 DEF LeastOf
  <2>5. QED
    BY <2>3, <2>4
<1>5. ASSUME NEW x \in g[k] PROVE x \in LeastOf(LongerAreas(g, k))
  BY <1>1, <1>2, <1>3 DEF LeastOf
<1>6. QED
  BY <1>1, <1>4, <1>5 DEF g

\* The first round changes nothing below m.
LEMMA FirstRoundSettles ==
  ASSUME NEW m, CellsTake(m), NEW k \in Key, k < m
  PROVE  NextAreas(NoCells)[k] = NoCells[k]
<1>1. ASSUME NEW x \in LongerAreas(NoCells, k) PROVE x \in NoCells[k]
  <2>1. CASE x \notin NoCells[k]
    <3>1. PICK c \in PrefixCells, j \in Key :
            j \in Nat /\ k \in Nat /\ CellKey(c, 1) \in Nat /\ j + CellKey(c, 1) = k
      BY <2>1, LongerMember
    <3>2. QED
      BY <3>1 DEF CellsTake
  <2>2. QED
    BY <2>1
<1>2. LongerAreas(NoCells, k) = NoCells[k]
  BY <1>1 DEF LongerAreas
<1>3. NoCells[k] = (IF k = 0 THEN {0} ELSE {})
  BY DEF NoCells
<1>4. LeastOf(NoCells[k]) = NoCells[k]
  BY <1>3 DEF LeastOf
<1>5. QED
  BY <1>2, <1>4 DEF NextAreas

\* A round can only improve keys of at least m times its number.
LEMMA RoundsSettleSooner ==
  ASSUME NEW m, CellsTake(m)
  PROVE  \A r \in 1 .. RoundLimit : \A k \in Key :
           k < r * m => LeastAreaInRounds[r][k] = LeastAreaInRounds[r - 1][k]
<1> DEFINE L == LeastAreaInRounds
           settled(r) == \A k \in Key : k < r * m => L[r][k] = L[r - 1][k]
           failing == {r \in 1 .. RoundLimit : ~settled(r)}
<1>1. ASSUME failing # {} PROVE FALSE
  <2>1. failing \in SUBSET Nat
    BY RoundAssumption
  <2>2. PICK r \in failing : \A i \in failing : r <= i
    <3> HIDE DEF failing
    <3>1. QED
      BY <1>1, <2>1, Least
  <2>3. r \in 1 .. RoundLimit /\ r \in Nat /\ r # 0 /\ r \in 0 .. RoundLimit /\ r - 1 \in 0 .. RoundLimit
    BY <2>2, RoundAssumption
  <2>4. PICK k \in Key : k < r * m /\ L[r][k] # L[r - 1][k]
    BY <2>2
  <2> HIDE DEF settled, failing
  <2>5. L[r] = NextAreas(L[r - 1])
    BY <2>3, RoundsRecursion DEF RoundAt
  <2>6. m \in Nat /\ k \in Nat
    BY KeyType DEF CellsTake
  <2>7. CASE r = 1
    <3>1. L[r - 1] = NoCells
      BY <2>3, <2>7, RoundsRecursion DEF RoundAt
    <3>2. k < m
      BY <2>4, <2>6, <2>7
    <3>3. QED
      BY <2>4, <2>5, <3>1, <3>2, FirstRoundSettles
  <2>8. CASE r # 1
    <3> DEFINE f == L[r - 2]
    <3>1. /\ r - 1 \in 1 .. RoundLimit /\ ~(r <= r - 1) /\ r - 1 # 0 /\ (r - 1) - 1 = r - 2
          /\ r - 2 \in 0 .. RoundLimit /\ r - 1 \in 0 .. RoundLimit
      <4>1. r \in Nat /\ r >= 2 /\ r <= RoundLimit /\ RoundLimit \in Nat
        BY <2>3, <2>8, RoundAssumption
      <4>2. QED
        BY <4>1
    <3>2. L[r - 1] = NextAreas(f) /\ f \in [Key -> SUBSET Nat]
      BY <3>1, RoundsRecursion, RoundsType DEF RoundAt
    <3>3. settled(r - 1)
      BY <2>2, <3>1 DEF failing
    <3>4. \A j \in Key : j + m <= k => L[r - 1][j] = f[j]
      <4>1. (r - 1) * m = r * m - m
        BY <2>3, <2>6
      <4>2. ASSUME NEW j \in Key, j + m <= k PROVE L[r - 1][j] = f[j]
        <5>1. j \in Nat /\ r * m \in Nat
          BY <2>3, <2>6, KeyType
        <5>2. j < (r - 1) * m
          BY <2>4, <2>6, <4>1, <4>2, <5>1
        <5>3. QED
          BY <3>1, <3>3, <5>2 DEF settled
      <4>3. QED
        BY <4>2
    <3> HIDE DEF f
    <3>5. NextAreas(NextAreas(f))[k] = NextAreas(f)[k]
      BY <3>2, <3>4, SettledFarBelow
    <3>6. QED
      BY <2>4, <2>5, <3>2, <3>5
  <2>9. QED
    BY <2>7, <2>8
<1>2. QED
  BY <1>1

\* The limit of rounds is not reached with a change to come.
EnoughRounds(m) ==
  /\ RoundsInv
  /\ pc = "round" /\ changed => rounds * m <= MaxKey
  /\ pc \in {"rows", "done"} => ~changed

\* Every step keeps EnoughRounds.
LEMMA EnoughRoundsStep ==
  ASSUME NEW m, CellsTake(m), RoundLimit * m > MaxKey, EnoughRounds(m), [Next]_vars
  PROVE  EnoughRounds(m)'
<1>1. RoundsInv /\ RoundsInv' /\ m \in Nat /\ rounds \in 0 .. RoundLimit
  BY RoundsStep DEF EnoughRounds, CellsTake, RoundsInv, MinimalInv, TypeOK
<1>2. RoundLimit \in Nat /\ MaxKey \in Nat /\ rounds \in Nat
  BY <1>1, RoundAssumption, LibraryAssumption
<1>3. CASE EndRound
  <2>1. ASSUME changed PROVE rounds * m <= MaxKey
    <3>1. PICK k \in Key : LeastAreaInRounds[rounds][k] # LeastAreaInRounds[rounds - 1][k]
      BY <1>1, <1>3, <2>1, ChangedRound
    <3>2. rounds \in 1 .. RoundLimit
      BY <1>1, <1>3, RoundComplete
    <3>3. ~(k < rounds * m)
      BY <3>1, <3>2, RoundsSettleSooner
    <3>4. k \in 0 .. MaxKey /\ rounds * m \in Nat
      BY <1>1, <1>2 DEF Key
    <3>5. QED
      BY <1>2, <3>3, <3>4
  <2>2. pc' = "round" /\ UNCHANGED <<rounds, changed>>
    BY <1>3 DEF EndRound
  <2>3. QED
    BY <1>1, <2>1, <2>2 DEF EnoughRounds
<1>4. CASE EndPrefixes
  <2>1. pc = "round" /\ (~changed \/ rounds >= RoundLimit) /\ pc' = "rows" /\ changed' = changed
    BY <1>4 DEF EndPrefixes
  <2>2. ASSUME changed PROVE FALSE
    <3>1. rounds = RoundLimit
      BY <1>1, <1>2, <2>1, <2>2
    <3>2. RoundLimit * m <= MaxKey /\ RoundLimit * m \in Nat
      BY <1>1, <1>2, <2>1, <2>2, <3>1 DEF EnoughRounds
    <3>3. QED
      BY <1>2, <3>2
  <2>3. QED
    BY <1>1, <2>1, <2>2 DEF EnoughRounds
<1>5. CASE BeginRound \/ \E k \in pending : Visit(k)
  BY <1>1, <1>5 DEF EnoughRounds, BeginRound, Visit
<1>6. CASE BuildRow \/ Finish \/ UNCHANGED vars
  BY <1>1, <1>6 DEF EnoughRounds, BuildRow, Finish, vars
<1>7. QED
  BY <1>3, <1>4, <1>5, <1>6 DEF Next, Step, Terminated

\* With the limit of rounds the code has (64), the table is the reference
\* table for every library none of whose cells is so fast that more of them
\* than the limit fit into the largest delay: no chain is lost to the limit.
THEOREM LimitLosesNoChain ==
  ASSUME NEW m, CellsTake(m), RoundLimit * m > MaxKey
  PROVE  Spec => [](pc = "done" => TableContents = ChainTable)
<1>1. Init => EnoughRounds(m)
  <2>1. 0 * m <= MaxKey
    BY LibraryAssumption DEF CellsTake
  <2>2. QED
    BY <2>1, RoundsInit DEF Init, EnoughRounds
<1>2. EnoughRounds(m) /\ [Next]_vars => EnoughRounds(m)'
  BY EnoughRoundsStep
<1>3. EnoughRounds(m) /\ ConvergedTableIsMinimal => (pc = "done" => TableContents = ChainTable)
  BY DEF EnoughRounds, ConvergedTableIsMinimal
<1>4. QED
  BY <1>1, <1>2, <1>3, ConvergedTableIsReference, PTL DEF Spec
=============================================================================
