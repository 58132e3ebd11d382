-------------------------- MODULE HoldemTableProofs --------------------------
(***************************************************************************)
(* Theorems of HoldemTable, whatever the table's size, blinds and stacks,  *)
(* and however the delayed StartHand commands interleave with the players' *)
(* commands.  Four invariants, each with a lemma per operator of the       *)
(* engine about the fields it speaks of:                                   *)
(*   SettledInv  nothing settled has a number above the current hand's,    *)
(*               and a running hand has not been settled;                  *)
(*   ActorInv    button and turn are with players;                         *)
(*   ChipInv     the table holds no more than was brought, and the pot     *)
(*               covers what the seats have committed;                     *)
(*   ConservedInv  in orderly play the bets are in order, so that no side   *)
(*               pot lacks a rival, and every chip is on the table.        *)
(*                                                                         *)
(* First, what the engine's arithmetic computes, for any number of seats,  *)
(* any commitments and any hands: the side pots add up to what was         *)
(* committed, no pot pays out more than is in it, and nobody wins more     *)
(* from an opponent than he matched (engine.go resolveShowdown,            *)
(* awardSidePot).                                                          *)
(***************************************************************************)
EXTENDS HoldemTable, Sums

LEMMA SeatsFinite == IsFiniteSet(Seats) /\ Seats \subseteq Nat /\ N \in Nat
<1>1. N \in Nat /\ N - 1 \in Int
  BY SeatAssumption
<1> QED
  BY <1>1, FS_Interval DEF Seats

LEMMA TotalIs == ASSUME NEW f PROVE Total(f) = SumOn(f, Seats)
BY DEF Total, MapThenSumSet, MapThenFoldSet, SumOn, SumIter, Adds, Picked

LEMMA NatTotal ==
  ASSUME NEW f \in [Seats -> Nat]
  PROVE  Total(f) \in Nat /\ Summable(f, Seats) /\ \A i \in Seats : f[i] <= Total(f)
BY SeatsFinite, TotalIs, SumCovers

\* The greatest of finitely many naturals.
LEMMA MaxIsGreatest ==
  ASSUME NEW T \in SUBSET Nat, T # {}, NEW b \in Nat, \A x \in T : x <= b
  PROVE  Max(T) \in T /\ \A x \in T : x <= Max(T)
<1> DEFINE D == {n \in Nat : n <= b /\ b - n \in T}
<1>1. PICK t \in T : TRUE
  OBVIOUS
<1>2. b - t \in Nat /\ b - t <= b /\ b - (b - t) = t
  <2>1. t \in Nat /\ t <= b
    BY <1>1
  <2> QED
    BY <2>1
<1>3. D # {} /\ D \in SUBSET Nat
  BY <1>1, <1>2
<1>4. PICK d \in D : \A n \in D : d <= n
  <2> HIDE DEF D
  <2> QED
    BY <1>3, LeastNatural
<1>5. ASSUME NEW x \in T PROVE b - d >= x
  <2>1. x \in Nat /\ x <= b /\ d \in Nat
    BY <1>4
  <2>2. b - x \in Nat /\ b - (b - x) = x
    BY <2>1
  <2>3. b - x \in D
    BY <2>1, <2>2
  <2>4. d <= b - x
    BY <1>4, <2>3
  <2> QED
    BY <2>1, <2>2, <2>4
<1>6. b - d \in T
  BY <1>4
<1>7. \E x \in T : \A y \in T : x >= y
  BY <1>5, <1>6
<1>8. Max(T) \in T /\ \A y \in T : Max(T) >= y
  BY <1>7 DEF Max
<1>9. \A x \in T : x \in Nat
  OBVIOUS
<1> QED
  BY <1>8, <1>9

-----------------------------------------------------------------------------
(* The side pots: one for each level that somebody has committed.          *)

\* The commitments, and that an empty seat has none.
Committed(g) ==
  /\ g.com \in [Seats -> Nat]
  /\ \A i \in Seats : g.user[i] = NoUser => g.com[i] = 0

Below(g, lvl) == {l \in Levels(g) : l < lvl}
Floor(g, lvl) == IF Below(g, lvl) = {} THEN 0 ELSE Max(Below(g, lvl))
Size(g, lvl)  == lvl - Floor(g, lvl)
Payers(g, lvl) == {j \in Occupied(g) : g.com[j] >= lvl}
PotOf(g, lvl) == Size(g, lvl) * Cardinality(Payers(g, lvl))

LEMMA LevelsFinite ==
  ASSUME NEW g, Committed(g)
  PROVE  IsFiniteSet(Levels(g)) /\ Levels(g) \subseteq Nat \ {0}
<1>1. Levels(g) \in SUBSET Nat /\ 0 \notin Levels(g)
  BY DEF Committed, Levels, Occupied
<1>2. Total(g.com) \in Nat /\ \A i \in Seats : g.com[i] <= Total(g.com)
  BY NatTotal DEF Committed
<1>3. \A l \in Levels(g) : l <= Total(g.com)
  BY <1>2 DEF Levels, Occupied
<1>4. IsFiniteSet(Levels(g))
  BY <1>1, <1>2, <1>3, FS_BoundedSetOfNaturals
<1> QED
  BY <1>1, <1>4

\* The level below is a level or 0, and none lies between.
LEMMA FloorIs ==
  ASSUME NEW g, Committed(g), NEW lvl \in Levels(g)
  PROVE  /\ Floor(g, lvl) \in Levels(g) \cup {0}
         /\ Floor(g, lvl) < lvl
         /\ \A l \in Levels(g) : l < lvl => l <= Floor(g, lvl)
         /\ Size(g, lvl) \in Nat
         /\ lvl \in Nat /\ Floor(g, lvl) \in Nat
<1>1. Levels(g) \subseteq Nat \ {0}
  BY LevelsFinite
<1>2. lvl \in Nat /\ lvl > 0
  BY <1>1
<1>3. CASE Below(g, lvl) = {}
  BY <1>2, <1>3 DEF Floor, Size, Below
<1>4. CASE Below(g, lvl) # {}
  <2>1. Below(g, lvl) \in SUBSET Nat /\ \A l \in Below(g, lvl) : l <= lvl /\ l < lvl
    BY <1>1, <1>2 DEF Below
  <2>2. Max(Below(g, lvl)) \in Below(g, lvl) /\ \A l \in Below(g, lvl) : l <= Max(Below(g, lvl))
    BY <1>2, <1>4, <2>1, MaxIsGreatest
  <2>3. Floor(g, lvl) = Max(Below(g, lvl))
    BY <1>4 DEF Floor
  <2>4. Floor(g, lvl) \in Levels(g) /\ Floor(g, lvl) < lvl
    BY <2>2, <2>3 DEF Below
  <2>5. \A l \in Levels(g) : l < lvl => l <= Floor(g, lvl)
    BY <2>2, <2>3 DEF Below
  <2> QED
    BY <1>1, <1>2, <2>4, <2>5 DEF Size
<1> QED
  BY <1>3, <1>4

\* The sizes of the levels up to a level add up to it.
SizesTo(g, c) == [l \in Levels(g) |-> IF l <= c THEN Size(g, l) ELSE 0]

LEMMA SizesAddUp ==
  ASSUME NEW g, Committed(g), NEW c \in Levels(g) \cup {0}
  PROVE  /\ Summable(SizesTo(g, c), Levels(g))
         /\ SumOn(SizesTo(g, c), Levels(g)) = c
<1> DEFINE L == Levels(g)
           Bad == {b \in L \cup {0} : SumOn(SizesTo(g, b), L) # b}
<1>1. IsFiniteSet(L) /\ L \subseteq Nat \ {0}
  BY LevelsFinite
<1>2. \A l \in L : Size(g, l) \in Nat
  BY FloorIs
<1>3. \A b : Summable(SizesTo(g, b), L)
  BY <1>1, <1>2 DEF Summable, SizesTo
<1>4. ASSUME Bad # {} PROVE FALSE
  <2>1. Bad \in SUBSET Nat
    BY <1>1
  <2>2. PICK b \in Bad : \A k \in Bad : b <= k
    <3> HIDE DEF Bad
    <3> QED
      BY <1>4, <2>1, LeastNatural
  <2>3. CASE b = 0
    <3>1. \A l \in L : SizesTo(g, b)[l] = IF l \in {} THEN 0 ELSE 0
      BY <1>1, <2>3 DEF SizesTo
    <3>2. SumOn(SizesTo(g, b), L) = 0 * Cardinality({})
      <4>1. {} \in SUBSET L /\ 0 \in Nat
        OBVIOUS
      <4> HIDE DEF L
      <4> QED
        BY <1>1, <3>1, <4>1, SumCount
    <3>3. Cardinality({}) = 0
      BY FS_EmptySet
    <3> QED
      BY <2>2, <2>3, <3>2, <3>3
  <2>4. CASE b # 0
    <3> DEFINE f == Floor(g, b)
    <3>1. b \in L
      BY <2>2, <2>4
    <3>2. /\ f \in L \cup {0} /\ f < b /\ f \in Nat /\ b \in Nat
          /\ \A l \in L : l < b => l <= f
          /\ Size(g, b) = b - f
      BY <3>1, FloorIs DEF Size
    <3> HIDE DEF f
    <3>3. SumOn(SizesTo(g, f), L) = f
      <4>1. f \notin Bad
        BY <2>2, <3>2
      <4> QED
        BY <3>2, <4>1
    <3>4. ASSUME NEW l \in L
          PROVE  SizesTo(g, b)[l] = IF l = b THEN SizesTo(g, f)[l] + (b - f) ELSE SizesTo(g, f)[l]
      <4>1. l \in Nat
        BY <1>1
      <4>2. l <= b <=> (l = b \/ l <= f)
        BY <3>2, <4>1
      <4>3. l = b => ~ (l <= f)
        BY <3>2, <4>1
      <4>4. SizesTo(g, b)[l] = (IF l <= b THEN Size(g, l) ELSE 0) /\ SizesTo(g, f)[l] = (IF l <= f THEN Size(g, l) ELSE 0)
        BY DEF SizesTo
      <4>5. CASE l = b
        BY <3>2, <4>2, <4>3, <4>4, <4>5
      <4>6. CASE l # b
        BY <4>2, <4>4, <4>6
      <4> QED
        BY <4>5, <4>6
    <3>5. b - f \in Int
      BY <3>2
    <3>6. SumOn(SizesTo(g, b), L) = SumOn(SizesTo(g, f), L) + (b - f)
      <4> HIDE DEF L
      <4> QED
        BY <1>3, <3>1, <3>4, <3>5, SumChanged
    <3> QED
      BY <2>2, <3>2, <3>3, <3>6
  <2> QED
    BY <2>3, <2>4
<1> QED
  BY <1>3, <1>4

PotsTo(g, c) == [l \in Levels(g) |-> IF l <= c THEN PotOf(g, l) ELSE 0]
Capped(g, c) == [j \in Seats |-> IF g.com[j] < c THEN g.com[j] ELSE c]

\* What a level's pot holds is what the seats have committed up to that level.
LEMMA PotsAddUp ==
  ASSUME NEW g, Committed(g), NEW c \in Levels(g) \cup {0}
  PROVE  /\ Summable(PotsTo(g, c), Levels(g)) /\ Summable(Capped(g, c), Seats)
         /\ SumOn(PotsTo(g, c), Levels(g)) = SumOn(Capped(g, c), Seats)
<1> DEFINE L == Levels(g)
           h == [l \in L |-> [j \in Seats |-> IF l <= c /\ l <= g.com[j] THEN Size(g, l) ELSE 0]]
<1>1. IsFiniteSet(L) /\ L \subseteq Nat \ {0} /\ IsFiniteSet(Seats) /\ c \in Nat
  BY LevelsFinite, SeatsFinite
<1>2. \A l \in L : Size(g, l) \in Nat
  BY FloorIs
<1>3. \A l \in L, j \in Seats :
         h[l][j] = (IF l <= c /\ l <= g.com[j] THEN Size(g, l) ELSE 0) /\ h[l][j] \in Int
  BY <1>2
<1> HIDE DEF h
<1>4. ASSUME NEW l \in L PROVE Rows(h, L, Seats)[l] = PotsTo(g, c)[l]
  <2>1. CASE l <= c
    <3>1. Payers(g, l) \in SUBSET Seats
      BY DEF Payers, Occupied
    <3>2. \A j \in Seats : h[l][j] = IF j \in Payers(g, l) THEN Size(g, l) ELSE 0
      <4> SUFFICES ASSUME NEW j \in Seats PROVE l <= g.com[j] <=> j \in Payers(g, l)
        BY <1>3, <2>1
      <4>1. l \in Nat \ {0} /\ g.com[j] \in Nat /\ (g.user[j] = NoUser => g.com[j] = 0)
        BY <1>1 DEF Committed
      <4> QED
        BY <4>1 DEF Payers, Occupied
    <3>3. SumOn(h[l], Seats) = Size(g, l) * Cardinality(Payers(g, l))
      BY <1>1, <1>2, <3>1, <3>2, SumCount
    <3> QED
      BY <2>1, <3>3 DEF Rows, PotsTo, PotOf
  <2>2. CASE ~ (l <= c)
    <3>1. \A j \in Seats : h[l][j] = IF j \in {} THEN 0 ELSE 0
      BY <1>3, <2>2
    <3>2. {} \in SUBSET Seats /\ 0 \in Nat /\ Cardinality({}) = 0
      BY FS_EmptySet
    <3>3. SumOn(h[l], Seats) = 0 * Cardinality({})
      BY <1>1, <3>1, <3>2, SumCount
    <3> QED
      BY <2>2, <3>2, <3>3 DEF Rows, PotsTo
  <2> QED
    BY <2>1, <2>2
<1>5. ASSUME NEW j \in Seats PROVE Columns(h, L, Seats)[j] = Capped(g, c)[j]
  <2> DEFINE m == Capped(g, c)[j]
  <2>1. /\ g.com[j] \in Nat
        /\ g.com[j] # 0 => g.com[j] \in L
    BY DEF Committed, Levels, Occupied
  <2>2. m \in L \cup {0} /\ m = (IF g.com[j] < c THEN g.com[j] ELSE c)
    BY <2>1 DEF Capped
  <2>3. \A l \in L : ColumnAt(h, L, j)[l] = SizesTo(g, m)[l]
    <3> SUFFICES ASSUME NEW l \in L PROVE l <= m <=> (l <= c /\ l <= g.com[j])
      BY <1>3 DEF ColumnAt, SizesTo
    <3>1. l \in Nat
      BY <1>1
    <3> QED
      BY <1>1, <2>1, <2>2, <3>1
  <2> HIDE DEF m
  <2>4. Summable(SizesTo(g, m), L) /\ SumOn(SizesTo(g, m), L) = m
    BY <2>2, SizesAddUp
  <2>5. SumOn(SizesTo(g, m), L) = SumOn(ColumnAt(h, L, j), L)
    <3>1. \A l \in L : SizesTo(g, m)[l] = ColumnAt(h, L, j)[l]
      BY <2>3
    <3> HIDE DEF L
    <3> QED
      BY <2>4, <3>1, SumSame
  <2> QED
    BY <2>4, <2>5 DEF Columns, m
<1>6. /\ Summable(Rows(h, L, Seats), L) /\ Summable(Columns(h, L, Seats), Seats)
      /\ SumOn(Rows(h, L, Seats), L) = SumOn(Columns(h, L, Seats), Seats)
  <2> HIDE DEF L
  <2> QED
    BY <1>1, <1>3, SumSwap
<1>7. Summable(PotsTo(g, c), L) /\ SumOn(Rows(h, L, Seats), L) = SumOn(PotsTo(g, c), L)
  <2> HIDE DEF L
  <2> QED
    BY <1>4, <1>6, SumSame
<1>8. Summable(Capped(g, c), Seats) /\ SumOn(Columns(h, L, Seats), Seats) = SumOn(Capped(g, c), Seats)
  BY <1>5, <1>6, SumSame
<1> QED
  BY <1>6, <1>7, <1>8

\* The side pots together are what the seats have committed.
LEMMA PotsAreCommitments ==
  ASSUME NEW g, Committed(g), NEW pots, \A l \in Levels(g) : pots[l] = PotOf(g, l)
  PROVE  Summable(pots, Levels(g)) /\ SumOn(pots, Levels(g)) = Total(g.com)
<1> DEFINE L == Levels(g)
<1>1. L \subseteq Nat \ {0} /\ \A j \in Seats : g.com[j] \in Nat /\ (g.com[j] # 0 => g.com[j] \in L)
  BY LevelsFinite DEF Committed, Levels, Occupied
<1>2. PICK c \in L \cup {0} : \A l \in L : l <= c
  <2>1. CASE L = {}
    BY <2>1
  <2>2. CASE L # {}
    <3>1. Total(g.com) \in Nat /\ \A l \in L : l <= Total(g.com)
      BY NatTotal DEF Committed, Levels, Occupied
    <3>2. L \in SUBSET Nat
      BY <1>1
    <3> HIDE DEF L
    <3>3. Max(L) \in L /\ \A l \in L : l <= Max(L)
      BY <2>2, <3>1, <3>2, MaxIsGreatest
    <3> QED
      BY <3>3
  <2> QED
    BY <2>1, <2>2
<1>3. c \in Nat
  BY <1>1
<1>4. \A l \in L : PotsTo(g, c)[l] = pots[l]
  BY <1>2 DEF PotsTo
<1>5. ASSUME NEW j \in Seats PROVE Capped(g, c)[j] = g.com[j]
  <2>1. g.com[j] \in Nat /\ g.com[j] <= c
    BY <1>1, <1>2, <1>3
  <2> QED
    BY <1>3, <2>1 DEF Capped
<1>6. /\ Summable(PotsTo(g, c), L) /\ Summable(Capped(g, c), Seats)
      /\ SumOn(PotsTo(g, c), L) = SumOn(Capped(g, c), Seats)
  BY PotsAddUp
<1>7. Summable(pots, L) /\ SumOn(PotsTo(g, c), L) = SumOn(pots, L)
  <2> HIDE DEF L
  <2> QED
    BY <1>4, <1>6, SumSame
<1>8. SumOn(Capped(g, c), Seats) = SumOn(g.com, Seats)
  BY <1>5, <1>6, SumSame
<1> QED
  BY <1>6, <1>7, <1>8, TotalIs

-----------------------------------------------------------------------------
(* One side pot: its winners share it, the odd chips go to the nearest.     *)

Rivals(g, lvl) == Payers(g, lvl) \cap Live(g)
Winners(g, str, lvl) == {j \in Rivals(g, lvl) : \A k \in Rivals(g, lvl) : str[k] <= str[j]}
Nearer(g, W, i) == {j \in W : SeatDistance(g, j) < SeatDistance(g, i)}

LEMMA AwardIs ==
  ASSUME NEW g, NEW str, NEW lvl, NEW i
  PROVE  Award(g, str, lvl, i) =
           IF i \notin Winners(g, str, lvl) THEN 0
           ELSE PotOf(g, lvl) \div Cardinality(Winners(g, str, lvl))
                + (IF Cardinality(Nearer(g, Winners(g, str, lvl), i))
                        < PotOf(g, lvl) % Cardinality(Winners(g, str, lvl)) THEN 1 ELSE 0)
BY DEF Award, PotOf, Size, Floor, Below, Payers, Rivals, Winners, Nearer

\* No two seats are at the same distance from the button.
LEMMA DistancesDiffer ==
  ASSUME NEW g, g.button \in Seats, NEW i \in Seats, NEW j \in Seats
  PROVE  /\ SeatDistance(g, i) \in Nat
         /\ i # j => SeatDistance(g, i) # SeatDistance(g, j)
<1> DEFINE b == g.button
           d(k) == (k - b + N) % N
<1>1. N \in Nat /\ N > 0 /\ b \in 0 .. N - 1 /\ i \in 0 .. N - 1 /\ j \in 0 .. N - 1
  BY SeatAssumption DEF Seats
<1>2. ASSUME NEW k \in 0 .. N - 1
      PROVE  d(k) = (IF k < b THEN k - b + N ELSE k - b)
  <2> HIDE DEF b
  <2>1. CASE k < b
    <3>1. k - b + N \in 0 .. N - 1
      BY <1>1, <2>1
    <3> QED
      BY <1>1, <2>1, <3>1
  <2>2. CASE ~ (k < b)
    <3>1. k - b \in 0 .. N - 1 /\ k - b + N = (k - b) + 1 * N
      BY <1>1, <2>2
    <3>2. (k - b + N) % N = k - b
      BY <1>1, <3>1
    <3> QED
      BY <2>2, <3>2
  <2> QED
    BY <2>1, <2>2
<1>3. SeatDistance(g, i) = (IF d(i) = 0 THEN N ELSE d(i)) /\ SeatDistance(g, j) = (IF d(j) = 0 THEN N ELSE d(j))
  BY DEF SeatDistance
<1> HIDE DEF b, d
<1> QED
  BY <1>1, <1>2, <1>3

\* Of finitely many seats, as many have fewer than r before them as r says.
LEMMA NearestAre ==
  ASSUME NEW g, g.button \in Seats, NEW W \in SUBSET Seats,
         NEW r \in 0 .. Cardinality(W)
  PROVE  Cardinality({i \in W : Cardinality(Nearer(g, W, i)) < r}) = r
<1> DEFINE k == Cardinality(W)
           rank == [i \in W |-> Cardinality(Nearer(g, W, i))]
           T == 0 .. k - 1
           Lucky == {i \in W : Cardinality(Nearer(g, W, i)) < r}
<1>1. IsFiniteSet(W) /\ k \in Nat
  BY SeatsFinite, FS_Subset, FS_CardinalityType
<1>2. IsFiniteSet(T) /\ Cardinality(T) = k
  <2>1. 0 \in Int /\ k - 1 \in Int /\ (0 > k - 1 => k = 0) /\ k - 1 - 0 + 1 = k
    BY <1>1
  <2> HIDE DEF k
  <2> QED
    BY <2>1, FS_Interval
<1>3. ASSUME NEW i \in W
      PROVE  /\ Nearer(g, W, i) \subseteq W \ {i} /\ IsFiniteSet(Nearer(g, W, i))
             /\ Cardinality(Nearer(g, W, i)) \in T
  <2>1. Nearer(g, W, i) \in SUBSET (W \ {i})
    <3>1. SeatDistance(g, i) \in Nat
      BY DistancesDiffer
    <3> QED
      BY <3>1 DEF Nearer
  <2>2. IsFiniteSet(W \ {i}) /\ Cardinality(W \ {i}) = k - 1
    BY <1>1, FS_RemoveElement
  <2>3. IsFiniteSet(Nearer(g, W, i)) /\ Cardinality(Nearer(g, W, i)) <= k - 1
    BY <2>1, <2>2, FS_Subset
  <2>4. Cardinality(Nearer(g, W, i)) \in Nat
    BY <2>3, FS_CardinalityType
  <2> QED
    BY <1>1, <2>1, <2>3, <2>4
<1>4. ASSUME NEW i \in W, NEW j \in W, SeatDistance(g, i) < SeatDistance(g, j)
      PROVE  rank[i] < rank[j]
  <2>1. i \in Seats /\ j \in Seats /\ \A x \in W : SeatDistance(g, x) \in Nat
    BY DistancesDiffer
  <2>2. Nearer(g, W, i) \in SUBSET Nearer(g, W, j) /\ i \in Nearer(g, W, j) /\ i \notin Nearer(g, W, i)
    BY <1>4, <2>1 DEF Nearer
  <2>3. Cardinality(Nearer(g, W, i)) <= Cardinality(Nearer(g, W, j))
        /\ Cardinality(Nearer(g, W, i)) # Cardinality(Nearer(g, W, j))
    BY <1>3, <2>2, FS_Subset
  <2>4. Cardinality(Nearer(g, W, i)) \in Nat /\ Cardinality(Nearer(g, W, j)) \in Nat
    BY <1>3, FS_CardinalityType
  <2> QED
    BY <2>3, <2>4
<1>5. ASSUME NEW i \in W, NEW j \in W, i # j PROVE rank[i] # rank[j]
  <2>1. /\ SeatDistance(g, i) \in Nat /\ SeatDistance(g, j) \in Nat
        /\ SeatDistance(g, i) # SeatDistance(g, j)
    BY <1>5, DistancesDiffer
  <2>2. rank[i] \in Int /\ rank[j] \in Int
    BY <1>3
  <2>3. SeatDistance(g, i) < SeatDistance(g, j) \/ SeatDistance(g, j) < SeatDistance(g, i)
    BY <2>1
  <2> HIDE DEF rank
  <2> QED
    BY <1>4, <2>2, <2>3
<1>6. rank \in [W -> T]
  BY <1>3
<1> HIDE DEF rank
<1>7. rank \in Injection(W, T)
  BY <1>5, <1>6 DEF Injection, IsInjective
<1>8. rank \in Surjection(W, T)
  BY <1>1, <1>2, <1>7, FS_Injection
<1> DEFINE luck == [i \in Lucky |-> rank[i]]
<1>9. \A i \in W : i \in Lucky <=> rank[i] \in 0 .. r - 1
  BY <1>1, <1>3 DEF rank
<1>10. luck \in Bijection(Lucky, 0 .. r - 1)
  <2>1. luck \in [Lucky -> 0 .. r - 1]
    BY <1>9
  <2>2. \A i, j \in Lucky : luck[i] = luck[j] => i = j
    BY <1>5
  <2>3. \A n \in 0 .. r - 1 : \E i \in Lucky : luck[i] = n
    <3> SUFFICES ASSUME NEW n \in 0 .. r - 1 PROVE \E i \in Lucky : luck[i] = n
      OBVIOUS
    <3>1. n \in T
      BY <1>1
    <3>2. PICK i \in W : rank[i] = n
      BY <1>8, <3>1 DEF Surjection
    <3> QED
      BY <1>9, <3>2
  <2> HIDE DEF luck
  <2> QED
    BY <2>1, <2>2, <2>3 DEF Bijection, Injection, IsInjective, Surjection
<1>11. IsFiniteSet(Lucky) /\ ExistsBijection(Lucky, 0 .. r - 1)
  BY <1>1, <1>10, FS_Subset DEF ExistsBijection
<1>12. Cardinality(0 .. r - 1) = r
  BY <1>1, FS_Interval
<1> QED
  BY <1>11, <1>12, FS_Bijection

\* What a side pot's winners get together is what is in it, and nothing if there
\* are none.
LEMMA AwardsAddUp ==
  ASSUME NEW g, Committed(g), g.button \in Seats, NEW lvl \in Levels(g), NEW str,
         NEW a, \A i \in Seats : a[i] = Award(g, str, lvl, i)
  PROVE  /\ PotOf(g, lvl) \in Nat
         /\ \A i \in Seats : a[i] \in Nat /\ (lvl > g.com[i] => a[i] = 0)
         /\ SumOn(a, Seats) = IF Winners(g, str, lvl) = {} THEN 0 ELSE PotOf(g, lvl)
<1> DEFINE W == Winners(g, str, lvl)
           P == PotOf(g, lvl)
           k == Cardinality(W)
           q == P \div k
           r == P % k
           Lucky == {i \in W : Cardinality(Nearer(g, W, i)) < r}
           a1 == [i \in Seats |-> IF i \in W THEN q ELSE 0]
           a2 == [i \in Seats |-> IF i \in Lucky THEN 1 ELSE 0]
<1>1. W \in SUBSET Seats /\ \A i \in W : g.com[i] >= lvl
  BY DEF Winners, Rivals, Payers, Occupied
<1>2. IsFiniteSet(W) /\ k \in Nat /\ (k = 0 <=> W = {})
  BY <1>1, SeatsFinite, FS_Subset, FS_CardinalityType, FS_EmptySet
<1>3. P \in Nat
  <2>1. Payers(g, lvl) \in SUBSET Seats
    BY DEF Payers, Occupied
  <2>2. Cardinality(Payers(g, lvl)) \in Nat /\ Size(g, lvl) \in Nat
    BY <2>1, SeatsFinite, FS_Subset, FS_CardinalityType, FloorIs
  <2>3. \A x, y \in Nat : x * y \in Nat
    OBVIOUS
  <2> QED
    BY <2>2, <2>3 DEF PotOf
<1>4. lvl \in Nat /\ \A i \in Seats : g.com[i] \in Nat
  BY FloorIs DEF Committed
<1>5. \A i \in Seats : a[i] = IF i \notin W THEN 0 ELSE q + (IF i \in Lucky THEN 1 ELSE 0)
  BY AwardIs
<1>6. \A i \in Seats : lvl > g.com[i] => a[i] = 0
  BY <1>1, <1>4, <1>5
<1>7. CASE W = {}
  <2>1. \A i \in Seats : a[i] = 0
    BY <1>5, <1>7
  <2>2. {} \in SUBSET Seats /\ 0 \in Nat /\ Cardinality({}) = 0 /\ 0 * 0 = 0
    BY FS_EmptySet
  <2>3. \A i \in Seats : a[i] = IF i \in {} THEN 0 ELSE 0
    BY <2>1
  <2>4. IsFiniteSet(Seats)
    BY SeatsFinite
  <2>5. SumOn(a, Seats) = 0 * Cardinality({})
    <3> HIDE DEF W, P, k, q, r, Lucky, a1, a2
    <3> QED
      BY <2>2, <2>3, <2>4, SumCount
  <2>6. SumOn(a, Seats) = 0
    BY <2>2, <2>5
  <2> QED
    BY <1>3, <1>6, <1>7, <2>1, <2>6
<1>8. CASE W # {}
  <2>1. k \in Nat \ {0}
    BY <1>2, <1>8
  <2> HIDE DEF W, k, P
  <2>2. q \in Nat /\ r \in 0 .. k - 1 /\ P = k * q + r
    BY <1>3, <2>1
  <2> HIDE DEF q, r
  <2>3. Cardinality(Lucky) = r
    <3>1. r \in 0 .. Cardinality(W)
      BY <2>1, <2>2 DEF k
    <3> QED
      BY <1>1, <3>1, NearestAre
  <2>4. Lucky \in SUBSET Seats /\ Lucky \subseteq W
    BY <1>1
  <2> HIDE DEF Lucky
  <2>5. Summable(a1, Seats) /\ SumOn(a1, Seats) = q * k
    <3>1. \A i \in Seats : a1[i] = IF i \in W THEN q ELSE 0
      OBVIOUS
    <3> HIDE DEF a1
    <3> QED
      BY <1>1, <2>2, <3>1, SeatsFinite, SumCount DEF k
  <2>6. Summable(a2, Seats) /\ SumOn(a2, Seats) = 1 * r
    <3>1. \A i \in Seats : a2[i] = IF i \in Lucky THEN 1 ELSE 0
      OBVIOUS
    <3>2. 1 \in Nat /\ IsFiniteSet(Seats) /\ Lucky \in SUBSET Seats
      BY <2>4, SeatsFinite
    <3> HIDE DEF a2, a1
    <3>3. Summable(a2, Seats) /\ SumOn(a2, Seats) = 1 * Cardinality(Lucky)
      BY <3>1, <3>2, SumCount
    <3> QED
      BY <2>3, <3>3
  <2>7. \A i \in Seats : a[i] = a1[i] + a2[i] /\ a[i] \in Nat
    BY <1>5, <2>2, <2>4
  <2>8. SumOn(a, Seats) = SumOn(a1, Seats) + SumOn(a2, Seats)
    <3> HIDE DEF a1, a2
    <3> QED
      BY <2>5, <2>6, <2>7, SumPlus
  <2>9. q * k = k * q /\ 1 * r = r
    BY <2>1, <2>2
  <2>10. SumOn(a, Seats) = P
    BY <2>2, <2>5, <2>6, <2>8, <2>9
  <2> QED
    BY <1>3, <1>6, <1>8, <2>7, <2>10 DEF W, P
<1> QED
  BY <1>7, <1>8

\* A sum over a set is the fold that MapThenSumSet makes of its terms.
LEMMA WinningsIs ==
  ASSUME NEW g, NEW str, NEW i \in Seats, NEW a, Summable(a, Levels(g)),
         \A lvl \in Levels(g) : a[lvl] = Award(g, str, lvl, i)
  PROVE  Winnings(g, str)[i] = SumOn(a, Levels(g))
<1> DEFINE L == Levels(g)
           Next0(iter) == [s \in SUBSET L |->
                            IF s = {} THEN 0
                            ELSE Award(g, str, Picked(s), i) + iter[s \ {Picked(s)}]]
           fold == CHOOSE iter : iter = Next0(iter)
<1>1. \A iter : Next0(iter) = [s \in SUBSET L |->
                  IF s = {} THEN 0 ELSE a[Picked(s)] + iter[s \ {Picked(s)}]]
  <2> SUFFICES ASSUME NEW iter, NEW s \in SUBSET L, s # {}
               PROVE  Award(g, str, Picked(s), i) = a[Picked(s)]
    OBVIOUS
  <2>1. Picked(s) \in L
    BY DEF Picked
  <2> QED
    BY <2>1
<1>2. \A iter : iter = Next0(iter) <=> Adds(iter, a, L)
  BY <1>1, Zenon DEF Adds
<1>3. Adds(fold, a, L)
  <2>1. Adds(SumIter(a, L), a, L)
    BY SumExists
  <2>2. \E iter : iter = Next0(iter)
    BY <1>2, <2>1
  <2> HIDE DEF Next0
  <2>3. fold = Next0(fold)
    BY <2>2
  <2> QED
    BY <1>2, <2>3
<1>4. fold[L] = SumOn(a, L)
  BY <1>3, SumUnique
<1>5. Winnings(g, str)[i] = fold[L]
  BY DEF Winnings, MapThenSumSet, MapThenFoldSet, Picked
<1> QED
  BY <1>4, <1>5

LEMMA MatchedByIs ==
  ASSUME NEW g, NEW i \in Seats, NEW m, Summable(m, Seats),
         \A j \in Seats : m[j] = IF g.com[j] < g.com[i] THEN g.com[j] ELSE g.com[i]
  PROVE  MatchedBy(g, i) = SumOn(m, Seats)
<1> DEFINE Least(j) == IF g.com[j] < g.com[i] THEN g.com[j] ELSE g.com[i]
           Next0(iter) == [s \in SUBSET Seats |->
                            IF s = {} THEN 0
                            ELSE Least(Picked(s)) + iter[s \ {Picked(s)}]]
           fold == CHOOSE iter : iter = Next0(iter)
<1>1. \A iter : Next0(iter) = [s \in SUBSET Seats |->
                  IF s = {} THEN 0 ELSE m[Picked(s)] + iter[s \ {Picked(s)}]]
  <2> SUFFICES ASSUME NEW iter, NEW s \in SUBSET Seats, s # {}
               PROVE  Least(Picked(s)) = m[Picked(s)]
    OBVIOUS
  <2>1. Picked(s) \in Seats
    BY DEF Picked
  <2> QED
    BY <2>1
<1>2. \A iter : iter = Next0(iter) <=> Adds(iter, m, Seats)
  BY <1>1, Zenon DEF Adds
<1>3. Adds(fold, m, Seats)
  <2>1. Adds(SumIter(m, Seats), m, Seats)
    BY SumExists
  <2>2. \E iter : iter = Next0(iter)
    BY <1>2, <2>1
  <2> HIDE DEF Next0
  <2>3. fold = Next0(fold)
    BY <2>2
  <2> QED
    BY <1>2, <2>3
<1>4. fold[Seats] = SumOn(m, Seats)
  BY <1>3, SumUnique
<1>5. MatchedBy(g, i) = fold[Seats]
  BY DEF MatchedBy, MapThenSumSet, MapThenFoldSet, Picked
<1> QED
  BY <1>4, <1>5

\* What the winners get is never more than was committed, and nobody gets more
\* of any seat's commitment than he matched.
LEMMA WinningsBounded ==
  ASSUME NEW g, Committed(g), g.button \in Seats, NEW str
  PROVE  /\ Winnings(g, str) \in [Seats -> Nat]
         /\ Total(Winnings(g, str)) <= Total(g.com)
         /\ (\A lvl \in Levels(g) : Winners(g, str, lvl) # {})
              => Total(Winnings(g, str)) = Total(g.com)
         /\ \A i \in Seats : Winnings(g, str)[i] <= MatchedBy(g, i)
<1> DEFINE L == Levels(g)
           h == [i \in Seats |-> [lvl \in L |-> Award(g, str, lvl, i)]]
           won == Winnings(g, str)
           pots == [lvl \in L |-> PotOf(g, lvl)]
           rows == Rows(h, Seats, L)
           cols == Columns(h, Seats, L)
<1>1. IsFiniteSet(L) /\ IsFiniteSet(Seats)
  BY LevelsFinite, SeatsFinite
<1>2. ASSUME NEW lvl \in L
      PROVE  /\ \A i \in Seats : h[i][lvl] \in Nat /\ (lvl > g.com[i] => h[i][lvl] = 0)
             /\ PotOf(g, lvl) \in Nat
             /\ cols[lvl] <= PotOf(g, lvl)
             /\ Winners(g, str, lvl) # {} => cols[lvl] = PotOf(g, lvl)
             /\ \A i \in Seats : h[i][lvl] <= PotOf(g, lvl)
  <2> DEFINE a == ColumnAt(h, Seats, lvl)
  <2>1. \A i \in Seats : a[i] = Award(g, str, lvl, i) /\ h[i][lvl] = a[i]
    BY DEF ColumnAt
  <2>2. cols[lvl] = SumOn(a, Seats)
    BY DEF Columns
  <2> HIDE DEF a, cols, h
  <2>3. /\ PotOf(g, lvl) \in Nat
        /\ \A i \in Seats : a[i] \in Nat /\ (lvl > g.com[i] => a[i] = 0)
        /\ SumOn(a, Seats) = IF Winners(g, str, lvl) = {} THEN 0 ELSE PotOf(g, lvl)
    BY <2>1, AwardsAddUp
  <2>4. SumOn(a, Seats) \in Nat /\ \A i \in Seats : a[i] <= SumOn(a, Seats)
    BY <1>1, <2>3, SumCovers
  <2> QED
    BY <2>1, <2>2, <2>3, <2>4
<1>3. \A i \in Seats, lvl \in L : h[i][lvl] \in Int
  <2> SUFFICES ASSUME NEW i \in Seats, NEW lvl \in L PROVE h[i][lvl] \in Int
    OBVIOUS
  <2>1. h[i][lvl] \in Nat
    BY <1>2
  <2> HIDE DEF h
  <2> QED
    BY <2>1
<1>4. ASSUME NEW i \in Seats
      PROVE  Summable(h[i], L) /\ won[i] = SumOn(h[i], L) /\ won[i] \in Nat
  <2> DEFINE a == h[i]
  <2>1. \A lvl \in L : a[lvl] = Award(g, str, lvl, i) /\ a[lvl] \in Nat
    BY <1>2
  <2> HIDE DEF a
  <2>2. Summable(a, L) /\ SumOn(a, L) \in Nat
    BY <1>1, <2>1, SumCovers
  <2>3. won[i] = SumOn(a, L)
    BY <2>1, <2>2, WinningsIs
  <2> QED
    BY <2>2, <2>3 DEF a
<1>5. won \in [Seats -> Nat]
  <2>1. won = [i \in Seats |-> won[i]]
    BY DEF Winnings
  <2> HIDE DEF won
  <2> QED
    BY <1>4, <2>1
<1>6. Total(won) = SumOn(cols, L) /\ Summable(cols, L)
  <2>1. Summable(rows, Seats) /\ Summable(cols, L) /\ SumOn(rows, Seats) = SumOn(cols, L)
    <3> HIDE DEF h
    <3> QED
      BY <1>1, <1>3, SumSwap
  <2>2. \A i \in Seats : rows[i] = won[i]
    BY <1>4 DEF Rows
  <2> HIDE DEF rows, won
  <2>3. SumOn(won, Seats) = SumOn(rows, Seats)
    BY <2>1, <2>2, SumSame
  <2> QED
    BY <2>1, <2>3, TotalIs
<1>7. Total(won) <= Total(g.com)
  <2>1. \A lvl \in L : pots[lvl] = PotOf(g, lvl) /\ cols[lvl] <= pots[lvl]
    BY <1>2
  <2> HIDE DEF pots, cols
  <2>2. Summable(pots, L) /\ SumOn(pots, L) = Total(g.com)
    BY <2>1, PotsAreCommitments
  <2>3. SumOn(cols, L) <= SumOn(pots, L)
    BY <1>6, <2>1, <2>2, SumAtMost
  <2> QED
    BY <1>6, <2>2, <2>3
<1>8. ASSUME NEW i \in Seats PROVE won[i] <= MatchedBy(g, i)
  <2> DEFINE c == g.com[i]
             a == h[i]
             p == PotsTo(g, c)
             m == Capped(g, c)
  <2>1. c \in L \cup {0}
    BY DEF Levels, Occupied, Committed
  <2>2. Summable(p, L) /\ Summable(m, Seats) /\ SumOn(p, L) = SumOn(m, Seats)
    BY <2>1, PotsAddUp
  <2>3. \A lvl \in L : lvl \in Nat /\ c \in Nat
    BY LevelsFinite DEF Committed
  <2>4. \A lvl \in L : a[lvl] <= p[lvl]
    <3> SUFFICES ASSUME NEW lvl \in L PROVE a[lvl] <= p[lvl]
      OBVIOUS
    <3>1. /\ a[lvl] \in Nat /\ (lvl > c => a[lvl] = 0)
          /\ PotOf(g, lvl) \in Nat /\ a[lvl] <= PotOf(g, lvl)
      BY <1>2
    <3>2. p[lvl] = IF lvl <= c THEN PotOf(g, lvl) ELSE 0
      BY DEF PotsTo
    <3> HIDE DEF a, p
    <3> QED
      BY <2>3, <3>1, <3>2
  <2>5. \A j \in Seats : m[j] = IF g.com[j] < g.com[i] THEN g.com[j] ELSE g.com[i]
    BY DEF Capped, Committed
  <2>6. Summable(a, L) /\ won[i] = SumOn(a, L)
    BY <1>4
  <2> HIDE DEF a, p, m
  <2>7. SumOn(a, L) <= SumOn(p, L)
    BY <2>2, <2>4, <2>6, SumAtMost
  <2>8. MatchedBy(g, i) = SumOn(m, Seats)
    BY <2>2, <2>5, MatchedByIs
  <2> QED
    BY <2>2, <2>6, <2>7, <2>8
<1>9. ASSUME \A lvl \in L : Winners(g, str, lvl) # {}
      PROVE  Total(won) = Total(g.com)
  <2>1. \A lvl \in L : pots[lvl] = PotOf(g, lvl) /\ cols[lvl] = pots[lvl]
    BY <1>2, <1>9
  <2> HIDE DEF pots, cols
  <2>2. Summable(pots, L) /\ SumOn(pots, L) = Total(g.com)
    BY <2>1, PotsAreCommitments
  <2>3. SumOn(cols, L) = SumOn(pots, L)
    BY <1>6, <2>1, <2>2, SumSame
  <2> QED
    BY <1>6, <2>2, <2>3
<1> QED
  BY <1>5, <1>7, <1>8, <1>9

-----------------------------------------------------------------------------

Fields ==
  {"user", "chips", "bet", "com", "folded", "allin", "dealt", "button",
   "toAct", "raiser", "pot", "street", "board", "paid", "hand"}

IsGame(g) == g = [f \in Fields |-> g[f]] /\ g.hand \in Nat

\* Same hand, and over if it was over.
SameHand(g, r) ==
  /\ IsGame(r)
  /\ r.hand = g.hand
  /\ g.street = "Ended" => r.street = "Ended"

-----------------------------------------------------------------------------
LEMMA WagerSame ==
  ASSUME NEW g, IsGame(g), NEW i, NEW want
  PROVE  IsGame(Wager(g, i, want)) /\ Wager(g, i, want).hand = g.hand
         /\ Wager(g, i, want).street = g.street
BY DEF IsGame, Fields, Wager

LEMMA SitSame ==
  ASSUME NEW g, IsGame(g), NEW i, NEW u, NEW c
  PROVE  SameHand(g, Sit(g, i, u, c))
<1>1. g = [f \in Fields |-> g[f]]
  BY DEF IsGame
<1>2. Sit(g, i, u, c).hand = g.hand /\ Sit(g, i, u, c).street = g.street
  BY <1>1 DEF Fields, Sit
<1>3. Sit(g, i, u, c) = [f \in Fields |-> Sit(g, i, u, c)[f]]
  BY <1>1 DEF Sit
<1> QED
  BY <1>2, <1>3 DEF IsGame, SameHand

LEMMA StartHandNext ==
  ASSUME NEW g, IsGame(g)
  PROVE  IsGame(StartHand(g)) /\ StartHand(g).hand = g.hand + 1
<1> DEFINE headsUp == Cardinality(Occupied(g)) = 2
           button  == NextOccupied(g, g.button)
           sb      == IF headsUp THEN button ELSE NextOccupied(g, button)
           bb      == NextOccupied(g, sb)
           fresh   == [g EXCEPT !.bet = Zero, !.com = Zero, !.folded = None,
                           !.allin = None, !.paid = Zero, !.pot = 0,
                           !.hand = @ + 1, !.board = 0, !.button = button,
                           !.dealt = [i \in Seats |-> i \in Occupied(g)],
                           !.street = "Preflop", !.raiser = bb,
                           !.toAct = IF headsUp THEN sb ELSE NextOccupied(g, bb)]
           one     == Wager(fresh, sb, SmallBlind)
<1>1. StartHand(g) = Wager(one, bb, BigBlind)
  BY DEF StartHand, PostBlind
<1> HIDE DEF headsUp, button, sb, bb
<1>2. IsGame(fresh) /\ fresh.hand = g.hand + 1
  <2>1. g = [f \in Fields |-> g[f]]
    BY DEF IsGame
  <2>2. fresh.hand = g.hand + 1
    BY <2>1 DEF Fields
  <2>3. fresh = [f \in Fields |-> fresh[f]]
    BY <2>1
  <2> HIDE DEF fresh
  <2> QED
    BY <2>2, <2>3 DEF IsGame
<1> HIDE DEF fresh
<1>3. IsGame(one) /\ one.hand = g.hand + 1
  BY <1>2, WagerSame
<1> HIDE DEF one
<1>4. IsGame(Wager(one, bb, BigBlind)) /\ Wager(one, bb, BigBlind).hand = g.hand + 1
  BY <1>3, WagerSame
<1> QED
  BY <1>1, <1>4

LEMMA MaybeStartSame ==
  ASSUME NEW g, IsGame(g)
  PROVE  LET r == MaybeStart(g)
         IN  /\ IsGame(r)
             /\ r = g \/ r.hand = g.hand + 1
BY StartHandNext DEF MaybeStart

LEMMA CollectSame ==
  ASSUME NEW g, IsGame(g)
  PROVE  /\ IsGame(Collect(g))
         /\ Collect(g).hand = g.hand /\ Collect(g).street = g.street
BY DEF IsGame, Fields, Collect

LEMMA EndByFoldSame ==
  ASSUME NEW g, IsGame(g)
  PROVE  SameHand(g, EndByFold(g)) /\ EndByFold(g).street = "Ended"
<1>1. CASE Live(g) = {}
  <2>1. EndByFold(g) = [g EXCEPT !.street = "Ended"]
    BY <1>1 DEF EndByFold
  <2> QED
    BY <2>1 DEF SameHand, IsGame, Fields
<1>2. CASE Live(g) # {}
  <2> DEFINE c == Collect(g)
             w == Min(Live(g))
  <2>1. EndByFold(g) = [c EXCEPT !.chips[w] = @ + PotShown(g),
                                 !.paid[w]  = PotShown(g),
                                 !.pot      = 0,
                                 !.street   = "Ended"]
    BY <1>2 DEF EndByFold
  <2>2. IsGame(c) /\ c.hand = g.hand
    BY CollectSame
  <2> HIDE DEF c, w
  <2> QED
    BY <2>1, <2>2 DEF SameHand, IsGame, Fields
<1> QED
  BY <1>1, <1>2

LEMMA ResolveShowdownSame ==
  ASSUME NEW g, IsGame(g), NEW str
  PROVE  /\ SameHand(g, ResolveShowdown(g, str))
         /\ ResolveShowdown(g, str).street = "Ended"
<1> DEFINE won == Winnings(g, str)
<1>1. ResolveShowdown(g, str) =
        [g EXCEPT !.chips  = [i \in Seats |-> @[i] + won[i]],
                  !.paid   = [i \in Seats |-> IF won[i] > 0 THEN won[i] ELSE @[i]],
                  !.pot    = 0,
                  !.street = "Ended"]
  BY DEF ResolveShowdown
<1> HIDE DEF won
<1> QED
  BY <1>1 DEF SameHand, IsGame, Fields

LEMMA CloseStreetSame ==
  ASSUME NEW g, IsGame(g)
  PROVE  IsGame(CloseStreet(g)) /\ CloseStreet(g).hand = g.hand
<1> DEFINE d    == Collect(g)
           c    == [d EXCEPT !.pot = PotShown(g)]
           next == NextStreet[g.street]
           a    == FirstActiveAfter(g, g.button)
<1>1. IsGame(d) /\ d.hand = g.hand
  BY CollectSame
<1> HIDE DEF d
<1>2. IsGame(c) /\ c.hand = g.hand
  BY <1>1 DEF IsGame, Fields
<1> USE DEF d
<1>3. CloseStreet(g) = IF next = "Showdown"
                       THEN [c EXCEPT !.street = next]
                       ELSE [c EXCEPT !.street = next, !.board = CardsOut[next],
                                      !.toAct = a, !.raiser = a]
  BY DEF CloseStreet
<1> HIDE DEF c, d, next, a
<1> QED
  BY <1>2, <1>3 DEF IsGame, Fields

LEMMA PlaySame ==
  ASSUME NEW g, IsGame(g), NEW i, NEW a \in Actions
  PROVE  IsGame(Play(g, i, a)) /\ Play(g, i, a).hand = g.hand
<1>1. CASE a = "Fold"
  BY <1>1 DEF Play, IsGame, Fields
<1>2. CASE a = "CheckCall"
  BY <1>2, WagerSame DEF Play
<1>3. CASE a = "Raise"
  <2> DEFINE w == Wager(g, i, ToCall(g, i) + BigBlind)
  <2>1. IsGame(w) /\ w.hand = g.hand
    BY WagerSame
  <2>2. Play(g, i, a) = [w EXCEPT !.raiser = i]
    BY <1>3 DEF Play
  <2> HIDE DEF w
  <2> QED
    BY <2>1, <2>2 DEF IsGame, Fields
<1>4. CASE a = "AllIn"
  <2> DEFINE w == Wager(g, i, g.chips[i])
  <2>1. IsGame(w) /\ w.hand = g.hand
    BY WagerSame
  <2>2. Play(g, i, a) = IF ToCall(w, i) = 0 /\ w.bet[i] > 0
                        THEN [w EXCEPT !.raiser = i] ELSE w
    BY <1>4 DEF Play
  <2> HIDE DEF w
  <2> QED
    BY <2>1, <2>2 DEF IsGame, Fields
<1> QED
  BY <1>1, <1>2, <1>3, <1>4 DEF Actions

LEMMA AfterActionSame ==
  ASSUME NEW g, IsGame(g)
  PROVE  IsGame(AfterAction(g)) /\ AfterAction(g).hand = g.hand
<1> DEFINE c == FirstActiveAfter(g, g.toAct)
<1>1. CASE Cardinality(Live(g)) <= 1
  BY <1>1, EndByFoldSame DEF AfterAction, SameHand
<1>2. CASE ~(Cardinality(Live(g)) <= 1) /\ (CanAct(g) = {} \/ (c = g.raiser /\ ToCall(g, c) = 0))
  BY <1>2, CloseStreetSame DEF AfterAction
<1>3. CASE ~(Cardinality(Live(g)) <= 1) /\ ~(CanAct(g) = {} \/ (c = g.raiser /\ ToCall(g, c) = 0))
  <2>1. AfterAction(g) = [g EXCEPT !.toAct = c]
    BY <1>3 DEF AfterAction
  <2> HIDE DEF c
  <2> QED
    BY <2>1 DEF IsGame, Fields
<1> QED
  BY <1>1, <1>2, <1>3

LEMMA PlayerActionSame ==
  ASSUME NEW g, IsGame(g), NEW i, NEW a \in Actions,
         NEW r \in PlayerAction(g, i, a)
  PROVE  IsGame(r) /\ r.hand = g.hand
<1> DEFINE p == Play(g, i, a)
           q == AfterAction(p)
<1>1. IsGame(q) /\ q.hand = g.hand
  BY PlaySame, AfterActionSame
<1>2. r = q \/ \E str \in [Seats -> Strengths] : r = ResolveShowdown(q, str)
  BY DEF PlayerAction
<1> HIDE DEF p, q
<1> QED
  BY <1>1, <1>2, ResolveShowdownSame DEF SameHand

LEMMA StandSame ==
  ASSUME NEW g, IsGame(g), NEW i
  PROVE  SameHand(g, Stand(g, i))
<1> DEFINE gone == [g EXCEPT !.user[i] = NoUser, !.chips[i] = 0, !.bet[i] = 0,
                             !.com[i] = 0, !.folded[i] = FALSE,
                             !.allin[i] = FALSE, !.dealt[i] = FALSE]
           next == IF g.toAct = i THEN AdvanceAction(gone) ELSE gone
<1>1. IsGame(gone) /\ gone.hand = g.hand /\ gone.street = g.street
  <2>1. g = [f \in Fields |-> g[f]]
    BY DEF IsGame
  <2>2. gone.hand = g.hand /\ gone.street = g.street
    BY <2>1 DEF Fields
  <2>3. gone = [f \in Fields |-> gone[f]]
    BY <2>1
  <2> QED
    BY <2>2, <2>3 DEF IsGame
<1>2. Stand(g, i) = IF g.street = "Ended" THEN gone
                    ELSE IF Cardinality(Live(next)) <= 1 THEN EndByFold(next) ELSE next
  BY DEF Stand
<1> HIDE DEF gone
<1>3. IsGame(AdvanceAction(gone)) /\ AdvanceAction(gone).hand = g.hand
  BY <1>1 DEF AdvanceAction, IsGame, Fields
<1>4. IsGame(next) /\ next.hand = g.hand
  BY <1>1, <1>3
<1> HIDE DEF next
<1> QED
  BY <1>1, <1>2, <1>4, EndByFoldSame DEF SameHand
-----------------------------------------------------------------------------
(* The inductive invariant.                                                *)

SettledInv ==
  /\ IsGame(game)
  /\ settled \in Seq(Nat)
  /\ \A k \in DOMAIN settled : settled[k] <= game.hand
  /\ Running => \A k \in DOMAIN settled : settled[k] < game.hand
  /\ SettledOncePerHand

LEMMA NewGameIsGame == IsGame(NewGame) /\ NewGame.hand = 0
BY DEF IsGame, Fields, NewGame

LEMMA RestoredIsGame ==
  ASSUME NEW s, s.hand \in Nat
  PROVE  IsGame(RestoreFromSnapshot(s)) /\ RestoreFromSnapshot(s).hand = s.hand
BY DEF RestoreFromSnapshot, NewGame, IsGame, Fields

LEMMA SettledInit == Init => SettledInv
<1> SUFFICES ASSUME Init PROVE SettledInv
  OBVIOUS
<1>1. IsGame(game) /\ settled = <<>>
  BY NewGameIsGame DEF Init
<1> QED
  BY <1>1 DEF SettledInv, SettledOncePerHand, Running

LEMMA SettledRestoredInit == RestoredInit => SettledInv
<1> SUFFICES ASSUME RestoredInit PROVE SettledInv
  OBVIOUS
<1>1. settled = <<>> /\ game \in RestoredTables
  BY DEF RestoredInit
<1>2. PICK s \in Snapshots : game = RestoreFromSnapshot(s)
  BY <1>1 DEF RestoredTables
<1>3. s.hand \in Nat
  BY DEF Snapshots
<1>4. IsGame(game)
  BY <1>2, <1>3, RestoredIsGame
<1> QED
  BY <1>1, <1>4 DEF SettledInv, SettledOncePerHand, Running

\* Nothing is settled and the hand number does not fall: the sequence stays
\* below it, and strictly so once a new hand is dealt.
LEMMA UnsettledStep ==
  ASSUME SettledInv, settled' = settled, IsGame(game'),
         \/ game'.hand = game.hand /\ (~Running => ~Running')
         \/ game'.hand = game.hand + 1
  PROVE  SettledInv'
<1>1. game.hand \in Nat /\ game'.hand \in Nat
  BY DEF SettledInv, IsGame
<1>2. \A k \in DOMAIN settled : settled[k] \in Nat
  BY DEF SettledInv
<1>3. SettledOncePerHand'
  BY DEF SettledInv, SettledOncePerHand
<1>4. CASE game'.hand = game.hand /\ (~Running => ~Running')
  BY <1>1, <1>2, <1>3, <1>4 DEF SettledInv
<1>5. CASE game'.hand = game.hand + 1
  BY <1>1, <1>2, <1>3, <1>5 DEF SettledInv
<1> QED
  BY <1>4, <1>5

LEMMA SettledNext == SettledInv /\ [Next]_vars => SettledInv'
<1> SUFFICES ASSUME SettledInv, [Next]_vars PROVE SettledInv'
  OBVIOUS
<1> USE DEF SettledInv
<1>1. ASSUME NEW u \in Users, NEW i \in Seats, NEW c \in BuyIns, SitCmd(u, i, c)
      PROVE  SettledInv'
  <2> DEFINE s == Sit(game, i, u, c)
  <2>1. game' = MaybeStart(s) /\ settled' = settled
    BY <1>1 DEF SitCmd
  <2>2. SameHand(game, s)
    BY SitSame
  <2>3. IsGame(game') /\ (game' = s \/ game'.hand = game.hand + 1)
    BY <2>1, <2>2, MaybeStartSame DEF SameHand
  <2> QED
    BY <2>1, <2>2, <2>3, UnsettledStep DEF SameHand, Running
<1>2. ASSUME NEW u \in Users, StandCmd(u)
      PROVE  SettledInv'
  <2>1. settled' = settled /\ game' = Stand(game, Min(Seated(u)))
    BY <1>2 DEF StandCmd
  <2>2. SameHand(game, game')
    BY <2>1, StandSame
  <2> QED
    BY <2>1, <2>2, UnsettledStep DEF SameHand, Running
<1>3. ASSUME NEW u \in Users, NEW a \in Actions, ActionCmd(u, a)
      PROVE  SettledInv'
  <2> DEFINE i == Min(Seated(u))
  <2>1. game' \in PlayerAction(game, i, a) /\ Running
    BY <1>3 DEF ActionCmd, IsLegal, Running
  <2>2. IsGame(game') /\ game'.hand = game.hand
    BY <2>1, PlayerActionSame
  <2>3. CASE game'.street # "Ended"
    <3>1. settled' = settled
      BY <1>3, <2>3 DEF ActionCmd
    <3> QED
      BY <2>1, <2>2, <3>1, UnsettledStep
  <2>4. CASE game'.street = "Ended"
    <3>1. settled' = Append(settled, game.hand)
      BY <1>3, <2>4 DEF ActionCmd
    <3>2. game.hand \in Nat
      BY DEF IsGame
    <3>3. /\ settled' \in Seq(Nat)
          /\ DOMAIN settled = 1 .. Len(settled)
          /\ DOMAIN settled' = 1 .. Len(settled) + 1
          /\ Len(settled) \in Nat
          /\ \A k \in DOMAIN settled : settled'[k] = settled[k]
          /\ settled'[Len(settled) + 1] = game.hand
      BY <3>1, <3>2
    <3>4. \A k \in DOMAIN settled : settled[k] < game.hand
      BY <2>1
    <3>5. \A k \in DOMAIN settled' : k \in DOMAIN settled \/ k = Len(settled) + 1
      BY <3>3
    <3>6. SettledOncePerHand'
      <4> SUFFICES ASSUME NEW k \in DOMAIN settled', NEW l \in DOMAIN settled', k < l
                   PROVE  settled'[k] < settled'[l]
        BY DEF SettledOncePerHand
      <4>1. k \in DOMAIN settled
        BY <3>3
      <4>2. CASE l \in DOMAIN settled
        BY <3>3, <4>1, <4>2 DEF SettledOncePerHand
      <4>3. CASE l = Len(settled) + 1
        BY <3>3, <3>4, <4>1, <4>3
      <4> QED
        BY <3>5, <4>2, <4>3
    <3>7. \A k \in DOMAIN settled' : settled'[k] <= game'.hand
      <4> SUFFICES ASSUME NEW k \in DOMAIN settled'
                   PROVE  settled'[k] <= game.hand
        BY <2>2
      <4>1. CASE k \in DOMAIN settled
        BY <3>3, <4>1
      <4>2. CASE k = Len(settled) + 1
        BY <3>2, <3>3, <4>2
      <4> QED
        BY <3>5, <4>1, <4>2
    <3>8. ~Running'
      BY <2>4 DEF Running
    <3> QED
      BY <2>2, <3>3, <3>6, <3>7, <3>8
  <2> QED
    BY <2>3, <2>4
<1>4. CASE StartHandCmd
  <2>1. settled' = settled /\ (game' = game \/ game' = StartHand(game))
    BY <1>4 DEF StartHandCmd
  <2>2. IsGame(game') /\ (game' = game \/ game'.hand = game.hand + 1)
    BY <2>1, StartHandNext
  <2> QED
    BY <2>1, <2>2, UnsettledStep DEF Running
<1>5. CASE UNCHANGED vars
  <2>1. game' = game /\ settled' = settled
    BY <1>5 DEF vars
  <2> QED
    BY <2>1, UnsettledStep DEF Running
<1> QED
  BY <1>1, <1>2, <1>3, <1>4, <1>5 DEF Next

-----------------------------------------------------------------------------
\* Whatever the players and the delayed StartHand commands do, at a new table
\* (coordinator.go handleEnd, engine.go StartHand) no hand is settled twice
\* and the settlements come in the order the hands were dealt.
THEOREM SettledOnce == Spec => []SettledOncePerHand
<1>1. SettledInv => SettledOncePerHand
  BY DEF SettledInv
<1> QED
  BY <1>1, SettledInit, SettledNext, PTL DEF Spec

\* The same for a table that came back from a restart (registry.go Restore).
THEOREM SettledOnceRestored == RestoredSpec => []SettledOncePerHand
<1>1. SettledInv => SettledOncePerHand
  BY DEF SettledInv
<1> QED
  BY <1>1, SettledRestoredInit, SettledNext, PTL DEF RestoredSpec

-----------------------------------------------------------------------------
(* Who is to act.  The proof of ActorPresent needs the order of the seats   *)
(* and, of the game, the seats' users, the button, toAct and the street.    *)

\* A non-empty set of naturals has the minimum that Min chooses.
LEMMA MinIsMember ==
  ASSUME NEW S, S \subseteq Nat, S # {}
  PROVE  Min(S) \in S
<1>1. IsWellFoundedOn(OpToRel(<, Nat), Nat)
  BY NatLessThanWellFounded
<1>2. PICK x \in S : \A y \in S : ~(<<y, x>> \in OpToRel(<, Nat))
  BY <1>1, WFMin
<1>3. ASSUME NEW y \in S
      PROVE  x =< y
  <2>1. x \in Nat /\ y \in Nat /\ <<y, x>> \in Nat \X Nat
    OBVIOUS
  <2>2. <<y, x>>[1] = y /\ <<y, x>>[2] = x
    OBVIOUS
  <2>3. ~(y < x)
    BY <1>2, <2>1, <2>2, Zenon DEF OpToRel
  <2> QED
    BY <2>1, <2>3
<1> QED
  BY <1>3 DEF Min

\* Walking clockwise from a seat, the first seat met of a set is in that set
\* (engine.go nextOccupied, firstActiveAfter).
LEMMA NextInIsMember ==
  ASSUME NEW S, S \subseteq Seats, S # {}, NEW from \in Seats
  PROVE  NextIn(S, from) \in S
<1> DEFINE steps == {k \in 1..N : (from + k) % N \in S}
<1>1. N \in Nat /\ N > 0 /\ from \in 0 .. N - 1
  BY SeatAssumption DEF Seats
<1>2. PICK s : s \in S
  OBVIOUS
<1>3. s \in 0 .. N - 1
  BY <1>2 DEF Seats
<1>4. steps # {}
  <2>1. CASE s > from
    <3>1. s - from \in 1..N /\ from + (s - from) = s /\ s % N = s
      BY <1>1, <1>3, <2>1
    <3> QED
      BY <1>2, <3>1
  <2>2. CASE s <= from
    <3>1. s - from + N \in 1..N /\ from + (s - from + N) = s + N
      BY <1>1, <1>3, <2>2
    <3>2. (s + N) % N = s
      BY <1>1, <1>3
    <3> QED
      BY <1>2, <3>1, <3>2
  <2> QED
    BY <1>1, <1>3, <2>1, <2>2
<1>5. steps \subseteq Nat
  BY <1>1
<1>6. Min(steps) \in steps
  BY <1>4, <1>5, MinIsMember
<1>7. NextIn(S, from) = (from + Min(steps)) % N
  BY <1>4 DEF NextIn
<1> QED
  BY <1>6, <1>7

SeatsFilled(g) == g.user \in [Seats -> Users \union {NoUser}] /\ g.button \in Seats

\* Button and turn are with players.
Manned(g) == g.button \in Occupied(g) /\ g.toAct \in Occupied(g)

\* What the operators of the engine that only move chips leave alone.
SamePositions(g, r) ==
  /\ IsGame(r)
  /\ r.user = g.user /\ r.button = g.button
  /\ r.toAct = g.toAct /\ r.street = g.street

LEMMA NextOccupiedSits ==
  ASSUME NEW g, NEW from \in Seats, Occupied(g) # {}
  PROVE  NextOccupied(g, from) \in Occupied(g)
<1>1. Occupied(g) \subseteq Seats
  BY DEF Occupied
<1> QED
  BY <1>1, NextInIsMember DEF NextOccupied

LEMMA FirstActiveSits ==
  ASSUME NEW g, NEW from \in Occupied(g)
  PROVE  FirstActiveAfter(g, from) \in Occupied(g)
<1>1. Occupied(g) \subseteq Seats /\ CanAct(g) \subseteq Occupied(g)
  BY DEF Occupied, Live, CanAct
<1>2. CASE CanAct(g) = {}
  BY <1>2 DEF FirstActiveAfter, NextIn
<1>3. CASE CanAct(g) # {}
  BY <1>1, <1>3, NextInIsMember DEF FirstActiveAfter
<1> QED
  BY <1>2, <1>3

LEMMA WagerPositions ==
  ASSUME NEW g, IsGame(g), NEW i, NEW want
  PROVE  SamePositions(g, Wager(g, i, want))
BY DEF IsGame, Fields, Wager, SamePositions

\* StartHand moves the button and gives the turn to players at the table.
LEMMA StartHandManned ==
  ASSUME NEW g, IsGame(g), g.button \in Seats, CanStart(g)
  PROVE  LET r == StartHand(g)
         IN  r.user = g.user /\ r.street = "Preflop" /\ Manned(r)
<1> DEFINE headsUp == Cardinality(Occupied(g)) = 2
           button  == NextOccupied(g, g.button)
           sb      == IF headsUp THEN button ELSE NextOccupied(g, button)
           bb      == NextOccupied(g, sb)
           toAct   == IF headsUp THEN sb ELSE NextOccupied(g, bb)
           fresh   == [g EXCEPT !.bet = Zero, !.com = Zero, !.folded = None,
                           !.allin = None, !.paid = Zero, !.pot = 0,
                           !.hand = @ + 1, !.board = 0, !.button = button,
                           !.dealt = [i \in Seats |-> i \in Occupied(g)],
                           !.street = "Preflop", !.raiser = bb,
                           !.toAct = toAct]
           one     == Wager(fresh, sb, SmallBlind)
           two     == Wager(one, bb, BigBlind)
<1>1. StartHand(g) = two
  BY DEF StartHand, PostBlind
<1>2. Occupied(g) # {} /\ Occupied(g) \subseteq Seats
  BY FS_EmptySet DEF CanStart, Occupied
<1>3. button \in Occupied(g)
  BY <1>2, NextOccupiedSits
<1>4. sb \in Occupied(g)
  BY <1>2, <1>3, NextOccupiedSits
<1>5. bb \in Occupied(g)
  BY <1>2, <1>4, NextOccupiedSits
<1>6. toAct \in Occupied(g)
  BY <1>2, <1>4, <1>5, NextOccupiedSits
<1> HIDE DEF headsUp, button, sb, bb, toAct
<1>7. IsGame(fresh)
  <2>1. g = [f \in Fields |-> g[f]] /\ g.hand \in Nat
    BY DEF IsGame
  <2>2. fresh.hand = g.hand + 1
    BY <2>1 DEF Fields
  <2>3. fresh = [f \in Fields |-> fresh[f]]
    BY <2>1
  <2> HIDE DEF fresh
  <2> QED
    BY <2>1, <2>2, <2>3 DEF IsGame
<1>8. /\ fresh.user = g.user /\ fresh.street = "Preflop"
      /\ fresh.button = button /\ fresh.toAct = toAct
  BY DEF IsGame, Fields
<1> HIDE DEF fresh
<1>9. SamePositions(fresh, one)
  BY <1>7, WagerPositions
<1> HIDE DEF one
<1>10. SamePositions(one, two)
  BY <1>9, WagerPositions DEF SamePositions
<1> HIDE DEF two
<1>11. /\ two.user = g.user /\ two.street = "Preflop"
       /\ two.button = button /\ two.toAct = toAct
  BY <1>8, <1>9, <1>10 DEF SamePositions
<1> QED
  BY <1>1, <1>3, <1>6, <1>11 DEF Manned, Occupied

LEMMA CollectPositions ==
  ASSUME NEW g, IsGame(g)
  PROVE  SamePositions(g, Collect(g))
BY DEF IsGame, Fields, Collect, SamePositions

LEMMA PlayPositions ==
  ASSUME NEW g, IsGame(g), NEW i, NEW a \in Actions
  PROVE  SamePositions(g, Play(g, i, a))
<1>1. CASE a = "Fold"
  BY <1>1 DEF Play, SamePositions, IsGame, Fields
<1>2. CASE a = "CheckCall"
  BY <1>2, WagerPositions DEF Play, SamePositions
<1>3. CASE a = "Raise"
  <2> DEFINE w == Wager(g, i, ToCall(g, i) + BigBlind)
  <2>1. SamePositions(g, w)
    BY WagerPositions
  <2>2. Play(g, i, a) = [w EXCEPT !.raiser = i]
    BY <1>3 DEF Play
  <2> HIDE DEF w
  <2> QED
    BY <2>1, <2>2 DEF SamePositions, IsGame, Fields
<1>4. CASE a = "AllIn"
  <2> DEFINE w == Wager(g, i, g.chips[i])
  <2>1. SamePositions(g, w)
    BY WagerPositions
  <2>2. Play(g, i, a) = IF ToCall(w, i) = 0 /\ w.bet[i] > 0
                        THEN [w EXCEPT !.raiser = i] ELSE w
    BY <1>4 DEF Play
  <2> HIDE DEF w
  <2> QED
    BY <2>1, <2>2 DEF SamePositions, IsGame, Fields
<1> QED
  BY <1>1, <1>2, <1>3, <1>4 DEF Actions

\* Both ways a hand ends leave everybody in his seat.
LEMMA EndByFoldSeats ==
  ASSUME NEW g, IsGame(g)
  PROVE  LET r == EndByFold(g)
         IN  r.user = g.user /\ r.button = g.button /\ r.street = "Ended"
<1>1. CASE Live(g) = {}
  BY <1>1 DEF EndByFold, IsGame, Fields
<1>2. CASE Live(g) # {}
  <2> DEFINE c == Collect(g)
             w == Min(Live(g))
  <2>1. EndByFold(g) = [c EXCEPT !.chips[w] = @ + PotShown(g),
                                 !.paid[w]  = PotShown(g),
                                 !.pot      = 0,
                                 !.street   = "Ended"]
    BY <1>2 DEF EndByFold
  <2>2. SamePositions(g, c)
    BY CollectPositions
  <2> HIDE DEF c, w
  <2> QED
    BY <2>1, <2>2 DEF SamePositions, IsGame, Fields
<1> QED
  BY <1>1, <1>2

LEMMA ResolveShowdownSeats ==
  ASSUME NEW g, IsGame(g), NEW str
  PROVE  LET r == ResolveShowdown(g, str)
         IN  r.user = g.user /\ r.button = g.button /\ r.street = "Ended"
<1> DEFINE won == Winnings(g, str)
<1>1. ResolveShowdown(g, str) =
        [g EXCEPT !.chips  = [i \in Seats |-> @[i] + won[i]],
                  !.paid   = [i \in Seats |-> IF won[i] > 0 THEN won[i] ELSE @[i]],
                  !.pot    = 0,
                  !.street = "Ended"]
  BY DEF ResolveShowdown
<1> HIDE DEF won
<1> QED
  BY <1>1 DEF IsGame, Fields

\* A street that closes gives the turn to a player at the table.
LEMMA CloseStreetManned ==
  ASSUME NEW g, IsGame(g), Manned(g), g.street \in DOMAIN NextStreet
  PROVE  LET r == CloseStreet(g)
         IN  /\ r.user = g.user /\ r.button = g.button
             /\ r.street \in {"Flop", "Turn", "River", "Showdown"}
             /\ Manned(r)
<1> DEFINE d    == Collect(g)
           c    == [d EXCEPT !.pot = PotShown(g)]
           next == NextStreet[g.street]
           a    == FirstActiveAfter(g, g.button)
<1>1. SamePositions(g, d)
  BY CollectPositions
<1> HIDE DEF d
<1>2. SamePositions(g, c)
  BY <1>1 DEF SamePositions, IsGame, Fields
<1> USE DEF d
<1>3. CloseStreet(g) = IF next = "Showdown"
                       THEN [c EXCEPT !.street = next]
                       ELSE [c EXCEPT !.street = next, !.board = CardsOut[next],
                                      !.toAct = a, !.raiser = a]
  BY DEF CloseStreet
<1>4. next \in {"Flop", "Turn", "River", "Showdown"}
  BY DEF NextStreet
<1>5. a \in Occupied(g)
  BY FirstActiveSits DEF Manned
<1> HIDE DEF c, d, next, a
<1>6. /\ CloseStreet(g).user = g.user /\ CloseStreet(g).button = g.button
      /\ CloseStreet(g).street = next
      /\ CloseStreet(g).toAct \in {g.toAct, a}
  BY <1>2, <1>3 DEF SamePositions, IsGame, Fields
<1> QED
  BY <1>4, <1>5, <1>6 DEF Manned, Occupied

LEMMA AfterActionManned ==
  ASSUME NEW g, IsGame(g), Manned(g), g.street \in DOMAIN NextStreet
  PROVE  LET r == AfterAction(g)
         IN  /\ r.user = g.user /\ r.button = g.button
             /\ r.street \in Streets
             /\ r.street # "Ended" => Manned(r)
<1> DEFINE c == FirstActiveAfter(g, g.toAct)
<1>1. CASE Cardinality(Live(g)) <= 1
  BY <1>1, EndByFoldSeats DEF AfterAction, Streets
<1>2. CASE ~(Cardinality(Live(g)) <= 1) /\ (CanAct(g) = {} \/ (c = g.raiser /\ ToCall(g, c) = 0))
  <2>1. AfterAction(g) = CloseStreet(g)
    BY <1>2 DEF AfterAction
  <2> QED
    BY <2>1, CloseStreetManned DEF Streets
<1>3. CASE ~(Cardinality(Live(g)) <= 1) /\ ~(CanAct(g) = {} \/ (c = g.raiser /\ ToCall(g, c) = 0))
  <2>1. AfterAction(g) = [g EXCEPT !.toAct = c]
    BY <1>3 DEF AfterAction
  <2>2. c \in Occupied(g)
    BY FirstActiveSits DEF Manned
  <2>3. g.street \in Streets
    BY DEF NextStreet, Streets
  <2> HIDE DEF c
  <2>4. /\ AfterAction(g).user = g.user /\ AfterAction(g).button = g.button
        /\ AfterAction(g).street = g.street /\ AfterAction(g).toAct = c
    BY <2>1 DEF IsGame, Fields
  <2> QED
    BY <2>2, <2>3, <2>4 DEF Manned, Occupied
<1> QED
  BY <1>1, <1>2, <1>3

\* PlayerAction never leaves the game at the showdown it resolves.
LEMMA PlayerActionManned ==
  ASSUME NEW g, IsGame(g), Manned(g), g.street \in DOMAIN NextStreet,
         NEW i, NEW a \in Actions, NEW r \in PlayerAction(g, i, a)
  PROVE  /\ r.user = g.user /\ r.button = g.button
         /\ r.street \in Streets \ {"Showdown"}
         /\ r.street # "Ended" => Manned(r)
<1> DEFINE p == Play(g, i, a)
           q == AfterAction(p)
<1>1. SamePositions(g, p)
  BY PlayPositions
<1>2. IsGame(p) /\ Manned(p) /\ p.street \in DOMAIN NextStreet
  BY <1>1 DEF SamePositions, Manned, Occupied
<1>3. IsGame(q)
  BY PlaySame, AfterActionSame
<1>4. /\ q.user = p.user /\ q.button = p.button
      /\ q.street \in Streets
      /\ q.street # "Ended" => Manned(q)
  BY <1>2, AfterActionManned
<1>5. \/ r = q /\ q.street # "Showdown"
      \/ \E str \in [Seats -> Strengths] : r = ResolveShowdown(q, str)
  BY DEF PlayerAction
<1> HIDE DEF p, q
<1>6. CASE r = q /\ q.street # "Showdown"
  BY <1>1, <1>4, <1>6 DEF SamePositions
<1>7. CASE \E str \in [Seats -> Strengths] : r = ResolveShowdown(q, str)
  BY <1>1, <1>3, <1>4, <1>7, ResolveShowdownSeats DEF SamePositions, Streets
<1> QED
  BY <1>5, <1>6, <1>7

\* Standing up between two hands empties a seat and starts nothing.
LEMMA StandBetweenHands ==
  ASSUME NEW g, IsGame(g), SeatsFilled(g), g.street = "Ended", NEW i
  PROVE  LET r == Stand(g, i)
         IN  SeatsFilled(r) /\ r.street = "Ended"
<1> DEFINE gone == [g EXCEPT !.user[i] = NoUser, !.chips[i] = 0, !.bet[i] = 0,
                             !.com[i] = 0, !.folded[i] = FALSE,
                             !.allin[i] = FALSE, !.dealt[i] = FALSE]
<1>1. g = [f \in Fields |-> g[f]]
  BY DEF IsGame
<1>2. gone.user = [g.user EXCEPT ![i] = NoUser]
  BY <1>1 DEF Fields
<1>3. gone.button = g.button /\ gone.street = g.street
  BY <1>1 DEF Fields
<1>4. Stand(g, i) = gone
  BY DEF Stand
<1> HIDE DEF gone
<1> QED
  BY <1>2, <1>3, <1>4 DEF SeatsFilled

\* Sitting down empties no seat.
LEMMA SitFills ==
  ASSUME NEW g, IsGame(g), SeatsFilled(g),
         NEW u \in Users, NEW i \in Seats, NEW c
  PROVE  LET r == Sit(g, i, u, c)
         IN  /\ SeatsFilled(r) /\ r.street = g.street
             /\ Manned(g) => Manned(r)
<1> DEFINE r == Sit(g, i, u, c)
<1>1. g = [f \in Fields |-> g[f]]
  BY DEF IsGame
<1>2. r.user = [g.user EXCEPT ![i] = u]
  BY <1>1 DEF Fields, Sit
<1>3. r.button = g.button /\ r.street = g.street /\ r.toAct = g.toAct
  BY <1>1 DEF Fields, Sit
<1> HIDE DEF r
<1>4. SeatsFilled(r)
  BY <1>2, <1>3 DEF SeatsFilled
<1>5. Occupied(g) \subseteq Occupied(r)
  BY <1>2, UserAssumption DEF Occupied, SeatsFilled
<1> USE DEF r
<1> QED
  BY <1>3, <1>4, <1>5 DEF Manned
-----------------------------------------------------------------------------
(* The inductive invariant of ActorPresent: nobody stands up in the middle  *)
(* of a hand (coordinator.go lets him; StandInHand = FALSE is the           *)
(* hypothesis), players join at any time.                                   *)

ActorInv ==
  /\ IsGame(game)
  /\ SeatsFilled(game)
  /\ game.street \in Streets \ {"Showdown"}
  /\ Running => Manned(game)

LEMMA ActorInit == Init => ActorInv
<1>1. NewGame.user = [i \in Seats |-> NoUser] /\ NewGame.button = 0
      /\ NewGame.street = "Ended"
  BY DEF NewGame
<1>2. 0 \in Seats
  BY SeatAssumption DEF Seats
<1> QED
  BY <1>1, <1>2, NewGameIsGame DEF Init, ActorInv, SeatsFilled, Streets, Running

LEMMA ActorRestoredInit == RestoredInit => ActorInv
<1> SUFFICES ASSUME RestoredInit PROVE ActorInv
  OBVIOUS
<1>1. PICK s \in Snapshots : game = RestoreFromSnapshot(s)
  BY DEF RestoredInit, RestoredTables
<1>2. s.hand \in Nat /\ s.button \in Seats /\ s.user \in [Seats -> Users \union {NoUser}]
  BY DEF Snapshots
<1>3. IsGame(game)
  BY <1>1, <1>2, RestoredIsGame
<1>4. /\ game.button = s.button /\ game.street = "Ended"
      /\ game.user = [i \in Seats |-> IF s.user[i] # NoUser /\ s.chips[i] > 0
                                       THEN s.user[i] ELSE NoUser]
  BY <1>1 DEF RestoreFromSnapshot, NewGame
<1> QED
  BY <1>2, <1>3, <1>4 DEF ActorInv, SeatsFilled, Streets, Running

LEMMA MaybeStartManned ==
  ASSUME NEW g, IsGame(g), SeatsFilled(g), g.street \in Streets \ {"Showdown"},
         g.street # "Ended" => Manned(g)
  PROVE  LET r == MaybeStart(g)
         IN  /\ IsGame(r) /\ SeatsFilled(r)
             /\ r.street \in Streets \ {"Showdown"}
             /\ r.street # "Ended" => Manned(r)
<1>1. CASE g.street = "Ended" /\ CanStart(g)
  <2>1. MaybeStart(g) = StartHand(g)
    BY <1>1 DEF MaybeStart
  <2>2. g.button \in Seats
    BY DEF SeatsFilled
  <2>3. IsGame(StartHand(g))
    BY StartHandNext
  <2> QED
    BY <1>1, <2>1, <2>2, <2>3, StartHandManned DEF SeatsFilled, Streets, Manned, Occupied
<1>2. CASE ~(g.street = "Ended" /\ CanStart(g))
  BY <1>2 DEF MaybeStart
<1> QED
  BY <1>1, <1>2

LEMMA ActorNext ==
  ASSUME ~StandInHand, ActorInv, [Next]_vars
  PROVE  ActorInv'
<1> USE DEF ActorInv
<1>1. ASSUME NEW u \in Users, NEW i \in Seats, NEW c \in BuyIns, SitCmd(u, i, c)
      PROVE  ActorInv'
  <2> DEFINE s == Sit(game, i, u, c)
  <2>1. game' = MaybeStart(s)
    BY <1>1 DEF SitCmd
  <2>2. IsGame(s)
    BY SitSame DEF SameHand
  <2>3. SeatsFilled(s) /\ s.street = game.street /\ (Running => Manned(s))
    BY SitFills
  <2> HIDE DEF s
  <2> QED
    BY <2>1, <2>2, <2>3, MaybeStartManned DEF Running
<1>2. ASSUME NEW u \in Users, StandCmd(u)
      PROVE  ActorInv'
  <2>1. game' = Stand(game, Min(Seated(u))) /\ game.street = "Ended"
    BY <1>2 DEF StandCmd, Running
  <2>2. IsGame(game')
    BY <2>1, StandSame DEF SameHand
  <2> QED
    BY <2>1, <2>2, StandBetweenHands DEF Running, Streets
<1>3. ASSUME NEW u \in Users, NEW a \in Actions, ActionCmd(u, a)
      PROVE  ActorInv'
  <2> DEFINE i == Min(Seated(u))
  <2>1. game' \in PlayerAction(game, i, a) /\ Running
    BY <1>3 DEF ActionCmd, IsLegal, Running
  <2>2. game.street \in DOMAIN NextStreet
    BY <2>1 DEF Running, Streets, NextStreet
  <2>3. IsGame(game')
    BY <2>1, PlayerActionSame
  <2>4. /\ game'.user = game.user /\ game'.button = game.button
        /\ game'.street \in Streets \ {"Showdown"}
        /\ game'.street # "Ended" => Manned(game')
    BY <2>1, <2>2, PlayerActionManned
  <2> QED
    BY <2>3, <2>4 DEF SeatsFilled, Running
<1>4. CASE StartHandCmd
  <2>1. CASE CanStart(game)
    <3>1. game' = StartHand(game)
      BY <1>4, <2>1 DEF StartHandCmd
    <3>2. IsGame(game')
      BY <3>1, StartHandNext
    <3>3. game'.user = game.user /\ game'.street = "Preflop" /\ Manned(game')
      BY <2>1, <3>1, StartHandManned DEF SeatsFilled
    <3> QED
      BY <3>2, <3>3 DEF SeatsFilled, Streets, Manned, Occupied, Running
  <2>2. CASE ~CanStart(game)
    BY <1>4, <2>2 DEF StartHandCmd, Running
  <2> QED
    BY <2>1, <2>2
<1>5. CASE UNCHANGED vars
  BY <1>5 DEF vars, Running
<1> QED
  BY <1>1, <1>2, <1>3, <1>4, <1>5 DEF Next

\* While a hand runs the turn is with somebody at the table, for tables of any
\* size and for all blinds and stacks: StartHand, PlayerAction and the streets
\* it closes never give it to an empty seat, whether or not players sit down
\* meanwhile and the delayed StartHand deals over a running hand.  That nobody
\* stands up in a running hand is needed: Stand leaves the turn with nobody.
THEOREM SomebodyToAct == ~StandInHand => (Spec => []ActorPresent)
<1> SUFFICES ASSUME ~StandInHand PROVE Spec => []ActorPresent
  OBVIOUS
<1>1. ActorInv => ActorPresent
  BY DEF ActorInv, ActorPresent, Manned
<1>2. ActorInv /\ [Next]_vars => ActorInv'
  BY ActorNext
<1> QED
  BY <1>1, <1>2, ActorInit, PTL DEF Spec

\* The same for a table that came back from a restart, whose toAct is nobody
\* until its first hand is dealt (engine.go RestoreFromSnapshot).
THEOREM SomebodyToActRestored == ~StandInHand => (RestoredSpec => []ActorPresent)
<1> SUFFICES ASSUME ~StandInHand PROVE RestoredSpec => []ActorPresent
  OBVIOUS
<1>1. ActorInv => ActorPresent
  BY DEF ActorInv, ActorPresent, Manned
<1>2. ActorInv /\ [Next]_vars => ActorInv'
  BY ActorNext
<1> QED
  BY <1>1, <1>2, ActorRestoredInit, PTL DEF RestoredSpec

-----------------------------------------------------------------------------
(* The chips.  Every operator of the engine is shown to conserve the chips *)
(* of the table or to let some go; the showdown by what the side pots add  *)
(* up to (AwardsAddUp).                                                    *)

\* An empty seat has nothing in front of it and nothing committed.
Bare(g) == \A i \in Seats : g.user[i] = NoUser => g.com[i] = 0 /\ g.bet[i] = 0

\* The commitments are in the pot.
Covered(g) == Total(g.com) <= g.pot

\* r is g with chips moved between one stack and the bet before it.
SameButBet(g, r, i) ==
  /\ r \in Games
  /\ r.user = g.user /\ r.com = g.com /\ r.pot = g.pot /\ r.street = g.street
  /\ r.paid = g.paid /\ r.hand = g.hand /\ r.toAct = g.toAct
  /\ TableChips(r) = TableChips(g)
  /\ \A j \in Seats : j # i => r.bet[j] = g.bet[j] /\ r.chips[j] = g.chips[j]

LEMMA TotalChanged ==
  ASSUME NEW f \in [Seats -> Nat], NEW h, NEW i \in Seats, NEW d \in Int,
         \A x \in Seats : h[x] = IF x = i THEN f[x] + d ELSE f[x]
  PROVE  Total(h) = Total(f) + d
BY NatTotal, TotalIs, SumChanged

LEMMA TotalZero == Total(Zero) = 0
<1>1. \A i \in Seats : Zero[i] = IF i \in {} THEN 1 ELSE 0
  BY DEF Zero
<1>2. IsFiniteSet(Seats) /\ {} \in SUBSET Seats /\ 1 \in Nat /\ Cardinality({}) = 0 /\ 1 * 0 = 0
  BY SeatsFinite, FS_EmptySet
<1>3. SumOn(Zero, Seats) = 1 * Cardinality({})
  BY <1>1, <1>2, SumCount
<1> QED
  BY <1>2, <1>3, TotalIs

LEMMA TableChipsNat ==
  ASSUME NEW g \in Games
  PROVE  /\ TableChips(g) \in Nat
         /\ Total(g.chips) \in Nat /\ Total(g.bet) \in Nat /\ Total(g.com) \in Nat
         /\ PotShown(g) = g.pot + Total(g.bet) /\ PotShown(g) \in Nat
         /\ TableChips(g) = Total(g.chips) + g.pot + Total(g.bet)
         /\ \A i \in Seats : g.chips[i] <= Total(g.chips)
<1>1. /\ g.chips \in [Seats -> Nat] /\ g.bet \in [Seats -> Nat] /\ g.com \in [Seats -> Nat]
      /\ g.pot \in Nat
  BY DEF Games
<1> QED
  BY <1>1, NatTotal DEF TableChips, PotShown

LEMMA WagerMoves ==
  ASSUME NEW g \in Games, NEW i \in Seats, NEW want \in Nat
  PROVE  SameButBet(g, Wager(g, i, want), i)
<1> DEFINE put == IF want >= g.chips[i] THEN g.chips[i] ELSE want
           r == Wager(g, i, want)
<1>1. g.chips \in [Seats -> Nat] /\ g.bet \in [Seats -> Nat] /\ g.allin \in [Seats -> BOOLEAN]
  BY DEF Games
<1>2. put \in Nat /\ g.chips[i] - put \in Nat /\ put \in Int /\ 0 - put \in Int
  BY <1>1
<1>3. r = [g EXCEPT !.chips[i] = @ - put, !.bet[i] = @ + put,
                    !.allin[i] = @ \/ put = g.chips[i]]
  BY DEF Wager
<1> HIDE DEF put, r
<1>4. /\ r.chips = [g.chips EXCEPT ![i] = @ - put]
      /\ r.bet = [g.bet EXCEPT ![i] = @ + put]
      /\ r.allin = [g.allin EXCEPT ![i] = @ \/ put = g.chips[i]]
      /\ r.user = g.user /\ r.com = g.com /\ r.pot = g.pot /\ r.street = g.street
      /\ r.paid = g.paid /\ r.hand = g.hand /\ r.toAct = g.toAct
  BY <1>3 DEF Games
<1>5. r.chips \in [Seats -> Nat] /\ r.bet \in [Seats -> Nat] /\ r.allin \in [Seats -> BOOLEAN]
  BY <1>1, <1>2, <1>4
<1>6. r \in Games
  BY <1>3, <1>5 DEF Games
<1>7. Total(r.chips) = Total(g.chips) + (0 - put)
  <2> DEFINE f == g.chips
             h == r.chips
             d == 0 - put
  <2>1. \A x \in Seats : h[x] = IF x = i THEN f[x] + d ELSE f[x]
    BY <1>1, <1>2, <1>4
  <2>2. f \in [Seats -> Nat] /\ d \in Int
    BY <1>1, <1>2
  <2> HIDE DEF f, h, d
  <2>3. Total(h) = Total(f) + d
    BY <2>1, <2>2, TotalChanged
  <2> QED
    BY <2>3 DEF f, h, d
<1>8. Total(r.bet) = Total(g.bet) + put
  <2> DEFINE f == g.bet
             h == r.bet
             d == put
  <2>1. \A x \in Seats : h[x] = IF x = i THEN f[x] + d ELSE f[x]
    BY <1>1, <1>2, <1>4
  <2>2. f \in [Seats -> Nat] /\ d \in Int
    BY <1>1, <1>2
  <2> HIDE DEF f, h, d
  <2>3. Total(h) = Total(f) + d
    BY <2>1, <2>2, TotalChanged
  <2> QED
    BY <2>3 DEF f, h, d
<1>9. TableChips(r) = TableChips(g)
  <2>1. g.pot \in Nat
    BY DEF Games
  <2> QED
    BY <1>2, <1>4, <1>6, <1>7, <1>8, <2>1, TableChipsNat
<1>10. \A j \in Seats : j # i => r.bet[j] = g.bet[j] /\ r.chips[j] = g.chips[j]
  BY <1>1, <1>4
<1> QED
  BY <1>4, <1>6, <1>9, <1>10 DEF SameButBet, r

LEMMA ToCallNat ==
  ASSUME NEW g \in Games, NEW i \in Seats
  PROVE  ToCall(g, i) \in Nat
<1> DEFINE T == {g.bet[j] : j \in Seats}
<1>1. g.bet \in [Seats -> Nat]
  BY DEF Games
<1>2. T \in SUBSET Nat /\ T # {} /\ \A x \in T : x <= Total(g.bet)
  BY <1>1, NatTotal
<1>3. Max(T) \in Nat
  BY <1>1, <1>2, NatTotal, MaxIsGreatest
<1> QED
  BY <1>1, <1>3 DEF ToCall

\* The bets before the seats become commitments, seat by seat.
LEMMA CollectMoves ==
  ASSUME NEW g \in Games
  PROVE  LET r == Collect(g)
         IN  /\ r \in Games
             /\ r.bet = Zero
             /\ Total(r.com) = Total(g.com) + Total(g.bet)
             /\ \A i \in Seats : r.com[i] = g.com[i] + g.bet[i]
             /\ r.user = g.user /\ r.chips = g.chips /\ r.pot = g.pot /\ r.paid = g.paid
             /\ r.street = g.street /\ r.folded = g.folded /\ r.button = g.button
             /\ r.hand = g.hand
<1> DEFINE r == Collect(g)
           f == g.com
           b == g.bet
           h == r.com
<1>1. f \in [Seats -> Nat] /\ b \in [Seats -> Nat]
  BY DEF Games
<1>2. r = [g EXCEPT !.com = [i \in Seats |-> @[i] + g.bet[i]], !.bet = Zero]
  BY DEF Collect
<1> HIDE DEF r
<1>3. /\ r.com = [i \in Seats |-> g.com[i] + g.bet[i]] /\ r.bet = Zero
      /\ r.user = g.user /\ r.chips = g.chips /\ r.pot = g.pot /\ r.paid = g.paid
      /\ r.street = g.street /\ r.folded = g.folded /\ r.button = g.button /\ r.hand = g.hand
  BY <1>2 DEF Games
<1>4. r.com \in [Seats -> Nat] /\ Zero \in [Seats -> Nat]
  BY <1>1, <1>3 DEF Zero
<1>5. r \in Games
  BY <1>2, <1>3, <1>4 DEF Games
<1>6. \A i \in Seats : h[i] = f[i] + b[i]
  BY <1>3
<1>7. Total(h) = Total(f) + Total(b)
  <2> HIDE DEF f, b, h
  <2>1. Summable(f, Seats) /\ Summable(b, Seats)
    BY <1>1, NatTotal
  <2>2. SumOn(h, Seats) = SumOn(f, Seats) + SumOn(b, Seats)
    BY <1>6, <2>1, SumPlus
  <2> QED
    BY <2>2, TotalIs
<1> QED
  BY <1>3, <1>5, <1>6, <1>7 DEF r

\* The winner by fold gets what is on the table; with nobody left in the hand
\* the bets and the pot stay where they are.
LEMMA EndByFoldPays ==
  ASSUME NEW g \in Games, Bare(g)
  PROVE  LET r == EndByFold(g)
         IN  /\ r \in Games /\ r.street = "Ended" /\ Bare(r)
             /\ TableChips(r) = TableChips(g)
             /\ r.user = g.user /\ r.folded = g.folded /\ r.hand = g.hand
             /\ \A j \in Seats : r.chips[j] >= g.chips[j]
<1> DEFINE r == EndByFold(g)
<1>1. /\ g.chips \in [Seats -> Nat] /\ g.bet \in [Seats -> Nat] /\ g.com \in [Seats -> Nat]
      /\ g.paid \in [Seats -> Nat] /\ g.pot \in Nat /\ "Ended" \in Streets
  BY DEF Games, Streets
<1>2. CASE Live(g) = {}
  <2>1. r = [g EXCEPT !.street = "Ended"]
    BY <1>2 DEF EndByFold
  <2> HIDE DEF r
  <2>2. r \in Games
    BY <1>1, <2>1 DEF Games
  <2>3. /\ r.street = "Ended" /\ r.user = g.user /\ r.folded = g.folded /\ r.hand = g.hand
        /\ r.chips = g.chips /\ r.bet = g.bet /\ r.com = g.com /\ r.pot = g.pot
    BY <2>1 DEF Games
  <2>4. TableChips(r) = TableChips(g) /\ Bare(r)
    BY <2>3 DEF TableChips, PotShown, Bare
  <2> QED
    BY <1>1, <2>2, <2>3, <2>4 DEF r
<1>3. CASE Live(g) # {}
  <2> DEFINE w == Min(Live(g))
             c == Collect(g)
             p == PotShown(g)
  <2>1. r = [c EXCEPT !.chips[w] = @ + p, !.paid[w] = p, !.pot = 0, !.street = "Ended"]
    BY <1>3 DEF EndByFold
  <2>2. w \in Seats /\ g.user[w] # NoUser
    <3>1. Live(g) \subseteq Nat
      BY SeatsFinite DEF Live, Occupied
    <3>2. w \in Live(g)
      BY <1>3, <3>1, MinIsMember
    <3> QED
      BY <3>2 DEF Live, Occupied
  <2>3. p \in Nat
    BY TableChipsNat
  <2>4. /\ c \in Games /\ c.bet = Zero /\ c.user = g.user /\ c.chips = g.chips
        /\ c.paid = g.paid /\ c.folded = g.folded /\ c.hand = g.hand
        /\ \A i \in Seats : c.com[i] = g.com[i] + g.bet[i]
    BY CollectMoves
  <2> HIDE DEF r, c, w, p
  <2>5. /\ r.chips = [g.chips EXCEPT ![w] = @ + p] /\ r.paid = [g.paid EXCEPT ![w] = p]
        /\ r.pot = 0 /\ r.street = "Ended" /\ r.bet = Zero
        /\ r.user = g.user /\ r.folded = g.folded /\ r.hand = g.hand /\ r.com = c.com
    BY <2>1, <2>4 DEF Games
  <2>6. r.chips \in [Seats -> Nat] /\ r.paid \in [Seats -> Nat]
    BY <1>1, <2>2, <2>3, <2>5
  <2>7. r \in Games
    BY <1>1, <2>1, <2>4, <2>5, <2>6 DEF Games
  <2>8. Total(r.chips) = Total(g.chips) + p
    <3> DEFINE f == g.chips
               h == r.chips
    <3>1. \A x \in Seats : h[x] = IF x = w THEN f[x] + p ELSE f[x]
      BY <1>1, <2>2, <2>5
    <3>2. f \in [Seats -> Nat] /\ p \in Int
      BY <1>1, <2>3
    <3> HIDE DEF f, h
    <3>3. Total(h) = Total(f) + p
      BY <2>2, <3>1, <3>2, TotalChanged
    <3> QED
      BY <3>3 DEF f, h
  <2>9. TableChips(r) = TableChips(g)
    <3>1. PotShown(r) = 0
      BY <2>5, TotalZero DEF PotShown
    <3>2. TableChips(g) = Total(g.chips) + p
      BY DEF TableChips, p
    <3> QED
      BY <2>3, <2>7, <2>8, <3>1, <3>2, TableChipsNat DEF TableChips
  <2>10. Bare(r)
    BY <2>4, <2>5 DEF Bare, Zero
  <2>11. \A j \in Seats : r.chips[j] >= g.chips[j]
    BY <1>1, <2>2, <2>3, <2>5
  <2> QED
    BY <2>5, <2>7, <2>9, <2>10, <2>11 DEF r
<1> QED
  BY <1>2, <1>3

LEMMA NextInSeats ==
  ASSUME NEW S \in SUBSET Seats, NEW from \in Seats
  PROVE  NextIn(S, from) \in Seats
<1>1. CASE S = {}
  <2>1. {k \in 1..N : (from + k) % N \in S} = {}
    BY <1>1
  <2> QED
    BY <2>1 DEF NextIn
<1>2. CASE S # {}
  BY <1>2, NextInIsMember
<1> QED
  BY <1>1, <1>2

LEMMA FirstActiveInSeats ==
  ASSUME NEW g, NEW from \in Seats
  PROVE  FirstActiveAfter(g, from) \in Seats /\ NextOccupied(g, from) \in Seats
BY NextInSeats DEF FirstActiveAfter, NextOccupied, CanAct, Live, Occupied

Betting == {"Preflop", "Flop", "Turn", "River"}

\* The street's bets go to the pot and stay covered by it.
LEMMA CloseStreetMoves ==
  ASSUME NEW g \in Games, Bare(g), Covered(g), g.street \in Betting
  PROVE  LET r == CloseStreet(g)
         IN  /\ r \in Games /\ Bare(r) /\ Covered(r) /\ r.bet = Zero
             /\ r.street \in {"Flop", "Turn", "River", "Showdown"}
             /\ TableChips(r) = TableChips(g)
             /\ r.user = g.user /\ r.folded = g.folded /\ r.hand = g.hand
             /\ r.paid = g.paid /\ r.chips = g.chips
<1> DEFINE r == CloseStreet(g)
           d == Collect(g)
           p == PotShown(g)
           next == NextStreet[g.street]
           a == FirstActiveAfter(g, g.button)
           c == [d EXCEPT !.pot = p]
<1>1. /\ d \in Games /\ d.bet = Zero /\ d.user = g.user /\ d.chips = g.chips
      /\ d.paid = g.paid /\ d.folded = g.folded /\ d.hand = g.hand
      /\ Total(d.com) = Total(g.com) + Total(g.bet)
      /\ \A i \in Seats : d.com[i] = g.com[i] + g.bet[i]
  BY CollectMoves
<1>2. /\ p \in Nat /\ p = g.pot + Total(g.bet) /\ g.pot \in Nat
      /\ Total(g.bet) \in Nat /\ Total(g.com) \in Nat
  BY TableChipsNat DEF Games
<1>3. next \in {"Flop", "Turn", "River", "Showdown"} /\ next \in Streets
  BY DEF Betting, NextStreet, Streets
<1>4. next # "Showdown" => CardsOut[next] \in {0, 3, 4, 5}
  BY <1>3 DEF CardsOut
<1>5. a \in Seats
  BY FirstActiveInSeats DEF Games
<1>6. r = IF next = "Showdown"
          THEN [c EXCEPT !.street = next]
          ELSE [c EXCEPT !.street = next, !.board = CardsOut[next], !.toAct = a, !.raiser = a]
  BY DEF CloseStreet
<1> HIDE DEF r, d, p, next, a
<1>7. /\ c \in Games /\ c.pot = p /\ c.bet = Zero /\ c.user = g.user /\ c.chips = g.chips
      /\ c.paid = g.paid /\ c.folded = g.folded /\ c.hand = g.hand /\ c.com = d.com
  BY <1>1, <1>2 DEF Games
<1> HIDE DEF c
<1>8. /\ r.pot = p /\ r.bet = Zero /\ r.user = g.user /\ r.chips = g.chips
      /\ r.paid = g.paid /\ r.folded = g.folded /\ r.hand = g.hand /\ r.com = d.com
      /\ r.street = next
  BY <1>6, <1>7 DEF Games
<1>9. r \in Games
  <2>1. CASE next = "Showdown"
    BY <1>3, <1>6, <1>7, <2>1 DEF Games
  <2>2. CASE next # "Showdown"
    BY <1>3, <1>4, <1>5, <1>6, <1>7, <2>2 DEF Games
  <2> QED
    BY <2>1, <2>2
<1>10. TableChips(r) = TableChips(g)
  BY <1>2, <1>8, <1>9, TotalZero, TableChipsNat
<1>11. Covered(r)
  BY <1>1, <1>2, <1>8 DEF Covered
<1>12. Bare(r)
  BY <1>1, <1>8 DEF Bare, Zero
<1> QED
  BY <1>3, <1>8, <1>9, <1>10, <1>11, <1>12 DEF r

\* The showdown pays out no more than the pot, and no seat more of another's
\* commitment than it matched.
LEMMA ShowdownPays ==
  ASSUME NEW g \in Games, Bare(g), Covered(g), g.paid = Zero, NEW str
  PROVE  LET r == ResolveShowdown(g, str)
         IN  /\ r \in Games /\ Bare(r) /\ r.street = "Ended"
             /\ TableChips(r) <= TableChips(g)
             /\ \A i \in Seats : r.paid[i] <= MatchedBy(r, i)
             /\ r.user = g.user /\ r.folded = g.folded /\ r.hand = g.hand
             /\ \A j \in Seats : r.chips[j] >= g.chips[j]
<1> DEFINE r == ResolveShowdown(g, str)
           won == Winnings(g, str)
<1>1. /\ g.chips \in [Seats -> Nat] /\ g.bet \in [Seats -> Nat] /\ g.com \in [Seats -> Nat]
      /\ g.paid \in [Seats -> Nat] /\ g.pot \in Nat /\ "Ended" \in Streets
  BY DEF Games, Streets
<1>2. Committed(g) /\ g.button \in Seats
  BY DEF Committed, Bare, Games
<1>3. /\ won \in [Seats -> Nat] /\ Total(won) <= Total(g.com)
      /\ \A i \in Seats : won[i] <= MatchedBy(g, i)
  BY <1>2, WinningsBounded
<1>4. r = [g EXCEPT !.chips  = [i \in Seats |-> @[i] + won[i]],
                    !.paid   = [i \in Seats |-> IF won[i] > 0 THEN won[i] ELSE @[i]],
                    !.pot    = 0,
                    !.street = "Ended"]
  BY DEF ResolveShowdown
<1> HIDE DEF r, won
<1>5. /\ r.chips = [i \in Seats |-> g.chips[i] + won[i]]
      /\ r.paid = [i \in Seats |-> IF won[i] > 0 THEN won[i] ELSE g.paid[i]]
      /\ r.pot = 0 /\ r.street = "Ended" /\ r.bet = g.bet /\ r.com = g.com
      /\ r.user = g.user /\ r.folded = g.folded /\ r.hand = g.hand
  BY <1>4 DEF Games
<1>6. r.chips \in [Seats -> Nat] /\ r.paid \in [Seats -> Nat]
  BY <1>1, <1>3, <1>5
<1>7. r \in Games
  BY <1>1, <1>4, <1>5, <1>6 DEF Games
<1>8. Total(r.chips) = Total(g.chips) + Total(won)
  <2> DEFINE f == g.chips
             h == r.chips
  <2>1. \A i \in Seats : h[i] = f[i] + won[i]
    BY <1>5
  <2>2. Summable(f, Seats) /\ Summable(won, Seats)
    BY <1>1, <1>3, NatTotal
  <2> HIDE DEF f, h
  <2>3. SumOn(h, Seats) = SumOn(f, Seats) + SumOn(won, Seats)
    BY <2>1, <2>2, SumPlus
  <2> QED
    BY <2>3, TotalIs DEF f, h
<1>9. TableChips(r) <= TableChips(g)
  <2>1. Total(won) \in Nat
    BY <1>3, NatTotal
  <2>2. /\ TableChips(r) = Total(r.chips) + r.pot + Total(r.bet)
        /\ TableChips(g) = Total(g.chips) + g.pot + Total(g.bet)
        /\ Total(g.chips) \in Nat /\ Total(g.bet) \in Nat /\ Total(g.com) \in Nat
    BY <1>7, TableChipsNat
  <2> QED
    BY <1>1, <1>3, <1>5, <1>8, <2>1, <2>2 DEF Covered
<1>10. \A i \in Seats : r.paid[i] <= MatchedBy(r, i)
  <2>1. \A i \in Seats : r.paid[i] = won[i]
    BY <1>3, <1>5 DEF Zero
  <2>2. \A i \in Seats : MatchedBy(r, i) = MatchedBy(g, i)
    BY <1>5 DEF MatchedBy
  <2> QED
    BY <1>3, <2>1, <2>2
<1>11. Bare(r)
  BY <1>5 DEF Bare
<1>12. \A j \in Seats : r.chips[j] >= g.chips[j]
  BY <1>1, <1>3, <1>5
<1> QED
  BY <1>5, <1>7, <1>9, <1>10, <1>11, <1>12 DEF r

\* Between two commands: nothing at an empty seat, and while a hand is running
\* the commitments in the pot and nothing paid out yet.
SoundGame(g) ==
  /\ g \in Games
  /\ Bare(g)
  /\ g.street # "Showdown"
  /\ g.street # "Ended" => Covered(g) /\ g.paid = Zero

LEMMA SitAdds ==
  ASSUME NEW g, SoundGame(g), NEW i \in Seats, NEW u \in Users, NEW chips \in Nat,
         CanSit(g, i, chips)
  PROVE  LET r == Sit(g, i, u, chips)
         IN  /\ SoundGame(r)
             /\ TableChips(r) <= TableChips(g) + chips
             /\ TableChips(r) = TableChips(g) + (chips - g.chips[i])
             /\ r.street = g.street
             /\ \A j \in Seats : g.user[j] # NoUser => r.chips[j] = g.chips[j]
<1> DEFINE r == Sit(g, i, u, chips)
<1>1. /\ g.user \in [Seats -> Users \union {NoUser}]
      /\ g.chips \in [Seats -> Nat] /\ g.bet \in [Seats -> Nat] /\ g.com \in [Seats -> Nat]
      /\ g.folded \in [Seats -> BOOLEAN] /\ g.allin \in [Seats -> BOOLEAN]
      /\ g.dealt \in [Seats -> BOOLEAN] /\ g.pot \in Nat /\ g \in Games
  BY DEF SoundGame, Games
<1>2. g.user[i] = NoUser /\ g.bet[i] = 0 /\ g.com[i] = 0
  BY DEF CanSit, SoundGame, Bare
<1>3. r = [g EXCEPT !.user[i] = u, !.chips[i] = chips, !.bet[i] = 0, !.com[i] = 0,
                    !.folded[i] = FALSE, !.allin[i] = FALSE, !.dealt[i] = FALSE]
  BY DEF Sit
<1> HIDE DEF r
<1>4. /\ r.user = [g.user EXCEPT ![i] = u] /\ r.chips = [g.chips EXCEPT ![i] = chips]
      /\ r.bet = [g.bet EXCEPT ![i] = 0] /\ r.com = [g.com EXCEPT ![i] = 0]
      /\ r.folded = [g.folded EXCEPT ![i] = FALSE] /\ r.allin = [g.allin EXCEPT ![i] = FALSE]
      /\ r.dealt = [g.dealt EXCEPT ![i] = FALSE]
      /\ r.pot = g.pot /\ r.street = g.street /\ r.paid = g.paid
  BY <1>1, <1>3 DEF Games
<1>5. r.bet = g.bet /\ r.com = g.com
  BY <1>1, <1>2, <1>4
<1>6. r \in Games
  <2>1. /\ r.user \in [Seats -> Users \union {NoUser}] /\ r.chips \in [Seats -> Nat]
        /\ r.folded \in [Seats -> BOOLEAN] /\ r.allin \in [Seats -> BOOLEAN]
        /\ r.dealt \in [Seats -> BOOLEAN]
    BY <1>1, <1>4
  <2> QED
    BY <1>1, <1>3, <1>5, <2>1 DEF Games
<1>7. Total(r.chips) = Total(g.chips) + (chips - g.chips[i])
  <2> DEFINE f == g.chips
             h == r.chips
             d == chips - g.chips[i]
  <2>1. \A x \in Seats : h[x] = IF x = i THEN f[x] + d ELSE f[x]
    BY <1>1, <1>4
  <2>2. f \in [Seats -> Nat] /\ d \in Int
    BY <1>1
  <2> HIDE DEF f, h, d
  <2>3. Total(h) = Total(f) + d
    BY <2>1, <2>2, TotalChanged
  <2> QED
    BY <2>3 DEF f, h, d
<1>8. /\ TableChips(r) <= TableChips(g) + chips
      /\ TableChips(r) = TableChips(g) + (chips - g.chips[i])
  <2>1. /\ TableChips(r) = Total(r.chips) + r.pot + Total(r.bet)
        /\ TableChips(g) = Total(g.chips) + g.pot + Total(g.bet)
        /\ Total(g.chips) \in Nat /\ Total(g.bet) \in Nat
    BY <1>1, <1>6, TableChipsNat
  <2>2. g.chips[i] \in Nat
    BY <1>1
  <2> QED
    BY <1>1, <1>4, <1>5, <1>7, <2>1, <2>2
<1>9. SoundGame(r)
  <2>1. Bare(r)
    BY <1>1, <1>2, <1>4, <1>5 DEF SoundGame, Bare
  <2> QED
    BY <1>4, <1>5, <1>6, <2>1 DEF SoundGame, Covered
<1>10. \A j \in Seats : g.user[j] # NoUser => r.chips[j] = g.chips[j]
  BY <1>1, <1>2, <1>4
<1> QED
  BY <1>4, <1>8, <1>9, <1>10 DEF r

\* The blinds are the players' own chips; what the last hand left before the
\* seats or in the pot is gone.
LEMMA StartHandKeeps ==
  ASSUME NEW g, SoundGame(g), CanStart(g)
  PROVE  /\ SoundGame(StartHand(g)) /\ StartHand(g).street = "Preflop"
         /\ TableChips(StartHand(g)) <= TableChips(g)
<1> DEFINE headsUp == Cardinality(Occupied(g)) = 2
           button  == NextOccupied(g, g.button)
           sb      == IF headsUp THEN button ELSE NextOccupied(g, button)
           bb      == NextOccupied(g, sb)
           act     == IF headsUp THEN sb ELSE NextOccupied(g, bb)
           dealt   == [i \in Seats |-> i \in Occupied(g)]
           fresh   == [g EXCEPT !.bet = Zero, !.com = Zero, !.folded = None,
                           !.allin = None, !.paid = Zero, !.pot = 0,
                           !.hand = @ + 1, !.board = 0, !.button = button,
                           !.dealt = dealt,
                           !.street = "Preflop", !.raiser = bb, !.toAct = act]
           one     == Wager(fresh, sb, SmallBlind)
           two     == Wager(one, bb, BigBlind)
<1>1. StartHand(g) = two
  BY DEF StartHand, PostBlind
<1>2. g \in Games /\ g.button \in Seats /\ g.hand \in Nat
  BY DEF SoundGame, Games
<1>3. Occupied(g) # {} /\ Occupied(g) \subseteq Seats
  <2>1. Cardinality({}) = 0
    BY FS_EmptySet
  <2> QED
    BY <2>1 DEF CanStart, Occupied
<1>4. button \in Occupied(g) /\ button \in Seats
  BY <1>2, <1>3, NextOccupiedSits
<1> HIDE DEF button
<1>5. sb \in Occupied(g) /\ sb \in Seats
  BY <1>3, <1>4, NextOccupiedSits
<1> HIDE DEF sb
<1>6. bb \in Occupied(g) /\ bb \in Seats
  BY <1>3, <1>5, NextOccupiedSits
<1> HIDE DEF bb
<1>7. act \in Seats
  BY <1>3, <1>5, <1>6, NextOccupiedSits
<1>8. /\ Zero \in [Seats -> Nat] /\ None \in [Seats -> BOOLEAN]
      /\ dealt \in [Seats -> BOOLEAN] /\ g.hand + 1 \in Nat /\ "Preflop" \in Streets
  BY <1>2 DEF Zero, None, Streets
<1> HIDE DEF act, headsUp, dealt
<1>9. fresh \in Games
  BY <1>2, <1>4, <1>6, <1>7, <1>8 DEF Games
<1>10. /\ fresh.bet = Zero /\ fresh.com = Zero /\ fresh.pot = 0 /\ fresh.paid = Zero
       /\ fresh.street = "Preflop" /\ fresh.user = g.user /\ fresh.chips = g.chips
  BY <1>2 DEF Games
<1> HIDE DEF fresh
<1>11. TableChips(fresh) <= TableChips(g)
  <2>1. /\ TableChips(fresh) = Total(fresh.chips) + fresh.pot + Total(fresh.bet)
        /\ TableChips(g) = Total(g.chips) + g.pot + Total(g.bet)
        /\ Total(g.chips) \in Nat /\ Total(g.bet) \in Nat /\ g.pot \in Nat
    BY <1>2, <1>9, TableChipsNat DEF Games
  <2> QED
    BY <1>10, <2>1, TotalZero
<1>12. SmallBlind \in Nat /\ BigBlind \in Nat
  BY BlindAssumption
<1>13. SameButBet(fresh, one, sb)
  BY <1>5, <1>9, <1>12, WagerMoves
<1> HIDE DEF one
<1>14. SameButBet(one, two, bb)
  BY <1>6, <1>12, <1>13, WagerMoves DEF SameButBet
<1> HIDE DEF two
<1>15. TableChips(two) <= TableChips(g)
  BY <1>11, <1>13, <1>14 DEF SameButBet
<1>16. /\ two \in Games /\ two.user = g.user /\ two.com = Zero /\ two.pot = 0
       /\ two.street = "Preflop" /\ two.paid = Zero
  BY <1>10, <1>13, <1>14 DEF SameButBet
<1>17. Bare(two)
  <2> SUFFICES ASSUME NEW j \in Seats, two.user[j] = NoUser
               PROVE  two.com[j] = 0 /\ two.bet[j] = 0
    BY DEF Bare
  <2>1. j # sb /\ j # bb
    BY <1>5, <1>6, <1>16 DEF Occupied
  <2>2. two.bet[j] = fresh.bet[j]
    BY <1>13, <1>14, <2>1 DEF SameButBet
  <2> QED
    BY <1>10, <1>16, <2>2 DEF Zero
<1>18. Covered(two)
  BY <1>16, TotalZero DEF Covered
<1> QED
  BY <1>1, <1>15, <1>16, <1>17, <1>18 DEF SoundGame

\* The player who leaves takes his stack; what he had in front of him is gone.
\* A hand that ends by it is won by the fold of everybody else.
LEMMA StandTakes ==
  ASSUME NEW g, SoundGame(g), NEW i \in Seats
  PROVE  LET r == Stand(g, i)
         IN  /\ SoundGame(r)
             /\ TableChips(r) + g.chips[i] <= TableChips(g)
             /\ g.street # "Ended" /\ r.street = "Ended" => Cardinality(Live(r)) <= 1
             /\ r.user[i] = NoUser
             /\ \A j \in Seats : j # i => r.chips[j] >= g.chips[j]
<1> DEFINE r == Stand(g, i)
           gone == [g EXCEPT !.user[i] = NoUser, !.chips[i] = 0, !.bet[i] = 0,
                             !.com[i] = 0, !.folded[i] = FALSE, !.allin[i] = FALSE,
                             !.dealt[i] = FALSE]
           next == IF g.toAct = i THEN AdvanceAction(gone) ELSE gone
           turn == IF Cardinality(Live(gone)) <= 1 \/ CanAct(gone) = {}
                   THEN -1 ELSE FirstActiveAfter(gone, gone.toAct)
<1>1. /\ g.user \in [Seats -> Users \union {NoUser}]
      /\ g.chips \in [Seats -> Nat] /\ g.bet \in [Seats -> Nat] /\ g.com \in [Seats -> Nat]
      /\ g.folded \in [Seats -> BOOLEAN] /\ g.allin \in [Seats -> BOOLEAN]
      /\ g.dealt \in [Seats -> BOOLEAN] /\ g.pot \in Nat /\ g \in Games
  BY DEF SoundGame, Games
<1>2. r = IF g.street = "Ended" THEN gone
          ELSE IF Cardinality(Live(next)) <= 1 THEN EndByFold(next) ELSE next
  BY DEF Stand
<1>3. next = gone \/ (g.toAct = i /\ next = [gone EXCEPT !.toAct = turn])
  BY DEF AdvanceAction
<1> HIDE DEF turn, next, gone, r
<1>4. gone = [g EXCEPT !.user[i] = NoUser, !.chips[i] = 0, !.bet[i] = 0,
                       !.com[i] = 0, !.folded[i] = FALSE, !.allin[i] = FALSE,
                       !.dealt[i] = FALSE]
  BY DEF gone
<1>5. /\ gone.user = [g.user EXCEPT ![i] = NoUser] /\ gone.chips = [g.chips EXCEPT ![i] = 0]
      /\ gone.bet = [g.bet EXCEPT ![i] = 0] /\ gone.com = [g.com EXCEPT ![i] = 0]
      /\ gone.folded = [g.folded EXCEPT ![i] = FALSE] /\ gone.allin = [g.allin EXCEPT ![i] = FALSE]
      /\ gone.dealt = [g.dealt EXCEPT ![i] = FALSE]
      /\ gone.pot = g.pot /\ gone.street = g.street /\ gone.paid = g.paid
      /\ gone.toAct = g.toAct
  BY <1>1, <1>4 DEF Games
<1>6. gone \in Games
  <2>1. /\ gone.user \in [Seats -> Users \union {NoUser}] /\ gone.chips \in [Seats -> Nat]
        /\ gone.bet \in [Seats -> Nat] /\ gone.com \in [Seats -> Nat]
        /\ gone.folded \in [Seats -> BOOLEAN] /\ gone.allin \in [Seats -> BOOLEAN]
        /\ gone.dealt \in [Seats -> BOOLEAN]
    BY <1>1, <1>5
  <2> QED
    BY <1>1, <1>4, <2>1 DEF Games
<1>7. /\ Total(gone.chips) = Total(g.chips) + (0 - g.chips[i])
      /\ Total(gone.bet) = Total(g.bet) + (0 - g.bet[i])
      /\ Total(gone.com) = Total(g.com) + (0 - g.com[i])
  <2>1. ASSUME NEW f \in [Seats -> Nat], NEW h, h = [f EXCEPT ![i] = 0]
        PROVE  Total(h) = Total(f) + (0 - f[i])
    <3> DEFINE d == 0 - f[i]
    <3>1. \A x \in Seats : h[x] = IF x = i THEN f[x] + d ELSE f[x]
      BY <2>1
    <3>2. d \in Int
      OBVIOUS
    <3> HIDE DEF d
    <3>3. Total(h) = Total(f) + d
      BY <3>1, <3>2, TotalChanged
    <3> QED
      BY <3>3 DEF d
  <2> QED
    BY <1>1, <1>5, <2>1
<1>8. g.chips[i] \in Nat /\ g.bet[i] \in Nat /\ g.com[i] \in Nat
  BY <1>1
<1>9. TableChips(gone) + g.chips[i] <= TableChips(g) /\ TableChips(gone) \in Nat
      /\ TableChips(g) \in Nat
  <2>1. /\ TableChips(gone) = Total(gone.chips) + gone.pot + Total(gone.bet)
        /\ TableChips(g) = Total(g.chips) + g.pot + Total(g.bet)
        /\ Total(g.chips) \in Nat /\ Total(g.bet) \in Nat
        /\ TableChips(gone) \in Nat /\ TableChips(g) \in Nat
    BY <1>1, <1>6, TableChipsNat
  <2> QED
    BY <1>1, <1>5, <1>7, <1>8, <2>1
<1>10. g.street # "Ended" => Covered(gone) /\ gone.paid = Zero
  <2>1. Total(g.com) \in Nat
    BY <1>1, TableChipsNat
  <2> QED
    BY <1>1, <1>5, <1>7, <1>8, <2>1 DEF SoundGame, Covered
<1>11. Bare(gone)
  BY <1>1, <1>5 DEF SoundGame, Bare
<1>12. SoundGame(gone)
  BY <1>5, <1>6, <1>10, <1>11 DEF SoundGame
<1>13. /\ SoundGame(next) /\ TableChips(next) = TableChips(gone)
       /\ next.user = gone.user /\ next.chips = gone.chips /\ next.street = g.street
  <2>1. CASE next = gone
    BY <1>5, <1>12, <2>1
  <2>2. CASE g.toAct = i /\ next = [gone EXCEPT !.toAct = turn]
    <3>1. turn \in Seats \union {-1}
      BY <1>5, <2>2, FirstActiveInSeats DEF turn
    <3>2. next \in Games
      BY <1>6, <2>2, <3>1 DEF Games
    <3>3. /\ next.user = gone.user /\ next.chips = gone.chips /\ next.street = g.street
          /\ next.bet = gone.bet /\ next.com = gone.com /\ next.pot = gone.pot
          /\ next.paid = gone.paid
      BY <1>5, <1>6, <2>2 DEF Games
    <3>4. TableChips(next) = TableChips(gone)
      BY <3>3 DEF TableChips, PotShown
    <3> QED
      BY <1>5, <1>12, <3>2, <3>3, <3>4 DEF SoundGame, Covered, Bare
  <2> QED
    BY <1>3, <2>1, <2>2
<1>14. gone.user[i] = NoUser /\ \A j \in Seats : j # i => gone.chips[j] = g.chips[j]
  BY <1>1, <1>5
<1>15. CASE g.street = "Ended"
  BY <1>1, <1>2, <1>9, <1>12, <1>14, <1>15 DEF r
<1>16. CASE g.street # "Ended" /\ Cardinality(Live(next)) <= 1
  <2> DEFINE e == EndByFold(next)
  <2>1. r = e
    BY <1>2, <1>16
  <2>2. /\ e \in Games /\ e.street = "Ended" /\ Bare(e) /\ TableChips(e) = TableChips(next)
        /\ e.user = next.user /\ e.folded = next.folded
        /\ \A j \in Seats : e.chips[j] >= next.chips[j]
    BY <1>13, EndByFoldPays DEF SoundGame
  <2> HIDE DEF e
  <2>3. Live(e) = Live(next)
    BY <2>2 DEF Live, Occupied
  <2>4. SoundGame(e)
    BY <2>2 DEF SoundGame
  <2>5. \A j \in Seats : j # i => e.chips[j] >= g.chips[j]
    BY <1>13, <1>14, <2>2
  <2>6. e.user[i] = NoUser
    BY <1>13, <1>14, <2>2
  <2> QED
    BY <1>9, <1>13, <1>16, <2>1, <2>2, <2>3, <2>4, <2>5, <2>6 DEF r
<1>17. CASE g.street # "Ended" /\ ~(Cardinality(Live(next)) <= 1)
  <2>1. r = next
    BY <1>2, <1>17
  <2>2. \A j \in Seats : j # i => next.chips[j] >= g.chips[j]
    BY <1>1, <1>13, <1>14
  <2> QED
    BY <1>9, <1>13, <1>14, <1>17, <2>1, <2>2 DEF r
<1> QED
  BY <1>15, <1>16, <1>17

\* A player's move shifts chips from his stack to the bet before him.
LEMMA PlayMoves ==
  ASSUME NEW g \in Games, NEW i \in Seats, NEW a \in Actions
  PROVE  SameButBet(g, Play(g, i, a), i)
<1>1. SameButBet(g, g, i)
  BY DEF SameButBet
<1>2. ASSUME NEW w, SameButBet(g, w, i)
      PROVE  SameButBet(g, [w EXCEPT !.raiser = i], i)
  <2> DEFINE r == [w EXCEPT !.raiser = i]
  <2>1. r \in Games
    BY <1>2 DEF SameButBet, Games
  <2>2. /\ r.user = w.user /\ r.com = w.com /\ r.pot = w.pot /\ r.street = w.street
        /\ r.paid = w.paid /\ r.hand = w.hand /\ r.toAct = w.toAct
        /\ r.bet = w.bet /\ r.chips = w.chips
    BY <1>2 DEF SameButBet, Games
  <2> HIDE DEF r
  <2>3. TableChips(r) = TableChips(w)
    BY <2>2 DEF TableChips, PotShown
  <2>4. SameButBet(g, r, i)
    BY <1>2, <2>1, <2>2, <2>3 DEF SameButBet
  <2> QED
    BY <2>4 DEF r
<1>3. CASE a = "Fold"
  <2> DEFINE r == [g EXCEPT !.folded[i] = TRUE]
  <2>1. Play(g, i, a) = r
    BY <1>3 DEF Play
  <2>2. r \in Games
    BY DEF Games
  <2>3. /\ r.user = g.user /\ r.com = g.com /\ r.pot = g.pot /\ r.street = g.street
        /\ r.paid = g.paid /\ r.hand = g.hand /\ r.toAct = g.toAct
        /\ r.bet = g.bet /\ r.chips = g.chips
    BY DEF Games
  <2> HIDE DEF r
  <2>4. TableChips(r) = TableChips(g)
    BY <2>3 DEF TableChips, PotShown
  <2> QED
    BY <2>1, <2>2, <2>3, <2>4 DEF SameButBet
<1>4. ToCall(g, i) \in Nat /\ ToCall(g, i) + BigBlind \in Nat /\ g.chips[i] \in Nat
  BY ToCallNat, BlindAssumption DEF Games
<1>5. CASE a = "CheckCall"
  <2>1. Play(g, i, a) = IF ToCall(g, i) = 0 THEN g ELSE Wager(g, i, ToCall(g, i))
    BY <1>5 DEF Play
  <2> QED
    BY <1>1, <1>4, <2>1, WagerMoves
<1>6. CASE a = "Raise"
  <2> DEFINE w == Wager(g, i, ToCall(g, i) + BigBlind)
  <2>1. Play(g, i, a) = [w EXCEPT !.raiser = i]
    BY <1>6 DEF Play
  <2>2. SameButBet(g, w, i)
    BY <1>4, WagerMoves
  <2> HIDE DEF w
  <2> QED
    BY <1>2, <2>1, <2>2
<1>7. CASE a = "AllIn"
  <2> DEFINE w == Wager(g, i, g.chips[i])
  <2>1. Play(g, i, a) = w \/ Play(g, i, a) = [w EXCEPT !.raiser = i]
    BY <1>7 DEF Play
  <2>2. SameButBet(g, w, i)
    BY <1>4, WagerMoves
  <2> HIDE DEF w
  <2> QED
    BY <1>2, <2>1, <2>2
<1> QED
  BY <1>3, <1>5, <1>6, <1>7 DEF Actions

\* What a move leaves behind: the hand goes on, ends by fold, or has come to
\* the showdown.
LEMMA AfterActionKeeps ==
  ASSUME NEW g \in Games, Bare(g), Covered(g), g.paid = Zero, g.street \in Betting,
         g.toAct \in Seats
  PROVE  LET r == AfterAction(g)
         IN  /\ r \in Games /\ Bare(r) /\ TableChips(r) = TableChips(g)
             /\ r.street # "Ended" => Covered(r) /\ r.paid = Zero
             /\ r.street = "Ended" => Cardinality(Live(r)) <= 1
             /\ r.user = g.user /\ r.hand = g.hand
             /\ \A j \in Seats : r.chips[j] >= g.chips[j]
<1> DEFINE r == AfterAction(g)
           c == FirstActiveAfter(g, g.toAct)
           close == CanAct(g) = {} \/ (c = g.raiser /\ ToCall(g, c) = 0)
<1>1. r = IF Cardinality(Live(g)) <= 1 THEN EndByFold(g)
          ELSE IF close THEN CloseStreet(g) ELSE [g EXCEPT !.toAct = c]
  BY DEF AfterAction
<1>2. c \in Seats
  BY FirstActiveInSeats
<1>3. g.chips \in [Seats -> Nat] /\ \A j \in Seats : g.chips[j] >= g.chips[j]
  BY DEF Games
<1> HIDE DEF c, close, r
<1>4. CASE Cardinality(Live(g)) <= 1
  <2>1. r = EndByFold(g)
    BY <1>1, <1>4
  <2>2. /\ r \in Games /\ r.street = "Ended" /\ Bare(r) /\ TableChips(r) = TableChips(g)
        /\ r.user = g.user /\ r.folded = g.folded /\ r.hand = g.hand
        /\ \A j \in Seats : r.chips[j] >= g.chips[j]
    BY <2>1, EndByFoldPays
  <2>3. Live(r) = Live(g)
    BY <2>2 DEF Live, Occupied
  <2> QED
    BY <1>4, <2>2, <2>3 DEF r
<1>5. CASE ~(Cardinality(Live(g)) <= 1) /\ close
  <2>1. r = CloseStreet(g)
    BY <1>1, <1>5
  <2>2. /\ r \in Games /\ Bare(r) /\ Covered(r)
        /\ r.street \in {"Flop", "Turn", "River", "Showdown"}
        /\ TableChips(r) = TableChips(g)
        /\ r.user = g.user /\ r.hand = g.hand /\ r.paid = g.paid /\ r.chips = g.chips
    BY <2>1, CloseStreetMoves
  <2> QED
    BY <1>3, <2>2 DEF r
<1>6. CASE ~(Cardinality(Live(g)) <= 1) /\ ~close
  <2>1. r = [g EXCEPT !.toAct = c]
    BY <1>1, <1>6
  <2>2. r \in Games
    BY <1>2, <2>1 DEF Games
  <2>3. /\ r.user = g.user /\ r.com = g.com /\ r.pot = g.pot /\ r.street = g.street
        /\ r.paid = g.paid /\ r.hand = g.hand /\ r.bet = g.bet /\ r.chips = g.chips
    BY <2>1 DEF Games
  <2>4. TableChips(r) = TableChips(g) /\ Bare(r) /\ Covered(r) /\ r.street # "Ended"
    BY <2>3 DEF TableChips, PotShown, Bare, Covered, Betting
  <2> QED
    BY <1>3, <2>2, <2>3, <2>4 DEF r
<1> QED
  BY <1>4, <1>5, <1>6

\* A player's command and all that follows from it.
LEMMA PlayerActionKeeps ==
  ASSUME NEW g, SoundGame(g), NEW i \in Seats, IsLegal(g, i), g.user[i] # NoUser,
         NEW a \in Actions, NEW r \in PlayerAction(g, i, a)
  PROVE  /\ SoundGame(r) /\ TableChips(r) <= TableChips(g)
         /\ r.street = "Ended" /\ Cardinality(Live(r)) >= 2
              => \A j \in Seats : r.paid[j] <= MatchedBy(r, j)
         /\ \A j \in Seats : j # i => r.chips[j] >= g.chips[j]
<1> DEFINE p == Play(g, i, a)
           q == AfterAction(p)
<1>1. g \in Games /\ g.toAct = i /\ g.street \in Betting /\ g.paid = Zero /\ Covered(g) /\ Bare(g)
  BY DEF SoundGame, IsLegal, Games, Streets, Betting
<1>2. SameButBet(g, p, i)
  BY <1>1, PlayMoves
<1>3. r = q \/ \E str \in [Seats -> Strengths] : q.street = "Showdown" /\ r = ResolveShowdown(q, str)
  BY DEF PlayerAction
<1>4. q.street = "Showdown" => \E str \in [Seats -> Strengths] : r = ResolveShowdown(q, str)
  BY DEF PlayerAction
<1> HIDE DEF p
<1>5. /\ p \in Games /\ Bare(p) /\ Covered(p) /\ p.paid = Zero /\ p.street \in Betting
      /\ p.toAct \in Seats
  BY <1>1, <1>2 DEF SameButBet, Bare, Covered
<1>6. /\ q \in Games /\ Bare(q) /\ TableChips(q) = TableChips(p)
      /\ q.street # "Ended" => Covered(q) /\ q.paid = Zero
      /\ q.street = "Ended" => Cardinality(Live(q)) <= 1
      /\ \A j \in Seats : q.chips[j] >= p.chips[j]
  BY <1>5, AfterActionKeeps
<1> HIDE DEF q
<1>7. /\ TableChips(q) = TableChips(g) /\ TableChips(q) \in Nat
      /\ \A j \in Seats : j # i => q.chips[j] >= g.chips[j]
  BY <1>2, <1>6, TableChipsNat DEF SameButBet
<1>8. CASE q.street = "Showdown"
  <2>1. PICK str \in [Seats -> Strengths] : r = ResolveShowdown(q, str)
    BY <1>4, <1>8
  <2>2. /\ r \in Games /\ Bare(r) /\ r.street = "Ended"
        /\ TableChips(r) <= TableChips(q)
        /\ \A j \in Seats : r.paid[j] <= MatchedBy(r, j)
        /\ \A j \in Seats : r.chips[j] >= q.chips[j]
    BY <1>6, <1>8, <2>1, ShowdownPays
  <2>3. \A j \in Seats : r.chips[j] \in Nat /\ q.chips[j] \in Nat /\ g.chips[j] \in Nat
    BY <1>1, <1>6, <2>2 DEF Games
  <2>4. \A j \in Seats : j # i => r.chips[j] >= g.chips[j]
    BY <1>7, <2>2, <2>3
  <2> QED
    BY <1>7, <2>2, <2>4 DEF SoundGame
<1>9. CASE q.street # "Showdown"
  <2>1. r = q
    BY <1>3, <1>9
  <2>2. SoundGame(r)
    BY <1>6, <1>9, <2>1 DEF SoundGame
  <2>3. r.street = "Ended" => ~(Cardinality(Live(r)) >= 2)
    <3>1. Live(r) \in SUBSET Seats
      BY DEF Live, Occupied
    <3>2. Cardinality(Live(r)) \in Nat
      BY <3>1, SeatsFinite, FS_Subset, FS_CardinalityType
    <3> QED
      BY <1>6, <2>1, <3>2
  <2> QED
    BY <1>7, <2>1, <2>2, <2>3
<1> QED
  BY <1>8, <1>9

-----------------------------------------------------------------------------
(* The table: what was brought covers what is there.                       *)

ChipInv ==
  /\ SoundGame(game)
  /\ timers \in 0 .. MaxTimers
  /\ settled \in Seq(Nat)
  /\ net \in 0 .. MaxNet
  /\ TableChips(game) <= net

\* What one step does to the game and to the chips.
ChipStep ==
  /\ Running /\ game'.street = "Ended" /\ Cardinality(Live(game')) >= 2
       => \A i \in Seats : game'.paid[i] <= MatchedBy(game', i)
  /\ \A i \in Seats :
       /\ game.user[i] # NoUser /\ game'.user[i] = game.user[i]
       /\ game'.chips[i] < game.chips[i]
       => game.toAct = i \/ game'.hand > game.hand

LEMMA ChipInit == Init => ChipInv
<1> SUFFICES ASSUME Init PROVE ChipInv
  OBVIOUS
<1>1. game = NewGame /\ timers = 0 /\ settled = <<>> /\ net = 0
  BY DEF Init
<1>2. NewGame \in Games
  <2>1. 0 \in Seats /\ [i \in Seats |-> NoUser] \in [Seats -> Users \union {NoUser}]
    BY SeatAssumption DEF Seats
  <2>2. Zero \in [Seats -> Nat] /\ None \in [Seats -> BOOLEAN]
    BY DEF Zero, None
  <2> QED
    BY <2>1, <2>2 DEF NewGame, Games, Streets
<1>3. /\ NewGame.chips = Zero /\ NewGame.bet = Zero /\ NewGame.com = Zero /\ NewGame.pot = 0
      /\ NewGame.street = "Ended"
  BY DEF NewGame
<1>4. TableChips(NewGame) = 0
  BY <1>3, TotalZero DEF TableChips, PotShown
<1>5. SoundGame(NewGame)
  BY <1>2, <1>3 DEF SoundGame, Bare, Zero
<1> QED
  BY <1>1, <1>4, <1>5, BoundAssumption DEF ChipInv

LEMMA ChipRestoredInit == RestoredInit => ChipInv
<1> SUFFICES ASSUME RestoredInit PROVE ChipInv
  OBVIOUS
<1>1. /\ timers = 0 /\ settled = <<>> /\ game \in RestoredTables
      /\ net = Total(game.chips) /\ net <= MaxNet
  BY DEF RestoredInit
<1>2. PICK s \in Snapshots : game = RestoreFromSnapshot(s)
  BY <1>1 DEF RestoredTables
<1>3. /\ s.user \in [Seats -> Users \union {NoUser}] /\ s.chips \in [Seats -> Nat]
      /\ s.button \in Seats /\ s.hand \in Nat
  <2>1. s \in [user : [Seats -> Users \union {NoUser}], chips : [Seats -> BuyIns],
              button : Seats, hand : {0}]
    BY DEF Snapshots
  <2>2. \A f \in [Seats -> BuyIns] : f \in [Seats -> Nat]
    BY BuyInAssumption
  <2> QED
    BY <2>1, <2>2
<1> DEFINE kept(i) == s.user[i] # NoUser /\ s.chips[i] > 0
           users == [i \in Seats |-> IF kept(i) THEN s.user[i] ELSE NoUser]
           chips == [i \in Seats |-> IF kept(i) THEN s.chips[i] ELSE 0]
           r == [NewGame EXCEPT !.user = users, !.chips = chips,
                                !.button = s.button, !.toAct = -1, !.hand = s.hand]
<1>4. game = r
  BY <1>2 DEF RestoreFromSnapshot
<1>5. users \in [Seats -> Users \union {NoUser}] /\ chips \in [Seats -> Nat]
  BY <1>3
<1> HIDE DEF users, chips
<1>6. r \in Games
  <2>1. 0 \in Seats
    BY SeatAssumption DEF Seats
  <2>2. Zero \in [Seats -> Nat] /\ None \in [Seats -> BOOLEAN]
    BY DEF Zero, None
  <2> QED
    BY <1>3, <1>5, <2>1, <2>2 DEF NewGame, Games, Streets
<1>7. r.chips = chips /\ r.bet = Zero /\ r.com = Zero /\ r.pot = 0 /\ r.street = "Ended"
  BY DEF NewGame
<1> HIDE DEF r
<1>8. SoundGame(r)
  BY <1>6, <1>7 DEF SoundGame, Bare, Zero
<1>9. Total(chips) \in Nat
  BY <1>5, NatTotal
<1>10. TableChips(r) = Total(chips)
  BY <1>7, <1>9, TotalZero DEF TableChips, PotShown
<1> QED
  BY <1>1, <1>4, <1>7, <1>8, <1>9, <1>10, BoundAssumption DEF ChipInv

LEMMA ChipNext == ChipInv /\ [Next]_vars => ChipInv' /\ (game' = game \/ ChipStep)
<1> SUFFICES ASSUME ChipInv, [Next]_vars PROVE ChipInv' /\ (game' = game \/ ChipStep)
  OBVIOUS
<1>1. /\ SoundGame(game) /\ game \in Games /\ IsGame(game)
      /\ timers \in 0 .. MaxTimers /\ settled \in Seq(Nat) /\ net \in 0 .. MaxNet
      /\ TableChips(game) <= net /\ TableChips(game) \in Nat
      /\ game.chips \in [Seats -> Nat] /\ game.hand \in Nat
      /\ MaxNet \in Nat /\ MaxTimers \in Nat
  <2>1. game \in Games /\ SoundGame(game)
    BY DEF ChipInv, SoundGame
  <2>2. IsGame(game) /\ game.chips \in [Seats -> Nat] /\ game.hand \in Nat
    BY <2>1 DEF Games, IsGame, Fields
  <2> QED
    BY <2>1, <2>2, TableChipsNat, BoundAssumption DEF ChipInv
<1>2. ASSUME SoundGame(game')
      PROVE  /\ TableChips(game') \in Nat /\ game'.chips \in [Seats -> Nat] /\ game'.hand \in Nat
  BY <1>2, TableChipsNat DEF SoundGame, Games
\* Nobody's chips fall, or a new hand has been dealt, and no hand has ended.
<1>3. ASSUME NEW u \in Users, NEW i \in Seats, NEW c \in BuyIns, SitCmd(u, i, c)
      PROVE  ChipInv' /\ ChipStep
  <2> DEFINE s == Sit(game, i, u, c)
  <2>1. /\ CanSit(game, i, c) /\ net + c <= MaxNet /\ game' = MaybeStart(s)
        /\ net' = net + c /\ timers' = timers /\ settled' = settled /\ c \in Nat
    BY <1>3, BuyInAssumption DEF SitCmd
  <2>2. /\ SoundGame(s) /\ TableChips(s) <= TableChips(game) + c /\ s.street = game.street
        /\ \A j \in Seats : game.user[j] # NoUser => s.chips[j] = game.chips[j]
    BY <1>1, <2>1, SitAdds
  <2>3. IsGame(s) /\ s.hand = game.hand
    BY <1>1, SitSame DEF SameHand
  <2> HIDE DEF s
  <2>4. TableChips(s) \in Nat
    BY <2>2, TableChipsNat DEF SoundGame
  <2>5. CASE game' = s /\ ~(s.street = "Ended" /\ CanStart(s))
    <3>1. ChipStep
      BY <1>1, <2>2, <2>5 DEF ChipStep, Running
    <3> QED
      BY <1>1, <2>1, <2>2, <2>4, <2>5, <3>1 DEF ChipInv
  <2>6. CASE game' = StartHand(s) /\ s.street = "Ended" /\ CanStart(s)
    <3>1. SoundGame(game') /\ TableChips(game') <= TableChips(s) /\ game'.street = "Preflop"
      BY <2>2, <2>6, StartHandKeeps
    <3>2. game'.hand = game.hand + 1
      BY <2>3, <2>6, StartHandNext
    <3>3. ChipStep
      BY <1>1, <3>1, <3>2 DEF ChipStep
    <3>4. TableChips(game') \in Nat
      BY <1>2, <3>1
    <3> QED
      BY <1>1, <2>1, <2>2, <2>4, <3>1, <3>3, <3>4 DEF ChipInv
  <2> QED
    BY <2>1, <2>5, <2>6 DEF MaybeStart
<1>4. ASSUME NEW u \in Users, StandCmd(u)
      PROVE  ChipInv' /\ ChipStep
  <2> DEFINE i == Min(Seated(u))
  <2>1. i \in Seats /\ game.user[i] # NoUser
    <3>1. Seated(u) # {} /\ Seated(u) \subseteq Nat
      BY <1>4, SeatsFinite DEF StandCmd, Seated
    <3>2. i \in Seated(u)
      BY <3>1, MinIsMember
    <3> QED
      BY <3>2, UserAssumption DEF Seated
  <2>2. /\ game' = Stand(game, i) /\ net' = net - game.chips[i]
        /\ timers' = timers /\ settled' = settled
    BY <1>4 DEF StandCmd
  <2> HIDE DEF i
  <2>3. /\ SoundGame(game')
        /\ TableChips(game') + game.chips[i] <= TableChips(game)
        /\ game.street # "Ended" /\ game'.street = "Ended" => Cardinality(Live(game')) <= 1
        /\ game'.user[i] = NoUser
        /\ \A j \in Seats : j # i => game'.chips[j] >= game.chips[j]
    BY <1>1, <2>1, <2>2, StandTakes
  <2>4. TableChips(game') \in Nat /\ game.chips[i] \in Nat /\ game'.chips \in [Seats -> Nat]
    BY <1>1, <1>2, <2>1, <2>3
  <2>5. Cardinality(Live(game')) \in Nat
    <3>1. Live(game') \in SUBSET Seats
      BY DEF Live, Occupied
    <3> QED
      BY <3>1, SeatsFinite, FS_Subset, FS_CardinalityType
  <2>6. ChipStep
    <3>1. \A j \in Seats : game'.chips[j] < game.chips[j] => j = i
      BY <1>1, <2>3, <2>4
    <3> QED
      BY <2>1, <2>3, <2>5, <3>1 DEF ChipStep, Running
  <2>7. net' \in 0 .. MaxNet /\ TableChips(game') <= net'
    <3> DEFINE taken == game.chips[i]
               left == TableChips(game')
    <3>1. taken \in Nat /\ left \in Nat /\ left + taken <= net /\ net' = net - taken
      BY <1>1, <2>2, <2>3, <2>4
    <3> HIDE DEF taken, left
    <3>2. net' \in 0 .. MaxNet /\ left <= net'
      BY <1>1, <3>1
    <3> QED
      BY <3>2 DEF left
  <2> QED
    BY <1>1, <2>2, <2>3, <2>6, <2>7 DEF ChipInv
<1>5. ASSUME NEW u \in Users, NEW a \in Actions, ActionCmd(u, a)
      PROVE  ChipInv' /\ ChipStep
  <2> DEFINE i == Min(Seated(u))
  <2>1. i \in Seats /\ game.user[i] # NoUser
    <3>1. Seated(u) # {} /\ Seated(u) \subseteq Nat
      BY <1>5, SeatsFinite DEF ActionCmd, Seated
    <3>2. i \in Seated(u)
      BY <3>1, MinIsMember
    <3> QED
      BY <3>2, UserAssumption DEF Seated
  <2>2. /\ IsLegal(game, i) /\ game' \in PlayerAction(game, i, a) /\ net' = net
        /\ \/ timers < MaxTimers /\ timers' = timers + 1 /\ settled' = Append(settled, game.hand)
           \/ timers' = timers /\ settled' = settled
    BY <1>5 DEF ActionCmd
  <2> HIDE DEF i
  <2>3. /\ SoundGame(game') /\ TableChips(game') <= TableChips(game)
        /\ game'.street = "Ended" /\ Cardinality(Live(game')) >= 2
             => \A j \in Seats : game'.paid[j] <= MatchedBy(game', j)
        /\ \A j \in Seats : j # i => game'.chips[j] >= game.chips[j]
    BY <1>1, <2>1, <2>2, PlayerActionKeeps
  <2>4. TableChips(game') \in Nat /\ game'.chips \in [Seats -> Nat]
    BY <1>2, <2>3
  <2>5. ChipStep
    <3>1. \A j \in Seats : game'.chips[j] < game.chips[j] => j = i
      BY <1>1, <2>3, <2>4
    <3> QED
      BY <2>2, <2>3, <3>1 DEF ChipStep, IsLegal
  <2>6. timers' \in 0 .. MaxTimers /\ settled' \in Seq(Nat)
    <3>1. Append(settled, game.hand) \in Seq(Nat)
      BY <1>1
    <3>2. timers < MaxTimers => timers + 1 \in 0 .. MaxTimers
      BY <1>1
    <3> QED
      BY <1>1, <2>2, <3>1, <3>2
  <2> QED
    BY <1>1, <2>2, <2>3, <2>4, <2>5, <2>6 DEF ChipInv
<1>6. CASE StartHandCmd
  <2>1. /\ timers > 0 /\ timers' = timers - 1 /\ settled' = settled /\ net' = net
        /\ game' = IF CanStart(game) THEN StartHand(game) ELSE game
    BY <1>6 DEF StartHandCmd
  <2>2. timers' \in 0 .. MaxTimers
    BY <1>1, <2>1
  <2>3. CASE CanStart(game)
    <3>1. SoundGame(game') /\ TableChips(game') <= TableChips(game) /\ game'.street = "Preflop"
      BY <1>1, <2>1, <2>3, StartHandKeeps
    <3>2. game'.hand = game.hand + 1
      BY <1>1, <2>1, <2>3, StartHandNext
    <3>3. ChipStep
      BY <1>1, <3>1, <3>2 DEF ChipStep
    <3>4. TableChips(game') \in Nat
      BY <1>2, <3>1
    <3> QED
      BY <1>1, <2>1, <2>2, <3>1, <3>3, <3>4 DEF ChipInv
  <2>4. CASE ~CanStart(game)
    BY <1>1, <2>1, <2>2, <2>4 DEF ChipInv
  <2> QED
    BY <2>3, <2>4
<1>7. CASE UNCHANGED vars
  BY <1>7 DEF vars, ChipInv
<1> QED
  BY <1>3, <1>4, <1>5, <1>6, <1>7 DEF Next

LEMMA ChipProperties ==
  /\ ChipInv => TypeOK /\ ChipsNeverMinted /\ PotCoversCommitments
  /\ ChipInv /\ [Next]_vars =>
       /\ Running /\ game'.street = "Ended" /\ Cardinality(Live(game')) >= 2
            => \A i \in Seats : game'.paid[i] <= MatchedBy(game', i)
       /\ \A i \in Seats :
            /\ game.user[i] # NoUser /\ game'.user[i] = game.user[i]
            /\ game'.chips[i] < game.chips[i]
            => game.toAct = i \/ game'.hand > game.hand
<1>1. ChipInv => TypeOK /\ ChipsNeverMinted /\ PotCoversCommitments
  BY DEF ChipInv, SoundGame, TypeOK, ChipsNeverMinted, PotCoversCommitments, Covered, Running
<1>2. ASSUME ChipInv, [Next]_vars
      PROVE  ChipStep
  <2>1. \A i \in Seats : game.chips[i] \in Nat
    BY <1>2 DEF ChipInv, SoundGame, Games
  <2>2. CASE game' = game
    BY <2>1, <2>2 DEF ChipStep, Running
  <2> QED
    BY <1>2, <2>2, ChipNext
<1> QED
  BY <1>1, <1>2 DEF ChipStep

\* Whatever the players do, and whenever the delayed StartHand arrives, stacks,
\* bets and pot stay natural numbers and the indices stay on the table.
THEOREM TableTyped == (Spec => []TypeOK) /\ (RestoredSpec => []TypeOK)
<1>1. ChipInv => TypeOK
  BY ChipProperties
<1> QED
  BY <1>1, ChipInit, ChipRestoredInit, ChipNext, PTL DEF Spec, RestoredSpec

\* The table never holds more than was brought to it, whatever the side pots,
\* splits, departures and hands dealt over one another (engine.go endByFold,
\* awardSidePot, Stand).
THEOREM NothingMinted == (Spec => []ChipsNeverMinted) /\ (RestoredSpec => []ChipsNeverMinted)
<1>1. ChipInv => ChipsNeverMinted
  BY ChipProperties
<1> QED
  BY <1>1, ChipInit, ChipRestoredInit, ChipNext, PTL DEF Spec, RestoredSpec

\* While a hand runs, what the seats committed is in the pot that the side pots
\* divide (engine.go closeStreet, resolveShowdown).
THEOREM PotsCovered == (Spec => []PotCoversCommitments) /\ (RestoredSpec => []PotCoversCommitments)
<1>1. ChipInv => PotCoversCommitments
  BY ChipProperties
<1> QED
  BY <1>1, ChipInit, ChipRestoredInit, ChipNext, PTL DEF Spec, RestoredSpec

\* No seat wins more of another's commitment than it matched: any number of
\* seats, all-ins at any level, any hands, ties and odd chips (engine.go
\* resolveShowdown).
THEOREM SidePotsCapped == (Spec => SidePotCap) /\ (RestoredSpec => SidePotCap)
<1>1. ChipInv /\ [Next]_vars =>
        [Running /\ game'.street = "Ended" /\ Cardinality(Live(game')) >= 2
           => \A i \in Seats : game'.paid[i] <= MatchedBy(game', i)]_vars
  BY ChipProperties
<1> QED
  BY <1>1, ChipInit, ChipRestoredInit, ChipNext, PTL DEF Spec, RestoredSpec, SidePotCap

\* A stack falls only by its owner's move or by a new hand's blinds.
THEOREM OwnChipsOnly == (Spec => OnlyOwnChips) /\ (RestoredSpec => OnlyOwnChips)
<1>1. ChipInv /\ [Next]_vars =>
        [\A i \in Seats :
           /\ game.user[i] # NoUser /\ game'.user[i] = game.user[i]
           /\ game'.chips[i] < game.chips[i]
           => \/ game.toAct = i
              \/ game'.hand > game.hand]_vars
  BY ChipProperties
<1> QED
  BY <1>1, ChipInit, ChipRestoredInit, ChipNext, PTL DEF Spec, RestoredSpec, OnlyOwnChips

-----------------------------------------------------------------------------
(* Orderly play.  What the chips are conserved by is the order of betting:  *)
(* when a street closes, nobody who can still act owes anything, so the     *)
(* largest commitment belongs to a seat that is still in the hand, and no   *)
(* side pot is without a rival.                                             *)

\* Seats clockwise from r to x.
Dist(r, x) == IF x >= r THEN x - r ELSE x - r + N

\* Nobody bets more than seat i; nobody has committed more.
Most(g, i) == \A j \in Seats : g.bet[j] <= g.bet[i]
Full(g, i) == \A j \in Seats : g.com[j] <= g.com[i]

\* Walking clockwise, no seat of the set is passed before the one found.
LEMMA NoneBetween ==
  ASSUME NEW S \in SUBSET Seats, NEW from \in Seats, NEW s \in S, s # from
  PROVE  LET c == NextIn(S, from)
         IN  c \in S /\ c # from /\ Dist(from, c) <= Dist(from, s)
<1> DEFINE steps == {k \in 1..N : (from + k) % N \in S}
           m == Min(steps)
           k == Dist(from, s)
           c == NextIn(S, from)
<1>1. N \in Nat /\ N > 1 /\ from \in 0 .. N - 1 /\ s \in 0 .. N - 1
  BY SeatAssumption DEF Seats
<1>2. k \in 1 .. N - 1 /\ (from + k = s \/ from + k = s + N)
  BY <1>1 DEF Dist
<1>3. s % N = s /\ (s + N) % N = s
  BY <1>1
<1>4. k \in steps
  BY <1>1, <1>2, <1>3
<1>5. steps \in SUBSET Nat
  BY <1>1
<1>6. m \in steps /\ m <= k
  <2> HIDE DEF steps, k
  <2>1. PICK x \in steps : \A y \in steps : x <= y
    BY <1>4, <1>5, LeastNatural
  <2>2. m \in steps /\ \A y \in steps : m <= y
    BY <2>1 DEF Min
  <2> QED
    BY <1>4, <2>2
<1>7. c = (from + m) % N
  BY <1>4 DEF NextIn
<1>8. c \in S
  BY <1>6, <1>7
<1>9. m \in 1 .. N - 1
  BY <1>1, <1>2, <1>6
<1> HIDE DEF m, steps, k, c
<1>10. CASE from + m < N
  <2>1. from + m \in 0 .. N - 1
    BY <1>1, <1>9, <1>10
  <2>2. (from + m) % N = from + m
    BY <1>1, <2>1
  <2>3. c = from + m
    BY <1>7, <2>2
  <2>4. c # from /\ Dist(from, c) = m
    BY <1>1, <1>9, <2>3 DEF Dist
  <2> QED
    BY <1>6, <1>8, <2>4 DEF c, k
<1>11. CASE ~(from + m < N)
  <2>1. from + m - N \in 0 .. N - 1 /\ from + m = (from + m - N) + N
    BY <1>1, <1>9, <1>11
  <2>2. (from + m) % N = from + m - N
    BY <1>1, <2>1
  <2>3. c = from + m - N
    BY <1>7, <2>2
  <2>4. c # from /\ Dist(from, c) = m
    BY <1>1, <1>9, <2>3 DEF Dist
  <2> QED
    BY <1>6, <1>8, <2>4 DEF c, k
<1> QED
  BY <1>10, <1>11

\* To call is to come up to the highest bet.
LEMMA ToCallIs ==
  ASSUME NEW g \in Games, NEW i \in Seats
  PROVE  /\ \E j \in Seats : Most(g, j) /\ ToCall(g, i) = g.bet[j] - g.bet[i]
         /\ ToCall(g, i) = 0 <=> Most(g, i)
<1> DEFINE T == {g.bet[j] : j \in Seats}
<1>1. g.bet \in [Seats -> Nat]
  BY DEF Games
<1>2. T \in SUBSET Nat /\ T # {} /\ \A x \in T : x <= Total(g.bet)
  BY <1>1, NatTotal
<1>3. Max(T) \in T /\ \A x \in T : x <= Max(T)
  BY <1>1, <1>2, NatTotal, MaxIsGreatest
<1>4. PICK j \in Seats : Max(T) = g.bet[j]
  BY <1>3
<1>5. Most(g, j)
  BY <1>3, <1>4 DEF Most
<1>6. g.bet[i] \in Nat /\ g.bet[j] \in Nat /\ g.bet[i] <= g.bet[j]
  BY <1>1, <1>5 DEF Most
<1>7. ToCall(g, i) = g.bet[j] - g.bet[i]
  BY <1>4, <1>6 DEF ToCall
<1>8. ToCall(g, i) = 0 => Most(g, i)
  BY <1>5, <1>6, <1>7 DEF Most
<1>9. Most(g, i) => ToCall(g, i) = 0
  BY <1>6, <1>7 DEF Most
<1> QED
  BY <1>5, <1>7, <1>8, <1>9

\* What a wager is, field by field.
LEMMA WagerIs ==
  ASSUME NEW g \in Games, NEW i \in Seats, NEW want \in Nat
  PROVE  LET r == Wager(g, i, want)
             put == IF want >= g.chips[i] THEN g.chips[i] ELSE want
         IN  /\ put \in Nat /\ put <= g.chips[i]
             /\ r.bet = [g.bet EXCEPT ![i] = @ + put]
             /\ r.chips = [g.chips EXCEPT ![i] = @ - put]
             /\ \A j \in Seats : r.allin[j] <=> (g.allin[j] \/ (j = i /\ put = g.chips[i]))
             /\ r.folded = g.folded /\ r.raiser = g.raiser /\ r.button = g.button
<1> DEFINE put == IF want >= g.chips[i] THEN g.chips[i] ELSE want
           r == Wager(g, i, want)
<1>1. g.chips \in [Seats -> Nat] /\ g.bet \in [Seats -> Nat] /\ g.allin \in [Seats -> BOOLEAN]
  BY DEF Games
<1>2. put \in Nat /\ put <= g.chips[i]
  BY <1>1
<1>3. r = [g EXCEPT !.chips[i] = @ - put, !.bet[i] = @ + put,
                    !.allin[i] = @ \/ put = g.chips[i]]
  BY DEF Wager
<1> HIDE DEF put, r
<1>4. /\ r.chips = [g.chips EXCEPT ![i] = @ - put]
      /\ r.bet = [g.bet EXCEPT ![i] = @ + put]
      /\ r.allin = [g.allin EXCEPT ![i] = @ \/ put = g.chips[i]]
      /\ r.folded = g.folded /\ r.raiser = g.raiser /\ r.button = g.button
  BY <1>3 DEF Games
<1>5. ASSUME NEW j \in Seats
      PROVE  r.allin[j] <=> (g.allin[j] \/ (j = i /\ put = g.chips[i]))
  <2>1. CASE j = i
    BY <1>1, <1>4, <2>1
  <2>2. CASE j # i
    BY <1>1, <1>4, <2>2
  <2> QED
    BY <2>1, <2>2
<1> QED
  BY <1>2, <1>4, <1>5 DEF put, r

\* What a move other than a fold does: put chips before the player, as far as
\* the highest bet or his stack goes, or take the raise to himself.
Puts(g, p, i) ==
  /\ p.folded = g.folded
  /\ \E put \in Nat :
       /\ put <= g.chips[i] /\ (g.folded[i] => put = 0)
       /\ p.bet = [g.bet EXCEPT ![i] = @ + put]
       /\ p.chips = [g.chips EXCEPT ![i] = @ - put]
  /\ \A j \in Seats : g.allin[j] => p.allin[j]
  /\ \A j \in Seats : p.allin[j] => g.allin[j] \/ p.chips[j] = 0

Raises(g, p, i) ==
  /\ i \in CanAct(p) => Most(p, i)
  /\ \/ p.raiser = i
     \/ p.raiser = g.raiser /\ \A s \in Seats : s # i /\ Most(g, s) => Most(p, s)

LEMMA WagerPuts ==
  ASSUME NEW g \in Games, NEW i \in Seats, NEW want \in Nat, ~g.folded[i]
  PROVE  Puts(g, Wager(g, i, want), i)
<1> DEFINE put == IF want >= g.chips[i] THEN g.chips[i] ELSE want
           r == Wager(g, i, want)
<1>1. /\ put \in Nat /\ put <= g.chips[i]
      /\ r.bet = [g.bet EXCEPT ![i] = @ + put]
      /\ r.chips = [g.chips EXCEPT ![i] = @ - put]
      /\ \A j \in Seats : r.allin[j] <=> (g.allin[j] \/ (j = i /\ put = g.chips[i]))
      /\ r.folded = g.folded
  BY WagerIs
<1>2. g.chips \in [Seats -> Nat]
  BY DEF Games
<1> HIDE DEF put, r
<1>3. put = g.chips[i] => r.chips[i] = 0
  BY <1>1, <1>2
<1>4. \A j \in Seats : r.allin[j] => g.allin[j] \/ r.chips[j] = 0
  BY <1>1, <1>3
<1> QED
  BY <1>1, <1>4 DEF Puts, r

LEMMA PlayPuts ==
  ASSUME NEW g \in Games, NEW i \in Seats, NEW a \in Actions \ {"Fold"},
         g.folded[i] => a = "CheckCall" /\ Most(g, i)
  PROVE  Puts(g, Play(g, i, a), i) /\ Raises(g, Play(g, i, a), i)
<1> DEFINE p == Play(g, i, a)
           owe == ToCall(g, i)
<1>1. g.chips \in [Seats -> Nat] /\ g.bet \in [Seats -> Nat] /\ BigBlind \in Nat
  BY BlindAssumption DEF Games
<1>2. owe \in Nat /\ (owe = 0 <=> Most(g, i))
  BY ToCallNat, ToCallIs
<1>3. PICK m \in Seats : Most(g, m) /\ owe = g.bet[m] - g.bet[i]
  BY ToCallIs
<1>4. \A j \in Seats : g.bet[j] \in Nat /\ g.bet[j] <= g.bet[i] + owe
  BY <1>1, <1>3 DEF Most
<1>5. \A s \in Seats : Most(g, s) => g.bet[s] = g.bet[i] + owe
  BY <1>1, <1>3, <1>4 DEF Most
<1>11. ASSUME NEW want \in Nat, NEW put, put = IF want >= g.chips[i] THEN g.chips[i] ELSE want
       PROVE  /\ put \in Nat
              /\ Wager(g, i, want).bet = [g.bet EXCEPT ![i] = @ + put]
              /\ Wager(g, i, want).raiser = g.raiser
              /\ Wager(g, i, want).allin[i] <=> (g.allin[i] \/ put = g.chips[i])
  <2> DEFINE v == IF want >= g.chips[i] THEN g.chips[i] ELSE want
             w == Wager(g, i, want)
  <2>1. /\ v \in Nat /\ v <= g.chips[i]
        /\ w.bet = [g.bet EXCEPT ![i] = @ + v]
        /\ w.chips = [g.chips EXCEPT ![i] = @ - v]
        /\ \A j \in Seats : w.allin[j] <=> (g.allin[j] \/ (j = i /\ v = g.chips[i]))
        /\ w.folded = g.folded /\ w.raiser = g.raiser /\ w.button = g.button
    BY WagerIs, Zenon
  <2>2. put = v
    BY <1>11
  <2> HIDE DEF v, w
  <2>3. put \in Nat /\ w.bet = [g.bet EXCEPT ![i] = @ + put] /\ w.raiser = g.raiser
    BY <2>1, <2>2
  <2>4. w.allin[i] <=> (g.allin[i] \/ put = g.chips[i])
    BY <2>1, <2>2
  <2> QED
    BY <2>3, <2>4 DEF w
<1>6. CASE a = "CheckCall" /\ Most(g, i)
  <2>1. p = g
    BY <1>2, <1>6 DEF Play
  <2>2. g.bet = [g.bet EXCEPT ![i] = @ + 0] /\ g.chips = [g.chips EXCEPT ![i] = @ - 0]
    BY <1>1
  <2>3. 0 \in Nat /\ 0 <= g.chips[i]
    BY <1>1
  <2>4. Puts(g, g, i)
    BY <2>2, <2>3 DEF Puts
  <2> QED
    BY <1>6, <2>1, <2>4 DEF Raises
<1>7. CASE a = "CheckCall" /\ ~Most(g, i)
  <2> DEFINE put == IF owe >= g.chips[i] THEN g.chips[i] ELSE owe
             w == Wager(g, i, owe)
  <2>1. p = w
    BY <1>2, <1>7 DEF Play
  <2>2. Puts(g, w, i)
    BY <1>2, <1>7, WagerPuts
  <2>3. /\ w.bet = [g.bet EXCEPT ![i] = @ + put] /\ w.raiser = g.raiser
        /\ w.allin[i] <=> (g.allin[i] \/ put = g.chips[i])
        /\ put \in Nat
    <3> HIDE DEF owe
    <3> QED
      BY <1>2, <1>11
  <2>9. put <= owe /\ (put = owe \/ put = g.chips[i])
    <3> HIDE DEF owe
    <3> QED
      BY <1>1, <1>2
  <2> HIDE DEF put, w, owe
  <2>4. i \in CanAct(w) => Most(w, i)
    <3>1. i \in CanAct(w) => put = owe
      BY <2>3, <2>9 DEF CanAct
    <3>2. put = owe => Most(w, i)
      BY <1>1, <1>2, <1>4, <2>3, <2>9 DEF Most
    <3> QED
      BY <3>1, <3>2
  <2>5. \A s \in Seats : s # i /\ Most(g, s) => Most(w, s)
    BY <1>1, <1>2, <1>4, <1>5, <2>3, <2>9 DEF Most
  <2> QED
    BY <2>1, <2>2, <2>3, <2>4, <2>5 DEF Raises
<1>8. ASSUME NEW w \in Games, Puts(g, w, i)
      PROVE  /\ Puts(g, [w EXCEPT !.raiser = i], i)
             /\ (i \in CanAct(w) => Most(w, i)) => Raises(g, [w EXCEPT !.raiser = i], i)
  <2> DEFINE r == [w EXCEPT !.raiser = i]
  <2>1. /\ r.raiser = i /\ r.folded = w.folded /\ r.bet = w.bet /\ r.chips = w.chips
        /\ r.allin = w.allin /\ r.user = w.user
    BY <1>8 DEF Games
  <2> HIDE DEF r
  <2>2. Puts(g, r, i)
    BY <1>8, <2>1 DEF Puts
  <2>3. (i \in CanAct(w) <=> i \in CanAct(r)) /\ (Most(w, i) <=> Most(r, i))
    BY <2>1 DEF CanAct, Live, Occupied, Most
  <2>4. (i \in CanAct(w) => Most(w, i)) => Raises(g, r, i)
    BY <2>1, <2>3 DEF Raises
  <2> QED
    BY <2>2, <2>4 DEF r
<1>9. CASE a = "Raise"
  <2> DEFINE want == owe + BigBlind
             put == IF want >= g.chips[i] THEN g.chips[i] ELSE want
             w == Wager(g, i, want)
  <2>1. p = [w EXCEPT !.raiser = i]
    BY <1>9 DEF Play
  <2>2. want \in Nat
    BY <1>1, <1>2
  <2>3. Puts(g, w, i) /\ w \in Games
    BY <1>9, <2>2, WagerPuts, WagerMoves DEF SameButBet
  <2>4. /\ w.bet = [g.bet EXCEPT ![i] = @ + put]
        /\ w.allin[i] <=> (g.allin[i] \/ put = g.chips[i])
        /\ put \in Nat
    <3> HIDE DEF want
    <3> QED
      BY <2>2, <1>11
  <2>9. put = want \/ put = g.chips[i]
    OBVIOUS
  <2>5. want >= owe
    BY <1>1, <1>2
  <2> HIDE DEF put, w, owe, want
  <2>6. i \in CanAct(w) => Most(w, i)
    <3>1. i \in CanAct(w) => put = want
      BY <2>4, <2>9 DEF CanAct
    <3>2. put = want => Most(w, i)
      BY <1>1, <1>2, <1>4, <2>2, <2>4, <2>5 DEF Most
    <3> QED
      BY <3>1, <3>2
  <2> QED
    BY <1>8, <2>1, <2>3, <2>6
<1>10. CASE a = "AllIn"
  <2> DEFINE put == g.chips[i]
             w == Wager(g, i, put)
  <2>1. p = IF ToCall(w, i) = 0 /\ w.bet[i] > 0 THEN [w EXCEPT !.raiser = i] ELSE w
    BY <1>10 DEF Play
  <2>2. put \in Nat
    BY <1>1
  <2>3. Puts(g, w, i) /\ w \in Games
    BY <1>10, <2>2, WagerPuts, WagerMoves DEF SameButBet
  <2>4. w.bet = [g.bet EXCEPT ![i] = @ + put] /\ w.allin[i] /\ w.raiser = g.raiser
    <3>1. (IF put >= g.chips[i] THEN g.chips[i] ELSE put) = put
      BY <1>1
    <3> HIDE DEF put
    <3>2. /\ w.bet = [g.bet EXCEPT ![i] = @ + put] /\ w.raiser = g.raiser
          /\ w.allin[i] <=> (g.allin[i] \/ put = g.chips[i])
      BY <2>2, <3>1, <1>11
    <3> QED
      BY <3>2 DEF put
  <2> HIDE DEF put, w, owe
  <2>5. i \notin CanAct(w)
    BY <2>4 DEF CanAct
  <2>6. CASE ToCall(w, i) = 0 /\ w.bet[i] > 0
    BY <1>8, <2>1, <2>3, <2>5, <2>6
  <2>7. CASE w.bet[i] = 0
    <3>1. \A s \in Seats : s # i /\ Most(g, s) => Most(w, s)
      BY <1>1, <2>4, <2>7 DEF Most
    <3> QED
      BY <2>1, <2>3, <2>4, <2>5, <2>7, <3>1 DEF Raises
  <2>8. CASE ToCall(w, i) # 0
    <3>1. ~Most(w, i)
      BY <2>3, <2>8, ToCallIs
    <3>2. PICK j \in Seats : ~(w.bet[j] <= w.bet[i])
      BY <3>1 DEF Most
    <3>3. j # i /\ w.bet[j] = g.bet[j] /\ w.bet[i] \in Nat /\ g.bet[j] > w.bet[i]
      BY <1>1, <2>2, <2>4, <3>2
    <3>4. \A s \in Seats : s # i /\ Most(g, s) => Most(w, s)
      BY <1>1, <2>4, <3>3 DEF Most
    <3> QED
      BY <2>1, <2>3, <2>4, <2>5, <2>8, <3>4 DEF Raises
  <2>9. w.bet[i] \in Nat
    BY <2>3 DEF Games
  <2> QED
    BY <2>6, <2>7, <2>8, <2>9
<1> QED
  BY <1>6, <1>7, <1>9, <1>10 DEF Actions

-----------------------------------------------------------------------------
(* A running hand, between two moves.                                      *)

\* No seat has put in more than one that is still in the hand.
Led(g) == \E w \in Live(g) : \A j \in Seats : g.com[j] + g.bet[j] <= g.com[w] + g.bet[w]

\* On earlier streets everyone who can still act matched the highest, and so did
\* everyone who has bet on this one; who is all-in has nothing left.
Matched(g) ==
  /\ \A i \in Seats : i \in CanAct(g) \/ g.bet[i] > 0 => Full(g, i)
  /\ \A i \in Seats : g.allin[i] => g.chips[i] = 0

\* Everyone passed since the last raise owes nothing, and a seat that folded is
\* asked only when nothing has been bet.
InTurn(g) ==
  /\ g.folded[g.toAct] => g.bet = Zero
  /\ \A s \in CanAct(g) :
       s # g.raiser /\ Dist(g.raiser, s) < Dist(g.raiser, g.toAct) => Most(g, s)

\* The same when the player to act has just done so.
Moved(g) ==
  /\ g.toAct \in CanAct(g) => Most(g, g.toAct)
  /\ g.raiser # g.toAct =>
       \A s \in CanAct(g) :
         s # g.raiser /\ Dist(g.raiser, s) < Dist(g.raiser, g.toAct) => Most(g, s)

LEMMA PutsStep ==
  ASSUME NEW g \in Games, NEW p \in Games, NEW i \in Seats, g.user[i] # NoUser,
         Led(g), Matched(g), Puts(g, p, i), p.user = g.user, p.com = g.com
  PROVE  Led(p) /\ Matched(p) /\ CanAct(p) \subseteq CanAct(g)
<1>1. /\ g.chips \in [Seats -> Nat] /\ g.bet \in [Seats -> Nat] /\ g.com \in [Seats -> Nat]
      /\ p.chips \in [Seats -> Nat] /\ p.bet \in [Seats -> Nat]
  BY DEF Games
<1>2. PICK put \in Nat :
        /\ put <= g.chips[i] /\ (g.folded[i] => put = 0)
        /\ p.bet = [g.bet EXCEPT ![i] = @ + put]
        /\ p.chips = [g.chips EXCEPT ![i] = @ - put]
  BY DEF Puts
<1>3. /\ p.folded = g.folded /\ \A j \in Seats : g.allin[j] => p.allin[j]
      /\ \A j \in Seats : p.allin[j] => g.allin[j] \/ p.chips[j] = 0
  BY DEF Puts
<1>4. Live(p) = Live(g)
  BY <1>3 DEF Live, Occupied
<1>5. CanAct(p) \subseteq CanAct(g)
  <2>1. Live(g) \subseteq Seats
    BY DEF Live, Occupied
  <2> QED
    BY <1>3, <1>4, <2>1 DEF CanAct
<1>6. \A j \in Seats : p.bet[j] = (IF j = i THEN g.bet[i] + put ELSE g.bet[j])
                        /\ p.chips[j] = (IF j = i THEN g.chips[i] - put ELSE g.chips[j])
  BY <1>1, <1>2
<1>7. put > 0 => i \in CanAct(g)
  <2>1. g.allin[i] => put = 0
    BY <1>1, <1>2 DEF Matched
  <2> QED
    BY <1>2, <2>1 DEF CanAct, Live, Occupied
<1>8. Led(p)
  <2>1. PICK w \in Live(g) : \A j \in Seats : g.com[j] + g.bet[j] <= g.com[w] + g.bet[w]
    BY DEF Led
  <2>2. w \in Seats
    BY DEF Live, Occupied
  <2>3. \A j \in Seats : g.com[j] \in Nat /\ g.bet[j] \in Nat
    BY <1>1
  <2>4. CASE g.com[i] + g.bet[i] + put <= g.com[w] + g.bet[w]
    <3>1. p.bet[w] >= g.bet[w]
      BY <1>2, <1>6, <2>2, <2>3
    <3>2. ASSUME NEW j \in Seats PROVE p.com[j] + p.bet[j] <= p.com[w] + p.bet[w]
      <4>1. CASE j = i
        BY <1>2, <1>6, <2>2, <2>3, <2>4, <4>1
      <4>2. CASE j # i
        BY <1>2, <1>6, <2>1, <2>2, <2>3, <4>2
      <4> QED
        BY <4>1, <4>2
    <3> QED
      BY <1>4, <3>2 DEF Led
  <2>5. CASE ~(g.com[i] + g.bet[i] + put <= g.com[w] + g.bet[w])
    <3>1. put > 0
      BY <1>2, <2>1, <2>2, <2>3, <2>5
    <3>2. i \in Live(p)
      BY <1>4, <1>7, <3>1 DEF CanAct
    <3>3. ASSUME NEW j \in Seats PROVE p.com[j] + p.bet[j] <= p.com[i] + p.bet[i]
      <4>1. CASE j = i
        BY <1>2, <1>6, <2>3, <4>1
      <4>2. CASE j # i
        BY <1>2, <1>6, <2>1, <2>2, <2>3, <2>5, <4>2
      <4> QED
        BY <4>1, <4>2
    <3> QED
      BY <3>2, <3>3 DEF Led
  <2> QED
    BY <2>4, <2>5
<1>9. Matched(p)
  <2>1. \A j \in Seats : Full(p, j) <=> Full(g, j)
    BY DEF Full
  <2>2. ASSUME NEW j \in Seats, j \in CanAct(p) \/ p.bet[j] > 0 PROVE Full(g, j)
    <3>1. CASE j \in CanAct(g) \/ g.bet[j] > 0
      BY <3>1 DEF Matched
    <3>2. CASE ~(j \in CanAct(g) \/ g.bet[j] > 0)
      <4>1. p.bet[j] > 0 /\ ~(g.bet[j] > 0)
        BY <1>5, <2>2, <3>2
      <4>2. j = i
        BY <1>6, <4>1
      <4>3. p.bet[i] = g.bet[i] + put /\ g.bet[i] \in Nat
        BY <1>1, <1>6
      <4>4. put > 0
        BY <1>2, <4>1, <4>2, <4>3
      <4> QED
        BY <1>7, <3>2, <4>2, <4>4
    <3> QED
      BY <3>1, <3>2
  <2>3. ASSUME NEW j \in Seats, p.allin[j] PROVE p.chips[j] = 0
    <3>1. CASE g.allin[j]
      <4>1. g.chips[j] = 0
        BY <3>1 DEF Matched
      <4> QED
        BY <1>1, <1>2, <1>6, <4>1
    <3>2. CASE p.chips[j] = 0
      BY <3>2
    <3> QED
      BY <1>3, <2>3, <3>1, <3>2
  <2> QED
    BY <2>1, <2>2, <2>3 DEF Matched
<1> QED
  BY <1>5, <1>8, <1>9

\* Whatever the player to act does, short of folding for nothing.
LEMMA PlayKeepsOrder ==
  ASSUME NEW g \in Games, Led(g), Matched(g), InTurn(g), NEW i \in Seats, i = g.toAct,
         g.user[i] # NoUser, NEW a \in Actions,
         IF g.folded[i] THEN a = "CheckCall" ELSE a = "Fold" => ToCall(g, i) > 0
  PROVE  Led(Play(g, i, a)) /\ Matched(Play(g, i, a)) /\ Moved(Play(g, i, a))
<1> DEFINE p == Play(g, i, a)
<1>1. SameButBet(g, p, i)
  BY PlayMoves
<1>2. p \in Games /\ p.user = g.user /\ p.com = g.com /\ p.toAct = i
  BY <1>1 DEF SameButBet
<1>3. CASE a # "Fold"
  <2>1. g.folded[i] => a = "CheckCall" /\ Most(g, i)
    <3>1. g.bet = Zero => Most(g, i)
      BY DEF Zero, Most
    <3> QED
      BY <3>1 DEF InTurn
  <2>2. Puts(g, p, i) /\ Raises(g, p, i)
    BY <1>3, <2>1, PlayPuts
  <2> HIDE DEF p
  <2>3. Led(p) /\ Matched(p) /\ CanAct(p) \subseteq CanAct(g)
    BY <1>2, <2>2, PutsStep
  <2>4. Moved(p)
    <3>1. CanAct(g) \subseteq Seats
      BY DEF CanAct, Live, Occupied
    <3> QED
      BY <1>2, <2>2, <2>3, <3>1 DEF Moved, Raises, InTurn
  <2> QED
    BY <2>3, <2>4 DEF p
<1>4. CASE a = "Fold"
  <2>1. p = [g EXCEPT !.folded[i] = TRUE]
    BY <1>4 DEF Play
  <2> HIDE DEF p
  <2>2. /\ p.bet = g.bet /\ p.chips = g.chips /\ p.allin = g.allin /\ p.raiser = g.raiser
        /\ p.folded = [g.folded EXCEPT ![i] = TRUE] /\ g.folded \in [Seats -> BOOLEAN]
    BY <2>1 DEF Games
  <2>3. Live(p) = Live(g) \ {i} /\ CanAct(p) \subseteq CanAct(g) \ {i}
    BY <1>2, <2>2 DEF Live, Occupied, CanAct
  <2>4. ToCall(g, i) > 0
    BY <1>4
  <2>5. PICK m \in Seats : Most(g, m) /\ ToCall(g, i) = g.bet[m] - g.bet[i]
    BY ToCallIs
  <2>6. \A j \in Seats : g.com[j] \in Nat /\ g.bet[j] \in Nat
    BY DEF Games
  <2>7. g.bet[m] > g.bet[i] /\ g.bet[m] > 0
    BY <2>4, <2>5, <2>6
  <2>8. g.com[i] <= g.com[m]
    BY <2>7 DEF Matched, Full
  <2>9. Led(p)
    <3>1. PICK w \in Live(g) : \A j \in Seats : g.com[j] + g.bet[j] <= g.com[w] + g.bet[w]
      BY DEF Led
    <3>2. w # i
      BY <2>6, <2>7, <2>8, <3>1
    <3> QED
      BY <1>2, <2>2, <2>3, <3>1, <3>2 DEF Led
  <2>10. Matched(p)
    BY <1>2, <2>2, <2>3 DEF Matched, Full
  <2>11. Moved(p)
    BY <1>2, <2>2, <2>3 DEF Moved, InTurn, Most
  <2> QED
    BY <2>9, <2>10, <2>11 DEF p
<1> QED
  BY <1>3, <1>4

\* Of those who can still act, the ones passed on the way to the next owe
\* nothing; all of them when the way leads back to the raiser.
LEMMA PassedOweNothing ==
  ASSUME NEW g \in Games, g.toAct \in Seats, Moved(g), NEW s \in CanAct(g), s # g.raiser
  PROVE  LET c == FirstActiveAfter(g, g.toAct)
         IN  c = g.raiser \/ Dist(g.raiser, s) < Dist(g.raiser, c) => Most(g, s)
<1> DEFINE c == FirstActiveAfter(g, g.toAct)
           i == g.toAct
           r == g.raiser
<1>1. CanAct(g) \in SUBSET Seats /\ r \in Seats /\ i \in Seats
  BY DEF CanAct, Live, Occupied, Games
<1>2. CASE s = i
  BY <1>2 DEF Moved
<1>3. CASE s # i
  <2>1. c \in CanAct(g) /\ c # i /\ Dist(i, c) <= Dist(i, s)
    BY <1>1, <1>3, NoneBetween DEF FirstActiveAfter
  <2> HIDE DEF c
  <2>2. N \in Nat /\ r \in 0 .. N - 1 /\ i \in 0 .. N - 1 /\ s \in 0 .. N - 1 /\ c \in 0 .. N - 1
    BY <1>1, <2>1, SeatAssumption DEF Seats
  <2>3. r # i /\ Dist(r, s) < Dist(r, i) => Most(g, s)
    BY DEF Moved
  <2> HIDE DEF i, r
  <2>4. c = r => r # i /\ Dist(r, s) < Dist(r, i)
    BY <1>3, <2>1, <2>2 DEF Dist, r
  <2>5. Dist(r, s) < Dist(r, c) => r # i /\ Dist(r, s) < Dist(r, i)
    BY <1>3, <2>1, <2>2 DEF Dist, r
  <2>6. c = r \/ Dist(r, s) < Dist(r, c) => Most(g, s)
    BY <2>3, <2>4, <2>5
  <2> QED
    BY <2>6 DEF c, r
<1> QED
  BY <1>2, <1>3

\* A street that closes leaves everyone who can still act even.
LEMMA CloseStreetKeepsOrder ==
  ASSUME NEW g \in Games, Bare(g), g.street \in Betting, g.pot = Total(g.com),
         Led(g), Matched(g), \A s \in CanAct(g) : Most(g, s)
  PROVE  LET r == CloseStreet(g)
         IN  Led(r) /\ Matched(r) /\ InTurn(r) /\ r.pot = Total(r.com) /\ r.bet = Zero
<1> DEFINE r == CloseStreet(g)
           d == Collect(g)
           p == PotShown(g)
           next == NextStreet[g.street]
           a == FirstActiveAfter(g, g.button)
           c == [d EXCEPT !.pot = p]
<1>1. /\ d \in Games /\ d.bet = Zero /\ d.user = g.user /\ d.chips = g.chips
      /\ d.folded = g.folded
      /\ Total(d.com) = Total(g.com) + Total(g.bet)
      /\ \A i \in Seats : d.com[i] = g.com[i] + g.bet[i]
  BY CollectMoves
<1>2. d.allin = g.allin
  BY DEF Collect, Games
<1>3. p = g.pot + Total(g.bet)
  BY TableChipsNat
<1>4. r = IF next = "Showdown"
          THEN [c EXCEPT !.street = next]
          ELSE [c EXCEPT !.street = next, !.board = CardsOut[next], !.toAct = a, !.raiser = a]
  BY DEF CloseStreet
<1> HIDE DEF r, d, p, next, a
<1>5. /\ c.pot = p /\ c.bet = Zero /\ c.user = g.user /\ c.chips = g.chips
      /\ c.folded = g.folded /\ c.com = d.com /\ c.allin = g.allin
      /\ c = [user |-> c.user, chips |-> c.chips, bet |-> c.bet, com |-> c.com,
               folded |-> c.folded, allin |-> c.allin, dealt |-> c.dealt,
               button |-> c.button, toAct |-> c.toAct, raiser |-> c.raiser, pot |-> c.pot,
               street |-> c.street, board |-> c.board, paid |-> c.paid, hand |-> c.hand]
  BY <1>1, <1>2 DEF Games
<1> HIDE DEF c
<1>6. /\ r.pot = p /\ r.bet = Zero /\ r.user = g.user /\ r.chips = g.chips
      /\ r.folded = g.folded /\ r.com = d.com /\ r.allin = g.allin
  BY <1>4, <1>5
<1>7. \A j \in Seats : r.bet[j] = 0 /\ r.com[j] = g.com[j] + g.bet[j]
  BY <1>1, <1>6 DEF Zero
<1>8. \A j \in Seats : g.com[j] \in Nat /\ g.bet[j] \in Nat
  BY DEF Games
<1>9. Live(r) = Live(g) /\ CanAct(r) = CanAct(g) /\ Live(g) \subseteq Seats
  BY <1>6 DEF Live, Occupied, CanAct
<1>10. Led(r)
  <2>1. PICK w \in Live(g) : \A j \in Seats : g.com[j] + g.bet[j] <= g.com[w] + g.bet[w]
    BY DEF Led
  <2>2. \A j \in Seats : r.com[j] + r.bet[j] = g.com[j] + g.bet[j]
    BY <1>7, <1>8
  <2> QED
    BY <1>9, <2>1, <2>2 DEF Led
<1>11. Matched(r)
  <2>1. ASSUME NEW i \in CanAct(g) PROVE Full(r, i)
    <3>1. Full(g, i) /\ Most(g, i) /\ i \in Seats
      BY <1>9 DEF Matched, CanAct
    <3> QED
      BY <1>7, <1>8, <3>1 DEF Full, Most
  <2> QED
    BY <1>6, <1>7, <1>9, <2>1 DEF Matched
<1>12. InTurn(r)
  <2>1. \A s \in CanAct(r) : Most(r, s)
    BY <1>7, <1>9 DEF Most, CanAct
  <2> QED
    BY <1>6, <2>1 DEF InTurn
<1> QED
  BY <1>1, <1>3, <1>6, <1>10, <1>11, <1>12 DEF r

\* Two hands apart, nothing lies before the seats or in the pot.
Cleared(g) == g.pot = 0 /\ g.bet = Zero

\* The money of the table is with the players.
NoLoose(g) == \A i \in Seats : g.user[i] = NoUser => g.chips[i] = 0

\* What the seats were paid is what they put in, and no empty seat was paid.
Balanced(g) ==
  /\ Total(g.paid) = Total(g.com)
  /\ \A i \in Seats : g.user[i] = NoUser => g.paid[i] = 0

LEMMA EndByFoldClears ==
  ASSUME NEW g \in Games, Led(g), NoLoose(g), g.paid = Zero, g.pot = Total(g.com)
  PROVE  Cleared(EndByFold(g)) /\ NoLoose(EndByFold(g)) /\ Balanced(EndByFold(g))
<1> DEFINE r == EndByFold(g)
           w == Min(Live(g))
           c == Collect(g)
           p == PotShown(g)
<1>1. Live(g) # {} /\ Live(g) \subseteq Nat
  BY SeatsFinite DEF Led, Live, Occupied
<1>2. r = [c EXCEPT !.chips[w] = @ + p, !.paid[w] = p, !.pot = 0, !.street = "Ended"]
  BY <1>1 DEF EndByFold
<1>3. w \in Seats /\ g.user[w] # NoUser
  BY <1>1, MinIsMember DEF Live, Occupied
<1>4. /\ c \in Games /\ c.bet = Zero /\ c.user = g.user /\ c.chips = g.chips
      /\ c.paid = g.paid /\ Total(c.com) = Total(g.com) + Total(g.bet)
  BY CollectMoves
<1>5. p \in Nat /\ p = Total(c.com)
  BY <1>4, TableChipsNat DEF PotShown
<1> HIDE DEF r, c, w, p
<1>6. /\ r.chips = [g.chips EXCEPT ![w] = @ + p] /\ r.pot = 0 /\ r.bet = Zero
      /\ r.user = g.user /\ g.chips \in [Seats -> Nat]
      /\ r.paid = [g.paid EXCEPT ![w] = p] /\ r.com = c.com
  BY <1>2, <1>4 DEF Games
<1>7. \A i \in Seats : r.paid[i] = IF i = w THEN p ELSE 0
  BY <1>3, <1>6 DEF Zero
<1>8. Total(r.paid) = p
  <2> DEFINE f == r.paid
  <2>1. f \in [Seats -> Nat]
    BY <1>3, <1>5, <1>6 DEF Zero
  <2>2. Summable(f, Seats) /\ \A i \in Seats : i # w => f[i] = 0
    BY <1>7, <2>1, NatTotal
  <2>3. f[w] = p
    BY <1>3, <1>7
  <2> HIDE DEF f
  <2>4. SumOn(f, Seats) = f[w]
    BY <1>3, <2>2, SumOne
  <2> QED
    BY <2>3, <2>4, TotalIs DEF f
<1>9. Balanced(r)
  BY <1>3, <1>5, <1>6, <1>7, <1>8 DEF Balanced
<1> QED
  BY <1>3, <1>6, <1>9 DEF Cleared, NoLoose, r

\* What a move leaves behind: a hand that is over and cleared, or one in order.
LEMMA AfterActionKeepsOrder ==
  ASSUME NEW g \in Games, Bare(g), g.street \in Betting, g.toAct \in Seats,
         g.pot = Total(g.com), Led(g), Matched(g), Moved(g), NoLoose(g), g.paid = Zero
  PROVE  LET r == AfterAction(g)
         IN  /\ NoLoose(r)
             /\ r.street = "Ended" => Cleared(r) /\ Balanced(r)
             /\ r.street # "Ended" => Led(r) /\ Matched(r) /\ InTurn(r) /\ r.pot = Total(r.com)
             /\ r.street = "Showdown" => r.bet = Zero
<1> DEFINE r == AfterAction(g)
           c == FirstActiveAfter(g, g.toAct)
           close == CanAct(g) = {} \/ (c = g.raiser /\ ToCall(g, c) = 0)
<1>1. r = IF Cardinality(Live(g)) <= 1 THEN EndByFold(g)
          ELSE IF close THEN CloseStreet(g) ELSE [g EXCEPT !.toAct = c]
  BY DEF AfterAction
<1>2. c \in Seats /\ CanAct(g) \subseteq Seats
  BY FirstActiveInSeats DEF CanAct, Live, Occupied
<1>3. CanAct(g) # {} => c \in CanAct(g)
  BY <1>2, NextInIsMember DEF FirstActiveAfter
<1>4. ASSUME NEW s \in CanAct(g), s # g.raiser,
             c = g.raiser \/ Dist(g.raiser, s) < Dist(g.raiser, c)
      PROVE  Most(g, s)
  BY <1>4, PassedOweNothing
<1>5. close => \A s \in CanAct(g) : Most(g, s)
  <2> SUFFICES ASSUME c = g.raiser, ToCall(g, c) = 0, NEW s \in CanAct(g) PROVE Most(g, s)
    OBVIOUS
  <2>1. CASE s = c
    BY <1>2, <2>1, ToCallIs
  <2>2. CASE s # c
    BY <1>4, <2>2
  <2> QED
    BY <2>1, <2>2
<1> HIDE DEF c, close, r
<1>6. CASE Cardinality(Live(g)) <= 1
  <2>1. r = EndByFold(g)
    BY <1>1, <1>6
  <2>2. r.street = "Ended"
    BY <2>1, EndByFoldPays
  <2>3. Cleared(r) /\ NoLoose(r) /\ Balanced(r)
    BY <2>1, EndByFoldClears
  <2> QED
    BY <2>2, <2>3 DEF r
<1>7. CASE ~(Cardinality(Live(g)) <= 1) /\ close
  <2>1. r = CloseStreet(g)
    BY <1>1, <1>7
  <2>2. Total(g.com) <= g.pot
    <3>1. Total(g.com) \in Nat
      BY TableChipsNat
    <3> QED
      BY <3>1
  <2>3. r.street \in {"Flop", "Turn", "River", "Showdown"} /\ r.user = g.user /\ r.chips = g.chips
    BY <2>1, <2>2, CloseStreetMoves DEF Covered
  <2>4. Led(r) /\ Matched(r) /\ InTurn(r) /\ r.pot = Total(r.com) /\ r.bet = Zero
    BY <1>5, <1>7, <2>1, CloseStreetKeepsOrder
  <2>5. NoLoose(r)
    BY <2>3 DEF NoLoose
  <2> QED
    BY <2>3, <2>4, <2>5 DEF r
<1>8. CASE ~(Cardinality(Live(g)) <= 1) /\ ~close
  <2>1. r = [g EXCEPT !.toAct = c]
    BY <1>1, <1>8
  <2>2. /\ r.user = g.user /\ r.com = g.com /\ r.pot = g.pot /\ r.street = g.street
        /\ r.bet = g.bet /\ r.chips = g.chips /\ r.folded = g.folded /\ r.allin = g.allin
        /\ r.raiser = g.raiser /\ r.toAct = c
    BY <2>1 DEF Games
  <2>3. CanAct(g) # {}
    BY <1>8 DEF close
  <2>4. ~g.folded[c]
    BY <1>3, <2>3 DEF CanAct, Live
  <2>5. /\ Live(r) = Live(g) /\ CanAct(r) = CanAct(g)
        /\ \A j : (Full(r, j) <=> Full(g, j)) /\ (Most(r, j) <=> Most(g, j))
    BY <2>2 DEF Live, Occupied, CanAct, Full, Most
  <2>6. Led(r)
    BY <2>2, <2>5 DEF Led
  <2>7. Matched(r)
    BY <2>2, <2>5 DEF Matched
  <2>8. InTurn(r)
    BY <1>4, <2>2, <2>4, <2>5 DEF InTurn
  <2>9. NoLoose(r) /\ r.pot = Total(r.com) /\ r.street # "Ended" /\ r.street # "Showdown"
    BY <2>2 DEF NoLoose, Betting
  <2> QED
    BY <2>6, <2>7, <2>8, <2>9 DEF r
<1> QED
  BY <1>6, <1>7, <1>8

\* With the largest commitment still in the hand no side pot lacks a rival, and
\* the showdown pays out the whole pot.
LEMMA WinnersExist ==
  ASSUME NEW g \in Games, Bare(g), Led(g), g.bet = Zero, NEW str \in [Seats -> Strengths],
         NEW lvl \in Levels(g)
  PROVE  Winners(g, str, lvl) # {}
<1> DEFINE R == Rivals(g, lvl)
           T == {str[k] : k \in R}
<1>1. \A j \in Seats : g.com[j] \in Nat /\ g.bet[j] = 0 /\ str[j] \in Nat
  BY StrengthAssumption DEF Games, Zero
<1>2. PICK w \in Live(g) : \A j \in Seats : g.com[j] + g.bet[j] <= g.com[w] + g.bet[w]
  BY DEF Led
<1>3. PICK j \in Seats : lvl = g.com[j]
  BY DEF Levels, Occupied
<1>4. w \in Seats /\ g.com[j] <= g.com[w]
  <2>1. w \in Seats
    BY DEF Live, Occupied
  <2> QED
    BY <1>1, <1>2, <2>1
<1>5. w \in R /\ R \subseteq Seats
  BY <1>1, <1>3, <1>4 DEF Rivals, Payers, Live, Occupied
<1>6. T \in SUBSET Nat /\ T # {} /\ \A x \in T : x <= Total(str)
  <2>1. str \in [Seats -> Nat]
    BY StrengthAssumption
  <2> QED
    BY <1>5, <2>1, NatTotal
<1>7. Total(str) \in Nat
  BY StrengthAssumption, NatTotal
<1>8. Max(T) \in T /\ \A x \in T : x <= Max(T)
  <2> HIDE DEF T
  <2> QED
    BY <1>6, <1>7, MaxIsGreatest
<1>9. PICK k \in R : Max(T) = str[k]
  BY <1>8
<1>10. \A l \in R : str[l] <= str[k]
  BY <1>8, <1>9
<1> QED
  BY <1>9, <1>10 DEF Winners

LEMMA ShowdownPaysAll ==
  ASSUME NEW g \in Games, Bare(g), NoLoose(g), Led(g), g.bet = Zero, g.pot = Total(g.com),
         g.paid = Zero, NEW str \in [Seats -> Strengths]
  PROVE  LET r == ResolveShowdown(g, str)
         IN  /\ r.street = "Ended" /\ Cleared(r) /\ NoLoose(r) /\ Balanced(r)
             /\ TableChips(r) = TableChips(g)
<1> DEFINE r == ResolveShowdown(g, str)
           won == Winnings(g, str)
<1>1. g.chips \in [Seats -> Nat] /\ g.com \in [Seats -> Nat] /\ g.pot \in Nat
  BY DEF Games
<1>2. Committed(g) /\ g.button \in Seats
  BY DEF Committed, Bare, Games
<1>3. /\ won \in [Seats -> Nat] /\ Total(won) = Total(g.com)
      /\ \A i \in Seats : won[i] <= MatchedBy(g, i)
  BY <1>2, WinningsBounded, WinnersExist
<1>4. r = [g EXCEPT !.chips  = [i \in Seats |-> @[i] + won[i]],
                    !.paid   = [i \in Seats |-> IF won[i] > 0 THEN won[i] ELSE @[i]],
                    !.pot    = 0,
                    !.street = "Ended"]
  BY DEF ResolveShowdown
<1> HIDE DEF r, won
<1>5. /\ r.chips = [i \in Seats |-> g.chips[i] + won[i]]
      /\ r.pot = 0 /\ r.street = "Ended" /\ r.bet = Zero /\ r.user = g.user
      /\ r.paid = [i \in Seats |-> IF won[i] > 0 THEN won[i] ELSE g.paid[i]] /\ r.com = g.com
  BY <1>4 DEF Games
<1>6. Total(r.chips) = Total(g.chips) + Total(won)
  <2> DEFINE f == g.chips
             h == r.chips
  <2>1. \A i \in Seats : h[i] = f[i] + won[i]
    BY <1>5
  <2>2. Summable(f, Seats) /\ Summable(won, Seats)
    BY <1>1, <1>3, NatTotal
  <2> HIDE DEF f, h
  <2>3. SumOn(h, Seats) = SumOn(f, Seats) + SumOn(won, Seats)
    BY <2>1, <2>2, SumPlus
  <2> QED
    BY <2>3, TotalIs DEF f, h
<1>7. TableChips(r) = TableChips(g)
  <2>1. Total(won) \in Nat /\ Total(g.chips) \in Nat
    BY <1>1, <1>3, NatTotal
  <2> QED
    BY <1>1, <1>3, <1>5, <1>6, <2>1, TotalZero DEF TableChips, PotShown
<1>8. ASSUME NEW i \in Seats, g.user[i] = NoUser PROVE won[i] = 0
  <2> DEFINE m == Zero
  <2>1. g.com[i] = 0
    BY <1>8 DEF Bare
  <2>2. \A j \in Seats : m[j] = (IF g.com[j] < g.com[i] THEN g.com[j] ELSE g.com[i]) /\ m[j] \in Int
    BY <1>1, <2>1 DEF Zero
  <2>3. SumOn(m, Seats) = 0
    BY TotalIs, TotalZero
  <2> HIDE DEF m
  <2>4. MatchedBy(g, i) = 0
    BY <2>2, <2>3, SeatsFinite, MatchedByIs DEF Summable
  <2> QED
    BY <1>3, <2>4
<1>9. NoLoose(r)
  BY <1>5, <1>8 DEF NoLoose
<1>10. r.paid = won
  BY <1>3, <1>5 DEF Zero
<1>11. Balanced(r)
  BY <1>3, <1>5, <1>8, <1>10 DEF Balanced
<1> QED
  BY <1>5, <1>7, <1>9, <1>11 DEF Cleared, r

\* A running hand in which the betting is in order.
HandInOrder(g) == Led(g) /\ Matched(g) /\ InTurn(g) /\ g.pot = Total(g.com)

\* Between two commands of an orderly table.
OrderlyGame(g) ==
  /\ SoundGame(g) /\ NoLoose(g)
  /\ g.street = "Ended" => Cleared(g)
  /\ g.street # "Ended" => HandInOrder(g)

LEMMA PlayerActionKeepsOrder ==
  ASSUME NEW g, OrderlyGame(g), NEW i \in Seats, IsLegal(g, i), g.user[i] # NoUser,
         NEW a \in Actions,
         IF g.folded[i] THEN a = "CheckCall" ELSE a = "Fold" => ToCall(g, i) > 0,
         NEW r \in PlayerAction(g, i, a)
  PROVE  /\ OrderlyGame(r) /\ TableChips(r) = TableChips(g)
         /\ r.street = "Ended" => Balanced(r)
<1> DEFINE p == Play(g, i, a)
           q == AfterAction(p)
<1>1. /\ g \in Games /\ g.toAct = i /\ g.street \in Betting /\ g.paid = Zero
      /\ Covered(g) /\ Bare(g) /\ SoundGame(g) /\ NoLoose(g)
      /\ Led(g) /\ Matched(g) /\ InTurn(g) /\ g.pot = Total(g.com)
  BY DEF OrderlyGame, HandInOrder, SoundGame, IsLegal, Games, Streets, Betting
<1>2. SameButBet(g, p, i)
  BY <1>1, PlayMoves
<1>3. SoundGame(r)
  BY <1>1, PlayerActionKeeps
<1>4. q.street = "Showdown" => \E str \in [Seats -> Strengths] : r = ResolveShowdown(q, str)
  BY DEF PlayerAction
<1>5. q.street # "Showdown" => r = q
  BY DEF PlayerAction
<1>6. Led(p) /\ Matched(p) /\ Moved(p)
  BY <1>1, PlayKeepsOrder
<1> HIDE DEF p
<1>7. /\ p \in Games /\ Bare(p) /\ Covered(p) /\ p.paid = Zero /\ p.street \in Betting
      /\ p.toAct \in Seats /\ p.pot = Total(p.com) /\ TableChips(p) = TableChips(g)
  BY <1>1, <1>2 DEF SameButBet, Bare, Covered
<1>8. NoLoose(p)
  <2>1. p.user = g.user /\ \A j \in Seats : j # i => p.chips[j] = g.chips[j]
    BY <1>2 DEF SameButBet
  <2> QED
    BY <1>1, <2>1 DEF NoLoose
<1>9. /\ q \in Games /\ Bare(q) /\ TableChips(q) = TableChips(p)
      /\ q.street # "Ended" => q.paid = Zero
  BY <1>7, AfterActionKeeps
<1>10. /\ NoLoose(q)
       /\ q.street = "Ended" => Cleared(q) /\ Balanced(q)
       /\ q.street # "Ended" => Led(q) /\ Matched(q) /\ InTurn(q) /\ q.pot = Total(q.com)
       /\ q.street = "Showdown" => q.bet = Zero
  BY <1>6, <1>7, <1>8, AfterActionKeepsOrder
<1> HIDE DEF q
<1>11. CASE q.street = "Showdown"
  <2>1. PICK str \in [Seats -> Strengths] : r = ResolveShowdown(q, str)
    BY <1>4, <1>11
  <2>2. /\ r.street = "Ended" /\ Cleared(r) /\ NoLoose(r) /\ Balanced(r)
        /\ TableChips(r) = TableChips(q)
    BY <1>9, <1>10, <1>11, <2>1, ShowdownPaysAll
  <2> QED
    BY <1>3, <1>7, <1>9, <2>2 DEF OrderlyGame
<1>12. CASE q.street # "Showdown"
  BY <1>3, <1>5, <1>7, <1>9, <1>10, <1>12 DEF OrderlyGame, HandInOrder
<1> QED
  BY <1>11, <1>12

\* The blinds are posted and the turn is with the seat after the big blind.
LEMMA StartHandInOrder ==
  ASSUME NEW g, SoundGame(g), NoLoose(g), Cleared(g), CanStart(g)
  PROVE  /\ OrderlyGame(StartHand(g)) /\ StartHand(g).street = "Preflop"
         /\ TableChips(StartHand(g)) = TableChips(g)
<1> DEFINE headsUp == Cardinality(Occupied(g)) = 2
           button  == NextOccupied(g, g.button)
           sb      == IF headsUp THEN button ELSE NextOccupied(g, button)
           bb      == NextOccupied(g, sb)
           act     == IF headsUp THEN sb ELSE NextOccupied(g, bb)
           dealt   == [i \in Seats |-> i \in Occupied(g)]
           fresh   == [g EXCEPT !.bet = Zero, !.com = Zero, !.folded = None,
                           !.allin = None, !.paid = Zero, !.pot = 0,
                           !.hand = @ + 1, !.board = 0, !.button = button,
                           !.dealt = dealt,
                           !.street = "Preflop", !.raiser = bb, !.toAct = act]
           one     == Wager(fresh, sb, SmallBlind)
           two     == Wager(one, bb, BigBlind)
<1>1. StartHand(g) = two
  BY DEF StartHand, PostBlind
<1>2. g \in Games /\ g.button \in Seats /\ g.hand \in Nat
  BY DEF SoundGame, Games
<1>3. Occupied(g) # {} /\ Occupied(g) \in SUBSET Seats
  <2>1. Cardinality({}) = 0
    BY FS_EmptySet
  <2> QED
    BY <2>1 DEF CanStart, Occupied
<1>4. button \in Occupied(g) /\ button \in Seats
  BY <1>2, <1>3, NextOccupiedSits
<1> HIDE DEF button
<1>5. sb \in Occupied(g) /\ sb \in Seats
  BY <1>3, <1>4, NextOccupiedSits
<1>6. bb = NextOccupied(g, sb) /\ act = IF headsUp THEN sb ELSE NextOccupied(g, bb)
  OBVIOUS
<1> HIDE DEF sb
<1>7. bb \in Occupied(g) /\ bb \in Seats
  BY <1>3, <1>5, <1>6, NextOccupiedSits
<1> HIDE DEF bb
<1>8. act \in Seats
  BY <1>3, <1>5, <1>7, NextOccupiedSits
<1>9. ASSUME NEW s \in Occupied(g), s # bb
      PROVE  ~(Dist(bb, s) < Dist(bb, act))
  <2>0. N \in Nat /\ s \in 0 .. N - 1 /\ bb \in 0 .. N - 1 /\ act \in 0 .. N - 1
    BY <1>3, <1>7, <1>8, SeatAssumption DEF Seats
  <2>1. CASE headsUp
    <3>1. bb # sb
      <4>1. CASE s = sb
        BY <1>9, <4>1
      <4>2. CASE s # sb
        BY <1>3, <1>5, <1>6, <4>2, NoneBetween DEF NextOccupied
      <4> QED
        BY <4>1, <4>2
    <3>2. Cardinality({sb, bb}) = 2 /\ {sb, bb} \subseteq Occupied(g)
      <4>1. IsFiniteSet({sb}) /\ Cardinality({sb}) = 1
        BY FS_Singleton
      <4>2. {sb} \cup {bb} = {sb, bb} /\ bb \notin {sb}
        BY <3>1
      <4>3. Cardinality({sb} \cup {bb}) = Cardinality({sb}) + 1
        BY <4>1, <4>2, FS_AddElement
      <4> QED
        BY <1>5, <1>7, <4>1, <4>2, <4>3
    <3>3. IsFiniteSet(Occupied(g))
      BY <1>3, SeatsFinite, FS_Subset
    <3>4. Occupied(g) = {sb, bb}
      BY <2>1, <3>2, <3>3, FS_Subset
    <3>5. s = act
      BY <1>6, <1>9, <2>1, <3>4
    <3>6. Dist(bb, act) \in Int
      BY <2>0 DEF Dist
    <3> QED
      BY <3>5, <3>6
  <2>2. CASE ~headsUp
    <3>1. Dist(bb, act) <= Dist(bb, s)
      BY <1>3, <1>6, <1>7, <1>9, <2>2, NoneBetween DEF NextOccupied
    <3> QED
      BY <2>0, <3>1 DEF Dist
  <2> QED
    BY <2>1, <2>2
<1>10. /\ Zero \in [Seats -> Nat] /\ None \in [Seats -> BOOLEAN]
       /\ dealt \in [Seats -> BOOLEAN] /\ g.hand + 1 \in Nat /\ "Preflop" \in Streets
  BY <1>2 DEF Zero, None, Streets
<1> HIDE DEF act, headsUp, dealt
<1>11. fresh \in Games
  BY <1>2, <1>4, <1>7, <1>8, <1>10 DEF Games
<1>12. /\ fresh.bet = Zero /\ fresh.com = Zero /\ fresh.pot = 0 /\ fresh.user = g.user
       /\ fresh.chips = g.chips /\ fresh.folded = None /\ fresh.allin = None
       /\ fresh.raiser = bb /\ fresh.toAct = act
  BY <1>2 DEF Games
<1> HIDE DEF fresh
<1>13. TableChips(fresh) = TableChips(g)
  BY <1>12 DEF TableChips, PotShown, Cleared
<1>14. SmallBlind \in Nat /\ BigBlind \in Nat
  BY BlindAssumption
<1>15. /\ \A i \in Seats : fresh.allin[i] => fresh.chips[i] = 0
       /\ ~fresh.folded[sb] /\ ~fresh.folded[bb]
  BY <1>5, <1>7, <1>12 DEF None
<1>16. SameButBet(fresh, one, sb) /\ Puts(fresh, one, sb) /\ one.raiser = bb
  <2>1. one.raiser = fresh.raiser
    BY <1>5, <1>11, <1>14, WagerIs, Zenon
  <2> QED
    BY <1>5, <1>11, <1>12, <1>14, <1>15, <2>1, WagerMoves, WagerPuts
<1> HIDE DEF one
<1>17. one \in Games /\ one.folded = None /\ ~one.folded[bb]
  BY <1>12, <1>15, <1>16 DEF SameButBet, Puts
<1>18. SameButBet(one, two, bb) /\ Puts(one, two, bb) /\ two.raiser = bb
  <2>1. two.raiser = one.raiser
    BY <1>7, <1>17, <1>14, WagerIs, Zenon
  <2> QED
    BY <1>7, <1>14, <1>16, <1>17, <2>1, WagerMoves, WagerPuts
<1> HIDE DEF two
<1>19. /\ two \in Games /\ two.user = g.user /\ two.com = Zero /\ two.pot = 0
       /\ two.folded = None /\ two.toAct = act /\ TableChips(two) = TableChips(g)
       /\ \A j \in Seats : j # sb /\ j # bb => two.chips[j] = g.chips[j] /\ two.bet[j] = 0
  <2>1. \A j \in Seats : Zero[j] = 0
    BY DEF Zero
  <2>2. /\ two \in Games /\ two.user = one.user /\ two.com = one.com /\ two.pot = one.pot
        /\ two.toAct = one.toAct /\ TableChips(two) = TableChips(one)
        /\ \A j \in Seats : j # bb => two.bet[j] = one.bet[j] /\ two.chips[j] = one.chips[j]
    BY <1>18 DEF SameButBet
  <2>3. /\ one.user = g.user /\ one.com = Zero /\ one.pot = 0
        /\ one.toAct = act /\ TableChips(one) = TableChips(g)
        /\ \A j \in Seats : j # sb => one.bet[j] = Zero[j] /\ one.chips[j] = g.chips[j]
    BY <1>12, <1>13, <1>16 DEF SameButBet
  <2>4. two.folded = None
    BY <1>17, <1>18 DEF Puts
  <2> QED
    BY <2>1, <2>2, <2>3, <2>4
<1>20. NoLoose(two)
  <2> SUFFICES ASSUME NEW j \in Seats, two.user[j] = NoUser PROVE two.chips[j] = 0
    BY DEF NoLoose
  <2>1. j # sb /\ j # bb
    BY <1>5, <1>7, <1>19 DEF Occupied
  <2> QED
    BY <1>19, <2>1 DEF NoLoose
<1>21. \A j \in Seats : two.com[j] = 0 /\ two.bet[j] \in Nat /\ ~two.folded[j]
  BY <1>19 DEF Zero, None, Games
<1>22. Live(two) = Occupied(g)
  BY <1>19, <1>21 DEF Live, Occupied
<1>23. Led(two)
  <2>2. PICK m \in Seats : Most(two, m)
    BY <1>7, <1>19, ToCallIs
  <2>3. CASE m \in Occupied(g)
    <3>1. \A j \in Seats : two.com[j] + two.bet[j] <= two.com[m] + two.bet[m]
      BY <1>21, <2>2 DEF Most
    <3> QED
      BY <1>22, <2>3, <3>1 DEF Led
  <2>4. CASE m \notin Occupied(g)
    <3>1. two.bet[m] = 0
      BY <1>5, <1>7, <1>19, <2>4
    <3>2. \A j \in Seats : two.com[j] + two.bet[j] <= two.com[bb] + two.bet[bb]
      BY <1>7, <1>21, <2>2, <3>1 DEF Most
    <3> QED
      BY <1>7, <1>22, <3>2 DEF Led
  <2> QED
    BY <2>3, <2>4
<1>24. Matched(two)
  <2>1. \A j \in Seats : Full(two, j)
    BY <1>21 DEF Full
  <2>2. ASSUME NEW j \in Seats, two.allin[j] PROVE two.chips[j] = 0
    <3>1. \A i \in Seats : one.allin[i] => fresh.allin[i] \/ one.chips[i] = 0
      BY <1>16 DEF Puts
    <3>2. \A i \in Seats : ~fresh.allin[i]
      BY <1>12 DEF None
    <3>3. one.allin[j] => one.chips[j] = 0
      BY <3>1, <3>2
    <3>4. PICK put \in Nat : put <= one.chips[bb] /\ two.chips = [one.chips EXCEPT ![bb] = @ - put]
      BY <1>18 DEF Puts
    <3>5. one.chips \in [Seats -> Nat]
      BY <1>17 DEF Games
    <3>6. one.chips[j] = 0 => two.chips[j] = 0
      <4>1. CASE j = bb
        BY <1>7, <3>4, <3>5, <4>1
      <4>2. CASE j # bb
        BY <3>4, <3>5, <4>2
      <4> QED
        BY <4>1, <4>2
    <3>7. one.allin[j] \/ two.chips[j] = 0
      BY <1>18, <2>2 DEF Puts
    <3> QED
      BY <3>3, <3>6, <3>7
  <2> QED
    BY <2>1, <2>2 DEF Matched
<1>25. InTurn(two)
  <2>1. CanAct(two) \subseteq Occupied(g)
    BY <1>22 DEF CanAct
  <2> QED
    BY <1>8, <1>9, <1>18, <1>19, <1>21, <2>1 DEF InTurn
<1>26. SoundGame(two) /\ two.street = "Preflop"
  BY <1>1, StartHandKeeps
<1> QED
  BY <1>1, <1>19, <1>20, <1>23, <1>24, <1>25, <1>26, TotalZero DEF OrderlyGame, HandInOrder

\* Between two hands a player leaves with his stack and nothing else.
LEMMA StandBetweenHandsTakes ==
  ASSUME NEW g, OrderlyGame(g), g.street = "Ended", NEW i \in Seats
  PROVE  LET r == Stand(g, i)
         IN  /\ OrderlyGame(r) /\ r.street = "Ended"
             /\ TableChips(r) = TableChips(g) - g.chips[i]
<1> DEFINE r == Stand(g, i)
<1>1. /\ g.user \in [Seats -> Users \union {NoUser}]
      /\ g.chips \in [Seats -> Nat] /\ g.pot = 0 /\ g.bet = Zero /\ g \in Games /\ NoLoose(g)
  BY DEF OrderlyGame, SoundGame, Cleared, Games
<1>2. r = [g EXCEPT !.user[i] = NoUser, !.chips[i] = 0, !.bet[i] = 0,
                    !.com[i] = 0, !.folded[i] = FALSE, !.allin[i] = FALSE,
                    !.dealt[i] = FALSE]
  BY DEF Stand
<1>3. SoundGame(r)
  BY StandTakes DEF OrderlyGame
<1> HIDE DEF r
<1>4. /\ r.user = [g.user EXCEPT ![i] = NoUser] /\ r.chips = [g.chips EXCEPT ![i] = 0]
      /\ r.bet = [g.bet EXCEPT ![i] = 0] /\ r.pot = g.pot /\ r.street = "Ended"
  BY <1>1, <1>2 DEF Games
<1>5. r.bet = Zero
  BY <1>1, <1>4 DEF Zero
<1>6. NoLoose(r)
  BY <1>1, <1>4 DEF NoLoose
<1>7. Total(r.chips) = Total(g.chips) + (0 - g.chips[i])
  <2> DEFINE f == g.chips
             h == r.chips
             d == 0 - f[i]
  <2>1. \A x \in Seats : h[x] = IF x = i THEN f[x] + d ELSE f[x]
    BY <1>1, <1>4
  <2>2. f \in [Seats -> Nat] /\ d \in Int
    BY <1>1
  <2> HIDE DEF f, h, d
  <2>3. Total(h) = Total(f) + d
    BY <2>1, <2>2, TotalChanged
  <2> QED
    BY <2>3 DEF f, h, d
<1>8. TableChips(r) = TableChips(g) - g.chips[i]
  <2>1. Total(g.chips) \in Nat /\ g.chips[i] \in Nat
    BY <1>1, NatTotal
  <2> QED
    BY <1>1, <1>4, <1>5, <1>7, <2>1, TotalZero DEF TableChips, PotShown
<1> QED
  BY <1>3, <1>4, <1>5, <1>6, <1>8, <1>1 DEF OrderlyGame, Cleared, r

LEMMA SitBetweenHandsAdds ==
  ASSUME NEW g, OrderlyGame(g), g.street = "Ended", NEW i \in Seats, NEW u \in Users,
         NEW chips \in Nat, CanSit(g, i, chips)
  PROVE  LET r == Sit(g, i, u, chips)
         IN  /\ OrderlyGame(r) /\ r.street = "Ended"
             /\ TableChips(r) = TableChips(g) + chips
<1> DEFINE r == Sit(g, i, u, chips)
<1>1. /\ g.user \in [Seats -> Users \union {NoUser}] /\ g.chips \in [Seats -> Nat]
      /\ g.pot = 0 /\ g.bet = Zero /\ g \in Games /\ NoLoose(g) /\ SoundGame(g)
      /\ g.user[i] = NoUser /\ TableChips(g) \in Nat
  BY TableChipsNat DEF OrderlyGame, SoundGame, Cleared, Games, CanSit
<1>2. r = [g EXCEPT !.user[i] = u, !.chips[i] = chips, !.bet[i] = 0, !.com[i] = 0,
                    !.folded[i] = FALSE, !.allin[i] = FALSE, !.dealt[i] = FALSE]
  BY DEF Sit
<1>3. SoundGame(r) /\ TableChips(r) = TableChips(g) + (chips - g.chips[i])
  BY <1>1, SitAdds
<1> HIDE DEF r
<1>4. /\ r.user = [g.user EXCEPT ![i] = u] /\ r.chips = [g.chips EXCEPT ![i] = chips]
      /\ r.bet = [g.bet EXCEPT ![i] = 0] /\ r.pot = g.pot /\ r.street = "Ended"
  BY <1>1, <1>2 DEF Games
<1>5. r.bet = Zero
  BY <1>1, <1>4 DEF Zero
<1>6. NoLoose(r) /\ g.chips[i] = 0
  BY <1>1, <1>4, UserAssumption DEF NoLoose
<1> QED
  BY <1>1, <1>3, <1>4, <1>5, <1>6 DEF OrderlyGame, Cleared, r

ConservedInv ==
  /\ OrderlyGame(game)
  /\ timers \in {0, 1}
  /\ timers = 1 => ~Running
  /\ net \in Nat
  /\ TableChips(game) = net

LEMMA ConservedInit == Init => ConservedInv
<1> SUFFICES ASSUME Init PROVE ConservedInv
  OBVIOUS
<1>1. game = NewGame /\ timers = 0 /\ net = 0
  BY DEF Init
<1>2. SoundGame(game)
  BY ChipInit DEF ChipInv
<1>3. /\ NewGame.chips = Zero /\ NewGame.bet = Zero /\ NewGame.pot = 0
      /\ NewGame.street = "Ended"
  BY DEF NewGame
<1>4. TableChips(NewGame) = 0
  BY <1>3, TotalZero DEF TableChips, PotShown
<1>5. Cleared(NewGame) /\ NoLoose(NewGame)
  BY <1>3 DEF Cleared, NoLoose, Zero
<1> QED
  BY <1>1, <1>2, <1>3, <1>4, <1>5 DEF ConservedInv, OrderlyGame, Running

LEMMA ConservedRestoredInit == RestoredInit => ConservedInv
<1> SUFFICES ASSUME RestoredInit PROVE ConservedInv
  OBVIOUS
<1>1. timers = 0 /\ game \in RestoredTables /\ net = Total(game.chips)
  BY DEF RestoredInit
<1>2. SoundGame(game) /\ net \in Nat
  BY ChipRestoredInit DEF ChipInv
<1>3. PICK s \in Snapshots : game = RestoreFromSnapshot(s)
  BY <1>1 DEF RestoredTables
<1> DEFINE kept(i) == s.user[i] # NoUser /\ s.chips[i] > 0
<1>4. /\ game.user = [i \in Seats |-> IF kept(i) THEN s.user[i] ELSE NoUser]
      /\ game.chips = [i \in Seats |-> IF kept(i) THEN s.chips[i] ELSE 0]
      /\ game.bet = Zero /\ game.pot = 0 /\ game.street = "Ended"
  BY <1>3 DEF RestoreFromSnapshot, NewGame
<1>5. TableChips(game) = net
  BY <1>1, <1>2, <1>4, TotalZero DEF TableChips, PotShown
<1>6. NoLoose(game)
  BY <1>4 DEF NoLoose
<1> QED
  BY <1>1, <1>2, <1>4, <1>5, <1>6 DEF ConservedInv, OrderlyGame, Cleared, Running

LEMMA ConservedNext ==
  ASSUME ~SitInHand, ~StandInHand, ~Careless, ConservedInv, [Next]_vars
  PROVE  ConservedInv'
<1>1. /\ OrderlyGame(game) /\ timers \in {0, 1} /\ (timers = 1 => ~Running)
      /\ net \in Nat /\ TableChips(game) = net
  BY DEF ConservedInv
<1>2. ASSUME NEW u \in Users, NEW i \in Seats, NEW c \in BuyIns, SitCmd(u, i, c)
      PROVE  ConservedInv'
  <2> DEFINE s == Sit(game, i, u, c)
  <2>1. /\ CanSit(game, i, c) /\ game' = MaybeStart(s) /\ game.street = "Ended" /\ timers = 0
        /\ net' = net + c /\ timers' = timers /\ c \in Nat
    BY <1>2, BuyInAssumption DEF SitCmd, Running
  <2>2. OrderlyGame(s) /\ s.street = "Ended" /\ TableChips(s) = net + c
    BY <1>1, <2>1, SitBetweenHandsAdds
  <2> HIDE DEF s
  <2>3. SoundGame(s) /\ NoLoose(s) /\ Cleared(s)
    BY <2>2 DEF OrderlyGame
  <2>4. OrderlyGame(game') /\ TableChips(game') = net + c
    <3>1. CASE CanStart(s)
      <4>1. game' = StartHand(s)
        BY <2>1, <2>2, <3>1 DEF MaybeStart
      <4> QED
        BY <2>2, <2>3, <3>1, <4>1, StartHandInOrder
    <3>2. CASE ~CanStart(s)
      BY <2>1, <2>2, <3>2 DEF MaybeStart
    <3> QED
      BY <3>1, <3>2
  <2> QED
    BY <1>1, <2>1, <2>4 DEF ConservedInv
<1>3. ASSUME NEW u \in Users, StandCmd(u)
      PROVE  ConservedInv'
  <2> DEFINE i == Min(Seated(u))
  <2>1. i \in Seats
    <3>1. Seated(u) # {} /\ Seated(u) \subseteq Nat
      BY <1>3, SeatsFinite DEF StandCmd, Seated
    <3>2. i \in Seated(u)
      BY <3>1, MinIsMember
    <3> QED
      BY <3>2 DEF Seated
  <2>2. /\ game' = Stand(game, i) /\ net' = net - game.chips[i] /\ timers' = timers
        /\ game.street = "Ended"
    BY <1>3 DEF StandCmd, Running
  <2> HIDE DEF i
  <2>3. /\ OrderlyGame(game') /\ game'.street = "Ended"
        /\ TableChips(game') = TableChips(game) - game.chips[i]
    BY <1>1, <2>1, <2>2, StandBetweenHandsTakes
  <2>4. TableChips(game') \in Nat
    BY <2>3, TableChipsNat DEF OrderlyGame, SoundGame
  <2> QED
    BY <1>1, <2>2, <2>3, <2>4 DEF ConservedInv, Running
<1>4. ASSUME NEW u \in Users, NEW a \in Actions, ActionCmd(u, a)
      PROVE  ConservedInv'
  <2> DEFINE i == Min(Seated(u))
  <2>1. i \in Seats /\ game.user[i] # NoUser
    <3>1. Seated(u) # {} /\ Seated(u) \subseteq Nat
      BY <1>4, SeatsFinite DEF ActionCmd, Seated
    <3>2. i \in Seated(u)
      BY <3>1, MinIsMember
    <3> QED
      BY <3>2, UserAssumption DEF Seated
  <2>2. /\ IsLegal(game, i) /\ game' \in PlayerAction(game, i, a) /\ net' = net
        /\ IF game.folded[i] THEN a = "CheckCall" ELSE a = "Fold" => ToCall(game, i) > 0
        /\ IF game'.street = "Ended" THEN timers' = timers + 1 ELSE timers' = timers
    BY <1>4 DEF ActionCmd
  <2> HIDE DEF i
  <2>3. timers = 0
    BY <1>1, <2>2 DEF IsLegal, Running
  <2>4. OrderlyGame(game') /\ TableChips(game') = TableChips(game)
    BY <1>1, <2>1, <2>2, PlayerActionKeepsOrder
  <2> QED
    BY <1>1, <2>2, <2>3, <2>4 DEF ConservedInv, Running
<1>5. CASE StartHandCmd
  <2>1. /\ timers = 1 /\ timers' = 0 /\ net' = net /\ game.street = "Ended"
        /\ game' = IF CanStart(game) THEN StartHand(game) ELSE game
    BY <1>1, <1>5 DEF StartHandCmd, Running
  <2>2. SoundGame(game) /\ NoLoose(game) /\ Cleared(game)
    BY <1>1, <2>1 DEF OrderlyGame
  <2>3. OrderlyGame(game') /\ TableChips(game') = TableChips(game)
    BY <1>1, <2>1, <2>2, StartHandInOrder
  <2> QED
    BY <1>1, <2>1, <2>3 DEF ConservedInv
<1>6. CASE UNCHANGED vars
  BY <1>1, <1>6 DEF vars, ConservedInv, Running
<1> QED
  BY <1>2, <1>3, <1>4, <1>5, <1>6 DEF Next

\* In orderly play not a chip is lost: whatever the stacks, the short all-ins,
\* the ties and the odd chips, what was brought to the table and not taken away
\* is in the stacks, before the seats and in the pot (engine.go closeStreet,
\* resolveShowdown, endByFold).  Each of the three hypotheses is needed: a
\* player who leaves or folds for nothing can leave a side pot without a rival,
\* and one who sits down in the pause starts a hand that the delayed StartHand
\* deals over.
THEOREM OrderlyPlayConserves ==
  ASSUME ~SitInHand, ~StandInHand, ~Careless
  PROVE  (Spec => []ChipsConserved) /\ (RestoredSpec => []ChipsConserved)
<1>1. ConservedInv => ChipsConserved
  BY DEF ConservedInv, ChipsConserved
<1>2. ConservedInv /\ [Next]_vars => ConservedInv'
  BY ConservedNext
<1> QED
  BY <1>1, <1>2, ConservedInit, ConservedRestoredInit, PTL DEF Spec, RestoredSpec

\* In orderly play the pot is paid out (engine.go:511): no step changes what the
\* players together have brought and not taken, whatever the showdown.
THEOREM OrderlyPotPaidOut ==
  ASSUME ~SitInHand, ~StandInHand, ~Careless
  PROVE  (Spec => PotPaidOut) /\ (RestoredSpec => PotPaidOut)
<1>1. ASSUME ConservedInv, ConservedInv', [Next]_vars, Running, game'.street = "Ended"
      PROVE  TableChips(game') = TableChips(game)
  <2>1. net' = net
    <3>1. ASSUME NEW u \in Users, NEW i \in Seats, NEW c \in BuyIns PROVE ~SitCmd(u, i, c)
      BY <1>1 DEF SitCmd
    <3>2. ASSUME NEW u \in Users PROVE ~StandCmd(u)
      BY <1>1 DEF StandCmd
    <3> QED
      BY <1>1, <3>1, <3>2 DEF Next, ActionCmd, StartHandCmd, vars
  <2> QED
    BY <1>1, <2>1 DEF ConservedInv
<1>2. ConservedInv /\ [Next]_vars => ConservedInv'
  BY ConservedNext
<1>3. ConservedInv /\ [Next]_vars =>
        [Running /\ game'.street = "Ended" => TableChips(game') = TableChips(game)]_vars
  BY <1>1, <1>2
<1> QED
  BY <1>2, <1>3, ConservedInit, ConservedRestoredInit, PTL DEF Spec, RestoredSpec, PotPaidOut

LEMMA SettlementBalanced ==
  ASSUME ~SitInHand, ~StandInHand, ~Careless, ConservedInv, [Next]_vars, settled' # settled
  PROVE  LET m == Movements(game')
         IN  Total([i \in Seats |-> IF i \in DOMAIN m
                                    THEN m[i].wagered - m[i].payout ELSE 0]) = 0
<1>1. PICK u \in Users, a \in Actions : ActionCmd(u, a)
  BY DEF Next, SitCmd, StandCmd, StartHandCmd, vars
<1> DEFINE i == Min(Seated(u))
<1>2. i \in Seats /\ game.user[i] # NoUser
  <2>1. Seated(u) # {} /\ Seated(u) \subseteq Nat
    BY <1>1, SeatsFinite DEF ActionCmd, Seated
  <2>2. i \in Seated(u)
    BY <2>1, MinIsMember
  <2> QED
    BY <2>2, UserAssumption DEF Seated
<1>3. /\ IsLegal(game, i) /\ game' \in PlayerAction(game, i, a) /\ game'.street = "Ended"
      /\ IF game.folded[i] THEN a = "CheckCall" ELSE a = "Fold" => ToCall(game, i) > 0
  BY <1>1 DEF ActionCmd
<1> HIDE DEF i
<1>4. PICK g : g = game'
  OBVIOUS
<1>5. OrderlyGame(g) /\ Balanced(g)
  BY <1>2, <1>3, <1>4, PlayerActionKeepsOrder DEF ConservedInv
<1>6. g.com \in [Seats -> Nat] /\ g.paid \in [Seats -> Nat] /\ Bare(g)
  BY <1>5 DEF OrderlyGame, SoundGame, Games
<1> DEFINE m == Movements(g)
           net0 == [j \in Seats |-> IF j \in DOMAIN m THEN m[j].wagered - m[j].payout ELSE 0]
<1>7. \A j \in Seats : net0[j] = g.com[j] - g.paid[j]
  <2> TAKE j \in Seats
  <2>1. CASE j \in DOMAIN m
    BY <1>6, <2>1 DEF Movements
  <2>2. CASE j \notin DOMAIN m
    <3>1. g.com[j] = 0 /\ g.paid[j] = 0
      BY <1>5, <1>6, <2>2 DEF Movements, Occupied, Balanced, Bare
    <3> QED
      BY <2>2, <3>1
  <2> QED
    BY <2>1, <2>2
<1> HIDE DEF m
<1>8. net0 \in [Seats -> Int]
  <2>1. \A j \in Seats : net0[j] \in Int
    <3> HIDE DEF net0
    <3> QED
      BY <1>6, <1>7
  <2> QED
    BY <2>1
<1>9. Total(net0) = 0
  <2> DEFINE f == g.paid
             h == g.com
  <2>1. f \in [Seats -> Nat] /\ h \in [Seats -> Nat] /\ Total(f) = Total(h)
    BY <1>5, <1>6 DEF Balanced
  <2>2. \A j \in Seats : h[j] = net0[j] + f[j]
    <3> HIDE DEF net0
    <3> QED
      BY <1>6, <1>7
  <2> HIDE DEF f, h, net0
  <2>3. Summable(net0, Seats) /\ Summable(f, Seats) /\ Total(h) \in Nat
    BY <1>8, <2>1, NatTotal, SeatsFinite DEF Summable
  <2>4. SumOn(h, Seats) = SumOn(net0, Seats) + SumOn(f, Seats)
    BY <2>2, <2>3, SumPlus
  <2>5. SumOn(net0, Seats) \in Int
    BY <2>3, SumInt
  <2> QED
    BY <2>1, <2>3, <2>4, <2>5, TotalIs
<1> QED
  BY <1>4, <1>9 DEF m

\* In orderly play the audit row of a hand balances: what the movements of
\* buildSettlement say was wagered, by the players still seated, is what they say
\* was paid.
THEOREM LedgerBalances ==
  ASSUME ~SitInHand, ~StandInHand, ~Careless
  PROVE  (Spec => SettlementBalances) /\ (RestoredSpec => SettlementBalances)
<1>1. ConservedInv /\ [Next]_vars => ConservedInv'
  BY ConservedNext
<1>2. ConservedInv /\ [Next]_vars =>
        [settled' # settled =>
           LET m == Movements(game')
           IN  Total([i \in Seats |-> IF i \in DOMAIN m
                                      THEN m[i].wagered - m[i].payout ELSE 0]) = 0]_vars
  BY SettlementBalanced
<1> QED
  BY <1>1, <1>2, ConservedInit, ConservedRestoredInit, PTL
     DEF Spec, RestoredSpec, SettlementBalances
=============================================================================
