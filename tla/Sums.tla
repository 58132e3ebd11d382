-------------------------------- MODULE Sums --------------------------------
(***************************************************************************)
(* What the sums of the models are, for the proofs about them.             *)
(*                                                                         *)
(* The folds of the community modules are recursive functions on the       *)
(* subsets of a set, which take one chosen element off at a time.  That a  *)
(* function with this recursion exists, and what it computes, is shown by  *)
(* induction on the size of the set, as a smallest counterexample would    *)
(* have a smaller one: the naturals are well-founded.                      *)
(***************************************************************************)
EXTENDS Integers, FiniteSets, FiniteSetTheorems, WellFoundedInduction, TLAPS

Picked(s) == CHOOSE x \in s : TRUE

\* iter takes the elements of a set off one at a time and adds what f gives for them.
Adds(iter, f, S) ==
  iter = [s \in SUBSET S |-> IF s = {} THEN 0 ELSE f[Picked(s)] + iter[s \ {Picked(s)}]]

SumIter(f, S) == CHOOSE iter : Adds(iter, f, S)
SumOn(f, S) == SumIter(f, S)[S]

Summable(f, S) == IsFiniteSet(S) /\ \A x \in S : f[x] \in Int

\* A set of naturals has a smallest element.
LEMMA LeastNatural ==
  ASSUME NEW T \in SUBSET Nat, T # {}
  PROVE  \E m \in T : \A k \in T : m <= k
<1> DEFINE R == OpToRel(<, Nat)
<1>1. \A x, y \in Nat : <<y, x>> \in R <=> y < x
  BY DEF OpToRel
<1>2. IsWellFoundedOn(R, Nat)
  BY NatLessThanWellFounded
<1> HIDE DEF R
<1>3. PICK m \in T : \A k \in T : <<k, m>> \notin R
  BY <1>2, WFMin
<1>4. ASSUME NEW k \in T PROVE m <= k
  <2>1. k \in Nat /\ m \in Nat
    OBVIOUS
  <2>2. ~ (k < m)
    BY <1>1, <1>3, <2>1
  <2> QED
    BY <2>1, <2>2
<1> QED
  BY <1>4

LEMMA PickedLess ==
  ASSUME NEW S, IsFiniteSet(S), NEW s \in SUBSET S, s # {}
  PROVE  /\ Picked(s) \in s /\ Picked(s) \in S /\ s \ {Picked(s)} \in SUBSET S
         /\ Cardinality(s) \in Nat \ {0}
         /\ Cardinality(s \ {Picked(s)}) = Cardinality(s) - 1
<1>1. Picked(s) \in s
  BY DEF Picked
<1>2. IsFiniteSet(s)
  BY FS_Subset
<1>3. Cardinality(s) \in Nat /\ Cardinality(s) # 0
  BY <1>2, FS_CardinalityType, FS_EmptySet
<1>4. Cardinality(s \ {Picked(s)}) = Cardinality(s) - 1
  BY <1>1, <1>2, FS_RemoveElement
<1> QED
  BY <1>1, <1>3, <1>4

\* The sets of at most n elements.
UpTo(S, n) == {s \in SUBSET S : Cardinality(s) <= n}
AddsUpTo(g, f, S, n) ==
  \A s \in UpTo(S, n) : g[s] = IF s = {} THEN 0 ELSE f[Picked(s)] + g[s \ {Picked(s)}]

LEMMA SumUpTo ==
  ASSUME NEW S, NEW f, Summable(f, S), NEW n \in Nat
  PROVE  \E g \in [UpTo(S, n) -> Int] : AddsUpTo(g, f, S, n)
<1> DEFINE Bad == {m \in Nat : ~ \E g \in [UpTo(S, m) -> Int] : AddsUpTo(g, f, S, m)}
<1> SUFFICES ASSUME Bad # {} PROVE FALSE
  OBVIOUS
<1>0. Bad \in SUBSET Nat
  OBVIOUS
<1>1. PICK m \in Bad : \A k \in Bad : m <= k
  <2> HIDE DEF Bad
  <2> QED
    BY <1>0, LeastNatural
<1>2. IsFiniteSet(S) /\ m \in Nat
  BY DEF Summable
<1>3. CASE m = 0
  <2> DEFINE g == [s \in UpTo(S, m) |-> 0]
  <2>1. \A s \in UpTo(S, m) : s = {}
    <3> SUFFICES ASSUME NEW s \in UpTo(S, m), s # {} PROVE FALSE
      OBVIOUS
    <3>1. s \in SUBSET S /\ Cardinality(s) <= 0
      BY <1>3 DEF UpTo
    <3>2. Cardinality(s) \in Nat \ {0}
      BY <1>2, <3>1, PickedLess
    <3> QED
      BY <3>1, <3>2
  <2>2. g \in [UpTo(S, m) -> Int] /\ AddsUpTo(g, f, S, m)
    BY <2>1 DEF AddsUpTo
  <2> QED
    BY <2>2
<1>4. CASE m # 0
  <2>1. m - 1 \in Nat /\ m - 1 \notin Bad
    BY <1>1, <1>2, <1>4
  <2>2. PICK h \in [UpTo(S, m - 1) -> Int] : AddsUpTo(h, f, S, m - 1)
    BY <2>1
  <2> DEFINE g == [s \in UpTo(S, m) |-> IF s = {} THEN 0 ELSE f[Picked(s)] + h[s \ {Picked(s)}]]
  <2>3. ASSUME NEW s \in UpTo(S, m), s # {}
        PROVE  s \ {Picked(s)} \in UpTo(S, m - 1) /\ f[Picked(s)] \in Int /\ s \ {Picked(s)} \in UpTo(S, m)
    BY <1>2, <2>3, PickedLess DEF UpTo, Summable
  <2>4. g \in [UpTo(S, m) -> Int]
    BY <2>3
  <2>5. ASSUME NEW s \in UpTo(S, m - 1) PROVE g[s] = h[s] /\ s \in UpTo(S, m)
    <3>1. s \in UpTo(S, m)
      <4>1. Cardinality(s) \in Nat
        BY <1>2, FS_Subset, FS_CardinalityType DEF UpTo
      <4> QED
        BY <1>2, <4>1 DEF UpTo
    <3> QED
      BY <2>2, <3>1 DEF AddsUpTo
  <2>6. AddsUpTo(g, f, S, m)
    BY <2>3, <2>5 DEF AddsUpTo
  <2> QED
    BY <2>4, <2>6
<1> QED
  BY <1>3, <1>4

\* The sum of a finite set is the sum of what is left when one element is taken off.
LEMMA SumRecursion ==
  ASSUME NEW S, NEW f, Summable(f, S)
  PROVE  /\ SumIter(f, S) \in [SUBSET S -> Int]
         /\ SumIter(f, S)[{}] = 0
         /\ \A s \in SUBSET S : s # {} =>
              SumIter(f, S)[s] = f[Picked(s)] + SumIter(f, S)[s \ {Picked(s)}]
<1>1. IsFiniteSet(S) /\ Cardinality(S) \in Nat
  BY FS_CardinalityType DEF Summable
<1>2. UpTo(S, Cardinality(S)) = SUBSET S
  BY <1>1, FS_Subset DEF UpTo
<1>3. PICK g \in [SUBSET S -> Int] : AddsUpTo(g, f, S, Cardinality(S))
  BY <1>1, <1>2, SumUpTo
<1>4. g = [s \in SUBSET S |-> g[s]]
  BY <1>3
<1>5. Adds(g, f, S)
  BY <1>2, <1>3, <1>4 DEF Adds, AddsUpTo
<1>6. Adds(SumIter(f, S), f, S)
  BY <1>5 DEF SumIter
<1> DEFINE it == SumIter(f, S)
<1> HIDE DEF it
<1>7. /\ DOMAIN it = SUBSET S /\ it = [s \in SUBSET S |-> it[s]]
      /\ it[{}] = 0
      /\ \A s \in SUBSET S : s # {} => it[s] = f[Picked(s)] + it[s \ {Picked(s)}]
  BY <1>6 DEF Adds, it
<1>8. \A s \in SUBSET S : it[s] \in Int
  <2> DEFINE Bad == {m \in Nat : \E s \in SUBSET S : Cardinality(s) = m /\ it[s] \notin Int}
  <2>1. ASSUME NEW s \in SUBSET S, it[s] \notin Int PROVE FALSE
    <3>1. Cardinality(s) \in Bad
      BY <1>1, <2>1, FS_Subset, FS_CardinalityType
    <3>2. PICK m \in Bad : \A k \in Bad : m <= k
      <4>1. Bad \in SUBSET Nat
        OBVIOUS
      <4> HIDE DEF Bad
      <4> QED
        BY <3>1, <4>1, LeastNatural
    <3>3. PICK r \in SUBSET S : Cardinality(r) = m /\ it[r] \notin Int
      BY <3>2
    <3>4. r # {}
      <4>1. it[{}] \in Int
        BY <1>7
      <4> QED
        BY <3>3, <4>1
    <3>5. /\ f[Picked(r)] \in Int /\ r \ {Picked(r)} \in SUBSET S
          /\ m - 1 \in Nat /\ Cardinality(r \ {Picked(r)}) = m - 1
      BY <1>1, <3>3, <3>4, PickedLess DEF Summable
    <3>6. m - 1 \notin Bad
      BY <3>2, <3>5
    <3>7. it[r \ {Picked(r)}] \in Int
      BY <3>5, <3>6
    <3>8. it[r] = f[Picked(r)] + it[r \ {Picked(r)}]
      BY <1>7, <3>3, <3>4
    <3> QED
      BY <3>3, <3>5, <3>7, <3>8
  <2> QED
    BY <2>1
<1> QED
  BY <1>7, <1>8 DEF it

-----------------------------------------------------------------------------
\* What holds of {} and of a set whenever it holds without the picked element.
LEMMA SubsetsBySize ==
  ASSUME NEW S, IsFiniteSet(S), NEW Good, {} \in Good,
         \A s \in SUBSET S : s # {} /\ s \ {Picked(s)} \in Good => s \in Good
  PROVE  SUBSET S \subseteq Good
<1> DEFINE Bad == {m \in Nat : \E s \in SUBSET S : Cardinality(s) = m /\ s \notin Good}
<1> SUFFICES ASSUME NEW s \in SUBSET S, s \notin Good PROVE FALSE
  OBVIOUS
<1>1. Cardinality(s) \in Bad
  BY FS_Subset, FS_CardinalityType
<1>2. PICK m \in Bad : \A k \in Bad : m <= k
  <2>1. Bad \in SUBSET Nat
    OBVIOUS
  <2> HIDE DEF Bad
  <2> QED
    BY <1>1, <2>1, LeastNatural
<1>3. PICK r \in SUBSET S : Cardinality(r) = m /\ r \notin Good
  BY <1>2
<1>4. r # {}
  BY <1>3
<1>5. /\ r \ {Picked(r)} \in SUBSET S
      /\ m - 1 \in Nat /\ Cardinality(r \ {Picked(r)}) = m - 1
  BY <1>3, <1>4, PickedLess
<1>6. r \ {Picked(r)} \in Good
  BY <1>2, <1>5
<1> QED
  BY <1>3, <1>4, <1>6

LEMMA SumInt == ASSUME NEW S, NEW f, Summable(f, S) PROVE SumOn(f, S) \in Int
BY SumRecursion DEF SumOn

LEMMA SumEmpty == ASSUME NEW f PROVE SumOn(f, {}) = 0
<1>1. Summable(f, {})
  BY FS_EmptySet DEF Summable
<1> QED
  BY <1>1, SumRecursion DEF SumOn

\* The sum of a pointwise sum.
LEMMA SumPlus ==
  ASSUME NEW S, NEW f, NEW g, NEW h, Summable(f, S), Summable(g, S),
         \A x \in S : h[x] = f[x] + g[x]
  PROVE  Summable(h, S) /\ SumOn(h, S) = SumOn(f, S) + SumOn(g, S)
<1>1. Summable(h, S) /\ IsFiniteSet(S)
  BY DEF Summable
<1> DEFINE F == SumIter(f, S)
           G == SumIter(g, S)
           H == SumIter(h, S)
           Good == {s \in SUBSET S : H[s] = F[s] + G[s]}
<1>2. /\ F \in [SUBSET S -> Int] /\ F[{}] = 0
      /\ \A s \in SUBSET S : s # {} => F[s] = f[Picked(s)] + F[s \ {Picked(s)}]
  BY SumRecursion
<1>3. /\ G \in [SUBSET S -> Int] /\ G[{}] = 0
      /\ \A s \in SUBSET S : s # {} => G[s] = g[Picked(s)] + G[s \ {Picked(s)}]
  BY SumRecursion
<1>4. /\ H \in [SUBSET S -> Int] /\ H[{}] = 0
      /\ \A s \in SUBSET S : s # {} => H[s] = h[Picked(s)] + H[s \ {Picked(s)}]
  BY <1>1, SumRecursion
<1> HIDE DEF F, G, H
<1>5. {} \in Good
  BY <1>2, <1>3, <1>4
<1>6. ASSUME NEW s \in SUBSET S, s # {}, s \ {Picked(s)} \in Good PROVE s \in Good
  <2>1. Picked(s) \in S /\ s \ {Picked(s)} \in SUBSET S
    BY <1>1, <1>6, PickedLess
  <2>2. /\ f[Picked(s)] \in Int /\ g[Picked(s)] \in Int /\ h[Picked(s)] = f[Picked(s)] + g[Picked(s)]
        /\ F[s \ {Picked(s)}] \in Int /\ G[s \ {Picked(s)}] \in Int
    BY <1>2, <1>3, <2>1 DEF Summable
  <2>3. H[s \ {Picked(s)}] = F[s \ {Picked(s)}] + G[s \ {Picked(s)}]
    BY <1>6
  <2> DEFINE r == s \ {Picked(s)}
             p == Picked(s)
  <2>4. F[s] = f[p] + F[r] /\ G[s] = g[p] + G[r] /\ H[s] = h[p] + H[r]
    BY <1>2, <1>3, <1>4, <1>6
  <2> HIDE DEF r, p
  <2>5. H[s] = F[s] + G[s]
    BY <2>2, <2>3, <2>4 DEF r, p
  <2> QED
    BY <2>5
<1>7. SUBSET S \subseteq Good
  <2> HIDE DEF Good
  <2> QED
    BY <1>1, <1>5, <1>6, SubsetsBySize
<1>8. H[S] = F[S] + G[S]
  BY <1>7
<1> QED
  BY <1>1, <1>8 DEF SumOn, F, G, H

\* A sum is monotonous, so one of naturals is a natural.
LEMMA SumAtMost ==
  ASSUME NEW S, NEW f, NEW g, Summable(f, S), Summable(g, S),
         \A x \in S : f[x] <= g[x]
  PROVE  SumOn(f, S) <= SumOn(g, S)
<1>1. IsFiniteSet(S)
  BY DEF Summable
<1> DEFINE F == SumIter(f, S)
           G == SumIter(g, S)
           Good == {s \in SUBSET S : F[s] <= G[s]}
<1>2. /\ F \in [SUBSET S -> Int] /\ F[{}] = 0
      /\ \A s \in SUBSET S : s # {} => F[s] = f[Picked(s)] + F[s \ {Picked(s)}]
  BY SumRecursion
<1>3. /\ G \in [SUBSET S -> Int] /\ G[{}] = 0
      /\ \A s \in SUBSET S : s # {} => G[s] = g[Picked(s)] + G[s \ {Picked(s)}]
  BY SumRecursion
<1> HIDE DEF F, G
<1>5. {} \in Good
  BY <1>2, <1>3
<1>6. ASSUME NEW s \in SUBSET S, s # {}, s \ {Picked(s)} \in Good PROVE s \in Good
  <2> DEFINE r == s \ {Picked(s)}
             p == Picked(s)
  <2>1. p \in S /\ r \in SUBSET S
    BY <1>1, <1>6, PickedLess
  <2>2. F[r] <= G[r]
    BY <1>6
  <2>3. F[s] = f[p] + F[r] /\ G[s] = g[p] + G[r]
    BY <1>2, <1>3, <1>6
  <2> HIDE DEF r, p
  <2>4. f[p] \in Int /\ g[p] \in Int /\ f[p] <= g[p] /\ F[r] \in Int /\ G[r] \in Int
    BY <1>2, <1>3, <2>1 DEF Summable
  <2>5. F[s] <= G[s]
    BY <2>2, <2>3, <2>4
  <2> QED
    BY <2>5
<1>7. SUBSET S \subseteq Good
  <2> HIDE DEF Good
  <2> QED
    BY <1>1, <1>5, <1>6, SubsetsBySize
<1>8. F[S] <= G[S]
  BY <1>7
<1> QED
  BY <1>8 DEF SumOn, F, G

LEMMA SumSame ==
  ASSUME NEW S, NEW f, NEW g, Summable(f, S), \A x \in S : f[x] = g[x]
  PROVE  Summable(g, S) /\ SumOn(f, S) = SumOn(g, S)
<1>1. Summable(g, S)
  BY DEF Summable
<1>2. \A x \in S : f[x] <= g[x] /\ g[x] <= f[x]
  BY DEF Summable
<1>3. SumOn(f, S) <= SumOn(g, S) /\ SumOn(g, S) <= SumOn(f, S)
  BY <1>1, <1>2, SumAtMost
<1> QED
  BY <1>1, <1>3, SumInt

\* A function that is 0 but at i.
LEMMA SumOne ==
  ASSUME NEW S, NEW f, Summable(f, S), NEW i \in S, \A x \in S : x # i => f[x] = 0
  PROVE  SumOn(f, S) = f[i]
<1>1. IsFiniteSet(S) /\ f[i] \in Int
  BY DEF Summable
<1> DEFINE F == SumIter(f, S)
           Good == {s \in SUBSET S : F[s] = IF i \in s THEN f[i] ELSE 0}
<1>2. /\ F \in [SUBSET S -> Int] /\ F[{}] = 0
      /\ \A s \in SUBSET S : s # {} => F[s] = f[Picked(s)] + F[s \ {Picked(s)}]
  BY SumRecursion
<1> HIDE DEF F
<1>5. {} \in Good
  BY <1>2
<1>6. ASSUME NEW s \in SUBSET S, s # {}, s \ {Picked(s)} \in Good PROVE s \in Good
  <2> DEFINE r == s \ {Picked(s)}
             p == Picked(s)
  <2>1. p \in S /\ p \in s /\ r \in SUBSET S
    BY <1>1, <1>6, PickedLess
  <2>2. F[r] = IF i \in r THEN f[i] ELSE 0
    BY <1>6
  <2>3. F[s] = f[p] + F[r]
    BY <1>2, <1>6
  <2>4. i \in r <=> (i \in s /\ i # p)
    OBVIOUS
  <2> HIDE DEF r, p
  <2>5. CASE i = p
    BY <1>1, <2>1, <2>2, <2>3, <2>4, <2>5
  <2>6. CASE i # p
    <3>1. f[p] = 0
      BY <2>1, <2>6
    <3>2. F[s] = IF i \in s THEN f[i] ELSE 0
      BY <1>1, <2>2, <2>3, <2>4, <2>6, <3>1
    <3> QED
      BY <3>2
  <2> QED
    BY <2>5, <2>6
<1>7. SUBSET S \subseteq Good
  <2> HIDE DEF Good
  <2> QED
    BY <1>1, <1>5, <1>6, SubsetsBySize
<1>8. F[S] = f[i]
  BY <1>7
<1> QED
  BY <1>8 DEF SumOn, F

\* One term changes by d.
LEMMA SumChanged ==
  ASSUME NEW S, NEW f, NEW g, Summable(f, S), NEW i \in S, NEW d \in Int,
         \A x \in S : g[x] = IF x = i THEN f[x] + d ELSE f[x]
  PROVE  Summable(g, S) /\ SumOn(g, S) = SumOn(f, S) + d
<1> DEFINE e == [x \in S |-> IF x = i THEN d ELSE 0]
<1>1. /\ Summable(e, S) /\ e[i] = d
      /\ \A x \in S : x # i => e[x] = 0
      /\ \A x \in S : g[x] = f[x] + e[x]
  BY DEF Summable
<1> HIDE DEF e
<1>2. SumOn(e, S) = d
  BY <1>1, SumOne
<1>3. Summable(g, S) /\ SumOn(g, S) = SumOn(f, S) + SumOn(e, S)
  BY <1>1, SumPlus
<1> QED
  BY <1>2, <1>3

\* No term of a sum of naturals is more than the sum.
LEMMA SumCovers ==
  ASSUME NEW S, NEW f, IsFiniteSet(S), \A x \in S : f[x] \in Nat
  PROVE  Summable(f, S) /\ SumOn(f, S) \in Nat /\ \A i \in S : f[i] <= SumOn(f, S)
<1>1. Summable(f, S)
  BY DEF Summable
<1> DEFINE z == [x \in S |-> 0]
<1>2. Summable(z, S) /\ \A x \in S : z[x] = 0
  BY DEF Summable
<1>3. SumOn(z, S) + SumOn(z, S) = SumOn(z, S)
  <2>1. \A x \in S : z[x] = z[x] + z[x]
    BY <1>2
  <2> HIDE DEF z
  <2> QED
    BY <1>2, <2>1, SumPlus
<1>4. SumOn(z, S) = 0
  BY <1>2, <1>3, SumInt
<1>5. \A x \in S : z[x] <= f[x]
  OBVIOUS
<1>6. SumOn(z, S) <= SumOn(f, S)
  <2> HIDE DEF z
  <2> QED
    BY <1>1, <1>2, <1>5, SumAtMost
<1>7. SumOn(f, S) \in Nat
  BY <1>1, <1>4, <1>6, SumInt
<1>8. ASSUME NEW i \in S PROVE f[i] <= SumOn(f, S)
  <2> DEFINE e == [x \in S |-> IF x = i THEN f[i] ELSE 0]
  <2>1. /\ Summable(e, S) /\ e[i] = f[i]
        /\ \A x \in S : x # i => e[x] = 0
        /\ \A x \in S : e[x] <= f[x]
    BY DEF Summable
  <2> HIDE DEF e
  <2> QED
    BY <1>1, <2>1, SumOne, SumAtMost
<1> QED
  BY <1>1, <1>7, <1>8

\* Whatever adds the same terms is this sum.
LEMMA SumUnique ==
  ASSUME NEW S, NEW f, Summable(f, S), NEW iter, Adds(iter, f, S)
  PROVE  iter[S] = SumOn(f, S)
<1>1. IsFiniteSet(S)
  BY DEF Summable
<1> DEFINE F == SumIter(f, S)
           Good == {s \in SUBSET S : F[s] = iter[s]}
<1>2. /\ F[{}] = 0
      /\ \A s \in SUBSET S : s # {} => F[s] = f[Picked(s)] + F[s \ {Picked(s)}]
  BY SumRecursion
<1>3. /\ iter[{}] = 0
      /\ \A s \in SUBSET S : s # {} => iter[s] = f[Picked(s)] + iter[s \ {Picked(s)}]
  BY DEF Adds
<1> HIDE DEF F
<1>4. {} \in Good
  BY <1>2, <1>3
<1>5. \A s \in SUBSET S : s # {} /\ s \ {Picked(s)} \in Good => s \in Good
  BY <1>2, <1>3
<1>6. SUBSET S \subseteq Good
  <2> HIDE DEF Good
  <2> QED
    BY <1>1, <1>4, <1>5, SubsetsBySize
<1>7. F[S] = iter[S]
  BY <1>6
<1> QED
  BY <1>7 DEF SumOn, F

\* Something that may stand for the recursion of a sum is one.
LEMMA SumExists ==
  ASSUME NEW S, NEW f, Summable(f, S)
  PROVE  Adds(SumIter(f, S), f, S)
<1>1. \E iter : Adds(iter, f, S)
  <2> DEFINE F == SumIter(f, S)
  <2>1. /\ F \in [SUBSET S -> Int] /\ F[{}] = 0
        /\ \A s \in SUBSET S : s # {} => F[s] = f[Picked(s)] + F[s \ {Picked(s)}]
    BY SumRecursion
  <2> HIDE DEF F
  <2>2. Adds(F, f, S)
    BY <2>1 DEF Adds
  <2> QED
    BY <2>2
<1> QED
  BY <1>1 DEF SumIter

\* A sum over a part of the set is what the larger sum's recursion gives for it.
LEMMA SumPart ==
  ASSUME NEW S, NEW f, Summable(f, S), NEW s \in SUBSET S
  PROVE  Summable(f, s) /\ SumIter(f, S)[s] = SumOn(f, s)
<1> DEFINE F == SumIter(f, S)
           part == [t \in SUBSET s |-> F[t]]
<1>1. /\ F[{}] = 0
      /\ \A t \in SUBSET S : t # {} => F[t] = f[Picked(t)] + F[t \ {Picked(t)}]
  BY SumRecursion
<1>2. Summable(f, s)
  BY FS_Subset DEF Summable
<1> HIDE DEF F
<1>3. \A t \in SUBSET s : part[t] = IF t = {} THEN 0 ELSE f[Picked(t)] + part[t \ {Picked(t)}]
  BY <1>1
<1>4. Adds(part, f, s)
  BY <1>3 DEF Adds
<1>5. part[s] = SumOn(f, s)
  <2> HIDE DEF part
  <2> QED
    BY <1>2, <1>4, SumUnique
<1> QED
  BY <1>2, <1>5 DEF F

\* Any element may be taken off first.
LEMMA SumRemove ==
  ASSUME NEW S, NEW f, Summable(f, S), NEW y \in S
  PROVE  SumOn(f, S) = f[y] + SumOn(f, S \ {y})
<1> DEFINE F == SumIter(f, S)
           Bad == {m \in Nat : \E s \in SUBSET S : \E z \in s :
                     Cardinality(s) = m /\ F[s] # f[z] + F[s \ {z}]}
<1>1. IsFiniteSet(S) /\ \A x \in S : f[x] \in Int
  BY DEF Summable
<1>2. /\ F \in [SUBSET S -> Int]
      /\ \A s \in SUBSET S : s # {} => F[s] = f[Picked(s)] + F[s \ {Picked(s)}]
  BY SumRecursion
<1> HIDE DEF F
<1>3. Bad = {}
  <2> SUFFICES ASSUME Bad # {} PROVE FALSE
    OBVIOUS
  <2>1. PICK m \in Bad : \A k \in Bad : m <= k
    <3>1. Bad \in SUBSET Nat
      OBVIOUS
    <3> HIDE DEF Bad
    <3> QED
      BY <3>1, LeastNatural
  <2>2. PICK s \in SUBSET S : \E z \in s : Cardinality(s) = m /\ F[s] # f[z] + F[s \ {z}]
    BY <2>1
  <2>3. PICK z \in s : Cardinality(s) = m /\ F[s] # f[z] + F[s \ {z}]
    BY <2>2
  <2> DEFINE p == Picked(s)
  <2>4. /\ p \in s /\ s \ {p} \in SUBSET S /\ F[s] = f[p] + F[s \ {p}]
        /\ m - 1 \in Nat /\ Cardinality(s \ {p}) = m - 1
    <3>1. s # {}
      BY <2>3
    <3>2. /\ p \in s /\ s \ {p} \in SUBSET S /\ Cardinality(s) \in Nat \ {0}
          /\ Cardinality(s \ {p}) = Cardinality(s) - 1
      BY <1>1, <3>1, PickedLess
    <3>3. F[s] = f[p] + F[s \ {p}]
      BY <1>2, <3>1
    <3> QED
      BY <2>3, <3>2, <3>3
  <2> HIDE DEF p
  <2>5. p # z
    BY <2>3, <2>4
  <2>6. Cardinality(s \ {z}) = m - 1 /\ s \ {z} \in SUBSET S
    <3>1. IsFiniteSet(s)
      BY <1>1, FS_Subset
    <3> QED
      BY <2>3, <3>1, FS_RemoveElement
  <2>7. m - 1 \notin Bad
    <3>1. m \in Nat /\ ~(m <= m - 1)
      BY <2>1
    <3> HIDE DEF Bad
    <3> QED
      BY <2>1, <3>1
  <2>8. F[s \ {p}] = f[z] + F[(s \ {p}) \ {z}]
    BY <2>3, <2>4, <2>5, <2>7
  <2>9. F[s \ {z}] = f[p] + F[(s \ {z}) \ {p}]
    BY <2>4, <2>5, <2>6, <2>7
  <2>10. (s \ {p}) \ {z} = (s \ {z}) \ {p} /\ (s \ {p}) \ {z} \in SUBSET S
    OBVIOUS
  <2>11. /\ f[p] \in Int /\ f[z] \in Int /\ F[(s \ {p}) \ {z}] \in Int
         /\ F[s \ {p}] \in Int /\ F[s \ {z}] \in Int
    BY <1>1, <1>2, <2>3, <2>4, <2>6, <2>10
  <2> DEFINE a == f[p]
             b == f[z]
             r == F[(s \ {p}) \ {z}]
  <2>12. F[s] = a + (b + r) /\ F[s \ {z}] = a + r /\ a \in Int /\ b \in Int /\ r \in Int
    BY <2>4, <2>8, <2>9, <2>10, <2>11
  <2>13. F[s] # b + F[s \ {z}]
    BY <2>3
  <2> HIDE DEF a, b, r
  <2> QED
    BY <2>12, <2>13
<1>4. F[S] = f[y] + F[S \ {y}]
  <2>1. Cardinality(S) \in Nat /\ S \in SUBSET S
    BY <1>1, FS_CardinalityType
  <2> QED
    BY <1>3, <2>1
<1>5. SumOn(f, S) = F[S] /\ F[S \ {y}] = SumOn(f, S \ {y})
  BY SumPart DEF SumOn, F
<1> QED
  BY <1>4, <1>5

\* The same amount for every element of a part.
LEMMA SumCount ==
  ASSUME NEW S, IsFiniteSet(S), NEW A \in SUBSET S, NEW k \in Nat, NEW f,
         \A x \in S : f[x] = IF x \in A THEN k ELSE 0
  PROVE  Summable(f, S) /\ SumOn(f, S) = k * Cardinality(A)
<1>1. Summable(f, S)
  BY DEF Summable
<1> DEFINE F == SumIter(f, S)
           Good == {s \in SUBSET S : F[s] = k * Cardinality(s \cap A)}
<1>2. /\ F \in [SUBSET S -> Int] /\ F[{}] = 0
      /\ \A s \in SUBSET S : s # {} => F[s] = f[Picked(s)] + F[s \ {Picked(s)}]
  BY <1>1, SumRecursion
<1> HIDE DEF F
<1>3. {} \in Good
  <2>1. {} \cap A = {} /\ Cardinality({}) = 0
    BY FS_EmptySet
  <2> QED
    BY <1>2, <2>1
<1>4. ASSUME NEW s \in SUBSET S, s # {}, s \ {Picked(s)} \in Good PROVE s \in Good
  <2> DEFINE r == s \ {Picked(s)}
             p == Picked(s)
  <2>1. p \in S /\ p \in s /\ r \in SUBSET S
    BY <1>4, PickedLess
  <2>2. F[r] = k * Cardinality(r \cap A)
    BY <1>4
  <2>3. F[s] = f[p] + F[r]
    BY <1>2, <1>4
  <2>4. IsFiniteSet(r \cap A) /\ IsFiniteSet(s \cap A)
    BY FS_Subset
  <2>5. Cardinality(r \cap A) \in Nat /\ Cardinality(s \cap A) \in Nat
    BY <2>4, FS_CardinalityType
  <2>6. p \in A => Cardinality(r \cap A) = Cardinality(s \cap A) - 1
    <3>1. p \in A => r \cap A = (s \cap A) \ {p} /\ p \in s \cap A
      BY <2>1
    <3> DEFINE B == s \cap A
    <3>2. IsFiniteSet(B)
      BY <2>4
    <3> HIDE DEF r, p, B
    <3>3. p \in B => Cardinality(B \ {p}) = Cardinality(B) - 1
      BY <3>2, FS_RemoveElement
    <3> QED
      BY <3>1, <3>3 DEF B
  <2>7. p \notin A => r \cap A = s \cap A
    OBVIOUS
  <2> HIDE DEF r, p
  <2> DEFINE m == Cardinality(r \cap A)
             n == Cardinality(s \cap A)
  <2>8. CASE p \in A
    <3>1. f[p] = k /\ m = n - 1
      BY <2>1, <2>6, <2>8
    <3> HIDE DEF m, n
    <3>2. k + k * (n - 1) = k * n
      BY <2>5 DEF n
    <3>3. F[s] = k * n
      BY <2>2, <2>3, <3>1, <3>2 DEF m
    <3> QED
      BY <3>3 DEF n
  <2>9. CASE p \notin A
    <3>1. f[p] = 0 /\ m = n
      BY <2>1, <2>7, <2>9
    <3>2. F[r] \in Int
      BY <1>2, <2>1
    <3> QED
      BY <2>2, <2>3, <3>1, <3>2
  <2> QED
    BY <2>8, <2>9
<1>5. SUBSET S \subseteq Good
  <2> HIDE DEF Good
  <2> QED
    BY <1>3, <1>4, SubsetsBySize
<1>6. F[S] = k * Cardinality(A)
  <2>1. S \cap A = A
    OBVIOUS
  <2> QED
    BY <1>5, <2>1
<1> QED
  BY <1>1, <1>6 DEF SumOn, F

\* The rows of a table and its columns add up to the same.
Rows(h, S, T) == [x \in S |-> SumOn(h[x], T)]
ColumnAt(h, S, y) == [x \in S |-> h[x][y]]
Columns(h, S, T) == [y \in T |-> SumOn(ColumnAt(h, S, y), S)]

LEMMA SumSwap ==
  ASSUME NEW S, IsFiniteSet(S), NEW T, IsFiniteSet(T), NEW h,
         \A x \in S, y \in T : h[x][y] \in Int
  PROVE  /\ Summable(Rows(h, S, T), S) /\ Summable(Columns(h, S, T), T)
         /\ SumOn(Rows(h, S, T), S) = SumOn(Columns(h, S, T), T)
<1>1. \A x \in S : Summable(h[x], T)
  BY DEF Summable
<1>2. \A y \in T : Summable(ColumnAt(h, S, y), S)
  BY DEF Summable, ColumnAt
<1>3. Summable(Rows(h, S, T), S)
  <2>1. \A x \in S : SumOn(h[x], T) \in Int
    BY <1>1, SumInt
  <2> QED
    BY <2>1 DEF Summable, Rows
<1>4. Summable(Columns(h, S, T), T)
  <2>1. \A y \in T : SumOn(ColumnAt(h, S, y), S) \in Int
    BY <1>2, SumInt
  <2> QED
    BY <2>1 DEF Summable, Columns
<1> DEFINE R == SumIter(Rows(h, S, T), S)
           C(y) == SumIter(ColumnAt(h, S, y), S)
           K(s) == [y \in T |-> C(y)[s]]
           Good == {s \in SUBSET S : R[s] = SumOn(K(s), T)}
<1>5. /\ R \in [SUBSET S -> Int] /\ R[{}] = 0
      /\ \A s \in SUBSET S : s # {} => R[s] = Rows(h, S, T)[Picked(s)] + R[s \ {Picked(s)}]
  BY <1>3, SumRecursion
<1>6. \A y \in T :
         /\ C(y) \in [SUBSET S -> Int] /\ C(y)[{}] = 0
         /\ \A s \in SUBSET S : s # {} => C(y)[s] = ColumnAt(h, S, y)[Picked(s)] + C(y)[s \ {Picked(s)}]
  BY <1>2, SumRecursion
<1> HIDE DEF R, C
<1>7. {} \in Good
  <2>1. \A y \in T : K({})[y] = 0
    BY <1>6
  <2>2. SumOn(K({}), T) = 0 * Cardinality({})
    <3>1. \A y \in T : K({})[y] = IF y \in {} THEN 0 ELSE 0
      BY <2>1
    <3>2. {} \in SUBSET T /\ 0 \in Nat
      OBVIOUS
    <3> HIDE DEF K
    <3> QED
      BY <3>1, <3>2, SumCount
  <2>3. Cardinality({}) = 0
    BY FS_EmptySet
  <2> QED
    BY <1>5, <2>2, <2>3
<1>8. ASSUME NEW s \in SUBSET S, s # {}, s \ {Picked(s)} \in Good PROVE s \in Good
  <2> DEFINE r == s \ {Picked(s)}
             p == Picked(s)
  <2>1. p \in S /\ r \in SUBSET S
    BY <1>8, PickedLess
  <2>2. R[r] = SumOn(K(r), T)
    BY <1>8
  <2>3. R[s] = SumOn(h[p], T) + R[r]
    BY <1>5, <1>8, <2>1 DEF Rows
  <2>4. \A y \in T : K(s)[y] = h[p][y] + K(r)[y]
    BY <1>6, <1>8, <2>1 DEF ColumnAt
  <2>5. Summable(K(r), T)
    BY <1>6, <2>1 DEF Summable
  <2> HIDE DEF r, p, K
  <2>6. SumOn(K(s), T) = SumOn(h[p], T) + SumOn(K(r), T)
    BY <1>1, <2>1, <2>4, <2>5, SumPlus
  <2> QED
    BY <2>2, <2>3, <2>6
<1>9. SUBSET S \subseteq Good
  <2> HIDE DEF Good
  <2> QED
    BY <1>7, <1>8, SubsetsBySize
<1>10. R[S] = SumOn(K(S), T)
  BY <1>9
<1>11. K(S) = Columns(h, S, T)
  BY DEF C, Columns, SumOn
<1> QED
  BY <1>3, <1>4, <1>10, <1>11 DEF SumOn, R
=============================================================================
