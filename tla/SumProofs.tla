----------------------------- MODULE SumProofs -----------------------------
(***************************************************************************)
(* Sums of a function over a finite set, which the models take from the    *)
(* community modules: SumFunctionOnSet folds over the set in an order of   *)
(* its own.  The fold is a recursive function on the subsets; that it      *)
(* exists, and that the order plays no part, is by induction on finite     *)
(* sets, stated here with a smallest counterexample: the library's         *)
(* induction theorems take the formula as a parameter, but that strict     *)
(* inclusion is well founded takes none.                                   *)
(***************************************************************************)
EXTENDS Integers, FiniteSets, Functions, FiniteSetTheorems, TLAPS

\* Any set of subsets of a finite set, unless empty, has a smallest element.
LEMMA SmallestSubset ==
    ASSUME NEW S, IsFiniteSet(S), NEW Bad, Bad \subseteq SUBSET S, Bad # {}
    PROVE  \E s \in Bad : \A t \in SUBSET s : t # s => t \notin Bad
<1>1. IsWellFoundedOn(StrictSubsetOrdering(S), SUBSET S)
  BY FS_StrictSubsetOrderingWellFounded, FS_FiniteSubsetsOfFinite
<1>2. PICK s \in Bad : \A t \in Bad : <<t, s>> \notin StrictSubsetOrdering(S)
  BY <1>1, WFMin
<1>3. ASSUME NEW t \in SUBSET s, t # s, t \in Bad
      PROVE  FALSE
  <2>1. <<t, s>> \in StrictSubsetOrdering(S)
    BY <1>3 DEF StrictSubsetOrdering
  <2> QED
    BY <1>2, <1>3, <2>1
<1> QED
  BY <1>2, <1>3

-----------------------------------------------------------------------------
(* The fold *)

First(s) == CHOOSE x \in s : TRUE

\* g is the fold of f, on the subsets of S.
Folds(f, S, g) ==
    g = [s \in SUBSET S |->
            IF s = {} THEN 0 ELSE f[First(s)] + g[s \ {First(s)}]]

\* What the definition of the sum comes to.
LEMMA SumIsFold ==
    ASSUME NEW f, NEW S
    PROVE  SumFunctionOnSet(f, S) = (CHOOSE g : Folds(f, S, g))[S]
BY DEF SumFunctionOnSet, FoldFunctionOnSet, MapThenFoldSet, Folds, First

\* The element taken first is one of them.
LEMMA FirstIn ==
    ASSUME NEW s, s # {}
    PROVE  First(s) \in s
BY DEF First

\* A turn of the fold.
LEMMA FoldTurn ==
    ASSUME NEW f, NEW S, NEW g, Folds(f, S, g), NEW s \in SUBSET S
    PROVE  g[s] = IF s = {} THEN 0 ELSE f[First(s)] + g[s \ {First(s)}]
<1> DEFINE Turn(r) == IF r = {} THEN 0 ELSE f[First(r)] + g[r \ {First(r)}]
<1>1. g = [r \in SUBSET S |-> Turn(r)]
  BY DEF Folds
<1> HIDE DEF Turn
<1>2. g[s] = Turn(s)
  BY <1>1
<1> QED
  BY <1>2 DEF Turn

\* Two folds agree wherever both are defined.
LEMMA FoldsAgree ==
    ASSUME NEW f, NEW S, IsFiniteSet(S), NEW T, NEW g, NEW h,
           Folds(f, S, g), Folds(f, T, h), NEW s \in (SUBSET S) \cap (SUBSET T)
    PROVE  g[s] = h[s]
<1> DEFINE Bad == {r \in SUBSET s : g[r] # h[r]}
<1> SUFFICES ASSUME Bad # {} PROVE FALSE
  OBVIOUS
<1>1. IsFiniteSet(s) /\ Bad \subseteq SUBSET s
  BY FS_Subset
<1>2. PICK r \in Bad : \A t \in SUBSET r : t # r => t \notin Bad
  <2> HIDE DEF Bad
  <2> QED
    BY <1>1, SmallestSubset
<1>3. r \in SUBSET S /\ r \in SUBSET T /\ r \in SUBSET s /\ g[r] # h[r]
  OBVIOUS
<1>4. /\ g[r] = IF r = {} THEN 0 ELSE f[First(r)] + g[r \ {First(r)}]
      /\ h[r] = IF r = {} THEN 0 ELSE f[First(r)] + h[r \ {First(r)}]
  BY <1>3, FoldTurn
<1>5. CASE r = {}
  BY <1>3, <1>4, <1>5
<1>6. CASE r # {}
  <2>1. First(r) \in r
    BY <1>6, FirstIn
  <2>2. r \ {First(r)} \in SUBSET r /\ r \ {First(r)} # r
    BY <2>1
  <2>3. g[r \ {First(r)}] = h[r \ {First(r)}]
    BY <1>2, <1>3, <2>2
  <2> QED
    BY <1>3, <1>4, <1>6, <2>3
<1> QED
  BY <1>5, <1>6

\* On a finite set there is a fold.
LEMMA FoldExists ==
    ASSUME NEW f, NEW S, IsFiniteSet(S)
    PROVE  \E g : Folds(f, S, g)
<1> DEFINE Bad == {r \in SUBSET S : ~ \E g : Folds(f, r, g)}
<1> SUFFICES ASSUME Bad # {} PROVE FALSE
  OBVIOUS
<1>1. PICK r \in Bad : \A t \in SUBSET r : t # r => t \notin Bad
  <2>1. Bad \subseteq SUBSET S
    OBVIOUS
  <2> HIDE DEF Bad
  <2> QED
    BY <2>1, SmallestSubset
<1>2. /\ r \in SUBSET S /\ ~ \E g : Folds(f, r, g)
      /\ \A t \in SUBSET r : t # r => \E g : Folds(f, t, g)
  BY <1>1
<1> DEFINE fold[t \in SUBSET S] == CHOOSE g : Folds(f, t, g)
           last == IF r = {} THEN 0
                   ELSE f[First(r)] + fold[r \ {First(r)}][r \ {First(r)}]
           whole == [s \in SUBSET r |-> IF s = r THEN last ELSE fold[s][s]]
<1>3. \A t \in SUBSET r : t # r => Folds(f, t, fold[t])
  BY <1>2
<1> HIDE DEF fold
<1>4. ASSUME NEW s \in SUBSET r
      PROVE  whole[s] = IF s = {} THEN 0
                        ELSE f[First(s)] + whole[s \ {First(s)}]
  <2>1. CASE s = {}
    <3>1. CASE r = {}
      BY <2>1, <3>1
    <3>2. CASE r # {}
      <4>1. Folds(f, s, fold[s])
        BY <1>3, <2>1, <3>2
      <4>2. fold[s][s] = 0
        BY <2>1, <4>1, FoldTurn
      <4> QED
        BY <2>1, <3>2, <4>2
    <3> QED
      BY <3>1, <3>2
  <2>2. CASE s # {}
    <3> DEFINE t == s \ {First(s)}
    <3>1. First(s) \in s /\ t \in SUBSET r /\ t # r /\ t \in SUBSET s
      BY <2>2, FirstIn
    <3>2. whole[t] = fold[t][t] /\ Folds(f, t, fold[t])
      BY <1>3, <3>1
    <3>3. CASE s = r
      BY <2>2, <3>2, <3>3
    <3>4. CASE s # r
      <4>1. Folds(f, s, fold[s]) /\ whole[s] = fold[s][s]
        BY <1>3, <3>4
      <4>2. fold[s][s] = f[First(s)] + fold[s][t]
        BY <2>2, <4>1, FoldTurn
      <4>3. IsFiniteSet(s)
        BY <1>2, FS_Subset
      <4>4. t \in (SUBSET s) \cap (SUBSET t)
        BY <3>1
      <4>5. fold[s][t] = fold[t][t]
        <5>1. PICK g, h : g = fold[s] /\ h = fold[t]
          OBVIOUS
        <5>2. Folds(f, s, g) /\ Folds(f, t, h)
          BY <3>2, <4>1, <5>1
        <5> HIDE DEF t
        <5>3. g[t] = h[t]
          BY <4>3, <4>4, <5>2, FoldsAgree
        <5> QED
          BY <5>1, <5>3
      <4> QED
        BY <2>2, <3>2, <4>1, <4>2, <4>5
    <3> QED
      BY <3>3, <3>4
  <2> QED
    BY <2>1, <2>2
<1>5. Folds(f, r, whole)
  <2>1. whole = [s \in SUBSET r |-> whole[s]]
    OBVIOUS
  <2> HIDE DEF whole
  <2> QED
    BY <1>4, <2>1 DEF Folds
<1> QED
  BY <1>2, <1>5

-----------------------------------------------------------------------------
(* The sum.  These are the facts to cite: none of them looks at the fold.  *)

\* Nothing adds up to nothing.
LEMMA SumEmpty ==
    ASSUME NEW f
    PROVE  SumFunctionOnSet(f, {}) = 0
<1>1. IsFiniteSet({})
  BY FS_EmptySet
<1>2. PICK g : Folds(f, {}, g) /\ SumFunctionOnSet(f, {}) = g[{}]
  BY <1>1, FoldExists, SumIsFold
<1> QED
  BY <1>2, FoldTurn

\* The sum takes one element first, and then the others.
LEMMA SumFirst ==
    ASSUME NEW f, NEW S, IsFiniteSet(S), S # {}
    PROVE  SumFunctionOnSet(f, S) = f[First(S)] + SumFunctionOnSet(f, S \ {First(S)})
<1> DEFINE T == S \ {First(S)}
<1>1. IsFiniteSet(T) /\ T \in (SUBSET S) \cap (SUBSET T)
  BY FS_Subset
<1>2. PICK g : Folds(f, S, g) /\ SumFunctionOnSet(f, S) = g[S]
  BY FoldExists, SumIsFold
<1>3. PICK h : Folds(f, T, h) /\ SumFunctionOnSet(f, T) = h[T]
  BY <1>1, FoldExists, SumIsFold
<1>4. g[S] = f[First(S)] + g[T]
  BY <1>2, FoldTurn
<1>5. g[T] = h[T]
  <2> HIDE DEF T
  <2> QED
    BY <1>1, <1>2, <1>3, FoldsAgree
<1> QED
  BY <1>2, <1>3, <1>4, <1>5

\* Naturals add up to a natural.
LEMMA SumNat ==
    ASSUME NEW f, NEW S, IsFiniteSet(S), \A x \in S : f[x] \in Nat
    PROVE  SumFunctionOnSet(f, S) \in Nat
<1> DEFINE Bad == {s \in SUBSET S : SumFunctionOnSet(f, s) \notin Nat}
<1> SUFFICES ASSUME Bad # {} PROVE FALSE
  OBVIOUS
<1>1. PICK s \in Bad : \A t \in SUBSET s : t # s => t \notin Bad
  <2>1. Bad \subseteq SUBSET S
    OBVIOUS
  <2> HIDE DEF Bad
  <2> QED
    BY <2>1, SmallestSubset
<1>2. IsFiniteSet(s)
  BY FS_Subset
<1>3. s # {}
  BY SumEmpty
<1>4. First(s) \in s
  BY <1>3, FirstIn
<1>5. SumFunctionOnSet(f, s \ {First(s)}) \in Nat
  BY <1>1, <1>4
<1>6. SumFunctionOnSet(f, s) = f[First(s)] + SumFunctionOnSet(f, s \ {First(s)})
  BY <1>2, <1>3, SumFirst
<1> QED
  BY <1>4, <1>5, <1>6

\* The order plays no part: any element may be the first.
LEMMA SumRemove ==
    ASSUME NEW f, NEW S, IsFiniteSet(S), \A x \in S : f[x] \in Nat, NEW x \in S
    PROVE  SumFunctionOnSet(f, S) = f[x] + SumFunctionOnSet(f, S \ {x})
<1> DEFINE Sum(s) == SumFunctionOnSet(f, s)
           Bad == {s \in SUBSET S : \E y \in s : Sum(s) # f[y] + Sum(s \ {y})}
<1> HIDE DEF Sum
<1> SUFFICES ASSUME Bad # {} PROVE FALSE
  BY DEF Sum
<1>1. PICK s \in Bad : \A t \in SUBSET s : t # s => t \notin Bad
  <2>1. Bad \subseteq SUBSET S
    OBVIOUS
  <2> HIDE DEF Bad
  <2> QED
    BY <2>1, SmallestSubset
<1>2. PICK y \in s : Sum(s) # f[y] + Sum(s \ {y})
  BY <1>1
<1>3. \A t \in SUBSET s : t # s => \A z \in t : Sum(t) = f[z] + Sum(t \ {z})
  BY <1>1
<1> HIDE DEF Bad
<1>4. PICK z \in s : Sum(s) = f[z] + Sum(s \ {z})
  <2>1. IsFiniteSet(s) /\ s # {}
    BY <1>1, <1>2, FS_Subset DEF Bad
  <2> QED
    BY <2>1, SumFirst, FirstIn DEF Sum
<1>5. y # z
  BY <1>2, <1>4
<1> DEFINE rest == s \ {y, z}
<1>6. /\ y \in s \ {z} /\ (s \ {z}) \ {y} = rest
      /\ z \in s \ {y} /\ (s \ {y}) \ {z} = rest
  BY <1>5
<1>7. Sum(s \ {z}) = f[y] + Sum(rest) /\ Sum(s \ {y}) = f[z] + Sum(rest)
  <2>1. s \ {z} \in SUBSET s /\ s \ {z} # s /\ s \ {y} \in SUBSET s /\ s \ {y} # s
    OBVIOUS
  <2> QED
    BY <1>3, <1>6, <2>1
<1>8. f[y] \in Nat /\ f[z] \in Nat /\ Sum(rest) \in Nat
  <2>1. s \subseteq S
    BY DEF Bad
  <2>2. IsFiniteSet(rest) /\ \A v \in rest : f[v] \in Nat
    BY <2>1, FS_Subset
  <2> QED
    BY <2>1, <2>2, SumNat DEF Sum
<1> HIDE DEF rest
<1> QED
  BY <1>2, <1>4, <1>7, <1>8

\* The sum grows with the set and with the function.
LEMMA SumMono ==
    ASSUME NEW f, NEW g, NEW S, NEW T, IsFiniteSet(T), S \subseteq T,
           \A x \in S : f[x] \in Nat /\ f[x] <= g[x],
           \A x \in T : g[x] \in Nat
    PROVE  SumFunctionOnSet(f, S) <= SumFunctionOnSet(g, T)
<1> DEFINE F(s) == SumFunctionOnSet(f, s \cap S)
           G(s) == SumFunctionOnSet(g, s)
           Bad == {s \in SUBSET T : ~ (F(s) <= G(s))}
<1> SUFFICES ASSUME Bad # {} PROVE FALSE
  <2>1. T \in SUBSET T /\ T \cap S = S
    OBVIOUS
  <2> QED
    BY <2>1
<1> HIDE DEF F, G
<1>1. PICK s \in Bad : \A t \in SUBSET s : t # s => t \notin Bad
  <2>1. Bad \subseteq SUBSET T
    OBVIOUS
  <2> HIDE DEF Bad
  <2> QED
    BY <2>1, SmallestSubset
<1>2. s \in SUBSET T /\ IsFiniteSet(s) /\ ~ (F(s) <= G(s))
  BY FS_Subset
<1>3. s # {}
  <2>1. F({}) = 0 /\ G({}) = 0
    <3>1. {} \cap S = {}
      OBVIOUS
    <3> QED
      BY <3>1, SumEmpty DEF F, G
  <2> QED
    BY <1>2, <2>1
<1>4. PICK x \in s : TRUE
  BY <1>3
<1> DEFINE t == s \ {x}
<1>5. F(t) <= G(t)
  BY <1>1, <1>2
<1>6. G(s) = g[x] + G(t) /\ G(t) \in Nat /\ g[x] \in Nat
  BY <1>2, FS_Subset, SumRemove, SumNat DEF G
<1>7. IsFiniteSet(s \cap S) /\ IsFiniteSet(t \cap S) /\ F(t) \in Nat
  BY <1>2, FS_Subset, SumNat DEF F
<1>8. CASE x \in S
  <2>1. (s \cap S) \ {x} = t \cap S /\ x \in s \cap S
    BY <1>8
  <2>2. F(s) = f[x] + F(t)
    BY <1>7, <2>1, SumRemove DEF F
  <2> QED
    BY <1>2, <1>5, <1>6, <1>7, <1>8, <2>2
<1>9. CASE x \notin S
  <2>1. s \cap S = t \cap S
    BY <1>9
  <2>2. F(s) = F(t)
    BY <2>1 DEF F
  <2> QED
    BY <1>2, <1>5, <1>6, <1>7, <2>2
<1> QED
  BY <1>8, <1>9

\* Functions that agree on a set have the same sum over it.
LEMMA SumSame ==
    ASSUME NEW f, NEW g, NEW S, IsFiniteSet(S),
           \A x \in S : f[x] \in Nat /\ g[x] = f[x]
    PROVE  SumFunctionOnSet(g, S) = SumFunctionOnSet(f, S)
<1>1. SumFunctionOnSet(f, S) <= SumFunctionOnSet(g, S)
  BY SumMono
<1>2. SumFunctionOnSet(g, S) <= SumFunctionOnSet(f, S)
  BY SumMono
<1> QED
  BY <1>1, <1>2, SumNat

\* Zeros outside a subset do not count.
LEMMA SumZeros ==
    ASSUME NEW f, NEW S, NEW T, IsFiniteSet(T), S \subseteq T,
           \A x \in T : f[x] \in Nat, \A x \in T \ S : f[x] = 0
    PROVE  SumFunctionOnSet(f, T) = SumFunctionOnSet(f, S)
<1> DEFINE F(s) == SumFunctionOnSet(f, s \cap S)
           G(s) == SumFunctionOnSet(f, s)
           Bad == {s \in SUBSET T : F(s) # G(s)}
<1> SUFFICES ASSUME Bad # {} PROVE FALSE
  <2>1. T \in SUBSET T /\ T \cap S = S
    OBVIOUS
  <2> QED
    BY <2>1
<1> HIDE DEF F, G
<1>1. PICK s \in Bad : \A t \in SUBSET s : t # s => t \notin Bad
  <2>1. Bad \subseteq SUBSET T
    OBVIOUS
  <2> HIDE DEF Bad
  <2> QED
    BY <2>1, SmallestSubset
<1>2. s \in SUBSET T /\ IsFiniteSet(s) /\ F(s) # G(s)
  BY FS_Subset
<1>3. s # {}
  <2>1. F({}) = 0 /\ G({}) = 0
    <3>1. {} \cap S = {}
      OBVIOUS
    <3> QED
      BY <3>1, SumEmpty DEF F, G
  <2> QED
    BY <1>2, <2>1
<1>4. PICK x \in s : TRUE
  BY <1>3
<1> DEFINE t == s \ {x}
<1>5. F(t) = G(t)
  BY <1>1, <1>2
<1>6. G(s) = f[x] + G(t) /\ G(t) \in Nat /\ f[x] \in Nat
  BY <1>2, FS_Subset, SumRemove, SumNat DEF G
<1>7. IsFiniteSet(s \cap S)
  BY <1>2, FS_Subset
<1>8. CASE x \in S
  <2>1. (s \cap S) \ {x} = t \cap S /\ x \in s \cap S
    BY <1>8
  <2>2. F(s) = f[x] + F(t)
    BY <1>2, <1>7, <2>1, SumRemove DEF F
  <2> QED
    BY <1>2, <1>5, <1>6, <2>2
<1>9. CASE x \notin S
  <2>1. s \cap S = t \cap S
    BY <1>9
  <2>2. F(s) = F(t) /\ f[x] = 0
    BY <1>2, <1>9, <2>1 DEF F
  <2> QED
    BY <1>2, <1>5, <1>6, <2>2
<1> QED
  BY <1>8, <1>9

\* One more at one place is one more in the sum.
LEMMA SumPlusOne ==
    ASSUME NEW f, NEW g, NEW S, IsFiniteSet(S), NEW x \in S,
           \A y \in S : f[y] \in Nat,
           \A y \in S : g[y] = IF y = x THEN f[y] + 1 ELSE f[y]
    PROVE  SumFunctionOnSet(g, S) = SumFunctionOnSet(f, S) + 1
<1> DEFINE T == S \ {x}
<1>1. IsFiniteSet(T)
  BY FS_Subset
<1>2. SumFunctionOnSet(f, S) = f[x] + SumFunctionOnSet(f, T)
  BY SumRemove
<1>3. SumFunctionOnSet(g, S) = g[x] + SumFunctionOnSet(g, T)
  BY SumRemove
<1>4. SumFunctionOnSet(g, T) = SumFunctionOnSet(f, T)
  BY <1>1, SumSame
<1>5. SumFunctionOnSet(f, T) \in Nat
  BY <1>1, SumNat
<1> HIDE DEF T
<1> QED
  BY <1>2, <1>3, <1>4, <1>5
=============================================================================
