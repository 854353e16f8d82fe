------------------------------ MODULE FiniteSums ------------------------------
(***************************************************************************)
(* What SumFunctionOnSet of the community modules computes on a finite set: *)
(* the sum without an element and that element's value, whichever element   *)
(* the library chooses first.  Folds are defined by recursion over sets;    *)
(* the induction is on their cardinality, by the least one that fails.      *)
(***************************************************************************)
EXTENDS Integers, FiniteSets, Functions, FiniteSetTheorems, WellFoundedInduction, TLAPS

\* The library's choice, its equation on the sets of D, and its solution.
Pick(s) == CHOOSE x \in s : TRUE
Solves(g, f, D) == g = [s \in D |-> IF s = {} THEN 0 ELSE f[Pick(s)] + g[s \ {Pick(s)}]]
Folded(f, S) == CHOOSE g : Solves(g, f, SUBSET S)

(* The sum is the solution's value for the whole set.                       *)
LEMMA SumIsFolded ==
  ASSUME NEW f, NEW S
  PROVE  SumFunctionOnSet(f, S) = Folded(f, S)[S]
  BY DEF SumFunctionOnSet, FoldFunctionOnSet, MapThenFoldSet, Folded, Solves, Pick

(* The choice from a set that is not empty is one of its elements.          *)
LEMMA Picked == ASSUME NEW s, s # {} PROVE Pick(s) \in s
  BY DEF Pick

(* A set of numbers that is not empty has a least one.                      *)
LEMMA Least ==
  ASSUME NEW B, B \subseteq Nat, B # {}
  PROVE  \E n \in B : \A m \in B : ~(m < n)
<1> DEFINE Less == {ss \in Nat \X Nat : ss[1] < ss[2]}
<1>1. IsWellFoundedOn(Less, Nat)
  <2>1. IsWellFoundedOn(OpToRel(<, Nat), Nat)
    BY NatLessThanWellFounded, Zenon
  <2> QED
    BY <2>1 DEF OpToRel
<1> HIDE DEF Less
<1>2. \E n \in B : \A m \in B : ~(<<m, n>> \in Less)
  BY <1>1, WFMin
<1> QED
  BY <1>2 DEF Less

(* The subsets of S of at most n elements.                                  *)
Level(S, n) == {s \in SUBSET S : Cardinality(s) <= n}

(* A subset without one of its elements is a subset with one element less.  *)
LEMMA OneLess ==
  ASSUME NEW S, IsFiniteSet(S), NEW s \in SUBSET S, NEW x \in s
  PROVE  /\ s \ {x} \in SUBSET S /\ IsFiniteSet(s) /\ IsFiniteSet(s \ {x})
         /\ Cardinality(s) \in Nat /\ Cardinality(s \ {x}) \in Nat
         /\ Cardinality(s \ {x}) = Cardinality(s) - 1
<1>1. IsFiniteSet(s)
  BY FS_Subset
<1>2. IsFiniteSet(s \ {x}) /\ Cardinality(s \ {x}) = Cardinality(s) - 1
  BY <1>1, FS_RemoveElement
<1> QED
  BY <1>1, <1>2, FS_CardinalityType

(* A finite set has a solution: level by level, each extends the one below. *)
LEMMA Solvable ==
  ASSUME NEW f, NEW S, IsFiniteSet(S)
  PROVE  Solves(Folded(f, S), f, SUBSET S)
<1> DEFINE Unsolved == {n \in Nat : ~\E g : Solves(g, f, Level(S, n))}
<1>1. Unsolved = {}
  <2> SUFFICES ASSUME Unsolved # {} PROVE FALSE
    OBVIOUS
  <2>1. PICK n \in Unsolved : \A m \in Unsolved : ~(m < n)
    BY Least
  <2>2. n \in Nat /\ ~\E g : Solves(g, f, Level(S, n))
    BY <2>1
  <2>3. CASE n = 0
    <3>1. \A s \in Level(S, n) : s = {}
      <4> TAKE s \in Level(S, n)
      <4>1. IsFiniteSet(s) /\ Cardinality(s) \in Nat /\ Cardinality(s) <= 0
        BY <2>3, FS_Subset, FS_CardinalityType DEF Level
      <4> QED
        BY <4>1, FS_EmptySet
    <3> DEFINE g == [s \in Level(S, n) |-> 0]
    <3>2. g = [s \in Level(S, n) |-> IF s = {} THEN 0 ELSE f[Pick(s)] + g[s \ {Pick(s)}]]
      BY <3>1
    <3>3. Solves(g, f, Level(S, n))
      BY <3>2 DEF Solves
    <3> QED
      BY <2>2, <3>3
  <2>4. CASE n # 0
    <3>1. n - 1 \in Nat /\ n - 1 < n
      BY <2>2, <2>4
    <3>2. n - 1 \notin Unsolved
      BY <2>1, <3>1
    <3>3. PICK h : Solves(h, f, Level(S, n - 1))
      BY <3>1, <3>2
    <3> DEFINE g == [s \in Level(S, n) |-> IF s = {} THEN 0 ELSE f[Pick(s)] + h[s \ {Pick(s)}]]
    <3>4. ASSUME NEW s \in Level(S, n), s # {}
          PROVE  s \ {Pick(s)} \in Level(S, n - 1) /\ s \ {Pick(s)} \in Level(S, n)
      <4>1. s \in SUBSET S /\ Pick(s) \in s /\ Cardinality(s) <= n
        BY <3>4, Picked DEF Level
      <4>2. /\ s \ {Pick(s)} \in SUBSET S
            /\ Cardinality(s) \in Nat /\ Cardinality(s \ {Pick(s)}) \in Nat
            /\ Cardinality(s \ {Pick(s)}) = Cardinality(s) - 1
        BY ZenonT(60), <4>1, OneLess
      <4>3. Cardinality(s \ {Pick(s)}) <= n - 1 /\ Cardinality(s \ {Pick(s)}) <= n
        BY <2>2, <4>1, <4>2
      <4> QED
        BY <4>2, <4>3 DEF Level
    <3>5. ASSUME NEW s \in Level(S, n - 1) PROVE s \in Level(S, n) /\ g[s] = h[s]
      <4>1. s \in SUBSET S /\ Cardinality(s) <= n - 1 /\ Cardinality(s) \in Nat
        BY FS_Subset, FS_CardinalityType DEF Level
      <4>2. s \in Level(S, n)
        BY <2>2, <4>1 DEF Level
      <4>3. h[s] = IF s = {} THEN 0 ELSE f[Pick(s)] + h[s \ {Pick(s)}]
        BY <3>3 DEF Solves
      <4> QED
        BY <4>2, <4>3
    <3>6. ASSUME NEW s \in Level(S, n), s # {} PROVE h[s \ {Pick(s)}] = g[s \ {Pick(s)}]
      BY <3>4, <3>5, <3>6
    <3>7. g = [s \in Level(S, n) |-> IF s = {} THEN 0 ELSE f[Pick(s)] + g[s \ {Pick(s)}]]
      BY <3>6
    <3>8. Solves(g, f, Level(S, n))
      BY <3>7 DEF Solves
    <3> QED
      BY <2>2, <3>8
  <2> QED
    BY <2>3, <2>4
<1>2. Cardinality(S) \in Nat /\ \E g : Solves(g, f, Level(S, Cardinality(S)))
  BY <1>1, FS_CardinalityType
<1>3. Level(S, Cardinality(S)) = SUBSET S
  BY FS_Subset DEF Level
<1>4. \E g : Solves(g, f, SUBSET S)
  BY <1>2, <1>3
<1> QED
  BY <1>4 DEF Folded

(* Its equation, spelt out.                                                 *)
LEMMA FoldedAt ==
  ASSUME NEW f, NEW S, IsFiniteSet(S), NEW s \in SUBSET S
  PROVE  Folded(f, S)[s] =
           IF s = {} THEN 0 ELSE f[Pick(s)] + Folded(f, S)[s \ {Pick(s)}]
<1> DEFINE g == Folded(f, S)
<1>1. Solves(g, f, SUBSET S)
  BY Solvable
<1> HIDE DEF g
<1>2. g[s] = IF s = {} THEN 0 ELSE f[Pick(s)] + g[s \ {Pick(s)}]
  BY <1>1 DEF Solves
<1> QED
  BY <1>2 DEF g

(* Solutions for two sets, and for functions that agree, agree.             *)
LEMMA FoldsAgree ==
  ASSUME NEW f, NEW e, NEW S, IsFiniteSet(S), NEW T \in SUBSET S, \A x \in T : f[x] = e[x]
  PROVE  \A s \in SUBSET T : Folded(f, S)[s] = Folded(e, T)[s]
<1> DEFINE Bad == {s \in SUBSET T : Folded(f, S)[s] # Folded(e, T)[s]}
           Sizes == {Cardinality(s) : s \in Bad}
<1>1. IsFiniteSet(T) /\ \A s \in SUBSET T : Cardinality(s) \in Nat
  BY FS_Subset, FS_CardinalityType
<1> SUFFICES ASSUME Bad # {} PROVE FALSE
  OBVIOUS
<1>2. PICK n \in Sizes : \A m \in Sizes : ~(m < n)
  <2>1. Sizes \subseteq Nat /\ Sizes # {}
    BY <1>1
  <2> HIDE DEF Sizes
  <2> QED
    BY <2>1, Least
<1>3. PICK s \in Bad : n = Cardinality(s)
  BY <1>2
<1>4. /\ s \in SUBSET T /\ s \in SUBSET S /\ Folded(f, S)[s] # Folded(e, T)[s]
      /\ Folded(f, S)[s] = (IF s = {} THEN 0 ELSE f[Pick(s)] + Folded(f, S)[s \ {Pick(s)}])
      /\ Folded(e, T)[s] = (IF s = {} THEN 0 ELSE e[Pick(s)] + Folded(e, T)[s \ {Pick(s)}])
  BY <1>1, <1>3, FoldedAt
<1>5. s # {} /\ Pick(s) \in s
  BY <1>4, Picked
<1>6. f[Pick(s)] = e[Pick(s)]
  BY <1>4, <1>5
<1>7. s \ {Pick(s)} \in Bad
  BY <1>4, <1>5, <1>6
<1>8. Cardinality(s \ {Pick(s)}) < n
  <2>1. Cardinality(s) \in Nat /\ Cardinality(s \ {Pick(s)}) = Cardinality(s) - 1
    BY <1>4, <1>5, OneLess
  <2> QED
    BY <1>3, <2>1
<1> QED
  BY <1>2, <1>7, <1>8

(* The value for s is a number, and any element may be taken out first.      *)
Splits(f, g, s) == g[s] \in Int /\ \A x \in s : g[s] = f[x] + g[s \ {x}]

(* If the sets with one and two elements less split, so does the set: the   *)
(* chosen element and any other may change places.                          *)
LEMMA SplitsOneMore ==
  ASSUME NEW f, NEW g, NEW s, s # {}, \A x \in s : f[x] \in Int,
         g[s] = f[Pick(s)] + g[s \ {Pick(s)}],
         \A x \in s : Splits(f, g, s \ {x}),
         \A x \in s : \A y \in s : x # y => Splits(f, g, (s \ {x}) \ {y})
  PROVE  Splits(f, g, s)
<1> DEFINE y == Pick(s)
<1>1. y \in s /\ f[y] \in Int /\ g[s] = f[y] + g[s \ {y}]
  BY Picked
<1> HIDE DEF y
<1>2. g[s \ {y}] \in Int
  BY <1>1 DEF Splits
<1>3. g[s] \in Int
  BY <1>1, <1>2
<1>4. ASSUME NEW x \in s PROVE g[s] = f[x] + g[s \ {x}]
  <2>1. CASE x = y
    BY <1>1, <2>1
  <2>2. CASE x # y
    <3>1. x \in s \ {y} /\ y \in s \ {x}
      BY <1>1, <2>2
    <3>2. g[s \ {y}] = f[x] + g[(s \ {y}) \ {x}]
      BY <1>1, <3>1 DEF Splits
    <3>3. g[s \ {x}] = f[y] + g[(s \ {x}) \ {y}]
      BY <3>1 DEF Splits
    <3>4. (s \ {y}) \ {x} = (s \ {x}) \ {y}
      OBVIOUS
    <3>5. g[(s \ {x}) \ {y}] \in Int
      BY <1>1, <2>2 DEF Splits
    <3> DEFINE c == g[(s \ {x}) \ {y}]
               a == f[x]
               b == f[y]
    <3>6. a \in Int /\ b \in Int /\ c \in Int
      BY <1>1, <3>5
    <3>7. g[s] = b + (a + c) /\ g[s \ {x}] = b + c
      BY <1>1, <3>2, <3>3, <3>4
    <3> HIDE DEF a, b, c
    <3>8. b + (a + c) = a + (b + c)
      BY <3>6
    <3> QED
      BY <3>7, <3>8 DEF a
  <2> QED
    BY <2>1, <2>2
<1> QED
  BY <1>3, <1>4 DEF Splits

(* Every subset splits; the smallest that did not would, by its smaller     *)
(* ones.                                                                    *)
LEMMA FoldedSplits ==
  ASSUME NEW f, NEW S, IsFiniteSet(S), \A x \in S : f[x] \in Int,
         NEW s \in SUBSET S
  PROVE  Splits(f, Folded(f, S), s)
<1> DEFINE g == Folded(f, S)
<1>0. Solves(g, f, SUBSET S)
  BY Solvable
<1> HIDE DEF g
<1>1. ASSUME NEW t \in SUBSET S
      PROVE  g[t] = IF t = {} THEN 0 ELSE f[Pick(t)] + g[t \ {Pick(t)}]
  BY <1>0 DEF Solves
<1> DEFINE Bad == {t \in SUBSET S : ~Splits(f, g, t)}
           Sizes == {Cardinality(t) : t \in Bad}
<1>2. Bad = {}
  <2> SUFFICES ASSUME Bad # {} PROVE FALSE
    OBVIOUS
  <2>1. PICK n \in Sizes : \A m \in Sizes : ~(m < n)
    <3>1. \A t \in SUBSET S : Cardinality(t) \in Nat
      BY FS_Subset, FS_CardinalityType
    <3>2. Sizes \subseteq Nat /\ Sizes # {}
      BY <3>1
    <3> HIDE DEF Sizes
    <3> QED
      BY <3>2, Least
  <2>2. PICK t \in Bad : n = Cardinality(t)
    BY <2>1
  <2>3. t \in SUBSET S /\ ~Splits(f, g, t)
    BY <2>2
  <2>4. ASSUME NEW u \in SUBSET S, Cardinality(u) < Cardinality(t)
        PROVE  Splits(f, g, u)
    <3>1. Cardinality(u) \notin Sizes
      BY <2>1, <2>2, <2>4
    <3>2. u \notin Bad
      BY <3>1
    <3> QED
      BY <3>2
  <2> HIDE DEF Bad, Sizes
  <2>5. t # {}
    <3> SUFFICES ASSUME t = {} PROVE FALSE
      OBVIOUS
    <3>1. g[t] = 0
      BY <1>1, <2>3
    <3> QED
      BY <2>3, <3>1 DEF Splits
  <2>6. g[t] = f[Pick(t)] + g[t \ {Pick(t)}]
    BY <1>1, <2>3, <2>5
  <2>7. ASSUME NEW x \in t
        PROVE  /\ t \ {x} \in SUBSET S /\ Cardinality(t \ {x}) < Cardinality(t)
               /\ Cardinality(t \ {x}) \in Nat /\ Cardinality(t) \in Nat
    <3>1. /\ t \ {x} \in SUBSET S /\ Cardinality(t \ {x}) = Cardinality(t) - 1
          /\ Cardinality(t \ {x}) \in Nat /\ Cardinality(t) \in Nat
      BY <2>3, OneLess
    <3> QED
      BY <3>1
  <2>8. \A x \in t : Splits(f, g, t \ {x})
    BY <2>4, <2>7
  <2>9. ASSUME NEW x \in t, NEW y \in t, x # y PROVE Splits(f, g, (t \ {x}) \ {y})
    <3>1. /\ (t \ {x}) \ {y} \in SUBSET S /\ Cardinality((t \ {x}) \ {y}) \in Nat
          /\ Cardinality((t \ {x}) \ {y}) = Cardinality(t \ {x}) - 1
      BY <2>7, <2>9, OneLess
    <3>2. Cardinality((t \ {x}) \ {y}) < Cardinality(t)
      BY <2>7, <3>1
    <3> QED
      BY <2>4, <3>1, <3>2
  <2>10. \A x \in t : f[x] \in Int
    BY <2>3
  <2> QED
    BY <2>3, <2>5, <2>6, <2>8, <2>9, <2>10, SplitsOneMore
<1> QED
  BY <1>2 DEF g

(* A sum over the empty set is 0.                                           *)
LEMMA SumEmpty == ASSUME NEW f PROVE SumFunctionOnSet(f, {}) = 0
<1>1. IsFiniteSet({})
  BY FS_EmptySet
<1> QED
  BY <1>1, SumIsFolded, FoldedAt

(* An element adds its value to the sum of the others.                      *)
LEMMA SumWithout ==
  ASSUME NEW f, NEW S, IsFiniteSet(S), \A x \in S : f[x] \in Int, NEW x \in S
  PROVE  /\ SumFunctionOnSet(f, S) = f[x] + SumFunctionOnSet(f, S \ {x})
         /\ SumFunctionOnSet(f, S \ {x}) \in Int
<1> DEFINE T == S \ {x}
<1>1. IsFiniteSet(T) /\ T \in SUBSET S
  BY FS_Subset
<1>2. Folded(f, S)[T] = Folded(f, T)[T]
  BY <1>1, FoldsAgree
<1>3. Splits(f, Folded(f, S), S) /\ Splits(f, Folded(f, S), T)
  BY <1>1, FoldedSplits
<1> QED
  BY <1>2, <1>3, SumIsFolded DEF Splits

(* A sum of numbers is a number.                                            *)
LEMMA SumInt ==
  ASSUME NEW f, NEW S, IsFiniteSet(S), \A x \in S : f[x] \in Int
  PROVE  SumFunctionOnSet(f, S) \in Int
<1>1. Splits(f, Folded(f, S), S)
  BY FoldedSplits
<1> QED
  BY <1>1, SumIsFolded DEF Splits

(* Functions that agree on the set have the same sum.                       *)
LEMMA SumAgrees ==
  ASSUME NEW f, NEW e, NEW S, IsFiniteSet(S), \A x \in S : f[x] = e[x]
  PROVE  SumFunctionOnSet(f, S) = SumFunctionOnSet(e, S)
<1>1. Folded(f, S)[S] = Folded(e, S)[S]
  BY FoldsAgree
<1> QED
  BY <1>1, SumIsFolded

(* A function that is nowhere larger has no larger sum.                     *)
LEMMA SumMonotone ==
  ASSUME NEW f, NEW e, NEW S, IsFiniteSet(S),
         \A x \in S : f[x] \in Int /\ e[x] \in Int /\ f[x] <= e[x]
  PROVE  SumFunctionOnSet(f, S) <= SumFunctionOnSet(e, S)
<1> DEFINE Le(t) == SumFunctionOnSet(f, t) <= SumFunctionOnSet(e, t)
           Bad == {t \in SUBSET S : ~Le(t)}
           Sizes == {Cardinality(t) : t \in Bad}
<1>1. Bad = {}
  <2> SUFFICES ASSUME Bad # {} PROVE FALSE
    OBVIOUS
  <2>1. PICK n \in Sizes : \A m \in Sizes : ~(m < n)
    <3>1. \A t \in SUBSET S : Cardinality(t) \in Nat
      BY FS_Subset, FS_CardinalityType
    <3>2. Sizes \subseteq Nat /\ Sizes # {}
      BY <3>1
    <3> HIDE DEF Sizes
    <3> QED
      BY <3>2, Least
  <2>2. PICK t \in Bad : n = Cardinality(t)
    BY <2>1
  <2>3. t \in SUBSET S /\ ~Le(t)
    BY <2>2
  <2>4. ASSUME NEW u \in SUBSET S, Cardinality(u) < Cardinality(t) PROVE Le(u)
    <3>1. Cardinality(u) \notin Sizes
      BY <2>1, <2>2, <2>4
    <3>2. u \notin Bad
      BY <3>1
    <3> QED
      BY <3>2
  <2> HIDE DEF Bad, Sizes
  <2>5. t # {}
    <3>1. Le({})
      BY SumEmpty
    <3> QED
      BY <2>3, <3>1
  <2>6. PICK x \in t : TRUE
    BY <2>5
  <2>7. /\ t \ {x} \in SUBSET S /\ IsFiniteSet(t)
        /\ Cardinality(t \ {x}) < Cardinality(t)
    <3>1. /\ t \ {x} \in SUBSET S /\ Cardinality(t \ {x}) = Cardinality(t) - 1
          /\ IsFiniteSet(t) /\ Cardinality(t \ {x}) \in Nat /\ Cardinality(t) \in Nat
      BY <2>3, OneLess
    <3> QED
      BY <3>1
  <2>8. SumFunctionOnSet(f, t \ {x}) <= SumFunctionOnSet(e, t \ {x})
    BY <2>4, <2>7
  <2>9. /\ SumFunctionOnSet(f, t) = f[x] + SumFunctionOnSet(f, t \ {x})
        /\ SumFunctionOnSet(f, t \ {x}) \in Int
    BY <2>3, <2>7, SumWithout
  <2>10. /\ SumFunctionOnSet(e, t) = e[x] + SumFunctionOnSet(e, t \ {x})
         /\ SumFunctionOnSet(e, t \ {x}) \in Int
    BY <2>3, <2>7, SumWithout
  <2>11. f[x] \in Int /\ e[x] \in Int /\ f[x] <= e[x]
    BY <2>3
  <2>12. SumFunctionOnSet(f, t) <= SumFunctionOnSet(e, t)
    BY <2>8, <2>9, <2>10, <2>11
  <2> QED
    BY <2>3, <2>12
<1> QED
  BY <1>1
=============================================================================
