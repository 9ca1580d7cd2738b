---------------------------- MODULE SumTheorems ----------------------------
(***************************************************************************)
(* SumFunctionOnSet is a sum: no element adds nothing, an element more     *)
(* adds its value, and only the values at the elements matter.             *)
(*                                                                         *)
(* The sum is a fold, a function chosen to satisfy a recursive equation.   *)
(* That there is one, and that the order the elements are chosen in does   *)
(* not matter, is proved by induction on the number of elements, in the    *)
(* form that a set of naturals with an element has a least one.            *)
(***************************************************************************)
EXTENDS Integers, Functions, FiniteSetTheorems, TLAPS

(* A nonempty set of natural numbers has a least element.                  *)
LEMMA LeastNatural ==
  ASSUME NEW T \in SUBSET Nat, T # {}
  PROVE  \E n \in T : \A m \in T : n <= m
<1> DEFINE R == OpToRel(<, Nat)
<1>1. IsWellFoundedOn(R, Nat)
  BY NatLessThanWellFounded
<1>2. \A a, b \in Nat : a < b => <<a, b>> \in R
  BY DEF OpToRel
<1> HIDE DEF R
<1>3. PICK n \in T : \A m \in T : <<m, n>> \notin R
  BY <1>1, WFMin
<1>4. ASSUME NEW m \in T
      PROVE  n <= m
  <2>1. m \in Nat /\ n \in Nat /\ ~(m < n)
    BY <1>2, <1>3
  <2> QED
    BY <2>1
<1> QED
  BY <1>4

(* Induction, as a statement about a set of natural numbers.               *)
LEMMA NaturalsByInduction ==
  ASSUME NEW P \in SUBSET Nat, 0 \in P, \A n \in P : n + 1 \in P
  PROVE  P = Nat
<1> SUFFICES ASSUME Nat \ P # {}
             PROVE  FALSE
  OBVIOUS
<1>1. PICK n \in Nat \ P : \A m \in Nat \ P : n <= m
  BY LeastNatural
<1>2. n - 1 \in P
  BY <1>1
<1> QED
  BY <1>1, <1>2

(* The equation of the fold for the subsets s of S.                        *)
Chosen(s) == CHOOSE x \in s : TRUE

Folded(f, g, s) ==
  IF s = {} THEN 0 ELSE f[Chosen(s)] + g[s \ {Chosen(s)}]

IsFold(g, f, S) == g = [s \in SUBSET S |-> Folded(f, g, s)]

Fold(f, S) == CHOOSE g : IsFold(g, f, S)

(* The element chosen is one of the set.                                   *)
LEMMA ChosenElement ==
  ASSUME NEW s, s # {}
  PROVE  Chosen(s) \in s
  BY DEF Chosen

(* SumFunctionOnSet is that fold, by its definition.                       *)
LEMMA SumIsFold ==
  ASSUME NEW f, NEW S
  PROVE  SumFunctionOnSet(f, S) = Fold(f, S)[S]
  BY Zenon DEF SumFunctionOnSet, FoldFunctionOnSet, MapThenFoldSet, Fold, IsFold,
     Folded, Chosen

(* A subset without one of its elements is smaller.                        *)
LEMMA SmallerSubset ==
  ASSUME NEW S, IsFiniteSet(S), NEW s \in SUBSET S, NEW x \in s
  PROVE  /\ Cardinality(s) \in Nat
         /\ Cardinality(s) > 0
         /\ Cardinality(s \ {x}) \in Nat
         /\ Cardinality(s) = Cardinality(s \ {x}) + 1
<1>1. IsFiniteSet(s)
  BY FS_Subset
<1>2. Cardinality(s) \in Nat /\ Cardinality(s \ {x}) \in Nat
  BY <1>1, FS_RemoveElement, FS_CardinalityType
<1>3. Cardinality(s \ {x}) = Cardinality(s) - 1
  BY <1>1, FS_RemoveElement
<1> QED
  BY <1>2, <1>3

(* The equation has a solution: one for the subsets of up to n elements    *)
(* gives one for those of n + 1.                                           *)
LEMMA FoldExists ==
  ASSUME NEW f, NEW S, IsFiniteSet(S)
  PROVE  IsFold(Fold(f, S), f, S)
<1> DEFINE Solves(g, n) ==
             \A s \in SUBSET S : Cardinality(s) <= n => g[s] = Folded(f, g, s)
           P == {n \in Nat : \E g : /\ g = [s \in SUBSET S |-> g[s]]
                                    /\ Solves(g, n)}
<1>1. 0 \in P
  <2> DEFINE g == [s \in SUBSET S |-> 0]
  <2>1. \A s \in SUBSET S : Cardinality(s) <= 0 => s = {}
    <3> SUFFICES ASSUME NEW s \in SUBSET S, s # {}, Cardinality(s) <= 0
                 PROVE  FALSE
      OBVIOUS
    <3>1. PICK x : x \in s
      OBVIOUS
    <3>2. Cardinality(s) \in Nat /\ Cardinality(s) > 0
      BY <3>1, SmallerSubset
    <3> QED
      BY <3>2
  <2>2. Solves(g, 0)
    BY <2>1 DEF Folded
  <2>3. g = [s \in SUBSET S |-> g[s]]
    OBVIOUS
  <2> QED
    BY <2>2, <2>3
<1>2. ASSUME NEW n \in P
      PROVE  n + 1 \in P
  <2>1. PICK g : Solves(g, n)
    OBVIOUS
  <2> DEFINE h == [s \in SUBSET S |-> Folded(f, g, s)]
  <2>2. ASSUME NEW s \in SUBSET S, Cardinality(s) <= n + 1
        PROVE  h[s] = Folded(f, h, s)
    <3>1. CASE s = {}
      BY <3>1 DEF Folded
    <3>2. CASE s # {}
      <4> DEFINE u == s \ {Chosen(s)}
      <4>1. Chosen(s) \in s /\ u \in SUBSET S
        BY <3>2, ChosenElement
      <4>2. Cardinality(u) <= n
        BY <2>2, <4>1, SmallerSubset
      <4>3. h[u] = g[u]
        BY <2>1, <4>1, <4>2
      <4> QED
        BY <3>2, <4>3 DEF Folded
    <3> QED
      BY <3>1, <3>2
  <2>3. h = [s \in SUBSET S |-> h[s]]
    OBVIOUS
  <2>4. Solves(h, n + 1)
    BY <2>2
  <2> HIDE DEF h
  <2>5. \E k : k = [s \in SUBSET S |-> k[s]] /\ Solves(k, n + 1)
    BY <2>3, <2>4
  <2>6. n + 1 \in Nat
    OBVIOUS
  <2> QED
    BY <2>5, <2>6, Zenon
<1>3. P = Nat
  <2> HIDE DEF P
  <2>1. P \in SUBSET Nat
    BY DEF P
  <2> QED
    BY <1>1, <1>2, <2>1, NaturalsByInduction
<1>4. Cardinality(S) \in P
  BY <1>3, FS_CardinalityType
<1>5. PICK g : /\ g = [s \in SUBSET S |-> g[s]]
               /\ Solves(g, Cardinality(S))
  BY <1>4
<1>6. \A s \in SUBSET S : Cardinality(s) <= Cardinality(S)
  BY FS_Subset
<1>7. \A s \in SUBSET S : g[s] = Folded(f, g, s)
  BY <1>5, <1>6
<1>8. IsFold(g, f, S)
  BY <1>5, <1>7 DEF IsFold
<1> QED
  BY <1>8, Zenon DEF Fold

(* So the fold satisfies it for every finite subset.                       *)
LEMMA FoldEquation ==
  ASSUME NEW f, NEW S, IsFiniteSet(S)
  PROVE  \A s \in SUBSET S : Fold(f, S)[s] = Folded(f, Fold(f, S), s)
<1> DEFINE F == Fold(f, S)
<1>1. IsFold(F, f, S)
  BY FoldExists
<1> HIDE DEF F
<1>2. \A s \in SUBSET S : F[s] = Folded(f, F, s)
  BY <1>1 DEF IsFold
<1> QED
  BY <1>2 DEF F

(* Two folds of functions that agree are the same on common subsets, and   *)
(* integers.                                                               *)
LEMMA FoldsAgree ==
  ASSUME NEW S, IsFiniteSet(S), NEW T, IsFiniteSet(T), NEW f, NEW h,
         \A x \in S \cap T : f[x] = h[x] /\ f[x] \in Int,
         NEW u \in SUBSET (S \cap T)
  PROVE  Fold(f, S)[u] = Fold(h, T)[u] /\ Fold(f, S)[u] \in Int
<1> DEFINE F == Fold(f, S)
           H == Fold(h, T)
           Same(s) == F[s] = H[s] /\ F[s] \in Int
           P == {n \in Nat : \A s \in SUBSET (S \cap T) : Cardinality(s) = n => Same(s)}
<1>1. /\ \A s \in SUBSET S : F[s] = Folded(f, F, s)
      /\ \A s \in SUBSET T : H[s] = Folded(h, H, s)
  BY FoldEquation
<1> HIDE DEF F, H
<1>2. ASSUME NEW s \in SUBSET (S \cap T), s # {}, Same(s \ {Chosen(s)})
      PROVE  Same(s)
  <2>1. Chosen(s) \in S \cap T
    BY <1>2, ChosenElement
  <2>2. /\ F[s] = f[Chosen(s)] + F[s \ {Chosen(s)}]
        /\ H[s] = h[Chosen(s)] + H[s \ {Chosen(s)}]
    BY <1>1, <1>2 DEF Folded
  <2> QED
    BY <1>2, <2>1, <2>2
<1>3. Same({})
  <2>1. F[{}] = Folded(f, F, {}) /\ H[{}] = Folded(h, H, {})
    BY <1>1
  <2> QED
    BY <2>1 DEF Folded
<1>4. 0 \in P
  <2>1. ASSUME NEW s \in SUBSET (S \cap T), Cardinality(s) = 0
        PROVE  s = {}
    BY <2>1, FS_Subset, FS_EmptySet
  <2> QED
    BY <1>3, <2>1
<1>5. ASSUME NEW n \in P
      PROVE  n + 1 \in P
  <2>1. ASSUME NEW s \in SUBSET (S \cap T), Cardinality(s) = n + 1
        PROVE  Same(s)
    <3>1. s # {}
      <4>1. n + 1 # 0 /\ Cardinality({}) = 0
        BY FS_EmptySet
      <4> QED
        BY <2>1, <4>1
    <3>2. Chosen(s) \in s /\ s \in SUBSET S
      BY <3>1, ChosenElement
    <3>3. Cardinality(s \ {Chosen(s)}) = n
      BY <2>1, <3>2, SmallerSubset
    <3>4. Same(s \ {Chosen(s)})
      BY <3>3
    <3> QED
      BY <1>2, <3>1, <3>4
  <2> QED
    BY <2>1
<1>6. P = Nat
  <2> HIDE DEF P
  <2>1. P \in SUBSET Nat
    BY DEF P
  <2> QED
    BY <1>4, <1>5, <2>1, NaturalsByInduction
<1>7. Cardinality(u) \in Nat
  BY FS_Subset, FS_CardinalityType
<1>8. Same(u)
  BY <1>6, <1>7
<1> QED
  BY <1>8 DEF F, H

(* Any element may be the one that is added last.                          *)
LEMMA FoldAnyElement ==
  ASSUME NEW S, IsFiniteSet(S), NEW f, \A x \in S : f[x] \in Int,
         NEW u \in SUBSET S, NEW y \in u
  PROVE  Fold(f, S)[u] = f[y] + Fold(f, S)[u \ {y}]
<1> DEFINE F == Fold(f, S)
           P == {n \in Nat : \A s \in SUBSET S : \A x \in s :
                   Cardinality(s) = n => F[s] = f[x] + F[s \ {x}]}
<1>1. \A s \in SUBSET S : F[s] = Folded(f, F, s)
  BY FoldEquation
<1>2. \A s \in SUBSET S : F[s] \in Int
  BY FoldsAgree
<1> HIDE DEF F
<1>3. 0 \in P
  BY SmallerSubset
<1>4. ASSUME NEW n \in P
      PROVE  n + 1 \in P
  <2>1. ASSUME NEW s \in SUBSET S, NEW x \in s, Cardinality(s) = n + 1
        PROVE  F[s] = f[x] + F[s \ {x}]
    <3> DEFINE c == Chosen(s)
    <3>1. c \in s
      BY ChosenElement
    <3> HIDE DEF c
    <3>2. F[s] = f[c] + F[s \ {c}]
      BY <1>1 DEF Folded, c
    <3>3. CASE x = c
      BY <3>2, <3>3
    <3>4. CASE x # c
      <4> DEFINE v == (s \ {c}) \ {x}
      <4>1. /\ Cardinality(s \ {c}) = n
            /\ Cardinality(s \ {x}) = n
        BY <2>1, <3>1, SmallerSubset
      <4>2. F[s \ {c}] = f[x] + F[v]
        BY <3>4, <4>1
      <4>3. F[s \ {x}] = f[c] + F[(s \ {x}) \ {c}]
        BY <3>1, <3>4, <4>1
      <4>4. (s \ {x}) \ {c} = v
        OBVIOUS
      <4>5. F[s \ {x}] = f[c] + F[v]
        BY <4>3, <4>4
      <4>6. f[x] \in Int /\ f[c] \in Int /\ F[v] \in Int
        BY <1>2, <3>1
      <4> HIDE DEF v
      <4> QED
        BY <3>2, <4>2, <4>5, <4>6
    <3> QED
      BY <3>3, <3>4
  <2> QED
    BY <2>1
<1>5. P = Nat
  <2> HIDE DEF P
  <2>1. P \in SUBSET Nat
    BY DEF P
  <2> QED
    BY <1>3, <1>4, <2>1, NaturalsByInduction
<1>6. Cardinality(u) \in Nat
  BY FS_Subset, FS_CardinalityType
<1>7. F[u] = f[y] + F[u \ {y}]
  BY <1>5, <1>6
<1> QED
  BY <1>7 DEF F

------------------------------------------------------------------------------
(* The facts about sums that are used elsewhere.                     *)

(* The sum over no elements is zero.                                       *)
LEMMA SumEmpty ==
  ASSUME NEW f
  PROVE  SumFunctionOnSet(f, {}) = 0
<1>1. Fold(f, {})[{}] = Folded(f, Fold(f, {}), {})
  BY FoldEquation, FS_EmptySet
<1>2. Fold(f, {})[{}] = 0
  BY <1>1 DEF Folded
<1> QED
  BY <1>2, SumIsFold

(* Functions that agree on a set have one sum over it, an integer.         *)
LEMMA SumSame ==
  ASSUME NEW S, IsFiniteSet(S), NEW f, NEW h,
         \A x \in S : f[x] = h[x] /\ f[x] \in Int
  PROVE  /\ SumFunctionOnSet(f, S) = SumFunctionOnSet(h, S)
         /\ SumFunctionOnSet(f, S) \in Int
<1>1. Fold(f, S)[S] = Fold(h, S)[S] /\ Fold(f, S)[S] \in Int
  BY FoldsAgree
<1> QED
  BY <1>1, SumIsFold

(* An element of a set contributes its value.                              *)
LEMMA SumRemove ==
  ASSUME NEW S, IsFiniteSet(S), NEW f, \A x \in S : f[x] \in Int, NEW y \in S
  PROVE  SumFunctionOnSet(f, S) = f[y] + SumFunctionOnSet(f, S \ {y})
<1>1. Fold(f, S)[S] = f[y] + Fold(f, S)[S \ {y}]
  BY FoldAnyElement
<1>2. IsFiniteSet(S \ {y})
  BY FS_RemoveElement
<1>3. Fold(f, S)[S \ {y}] = Fold(f, S \ {y})[S \ {y}]
  <2> DEFINE T == S \ {y}
  <2>1. T \in SUBSET (S \cap T) /\ \A x \in S \cap T : f[x] \in Int
    OBVIOUS
  <2> HIDE DEF T
  <2>2. Fold(f, S)[T] = Fold(f, T)[T]
    BY <1>2, <2>1, FoldsAgree DEF T
  <2> QED
    BY <2>2 DEF T
<1> QED
  BY <1>1, <1>3, SumIsFold

(* A sum of zeros is zero.                                                 *)
LEMMA SumZero ==
  ASSUME NEW S, IsFiniteSet(S), NEW f, \A x \in S : f[x] = 0
  PROVE  SumFunctionOnSet(f, S) = 0
<1> DEFINE P == {n \in Nat : \A s \in SUBSET S :
                   Cardinality(s) = n => SumFunctionOnSet(f, s) = 0}
<1>1. 0 \in P
  <2>1. ASSUME NEW s \in SUBSET S, Cardinality(s) = 0
        PROVE  s = {}
    BY <2>1, FS_Subset, FS_EmptySet
  <2>2. \A s \in SUBSET S : Cardinality(s) = 0 => SumFunctionOnSet(f, s) = 0
    BY <2>1, SumEmpty
  <2> QED
    BY <2>2
<1>2. ASSUME NEW n \in P
      PROVE  n + 1 \in P
  <2>1. ASSUME NEW s \in SUBSET S, Cardinality(s) = n + 1
        PROVE  SumFunctionOnSet(f, s) = 0
    <3>1. PICK x : x \in s
      <4>1. n + 1 # 0 /\ Cardinality({}) = 0
        BY FS_EmptySet
      <4> QED
        BY <2>1, <4>1
    <3>2. Cardinality(s \ {x}) = n
      BY <2>1, <3>1, SmallerSubset
    <3>3. SumFunctionOnSet(f, s \ {x}) = 0
      BY <3>2
    <3>4. IsFiniteSet(s)
      BY FS_Subset
    <3>5. SumFunctionOnSet(f, s) = f[x] + SumFunctionOnSet(f, s \ {x})
      BY <3>1, <3>4, SumRemove
    <3> QED
      BY <3>1, <3>3, <3>5
  <2> QED
    BY <2>1
<1>3. P = Nat
  <2> HIDE DEF P
  <2>1. P \in SUBSET Nat
    BY DEF P
  <2> QED
    BY <1>1, <1>2, <2>1, NaturalsByInduction
<1>4. Cardinality(S) \in Nat
  BY FS_CardinalityType
<1> QED
  BY <1>3, <1>4
============================================================================
