--------------------------- MODULE HashTableProofs --------------------------
(***************************************************************************)
(* What the macros of uthash do, proved for every set of elements, every   *)
(* number of buckets and every hash value.  TableIs(h, s) says that h is a *)
(* table in order whose elements are those of s, in this order: each macro *)
(* takes such a table to another one.  Fsck, Find and the bounds of the    *)
(* chains follow from it.                                                  *)
(***************************************************************************)
EXTENDS HashTable, SumTheorems, SequenceTheorems

------------------------------------------------------------------------------
(* Doubly linked lists.                                                    *)

(* The place beyond an end of a sequence holds NULL.                       *)
LEMMA NthOf ==
  ASSUME NEW s \in Seq(Elements), NEW i \in Int
  PROVE  /\ i \in 1..Len(s) => Nth(s, i) = s[i] /\ Nth(s, i) \in Elements /\ Nth(s, i) # NULL
         /\ i \notin 1..Len(s) => Nth(s, i) = NULL
  BY LenProperties, NullIsNoElement DEF Nth

(* No element twice.                                                       *)
Distinct(s) == \A i, j \in 1..Len(s) : s[i] = s[j] => i = j

(* s is a doubly linked list that begins with first.                       *)
IsList(s, first, back, link) ==
  /\ s \in Seq(Elements)
  /\ Distinct(s)
  /\ first = Nth(s, 1)
  /\ \A i \in 1..Len(s) : link[s[i]] = Nth(s, i + 1) /\ back[s[i]] = Nth(s, i - 1)

(* A sequence without repetitions has as many elements as its range.       *)
LEMMA DistinctLength ==
  ASSUME NEW s \in Seq(Elements), Distinct(s)
  PROVE  /\ IsFiniteSet(ToSet(s))
         /\ Cardinality(ToSet(s)) = Len(s)
         /\ Len(s) <= Cardinality(Elements)
         /\ ToSet(s) \subseteq Elements
<1>1. Len(s) \in Nat /\ DOMAIN s = 1..Len(s) /\ s \in [1..Len(s) -> Elements]
  BY LenProperties
<1>2. s \in [1..Len(s) -> ToSet(s)] /\ ToSet(s) \subseteq Elements
  BY <1>1 DEF ToSet
<1>3. s \in Injection(1..Len(s), ToSet(s)) /\ s \in Surjection(1..Len(s), ToSet(s))
  BY <1>1, <1>2 DEF Distinct, IsInjective, Injection, Surjection, ToSet
<1>4. IsFiniteSet(1..Len(s)) /\ Cardinality(1..Len(s)) = Len(s)
  BY <1>1, FS_Interval
<1>5. IsFiniteSet(ToSet(s)) /\ Cardinality(ToSet(s)) = Len(s)
  BY <1>3, <1>4, FS_Surjection
<1> QED
  BY <1>2, <1>5, FS_Subset, ElementsAreNat

(* Steps follows its link step by step.                                    *)
LEMMA StepsAre ==
  ASSUME NEW link, NEW e
  PROVE  LET at == Steps(link, e)
             C == Cardinality(Elements)
         IN /\ C \in Nat
            /\ DOMAIN at = 0..C
            /\ at[0] = e
            /\ \A n \in 1..C : at[n] = IF at[n - 1] = NULL THEN NULL ELSE link[at[n - 1]]
<1> DEFINE C == Cardinality(Elements)
           Next1(x) == IF x = NULL THEN NULL ELSE link[x]
           Is(f, k) == f = [n \in 0..k |-> IF n = 0 THEN e ELSE Next1(f[n - 1])]
           P == {k \in Nat : \E f : Is(f, k)}
<1>1. C \in Nat
  BY ElementsAreNat, FS_CardinalityType
<1>2. 0 \in P
  <2>1. Is([n \in 0..0 |-> e], 0)
    OBVIOUS
  <2> QED
    BY <2>1
<1>3. ASSUME NEW k \in P
      PROVE  k + 1 \in P
  <2>1. PICK f : Is(f, k)
    OBVIOUS
  <2> DEFINE g == [n \in 0..k + 1 |-> IF n <= k THEN f[n] ELSE Next1(f[k])]
  <2>2. ASSUME NEW n \in 0..k + 1
        PROVE  g[n] = IF n = 0 THEN e ELSE Next1(g[n - 1])
    <3>1. k \in Nat
      OBVIOUS
    <3>2. CASE n = 0
      BY <2>1, <3>1, <3>2
    <3>3. CASE n \in 1..k
      <4>1. n - 1 \in 0..k /\ n \in 0..k /\ n # 0 /\ n <= k /\ n - 1 <= k /\ n - 1 \in 0..k+1
        BY <3>1, <3>3
      <4>2. g[n] = f[n] /\ g[n - 1] = f[n - 1]
        BY <4>1
      <4>3. f[n] = Next1(f[n - 1])
        BY <2>1, <4>1
      <4> QED
        BY <4>1, <4>2, <4>3
    <3>4. CASE n = k + 1
      <4>1. n - 1 = k /\ n # 0 /\ ~(n <= k) /\ k \in 0..k+1 /\ k <= k
        BY <3>1, <3>4
      <4>2. g[n] = Next1(f[k]) /\ g[k] = f[k]
        BY <4>1
      <4> QED
        BY <4>1, <4>2
    <3> QED
      BY <3>1, <3>2, <3>3, <3>4
  <2>3. g = [n \in 0..k + 1 |-> g[n]]
    OBVIOUS
  <2> HIDE DEF g, Next1
  <2>4. Is(g, k + 1)
    BY <2>2, <2>3
  <2> QED
    BY <2>4
<1>4. PICK f : Is(f, C)
  <2> HIDE DEF Is, C
  <2>1. P = Nat
    BY <1>2, <1>3, NaturalsByInduction
  <2> QED
    BY <1>1, <2>1
<1>5. Is(Steps(link, e), C)
  BY <1>4, Zenon DEF Steps
<1> QED
  BY <1>1, <1>5

(* Walking along the links of a list finds its elements in order.          *)
LEMMA WalkOfList ==
  ASSUME NEW s, NEW first, NEW back, NEW link, IsList(s, first, back, link)
  PROVE  Walk(link, first) = s
<1> DEFINE at == Steps(link, first)
           C == Cardinality(Elements)
           P == {n \in Nat : n <= C => at[n] = Nth(s, n + 1)}
<1>1. /\ C \in Nat /\ DOMAIN at = 0..C /\ at[0] = first
      /\ \A n \in 1..C : at[n] = IF at[n - 1] = NULL THEN NULL ELSE link[at[n - 1]]
  BY StepsAre
<1>2. /\ s \in Seq(Elements) /\ Len(s) \in Nat /\ DOMAIN s = 1..Len(s)
      /\ s \in [1..Len(s) -> Elements] /\ Distinct(s) /\ Len(s) <= C
  BY LenProperties, DistinctLength DEF IsList
<1> HIDE DEF at, C
<1>3. 0 \in P
  BY <1>1 DEF IsList
<1>4. ASSUME NEW n \in P
      PROVE  n + 1 \in P
  <2> SUFFICES ASSUME n + 1 <= C
               PROVE  at[n + 1] = Nth(s, n + 2)
    OBVIOUS
  <2>1. at[n] = Nth(s, n + 1) /\ n + 1 \in 1..C /\ n \in Nat
    BY <1>1
  <2>2. at[n + 1] = IF at[n] = NULL THEN NULL ELSE link[at[n]]
    BY <1>1, <2>1
  <2>3. CASE n + 1 \in 1..Len(s)
    <3>1. at[n] = s[n + 1] /\ at[n] # NULL
      BY <1>2, <2>1, <2>3, NthOf
    <3>2. link[s[n + 1]] = Nth(s, (n + 1) + 1)
      BY <2>3 DEF IsList
    <3> QED
      BY <2>1, <2>2, <3>1, <3>2
  <2>4. CASE n + 1 \notin 1..Len(s)
    <3>1. at[n] = NULL
      BY <1>2, <2>1, <2>4, NthOf
    <3>2. Nth(s, n + 2) = NULL
      BY <1>2, <2>1, <2>4, NthOf
    <3> QED
      BY <2>2, <3>1, <3>2
  <2> QED
    BY <2>3, <2>4
<1>5. \A n \in 0..C : at[n] = Nth(s, n + 1)
  <2> HIDE DEF P
  <2>1. P \in SUBSET Nat
    BY DEF P
  <2>2. P = Nat
    BY <1>3, <1>4, <2>1, NaturalsByInduction
  <2> QED
    BY <1>1, <2>2 DEF P
<1>6. {n \in DOMAIN at : at[n] # NULL} = 0..Len(s) - 1
  <2>1. \A n \in 0..C : at[n] # NULL <=> n + 1 \in 1..Len(s)
    <3> TAKE n \in 0..C
    <3>1. n + 1 \in Int /\ at[n] = Nth(s, n + 1)
      BY <1>1, <1>5
    <3> QED
      BY <1>2, <3>1, NthOf
  <2>2. \A n \in 0..C : n + 1 \in 1..Len(s) <=> n \in 0..Len(s) - 1
    BY <1>1, <1>2
  <2>3. 0..Len(s) - 1 \subseteq 0..C
    BY <1>1, <1>2
  <2> QED
    BY <1>1, <2>1, <2>2, <2>3
<1>7. Cardinality({n \in DOMAIN at : at[n] # NULL}) = Len(s)
  <2>1. Len(s) - 1 \in Int /\ 0 \in Int
    BY <1>2
  <2>2. Cardinality(0..Len(s) - 1) = IF 0 > Len(s) - 1 THEN 0 ELSE (Len(s) - 1) - 0 + 1
    BY <2>1, FS_Interval
  <2>3. (IF 0 > Len(s) - 1 THEN 0 ELSE (Len(s) - 1) - 0 + 1) = Len(s)
    BY <1>2
  <2> QED
    BY <1>6, <2>2, <2>3
<1>8. Walk(link, first) = [i \in 1..Len(s) |-> at[i - 1]]
  BY <1>7 DEF Walk, at
<1>9. \A i \in 1..Len(s) : at[i - 1] = s[i]
  BY <1>1, <1>2, <1>5, NthOf
<1> QED
  BY <1>2, <1>8, <1>9

(* A list is a list as long as its own links stay.                         *)
LEMMA ListUndisturbed ==
  ASSUME NEW s, NEW first, NEW back, NEW link, IsList(s, first, back, link),
         NEW back2, NEW link2,
         \A e \in ToSet(s) : back2[e] = back[e] /\ link2[e] = link[e]
  PROVE  IsList(s, first, back2, link2)
<1>1. \A i \in 1..Len(s) : s[i] \in ToSet(s)
  BY LenProperties DEF IsList, ToSet
<1> QED
  BY <1>1 DEF IsList

(* No element makes an empty list.                                         *)
LEMMA EmptyList ==
  ASSUME NEW back, NEW link
  PROVE  IsList(<<>>, NULL, back, link)
  BY EmptySeq DEF IsList, Distinct, Nth

(* Linked changes one place.                                               *)
LEMMA LinkedAt ==
  ASSUME NEW link, NEW a, NEW to, NEW e \in Elements
  PROVE  Linked(link, a, to)[e] = IF e = a THEN to ELSE link[e]
  BY DEF Linked

(* An element that is put in front, as Pushed does.                        *)
LEMMA ListPush ==
  ASSUME NEW s, NEW first, NEW back, NEW link, IsList(s, first, back, link),
         NEW e \in Elements, e \notin ToSet(s)
  PROVE  /\ IsList(<<e>> \o s, e, Linked(Linked(back, e, NULL), first, e),
                   Linked(link, e, first))
         /\ Len(<<e>> \o s) = Len(s) + 1
         /\ ToSet(<<e>> \o s) = ToSet(s) \cup {e}
<1> DEFINE t == <<e>> \o s
           back2 == Linked(Linked(back, e, NULL), first, e)
           link2 == Linked(link, e, first)
<1>1. /\ s \in Seq(Elements) /\ Len(s) \in Nat /\ DOMAIN s = 1..Len(s)
      /\ \A i \in 1..Len(s) : s[i] \in Elements /\ s[i] \in ToSet(s)
      /\ Distinct(s) /\ first = Nth(s, 1)
  BY LenProperties DEF IsList, ToSet
<1>2. /\ t \in Seq(Elements) /\ Len(t) = Len(s) + 1
      /\ t[1] = e /\ \A i \in 1..Len(s) : t[i + 1] = s[i]
      /\ DOMAIN t = 1..Len(s) + 1
  <2>1. <<e>> \in Seq(Elements) /\ Len(<<e>>) = 1 /\ <<e>>[1] = e
    OBVIOUS
  <2>2. /\ t \in Seq(Elements) /\ Len(t) = 1 + Len(s)
        /\ \A i \in 1..1 + Len(s) : t[i] = IF i <= 1 THEN <<e>>[i] ELSE s[i - 1]
    BY <1>1, <2>1, ConcatProperties
  <2> QED
    BY <1>1, <2>1, <2>2, LenProperties
<1> HIDE DEF t
<1>3. \A i \in 1..Len(t) : t[i] = IF i = 1 THEN e ELSE s[i - 1]
  BY <1>1, <1>2
<1>4. Distinct(t)
  BY <1>1, <1>2, <1>3 DEF Distinct
<1>5. \A i \in Int : Nth(t, i + 1) = IF i = 0 THEN e ELSE Nth(s, i)
  BY <1>1, <1>2 DEF Nth
<1>6. first # e /\ (first = NULL <=> Len(s) = 0)
  <2>1. CASE Len(s) = 0
    BY <1>1, <2>1, NullIsNoElement DEF Nth
  <2>2. CASE Len(s) # 0
    <3>1. 1 \in 1..Len(s)
      BY <1>1, <2>2
    <3>2. Nth(s, 1) = s[1] /\ s[1] \in Elements /\ s[1] \in ToSet(s)
      BY <1>1, <3>1 DEF Nth
    <3> QED
      BY <1>1, <2>2, <3>2, NullIsNoElement
  <2> QED
    BY <2>1, <2>2
<1>7. ASSUME NEW i \in 1..Len(t)
      PROVE  link2[t[i]] = Nth(t, i + 1) /\ back2[t[i]] = Nth(t, i - 1)
  <2>1. CASE i = 1
    <3>1. t[i] = e /\ Nth(t, i + 1) = Nth(s, 1) /\ Nth(t, i - 1) = NULL
      BY <1>1, <1>2, <1>3, <1>5, <2>1, NthOf
    <3> QED
      BY <1>1, <1>6, <3>1, LinkedAt
  <2>2. CASE i # 1
    <3> DEFINE j == i - 1
    <3>1. j \in 1..Len(s) /\ t[i] = s[j] /\ s[j] # e /\ s[j] \in Elements
      BY <1>1, <1>2, <1>3, <2>2
    <3>2. Nth(t, i + 1) = Nth(s, j + 1) /\ Nth(t, i - 1) = IF j = 1 THEN e ELSE Nth(s, j - 1)
      <4>1. i \in Int /\ i = j + 1 /\ j - 1 \in Int /\ j \in Int /\ j + 1 \in Int
        BY <1>2
      <4>2. Nth(t, (j + 1) + 1) = Nth(s, j + 1) /\ j + 1 # 0
        BY <1>5, <3>1, <4>1
      <4>3. Nth(t, (j - 1) + 1) = IF j - 1 = 0 THEN e ELSE Nth(s, j - 1)
        BY <1>5, <4>1
      <4>4. i + 1 = (j + 1) + 1 /\ i - 1 = (j - 1) + 1 /\ (j - 1 = 0 <=> j = 1)
        BY <4>1
      <4> QED
        BY <4>2, <4>3, <4>4
    <3>3. link[s[j]] = Nth(s, j + 1) /\ back[s[j]] = Nth(s, j - 1)
      BY <3>1 DEF IsList
    <3>4. s[j] = first <=> j = 1
      BY <1>1, <3>1, NthOf DEF Distinct
    <3>5. link2[s[j]] = link[s[j]]
      BY <3>1, LinkedAt
    <3>6. back2[s[j]] = IF s[j] = first THEN e ELSE back[s[j]]
      BY <3>1, LinkedAt
    <3> QED
      BY <3>1, <3>2, <3>3, <3>4, <3>5, <3>6
  <2> QED
    BY <2>1, <2>2
<1>8. e = Nth(t, 1)
  BY <1>5
<1>9. ToSet(t) = ToSet(s) \cup {e}
  <2>1. \A x \in ToSet(t) : x \in ToSet(s) \cup {e}
    BY <1>1, <1>2, <1>3 DEF ToSet
  <2>2. \A x \in ToSet(s) : x \in ToSet(t)
    <3> TAKE x \in ToSet(s)
    <3>1. PICK i \in 1..Len(s) : x = s[i]
      BY <1>1 DEF ToSet
    <3>2. i + 1 \in DOMAIN t /\ t[i + 1] = x
      BY <1>1, <1>2, <3>1
    <3> QED
      BY <3>2 DEF ToSet
  <2>3. e \in ToSet(t)
    BY <1>1, <1>2 DEF ToSet
  <2> QED
    BY <2>1, <2>2, <2>3
<1>10. IsList(t, e, back2, link2)
  BY <1>2, <1>4, <1>7, <1>8 DEF IsList
<1> QED
  BY <1>2, <1>9, <1>10 DEF t

(* A function on 1..n is a sequence.                                       *)
LEMMA FunctionIsSeq ==
  ASSUME NEW S, NEW n \in Nat, NEW f \in [1..n -> S]
  PROVE  f \in Seq(S) /\ Len(f) = n
  OBVIOUS

(* s without its k-th element.                                             *)
Without(s, k) == [i \in 1..Len(s) - 1 |-> IF i < k THEN s[i] ELSE s[i + 1]]

(* A sequence without its k-th element.                                    *)
LEMMA WithoutIs ==
  ASSUME NEW s \in Seq(Elements), Distinct(s), NEW k \in 1..Len(s)
  PROVE  LET t == Without(s, k)
         IN /\ t \in Seq(Elements) /\ Len(t) = Len(s) - 1
            /\ Distinct(t)
            /\ ToSet(t) = ToSet(s) \ {s[k]}
            /\ \A i \in Int : Nth(t, i) = IF i < k THEN Nth(s, i) ELSE Nth(s, i + 1)
<1> DEFINE t == Without(s, k)
<1>1. /\ Len(s) \in Nat /\ DOMAIN s = 1..Len(s) /\ Len(s) - 1 \in Nat
      /\ \A i \in 1..Len(s) : s[i] \in Elements
      /\ k \in Nat
  BY LenProperties
<1>2. t \in [1..Len(s) - 1 -> Elements]
  BY <1>1 DEF Without
<1>3. t \in Seq(Elements) /\ Len(t) = Len(s) - 1 /\ DOMAIN t = 1..Len(s) - 1
  BY <1>1, <1>2, FunctionIsSeq
<1>4. \A i \in 1..Len(s) - 1 : t[i] = IF i < k THEN s[i] ELSE s[i + 1]
  BY DEF Without
<1> HIDE DEF t
<1>5. Distinct(t)
  <2> SUFFICES ASSUME NEW i \in 1..Len(t), NEW j \in 1..Len(t), t[i] = t[j]
               PROVE  i = j
    BY DEF Distinct
  <2> DEFINE a == IF i < k THEN i ELSE i + 1
             b == IF j < k THEN j ELSE j + 1
  <2>1. a \in 1..Len(s) /\ b \in 1..Len(s) /\ t[i] = s[a] /\ t[j] = s[b]
    BY <1>1, <1>3, <1>4
  <2>2. a = b
    BY <2>1 DEF Distinct
  <2> QED
    BY <1>1, <1>3, <2>2
<1>6. ToSet(t) = ToSet(s) \ {s[k]}
  <2>1. ASSUME NEW i \in 1..Len(t)
        PROVE  t[i] \in ToSet(s) \ {s[k]}
    <3> DEFINE a == IF i < k THEN i ELSE i + 1
    <3>1. a \in 1..Len(s) /\ t[i] = s[a] /\ a # k
      BY <1>1, <1>3, <1>4
    <3>2. s[a] # s[k]
      BY <3>1 DEF Distinct
    <3> QED
      BY <1>1, <3>1, <3>2 DEF ToSet
  <2>2. ASSUME NEW x \in ToSet(s) \ {s[k]}
        PROVE  x \in ToSet(t)
    <3>1. PICK a \in 1..Len(s) : x = s[a] /\ a # k
      BY <1>1 DEF ToSet
    <3> DEFINE i == IF a < k THEN a ELSE a - 1
    <3>2. i \in 1..Len(t) /\ t[i] = s[a]
      BY <1>1, <1>3, <1>4, <3>1
    <3> HIDE DEF i
    <3> QED
      BY <1>3, <3>1, <3>2 DEF ToSet
  <2> QED
    BY <1>3, <2>1, <2>2 DEF ToSet
<1>7. ASSUME NEW i \in Int
      PROVE  Nth(t, i) = IF i < k THEN Nth(s, i) ELSE Nth(s, i + 1)
  <2>1. CASE i \in 1..Len(t)
    BY <1>1, <1>3, <1>4, <2>1 DEF Nth
  <2>2. CASE i \notin 1..Len(t)
    BY <1>1, <1>3, <2>2 DEF Nth
  <2> QED
    BY <2>1, <2>2
<1> QED
  BY <1>3, <1>5, <1>6, <1>7 DEF t

(* An element that is unlinked, as Unlisted and DelInBkt do.               *)
LEMMA ListRemove ==
  ASSUME NEW s, NEW first, NEW back, NEW link, IsList(s, first, back, link),
         NEW k \in 1..Len(s)
  PROVE  LET e == s[k]
             link2 == Linked(link, back[e], link[e])
             back2 == Linked(back, link[e], back[e])
         IN /\ IsList(Without(s, k), IF first = e THEN link[e] ELSE first, back2, link2)
            /\ (back[e] = NULL <=> k = 1)
            /\ (first = e <=> k = 1)
            /\ (link[e] = NULL <=> k = Len(s))
            /\ back[e] \in ToSet(s) \cup {NULL}
            /\ link[e] \in ToSet(s) \cup {NULL}
            /\ back[e] = Nth(s, k - 1) /\ link[e] = Nth(s, k + 1)
<1> DEFINE e == s[k]
           before == back[e]
           after == link[e]
           link2 == Linked(link, before, after)
           back2 == Linked(back, after, before)
           t == Without(s, k)
<1>1. /\ s \in Seq(Elements) /\ Len(s) \in Nat /\ DOMAIN s = 1..Len(s)
      /\ \A i \in 1..Len(s) : s[i] \in Elements /\ s[i] \in ToSet(s)
      /\ Distinct(s) /\ first = Nth(s, 1) /\ k \in Nat
  BY LenProperties DEF IsList, ToSet
<1>2. before = Nth(s, k - 1) /\ after = Nth(s, k + 1)
  BY DEF IsList
<1>3. /\ t \in Seq(Elements) /\ Len(t) = Len(s) - 1 /\ Distinct(t)
      /\ \A i \in Int : Nth(t, i) = IF i < k THEN Nth(s, i) ELSE Nth(s, i + 1)
      /\ Len(t) \in Nat
  <2>1. /\ t \in Seq(Elements) /\ Len(t) = Len(s) - 1 /\ Distinct(t)
        /\ \A i \in Int : Nth(t, i) = IF i < k THEN Nth(s, i) ELSE Nth(s, i + 1)
    BY <1>1, WithoutIs
  <2> QED
    BY <1>1, <2>1, LenProperties
<1>4. \A i \in 1..Len(s) : Nth(s, i) = s[i] /\ Nth(s, i) # NULL
  BY <1>1, NullIsNoElement DEF Nth
<1>5. Nth(s, 0) = NULL /\ Nth(s, Len(s) + 1) = NULL
  BY <1>1 DEF Nth
<1>6. /\ (before = NULL <=> k = 1) /\ (after = NULL <=> k = Len(s))
      /\ before \in ToSet(s) \cup {NULL} /\ after \in ToSet(s) \cup {NULL}
  <2>1. (before = NULL <=> k = 1) /\ before \in ToSet(s) \cup {NULL}
    <3>1. CASE k = 1
      BY <1>2, <1>5, <3>1
    <3>2. CASE k # 1
      <4>1. k - 1 \in 1..Len(s)
        BY <1>1, <3>2
      <4> QED
        BY <1>1, <1>2, <1>4, <3>2, <4>1
    <3> QED
      BY <3>1, <3>2
  <2>2. (after = NULL <=> k = Len(s)) /\ after \in ToSet(s) \cup {NULL}
    <3>1. CASE k = Len(s)
      BY <1>2, <1>5, <3>1
    <3>2. CASE k # Len(s)
      <4>1. Len(s) \in Nat
        BY <1>1
      <4>2. k + 1 \in 1..Len(s)
        BY <3>2, <4>1
      <4> QED
        BY <1>1, <1>2, <1>4, <3>2, <4>2
    <3> QED
      BY <3>1, <3>2
  <2> QED
    BY <2>1, <2>2
<1>7. first = e <=> k = 1
  BY <1>1, <1>4 DEF Distinct
<1> HIDE DEF t
<1>8. (IF first = e THEN after ELSE first) = Nth(t, 1)
  <2>1. 1 \in Int /\ 1 + 1 = 2 /\ (k = 1 \/ 1 < k)
    BY <1>1
  <2>2. Nth(t, 1) = IF 1 < k THEN Nth(s, 1) ELSE Nth(s, 2)
    BY <1>3, <2>1
  <2>3. CASE k = 1
    <3>1. ~(1 < k) /\ k + 1 = 2
      BY <2>3
    <3> QED
      BY <1>2, <1>7, <2>2, <2>3, <3>1
  <2>4. CASE k # 1
    BY <1>1, <1>7, <2>1, <2>2, <2>4
  <2> QED
    BY <2>3, <2>4
<1>9. ASSUME NEW i \in 1..Len(t)
      PROVE  link2[t[i]] = Nth(t, i + 1) /\ back2[t[i]] = Nth(t, i - 1)
  <2> DEFINE a == IF i < k THEN i ELSE i + 1
  <2>1. a \in 1..Len(s) /\ a # k /\ a \in Int
    <3>1. k \in Nat /\ Len(s) \in Nat /\ Len(t) = Len(s) - 1 /\ i \in 1..Len(t)
      BY <1>1, <1>3
    <3> QED
      BY ONLY <3>1
  <2>2. t[i] = s[a]
    <3>1. Nth(t, i) = Nth(s, a)
      <4>1. i \in Int
        BY <1>3
      <4> QED
        BY <1>3, <4>1
    <3>2. Nth(t, i) = t[i]
      <4>1. t \in Seq(Elements) /\ i \in Int /\ i \in 1..Len(t)
        BY <1>3
      <4> QED
        BY <4>1, NthOf
    <3> QED
      BY <1>4, <2>1, <3>1, <3>2
  <2>3. /\ Nth(t, i + 1) = IF i + 1 < k THEN Nth(s, i + 1) ELSE Nth(s, i + 2)
        /\ Nth(t, i - 1) = IF i - 1 < k THEN Nth(s, i - 1) ELSE Nth(s, i)
    <3>1. i + 1 \in Int /\ i - 1 \in Int /\ (i + 1) + 1 = i + 2 /\ (i - 1) + 1 = i
      OBVIOUS
    <3> QED
      BY <1>3, <3>1
  <2>4. link[s[a]] = Nth(s, a + 1) /\ back[s[a]] = Nth(s, a - 1) /\ s[a] \in Elements
    BY <1>1, <2>1 DEF IsList
  <2>5. s[a] = before <=> a = k - 1
    <3>1. CASE k = 1
      BY <1>1, <1>4, <1>6, <2>1, <3>1
    <3>2. CASE k # 1
      <4>1. k - 1 \in 1..Len(s) /\ before = s[k - 1]
        BY <1>1, <1>2, <1>4, <3>2
      <4> QED
        BY <1>1, <2>1, <4>1 DEF Distinct
    <3> QED
      BY <3>1, <3>2
  <2>6. s[a] = after <=> a = k + 1
    <3>1. CASE k = Len(s)
      <4>1. a # k + 1 /\ after = NULL /\ s[a] # NULL
        BY <1>1, <1>4, <1>6, <2>1, <3>1
      <4> QED
        BY <4>1
    <3>2. CASE k # Len(s)
      <4>1. k + 1 \in 1..Len(s) /\ after = s[k + 1]
        BY <1>1, <1>2, <1>4, <3>2
      <4> QED
        BY <1>1, <2>1, <4>1 DEF Distinct
    <3> QED
      BY <3>1, <3>2
  <2>7. link2[s[a]] = IF a = k - 1 THEN after ELSE Nth(s, a + 1)
    BY <2>4, <2>5, LinkedAt
  <2>8. back2[s[a]] = IF a = k + 1 THEN before ELSE Nth(s, a - 1)
    BY <2>4, <2>6, LinkedAt
  <2> HIDE DEF link2, back2, before, after, e
  <2>9. CASE i < k
    <3>1. a = i
      BY <2>9
    <3>2. i = k - 1 \/ i + 1 < k
      BY <1>1, <1>3, <2>9
    <3>3. i - 1 < k /\ i # k + 1
      BY <1>1, <1>3, <2>9
    <3>4. back2[t[i]] = Nth(t, i - 1)
      BY <2>2, <2>3, <2>8, <3>1, <3>3
    <3>5. CASE i = k - 1
      <4>1. ~(i + 1 < k) /\ i + 2 = k + 1
        BY <1>1, <3>5
      <4> QED
        BY <1>2, <2>2, <2>3, <2>7, <3>1, <3>4, <3>5, <4>1
    <3>6. CASE i + 1 < k
      <4>1. i # k - 1
        BY <1>1, <1>3, <3>6
      <4> QED
        BY <2>2, <2>3, <2>7, <3>1, <3>4, <3>6, <4>1
    <3> QED
      BY <3>2, <3>5, <3>6
  <2>10. CASE ~(i < k)
    <3>1. a = i + 1
      BY <2>10
    <3>2. ~(i + 1 < k) /\ i + 1 # k - 1 /\ (i + 1) + 1 = i + 2 /\ (i + 1) - 1 = i
      BY <1>1, <1>3, <2>10
    <3>3. link2[t[i]] = Nth(t, i + 1)
      BY <2>2, <2>3, <2>7, <3>1, <3>2
    <3>4. CASE i = k
      <4>1. i - 1 < k /\ i + 1 = k + 1
        BY <1>1, <3>4
      <4> QED
        BY <1>2, <2>2, <2>3, <2>8, <3>1, <3>3, <3>4, <4>1
    <3>5. CASE i # k
      <4>1. ~(i - 1 < k) /\ i + 1 # k + 1
        BY <1>1, <1>3, <2>10, <3>5
      <4> QED
        BY <2>2, <2>3, <2>8, <3>1, <3>2, <3>3, <4>1
    <3> QED
      BY <3>4, <3>5
  <2> QED
    BY <2>9, <2>10
<1>10. IsList(t, IF first = e THEN after ELSE first, back2, link2)
  BY <1>3, <1>8, <1>9 DEF IsList
<1> QED
  BY <1>2, <1>6, <1>7, <1>10 DEF t

(* An element that is put at the end, as AppendList does; last is NULL for *)
(* an empty list.                                                          *)
LEMMA ListAppend ==
  ASSUME NEW s, NEW first, NEW back, NEW link, IsList(s, first, back, link),
         NEW e \in Elements, e \notin ToSet(s), s # <<>>
  PROVE  /\ IsList(Append(s, e), first, Linked(back, e, s[Len(s)]),
                   Linked(Linked(link, e, NULL), s[Len(s)], e))
         /\ Len(Append(s, e)) = Len(s) + 1
         /\ Append(s, e)[Len(s) + 1] = e
         /\ ToSet(Append(s, e)) = ToSet(s) \cup {e}
<1> DEFINE t == Append(s, e)
           last == s[Len(s)]
           back2 == Linked(back, e, last)
           link2 == Linked(Linked(link, e, NULL), last, e)
<1>1. /\ s \in Seq(Elements) /\ Len(s) \in Nat /\ DOMAIN s = 1..Len(s)
      /\ \A i \in 1..Len(s) : s[i] \in Elements /\ s[i] \in ToSet(s)
      /\ Distinct(s) /\ first = Nth(s, 1) /\ Len(s) # 0
  BY LenProperties, EmptySeq DEF IsList, ToSet
<1>2. /\ t \in Seq(Elements) /\ Len(t) = Len(s) + 1
      /\ \A i \in 1..Len(s) : t[i] = s[i]
      /\ t[Len(s) + 1] = e
      /\ DOMAIN t = 1..Len(s) + 1
  BY <1>1, AppendProperties, LenProperties
<1> HIDE DEF t
<1>3. \A i \in Int : Nth(t, i) = IF i = Len(s) + 1 THEN e ELSE Nth(s, i)
  BY <1>1, <1>2 DEF Nth
<1>4. Distinct(t)
  BY <1>1, <1>2 DEF Distinct
<1>5. Len(s) \in 1..Len(s) /\ last # e /\ last \in Elements
  BY <1>1
<1>6. ASSUME NEW i \in 1..Len(t)
      PROVE  link2[t[i]] = Nth(t, i + 1) /\ back2[t[i]] = Nth(t, i - 1)
  <2>1. CASE i = Len(s) + 1
    <3>1. t[i] = e /\ Nth(t, i + 1) = NULL /\ Nth(t, i - 1) = last
      BY <1>1, <1>2, <1>3, <2>1 DEF Nth
    <3>2. link2[e] = NULL /\ back2[e] = last
      BY <1>5, LinkedAt
    <3> QED
      BY <3>1, <3>2
  <2>2. CASE i # Len(s) + 1
    <3>1. i \in 1..Len(s) /\ t[i] = s[i] /\ s[i] # e /\ s[i] \in Elements
      BY <1>1, <1>2, <2>2
    <3>2. link[s[i]] = Nth(s, i + 1) /\ back[s[i]] = Nth(s, i - 1)
      BY <3>1 DEF IsList
    <3>3. s[i] = last <=> i = Len(s)
      BY <1>1, <1>5, <3>1 DEF Distinct
    <3>4. link2[s[i]] = IF s[i] = last THEN e ELSE link[s[i]]
      BY <3>1, LinkedAt
    <3>5. back2[s[i]] = back[s[i]]
      BY <3>1, LinkedAt
    <3>6. Nth(t, i + 1) = (IF i = Len(s) THEN e ELSE Nth(s, i + 1)) /\ Nth(t, i - 1) = Nth(s, i - 1)
      <4>1. Len(s) \in Nat /\ i \in 1..Len(s)
        BY <1>1, <3>1
      <4>2. /\ i + 1 \in Int /\ i - 1 \in Int /\ i - 1 # Len(s) + 1
            /\ (i + 1 = Len(s) + 1 <=> i = Len(s))
        BY <4>1
      <4> QED
        BY <1>3, <4>2
    <3> QED
      BY <3>1, <3>2, <3>3, <3>4, <3>5, <3>6
  <2> QED
    BY <2>1, <2>2
<1>7. first = Nth(t, 1)
  BY <1>1, <1>3
<1>8. ToSet(t) = ToSet(s) \cup {e}
  <2>1. \A x \in ToSet(t) : x \in ToSet(s) \cup {e}
    BY <1>1, <1>2 DEF ToSet
  <2>2. \A x \in ToSet(s) : x \in ToSet(t)
    BY <1>1, <1>2 DEF ToSet
  <2>3. e \in ToSet(t)
    BY <1>1, <1>2 DEF ToSet
  <2> QED
    BY <2>1, <2>2, <2>3
<1>9. IsList(t, first, back2, link2)
  BY <1>2, <1>4, <1>6, <1>7 DEF IsList
<1> QED
  BY <1>2, <1>8, <1>9 DEF t

(* A single element.                                                       *)
LEMMA ListOfOne ==
  ASSUME NEW e \in Elements, NEW back, NEW link, back[e] = NULL, link[e] = NULL
  PROVE  IsList(<<e>>, e, back, link) /\ ToSet(<<e>>) = {e}
<1>1. <<e>> \in Seq(Elements) /\ Len(<<e>>) = 1 /\ <<e>>[1] = e /\ DOMAIN <<e>> = 1..1
  OBVIOUS
<1> DEFINE s == <<e>>
<1> HIDE DEF s
<1>2. s \in Seq(Elements) /\ Len(s) = 1 /\ s[1] = e /\ DOMAIN s = 1..1
  BY <1>1 DEF s
<1>3. IsList(s, e, back, link)
  BY <1>2 DEF IsList, Distinct, Nth
<1>4. ToSet(s) = {e}
  BY <1>2 DEF ToSet
<1> QED
  BY <1>3, <1>4 DEF s

------------------------------------------------------------------------------
(* Buckets and their chains.                                               *)

(* Linked keeps the type of a link.                                        *)
LEMMA LinkedType ==
  ASSUME NEW link \in Links, NEW a, NEW to \in Pointers
  PROVE  Linked(link, a, to) \in Links
  BY DEF Linked, Links

(* The elements of M that belong in bucket b.                              *)
InBkt(hashv, num, M, b) == {e \in M : ToBkt(hashv[e], num) = b}

(* ToBkt gives the number of a bucket.                                     *)
LEMMA ToBktType ==
  ASSUME NEW v \in Nat, NEW num \in Nat \ {0}
  PROVE  ToBkt(v, num) \in 0..num - 1
  BY DEF ToBkt

(* The buckets hold the elements of M, each in its bucket.                 *)
Hashed(buckets, hh, num, M) ==
  /\ num \in Nat \ {0}
  /\ buckets \in [0..num-1 -> Buckets]
  /\ \A b \in 0..num-1 : \E c :
       /\ IsList(c, buckets[b].hh_head, hh.hh_prev, hh.hh_next)
       /\ Len(c) = buckets[b].count
       /\ ToSet(c) = InBkt(hh.hashv, num, M, b)

(* put is buckets and hh with e at the head of the chain of bucket b.      *)
IsPushed(put, buckets, hh, num, b, e) ==
  LET old == buckets[b].hh_head
  IN /\ put.buckets \in [0..num-1 -> Buckets]
     /\ put.hh \in Handles
     /\ put.hh.prev = hh.prev /\ put.hh.next = hh.next /\ put.hh.hashv = hh.hashv
     /\ put.hh.hh_next = Linked(hh.hh_next, e, old)
     /\ put.hh.hh_prev = Linked(Linked(hh.hh_prev, e, NULL), old, e)
     /\ \A x \in 0..num-1 : x # b => put.buckets[x] = buckets[x]
     /\ put.buckets[b].hh_head = e
     /\ put.buckets[b].count = buckets[b].count + 1
     /\ put.buckets[b].expand_mult = buckets[b].expand_mult

(* What Pushed changes: the head and the count of one bucket, and the two  *)
(* links of the chain.                                                     *)
LEMMA PushedIs ==
  ASSUME NEW num \in Nat \ {0}, NEW buckets \in [0..num-1 -> Buckets], NEW hh \in Handles,
         NEW b \in 0..num-1, NEW e \in Elements,
         NEW put, put = Pushed(buckets, hh, b, e)
  PROVE  IsPushed(put, buckets, hh, num, b, e)
<1> DEFINE old == buckets[b].hh_head
           hh2 == [hh EXCEPT !.hh_next = Linked(@, e, old),
                        !.hh_prev = Linked(Linked(@, e, NULL), old, e)]
           bk2 == [buckets EXCEPT ![b].count = @ + 1, ![b].hh_head = e]
<1>1. buckets[b] \in Buckets /\ old \in Pointers /\ e \in Pointers /\ NULL \in Pointers
  BY DEF Buckets, Pointers
<1>2. /\ hh.hh_next \in Links /\ hh.hh_prev \in Links /\ hh.prev \in Links /\ hh.next \in Links
      /\ hh.hashv \in [Elements -> Nat]
  BY DEF Handles
<1>3. Linked(hh.hh_next, e, old) \in Links /\ Linked(Linked(hh.hh_prev, e, NULL), old, e) \in Links
  BY <1>1, <1>2, LinkedType
<1>4. put.buckets = bk2 /\ put.hh = hh2
  BY DEF Pushed
<1>5. /\ hh2 \in Handles
      /\ hh2.prev = hh.prev /\ hh2.next = hh.next /\ hh2.hashv = hh.hashv
      /\ hh2.hh_next = Linked(hh.hh_next, e, old)
      /\ hh2.hh_prev = Linked(Linked(hh.hh_prev, e, NULL), old, e)
  BY <1>2, <1>3 DEF Handles
<1>6. /\ bk2 \in [0..num-1 -> Buckets]
      /\ \A x \in 0..num-1 : x # b => bk2[x] = buckets[x]
      /\ bk2[b].hh_head = e
      /\ bk2[b].count = buckets[b].count + 1
      /\ bk2[b].expand_mult = buckets[b].expand_mult
  <2> DEFINE mid == [buckets EXCEPT ![b].count = @ + 1]
  <2>1. buckets[b].count + 1 \in Nat
    BY <1>1 DEF Buckets
  <2>2. [buckets[b] EXCEPT !.count = @ + 1] \in Buckets
    BY <1>1, <2>1 DEF Buckets
  <2>3. mid = [buckets EXCEPT ![b] = [buckets[b] EXCEPT !.count = @ + 1]]
    OBVIOUS
  <2>4. /\ mid \in [0..num-1 -> Buckets]
        /\ mid[b] = [buckets[b] EXCEPT !.count = @ + 1]
        /\ \A x \in 0..num-1 : x # b => mid[x] = buckets[x]
    BY <2>2, <2>3
  <2>5. mid[b].count = buckets[b].count + 1 /\ mid[b].expand_mult = buckets[b].expand_mult
    BY <1>1, <2>4 DEF Buckets
  <2> HIDE DEF mid
  <2>6. [mid[b] EXCEPT !.hh_head = e] \in Buckets
    BY <1>1, <2>4 DEF Buckets
  <2>7. bk2 = [mid EXCEPT ![b] = [mid[b] EXCEPT !.hh_head = e]]
    BY DEF mid
  <2>8. /\ bk2 \in [0..num-1 -> Buckets]
        /\ bk2[b] = [mid[b] EXCEPT !.hh_head = e]
        /\ \A x \in 0..num-1 : x # b => bk2[x] = mid[x]
    BY <2>4, <2>6, <2>7
  <2>9. mid[b] \in Buckets
    BY <2>4
  <2> HIDE DEF bk2
  <2>10. bk2[b].hh_head = e /\ bk2[b].count = mid[b].count /\ bk2[b].expand_mult = mid[b].expand_mult
    BY <2>8, <2>9 DEF Buckets
  <2> QED
    BY <2>4, <2>5, <2>8, <2>10
<1> QED
  BY <1>4, <1>5, <1>6 DEF IsPushed

(* Pushed puts a new element into its bucket and leaves the others alone.  *)
LEMMA PushedKeeps ==
  ASSUME NEW num, NEW buckets, NEW hh \in Handles, NEW M \in SUBSET Elements,
         Hashed(buckets, hh, num, M),
         NEW e \in Elements, e \notin M,
         NEW put, put = Pushed(buckets, hh, ToBkt(hh.hashv[e], num), e)
  PROVE  Hashed(put.buckets, put.hh, num, M \cup {e})
<1> DEFINE b == ToBkt(hh.hashv[e], num)
           old == buckets[b].hh_head
           back2 == Linked(Linked(hh.hh_prev, e, NULL), old, e)
           link2 == Linked(hh.hh_next, e, old)
<1>1. num \in Nat \ {0} /\ buckets \in [0..num-1 -> Buckets] /\ hh.hashv \in [Elements -> Nat]
  BY DEF Hashed, Handles
<1>2. b \in 0..num-1 /\ put = Pushed(buckets, hh, b, e)
  BY <1>1, ToBktType
<1> HIDE DEF b
<1>3. /\ put.buckets \in [0..num-1 -> Buckets]
      /\ put.hh.hashv = hh.hashv
      /\ put.hh.hh_next = link2
      /\ put.hh.hh_prev = back2
      /\ \A x \in 0..num-1 : x # b => put.buckets[x] = buckets[x]
      /\ put.buckets[b].hh_head = e
      /\ put.buckets[b].count = buckets[b].count + 1
  <2>1. IsPushed(put, buckets, hh, num, b, e)
    BY <1>1, <1>2, PushedIs
  <2> QED
    BY <2>1 DEF IsPushed
<1>4. PICK c : /\ IsList(c, old, hh.hh_prev, hh.hh_next)
               /\ Len(c) = buckets[b].count
               /\ ToSet(c) = InBkt(hh.hashv, num, M, b)
  BY <1>2 DEF Hashed
<1>5. e \notin ToSet(c)
  BY <1>4 DEF InBkt
<1>6. /\ IsList(<<e>> \o c, e, back2, link2)
      /\ Len(<<e>> \o c) = Len(c) + 1
      /\ ToSet(<<e>> \o c) = ToSet(c) \cup {e}
  BY <1>4, <1>5, ListPush
<1>7. ASSUME NEW x \in 0..num-1
      PROVE  \E d : /\ IsList(d, put.buckets[x].hh_head, put.hh.hh_prev, put.hh.hh_next)
                    /\ Len(d) = put.buckets[x].count
                    /\ ToSet(d) = InBkt(put.hh.hashv, num, M \cup {e}, x)
  <2>1. CASE x = b
    <3>1. InBkt(hh.hashv, num, M \cup {e}, b) = InBkt(hh.hashv, num, M, b) \cup {e}
      BY DEF InBkt, b
    <3>2. /\ IsList(<<e>> \o c, put.buckets[b].hh_head, put.hh.hh_prev, put.hh.hh_next)
          /\ Len(<<e>> \o c) = put.buckets[b].count
          /\ ToSet(<<e>> \o c) = InBkt(put.hh.hashv, num, M \cup {e}, b)
      BY <1>3, <1>4, <1>6, <3>1
    <3> QED
      BY <2>1, <3>2
  <2>2. CASE x # b
    <3>1. PICK d : /\ IsList(d, buckets[x].hh_head, hh.hh_prev, hh.hh_next)
                   /\ Len(d) = buckets[x].count
                   /\ ToSet(d) = InBkt(hh.hashv, num, M, x)
      BY DEF Hashed
    <3>2. InBkt(hh.hashv, num, M \cup {e}, x) = InBkt(hh.hashv, num, M, x)
      BY <2>2 DEF InBkt, b
    <3>3. old \in ToSet(c) \cup {NULL}
      <4>1. c \in Seq(Elements) /\ old = Nth(c, 1) /\ 1 \in Int
        BY <1>4 DEF IsList
      <4> QED
        BY <4>1, LenProperties DEF Nth, ToSet
    <3>4. ASSUME NEW y \in ToSet(d)
          PROVE  y \in Elements /\ y # e /\ y # old
      <4>1. y \in M /\ ToBkt(hh.hashv[y], num) = x
        BY <3>1 DEF InBkt
      <4>2. y # e
        BY <4>1
      <4>3. y \notin ToSet(c)
        BY <1>4, <2>2, <4>1 DEF InBkt
      <4> QED
        BY <3>3, <4>1, <4>2, <4>3, NullIsNoElement
    <3>5. \A y \in ToSet(d) : back2[y] = hh.hh_prev[y] /\ link2[y] = hh.hh_next[y]
      BY <3>4, LinkedAt
    <3>6. IsList(d, buckets[x].hh_head, back2, link2)
      BY <3>1, <3>5, ListUndisturbed
    <3> QED
      BY <1>3, <2>2, <3>1, <3>2, <3>6
  <2> QED
    BY <2>1, <2>2
<1> QED
  BY <1>1, <1>3, <1>7 DEF Hashed

(* MovedUpTo moves the elements one by one.                                 *)
LEMMA MovedUpToIs ==
  ASSUME NEW start, NEW items, Len(items) \in Nat,
         NEW at, at = MovedUpTo(start, items)
  PROVE  /\ DOMAIN at = 0..Len(items)
         /\ at[0] = start
         /\ \A n \in 1..Len(items) : at[n] = Moved(at[n - 1], items[n])
<1> DEFINE C == Len(items)
           Start == start
           Step(n, x) == Moved(x, items[n])
           Is(f, k) == f = [n \in 0..k |-> IF n = 0 THEN Start ELSE Step(n, f[n - 1])]
           P == {k \in Nat : \E f : Is(f, k)}
<1>1. C \in Nat
  OBVIOUS
<1>2. 0 \in P
  <2>1. Is([n \in 0..0 |-> Start], 0)
    <3> HIDE DEF Step, Start
    <3> QED
      OBVIOUS
  <2> QED
    BY <2>1
<1>3. ASSUME NEW k \in P
      PROVE  k + 1 \in P
  <2>1. PICK f : Is(f, k)
    OBVIOUS
  <2>2. k \in Nat
    OBVIOUS
  <2> DEFINE g == [n \in 0..k + 1 |-> IF n <= k THEN f[n] ELSE Step(k + 1, f[k])]
  <2> HIDE DEF Step, P, Start
  <2>3. ASSUME NEW n \in 0..k + 1
        PROVE  g[n] = IF n = 0 THEN Start ELSE Step(n, g[n - 1])
    <3>1. CASE n = 0
      BY <2>1, <2>2, <3>1
    <3>2. CASE n \in 1..k
      <4>1. n - 1 \in 0..k /\ n \in 0..k /\ n # 0 /\ n <= k /\ n - 1 <= k /\ n - 1 \in 0..k+1
        BY <2>2, <3>2
      <4>2. g[n] = f[n] /\ g[n - 1] = f[n - 1]
        BY <4>1
      <4>3. f[n] = Step(n, f[n - 1])
        BY <2>1, <4>1
      <4> QED
        BY <4>1, <4>2, <4>3
    <3>3. CASE n = k + 1
      <4>1. n - 1 = k /\ n # 0 /\ ~(n <= k) /\ k \in 0..k+1 /\ k <= k
        BY <2>2, <3>3
      <4>2. g[n] = Step(n, f[k]) /\ g[k] = f[k]
        BY <3>3, <4>1
      <4> QED
        BY <4>1, <4>2
    <3> QED
      BY <2>2, <3>1, <3>2, <3>3
  <2>4. g = [n \in 0..k + 1 |-> g[n]]
    OBVIOUS
  <2> HIDE DEF g
  <2>5. Is(g, k + 1)
    BY <2>3, <2>4
  <2> HIDE DEF Is
  <2>6. k + 1 \in Nat
    BY <2>2
  <2> QED
    BY <2>5, <2>6 DEF P
<1>4. PICK f : Is(f, C)
  <2> HIDE DEF Is, C
  <2>1. P = Nat
    BY <1>2, <1>3, NaturalsByInduction
  <2> QED
    BY <1>1, <2>1
<1>5. Is(at, C)
  BY <1>4, Zenon DEF MovedUpTo
<1> HIDE DEF Step, Start
<1>6. at[0] = Start /\ DOMAIN at = 0..C /\ \A n \in 1..C : at[n] = Step(n, at[n - 1])
  BY <1>1, <1>5
<1> QED
  BY <1>6 DEF Step, Start

(* Turns takes one turn after the other.                                   *)
LEMMA TurnsAre ==
  ASSUME NEW h,
         NEW at, at = Turns(h)
  PROVE  /\ DOMAIN at = 0..Cardinality(Elements)
         /\ at[0] = [h |-> h, el |-> h.head, tmp |-> IF h.head = NULL THEN NULL ELSE h.hh.next[h.head]]
         /\ \A n \in 1..Cardinality(Elements) : at[n] = Turn(at[n - 1])
<1> DEFINE C == Cardinality(Elements)
           Start == [h |-> h, el |-> h.head, tmp |-> IF h.head = NULL THEN NULL ELSE h.hh.next[h.head]]
           Step(n, x) == Turn(x)
           Is(f, k) == f = [n \in 0..k |-> IF n = 0 THEN Start ELSE Step(n, f[n - 1])]
           P == {k \in Nat : \E f : Is(f, k)}
<1>1. C \in Nat
  BY ElementsAreNat, FS_CardinalityType
<1>2. 0 \in P
  <2>1. Is([n \in 0..0 |-> Start], 0)
    <3> HIDE DEF Step, Start
    <3> QED
      OBVIOUS
  <2> QED
    BY <2>1
<1>3. ASSUME NEW k \in P
      PROVE  k + 1 \in P
  <2>1. PICK f : Is(f, k)
    OBVIOUS
  <2>2. k \in Nat
    OBVIOUS
  <2> DEFINE g == [n \in 0..k + 1 |-> IF n <= k THEN f[n] ELSE Step(k + 1, f[k])]
  <2> HIDE DEF Step, P, Start
  <2>3. ASSUME NEW n \in 0..k + 1
        PROVE  g[n] = IF n = 0 THEN Start ELSE Step(n, g[n - 1])
    <3>1. CASE n = 0
      BY <2>1, <2>2, <3>1
    <3>2. CASE n \in 1..k
      <4>1. n - 1 \in 0..k /\ n \in 0..k /\ n # 0 /\ n <= k /\ n - 1 <= k /\ n - 1 \in 0..k+1
        BY <2>2, <3>2
      <4>2. g[n] = f[n] /\ g[n - 1] = f[n - 1]
        BY <4>1
      <4>3. f[n] = Step(n, f[n - 1])
        BY <2>1, <4>1
      <4> QED
        BY <4>1, <4>2, <4>3
    <3>3. CASE n = k + 1
      <4>1. n - 1 = k /\ n # 0 /\ ~(n <= k) /\ k \in 0..k+1 /\ k <= k
        BY <2>2, <3>3
      <4>2. g[n] = Step(n, f[k]) /\ g[k] = f[k]
        BY <3>3, <4>1
      <4> QED
        BY <4>1, <4>2
    <3> QED
      BY <2>2, <3>1, <3>2, <3>3
  <2>4. g = [n \in 0..k + 1 |-> g[n]]
    OBVIOUS
  <2> HIDE DEF g
  <2>5. Is(g, k + 1)
    BY <2>3, <2>4
  <2> HIDE DEF Is
  <2>6. k + 1 \in Nat
    BY <2>2
  <2> QED
    BY <2>5, <2>6 DEF P
<1>4. PICK f : Is(f, C)
  <2> HIDE DEF Is, C
  <2>1. P = Nat
    BY <1>2, <1>3, NaturalsByInduction
  <2> QED
    BY <1>1, <2>1
<1>5. Is(at, C)
  BY <1>4, Zenon DEF Turns
<1> HIDE DEF Step, Start
<1>6. at[0] = Start /\ DOMAIN at = 0..C /\ \A n \in 1..C : at[n] = Step(n, at[n - 1])
  BY <1>1, <1>5
<1> QED
  BY <1>6 DEF Step, Start

(* MergeSteps takes one element after the other.                           *)
LEMMA MergeStepsAre ==
  ASSUME NEW p, NEW q, Len(p) \in Nat, Len(q) \in Nat,
         NEW at, at = MergeSteps(p, q)
  PROVE  /\ DOMAIN at = 0..Len(p) + Len(q)
         /\ at[0] = [i |-> 0, j |-> 0, out |-> <<>>]
         /\ \A n \in 1..Len(p) + Len(q) : at[n] = Taken(p, q, at[n - 1])
<1> DEFINE C == Len(p) + Len(q)
           Start == [i |-> 0, j |-> 0, out |-> <<>>]
           Step(n, x) == Taken(p, q, x)
           Is(f, k) == f = [n \in 0..k |-> IF n = 0 THEN Start ELSE Step(n, f[n - 1])]
           P == {k \in Nat : \E f : Is(f, k)}
<1>1. C \in Nat
  OBVIOUS
<1>2. 0 \in P
  <2>1. Is([n \in 0..0 |-> Start], 0)
    <3> HIDE DEF Step, Start
    <3> QED
      OBVIOUS
  <2> QED
    BY <2>1
<1>3. ASSUME NEW k \in P
      PROVE  k + 1 \in P
  <2>1. PICK f : Is(f, k)
    OBVIOUS
  <2>2. k \in Nat
    OBVIOUS
  <2> DEFINE g == [n \in 0..k + 1 |-> IF n <= k THEN f[n] ELSE Step(k + 1, f[k])]
  <2> HIDE DEF Step, P, Start
  <2>3. ASSUME NEW n \in 0..k + 1
        PROVE  g[n] = IF n = 0 THEN Start ELSE Step(n, g[n - 1])
    <3>1. CASE n = 0
      BY <2>1, <2>2, <3>1
    <3>2. CASE n \in 1..k
      <4>1. n - 1 \in 0..k /\ n \in 0..k /\ n # 0 /\ n <= k /\ n - 1 <= k /\ n - 1 \in 0..k+1
        BY <2>2, <3>2
      <4>2. g[n] = f[n] /\ g[n - 1] = f[n - 1]
        BY <4>1
      <4>3. f[n] = Step(n, f[n - 1])
        BY <2>1, <4>1
      <4> QED
        BY <4>1, <4>2, <4>3
    <3>3. CASE n = k + 1
      <4>1. n - 1 = k /\ n # 0 /\ ~(n <= k) /\ k \in 0..k+1 /\ k <= k
        BY <2>2, <3>3
      <4>2. g[n] = Step(n, f[k]) /\ g[k] = f[k]
        BY <3>3, <4>1
      <4> QED
        BY <4>1, <4>2
    <3> QED
      BY <2>2, <3>1, <3>2, <3>3
  <2>4. g = [n \in 0..k + 1 |-> g[n]]
    OBVIOUS
  <2> HIDE DEF g
  <2>5. Is(g, k + 1)
    BY <2>3, <2>4
  <2> HIDE DEF Is
  <2>6. k + 1 \in Nat
    BY <2>2
  <2> QED
    BY <2>5, <2>6 DEF P
<1>4. PICK f : Is(f, C)
  <2> HIDE DEF Is, C
  <2>1. P = Nat
    BY <1>2, <1>3, NaturalsByInduction
  <2> QED
    BY <1>1, <2>1
<1>5. Is(at, C)
  BY <1>4, Zenon DEF MergeSteps
<1> HIDE DEF Step, Start
<1>6. at[0] = Start /\ DOMAIN at = 0..C /\ \A n \in 1..C : at[n] = Step(n, at[n - 1])
  BY <1>1, <1>5
<1> QED
  BY <1>6 DEF Step, Start

(* Passes makes one pass after the other.                                  *)
LEMMA PassesAre ==
  ASSUME NEW list, Len(list) \in Nat,
         NEW at, at = Passes(list)
  PROVE  /\ DOMAIN at = 0..Len(list)
         /\ at[0] = [list |-> list, insize |-> 1, looping |-> TRUE]
         /\ \A n \in 1..Len(list) : at[n] = Again(at[n - 1])
<1> DEFINE C == Len(list)
           Start == [list |-> list, insize |-> 1, looping |-> TRUE]
           Step(n, x) == Again(x)
           Is(f, k) == f = [n \in 0..k |-> IF n = 0 THEN Start ELSE Step(n, f[n - 1])]
           P == {k \in Nat : \E f : Is(f, k)}
<1>1. C \in Nat
  OBVIOUS
<1>2. 0 \in P
  <2>1. Is([n \in 0..0 |-> Start], 0)
    <3> HIDE DEF Step, Start
    <3> QED
      OBVIOUS
  <2> QED
    BY <2>1
<1>3. ASSUME NEW k \in P
      PROVE  k + 1 \in P
  <2>1. PICK f : Is(f, k)
    OBVIOUS
  <2>2. k \in Nat
    OBVIOUS
  <2> DEFINE g == [n \in 0..k + 1 |-> IF n <= k THEN f[n] ELSE Step(k + 1, f[k])]
  <2> HIDE DEF Step, P, Start
  <2>3. ASSUME NEW n \in 0..k + 1
        PROVE  g[n] = IF n = 0 THEN Start ELSE Step(n, g[n - 1])
    <3>1. CASE n = 0
      BY <2>1, <2>2, <3>1
    <3>2. CASE n \in 1..k
      <4>1. n - 1 \in 0..k /\ n \in 0..k /\ n # 0 /\ n <= k /\ n - 1 <= k /\ n - 1 \in 0..k+1
        BY <2>2, <3>2
      <4>2. g[n] = f[n] /\ g[n - 1] = f[n - 1]
        BY <4>1
      <4>3. f[n] = Step(n, f[n - 1])
        BY <2>1, <4>1
      <4> QED
        BY <4>1, <4>2, <4>3
    <3>3. CASE n = k + 1
      <4>1. n - 1 = k /\ n # 0 /\ ~(n <= k) /\ k \in 0..k+1 /\ k <= k
        BY <2>2, <3>3
      <4>2. g[n] = Step(n, f[k]) /\ g[k] = f[k]
        BY <3>3, <4>1
      <4> QED
        BY <4>1, <4>2
    <3> QED
      BY <2>2, <3>1, <3>2, <3>3
  <2>4. g = [n \in 0..k + 1 |-> g[n]]
    OBVIOUS
  <2> HIDE DEF g
  <2>5. Is(g, k + 1)
    BY <2>3, <2>4
  <2> HIDE DEF Is
  <2>6. k + 1 \in Nat
    BY <2>2
  <2> QED
    BY <2>5, <2>6 DEF P
<1>4. PICK f : Is(f, C)
  <2> HIDE DEF Is, C
  <2>1. P = Nat
    BY <1>2, <1>3, NaturalsByInduction
  <2> QED
    BY <1>1, <2>1
<1>5. Is(at, C)
  BY <1>4, Zenon DEF Passes
<1> HIDE DEF Step, Start
<1>6. at[0] = Start /\ DOMAIN at = 0..C /\ \A n \in 1..C : at[n] = Step(n, at[n - 1])
  BY <1>1, <1>5
<1> QED
  BY <1>6 DEF Step, Start

(* Rounding down loses less than one divisor.                              *)
LEMMA DivBound ==
  ASSUME NEW n \in Nat, NEW d \in Nat \ {0}
  PROVE  /\ n \div d \in Nat
         /\ n < (n \div d + 1) * d
         /\ n \div d = 0 => n % d = n
  OBVIOUS

(* A table with elements has an ideal chain length: nothing divides by 0.  *)
LEMMA IdealIsPositive ==
  ASSUME NEW items \in Nat \ {0}, NEW num \in Nat \ {0}
  PROVE  IdealChain(items, num) \in Nat \ {0}
<1>1. items \div num \in Nat /\ (items \div num = 0 => items % num = items)
  BY DivBound
<1> QED
  BY <1>1 DEF IdealChain

(* FlattenSeq puts the sequences one behind the other.                     *)
LEMMA FlattenIs ==
  ASSUME NEW ss, Len(ss) \in Nat \ {0}
  PROVE  \E f : /\ DOMAIN f = 1..Len(ss)
                /\ f[1] = ss[1]
                /\ \A n \in 2..Len(ss) : f[n] = f[n - 1] \o ss[n]
                /\ FlattenSeq(ss) = f[Len(ss)]
<1> DEFINE C == Len(ss)
           Step(n, x) == x \o ss[n]
           Is(f, k) == f = [n \in 1..k |-> IF n = 1 THEN ss[n] ELSE Step(n, f[n - 1])]
           P == {k \in Nat : \E f : Is(f, k)}
<1>1. C \in Nat
  OBVIOUS
<1>2. 0 \in P
  <2>1. Is([n \in 1..0 |-> 0], 0)
    OBVIOUS
  <2> QED
    BY <2>1
<1>3. ASSUME NEW k \in P
      PROVE  k + 1 \in P
  <2>1. PICK f : Is(f, k)
    OBVIOUS
  <2>2. k \in Nat
    OBVIOUS
  <2> DEFINE g == [n \in 1..k + 1 |-> IF n <= k THEN f[n] ELSE IF n = 1 THEN ss[n] ELSE Step(n, f[k])]
  <2> HIDE DEF Step, P
  <2>3. ASSUME NEW n \in 1..k + 1
        PROVE  g[n] = IF n = 1 THEN ss[n] ELSE Step(n, g[n - 1])
    <3>1. CASE n = 1
      <4>1. CASE k = 0
        BY <3>1, <4>1
      <4>2. CASE k # 0
        BY <2>1, <2>2, <3>1, <4>2
      <4> QED
        BY <4>1, <4>2
    <3>2. CASE n \in 2..k
      <4>1. n - 1 \in 1..k /\ n \in 1..k /\ n # 1 /\ n <= k /\ n - 1 <= k /\ n - 1 \in 1..k+1
        BY <2>2, <3>2
      <4>2. g[n] = f[n] /\ g[n - 1] = f[n - 1]
        BY <4>1
      <4>3. f[n] = Step(n, f[n - 1])
        BY <2>1, <4>1
      <4> QED
        BY <4>1, <4>2, <4>3
    <3>3. CASE n = k + 1 /\ n # 1
      <4>1. n - 1 = k /\ ~(n <= k) /\ k \in 1..k+1 /\ k <= k
        BY <2>2, <3>3
      <4>2. g[n] = Step(n, f[k]) /\ g[k] = f[k]
        BY <3>3, <4>1
      <4> QED
        BY <3>3, <4>1, <4>2
    <3> QED
      BY <2>2, <3>1, <3>2, <3>3
  <2>4. g = [n \in 1..k + 1 |-> g[n]]
    OBVIOUS
  <2> HIDE DEF g
  <2>5. Is(g, k + 1)
    BY <2>3, <2>4
  <2> HIDE DEF Is
  <2>6. k + 1 \in Nat
    BY <2>2
  <2> QED
    BY <2>5, <2>6 DEF P
<1>4. PICK w : Is(w, C)
  <2> HIDE DEF Is, C
  <2>1. P = Nat
    BY <1>2, <1>3, NaturalsByInduction
  <2> QED
    BY <1>1, <2>1
<1> DEFINE flatten == CHOOSE f : Is(f, C)
<1>5. FlattenSeq(ss) = flatten[Len(ss)]
  BY Zenon DEF FlattenSeq
<1>6. Is(flatten, C)
  BY <1>4, Zenon
<1> HIDE DEF flatten
<1>7. /\ DOMAIN flatten = 1..C /\ flatten[1] = ss[1]
      /\ \A n \in 2..C : flatten[n] = Step(n, flatten[n - 1])
  <2> HIDE DEF Step
  <2>1. 1 \in 1..C /\ \A n \in 2..C : n \in 1..C /\ n # 1
    OBVIOUS
  <2> QED
    BY <1>6, <2>1
<1> QED
  BY <1>5, <1>7

(* Two sequences without a common element, one behind the other.           *)
LEMMA ConcatDistinct ==
  ASSUME NEW s \in Seq(Elements), NEW t \in Seq(Elements), Distinct(s), Distinct(t),
         ToSet(s) \cap ToSet(t) = {}
  PROVE  /\ s \o t \in Seq(Elements)
         /\ Distinct(s \o t)
         /\ ToSet(s \o t) = ToSet(s) \cup ToSet(t)
<1> DEFINE u == s \o t
<1>1. /\ Len(s) \in Nat /\ DOMAIN s = 1..Len(s) /\ Len(t) \in Nat /\ DOMAIN t = 1..Len(t)
      /\ \A i \in 1..Len(s) : s[i] \in ToSet(s)
      /\ \A i \in 1..Len(t) : t[i] \in ToSet(t)
  BY LenProperties DEF ToSet
<1>2. /\ u \in Seq(Elements) /\ Len(u) = Len(s) + Len(t)
      /\ \A i \in 1..Len(s) + Len(t) : u[i] = IF i <= Len(s) THEN s[i] ELSE t[i - Len(s)]
  BY ConcatProperties
<1>3. DOMAIN u = 1..Len(s) + Len(t)
  BY <1>2, LenProperties
<1> HIDE DEF u
<1>4. Distinct(u)
  <2> SUFFICES ASSUME NEW i \in 1..Len(u), NEW j \in 1..Len(u), u[i] = u[j]
               PROVE  i = j
    BY DEF Distinct
  <2>0. Len(s) \in Nat /\ Len(t) \in Nat /\ i \in 1..Len(s) + Len(t) /\ j \in 1..Len(s) + Len(t)
    BY <1>1, <1>2
  <2>1. CASE i <= Len(s) /\ j <= Len(s)
    <3>1. u[i] = s[i] /\ u[j] = s[j] /\ i \in 1..Len(s) /\ j \in 1..Len(s)
      BY <1>2, <2>0, <2>1
    <3> QED
      BY <3>1 DEF Distinct
  <2>2. CASE ~(i <= Len(s)) /\ ~(j <= Len(s))
    <3>1. /\ u[i] = t[i - Len(s)] /\ u[j] = t[j - Len(s)]
          /\ i - Len(s) \in 1..Len(t) /\ j - Len(s) \in 1..Len(t)
      BY <1>2, <2>0, <2>2
    <3>2. i - Len(s) = j - Len(s)
      BY <3>1 DEF Distinct
    <3> QED
      BY <2>0, <3>2
  <2>3. CASE i <= Len(s) /\ ~(j <= Len(s))
    <3>1. u[i] = s[i] /\ u[j] = t[j - Len(s)] /\ i \in 1..Len(s) /\ j - Len(s) \in 1..Len(t)
      BY <1>2, <2>0, <2>3
    <3> QED
      BY <1>1, <3>1
  <2>4. CASE ~(i <= Len(s)) /\ j <= Len(s)
    <3>1. u[j] = s[j] /\ u[i] = t[i - Len(s)] /\ j \in 1..Len(s) /\ i - Len(s) \in 1..Len(t)
      BY <1>2, <2>0, <2>4
    <3> QED
      BY <1>1, <3>1
  <2> QED
    BY <2>1, <2>2, <2>3, <2>4
<1>5. ToSet(u) = ToSet(s) \cup ToSet(t)
  <2>1. ASSUME NEW i \in DOMAIN u
        PROVE  u[i] \in ToSet(s) \cup ToSet(t)
    <3>0. Len(s) \in Nat /\ Len(t) \in Nat /\ i \in 1..Len(s) + Len(t)
      BY <1>1, <1>3
    <3>1. CASE i <= Len(s)
      <4>1. u[i] = s[i] /\ i \in 1..Len(s)
        BY <1>2, <3>0, <3>1
      <4> QED
        BY <1>1, <4>1
    <3>2. CASE ~(i <= Len(s))
      <4>1. u[i] = t[i - Len(s)] /\ i - Len(s) \in 1..Len(t)
        BY <1>2, <3>0, <3>2
      <4> QED
        BY <1>1, <4>1
    <3> QED
      BY <3>1, <3>2
  <2>2. ASSUME NEW i \in DOMAIN s
        PROVE  s[i] \in ToSet(u)
    <3>1. i \in DOMAIN u /\ u[i] = s[i]
      <4>1. Len(s) \in Nat /\ Len(t) \in Nat /\ i \in 1..Len(s)
        BY <1>1
      <4>2. i \in 1..Len(s) + Len(t) /\ i <= Len(s)
        BY <4>1
      <4> QED
        BY <1>2, <1>3, <4>2
    <3> QED
      BY <3>1 DEF ToSet
  <2>3. ASSUME NEW i \in DOMAIN t
        PROVE  t[i] \in ToSet(u)
    <3>1. i + Len(s) \in DOMAIN u /\ u[i + Len(s)] = t[i]
      <4>1. Len(s) \in Nat /\ Len(t) \in Nat /\ i \in 1..Len(t)
        BY <1>1
      <4>2. i + Len(s) \in 1..Len(s) + Len(t) /\ ~(i + Len(s) <= Len(s)) /\ i + Len(s) - Len(s) = i
        BY <4>1
      <4> QED
        BY <1>2, <1>3, <4>2
    <3> QED
      BY <3>1 DEF ToSet
  <2> QED
    BY <2>1, <2>2, <2>3 DEF ToSet
<1> QED
  BY <1>2, <1>4, <1>5 DEF u

(* Lists without a common element, one behind the other.                   *)
LEMMA FlattenedLists ==
  ASSUME NEW n \in Nat \ {0}, NEW ss \in [1..n -> Seq(Elements)],
         \A i \in 1..n : Distinct(ss[i]),
         \A i, j \in 1..n : i # j => ToSet(ss[i]) \cap ToSet(ss[j]) = {}
  PROVE  /\ FlattenSeq(ss) \in Seq(Elements)
         /\ Distinct(FlattenSeq(ss))
         /\ ToSet(FlattenSeq(ss)) = UNION {ToSet(ss[i]) : i \in 1..n}
<1>1. Len(ss) = n
  BY FunctionIsSeq
<1>2. PICK f : /\ DOMAIN f = 1..n
               /\ f[1] = ss[1]
               /\ \A k \in 2..n : f[k] = f[k - 1] \o ss[k]
               /\ FlattenSeq(ss) = f[n]
  BY <1>1, FlattenIs
<1> DEFINE All(k) == UNION {ToSet(ss[i]) : i \in 1..k}
           Good(k) == f[k] \in Seq(Elements) /\ Distinct(f[k]) /\ ToSet(f[k]) = All(k)
           P == {k \in Nat : k + 1 <= n => Good(k + 1)}
<1>3. 0 \in P
  <2>1. 1 \in 1..n /\ 1..1 = {1}
    OBVIOUS
  <2>2. All(1) = ToSet(ss[1])
    BY <2>1
  <2> HIDE DEF All
  <2>3. Good(1)
    BY <1>2, <2>1, <2>2
  <2> QED
    BY <2>3
<1>4. ASSUME NEW k \in P
      PROVE  k + 1 \in P
  <2> DEFINE m == k + 1
  <2> SUFFICES ASSUME m + 1 <= n
               PROVE  Good(m + 1)
    OBVIOUS
  <2>1. k \in Nat /\ m \in 1..n /\ m + 1 \in 2..n /\ m + 1 \in 1..n /\ (m + 1) - 1 = m /\ k + 1 <= n
    OBVIOUS
  <2>2. Good(m)
    BY <2>1
  <2> HIDE DEF m
  <2>3. f[m + 1] = f[m] \o ss[m + 1]
    BY <1>2, <2>1
  <2>4. All(m) \cap ToSet(ss[m + 1]) = {}
    <3> SUFFICES ASSUME NEW i \in 1..m
                 PROVE  ToSet(ss[i]) \cap ToSet(ss[m + 1]) = {}
      OBVIOUS
    <3>1. i \in 1..n /\ i # m + 1
      BY <2>1
    <3> QED
      BY <2>1, <3>1
  <2>5. All(m + 1) = All(m) \cup ToSet(ss[m + 1])
    <3>1. 1..m + 1 = (1..m) \cup {m + 1}
      BY <2>1
    <3> QED
      BY <3>1
  <2> HIDE DEF All
  <2>6. ss[m + 1] \in Seq(Elements) /\ Distinct(ss[m + 1])
    BY <2>1
  <2>7. /\ f[m] \o ss[m + 1] \in Seq(Elements)
        /\ Distinct(f[m] \o ss[m + 1])
        /\ ToSet(f[m] \o ss[m + 1]) = ToSet(f[m]) \cup ToSet(ss[m + 1])
    BY <2>2, <2>4, <2>6, ConcatDistinct
  <2> QED
    BY <2>2, <2>3, <2>5, <2>7
<1>5. Good(n)
  <2> HIDE DEF Good
  <2>1. P \in SUBSET Nat
    OBVIOUS
  <2> HIDE DEF P
  <2>2. P = Nat
    BY <1>3, <1>4, <2>1, NaturalsByInduction
  <2>3. n - 1 \in P /\ (n - 1) + 1 = n
    BY <2>2
  <2> QED
    BY <2>3 DEF P
<1> QED
  BY <1>2, <1>5

------------------------------------------------------------------------------
(* HASH_EXPAND_BUCKETS.                                                    *)

(* The types of the buckets.                                               *)
AllBuckets == UNION {[0..n-1 -> Buckets] : n \in Nat}

(* The types of a table.                                                   *)
Tables ==
  [buckets : AllBuckets, num_buckets : Nat, num_items : Nat, tail : Pointers,
   ideal_chain_maxlen : Nat, nonideal_items : Nat, ineff_expands : Nat,
   noexpand : BOOLEAN]

(* What the walks find in a table whose buckets hold M.                    *)
LEMMA ChainIs ==
  ASSUME NEW h, NEW M, Hashed(h.tbl.buckets, h.hh, h.tbl.num_buckets, M),
         NEW b \in 0..h.tbl.num_buckets-1
  PROVE  /\ IsList(Chain(h, b), h.tbl.buckets[b].hh_head, h.hh.hh_prev, h.hh.hh_next)
         /\ Len(Chain(h, b)) = h.tbl.buckets[b].count
         /\ ToSet(Chain(h, b)) = InBkt(h.hh.hashv, h.tbl.num_buckets, M, b)
<1>1. PICK c : /\ IsList(c, h.tbl.buckets[b].hh_head, h.hh.hh_prev, h.hh.hh_next)
               /\ Len(c) = h.tbl.buckets[b].count
               /\ ToSet(c) = InBkt(h.hh.hashv, h.tbl.num_buckets, M, b)
  BY DEF Hashed
<1>2. Chain(h, b) = c
  BY <1>1, WalkOfList DEF Chain
<1> QED
  BY <1>1, <1>2

(* The buckets hold each of their elements once.                           *)
LEMMA ItemsAre ==
  ASSUME NEW h, NEW M \in SUBSET Elements, h.hh \in Handles,
         Hashed(h.tbl.buckets, h.hh, h.tbl.num_buckets, M)
  PROVE  /\ Items(h) \in Seq(Elements)
         /\ Distinct(Items(h))
         /\ ToSet(Items(h)) = M
<1> DEFINE num == h.tbl.num_buckets
           ss == [i \in 1..num |-> Chain(h, i - 1)]
<1>1. num \in Nat \ {0} /\ h.hh.hashv \in [Elements -> Nat]
  BY DEF Hashed, Handles
<1>2. ASSUME NEW i \in 1..num
      PROVE  /\ ss[i] \in Seq(Elements) /\ Distinct(ss[i])
             /\ ToSet(ss[i]) = InBkt(h.hh.hashv, num, M, i - 1)
  <2>1. i - 1 \in 0..num-1
    BY <1>1
  <2> QED
    BY <2>1, ChainIs DEF IsList
<1>3. ss \in [1..num -> Seq(Elements)]
  BY <1>2
<1>4. ASSUME NEW i \in 1..num, NEW j \in 1..num, i # j
      PROVE  ToSet(ss[i]) \cap ToSet(ss[j]) = {}
  <2>1. i - 1 # j - 1
    BY <1>1, <1>4
  <2> QED
    BY <1>2, <2>1 DEF InBkt
<1>5. UNION {ToSet(ss[i]) : i \in 1..num} = M
  <2>1. ASSUME NEW e \in M
        PROVE  \E i \in 1..num : e \in ToSet(ss[i])
    <3> DEFINE b == ToBkt(h.hh.hashv[e], num)
    <3>1. b \in 0..num-1
      BY <1>1, ToBktType
    <3> HIDE DEF b
    <3>2. b + 1 \in 1..num /\ (b + 1) - 1 = b
      BY <1>1, <3>1
    <3>3. e \in InBkt(h.hh.hashv, num, M, b)
      BY DEF InBkt, b
    <3>4. e \in ToSet(ss[b + 1])
      BY <1>2, <3>2, <3>3
    <3> QED
      BY <3>2, <3>4
  <2>2. \A i \in 1..num : ToSet(ss[i]) \subseteq M
    BY <1>2 DEF InBkt
  <2> QED
    BY <2>1, <2>2
<1> HIDE DEF ss
<1>6. /\ FlattenSeq(ss) \in Seq(Elements)
      /\ Distinct(FlattenSeq(ss))
      /\ ToSet(FlattenSeq(ss)) = M
  BY <1>1, <1>2, <1>3, <1>4, <1>5, FlattenedLists
<1> QED
  BY <1>6 DEF Items, ss

(* While the buckets are doubled: the elements of D are in their new       *)
(* places, and the lists of insertion order are as in hh.                  *)
Moving(x, hh, num, ideal, D) ==
  /\ x \in [buckets : AllBuckets, hh : Handles, num : Nat, ideal : Nat, nonideal : Nat]
  /\ x.num = num /\ x.ideal = ideal
  /\ x.hh.prev = hh.prev /\ x.hh.next = hh.next /\ x.hh.hashv = hh.hashv
  /\ Hashed(x.buckets, x.hh, num, D)
  /\ \A b \in 0..num-1 : x.buckets[b].count <= (x.buckets[b].expand_mult + 1) * ideal

(* One element more is moved to its new bucket: no chain becomes longer    *)
(* than its expand_mult allows.                                            *)
LEMMA MovedKeeps ==
  ASSUME NEW x, NEW hh, NEW num, NEW ideal \in Nat \ {0}, NEW D \in SUBSET Elements,
         Moving(x, hh, num, ideal, D),
         NEW e \in Elements, e \notin D
  PROVE  Moving(Moved(x, e), hh, num, ideal, D \cup {e})
<1> DEFINE b == ToBkt(x.hh.hashv[e], num)
           put == Pushed(x.buckets, x.hh, b, e)
           long == put.buckets[b].count > ideal
           y == Moved(x, e)
           mult == put.buckets[b].count \div ideal
<1>1. /\ x \in [buckets : AllBuckets, hh : Handles, num : Nat, ideal : Nat, nonideal : Nat]
      /\ x.num = num /\ x.ideal = ideal
      /\ x.nonideal \in Nat /\ x.hh \in Handles
      /\ x.hh.prev = hh.prev /\ x.hh.next = hh.next /\ x.hh.hashv = hh.hashv
      /\ Hashed(x.buckets, x.hh, num, D)
      /\ \A i \in 0..num-1 : x.buckets[i].count <= (x.buckets[i].expand_mult + 1) * ideal
      /\ num \in Nat \ {0} /\ x.buckets \in [0..num-1 -> Buckets]
      /\ x.hh.hashv \in [Elements -> Nat]
  BY DEF Moving, Hashed, Handles
<1>2. x.num = num /\ x.ideal = ideal
  BY <1>1
<1>3. b \in 0..num-1
  BY <1>1, ToBktType
<1>4. y = [x EXCEPT !.hh = put.hh,
                    !.nonideal = IF long THEN @ + 1 ELSE @,
                    !.buckets = IF long THEN [put.buckets EXCEPT ![b].expand_mult = mult]
                                        ELSE put.buckets]
  BY <1>2 DEF Moved
<1>5. Hashed(put.buckets, put.hh, num, D \cup {e})
  BY <1>1, PushedKeeps
<1> HIDE DEF b
<1>6. /\ put.buckets \in [0..num-1 -> Buckets]
      /\ put.hh \in Handles
      /\ put.hh.prev = hh.prev /\ put.hh.next = hh.next /\ put.hh.hashv = hh.hashv
      /\ \A i \in 0..num-1 : i # b => put.buckets[i] = x.buckets[i]
      /\ put.buckets[b].count = x.buckets[b].count + 1
      /\ put.buckets[b].expand_mult = x.buckets[b].expand_mult
  <2>1. IsPushed(put, x.buckets, x.hh, num, b, e)
    BY <1>1, <1>3, PushedIs
  <2>2. x.hh.prev = hh.prev /\ x.hh.next = hh.next /\ x.hh.hashv = hh.hashv
    BY <1>1
  <2> HIDE DEF put
  <2> QED
    BY <2>1, <2>2 DEF IsPushed
<1> HIDE DEF put, y
<1> DEFINE bk == IF long THEN [put.buckets EXCEPT ![b].expand_mult = mult] ELSE put.buckets
<1> HIDE DEF mult
<1>7. put.buckets[b] \in Buckets /\ put.buckets[b].count \in Nat /\ x.buckets[b] \in Buckets
  BY <1>1, <1>3, <1>6 DEF Buckets
<1>8. mult \in Nat /\ put.buckets[b].count < (mult + 1) * ideal
  BY <1>7, DivBound DEF mult
<1>9. /\ bk \in [0..num-1 -> Buckets]
      /\ \A i \in 0..num-1 : i # b => bk[i] = put.buckets[i]
      /\ bk[b].hh_head = put.buckets[b].hh_head
      /\ bk[b].count = put.buckets[b].count
      /\ bk[b].expand_mult = IF long THEN mult ELSE put.buckets[b].expand_mult
  <2>1. CASE long
    <3>1. [put.buckets[b] EXCEPT !.expand_mult = mult] \in Buckets
      BY <1>7, <1>8 DEF Buckets
    <3>2. bk = [put.buckets EXCEPT ![b] = [put.buckets[b] EXCEPT !.expand_mult = mult]]
      BY <2>1
    <3>3. /\ bk \in [0..num-1 -> Buckets]
          /\ \A i \in 0..num-1 : i # b => bk[i] = put.buckets[i]
          /\ bk[b] = [put.buckets[b] EXCEPT !.expand_mult = mult]
      BY <1>3, <1>6, <3>1, <3>2
    <3> HIDE DEF bk
    <3> QED
      BY <1>7, <2>1, <3>3 DEF Buckets
  <2>2. CASE ~long
    BY <1>6, <2>2
  <2> QED
    BY <2>1, <2>2
<1>10. bk \in AllBuckets
  BY <1>1, <1>9 DEF AllBuckets
<1>11. /\ y \in [buckets : AllBuckets, hh : Handles, num : Nat, ideal : Nat, nonideal : Nat]
       /\ y.buckets = bk /\ y.hh = put.hh /\ y.num = num /\ y.ideal = ideal
  <2> DEFINE nn == IF long THEN x.nonideal + 1 ELSE x.nonideal
  <2>1. y = [x EXCEPT !.hh = put.hh, !.nonideal = nn, !.buckets = bk]
    BY <1>4
  <2>2. nn \in Nat
    BY <1>1
  <2>3. /\ x \in [buckets : AllBuckets, hh : Handles, num : Nat, ideal : Nat, nonideal : Nat]
        /\ x.num = num /\ x.ideal = ideal
    BY <1>1
  <2> HIDE DEF nn, bk
  <2> QED
    BY ONLY <1>6, <1>10, <2>1, <2>2, <2>3
<1> HIDE DEF long, bk
<1>13. Hashed(bk, put.hh, num, D \cup {e})
  <2>1. \A i \in 0..num-1 : bk[i].hh_head = put.buckets[i].hh_head /\ bk[i].count = put.buckets[i].count
    BY <1>3, <1>9
  <2> QED
    BY <1>5, <1>9, <2>1 DEF Hashed
<1>14. ASSUME NEW i \in 0..num-1
       PROVE  bk[i].count <= (bk[i].expand_mult + 1) * ideal
  <2>1. CASE i # b
    BY <1>1, <1>6, <1>9, <2>1
  <2>2. CASE i = b /\ long
    <3>1. bk[i].count = put.buckets[b].count /\ bk[i].expand_mult = mult
      BY <1>9, <2>2
    <3>2. (mult + 1) * ideal \in Nat
      BY <1>8
    <3> QED
      BY <1>7, <1>8, <3>1, <3>2
  <2>3. CASE i = b /\ ~long
    <3>1. bk[i].count = put.buckets[b].count /\ bk[i].expand_mult = put.buckets[b].expand_mult
      BY <1>9, <2>3
    <3>2. put.buckets[b].count <= ideal
      BY <1>7, <2>3 DEF long
    <3>3. put.buckets[b].expand_mult \in Nat
      BY <1>7 DEF Buckets
    <3>4. \A m \in Nat : ideal <= (m + 1) * ideal
      OBVIOUS
    <3>5. ideal <= (put.buckets[b].expand_mult + 1) * ideal /\ (put.buckets[b].expand_mult + 1) * ideal \in Nat
      BY <3>3, <3>4
    <3> QED
      BY <1>7, <3>1, <3>2, <3>5
  <2> QED
    BY <2>1, <2>2, <2>3
<1>15. Moving(y, hh, num, ideal, D \cup {e})
  BY <1>6, <1>11, <1>13, <1>14 DEF Moving
<1> QED
  BY <1>15 DEF y

(* A chain is no longer than its expand_mult allows.                       *)
Bounded(t) ==
  t.noexpand \/
  \A b \in DOMAIN t.buckets :
    LET bkt == t.buckets[b]
    IN \/ bkt.count < (bkt.expand_mult + 1) * CapacityThresh
       \/ bkt.count <= (bkt.expand_mult + 1) * t.ideal_chain_maxlen

(* New buckets hold nothing.                                               *)
LEMMA EmptyIsHashed ==
  ASSUME NEW num \in Nat \ {0}, NEW hh, NEW buckets, buckets = [b \in 0..num-1 |-> NoItems]
  PROVE  Hashed(buckets, hh, num, {}) /\ buckets \in AllBuckets
<1>1. NoItems \in Buckets /\ NoItems.hh_head = NULL /\ NoItems.count = 0
  BY DEF NoItems, Buckets, Pointers
<1>2. ASSUME NEW b \in 0..num-1
      PROVE  \E c : /\ IsList(c, buckets[b].hh_head, hh.hh_prev, hh.hh_next)
                    /\ Len(c) = buckets[b].count
                    /\ ToSet(c) = InBkt(hh.hashv, num, {}, b)
  <2>1. IsList(<<>>, NULL, hh.hh_prev, hh.hh_next) /\ Len(<<>>) = 0
    BY EmptyList
  <2>2. ToSet(<<>>) = {} /\ InBkt(hh.hashv, num, {}, b) = {}
    BY DEF ToSet, InBkt
  <2>3. buckets[b] = NoItems
    OBVIOUS
  <2> QED
    BY <1>1, <2>1, <2>2, <2>3
<1>3. buckets \in [0..num-1 -> Buckets]
  BY <1>1
<1> QED
  BY <1>2, <1>3 DEF Hashed, AllBuckets

(* Doubling the buckets leaves every element where HASH_FIND looks for it. *)
LEMMA ExpandKeeps ==
  ASSUME NEW h \in [head : Pointers, tbl : Tables, hh : Handles], NEW M \in SUBSET Elements,
         Hashed(h.tbl.buckets, h.hh, h.tbl.num_buckets, M),
         h.tbl.num_items \in Nat \ {0},
         NEW g, g = ExpandBuckets(h)
  PROVE  /\ g \in [head : Pointers, tbl : Tables, hh : Handles]
         /\ g.head = h.head
         /\ g.hh.prev = h.hh.prev /\ g.hh.next = h.hh.next /\ g.hh.hashv = h.hh.hashv
         /\ g.tbl.tail = h.tbl.tail /\ g.tbl.num_items = h.tbl.num_items
         /\ Hashed(g.tbl.buckets, g.hh, g.tbl.num_buckets, M)
         /\ Bounded(g.tbl)
<1> DEFINE t == h.tbl
           num == 2 * t.num_buckets
           ideal == IdealChain(t.num_items, num)
           empty == [b \in 0..num-1 |-> NoItems]
           start == [buckets |-> empty, hh |-> h.hh, num |-> num,
                     ideal |-> ideal, nonideal |-> 0]
           items == Items(h)
           at == MovedUpTo(start, items)
           acc == at[Len(items)]
           Done(n) == {items[j] : j \in 1..n}
           Good(n) == Moving(at[n], h.hh, num, ideal, Done(n))
           P == {n \in Nat : n <= Len(items) => Good(n)}
<1>1. /\ h.hh \in Handles /\ t \in Tables /\ t.num_buckets \in Nat \ {0}
      /\ num \in Nat \ {0} /\ t.ineff_expands \in Nat /\ t.noexpand \in BOOLEAN
  BY DEF Hashed, Tables
<1>2. ideal \in Nat \ {0}
  BY <1>1, IdealIsPositive
<1>3. items \in Seq(Elements) /\ Distinct(items) /\ ToSet(items) = M /\ Len(items) \in Nat
      /\ DOMAIN items = 1..Len(items)
  BY <1>1, ItemsAre, LenProperties
<1>4. /\ at[0] = start
      /\ \A n \in 1..Len(items) : at[n] = Moved(at[n - 1], items[n])
  <2> HIDE DEF items, start
  <2> QED
    BY <1>3, MovedUpToIs
<1>5. 0 \in P
  <2>1. Hashed(empty, h.hh, num, {}) /\ empty \in AllBuckets
    BY <1>1, EmptyIsHashed
  <2>2. \A b \in 0..num-1 : empty[b].count <= (empty[b].expand_mult + 1) * ideal
    BY <1>2 DEF NoItems
  <2>3. Done(0) = {}
    OBVIOUS
  <2> HIDE DEF empty, num, ideal
  <2>4. /\ start \in [buckets : AllBuckets, hh : Handles, num : Nat, ideal : Nat, nonideal : Nat]
        /\ start.buckets = empty /\ start.hh = h.hh /\ start.num = num /\ start.ideal = ideal
    BY <1>1, <1>2, <2>1
  <2> HIDE DEF start
  <2>5. Moving(start, h.hh, num, ideal, {})
    BY <2>1, <2>2, <2>4 DEF Moving
  <2> HIDE DEF at, Done
  <2> QED
    BY <1>4, <2>3, <2>5
<1>6. ASSUME NEW n \in P
      PROVE  n + 1 \in P
  <2> SUFFICES ASSUME n + 1 <= Len(items)
               PROVE  Good(n + 1)
    OBVIOUS
  <2>1. n \in Nat /\ n <= Len(items) /\ n + 1 \in 1..Len(items) /\ (n + 1) - 1 = n
    <3> HIDE DEF Good, items
    <3>1. n \in Nat
      OBVIOUS
    <3> QED
      BY <1>3, <3>1
  <2>2. Good(n)
    BY <2>1
  <2> HIDE DEF at, items
  <2>3. at[n + 1] = Moved(at[n], items[n + 1])
    BY <1>4, <2>1
  <2>4. items[n + 1] \in Elements /\ Done(n) \in SUBSET Elements
    BY <1>3, <2>1
  <2>5. items[n + 1] \notin Done(n)
    BY <1>3, <2>1 DEF Distinct
  <2>6. Done(n + 1) = Done(n) \cup {items[n + 1]}
    <3>1. 1..n + 1 = (1..n) \cup {n + 1}
      BY <2>1
    <3> QED
      BY <3>1
  <2> HIDE DEF Done, num, ideal
  <2>7. Moving(Moved(at[n], items[n + 1]), h.hh, num, ideal, Done(n) \cup {items[n + 1]})
    BY <1>2, <2>2, <2>4, <2>5, MovedKeeps
  <2> QED
    BY <2>3, <2>6, <2>7
<1>7. Moving(acc, h.hh, num, ideal, M)
  <2> HIDE DEF Good, items
  <2>1. P \in SUBSET Nat
    OBVIOUS
  <2> HIDE DEF P
  <2>2. P = Nat
    BY <1>5, <1>6, <2>1, NaturalsByInduction
  <2>3. Good(Len(items))
    BY <1>3, <2>2 DEF P
  <2>4. Done(Len(items)) = M
    BY <1>3 DEF ToSet
  <2> QED
    BY <2>3, <2>4 DEF Good
<1> DEFINE ineff == IF acc.nonideal > t.num_items \div 2 THEN t.ineff_expands + 1 ELSE 0
           stop == t.noexpand \/ ineff > 1
           t2 == [t EXCEPT !.buckets = acc.buckets, !.num_buckets = num,
                           !.ideal_chain_maxlen = acc.ideal,
                           !.nonideal_items = acc.nonideal,
                           !.ineff_expands = ineff,
                           !.noexpand = stop]
<1>8. g = [h EXCEPT !.hh = acc.hh, !.tbl = t2]
  BY Zenon DEF ExpandBuckets
<1> HIDE DEF acc
<1>9. /\ acc.ideal = ideal /\ acc.nonideal \in Nat /\ acc.hh \in Handles
      /\ acc.buckets \in AllBuckets /\ acc.buckets \in [0..num-1 -> Buckets]
      /\ acc.hh.prev = h.hh.prev /\ acc.hh.next = h.hh.next /\ acc.hh.hashv = h.hh.hashv
      /\ Hashed(acc.buckets, acc.hh, num, M)
      /\ \A b \in 0..num-1 : acc.buckets[b].count <= (acc.buckets[b].expand_mult + 1) * ideal
  BY <1>7 DEF Moving, Hashed
<1>10. ineff \in Nat /\ stop \in BOOLEAN
  BY <1>1
<1> HIDE DEF ineff, stop, ideal, num
<1>11. /\ t2 \in Tables
       /\ t2.buckets = acc.buckets /\ t2.num_buckets = num /\ t2.ideal_chain_maxlen = ideal
       /\ t2.tail = t.tail /\ t2.num_items = t.num_items
  BY <1>1, <1>2, <1>9, <1>10 DEF Tables
<1> HIDE DEF t2
<1>12. /\ g \in [head : Pointers, tbl : Tables, hh : Handles]
       /\ g.head = h.head /\ g.hh = acc.hh /\ g.tbl = t2
  BY <1>8, <1>9, <1>11
<1>13. Bounded(t2)
  BY <1>9, <1>11 DEF Bounded
<1> QED
  BY <1>9, <1>11, <1>12, <1>13

------------------------------------------------------------------------------
(* HASH_ADD.                                                               *)

(* A table with elements.                                                  *)
Full == [head : Pointers, tbl : Tables, hh : Handles]

(* h is a table whose application order is s.                              *)
TableIs(h, s) ==
  /\ h \in [head : Pointers, tbl : Tables \cup {NULL}, hh : Handles]
  /\ s \in Seq(Elements)
  /\ s = <<>> => h.head = NULL /\ h.tbl = NULL
  /\ s # <<>> =>
       /\ IsList(s, h.head, h.hh.prev, h.hh.next)
       /\ h.tbl \in Tables
       /\ h.tbl.tail = s[Len(s)]
       /\ h.tbl.num_items = Len(s)
       /\ Hashed(h.tbl.buckets, h.hh, h.tbl.num_buckets, ToSet(s))
       /\ Bounded(h.tbl)

(* A bucket that need not be expanded is below its capacity.               *)
LEMMA MustExpandOtherwiseBounded ==
  ASSUME NEW h, NEW b, ~MustExpand(h, b), ~h.tbl.noexpand,
         h.tbl.buckets[b].count \in Nat, h.tbl.buckets[b].expand_mult \in Nat
  PROVE  h.tbl.buckets[b].count < (h.tbl.buckets[b].expand_mult + 1) * CapacityThresh
<1> DEFINE n == h.tbl.buckets[b].count
           m == (h.tbl.buckets[b].expand_mult + 1) * CapacityThresh
<1>1. CapacityThresh \in Nat
  BY SizesArePositive
<1>2. m \in Nat
  BY <1>1
<1>3. ~(n >= m)
  BY DEF MustExpand
<1> QED
  BY <1>2, <1>3

(* HASH_ADD_TO_TABLE, once e is at the end of the list s.                  *)
LEMMA AddToTableKeeps ==
  ASSUME NEW h \in Full, NEW s, IsList(s, h.head, h.hh.prev, h.hh.next), s # <<>>,
         h.tbl.tail = s[Len(s)], h.tbl.num_items + 1 = Len(s),
         NEW M \in SUBSET Elements, NEW e \in Elements, e \notin M,
         ToSet(s) = M \cup {e},
         Hashed(h.tbl.buckets, h.hh, h.tbl.num_buckets, M),
         Bounded(h.tbl),
         NEW g, g = AddToTable(h, e)
  PROVE  TableIs(g, s) /\ g.hh.hashv = h.hh.hashv
<1> DEFINE num == h.tbl.num_buckets
           b == ToBkt(h.hh.hashv[e], num)
           t1 == [h.tbl EXCEPT !.num_items = @ + 1]
           counted == [h EXCEPT !.tbl.num_items = @ + 1]
           put == Pushed(counted.tbl.buckets, counted.hh, b, e)
           added == [counted EXCEPT !.hh = put.hh, !.tbl.buckets = put.buckets]
           t2 == [t1 EXCEPT !.buckets = put.buckets]
<1>1. /\ h.hh \in Handles /\ h.tbl \in Tables /\ h.head \in Pointers
      /\ num \in Nat \ {0} /\ h.tbl.buckets \in [0..num-1 -> Buckets]
      /\ h.hh.hashv \in [Elements -> Nat]
  BY DEF Full, Hashed, Handles
<1>2. b \in 0..num-1
  BY <1>1, ToBktType
<1>3. /\ t1 \in Tables /\ t1.num_items = Len(s) /\ t1.tail = h.tbl.tail
      /\ t1.buckets = h.tbl.buckets /\ t1.num_buckets = num /\ t1.noexpand = h.tbl.noexpand
      /\ t1.ideal_chain_maxlen = h.tbl.ideal_chain_maxlen
  <2>1. h.tbl.num_items + 1 \in Nat
    BY <1>1 DEF Tables
  <2> QED
    BY <1>1, <2>1 DEF Tables
<1>4. counted = [h EXCEPT !.tbl = t1]
  BY DEF Full
<1>5. g = AddToBkt(counted, b, e)
  BY DEF AddToTable
<1> HIDE DEF b, t1
<1>6. /\ counted \in Full /\ counted.head = h.head /\ counted.hh = h.hh /\ counted.tbl = t1
  BY <1>1, <1>3, <1>4 DEF Full
<1> HIDE DEF counted
<1>7. g = IF MustExpand(added, b) THEN ExpandBuckets(added) ELSE added
  BY <1>5, Zenon DEF AddToBkt
<1>8. put = Pushed(h.tbl.buckets, h.hh, b, e)
  BY <1>3, <1>6
<1> HIDE DEF put, num
<1>9. Hashed(put.buckets, put.hh, num, M \cup {e})
  BY <1>1, <1>8, PushedKeeps DEF b, num
<1>10. /\ put.buckets \in [0..num-1 -> Buckets]
       /\ put.hh \in Handles
       /\ put.hh.prev = h.hh.prev /\ put.hh.next = h.hh.next /\ put.hh.hashv = h.hh.hashv
       /\ \A i \in 0..num-1 : i # b => put.buckets[i] = h.tbl.buckets[i]
  <2>1. /\ num \in Nat \ {0} /\ h.tbl.buckets \in [0..num-1 -> Buckets] /\ h.hh \in Handles
        /\ e \in Elements
    BY <1>1
  <2>2. IsPushed(put, h.tbl.buckets, h.hh, num, b, e)
    BY <2>1, <1>2, <1>8, PushedIs
  <2> QED
    BY <2>2 DEF IsPushed
<1>11. put.buckets \in AllBuckets
  BY <1>1, <1>10 DEF AllBuckets
<1>12. /\ t2 \in Tables /\ t2.num_items = Len(s) /\ t2.tail = h.tbl.tail
       /\ t2.buckets = put.buckets /\ t2.num_buckets = num /\ t2.noexpand = h.tbl.noexpand
       /\ t2.ideal_chain_maxlen = h.tbl.ideal_chain_maxlen
  BY <1>3, <1>11 DEF Tables
<1>13. added = [counted EXCEPT !.hh = put.hh, !.tbl = t2]
  BY <1>6 DEF Full
<1> HIDE DEF t2
<1>14. added \in Full /\ added.head = h.head /\ added.hh = put.hh /\ added.tbl = t2
  BY <1>6, <1>10, <1>12, <1>13 DEF Full
<1> HIDE DEF added
<1>15. s \in Seq(Elements)
  BY DEF IsList
<1>16. CASE MustExpand(added, b)
  <2>1. g = ExpandBuckets(added)
    BY <1>7, <1>16
  <2>2. added.tbl.num_items \in Nat \ {0}
    BY <1>12, <1>14, <1>15, EmptySeq
  <2>3. Hashed(added.tbl.buckets, added.hh, added.tbl.num_buckets, M \cup {e})
    BY <1>9, <1>12, <1>14
  <2>4. /\ g \in [head : Pointers, tbl : Tables, hh : Handles]
        /\ g.head = added.head
        /\ g.hh.prev = added.hh.prev /\ g.hh.next = added.hh.next /\ g.hh.hashv = added.hh.hashv
        /\ g.tbl.tail = added.tbl.tail /\ g.tbl.num_items = added.tbl.num_items
        /\ Hashed(g.tbl.buckets, g.hh, g.tbl.num_buckets, M \cup {e})
        /\ Bounded(g.tbl)
    <3>1. added \in [head : Pointers, tbl : Tables, hh : Handles] /\ M \cup {e} \in SUBSET Elements
      BY <1>14 DEF Full
    <3> QED
      BY <2>1, <2>2, <2>3, <3>1, ExpandKeeps
  <2>5. /\ g \in [head : Pointers, tbl : Tables \cup {NULL}, hh : Handles] /\ g.tbl \in Tables
    BY <2>4
  <2>6. IsList(s, g.head, g.hh.prev, g.hh.next)
    BY <1>10, <1>14, <2>4
  <2>7. g.tbl.tail = s[Len(s)] /\ g.tbl.num_items = Len(s) /\ g.hh.hashv = h.hh.hashv
    BY <1>10, <1>12, <1>14, <2>4
  <2> QED
    BY <1>15, <2>4, <2>5, <2>6, <2>7 DEF TableIs
<1>17. CASE ~MustExpand(added, b)
  <2>1. g = added
    BY <1>7, <1>17
  <2>2. Bounded(t2)
    <3>0. DOMAIN t2.buckets = 0..num-1 /\ DOMAIN h.tbl.buckets = 0..num-1
      BY <1>1, <1>10, <1>12
    <3> SUFFICES ASSUME ~t2.noexpand, NEW i \in 0..num-1
                 PROVE  LET bkt == t2.buckets[i]
                        IN \/ bkt.count < (bkt.expand_mult + 1) * CapacityThresh
                           \/ bkt.count <= (bkt.expand_mult + 1) * t2.ideal_chain_maxlen
      BY <3>0 DEF Bounded
    <3>1. CASE i = b
      <4>1. t2.buckets[b] \in Buckets
        BY <1>2, <1>10, <1>12
      <4>2. t2.buckets[b].count \in Nat /\ t2.buckets[b].expand_mult \in Nat
        BY <4>1 DEF Buckets
      <4> QED
        BY <1>14, <1>17, <3>1, <4>2, MustExpandOtherwiseBounded
    <3>2. CASE i # b
      <4>1. t2.buckets[i] = h.tbl.buckets[i]
        BY <1>10, <1>12, <3>2
      <4> QED
        BY <1>12, <3>0, <4>1 DEF Bounded
    <3> QED
      BY <3>1, <3>2
  <2>3. /\ g \in [head : Pointers, tbl : Tables \cup {NULL}, hh : Handles] /\ g.tbl \in Tables
    BY <1>14, <2>1 DEF Full
  <2>4. IsList(s, g.head, g.hh.prev, g.hh.next)
    BY <1>10, <1>14, <2>1
  <2>5. g.tbl.tail = s[Len(s)] /\ g.tbl.num_items = Len(s) /\ g.hh.hashv = h.hh.hashv
    BY <1>10, <1>12, <1>14, <2>1
  <2>6. Hashed(g.tbl.buckets, g.hh, g.tbl.num_buckets, ToSet(s)) /\ Bounded(g.tbl)
    BY <1>9, <1>12, <1>14, <2>1, <2>2
  <2> QED
    BY <1>15, <2>3, <2>4, <2>5, <2>6 DEF TableIs
<1> QED
  BY <1>16, <1>17

(* What a walk finds, and when the table is freed.                         *)
LEMMA TableWalk ==
  ASSUME NEW h, NEW s, TableIs(h, s)
  PROVE  /\ AppOrder(h) = s
         /\ s \in Seq(Elements) /\ Distinct(s) /\ Len(s) \in Nat /\ DOMAIN s = 1..Len(s)
         /\ h.head = NULL <=> s = <<>>
         /\ s = <<>> <=> Len(s) = 0
<1>1. s \in Seq(Elements) /\ Len(s) \in Nat /\ DOMAIN s = 1..Len(s) /\ (s = <<>> <=> Len(s) = 0)
  BY LenProperties, EmptySeq DEF TableIs
<1>2. CASE s = <<>>
  <2>1. h.head = NULL
    BY <1>2 DEF TableIs
  <2>2. IsList(s, h.head, h.hh.prev, h.hh.next)
    BY <1>2, <2>1, EmptyList
  <2>3. AppOrder(h) = s /\ Distinct(s)
    BY <2>2, WalkOfList DEF AppOrder, IsList
  <2> QED
    BY <1>1, <1>2, <2>1, <2>3
<1>3. CASE s # <<>>
  <2>1. IsList(s, h.head, h.hh.prev, h.hh.next)
    BY <1>3 DEF TableIs
  <2>2. h.head = Nth(s, 1) /\ Distinct(s) /\ AppOrder(h) = s
    BY <2>1, WalkOfList DEF AppOrder, IsList
  <2>3. 1 \in 1..Len(s) /\ 1 \in Int
    BY <1>1, <1>3
  <2>4. h.head # NULL
    BY <1>1, <2>2, <2>3, NthOf
  <2> QED
    BY <1>1, <1>3, <2>2, <2>4
<1> QED
  BY <1>2, <1>3

(* The buckets do not see the hash value of an element that is in none.    *)
LEMMA HashedApart ==
  ASSUME NEW buckets, NEW hh, NEW num, NEW M, Hashed(buckets, hh, num, M),
         NEW hh2, hh2.hh_prev = hh.hh_prev, hh2.hh_next = hh.hh_next,
         \A x \in M : hh2.hashv[x] = hh.hashv[x]
  PROVE  Hashed(buckets, hh2, num, M)
<1>1. \A b : InBkt(hh2.hashv, num, M, b) = InBkt(hh.hashv, num, M, b)
  BY DEF InBkt
<1> QED
  BY <1>1 DEF Hashed

(* HASH_ADD puts an element that is not in the table behind all others.    *)
LEMMA AddedKeeps ==
  ASSUME NEW h, NEW s, TableIs(h, s),
         NEW e \in Elements, e \notin ToSet(s), NEW v \in Nat,
         NEW g, g = Added(h, e, v)
  PROVE  /\ TableIs(g, Append(s, e))
         /\ g.hh.hashv = [h.hh.hashv EXCEPT ![e] = v]
<1> DEFINE hashv2 == [h.hh.hashv EXCEPT ![e] = v]
           hh1 == [h.hh EXCEPT !.hashv = hashv2]
           keyed == [h EXCEPT !.hh.hashv[e] = v]
           first == [keyed EXCEPT !.hh.next = Linked(@, e, NULL),
                                  !.hh.prev = Linked(@, e, NULL),
                                  !.tbl = MakeTable(e), !.head = e]
           listed == AppendList(keyed, e)
<1>0. /\ s \in Seq(Elements) /\ Distinct(s) /\ Len(s) \in Nat
      /\ (h.head = NULL <=> s = <<>>)
      /\ (s = <<>> <=> Len(s) = 0)
      /\ ToSet(s) \in SUBSET Elements
  BY TableWalk, DistinctLength
<1>1. /\ h \in [head : Pointers, tbl : Tables \cup {NULL}, hh : Handles]
      /\ h.hh \in Handles /\ h.hh.hashv \in [Elements -> Nat]
      /\ h.hh.next \in Links /\ h.hh.prev \in Links
      /\ h.head \in Pointers /\ h.tbl \in Tables \cup {NULL}
      /\ e \in Pointers /\ NULL \in Pointers
  BY DEF TableIs, Handles, Pointers
<1>2. hashv2 \in [Elements -> Nat] /\ \A x \in Elements : hashv2[x] = IF x = e THEN v ELSE h.hh.hashv[x]
  BY <1>1
<1> HIDE DEF hashv2
<1>3. /\ hh1 \in Handles /\ hh1.hashv = hashv2
      /\ hh1.prev = h.hh.prev /\ hh1.next = h.hh.next
      /\ hh1.hh_prev = h.hh.hh_prev /\ hh1.hh_next = h.hh.hh_next
  BY <1>1, <1>2 DEF Handles
<1>4. keyed = [h EXCEPT !.hh = hh1]
  BY <1>1 DEF Handles, hashv2
<1> HIDE DEF hh1
<1>5. /\ keyed \in [head : Pointers, tbl : Tables \cup {NULL}, hh : Handles]
      /\ keyed.head = h.head /\ keyed.tbl = h.tbl /\ keyed.hh = hh1
  BY <1>1, <1>3, <1>4
<1>6. g = AddToTable(IF h.head = NULL THEN first ELSE listed, e)
  BY Zenon DEF Added
<1> HIDE DEF keyed
<1>7. CASE s = <<>>
  <2> DEFINE next2 == Linked(hh1.next, e, NULL)
             prev2 == Linked(hh1.prev, e, NULL)
             hh2 == [hh1 EXCEPT !.next = next2, !.prev = prev2]
             num == InitialBuckets
  <2>1. g = AddToTable(first, e)
    BY <1>0, <1>6, <1>7
  <2>2. next2 \in Links /\ prev2 \in Links /\ next2[e] = NULL /\ prev2[e] = NULL
    BY <1>1, <1>3, LinkedType, LinkedAt
  <2>3. first = [keyed EXCEPT !.hh = hh2, !.tbl = MakeTable(e), !.head = e]
    BY <1>5 DEF Handles
  <2> HIDE DEF next2, prev2
  <2>4. /\ hh2 \in Handles /\ hh2.next = next2 /\ hh2.prev = prev2 /\ hh2.hashv = hashv2
    BY <1>3, <2>2 DEF Handles
  <2>5. num \in Nat \ {0}
    BY SizesArePositive
  <2>6. /\ Hashed(MakeTable(e).buckets, hh2, num, {}) /\ MakeTable(e).buckets \in AllBuckets
    BY <2>5, EmptyIsHashed DEF MakeTable
  <2>7. /\ MakeTable(e) \in Tables
        /\ MakeTable(e).num_items = 0 /\ MakeTable(e).num_buckets = num
        /\ MakeTable(e).tail = e
    BY <1>1, <2>5, <2>6 DEF MakeTable, Tables
  <2>8. Bounded(MakeTable(e))
    <3>1. CapacityThresh \in Nat \ {0}
      BY SizesArePositive
    <3>2. \A b \in 0..num-1 : /\ MakeTable(e).buckets[b].count = 0
                              /\ MakeTable(e).buckets[b].expand_mult = 0
      BY DEF MakeTable, NoItems
    <3>3. DOMAIN MakeTable(e).buckets = 0..num-1
      BY DEF MakeTable
    <3> QED
      BY <3>1, <3>2, <3>3 DEF Bounded
  <2> HIDE DEF hh2, num
  <2>9. first \in Full /\ first.head = e /\ first.hh = hh2 /\ first.tbl = MakeTable(e)
    BY <1>1, <1>5, <2>3, <2>4, <2>7 DEF Full
  <2>10. IsList(<<e>>, e, prev2, next2) /\ ToSet(<<e>>) = {e}
    BY <2>2, ListOfOne
  <2>11. Append(s, e) = <<e>>
    BY <1>7
  <2>12. <<e>> # <<>> /\ Len(<<e>>) = 1 /\ <<e>>[1] = e
    OBVIOUS
  <2> HIDE DEF first
  <2> DEFINE t == <<e>>
  <2>13. TableIs(g, t) /\ g.hh.hashv = first.hh.hashv
    <3>1. IsList(t, first.head, first.hh.prev, first.hh.next) /\ t # <<>>
      BY <2>4, <2>9, <2>10, <2>12
    <3>2. first.tbl.tail = t[Len(t)] /\ first.tbl.num_items + 1 = Len(t)
      BY <2>7, <2>9, <2>12
    <3> DEFINE none == {}
    <3>3. ToSet(t) = none \cup {e} /\ none \in SUBSET Elements /\ e \notin none
      BY <2>10
    <3>4. Hashed(first.tbl.buckets, first.hh, first.tbl.num_buckets, none) /\ Bounded(first.tbl)
      BY <2>6, <2>7, <2>8, <2>9
    <3> HIDE DEF t, none
    <3> QED
      BY <2>1, <2>9, <3>1, <3>2, <3>3, <3>4, AddToTableKeeps
  <2> QED
    BY <2>4, <2>9, <2>11, <2>13 DEF hashv2
<1>8. CASE s # <<>>
  <2> DEFINE last == s[Len(s)]
             next2 == Linked(Linked(hh1.next, e, NULL), last, e)
             prev2 == Linked(hh1.prev, e, last)
             hh2 == [hh1 EXCEPT !.next = next2, !.prev = prev2]
             t2 == [h.tbl EXCEPT !.tail = e]
             t == Append(s, e)
  <2>1. g = AddToTable(listed, e)
    BY <1>0, <1>6, <1>8
  <2>2. /\ IsList(s, h.head, h.hh.prev, h.hh.next)
        /\ h.tbl \in Tables
        /\ h.tbl.tail = last
        /\ h.tbl.num_items = Len(s)
        /\ Hashed(h.tbl.buckets, h.hh, h.tbl.num_buckets, ToSet(s))
        /\ Bounded(h.tbl)
    BY <1>8 DEF TableIs
  <2>3. last \in Pointers
    BY <1>0, <1>8 DEF Pointers
  <2>4. next2 \in Links /\ prev2 \in Links
    BY <1>1, <1>3, <2>3, LinkedType
  <2>5. /\ IsList(t, h.head, prev2, next2)
        /\ Len(t) = Len(s) + 1
        /\ t[Len(s) + 1] = e
        /\ ToSet(t) = ToSet(s) \cup {e}
    BY <1>3, <1>8, <2>2, ListAppend
  <2>6. listed = [keyed EXCEPT !.hh = hh2, !.tbl = t2]
    BY <1>1, <1>5, <2>2 DEF AppendList, Handles, Tables
  <2> HIDE DEF next2, prev2, last
  <2>7. /\ hh2 \in Handles /\ hh2.next = next2 /\ hh2.prev = prev2 /\ hh2.hashv = hashv2
        /\ hh2.hh_prev = h.hh.hh_prev /\ hh2.hh_next = h.hh.hh_next
    BY <1>3, <2>4 DEF Handles
  <2>8. /\ t2 \in Tables /\ t2.tail = e /\ t2.num_items = Len(s)
        /\ t2.buckets = h.tbl.buckets /\ t2.num_buckets = h.tbl.num_buckets
        /\ t2.noexpand = h.tbl.noexpand /\ t2.ideal_chain_maxlen = h.tbl.ideal_chain_maxlen
    BY <1>1, <2>2 DEF Tables
  <2> HIDE DEF hh2, t2, listed
  <2>9. listed \in Full /\ listed.head = h.head /\ listed.hh = hh2 /\ listed.tbl = t2
    BY <1>1, <1>5, <2>6, <2>7, <2>8 DEF Full
  <2>10. t # <<>>
    BY <1>0, <2>5
  <2> HIDE DEF t
  <2>11. TableIs(g, t) /\ g.hh.hashv = listed.hh.hashv
    <3>1. IsList(t, listed.head, listed.hh.prev, listed.hh.next)
      BY <2>5, <2>7, <2>9
    <3>2. listed.tbl.tail = t[Len(t)] /\ listed.tbl.num_items + 1 = Len(t)
      BY <2>5, <2>8, <2>9
    <3>3. \A x \in ToSet(s) : hh2.hashv[x] = h.hh.hashv[x]
      BY <1>0, <1>2, <2>7
    <3>4. Hashed(h.tbl.buckets, hh2, h.tbl.num_buckets, ToSet(s))
      BY <2>2, <2>7, <3>3, HashedApart
    <3>5. Hashed(listed.tbl.buckets, listed.hh, listed.tbl.num_buckets, ToSet(s))
      BY <2>8, <2>9, <3>4
    <3>6. Bounded(listed.tbl)
      BY <2>2, <2>8, <2>9 DEF Bounded
    <3> QED
      BY <1>0, <2>1, <2>5, <2>9, <2>10, <3>1, <3>2, <3>5, <3>6, AddToTableKeeps
  <2> QED
    BY <2>7, <2>9, <2>11 DEF t, hashv2
<1> QED
  BY <1>7, <1>8

------------------------------------------------------------------------------
(* HASH_DEL.                                                               *)

(* DelInBkt takes an element out of its bucket.                            *)
LEMMA DelInBktKeeps ==
  ASSUME NEW h \in Full, NEW M \in SUBSET Elements, NEW e \in M,
         Hashed(h.tbl.buckets, h.hh, h.tbl.num_buckets, M),
         Bounded(h.tbl),
         NEW g, g = DelInBkt(h, ToBkt(h.hh.hashv[e], h.tbl.num_buckets), e)
  PROVE  /\ g \in Full /\ g.head = h.head
         /\ g.hh.prev = h.hh.prev /\ g.hh.next = h.hh.next /\ g.hh.hashv = h.hh.hashv
         /\ g.tbl.tail = h.tbl.tail /\ g.tbl.num_items = h.tbl.num_items
         /\ Hashed(g.tbl.buckets, g.hh, g.tbl.num_buckets, M \ {e})
         /\ Bounded(g.tbl)
<1> DEFINE num == h.tbl.num_buckets
           b == ToBkt(h.hh.hashv[e], num)
           before == h.hh.hh_prev[e]
           after == h.hh.hh_next[e]
           link2 == Linked(h.hh.hh_next, before, after)
           back2 == Linked(h.hh.hh_prev, after, before)
           hh2 == [h.hh EXCEPT !.hh_next = link2, !.hh_prev = back2]
           old == h.tbl.buckets[b]
           new == [old EXCEPT !.count = @ - 1, !.hh_head = IF @ = e THEN after ELSE @]
           bk2 == [h.tbl.buckets EXCEPT ![b] = new]
           t2 == [h.tbl EXCEPT !.buckets = bk2]
<1>1. /\ h.hh \in Handles /\ h.tbl \in Tables /\ h.head \in Pointers
      /\ num \in Nat \ {0} /\ h.tbl.buckets \in [0..num-1 -> Buckets]
      /\ h.hh.hashv \in [Elements -> Nat] /\ h.hh.hh_next \in Links /\ h.hh.hh_prev \in Links
      /\ e \in Elements
  BY DEF Full, Hashed, Handles
<1>2. b \in 0..num-1
  BY <1>1, ToBktType
<1>3. g = [h EXCEPT !.tbl.buckets[b] = new, !.hh.hh_next = link2, !.hh.hh_prev = back2]
  BY Zenon DEF DelInBkt
<1> HIDE DEF b
<1>4. PICK c : /\ IsList(c, old.hh_head, h.hh.hh_prev, h.hh.hh_next)
               /\ Len(c) = old.count
               /\ ToSet(c) = InBkt(h.hh.hashv, num, M, b)
  BY <1>2 DEF Hashed
<1>5. PICK k \in 1..Len(c) : c[k] = e
  <2>1. e \in ToSet(c)
    BY <1>4 DEF InBkt, b
  <2> QED
    BY <1>4, <2>1, LenProperties DEF ToSet, IsList
<1>6. /\ IsList(Without(c, k), IF old.hh_head = e THEN after ELSE old.hh_head, back2, link2)
      /\ before \in ToSet(c) \cup {NULL} /\ after \in ToSet(c) \cup {NULL}
  BY <1>4, <1>5, ListRemove
<1>7. /\ c \in Seq(Elements) /\ Distinct(c) /\ Len(c) \in Nat
      /\ Len(Without(c, k)) = Len(c) - 1
      /\ ToSet(Without(c, k)) = ToSet(c) \ {e}
  BY <1>4, <1>5, WithoutIs, LenProperties DEF IsList
<1>8. before \in Pointers /\ after \in Pointers /\ link2 \in Links /\ back2 \in Links
  <2>1. before \in Pointers /\ after \in Pointers
    BY <1>1 DEF Links
  <2> QED
    BY <1>1, <2>1, LinkedType
<1>9. old \in Buckets /\ old.count - 1 \in Nat
  BY <1>1, <1>2, <1>4, <1>5, <1>7
<1>10. /\ new \in Buckets /\ new.count = old.count - 1 /\ new.expand_mult = old.expand_mult
       /\ new.hh_head = IF old.hh_head = e THEN after ELSE old.hh_head
  BY <1>8, <1>9 DEF Buckets
<1>11. g = [h EXCEPT !.tbl = t2, !.hh = hh2]
  <2> HIDE DEF new, link2, back2
  <2> QED
    BY <1>1, <1>3 DEF Full, Tables, Handles
<1> HIDE DEF link2, back2, new, old, before, after
<1>12. /\ bk2 \in [0..num-1 -> Buckets] /\ bk2[b] = new
       /\ \A i \in 0..num-1 : i # b => bk2[i] = h.tbl.buckets[i]
       /\ bk2 \in AllBuckets
  <2>1. bk2 \in [0..num-1 -> Buckets]
    BY <1>1, <1>10
  <2> QED
    BY <1>1, <1>2, <2>1 DEF AllBuckets
<1> HIDE DEF bk2
<1>13. /\ t2 \in Tables /\ t2.buckets = bk2 /\ t2.num_buckets = num
       /\ t2.tail = h.tbl.tail /\ t2.num_items = h.tbl.num_items
       /\ t2.noexpand = h.tbl.noexpand /\ t2.ideal_chain_maxlen = h.tbl.ideal_chain_maxlen
  BY <1>1, <1>12 DEF Tables
<1>14. /\ hh2 \in Handles /\ hh2.hh_next = link2 /\ hh2.hh_prev = back2
       /\ hh2.prev = h.hh.prev /\ hh2.next = h.hh.next /\ hh2.hashv = h.hh.hashv
  BY <1>1, <1>8 DEF Handles
<1> HIDE DEF t2, hh2
<1>15. g \in Full /\ g.head = h.head /\ g.tbl = t2 /\ g.hh = hh2
  BY <1>1, <1>11, <1>13, <1>14 DEF Full
<1>16. ASSUME NEW i \in 0..num-1
       PROVE  \E d : /\ IsList(d, bk2[i].hh_head, back2, link2)
                     /\ Len(d) = bk2[i].count
                     /\ ToSet(d) = InBkt(h.hh.hashv, num, M \ {e}, i)
  <2>1. CASE i = b
    <3>1. InBkt(h.hh.hashv, num, M \ {e}, b) = InBkt(h.hh.hashv, num, M, b) \ {e}
      BY DEF InBkt
    <3>2. /\ IsList(Without(c, k), new.hh_head, back2, link2)
          /\ Len(Without(c, k)) = new.count
          /\ ToSet(Without(c, k)) = InBkt(h.hh.hashv, num, M \ {e}, b)
      BY <1>4, <1>6, <1>7, <1>10, <3>1
    <3> QED
      BY <1>12, <2>1, <3>2
  <2>2. CASE i # b
    <3>1. PICK d : /\ IsList(d, h.tbl.buckets[i].hh_head, h.hh.hh_prev, h.hh.hh_next)
                   /\ Len(d) = h.tbl.buckets[i].count
                   /\ ToSet(d) = InBkt(h.hh.hashv, num, M, i)
      BY DEF Hashed
    <3>2. InBkt(h.hh.hashv, num, M \ {e}, i) = InBkt(h.hh.hashv, num, M, i)
      BY <2>2 DEF InBkt, b
    <3>3. ASSUME NEW y \in ToSet(d)
          PROVE  y \in Elements /\ y # before /\ y # after
      <4>1. y \in M /\ ToBkt(h.hh.hashv[y], num) = i
        BY <3>1 DEF InBkt
      <4>2. y \notin ToSet(c)
        BY <1>4, <2>2, <4>1 DEF InBkt
      <4> QED
        BY <1>6, <4>1, <4>2, NullIsNoElement
    <3>4. \A y \in ToSet(d) : back2[y] = h.hh.hh_prev[y] /\ link2[y] = h.hh.hh_next[y]
      BY <3>3, LinkedAt DEF back2, link2
    <3>5. IsList(d, h.tbl.buckets[i].hh_head, back2, link2)
      BY <3>1, <3>4, ListUndisturbed
    <3> QED
      BY <1>12, <2>2, <3>1, <3>2, <3>5
  <2> QED
    BY <2>1, <2>2
<1>17. Hashed(bk2, hh2, num, M \ {e})
  BY <1>1, <1>12, <1>14, <1>16 DEF Hashed
<1>18. Bounded(t2)
  <2>0. DOMAIN t2.buckets = 0..num-1 /\ DOMAIN h.tbl.buckets = 0..num-1
    BY <1>1, <1>12, <1>13
  <2> SUFFICES ASSUME ~t2.noexpand, NEW i \in 0..num-1
               PROVE  LET bkt == t2.buckets[i]
                      IN \/ bkt.count < (bkt.expand_mult + 1) * CapacityThresh
                         \/ bkt.count <= (bkt.expand_mult + 1) * t2.ideal_chain_maxlen
    BY <2>0 DEF Bounded
  <2>1. LET bkt == h.tbl.buckets[i]
        IN \/ bkt.count < (bkt.expand_mult + 1) * CapacityThresh
           \/ bkt.count <= (bkt.expand_mult + 1) * t2.ideal_chain_maxlen
    BY <1>13, <2>0 DEF Bounded
  <2>2. CASE i = b
    <3> DEFINE m == (old.expand_mult + 1) * CapacityThresh
               n == (old.expand_mult + 1) * t2.ideal_chain_maxlen
    <3>1. old.expand_mult \in Nat /\ old.count \in Nat /\ CapacityThresh \in Nat /\ t2.ideal_chain_maxlen \in Nat
      BY <1>9, <1>13, SizesArePositive DEF Buckets, Tables
    <3>2. m \in Nat /\ n \in Nat
      <4>1. \A x, y \in Nat : (x + 1) * y \in Nat
        OBVIOUS
      <4> QED
        BY <3>1, <4>1
    <3>3. old.count < m \/ old.count <= n
      BY <2>1, <2>2 DEF old
    <3> HIDE DEF m, n
    <3>4. old.count - 1 < m \/ old.count - 1 <= n
      BY <3>1, <3>2, <3>3
    <3>5. t2.buckets[i] = new
      BY <1>12, <1>13, <2>2
    <3> QED
      BY <1>10, <3>4, <3>5 DEF m, n
  <2>3. CASE i # b
    BY <1>12, <1>13, <2>1, <2>3
  <2> QED
    BY <2>2, <2>3
<1> QED
  BY <1>13, <1>14, <1>15, <1>17, <1>18

(* Deleting the k-th element of the application order.                     *)
LEMMA DeletedKeeps ==
  ASSUME NEW h, NEW s, TableIs(h, s), NEW k \in 1..Len(s),
         NEW g, g = Deleted(h, s[k])
  PROVE  TableIs(g, Without(s, k)) /\ g.hh.hashv = h.hh.hashv
<1> DEFINE e == s[k]
           t == Without(s, k)
           before == h.hh.prev[e]
           after == h.hh.next[e]
<1>1. /\ s \in Seq(Elements) /\ Distinct(s) /\ Len(s) \in Nat /\ s # <<>>
      /\ e \in Elements /\ e \in ToSet(s)
  BY TableWalk DEF ToSet
<1>2. /\ h \in [head : Pointers, tbl : Tables \cup {NULL}, hh : Handles]
      /\ IsList(s, h.head, h.hh.prev, h.hh.next)
      /\ h.tbl \in Tables
      /\ h.tbl.tail = s[Len(s)]
      /\ h.tbl.num_items = Len(s)
      /\ Hashed(h.tbl.buckets, h.hh, h.tbl.num_buckets, ToSet(s))
      /\ Bounded(h.tbl)
  BY <1>1 DEF TableIs
<1>3. /\ t \in Seq(Elements) /\ Len(t) = Len(s) - 1 /\ Distinct(t)
      /\ ToSet(t) = ToSet(s) \ {e}
      /\ \A i \in Int : Nth(t, i) = IF i < k THEN Nth(s, i) ELSE Nth(s, i + 1)
      /\ t = <<>> <=> Len(t) = 0
  BY <1>1, WithoutIs, EmptySeq
<1>4. /\ IsList(t, IF h.head = e THEN after ELSE h.head,
                Linked(h.hh.prev, after, before), Linked(h.hh.next, before, after))
      /\ (before = NULL <=> k = 1)
      /\ (h.head = e <=> k = 1)
      /\ (after = NULL <=> k = Len(s))
      /\ before \in ToSet(s) \cup {NULL}
      /\ after \in ToSet(s) \cup {NULL}
      /\ before = Nth(s, k - 1) /\ after = Nth(s, k + 1)
  BY <1>2, ListRemove
<1>5. /\ h.hh \in Handles /\ h.head \in Pointers /\ NULL \in Pointers
  BY <1>2 DEF Pointers
<1>6. CASE Len(s) = 1
  <2>1. before = NULL /\ after = NULL
    BY <1>4, <1>6
  <2>2. g = [h EXCEPT !.tbl = NULL, !.head = NULL]
    BY <2>1 DEF Deleted
  <2>3. /\ g \in [head : Pointers, tbl : Tables \cup {NULL}, hh : Handles]
        /\ g.head = NULL /\ g.tbl = NULL /\ g.hh = h.hh
    BY <1>2, <1>5, <2>2
  <2>4. t = <<>>
    BY <1>3, <1>6
  <2> QED
    BY <1>3, <2>3, <2>4 DEF TableIs
<1>7. CASE Len(s) # 1
  <2> DEFINE u == Unlisted(h, e)
             v == [u EXCEPT !.tbl.num_items = @ - 1]
             head2 == IF before = NULL THEN after ELSE h.head
             tail2 == IF h.tbl.tail = e THEN before ELSE h.tbl.tail
             next2 == Linked(h.hh.next, before, after)
             prev2 == Linked(h.hh.prev, after, before)
             hh2 == [h.hh EXCEPT !.next = next2, !.prev = prev2]
             t1 == [h.tbl EXCEPT !.tail = tail2]
             t2 == [t1 EXCEPT !.num_items = @ - 1]
             b == ToBkt(h.hh.hashv[e], h.tbl.num_buckets)
  <2>1. before # NULL \/ after # NULL
    BY <1>1, <1>4, <1>7
  <2>2. g = DelInBkt(v, b, e)
    BY <2>1, Zenon DEF Deleted
  <2>3. u = [h EXCEPT !.head = head2, !.tbl = t1, !.hh = hh2]
    BY <1>2, <1>5 DEF Unlisted, Tables, Handles
  <2>4. before \in Pointers /\ after \in Pointers
    BY <1>1, <1>4, DistinctLength DEF Pointers
  <2>5. next2 \in Links /\ prev2 \in Links
    <3>1. h.hh.next \in Links /\ h.hh.prev \in Links
      BY <1>5 DEF Handles
    <3> QED
      BY <2>4, <3>1, LinkedType
  <2> HIDE DEF next2, prev2
  <2>6. /\ hh2 \in Handles /\ hh2.next = next2 /\ hh2.prev = prev2 /\ hh2.hashv = h.hh.hashv
        /\ hh2.hh_prev = h.hh.hh_prev /\ hh2.hh_next = h.hh.hh_next
    BY <1>5, <2>5 DEF Handles
  <2>7. head2 \in Pointers /\ tail2 \in Pointers
    BY <1>2, <1>5, <2>4 DEF Tables
  <2> HIDE DEF head2, tail2
  <2>8. /\ t1 \in Tables /\ t1.tail = tail2 /\ t1.num_items = Len(s)
        /\ t1.buckets = h.tbl.buckets /\ t1.num_buckets = h.tbl.num_buckets
        /\ t1.noexpand = h.tbl.noexpand /\ t1.ideal_chain_maxlen = h.tbl.ideal_chain_maxlen
    BY <1>2, <2>7 DEF Tables
  <2> HIDE DEF t1, hh2, u
  <2>9. u \in Full /\ u.head = head2 /\ u.tbl = t1 /\ u.hh = hh2
    BY <1>2, <1>5, <2>3, <2>6, <2>7, <2>8 DEF Full
  <2>10. Len(s) - 1 \in Nat
    BY <1>1
  <2>11. /\ t2 \in Tables /\ t2.tail = tail2 /\ t2.num_items = Len(s) - 1
         /\ t2.buckets = h.tbl.buckets /\ t2.num_buckets = h.tbl.num_buckets
         /\ t2.noexpand = h.tbl.noexpand /\ t2.ideal_chain_maxlen = h.tbl.ideal_chain_maxlen
    BY <2>8, <2>10 DEF Tables
  <2>12. v = [u EXCEPT !.tbl = t2]
    BY <2>9 DEF Full
  <2> HIDE DEF t2, v
  <2>13. v \in Full /\ v.head = head2 /\ v.tbl = t2 /\ v.hh = hh2
    BY <2>9, <2>11, <2>12 DEF Full
  <2>14. Hashed(v.tbl.buckets, v.hh, v.tbl.num_buckets, ToSet(s)) /\ Bounded(v.tbl)
    <3>1. Hashed(h.tbl.buckets, hh2, h.tbl.num_buckets, ToSet(s))
      BY <1>2, <2>6, HashedApart
    <3> QED
      BY <1>2, <2>11, <2>13, <3>1 DEF Bounded
  <2>15. b = ToBkt(v.hh.hashv[e], v.tbl.num_buckets)
    BY <2>6, <2>11, <2>13
  <2> HIDE DEF b
  <2>16. /\ g \in Full /\ g.head = v.head
         /\ g.hh.prev = v.hh.prev /\ g.hh.next = v.hh.next /\ g.hh.hashv = v.hh.hashv
         /\ g.tbl.tail = v.tbl.tail /\ g.tbl.num_items = v.tbl.num_items
         /\ Hashed(g.tbl.buckets, g.hh, g.tbl.num_buckets, ToSet(s) \ {e})
         /\ Bounded(g.tbl)
    <3>1. ToSet(s) \in SUBSET Elements
      BY <1>1, DistinctLength
    <3>2. g = DelInBkt(v, ToBkt(v.hh.hashv[e], v.tbl.num_buckets), e)
      BY <2>2, <2>15
    <3> DEFINE M == ToSet(s)
    <3>3. M \in SUBSET Elements /\ e \in M /\ Hashed(v.tbl.buckets, v.hh, v.tbl.num_buckets, M)
      BY <1>1, <2>14, <3>1
    <3> HIDE DEF e, M
    <3>4. /\ g \in Full /\ g.head = v.head
          /\ g.hh.prev = v.hh.prev /\ g.hh.next = v.hh.next /\ g.hh.hashv = v.hh.hashv
          /\ g.tbl.tail = v.tbl.tail /\ g.tbl.num_items = v.tbl.num_items
          /\ Hashed(g.tbl.buckets, g.hh, g.tbl.num_buckets, M \ {e})
          /\ Bounded(g.tbl)
      <4>1. v \in Full /\ Bounded(v.tbl)
        BY <2>13, <2>14
      <4>2. PICK w, x, N : w = v /\ x = e /\ N = M
        OBVIOUS
      <4>3. /\ w \in Full /\ N \in SUBSET Elements /\ x \in N
            /\ Hashed(w.tbl.buckets, w.hh, w.tbl.num_buckets, N) /\ Bounded(w.tbl)
            /\ g = DelInBkt(w, ToBkt(w.hh.hashv[x], w.tbl.num_buckets), x)
        BY <3>2, <3>3, <4>1, <4>2
      <4>4. /\ g \in Full /\ g.head = w.head
            /\ g.hh.prev = w.hh.prev /\ g.hh.next = w.hh.next /\ g.hh.hashv = w.hh.hashv
            /\ g.tbl.tail = w.tbl.tail /\ g.tbl.num_items = w.tbl.num_items
            /\ Hashed(g.tbl.buckets, g.hh, g.tbl.num_buckets, N \ {x})
            /\ Bounded(g.tbl)
        BY <4>3, DelInBktKeeps
      <4> QED
        BY <4>2, <4>4
    <3> QED
      BY <3>4 DEF M
  <2>17. IsList(t, g.head, g.hh.prev, g.hh.next)
    <3>1. head2 = IF h.head = e THEN after ELSE h.head
      BY <1>4 DEF head2
    <3> QED
      BY <1>4, <2>6, <2>13, <2>16, <3>1 DEF next2, prev2
  <2>18. g.tbl.tail = t[Len(t)]
    <3>1. Len(t) \in 1..Len(t) /\ Len(t) \in Int /\ Len(t) + 1 = Len(s)
      BY <1>1, <1>3, <1>7
    <3>2. t[Len(t)] = Nth(t, Len(t))
      BY <1>3, <3>1, NthOf
    <3>3. Nth(t, Len(t)) = IF Len(t) < k THEN Nth(s, Len(t)) ELSE Nth(s, Len(s))
      BY <1>3, <3>1
    <3>4. Nth(s, Len(s)) = s[Len(s)]
      BY <1>1, NthOf
    <3>5. CASE k = Len(s)
      <4>1. Len(t) < k /\ k - 1 = Len(t) /\ tail2 = before
        BY <1>2, <3>1, <3>5 DEF tail2
      <4> QED
        BY <1>4, <2>11, <2>13, <2>16, <3>2, <3>3, <4>1
    <3>6. CASE k # Len(s)
      <4>1. ~(Len(t) < k)
        BY <1>1, <3>1, <3>6
      <4>2. s[Len(s)] # e
        BY <1>1, <3>6 DEF Distinct
      <4>3. tail2 = s[Len(s)]
        BY <1>2, <4>2 DEF tail2
      <4> QED
        BY <2>11, <2>13, <2>16, <3>2, <3>3, <3>4, <4>1, <4>3
    <3> QED
      BY <3>5, <3>6
  <2>19. g \in [head : Pointers, tbl : Tables \cup {NULL}, hh : Handles] /\ g.tbl \in Tables
    BY <2>16 DEF Full
  <2>20. t # <<>> /\ g.tbl.num_items = Len(t) /\ g.hh.hashv = h.hh.hashv
    BY <1>1, <1>3, <1>7, <2>6, <2>11, <2>13, <2>16
  <2> QED
    BY <1>3, <2>16, <2>17, <2>18, <2>19, <2>20 DEF TableIs
<1> QED
  BY <1>6, <1>7

------------------------------------------------------------------------------
(* HASH_FIND and HASH_FSCK.                                                *)

(* HASH_FIND finds the elements of the table.                              *)
LEMMA FindIs ==
  ASSUME NEW h, NEW s, TableIs(h, s), NEW k \in Elements, NEW v \in Nat,
         k \in ToSet(s) => h.hh.hashv[k] = v
  PROVE  Find(h, k, v) = IF k \in ToSet(s) THEN k ELSE NULL
<1>1. CASE s = <<>>
  <2>1. h.head = NULL /\ ToSet(s) = {}
    BY <1>1 DEF TableIs, ToSet
  <2> QED
    BY <2>1 DEF Find
<1>2. CASE s # <<>>
  <2> DEFINE b == ToBkt(v, h.tbl.num_buckets)
  <2>1. h.head # NULL /\ Hashed(h.tbl.buckets, h.hh, h.tbl.num_buckets, ToSet(s))
    <3>1. h.head # NULL
      BY <1>2, TableWalk
    <3> QED
      BY <1>2, <3>1 DEF TableIs
  <2>2. h.tbl.num_buckets \in Nat \ {0}
    BY <2>1 DEF Hashed
  <2>3. b \in 0..h.tbl.num_buckets-1
    BY <2>2, ToBktType
  <2>4. ToSet(Chain(h, b)) = InBkt(h.hh.hashv, h.tbl.num_buckets, ToSet(s), b)
    BY <2>1, <2>3, ChainIs
  <2>5. Find(h, k, v) = FindInBkt(h, b, k, v)
    BY <2>1 DEF Find
  <2>6. CASE k \in ToSet(s)
    <3>1. h.hh.hashv[k] = v /\ k \in ToSet(Chain(h, b))
      BY <2>4, <2>6 DEF InBkt
    <3> QED
      BY <2>5, <2>6, <3>1 DEF FindInBkt
  <2>7. CASE k \notin ToSet(s)
    <3>1. k \notin ToSet(Chain(h, b))
      BY <2>4, <2>7 DEF InBkt
    <3> QED
      BY <2>5, <2>7, <3>1 DEF FindInBkt
  <2> QED
    BY <2>6, <2>7
<1> QED
  BY <1>1, <1>2

(* What HASH_FSCK asks of a list.                                          *)
LEMMA ListPointsBack ==
  ASSUME NEW s, NEW first, NEW back, NEW link, IsList(s, first, back, link)
  PROVE  PointsBack(back, s)
<1>1. DOMAIN s = 1..Len(s)
  BY LenProperties DEF IsList
<1> QED
  BY <1>1 DEF IsList, PointsBack

(* HASH_FSCK finds nothing to complain of.                                 *)
LEMMA FsckHolds ==
  ASSUME NEW h, NEW s, TableIs(h, s)
  PROVE  /\ Fsck(h)
         /\ h.head # NULL => h.tbl.tail = Last(AppOrder(h))
<1>1. CASE s = <<>>
  BY <1>1 DEF TableIs, Fsck
<1>2. CASE s # <<>>
  <2>1. /\ IsList(s, h.head, h.hh.prev, h.hh.next) /\ AppOrder(h) = s
        /\ h.tbl.num_items = Len(s) /\ h.tbl.tail = s[Len(s)]
        /\ Hashed(h.tbl.buckets, h.hh, h.tbl.num_buckets, ToSet(s))
        /\ h.hh \in Handles
    BY <1>2, TableWalk DEF TableIs
  <2>2. /\ s \in Seq(Elements) /\ Distinct(s) /\ ToSet(s) \in SUBSET Elements
        /\ Cardinality(ToSet(s)) = Len(s)
    BY TableWalk, DistinctLength
  <2>3. PointsBack(h.hh.prev, AppOrder(h))
    BY <2>1, ListPointsBack
  <2>4. Len(Items(h)) = Len(s)
    <3>1. Items(h) \in Seq(Elements) /\ Distinct(Items(h)) /\ ToSet(Items(h)) = ToSet(s)
      BY <2>1, <2>2, ItemsAre
    <3>2. Cardinality(ToSet(Items(h))) = Len(Items(h))
      BY <3>1, DistinctLength
    <3> QED
      BY <2>2, <3>1, <3>2
  <2>5. DOMAIN h.tbl.buckets = 0..h.tbl.num_buckets-1
    BY <2>1 DEF Hashed
  <2>6. ASSUME NEW b \in 0..h.tbl.num_buckets-1
        PROVE  /\ PointsBack(h.hh.hh_prev, Chain(h, b))
               /\ h.tbl.buckets[b].count = Len(Chain(h, b))
    <3>1. /\ IsList(Chain(h, b), h.tbl.buckets[b].hh_head, h.hh.hh_prev, h.hh.hh_next)
          /\ Len(Chain(h, b)) = h.tbl.buckets[b].count
      BY <2>1, ChainIs
    <3> QED
      BY <3>1, ListPointsBack
  <2>7. Fsck(h)
    BY <2>1, <2>3, <2>4, <2>5, <2>6 DEF Fsck
  <2> QED
    BY <2>1, <2>7 DEF Last
<1> QED
  BY <1>1, <1>2

------------------------------------------------------------------------------
(* HASH_ITER { HASH_DEL }.                                                 *)

(* Where HASH_ITER begins, and the successor it reads.                     *)
LEMMA FirstAndNext ==
  ASSUME NEW h, NEW t, TableIs(h, t)
  PROVE  /\ h.head = Nth(t, 1)
         /\ Nth(t, 2) = IF Nth(t, 1) = NULL THEN NULL ELSE h.hh.next[Nth(t, 1)]
         /\ Nth(t, 1) = NULL <=> t = <<>>
<1>1. /\ t \in Seq(Elements) /\ Len(t) \in Nat /\ (h.head = NULL <=> t = <<>>)
      /\ (t = <<>> <=> Len(t) = 0)
  BY TableWalk
<1>2. CASE t = <<>>
  <2>1. 1 \notin 1..Len(t) /\ 2 \notin 1..Len(t) /\ 1 \in Int /\ 2 \in Int
    BY <1>1, <1>2
  <2>2. Nth(t, 1) = NULL /\ Nth(t, 2) = NULL
    BY <1>1, <2>1, NthOf
  <2> QED
    BY <1>1, <1>2, <2>2
<1>3. CASE t # <<>>
  <2>1. 1 \in 1..Len(t) /\ 1 \in Int
    BY <1>1, <1>3
  <2>2. Nth(t, 1) = t[1] /\ Nth(t, 1) # NULL
    BY <1>1, <2>1, NthOf
  <2>3. IsList(t, h.head, h.hh.prev, h.hh.next)
    BY <1>3 DEF TableIs
  <2>4. h.head = Nth(t, 1) /\ h.hh.next[t[1]] = Nth(t, 2)
    BY <2>1, <2>3 DEF IsList
  <2> QED
    BY <1>3, <2>2, <2>4
<1> QED
  BY <1>2, <1>3

(* After n turns the first n elements are gone.                            *)
TurnedTo(st, s, n) ==
  \E r : /\ TableIs(st.h, r)
         /\ Len(r) + n = Len(s) \/ (r = <<>> /\ n >= Len(s))
         /\ st.el = Nth(r, 1)
         /\ st.tmp = Nth(r, 2)

(* One turn of HASH_ITER { HASH_DEL } takes the first element away.        *)
LEMMA TurnKeeps ==
  ASSUME NEW st, NEW s, NEW n \in Nat, Len(s) \in Nat, TurnedTo(st, s, n)
  PROVE  TurnedTo(Turn(st), s, n + 1)
<1>1. PICK r : /\ TableIs(st.h, r)
               /\ Len(r) + n = Len(s) \/ (r = <<>> /\ n >= Len(s))
               /\ st.el = Nth(r, 1)
               /\ st.tmp = Nth(r, 2)
  BY DEF TurnedTo
<1>2. /\ r \in Seq(Elements) /\ Len(r) \in Nat /\ (r = <<>> <=> Len(r) = 0)
      /\ (Nth(r, 1) = NULL <=> r = <<>>) /\ Distinct(r)
  BY <1>1, TableWalk, FirstAndNext
<1>3. CASE r = <<>>
  <2>1. Turn(st) = st
    BY <1>1, <1>2, <1>3 DEF Turn
  <2>2. r = <<>> /\ n + 1 >= Len(s)
    BY <1>1, <1>2, <1>3
  <2> QED
    BY <1>1, <2>1, <2>2 DEF TurnedTo
<1>4. CASE r # <<>>
  <2> DEFINE d == Deleted(st.h, st.el)
             t == Without(r, 1)
  <2>1. 1 \in 1..Len(r) /\ 1 \in Int /\ 2 \in Int
    BY <1>2, <1>4
  <2>2. st.el # NULL /\ st.el = r[1]
    BY <1>1, <1>2, <2>1, NthOf
  <2>3. TableIs(d, t)
    BY <1>1, <2>1, <2>2, DeletedKeeps
  <2>4. /\ Len(t) = Len(r) - 1
        /\ \A i \in Int : Nth(t, i) = IF i < 1 THEN Nth(r, i) ELSE Nth(r, i + 1)
    BY <1>2, <2>1, WithoutIs
  <2>5. Nth(t, 1) = Nth(r, 2)
    BY <2>1, <2>4
  <2>6. Turn(st) = [h |-> d, el |-> st.tmp,
                    tmp |-> IF st.tmp = NULL THEN NULL ELSE d.hh.next[st.tmp]]
    BY <2>2 DEF Turn
  <2> HIDE DEF d, t
  <2>7. Turn(st).h = d /\ Turn(st).el = Nth(t, 1)
    BY <1>1, <2>5, <2>6
  <2>8. Turn(st).tmp = Nth(t, 2)
    BY <1>1, <2>3, <2>5, <2>6, FirstAndNext
  <2>9. Len(t) + (n + 1) = Len(s)
    <3>1. Len(r) + n = Len(s)
      BY <1>1, <1>4
    <3>2. Len(r) \in Nat /\ Len(t) = Len(r) - 1
      BY <1>2, <2>4
    <3> QED
      BY ONLY <3>1, <3>2, n \in Nat, Len(s) \in Nat
  <2> QED
    BY <2>3, <2>7, <2>8, <2>9 DEF TurnedTo
<1> QED
  BY <1>3, <1>4

(* clean_up_hashmap leaves an empty table.                                 *)
LEMMA AllDeletedKeeps ==
  ASSUME NEW h, NEW s, TableIs(h, s)
  PROVE  TableIs(AllDeleted(h), <<>>)
<1> DEFINE C == Cardinality(Elements)
           at == Turns(h)
           P == {n \in Nat : n <= C => TurnedTo(at[n], s, n)}
<1>1. /\ DOMAIN at = 0..C
      /\ at[0] = [h |-> h, el |-> h.head,
                  tmp |-> IF h.head = NULL THEN NULL ELSE h.hh.next[h.head]]
      /\ \A n \in 1..C : at[n] = Turn(at[n - 1])
  BY TurnsAre
<1>2. C \in Nat
  BY ElementsAreNat, FS_CardinalityType
<1>3. s \in Seq(Elements) /\ Len(s) \in Nat /\ Len(s) <= C
  BY TableWalk, DistinctLength
<1> HIDE DEF at
<1>4. 0 \in P
  <2>1. h.head = Nth(s, 1) /\ Nth(s, 2) = IF Nth(s, 1) = NULL THEN NULL ELSE h.hh.next[Nth(s, 1)]
    BY FirstAndNext
  <2>2. at[0].h = h /\ at[0].el = Nth(s, 1) /\ at[0].tmp = Nth(s, 2)
    BY <1>1, <2>1
  <2>3. Len(s) + 0 = Len(s)
    BY <1>3
  <2>4. TurnedTo(at[0], s, 0)
    BY <2>2, <2>3 DEF TurnedTo
  <2> QED
    BY <2>4
<1>5. ASSUME NEW n \in P
      PROVE  n + 1 \in P
  <2> SUFFICES ASSUME n + 1 <= C
               PROVE  TurnedTo(at[n + 1], s, n + 1)
    OBVIOUS
  <2>1. n \in Nat /\ n <= C /\ n + 1 \in 1..C /\ (n + 1) - 1 = n
    BY <1>2
  <2>2. at[n + 1] = Turn(at[n])
    BY <1>1, <2>1
  <2>3. TurnedTo(at[n], s, n)
    BY <2>1
  <2> QED
    BY <1>3, <2>1, <2>2, <2>3, TurnKeeps
<1>6. P = Nat
  <2> HIDE DEF P
  <2>1. P \subseteq Nat
    BY DEF P
  <2> QED
    BY <1>4, <1>5, <2>1, NaturalsByInduction
<1>7. TurnedTo(at[C], s, C)
  <2>1. C \in P /\ C <= C
    BY <1>2, <1>6
  <2> QED
    BY <2>1
<1>8. PICK r : /\ TableIs(at[C].h, r)
               /\ Len(r) + C = Len(s) \/ (r = <<>> /\ C >= Len(s))
  BY <1>7 DEF TurnedTo
<1>9. Len(r) \in Nat /\ (r = <<>> <=> Len(r) = 0)
  BY <1>8, TableWalk
<1>10. r = <<>>
  BY <1>2, <1>3, <1>8, <1>9
<1> QED
  BY <1>8, <1>10 DEF AllDeleted, at

------------------------------------------------------------------------------
(* HASH_SORT.                                                              *)

(* In the order of HASH_SORT.                                              *)
Ascending(s) == \A i, j \in 1..Len(s) : i < j => s[i] < s[j]

(* An ascending sequence repeats nothing.                                  *)
LEMMA AscendingIsDistinct ==
  ASSUME NEW s \in Seq(Elements), Ascending(s)
  PROVE  Distinct(s)
<1> SUFFICES ASSUME NEW i \in 1..Len(s), NEW j \in 1..Len(s), s[i] = s[j], i # j
             PROVE  FALSE
  BY DEF Distinct
<1>1. Len(s) \in Nat /\ s[i] \in Elements /\ s[i] \in Nat
  BY ElementsAreNat, LenProperties
<1>2. ~(s[i] < s[j]) /\ ~(s[j] < s[i])
  BY <1>1
<1>3. i < j \/ j < i
  BY <1>1
<1> QED
  BY <1>2, <1>3 DEF Ascending

(* Of two sequences A is in the list out, and R is still to come.          *)
Merged(out, A, R) ==
  /\ out \in Seq(Elements)
  /\ Ascending(out)
  /\ ToSet(out) = A
  /\ \A a \in A, r \in R : a < r

(* The smallest of what is left goes behind what is merged.                *)
LEMMA AppendSmallest ==
  ASSUME NEW out, NEW A, NEW R, Merged(out, A, R), NEW x \in Elements, x \in R,
         \A r \in R : r # x => x < r
  PROVE  /\ Merged(Append(out, x), A \cup {x}, R \ {x})
         /\ Len(Append(out, x)) = Len(out) + 1
<1> DEFINE t == Append(out, x)
<1>1. /\ out \in Seq(Elements) /\ Len(out) \in Nat /\ Ascending(out) /\ ToSet(out) = A
      /\ \A a \in A, r \in R : a < r
      /\ \A i \in 1..Len(out) : out[i] \in A
  BY LenProperties DEF Merged, ToSet
<1>2. /\ t \in Seq(Elements) /\ Len(t) = Len(out) + 1
      /\ \A i \in 1..Len(out) : t[i] = out[i]
      /\ t[Len(out) + 1] = x
      /\ DOMAIN t = 1..Len(out) + 1 /\ DOMAIN out = 1..Len(out)
  BY <1>1, AppendProperties, LenProperties
<1> HIDE DEF t
<1>3. Ascending(t)
  <2> SUFFICES ASSUME NEW i \in 1..Len(out) + 1, NEW j \in 1..Len(out) + 1, i < j
               PROVE  t[i] < t[j]
    BY <1>2 DEF Ascending
  <2>1. i \in 1..Len(out)
    BY <1>1
  <2>2. CASE j \in 1..Len(out)
    BY <1>1, <1>2, <2>1, <2>2 DEF Ascending
  <2>3. CASE j = Len(out) + 1
    BY <1>1, <1>2, <2>1, <2>3
  <2> QED
    BY <1>1, <2>2, <2>3
<1>4. ToSet(t) = A \cup {x}
  <2>1. ASSUME NEW i \in 1..Len(out) + 1
        PROVE  t[i] \in A \cup {x}
    BY <1>1, <1>2
  <2>2. x \in ToSet(t)
    BY <1>1, <1>2 DEF ToSet
  <2>3. ASSUME NEW a \in A
        PROVE  a \in ToSet(t)
    <3>1. PICK i \in 1..Len(out) : out[i] = a
      BY <1>1, <1>2 DEF ToSet
    <3> QED
      BY <1>1, <1>2, <3>1 DEF ToSet
  <2> QED
    BY <1>2, <2>1, <2>2, <2>3 DEF ToSet
<1>5. \A a \in A \cup {x}, r \in R \ {x} : a < r
  BY <1>1
<1> QED
  BY <1>2, <1>3, <1>4, <1>5 DEF Merged, t

(* The first i elements of a sequence, and the others.                     *)
FirstOf(p, i) == {p[a] : a \in 1..i}
RestOf(p, i) == {p[a] : a \in i+1..Len(p)}

(* The next of an ascending sequence is the smallest of its rest.          *)
LEMMA NextOfBack ==
  ASSUME NEW p \in Seq(Elements), Ascending(p), NEW i \in 0..Len(p), i < Len(p)
  PROVE  /\ p[i + 1] \in Elements /\ p[i + 1] \in RestOf(p, i)
         /\ FirstOf(p, i + 1) = FirstOf(p, i) \cup {p[i + 1]}
         /\ RestOf(p, i + 1) = RestOf(p, i) \ {p[i + 1]}
         /\ \A r \in RestOf(p, i) : r # p[i + 1] => p[i + 1] < r
<1>1. Len(p) \in Nat /\ i \in Nat /\ i + 1 \in 1..Len(p)
  BY LenProperties
<1>2. p[i + 1] \in Elements /\ p[i + 1] \in RestOf(p, i)
  BY <1>1, LenProperties DEF RestOf
<1>3. 1..i + 1 = 1..i \cup {i + 1}
  BY <1>1
<1>4. FirstOf(p, i + 1) = FirstOf(p, i) \cup {p[i + 1]}
  BY <1>3 DEF FirstOf
<1>5. \A r \in RestOf(p, i) : r # p[i + 1] => p[i + 1] < r
  <2> SUFFICES ASSUME NEW a \in i+1..Len(p), p[a] # p[i + 1]
               PROVE  p[i + 1] < p[a]
    BY DEF RestOf
  <2>1. a \in 1..Len(p) /\ i + 1 < a
    BY <1>1
  <2> QED
    BY <1>1, <2>1 DEF Ascending
<1>6. RestOf(p, i + 1) = RestOf(p, i) \ {p[i + 1]}
  <2>1. ASSUME NEW a \in (i+1)+1..Len(p)
        PROVE  a \in i+1..Len(p) /\ p[a] # p[i + 1]
    <3>1. a \in 1..Len(p) /\ a # i + 1
      BY <1>1
    <3> QED
      BY <1>1, <3>1, AscendingIsDistinct DEF Distinct
  <2>2. ASSUME NEW a \in i+1..Len(p), p[a] # p[i + 1]
        PROVE  a \in (i+1)+1..Len(p)
    <3>1. a # i + 1
      BY <2>2
    <3> QED
      BY <1>1, <3>1
  <2> QED
    BY <2>1, <2>2 DEF RestOf
<1> QED
  BY <1>2, <1>4, <1>5, <1>6

(* A merge of p and q after n steps.                                       *)
MergedTo(p, q, st, n) ==
  /\ st.i \in 0..Len(p) /\ st.j \in 0..Len(q) /\ st.i + st.j = n
  /\ Len(st.out) = n
  /\ Merged(st.out, FirstOf(p, st.i) \cup FirstOf(q, st.j), RestOf(p, st.i) \cup RestOf(q, st.j))

(* One step of the merge.                                                  *)
LEMMA TakenKeeps ==
  ASSUME NEW p \in Seq(Elements), NEW q \in Seq(Elements), Ascending(p), Ascending(q),
         ToSet(p) \cap ToSet(q) = {},
         NEW st, NEW n \in Nat, n < Len(p) + Len(q), MergedTo(p, q, st, n)
  PROVE  MergedTo(p, q, Taken(p, q, st), n + 1)
<1> DEFINE i == st.i
           j == st.j
           x == p[i + 1]
           y == q[j + 1]
           A == FirstOf(p, i) \cup FirstOf(q, j)
           R == RestOf(p, i) \cup RestOf(q, j)
<1>1. /\ i \in 0..Len(p) /\ j \in 0..Len(q) /\ i + j = n /\ Len(st.out) = n
      /\ Merged(st.out, A, R) /\ Len(p) \in Nat /\ Len(q) \in Nat
  BY LenProperties DEF MergedTo
<1>2. /\ \A a \in 0..Len(p) : RestOf(p, a) \subseteq ToSet(p) /\ FirstOf(p, a) \subseteq ToSet(p)
      /\ \A a \in 0..Len(q) : RestOf(q, a) \subseteq ToSet(q) /\ FirstOf(q, a) \subseteq ToSet(q)
  BY <1>1, LenProperties DEF RestOf, FirstOf, ToSet
<1>5. ToSet(p) \subseteq Nat /\ ToSet(q) \subseteq Nat
  <2>1. ToSet(p) \subseteq Elements /\ ToSet(q) \subseteq Elements
    BY LenProperties DEF ToSet
  <2> QED
    BY <2>1, ElementsAreNat
<1>6. /\ RestOf(p, i) \subseteq ToSet(p) /\ FirstOf(p, i) \subseteq ToSet(p)
      /\ RestOf(q, j) \subseteq ToSet(q) /\ FirstOf(q, j) \subseteq ToSet(q)
  BY <1>1, <1>2
<1>3. CASE j = Len(q) \/ (i < Len(p) /\ x <= y)
  <2>1. i < Len(p)
    BY <1>1, <1>3
  <2>2. Taken(p, q, st) = [i |-> i + 1, j |-> j, out |-> Append(st.out, x)]
    BY <1>3 DEF Taken
  <2>3. /\ x \in Elements /\ x \in RestOf(p, i)
        /\ FirstOf(p, i + 1) = FirstOf(p, i) \cup {x}
        /\ RestOf(p, i + 1) = RestOf(p, i) \ {x}
        /\ \A r \in RestOf(p, i) : r # x => x < r
    BY <1>1, <2>1, NextOfBack
  <2>4. \A r \in RestOf(q, j) : x < r
    <3>1. CASE j = Len(q)
      BY <1>1, <3>1 DEF RestOf
    <3>2. CASE j # Len(q)
      <4>1. j < Len(q) /\ x <= y
        BY <1>1, <1>3, <3>2
      <4>2. /\ y \in Elements /\ y \in RestOf(q, j)
            /\ \A r \in RestOf(q, j) : r # y => y < r
        BY <1>1, <4>1, NextOfBack
      <4> HIDE DEF x, y, i, j
      <4>3. x # y /\ x \in Nat /\ y \in Nat
        BY <1>5, <1>6, <2>3, <4>2
      <4>4. RestOf(q, j) \subseteq Nat
        BY <1>5, <1>6
      <4> HIDE DEF x, y, i, j
      <4> QED
        BY <4>1, <4>2, <4>3, <4>4
    <3> QED
      BY <3>1, <3>2
  <2>5. x \notin RestOf(q, j)
    BY <1>1, <1>2, <2>3
  <2> HIDE DEF x, i, j
  <2>6. x \in R /\ \A r \in R : r # x => x < r
    BY <2>3, <2>4
  <2>7. A \cup {x} = FirstOf(p, i + 1) \cup FirstOf(q, j) /\ R \ {x} = RestOf(p, i + 1) \cup RestOf(q, j)
    BY <2>3, <2>5
  <2> HIDE DEF A, R
  <2>8. /\ Merged(Append(st.out, x), A \cup {x}, R \ {x})
        /\ Len(Append(st.out, x)) = Len(st.out) + 1
    BY <1>1, <2>3, <2>6, AppendSmallest
  <2>9. i + 1 \in 0..Len(p) /\ (i + 1) + j = n + 1
    BY <1>1, <2>1
  <2> QED
    <3> DEFINE st2 == Taken(p, q, st)
    <3>1. st2.i = i + 1 /\ st2.j = j /\ st2.out = Append(st.out, x)
      BY <2>2
    <3> HIDE DEF st2
    <3>2. st2.i \in 0..Len(p) /\ st2.j \in 0..Len(q) /\ st2.i + st2.j = n + 1 /\ Len(st2.out) = n + 1
      BY <1>1, <2>8, <2>9, <3>1
    <3>3. Merged(st2.out, FirstOf(p, st2.i) \cup FirstOf(q, st2.j), RestOf(p, st2.i) \cup RestOf(q, st2.j))
      BY <2>7, <2>8, <3>1
    <3> QED
      BY <3>2, <3>3 DEF MergedTo, st2
<1>4. CASE ~(j = Len(q) \/ (i < Len(p) /\ x <= y))
  <2>1. j < Len(q)
    BY <1>1, <1>4
  <2>2. Taken(p, q, st) = [i |-> i, j |-> j + 1, out |-> Append(st.out, y)]
    BY <1>4 DEF Taken
  <2>3. /\ y \in Elements /\ y \in RestOf(q, j)
        /\ FirstOf(q, j + 1) = FirstOf(q, j) \cup {y}
        /\ RestOf(q, j + 1) = RestOf(q, j) \ {y}
        /\ \A r \in RestOf(q, j) : r # y => y < r
    BY <1>1, <2>1, NextOfBack
  <2>4. \A r \in RestOf(p, i) : y < r
    <3>1. CASE i = Len(p)
      BY <1>1, <3>1 DEF RestOf
    <3>2. CASE i # Len(p)
      <4>1. i < Len(p) /\ ~(x <= y)
        BY <1>1, <1>4, <3>2
      <4>2. /\ x \in Elements /\ x \in RestOf(p, i)
            /\ \A r \in RestOf(p, i) : r # x => x < r
        BY <1>1, <4>1, NextOfBack
      <4> HIDE DEF x, y, i, j
      <4>3. x \in Nat /\ y \in Nat
        BY <1>5, <1>6, <2>3, <4>2
      <4>4. RestOf(p, i) \subseteq Nat
        BY <1>5, <1>6
      <4> HIDE DEF x, y, i, j
      <4> QED
        BY <4>1, <4>2, <4>3, <4>4
    <3> QED
      BY <3>1, <3>2
  <2>5. y \notin RestOf(p, i)
    BY <1>1, <1>2, <2>3
  <2> HIDE DEF y, i, j
  <2>6. y \in R /\ \A r \in R : r # y => y < r
    BY <2>3, <2>4
  <2>7. A \cup {y} = FirstOf(p, i) \cup FirstOf(q, j + 1) /\ R \ {y} = RestOf(p, i) \cup RestOf(q, j + 1)
    BY <2>3, <2>5
  <2> HIDE DEF A, R
  <2>8. /\ Merged(Append(st.out, y), A \cup {y}, R \ {y})
        /\ Len(Append(st.out, y)) = Len(st.out) + 1
    BY <1>1, <2>3, <2>6, AppendSmallest
  <2>9. j + 1 \in 0..Len(q) /\ i + (j + 1) = n + 1
    BY <1>1, <2>1
  <2> QED
    <3> DEFINE st2 == Taken(p, q, st)
    <3>1. st2.i = i /\ st2.j = j + 1 /\ st2.out = Append(st.out, y)
      BY <2>2
    <3> HIDE DEF st2
    <3>2. st2.i \in 0..Len(p) /\ st2.j \in 0..Len(q) /\ st2.i + st2.j = n + 1 /\ Len(st2.out) = n + 1
      BY <1>1, <2>8, <2>9, <3>1
    <3>3. Merged(st2.out, FirstOf(p, st2.i) \cup FirstOf(q, st2.j), RestOf(p, st2.i) \cup RestOf(q, st2.j))
      BY <2>7, <2>8, <3>1
    <3> QED
      BY <3>2, <3>3 DEF MergedTo, st2
<1> QED
  BY <1>3, <1>4

(* Two runs in order are merged into one.                                  *)
LEMMA MergeIs ==
  ASSUME NEW p \in Seq(Elements), NEW q \in Seq(Elements), Ascending(p), Ascending(q),
         ToSet(p) \cap ToSet(q) = {},
         NEW m, m = Merge(p, q)
  PROVE  /\ m \in Seq(Elements)
         /\ Len(m) = Len(p) + Len(q)
         /\ Ascending(m)
         /\ ToSet(m) = ToSet(p) \cup ToSet(q)
<1> DEFINE C == Len(p) + Len(q)
           at == MergeSteps(p, q)
           P == {n \in Nat : n <= C => MergedTo(p, q, at[n], n)}
<1>0. Len(p) \in Nat /\ Len(q) \in Nat /\ DOMAIN p = 1..Len(p) /\ DOMAIN q = 1..Len(q)
  BY LenProperties
<1>1. /\ at[0] = [i |-> 0, j |-> 0, out |-> <<>>]
      /\ \A n \in 1..C : at[n] = Taken(p, q, at[n - 1])
  BY <1>0, MergeStepsAre
<1>2. C \in Nat
  BY <1>0
<1> HIDE DEF at
<1>3. 0 \in P
  <2>1. at[0].i = 0 /\ at[0].j = 0 /\ at[0].out = <<>>
    BY <1>1
  <2>2. FirstOf(p, 0) = {} /\ FirstOf(q, 0) = {}
    BY DEF FirstOf
  <2>3. Merged(<<>>, {}, RestOf(p, 0) \cup RestOf(q, 0))
    BY DEF Merged, Ascending, ToSet
  <2>4. /\ at[0].i \in 0..Len(p) /\ at[0].j \in 0..Len(q) /\ at[0].i + at[0].j = 0
        /\ Len(at[0].out) = 0
    BY <1>0, <2>1
  <2>5. FirstOf(p, 0) \cup FirstOf(q, 0) = {}
    BY <2>2
  <2>6. MergedTo(p, q, at[0], 0)
    BY <2>1, <2>3, <2>4, <2>5 DEF MergedTo
  <2> QED
    BY <2>6
<1>4. ASSUME NEW n \in P
      PROVE  n + 1 \in P
  <2> SUFFICES ASSUME n + 1 <= C
               PROVE  MergedTo(p, q, at[n + 1], n + 1)
    OBVIOUS
  <2>1. n \in Nat /\ n <= C /\ n < C /\ n + 1 \in 1..C /\ (n + 1) - 1 = n
    BY <1>2
  <2>2. at[n + 1] = Taken(p, q, at[n])
    BY <1>1, <2>1
  <2>3. MergedTo(p, q, at[n], n)
    BY <2>1
  <2> QED
    BY <2>1, <2>2, <2>3, TakenKeeps
<1>5. P = Nat
  <2> HIDE DEF P
  <2>1. P \subseteq Nat
    BY DEF P
  <2> QED
    BY <1>3, <1>4, <2>1, NaturalsByInduction
<1>6. MergedTo(p, q, at[C], C)
  <2>1. C \in P /\ C <= C
    BY <1>2, <1>5
  <2> QED
    BY <2>1
<1>7. at[C].i = Len(p) /\ at[C].j = Len(q)
  <2>1. at[C].i \in 0..Len(p) /\ at[C].j \in 0..Len(q) /\ at[C].i + at[C].j = C
    BY <1>6 DEF MergedTo
  <2> QED
    BY <1>0, <2>1
<1>8. FirstOf(p, Len(p)) = ToSet(p) /\ FirstOf(q, Len(q)) = ToSet(q)
  BY <1>0 DEF FirstOf, ToSet
<1>9. m = at[C].out
  BY DEF Merge, at
<1> QED
  BY <1>6, <1>7, <1>8, <1>9 DEF MergedTo, Merged

(* Where the run of d places begins that n lies in.                        *)
BlockOf(n, d) == d * ((n - 1) \div d)
(* The multiples of d.                                                     *)
Blocks(d) == {d * k : k \in Nat}

(* Multiples of d are at least d apart.                                    *)
LEMMA TimesMonotone ==
  ASSUME NEW d \in Nat, NEW a \in Nat, NEW b \in Nat, a < b
  PROVE  d * a \in Nat /\ d * b \in Nat /\ d * a + d <= d * b
<1> DEFINE c == b - a - 1
<1>1. c \in Nat /\ b = a + 1 + c
  OBVIOUS
<1> HIDE DEF c
<1>2. d * b = d * a + d + d * c /\ d * c \in Nat /\ d * a \in Nat
  BY <1>1
<1> QED
  BY <1>2

(* The block of d places that n lies in.                                   *)
LEMMA BlockStart ==
  ASSUME NEW n \in Nat \ {0}, NEW d \in Nat \ {0}
  PROVE  /\ BlockOf(n, d) \in Nat /\ BlockOf(n, d) \in Blocks(d)
         /\ BlockOf(n, d) < n /\ n <= BlockOf(n, d) + d
         /\ \A c \in Blocks(d) : c < n /\ n <= c + d => BlockOf(n, d) = c
<1> DEFINE q == (n - 1) \div d
<1>1. n - 1 \in Nat /\ q \in Nat
  BY DivBound
<1>2. n - 1 < (q + 1) * d
  BY <1>1, DivBound
<1>3. d * q <= n - 1
  BY <1>1
<1>4. (q + 1) * d = d * q + d /\ d * q \in Nat
  BY <1>1
<1> HIDE DEF q
<1>5. BlockOf(n, d) = d * q
  BY DEF BlockOf, q
<1>6. d * q \in Blocks(d)
  BY <1>1 DEF Blocks
<1>7. d * q < n /\ n <= d * q + d
  BY <1>2, <1>3, <1>4
<1>8. ASSUME NEW k \in Nat, d * k < n, n <= d * k + d
      PROVE  k = q
  <2>1. d * k \in Nat
    OBVIOUS
  <2>2. CASE k < q
    <3>1. d * k + d <= d * q
      BY <1>1, <2>2, TimesMonotone
    <3> QED
      BY <1>4, <1>7, <1>8, <2>1, <3>1
  <2>3. CASE q < k
    <3>1. d * q + d <= d * k
      BY <1>1, <2>3, TimesMonotone
    <3> QED
      BY <1>4, <1>7, <1>8, <2>1, <3>1
  <2> QED
    BY <1>1, <2>2, <2>3
<1>9. \A c \in Blocks(d) : c < n /\ n <= c + d => d * q = c
  BY <1>8 DEF Blocks
<1> QED
  BY <1>4, <1>5, <1>6, <1>7, <1>9

(* A block of 2w places is two blocks of w places.                         *)
LEMMA HalfBlocks ==
  ASSUME NEW w \in Nat \ {0}, NEW c \in Blocks(2 * w)
  PROVE  c \in Nat /\ c \in Blocks(w) /\ c + w \in Blocks(w)
<1>1. PICK k \in Nat : c = (2 * w) * k
  BY DEF Blocks
<1>2. 2 * k \in Nat /\ 2 * k + 1 \in Nat /\ c = w * (2 * k) /\ c + w = w * (2 * k + 1)
  BY <1>1
<1>3. c \in Nat
  BY <1>1
<1>4. c \in Blocks(w)
  BY <1>2 DEF Blocks
<1>5. c + w \in Blocks(w)
  BY <1>2 DEF Blocks
<1> QED
  BY <1>3, <1>4, <1>5

(* Each run of w places is in order.                                       *)
SortedRuns(list, w) ==
  \A c \in Blocks(w) : \A i, j \in 1..Len(list) :
    c < i /\ i < j /\ j <= c + w => list[i] < list[j]

(* The places of a run.                                                    *)
Places(list, s, w) == {i \in 1..Len(list) : s < i /\ i <= s + w}

(* r is the run of at most w elements behind the s-th.                     *)
IsRun(list, s, w, r) ==
  /\ r \in Seq(Elements)
  /\ Len(r) = IF s >= Len(list) THEN 0 ELSE IF s + w < Len(list) THEN w ELSE Len(list) - s
  /\ \A i \in 1..Len(r) : s + i \in Places(list, s, w) /\ r[i] = list[s + i]
  /\ \A i \in Places(list, s, w) : i - s \in 1..Len(r) /\ r[i - s] = list[i]

(* What Run returns.                                                       *)
LEMMA RunIs ==
  ASSUME NEW list \in Seq(Elements), NEW s \in Nat, NEW w \in Nat \ {0},
         NEW r, r = Run(list, s, w)
  PROVE  IsRun(list, s, w, r)
<1> DEFINE L == Len(list)
           hi == IF s + w < L THEN s + w ELSE L
           n == IF s >= L THEN 0 ELSE hi - s
<1>1. L \in Nat /\ \A i \in 1..L : list[i] \in Elements
  BY LenProperties
<1>2. hi \in Nat /\ hi <= L /\ n \in Nat /\ 1..hi - s = 1..n
  BY <1>1
<1>3. \A i \in 1..n : s + i \in 1..L /\ s + i <= s + w
  BY <1>1
<1>4. r = SubSeq(list, s + 1, hi)
  BY DEF Run
<1>5. \A i \in s + 1..hi : list[i] \in Elements
  BY <1>1, <1>2
<1>6. s + 1 \in Int /\ hi \in Int
  BY <1>2
<1>7. /\ n = IF s + 1 <= hi THEN hi - (s + 1) + 1 ELSE 0
      /\ 1..hi - (s + 1) + 1 = 1..n /\ \A i \in 1..n : (s + 1) + i - 1 = s + i
  BY <1>1
<1> HIDE DEF hi, n
<1>8. /\ r \in Seq(Elements) /\ Len(r) = n
      /\ \A i \in 1..n : r[i] = list[s + i]
  BY <1>4, <1>5, <1>6, <1>7, SubSeqProperties
<1>9. n = IF s >= L THEN 0 ELSE IF s + w < L THEN w ELSE L - s
  BY <1>1 DEF n, hi
<1>10. ASSUME NEW i \in 1..n
       PROVE  s + i \in Places(list, s, w) /\ r[i] = list[s + i]
  <2>1. s + i \in 1..L /\ s + i <= s + w /\ s < s + i
    BY <1>2, <1>3
  <2> QED
    BY <1>8, <2>1 DEF Places
<1>11. ASSUME NEW i \in Places(list, s, w)
       PROVE  i - s \in 1..n /\ r[i - s] = list[i]
  <2>1. i \in 1..L /\ s < i /\ i <= s + w
    BY DEF Places
  <2>2. i - s \in 1..n /\ s + (i - s) = i
    BY <1>1, <1>9, <2>1
  <2> QED
    BY <1>8, <2>2
<1> QED
  BY <1>8, <1>9, <1>10, <1>11 DEF IsRun

(* A run of a list whose runs are sorted is sorted.                        *)
LEMMA RunInOrder ==
  ASSUME NEW list \in Seq(Elements), NEW w \in Nat \ {0}, SortedRuns(list, w),
         NEW s \in Blocks(w), s \in Nat,
         NEW r, r = Run(list, s, w)
  PROVE  /\ Ascending(r)
         /\ ToSet(r) = {list[i] : i \in Places(list, s, w)}
<1>1. /\ r \in Seq(Elements) /\ Len(r) \in Nat /\ DOMAIN r = 1..Len(r)
      /\ \A i \in 1..Len(r) : s + i \in Places(list, s, w) /\ r[i] = list[s + i]
      /\ \A i \in Places(list, s, w) : i - s \in 1..Len(r) /\ r[i - s] = list[i]
  <2>1. /\ r \in Seq(Elements)
        /\ \A i \in 1..Len(r) : s + i \in Places(list, s, w) /\ r[i] = list[s + i]
        /\ \A i \in Places(list, s, w) : i - s \in 1..Len(r) /\ r[i - s] = list[i]
    <3>1. IsRun(list, s, w, r)
      BY RunIs
    <3> QED
      BY <3>1 DEF IsRun
  <2> QED
    BY <2>1, LenProperties
<1>2. Ascending(r)
  <2> SUFFICES ASSUME NEW i \in 1..Len(r), NEW j \in 1..Len(r), i < j
               PROVE  r[i] < r[j]
    BY DEF Ascending
  <2>1. s + i \in 1..Len(list) /\ s + j \in 1..Len(list) /\ s + j <= s + w
    BY <1>1 DEF Places
  <2>2. s < s + i /\ s + i < s + j
    BY <1>1
  <2>3. list[s + i] < list[s + j]
    BY <2>1, <2>2 DEF SortedRuns
  <2> QED
    BY <1>1, <2>3
<1>3. ToSet(r) = {list[i] : i \in Places(list, s, w)}
  <2> DEFINE S == {list[i] : i \in Places(list, s, w)}
  <2>1. \A i \in 1..Len(r) : r[i] \in S
    BY <1>1
  <2>2. \A i \in Places(list, s, w) : list[i] \in ToSet(r)
    BY <1>1 DEF ToSet
  <2>3. S \subseteq ToSet(r)
    BY <2>2
  <2> HIDE DEF S
  <2>4. ToSet(r) \subseteq S
    BY <1>1, <2>1 DEF ToSet
  <2> QED
    BY <2>3, <2>4 DEF S
<1> QED
  BY <1>2, <1>3

(* Two neighbouring runs, merged.                                          *)
LEMMA MergedRuns ==
  ASSUME NEW list \in Seq(Elements), Distinct(list), NEW w \in Nat \ {0},
         SortedRuns(list, w),
         NEW c \in Blocks(2 * w), c < Len(list),
         NEW m, m = Merge(Run(list, c, w), Run(list, c + w, w))
  PROVE  /\ m \in Seq(Elements) /\ Ascending(m)
         /\ Len(m) = IF c + 2 * w < Len(list) THEN 2 * w ELSE Len(list) - c
         /\ ToSet(m) = {list[i] : i \in Places(list, c, 2 * w)}
<1> DEFINE p == Run(list, c, w)
           q == Run(list, c + w, w)
           P == Places(list, c, w)
           Q == Places(list, c + w, w)
<1>1. c \in Nat /\ c \in Blocks(w) /\ c + w \in Blocks(w) /\ c + w \in Nat /\ Len(list) \in Nat
  BY HalfBlocks, LenProperties
<1>2. /\ p \in Seq(Elements)
      /\ Len(p) = IF c >= Len(list) THEN 0 ELSE IF c + w < Len(list) THEN w ELSE Len(list) - c
  BY <1>1, RunIs DEF IsRun
<1>3. Ascending(p) /\ ToSet(p) = {list[i] : i \in P}
  BY <1>1, RunInOrder
<1>4. /\ q \in Seq(Elements)
      /\ Len(q) = IF c + w >= Len(list) THEN 0
                  ELSE IF (c + w) + w < Len(list) THEN w ELSE Len(list) - (c + w)
  <2> DEFINE s == c + w
  <2>1. s \in Nat
    BY <1>1
  <2> HIDE DEF s
  <2>2. /\ Run(list, s, w) \in Seq(Elements)
        /\ Len(Run(list, s, w)) = IF s >= Len(list) THEN 0
                  ELSE IF s + w < Len(list) THEN w ELSE Len(list) - s
    BY <2>1, RunIs DEF IsRun
  <2> QED
    BY <2>2 DEF s
<1>5. Ascending(q) /\ ToSet(q) = {list[i] : i \in Q}
  <2> DEFINE s == c + w
  <2>1. s \in Nat /\ s \in Blocks(w)
    BY <1>1
  <2> HIDE DEF s
  <2>2. /\ Ascending(Run(list, s, w))
        /\ ToSet(Run(list, s, w)) = {list[i] : i \in Places(list, s, w)}
    BY <2>1, RunInOrder
  <2> QED
    BY <2>2 DEF s
<1>6. P \cap Q = {} /\ P \cup Q = Places(list, c, 2 * w) /\ P \subseteq 1..Len(list) /\ Q \subseteq 1..Len(list)
  BY <1>1 DEF Places
<1> HIDE DEF p, q, P, Q
<1>7. ToSet(p) \cap ToSet(q) = {}
  <2> SUFFICES ASSUME NEW i \in P, NEW j \in Q, list[i] = list[j]
               PROVE  FALSE
    BY <1>3, <1>5
  <2> QED
    BY <1>6 DEF Distinct
<1>8. /\ m \in Seq(Elements) /\ Len(m) = Len(p) + Len(q) /\ Ascending(m)
      /\ ToSet(m) = ToSet(p) \cup ToSet(q)
  BY <1>2, <1>3, <1>4, <1>5, <1>7, MergeIs DEF p, q
<1>9. ToSet(m) = {list[i] : i \in Places(list, c, 2 * w)}
  BY <1>3, <1>5, <1>6, <1>8
<1>10. Len(m) = IF c + 2 * w < Len(list) THEN 2 * w ELSE Len(list) - c
  <2> DEFINE L == Len(list)
             lp == Len(p)
             lq == Len(q)
  <2>1. /\ lp = IF c >= L THEN 0 ELSE IF c + w < L THEN w ELSE L - c
        /\ lq = IF c + w >= L THEN 0 ELSE IF (c + w) + w < L THEN w ELSE L - (c + w)
        /\ Len(m) = lp + lq /\ L \in Nat /\ c \in Nat /\ c < L /\ w \in Nat \ {0}
    BY <1>1, <1>2, <1>4, <1>8
  <2> HIDE DEF L, lp, lq
  <2>2. lp + lq = IF c + 2 * w < L THEN 2 * w ELSE L - c
    BY ONLY <2>1
  <2> QED
    BY <2>1, <2>2 DEF L
<1> QED
  BY <1>8, <1>9, <1>10

(* One pass doubles the length of the sorted runs, and loses nothing.      *)
LEMMA PassIs ==
  ASSUME NEW list \in Seq(Elements), Distinct(list), NEW w \in Nat \ {0},
         SortedRuns(list, w),
         NEW m, m = Pass(list, w)
  PROVE  /\ m \in Seq(Elements) /\ Len(m) = Len(list)
         /\ Distinct(m) /\ ToSet(m) = ToSet(list)
         /\ SortedRuns(m, 2 * w)
<1> DEFINE L == Len(list)
           d == 2 * w
           B(c) == Merge(Run(list, c, w), Run(list, c + w, w))
<1>1. L \in Nat /\ d \in Nat \ {0} /\ DOMAIN list = 1..L
  BY LenProperties
<1>2. m = [n \in 1..L |-> B(BlockOf(n, d))[n - BlockOf(n, d)]]
  <2>1. m = [n \in DOMAIN list |->
               Merge(Run(list, BlockOf(n, d), w), Run(list, BlockOf(n, d) + w, w))[n - BlockOf(n, d)]]
    BY Zenon DEF Pass, BlockOf
  <2> QED
    BY <1>1, <2>1
<1>3. ASSUME NEW c \in Blocks(d), c < L
      PROVE  /\ c \in Nat
             /\ B(c) \in Seq(Elements) /\ Ascending(B(c))
             /\ Len(B(c)) = IF c + d < L THEN d ELSE L - c
             /\ ToSet(B(c)) = {list[i] : i \in Places(list, c, d)}
  BY <1>3, MergedRuns, HalfBlocks
<1> HIDE DEF B
<1>4. ASSUME NEW n \in 1..L
      PROVE  LET c == BlockOf(n, d)
             IN /\ c \in Blocks(d) /\ c < L /\ c < n /\ n <= c + d
                /\ n - c \in 1..Len(B(c)) /\ c \in Nat
                /\ m[n] = B(c)[n - c]
  <2> DEFINE c == BlockOf(n, d)
  <2>1. n \in Nat \ {0}
    BY <1>1
  <2> HIDE DEF d
  <2>2. c \in Nat /\ c \in Blocks(d) /\ c < n /\ n <= c + d /\ d \in Nat
    BY <1>1, <2>1, BlockStart
  <2>3. m[n] = B(c)[n - c]
    BY <1>2
  <2> HIDE DEF c
  <2>4. c < L
    BY <1>1, <2>2
  <2>5. Len(B(c)) = IF c + d < L THEN d ELSE L - c
    BY <1>3, <2>2, <2>4
  <2>6. n - c \in 1..Len(B(c))
    <3> DEFINE l == Len(B(c))
    <3> HIDE DEF l, L
    <3>0. n \in Nat /\ L \in Nat /\ n <= L
      BY <1>1, <2>1
    <3>1. /\ n \in Nat /\ c \in Nat /\ d \in Nat /\ L \in Nat /\ n <= L
          /\ c < n /\ n <= c + d /\ l = IF c + d < L THEN d ELSE L - c
      BY <2>2, <2>5, <3>0 DEF l
    <3>2. n - c \in 1..l
      BY ONLY <3>1
    <3> QED
      BY <3>2 DEF l
  <2> QED
    BY <2>2, <2>3, <2>4, <2>6 DEF c
<1> HIDE DEF d
<1>5. ASSUME NEW n \in 1..L
      PROVE  \E i \in Places(list, BlockOf(n, d), d) : m[n] = list[i]
  <2> DEFINE c == BlockOf(n, d)
  <2>1. c \in Blocks(d) /\ c < L /\ n - c \in 1..Len(B(c)) /\ m[n] = B(c)[n - c]
    BY <1>4
  <2> HIDE DEF c
  <2>2. B(c) \in Seq(Elements) /\ ToSet(B(c)) = {list[i] : i \in Places(list, c, d)}
    BY <1>3, <2>1
  <2>3. m[n] \in ToSet(B(c))
    BY <2>1, <2>2, LenProperties DEF ToSet
  <2> QED
    BY <2>2, <2>3 DEF c
<1>6. \A n \in 1..L : \A i \in Places(list, n, d) : i \in 1..L
  BY DEF Places
<1>7. ASSUME NEW n \in 1..L
      PROVE  m[n] \in Elements
  <2>1. PICK i \in Places(list, BlockOf(n, d), d) : m[n] = list[i]
    BY <1>5
  <2>2. i \in 1..L
    BY DEF Places
  <2> QED
    BY <2>1, <2>2, LenProperties
<1>8. m \in Seq(Elements) /\ Len(m) = L
  <2>1. m \in [1..L -> Elements]
    BY <1>2, <1>7
  <2> QED
    BY <1>1, <2>1, FunctionIsSeq
<1>9. ASSUME NEW i \in 1..L, NEW j \in 1..L, i < j, BlockOf(i, d) = BlockOf(j, d)
      PROVE  m[i] < m[j]
  <2> DEFINE c == BlockOf(i, d)
  <2>1. /\ c \in Blocks(d) /\ c < L /\ c \in Nat
        /\ i - c \in 1..Len(B(c)) /\ m[i] = B(c)[i - c]
    BY <1>4
  <2>2. j - c \in 1..Len(B(c)) /\ m[j] = B(c)[j - c]
    BY <1>4, <1>9
  <2> HIDE DEF c
  <2>3. Ascending(B(c))
    BY <1>3, <2>1
  <2>4. i - c < j - c
    <3>1. i \in Nat /\ j \in Nat /\ c \in Nat /\ i < j
      BY <1>1, <1>9, <2>1
    <3> QED
      BY ONLY <3>1
  <2> QED
    BY <2>1, <2>2, <2>3, <2>4 DEF Ascending
<1>10. Distinct(m)
  <2> SUFFICES ASSUME NEW i \in 1..L, NEW j \in 1..L, m[i] = m[j], i < j
               PROVE  FALSE
    <3>1. \A i, j \in 1..L : i # j => i < j \/ j < i
      BY <1>1
    <3> QED
      BY <1>8, <3>1 DEF Distinct
  <2>1. PICK a \in Places(list, BlockOf(i, d), d) : m[i] = list[a]
    BY <1>5
  <2>2. PICK b \in Places(list, BlockOf(j, d), d) : m[j] = list[b]
    BY <1>5
  <2>3. a \in 1..L /\ b \in 1..L
    BY DEF Places
  <2>4. a = b
    BY <2>1, <2>2, <2>3 DEF Distinct
  <2>5. /\ BlockOf(i, d) \in Blocks(d) /\ BlockOf(i, d) < a /\ a <= BlockOf(i, d) + d
        /\ BlockOf(j, d) \in Blocks(d) /\ BlockOf(j, d) < a /\ a <= BlockOf(j, d) + d
    BY <1>4, <2>4 DEF Places
  <2>6. a \in Nat \ {0}
    BY <1>1, <2>3
  <2>7. BlockOf(i, d) = BlockOf(j, d)
    BY <1>1, <2>5, <2>6, BlockStart
  <2>8. m[i] < m[j] /\ m[i] \in Nat
    BY <1>7, <1>9, <2>7, ElementsAreNat
  <2> QED
    BY <2>8
<1>11. ToSet(m) = ToSet(list)
  <2>1. \A n \in 1..L : m[n] \in ToSet(list)
    BY <1>1, <1>5 DEF Places, ToSet
  <2>2. ASSUME NEW i \in 1..L
        PROVE  list[i] \in ToSet(m)
    <3> DEFINE c == BlockOf(i, d)
    <3>1. c \in Blocks(d) /\ c < L /\ c < i /\ i <= c + d /\ c \in Nat
      BY <1>4
    <3> HIDE DEF c
    <3>2. /\ B(c) \in Seq(Elements) /\ Len(B(c)) = IF c + d < L THEN d ELSE L - c
          /\ ToSet(B(c)) = {list[j] : j \in Places(list, c, d)}
      BY <1>3, <3>1
    <3>3. i \in Places(list, c, d)
      BY <3>1 DEF Places
    <3>4. list[i] \in ToSet(B(c))
      BY <3>2, <3>3
    <3>5. PICK k \in 1..Len(B(c)) : B(c)[k] = list[i]
      BY <3>2, <3>4, LenProperties DEF ToSet
    <3>6. c + k \in 1..L /\ c < c + k /\ c + k <= c + d /\ (c + k) - c = k
      <4> DEFINE l == Len(B(c))
      <4>1. /\ k \in 1..l /\ c \in Nat /\ d \in Nat /\ L \in Nat /\ c < L
            /\ l = IF c + d < L THEN d ELSE L - c
        BY <1>1, <3>1, <3>2
      <4> HIDE DEF l, L
      <4> QED
        BY <4>1
    <3>7. c + k \in Nat \ {0}
      BY <1>1, <3>6
    <3>8. BlockOf(c + k, d) = c
      BY <1>1, <3>1, <3>6, <3>7, BlockStart
    <3>9. m[c + k] = B(c)[k]
      BY <1>4, <3>6, <3>8
    <3> QED
      BY <1>8, <3>5, <3>6, <3>9, LenProperties DEF ToSet
  <2>3. DOMAIN m = 1..L
    BY <1>8, LenProperties
  <2>4. ToSet(m) \subseteq ToSet(list)
    BY <2>1, <2>3 DEF ToSet
  <2>5. ToSet(list) \subseteq ToSet(m)
    BY <1>1, <2>2 DEF ToSet
  <2> QED
    BY <2>4, <2>5
<1>12. SortedRuns(m, d)
  <2> SUFFICES ASSUME NEW c \in Blocks(d), NEW i \in 1..L, NEW j \in 1..L,
                      c < i, i < j, j <= c + d
               PROVE  m[i] < m[j]
    BY <1>8 DEF SortedRuns
  <2>1. c \in Int
    BY <1>1 DEF Blocks
  <2>2. i \in Nat \ {0} /\ j \in Nat \ {0} /\ i <= c + d /\ c < j
    BY <1>1, <2>1
  <2>3. BlockOf(i, d) = c /\ BlockOf(j, d) = c
    BY <1>1, <2>2, BlockStart
  <2> QED
    BY <1>9, <2>3
<1> QED
  BY <1>8, <1>10, <1>11, <1>12 DEF d

(* After n passes.                                                         *)
PassedTo(st, list, n) ==
  /\ st.list \in Seq(Elements) /\ Len(st.list) = Len(list)
  /\ Distinct(st.list) /\ ToSet(st.list) = ToSet(list)
  /\ st.insize \in Nat \ {0}
  /\ SortedRuns(st.list, st.insize)
  /\ st.looping => n + 1 <= st.insize
  /\ ~st.looping => Len(list) <= st.insize

(* One pass more, unless there was one merge only.                         *)
LEMMA AgainKeeps ==
  ASSUME NEW st, NEW list, Len(list) \in Nat, NEW n \in Nat, PassedTo(st, list, n)
  PROVE  PassedTo(Again(st), list, n + 1)
<1>1. CASE ~st.looping
  <2>1. Again(st) = st
    BY <1>1 DEF Again
  <2> QED
    BY <1>1, <2>1 DEF PassedTo
<1>2. CASE st.looping
  <2> DEFINE m == Pass(st.list, st.insize)
             st2 == Again(st)
             w == 2 * st.insize
  <2>1. st2 = [list |-> m, insize |-> w, looping |-> w < Len(st.list)]
    BY <1>2 DEF Again
  <2>2. /\ m \in Seq(Elements) /\ Len(m) = Len(st.list)
        /\ Distinct(m) /\ ToSet(m) = ToSet(st.list)
        /\ SortedRuns(m, w)
    BY PassIs DEF PassedTo
  <2>3. st2.list = m /\ st2.insize = w /\ st2.looping = (w < Len(st.list))
    BY <2>1
  <2>4. st.insize \in Nat \ {0} /\ n + 1 <= st.insize /\ Len(st.list) = Len(list) /\ ToSet(st.list) = ToSet(list)
    BY <1>2 DEF PassedTo
  <2>5. w \in Nat \ {0} /\ (n + 1) + 1 <= w
    BY <2>4
  <2> HIDE DEF m, st2, w
  <2>6. ~st2.looping => Len(list) <= w
    <3> SUFFICES ASSUME ~st2.looping
                 PROVE  Len(list) <= w
      OBVIOUS
    <3>1. ~(w < Len(list))
      BY <2>3, <2>4
    <3> QED
      BY <2>5, <3>1
  <2>7. PassedTo(st2, list, n + 1)
    BY <2>2, <2>3, <2>4, <2>5, <2>6 DEF PassedTo
  <2> QED
    BY <2>7 DEF st2
<1> QED
  BY <1>1, <1>2

(* HASH_SORT's merge sort sorts.                                           *)
LEMMA MergeSortIs ==
  ASSUME NEW list \in Seq(Elements), Distinct(list), NEW t, t = MergeSort(list)
  PROVE  /\ t \in Seq(Elements) /\ Len(t) = Len(list)
         /\ ToSet(t) = ToSet(list)
         /\ Ascending(t)
<1> DEFINE L == Len(list)
           at == Passes(list)
           P == {n \in Nat : n <= L => PassedTo(at[n], list, n)}
<1>1. L \in Nat
  BY LenProperties
<1>2. /\ at[0] = [list |-> list, insize |-> 1, looping |-> TRUE]
      /\ \A n \in 1..L : at[n] = Again(at[n - 1])
  BY <1>1, PassesAre
<1> HIDE DEF at
<1>3. 0 \in P
  <2>1. at[0].list = list /\ at[0].insize = 1 /\ at[0].looping = TRUE
    BY <1>2
  <2>2. SortedRuns(list, 1)
    <3>1. ASSUME NEW c \in Blocks(1), NEW i \in 1..L, NEW j \in 1..L, c < i, i < j, j <= c + 1
          PROVE  FALSE
      <4>1. c \in Int
        BY DEF Blocks
      <4> QED
        BY <1>1, <3>1, <4>1
    <3> QED
      BY <3>1 DEF SortedRuns
  <2>3. PassedTo(at[0], list, 0)
    BY <2>1, <2>2 DEF PassedTo
  <2> QED
    BY <2>3
<1>4. ASSUME NEW n \in P
      PROVE  n + 1 \in P
  <2> SUFFICES ASSUME n + 1 <= L
               PROVE  PassedTo(at[n + 1], list, n + 1)
    OBVIOUS
  <2>1. n \in Nat /\ n <= L /\ n + 1 \in 1..L /\ (n + 1) - 1 = n
    BY <1>1
  <2>2. at[n + 1] = Again(at[n])
    BY <1>2, <2>1
  <2>3. PassedTo(at[n], list, n)
    BY <2>1
  <2> QED
    BY <1>1, <2>1, <2>2, <2>3, AgainKeeps
<1>5. P = Nat
  <2> HIDE DEF P
  <2>1. P \subseteq Nat
    BY DEF P
  <2> QED
    BY <1>3, <1>4, <2>1, NaturalsByInduction
<1>6. PassedTo(at[L], list, L)
  <2>1. L \in P /\ L <= L
    BY <1>1, <1>5
  <2> QED
    BY <2>1
<1>7. t = at[L].list
  BY DEF MergeSort, at
<1> DEFINE w == at[L].insize
<1>8. /\ t \in Seq(Elements) /\ Len(t) = L /\ ToSet(t) = ToSet(list)
      /\ w \in Nat \ {0} /\ SortedRuns(t, w)
  BY <1>6, <1>7 DEF PassedTo
<1>9. L <= w
  BY <1>1, <1>6 DEF PassedTo
<1> HIDE DEF w
<1>10. 0 \in Blocks(w)
  <2>1. w * 0 = 0
    BY <1>8
  <2> QED
    BY <2>1 DEF Blocks
<1>11. \A i, j \in 1..L : i < j => 0 < i /\ j <= 0 + w
  BY <1>1, <1>8, <1>9
<1>12. Ascending(t)
  BY <1>8, <1>10, <1>11 DEF SortedRuns, Ascending
<1> QED
  BY <1>8, <1>12

(* The handles are linked along a sequence.                                *)
LEMMA LinkedAlongIs ==
  ASSUME NEW hh \in Handles, NEW t \in Seq(Elements), Distinct(t),
         NEW g, g = LinkedAlong(hh, t)
  PROVE  /\ g \in Handles
         /\ g.hh_prev = hh.hh_prev /\ g.hh_next = hh.hh_next /\ g.hashv = hh.hashv
         /\ IsList(t, Nth(t, 1), g.prev, g.next)
<1> DEFINE place == [e \in ToSet(t) |-> CHOOSE i \in DOMAIN t : t[i] = e]
           prev2 == [e \in Elements |->
                      IF e \in ToSet(t) THEN Nth(t, place[e] - 1) ELSE hh.prev[e]]
           next2 == [e \in Elements |->
                      IF e \in ToSet(t) THEN Nth(t, place[e] + 1) ELSE hh.next[e]]
<1>1. Len(t) \in Nat /\ DOMAIN t = 1..Len(t) /\ \A i \in 1..Len(t) : t[i] \in Elements /\ t[i] \in ToSet(t)
  BY LenProperties DEF ToSet
<1>2. g = [hh EXCEPT !.prev = prev2, !.next = next2]
  BY DEF LinkedAlong
<1>3. ASSUME NEW e \in ToSet(t)
      PROVE  place[e] \in 1..Len(t) /\ t[place[e]] = e
  <2>1. \E i \in DOMAIN t : t[i] = e
    BY DEF ToSet
  <2> QED
    BY <1>1, <2>1
<1>4. ASSUME NEW i \in 1..Len(t)
      PROVE  place[t[i]] = i
  BY <1>1, <1>3 DEF Distinct
<1> HIDE DEF place
<1>5. \A i \in Int : Nth(t, i) \in Pointers
  BY NthOf DEF Pointers
<1>6. hh.prev \in Links /\ hh.next \in Links
  BY DEF Handles
<1>7. \A e \in ToSet(t) : place[e] - 1 \in Int /\ place[e] + 1 \in Int
  BY <1>1, <1>3
<1>8. prev2 \in Links /\ next2 \in Links
  BY <1>5, <1>6, <1>7 DEF Links
<1>9. ASSUME NEW i \in 1..Len(t)
      PROVE  next2[t[i]] = Nth(t, i + 1) /\ prev2[t[i]] = Nth(t, i - 1)
  BY <1>1, <1>4
<1> HIDE DEF prev2, next2
<1>10. /\ g \in Handles /\ g.prev = prev2 /\ g.next = next2
       /\ g.hh_prev = hh.hh_prev /\ g.hh_next = hh.hh_next /\ g.hashv = hh.hashv
  BY <1>2, <1>8 DEF Handles
<1> QED
  BY <1>9, <1>10 DEF IsList

(* HASH_SORT leaves a table with the same elements, in order.              *)
LEMMA SortKeeps ==
  ASSUME NEW h, NEW s, TableIs(h, s), NEW g, g = Sort(h)
  PROVE  \E t : /\ TableIs(g, t) /\ Ascending(t)
                /\ ToSet(t) = ToSet(s)
                /\ g.hh.hashv = h.hh.hashv
<1>1. /\ AppOrder(h) = s /\ s \in Seq(Elements) /\ Distinct(s) /\ Len(s) \in Nat
      /\ (h.head = NULL <=> s = <<>>) /\ (s = <<>> <=> Len(s) = 0)
  BY TableWalk
<1>2. CASE s = <<>>
  <2>1. g = h /\ Ascending(s)
    BY <1>1, <1>2 DEF Sort, Ascending
  <2> QED
    BY <2>1
<1>3. CASE s # <<>>
  <2> DEFINE t == MergeSort(s)
             hh2 == LinkedAlong(h.hh, t)
             t2 == [h.tbl EXCEPT !.tail = t[Len(t)]]
  <2>1. g = Relinked(h, t)
    BY <1>1, <1>3 DEF Sort
  <2>2. t \in Seq(Elements) /\ Len(t) = Len(s) /\ ToSet(t) = ToSet(s) /\ Ascending(t)
    BY <1>1, MergeSortIs
  <2> HIDE DEF t
  <2>3. Distinct(t) /\ Len(t) \in Nat /\ 1 \in 1..Len(t) /\ Len(t) \in 1..Len(t) /\ 1 \in Int
    BY <1>1, <1>3, <2>2, AscendingIsDistinct
  <2>4. t[1] \in Pointers /\ t[Len(t)] \in Pointers /\ t[1] = Nth(t, 1)
    BY <2>2, <2>3, NthOf, LenProperties DEF Pointers
  <2>5. /\ h \in [head : Pointers, tbl : Tables \cup {NULL}, hh : Handles]
        /\ h.hh \in Handles /\ h.tbl \in Tables
        /\ h.tbl.num_items = Len(s)
        /\ Hashed(h.tbl.buckets, h.hh, h.tbl.num_buckets, ToSet(s))
        /\ Bounded(h.tbl)
    BY <1>3 DEF TableIs
  <2>6. /\ hh2 \in Handles
        /\ hh2.hh_prev = h.hh.hh_prev /\ hh2.hh_next = h.hh.hh_next /\ hh2.hashv = h.hh.hashv
        /\ IsList(t, Nth(t, 1), hh2.prev, hh2.next)
    BY <2>2, <2>3, <2>5, LinkedAlongIs
  <2> HIDE DEF hh2
  <2>7. g = [h EXCEPT !.head = t[1], !.tbl = t2, !.hh = hh2]
    BY <2>1, <2>5 DEF Relinked, Tables, hh2
  <2>8. /\ t2 \in Tables /\ t2.tail = t[Len(t)] /\ t2.num_items = Len(s)
        /\ t2.buckets = h.tbl.buckets /\ t2.num_buckets = h.tbl.num_buckets
        /\ t2.noexpand = h.tbl.noexpand /\ t2.ideal_chain_maxlen = h.tbl.ideal_chain_maxlen
    BY <2>4, <2>5 DEF Tables
  <2> HIDE DEF t2
  <2>9. /\ g \in [head : Pointers, tbl : Tables \cup {NULL}, hh : Handles]
        /\ g.head = Nth(t, 1) /\ g.tbl = t2 /\ g.hh = hh2
    BY <2>4, <2>5, <2>6, <2>7, <2>8
  <2>10. Hashed(h.tbl.buckets, hh2, h.tbl.num_buckets, ToSet(s))
    BY <2>5, <2>6, HashedApart
  <2>11. Hashed(g.tbl.buckets, g.hh, g.tbl.num_buckets, ToSet(t)) /\ Bounded(g.tbl)
    BY <2>2, <2>5, <2>8, <2>9, <2>10 DEF Bounded
  <2>12. t # <<>>
    BY <2>3
  <2>13. IsList(t, g.head, g.hh.prev, g.hh.next) /\ g.tbl \in Tables /\ g.tbl.tail = t[Len(t)] /\ g.tbl.num_items = Len(t)
    BY <2>2, <2>6, <2>8, <2>9
  <2>14. TableIs(g, t)
    BY <2>2, <2>9, <2>11, <2>12, <2>13 DEF TableIs
  <2>15. g.hh.hashv = h.hh.hashv
    BY <2>6, <2>9
  <2> QED
    BY <2>2, <2>14, <2>15
<1> QED
  BY <1>2, <1>3

==============================================================================
