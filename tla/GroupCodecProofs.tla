-------------------------- MODULE GroupCodecProofs --------------------------
(***************************************************************************)
(* What GroupCodec promises, proved for every set of addresses, every hash *)
(* function and every number of buckets.                                   *)
(*                                                                         *)
(* TableIs(nodes, s) of HashTableProofs follows the table through every    *)
(* operation.  IsImage(im, list) says what an image consists of:           *)
(* serialize_hash makes such an image of the list of the table, tpl_load   *)
(* takes it and deserialize_hash finds list in it, and tpl_load refuses what *)
(* Cut, CutAndRelabelled and Altered make of it.                           *)
(***************************************************************************)
EXTENDS GroupCodec, HashTableProofs

------------------------------------------------------------------------------
(* The loops of tpl.c and utils.c.                                         *)

(* MapSteps reads one character of the format after the other.             *)
LEMMA MapStepsAre ==
  ASSUME NEW fmt, NEW args, Len(fmt) \in Nat,
         NEW at, at = MapSteps(fmt, args)
  PROVE  /\ DOMAIN at = 0..Len(fmt)
         /\ at[0] = [ok |-> TRUE, kids |-> <<>>, inside |-> FALSE, expect |-> FALSE,
              level |-> 0, args |-> args, fxlens |-> <<>>,
              ser_osz |-> WordSize + Len(fmt) + 1 + WordSize]
         /\ \A n \in 1..Len(fmt) : at[n] = MapToken(at[n - 1], fmt[n])
<1> DEFINE C == Len(fmt)
           Start == [ok |-> TRUE, kids |-> <<>>, inside |-> FALSE, expect |-> FALSE,
              level |-> 0, args |-> args, fxlens |-> <<>>,
              ser_osz |-> WordSize + Len(fmt) + 1 + WordSize]
           Step(n, x) == MapToken(x, fmt[n])
           Is(f, k) == f = [n \in 0..k |-> IF n = 0 THEN Start ELSE Step(n, f[n - 1])]
           P == {k \in Nat : \E f : Is(f, k)}
<1>1. C \in Nat
  OBVIOUS
<1>2. 0 \in P
  <2>1. Is([n \in 0..0 |-> Start], 0)
    <3> HIDE DEF Step, Start
    <3> QED
      OBVIOUS
  <2> QED
    BY <2>1
<1>3. ASSUME NEW k \in P
      PROVE  k + 1 \in P
  <2>1. PICK f : Is(f, k)
    OBVIOUS
  <2>2. k \in Nat
    OBVIOUS
  <2> DEFINE g == [n \in 0..k + 1 |-> IF n <= k THEN f[n] ELSE Step(k + 1, f[k])]
  <2> HIDE DEF Step, P, Start
  <2>3. ASSUME NEW n \in 0..k + 1
        PROVE  g[n] = IF n = 0 THEN Start ELSE Step(n, g[n - 1])
    <3>1. CASE n = 0
      BY <2>1, <2>2, <3>1
    <3>2. CASE n \in 1..k
      <4>1. n - 1 \in 0..k /\ n \in 0..k /\ n # 0 /\ n <= k /\ n - 1 <= k /\ n - 1 \in 0..k+1
        BY <2>2, <3>2
      <4>2. g[n] = f[n] /\ g[n - 1] = f[n - 1]
        BY <4>1
      <4>3. f[n] = Step(n, f[n - 1])
        BY <2>1, <4>1
      <4> QED
        BY <4>1, <4>2, <4>3
    <3>3. CASE n = k + 1
      <4>1. n - 1 = k /\ n # 0 /\ ~(n <= k) /\ k \in 0..k+1 /\ k <= k
        BY <2>2, <3>3
      <4>2. g[n] = Step(n, f[k]) /\ g[k] = f[k]
        BY <3>3, <4>1
      <4> QED
        BY <4>1, <4>2
    <3> QED
      BY <2>2, <3>1, <3>2, <3>3
  <2>4. g = [n \in 0..k + 1 |-> g[n]]
    OBVIOUS
  <2> HIDE DEF g
  <2>5. Is(g, k + 1)
    BY <2>3, <2>4
  <2> HIDE DEF Is
  <2>6. k + 1 \in Nat
    BY <2>2
  <2> QED
    BY <2>5, <2>6 DEF P
<1>4. PICK f : Is(f, C)
  <2> HIDE DEF Is, C
  <2>1. P = Nat
    BY <1>2, <1>3, NaturalsByInduction
  <2> QED
    BY <1>1, <2>1
<1>5. Is(at, C)
  BY <1>4, Zenon DEF MapSteps
<1> HIDE DEF Step, Start
<1>6. at[0] = Start /\ DOMAIN at = 0..C /\ \A n \in 1..C : at[n] = Step(n, at[n - 1])
  BY <1>1, <1>5
<1> QED
  BY <1>6 DEF Step, Start

(* PackedUpTo packs one element of the list after the other.               *)
LEMMA PackedAre ==
  ASSUME NEW tn, NEW mem, NEW list, Len(list) \in Nat,
         NEW at, at = PackedUpTo(tn, mem, list)
  PROVE  /\ DOMAIN at = 0..Len(list)
         /\ at[0] = tn
         /\ \A n \in 1..Len(list) : at[n] = PackA(at[n - 1], 1, [mem EXCEPT !.ipaddress = list[n]])
<1> DEFINE C == Len(list)
           Start == tn
           Step(n, x) == PackA(x, 1, [mem EXCEPT !.ipaddress = list[n]])
           Is(f, k) == f = [n \in 0..k |-> IF n = 0 THEN Start ELSE Step(n, f[n - 1])]
           P == {k \in Nat : \E f : Is(f, k)}
<1>1. C \in Nat
  OBVIOUS
<1>2. 0 \in P
  <2>1. Is([n \in 0..0 |-> Start], 0)
    <3> HIDE DEF Step, Start
    <3> QED
      OBVIOUS
  <2> QED
    BY <2>1
<1>3. ASSUME NEW k \in P
      PROVE  k + 1 \in P
  <2>1. PICK f : Is(f, k)
    OBVIOUS
  <2>2. k \in Nat
    OBVIOUS
  <2> DEFINE g == [n \in 0..k + 1 |-> IF n <= k THEN f[n] ELSE Step(k + 1, f[k])]
  <2> HIDE DEF Step, P, Start
  <2>3. ASSUME NEW n \in 0..k + 1
        PROVE  g[n] = IF n = 0 THEN Start ELSE Step(n, g[n - 1])
    <3>1. CASE n = 0
      BY <2>1, <2>2, <3>1
    <3>2. CASE n \in 1..k
      <4>1. n - 1 \in 0..k /\ n \in 0..k /\ n # 0 /\ n <= k /\ n - 1 <= k /\ n - 1 \in 0..k+1
        BY <2>2, <3>2
      <4>2. g[n] = f[n] /\ g[n - 1] = f[n - 1]
        BY <4>1
      <4>3. f[n] = Step(n, f[n - 1])
        BY <2>1, <4>1
      <4> QED
        BY <4>1, <4>2, <4>3
    <3>3. CASE n = k + 1
      <4>1. n - 1 = k /\ n # 0 /\ ~(n <= k) /\ k \in 0..k+1 /\ k <= k
        BY <2>2, <3>3
      <4>2. g[n] = Step(n, f[k]) /\ g[k] = f[k]
        BY <3>3, <4>1
      <4> QED
        BY <4>1, <4>2
    <3> QED
      BY <2>2, <3>1, <3>2, <3>3
  <2>4. g = [n \in 0..k + 1 |-> g[n]]
    OBVIOUS
  <2> HIDE DEF g
  <2>5. Is(g, k + 1)
    BY <2>3, <2>4
  <2> HIDE DEF Is
  <2>6. k + 1 \in Nat
    BY <2>2
  <2> QED
    BY <2>5, <2>6 DEF P
<1>4. PICK f : Is(f, C)
  <2> HIDE DEF Is, C
  <2>1. P = Nat
    BY <1>2, <1>3, NaturalsByInduction
  <2> QED
    BY <1>1, <2>1
<1>5. Is(at, C)
  BY <1>4, Zenon DEF PackedUpTo
<1> HIDE DEF Step, Start
<1>6. at[0] = Start /\ DOMAIN at = 0..C /\ \A n \in 1..C : at[n] = Step(n, at[n - 1])
  BY <1>1, <1>5
<1> QED
  BY <1>6 DEF Step, Start

(* UnpackAll unpacks one element after the other.                          *)
LEMMA UnpackedAre ==
  ASSUME NEW tn, NEW image, NEW mem, Len(image.cells) \in Nat,
         NEW at, at = UnpackAll(tn, image, mem)
  PROVE  /\ DOMAIN at = 0..Len(image.cells)
         /\ at[0] = [tn |-> tn, mem |-> mem, result |-> <<>>]
         /\ \A n \in 1..Len(image.cells) : at[n] = Unpacked(image, at[n - 1])
<1> DEFINE C == Len(image.cells)
           Start == [tn |-> tn, mem |-> mem, result |-> <<>>]
           Step(n, x) == Unpacked(image, x)
           Is(f, k) == f = [n \in 0..k |-> IF n = 0 THEN Start ELSE Step(n, f[n - 1])]
           P == {k \in Nat : \E f : Is(f, k)}
<1>1. C \in Nat
  OBVIOUS
<1>2. 0 \in P
  <2>1. Is([n \in 0..0 |-> Start], 0)
    <3> HIDE DEF Step, Start
    <3> QED
      OBVIOUS
  <2> QED
    BY <2>1
<1>3. ASSUME NEW k \in P
      PROVE  k + 1 \in P
  <2>1. PICK f : Is(f, k)
    OBVIOUS
  <2>2. k \in Nat
    OBVIOUS
  <2> DEFINE g == [n \in 0..k + 1 |-> IF n <= k THEN f[n] ELSE Step(k + 1, f[k])]
  <2> HIDE DEF Step, P, Start
  <2>3. ASSUME NEW n \in 0..k + 1
        PROVE  g[n] = IF n = 0 THEN Start ELSE Step(n, g[n - 1])
    <3>1. CASE n = 0
      BY <2>1, <2>2, <3>1
    <3>2. CASE n \in 1..k
      <4>1. n - 1 \in 0..k /\ n \in 0..k /\ n # 0 /\ n <= k /\ n - 1 <= k /\ n - 1 \in 0..k+1
        BY <2>2, <3>2
      <4>2. g[n] = f[n] /\ g[n - 1] = f[n - 1]
        BY <4>1
      <4>3. f[n] = Step(n, f[n - 1])
        BY <2>1, <4>1
      <4> QED
        BY <4>1, <4>2, <4>3
    <3>3. CASE n = k + 1
      <4>1. n - 1 = k /\ n # 0 /\ ~(n <= k) /\ k \in 0..k+1 /\ k <= k
        BY <2>2, <3>3
      <4>2. g[n] = Step(n, f[k]) /\ g[k] = f[k]
        BY <3>3, <4>1
      <4> QED
        BY <4>1, <4>2
    <3> QED
      BY <2>2, <3>1, <3>2, <3>3
  <2>4. g = [n \in 0..k + 1 |-> g[n]]
    OBVIOUS
  <2> HIDE DEF g
  <2>5. Is(g, k + 1)
    BY <2>3, <2>4
  <2> HIDE DEF Is
  <2>6. k + 1 \in Nat
    BY <2>2
  <2> QED
    BY <2>5, <2>6 DEF P
<1>4. PICK f : Is(f, C)
  <2> HIDE DEF Is, C
  <2>1. P = Nat
    BY <1>2, <1>3, NaturalsByInduction
  <2> QED
    BY <1>1, <2>1
<1>5. Is(at, C)
  BY <1>4, Zenon DEF UnpackAll
<1> HIDE DEF Step, Start
<1>6. at[0] = Start /\ DOMAIN at = 0..C /\ \A n \in 1..C : at[n] = Step(n, at[n - 1])
  BY <1>1, <1>5
<1> QED
  BY <1>6 DEF Step, Start

(* Serlen passes over one node after the other.                            *)
LEMMA SerlenAre ==
  ASSUME NEW image, NEW kids, NEW dv, Len(kids) \in Nat,
         NEW at, at = Serlen(image, kids, dv)
  PROVE  /\ DOMAIN at = 0..Len(kids)
         /\ at[0] = [ok |-> TRUE, dv |-> dv]
         /\ \A n \in 1..Len(kids) : at[n] = SerlenKid(image, kids[n], at[n - 1])
<1> DEFINE C == Len(kids)
           Start == [ok |-> TRUE, dv |-> dv]
           Step(n, x) == SerlenKid(image, kids[n], x)
           Is(f, k) == f = [n \in 0..k |-> IF n = 0 THEN Start ELSE Step(n, f[n - 1])]
           P == {k \in Nat : \E f : Is(f, k)}
<1>1. C \in Nat
  OBVIOUS
<1>2. 0 \in P
  <2>1. Is([n \in 0..0 |-> Start], 0)
    <3> HIDE DEF Step, Start
    <3> QED
      OBVIOUS
  <2> QED
    BY <2>1
<1>3. ASSUME NEW k \in P
      PROVE  k + 1 \in P
  <2>1. PICK f : Is(f, k)
    OBVIOUS
  <2>2. k \in Nat
    OBVIOUS
  <2> DEFINE g == [n \in 0..k + 1 |-> IF n <= k THEN f[n] ELSE Step(k + 1, f[k])]
  <2> HIDE DEF Step, P, Start
  <2>3. ASSUME NEW n \in 0..k + 1
        PROVE  g[n] = IF n = 0 THEN Start ELSE Step(n, g[n - 1])
    <3>1. CASE n = 0
      BY <2>1, <2>2, <3>1
    <3>2. CASE n \in 1..k
      <4>1. n - 1 \in 0..k /\ n \in 0..k /\ n # 0 /\ n <= k /\ n - 1 <= k /\ n - 1 \in 0..k+1
        BY <2>2, <3>2
      <4>2. g[n] = f[n] /\ g[n - 1] = f[n - 1]
        BY <4>1
      <4>3. f[n] = Step(n, f[n - 1])
        BY <2>1, <4>1
      <4> QED
        BY <4>1, <4>2, <4>3
    <3>3. CASE n = k + 1
      <4>1. n - 1 = k /\ n # 0 /\ ~(n <= k) /\ k \in 0..k+1 /\ k <= k
        BY <2>2, <3>3
      <4>2. g[n] = Step(n, f[k]) /\ g[k] = f[k]
        BY <3>3, <4>1
      <4> QED
        BY <4>1, <4>2
    <3> QED
      BY <2>2, <3>1, <3>2, <3>3
  <2>4. g = [n \in 0..k + 1 |-> g[n]]
    OBVIOUS
  <2> HIDE DEF g
  <2>5. Is(g, k + 1)
    BY <2>3, <2>4
  <2> HIDE DEF Is
  <2>6. k + 1 \in Nat
    BY <2>2
  <2> QED
    BY <2>5, <2>6 DEF P
<1>4. PICK f : Is(f, C)
  <2> HIDE DEF Is, C
  <2>1. P = Nat
    BY <1>2, <1>3, NaturalsByInduction
  <2> QED
    BY <1>1, <2>1
<1>5. Is(at, C)
  BY <1>4, Zenon DEF Serlen
<1> HIDE DEF Step, Start
<1>6. at[0] = Start /\ DOMAIN at = 0..C /\ \A n \in 1..C : at[n] = Step(n, at[n - 1])
  BY <1>1, <1>5
<1> QED
  BY <1>6 DEF Step, Start

(* Offsets adds the width of one cell after the other.                     *)
LEMMA OffsetsAre ==
  ASSUME NEW cells, Len(cells) \in Nat,
         NEW at, at = Offsets(cells)
  PROVE  /\ DOMAIN at = 0..Len(cells)
         /\ at[0] = 0
         /\ \A n \in 1..Len(cells) : at[n] = at[n - 1] + cells[n].w
<1> DEFINE C == Len(cells)
           Start == 0
           Step(n, x) == x + cells[n].w
           Is(f, k) == f = [n \in 0..k |-> IF n = 0 THEN Start ELSE Step(n, f[n - 1])]
           P == {k \in Nat : \E f : Is(f, k)}
<1>1. C \in Nat
  OBVIOUS
<1>2. 0 \in P
  <2>1. Is([n \in 0..0 |-> Start], 0)
    <3> HIDE DEF Step, Start
    <3> QED
      OBVIOUS
  <2> QED
    BY <2>1
<1>3. ASSUME NEW k \in P
      PROVE  k + 1 \in P
  <2>1. PICK f : Is(f, k)
    OBVIOUS
  <2>2. k \in Nat
    OBVIOUS
  <2> DEFINE g == [n \in 0..k + 1 |-> IF n <= k THEN f[n] ELSE Step(k + 1, f[k])]
  <2> HIDE DEF Step, P, Start
  <2>3. ASSUME NEW n \in 0..k + 1
        PROVE  g[n] = IF n = 0 THEN Start ELSE Step(n, g[n - 1])
    <3>1. CASE n = 0
      BY <2>1, <2>2, <3>1
    <3>2. CASE n \in 1..k
      <4>1. n - 1 \in 0..k /\ n \in 0..k /\ n # 0 /\ n <= k /\ n - 1 <= k /\ n - 1 \in 0..k+1
        BY <2>2, <3>2
      <4>2. g[n] = f[n] /\ g[n - 1] = f[n - 1]
        BY <4>1
      <4>3. f[n] = Step(n, f[n - 1])
        BY <2>1, <4>1
      <4> QED
        BY <4>1, <4>2, <4>3
    <3>3. CASE n = k + 1
      <4>1. n - 1 = k /\ n # 0 /\ ~(n <= k) /\ k \in 0..k+1 /\ k <= k
        BY <2>2, <3>3
      <4>2. g[n] = Step(n, f[k]) /\ g[k] = f[k]
        BY <3>3, <4>1
      <4> QED
        BY <4>1, <4>2
    <3> QED
      BY <2>2, <3>1, <3>2, <3>3
  <2>4. g = [n \in 0..k + 1 |-> g[n]]
    OBVIOUS
  <2> HIDE DEF g
  <2>5. Is(g, k + 1)
    BY <2>3, <2>4
  <2> HIDE DEF Is
  <2>6. k + 1 \in Nat
    BY <2>2
  <2> QED
    BY <2>5, <2>6 DEF P
<1>4. PICK f : Is(f, C)
  <2> HIDE DEF Is, C
  <2>1. P = Nat
    BY <1>2, <1>3, NaturalsByInduction
  <2> QED
    BY <1>1, <2>1
<1>5. Is(at, C)
  BY <1>4, Zenon DEF Offsets
<1> HIDE DEF Step, Start
<1>6. at[0] = Start /\ DOMAIN at = 0..C /\ \A n \in 1..C : at[n] = Step(n, at[n - 1])
  BY <1>1, <1>5
<1> QED
  BY <1>6 DEF Step, Start

------------------------------------------------------------------------------
(* tpl_map.                                                                *)

(* The state of tpl_map: the nodes so far, whether it is inside the A,     *)
(* whether it expects a parenthesis, and what is left of the arguments.    *)
MapIs(m, kids, inside, expect, level, args, fxlens, osz) ==
  m \in [ok : {TRUE}, kids : {kids}, inside : {inside}, expect : {expect},
         level : {level}, args : {args}, fxlens : {fxlens}, ser_osz : {osz}]

(* A field of n bytes that is mapped to addr.                              *)
IsField(a, n, addr, data) == a \in [type : {"c"}, num : {n}, addr : {addr}, data : {data}]

(* An array of fields.                                                     *)
IsArray(a, kids, sz, num, bb, osz, cur) ==
  a \in [type : {"A"}, kids : {kids}, sz : {sz}, num : {num}, bb : {bb},
         ser_osz : {osz}, cur : {cur}]

(* A c adds a field that holds one byte.                                   *)
LEMMA MapAtomIs ==
  ASSUME NEW kids, NEW level, NEW args, NEW fxlens, NEW osz,
         NEW m, MapIs(m, kids, FALSE, FALSE, level, args, fxlens, osz),
         NEW g, g = MapToken(m, "c")
  PROVE  MapIs(g, Append(kids, Atom(Head(args))), FALSE, FALSE, level, Tail(args), fxlens, osz)
<1>1. g = MapAtom(m)
  BY DEF MapToken, MapIs
<1> DEFINE k2 == Append(kids, Atom(Head(args)))
           m1 == [m EXCEPT !.kids = k2]
<1>2. g = [m1 EXCEPT !.args = Tail(@)]
  BY <1>1 DEF MapAtom, MapIs, WithSiblings, Siblings
<1> HIDE DEF k2
<1>3. MapIs(m1, k2, FALSE, FALSE, level, args, fxlens, osz)
  BY DEF MapIs
<1> HIDE DEF m1
<1>4. MapIs(g, k2, FALSE, FALSE, level, Tail(args), fxlens, osz)
  BY <1>2, <1>3 DEF MapIs
<1> QED
  BY <1>4 DEF k2

(* A # gives the last field its length.                                    *)
LEMMA MapPoundIs ==
  ASSUME NEW kids, NEW level, NEW args, NEW fxlens, NEW osz,
         kids # <<>>, Last(kids).type = "c",
         NEW m, MapIs(m, kids, FALSE, FALSE, level, args, fxlens, osz),
         NEW g, g = MapToken(m, "#")
  PROVE  MapIs(g, [kids EXCEPT ![Len(kids)].num = Head(args)], FALSE, FALSE, level, Tail(args),
               Append(fxlens, Head(args)), osz + WordSize)
<1>1. g = MapPound(m)
  BY DEF MapToken, MapIs
<1>2. g = [Pounded(m, kids, Head(args)) EXCEPT !.args = Tail(@)]
  BY <1>1 DEF MapPound, MapIs, Siblings
<1> DEFINE n == Head(args)
           k2 == [kids EXCEPT ![Len(kids)].num = n]
           m1 == [m EXCEPT !.kids = k2]
           m2 == [m1 EXCEPT !.fxlens = Append(@, n), !.ser_osz = @ + WordSize]
<1>3. WithSiblings(m, k2, n - 1) = m1
  BY DEF WithSiblings, MapIs
<1>4. Pounded(m, kids, n) = m2
  <2> HIDE DEF m1
  <2> QED
    BY <1>3 DEF Pounded
<1> HIDE DEF k2
<1>5. MapIs(m1, k2, FALSE, FALSE, level, args, fxlens, osz)
  BY DEF MapIs
<1> HIDE DEF m1
<1>6. MapIs(m2, k2, FALSE, FALSE, level, args, Append(fxlens, n), osz + WordSize)
  <2> HIDE DEF n
  <2> QED
    BY <1>5 DEF MapIs
<1> HIDE DEF m2
<1>7. g = [m2 EXCEPT !.args = Tail(@)]
  BY <1>2, <1>4
<1> HIDE DEF n
<1>8. MapIs(g, k2, FALSE, FALSE, level, Tail(args), Append(fxlens, n), osz + WordSize)
  BY <1>6, <1>7 DEF MapIs
<1> QED
  BY <1>8 DEF k2, n

(* An A adds an array, whose fields follow in parentheses.                 *)
LEMMA MapAryIs ==
  ASSUME NEW kids, NEW level, NEW args, NEW fxlens, NEW osz,
         NEW m, MapIs(m, kids, FALSE, FALSE, level, args, fxlens, osz),
         NEW g, g = MapToken(m, "A")
  PROVE  MapIs(g, Append(kids, Ary), TRUE, TRUE, level, args, fxlens, osz)
<1>1. g = MapAry(m)
  BY DEF MapToken, MapIs
<1> DEFINE k2 == Append(kids, Ary)
           m1 == [m EXCEPT !.kids = k2]
           m2 == [m1 EXCEPT !.inside = TRUE]
<1>2. g = [m2 EXCEPT !.expect = TRUE]
  BY <1>1 DEF MapIs, MapAry
<1> HIDE DEF k2
<1>3. MapIs(m1, k2, FALSE, FALSE, level, args, fxlens, osz)
  BY DEF MapIs
<1> HIDE DEF m1
<1>4. MapIs(m2, k2, TRUE, FALSE, level, args, fxlens, osz)
  BY <1>3 DEF MapIs
<1> HIDE DEF m2
<1>5. MapIs(g, k2, TRUE, TRUE, level, args, fxlens, osz)
  BY <1>2, <1>4 DEF MapIs
<1> QED
  BY <1>5 DEF k2

(* An opening parenthesis begins the fields of the array.                  *)
LEMMA MapOpenIs ==
  ASSUME NEW kids, NEW level, NEW args, NEW fxlens, NEW osz,
         NEW m, MapIs(m, kids, TRUE, TRUE, level, args, fxlens, osz),
         NEW g, g = MapToken(m, "(")
  PROVE  MapIs(g, kids, TRUE, FALSE, level + 1, args, fxlens, osz)
<1>1. g = MapOpen(m)
  BY DEF MapToken, MapIs
<1> DEFINE m1 == [m EXCEPT !.expect = FALSE]
<1>2. g = [m1 EXCEPT !.level = @ + 1]
  BY <1>1 DEF MapIs, MapOpen
<1>3. MapIs(m1, kids, TRUE, FALSE, level, args, fxlens, osz)
  BY DEF MapIs
<1> HIDE DEF m1
<1> QED
  BY <1>2, <1>3 DEF MapIs

(* The last node of the root is the array.                                 *)
LEMMA MapAtomInside ==
  ASSUME NEW kids, NEW level, NEW args, NEW fxlens, NEW osz,
         NEW m, MapIs(m, kids, TRUE, FALSE, level, args, fxlens, osz),
         NEW g, g = MapToken(m, "c"),
         NEW a, a = [Last(kids) EXCEPT
                       !.kids = Append(Last(kids).kids, Atom(Head(args))), !.sz = @ + 1]
  PROVE  MapIs(g, [kids EXCEPT ![Len(kids)] = a], TRUE, FALSE, level, Tail(args), fxlens, osz)
<1>1. g = MapAtom(m)
  BY DEF MapToken, MapIs
<1>2. g = [WithSiblings(m, Append(Last(kids).kids, Atom(Head(args))), 1) EXCEPT !.args = Tail(@)]
  BY <1>1 DEF MapAtom, MapIs, Siblings
<1>3. WithSiblings(m, Append(Last(kids).kids, Atom(Head(args))), 1) =
        [m EXCEPT !.kids[Len(m.kids)] = a]
  BY DEF WithSiblings, MapIs
<1> DEFINE k2 == [kids EXCEPT ![Len(kids)] = a]
           m1 == [m EXCEPT !.kids = k2]
<1>4. g = [m1 EXCEPT !.args = Tail(@)]
  BY <1>2, <1>3 DEF MapIs
<1> HIDE DEF k2
<1>5. MapIs(m1, k2, TRUE, FALSE, level, args, fxlens, osz)
  BY DEF MapIs
<1> HIDE DEF m1
<1>6. MapIs(g, k2, TRUE, FALSE, level, Tail(args), fxlens, osz)
  BY <1>4, <1>5 DEF MapIs
<1> QED
  BY <1>6 DEF k2

(* A # after a c within the array.                                         *)
LEMMA MapPoundInside ==
  ASSUME NEW kids, NEW level, NEW args, NEW fxlens, NEW osz,
         NEW s, s = Last(kids).kids, s # <<>>, Last(s).type = "c",
         NEW m, MapIs(m, kids, TRUE, FALSE, level, args, fxlens, osz),
         NEW g, g = MapToken(m, "#"),
         NEW s2, s2 = [s EXCEPT ![Len(s)].num = Head(args)],
         NEW a, a = [Last(kids) EXCEPT !.kids = s2, !.sz = @ + (Head(args) - 1)]
  PROVE  MapIs(g, [kids EXCEPT ![Len(kids)] = a], TRUE, FALSE, level, Tail(args),
               Append(fxlens, Head(args)), osz + WordSize)
<1> DEFINE n == Head(args)
<1>1. g = MapPound(m)
  BY DEF MapToken, MapIs
<1>2. m.kids = kids /\ m.inside /\ m.args = args
  BY DEF MapIs
<1>3. Siblings(m) = s
  BY <1>2 DEF Siblings
<1>4. g = [Pounded(m, s, n) EXCEPT !.args = Tail(@)]
  BY <1>1, <1>2, <1>3 DEF MapPound
<1> HIDE DEF n
<1>5. s2 = [s EXCEPT ![Len(s)].num = n]
  BY DEF n
<1> DEFINE m1 == WithSiblings(m, s2, n - 1)
           m2 == [m1 EXCEPT !.fxlens = Append(@, n), !.ser_osz = @ + WordSize]
           k2 == [kids EXCEPT ![Len(kids)] = a]
<1>6. Pounded(m, s, n) = m2
  BY <1>5 DEF Pounded
<1>7. a = [Last(kids) EXCEPT !.kids = s2, !.sz = @ + (n - 1)]
  BY DEF n
<1>8. m1 = [m EXCEPT !.kids[Len(m.kids)] = a]
  BY <1>2, <1>7 DEF WithSiblings
<1> HIDE DEF m1
<1>9. MapIs(m1, k2, TRUE, FALSE, level, args, fxlens, osz)
  BY <1>8 DEF MapIs
<1> HIDE DEF k2
<1>10. MapIs(m2, k2, TRUE, FALSE, level, args, Append(fxlens, n), osz + WordSize)
  BY <1>9 DEF MapIs
<1> HIDE DEF m2
<1>11. g = [m2 EXCEPT !.args = Tail(@)]
  BY <1>4, <1>6
<1>12. MapIs(g, k2, TRUE, FALSE, level, Tail(args), Append(fxlens, n), osz + WordSize)
  BY <1>10, <1>11 DEF MapIs
<1> QED
  BY <1>12 DEF k2, n

(* A closing parenthesis ends them.                                        *)
LEMMA MapCloseIs ==
  ASSUME NEW kids, NEW args, NEW fxlens, NEW osz, Last(kids).kids # <<>>,
         NEW m, MapIs(m, kids, TRUE, FALSE, 1, args, fxlens, osz),
         NEW g, g = MapToken(m, ")")
  PROVE  MapIs(g, kids, FALSE, FALSE, 0, args, fxlens, osz)
<1>1. g = MapClose(m)
  BY DEF MapToken, MapIs
<1>2. m.kids = kids /\ m.inside /\ m.level = 1
  BY DEF MapIs
<1>3. Siblings(m) # <<>>
  BY <1>2 DEF Siblings
<1>4. g = [m EXCEPT !.level = 0, !.inside = FALSE]
  BY <1>1, <1>2, <1>3 DEF MapClose
<1> QED
  BY <1>4 DEF MapIs

(* Sequences given by their elements.                                      *)
LEMMA AppendOne ==
  ASSUME NEW x, NEW y
  PROVE  Append(<<x>>, y) = <<x, y>>
<1> DEFINE s == Append(<<x>>, y)
           t == <<x, y>>
           S == {x, y}
<1>1. <<x>> \in Seq(S) /\ y \in S /\ Len(<<x>>) = 1 /\ <<x>>[1] = x
  OBVIOUS
<1>2. s \in Seq(S) /\ Len(s) = 2 /\ s[2] = y /\ s[1] = x
  BY <1>1, AppendProperties
<1>3. t \in Seq(S) /\ Len(t) = 2 /\ t[1] = x /\ t[2] = y
  OBVIOUS
<1> HIDE DEF s, t, S
<1>4. \A i \in 1..Len(s) : s[i] = t[i]
  BY <1>2, <1>3
<1> QED
  BY <1>2, <1>3, <1>4, SeqEqual DEF s, t

(* Appending to a sequence of one element.                                 *)
LEMMA AppendTwo ==
  ASSUME NEW x, NEW y, NEW z
  PROVE  Append(<<x, y>>, z) = <<x, y, z>>
<1> DEFINE s == Append(<<x, y>>, z)
           t == <<x, y, z>>
           S == {x, y, z}
<1>1. <<x, y>> \in Seq(S) /\ z \in S /\ Len(<<x, y>>) = 2 /\ <<x, y>>[1] = x /\ <<x, y>>[2] = y
  OBVIOUS
<1>2. s \in Seq(S) /\ Len(s) = 3 /\ s[1] = x /\ s[2] = y /\ s[3] = z
  BY <1>1, AppendProperties
<1>3. t \in Seq(S) /\ Len(t) = 3 /\ t[1] = x /\ t[2] = y /\ t[3] = z
  OBVIOUS
<1> HIDE DEF s, t, S
<1>4. \A i \in 1..Len(s) : s[i] = t[i]
  BY <1>2, <1>3
<1> QED
  BY <1>2, <1>3, <1>4, SeqEqual DEF s, t

(* A map of the group's format.                                            *)
IsGroupMap(tn, f1, f2, a, flags) ==
  tn \in [ok : {TRUE}, fmt : {GroupFormat}, fxlens : {<<16, 16, 16>>}, ser_osz : {30},
          kids : {<<f1, f2, a>>}, flags : {flags}]

(* A field, with its length read.                                          *)
LEMMA FieldIs ==
  ASSUME NEW x
  PROVE  IsField([Atom(x) EXCEPT !.num = 16], 16, x, 0) /\ Atom(x).type = "c"
BY DEF Atom, IsField

(* What tpl_map makes of the format of a group: three fields of 16 bytes,  *)
(* the last in an array.                                                   *)
LEMMA GroupMapIs ==
  ASSUME NEW u, NEW ip, NEW el, NEW tn, tn = GroupMap(u, ip, el)
  PROVE  \E f1, f2, f3, a :
           /\ IsGroupMap(tn, f1, f2, a, {})
           /\ IsField(f1, 16, u, 0) /\ IsField(f2, 16, ip, 0) /\ IsField(f3, 16, el, 0)
           /\ IsArray(a, <<f3>>, 16, 0, <<>>, 0, 0)
<1> DEFINE args == <<u, 16, ip, 16, el, 16>>
           at == MapSteps(GroupFormat, args)
           f1 == [Atom(u) EXCEPT !.num = 16]
           f2 == [Atom(ip) EXCEPT !.num = 16]
           f3 == [Atom(el) EXCEPT !.num = 16]
           a1 == [Ary EXCEPT !.kids = Append(Ary.kids, Atom(el)), !.sz = @ + 1]
           s2 == [a1.kids EXCEPT ![Len(a1.kids)].num = 16]
           a2 == [a1 EXCEPT !.kids = s2, !.sz = @ + (16 - 1)]
<1>1. Len(GroupFormat) = 9
  BY DEF GroupFormat
<1>2. /\ GroupFormat[1] = "c" /\ GroupFormat[2] = "#" /\ GroupFormat[3] = "c"
      /\ GroupFormat[4] = "#" /\ GroupFormat[5] = "A" /\ GroupFormat[6] = "("
      /\ GroupFormat[7] = "c" /\ GroupFormat[8] = "#" /\ GroupFormat[9] = ")"
  BY DEF GroupFormat
<1>3. /\ at[0] = [ok |-> TRUE, kids |-> <<>>, inside |-> FALSE, expect |-> FALSE,
                  level |-> 0, args |-> args, fxlens |-> <<>>,
                  ser_osz |-> WordSize + Len(GroupFormat) + 1 + WordSize]
      /\ \A n \in 1..Len(GroupFormat) : at[n] = MapToken(at[n - 1], GroupFormat[n])
  <2> DEFINE F == GroupFormat
  <2>1. Len(F) \in Nat
    BY <1>1
  <2> HIDE DEF F, args
  <2>2. /\ MapSteps(F, args)[0] = [ok |-> TRUE, kids |-> <<>>, inside |-> FALSE, expect |-> FALSE,
                  level |-> 0, args |-> args, fxlens |-> <<>>,
                  ser_osz |-> WordSize + Len(F) + 1 + WordSize]
        /\ \A n \in 1..Len(F) : MapSteps(F, args)[n] = MapToken(MapSteps(F, args)[n - 1], F[n])
    BY <2>1, MapStepsAre
  <2> QED
    BY <2>2 DEF F
<1>4. WordSize + Len(GroupFormat) + 1 + WordSize = 18 /\ 18 + WordSize = 22 /\ 22 + WordSize = 26 /\ 26 + WordSize = 30
  BY <1>1 DEF WordSize
<1>5. tn = [ok |-> at[9].ok /\ at[9].level = 0, fmt |-> GroupFormat, fxlens |-> at[9].fxlens,
            ser_osz |-> at[9].ser_osz, kids |-> at[9].kids, flags |-> {}]
  BY <1>1 DEF GroupMap, Map, ZuuidLen, MaxSizeIp
<1> HIDE DEF at
<1>6. /\ at[1] = MapToken(at[0], "c") /\ at[2] = MapToken(at[1], "#") /\ at[3] = MapToken(at[2], "c")
      /\ at[4] = MapToken(at[3], "#") /\ at[5] = MapToken(at[4], "A") /\ at[6] = MapToken(at[5], "(")
      /\ at[7] = MapToken(at[6], "c") /\ at[8] = MapToken(at[7], "#") /\ at[9] = MapToken(at[8], ")")
  <2>1. \A n \in 1..9 : at[n] = MapToken(at[n - 1], GroupFormat[n])
    BY <1>1, <1>3
  <2>2. /\ at[1] = MapToken(at[1 - 1], "c") /\ at[2] = MapToken(at[2 - 1], "#")
        /\ at[3] = MapToken(at[3 - 1], "c") /\ at[4] = MapToken(at[4 - 1], "#")
        /\ at[5] = MapToken(at[5 - 1], "A") /\ at[6] = MapToken(at[6 - 1], "(")
        /\ at[7] = MapToken(at[7 - 1], "c") /\ at[8] = MapToken(at[8 - 1], "#")
        /\ at[9] = MapToken(at[9 - 1], ")")
    BY <1>2, <2>1
  <2> QED
    BY <2>2
<1>7. MapIs(at[0], <<>>, FALSE, FALSE, 0, args, <<>>, 18)
  BY <1>3, <1>4 DEF MapIs
<1>8. MapIs(at[1], <<Atom(u)>>, FALSE, FALSE, 0, <<16, ip, 16, el, 16>>, <<>>, 18)
  <2>1. Append(<<>>, Atom(Head(args))) = <<Atom(u)>> /\ Tail(args) = <<16, ip, 16, el, 16>>
    OBVIOUS
  <2> HIDE DEF args
  <2> QED
    BY <1>6, <1>7, <2>1, MapAtomIs
<1>9. MapIs(at[2], <<f1>>, FALSE, FALSE, 0, <<ip, 16, el, 16>>, <<16>>, 22)
  <2> DEFINE k == <<Atom(u)>>
             r == <<16, ip, 16, el, 16>>
  <2>1. k # <<>> /\ Last(k).type = "c"
    BY FieldIs DEF Last
  <2>2. /\ [k EXCEPT ![Len(k)].num = Head(r)] = <<f1>> /\ Tail(r) = <<ip, 16, el, 16>>
        /\ Append(<<>>, Head(r)) = <<16>>
    <3>1. Len(k) = 1 /\ Head(r) = 16 /\ Tail(r) = <<ip, 16, el, 16>> /\ Append(<<>>, 16) = <<16>>
      OBVIOUS
    <3> DEFINE a0 == Atom(u)
    <3> HIDE DEF a0
    <3>2. [<<a0>> EXCEPT ![1].num = 16] = <<[a0 EXCEPT !.num = 16]>>
      OBVIOUS
    <3> QED
      BY <3>1, <3>2 DEF a0
  <2>3. MapIs(at[1], k, FALSE, FALSE, 0, r, <<>>, 18)
    BY <1>8
  <2> HIDE DEF k, r, f1
  <2>4. MapIs(at[2], [k EXCEPT ![Len(k)].num = Head(r)], FALSE, FALSE, 0, Tail(r), Append(<<>>, Head(r)), 18 + WordSize)
    BY <1>6, <2>1, <2>3, MapPoundIs
  <2> QED
    BY <1>4, <2>2, <2>4
<1> HIDE DEF f1
<1>10. MapIs(at[3], <<f1, Atom(ip)>>, FALSE, FALSE, 0, <<16, el, 16>>, <<16>>, 22)
  <2> DEFINE r == <<ip, 16, el, 16>>
             k == <<f1>>
  <2>1. Append(k, Atom(Head(r))) = <<f1, Atom(ip)>> /\ Tail(r) = <<16, el, 16>>
    <3>1. Head(r) = ip /\ Tail(r) = <<16, el, 16>>
      OBVIOUS
    <3> QED
      BY <3>1, AppendOne
  <2>2. MapIs(at[2], k, FALSE, FALSE, 0, r, <<16>>, 22)
    BY <1>9
  <2> HIDE DEF k, r
  <2> QED
    BY <1>6, <2>1, <2>2, MapAtomIs
<1>11. MapIs(at[4], <<f1, f2>>, FALSE, FALSE, 0, <<el, 16>>, <<16, 16>>, 26)
  <2> DEFINE k == <<f1, Atom(ip)>>
             r == <<16, el, 16>>
  <2>1. k # <<>> /\ Last(k).type = "c"
    BY FieldIs DEF Last
  <2>2. /\ [k EXCEPT ![Len(k)].num = Head(r)] = <<f1, f2>> /\ Tail(r) = <<el, 16>>
        /\ Append(<<16>>, Head(r)) = <<16, 16>>
    <3>1. Len(k) = 2 /\ Head(r) = 16 /\ Tail(r) = <<el, 16>> /\ Append(<<16>>, 16) = <<16, 16>>
      BY AppendOne
    <3> DEFINE a0 == Atom(ip)
    <3> HIDE DEF a0
    <3>2. [<<f1, a0>> EXCEPT ![2].num = 16] = <<f1, [a0 EXCEPT !.num = 16]>>
      OBVIOUS
    <3> QED
      BY <3>1, <3>2 DEF a0
  <2>3. MapIs(at[3], k, FALSE, FALSE, 0, r, <<16>>, 22)
    BY <1>10
  <2> HIDE DEF k, r, f2
  <2>4. MapIs(at[4], [k EXCEPT ![Len(k)].num = Head(r)], FALSE, FALSE, 0, Tail(r), Append(<<16>>, Head(r)), 22 + WordSize)
    BY <1>6, <2>1, <2>3, MapPoundIs
  <2> QED
    BY <1>4, <2>2, <2>4
<1> HIDE DEF f2
<1>12. MapIs(at[5], <<f1, f2, Ary>>, TRUE, TRUE, 0, <<el, 16>>, <<16, 16>>, 26)
  <2> DEFINE k == <<f1, f2>>
  <2>1. Append(k, Ary) = <<f1, f2, Ary>>
    BY AppendTwo
  <2>2. MapIs(at[4], k, FALSE, FALSE, 0, <<el, 16>>, <<16, 16>>, 26)
    BY <1>11
  <2> HIDE DEF k
  <2> QED
    BY <1>6, <2>1, <2>2, MapAryIs
<1>13. MapIs(at[6], <<f1, f2, Ary>>, TRUE, FALSE, 1, <<el, 16>>, <<16, 16>>, 26)
  <2>1. MapIs(at[6], <<f1, f2, Ary>>, TRUE, FALSE, 0 + 1, <<el, 16>>, <<16, 16>>, 26)
    BY <1>6, <1>12, MapOpenIs
  <2>2. 0 + 1 = 1
    OBVIOUS
  <2> QED
    BY ONLY <2>1, <2>2
<1>14. MapIs(at[7], <<f1, f2, a1>>, TRUE, FALSE, 1, <<16>>, <<16, 16>>, 26)
  <2> DEFINE k == <<f1, f2, Ary>>
             r == <<el, 16>>
  <2>1. Last(k) = Ary /\ Len(k) = 3 /\ Head(r) = el /\ Tail(r) = <<16>>
    BY DEF Last
  <2>2. [k EXCEPT ![3] = a1] = <<f1, f2, a1>>
    <3> HIDE DEF a1
    <3> QED
      OBVIOUS
  <2>3. MapIs(at[6], k, TRUE, FALSE, 1, r, <<16, 16>>, 26)
    BY <1>13
  <2>4. a1 = [Last(k) EXCEPT !.kids = Append(Last(k).kids, Atom(Head(r))), !.sz = @ + 1]
    BY <2>1
  <2> HIDE DEF k, r, a1
  <2>5. MapIs(at[7], [k EXCEPT ![Len(k)] = a1], TRUE, FALSE, 1, Tail(r), <<16, 16>>, 26)
    BY <1>6, <2>3, <2>4, MapAtomInside
  <2> QED
    BY <2>1, <2>2, <2>5
<1>15. /\ a1.kids = <<Atom(el)>> /\ IsArray(a1, <<Atom(el)>>, 1, 0, <<>>, 0, 0)
  <2>1. Append(Ary.kids, Atom(el)) = <<Atom(el)>>
    BY DEF Ary
  <2>2. a1 = [Ary EXCEPT !.kids = <<Atom(el)>>, !.sz = @ + 1]
    BY <2>1
  <2>3. IsArray(Ary, <<>>, 0, 0, <<>>, 0, 0)
    BY DEF Ary, IsArray
  <2>4. 0 + 1 = 1
    OBVIOUS
  <2> HIDE DEF a1
  <2> QED
    BY <2>2, <2>3, <2>4 DEF IsArray
<1> HIDE DEF a1
<1>16. MapIs(at[8], <<f1, f2, a2>>, TRUE, FALSE, 1, <<>>, <<16, 16, 16>>, 30)
  <2> DEFINE k == <<f1, f2, a1>>
             r == <<16>>
             s == a1.kids
  <2>1. Last(k) = a1 /\ Len(k) = 3 /\ Head(r) = 16 /\ Tail(r) = <<>> /\ Append(<<16, 16>>, Head(r)) = <<16, 16, 16>>
    <3>1. Last(k) = a1 /\ Len(k) = 3 /\ Head(r) = 16 /\ Tail(r) = <<>>
      BY DEF Last
    <3> QED
      BY <3>1, AppendTwo
  <2>2. [k EXCEPT ![3] = a2] = <<f1, f2, a2>>
    <3> HIDE DEF a2
    <3> QED
      OBVIOUS
  <2>3. s # <<>> /\ Last(s).type = "c"
    <3>1. s = <<Atom(el)>> /\ Atom(el).type = "c"
      BY <1>15, FieldIs
    <3> HIDE DEF s
    <3>2. Last(<<Atom(el)>>) = Atom(el) /\ <<Atom(el)>> # <<>>
      BY DEF Last
    <3> QED
      BY <3>1, <3>2
  <2>4. MapIs(at[7], k, TRUE, FALSE, 1, r, <<16, 16>>, 26)
    BY <1>14
  <2>5. s = Last(k).kids /\ s2 = [s EXCEPT ![Len(s)].num = Head(r)]
    BY <2>1
  <2> HIDE DEF s, s2
  <2>6. a2 = [Last(k) EXCEPT !.kids = s2, !.sz = @ + (Head(r) - 1)]
    BY <2>1
  <2> HIDE DEF k, r, a2
  <2>7. MapIs(at[8], [k EXCEPT ![Len(k)] = a2], TRUE, FALSE, 1, Tail(r), Append(<<16, 16>>, Head(r)), 26 + WordSize)
    BY <1>6, <2>3, <2>4, <2>5, <2>6, MapPoundInside
  <2> QED
    BY <1>4, <2>1, <2>2, <2>7
<1>17. IsArray(a2, <<f3>>, 16, 0, <<>>, 0, 0)
  <2>1. s2 = <<f3>>
    BY <1>15
  <2> HIDE DEF s2
  <2>2. a2 = [a1 EXCEPT !.kids = <<f3>>, !.sz = @ + (16 - 1)]
    BY <2>1
  <2> HIDE DEF f3, a2
  <2>3. 1 + (16 - 1) = 16
    OBVIOUS
  <2> QED
    BY <1>15, <2>2, <2>3 DEF IsArray
<1> HIDE DEF a2
<1>18. MapIs(at[9], <<f1, f2, a2>>, FALSE, FALSE, 0, <<>>, <<16, 16, 16>>, 30)
  <2> DEFINE k == <<f1, f2, a2>>
  <2>1. Last(k).kids # <<>>
    BY <1>17 DEF Last, IsArray
  <2>2. MapIs(at[8], k, TRUE, FALSE, 1, <<>>, <<16, 16, 16>>, 30)
    BY <1>16
  <2> HIDE DEF k
  <2>3. MapIs(at[9], k, FALSE, FALSE, 0, <<>>, <<16, 16, 16>>, 30)
    BY <1>6, <2>1, <2>2, MapCloseIs
  <2> QED
    BY <2>3 DEF k
<1>19. IsGroupMap(tn, f1, f2, a2, {})
  <2>1. /\ at[9].ok = TRUE /\ at[9].level = 0 /\ at[9].fxlens = <<16, 16, 16>>
        /\ at[9].ser_osz = 30 /\ at[9].kids = <<f1, f2, a2>>
    BY <1>18 DEF MapIs
  <2>2. tn = [ok |-> TRUE, fmt |-> GroupFormat, fxlens |-> <<16, 16, 16>>,
              ser_osz |-> 30, kids |-> <<f1, f2, a2>>, flags |-> {}]
    BY <1>5, <2>1
  <2> DEFINE F == GroupFormat
             k == <<f1, f2, a2>>
             x == <<16, 16, 16>>
  <2>3. tn = [ok |-> TRUE, fmt |-> F, fxlens |-> x, ser_osz |-> 30, kids |-> k, flags |-> {}]
    BY <2>2
  <2> HIDE DEF F, k, x
  <2>4. tn \in [ok : {TRUE}, fmt : {F}, fxlens : {x}, ser_osz : {30}, kids : {k}, flags : {{}}]
    BY <2>3
  <2> QED
    BY <2>4 DEF F, k, x, IsGroupMap
<1>20. IsField(f1, 16, u, 0) /\ IsField(f2, 16, ip, 0) /\ IsField(f3, 16, el, 0)
  BY FieldIs DEF f1, f2
<1> QED
  BY <1>17, <1>19, <1>20

------------------------------------------------------------------------------
(* tpl_pack.                                                               *)

(* A function on 1..3 is the triple of its values.                         *)
LEMMA IsTriple ==
  ASSUME NEW f, f = [i \in 1..3 |-> f[i]]
  PROVE  f = <<f[1], f[2], f[3]>>
<1> DEFINE t == <<f[1], f[2], f[3]>>
           S == {f[1], f[2], f[3]}
<1>1. f \in Seq(S) /\ Len(f) = 3
  <2>1. f \in [1..3 -> S]
    <3>1. \A i \in 1..3 : f[i] \in S
      OBVIOUS
    <3> HIDE DEF S
    <3> QED
      BY <3>1
  <2> HIDE DEF S
  <2> QED
    BY <2>1
<1>2. t \in Seq(S) /\ Len(t) = 3 /\ t[1] = f[1] /\ t[2] = f[2] /\ t[3] = f[3]
  OBVIOUS
<1> HIDE DEF t, S
<1>3. \A i \in 1..Len(f) : f[i] = t[i]
  BY <1>1, <1>2
<1>4. f = t
  BY <1>1, <1>2, <1>3, SeqEqual
<1> QED
  BY <1>4 DEF t

(* A function on 1..1 is the sequence of its value.                        *)
LEMMA IsSingle ==
  ASSUME NEW f, f = [i \in 1..1 |-> f[i]]
  PROVE  f = <<f[1]>>
<1> DEFINE t == <<f[1]>>
           S == {f[1]}
<1>1. f \in Seq(S) /\ Len(f) = 1
  <2>1. f \in [1..1 -> S]
    <3>1. \A i \in 1..1 : f[i] \in S
      OBVIOUS
    <3> HIDE DEF S
    <3> QED
      BY <3>1
  <2> HIDE DEF S
  <2> QED
    BY <2>1
<1>2. t \in Seq(S) /\ Len(t) = 1 /\ t[1] = f[1]
  OBVIOUS
<1> HIDE DEF t, S
<1>3. \A i \in 1..Len(f) : f[i] = t[i]
  BY <1>1, <1>2
<1>4. f = t
  BY <1>1, <1>2, <1>3, SeqEqual
<1> QED
  BY <1>4 DEF t

(* The kinds of nodes.                                                     *)
LEMMA PackedField ==
  ASSUME NEW a, NEW n, NEW x, NEW d, IsField(a, n, x, d), NEW mem,
         NEW g, g = Packed(a, mem)
  PROVE  IsField(g, n, x, mem[x])
<1>1. g = [a EXCEPT !.data = mem[a.addr]] /\ a.addr = x
  BY DEF Packed, IsField
<1> DEFINE v == mem[x]
<1>2. g = [a EXCEPT !.data = v]
  BY <1>1
<1> HIDE DEF v
<1>3. IsField(g, n, x, v)
  BY <1>2 DEF IsField
<1> QED
  BY <1>3 DEF v

(* tpl_pack of the root.                                                   *)
LEMMA PackRootIs ==
  ASSUME NEW tn, NEW f1, NEW f2, NEW a, NEW flags, IsGroupMap(tn, f1, f2, a, flags),
         a.type = "A",
         NEW mem, NEW g, g = PackRoot(tn, mem)
  PROVE  IsGroupMap(g, Packed(f1, mem), Packed(f2, mem), a, flags \cup {"WRONLY"})
<1> DEFINE k == <<f1, f2, a>>
           p == [j \in DOMAIN k |-> Packed(k[j], mem)]
           t == <<Packed(f1, mem), Packed(f2, mem), a>>
           fl == flags \cup {"WRONLY"}
<1>1. tn.kids = k /\ tn.flags = flags
  BY DEF IsGroupMap
<1>2. DOMAIN k = 1..3 /\ k[1] = f1 /\ k[2] = f2 /\ k[3] = a
  OBVIOUS
<1>3. Packed(a, mem) = a
  BY DEF Packed
<1> HIDE DEF k
<1>4. p = [i \in 1..3 |-> p[i]] /\ p[1] = Packed(f1, mem) /\ p[2] = Packed(f2, mem) /\ p[3] = a
  BY <1>2, <1>3
<1> HIDE DEF p
<1>5. p = t
  BY <1>4, IsTriple
<1>6. g = [tn EXCEPT !.flags = fl, !.kids = p]
  BY <1>1 DEF PackRoot, p
<1>7. g = [tn EXCEPT !.flags = fl, !.kids = t]
  BY <1>5, <1>6
<1> HIDE DEF t, fl
<1>8. IsGroupMap(g, Packed(f1, mem), Packed(f2, mem), a, fl)
  <2> DEFINE F == GroupFormat
             x == <<16, 16, 16>>
  <2>1. tn \in [ok : {TRUE}, fmt : {F}, fxlens : {x}, ser_osz : {30}, kids : {k}, flags : {flags}]
    BY DEF IsGroupMap, k
  <2> HIDE DEF F, x
  <2>2. g \in [ok : {TRUE}, fmt : {F}, fxlens : {x}, ser_osz : {30}, kids : {t}, flags : {fl}]
    BY <1>7, <2>1
  <2> QED
    BY <2>2 DEF F, x, t, IsGroupMap
<1> QED
  BY <1>8 DEF fl

(* A(1) is the third node.                                                 *)
LEMMA FindTheArray ==
  ASSUME NEW tn, NEW f1, NEW f2, NEW a, NEW flags, IsGroupMap(tn, f1, f2, a, flags),
         a.type = "A", f1.type = "c", f2.type = "c"
  PROVE  FindA(tn, 1) = 3
<1> DEFINE arrays == {k \in DOMAIN tn.kids : tn.kids[k].type = "A"}
           S(k) == {j \in arrays : j <= k}
<1>1. tn.kids = <<f1, f2, a>>
  BY DEF IsGroupMap
<1>2. DOMAIN tn.kids = 1..3 /\ tn.kids[1].type = "c" /\ tn.kids[2].type = "c" /\ tn.kids[3].type = "A"
  BY <1>1
<1>3. arrays = {3}
  BY <1>2
<1>4. S(3) = {3}
  BY <1>3
<1>5. Cardinality({3}) = 1
  BY FS_Singleton
<1> HIDE DEF arrays, S
<1>6. FindA(tn, 1) = CHOOSE k \in arrays : Cardinality(S(k)) = 1
  BY Zenon DEF FindA, arrays, S
<1> QED
  BY <1>3, <1>4, <1>5, <1>6

(* The bytes of one cell.                                                  *)
LEMMA BytesOfOne ==
  ASSUME NEW w \in Nat, NEW v
  PROVE  Bytes(<<Cell(w, v)>>) = w
<1> DEFINE c == <<Cell(w, v)>>
           at == Offsets(c)
<1>1. Len(c) = 1 /\ c[1].w = w
  BY DEF Cell
<1> HIDE DEF c
<1>2. at[0] = 0 /\ \A n \in 1..Len(c) : at[n] = at[n - 1] + c[n].w
  <2>1. Len(c) \in Nat
    BY <1>1
  <2> QED
    BY <2>1, OffsetsAre
<1> HIDE DEF at
<1>3. 1 \in 1..Len(c) /\ 1 - 1 = 0
  BY <1>1
<1>4. at[1] = 0 + w
  BY <1>1, <1>2, <1>3
<1>5. Bytes(c) = at[1]
  BY <1>1 DEF Bytes, at
<1>6. Bytes(c) = w
  BY <1>4, <1>5
<1> QED
  BY <1>6 DEF c

(* tpl_pack of A(1): one element more.                                     *)
LEMMA PackAIs ==
  ASSUME NEW tn, NEW f1, NEW f2, NEW a, NEW flags, IsGroupMap(tn, f1, f2, a, flags),
         f1.type = "c", f2.type = "c",
         NEW f3, NEW el, NEW d, IsField(f3, 16, el, d),
         NEW num \in Nat, NEW bb, NEW osz \in Nat, IsArray(a, <<f3>>, 16, num, bb, osz, 0),
         NEW mem, NEW g, g = PackA(tn, 1, mem)
  PROVE  \E a2, f4 :
           /\ IsGroupMap(g, f1, f2, a2, flags \cup {"WRONLY"})
           /\ IsField(f4, 16, el, mem[el])
           /\ IsArray(a2, <<f4>>, 16, num + 1, Append(bb, <<Cell(16, mem[el])>>), osz + 16, 0)
<1> DEFINE v == mem[el]
           f4 == Packed(f3, mem)
           kids == [j \in DOMAIN tn.kids[3].kids |-> Packed(tn.kids[3].kids[j], mem)]
           datum == [j \in DOMAIN kids |-> Cell(kids[j].num, kids[j].data)]
           one == <<Cell(16, v)>>
           more == Append(bb, one)
           b == ExtendBackbone(tn.kids[3], datum)
           a2 == [b EXCEPT !.kids = kids, !.ser_osz = @ + Bytes(datum)]
           fl == flags \cup {"WRONLY"}
<1>1. a.type = "A"
  BY DEF IsArray
<1>2. FindA(tn, 1) = 3
  BY <1>1, FindTheArray
<1>3. g = [tn EXCEPT !.flags = @ \cup {"WRONLY"}, !.kids[3] = a2]
  BY <1>2 DEF PackA
<1>4. tn.kids = <<f1, f2, a>> /\ tn.flags = flags /\ tn.kids[3] = a
  BY DEF IsGroupMap
<1>5. a.kids = <<f3>>
  BY DEF IsArray
<1>6. IsField(f4, 16, el, v)
  BY PackedField
<1>7. kids = <<f4>>
  <2>1. tn.kids[3].kids = <<f3>> /\ DOMAIN <<f3>> = 1..1
    BY <1>4, <1>5
  <2>2. kids = [j \in 1..1 |-> Packed(<<f3>>[j], mem)]
    BY <2>1
  <2> HIDE DEF kids
  <2>3. kids = [j \in 1..1 |-> kids[j]] /\ kids[1] = f4
    BY <2>2
  <2> HIDE DEF f4
  <2> QED
    BY <2>3, IsSingle
<1> HIDE DEF kids, f4
<1>8. datum = one
  <2>1. DOMAIN <<f4>> = 1..1 /\ <<f4>>[1] = f4
    OBVIOUS
  <2>2. datum = [j \in 1..1 |-> Cell(<<f4>>[j].num, <<f4>>[j].data)]
    BY <1>7, <2>1
  <2> HIDE DEF datum
  <2>3. f4.num = 16 /\ f4.data = v
    BY <1>6 DEF IsField
  <2>4. datum = [j \in 1..1 |-> datum[j]] /\ datum[1] = Cell(16, v)
    BY <2>1, <2>2, <2>3
  <2> QED
    BY <2>4, IsSingle
<1> HIDE DEF datum
<1>9. Bytes(datum) = 16
  BY <1>8, BytesOfOne
<1>10. b = [a EXCEPT !.bb = more, !.num = @ + 1]
  BY <1>4, <1>8 DEF ExtendBackbone, IsArray
<1> HIDE DEF b, more, one
<1>11. IsArray(b, <<f3>>, 16, num + 1, more, osz, 0)
  BY <1>10 DEF IsArray
<1>12. a2 = [b EXCEPT !.kids = <<f4>>, !.ser_osz = @ + 16]
  BY <1>7, <1>9
<1> HIDE DEF a2
<1>13. IsArray(a2, <<f4>>, 16, num + 1, more, osz + 16, 0)
  BY <1>11, <1>12 DEF IsArray
<1> DEFINE k == <<f1, f2, a>>
           t == <<f1, f2, a2>>
<1>14. [k EXCEPT ![3] = a2] = t
  OBVIOUS
<1> HIDE DEF k, t
<1>15. g = [tn EXCEPT !.flags = fl, !.kids = t]
  <2>1. tn.kids = k /\ tn.flags = flags
    BY <1>4 DEF k
  <2>2. g = [tn EXCEPT !.flags = tn.flags \cup {"WRONLY"}, !.kids = [tn.kids EXCEPT ![3] = a2]]
    BY <1>3
  <2> QED
    BY <1>14, <2>1, <2>2
<1> HIDE DEF fl
<1>16. IsGroupMap(g, f1, f2, a2, fl)
  <2> DEFINE F == GroupFormat
             x == <<16, 16, 16>>
  <2>1. tn \in [ok : {TRUE}, fmt : {F}, fxlens : {x}, ser_osz : {30}, kids : {k}, flags : {flags}]
    BY DEF IsGroupMap, k
  <2> HIDE DEF F, x
  <2>2. g \in [ok : {TRUE}, fmt : {F}, fxlens : {x}, ser_osz : {30}, kids : {t}, flags : {fl}]
    BY <1>15, <2>1
  <2> QED
    BY <2>2 DEF F, x, t, IsGroupMap
<1> QED
  BY <1>6, <1>13, <1>16 DEF fl, more, one, v

(* The element of the array for one address.                               *)
Datum(e) == <<Cell(16, e)>>

(* tn after the root and the first n addresses of list were packed: its    *)
(* nodes, the field of the array and the elements packed.                  *)
PackedWith(tn, list, n, f1, f2, f3, a, bb, d) ==
  /\ IsGroupMap(tn, f1, f2, a, {"WRONLY"})
  /\ IsField(f1, 16, "uuid", Uuid) /\ IsField(f2, 16, "current_node_ip", Self)
  /\ IsField(f3, 16, "ipaddress", d)
  /\ IsArray(a, <<f3>>, 16, n, bb, 16 * n, 0)
  /\ bb \in Seq({Datum(e) : e \in Elements}) /\ Len(bb) = n
  /\ \A i \in 1..n : bb[i] = Datum(list[i])

(* The same, of some fields.                                               *)
PackedTo(tn, list, n) ==
  \E f1, f2, f3, a, bb, d : PackedWith(tn, list, n, f1, f2, f3, a, bb, d)

(* The next address.                                                       *)
LEMMA PackNext ==
  ASSUME NEW tn, NEW list \in Seq(Elements), NEW n \in Nat, n < Len(list), PackedTo(tn, list, n),
         NEW mem, mem["ipaddress"] = list[n + 1]
  PROVE  PackedTo(PackA(tn, 1, mem), list, n + 1)
<1> DEFINE g == PackA(tn, 1, mem)
           v == mem["ipaddress"]
           D == {Datum(e) : e \in Elements}
           no == {"WRONLY"}
<1>1. PICK f1, f2, f3, a, bb, d : PackedWith(tn, list, n, f1, f2, f3, a, bb, d)
  BY DEF PackedTo
<1>0. /\ IsGroupMap(tn, f1, f2, a, no)
       /\ IsField(f1, 16, "uuid", Uuid) /\ IsField(f2, 16, "current_node_ip", Self)
       /\ IsField(f3, 16, "ipaddress", d)
       /\ IsArray(a, <<f3>>, 16, n, bb, 16 * n, 0)
       /\ bb \in Seq(D) /\ Len(bb) = n
       /\ \A i \in 1..n : bb[i] = Datum(list[i])
  BY <1>1 DEF PackedWith
<1>2. f1.type = "c" /\ f2.type = "c"
  BY <1>0 DEF IsField
<1>3. 16 * n \in Nat /\ 16 * n + 16 = 16 * (n + 1) /\ n + 1 \in Nat /\ n + 1 \in 1..Len(list)
  BY LenProperties
<1>4. no \cup {"WRONLY"} = no
  OBVIOUS
<1> HIDE DEF g, no
<1>5. PICK a2, f4 :
        /\ IsGroupMap(g, f1, f2, a2, no \cup {"WRONLY"})
        /\ IsField(f4, 16, "ipaddress", mem["ipaddress"])
        /\ IsArray(a2, <<f4>>, 16, n + 1, Append(bb, <<Cell(16, mem["ipaddress"])>>), 16 * n + 16, 0)
  <2> DEFINE osz == 16 * n
             el == "ipaddress"
  <2>1. osz \in Nat /\ IsArray(a, <<f3>>, 16, n, bb, osz, 0) /\ IsField(f3, 16, el, d)
    BY <1>0, <1>3
  <2> HIDE DEF osz, el
  <2>2. \E a2, f4 :
        /\ IsGroupMap(g, f1, f2, a2, no \cup {"WRONLY"})
        /\ IsField(f4, 16, el, mem[el])
        /\ IsArray(a2, <<f4>>, 16, n + 1, Append(bb, <<Cell(16, mem[el])>>), osz + 16, 0)
    <3>1. IsGroupMap(tn, f1, f2, a, no) /\ g = PackA(tn, 1, mem)
      BY <1>0 DEF g
    <3> QED
      BY <1>2, <1>3, <2>1, <3>1, PackAIs, ZenonT(60)
  <2> QED
    BY <2>2 DEF osz, el
<1> DEFINE b2 == Append(bb, Datum(v))
<1>6. v \in Elements /\ v = list[n + 1]
  BY <1>3
<1>7. b2 \in Seq(D) /\ Len(b2) = n + 1 /\ \A i \in 1..n + 1 : b2[i] = Datum(list[i])
  <2>1. Datum(v) \in D
    BY <1>6
  <2> HIDE DEF D, v
  <2>2. /\ b2 \in Seq(D) /\ Len(b2) = n + 1 /\ b2[n + 1] = Datum(v)
        /\ \A i \in 1..n : b2[i] = bb[i]
    BY <1>0, <2>1, AppendProperties
  <2> HIDE DEF b2
  <2> QED
    BY <1>0, <1>6, <2>2
<1>8. IsArray(a2, <<f4>>, 16, n + 1, b2, 16 * (n + 1), 0)
  <2>1. IsArray(a2, <<f4>>, 16, n + 1, Append(bb, <<Cell(16, mem["ipaddress"])>>), 16 * (n + 1), 0)
    BY <1>3, <1>5
  <2> QED
    BY <2>1 DEF Datum
<1>9. IsGroupMap(g, f1, f2, a2, no)
  BY <1>4, <1>5
<1> HIDE DEF b2, v, D
<1>10. IsField(f4, 16, "ipaddress", v)
  BY <1>5 DEF v
<1>11. PackedTo(g, list, n + 1)
  <2>1. PackedWith(g, list, n + 1, f1, f2, f4, a2, b2, v)
    BY <1>0, <1>7, <1>8, <1>9, <1>10 DEF PackedWith, D, no
  <2> QED
    BY <2>1 DEF PackedTo
<1> QED
  BY <1>11 DEF g

(* The root, packed twice, and every address.                              *)
LEMMA PackedGroup ==
  ASSUME NEW list \in Seq(Elements),
         NEW mem, mem = [uuid |-> Uuid, current_node_ip |-> Self, ipaddress |-> 0],
         NEW mapped, mapped = GroupMap("uuid", "current_node_ip", "ipaddress"),
         NEW twice, twice = PackRoot(PackRoot(mapped, mem), mem),
         NEW tn, tn = PackedUpTo(twice, mem, list)[Len(list)]
  PROVE  PackedTo(tn, list, Len(list))
<1> DEFINE uuid == "uuid"
           ip == "current_node_ip"
           el == "ipaddress"
           none == {}
           once == PackRoot(mapped, mem)
           at == PackedUpTo(twice, mem, list)
           L == Len(list)
           P == {n \in Nat : n <= L => PackedTo(at[n], list, n)}
<1>1. mem[uuid] = Uuid /\ mem[ip] = Self
  OBVIOUS
<1>2. PICK f1, f2, f3, a :
           /\ IsGroupMap(mapped, f1, f2, a, none)
           /\ IsField(f1, 16, uuid, 0) /\ IsField(f2, 16, ip, 0) /\ IsField(f3, 16, el, 0)
           /\ IsArray(a, <<f3>>, 16, 0, <<>>, 0, 0)
  <2>1. mapped = GroupMap(uuid, ip, el)
    OBVIOUS
  <2> HIDE DEF uuid, ip, el
  <2> QED
    BY <2>1, GroupMapIs DEF none
<1>3. a.type = "A"
  BY <1>2 DEF IsArray
<1> DEFINE g1 == Packed(f1, mem)
           g2 == Packed(f2, mem)
           k1 == Packed(g1, mem)
           k2 == Packed(g2, mem)
           some == none \cup {"WRONLY"}
<1> HIDE DEF once, uuid, ip, el
<1>4. IsGroupMap(once, g1, g2, a, some)
  <2> HIDE DEF none
  <2> QED
    BY <1>2, <1>3, PackRootIs DEF once
<1>5. IsField(g1, 16, uuid, Uuid) /\ IsField(g2, 16, ip, Self)
  <2>1. IsField(g1, 16, uuid, mem[uuid])
    BY <1>2, PackedField
  <2>2. IsField(g2, 16, ip, mem[ip])
    BY <1>2, PackedField
  <2> QED
    BY <1>1, <2>1, <2>2
<1> HIDE DEF g1, g2, some, none
<1>6. IsGroupMap(twice, k1, k2, a, some \cup {"WRONLY"})
  BY <1>3, <1>4, PackRootIs DEF once
<1>7. IsField(k1, 16, uuid, Uuid) /\ IsField(k2, 16, ip, Self)
  <2>1. IsField(k1, 16, uuid, mem[uuid])
    BY <1>5, PackedField
  <2>2. IsField(k2, 16, ip, mem[ip])
    BY <1>5, PackedField
  <2> QED
    BY <1>1, <2>1, <2>2
<1> HIDE DEF k1, k2
<1>8. some \cup {"WRONLY"} = {"WRONLY"}
  BY DEF some, none
<1>9. PackedTo(twice, list, 0)
  <2>1. <<>> \in Seq({Datum(e) : e \in Elements}) /\ Len(<<>>) = 0 /\ 16 * 0 = 0
        /\ \A i \in 1..0 : <<>>[i] = Datum(list[i])
    BY EmptySeq
  <2>2. IsArray(a, <<f3>>, 16, 0, <<>>, 16 * 0, 0)
    BY <1>2, <2>1
  <2>3. IsGroupMap(twice, k1, k2, a, {"WRONLY"})
    BY <1>6, <1>8
  <2>4. IsField(k1, 16, "uuid", Uuid) /\ IsField(k2, 16, "current_node_ip", Self)
        /\ IsField(f3, 16, "ipaddress", 0)
    BY <1>2, <1>7 DEF uuid, ip, el
  <2> DEFINE e == <<>>
  <2> HIDE DEF e
  <2>5. PackedWith(twice, list, 0, k1, k2, f3, a, e, 0)
    BY <2>1, <2>2, <2>3, <2>4 DEF PackedWith, e
  <2> QED
    BY <2>5 DEF PackedTo
<1>10. /\ L \in Nat /\ at[0] = twice
       /\ \A n \in 1..L : at[n] = PackA(at[n - 1], 1, [mem EXCEPT !.ipaddress = list[n]])
  BY LenProperties, PackedAre
<1> HIDE DEF at, L
<1>11. 0 \in P
  BY <1>9, <1>10
<1>12. ASSUME NEW n \in P
       PROVE  n + 1 \in P
  <2>1. n \in Nat /\ n + 1 \in Nat
    OBVIOUS
  <2>2. CASE n + 1 <= L
    <3>1. n < L /\ n + 1 \in 1..L /\ (n + 1) - 1 = n /\ n <= L
      BY <1>10, <2>1, <2>2
    <3>2. PackedTo(at[n], list, n)
      BY <3>1
    <3> DEFINE m == [mem EXCEPT !.ipaddress = list[n + 1]]
    <3>3. m["ipaddress"] = list[n + 1]
      OBVIOUS
    <3> HIDE DEF m
    <3>4. at[n + 1] = PackA(at[n], 1, m)
      BY <1>10, <3>1 DEF m
    <3>5. PackedTo(PackA(at[n], 1, m), list, n + 1)
      BY <2>1, <3>1, <3>2, <3>3, PackNext DEF L
    <3> QED
      BY <2>1, <3>4, <3>5
  <2>3. CASE ~(n + 1 <= L)
    BY <2>1, <2>3
  <2> QED
    BY <2>2, <2>3
<1>13. P = Nat
  <2> HIDE DEF P
  <2>1. P \in SUBSET Nat
    BY DEF P
  <2> QED
    BY <1>11, <1>12, <2>1, NaturalsByInduction
<1>14. PackedTo(at[L], list, L)
  BY <1>10, <1>13
<1> QED
  BY <1>14 DEF at, L

------------------------------------------------------------------------------
(* tpl_dump.                                                               *)

(* The cells an image of a group is made of.                               *)
AllCells == [w : Nat, v : Nat \cup {Magic, GroupFormat, Uuid}]

(* A cell with one of their values.                                        *)
LEMMA CellType ==
  ASSUME NEW w \in Nat, NEW v \in Nat \cup {Magic, GroupFormat, Uuid}
  PROVE  Cell(w, v) \in AllCells
  BY DEF Cell, AllCells

(* The elements of the array, one behind the other.                        *)
LEMMA FlattenDatums ==
  ASSUME NEW list \in Seq(Elements), NEW bb, NEW L \in Nat \ {0}, Len(list) = L, Len(bb) = L,
         \A i \in 1..L : bb[i] = Datum(list[i])
  PROVE  /\ FlattenSeq(bb) \in Seq(AllCells) /\ Len(FlattenSeq(bb)) = L
         /\ \A i \in 1..L : FlattenSeq(bb)[i] = Cell(16, list[i])
<1>1. PICK f : /\ f[1] = bb[1]
               /\ \A n \in 2..L : f[n] = f[n - 1] \o bb[n]
               /\ FlattenSeq(bb) = f[L]
  BY FlattenIs
<1> DEFINE Good(n) == /\ f[n] \in Seq(AllCells) /\ Len(f[n]) = n
                      /\ \A i \in 1..n : f[n][i] = Cell(16, list[i])
           P == {n \in Nat : n + 1 <= L => Good(n + 1)}
<1>2. \A i \in 1..L : list[i] \in Elements /\ list[i] \in Nat /\ Cell(16, list[i]) \in AllCells
  <2> SUFFICES ASSUME NEW i \in 1..L
               PROVE  list[i] \in Elements /\ list[i] \in Nat /\ Cell(16, list[i]) \in AllCells
    OBVIOUS
  <2>1. list[i] \in Elements
    OBVIOUS
  <2>2. list[i] \in Nat
    BY <2>1, ElementsAreNat
  <2> QED
    BY <2>1, <2>2, CellType
<1>3. \A i \in 1..L : bb[i] = <<Cell(16, list[i])>>
  BY DEF Datum
<1>4. 0 \in P
  <2>1. 1 \in 1..L /\ 0 + 1 = 1
    OBVIOUS
  <2> DEFINE c == Cell(16, list[1])
  <2>2. f[1] = <<c>> /\ c \in AllCells
    BY <1>1, <1>2, <1>3, <2>1
  <2> HIDE DEF c
  <2>3. f[1] \in Seq(AllCells) /\ Len(f[1]) = 1 /\ f[1][1] = c
    BY <2>2
  <2>4. \A i \in 1..1 : i = 1
    OBVIOUS
  <2>5. Good(1)
    BY <2>3, <2>4 DEF c
  <2> QED
    BY <2>1, <2>5
<1>5. ASSUME NEW n \in P
      PROVE  n + 1 \in P
  <2> DEFINE m == n + 1
  <2>1. n \in Nat /\ m \in Nat /\ m >= 1
    OBVIOUS
  <2> SUFFICES ASSUME m + 1 <= L
               PROVE  Good(m + 1)
    BY <2>1
  <2>2. Good(m)
    BY <2>1
  <2> HIDE DEF m
  <2>3. m + 1 \in 2..L /\ m + 1 \in 1..L /\ (m + 1) - 1 = m
    BY <2>1
  <2> DEFINE c == Cell(16, list[m + 1])
             g == f[m + 1]
  <2>4. g = f[m] \o <<c>> /\ c \in AllCells
    BY <1>1, <1>2, <1>3, <2>3
  <2> HIDE DEF g, c
  <2>5. <<c>> \in Seq(AllCells) /\ Len(<<c>>) = 1 /\ <<c>>[1] = c
    BY <2>4
  <2>6. /\ g \in Seq(AllCells) /\ Len(g) = m + 1
        /\ \A i \in 1..m : g[i] = f[m][i]
        /\ g[m + 1] = c
    <3> DEFINE s == f[m]
               t == <<c>>
    <3>1. s \in Seq(AllCells) /\ t \in Seq(AllCells) /\ Len(s) = m /\ Len(t) = 1 /\ t[1] = c /\ g = s \o t
      BY <2>2, <2>4, <2>5
    <3> HIDE DEF s, t
    <3>2. /\ g \in Seq(AllCells) /\ Len(g) = m + 1
          /\ \A i \in 1..m + 1 : g[i] = IF i <= m THEN s[i] ELSE t[i - m]
      <4>1. /\ s \o t \in Seq(AllCells)
            /\ Len(s \o t) = Len(s) + Len(t)
            /\ \A i \in 1..Len(s) + Len(t) :
                 (s \o t)[i] = IF i <= Len(s) THEN s[i] ELSE t[i - Len(s)]
        <5>1. s \in Seq(AllCells) /\ t \in Seq(AllCells)
          BY <3>1
        <5> QED
          BY <5>1, ConcatProperties
      <4> QED
        BY <3>1, <4>1
    <3>3. \A i \in 1..m : i \in 1..m + 1 /\ i <= m
      BY <2>1
    <3>4. m + 1 \in 1..m + 1 /\ ~(m + 1 <= m) /\ (m + 1) - m = 1
      BY <2>1
    <3> QED
      BY <3>1, <3>2, <3>3, <3>4 DEF s
  <2>7. \A i \in 1..m + 1 : g[i] = Cell(16, list[i])
    <3> SUFFICES ASSUME NEW i \in 1..m + 1
                 PROVE  g[i] = Cell(16, list[i])
      OBVIOUS
    <3>1. CASE i \in 1..m
      BY <2>2, <2>6, <3>1
    <3>2. CASE i = m + 1
      BY <2>6, <3>2 DEF c
    <3> QED
      BY <2>1, <3>1, <3>2
  <2> QED
    BY <2>6, <2>7 DEF g
<1>6. P = Nat
  <2> HIDE DEF P
  <2>1. P \in SUBSET Nat
    BY DEF P
  <2> QED
    BY <1>4, <1>5, <2>1, NaturalsByInduction
<1>7. Good(L)
  <2> HIDE DEF Good
  <2>1. PICK k \in Nat : k + 1 = L
    <3>1. L - 1 \in Nat /\ (L - 1) + 1 = L
      OBVIOUS
    <3> QED
      BY <3>1
  <2>2. k \in P
    <3> HIDE DEF P
    <3> QED
      BY <1>6
  <2>3. Good(k + 1)
    BY <2>1, <2>2
  <2> QED
    BY <2>1, <2>3
<1> QED
  BY <1>1, <1>7

(* The widths of the cells of an image of L addresses.                     *)
Shaped(im, L) ==
  /\ Len(im.cells) = 9 + L /\ DOMAIN im.cells = 1..9 + L
  /\ im.cells[1].w = 4 /\ im.cells[2].w = 4 /\ im.cells[3].w = 10
  /\ im.cells[4].w = 4 /\ im.cells[5].w = 4 /\ im.cells[6].w = 4
  /\ im.cells[7].w = 16 /\ im.cells[8].w = 16 /\ im.cells[9].w = 4
  /\ \A i \in 1..L : im.cells[9 + i].w = 16

(* im is the image of the group list.                                      *)
IsImage(im, list) ==
  /\ im \in [rc : {0}, sz : Nat, cells : Seq(AllCells)]
  /\ im.sz = 66 + 16 * Len(list)
  /\ Shaped(im, Len(list))
  /\ im.cells[1].v = Magic /\ im.cells[2].v = im.sz /\ im.cells[3].v = GroupFormat
  /\ im.cells[4].v = 16 /\ im.cells[5].v = 16 /\ im.cells[6].v = 16
  /\ im.cells[7].v = Uuid /\ im.cells[8].v = Self /\ im.cells[9].v = Len(list)
  /\ \A i \in 1..Len(list) : im.cells[9 + i].v = list[i]

(* The size tpl_dump allocates.                                            *)
LEMMA SizeIs ==
  ASSUME NEW tn, NEW f1, NEW f2, NEW a, NEW flags, IsGroupMap(tn, f1, f2, a, flags),
         f1.type = "c", f1.num = 16, f2.type = "c", f2.num = 16,
         a.type = "A", NEW L \in Nat, a.ser_osz = 16 * L
  PROVE  SerOsz(tn) = 66 + 16 * L
<1> DEFINE f == [k \in DOMAIN tn.kids |-> KidOsz(tn.kids[k])]
           o == 16 * L
<1>1. tn.kids = <<f1, f2, a>> /\ tn.ser_osz = 30
  BY DEF IsGroupMap
<1>2. DOMAIN tn.kids = 1..3 /\ tn.kids[1] = f1 /\ tn.kids[2] = f2 /\ tn.kids[3] = a
  BY <1>1
<1>3. o \in Nat
  OBVIOUS
<1> HIDE DEF o
<1>4. KidOsz(f1) = 16 /\ KidOsz(f2) = 16 /\ KidOsz(a) = 4 + o
  BY DEF KidOsz, WordSize, o
<1>5. f[1] = 16 /\ f[2] = 16 /\ f[3] = 4 + o
  BY <1>2, <1>4
<1>6. SerOsz(tn) = 30 + SumFunctionOnSet(f, 1..3)
  BY <1>1, <1>2 DEF SerOsz
<1> HIDE DEF f
<1>7. SumFunctionOnSet(f, 1..3) = 16 + (16 + ((4 + o) + 0))
  <2> DEFINE S == 1..3
             T == S \ {1}
             U == T \ {2}
             V == U \ {3}
  <2>1. IsFiniteSet(S) /\ IsFiniteSet(T) /\ IsFiniteSet(U)
    <3>1. IsFiniteSet(S)
      <4>1. PICK n \in Nat : n = 3
        OBVIOUS
      <4>2. IsFiniteSet(1..n)
        BY FS_Interval
      <4> QED
        BY <4>1, <4>2
    <3>2. IsFiniteSet(T)
      BY <3>1, FS_RemoveElement
    <3>3. IsFiniteSet(U)
      BY <3>2, FS_RemoveElement
    <3> QED
      BY <3>1, <3>2, <3>3
  <2>2. 1 \in S /\ 2 \in T /\ 3 \in U /\ V = {} /\ T \subseteq S /\ U \subseteq S
    OBVIOUS
  <2>3. \A x \in S : f[x] \in Int
    BY <1>3, <1>5
  <2> HIDE DEF S
  <2>4. SumFunctionOnSet(f, S) = f[1] + SumFunctionOnSet(f, T)
    BY <2>1, <2>2, <2>3, SumRemove
  <2> HIDE DEF T
  <2>5. SumFunctionOnSet(f, T) = f[2] + SumFunctionOnSet(f, U)
    BY <2>1, <2>2, <2>3, SumRemove
  <2> HIDE DEF U
  <2>6. SumFunctionOnSet(f, U) = f[3] + SumFunctionOnSet(f, V)
    BY <2>1, <2>2, <2>3, SumRemove
  <2>7. SumFunctionOnSet(f, V) = 0
    BY <2>2, SumEmpty
  <2> QED
    BY <1>5, <2>4, <2>5, <2>6, <2>7 DEF S
<1>8. 30 + (16 + (16 + ((4 + o) + 0))) = 66 + o
  BY <1>3
<1> QED
  BY <1>6, <1>7, <1>8 DEF o

(* Three sequences, one behind the other.                                  *)
LEMMA FlattenThree ==
  ASSUME NEW x \in Seq(AllCells), NEW y \in Seq(AllCells), NEW z \in Seq(AllCells)
  PROVE  FlattenSeq(<<x, y, z>>) = (x \o y) \o z
<1> DEFINE ss == <<x, y, z>>
<1>1. Len(ss) = 3 /\ ss[1] = x /\ ss[2] = y /\ ss[3] = z
  OBVIOUS
<1> HIDE DEF ss
<1>2. PICK f : /\ f[1] = ss[1]
               /\ \A n \in 2..Len(ss) : f[n] = f[n - 1] \o ss[n]
               /\ FlattenSeq(ss) = f[Len(ss)]
  <2>1. Len(ss) \in Nat \ {0}
    BY <1>1
  <2> QED
    BY <2>1, FlattenIs
<1>3. 2 \in 2..Len(ss) /\ 3 \in 2..Len(ss) /\ 2 - 1 = 1 /\ 3 - 1 = 2
  BY <1>1
<1>4. f[2] = f[1] \o ss[2] /\ f[3] = f[2] \o ss[3]
  BY <1>2, <1>3
<1> QED
  BY <1>1, <1>2, <1>4 DEF ss

(* u is s, of m elements, and t, of n elements, behind it.                 *)
Joined(u, S, s, m, t, n) ==
  /\ u \in Seq(S) /\ Len(u) = m + n
  /\ \A i \in 1..m : u[i] = s[i]
  /\ \A i \in 1..n : u[m + i] = t[i]

(* The elements of a concatenation.                                        *)
LEMMA Concat ==
  ASSUME NEW S, NEW s \in Seq(S), NEW t \in Seq(S), NEW m \in Nat, NEW n \in Nat,
         Len(s) = m, Len(t) = n, NEW u, u = s \o t
  PROVE  Joined(u, S, s, m, t, n)
<1>1. /\ s \o t \in Seq(S) /\ Len(s \o t) = Len(s) + Len(t)
      /\ \A i \in 1..Len(s) + Len(t) : (s \o t)[i] = IF i <= Len(s) THEN s[i] ELSE t[i - Len(s)]
  BY ConcatProperties
<1>2. /\ u \in Seq(S) /\ Len(u) = m + n
      /\ \A i \in 1..m + n : u[i] = IF i <= m THEN s[i] ELSE t[i - m]
  BY <1>1
<1>3. ASSUME NEW i \in 1..m
      PROVE  u[i] = s[i]
  <2>1. i \in 1..m + n /\ i <= m
    OBVIOUS
  <2> QED
    BY <1>2, <2>1
<1>4. ASSUME NEW i \in 1..n
      PROVE  u[m + i] = t[i]
  <2>1. m + i \in 1..m + n /\ ~(m + i <= m) /\ (m + i) - m = i
    OBVIOUS
  <2> QED
    BY <1>2, <2>1
<1> QED
  BY <1>2, <1>3, <1>4 DEF Joined

(* The first six cells: magic, length, format and the lengths of fields.   *)
LEMMA HeaderIs ==
  ASSUME NEW tn, NEW f1, NEW f2, NEW a, NEW flags, IsGroupMap(tn, f1, f2, a, flags),
         NEW sz \in Nat, NEW h, h = Header(tn, sz)
  PROVE  /\ h \in Seq(AllCells) /\ Len(h) = 6
         /\ h[1] = Cell(4, Magic) /\ h[2] = Cell(4, sz) /\ h[3] = Cell(10, GroupFormat)
         /\ h[4] = Cell(4, 16) /\ h[5] = Cell(4, 16) /\ h[6] = Cell(4, 16)
<1> DEFINE p == <<Cell(4, Magic), Cell(4, sz), Cell(10, GroupFormat)>>
           q == [i \in DOMAIN tn.fxlens |-> Cell(WordSize, tn.fxlens[i])]
           c == Cell(4, 16)
<1>1. tn.fxlens = <<16, 16, 16>> /\ tn.fmt = GroupFormat
  BY DEF IsGroupMap
<1>2. Len(GroupFormat) + 1 = 10 /\ WordSize = 4
  BY DEF GroupFormat, WordSize
<1>3. h = p \o q
  BY <1>1, <1>2 DEF Header
<1>4. Cell(4, Magic) \in AllCells /\ Cell(4, sz) \in AllCells /\ Cell(10, GroupFormat) \in AllCells
      /\ c \in AllCells
  BY CellType
<1>5. /\ p \in Seq(AllCells) /\ Len(p) = 3
      /\ p[1] = Cell(4, Magic) /\ p[2] = Cell(4, sz) /\ p[3] = Cell(10, GroupFormat)
  BY <1>4
<1>6. q = [i \in 1..3 |-> c]
  <2>1. DOMAIN tn.fxlens = 1..3 /\ \A i \in 1..3 : tn.fxlens[i] = 16
    BY <1>1
  <2> QED
    BY <1>2, <2>1
<1> HIDE DEF p, q, c
<1>7. q \in Seq(AllCells) /\ Len(q) = 3 /\ q[1] = c /\ q[2] = c /\ q[3] = c
  <2>1. q \in [1..3 -> AllCells]
    BY <1>4, <1>6
  <2> QED
    BY <1>6, <2>1
<1>8. /\ h \in Seq(AllCells) /\ Len(h) = 3 + 3
      /\ \A i \in 1..3 : h[i] = p[i]
      /\ \A i \in 1..3 : h[3 + i] = q[i]
  <2>1. 3 \in Nat
    OBVIOUS
  <2>2. Joined(h, AllCells, p, 3, q, 3)
    BY <1>3, <1>5, <1>7, <2>1, Concat
  <2> QED
    BY <2>2 DEF Joined
<1>9. h[3 + 1] = c /\ h[3 + 2] = c /\ h[3 + 3] = c /\ h[1] = p[1] /\ h[2] = p[2] /\ h[3] = p[3]
  BY <1>7, <1>8
<1> QED
  BY <1>5, <1>8, <1>9 DEF c

(* What tpl_dump writes for the group list.                                *)
LEMMA DumpIs ==
  ASSUME NEW list \in Seq(Elements), list # <<>>,
         NEW tn, PackedTo(tn, list, Len(list)),
         NEW im, im = Dump(tn)
  PROVE  IsImage(im, list)
<1> DEFINE L == Len(list)
           sz == 66 + 16 * L
<1>1. L \in Nat \ {0}
  BY LenProperties, EmptySeq
<1> HIDE DEF L
<1>2. PICK f1, f2, f3, a, bb, d : PackedWith(tn, list, L, f1, f2, f3, a, bb, d)
  BY DEF PackedTo, L
<1>3. /\ IsGroupMap(tn, f1, f2, a, {"WRONLY"})
      /\ IsField(f1, 16, "uuid", Uuid) /\ IsField(f2, 16, "current_node_ip", Self)
      /\ IsArray(a, <<f3>>, 16, L, bb, 16 * L, 0)
      /\ Len(bb) = L
      /\ \A i \in 1..L : bb[i] = Datum(list[i])
  BY <1>2 DEF PackedWith
<1>4. f1.type = "c" /\ f1.num = 16 /\ f1.data = Uuid /\ f2.type = "c" /\ f2.num = 16 /\ f2.data = Self
  BY <1>3 DEF IsField
<1>5. a.type = "A" /\ a.num = L /\ a.ser_osz = 16 * L /\ a.bb = bb
  BY <1>3 DEF IsArray
<1>6. sz \in Nat
  BY <1>1
<1>7. SerOsz(tn) = sz
  <2>1. L \in Nat
    BY <1>1
  <2> QED
    BY <1>3, <1>4, <1>5, <2>1, SizeIs
<1>8. tn.kids = <<f1, f2, a>> /\ tn.flags = {"WRONLY"}
  BY <1>3 DEF IsGroupMap
<1>9. im.sz = sz /\ im.cells = DumpToMem(tn, sz)
  <2>1. "RDONLY" \notin tn.flags
    BY <1>8
  <2> HIDE DEF sz
  <2> QED
    BY <1>7, <2>1 DEF Dump, Dumped
<1> DEFINE h == Header(tn, sz)
           c1 == Cell(16, Uuid)
           c2 == Cell(16, Self)
           c3 == Cell(4, L)
           x == <<c1>>
           y == <<c2>>
           flat == FlattenSeq(bb)
           z == <<c3>> \o flat
           ss == [k \in DOMAIN tn.kids |->
                   IF tn.kids[k].type = "c" THEN <<Cell(tn.kids[k].num, tn.kids[k].data)>>
                                            ELSE DumpAtyp(tn.kids[k])]
           cells == im.cells
<1>10. cells = h \o FlattenSeq(ss)
  <2> HIDE DEF sz
  <2> QED
    BY <1>9 DEF DumpToMem
<1>11. ss = <<x, y, z>>
  <2>1. DOMAIN tn.kids = 1..3 /\ tn.kids[1] = f1 /\ tn.kids[2] = f2 /\ tn.kids[3] = a
    BY <1>8
  <2>2. DumpAtyp(a) = z
    BY <1>5 DEF DumpAtyp, WordSize
  <2> HIDE DEF z
  <2>3. ss = [k \in 1..3 |-> ss[k]]
    BY <2>1
  <2>4. ss[1] = x /\ ss[2] = y /\ ss[3] = z
    BY <1>4, <1>5, <2>1, <2>2
  <2> HIDE DEF ss, x, y
  <2> QED
    BY <2>3, <2>4, IsTriple
<1> HIDE DEF ss, h, sz
<1>12. Self \in Nat /\ Self \in Elements
  BY SelfIsElement, ElementsAreNat
<1>13. c1 \in AllCells /\ c2 \in AllCells /\ c3 \in AllCells
  BY <1>1, <1>12, CellType
<1>14. /\ flat \in Seq(AllCells) /\ Len(flat) = L
       /\ \A i \in 1..L : flat[i] = Cell(16, list[i])
  <2>1. Len(list) = L
    BY DEF L
  <2> QED
    BY <1>1, <1>3, <2>1, FlattenDatums
<1> HIDE DEF flat, c1, c2, c3
<1>15. /\ x \in Seq(AllCells) /\ Len(x) = 1 /\ x[1] = c1
       /\ y \in Seq(AllCells) /\ Len(y) = 1 /\ y[1] = c2
       /\ <<c3>> \in Seq(AllCells) /\ Len(<<c3>>) = 1 /\ <<c3>>[1] = c3
  BY <1>13
<1> HIDE DEF x, y
<1>16. /\ z \in Seq(AllCells) /\ Len(z) = 1 + L
       /\ \A i \in 1..1 : z[i] = <<c3>>[i]
       /\ \A i \in 1..L : z[1 + i] = flat[i]
  <2>1. 1 \in Nat /\ L \in Nat
    BY <1>1
  <2> DEFINE o == <<c3>>
  <2>2. o \in Seq(AllCells) /\ Len(o) = 1
    BY <1>15
  <2> HIDE DEF o
  <2> QED
    <3>1. Joined(z, AllCells, o, 1, flat, L)
      BY <1>14, <2>1, <2>2, Concat DEF o
    <3> HIDE DEF z
    <3> QED
      BY <3>1 DEF Joined, o
<1> HIDE DEF z
<1> DEFINE xy == x \o y
<1>17. /\ xy \in Seq(AllCells) /\ Len(xy) = 1 + 1
       /\ \A i \in 1..1 : xy[i] = x[i]
       /\ \A i \in 1..1 : xy[1 + i] = y[i]
  <2>1. 1 \in Nat
    OBVIOUS
  <2>2. Joined(xy, AllCells, x, 1, y, 1)
    BY <1>15, <2>1, Concat
  <2> HIDE DEF xy
  <2> QED
    BY <2>2 DEF Joined
<1> HIDE DEF xy
<1> DEFINE data == xy \o z
<1>18. /\ data \in Seq(AllCells) /\ Len(data) = 2 + (1 + L)
       /\ \A i \in 1..2 : data[i] = xy[i]
       /\ \A i \in 1..1 + L : data[2 + i] = z[i]
  <2>1. 2 \in Nat /\ 1 + L \in Nat /\ 1 + 1 = 2
    BY <1>1
  <2> QED
    <3>1. Len(xy) = 2 /\ Len(z) = 1 + L
      BY <1>16, <1>17, <2>1
    <3>2. Joined(data, AllCells, xy, 2, z, 1 + L)
      BY <1>16, <1>17, <2>1, <3>1, Concat
    <3> HIDE DEF data
    <3> QED
      BY <3>2 DEF Joined
<1>19. FlattenSeq(ss) = data
  BY <1>11, <1>15, <1>16, FlattenThree DEF xy
<1> HIDE DEF data
<1>20. /\ h \in Seq(AllCells) /\ Len(h) = 6
       /\ h[1] = Cell(4, Magic) /\ h[2] = Cell(4, sz) /\ h[3] = Cell(10, GroupFormat)
       /\ h[4] = Cell(4, 16) /\ h[5] = Cell(4, 16) /\ h[6] = Cell(4, 16)
  BY <1>3, <1>6, HeaderIs DEF h
<1>21. /\ cells \in Seq(AllCells) /\ Len(cells) = 6 + (2 + (1 + L))
       /\ \A i \in 1..6 : cells[i] = h[i]
       /\ \A i \in 1..2 + (1 + L) : cells[6 + i] = data[i]
  <2>1. 6 \in Nat /\ 2 + (1 + L) \in Nat
    BY <1>1
  <2> DEFINE r == h \o data
  <2>2. cells = r
    BY <1>10, <1>19
  <2>3. /\ r \in Seq(AllCells) /\ Len(r) = 6 + (2 + (1 + L))
        /\ \A i \in 1..6 : r[i] = h[i]
        /\ \A i \in 1..2 + (1 + L) : r[6 + i] = data[i]
    <3> DEFINE n == 2 + (1 + L)
    <3>1. n \in Nat /\ Len(data) = n
      BY <1>18, <2>1
    <3> HIDE DEF n
    <3>2. Joined(r, AllCells, h, 6, data, n)
      BY <1>18, <1>20, <2>1, <3>1, Concat
    <3> HIDE DEF r
    <3> QED
      BY <3>2 DEF Joined, n
  <2> HIDE DEF r, cells
  <2> QED
    BY <2>2, <2>3
<1> HIDE DEF cells
<1>22. Len(cells) = 9 + L /\ DOMAIN cells = 1..9 + L
  BY <1>1, <1>21
<1>23. /\ cells[1] = Cell(4, Magic) /\ cells[2] = Cell(4, sz) /\ cells[3] = Cell(10, GroupFormat)
       /\ cells[4] = Cell(4, 16) /\ cells[5] = Cell(4, 16) /\ cells[6] = Cell(4, 16)
  BY <1>20, <1>21
<1>24. cells[7] = c1 /\ cells[8] = c2 /\ cells[9] = c3
  <2>1. 1 \in 1..2 + (1 + L) /\ 2 \in 1..2 + (1 + L) /\ 3 \in 1..2 + (1 + L) /\ 6 + 1 = 7 /\ 6 + 2 = 8 /\ 6 + 3 = 9
        /\ 1 + 1 = 2 /\ 2 + 1 = 3 /\ 1 \in 1..1 + L
    BY <1>1
  <2>2. cells[7] = data[1] /\ cells[8] = data[2] /\ cells[9] = data[3]
    BY <1>21, <2>1
  <2>3. data[1] = xy[1] /\ data[2] = xy[2] /\ data[3] = z[1]
    BY <1>18, <2>1
  <2>4. xy[1] = x[1] /\ xy[2] = y[1] /\ z[1] = <<c3>>[1]
    BY <1>16, <1>17, <2>1
  <2> QED
    BY <1>15, <2>2, <2>3, <2>4
<1>25. ASSUME NEW i \in 1..L
       PROVE  cells[9 + i] = Cell(16, list[i])
  <2>1. /\ 2 + (1 + i) \in 1..2 + (1 + L) /\ 6 + (2 + (1 + i)) = 9 + i
        /\ 1 + i \in 1..1 + L
    BY <1>1
  <2>2. cells[9 + i] = data[2 + (1 + i)]
    BY <1>21, <2>1
  <2>3. data[2 + (1 + i)] = z[1 + i]
    BY <1>18, <2>1
  <2> QED
    BY <1>14, <1>16, <2>2, <2>3
<1>26. \A w, v : Cell(w, v).w = w /\ Cell(w, v).v = v
  BY DEF Cell
<1>27. Shaped(im, L)
  <2>1. /\ Len(cells) = 9 + L /\ DOMAIN cells = 1..9 + L
        /\ cells[1].w = 4 /\ cells[2].w = 4 /\ cells[3].w = 10
        /\ cells[4].w = 4 /\ cells[5].w = 4 /\ cells[6].w = 4
    BY <1>22, <1>23, <1>26
  <2>2. cells[7].w = 16 /\ cells[8].w = 16 /\ cells[9].w = 4
    BY <1>24, <1>26 DEF c1, c2, c3
  <2>3. \A i \in 1..L : cells[9 + i].w = 16
    BY <1>25, <1>26
  <2> QED
    BY <2>1, <2>2, <2>3 DEF Shaped, cells
<1>28. IsImage(im, list)
  <2>1. /\ cells[1].v = Magic /\ cells[2].v = sz /\ cells[3].v = GroupFormat
        /\ cells[4].v = 16 /\ cells[5].v = 16 /\ cells[6].v = 16
        /\ cells[7].v = Uuid /\ cells[8].v = Self /\ cells[9].v = L
        /\ \A i \in 1..L : cells[9 + i].v = list[i]
    BY <1>23, <1>24, <1>25, <1>26 DEF c1, c2, c3
  <2>2. im \in [rc : {0}, sz : Nat, cells : Seq(AllCells)]
    <3> DEFINE size == im.sz
    <3>1. size \in Nat
      BY <1>6, <1>9
    <3>2. im = [rc |-> 0, sz |-> size, cells |-> cells]
      <4>1. "RDONLY" \notin tn.flags
        BY <1>8
      <4> QED
        BY <4>1 DEF Dump, Dumped, cells
    <3> HIDE DEF size
    <3> QED
      BY <1>21, <3>1, <3>2
  <2> QED
    BY <1>9, <1>27, <2>1, <2>2 DEF IsImage, cells, sz, L
<1> QED
  BY <1>28

(* serialize_hash makes the image of the sorted group.                     *)
LEMMA SerializeIs ==
  ASSUME NEW h, NEW list, TableIs(h, list), list # <<>>,
         NEW im, im = SerializeHash(h)
  PROVE  IsImage(im, list)
<1> DEFINE mem == [uuid |-> Uuid, current_node_ip |-> Self, ipaddress |-> 0]
           mapped == GroupMap("uuid", "current_node_ip", "ipaddress")
           twice == PackRoot(PackRoot(mapped, mem), mem)
           tn == PackedUpTo(twice, mem, list)[Len(list)]
<1>1. AppOrder(h) = list /\ list \in Seq(Elements)
  BY TableWalk
<1>2. im = Dump(tn)
  BY <1>1 DEF SerializeHash
<1>3. PackedTo(tn, list, Len(list))
  BY <1>1, PackedGroup
<1> HIDE DEF tn
<1> QED
  BY <1>1, <1>2, <1>3, DumpIs

(* Where the cells end.                                                    *)
LEMMA OffsetIs ==
  ASSUME NEW im, NEW L \in Nat, Shaped(im, L)
  PROVE  /\ Offset(im, 3) = 18 /\ Offset(im, 6) = 30 /\ Offset(im, 7) = 46 /\ Offset(im, 8) = 62
         /\ \A n \in 0..L : Offset(im, 9 + n) = 66 + 16 * n
<1> DEFINE at == Offsets(im.cells)
           c == im.cells
           P == {n \in Nat : n <= L => at[9 + n] = 66 + 16 * n}
<1>1. Len(c) = 9 + L /\ Len(c) \in Nat
  BY DEF Shaped
<1>2. at[0] = 0 /\ \A n \in 1..9 + L : at[n] = at[n - 1] + c[n].w
  <2> HIDE DEF c
  <2>1. Offsets(c)[0] = 0 /\ \A n \in 1..Len(c) : Offsets(c)[n] = Offsets(c)[n - 1] + c[n].w
    BY <1>1, OffsetsAre
  <2> QED
    BY <1>1, <2>1 DEF c
<1>3. /\ c[1].w = 4 /\ c[2].w = 4 /\ c[3].w = 10
      /\ c[4].w = 4 /\ c[5].w = 4 /\ c[6].w = 4
      /\ c[7].w = 16 /\ c[8].w = 16 /\ c[9].w = 4
      /\ \A i \in 1..L : c[9 + i].w = 16
  BY DEF Shaped
<1> HIDE DEF at, c
<1>4. at[3] = 18 /\ at[6] = 30 /\ at[7] = 46 /\ at[8] = 62 /\ at[9] = 66
  <2>1. \A n \in 1..9 : at[n] = at[n - 1] + c[n].w
    BY <1>2
  <2>2. /\ at[1] = at[1 - 1] + c[1].w /\ at[2] = at[2 - 1] + c[2].w /\ at[3] = at[3 - 1] + c[3].w
        /\ at[4] = at[4 - 1] + c[4].w /\ at[5] = at[5 - 1] + c[5].w /\ at[6] = at[6 - 1] + c[6].w
        /\ at[7] = at[7 - 1] + c[7].w /\ at[8] = at[8 - 1] + c[8].w /\ at[9] = at[9 - 1] + c[9].w
    BY <2>1
  <2>3. /\ at[1] = 4 /\ at[2] = 8 /\ at[3] = 18
    BY <1>2, <1>3, <2>2
  <2>4. /\ at[4] = 22 /\ at[5] = 26 /\ at[6] = 30
    BY <1>3, <2>2, <2>3
  <2> QED
    BY <1>3, <2>2, <2>3, <2>4
<1>5. 0 \in P
  BY <1>4
<1>6. ASSUME NEW n \in P
      PROVE  n + 1 \in P
  <2>1. n \in Nat /\ n + 1 \in Nat /\ (n <= L => at[9 + n] = 66 + 16 * n)
    OBVIOUS
  <2>2. CASE n + 1 <= L
    <3>1. n <= L /\ 9 + (n + 1) \in 1..9 + L /\ (9 + (n + 1)) - 1 = 9 + n /\ n + 1 \in 1..L
      BY <2>1, <2>2
    <3>2. at[9 + (n + 1)] = at[9 + n] + 16
      BY <1>2, <1>3, <3>1
    <3>3. at[9 + (n + 1)] = 66 + 16 * (n + 1)
      BY <2>1, <3>1, <3>2
    <3> QED
      BY <2>1, <3>3
  <2>3. CASE ~(n + 1 <= L)
    BY <2>1, <2>3
  <2> QED
    BY <2>2, <2>3
<1>7. P = Nat
  <2> HIDE DEF P
  <2>1. P \in SUBSET Nat
    BY DEF P
  <2> QED
    BY <1>5, <1>6, <2>1, NaturalsByInduction
<1>8. ASSUME NEW n \in 0..L
      PROVE  at[9 + n] = 66 + 16 * n
  <2>1. n \in Nat /\ n <= L
    OBVIOUS
  <2>2. n \in P
    <3> HIDE DEF P
    <3> QED
      BY <1>7, <2>1
  <2> QED
    BY <2>1, <2>2
<1> QED
  BY <1>4, <1>8 DEF Offset, at, c

(* tpl_dump fills its buffer.                                              *)
LEMMA BytesOfImage ==
  ASSUME NEW list \in Seq(Elements), NEW im, IsImage(im, list)
  PROVE  Bytes(im.cells) = im.sz
<1>1. Len(list) \in Nat /\ Len(list) \in 0..Len(list)
  BY LenProperties
<1>2. Shaped(im, Len(list)) /\ im.sz = 66 + 16 * Len(list)
  BY DEF IsImage
<1>3. Offset(im, 9 + Len(list)) = 66 + 16 * Len(list)
  BY <1>1, <1>2, OffsetIs
<1> QED
  BY <1>2, <1>3 DEF Bytes, Offset, Shaped

------------------------------------------------------------------------------
(* tpl_load.                                                               *)

(* The states of Serlen.                                                   *)
Passing == [ok : BOOLEAN, dv : Nat]

(* r is what Serlen makes of st after n cells.                             *)
AtomsPassed(r, im, st, n) ==
  /\ r \in Passing
  /\ r.ok <=> st.ok /\ \A i \in 1..n : ~Past(im, st.dv + i)
  /\ r.ok => r.dv = st.dv + n

(* Reading n fields.                                                       *)
LEMMA SerlenAtomsIs ==
  ASSUME NEW im, NEW st \in Passing, NEW n \in Nat, NEW r, r = SerlenAtoms(im, st, n)
  PROVE  AtomsPassed(r, im, st, n)
<1> DEFINE fine == \A i \in 1..n : ~Past(im, st.dv + i)
<1>1. fine \in BOOLEAN
  OBVIOUS
<1> HIDE DEF fine
<1>2. r = IF st.ok /\ fine THEN [st EXCEPT !.dv = @ + n] ELSE [st EXCEPT !.ok = FALSE]
  BY DEF SerlenAtoms, fine
<1>3. r \in Passing /\ (r.ok <=> st.ok /\ fine) /\ (r.ok => r.dv = st.dv + n)
  <2>1. CASE st.ok /\ fine
    <3>1. r = [st EXCEPT !.dv = @ + n] /\ st.dv + n \in Nat
      BY <1>2, <2>1 DEF Passing
    <3> QED
      BY <2>1, <3>1 DEF Passing
  <2>2. CASE ~(st.ok /\ fine)
    <3>1. r = [st EXCEPT !.ok = FALSE]
      BY <1>2, <2>2
    <3> QED
      BY <2>2, <3>1 DEF Passing
  <2> QED
    BY <2>1, <2>2
<1> QED
  BY <1>3 DEF fine, AtomsPassed

(* A map of the group's format that can be used to read.                   *)
Readable(tn, f1, f2, a, flags) ==
  /\ IsGroupMap(tn, f1, f2, a, flags)
  /\ f1.type = "c" /\ f2.type = "c" /\ a.type = "A" /\ Len(a.kids) = 1

(* Where the data of an image ends when it has n elements.                 *)
LEMMA SerlenIs ==
  ASSUME NEW tn, NEW f1, NEW f2, NEW a, NEW flags, Readable(tn, f1, f2, a, flags),
         NEW im, NEW n \in Nat, im.cells[9].v = n,
         NEW at, at = Serlen(im, tn.kids, DataStart(tn))
  PROVE  /\ at[0].dv = 6
         /\ at[3].ok <=> /\ ~Past(im, 7) /\ ~Past(im, 8) /\ ~Past(im, 9)
                         /\ \A i \in 1..n : ~Past(im, 9 + i)
         /\ at[3].ok => at[1].dv = 7 /\ at[2].dv = 8 /\ at[3].dv = 9 + n
<1> DEFINE kids == tn.kids
           before == SerlenAtoms(im, at[2], 1)
<1>1. tn.kids = <<f1, f2, a>> /\ tn.fxlens = <<16, 16, 16>>
  BY DEF Readable, IsGroupMap
<1>2. Len(kids) = 3 /\ kids[1] = f1 /\ kids[2] = f2 /\ kids[3] = a
  BY <1>1
<1>3. DataStart(tn) = 6
  BY <1>1 DEF DataStart
<1> HIDE DEF kids
<1>4. /\ at[0] = [ok |-> TRUE, dv |-> 6]
      /\ \A m \in 1..Len(kids) : at[m] = SerlenKid(im, kids[m], at[m - 1])
  <2>1. Len(kids) \in Nat /\ at = Serlen(im, kids, 6)
    BY <1>2, <1>3 DEF kids
  <2> QED
    BY <2>1, SerlenAre
<1>5. at[1] = SerlenKid(im, f1, at[0]) /\ at[2] = SerlenKid(im, f2, at[1]) /\ at[3] = SerlenKid(im, a, at[2])
  <2>1. 1 \in 1..Len(kids) /\ 2 \in 1..Len(kids) /\ 3 \in 1..Len(kids) /\ 1 - 1 = 0 /\ 2 - 1 = 1 /\ 3 - 1 = 2
    BY <1>2
  <2> QED
    BY <1>2, <1>4, <2>1
<1>6. at[1] = SerlenAtoms(im, at[0], 1) /\ at[2] = SerlenAtoms(im, at[1], 1)
      /\ at[3] = SerlenElements(im, a, before)
  BY <1>5 DEF SerlenKid, Readable
<1>7. at[0] \in Passing /\ at[0].ok /\ at[0].dv = 6
  BY <1>4 DEF Passing
<1>8. \A d \in Nat, m \in {1} : (\A i \in 1..m : ~Past(im, d + i)) <=> ~Past(im, d + 1)
  OBVIOUS
<1>9. at[1] \in Passing /\ (at[1].ok <=> ~Past(im, 7)) /\ (at[1].ok => at[1].dv = 7)
  <2>1. /\ at[1] \in Passing
        /\ at[1].ok <=> at[0].ok /\ \A i \in 1..1 : ~Past(im, at[0].dv + i)
        /\ at[1].ok => at[1].dv = at[0].dv + 1
    <3>1. 1 \in Nat
      OBVIOUS
    <3>2. AtomsPassed(at[1], im, at[0], 1)
      BY <1>6, <1>7, <3>1, SerlenAtomsIs
    <3> QED
      BY <3>2 DEF AtomsPassed
  <2>2. 6 + 1 = 7 /\ 6 \in Nat
    OBVIOUS
  <2> QED
    BY <1>7, <1>8, <2>1, <2>2
<1>10. at[2] \in Passing /\ (at[2].ok <=> ~Past(im, 7) /\ ~Past(im, 8)) /\ (at[2].ok => at[2].dv = 8)
  <2>1. /\ at[2] \in Passing
        /\ at[2].ok <=> at[1].ok /\ \A i \in 1..1 : ~Past(im, at[1].dv + i)
        /\ at[2].ok => at[2].dv = at[1].dv + 1
    <3>1. 1 \in Nat
      OBVIOUS
    <3>2. AtomsPassed(at[2], im, at[1], 1)
      BY <1>6, <1>9, <3>1, SerlenAtomsIs
    <3> QED
      BY <3>2 DEF AtomsPassed
  <2>2. 7 + 1 = 8 /\ 7 \in Nat
    OBVIOUS
  <2> QED
    BY <1>8, <1>9, <2>1, <2>2
<1>11. /\ before \in Passing
       /\ before.ok <=> ~Past(im, 7) /\ ~Past(im, 8) /\ ~Past(im, 9)
       /\ before.ok => before.dv = 9
  <2>1. /\ before \in Passing
        /\ before.ok <=> at[2].ok /\ \A i \in 1..1 : ~Past(im, at[2].dv + i)
        /\ before.ok => before.dv = at[2].dv + 1
    <3>1. 1 \in Nat
      OBVIOUS
    <3>2. AtomsPassed(before, im, at[2], 1)
      BY <1>10, <3>1, SerlenAtomsIs
    <3> QED
      BY <3>2 DEF AtomsPassed
  <2>2. 8 + 1 = 9 /\ 8 \in Nat
    OBVIOUS
  <2> HIDE DEF before
  <2> QED
    BY <1>8, <1>10, <2>1, <2>2
<1> HIDE DEF before
<1>12. CASE before.ok
  <2>1. before.dv = 9 /\ n * 1 = n /\ Len(a.kids) = 1
    BY <1>11, <1>12 DEF Readable
  <2>2. at[3] = SerlenAtoms(im, before, n)
    BY <1>6, <1>12, <2>1 DEF SerlenElements
  <2>3. /\ at[3].ok <=> before.ok /\ \A i \in 1..n : ~Past(im, before.dv + i)
        /\ at[3].ok => at[3].dv = before.dv + n
    <3>1. 1 \in Nat
      OBVIOUS
    <3>2. AtomsPassed(at[3], im, before, n)
      BY <1>11, <2>2, <3>1, SerlenAtomsIs
    <3> QED
      BY <3>2 DEF AtomsPassed
  <2> QED
    BY <1>7, <1>9, <1>10, <1>11, <1>12, <2>1, <2>3
<1>13. CASE ~before.ok
  <2>1. at[3] = before
    BY <1>6, <1>13 DEF SerlenElements
  <2> QED
    BY <1>7, <1>11, <1>13, <2>1
<1> QED
  BY <1>12, <1>13

(* What tpl_sanity accepts, the data ending as Serlen says.                *)
Sane(tn, im, data) ==
  /\ ~(im.sz < WordSize + WordSize + 1)
  /\ im.cells[1].v = Magic
  /\ SizesAgree(im)
  /\ ~Past(im, 3)
  /\ im.cells[3].v = tn.fmt
  /\ ~Past(im, DataStart(tn))
  /\ \A i \in DOMAIN tn.fxlens : im.cells[3 + i].v = tn.fxlens[i]
  /\ data.ok
  /\ Offset(im, data.dv) = im.sz

(* The checks of tpl_sanity, one by one.                                   *)
LEMMA SanityIs ==
  ASSUME NEW tn, NEW im, NEW data, data = Serlen(im, tn.kids, DataStart(tn))[Len(tn.kids)]
  PROVE  Sanity(tn, im) = "ok" <=> Sane(tn, im, data)
  BY DEF Sanity, Sane

(* What tpl_load takes is consistent.                                      *)
LEMMA Accepted ==
  ASSUME NEW tn, NEW f1, NEW f2, NEW a, NEW flags, Readable(tn, f1, f2, a, flags),
         NEW L \in Nat, NEW im, Shaped(im, L), NEW n \in Nat, im.cells[9].v = n,
         Sanity(tn, im) = "ok"
  PROVE  /\ im.cells[2].v = im.sz
         /\ im.cells[4].v = 16 /\ im.cells[5].v = 16 /\ im.cells[6].v = 16
         /\ n <= L /\ im.sz = 66 + 16 * n
<1> DEFINE at == Serlen(im, tn.kids, DataStart(tn))
<1>1. Len(tn.kids) = 3 /\ tn.fxlens = <<16, 16, 16>>
  BY DEF Readable, IsGroupMap
<1>2. /\ at[3].ok => /\ \A i \in 1..n : ~Past(im, 9 + i)
                     /\ at[3].dv = 9 + n
  BY SerlenIs
<1>3. /\ SizesAgree(im)
      /\ \A i \in DOMAIN tn.fxlens : im.cells[3 + i].v = tn.fxlens[i]
      /\ at[3].ok /\ Offset(im, at[3].dv) = im.sz
  <2> DEFINE data == Serlen(im, tn.kids, DataStart(tn))[Len(tn.kids)]
  <2>1. data = at[3]
    BY <1>1
  <2> HIDE DEF data
  <2>2. Sane(tn, im, data)
    BY SanityIs DEF data
  <2> HIDE DEF at
  <2> QED
    BY <2>1, <2>2 DEF Sane
<1> HIDE DEF at
<1>4. im.cells[4].v = 16 /\ im.cells[5].v = 16 /\ im.cells[6].v = 16
  <2>1. 1 \in DOMAIN tn.fxlens /\ 2 \in DOMAIN tn.fxlens /\ 3 \in DOMAIN tn.fxlens
        /\ tn.fxlens[1] = 16 /\ tn.fxlens[2] = 16 /\ tn.fxlens[3] = 16
    BY <1>1
  <2>2. im.cells[3 + 1].v = 16 /\ im.cells[3 + 2].v = 16 /\ im.cells[3 + 3].v = 16
    BY <1>3, <2>1
  <2> QED
    BY <2>2
<1>5. n <= L
  <2>1. CASE n = 0
    BY <2>1
  <2>2. CASE n # 0
    <3>1. ~Past(im, 9 + n)
      BY <1>2, <1>3, <2>2
    <3>2. Len(im.cells) = 9 + L
      BY DEF Shaped
    <3>3. ~(9 + n > 9 + L)
      BY <3>1, <3>2 DEF Past
    <3> QED
      BY <3>3
  <2> QED
    BY <2>1, <2>2
<1>6. Offset(im, 9 + n) = 66 + 16 * n
  <2>1. n \in 0..L
    BY <1>5
  <2> QED
    BY <2>1, OffsetIs
<1> QED
  BY <1>2, <1>3, <1>4, <1>5, <1>6 DEF SizesAgree

(* tpl_load takes the image of a group, and finds where its parts begin.   *)
LEMMA ImageAccepted ==
  ASSUME NEW tn, NEW f1, NEW f2, NEW a, NEW flags, Readable(tn, f1, f2, a, flags),
         NEW list \in Seq(Elements), NEW im, IsImage(im, list),
         NEW at, at = Serlen(im, tn.kids, DataStart(tn))
  PROVE  /\ Sanity(tn, im) = "ok"
         /\ at[0].dv = 6 /\ at[1].dv = 7 /\ at[2].dv = 8
<1> DEFINE L == Len(list)
<1>1. L \in Nat /\ Shaped(im, L) /\ im.cells[9].v = L /\ im.sz = 66 + 16 * L
  BY LenProperties DEF IsImage
<1>2. /\ Offset(im, 3) = 18 /\ Offset(im, 6) = 30 /\ Offset(im, 7) = 46 /\ Offset(im, 8) = 62
      /\ \A n \in 0..L : Offset(im, 9 + n) = 66 + 16 * n
  BY <1>1, OffsetIs
<1>3. Len(im.cells) = 9 + L
  BY <1>1 DEF Shaped
<1> HIDE DEF L
<1>4. ~Past(im, 3) /\ ~Past(im, 6) /\ ~Past(im, 7) /\ ~Past(im, 8)
  BY <1>1, <1>2, <1>3 DEF Past
<1>5. ASSUME NEW n \in 0..L
      PROVE  ~Past(im, 9 + n)
  <2>1. n \in Nat /\ ~(9 + n > 9 + L) /\ ~(66 + 16 * n > 66 + 16 * L)
    BY <1>1
  <2> QED
    BY <1>1, <1>2, <1>3, <2>1 DEF Past
<1>6. ~Past(im, 9) /\ \A i \in 1..L : ~Past(im, 9 + i)
  <2>1. 0 \in 0..L /\ 9 + 0 = 9 /\ \A i \in 1..L : i \in 0..L
    BY <1>1
  <2>2. ~Past(im, 9 + 0)
    BY <1>5, <2>1
  <2> QED
    BY <1>5, <2>1, <2>2
<1>7. at[3].ok /\ at[0].dv = 6 /\ at[1].dv = 7 /\ at[2].dv = 8 /\ at[3].dv = 9 + L
  <2>1. /\ at[0].dv = 6
        /\ at[3].ok <=> /\ ~Past(im, 7) /\ ~Past(im, 8) /\ ~Past(im, 9)
                        /\ \A i \in 1..L : ~Past(im, 9 + i)
        /\ at[3].ok => at[1].dv = 7 /\ at[2].dv = 8 /\ at[3].dv = 9 + L
    BY <1>1, SerlenIs
  <2> QED
    BY <1>4, <1>6, <2>1
<1>8. Len(tn.kids) = 3 /\ tn.fxlens = <<16, 16, 16>> /\ tn.fmt = GroupFormat
  BY DEF Readable, IsGroupMap
<1>9. DataStart(tn) = 6 /\ WordSize + WordSize + 1 = 9
  BY <1>8 DEF DataStart, WordSize
<1>10. /\ im.cells[1].v = Magic /\ im.cells[2].v = im.sz /\ im.cells[3].v = GroupFormat
       /\ im.cells[4].v = 16 /\ im.cells[5].v = 16 /\ im.cells[6].v = 16
  BY DEF IsImage
<1>11. \A i \in DOMAIN tn.fxlens : im.cells[3 + i].v = tn.fxlens[i]
  <2>1. DOMAIN tn.fxlens = 1..3
        /\ tn.fxlens[1] = 16 /\ tn.fxlens[2] = 16 /\ tn.fxlens[3] = 16
    BY <1>8
  <2>2. im.cells[3 + 1].v = 16 /\ im.cells[3 + 2].v = 16 /\ im.cells[3 + 3].v = 16
    BY <1>10
  <2>3. \A i \in 1..3 : i = 1 \/ i = 2 \/ i = 3
    OBVIOUS
  <2> QED
    BY <2>1, <2>2, <2>3
<1>12. Offset(im, at[3].dv) = im.sz
  <2>1. L \in 0..L
    BY <1>1
  <2> QED
    BY <1>1, <1>2, <1>7, <2>1
<1>13. ~(im.sz < 9)
  BY <1>1
<1>14. Sanity(tn, im) = "ok"
  <2> DEFINE data == Serlen(im, tn.kids, DataStart(tn))[Len(tn.kids)]
  <2>1. data = at[3]
    BY <1>8
  <2>2. Sanity(tn, im) = "ok" <=> Sane(tn, im, data)
    BY SanityIs
  <2> HIDE DEF data
  <2>3. Sane(tn, im, data)
    BY <1>4, <1>7, <1>8, <1>9, <1>10, <1>11, <1>12, <1>13, <2>1 DEF SizesAgree, Sane
  <2> QED
    BY <2>2, <2>3
<1> QED
  BY <1>7, <1>14

(* The receiver's map can be used to read.                                 *)
LEMMA ReadableIs ==
  ASSUME NEW tn, tn = GroupMap("uuid", "sender_ip", "temp")
  PROVE  \E f1, f2, f3, a :
           /\ Readable(tn, f1, f2, a, {})
           /\ IsField(f1, 16, "uuid", 0) /\ IsField(f2, 16, "sender_ip", 0)
           /\ IsField(f3, 16, "temp", 0)
           /\ IsArray(a, <<f3>>, 16, 0, <<>>, 0, 0)
<1> DEFINE u == "uuid"
           ip == "sender_ip"
           el == "temp"
           none == {}
<1>1. tn = GroupMap(u, ip, el)
  OBVIOUS
<1> HIDE DEF u, ip, el
<1>2. PICK f1, f2, f3, a :
           /\ IsGroupMap(tn, f1, f2, a, none)
           /\ IsField(f1, 16, u, 0) /\ IsField(f2, 16, ip, 0) /\ IsField(f3, 16, el, 0)
           /\ IsArray(a, <<f3>>, 16, 0, <<>>, 0, 0)
  BY <1>1, GroupMapIs
<1>3. f1.type = "c" /\ f2.type = "c" /\ a.type = "A" /\ a.kids = <<f3>>
  BY <1>2 DEF IsField, IsArray
<1>4. Len(a.kids) = 1
  BY <1>3
<1> HIDE DEF none
<1>5. Readable(tn, f1, f2, a, none)
  BY <1>2, <1>3, <1>4 DEF Readable
<1> QED
  BY <1>2, <1>5 DEF u, ip, el, none

------------------------------------------------------------------------------
(* Damaged images.                                                         *)

(* What the receiver takes is consistent.                                  *)
LEMMA TakenIsConsistent ==
  ASSUME NEW L \in Nat, NEW im, Shaped(im, L), NEW n \in Nat, im.cells[9].v = n,
         DeserializeHash(im).rc # -1
  PROVE  /\ im.cells[2].v = im.sz
         /\ im.cells[4].v = 16 /\ im.cells[5].v = 16 /\ im.cells[6].v = 16
         /\ n <= L /\ im.sz = 66 + 16 * n
<1> DEFINE tn == GroupMap("uuid", "sender_ip", "temp")
<1>1. Sanity(tn, im) = "ok"
  BY DEF DeserializeHash, Load
<1> DEFINE none == {}
<1>2. PICK f1, f2, f3, a : Readable(tn, f1, f2, a, none)
  BY ReadableIs
<1> HIDE DEF tn, none
<1> QED
  BY <1>1, <1>2, Accepted

(* One word of the cells replaced.                                         *)
WithWord(c, i, w) == [c EXCEPT ![i].v = w]

(* x differs from im in the i-th word.                                     *)
Replaced(x, im, L, i, w) ==
  /\ Shaped(x, L) /\ x.cells[i].v = w
  /\ \A j \in 1..9 + L : j # i => x.cells[j] = im.cells[j]

(* The widths and the other cells stay as they are.                        *)
LEMMA WordReplaced ==
  ASSUME NEW list \in Seq(Elements), NEW im, IsImage(im, list),
         NEW i \in 1..9 + Len(list), NEW w, NEW x, x.cells = WithWord(im.cells, i, w)
  PROVE  Replaced(x, im, Len(list), i, w)
<1> DEFINE L == Len(list)
           c == im.cells
           d == x.cells
           W == [c[i] EXCEPT !.v = w]
           S == AllCells \cup {W}
<1>1. L \in Nat /\ Shaped(im, L) /\ c \in Seq(AllCells)
  BY LenProperties DEF IsImage
<1>2. DOMAIN c = 1..9 + L /\ Len(c) = 9 + L
  BY <1>1 DEF Shaped
<1> HIDE DEF L, c
<1>3. c[i] \in AllCells /\ c \in [1..9 + L -> AllCells] /\ i \in 1..9 + L
  BY <1>1, <1>2 DEF L
<1>4. W.v = w /\ W.w = c[i].w
  BY <1>3 DEF AllCells
<1>5. d = [c EXCEPT ![i] = W]
  BY DEF c, WithWord
<1> HIDE DEF W, d
<1>6. d \in [1..9 + L -> S] /\ d[i] = W /\ \A j \in 1..9 + L : j # i => d[j] = c[j]
  BY <1>3, <1>5
<1> HIDE DEF S
<1>7. 9 + L \in Nat
  BY <1>1
<1>8. Len(d) = 9 + L /\ DOMAIN d = 1..9 + L
  BY <1>6, <1>7, FunctionIsSeq
<1>9. \A j \in 1..9 + L : d[j].w = c[j].w
  BY <1>4, <1>6
<1>10. \A j \in 1..L : 9 + j \in 1..9 + L
  BY <1>1
<1>11. 1 \in 1..9 + L /\ 2 \in 1..9 + L /\ 3 \in 1..9 + L /\ 4 \in 1..9 + L /\ 5 \in 1..9 + L
       /\ 6 \in 1..9 + L /\ 7 \in 1..9 + L /\ 8 \in 1..9 + L /\ 9 \in 1..9 + L
  BY <1>1
<1>12. Shaped(x, L)
  BY <1>1, <1>8, <1>9, <1>10, <1>11 DEF Shaped, d, c
<1> QED
  BY <1>4, <1>6, <1>12 DEF L, c, d, Replaced

(* No damaged image of a group is taken.                                   *)
LEMMA DamagedImage ==
  ASSUME NEW list \in Seq(Elements), list # <<>>, NEW im, IsImage(im, list)
  PROVE  /\ \A n \in Cuts(im) :
              /\ DeserializeHash(Cut(im, n)).rc = -1
              /\ DeserializeHash(CutAndRelabelled(im, n)).rc = -1
         /\ \A i \in {2, 4, 5, 6, 9} :
              LET v == im.cells[i].v
              IN \A w \in {0, v - 1, v + 1} \ {v} :
                   DeserializeHash(Altered(im, i, w)).rc = -1
<1> DEFINE L == Len(list)
<1>1. /\ L \in Nat \ {0} /\ Shaped(im, L) /\ im.sz = 66 + 16 * L
      /\ im \in [rc : {0}, sz : Nat, cells : Seq(AllCells)]
      /\ im.cells[2].v = im.sz /\ im.cells[4].v = 16 /\ im.cells[5].v = 16
      /\ im.cells[6].v = 16 /\ im.cells[9].v = L
  BY LenProperties, EmptySeq DEF IsImage
<1>2. 2 \in 1..9 + L /\ 4 \in 1..9 + L /\ 5 \in 1..9 + L /\ 6 \in 1..9 + L /\ 9 \in 1..9 + L
  BY <1>1
<1>3. ASSUME NEW n \in Cuts(im)
      PROVE  DeserializeHash(Cut(im, n)).rc = -1
  <2> DEFINE x == Cut(im, n)
  <2>1. n # im.sz
    BY DEF Cuts
  <2>2. x.sz = n /\ x.cells = im.cells
    BY <1>1 DEF Cut
  <2> HIDE DEF x, L
  <2>3. Shaped(x, L) /\ x.cells[9].v = L /\ x.cells[2].v # x.sz
    BY <1>1, <2>1, <2>2 DEF Shaped
  <2>4. L \in Nat
    BY <1>1
  <2>5. DeserializeHash(x).rc = -1
    BY <2>3, <2>4, TakenIsConsistent
  <2> QED
    BY <2>5 DEF x
<1>4. ASSUME NEW n \in Cuts(im)
      PROVE  DeserializeHash(CutAndRelabelled(im, n)).rc = -1
  <2> DEFINE x == CutAndRelabelled(im, n)
  <2>1. n # im.sz
    BY DEF Cuts
  <2>2. x.sz = n /\ x.cells = WithWord(im.cells, 2, n)
    BY <1>1 DEF CutAndRelabelled, WithWord
  <2> HIDE DEF x
  <2>3. /\ Shaped(x, L)
        /\ \A j \in 1..9 + L : j # 2 => x.cells[j] = im.cells[j]
    <3>1. Replaced(x, im, L, 2, n)
      BY <1>2, <2>2, WordReplaced
    <3> HIDE DEF L
    <3> QED
      BY <3>1 DEF Replaced
  <2> HIDE DEF L
  <2>4. x.cells[9].v = L /\ L \in Nat
    BY <1>1, <1>2, <2>3
  <2>5. DeserializeHash(x).rc # -1 => x.sz = 66 + 16 * L
    BY <2>3, <2>4, TakenIsConsistent
  <2>6. DeserializeHash(x).rc = -1
    BY <1>1, <2>1, <2>2, <2>5
  <2> QED
    BY <2>6 DEF x
<1>5. ASSUME NEW i \in {2, 4, 5, 6, 9}, NEW w, w # im.cells[i].v, i = 9 => w \in Nat
      PROVE  DeserializeHash(Altered(im, i, w)).rc = -1
  <2> DEFINE x == Altered(im, i, w)
  <2>1. x.sz = im.sz /\ x.cells = WithWord(im.cells, i, w)
    BY <1>1 DEF Altered, WithWord
  <2>2. i \in 1..9 + L
    BY <1>2
  <2> HIDE DEF x
  <2>3. /\ Shaped(x, L) /\ x.cells[i].v = w
        /\ \A j \in 1..9 + L : j # i => x.cells[j] = im.cells[j]
    <3>1. Replaced(x, im, L, i, w)
      BY <2>1, <2>2, WordReplaced
    <3> HIDE DEF L
    <3> QED
      BY <3>1 DEF Replaced
  <2> HIDE DEF L
  <2>4. CASE i = 9
    <3>1. w \in Nat /\ x.cells[9].v = w /\ w # L /\ L \in Nat
      BY <1>1, <1>5, <2>3, <2>4
    <3>2. DeserializeHash(x).rc # -1 => x.sz = 66 + 16 * w
      BY <2>3, <3>1, TakenIsConsistent
    <3>3. 66 + 16 * w # 66 + 16 * L
      BY <3>1
    <3>4. DeserializeHash(x).rc = -1
      BY <1>1, <2>1, <3>2, <3>3
    <3> QED
      BY <3>4 DEF x
  <2>5. CASE i # 9
    <3>1. x.cells[9].v = L /\ L \in Nat
      BY <1>1, <1>2, <2>3, <2>5
    <3>2. DeserializeHash(x).rc # -1 =>
            /\ x.cells[2].v = x.sz
            /\ x.cells[4].v = 16 /\ x.cells[5].v = 16 /\ x.cells[6].v = 16
      BY <2>3, <3>1, TakenIsConsistent
    <3>3. i = 2 \/ i = 4 \/ i = 5 \/ i = 6
      BY <2>5
    <3>4. DeserializeHash(x).rc = -1
      BY <1>1, <1>5, <2>1, <2>3, <3>2, <3>3
    <3> QED
      BY <3>4 DEF x
  <2> QED
    BY <2>4, <2>5
<1>6. ASSUME NEW i \in {2, 4, 5, 6, 9}, NEW v, v = im.cells[i].v, NEW w \in {0, v - 1, v + 1} \ {v}
      PROVE  DeserializeHash(Altered(im, i, w)).rc = -1
  <2>1. i = 9 => v \in Nat \ {0}
    BY <1>1, <1>6
  <2>2. w # im.cells[i].v /\ (i = 9 => w \in Nat)
    BY <1>6, <2>1
  <2> QED
    BY <1>5, <2>2
<1> QED
  BY <1>3, <1>4, <1>6

------------------------------------------------------------------------------
(* tpl_unpack.                                                             *)

(* tpl_load and tpl_unpack of the root ready the array for reading.        *)
LEMMA RewoundIs ==
  ASSUME NEW tn, NEW f1, NEW f2, NEW a, NEW flags, Readable(tn, f1, f2, a, flags),
         NEW kids, NEW sz, NEW num, NEW bb, NEW osz, NEW cur,
         IsArray(a, kids, sz, num, bb, osz, cur),
         NEW list \in Seq(Elements), NEW im, IsImage(im, list),
         NEW g, g = Rewound(tn, im)
  PROVE  \E a2 : /\ Readable(g, f1, f2, a2, flags)
                 /\ IsArray(a2, kids, sz, Len(list), bb, osz, 9)
<1> DEFINE at == Serlen(im, tn.kids, DataStart(tn))
           L == Len(list)
           a2 == [a EXCEPT !.num = L, !.cur = 9]
           k == <<f1, f2, a>>
           t == <<f1, f2, a2>>
           Ready(c, i) == [c EXCEPT !.num = im.cells[KidStart(tn, im, i) + 1].v,
                                    !.cur = KidStart(tn, im, i) + 1]
           p == [i \in DOMAIN k |-> IF k[i].type = "c" THEN k[i] ELSE Ready(k[i], i)]
<1>1. /\ IsGroupMap(tn, f1, f2, a, flags) /\ tn.kids = k
      /\ f1.type = "c" /\ f2.type = "c" /\ a.type = "A" /\ Len(a.kids) = 1
  BY DEF Readable, IsGroupMap
<1>2. at[2].dv = 8
  BY ImageAccepted
<1>3. KidStart(tn, im, 3) = 8
  <2>1. 3 - 1 = 2
    OBVIOUS
  <2> QED
    BY <1>2, <2>1 DEF KidStart
<1>4. im.cells[9].v = L
  BY DEF IsImage
<1> HIDE DEF at
<1>5. DOMAIN k = 1..3 /\ k[1] = f1 /\ k[2] = f2 /\ k[3] = a
  OBVIOUS
<1>6. g = [tn EXCEPT !.kids = p]
  BY <1>1 DEF Rewound
<1>7. Ready(a, 3) = a2
  <2>1. 8 + 1 = 9
    OBVIOUS
  <2> QED
    BY <1>3, <1>4, <2>1
<1> HIDE DEF Ready, a2, k
<1>8. p = [i \in 1..3 |-> p[i]] /\ p[1] = f1 /\ p[2] = f2 /\ p[3] = a2
  BY <1>1, <1>5, <1>7
<1> HIDE DEF p
<1>9. p = t
  BY <1>8, IsTriple
<1> HIDE DEF t
<1>10. IsGroupMap(g, f1, f2, a2, flags)
  <2> DEFINE F == GroupFormat
             x == <<16, 16, 16>>
  <2>1. tn \in [ok : {TRUE}, fmt : {F}, fxlens : {x}, ser_osz : {30}, kids : {k}, flags : {flags}]
    BY <1>1 DEF IsGroupMap, k
  <2> HIDE DEF F, x
  <2>2. g \in [ok : {TRUE}, fmt : {F}, fxlens : {x}, ser_osz : {30}, kids : {t}, flags : {flags}]
    BY <1>6, <1>9, <2>1
  <2> QED
    BY <2>2 DEF F, x, t, IsGroupMap
<1>11. IsArray(a2, kids, sz, L, bb, osz, 9) /\ a2.type = "A" /\ a2.kids = a.kids
  BY DEF IsArray, a2
<1>12. Readable(g, f1, f2, a2, flags)
  BY <1>1, <1>10, <1>11 DEF Readable
<1> QED
  BY <1>11, <1>12

(* tpl_unpack of the root stores the two fields.                           *)
LEMMA UnpackRootIs ==
  ASSUME NEW tn, NEW f1, NEW f2, NEW a, NEW flags, Readable(tn, f1, f2, a, flags),
         f1.addr = "uuid", f2.addr = "sender_ip",
         NEW list \in Seq(Elements), NEW im, IsImage(im, list),
         NEW mem, DOMAIN mem = {"uuid", "sender_ip", "temp"},
         NEW u, u = UnpackRoot(tn, im, mem)
  PROVE  /\ u.tn = Rewound(tn, im)
         /\ DOMAIN u.mem = {"uuid", "sender_ip", "temp"}
         /\ u.mem["uuid"] = Uuid /\ u.mem["sender_ip"] = Self
<1> DEFINE at == Serlen(im, tn.kids, DataStart(tn))
           c == [k \in DOMAIN tn.kids |-> im.cells[KidStart(tn, im, k) + 1]]
           Is(j, x) == tn.kids[j].type = "c" /\ tn.kids[j].addr = x
<1>1. /\ tn.kids = <<f1, f2, a>>
      /\ f1.type = "c" /\ f2.type = "c" /\ a.type = "A"
  BY DEF Readable, IsGroupMap
<1>2. DOMAIN tn.kids = 1..3 /\ tn.kids[1] = f1 /\ tn.kids[2] = f2 /\ tn.kids[3] = a
  BY <1>1
<1>3. at[0].dv = 6 /\ at[1].dv = 7
  BY ImageAccepted
<1>4. KidStart(tn, im, 1) = 6 /\ KidStart(tn, im, 2) = 7
  <2>1. 1 - 1 = 0 /\ 2 - 1 = 1
    OBVIOUS
  <2> QED
    BY <1>3, <2>1 DEF KidStart
<1>5. im.cells[7].v = Uuid /\ im.cells[8].v = Self
  BY DEF IsImage
<1>6. c[1].v = Uuid /\ c[2].v = Self
  <2>1. 6 + 1 = 7 /\ 7 + 1 = 8 /\ 1 \in 1..3 /\ 2 \in 1..3
    OBVIOUS
  <2> QED
    BY <1>2, <1>4, <1>5, <2>1
<1>7. u.tn = Rewound(tn, im) /\ u.mem = Stored(mem, tn.kids, c)
  BY DEF UnpackRoot
<1> HIDE DEF at, c
<1>8. /\ Is(1, "uuid") /\ \A j \in 1..3 : Is(j, "uuid") => j = 1
      /\ Is(2, "sender_ip") /\ \A j \in 1..3 : Is(j, "sender_ip") => j = 2
  <2>1. \A j \in 1..3 : j = 1 \/ j = 2 \/ j = 3
    OBVIOUS
  <2>2. "uuid" # "sender_ip" /\ "c" # "A"
    OBVIOUS
  <2> QED
    BY <1>1, <1>2, <2>1, <2>2
<1>9. u.mem = [x \in DOMAIN mem |->
                IF \E j \in 1..3 : Is(j, x) THEN c[CHOOSE j \in 1..3 : Is(j, x)].v ELSE mem[x]]
  BY <1>2, <1>7 DEF Stored
<1> HIDE DEF Is
<1>10. (CHOOSE j \in 1..3 : Is(j, "uuid")) = 1 /\ (CHOOSE j \in 1..3 : Is(j, "sender_ip")) = 2
  BY <1>8
<1>11. 1 \in 1..3 /\ 2 \in 1..3
  OBVIOUS
<1>12. u.mem["uuid"] = Uuid /\ u.mem["sender_ip"] = Self /\ DOMAIN u.mem = DOMAIN mem
  BY <1>6, <1>8, <1>9, <1>10, <1>11
<1> QED
  BY <1>7, <1>12

(* tpl_unpack of A(1), while elements remain: the next one.                *)
LEMMA UnpackAIs ==
  ASSUME NEW tn, NEW f1, NEW f2, NEW a, NEW flags, Readable(tn, f1, f2, a, flags),
         NEW f3, IsField(f3, 16, "temp", 0),
         NEW sz, NEW num \in Nat \ {0}, NEW bb, NEW osz, NEW cur \in Nat,
         IsArray(a, <<f3>>, sz, num, bb, osz, cur),
         NEW im, im.cells \in Seq(AllCells), cur + 1 \in 1..Len(im.cells),
         NEW mem, "temp" \in DOMAIN mem,
         NEW u, u = UnpackA(tn, 1, im, mem)
  PROVE  /\ u.rc = num
         /\ u.mem["temp"] = im.cells[cur + 1].v /\ DOMAIN u.mem = DOMAIN mem
         /\ \E a2 : /\ Readable(u.tn, f1, f2, a2, flags)
                    /\ IsArray(a2, <<f3>>, sz, num - 1, bb, osz, cur + 1)
<1> DEFINE rest == [tn.kids[3] EXCEPT !.num = @ - 1, !.cur = @ + Len(tn.kids[3].kids)]
           a2 == [a EXCEPT !.num = num - 1, !.cur = cur + 1]
           s == SubSeq(im.cells, cur + 1, cur + 1)
           k == <<f1, f2, a>>
           t == <<f1, f2, a2>>
<1>1. /\ IsGroupMap(tn, f1, f2, a, flags) /\ tn.kids = k /\ tn.kids[3] = a
      /\ f1.type = "c" /\ f2.type = "c" /\ a.type = "A"
  <2>1. /\ IsGroupMap(tn, f1, f2, a, flags) /\ tn.kids = k
        /\ f1.type = "c" /\ f2.type = "c" /\ a.type = "A"
    BY DEF Readable, IsGroupMap
  <2>2. k[3] = a
    OBVIOUS
  <2> HIDE DEF k
  <2> QED
    BY <2>1, <2>2
<1>2. a.kids = <<f3>> /\ a.num = num /\ a.cur = cur /\ Len(a.kids) = 1
  BY DEF IsArray
<1>3. FindA(tn, 1) = 3
  BY <1>1, FindTheArray
<1>4. rest = a2
  BY <1>1, <1>2
<1>5. ~(num <= 0)
  OBVIOUS
<1>6. u = [rc |-> num, tn |-> [tn EXCEPT !.kids[3] = rest], mem |-> Stored(mem, a.kids, s)]
  BY <1>1, <1>2, <1>3, <1>5 DEF UnpackA
<1> HIDE DEF rest, s
<1>7. u.rc = num /\ u.tn = [tn EXCEPT !.kids[3] = a2] /\ u.mem = Stored(mem, <<f3>>, s)
  <2> HIDE DEF a2
  <2>1. u.rc = num /\ u.tn = [tn EXCEPT !.kids[3] = rest] /\ u.mem = Stored(mem, a.kids, s)
    BY <1>6
  <2> QED
    BY <1>2, <1>4, <2>1
<1>8. s[1] = im.cells[cur + 1]
  <2> DEFINE c == cur + 1
  <2>1. c \in 1..Len(im.cells) /\ c \in Int /\ 1 \in 1..(c - c + 1)
    OBVIOUS
  <2>2. c + 1 - 1 = c
    BY <2>1
  <2> HIDE DEF c
  <2>3. SubSeq(im.cells, c, c)[1] = im.cells[c + 1 - 1]
    BY <2>1, SubSeqProperties
  <2> QED
    BY <2>2, <2>3 DEF s, c
<1>9. u.mem["temp"] = im.cells[cur + 1].v /\ DOMAIN u.mem = DOMAIN mem
  <2> DEFINE at == <<f3>>
             Is(j, x) == at[j].type = "c" /\ at[j].addr = x
  <2>1. f3.type = "c" /\ f3.addr = "temp"
    BY DEF IsField
  <2>2. DOMAIN at = 1..1 /\ at[1] = f3
    OBVIOUS
  <2>3. u.mem = Stored(mem, at, s)
    BY <1>7
  <2> HIDE DEF at
  <2>4. /\ Is(1, "temp") /\ 1 \in 1..1 /\ \A j \in 1..1 : j = 1
        /\ u.mem = [x \in DOMAIN mem |->
                      IF \E j \in 1..1 : Is(j, x) THEN s[CHOOSE j \in 1..1 : Is(j, x)].v ELSE mem[x]]
    <3>1. Is(1, "temp") /\ 1 \in 1..1 /\ \A j \in 1..1 : j = 1
      BY <2>1, <2>2
    <3>2. u.mem = [x \in DOMAIN mem |->
                    IF \E j \in 1..1 : Is(j, x) THEN s[CHOOSE j \in 1..1 : Is(j, x)].v ELSE mem[x]]
      BY <2>2, <2>3 DEF Stored
    <3> QED
      BY <3>1, <3>2
  <2> HIDE DEF Is
  <2>5. (CHOOSE j \in 1..1 : Is(j, "temp")) = 1
    BY <2>4
  <2> QED
    BY <1>8, <2>4, <2>5
<1>10. IsArray(a2, <<f3>>, sz, num - 1, bb, osz, cur + 1)
  BY DEF IsArray
<1>11. a2.type = "A" /\ Len(a2.kids) = 1
  BY <1>10 DEF IsArray
<1> HIDE DEF a2
<1>12. [k EXCEPT ![3] = a2] = t
  OBVIOUS
<1> HIDE DEF k, t
<1>13. u.tn = [tn EXCEPT !.kids = t]
  BY <1>1, <1>7, <1>12
<1>14. IsGroupMap(u.tn, f1, f2, a2, flags)
  <2> DEFINE F == GroupFormat
             x == <<16, 16, 16>>
             g == u.tn
  <2>1. tn \in [ok : {TRUE}, fmt : {F}, fxlens : {x}, ser_osz : {30}, kids : {k}, flags : {flags}]
    BY <1>1 DEF IsGroupMap, k
  <2>2. g = [tn EXCEPT !.kids = t]
    BY <1>13
  <2> HIDE DEF F, x, g
  <2>3. g \in [ok : {TRUE}, fmt : {F}, fxlens : {x}, ser_osz : {30}, kids : {t}, flags : {flags}]
    BY <2>1, <2>2
  <2> QED
    BY <2>3 DEF F, x, t, g, IsGroupMap
<1>15. Readable(u.tn, f1, f2, a2, flags)
  BY <1>1, <1>11, <1>14 DEF Readable
<1> QED
  BY <1>7, <1>9, <1>10, <1>15

(* Once no element remains, nothing is read.                               *)
LEMMA UnpackANone ==
  ASSUME NEW tn, NEW f1, NEW f2, NEW a, NEW flags, Readable(tn, f1, f2, a, flags),
         NEW f3, NEW sz, NEW bb, NEW osz, NEW cur,
         IsArray(a, <<f3>>, sz, 0, bb, osz, cur),
         NEW im, NEW mem, NEW u, u = UnpackA(tn, 1, im, mem)
  PROVE  u.rc = 0
<1> DEFINE k == <<f1, f2, a>>
<1>1. /\ IsGroupMap(tn, f1, f2, a, flags) /\ tn.kids[3] = a
      /\ f1.type = "c" /\ f2.type = "c" /\ a.type = "A"
  <2>1. /\ IsGroupMap(tn, f1, f2, a, flags) /\ tn.kids = k
        /\ f1.type = "c" /\ f2.type = "c" /\ a.type = "A"
    BY DEF Readable, IsGroupMap
  <2>2. k[3] = a
    OBVIOUS
  <2> HIDE DEF k
  <2> QED
    BY <2>1, <2>2
<1>2. a.num = 0 /\ 0 <= 0
  BY DEF IsArray
<1>3. FindA(tn, 1) = 3
  BY <1>1, FindTheArray
<1> QED
  BY <1>1, <1>2, <1>3 DEF UnpackA

(* A reader that has taken the first n elements of list.                   *)
UnpackedWith(st, list, n, f1, f2, f3, a, bb, osz) ==
  /\ Readable(st.tn, f1, f2, a, {"RDONLY"})
  /\ IsField(f3, 16, "temp", 0)
  /\ IsArray(a, <<f3>>, 16, Len(list) - n, bb, osz, 9 + n)
  /\ "temp" \in DOMAIN st.mem
  /\ st.result \in Seq(Elements) /\ Len(st.result) = n
  /\ \A i \in 1..n : st.result[i] = list[n + 1 - i]

(* The same, of some nodes.                                                *)
UnpackedTo(st, list, n) ==
  \E f1, f2, f3, a, bb, osz : UnpackedWith(st, list, n, f1, f2, f3, a, bb, osz)

(* Pushing puts an element in front of the others.                         *)
LEMMA PushIs ==
  ASSUME NEW list \in Seq(Elements), NEW n \in Nat, n < Len(list),
         NEW r \in Seq(Elements), Len(r) = n, \A i \in 1..n : r[i] = list[n + 1 - i],
         NEW e \in Elements, e = list[n + 1],
         NEW p, p = Push(r, e)
  PROVE  /\ p \in Seq(Elements) /\ Len(p) = n + 1
         /\ \A i \in 1..n + 1 : p[i] = list[(n + 1) + 1 - i]
<1> DEFINE one == <<e>>
<1>1. one \in Seq(Elements) /\ Len(one) = 1 /\ one[1] = e /\ p = one \o r
  BY DEF Push
<1> HIDE DEF one
<1>2. PICK m \in Nat : m = 1
  OBVIOUS
<1>3. Joined(p, Elements, one, m, r, n)
  BY <1>1, <1>2, Concat
<1>4. /\ p \in Seq(Elements) /\ Len(p) = 1 + n
      /\ p[1] = e /\ \A i \in 1..n : p[1 + i] = r[i]
  <2>1. 1 \in 1..1
    OBVIOUS
  <2> QED
    BY <1>1, <1>2, <1>3, <2>1 DEF Joined
<1>5. ASSUME NEW i \in 1..n + 1
      PROVE  p[i] = list[(n + 1) + 1 - i]
  <2>1. CASE i = 1
    <3>1. (n + 1) + 1 - 1 = n + 1
      OBVIOUS
    <3> QED
      BY <1>4, <2>1, <3>1
  <2>2. CASE i # 1
    <3>1. i - 1 \in 1..n /\ 1 + (i - 1) = i /\ n + 1 - (i - 1) = (n + 1) + 1 - i
      BY <2>2
    <3> QED
      BY <1>4, <3>1
  <2> QED
    BY <2>1, <2>2
<1> QED
  BY <1>4, <1>5

(* One turn of the loop.                                                   *)
LEMMA UnpackNext ==
  ASSUME NEW list \in Seq(Elements), NEW n \in Nat, n < Len(list),
         NEW im, IsImage(im, list),
         NEW st, UnpackedTo(st, list, n),
         NEW g, g = Unpacked(im, st)
  PROVE  UnpackedTo(g, list, n + 1)
<1> DEFINE u == UnpackA(st.tn, 1, im, st.mem)
           num == Len(list) - n
           cur == 9 + n
           flags == {"RDONLY"}
<1>1. PICK f1, f2, f3, a, bb, osz : UnpackedWith(st, list, n, f1, f2, f3, a, bb, osz)
  BY DEF UnpackedTo
<1>2. /\ Readable(st.tn, f1, f2, a, flags)
      /\ IsField(f3, 16, "temp", 0)
      /\ IsArray(a, <<f3>>, 16, num, bb, osz, cur)
      /\ "temp" \in DOMAIN st.mem
      /\ st.result \in Seq(Elements) /\ Len(st.result) = n
      /\ \A i \in 1..n : st.result[i] = list[n + 1 - i]
  BY <1>1 DEF UnpackedWith
<1>3. Len(list) \in Nat
  BY LenProperties
<1>4. /\ num \in Nat \ {0} /\ cur \in Nat /\ num > 0 /\ num - 1 = Len(list) - (n + 1)
      /\ cur + 1 = 9 + (n + 1) /\ n + 1 \in 1..Len(list)
  BY <1>3
<1>5. im.cells \in Seq(AllCells) /\ cur + 1 \in 1..Len(im.cells)
      /\ im.cells[9 + (n + 1)].v = list[n + 1]
  <2>1. im.cells \in Seq(AllCells) /\ im.cells[9 + (n + 1)].v = list[n + 1] /\ Len(im.cells) = 9 + Len(list)
    BY <1>4 DEF IsImage, Shaped
  <2> QED
    BY <1>3, <2>1
<1> HIDE DEF u, num, cur, flags
<1>6. /\ u.rc = num
      /\ u.mem["temp"] = im.cells[cur + 1].v /\ DOMAIN u.mem = DOMAIN st.mem
      /\ \E a2 : /\ Readable(u.tn, f1, f2, a2, flags)
                 /\ IsArray(a2, <<f3>>, 16, num - 1, bb, osz, cur + 1)
  <2>1. u = UnpackA(st.tn, 1, im, st.mem)
    BY DEF u
  <2> QED
    BY <1>2, <1>4, <1>5, <2>1, UnpackAIs
<1>7. PICK a2 : /\ Readable(u.tn, f1, f2, a2, flags)
                /\ IsArray(a2, <<f3>>, 16, num - 1, bb, osz, cur + 1)
  BY <1>6
<1>8. u.mem["temp"] = list[n + 1] /\ list[n + 1] \in Elements
  BY <1>4, <1>5, <1>6
<1>9. g = [tn |-> u.tn, mem |-> u.mem, result |-> Push(st.result, u.mem.temp)]
  BY <1>4, <1>6 DEF Unpacked, u
<1>10. /\ g.tn = u.tn /\ g.mem = u.mem /\ g.result = Push(st.result, list[n + 1])
  BY <1>8, <1>9
<1>11. /\ g.result \in Seq(Elements) /\ Len(g.result) = n + 1
       /\ \A i \in 1..n + 1 : g.result[i] = list[(n + 1) + 1 - i]
  <2> DEFINE e == list[n + 1]
             p == g.result
             r == st.result
  <2>1. e \in Elements /\ e = list[n + 1] /\ p = Push(r, e)
    BY <1>8, <1>10
  <2>2. r \in Seq(Elements) /\ Len(r) = n /\ \A i \in 1..n : r[i] = list[n + 1 - i]
    BY <1>2
  <2> HIDE DEF e, p, r
  <2>3. /\ p \in Seq(Elements) /\ Len(p) = n + 1
        /\ \A i \in 1..n + 1 : p[i] = list[(n + 1) + 1 - i]
    BY <2>1, <2>2, PushIs
  <2> QED
    BY <2>3 DEF p
<1>12. IsArray(a2, <<f3>>, 16, Len(list) - (n + 1), bb, osz, 9 + (n + 1))
  BY <1>4, <1>7
<1>13. Readable(g.tn, f1, f2, a2, {"RDONLY"}) /\ "temp" \in DOMAIN g.mem
  BY <1>2, <1>6, <1>7, <1>10 DEF flags
<1>14. UnpackedWith(g, list, n + 1, f1, f2, f3, a2, bb, osz)
  BY <1>2, <1>11, <1>12, <1>13 DEF UnpackedWith
<1> QED
  BY <1>14 DEF UnpackedTo

(* A turn with nothing left changes nothing.                               *)
LEMMA UnpackDone ==
  ASSUME NEW list \in Seq(Elements), NEW im,
         NEW st, UnpackedTo(st, list, Len(list)),
         NEW g, g = Unpacked(im, st)
  PROVE  g = st
<1>1. PICK f1, f2, f3, a, bb, osz : UnpackedWith(st, list, Len(list), f1, f2, f3, a, bb, osz)
  BY DEF UnpackedTo
<1>2. Len(list) - Len(list) = 0
  BY LenProperties
<1>3. /\ Readable(st.tn, f1, f2, a, {"RDONLY"})
      /\ IsArray(a, <<f3>>, 16, 0, bb, osz, 9 + Len(list))
  BY <1>1, <1>2 DEF UnpackedWith
<1> DEFINE u == UnpackA(st.tn, 1, im, st.mem)
           flags == {"RDONLY"}
           cur == 9 + Len(list)
<1>4. u.rc = 0
  <2> HIDE DEF flags, cur
  <2>1. Readable(st.tn, f1, f2, a, flags) /\ IsArray(a, <<f3>>, 16, 0, bb, osz, cur)
    BY <1>3 DEF flags, cur
  <2>2. u = UnpackA(st.tn, 1, im, st.mem)
    OBVIOUS
  <2> HIDE DEF u
  <2> QED
    BY <2>1, <2>2, UnpackANone
<1> HIDE DEF u
<1>5. ~(u.rc > 0)
  BY <1>4
<1> QED
  BY <1>5 DEF Unpacked, u

(* All the turns.                                                          *)
LEMMA UnpackAllIs ==
  ASSUME NEW list \in Seq(Elements), NEW im, IsImage(im, list),
         NEW tn, NEW mem,
         UnpackedTo([tn |-> tn, mem |-> mem, result |-> <<>>], list, 0),
         NEW st, st = UnpackAll(tn, im, mem)[Len(im.cells)]
  PROVE  UnpackedTo(st, list, Len(list))
<1> DEFINE L == Len(list)
           C == Len(im.cells)
           at == UnpackAll(tn, im, mem)
           P == {n \in Nat : /\ n <= L => UnpackedTo(at[n], list, n)
                             /\ n >= L /\ n <= C => UnpackedTo(at[n], list, L)}
<1>1. L \in Nat
  BY LenProperties
<1>2. C = 9 + L
  BY DEF IsImage, Shaped
<1>3. C \in Nat /\ L <= C /\ C >= L /\ C <= C
  BY <1>1, <1>2
<1>4. /\ at[0] = [tn |-> tn, mem |-> mem, result |-> <<>>]
      /\ \A n \in 1..C : at[n] = Unpacked(im, at[n - 1])
  BY <1>3, UnpackedAre
<1>5. UnpackedTo(at[0], list, 0)
  BY <1>4
<1>6. st = at[C]
  OBVIOUS
<1> HIDE DEF at, C, L
<1>7. 0 \in P
  <2>1. 0 >= L => L = 0
    BY <1>1
  <2> QED
    BY <1>5, <2>1
<1>8. ASSUME NEW n \in P
      PROVE  n + 1 \in P
  <2>1. n \in Nat /\ n + 1 \in Nat /\ n + 1 - 1 = n
    OBVIOUS
  <2>2. CASE n < L
    <3>1. n <= L /\ n + 1 \in 1..C /\ (n + 1 >= L => n + 1 = L)
      BY <1>1, <1>3, <2>1, <2>2
    <3>2. UnpackedTo(at[n], list, n) /\ at[n + 1] = Unpacked(im, at[n])
      BY <1>4, <2>1, <3>1
    <3>3. UnpackedTo(at[n + 1], list, n + 1)
      BY <2>1, <2>2, <3>2, UnpackNext DEF L
    <3> QED
      BY <2>1, <3>1, <3>3
  <2>3. CASE ~(n < L) /\ n + 1 <= C
    <3>1. n >= L /\ n <= C /\ n + 1 \in 1..C /\ ~(n + 1 <= L)
      BY <1>1, <1>3, <2>1, <2>3
    <3>2. UnpackedTo(at[n], list, L) /\ at[n + 1] = Unpacked(im, at[n])
      BY <1>4, <2>1, <3>1
    <3>3. at[n + 1] = at[n]
      BY <3>2, UnpackDone DEF L
    <3> QED
      BY <2>1, <3>1, <3>2, <3>3
  <2>4. CASE ~(n < L) /\ ~(n + 1 <= C)
    <3>1. ~(n + 1 <= L)
      BY <1>1, <2>1, <2>4
    <3> QED
      BY <2>1, <2>4, <3>1
  <2> QED
    BY <2>2, <2>3, <2>4
<1>9. P = Nat
  <2>1. P \in SUBSET Nat
    BY DEF P
  <2> HIDE DEF P
  <2> QED
    BY <1>7, <1>8, <2>1, NaturalsByInduction
<1>10. UnpackedTo(at[C], list, L)
  BY <1>3, <1>9
<1> QED
  BY <1>6, <1>10 DEF L

(* tpl_load marks the map.                                                 *)
LEMMA MarkedReadable ==
  ASSUME NEW tn, NEW f1, NEW f2, NEW a, NEW flags, Readable(tn, f1, f2, a, flags),
         NEW more, NEW g, g = [tn EXCEPT !.flags = more]
  PROVE  Readable(g, f1, f2, a, more)
<1> DEFINE F == GroupFormat
           x == <<16, 16, 16>>
           k == <<f1, f2, a>>
<1>1. /\ tn \in [ok : {TRUE}, fmt : {F}, fxlens : {x}, ser_osz : {30}, kids : {k}, flags : {flags}]
      /\ f1.type = "c" /\ f2.type = "c" /\ a.type = "A" /\ Len(a.kids) = 1
  BY DEF Readable, IsGroupMap
<1> HIDE DEF F, x, k
<1>2. g \in [ok : {TRUE}, fmt : {F}, fxlens : {x}, ser_osz : {30}, kids : {k}, flags : {more}]
  BY <1>1
<1>3. IsGroupMap(g, f1, f2, a, more)
  BY <1>2 DEF F, x, k, IsGroupMap
<1> QED
  BY <1>1, <1>3 DEF Readable

(* What is read of the image of list: its elements, the last one first.    *)
ReadBack(d, list) ==
  /\ d.rc = 0 /\ d.uuid = Uuid /\ d.sender_ip = Self
  /\ d.result \in Seq(Elements) /\ Len(d.result) = Len(list)
  /\ \A i \in 1..Len(list) : d.result[i] = list[Len(list) + 1 - i]

(* deserialize_hash reads an image to its end.                             *)
LEMMA DeserializeIs ==
  ASSUME NEW list \in Seq(Elements), NEW im, IsImage(im, list)
  PROVE  ReadBack(DeserializeHash(im), list)
<1> DEFINE L == Len(list)
           R == {"RDONLY"}
           none == {}
           nil == <<>>
           tn == GroupMap("uuid", "sender_ip", "temp")
           marked == [tn EXCEPT !.flags = R]
           ready == Rewound(marked, im)
           l == Load(tn, im)
           mem == [uuid |-> 0, sender_ip |-> 0, temp |-> 0]
           once == UnpackRoot(l.tn, im, mem)
           twice == UnpackRoot(once.tn, im, once.mem)
           st == UnpackAll(twice.tn, im, twice.mem)[Len(im.cells)]
           d == DeserializeHash(im)
<1>1. d = IF l.rc = -1 THEN [rc |-> -1]
          ELSE [rc |-> 0, uuid |-> twice.mem.uuid, sender_ip |-> twice.mem.sender_ip,
                result |-> st.result]
  BY DEF DeserializeHash
<1>2. DOMAIN mem = {"uuid", "sender_ip", "temp"}
  OBVIOUS
<1> HIDE DEF mem, none, nil
<1>3. PICK f1, f2, f3, a :
        /\ Readable(tn, f1, f2, a, none)
        /\ IsField(f1, 16, "uuid", 0) /\ IsField(f2, 16, "sender_ip", 0)
        /\ IsField(f3, 16, "temp", 0)
        /\ IsArray(a, <<f3>>, 16, 0, nil, 0, 0)
  BY ReadableIs DEF none, nil
<1> HIDE DEF tn
<1>4. f1.addr = "uuid" /\ f2.addr = "sender_ip"
  BY <1>3 DEF IsField
<1>5. Sanity(tn, im) = "ok"
  BY <1>3, ImageAccepted
<1>6. l = [rc |-> 0, tn |-> ready]
  BY <1>5 DEF Load
<1>7. l.rc = 0 /\ l.tn = ready /\ ~(l.rc = -1)
  <2> HIDE DEF l, ready
  <2> QED
    BY <1>6
<1> HIDE DEF l, d, st, R, ready
<1>8. Readable(marked, f1, f2, a, R)
  BY <1>3, MarkedReadable
<1>9. PICK a2 : Readable(ready, f1, f2, a2, R) /\ IsArray(a2, <<f3>>, 16, L, nil, 0, 9)
  <2> HIDE DEF marked
  <2>1. ready = Rewound(marked, im)
    BY DEF ready
  <2> QED
    BY <1>3, <1>8, <2>1, RewoundIs
<1> HIDE DEF marked, once, twice
<1>10. Readable(l.tn, f1, f2, a2, R)
  BY <1>7, <1>9
<1>11. once.tn = Rewound(l.tn, im) /\ DOMAIN once.mem = {"uuid", "sender_ip", "temp"}
  <2> DEFINE u == once
             g == l.tn
  <2>1. u = UnpackRoot(g, im, mem)
    BY DEF once
  <2>2. Readable(g, f1, f2, a2, R)
    BY <1>10
  <2> HIDE DEF u, g
  <2>3. u.tn = Rewound(g, im) /\ DOMAIN u.mem = {"uuid", "sender_ip", "temp"}
    BY <1>2, <1>4, <2>1, <2>2, UnpackRootIs
  <2> QED
    BY <2>3 DEF u, g
<1>12. PICK a3 : Readable(once.tn, f1, f2, a3, R) /\ IsArray(a3, <<f3>>, 16, L, nil, 0, 9)
  BY <1>9, <1>10, <1>11, RewoundIs
<1>13. /\ twice.tn = Rewound(once.tn, im) /\ DOMAIN twice.mem = {"uuid", "sender_ip", "temp"}
       /\ twice.mem["uuid"] = Uuid /\ twice.mem["sender_ip"] = Self
  <2> DEFINE u == twice
             g == once.tn
             m == once.mem
  <2>1. u = UnpackRoot(g, im, m) /\ DOMAIN m = {"uuid", "sender_ip", "temp"}
    BY <1>11 DEF twice
  <2>2. Readable(g, f1, f2, a3, R)
    BY <1>12
  <2> HIDE DEF u, g, m
  <2>3. /\ u.tn = Rewound(g, im) /\ DOMAIN u.mem = {"uuid", "sender_ip", "temp"}
        /\ u.mem["uuid"] = Uuid /\ u.mem["sender_ip"] = Self
    BY <1>4, <2>1, <2>2, UnpackRootIs
  <2> QED
    BY <2>3 DEF u, g
<1>14. PICK a4 : Readable(twice.tn, f1, f2, a4, R) /\ IsArray(a4, <<f3>>, 16, L, nil, 0, 9)
  BY <1>12, <1>13, RewoundIs
<1> DEFINE t == twice.tn
           m == twice.mem
           s == [tn |-> t, mem |-> m, result |-> nil]
<1>15. UnpackedTo(s, list, 0)
  <2> HIDE DEF t, m
  <2>1. s.tn = t /\ s.mem = m /\ s.result = nil
    OBVIOUS
  <2> HIDE DEF s
  <2>2. L - 0 = L /\ 9 + 0 = 9
    BY LenProperties
  <2>3. nil \in Seq(Elements) /\ Len(nil) = 0 /\ \A i \in 1..0 : nil[i] = list[0 + 1 - i]
    BY EmptySeq DEF nil
  <2>4. "temp" \in DOMAIN s.mem
    BY <1>13, <2>1 DEF m
  <2>5. Readable(s.tn, f1, f2, a4, {"RDONLY"})
    BY <1>14, <2>1 DEF t, R
  <2>6. IsArray(a4, <<f3>>, 16, Len(list) - 0, nil, 0, 9 + 0)
    BY <1>14, <2>2
  <2>7. UnpackedWith(s, list, 0, f1, f2, f3, a4, nil, 0)
    BY <1>3, <2>1, <2>3, <2>4, <2>5, <2>6 DEF UnpackedWith
  <2> QED
    BY <2>7 DEF UnpackedTo
<1>16. UnpackedTo(st, list, L)
  <2>1. UnpackedTo([tn |-> t, mem |-> m, result |-> <<>>], list, 0)
    BY <1>15 DEF nil
  <2>2. st = UnpackAll(t, im, m)[Len(im.cells)]
    BY DEF st
  <2> HIDE DEF t, m
  <2> QED
    BY <2>1, <2>2, UnpackAllIs
<1>17. /\ st.result \in Seq(Elements) /\ Len(st.result) = L
       /\ \A i \in 1..L : st.result[i] = list[L + 1 - i]
  BY <1>16 DEF UnpackedTo, UnpackedWith
<1>18. /\ d.rc = 0 /\ d.uuid = Uuid /\ d.sender_ip = Self /\ d.result = st.result
  <2>1. d = [rc |-> 0, uuid |-> twice.mem.uuid, sender_ip |-> twice.mem.sender_ip,
             result |-> st.result]
    BY <1>1, <1>7
  <2> QED
    BY <1>13, <2>1
<1>19. ReadBack(d, list)
  BY <1>17, <1>18 DEF ReadBack
<1> QED
  BY <1>19 DEF d

(* The list read back is the reverse of the list, has its elements, and    *)
(* runs down when the list runs up.                                        *)
LEMMA ReadBackIs ==
  ASSUME NEW list \in Seq(Elements), NEW d, ReadBack(d, list)
  PROVE  /\ d.result = Reverse(list)
         /\ ToSet(d.result) = ToSet(list)
         /\ Ascending(list) =>
              \A i, j \in DOMAIN d.result : i < j => d.result[i] > d.result[j]
<1> DEFINE L == Len(list)
           r == d.result
<1>1. /\ L \in Nat /\ DOMAIN list = 1..L /\ \A i \in 1..L : list[i] \in Elements
      /\ r \in Seq(Elements) /\ Len(r) = L /\ DOMAIN r = 1..L
      /\ \A i \in 1..L : r[i] = list[L + 1 - i]
  BY LenProperties DEF ReadBack
<1> HIDE DEF L, r
<1>2. \A i \in 1..L : L + 1 - i \in 1..L /\ L + 1 - (L + 1 - i) = i
  BY <1>1
<1>3. r = Reverse(list)
  <2> DEFINE w == Reverse(list)
  <2>1. w = [i \in 1..L |-> list[(L - i) + 1]]
    BY DEF Reverse, L
  <2>2. r = [i \in 1..L |-> r[i]]
    BY <1>1
  <2>3. \A i \in 1..L : r[i] = list[(L - i) + 1]
    <3>1. \A i \in 1..L : L + 1 - i = (L - i) + 1
      BY <1>1
    <3> QED
      BY <1>1, <3>1
  <2> HIDE DEF w
  <2> QED
    BY <2>1, <2>2, <2>3 DEF w
<1>4. ToSet(r) = ToSet(list)
  <2>1. ToSet(r) = {r[i] : i \in 1..L} /\ ToSet(list) = {list[i] : i \in 1..L}
    BY <1>1 DEF ToSet
  <2>2. \A i \in 1..L : r[i] \in ToSet(list) /\ list[i] \in ToSet(r)
    BY <1>1, <1>2, <2>1
  <2> QED
    BY <2>1, <2>2
<1>5. ASSUME Ascending(list), NEW i \in 1..L, NEW j \in 1..L, i < j
      PROVE  r[i] > r[j]
  <2>1. L + 1 - j < L + 1 - i /\ L + 1 - i \in 1..L /\ L + 1 - j \in 1..L
    BY <1>1, <1>5
  <2>2. list[L + 1 - j] < list[L + 1 - i]
    BY <1>1, <1>5, <2>1 DEF Ascending
  <2>3. list[L + 1 - j] \in Nat /\ list[L + 1 - i] \in Nat
    BY <1>1, <2>1, ElementsAreNat
  <2> QED
    BY <1>1, <2>2, <2>3
<1> QED
  BY <1>1, <1>3, <1>4, <1>5 DEF r

------------------------------------------------------------------------------
(* The table of a process.                                                 *)

(* free_node_struct of an element that is not in the table leaves the      *)
(* table as it was.                                                        *)
LEMMA FreedKeeps ==
  ASSUME NEW h, NEW s, TableIs(h, s), NEW k \in Elements, k \notin ToSet(s),
         NEW g, g = Freed(h, k)
  PROVE  /\ TableIs(g, s)
         /\ \A e \in ToSet(s) : g.hh.hashv[e] = h.hh.hashv[e]
<1> DEFINE M == ToSet(s)
           prev2 == [h.hh.prev EXCEPT ![k] = NULL]
           next2 == [h.hh.next EXCEPT ![k] = NULL]
           hprev2 == [h.hh.hh_prev EXCEPT ![k] = NULL]
           hnext2 == [h.hh.hh_next EXCEPT ![k] = NULL]
           hashv2 == [h.hh.hashv EXCEPT ![k] = 0]
           hh2 == [h.hh EXCEPT !.prev = prev2, !.next = next2,
                               !.hh_prev = hprev2, !.hh_next = hnext2, !.hashv = hashv2]
<1>1. /\ h \in [head : Pointers, tbl : Tables \cup {NULL}, hh : Handles]
      /\ h.hh \in Handles
  BY DEF TableIs
<1>2. /\ h.hh.prev \in Links /\ h.hh.next \in Links
      /\ h.hh.hh_prev \in Links /\ h.hh.hh_next \in Links
      /\ h.hh.hashv \in [Elements -> Nat]
      /\ NULL \in Pointers
  BY <1>1 DEF Handles, Pointers
<1>3. g = [h EXCEPT !.hh = hh2]
  BY <1>1 DEF Freed, Handles
<1>4. /\ prev2 \in Links /\ next2 \in Links /\ hprev2 \in Links /\ hnext2 \in Links
      /\ hashv2 \in [Elements -> Nat]
      /\ \A e \in Elements \ {k} :
           /\ prev2[e] = h.hh.prev[e] /\ next2[e] = h.hh.next[e]
           /\ hprev2[e] = h.hh.hh_prev[e] /\ hnext2[e] = h.hh.hh_next[e]
           /\ hashv2[e] = h.hh.hashv[e]
  <2>1. \A f \in Links : /\ [f EXCEPT ![k] = NULL] \in Links
                         /\ \A e \in Elements \ {k} : [f EXCEPT ![k] = NULL][e] = f[e]
    BY <1>2 DEF Links
  <2>2. hashv2 \in [Elements -> Nat] /\ \A e \in Elements \ {k} : hashv2[e] = h.hh.hashv[e]
    BY <1>2
  <2> QED
    BY <1>2, <2>1, <2>2
<1> HIDE DEF prev2, next2, hprev2, hnext2, hashv2
<1>5. /\ hh2 \in Handles
      /\ hh2.prev = prev2 /\ hh2.next = next2
      /\ hh2.hh_prev = hprev2 /\ hh2.hh_next = hnext2 /\ hh2.hashv = hashv2
  BY <1>1, <1>4 DEF Handles
<1> HIDE DEF hh2
<1>6. /\ g \in [head : Pointers, tbl : Tables \cup {NULL}, hh : Handles]
      /\ g.head = h.head /\ g.tbl = h.tbl /\ g.hh = hh2
  BY <1>1, <1>3, <1>5
<1>7. s \in Seq(Elements) /\ M \subseteq Elements \ {k}
  BY TableWalk, DistinctLength
<1>8. \A e \in M : g.hh.hashv[e] = h.hh.hashv[e]
  BY <1>4, <1>5, <1>6, <1>7
<1>9. CASE s = <<>>
  BY <1>6, <1>8, <1>9 DEF TableIs
<1>10. CASE s # <<>>
  <2> DEFINE num == h.tbl.num_buckets
             buckets == h.tbl.buckets
  <2>1. /\ IsList(s, h.head, h.hh.prev, h.hh.next)
        /\ h.tbl \in Tables /\ h.tbl.tail = s[Len(s)] /\ h.tbl.num_items = Len(s)
        /\ Hashed(buckets, h.hh, num, M) /\ Bounded(h.tbl)
    BY <1>10 DEF TableIs
  <2>2. IsList(s, g.head, g.hh.prev, g.hh.next)
    <3>1. \A e \in ToSet(s) : prev2[e] = h.hh.prev[e] /\ next2[e] = h.hh.next[e]
      BY <1>4, <1>7
    <3>2. IsList(s, h.head, prev2, next2)
      BY <2>1, <3>1, ListUndisturbed
    <3> QED
      BY <1>5, <1>6, <3>2
  <2> HIDE DEF num, buckets
  <2>3. Hashed(buckets, g.hh, num, M)
    <3>1. num \in Nat \ {0} /\ buckets \in [0..num-1 -> Buckets]
      BY <2>1 DEF Hashed
    <3>2. ASSUME NEW b \in 0..num-1
          PROVE  \E c : /\ IsList(c, buckets[b].hh_head, hh2.hh_prev, hh2.hh_next)
                        /\ Len(c) = buckets[b].count
                        /\ ToSet(c) = InBkt(hh2.hashv, num, M, b)
      <4>1. PICK c : /\ IsList(c, buckets[b].hh_head, h.hh.hh_prev, h.hh.hh_next)
                     /\ Len(c) = buckets[b].count
                     /\ ToSet(c) = InBkt(h.hh.hashv, num, M, b)
        BY <2>1 DEF Hashed
      <4>2. ToSet(c) \subseteq M /\ InBkt(h.hh.hashv, num, M, b) = InBkt(hashv2, num, M, b)
        BY <1>4, <1>7, <4>1 DEF InBkt
      <4>3. \A e \in ToSet(c) : hprev2[e] = h.hh.hh_prev[e] /\ hnext2[e] = h.hh.hh_next[e]
        BY <1>4, <1>7, <4>2
      <4>4. IsList(c, buckets[b].hh_head, hprev2, hnext2)
        BY <4>1, <4>3, ListUndisturbed
      <4> QED
        BY <1>5, <4>1, <4>2, <4>4
    <3> QED
      BY <1>6, <3>1, <3>2 DEF Hashed
  <2> QED
    BY <1>6, <1>7, <1>8, <1>10, <2>1, <2>2, <2>3 DEF TableIs, num, buckets
<1> QED
  BY <1>9, <1>10

(* The table without elements.                                             *)
LEMMA EmptyTableIs ==
  TableIs(EmptyTable, <<>>)
<1>1. NULL \in Pointers /\ NoLinks \in Links
  BY DEF Pointers, NoLinks, Links
<1>2. EmptyTable.hh \in Handles
  BY <1>1 DEF EmptyTable, Handles
<1>3. EmptyTable \in [head : Pointers, tbl : Tables \cup {NULL}, hh : Handles]
  BY <1>1, <1>2 DEF EmptyTable
<1>4. EmptyTable.head = NULL /\ EmptyTable.tbl = NULL
  BY DEF EmptyTable
<1> QED
  BY <1>3, <1>4, EmptySeq DEF TableIs

(* What TypeOK and ChainsBounded say of the table.                         *)
LEMMA TableTyped ==
  ASSUME NEW h, NEW s, TableIs(h, s)
  PROVE  /\ h.head \in Pointers /\ h.hh \in Handles
         /\ IF h.head = NULL THEN h.tbl = NULL
            ELSE h.tbl.buckets \in [0..h.tbl.num_buckets-1 -> Buckets]
         /\ h.head # NULL => Bounded(h.tbl)
<1>1. h.head = NULL <=> s = <<>>
  BY TableWalk
<1>2. h.head \in Pointers /\ h.hh \in Handles
  BY DEF TableIs
<1> QED
  BY <1>1, <1>2 DEF TableIs, Hashed

------------------------------------------------------------------------------
(* The inductive invariant.                                                *)

(***************************************************************************)
(* The inductive invariant.                                                *)
(***************************************************************************)

(* s is the list of the table: it has the members, each hashed as HASH_ADD *)
(* hashed it; the process is one of them until clean_up_hashmap.           *)
TableOf(s) ==
  /\ TableIs(nodes, s)
  /\ ToSet(s) = members
  /\ \A k \in members : nodes.hh.hashv[k] = hash[k]
  /\ running => Self \in members
  /\ ~running => s = <<>>

(* s is the list the value was made of.                                    *)
ValueOf(s) ==
  /\ s \in Seq(Elements) /\ s # <<>> /\ Ascending(s)
  /\ ToSet(s) = sent
  /\ IsImage(value, s)
  /\ running => AppOrder(nodes) = s

(* The parts of the invariant: the table,                                  *)
TableInv == hash \in Hashes /\ running \in BOOLEAN /\ \E s : TableOf(s)

(* the value submitted last,                                               *)
ValueInv == sent \subseteq Elements /\ (value # NULL => \E s : ValueOf(s))

(* and the list of the receiver.                                           *)
ListInv ==
  /\ paxos_state_array \in Seq(Elements)
  /\ Distinct(paxos_state_array)
  /\ ToSet(paxos_state_array) = learned

(* The invariant.                                                          *)
Inv == TableInv /\ ValueInv /\ ListInv

(* It holds at the start: the table holds this process.                    *)
LEMMA InitInv == Init => Inv
<1> SUFFICES ASSUME Init PROVE Inv
  OBVIOUS
<1>1. /\ hash \in Hashes /\ nodes = Added(EmptyTable, Self, hash[Self])
      /\ members = {Self} /\ value = NULL /\ sent = {} /\ paxos_state_array = <<>>
      /\ learned = {} /\ running = TRUE
  BY DEF Init
<1>2. Self \in Elements /\ hash \in [Elements -> Nat] /\ hash[Self] \in Nat
  BY <1>1, SelfIsElement, HashesAreFunctions
<1> DEFINE v == hash[Self]
           nil == <<>>
           one == Append(nil, Self)
           empty == EmptyTable
           zero == empty.hh.hashv
<1>3. ToSet(nil) = {} /\ Self \notin ToSet(nil) /\ nil \in Seq(Elements) /\ Len(nil) = 0
  BY EmptySeq DEF ToSet
<1>4. TableIs(empty, nil)
  BY EmptyTableIs
<1>5. zero \in [Elements -> Nat]
  BY <1>4 DEF TableIs, Handles
<1> HIDE DEF v, nil, one, empty, zero
<1>6. TableIs(nodes, one) /\ nodes.hh.hashv = [zero EXCEPT ![Self] = v]
  <2>1. v \in Nat /\ nodes = Added(empty, Self, v)
    BY <1>1, <1>2 DEF v, empty
  <2>2. TableIs(nodes, Append(nil, Self)) /\ nodes.hh.hashv = [empty.hh.hashv EXCEPT ![Self] = v]
    <3> DEFINE g == nodes
               s == nil
               e == Self
               h == empty
    <3>1. /\ TableIs(h, s) /\ e \in Elements /\ e \notin ToSet(s) /\ v \in Nat
          /\ g = Added(h, e, v)
      BY <1>2, <1>3, <1>4, <2>1
    <3> HIDE DEF g, s, e, h
    <3>2. TableIs(g, Append(s, e)) /\ g.hh.hashv = [h.hh.hashv EXCEPT ![e] = v]
      BY <3>1, AddedKeeps
    <3> QED
      BY <3>2 DEF g, s, e, h
  <2> QED
    BY <2>2 DEF one, zero
<1>7. ToSet(one) = {Self}
  <2>1. one \in Seq(Elements) /\ Len(one) = 0 + 1 /\ one[0 + 1] = Self
    BY <1>2, <1>3, AppendProperties DEF one
  <2>2. DOMAIN one = 1..1 /\ one[1] = Self
    BY <2>1, LenProperties
  <2> QED
    BY <2>2 DEF ToSet
<1>8. TableOf(one)
  <2>1. nodes.hh.hashv[Self] = hash[Self]
    BY <1>2, <1>5, <1>6 DEF v
  <2> QED
    BY <1>1, <1>6, <1>7, <2>1 DEF TableOf
<1>9. TableInv /\ ValueInv
  BY <1>1, <1>8 DEF TableInv, ValueInv
<1>10. ListInv
  <2>1. Distinct(<<>>) /\ ToSet(<<>>) = {} /\ <<>> \in Seq(Elements)
    BY EmptySeq DEF Distinct, ToSet
  <2> QED
    BY <1>1, <2>1 DEF ListInv
<1> QED
  BY <1>9, <1>10 DEF Inv

(* After a submission the table is sorted and the value is its image.      *)
LEMMA SubmitKeeps ==
  ASSUME NEW table, Submit(table), Inv, running,
         NEW s, TableIs(table, s), ToSet(s) = members',
         \A k \in members' : table.hh.hashv[k] = hash[k],
         Self \in members'
  PROVE  Inv'
<1> DEFINE once == Sort(table)
           im == SerializeHash(nodes')
<1>1. /\ nodes' = Sort(once) /\ value' = im /\ sent' = members'
      /\ hash' = hash /\ paxos_state_array' = paxos_state_array
      /\ learned' = learned /\ running' = running
  BY DEF Submit
<1> HIDE DEF once, im
<1>2. PICK s1 : /\ TableIs(once, s1) /\ ToSet(s1) = ToSet(s) /\ once.hh.hashv = table.hh.hashv
  <2>1. once = Sort(table)
    BY DEF once
  <2> QED
    BY <2>1, SortKeeps
<1>3. PICK t : /\ TableIs(nodes', t) /\ Ascending(t) /\ ToSet(t) = ToSet(s1)
               /\ nodes'.hh.hashv = once.hh.hashv
  BY <1>1, <1>2, SortKeeps
<1>4. /\ ToSet(t) = members' /\ members' \subseteq Elements /\ AppOrder(nodes') = t
      /\ t \in Seq(Elements)
  <2>1. AppOrder(nodes') = t /\ t \in Seq(Elements) /\ Distinct(t)
    BY <1>3, TableWalk
  <2> QED
    BY <1>2, <1>3, <2>1, DistinctLength
<1>5. t # <<>>
  <2>1. ToSet(<<>>) = {}
    BY EmptySeq DEF ToSet
  <2> QED
    BY <1>4, <2>1
<1>6. TableOf(t)'
  BY <1>1, <1>2, <1>3, <1>4 DEF TableOf
<1>7. TableInv'
  BY <1>1, <1>6 DEF TableInv, Inv
<1>8. IsImage(value', t)
  <2>1. im = SerializeHash(nodes')
    BY DEF im
  <2> QED
    BY <1>1, <1>3, <1>5, <2>1, SerializeIs
<1>9. ValueOf(t)'
  BY <1>1, <1>3, <1>4, <1>5, <1>8 DEF ValueOf
<1>10. ValueInv'
  BY <1>1, <1>4, <1>9 DEF ValueInv
<1>11. ListInv'
  BY <1>1 DEF Inv, ListInv
<1> QED
  BY <1>7, <1>10, <1>11 DEF Inv

(* HASH_FIND finds the members.                                            *)
LEMMA FindsTheMembers ==
  ASSUME Inv, NEW k \in Elements
  PROVE  Find(nodes, k, hash[k]) = IF k \in members THEN k ELSE NULL
<1>1. PICK s : TableOf(s)
  BY DEF Inv, TableInv
<1>2. TableIs(nodes, s) /\ ToSet(s) = members /\ (k \in ToSet(s) => nodes.hh.hashv[k] = hash[k])
  BY <1>1 DEF TableOf
<1>3. hash[k] \in Nat
  BY HashesAreFunctions DEF Inv, TableInv
<1> QED
  BY <1>2, <1>3, FindIs

(* An addition keeps it.                                                   *)
LEMMA AddNodeKeeps ==
  ASSUME Inv, NEW k \in Elements, AddNode(k)
  PROVE  Inv'
<1> DEFINE v == hash[k]
           g == Added(nodes, k, v)
<1>1. /\ running /\ Find(nodes, k, v) = NULL /\ members' = members \cup {k} /\ Submit(g)
  BY DEF AddNode
<1>2. PICK s : TableOf(s)
  BY DEF Inv, TableInv
<1>3. /\ TableIs(nodes, s) /\ ToSet(s) = members
      /\ \A e \in members : nodes.hh.hashv[e] = hash[e]
      /\ Self \in members
  BY <1>1, <1>2 DEF TableOf
<1>4. v \in Nat
  BY HashesAreFunctions DEF Inv, TableInv
<1>5. k \notin ToSet(s)
  BY <1>1, <1>3, FindsTheMembers, NullIsNoElement
<1> HIDE DEF v
<1> DEFINE t == Append(s, k)
           hashv == nodes.hh.hashv
<1>6. TableIs(g, t) /\ g.hh.hashv = [hashv EXCEPT ![k] = v]
  BY <1>3, <1>4, <1>5, AddedKeeps
<1>7. hashv \in [Elements -> Nat]
  BY <1>3 DEF TableIs, Handles
<1>8. s \in Seq(Elements) /\ members \subseteq Elements
  BY <1>3, TableWalk, DistinctLength
<1>9. ToSet(t) = members'
  <2>1. t \in Seq(Elements) /\ DOMAIN t = 1..Len(s) + 1 /\ t[Len(s) + 1] = k
        /\ (\A i \in 1..Len(s) : t[i] = s[i])
    BY <1>8, AppendProperties, LenProperties
  <2>2. DOMAIN s = 1..Len(s) /\ Len(s) \in Nat
    BY <1>8, LenProperties
  <2>3. 1..Len(s) + 1 = 1..Len(s) \cup {Len(s) + 1}
    BY <2>2
  <2> HIDE DEF t
  <2>4. ToSet(t) = {t[i] : i \in 1..Len(s) \cup {Len(s) + 1}} /\ ToSet(s) = {s[i] : i \in 1..Len(s)}
    BY <2>1, <2>2, <2>3 DEF ToSet
  <2>5. ToSet(t) = ToSet(s) \cup {k}
    BY <2>1, <2>4
  <2> QED
    BY <1>1, <1>3, <2>5
<1> HIDE DEF g, t, hashv
<1>10. \A e \in members' : g.hh.hashv[e] = hash[e]
  BY <1>1, <1>3, <1>6, <1>7, <1>8 DEF v, hashv
<1>11. Self \in members'
  BY <1>1, <1>3
<1> QED
  BY <1>1, <1>6, <1>9, <1>10, <1>11, SubmitKeeps

(* A deletion keeps it.                                                    *)
LEMMA DeleteNodeKeeps ==
  ASSUME Inv, NEW k \in Elements, DeleteNode(k)
  PROVE  Inv'
<1> DEFINE e == Find(nodes, k, hash[k])
           g == Deleted(nodes, e)
           f == Freed(g, k)
<1>1. /\ running /\ k # Self /\ e # NULL /\ members' = members \ {k} /\ Submit(f)
  BY DEF DeleteNode
<1>2. PICK s : TableOf(s)
  BY DEF Inv, TableInv
<1>3. /\ TableIs(nodes, s) /\ ToSet(s) = members
      /\ \A x \in members : nodes.hh.hashv[x] = hash[x]
      /\ Self \in members
  BY <1>1, <1>2 DEF TableOf
<1>4. e = k /\ k \in members
  BY <1>1, FindsTheMembers
<1> HIDE DEF e, f
<1>5. PICK i \in 1..Len(s) : s[i] = k
  <2>1. DOMAIN s = 1..Len(s)
    BY <1>3, TableWalk
  <2> QED
    BY <1>3, <1>4, <2>1 DEF ToSet
<1> DEFINE t == Without(s, i)
<1>6. TableIs(g, t) /\ g.hh.hashv = nodes.hh.hashv
  <2>1. g = Deleted(nodes, s[i])
    BY <1>4, <1>5
  <2> HIDE DEF g
  <2> QED
    BY <1>3, <2>1, DeletedKeeps
<1>7. ToSet(t) = members \ {k}
  <2>1. s \in Seq(Elements) /\ Distinct(s)
    BY <1>3, TableWalk
  <2> QED
    BY <1>3, <1>5, <2>1, WithoutIs
<1> HIDE DEF t, g
<1>8. TableIs(f, t) /\ \A x \in ToSet(t) : f.hh.hashv[x] = g.hh.hashv[x]
  <2>1. f = Freed(g, k) /\ k \notin ToSet(t)
    BY <1>7 DEF f
  <2> QED
    BY <1>6, <2>1, FreedKeeps
<1>9. ToSet(t) = members' /\ Self \in members'
  BY <1>1, <1>3, <1>7
<1>10. \A x \in members' : f.hh.hashv[x] = hash[x]
  BY <1>3, <1>6, <1>7, <1>8, <1>9
<1> QED
  BY <1>1, <1>8, <1>9, <1>10, SubmitKeeps

(* clean_up_hashmap keeps it.                                              *)
LEMMA CleanUpKeeps ==
  ASSUME Inv, CleanUpHashmap
  PROVE  Inv'
<1>1. /\ nodes' = AllDeleted(nodes) /\ members' = {} /\ running' = FALSE
      /\ UNCHANGED <<hash, value, sent, paxos_state_array, learned>>
  BY DEF CleanUpHashmap
<1>2. PICK s : TableOf(s)
  BY DEF Inv, TableInv
<1> DEFINE nil == <<>>
<1>3. TableIs(nodes', nil)
  <2>1. TableIs(nodes, s)
    BY <1>2 DEF TableOf
  <2> QED
    BY <1>1, <2>1, AllDeletedKeeps
<1>4. ToSet(nil) = {}
  BY EmptySeq DEF ToSet
<1>5. TableOf(nil)'
  BY <1>1, <1>3, <1>4 DEF TableOf
<1>6. TableInv'
  BY <1>1, <1>5 DEF TableInv, Inv
<1>7. ValueInv'
  <2>1. ASSUME NEW x, ValueOf(x)
        PROVE  ValueOf(x)'
    BY <1>1, <2>1 DEF ValueOf
  <2> QED
    BY <1>1, <2>1 DEF ValueInv, Inv
<1>8. ListInv'
  BY <1>1 DEF ListInv, Inv
<1> QED
  BY <1>6, <1>7, <1>8 DEF Inv

(* Equal lists are of the same group.                                      *)
LEMMA EqualListsIs ==
  ASSUME NEW r \in Seq(Elements), NEW l \in Seq(Elements), IsEqualLists(r, l)
  PROVE  ToSet(r) = ToSet(l)
<1>1. DOMAIN r = 1..Len(r) /\ DOMAIN l = 1..Len(l) /\ Len(r) = Len(l)
      /\ \A i \in 1..Len(r) : r[i] = l[i]
  BY LenProperties DEF IsEqualLists
<1> QED
  BY <1>1 DEF ToSet

(* A delivery keeps it.                                                    *)
LEMMA OnDeliverKeeps ==
  ASSUME Inv, OnDeliver
  PROVE  Inv'
<1> DEFINE d == DeserializeHash(value)
           r == d.result
<1>1. /\ value # NULL
      /\ paxos_state_array' = IF IsEqualLists(r, paxos_state_array)
                              THEN paxos_state_array ELSE CopyList(r)
      /\ learned' = sent
      /\ UNCHANGED <<hash, nodes, members, value, sent, running>>
  BY DEF OnDeliver
<1>2. PICK s : ValueOf(s)
  BY <1>1 DEF Inv, ValueInv
<1>3. /\ s \in Seq(Elements) /\ Ascending(s) /\ ToSet(s) = sent /\ IsImage(value, s)
  BY <1>2 DEF ValueOf
<1>4. ReadBack(d, s)
  BY <1>3, DeserializeIs
<1> HIDE DEF d
<1>5. /\ r \in Seq(Elements) /\ ToSet(r) = sent
      /\ \A i, j \in DOMAIN r : i < j => r[i] > r[j]
  BY <1>3, <1>4, ReadBackIs DEF ReadBack
<1> HIDE DEF r
<1>6. Distinct(r)
  <2>1. Len(r) \in Nat /\ DOMAIN r = 1..Len(r) /\ \A i \in 1..Len(r) : r[i] \in Elements
    BY <1>5, LenProperties
  <2>2. ASSUME NEW i \in 1..Len(r), NEW j \in 1..Len(r), r[i] = r[j]
        PROVE  i = j
    <3>1. r[i] \in Nat /\ r[j] \in Nat
      BY <2>1, ElementsAreNat
    <3>2. ~(r[i] > r[j]) /\ ~(r[j] > r[i])
      BY <2>2, <3>1
    <3>3. ~(i < j) /\ ~(j < i)
      BY <1>5, <2>1, <3>2
    <3> QED
      BY <2>1, <3>3
  <2> QED
    BY <2>2 DEF Distinct
<1>7. CopyList(r) = r
  <2>1. r = [i \in DOMAIN r |-> r[i]]
    BY <1>5, LenProperties
  <2> QED
    BY <2>1 DEF CopyList
<1>8. ListInv'
  <2>1. CASE IsEqualLists(r, paxos_state_array)
    <3>1. paxos_state_array' = paxos_state_array
      BY <1>1, <2>1
    <3>2. ListInv
      BY DEF Inv
    <3>3. ToSet(paxos_state_array) = sent
      BY <1>5, <2>1, <3>2, EqualListsIs DEF ListInv
    <3> QED
      BY <1>1, <3>1, <3>2, <3>3 DEF ListInv
  <2>2. CASE ~IsEqualLists(r, paxos_state_array)
    <3>1. paxos_state_array' = r
      BY <1>1, <1>7, <2>2
    <3> QED
      BY <1>1, <1>5, <1>6, <3>1 DEF ListInv
  <2> QED
    BY <2>1, <2>2
<1>9. TableInv'
  <2>1. ASSUME NEW x, TableOf(x)
        PROVE  TableOf(x)'
    BY <1>1, <2>1 DEF TableOf
  <2> QED
    BY <1>1, <2>1 DEF TableInv, Inv
<1>10. ValueInv'
  <2>1. ASSUME NEW x, ValueOf(x)
        PROVE  ValueOf(x)'
    BY <1>1, <2>1 DEF ValueOf
  <2> QED
    BY <1>1, <2>1 DEF ValueInv, Inv
<1> QED
  BY <1>8, <1>9, <1>10 DEF Inv

(* Every step keeps it.                                                    *)
LEMMA NextInv == Inv /\ [Next]_vars => Inv'
<1> SUFFICES ASSUME Inv, [Next]_vars PROVE Inv'
  OBVIOUS
<1>1. CASE \E k \in Elements : AddNode(k)
  BY <1>1, AddNodeKeeps
<1>2. CASE \E k \in Elements : DeleteNode(k)
  BY <1>2, DeleteNodeKeeps
<1>3. CASE OnDeliver
  BY <1>3, OnDeliverKeeps
<1>4. CASE CleanUpHashmap
  BY <1>4, CleanUpKeeps
<1>5. CASE UNCHANGED vars
  <2>1. UNCHANGED <<hash, nodes, members, value, sent, paxos_state_array, learned, running>>
    BY <1>5 DEF vars
  <2>2. ASSUME NEW x, TableOf(x)
        PROVE  TableOf(x)'
    BY <2>1, <2>2 DEF TableOf
  <2>3. ASSUME NEW x, ValueOf(x)
        PROVE  ValueOf(x)'
    BY <2>1, <2>3 DEF ValueOf
  <2>4. TableInv' /\ ValueInv'
    BY <2>1, <2>2, <2>3 DEF TableInv, ValueInv, Inv
  <2>5. ListInv'
    BY <2>1 DEF ListInv, Inv
  <2> QED
    BY <2>4, <2>5 DEF Inv
<1> QED
  BY <1>1, <1>2, <1>3, <1>4, <1>5 DEF Next

(* It holds throughout.                                                    *)
LEMMA Invariance == Spec => []Inv
  BY InitInv, NextInv, PTL DEF Spec

------------------------------------------------------------------------------
(* The theorems.                                                           *)

(* Every variable holds a value of its type, and the buckets are those     *)
(* num_buckets counts.                                                     *)
THEOREM TypeCorrect == Spec => []TypeOK
<1>1. Inv => TypeOK
  <2> SUFFICES ASSUME Inv PROVE TypeOK
    OBVIOUS
  <2>1. PICK s : TableIs(nodes, s) /\ ToSet(s) = members
    BY DEF Inv, TableInv, TableOf
  <2>2. /\ nodes.head \in Pointers /\ nodes.hh \in Handles
        /\ IF nodes.head = NULL THEN nodes.tbl = NULL
           ELSE nodes.tbl.buckets \in [0..nodes.tbl.num_buckets-1 -> Buckets]
    BY <2>1, TableTyped
  <2>3. members \subseteq Elements
    BY <2>1, TableWalk, DistinctLength
  <2>4. paxos_state_array \in Lists
    <3> DEFINE l == paxos_state_array
               C == Cardinality(Elements)
    <3>1. l \in Seq(Elements) /\ Distinct(l)
      BY DEF Inv, ListInv
    <3>2. Len(l) \in Nat /\ l \in [1..Len(l) -> Elements] /\ Len(l) <= C
      BY <3>1, LenProperties, DistinctLength
    <3>3. C \in Nat
      BY ElementsAreNat, FS_CardinalityType
    <3>4. Len(l) \in 0..C
      BY <3>2, <3>3
    <3> QED
      BY <3>2, <3>4 DEF Lists
  <2>5. hash \in Hashes /\ sent \subseteq Elements /\ running \in BOOLEAN
    BY DEF Inv, TableInv, ValueInv
  <2> QED
    BY <2>2, <2>3, <2>4, <2>5 DEF TypeOK
<1> QED
  BY <1>1, Invariance, PTL

(* HASH_FSCK, run after any call, finds nothing wrong with the table; none *)
(* is left after clean_up_hashmap.                                         *)
THEOREM TableIntact == Spec => []Intact
<1>1. Inv => Intact
  <2> SUFFICES ASSUME Inv PROVE Intact
    OBVIOUS
  <2>1. PICK s : TableIs(nodes, s) /\ (~running => s = <<>>)
    BY DEF Inv, TableInv, TableOf
  <2> QED
    BY <2>1, FsckHolds, TableWalk DEF Intact
<1> QED
  BY <1>1, Invariance, PTL

(* HASH_FIND finds the keys added and not deleted, and no other.           *)
THEOREM FindCorrect == Spec => []FindsMembers
<1>1. Inv => FindsMembers
  BY FindsTheMembers DEF FindsMembers
<1> QED
  BY <1>1, Invariance, PTL

(* The tail, where HASH_ADD appends, is the last element of the list.      *)
THEOREM TailCorrect == Spec => []TailIsLast
<1>1. Inv => TailIsLast
  <2> SUFFICES ASSUME Inv PROVE TailIsLast
    OBVIOUS
  <2>1. PICK s : TableIs(nodes, s)
    BY DEF Inv, TableInv, TableOf
  <2> QED
    BY <2>1, FsckHolds DEF TailIsLast
<1> QED
  BY <1>1, Invariance, PTL

(* HASH_EXPAND_BUCKETS keeps the chains short.                             *)
THEOREM ChainsStayBounded == Spec => []ChainsBounded
<1>1. Inv => ChainsBounded
  <2> SUFFICES ASSUME Inv PROVE ChainsBounded
    OBVIOUS
  <2>1. PICK s : TableIs(nodes, s)
    BY DEF Inv, TableInv, TableOf
  <2>2. nodes.head # NULL => Bounded(nodes.tbl)
    BY <2>1, TableTyped
  <2> QED
    BY <2>2 DEF ChainsBounded, Bounded
<1> QED
  BY <1>1, Invariance, PTL

(* tpl_dump writes as many bytes as tpl_ser_osz counted.                   *)
THEOREM BufferFilled == Spec => []DumpFillsBuffer
<1>1. Inv => DumpFillsBuffer
  <2> SUFFICES ASSUME Inv, value # NULL PROVE Bytes(value.cells) = value.sz
    BY DEF DumpFillsBuffer
  <2>1. PICK s : s \in Seq(Elements) /\ IsImage(value, s)
    BY DEF Inv, ValueInv, ValueOf
  <2> QED
    BY <2>1, BytesOfImage
<1> QED
  BY <1>1, Invariance, PTL

(* What deserialize_hash reads is what serialize_hash was given.           *)
THEOREM RoundTrips == Spec => []RoundTrip
<1>1. Inv => RoundTrip
  <2> SUFFICES ASSUME Inv, value # NULL PROVE RoundTrip
    BY DEF RoundTrip
  <2> DEFINE d == DeserializeHash(value)
  <2>1. PICK s : ValueOf(s)
    BY DEF Inv, ValueInv
  <2>2. /\ s \in Seq(Elements) /\ Ascending(s) /\ ToSet(s) = sent /\ IsImage(value, s)
        /\ running => AppOrder(nodes) = s
    BY <2>1 DEF ValueOf
  <2>3. ReadBack(d, s)
    BY <2>2, DeserializeIs
  <2> HIDE DEF d
  <2>4. d.rc = 0 /\ d.uuid = Uuid /\ d.sender_ip = Self
    BY <2>3 DEF ReadBack
  <2>5. /\ d.result = Reverse(s) /\ ToSet(d.result) = sent
        /\ \A i, j \in DOMAIN d.result : i < j => d.result[i] > d.result[j]
    BY <2>2, <2>3, ReadBackIs
  <2>6. running => d.result = GetMembershipGroup(nodes)
    BY <2>2, <2>5 DEF GetMembershipGroup
  <2> QED
    BY <2>4, <2>5, <2>6 DEF RoundTrip, d
<1> QED
  BY <1>1, Invariance, PTL

(* tpl_load refuses an image that was cut or whose lengths were altered.   *)
THEOREM DamageRejected == Spec => []DamagedRejected
<1>1. Inv => DamagedRejected
  <2> SUFFICES ASSUME Inv, value # NULL PROVE DamagedRejected
    BY DEF DamagedRejected
  <2> DEFINE im == value
  <2>1. PICK s : s \in Seq(Elements) /\ s # <<>> /\ IsImage(im, s)
    BY DEF Inv, ValueInv, ValueOf
  <2>2. /\ \A n \in Cuts(im) :
             /\ DeserializeHash(Cut(im, n)).rc = -1
             /\ DeserializeHash(CutAndRelabelled(im, n)).rc = -1
        /\ \A i \in {2, 4, 5, 6, 9} :
             LET v == im.cells[i].v
             IN \A w \in {0, v - 1, v + 1} \ {v} :
                  DeserializeHash(Altered(im, i, w)).rc = -1
    <3> HIDE DEF im
    <3> QED
      BY <2>1, DamagedImage
  <2> QED
    BY <2>2 DEF DamagedRejected
<1> QED
  BY <1>1, Invariance, PTL

(* The list on_deliver keeps is of the group delivered last, with no       *)
(* address twice.                                                          *)
THEOREM ListFollowsGroup == Spec => []ListIsGroup
<1>1. Inv => ListIsGroup
  <2> SUFFICES ASSUME Inv PROVE ListIsGroup
    OBVIOUS
  <2> DEFINE l == paxos_state_array
  <2>1. l \in Seq(Elements) /\ Distinct(l) /\ ToSet(l) = learned
    BY DEF Inv, ListInv
  <2>2. DOMAIN l = 1..Len(l)
    BY <2>1, LenProperties
  <2>3. IsInjective(l)
    BY <2>1, <2>2 DEF Distinct, IsInjective
  <2> QED
    BY <2>1, <2>3 DEF ListIsGroup
<1> QED
  BY <1>1, Invariance, PTL

==============================================================================
