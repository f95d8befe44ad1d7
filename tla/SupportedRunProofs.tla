-------------------------- MODULE SupportedRunProofs --------------------------
(***************************************************************************)
(* Theorems about a supported run and the whole-score run it wraps, and    *)
(* about a whole-score run prepared in part: for any number of batches the *)
(* materials are cut into, with and without transition materials, whatever *)
(* is given, any limit on the calls and any number of stops.               *)
(*                                                                         *)
(* First what the files say of each other, and what the invocation knows of*)
(* them where it stands; then that every step of the inner run, and every  *)
(* step of the outer one, keeps it; last the theorems.                     *)
(***************************************************************************)
EXTENDS SupportedRun, TLAPS, FiniteSetTheorems, SequenceTheorems

(* Induction, with a set for the property.                                 *)
LEMMA SetInduction ==
  ASSUME NEW T, 0 \in T, \A n \in Nat : n \in T => n + 1 \in T
  PROVE  \A n \in Nat : n \in T
<1>. DEFINE Out == {n \in Nat : n \notin T}
<1>. SUFFICES ASSUME Out # {} PROVE FALSE  OBVIOUS
<1>1. PICK m \in Out : \A j \in Out : ~ <<j, m>> \in OpToRel(<, Nat)
  <2>1. Out \subseteq Nat  OBVIOUS
  <2>. QED  BY <2>1, NatLessThanWellFounded, WFMin, Zenon
<1>2. m \in Nat /\ m # 0 /\ m \notin T  OBVIOUS
<1>3. m - 1 \in Nat /\ (m - 1) + 1 = m /\ m - 1 < m  BY <1>2
<1>4. m - 1 \in Out  BY <1>2, <1>3
<1>5. <<m - 1, m>> \in OpToRel(<, Nat)  BY <1>2, <1>3 DEF OpToRel
<1>. QED  BY <1>1, <1>4, <1>5

(* What Total chooses for the first n weights.                             *)
IsSum(f, w, n) == f = [i \in 0 .. n |-> IF i = 0 THEN 0 ELSE f[i - 1] + w[i]]

LEMMA SumExists == ASSUME NEW w PROVE \A n \in Nat : \E f : IsSum(f, w, n)
<1>. DEFINE T == {n \in Nat : \E f : IsSum(f, w, n)}
<1>1. 0 \in T
  <2>. DEFINE f == [i \in 0 .. 0 |-> 0]
  <2>1. f = [i \in 0 .. 0 |-> IF i = 0 THEN 0 ELSE f[i - 1] + w[i]]  OBVIOUS
  <2>2. IsSum(f, w, 0)  BY <2>1 DEF IsSum
  <2>. QED  BY <2>2
<1>2. ASSUME NEW n \in Nat, n \in T PROVE n + 1 \in T
  <2>1. PICK f : IsSum(f, w, n)  BY <1>2
  <2>. DEFINE g == [i \in 0 .. n + 1 |-> IF i = n + 1 THEN f[n] + w[n + 1] ELSE f[i]]
              h == [i \in 0 .. n + 1 |-> IF i = 0 THEN 0 ELSE g[i - 1] + w[i]]
  <2>2. ASSUME NEW i \in 0 .. n + 1 PROVE g[i] = h[i]
    <3>1. CASE i = 0
      <4>1. f[0] = 0  BY <2>1 DEF IsSum
      <4>2. g[0] = f[0] /\ h[0] = 0  OBVIOUS
      <4>. QED  BY <3>1, <4>1, <4>2
    <3>2. CASE i # 0 /\ i # n + 1
      <4>1. i \in 0 .. n /\ i - 1 \in 0 .. n + 1 /\ i - 1 # n + 1  BY <3>2
      <4>2. f[i] = f[i - 1] + w[i]  BY <2>1, <3>2, <4>1 DEF IsSum
      <4>3. g[i - 1] = f[i - 1] /\ g[i] = f[i]  BY <3>2, <4>1
      <4>4. h[i] = g[i - 1] + w[i]  BY <3>2
      <4>. QED  BY <4>2, <4>3, <4>4
    <3>3. CASE i = n + 1
      <4>1. n \in 0 .. n + 1 /\ n # n + 1 /\ n + 1 # 0 /\ (n + 1) - 1 = n  OBVIOUS
      <4>2. g[n] = f[n]  BY <4>1
      <4>3. g[n + 1] = f[n] + w[n + 1]  OBVIOUS
      <4>4. h[n + 1] = g[n] + w[n + 1]  BY <4>1
      <4>. QED  BY <3>3, <4>2, <4>3, <4>4
    <3>. QED  BY <3>1, <3>2, <3>3
  <2>3. g = h  BY <2>2
  <2>4. IsSum(g, w, n + 1)  BY <2>3 DEF IsSum
  <2>. QED  BY <2>4
<1>. HIDE DEF T
<1>3. \A n \in Nat : n \in T  BY <1>1, <1>2, SetInduction
<1>. QED  BY <1>3 DEF T

LEMMA SumAt ==
  ASSUME NEW f, NEW w, NEW n \in Nat, IsSum(f, w, n)
  PROVE  f[0] = 0 /\ \A i \in 1 .. n : f[i] = f[i - 1] + w[i]
<1>1. 0 \in 0 .. n /\ \A i \in 1 .. n : i \in 0 .. n /\ i # 0  OBVIOUS
<1>. QED  BY <1>1 DEF IsSum

LEMMA SumAgrees ==
  ASSUME NEW f, NEW g, NEW w, NEW v, NEW n \in Nat, NEW m \in Nat, n <= m,
         IsSum(f, w, n), IsSum(g, v, m), \A i \in 1 .. n : w[i] = v[i]
  PROVE  \A i \in 0 .. n : f[i] = g[i]
<1>. DEFINE T == {i \in Nat : i <= n => f[i] = g[i]}
<1>1. 0 \in T  BY SumAt
<1>2. ASSUME NEW i \in Nat, i \in T PROVE i + 1 \in T
  <2>. SUFFICES ASSUME i + 1 <= n PROVE f[i + 1] = g[i + 1]  OBVIOUS
  <2>1. i + 1 \in 1 .. n /\ i + 1 \in 1 .. m /\ (i + 1) - 1 = i /\ i <= n  OBVIOUS
  <2>2. f[i + 1] = f[i] + w[i + 1]  BY <2>1, SumAt
  <2>3. g[i + 1] = g[i] + v[i + 1]  BY <2>1, SumAt
  <2>. QED  BY <1>2, <2>1, <2>2, <2>3
<1>. HIDE DEF T
<1>3. \A i \in Nat : i \in T  BY <1>1, <1>2, SetInduction
<1>. QED  BY <1>3 DEF T

LEMMA TotalIs ==
  ASSUME NEW w, Len(w) \in Nat
  PROVE  \E f : IsSum(f, w, Len(w)) /\ Total(w) = f[Len(w)]
<1>1. \E f : IsSum(f, w, Len(w))  BY SumExists
<1>. DEFINE sum == CHOOSE f : IsSum(f, w, Len(w))
<1>2. IsSum(sum, w, Len(w))  BY <1>1
<1>3. Total(w) = sum[Len(w)]  BY DEF Total, IsSum
<1>. QED  BY <1>2, <1>3

LEMMA TotalOfNone == Total(<<>>) = 0
<1>1. Len(<<>>) \in Nat /\ Len(<<>>) = 0  OBVIOUS
<1>. HIDE DEF Total
<1>2. PICK f : IsSum(f, <<>>, 0) /\ Total(<<>>) = f[0]  BY <1>1, TotalIs
<1>. QED  BY <1>2, SumAt

LEMMA TotalOfAppend ==
  ASSUME NEW w \in Seq(Nat), NEW x \in Nat
  PROVE  Total(Append(w, x)) = Total(w) + x
<1>. DEFINE v == Append(w, x)
<1>1. Len(w) \in Nat /\ Len(v) = Len(w) + 1 /\ v[Len(v)] = x
      /\ \A i \in 1 .. Len(w) : w[i] = v[i]
  OBVIOUS
<1>. HIDE DEF v
<1>2. PICK f : IsSum(f, w, Len(w)) /\ Total(w) = f[Len(w)]  BY <1>1, TotalIs
<1>3. PICK g : IsSum(g, v, Len(v)) /\ Total(v) = g[Len(v)]  BY <1>1, TotalIs
<1>4. f[Len(w)] = g[Len(w)]  BY <1>1, <1>2, <1>3, SumAgrees
<1>5. g[Len(v)] = g[Len(v) - 1] + v[Len(v)]  BY <1>1, <1>3, SumAt
<1>. QED  BY <1>1, <1>2, <1>3, <1>4, <1>5 DEF v

LEMMA TotalIsNat == ASSUME NEW w \in Seq(Nat) PROVE Total(w) \in Nat
<1>1. PICK f : IsSum(f, w, Len(w)) /\ Total(w) = f[Len(w)]  BY TotalIs
<1>. DEFINE T == {i \in Nat : i <= Len(w) => f[i] \in Nat}
<1>2. 0 \in T  BY <1>1, SumAt
<1>3. ASSUME NEW i \in Nat, i \in T PROVE i + 1 \in T
  <2>. SUFFICES ASSUME i + 1 <= Len(w) PROVE f[i + 1] \in Nat  OBVIOUS
  <2>1. i + 1 \in 1 .. Len(w) /\ (i + 1) - 1 = i /\ i <= Len(w)  OBVIOUS
  <2>2. f[i + 1] = f[i] + w[i + 1]  BY <1>1, <2>1, SumAt
  <2>3. w[i + 1] \in Nat  BY <2>1
  <2>. QED  BY <1>3, <2>1, <2>2, <2>3
<1>. HIDE DEF T
<1>4. \A i \in Nat : i \in T  BY <1>2, <1>3, SetInduction
<1>. QED  BY <1>1, <1>4 DEF T

(* What Partition chooses for the first n materials.                       *)
IsCut(f, w, c, n) ==
    f = [i \in 0 .. n |-> IF i = 0 THEN <<>> ELSE AddMaterial(f[i - 1], w[i], c)]

LEMMA CutExists == ASSUME NEW w, NEW c PROVE \A n \in Nat : \E f : IsCut(f, w, c, n)
<1>. DEFINE T == {n \in Nat : \E f : IsCut(f, w, c, n)}
<1>1. 0 \in T
  <2>. DEFINE f == [i \in 0 .. 0 |-> <<>>]
  <2>1. f = [i \in 0 .. 0 |-> IF i = 0 THEN <<>> ELSE AddMaterial(f[i - 1], w[i], c)]  OBVIOUS
  <2>2. IsCut(f, w, c, 0)  BY <2>1 DEF IsCut
  <2>. QED  BY <2>2
<1>2. ASSUME NEW n \in Nat, n \in T PROVE n + 1 \in T
  <2>1. PICK f : IsCut(f, w, c, n)  BY <1>2
  <2>. DEFINE g == [i \in 0 .. n + 1 |-> IF i = n + 1 THEN AddMaterial(f[n], w[n + 1], c) ELSE f[i]]
              h == [i \in 0 .. n + 1 |-> IF i = 0 THEN <<>> ELSE AddMaterial(g[i - 1], w[i], c)]
  <2>2. ASSUME NEW i \in 0 .. n + 1 PROVE g[i] = h[i]
    <3>1. CASE i = 0
      <4>1. f[0] = <<>>  BY <2>1 DEF IsCut
      <4>2. g[0] = f[0] /\ h[0] = <<>>  OBVIOUS
      <4>. QED  BY <3>1, <4>1, <4>2
    <3>2. CASE i # 0 /\ i # n + 1
      <4>1. i \in 0 .. n /\ i - 1 \in 0 .. n + 1 /\ i - 1 # n + 1  BY <3>2
      <4>2. f[i] = AddMaterial(f[i - 1], w[i], c)  BY <2>1, <3>2, <4>1 DEF IsCut
      <4>3. g[i - 1] = f[i - 1] /\ g[i] = f[i]  BY <3>2, <4>1
      <4>4. h[i] = AddMaterial(g[i - 1], w[i], c)  BY <3>2
      <4>. QED  BY <4>2, <4>3, <4>4
    <3>3. CASE i = n + 1
      <4>1. n \in 0 .. n + 1 /\ n # n + 1 /\ n + 1 # 0 /\ (n + 1) - 1 = n  OBVIOUS
      <4>2. g[n] = f[n]  BY <4>1
      <4>3. g[n + 1] = AddMaterial(f[n], w[n + 1], c)  OBVIOUS
      <4>4. h[n + 1] = AddMaterial(g[n], w[n + 1], c)  BY <4>1
      <4>. QED  BY <3>3, <4>2, <4>3, <4>4
    <3>. QED  BY <3>1, <3>2, <3>3
  <2>3. g = h  BY <2>2
  <2>4. IsCut(g, w, c, n + 1)  BY <2>3 DEF IsCut
  <2>. QED  BY <2>4
<1>. HIDE DEF T
<1>3. \A n \in Nat : n \in T  BY <1>1, <1>2, SetInduction
<1>. QED  BY <1>3 DEF T

LEMMA CutAt ==
  ASSUME NEW f, NEW w, NEW c, NEW n \in Nat, IsCut(f, w, c, n)
  PROVE  f[0] = <<>> /\ \A i \in 1 .. n : f[i] = AddMaterial(f[i - 1], w[i], c)
<1>1. 0 \in 0 .. n /\ \A i \in 1 .. n : i \in 0 .. n /\ i # 0  OBVIOUS
<1>. QED  BY <1>1 DEF IsCut

LEMMA CutAgrees ==
  ASSUME NEW f, NEW g, NEW w, NEW c, NEW v, NEW n \in Nat, NEW m \in Nat, n <= m,
         IsCut(f, w, c, n), IsCut(g, v, c, m), \A i \in 1 .. n : w[i] = v[i]
  PROVE  \A i \in 0 .. n : f[i] = g[i]
<1>. DEFINE T == {i \in Nat : i <= n => f[i] = g[i]}
<1>1. 0 \in T  BY CutAt
<1>2. ASSUME NEW i \in Nat, i \in T PROVE i + 1 \in T
  <2>. SUFFICES ASSUME i + 1 <= n PROVE f[i + 1] = g[i + 1]  OBVIOUS
  <2>1. i + 1 \in 1 .. n /\ i + 1 \in 1 .. m /\ (i + 1) - 1 = i /\ i <= n  OBVIOUS
  <2>2. f[i + 1] = AddMaterial(f[i], w[i + 1], c)  BY <2>1, CutAt
  <2>3. g[i + 1] = AddMaterial(g[i], v[i + 1], c)  BY <2>1, CutAt
  <2>. QED  BY <1>2, <2>1, <2>2, <2>3
<1>. HIDE DEF T
<1>3. \A i \in Nat : i \in T  BY <1>1, <1>2, SetInduction
<1>. QED  BY <1>3 DEF T

LEMMA PartitionIs ==
  ASSUME NEW w, NEW c, Len(w) \in Nat
  PROVE  \E f : IsCut(f, w, c, Len(w)) /\ Partition(w, c) = f[Len(w)]
<1>1. \E f : IsCut(f, w, c, Len(w))  BY CutExists
<1>. DEFINE cut == CHOOSE f : IsCut(f, w, c, Len(w))
<1>2. IsCut(cut, w, c, Len(w))  BY <1>1
<1>3. Partition(w, c) = cut[Len(w)]  BY DEF Partition, IsCut
<1>. QED  BY <1>2, <1>3

LEMMA PartitionOfNone == ASSUME NEW c PROVE Partition(<<>>, c) = <<>>
<1>1. Len(<<>>) \in Nat /\ Len(<<>>) = 0  OBVIOUS
<1>. HIDE DEF Partition
<1>2. PICK f : IsCut(f, <<>>, c, 0) /\ Partition(<<>>, c) = f[0]  BY <1>1, PartitionIs
<1>. QED  BY <1>2, CutAt

LEMMA PartitionOfAppend ==
  ASSUME NEW w \in Seq(Nat), NEW x \in Nat, NEW c
  PROVE  Partition(Append(w, x), c) = AddMaterial(Partition(w, c), x, c)
<1>. DEFINE v == Append(w, x)
<1>1. Len(w) \in Nat /\ Len(v) = Len(w) + 1 /\ v[Len(v)] = x
      /\ \A i \in 1 .. Len(w) : w[i] = v[i]
  OBVIOUS
<1>. HIDE DEF v
<1>2. PICK f : IsCut(f, w, c, Len(w)) /\ Partition(w, c) = f[Len(w)]  BY <1>1, PartitionIs
<1>3. PICK g : IsCut(g, v, c, Len(v)) /\ Partition(v, c) = g[Len(v)]  BY <1>1, PartitionIs
<1>4. f[Len(w)] = g[Len(w)]  BY <1>1, <1>2, <1>3, CutAgrees
<1>5. g[Len(v)] = AddMaterial(g[Len(v) - 1], v[Len(v)], c)
  <2>1. Len(v) \in Nat /\ Len(v) \in 1 .. Len(v)  BY <1>1
  <2>2. IsCut(g, v, c, Len(v))  BY <1>3
  <2>3. \A i \in 1 .. Len(v) : g[i] = AddMaterial(g[i - 1], v[i], c)  BY <2>1, <2>2, CutAt
  <2>. QED  BY <2>1, <2>3
<1>6. Len(v) - 1 = Len(w)  BY <1>1
<1>. QED  BY <1>1, <1>2, <1>3, <1>4, <1>5, <1>6 DEF v

(* What FlattenSeq chooses for the first n of a sequence of batches.       *)
IsFlat(f, g, n) == g = [i \in 1 .. n |-> IF i = 1 THEN f[i] ELSE g[i - 1] \o f[i]]

LEMMA FlatExists ==
  ASSUME NEW f PROVE \A n \in Nat : \E g : IsFlat(f, g, n)
<1>. DEFINE T == {n \in Nat : \E g : IsFlat(f, g, n)}
<1>1. 0 \in T
  <2>1. IsFlat(f, <<>>, 0)  BY DEF IsFlat
  <2>. QED  BY <2>1
<1>2. ASSUME NEW n \in Nat, n \in T PROVE n + 1 \in T
  <2>1. PICK g : IsFlat(f, g, n)  BY <1>2
  <2>. DEFINE h == [i \in 1 .. n + 1 |->
                      IF i = n + 1 THEN (IF i = 1 THEN f[i] ELSE g[i - 1] \o f[i]) ELSE g[i]]
              k == [i \in 1 .. n + 1 |-> IF i = 1 THEN f[i] ELSE h[i - 1] \o f[i]]
  <2>2. ASSUME NEW i \in 1 .. n + 1 PROVE h[i] = k[i]
    <3>1. CASE i = 1 /\ n + 1 = 1  BY <3>1
    <3>2. CASE i = 1 /\ n + 1 # 1
      <4>1. 1 \in 1 .. n  BY <3>2
      <4>2. g[1] = f[1]  BY <2>1, <4>1 DEF IsFlat
      <4>. QED  BY <3>2, <4>2
    <3>3. CASE i # 1
      <4>1. i - 1 \in 1 .. n /\ i - 1 \in 1 .. n + 1 /\ i - 1 # n + 1  BY <3>3
      <4>2. h[i - 1] = g[i - 1]  BY <4>1
      <4>3. i # n + 1 => i \in 1 .. n  OBVIOUS
      <4>4. i # n + 1 => g[i] = g[i - 1] \o f[i]  BY <2>1, <3>3, <4>3 DEF IsFlat
      <4>. QED  BY <3>3, <4>2, <4>4
    <3>. QED  BY <3>1, <3>2, <3>3
  <2>3. h = k  BY <2>2
  <2>4. IsFlat(f, h, n + 1)  BY <2>3 DEF IsFlat
  <2>. QED  BY <2>4
<1>. HIDE DEF T
<1>3. \A n \in Nat : n \in T  BY <1>1, <1>2, SetInduction
<1>. QED  BY <1>3 DEF T

LEMMA FlatAt ==
  ASSUME NEW f, NEW g, NEW n \in Nat, IsFlat(f, g, n), NEW j \in 1 .. n
  PROVE  g[j] = (IF j = 1 THEN f[j] ELSE g[j - 1] \o f[j])
BY DEF IsFlat

LEMMA FlatAgrees ==
  ASSUME NEW f, NEW e, NEW g, NEW h, NEW n \in Nat, NEW m \in Nat, n <= m,
         IsFlat(f, g, n), IsFlat(e, h, m),
         \A i \in 1 .. n : e[i] = f[i]
  PROVE  \A i \in 1 .. n : g[i] = h[i]
<1>. DEFINE T == {i \in Nat : i \in 1 .. n => g[i] = h[i]}
<1>1. 0 \in T  OBVIOUS
<1>2. ASSUME NEW i \in Nat, i \in T PROVE i + 1 \in T
  <2>. SUFFICES ASSUME i + 1 \in 1 .. n PROVE g[i + 1] = h[i + 1]  OBVIOUS
  <2>1. i + 1 \in 1 .. n /\ i + 1 \in 1 .. m  OBVIOUS
  <2>2. g[i + 1] = (IF i + 1 = 1 THEN f[i + 1] ELSE g[i + 1 - 1] \o f[i + 1])
    BY <2>1, FlatAt
  <2>3. h[i + 1] = (IF i + 1 = 1 THEN e[i + 1] ELSE h[i + 1 - 1] \o e[i + 1])
    BY <2>1, FlatAt
  <2>4. i + 1 - 1 = i /\ (i + 1 # 1 => i \in 1 .. n)  OBVIOUS
  <2>. QED  BY <1>2, <2>2, <2>3, <2>4
<1>. HIDE DEF T
<1>3. \A i \in Nat : i \in T  BY <1>1, <1>2, SetInduction
<1>. QED  BY <1>3 DEF T

LEMMA FlattenIs ==
  ASSUME NEW f, Len(f) \in Nat \ {0}
  PROVE  \E g : IsFlat(f, g, Len(f)) /\ FlattenSeq(f) = g[Len(f)]
<1>. DEFINE g == CHOOSE g : IsFlat(f, g, Len(f))
<1>1. IsFlat(f, g, Len(f))  BY FlatExists
<1>2. FlattenSeq(f) = g[Len(f)]  BY DEF FlattenSeq, IsFlat
<1>. QED  BY <1>1, <1>2

LEMMA FlattenOfAppend ==
  ASSUME NEW S, NEW s \in Seq(Seq(S)), NEW t \in Seq(S)
  PROVE  FlattenSeq(Append(s, t)) = (IF s = <<>> THEN t ELSE FlattenSeq(s) \o t)
<1>. DEFINE u == Append(s, t)
<1>1. Len(s) \in Nat /\ Len(u) = Len(s) + 1 /\ u[Len(u)] = t
      /\ (s = <<>> <=> Len(s) = 0) /\ \A i \in 1 .. Len(s) : s[i] = u[i]
  OBVIOUS
<1>. HIDE DEF u
<1>2. PICK g : IsFlat(u, g, Len(u)) /\ FlattenSeq(u) = g[Len(u)]  BY <1>1, FlattenIs
<1>3. Len(u) \in 1 .. Len(u)  BY <1>1
<1>4. g[Len(u)] = (IF Len(u) = 1 THEN t ELSE g[Len(u) - 1] \o t)  BY <1>1, <1>2, <1>3, FlatAt
<1>5. CASE s = <<>>  BY <1>1, <1>2, <1>4, <1>5 DEF u
<1>6. CASE s # <<>>
  <2>1. Len(s) # 0 /\ Len(u) # 1 /\ Len(u) - 1 = Len(s)  BY <1>1, <1>6
  <2>2. PICK h : IsFlat(s, h, Len(s)) /\ FlattenSeq(s) = h[Len(s)]  BY <1>1, <2>1, FlattenIs
  <2>3. \A i \in 1 .. Len(s) : h[i] = g[i]
    <3>1. Len(s) \in Nat /\ Len(s) <= Len(u) /\ Len(u) \in Nat
      BY <1>1
    <3>2. \A i \in 1 .. Len(s) : u[i] = s[i]  BY <1>1
    <3>3. IsFlat(s, h, Len(s)) /\ IsFlat(u, g, Len(u))  BY <1>2, <2>2
    <3>4. ASSUME NEW n \in Nat, NEW m \in Nat, n <= m, IsFlat(s, h, n), IsFlat(u, g, m),
                 \A i \in 1 .. n : u[i] = s[i]
          PROVE  \A i \in 1 .. n : h[i] = g[i]
      BY <3>4, FlatAgrees
    <3>. QED  BY <3>1, <3>2, <3>3, <3>4
  <2>4. h[Len(s)] = g[Len(s)]  BY <1>1, <2>1, <2>3
  <2>. QED  BY <1>2, <1>4, <1>6, <2>1, <2>2, <2>4 DEF u
<1>. QED  BY <1>5, <1>6

LEMMA FrontIs ==
  ASSUME NEW B \in Seq(Seq(Nat)), B # <<>>
  PROVE  /\ Front(B) \in Seq(Seq(Nat)) /\ Len(Front(B)) = Len(B) - 1
         /\ \A k \in 1 .. Len(B) - 1 : Front(B)[k] = B[k]
<1>1. Len(B) \in Nat \ {0}  OBVIOUS
<1>2. \A k \in 1 .. Len(B) - 1 : k \in 1 .. Len(B) /\ 1 + k - 1 = k  BY <1>1
<1>3. \A k \in 1 .. Len(B) : B[k] \in Seq(Nat)  OBVIOUS
<1>4. Len(B) - 1 \in Int /\ 1 \in Int /\ \A k \in 1 .. Len(B) - 1 : B[k] \in Seq(Nat)
  BY <1>1, <1>2, <1>3
<1>5. Len(B) - 1 - 1 + 1 = Len(B) - 1 /\ (1 <= Len(B) - 1 \/ Len(B) - 1 = 0)
  <2>1. ASSUME NEW n \in Nat \ {0} PROVE n - 1 - 1 + 1 = n - 1 /\ (1 <= n - 1 \/ n - 1 = 0)
    OBVIOUS
  <2>. QED  BY <1>1, <2>1
<1>6. Front(B) = SubSeq(B, 1, Len(B) - 1)  BY DEF Front
<1>7. /\ SubSeq(B, 1, Len(B) - 1) \in Seq(Seq(Nat))
      /\ Len(SubSeq(B, 1, Len(B) - 1)) = (IF 1 <= Len(B) - 1 THEN Len(B) - 1 - 1 + 1 ELSE 0)
      /\ \A k \in 1 .. Len(B) - 1 - 1 + 1 : SubSeq(B, 1, Len(B) - 1)[k] = B[1 + k - 1]
  BY <1>4, SubSeqProperties
<1>. HIDE DEF Front
<1>. QED  BY <1>2, <1>4, <1>5, <1>6, <1>7

LEMMA AddedMaterial ==
  ASSUME NEW B \in Seq(Seq(Nat)), NEW x \in Nat, NEW c
  PROVE  LET C == AddMaterial(B, x, c)
         IN  /\ C \in Seq(Seq(Nat))
             /\ \/ /\ B # <<>> /\ Total(B[Len(B)]) + x <= c
                   /\ Len(C) = Len(B) /\ C[Len(B)] = Append(B[Len(B)], x)
                   /\ \A k \in 1 .. Len(B) - 1 : C[k] = B[k]
                \/ /\ B # <<>> => ~ (Total(B[Len(B)]) + x <= c)
                   /\ Len(C) = Len(B) + 1 /\ C[Len(B) + 1] = <<x>>
                   /\ \A k \in 1 .. Len(B) : C[k] = B[k]
<1>. DEFINE C == AddMaterial(B, x, c)
<1>1. CASE B # <<>> /\ Total(B[Len(B)]) + x <= c
  <2>. DEFINE F == Front(B)
              t == Append(B[Len(B)], x)
  <2>1. C = Append(F, t)  BY <1>1 DEF AddMaterial, Last
  <2>2. Len(B) \in Nat \ {0}  BY <1>1
  <2>3. B[Len(B)] \in Seq(Nat)  BY <2>2
  <2>4. t \in Seq(Nat)  BY <2>3
  <2>5. F \in Seq(Seq(Nat)) /\ Len(F) = Len(B) - 1 /\ \A k \in 1 .. Len(B) - 1 : F[k] = B[k]
    BY <1>1, FrontIs
  <2>. HIDE DEF F, t
  <2>6. Append(F, t) \in Seq(Seq(Nat)) /\ Len(Append(F, t)) = Len(B)
        /\ Append(F, t)[Len(B)] = t /\ \A k \in 1 .. Len(B) - 1 : Append(F, t)[k] = B[k]
    BY <2>2, <2>4, <2>5
  <2>. QED  BY <1>1, <2>1, <2>6 DEF t
<1>2. CASE ~ (B # <<>> /\ Total(B[Len(B)]) + x <= c)
  <2>1. C = Append(B, <<x>>)  BY <1>2 DEF AddMaterial, Last
  <2>2. <<x>> \in Seq(Nat)  OBVIOUS
  <2>3. Append(B, <<x>>) \in Seq(Seq(Nat)) /\ Len(Append(B, <<x>>)) = Len(B) + 1
        /\ Append(B, <<x>>)[Len(B) + 1] = <<x>>
        /\ \A k \in 1 .. Len(B) : Append(B, <<x>>)[k] = B[k]
    BY <2>2
  <2>. QED  BY <1>2, <2>1, <2>3
<1>. QED  BY <1>1, <1>2

LEMMA PartIs ==
  ASSUME NEW w \in Seq(Nat), NEW i \in 1 .. Len(w) + 1, NEW j \in 0 .. Len(w)
  PROVE  /\ SubSeq(w, i, j) \in Seq(Nat)
         /\ Len(SubSeq(w, i, j)) = IF i <= j THEN j - i + 1 ELSE 0
         /\ \A k \in 1 .. j - i + 1 : SubSeq(w, i, j)[k] = w[i + k - 1]
<1>1. i \in Int /\ j \in Int /\ \A k \in i .. j : w[k] \in Nat  OBVIOUS
<1>. QED  BY <1>1, SubSeqProperties

LEMMA PartOfAppend ==
  ASSUME NEW w \in Seq(Nat), NEW x \in Nat, NEW i \in 1 .. Len(w) + 1
  PROVE  /\ \A j \in 0 .. Len(w) : SubSeq(Append(w, x), i, j) = SubSeq(w, i, j)
         /\ SubSeq(Append(w, x), i, Len(w) + 1) = Append(SubSeq(w, i, Len(w)), x)
<1>. DEFINE v == Append(w, x)
<1>1. Len(w) \in Nat /\ v \in Seq(Nat) /\ Len(v) = Len(w) + 1 /\ v[Len(w) + 1] = x
      /\ \A k \in 1 .. Len(w) : v[k] = w[k]
  OBVIOUS
<1>. HIDE DEF v
<1>2. i \in 1 .. Len(v) + 1 /\ Len(w) + 1 \in 0 .. Len(v) /\ Len(w) \in 0 .. Len(w)  BY <1>1
<1>3. ASSUME NEW j \in 0 .. Len(w) PROVE SubSeq(v, i, j) = SubSeq(w, i, j)
  <2>. DEFINE a == SubSeq(v, i, j)
              b == SubSeq(w, i, j)
  <2>1. j \in 0 .. Len(v)  BY <1>1
  <2>2. a \in Seq(Nat) /\ Len(a) = (IF i <= j THEN j - i + 1 ELSE 0)
        /\ \A k \in 1 .. j - i + 1 : a[k] = v[i + k - 1]
    BY <1>1, <1>2, <2>1, PartIs
  <2>3. b \in Seq(Nat) /\ Len(b) = (IF i <= j THEN j - i + 1 ELSE 0)
        /\ \A k \in 1 .. j - i + 1 : b[k] = w[i + k - 1]
    BY PartIs
  <2>. HIDE DEF a, b
  <2>4. ASSUME NEW k \in 1 .. Len(a) PROVE a[k] = b[k]
    <3>1. k \in 1 .. j - i + 1 /\ i + k - 1 \in 1 .. Len(w)  BY <1>1, <2>2
    <3>. QED  BY <1>1, <2>2, <2>3, <3>1
  <2>5. a = b  BY <2>2, <2>3, <2>4, SeqEqual
  <2>. QED  BY <2>5 DEF a, b
<1>4. SubSeq(v, i, Len(w) + 1) = Append(SubSeq(w, i, Len(w)), x)
  <2>. DEFINE a == SubSeq(v, i, Len(w) + 1)
              b == SubSeq(w, i, Len(w))
              d == Append(b, x)
              m == Len(w) + 1 - i
  <2>1. m \in Nat /\ i \in Nat  BY <1>1
  <2>2. a \in Seq(Nat) /\ Len(a) = m + 1 /\ \A k \in 1 .. m + 1 : a[k] = v[i + k - 1]
    <3>1. a \in Seq(Nat)
          /\ Len(a) = (IF i <= Len(w) + 1 THEN Len(w) + 1 - i + 1 ELSE 0)
          /\ \A k \in 1 .. Len(w) + 1 - i + 1 : a[k] = v[i + k - 1]
      BY <1>1, <1>2, PartIs
    <3>. HIDE DEF a
    <3>. QED  BY <1>1, <3>1
  <2>3. b \in Seq(Nat) /\ Len(b) = m /\ \A k \in 1 .. m : b[k] = w[i + k - 1]
    <3>1. b \in Seq(Nat)
          /\ Len(b) = (IF i <= Len(w) THEN Len(w) - i + 1 ELSE 0)
          /\ \A k \in 1 .. Len(w) - i + 1 : b[k] = w[i + k - 1]
      BY <1>1, <1>2, PartIs
    <3>. HIDE DEF b
    <3>2. Len(w) - i + 1 = m  BY <1>1
    <3>3. Len(b) = m
      <4>1. CASE i <= Len(w)  BY <3>1, <3>2, <4>1
      <4>2. CASE ~ (i <= Len(w))
        <5>1. Len(b) = 0  BY <3>1, <4>2
        <5>. QED  BY <1>1, <4>2, <5>1
      <4>. QED  BY <4>1, <4>2
    <3>. QED  BY <3>1, <3>2, <3>3
  <2>. HIDE DEF a, b
  <2>4. d \in Seq(Nat) /\ Len(d) = m + 1 /\ d[m + 1] = x /\ \A k \in 1 .. m : d[k] = b[k]
    BY <2>3, AppendProperties
  <2>. HIDE DEF d
  <2>5. i + (m + 1) - 1 = Len(w) + 1  BY <1>1
  <2>6. \A k \in 1 .. m : i + k - 1 \in 1 .. Len(w)  BY <1>1
  <2>. HIDE DEF m
  <2>7. ASSUME NEW k \in 1 .. Len(a) PROVE a[k] = d[k]
    <3>1. CASE k = m + 1
      <4>1. m + 1 \in 1 .. m + 1  BY <2>1
      <4>2. a[m + 1] = v[i + (m + 1) - 1]  BY <2>2, <4>1
      <4>. QED  BY <1>1, <2>4, <2>5, <3>1, <4>2
    <3>2. CASE k # m + 1
      <4>1. k \in 1 .. m /\ k \in 1 .. m + 1  BY <2>1, <2>2, <3>2
      <4>2. a[k] = v[i + k - 1] /\ b[k] = w[i + k - 1] /\ d[k] = b[k]
        BY <2>2, <2>3, <2>4, <4>1
      <4>3. v[i + k - 1] = w[i + k - 1]  BY <1>1, <2>6, <4>1
      <4>. QED  BY <4>2, <4>3
    <3>. QED  BY <3>1, <3>2
  <2>8. a = d  BY <2>2, <2>4, <2>7, SeqEqual
  <2>. QED  BY <2>8 DEF a, b, d
<1>. QED  BY <1>3, <1>4 DEF v

(* The places e where a score w is cut into batches B: each but the last   *)
(* takes all the materials its ceiling allows.                             *)
CutsAt(e, w, B, c) ==
    /\ e \in [0 .. Len(B) -> 0 .. Len(w)]
    /\ e[0] = 0 /\ e[Len(B)] = Len(w)
    /\ \A i, j \in 0 .. Len(B) : i < j => e[i] < e[j]
    /\ \A k \in 1 .. Len(B) :
          B[k] = SubSeq(w, e[k - 1] + 1, e[k]) /\ Total(B[k]) <= c
    /\ \A k \in 1 .. Len(B) - 1 : Total(SubSeq(w, e[k - 1] + 1, e[k] + 1)) > c

LEMMA CutsOfAppend ==
  ASSUME NEW w \in Seq(Nat), NEW c \in Nat, NEW x \in 1 .. c,
         NEW B \in Seq(Seq(Nat)), NEW e, CutsAt(e, w, B, c)
  PROVE  \E d : CutsAt(d, Append(w, x), AddMaterial(B, x, c), c)
<1>. DEFINE v == Append(w, x)
            C == AddMaterial(B, x, c)
            L == Len(B)
            n == Len(w)
<1>1. L \in Nat /\ n \in Nat /\ v \in Seq(Nat) /\ Len(v) = n + 1 /\ x \in Nat /\ x <= c
  OBVIOUS
<1>2. e \in [0 .. L -> 0 .. n]  BY DEF CutsAt
<1>20. e[0] = 0 /\ e[L] = n  BY DEF CutsAt
<1>21. \A i, j \in 0 .. L : i < j => e[i] < e[j]  BY DEF CutsAt
<1>22. \A k \in 1 .. L : B[k] = SubSeq(w, e[k - 1] + 1, e[k]) /\ Total(B[k]) <= c
  BY DEF CutsAt
<1>23. \A k \in 1 .. L - 1 : Total(SubSeq(w, e[k - 1] + 1, e[k] + 1)) > c  BY DEF CutsAt
<1>3. \A i \in 1 .. n + 1 :
        /\ \A j \in 0 .. n : SubSeq(v, i, j) = SubSeq(w, i, j)
        /\ SubSeq(v, i, n + 1) = Append(SubSeq(w, i, n), x)
  BY <1>1, PartOfAppend
<1>4. /\ C \in Seq(Seq(Nat))
      /\ \/ /\ B # <<>> /\ Total(B[L]) + x <= c
            /\ Len(C) = L /\ C[L] = Append(B[L], x)
            /\ \A k \in 1 .. L - 1 : C[k] = B[k]
         \/ /\ B # <<>> => ~ (Total(B[L]) + x <= c)
            /\ Len(C) = L + 1 /\ C[L + 1] = <<x>>
            /\ \A k \in 1 .. L : C[k] = B[k]
  BY <1>1, AddedMaterial
<1>5. B # <<>> <=> L # 0  OBVIOUS
<1>6. \A k \in 1 .. L : Total(B[k]) \in Nat /\ B[k] \in Seq(Nat)
  <2>1. \A k \in 1 .. L : B[k] \in Seq(Nat)  OBVIOUS
  <2>. QED  BY <2>1, TotalIsNat
<1>7. \A k \in 1 .. L : k - 1 \in 0 .. L /\ k \in 0 .. L /\ k - 1 < k  BY <1>1
<1>8. \A k \in 1 .. L : e[k - 1] \in 0 .. n /\ e[k] \in 0 .. n /\ e[k - 1] < e[k]
  BY <1>2, <1>21, <1>7
<1>. HIDE DEF v, C, L, n
<1>9. \A k \in 1 .. L - 1 : e[k] + 1 \in 1 .. n /\ e[k] + 1 \in 0 .. n
  <2>. TAKE k \in 1 .. L - 1
  <2>1. k \in 0 .. L /\ L \in 0 .. L /\ k < L  BY <1>1
  <2>2. e[k] < n /\ e[k] \in 0 .. n  BY <1>2, <1>20, <1>21, <2>1
  <2>. QED  BY <1>1, <2>2
<1>10. \A k \in 1 .. L : SubSeq(v, e[k - 1] + 1, e[k]) = B[k]
  <2>. TAKE k \in 1 .. L
  <2>0. e[k - 1] \in 0 .. n /\ e[k] \in 0 .. n  BY <1>8
  <2>1. e[k - 1] + 1 \in 1 .. n + 1 /\ e[k] \in 0 .. n  BY <1>1, <2>0
  <2>2. SubSeq(v, e[k - 1] + 1, e[k]) = SubSeq(w, e[k - 1] + 1, e[k])  BY <1>3, <2>1
  <2>. QED  BY <1>22, <2>2
<1>11. \A k \in 1 .. L - 1 : Total(SubSeq(v, e[k - 1] + 1, e[k] + 1)) > c
  <2>. TAKE k \in 1 .. L - 1
  <2>1. k \in 1 .. L  BY <1>1
  <2>0. e[k - 1] \in 0 .. n /\ e[k] + 1 \in 0 .. n  BY <1>8, <1>9, <2>1
  <2>2. e[k - 1] + 1 \in 1 .. n + 1 /\ e[k] + 1 \in 0 .. n  BY <1>1, <2>0
  <2>3. SubSeq(v, e[k - 1] + 1, e[k] + 1) = SubSeq(w, e[k - 1] + 1, e[k] + 1)
    BY <1>3, <2>2
  <2>. QED  BY <1>23, <2>3
<1>12. L # 0 => SubSeq(v, e[L - 1] + 1, n + 1) = Append(B[L], x)
  <2>. SUFFICES ASSUME L # 0 PROVE SubSeq(v, e[L - 1] + 1, n + 1) = Append(B[L], x)
    OBVIOUS
  <2>1. L \in 1 .. L  BY <1>1
  <2>0. e[L - 1] \in 0 .. n  BY <1>8, <2>1
  <2>2. e[L - 1] + 1 \in 1 .. n + 1  BY <1>1, <2>0
  <2>3. SubSeq(v, e[L - 1] + 1, n + 1) = Append(SubSeq(w, e[L - 1] + 1, n), x)
    BY <1>3, <2>2
  <2>4. B[L] = SubSeq(w, e[L - 1] + 1, n)  BY <1>20, <1>22, <2>1
  <2>. QED  BY <2>3, <2>4
<1>13. L # 0 => Total(Append(B[L], x)) = Total(B[L]) + x
  <2>1. L # 0 => L \in 1 .. L  BY <1>1
  <2>. QED  BY <1>1, <1>6, <2>1, TotalOfAppend
<1>14. CASE /\ B # <<>> /\ Total(B[L]) + x <= c
            /\ Len(C) = L /\ C[L] = Append(B[L], x)
            /\ \A k \in 1 .. L - 1 : C[k] = B[k]
  <2>. DEFINE d == [k \in 0 .. L |-> IF k = L THEN n + 1 ELSE e[k]]
  <2>1. L \in 1 .. L /\ L # 0 /\ L - 1 \in 0 .. L  BY <1>1, <1>5, <1>14
  <2>2. d[L] = n + 1 /\ \A k \in 0 .. L : k # L => d[k] = e[k]  BY <2>1
  <2>3. d \in [0 .. L -> 0 .. n + 1]
    <3>1. \A k \in 0 .. L : e[k] \in 0 .. n + 1 /\ n + 1 \in 0 .. n + 1  BY <1>1, <1>2
    <3>. QED  BY <3>1
  <2>. HIDE DEF d
  <2>4. d[0] = 0  BY <1>1, <1>20, <2>1, <2>2
  <2>5. \A i, j \in 0 .. L : i < j => d[i] < d[j]
    <3>. SUFFICES ASSUME NEW i \in 0 .. L, NEW j \in 0 .. L, i < j PROVE d[i] < d[j]
      OBVIOUS
    <3>1. i # L /\ d[i] = e[i] /\ e[i] \in 0 .. n /\ e[j] \in 0 .. n /\ e[i] < e[j]
      BY <1>1, <1>2, <1>21, <2>2
    <3>2. CASE j = L
      <4>1. d[j] = n + 1  BY <2>2, <3>2
      <4>. QED  BY <1>1, <3>1, <4>1
    <3>3. CASE j # L
      <4>1. d[j] = e[j]  BY <2>2, <3>3
      <4>. QED  BY <3>1, <4>1
    <3>. QED  BY <3>2, <3>3
  <2>6. \A k \in 1 .. L : C[k] = SubSeq(v, d[k - 1] + 1, d[k]) /\ Total(C[k]) <= c
    <3>. TAKE k \in 1 .. L
    <3>1. d[k - 1] = e[k - 1]  BY <1>1, <1>7, <2>2
    <3>2. CASE k = L  BY <1>12, <1>13, <1>14, <2>1, <2>2, <3>1, <3>2
    <3>3. CASE k # L
      <4>1. k \in 1 .. L - 1 /\ d[k] = e[k]  BY <1>1, <1>7, <2>2, <3>3
      <4>2. C[k] = B[k]  BY <1>14, <4>1
      <4>. QED  BY <1>22, <1>10, <3>1, <4>1, <4>2
    <3>. QED  BY <3>2, <3>3
  <2>7. \A k \in 1 .. L - 1 : Total(SubSeq(v, d[k - 1] + 1, d[k] + 1)) > c
    <3>. TAKE k \in 1 .. L - 1
    <3>1. k \in 0 .. L /\ k # L /\ k - 1 \in 0 .. L /\ k - 1 # L  BY <1>1
    <3>2. d[k] = e[k] /\ d[k - 1] = e[k - 1]  BY <2>2, <3>1
    <3>. QED  BY <1>11, <3>2
  <2>8. CutsAt(d, v, C, c)
    BY <1>1, <1>14, <2>2, <2>3, <2>4, <2>5, <2>6, <2>7 DEF CutsAt
  <2>. QED  BY <2>8 DEF v, C
<1>15. CASE /\ B # <<>> => ~ (Total(B[L]) + x <= c)
            /\ Len(C) = L + 1 /\ C[L + 1] = <<x>>
            /\ \A k \in 1 .. L : C[k] = B[k]
  <2>. DEFINE d == [k \in 0 .. L + 1 |-> IF k = L + 1 THEN n + 1 ELSE e[k]]
  <2>2. d[L + 1] = n + 1 /\ \A k \in 0 .. L : d[k] = e[k]  BY <1>1
  <2>3. d \in [0 .. L + 1 -> 0 .. n + 1]
    <3>1. \A k \in 0 .. L + 1 : k = L + 1 \/ e[k] \in 0 .. n  BY <1>1, <1>2
    <3>2. \A k \in 0 .. n : k \in 0 .. n + 1  BY <1>1
    <3>3. n + 1 \in 0 .. n + 1  BY <1>1
    <3>. QED  BY <3>1, <3>2, <3>3
  <2>. HIDE DEF d
  <2>4. d[0] = 0  BY <1>1, <1>20, <2>2
  <2>5. \A i, j \in 0 .. L + 1 : i < j => d[i] < d[j]
    <3>. SUFFICES ASSUME NEW i \in 0 .. L + 1, NEW j \in 0 .. L + 1, i < j PROVE d[i] < d[j]
      OBVIOUS
    <3>1. i \in 0 .. L /\ d[i] = e[i] /\ e[i] \in 0 .. n  BY <1>1, <1>2, <2>2
    <3>2. CASE j = L + 1  BY <1>1, <2>2, <3>1, <3>2
    <3>3. CASE j # L + 1
      <4>1. j \in 0 .. L  BY <1>1, <3>3
      <4>. QED  BY <1>21, <2>2, <3>1, <4>1
    <3>. QED  BY <3>2, <3>3
  <2>6. \A k \in 1 .. L + 1 : C[k] = SubSeq(v, d[k - 1] + 1, d[k]) /\ Total(C[k]) <= c
    <3>. TAKE k \in 1 .. L + 1
    <3>1. k - 1 \in 0 .. L  BY <1>1
    <3>2. d[k - 1] = e[k - 1]  BY <2>2, <3>1
    <3>3. CASE k = L + 1
      <4>1. k - 1 = L /\ n + 1 \in 1 .. n + 1  BY <1>1, <3>3
      <4>2. SubSeq(v, n + 1, n + 1) = Append(SubSeq(w, n + 1, n), x)  BY <1>3, <4>1
      <4>3. SubSeq(w, n + 1, n) = <<>>  BY <1>1 DEF n
      <4>4. <<>> \in Seq(Nat) /\ Append(<<>>, x) = <<x>>  OBVIOUS
      <4>5. Total(<<x>>) = Total(<<>>) + x  BY <1>1, <4>4, TotalOfAppend
      <4>6. Total(<<x>>) = x  BY <1>1, <4>5, TotalOfNone
      <4>7. C[k] = SubSeq(v, n + 1, n + 1) /\ C[k] = <<x>>  BY <1>15, <3>3, <4>2, <4>3, <4>4
      <4>8. d[k - 1] = n /\ d[k] = n + 1  BY <1>20, <2>2, <3>2, <3>3, <4>1
      <4>. QED  BY <1>1, <4>6, <4>7, <4>8
    <3>4. CASE k # L + 1
      <4>1. k \in 1 .. L /\ k \in 0 .. L  BY <1>1, <3>4
      <4>2. d[k] = e[k] /\ C[k] = B[k]  BY <1>15, <2>2, <4>1
      <4>. QED  BY <1>22, <1>10, <3>2, <4>1, <4>2
    <3>. QED  BY <3>3, <3>4
  <2>7. \A k \in 1 .. L : Total(SubSeq(v, d[k - 1] + 1, d[k] + 1)) > c
    <3>. TAKE k \in 1 .. L
    <3>1. d[k] = e[k] /\ d[k - 1] = e[k - 1]  BY <1>7, <2>2
    <3>2. CASE k = L
      <4>1. L # 0 /\ Total(B[L]) \in Nat  BY <1>1, <1>6, <3>2
      <4>2. Total(Append(B[L], x)) > c  BY <1>1, <1>5, <1>13, <1>15, <4>1
      <4>. QED  BY <1>20, <1>12, <3>1, <3>2, <4>1, <4>2
    <3>3. CASE k # L
      <4>1. k \in 1 .. L - 1  BY <1>1, <3>3
      <4>. QED  BY <1>11, <3>1, <4>1
    <3>. QED  BY <3>2, <3>3
  <2>8. CutsAt(d, v, C, c)
    <3>1. Len(C) = L + 1 /\ Len(C) - 1 = L  BY <1>1, <1>15
    <3>. QED  BY <1>1, <2>2, <2>3, <2>4, <2>5, <2>6, <2>7, <3>1 DEF CutsAt
  <2>. QED  BY <2>8 DEF v, C
<1>. QED  BY <1>4, <1>14, <1>15

LEMMA FlattenIsSeq ==
  ASSUME NEW S, NEW s \in Seq(Seq(S)) PROVE FlattenSeq(s) \in Seq(S)
<1>1. CASE Len(s) = 0
  <2>1. s = <<>> /\ FlattenSeq(s) = s  BY <1>1 DEF FlattenSeq
  <2>2. <<>> \in Seq(S)  OBVIOUS
  <2>3. FlattenSeq(s) = <<>>  BY <2>1
  <2>. HIDE DEF FlattenSeq
  <2>. QED  BY <2>2, <2>3
<1>2. CASE Len(s) # 0
  <2>1. Len(s) \in Nat \ {0} /\ \A k \in 1 .. Len(s) : s[k] \in Seq(S)  BY <1>2
  <2>2. PICK g : IsFlat(s, g, Len(s)) /\ FlattenSeq(s) = g[Len(s)]  BY <2>1, FlattenIs
  <2>. DEFINE T == {i \in Nat : i \in 1 .. Len(s) => g[i] \in Seq(S)}
  <2>3. 0 \in T  OBVIOUS
  <2>4. ASSUME NEW i \in Nat, i \in T PROVE i + 1 \in T
    <3>. SUFFICES ASSUME i + 1 \in 1 .. Len(s) PROVE g[i + 1] \in Seq(S)  OBVIOUS
    <3>1. g[i + 1] = (IF i + 1 = 1 THEN s[i + 1] ELSE g[i + 1 - 1] \o s[i + 1])
      BY <2>1, <2>2, FlatAt
    <3>2. i + 1 - 1 = i /\ (i + 1 # 1 => i \in 1 .. Len(s))  BY <2>1
    <3>3. s[i + 1] \in Seq(S)  BY <2>1
    <3>4. CASE i + 1 = 1  BY <3>1, <3>3, <3>4
    <3>5. CASE i + 1 # 1
      <4>1. g[i] \in Seq(S)  BY <2>4, <3>2, <3>5
      <4>2. g[i] \o s[i + 1] \in Seq(S)  BY <3>3, <4>1, ConcatProperties
      <4>. QED  BY <3>1, <3>2, <3>5, <4>2
    <3>. QED  BY <3>4, <3>5
  <2>. HIDE DEF T
  <2>5. \A i \in Nat : i \in T  BY <2>3, <2>4, SetInduction
  <2>6. Len(s) \in T /\ Len(s) \in 1 .. Len(s)  BY <2>1, <2>5
  <2>. QED  BY <2>2, <2>6 DEF T
<1>. QED  BY <1>1, <1>2

LEMMA FlattenOfBatches ==
  ASSUME NEW B \in Seq(Seq(Nat)), NEW x \in Nat, NEW c
  PROVE  FlattenSeq(AddMaterial(B, x, c)) = Append(FlattenSeq(B), x)
<1>1. CASE B # <<>> /\ Total(Last(B)) + x <= c
  <2>. DEFINE F == Front(B)
              t == Last(B)
  <2>1. AddMaterial(B, x, c) = Append(F, Append(t, x))  BY <1>1 DEF AddMaterial
  <2>2. t \in Seq(Nat)
    <3>1. Len(B) \in 1 .. Len(B)  BY <1>1
    <3>. QED  BY <3>1 DEF Last
  <2>3. F \in Seq(Seq(Nat)) /\ Len(F) = Len(B) - 1 /\ \A k \in 1 .. Len(B) - 1 : F[k] = B[k]
    BY <1>1, FrontIs
  <2>. HIDE DEF F
  <2>4. B = Append(F, t)
    <3>1. Append(F, t) \in Seq(Seq(Nat)) /\ Len(Append(F, t)) = Len(F) + 1
          /\ (\A k \in 1 .. Len(F) : Append(F, t)[k] = F[k]) /\ Append(F, t)[Len(F) + 1] = t
      BY <2>2, <2>3, AppendProperties
    <3>2. Len(B) \in Nat /\ Len(F) + 1 = Len(B)  BY <2>3
    <3>3. ASSUME NEW k \in 1 .. Len(B) PROVE B[k] = Append(F, t)[k]
      <4>1. CASE k = Len(B)  BY <3>1, <3>2, <4>1 DEF Last
      <4>2. CASE k # Len(B)
        <5>1. k \in 1 .. Len(B) - 1 /\ k \in 1 .. Len(F)  BY <2>3, <3>2, <4>2
        <5>. QED  BY <2>3, <3>1, <5>1
      <4>. QED  BY <4>1, <4>2
    <3>4. Len(B) = Len(Append(F, t))  BY <3>1, <3>2
    <3>. HIDE DEF t
    <3>. QED  BY <3>1, <3>3, <3>4, SeqEqual
  <2>. HIDE DEF t
  <2>5. Append(t, x) \in Seq(Nat)  BY <2>2
  <2>6. CASE F = <<>>
    <3>1. FlattenSeq(B) = t  BY <2>2, <2>3, <2>4, <2>6, FlattenOfAppend
    <3>2. FlattenSeq(Append(F, Append(t, x))) = Append(t, x)
      BY <2>3, <2>5, <2>6, FlattenOfAppend
    <3>. QED  BY <2>1, <3>1, <3>2
  <2>7. CASE F # <<>>
    <3>. DEFINE a == FlattenSeq(F)
    <3>1. FlattenSeq(B) = a \o t  BY <2>2, <2>3, <2>4, <2>7, FlattenOfAppend
    <3>2. FlattenSeq(Append(F, Append(t, x))) = a \o Append(t, x)
      BY <2>3, <2>5, <2>7, FlattenOfAppend
    <3>3. a \in Seq(Nat)  BY <2>3, FlattenIsSeq
    <3>. HIDE DEF a
    <3>4. Append(t, x) = t \o <<x>> /\ <<x>> \in Seq(Nat)  BY <2>2, AppendIsConcat
    <3>5. a \o t \in Seq(Nat)  BY <2>2, <3>3, ConcatProperties
    <3>6. Append(a \o t, x) = (a \o t) \o <<x>>  BY <3>5, AppendIsConcat
    <3>7. (a \o t) \o <<x>> = a \o (t \o <<x>>)  BY <2>2, <3>3, <3>4, ConcatAssociative
    <3>. QED  BY <2>1, <3>1, <3>2, <3>4, <3>6, <3>7
  <2>. QED  BY <2>6, <2>7
<1>2. CASE ~ (B # <<>> /\ Total(Last(B)) + x <= c)
  <2>1. AddMaterial(B, x, c) = Append(B, <<x>>)  BY <1>2 DEF AddMaterial
  <2>2. <<x>> \in Seq(Nat)  OBVIOUS
  <2>3. FlattenSeq(Append(B, <<x>>)) = (IF B = <<>> THEN <<x>> ELSE FlattenSeq(B) \o <<x>>)
    BY <2>2, FlattenOfAppend
  <2>4. CASE B = <<>>
    <3>1. FlattenSeq(B) = <<>>  BY <2>4 DEF FlattenSeq
    <3>2. Append(<<>>, x) = <<x>>  OBVIOUS
    <3>. QED  BY <2>1, <2>3, <2>4, <3>1, <3>2
  <2>5. CASE B # <<>>
    <3>1. FlattenSeq(B) \in Seq(Nat)  BY FlattenIsSeq
    <3>2. Append(FlattenSeq(B), x) = FlattenSeq(B) \o <<x>>  BY <3>1, AppendIsConcat
    <3>. QED  BY <2>1, <2>3, <2>5, <3>2
  <2>. QED  BY <2>4, <2>5
<1>. QED  BY <1>1, <1>2

(* The batches of a score: they cover it, and are cut as CutsAt says.        *)
Batched(w, B, c) ==
    /\ B \in Seq(Seq(Nat)) /\ FlattenSeq(B) = w
    /\ \E e : CutsAt(e, w, B, c)

LEMMA BatchedNone == ASSUME NEW c PROVE Batched(<<>>, Partition(<<>>, c), c)
<1>1. Partition(<<>>, c) = <<>>  BY PartitionOfNone
<1>2. FlattenSeq(<<>>) = <<>> /\ <<>> \in Seq(Seq(Nat))  BY DEF FlattenSeq
<1>3. CutsAt([k \in 0 .. 0 |-> 0], <<>>, <<>>, c)
  <2>1. Len(<<>>) = 0  OBVIOUS
  <2>. QED  BY <2>1 DEF CutsAt
<1>. QED  BY <1>1, <1>2, <1>3 DEF Batched

LEMMA BatchedNext ==
  ASSUME NEW c \in Nat, NEW w \in Seq(Nat), NEW x \in 1 .. c,
         Batched(w, Partition(w, c), c)
  PROVE  Batched(Append(w, x), Partition(Append(w, x), c), c)
<1>. DEFINE B == Partition(w, c)
<1>1. x \in Nat  OBVIOUS
<1>2. Partition(Append(w, x), c) = AddMaterial(B, x, c)  BY <1>1, PartitionOfAppend
<1>3. B \in Seq(Seq(Nat)) /\ FlattenSeq(B) = w /\ \E e : CutsAt(e, w, B, c)  BY DEF Batched
<1>. HIDE DEF B
<1>4. AddMaterial(B, x, c) \in Seq(Seq(Nat))  BY <1>1, <1>3, AddedMaterial
<1>5. FlattenSeq(AddMaterial(B, x, c)) = Append(w, x)  BY <1>1, <1>3, FlattenOfBatches
<1>6. \E d : CutsAt(d, Append(w, x), AddMaterial(B, x, c), c)  BY <1>3, CutsOfAppend
<1>. QED  BY <1>2, <1>4, <1>5, <1>6 DEF Batched

LEMMA BatchesCover ==
  ASSUME NEW c \in Nat, NEW w \in Seq(Nat), Batched(w, Partition(w, c), c)
  PROVE  /\ BatchesCoverTheScore(w, c)
         /\ \A k \in 1 .. Len(Partition(w, c)) : Partition(w, c)[k] # <<>>
<1>. DEFINE B == Partition(w, c)
<1>1. B \in Seq(Seq(Nat)) /\ FlattenSeq(B) = w  BY DEF Batched
<1>2. PICK e : CutsAt(e, w, B, c)  BY DEF Batched
<1>. HIDE DEF B
<1>3. ASSUME NEW k \in 1 .. Len(B) PROVE B[k] # <<>> /\ Total(B[k]) <= c
  <2>1. Len(B) \in Nat /\ k - 1 \in 0 .. Len(B) /\ k \in 0 .. Len(B) /\ k - 1 < k  BY <1>1
  <2>2. e[k - 1] \in 0 .. Len(w) /\ e[k] \in 0 .. Len(w) /\ e[k - 1] < e[k]
    BY <1>2, <2>1 DEF CutsAt
  <2>3. B[k] = SubSeq(w, e[k - 1] + 1, e[k]) /\ Total(B[k]) <= c  BY <1>2 DEF CutsAt
  <2>4. Len(w) \in Nat /\ e[k - 1] + 1 \in 1 .. Len(w) + 1 /\ e[k - 1] + 1 <= e[k]
        /\ e[k] - (e[k - 1] + 1) + 1 # 0
    BY <2>2
  <2>5. Len(B[k]) = e[k] - (e[k - 1] + 1) + 1  BY <2>2, <2>3, <2>4, PartIs
  <2>6. Len(<<>>) = 0  OBVIOUS
  <2>7. B[k] # <<>>  BY <2>4, <2>5, <2>6
  <2>. QED  BY <2>3, <2>7
<1>4. DOMAIN B = 1 .. Len(B)  BY <1>1
<1>. QED  BY <1>1, <1>3, <1>4 DEF BatchesCoverTheScore, B

LEMMA BatchesAreFew ==
  ASSUME NEW c \in Nat, NEW w \in Seq(Nat), Batched(w, Partition(w, c), c)
  PROVE  FewestCalls(w, c)
<1>. DEFINE B == Partition(w, c)
            n == Len(w)
            L == Len(B)
<1>0. B \in Seq(Seq(Nat))  BY DEF Batched
<1>1. n \in Nat /\ L \in Nat  BY <1>0
<1>2. PICK e : CutsAt(e, w, B, c)  BY DEF Batched
<1>. HIDE DEF B
<1>3. SUFFICES ASSUME w # <<>>, NEW cuts \in SUBSET (1 .. n - 1), Fits(cuts, w, c)
               PROVE  Cardinality(cuts) + 1 >= L
  BY DEF FewestCalls, B
<1>4. \A i, j \in 1 .. n :
        (i <= j /\ \A q \in cuts : q < i \/ q >= j) => Total(SubSeq(w, i, j)) <= c
  BY <1>3 DEF Fits
<1>. HIDE DEF n, L
<1>5. /\ e \in [0 .. L -> 0 .. n] /\ e[L] = n
      /\ \A k \in 1 .. L - 1 : Total(SubSeq(w, e[k - 1] + 1, e[k] + 1)) > c
  BY <1>2 DEF CutsAt, n, L
<1>6. \A i, j \in 0 .. L : i < j => e[i] < e[j]  BY <1>2 DEF CutsAt, L
<1>7. \A k \in 0 .. L : e[k] \in Nat /\ e[k] <= n  BY <1>1, <1>5
<1>8. ASSUME NEW k \in 1 .. L - 1
      PROVE  \E q \in cuts : e[k - 1] < q /\ q <= e[k]
  <2>1. SUFFICES ASSUME \A q \in cuts : ~ (e[k - 1] < q /\ q <= e[k]) PROVE FALSE
    OBVIOUS
  <2>2. k - 1 \in 0 .. L /\ k \in 0 .. L /\ L \in 0 .. L /\ k - 1 < k /\ k < L  BY <1>1
  <2>3. e[k - 1] \in Nat /\ e[k] \in Nat /\ e[k - 1] < e[k] /\ e[k] < n
    BY <1>5, <1>6, <1>7, <2>2
  <2>. DEFINE i == e[k - 1] + 1
              j == e[k] + 1
  <2>4. i \in 1 .. n /\ j \in 1 .. n /\ i <= j  BY <1>1, <2>3
  <2>5. ASSUME NEW q \in cuts PROVE q < i \/ q >= j
    <3>1. q \in Nat  BY <1>1
    <3>2. ~ (e[k - 1] < q /\ q <= e[k])  BY <2>1
    <3>. QED  BY <2>3, <3>1, <3>2
  <2>6. SubSeq(w, i, j) \in Seq(Nat)
    <3>1. Len(w) = n  BY DEF n
    <3>2. i \in 1 .. Len(w) + 1 /\ j \in 0 .. Len(w)  BY <1>1, <2>4, <3>1
    <3>. HIDE DEF i, j
    <3>. QED  BY <3>2, PartIs
  <2>7. Total(SubSeq(w, i, j)) > c  BY <1>5
  <2>. HIDE DEF i, j
  <2>8. Total(SubSeq(w, i, j)) <= c  BY <1>4, <2>4, <2>5
  <2>9. Total(SubSeq(w, i, j)) \in Nat  BY <2>6, TotalIsNat
  <2>. QED  BY <2>7, <2>8, <2>9
<1>. DEFINE f == [k \in 1 .. L - 1 |-> CHOOSE q \in cuts : e[k - 1] < q /\ q <= e[k]]
<1>9. \A k \in 1 .. L - 1 : f[k] \in cuts /\ e[k - 1] < f[k] /\ f[k] <= e[k]  BY <1>8
<1>10. f \in [1 .. L - 1 -> cuts]  BY <1>9
<1>11. DOMAIN f = 1 .. L - 1  OBVIOUS
<1>. HIDE DEF f
<1>12. \A a, b \in 1 .. L - 1 : a < b => f[a] < f[b]
  <2>. SUFFICES ASSUME NEW a \in 1 .. L - 1, NEW b \in 1 .. L - 1, a < b
                PROVE  f[a] < f[b]
    OBVIOUS
  <2>1. a \in 0 .. L /\ b - 1 \in 0 .. L /\ (a = b - 1 \/ a < b - 1)  BY <1>1
  <2>2. e[a] \in Nat /\ e[b - 1] \in Nat  BY <1>7, <2>1
  <2>3. e[a] = e[b - 1] \/ e[a] < e[b - 1]  BY <1>6, <2>1
  <2>4. f[a] <= e[a] /\ e[b - 1] < f[b] /\ f[a] \in Nat /\ f[b] \in Nat
    <3>1. \A q \in cuts : q \in Nat  BY <1>1
    <3>. QED  BY <1>9, <3>1
  <2>. QED  BY <2>2, <2>3, <2>4
<1>13. \A a, b \in 1 .. L - 1 : f[a] = f[b] => a = b
  <2>1. \A a \in 1 .. L - 1 : f[a] \in Nat
    <3>1. \A q \in cuts : q \in Nat  BY <1>1
    <3>. QED  BY <1>9, <3>1
  <2>. SUFFICES ASSUME NEW a \in 1 .. L - 1, NEW b \in 1 .. L - 1, f[a] = f[b], a # b
                PROVE  FALSE
    OBVIOUS
  <2>2. a < b \/ b < a  BY <1>1
  <2>3. f[a] < f[b] \/ f[b] < f[a]  BY <1>12, <2>2
  <2>4. f[a] \in Nat /\ f[b] \in Nat  BY <2>1
  <2>. QED  BY <2>3, <2>4
<1>14. f \in Injection(1 .. L - 1, cuts)  BY <1>10, <1>11, <1>13 DEF Injection, IsInjective
<1>15. IsFiniteSet(cuts)
  <2>1. 1 \in Int /\ n - 1 \in Int  BY <1>1
  <2>2. IsFiniteSet(1 .. n - 1)  BY <2>1, FS_Interval
  <2>. QED  BY <2>2, FS_Subset
<1>16. Cardinality(1 .. L - 1) <= Cardinality(cuts)  BY <1>14, <1>15, FS_Injection
<1>17. Cardinality(1 .. L - 1) = IF 1 > L - 1 THEN 0 ELSE L - 1 - 1 + 1
  <2>1. 1 \in Int /\ L - 1 \in Int  BY <1>1
  <2>. QED  BY <2>1, FS_Interval
<1>18. Cardinality(cuts) \in Nat  BY <1>15, FS_CardinalityType
<1>19. L - 1 <= Cardinality(cuts)
  <2>1. CASE 1 > L - 1  BY <1>1, <1>18, <2>1
  <2>2. CASE ~ (1 > L - 1)
    <3>1. Cardinality(1 .. L - 1) = L - 1  BY <1>1, <1>17, <2>2
    <3>. QED  BY <1>16, <3>1
  <2>. QED  BY <2>1, <2>2
<1>. QED  BY <1>1, <1>18, <1>19

(* The drafts of the first k batches.                                      *)
Upto(B, k) == Total(SubSeq(Lengths(B), 1, k))

LEMMA LengthsAre ==
  ASSUME NEW B \in Seq(Seq(Nat)), \A k \in 1 .. Len(B) : B[k] # <<>>
  PROVE  /\ Lengths(B) \in Seq(Nat) /\ Len(Lengths(B)) = Len(B)
         /\ \A k \in 1 .. Len(B) : Lengths(B)[k] = Len(B[k]) /\ Len(B[k]) \in Nat \ {0}
<1>1. ASSUME NEW k \in 1 .. Len(B) PROVE Len(B[k]) \in Nat \ {0}
  <2>1. B[k] \in Seq(Nat) /\ B[k] # <<>>  OBVIOUS
  <2>. QED  BY <2>1
<1>2. Len(B) \in Nat  OBVIOUS
<1>. QED  BY <1>1, <1>2 DEF Lengths

LEMMA UptoIs ==
  ASSUME NEW B \in Seq(Seq(Nat)), \A k \in 1 .. Len(B) : B[k] # <<>>
  PROVE  /\ Upto(B, 0) = 0 /\ Upto(B, Len(B)) = Total(Lengths(B))
         /\ \A k \in 0 .. Len(B) : Upto(B, k) \in Nat
         /\ \A k \in 1 .. Len(B) : Upto(B, k) = Upto(B, k - 1) + Len(B[k])
<1>. DEFINE l == Lengths(B)
            n == Len(B)
<1>1. l \in Seq(Nat) /\ Len(l) = n /\ n \in Nat
      /\ \A k \in 1 .. n : l[k] = Len(B[k]) /\ Len(B[k]) \in Nat
  BY LengthsAre
<1>. HIDE DEF l, n
<1>2. SubSeq(l, 1, 0) = <<>>  BY SubSeqEmpty
<1>3. Total(SubSeq(l, 1, 0)) = 0  BY <1>2, TotalOfNone
<1>4. SubSeq(l, 1, n) = l  BY <1>1, SubSeqFull
<1>5. ASSUME NEW k \in 0 .. n PROVE SubSeq(l, 1, k) \in Seq(Nat)
  <2>1. 1 \in 1 .. Len(l) + 1 /\ k \in 0 .. Len(l)  BY <1>1
  <2>. QED  BY <1>1, <2>1, PartIs
<1>6. \A k \in 0 .. n : Total(SubSeq(l, 1, k)) \in Nat  BY <1>5, TotalIsNat
<1>7. ASSUME NEW k \in 1 .. n
      PROVE  Total(SubSeq(l, 1, k)) = Total(SubSeq(l, 1, k - 1)) + Len(B[k])
  <2>1. 1 \in 1 .. Len(l) /\ k \in 1 .. Len(l) /\ k - 1 \in 0 .. n  BY <1>1
  <2>2. SubSeq(l, 1, k) = SubSeq(l, 1, k - 1) \o <<l[k]>>
    BY <1>1, <2>1, SubSeqRecursiveSecond
  <2>3. SubSeq(l, 1, k - 1) \in Seq(Nat) /\ l[k] \in Nat  BY <1>1, <1>5, <2>1
  <2>4. SubSeq(l, 1, k - 1) \o <<l[k]>> = Append(SubSeq(l, 1, k - 1), l[k])
    BY <2>3, AppendIsConcat
  <2>5. Total(Append(SubSeq(l, 1, k - 1), l[k])) = Total(SubSeq(l, 1, k - 1)) + l[k]
    BY <2>3, TotalOfAppend
  <2>. QED  BY <1>1, <2>2, <2>4, <2>5
<1>. QED  BY <1>3, <1>4, <1>6, <1>7 DEF Upto, l, n

LEMMA UptoGrows ==
  ASSUME NEW B \in Seq(Seq(Nat)), \A k \in 1 .. Len(B) : B[k] # <<>>
  PROVE  \A i, j \in 0 .. Len(B) : i < j => Upto(B, i) < Upto(B, j)
<1>. DEFINE n == Len(B)
            u(k) == Upto(B, k)
<1>1. n \in Nat /\ \A k \in 0 .. n : u(k) \in Nat  BY UptoIs
<1>2. \A k \in 1 .. n : u(k) = u(k - 1) + Len(B[k]) /\ Len(B[k]) \in Nat \ {0}
  BY UptoIs, LengthsAre
<1>. HIDE DEF n, u
<1>. DEFINE T == {j \in Nat : \A i \in 0 .. n : (i < j /\ j <= n) => u(i) < u(j)}
<1>3. 0 \in T  BY <1>1
<1>4. ASSUME NEW j \in Nat, j \in T PROVE j + 1 \in T
  <2>. SUFFICES ASSUME NEW i \in 0 .. n, i < j + 1, j + 1 <= n PROVE u(i) < u(j + 1)
    OBVIOUS
  <2>1. j \in 0 .. n /\ j + 1 \in 1 .. n /\ j + 1 - 1 = j /\ j + 1 \in 0 .. n  BY <1>1
  <2>2. u(j + 1) = u(j) + Len(B[j + 1]) /\ Len(B[j + 1]) \in Nat \ {0}  BY <1>2, <2>1
  <2>3. u(j) \in Nat /\ u(i) \in Nat  BY <1>1, <2>1
  <2>4. u(j) < u(j + 1)  BY <2>2, <2>3
  <2>5. i = j \/ u(i) < u(j)
    <3>1. i = j \/ i < j  BY <1>1
    <3>2. i < j /\ j <= n => u(i) < u(j)  BY <1>4
    <3>. QED  BY <1>1, <2>1, <3>1, <3>2
  <2>6. u(j + 1) \in Nat  BY <1>1, <2>1
  <2>. QED  BY <2>3, <2>4, <2>5, <2>6
<1>. HIDE DEF T
<1>5. \A j \in Nat : j \in T  BY <1>3, <1>4, SetInduction
<1>6. \A j \in 0 .. n : j \in Nat /\ j <= n  BY <1>1
<1>. QED  BY <1>5, <1>6 DEF T, n, u

(* What Taken chooses for the first k batches.                             *)
IsTaking(g, B, n, m) ==
    g = [k \in 0 .. m |-> IF k = 0 THEN NothingTaken
                           ELSE TakeBatch(g[k - 1], Len(B[k]), n)]

LEMMA TakingExists == ASSUME NEW B, NEW n PROVE \A m \in Nat : \E f : IsTaking(f, B, n, m)
<1>. DEFINE T == {m \in Nat : \E f : IsTaking(f, B, n, m)}
<1>1. 0 \in T
  <2>. DEFINE f == [i \in 0 .. 0 |-> NothingTaken]
  <2>1. f = [i \in 0 .. 0 |-> IF i = 0 THEN NothingTaken
                               ELSE TakeBatch(f[i - 1], Len(B[i]), n)]
    OBVIOUS
  <2>2. IsTaking(f, B, n, 0)  BY <2>1 DEF IsTaking
  <2>. QED  BY <2>2
<1>2. ASSUME NEW m \in Nat, m \in T PROVE m + 1 \in T
  <2>1. PICK f : IsTaking(f, B, n, m)  BY <1>2
  <2>. DEFINE g == [i \in 0 .. m + 1 |->
                      IF i = m + 1 THEN TakeBatch(f[m], Len(B[m + 1]), n) ELSE f[i]]
              h == [i \in 0 .. m + 1 |->
                      IF i = 0 THEN NothingTaken ELSE TakeBatch(g[i - 1], Len(B[i]), n)]
  <2>2. ASSUME NEW i \in 0 .. m + 1 PROVE g[i] = h[i]
    <3>1. CASE i = 0
      <4>1. f[0] = NothingTaken  BY <2>1 DEF IsTaking
      <4>2. g[0] = f[0] /\ h[0] = NothingTaken  OBVIOUS
      <4>. QED  BY <3>1, <4>1, <4>2
    <3>2. CASE i # 0 /\ i # m + 1
      <4>1. i \in 0 .. m /\ i - 1 \in 0 .. m + 1 /\ i - 1 # m + 1  BY <3>2
      <4>2. f[i] = TakeBatch(f[i - 1], Len(B[i]), n)  BY <2>1, <3>2, <4>1 DEF IsTaking
      <4>3. g[i - 1] = f[i - 1] /\ g[i] = f[i]  BY <3>2, <4>1
      <4>4. h[i] = TakeBatch(g[i - 1], Len(B[i]), n)  BY <3>2
      <4>. QED  BY <4>2, <4>3, <4>4
    <3>3. CASE i = m + 1
      <4>1. m \in 0 .. m + 1 /\ m # m + 1 /\ m + 1 # 0 /\ (m + 1) - 1 = m  OBVIOUS
      <4>2. g[m] = f[m]  BY <4>1
      <4>3. g[m + 1] = TakeBatch(f[m], Len(B[m + 1]), n)  OBVIOUS
      <4>4. h[m + 1] = TakeBatch(g[m], Len(B[m + 1]), n)  BY <4>1
      <4>. QED  BY <3>3, <4>2, <4>3, <4>4
    <3>. QED  BY <3>1, <3>2, <3>3
  <2>3. g = h  BY <2>2
  <2>4. IsTaking(g, B, n, m + 1)  BY <2>3 DEF IsTaking
  <2>. QED  BY <2>4
<1>. HIDE DEF T
<1>3. \A m \in Nat : m \in T  BY <1>1, <1>2, SetInduction
<1>. QED  BY <1>3 DEF T

LEMMA TakingAt ==
  ASSUME NEW f, NEW B, NEW n, NEW m \in Nat, IsTaking(f, B, n, m)
  PROVE  /\ f[0] = NothingTaken
         /\ \A i \in 1 .. m : f[i] = TakeBatch(f[i - 1], Len(B[i]), n)
<1>1. 0 \in 0 .. m /\ \A i \in 1 .. m : i \in 0 .. m /\ i # 0  OBVIOUS
<1>. QED  BY <1>1 DEF IsTaking

LEMMA TakenIs ==
  ASSUME NEW B, NEW n, Len(B) \in Nat
  PROVE  \E g : IsTaking(g, B, n, Len(B)) /\ Taken(B, n) = g[Len(B)]
<1>1. \E g : IsTaking(g, B, n, Len(B))  BY TakingExists
<1>. DEFINE taken == CHOOSE g : IsTaking(g, B, n, Len(B))
<1>2. IsTaking(taken, B, n, Len(B))  BY <1>1
<1>3. Taken(B, n) = taken[Len(B)]  BY DEF Taken, IsTaking
<1>. QED  BY <1>2, <1>3

(* The loop goes on, or a batch has been split, or n drafts are taken.     *)
Taking(t, B, n, k) ==
    /\ t \in [batches : Nat, drafts : Nat, split : BOOLEAN]
    /\ \/ ~ t.split /\ t.drafts = Upto(B, k) /\ Upto(B, k) <= n
       \/ t.split /\ \A j \in 0 .. Len(B) : Upto(B, j) # n
       \/ ~ t.split /\ t.drafts = n /\ \E j \in 0 .. k - 1 : Upto(B, j) = n

LEMMA TakingNext ==
  ASSUME NEW B \in Seq(Seq(Nat)), \A k \in 1 .. Len(B) : B[k] # <<>>, NEW n \in Nat,
         NEW k \in 1 .. Len(B), NEW t, Taking(t, B, n, k - 1)
  PROVE  Taking(TakeBatch(t, Len(B[k]), n), B, n, k)
<1>. DEFINE m == Len(B[k])
            r == TakeBatch(t, m, n)
<1>1. m \in Nat \ {0} /\ Len(B) \in Nat /\ k \in Nat /\ k - 1 \in 0 .. Len(B)
      /\ k \in 0 .. Len(B)
  BY LengthsAre
<1>2. Upto(B, k) = Upto(B, k - 1) + m /\ Upto(B, k) \in Nat /\ Upto(B, k - 1) \in Nat
  BY <1>1, UptoIs
<1>3. t \in [batches : Nat, drafts : Nat, split : BOOLEAN]
      /\ t.batches \in Nat /\ t.drafts \in Nat /\ t.split \in BOOLEAN
  BY DEF Taking
<1>. HIDE DEF m
<1>4. CASE t.drafts + m <= n
  <2>1. r = [t EXCEPT !.batches = @ + 1, !.drafts = @ + m]  BY <1>4 DEF TakeBatch
  <2>2. r \in [batches : Nat, drafts : Nat, split : BOOLEAN]
        /\ r.split = t.split /\ r.drafts = t.drafts + m
    <3>1. t.batches + 1 \in Nat /\ t.drafts + m \in Nat  BY <1>1, <1>3
    <3>2. r = [batches |-> t.batches + 1, drafts |-> t.drafts + m, split |-> t.split]
      BY <1>3, <2>1
    <3>. HIDE DEF r
    <3>. QED  BY <1>3, <3>1, <3>2
  <2>. HIDE DEF r
  <2>3. CASE ~ t.split /\ t.drafts = Upto(B, k - 1) /\ Upto(B, k - 1) <= n
    <3>1. r.drafts = Upto(B, k) /\ Upto(B, k) <= n  BY <1>2, <1>4, <2>2, <2>3
    <3>. QED  BY <2>2, <2>3, <3>1 DEF Taking, r, m
  <2>4. CASE t.split /\ \A j \in 0 .. Len(B) : Upto(B, j) # n
    BY <2>2, <2>4 DEF Taking, r, m
  <2>5. CASE t.drafts = n  BY <1>1, <1>4, <2>5
  <2>. QED  BY <2>3, <2>4, <2>5 DEF Taking
<1>5. CASE ~ (t.drafts + m <= n)
  <2>1. r = [t EXCEPT !.split = @ \/ t.drafts < n]  BY <1>5 DEF TakeBatch
  <2>2. r \in [batches : Nat, drafts : Nat, split : BOOLEAN]
        /\ r.split = (t.split \/ t.drafts < n) /\ r.drafts = t.drafts
    BY <1>3, <2>1
  <2>. HIDE DEF r
  <2>3. CASE ~ t.split /\ t.drafts = Upto(B, k - 1) /\ Upto(B, k - 1) <= n
    <3>1. CASE Upto(B, k - 1) = n
      <4>1. k - 1 \in 0 .. k - 1  BY <1>1
      <4>2. ~ r.split /\ r.drafts = n  BY <1>2, <2>2, <2>3, <3>1
      <4>. QED  BY <2>2, <3>1, <4>1, <4>2 DEF Taking, r, m
    <3>2. CASE Upto(B, k - 1) # n
      <4>1. r.split  BY <1>2, <2>2, <2>3, <3>2
      <4>2. Upto(B, k - 1) < n /\ n < Upto(B, k)  BY <1>1, <1>2, <1>5, <2>3, <3>2
      <4>3. ASSUME NEW j \in 0 .. Len(B) PROVE Upto(B, j) # n
        <5>1. Upto(B, j) \in Nat  BY UptoIs
        <5>2. CASE j < k - 1 \/ j = k - 1
          <6>1. Upto(B, j) < Upto(B, k - 1) \/ Upto(B, j) = Upto(B, k - 1)
            BY <1>1, <5>2, UptoGrows
          <6>. QED  BY <1>2, <4>2, <5>1, <6>1
        <5>3. CASE k < j \/ j = k
          <6>1. Upto(B, k) < Upto(B, j) \/ Upto(B, j) = Upto(B, k)
            BY <1>1, <5>3, UptoGrows
          <6>. QED  BY <1>2, <4>2, <5>1, <6>1
        <5>. QED  BY <1>1, <5>2, <5>3
      <4>. QED  BY <2>2, <4>1, <4>3 DEF Taking, r, m
    <3>. QED  BY <3>1, <3>2
  <2>4. CASE t.split /\ \A j \in 0 .. Len(B) : Upto(B, j) # n
    BY <2>2, <2>4 DEF Taking, r, m
  <2>5. CASE ~ t.split /\ t.drafts = n /\ \E j \in 0 .. k - 1 - 1 : Upto(B, j) = n
    <3>1. ~ r.split /\ r.drafts = n  BY <2>2, <2>5
    <3>2. \E j \in 0 .. k - 1 : Upto(B, j) = n
      <4>1. PICK j \in 0 .. k - 1 - 1 : Upto(B, j) = n  BY <2>5
      <4>2. j \in 0 .. k - 1  BY <1>1
      <4>. QED  BY <4>1, <4>2
    <3>. QED  BY <2>2, <3>1, <3>2 DEF Taking, r, m
  <2>. QED  BY <2>3, <2>4, <2>5 DEF Taking
<1>. QED  BY <1>4, <1>5 DEF m

LEMMA TakenHolds ==
  ASSUME NEW B \in Seq(Seq(Nat)), \A k \in 1 .. Len(B) : B[k] # <<>>, NEW n \in Nat
  PROVE  Taking(Taken(B, n), B, n, Len(B))
<1>1. Len(B) \in Nat  OBVIOUS
<1>2. PICK g : IsTaking(g, B, n, Len(B)) /\ Taken(B, n) = g[Len(B)]  BY <1>1, TakenIs
<1>3. g[0] = NothingTaken
      /\ \A k \in 1 .. Len(B) : g[k] = TakeBatch(g[k - 1], Len(B[k]), n)
  BY <1>1, <1>2, TakingAt
<1>. DEFINE T == {k \in Nat : k <= Len(B) => Taking(g[k], B, n, k)}
<1>4. 0 \in T
  <2>1. Upto(B, 0) = 0  BY UptoIs
  <2>2. g[0] \in [batches : Nat, drafts : Nat, split : BOOLEAN]
        /\ ~ g[0].split /\ g[0].drafts = 0
    BY <1>3 DEF NothingTaken
  <2>3. Taking(g[0], B, n, 0)  BY <2>1, <2>2 DEF Taking
  <2>. QED  BY <2>3
<1>5. ASSUME NEW k \in Nat, k \in T PROVE k + 1 \in T
  <2>. SUFFICES ASSUME k + 1 <= Len(B) PROVE Taking(g[k + 1], B, n, k + 1)  OBVIOUS
  <2>1. k + 1 \in 1 .. Len(B) /\ k + 1 - 1 = k /\ k <= Len(B)  BY <1>1
  <2>2. Taking(g[k], B, n, k + 1 - 1)  BY <1>5, <2>1
  <2>3. g[k + 1] = TakeBatch(g[k], Len(B[k + 1]), n)  BY <1>3, <2>1
  <2>4. ASSUME NEW j \in 1 .. Len(B), NEW t, Taking(t, B, n, j - 1)
        PROVE  Taking(TakeBatch(t, Len(B[j]), n), B, n, j)
    BY <2>4, TakingNext
  <2>5. Taking(TakeBatch(g[k], Len(B[k + 1]), n), B, n, k + 1)  BY <2>1, <2>2, <2>4
  <2>. QED  BY <2>3, <2>5
<1>. HIDE DEF T
<1>6. \A k \in Nat : k \in T  BY <1>4, <1>5, SetInduction
<1>7. Taking(g[Len(B)], B, n, Len(B))  BY <1>1, <1>6 DEF T
<1>. QED  BY <1>2, <1>7

LEMMA PrefixesAreBatches ==
  ASSUME NEW c \in Nat, NEW w \in Seq(Nat), Batched(w, Partition(w, c), c)
  PROVE  PrefixIsWholeBatches(w, c)
<1>. DEFINE B == Partition(w, c)
            L == Len(B)
<1>1. B \in Seq(Seq(Nat)) /\ \A k \in 1 .. L : B[k] # <<>>  BY BatchesCover DEF Batched
<1>. HIDE DEF B
<1>2. L \in Nat /\ L \in 0 .. L  BY <1>1
<1>3. ASSUME NEW n \in 0 .. Len(w) + 1
      PROVE  PrefixAccepted(B, n) <=> \E k \in 1 .. L - 1 : n = Upto(B, k)
  <2>. DEFINE t == Taken(B, n)
  <2>1. n \in Nat  OBVIOUS
  <2>2. Taking(t, B, n, L)  BY <1>1, <2>1, TakenHolds
  <2>3. Upto(B, 0) = 0 /\ Upto(B, L) = Total(Lengths(B))
        /\ \A k \in 0 .. L : Upto(B, k) \in Nat
    BY <1>1, UptoIs
  <2>4. \A i, j \in 0 .. L : i < j => Upto(B, i) < Upto(B, j)  BY <1>1, UptoGrows
  <2>5. PrefixAccepted(B, n) <=> 0 < n /\ n < Upto(B, L) /\ ~ t.split /\ t.drafts = n
    BY <2>3 DEF PrefixAccepted
  <2>. HIDE DEF t
  <2>6. ASSUME PrefixAccepted(B, n) PROVE \E k \in 1 .. L - 1 : n = Upto(B, k)
    <3>1. 0 < n /\ n < Upto(B, L) /\ ~ t.split /\ t.drafts = n  BY <2>5, <2>6
    <3>2. Upto(B, L) \in Nat  BY <1>2, <2>3
    <3>3. PICK j \in 0 .. L - 1 : Upto(B, j) = n
      <4>1. ~ (t.drafts = Upto(B, L))  BY <2>1, <3>1, <3>2
      <4>. QED  BY <2>2, <3>1, <4>1 DEF Taking
    <3>4. j # 0  BY <2>3, <3>1, <3>3
    <3>5. j \in 1 .. L - 1  BY <1>2, <3>4
    <3>. QED  BY <3>3, <3>5
  <2>7. ASSUME NEW k \in 1 .. L - 1, n = Upto(B, k) PROVE PrefixAccepted(B, n)
    <3>1. k \in 0 .. L /\ 0 \in 0 .. L /\ 0 < k /\ k < L  BY <1>2
    <3>2. Upto(B, 0) < n /\ n < Upto(B, L)  BY <1>2, <2>4, <2>7, <3>1
    <3>3. Upto(B, L) \in Nat  BY <1>2, <2>3
    <3>4. ~ (Upto(B, L) <= n)  BY <2>1, <3>2, <3>3
    <3>5. ~ t.split /\ t.drafts = n  BY <2>2, <2>7, <3>1, <3>4 DEF Taking
    <3>. QED  BY <2>3, <2>5, <3>2, <3>5
  <2>. QED  BY <2>6, <2>7
<1>. QED  BY <1>3 DEF PrefixIsWholeBatches, Upto, B

(* A prefix of a score is cut into as many batches or fewer.               *)
NoMoreBatches(w, c) ==
    \A n \in 1 .. Len(w) : Len(Partition(SubSeq(w, 1, n), c)) <= Len(Partition(w, c))

LEMMA BatchesStay ==
  ASSUME NEW c \in Nat, NEW w \in Seq(Nat), NEW x \in Nat,
         Partition(w, c) \in Seq(Seq(Nat)),
         \A n \in 1 .. Len(w) : Len(Partition(SubSeq(w, 1, n), c)) \in Nat,
         NoMoreBatches(w, c), EarlierBatchesStay(w, c)
  PROVE  /\ \A n \in 1 .. Len(Append(w, x)) :
               Len(Partition(SubSeq(Append(w, x), 1, n), c)) \in Nat
         /\ NoMoreBatches(Append(w, x), c) /\ EarlierBatchesStay(Append(w, x), c)
<1>. DEFINE v == Append(w, x)
            B == Partition(w, c)
            C == Partition(v, c)
            P(n) == Partition(SubSeq(v, 1, n), c)
<1>1. v \in Seq(Nat) /\ Len(v) = Len(w) + 1 /\ Len(w) \in Nat  OBVIOUS
<1>2. C = AddMaterial(B, x, c)  BY PartitionOfAppend
<1>. HIDE DEF B
<1>3. B \in Seq(Seq(Nat)) /\ Len(B) \in Nat  BY DEF B
<1>4. Len(C) \in Nat /\ Len(B) <= Len(C) /\ \A k \in 1 .. Len(B) - 1 : C[k] = B[k]
  <2>1. \A k \in 1 .. Len(B) - 1 : k \in 1 .. Len(B)  BY <1>3
  <2>. DEFINE D == AddMaterial(B, x, c)
  <2>2. /\ D \in Seq(Seq(Nat))
        /\ \/ Len(D) = Len(B) /\ \A k \in 1 .. Len(B) - 1 : D[k] = B[k]
           \/ Len(D) = Len(B) + 1 /\ \A k \in 1 .. Len(B) : D[k] = B[k]
    BY <1>3, AddedMaterial
  <2>3. C = D  BY <1>2
  <2>. HIDE DEF C, D
  <2>4. Len(D) \in Nat /\ Len(B) <= Len(D)  BY <1>3, <2>2
  <2>5. \A k \in 1 .. Len(B) - 1 : D[k] = B[k]  BY <2>1, <2>2
  <2>. QED  BY <2>3, <2>4, <2>5
<1>5. \A n \in 1 .. Len(w) : P(n) = Partition(SubSeq(w, 1, n), c)
  <2>1. 1 \in 1 .. Len(w) + 1 /\ \A n \in 1 .. Len(w) : n \in 0 .. Len(w)  BY <1>1
  <2>2. \A n \in 1 .. Len(w) : SubSeq(v, 1, n) = SubSeq(w, 1, n)  BY <2>1, PartOfAppend
  <2>. QED  BY <2>2
<1>6. P(Len(v)) = C  BY <1>1, SubSeqFull
<1>. HIDE DEF v, C
<1>7. ASSUME NEW n \in 1 .. Len(v)
      PROVE  /\ Len(P(n)) \in Nat /\ Len(P(n)) <= Len(C)
             /\ \A k \in 1 .. Len(P(n)) - 1 : P(n)[k] = C[k]
  <2>1. CASE n = Len(v)  BY <1>4, <1>6, <2>1
  <2>2. CASE n # Len(v)
    <3>1. n \in 1 .. Len(w)  BY <1>1, <2>2
    <3>. DEFINE b == Partition(SubSeq(w, 1, n), c)
    <3>2. P(n) = b  BY <1>5, <3>1
    <3>3. Len(b) \in Nat /\ Len(b) <= Len(B) /\ \A k \in 1 .. Len(b) - 1 : b[k] = B[k]
      BY <3>1 DEF NoMoreBatches, EarlierBatchesStay, B
    <3>. HIDE DEF b, P
    <3>4. Len(b) <= Len(C)  BY <1>3, <1>4, <3>3
    <3>5. \A k \in 1 .. Len(b) - 1 : k \in 1 .. Len(B) - 1  BY <1>3, <3>3
    <3>. QED  BY <1>4, <3>2, <3>3, <3>4, <3>5
  <2>. QED  BY <2>1, <2>2
<1>. QED  BY <1>7 DEF NoMoreBatches, EarlierBatchesStay, C, v

LEMMA PartitionIsSeq ==
  ASSUME NEW w \in Seq(Nat), NEW c PROVE Partition(w, c) \in Seq(Seq(Nat))
<1>1. PICK f : IsCut(f, w, c, Len(w)) /\ Partition(w, c) = f[Len(w)]  BY PartitionIs
<1>2. f[0] = <<>> /\ \A i \in 1 .. Len(w) : f[i] = AddMaterial(f[i - 1], w[i], c)
  BY <1>1, CutAt
<1>. DEFINE T == {i \in Nat : i <= Len(w) => f[i] \in Seq(Seq(Nat))}
<1>3. 0 \in T
  <2>1. <<>> \in Seq(Seq(Nat))  OBVIOUS
  <2>. QED  BY <1>2, <2>1
<1>4. ASSUME NEW i \in Nat, i \in T PROVE i + 1 \in T
  <2>. SUFFICES ASSUME i + 1 <= Len(w) PROVE f[i + 1] \in Seq(Seq(Nat))  OBVIOUS
  <2>1. i + 1 \in 1 .. Len(w) /\ (i + 1) - 1 = i /\ i <= Len(w)  OBVIOUS
  <2>2. f[i + 1] = AddMaterial(f[i], w[i + 1], c)  BY <1>2, <2>1
  <2>3. w[i + 1] \in Nat /\ f[i] \in Seq(Seq(Nat))  BY <1>4, <2>1
  <2>. QED  BY <2>2, <2>3, AddedMaterial
<1>. HIDE DEF T
<1>5. \A i \in Nat : i \in T  BY <1>3, <1>4, SetInduction
<1>. QED  BY <1>1, <1>5 DEF T

-----------------------------------------------------------------------------

(* The steps of a run, whichever position they have in it.                 *)
Listed == {s \in 1..Publish : s # Transition \/ Transitions}

(* The answers a step can be recorded with.                                *)
Accepted(s) ==
    attempt[s] \in {"good", "plain", "weak"} \/ (attempt[s] = "bad" /\ s \in {Main, Transition})

Passed(s) ==
    /\ record[s] # None /\ record[s].status = "completed"
    /\ s \in Call => Accepted(s)
    /\ s = Validation => attempt[Performance] \in {"good", "plain"}

(* Everything before step s went well, and nothing keeps the run from it.  *)
Through(s) == \A r \in Listed : r < s => Passed(r) /\ ~ FlawBefore(r)

Came(s) == Through(s) /\ ~ FlawBefore(s)

Started(s) == record[s] # None \/ (s \in Call /\ attempt[s] # None)

Ordinal(s) == Cardinality({r \in Call : r <= s})

(* A record has the number of its call, and says what became of it.        *)
RecordSays(s) ==
    record[s] # None =>
        \/ Passed(s) /\ (s \in Call => record[s].number = Ordinal(s))
        \/ record[s].status = "failed" /\ s # Publish

DiskHolds ==
    /\ \A s \in Listed : (Started(s) => Came(s)) /\ RecordSays(s)
    /\ final # {} => Suits
    /\ manifest = None => \A s \in Call : attempt[s] = None
    /\ CallNumber <= limit

(* What the manifest says once it is settled.                              *)
ManifestHolds == VerdictIsBacked /\ (manifest \in {"fit", "unfit"} => record[Publish] # None)

Here == Step(Only)
Where == pc[Only]

Coming == {"stage", "call", "record", "refuse", "midi", "xml", "publish", "settle"}
Publishing == {"midi", "xml", "publish", "settle"}

(* What the invocation knows where it stands.                              *)
MindHolds ==
    /\ Where \in Working \ {"tell"} => manifest = "prepared"
    /\ Where \in {"tell", "returned"} => manifest \in Settled
    /\ Where \in Coming => Through(Here)
    /\ Where \in Coming \ {"stage"} => ~ FlawBefore(Here)
    /\ Where = "call" => Here \in Call /\ attempt[Here] = "open"
    /\ Where = "record" =>
          /\ Here # Publish
          /\ Here \in Call => Accepted(Here)
          /\ Here = Validation => attempt[Performance] \in {"good", "plain"}
    /\ Where = "refuse" => Here # Publish
    /\ Where \in Publishing => Here = Publish
    /\ Where \in {"midi", "xml"} => Suits
    /\ Where = "xml" => "midi" \in final
    /\ Where \in {"publish", "settle"} => (Suits => final = {"midi", "xml"})
    /\ Where = "settle" => record[Publish] # None

FirstCall == IF Harmony \in Call THEN Harmony ELSE Main

(* After a stop with two or more calls made no other one is made: the first*)
(* of them is on record as number 1, and its replay counts another number. *)
SpentHolds ==
    spent >= 2 =>
        /\ CallNumber = spent
        /\ Passed(FirstCall) /\ record[FirstCall].number = 1
        /\ \/ Where \in {"idle", "returned", "fail", "give up"}
           \/ Where \in {"stage", "record"} /\ Here <= FirstCall

CallOK ==
    /\ attempt \in [Call -> {None, "open"} \cup CallEnd]
    /\ \A s \in Call : attempt[s] = "weak" => s \in BatchSteps \cup {Performance}
    /\ Call \subseteq Listed \cap ({Harmony, Main, Transition} \cup BatchSteps \cup {Performance})
    /\ Main \in Call /\ Performance \in Call

WholeInv == TypeOK /\ CallOK /\ DiskHolds /\ ManifestHolds /\ MindHolds /\ SpentHolds

NotBegun == Where = "idle" /\ \A s \in Call : attempt[s] = None

(* What the outer run knows of the inner one, where it stands.             *)
OuterHolds ==
    /\ step # "whole" => Where = "idle"
    /\ outer = None => step = "idle" /\ plan = None
    /\ outer \in {None, "prepared"} =>
           manifest \in {None, "prepared"} /\ NotBegun /\ reported.status = None
    /\ outer = "whole prepared" => plan = "recorded" /\ manifest \in {"prepared"} \cup Settled
    /\ outer \in Settled => step \in {"idle", "done"} /\ ReportAgrees
    /\ step \in {"plan", "prepare", "hand over", "lost"} => outer = "prepared"
    /\ step \in {"prepare", "hand over"} => plan = "recorded"
    /\ step = "hand over" => manifest = "prepared"
    /\ step = "lost" => plan \in {"recorded", "dead"}
    /\ step = "done" => outer \in Settled
    /\ step \in {"whole", "report"} => outer = "whole prepared"
    /\ step = "report" => manifest \in Settled
    /\ plan # "recorded" => manifest = None

OuterInv ==
    /\ OuterTypeOK
    /\ running = "supported" => OuterHolds
    /\ running = "prepared" => outer = None /\ (manifest # None => prepares = 1)

RunInv == WholeInv /\ OuterInv

-----------------------------------------------------------------------------
StepsKnown ==
    /\ Texture \in Nat /\ Texture >= 5
    /\ Harmony = 1 /\ Main = 2 /\ Transition = 3 /\ Ending = 4
    /\ BatchSteps = 5..(Texture - 1)
    /\ Performance = Texture + 1 /\ Validation = Texture + 2 /\ Publish = Texture + 3

LEMMA StepsAre == StepsKnown
<1>1. Texture = 5 + Len(Partition(Weights, Ceiling))
  BY SizeAssumption DEF Texture, BatchStep
<1>2. Ending + 1 = 5  BY DEF Ending
<1>3. Len(Partition(Weights, Ceiling)) \in Nat  BY SizeAssumption, PartitionIsSeq
<1>. QED
  BY <1>1, <1>2, <1>3
  DEF StepsKnown, Harmony, Main, Transition, Ending, BatchSteps, Performance, Validation, Publish

OrderKnown ==
    /\ Len(Order) \in Nat \ {0} /\ DOMAIN Order = 1..Len(Order)
    /\ \A n \in 1..Len(Order) : Order[n] \in Listed
    /\ \A m, n \in 1..Len(Order) : m < n <=> Order[m] < Order[n]
    /\ \A n \in 1..Len(Order) : n < Len(Order) =>
          n + 1 \in 1..Len(Order) /\ \A r \in Listed : r < Order[n + 1] <=> r <= Order[n]
    /\ Order[1] = 1 /\ Order[Len(Order)] = Publish
    /\ \A s \in Listed : \E n \in 1..Len(Order) : Order[n] = s

LEMMA OrderIs == OrderKnown
<1>1. /\ Publish \in Nat /\ Publish >= 8 /\ Transition = 3  BY StepsAre DEF StepsKnown
<1>2. CASE Transitions
  <2>1. Order = [i \in 1..Publish |-> i]  BY <1>2 DEF Order
  <2>2. Listed = 1..Publish  BY <1>2 DEF Listed
  <2>3. Len(Order) = Publish /\ DOMAIN Order = 1..Publish /\ \A i \in 1..Publish : Order[i] = i
    BY <1>1, <2>1
  <2>. QED  BY <1>1, <2>2, <2>3 DEF OrderKnown
<1>3. CASE ~ Transitions
  <2>. DEFINE L == Publish - 1
  <2>1. Order = [i \in 1..L |-> IF i < 3 THEN i ELSE i + 1]  BY <1>1, <1>3 DEF Order
  <2>2. \A s : s \in Listed <=> s \in 1..Publish /\ s # 3  BY <1>1, <1>3 DEF Listed
  <2>3. L \in Nat /\ L >= 7 /\ Publish = L + 1  BY <1>1
  <2>. HIDE DEF L
  <2>4. /\ Len(Order) = L /\ DOMAIN Order = 1..L
        /\ \A i \in 1..L : Order[i] = IF i < 3 THEN i ELSE i + 1
    BY <2>1, <2>3
  <2>5. \A m, n \in 1..L : m < n <=> Order[m] < Order[n]  BY <2>3, <2>4
  <2>6. \A n \in 1..L : n < L =>
          n + 1 \in 1..L /\ \A r \in Listed : r < Order[n + 1] <=> r <= Order[n]
    <3>. SUFFICES ASSUME NEW n \in 1..L, n < L
         PROVE  n + 1 \in 1..L /\ \A r \in Listed : r < Order[n + 1] <=> r <= Order[n]
      OBVIOUS
    <3>1. n + 1 \in 1..L  BY <2>3
    <3>2. Order[n] = (IF n < 3 THEN n ELSE n + 1) /\ Order[n + 1] = (IF n + 1 < 3 THEN n + 1 ELSE n + 2)
      BY <2>4, <3>1
    <3>. QED  BY <2>2, <2>3, <3>1, <3>2
  <2>7. \A s \in Listed : \E n \in 1..L : Order[n] = s
    <3>. SUFFICES ASSUME NEW s \in Listed PROVE \E n \in 1..L : Order[n] = s  OBVIOUS
    <3>1. CASE s < 3
      <4>1. s \in 1..L /\ Order[s] = s  BY <2>2, <2>3, <2>4, <3>1
      <4>. QED  BY <4>1
    <3>2. CASE ~ (s < 3)
      <4>1. s - 1 \in 1..L /\ Order[s - 1] = s  BY <2>2, <2>3, <2>4, <3>2
      <4>. QED  BY <4>1
    <3>. QED  BY <3>1, <3>2
  <2>8. \A n \in 1..L : Order[n] \in Listed  BY <2>2, <2>3, <2>4
  <2>9. Order[1] = 1 /\ Order[L] = Publish  BY <2>3, <2>4
  <2>. QED  BY <2>3, <2>4, <2>5, <2>6, <2>7, <2>8, <2>9 DEF OrderKnown
<1>. QED  BY <1>2, <1>3

(* What the types say of the one process.                                  *)
LEMMA HereIs ==
  ASSUME TypeOK
  PROVE  /\ Only \in Process /\ Here \in Listed /\ Here \in 1..Publish /\ Publish \in Nat
         /\ at[Only] \in 1..Len(Order) /\ Where \in {"idle", "returned"} \cup Working
         /\ limit \in Nat /\ spent \in Nat
<1>1. Only \in Process  BY OnceAssumption
<1>2. at[Only] \in 1..Len(Order) /\ Where \in {"idle", "returned"} \cup Working
  BY <1>1 DEF TypeOK, Where
<1>3. limit \in Nat  BY SizeAssumption DEF TypeOK
<1>. QED
  BY <1>1, <1>2, <1>3, OrderIs, StepsAre
  DEF OrderKnown, StepsKnown, Here, Step, Listed, TypeOK

LEMMA Goes ==
  ASSUME TypeOK, NEW w, w \in {"idle", "returned"} \cup Working, To(Only, w)
  PROVE  Where' = w /\ pc' \in [Process -> {"idle", "returned"} \cup Working]
BY HereIs DEF TypeOK, To, Where

LEMMA CallsAre ==
  ASSUME CallOK
  PROVE  /\ Call \subseteq Listed /\ Call \subseteq 1..Publish /\ IsFiniteSet(Call)
         /\ FirstCall \in Call /\ \A c \in Call : FirstCall <= c
         /\ FirstCall < Performance
<1>1. Publish \in Nat /\ Call \subseteq 1..Publish
  BY StepsAre DEF StepsKnown, CallOK, Listed
<1>2. IsFiniteSet(Call)
  <2>1. IsFiniteSet(1..Publish)  BY <1>1, FS_Interval
  <2>. QED  BY <1>1, <2>1, FS_Subset
<1>. QED
  BY <1>1, <1>2, StepsAre DEF StepsKnown, CallOK, FirstCall

Asked == {s \in Call : attempt[s] # None}

LEMMA NumberIs ==
  ASSUME CallOK
  PROVE  CallNumber = Cardinality(Asked) /\ IsFiniteSet(Asked) /\ CallNumber \in Nat
<1>1. IsFiniteSet(Asked)  BY CallsAre, FS_Subset DEF Asked
<1>2. CallNumber = Cardinality(Asked)  BY DEF CallNumber, Asked
<1>. QED  BY <1>1, <1>2, FS_CardinalityType

NumberKnown ==
    CallNumber = Cardinality(Asked) /\ IsFiniteSet(Asked) /\ CallNumber \in Nat

LEMMA NumberOf == CallOK => NumberKnown
BY NumberIs DEF NumberKnown

LEMMA NumberNext == CallOK' => NumberKnown'
BY NumberOf, PTL

(* Records and answers stay once they are there.                           *)
Grown ==
    /\ Call' = Call
    /\ \A s \in Listed : record[s] # None => record'[s] = record[s]
    /\ \A s \in Call : attempt[s] \in CallEnd => attempt'[s] = attempt[s]

Kept(s) ==
    /\ Passed(s) => Passed(s)'
    /\ Through(s) => Through(s)'
    /\ Came(s) => Came(s)'

LEMMA GrownKeeps ==
  ASSUME CallOK, Grown
  PROVE  \A s \in Listed : Kept(s)
<1>1. ASSUME NEW s \in Listed, Passed(s) PROVE Passed(s)'
  <2>1. record'[s] = record[s]  BY <1>1 DEF Grown, Passed
  <2>2. ASSUME s \in Call' PROVE Accepted(s)'
    BY <1>1, <2>2 DEF Grown, Passed, Accepted, CallEnd
  <2>3. s = Validation => attempt'[Performance] = attempt[Performance]
    BY <1>1 DEF Grown, Passed, CallOK, CallEnd
  <2>. QED  BY <1>1, <2>1, <2>2, <2>3 DEF Passed
<1>2. ASSUME NEW s \in Listed, Through(s), ~ FlawBefore(s) PROVE ~ FlawBefore(s)'
  <2>1. ASSUME NEW c \in Call, c < s PROVE attempt'[c] = attempt[c]
    BY <1>2, <2>1, CallsAre DEF Grown, Through, Passed, Accepted, CallEnd
  <2>2. CASE s = Ending + 1
    <3>1. \A c \in Call \cap {Main, Transition} : c < s
      BY <2>2, StepsAre DEF StepsKnown
    <3>2. s # Performance  BY <2>2, StepsAre DEF StepsKnown
    <3>. QED  BY <1>2, <2>1, <2>2, <3>1, <3>2 DEF FlawBefore, Grown
  <2>3. CASE s = Performance
    <3>1. \A c \in Call \cap BatchSteps : c < s
      BY <2>3, StepsAre DEF StepsKnown
    <3>2. s # Ending + 1  BY <2>3, StepsAre DEF StepsKnown
    <3>. QED  BY <1>2, <2>1, <2>3, <3>1, <3>2 DEF FlawBefore, Grown
  <2>. QED  BY <2>2, <2>3 DEF FlawBefore
<1>3. ASSUME NEW s \in Listed, Through(s), NEW r \in Listed, r < s PROVE Through(r)
  <2>1. s \in Nat /\ r \in Nat  BY StepsAre DEF StepsKnown, Listed
  <2>2. \A q \in Listed : q \in Nat  BY StepsAre DEF StepsKnown, Listed
  <2>. QED  BY <1>3, <2>1, <2>2 DEF Through
<1>4. ASSUME NEW s \in Listed, Through(s) PROVE Through(s)'
  <2>1. Listed' = Listed  OBVIOUS
  <2>2. ASSUME NEW r \in Listed, r < s PROVE Passed(r)' /\ ~ FlawBefore(r)'
    BY <1>1, <1>2, <1>3, <1>4, <2>2 DEF Through
  <2>. QED  BY <2>2 DEF Through
<1>. QED  BY <1>1, <1>2, <1>4 DEF Kept, Came

(* A step that leaves the saved state as it is.                            *)
LEMMA DiskSame ==
  ASSUME CallOK, DiskHolds, ManifestHolds, UNCHANGED <<attempt, record, final, manifest, limit>>
  PROVE  CallOK' /\ DiskHolds' /\ ManifestHolds'
<1>1. Call' = Call /\ CallNumber' = CallNumber  BY DEF Call, CallNumber
<1>2. CallOK'  BY <1>1 DEF CallOK
<1>3. Grown  BY <1>1 DEF Grown
<1>4. ASSUME NEW s \in Listed PROVE (Started(s)' => Came(s)') /\ RecordSays(s)'
  <2>1. Kept(s)  BY <1>3, GrownKeeps
  <2>2. Ordinal(s)' = Ordinal(s)  BY <1>1 DEF Ordinal
  <2>. QED
    BY <1>1, <2>1, <2>2 DEF DiskHolds, Started, RecordSays, Kept
<1>5. Suits' = Suits  BY <1>1 DEF Suits
<1>6. DiskHolds'  BY <1>1, <1>4, <1>5 DEF DiskHolds
<1>7. ManifestHolds'  BY <1>1 DEF ManifestHolds, VerdictIsBacked
<1>. QED  BY <1>2, <1>6, <1>7

AtTypes == at \in [Process -> 1..Len(Order)]

(* Steps of a process that write nothing.                                  *)
LEMMA Moves ==
  ASSUME WholeInv, UNCHANGED <<saved, history>>,
         NEW w, w \in {"idle", "returned"} \cup Working, To(Only, w), at' \in [Process -> 1..Len(Order)],
         MindHolds', SpentHolds'
  PROVE  WholeInv'
<1>1. UNCHANGED <<attempt, record, failure, final, manifest, told, spent, prepares, stops, limit>>
  BY DEF saved, history
<1>2. CallOK' /\ DiskHolds' /\ ManifestHolds'  BY <1>1, DiskSame DEF WholeInv
<1>3. Call' = Call  BY <1>1 DEF Call
<1>4. TypeOK'  BY <1>1, <1>3, Goes DEF WholeInv, TypeOK
<1>. QED  BY <1>2, <1>4 DEF WholeInv

(* What the process knows where it is, when nothing was taken back.        *)
LEMMA StillThrough ==
  ASSUME TypeOK, CallOK, Grown, at' = at
  PROVE  /\ Here' = Here
         /\ Through(Here) => Through(Here)'
         /\ Came(Here) => Came(Here)'
         /\ Passed(FirstCall) => Passed(FirstCall)'
<1>1. PICK s \in Listed : s = Here  BY HereIs
<1>2. Here' = Here  BY DEF Here, Step
<1>3. Kept(s)  BY GrownKeeps
<1>4. FirstCall' = FirstCall  BY DEF Grown, FirstCall
<1>5. PICK c \in Listed : c = FirstCall  BY CallsAre
<1>6. Kept(c)  BY GrownKeeps
<1>7. (Through(s) => Through(s)') /\ (Came(s) => Came(s)') /\ (Passed(c) => Passed(c)')
  BY <1>3, <1>6 DEF Kept
<1>. QED  BY <1>1, <1>2, <1>4, <1>5, <1>7

LEMMA SavedSame ==
  ASSUME TypeOK, CallOK, UNCHANGED <<saved, at>>
  PROVE  /\ Here' = Here /\ Call' = Call /\ FirstCall' = FirstCall /\ CallNumber' = CallNumber
         /\ Through(Here) => Through(Here)'
         /\ (Through(Here) /\ ~ FlawBefore(Here)) => ~ FlawBefore(Here)'
         /\ Passed(FirstCall) => Passed(FirstCall)'
         /\ Suits' = Suits
         /\ Accepted(Here) => Accepted(Here)'
<1>1. Call' = Call /\ CallNumber' = CallNumber  BY DEF Call, CallNumber, saved
<1>2. Grown  BY <1>1 DEF Grown, saved
<1>3. Suits' = Suits  BY <1>1 DEF Suits, saved
<1>4. Here' = Here  BY <1>2, StillThrough
<1>5. Accepted(Here) => Accepted(Here)'  BY <1>4 DEF Accepted, saved
<1>. QED  BY <1>1, <1>2, <1>3, <1>4, <1>5, StillThrough DEF Came, FirstCall

LEMMA FoundFlawKeeps == ASSUME WholeInv, FoundFlaw(Only) PROVE WholeInv'
<1>1. Where = "stage" /\ To(Only, "fail") /\ UNCHANGED <<saved, at, history>>
  BY DEF FoundFlaw, Where
<1>2. Where' = "fail" /\ "fail" \in Working  BY <1>1, Goes DEF WholeInv, Working
<1>3. MindHolds'
  BY <1>1, <1>2 DEF WholeInv, MindHolds, Coming, Publishing, Working, saved
<1>4. SpentHolds'
  BY <1>1, <1>2, SavedSame DEF WholeInv, SpentHolds, saved, history
<1>5. at' \in [Process -> 1..Len(Order)]  BY <1>1 DEF WholeInv, TypeOK
<1>. QED  BY <1>1, <1>2, <1>3, <1>4, <1>5, Moves

LEMMA NoCallKeeps == ASSUME WholeInv, NoCall(Only) PROVE WholeInv'
<1>. DEFINE w == IF Here = Validation /\ attempt[Performance] = "weak" THEN "refuse" ELSE "record"
<1>1. /\ Where = "stage" /\ ~ FlawBefore(Here) /\ Here \notin Call /\ Here # Publish
      /\ To(Only, w) /\ UNCHANGED <<saved, at, history>>
  BY DEF NoCall, Where, Here
<1>2. w \in {"refuse", "record"} /\ w \in Working  BY DEF Working
<1>3. Where' = w  BY <1>1, <1>2, Goes DEF WholeInv
<1>4. Through(Here) /\ manifest = "prepared"
  BY <1>1 DEF WholeInv, MindHolds, Coming, Working
<1>5. Here = Validation /\ w = "record" => attempt[Performance] \in {"good", "plain"}
  <2>. SUFFICES ASSUME Here = Validation, w = "record"
       PROVE  attempt[Performance] \in {"good", "plain"}
    OBVIOUS
  <2>1. Performance \in Call /\ Performance \in Listed /\ Performance < Here
    BY StepsAre DEF StepsKnown, WholeInv, CallOK
  <2>2. Accepted(Performance)  BY <1>4, <2>1 DEF Through, Passed
  <2>3. Performance \notin {Main, Transition}  BY StepsAre DEF StepsKnown
  <2>. QED  BY <2>2, <2>3 DEF Accepted
<1>. HIDE DEF w
<1>6. MindHolds'
  BY <1>1, <1>2, <1>3, <1>4, <1>5, SavedSame
  DEF WholeInv, MindHolds, Coming, Publishing, Working, saved
<1>7. SpentHolds'
  <2>. SUFFICES ASSUME spent >= 2 PROVE SpentHolds'  BY <1>1 DEF SpentHolds, history
  <2>1. Here <= FirstCall  BY <1>1 DEF WholeInv, SpentHolds
  <2>2. Here # Validation
    BY <2>1, CallsAre, StepsAre DEF StepsKnown, WholeInv, Listed
  <2>3. w = "record"  BY <2>2 DEF w
  <2>. QED
    BY <1>1, <1>3, <2>1, <2>3, SavedSame DEF WholeInv, SpentHolds, saved, history
<1>8. at' \in [Process -> 1..Len(Order)]  BY <1>1 DEF WholeInv, TypeOK
<1>. QED  BY <1>1, <1>2, <1>6, <1>7, <1>8, Moves

LEMMA UseAnswerKeeps == ASSUME WholeInv, UseAnswer(Only) PROVE WholeInv'
<1>1. PICK w \in {"fail", "record", "refuse"} :
        /\ Where = "stage" /\ ~ FlawBefore(Here) /\ Here \in Call
        /\ attempt[Here] \in CallEnd
        /\ To(Only, w) /\ UNCHANGED <<saved, at, history>>
        /\ w = "record" <=> Accepted(Here)
        /\ w = "refuse" => Here \in BatchSteps \cup {Performance}
  BY DEF UseAnswer, MayCall, Where, Here, Accepted, CallEnd
<1>2. w \in Working /\ Where' = w  BY <1>1, Goes DEF WholeInv, Working
<1>3. Through(Here) /\ manifest = "prepared"
  BY <1>1 DEF WholeInv, MindHolds, Coming, Working
<1>4. Here # Publish /\ Here # Validation
  BY <1>1, StepsAre DEF StepsKnown, WholeInv, CallOK
<1>5. MindHolds'
  BY <1>1, <1>2, <1>3, <1>4, SavedSame
  DEF WholeInv, MindHolds, Coming, Publishing, Working, saved
<1>6. SpentHolds'
  <2>. SUFFICES ASSUME spent >= 2 PROVE SpentHolds'  BY <1>1 DEF SpentHolds, history
  <2>1. Here <= FirstCall /\ Passed(FirstCall)  BY <1>1 DEF WholeInv, SpentHolds
  <2>2. Here = FirstCall
    BY <1>1, <2>1, CallsAre, HereIs DEF WholeInv
  <2>3. w = "record"  BY <1>1, <2>1, <2>2 DEF Passed
  <2>. QED
    BY <1>1, <1>2, <2>1, <2>3, SavedSame DEF WholeInv, SpentHolds, saved, history
<1>7. at' \in [Process -> 1..Len(Order)]  BY <1>1 DEF WholeInv, TypeOK
<1>. QED  BY <1>1, <1>2, <1>5, <1>6, <1>7, Moves

LEMMA EvaluateKeeps == ASSUME WholeInv, Evaluate(Only) PROVE WholeInv'
<1>. DEFINE w == IF Suits THEN "midi" ELSE "publish"
<1>1. /\ Where = "stage" /\ Here = Publish /\ To(Only, w) /\ UNCHANGED <<saved, at, history>>
  BY DEF Evaluate, Where, Here
<1>2. w \in {"midi", "publish"} /\ w \in Working /\ (w = "midi" <=> Suits)  BY DEF Working
<1>. HIDE DEF w
<1>3. Where' = w  BY <1>1, <1>2, Goes DEF WholeInv
<1>4. Through(Here) /\ manifest = "prepared" /\ ~ FlawBefore(Here)
  <2>1. ~ FlawBefore(Publish)  BY StepsAre DEF StepsKnown, FlawBefore
  <2>. QED  BY <1>1, <2>1 DEF WholeInv, MindHolds, Coming, Working
<1>5. MindHolds'
  <2>1. Through(Here)' /\ ~ FlawBefore(Here)' /\ Here' = Publish /\ manifest' = "prepared"
    BY <1>1, <1>4, SavedSame DEF WholeInv, saved
  <2>2. Suits' <=> w = "midi"  BY <1>1, <1>2, SavedSame DEF WholeInv
  <2>. QED
    BY <1>2, <1>3, <2>1, <2>2 DEF MindHolds, Coming, Publishing, Working
<1>6. SpentHolds'
  <2>. SUFFICES ASSUME spent >= 2 PROVE FALSE  BY <1>1 DEF SpentHolds, history
  <2>1. Here <= FirstCall  BY <1>1 DEF WholeInv, SpentHolds
  <2>. QED  BY <1>1, <2>1, CallsAre, StepsAre DEF StepsKnown, WholeInv, Listed
<1>7. at' \in [Process -> 1..Len(Order)]  BY <1>1 DEF WholeInv, TypeOK
<1>. QED  BY <1>1, <1>2, <1>5, <1>6, <1>7, Moves

LEMMA ExecuteKeeps == ASSUME WholeInv, Execute(Only) PROVE WholeInv'
<1>1. /\ Where \in {"idle", "returned"} /\ manifest # None /\ UNCHANGED <<saved, history>>
      /\ \/ manifest = "prepared" /\ To(Only, "stage") /\ at' = [at EXCEPT ![Only] = 1]
         \/ manifest # "prepared" /\ To(Only, "returned") /\ UNCHANGED at
  BY DEF Execute, Where
<1>2. CASE manifest = "prepared"
  <2>1. at' = [at EXCEPT ![Only] = 1] /\ To(Only, "stage")  BY <1>1, <1>2
  <2>2. Where' = "stage" /\ "stage" \in Working  BY <2>1, Goes DEF WholeInv, Working
  <2>3. at' \in [Process -> 1..Len(Order)] /\ at'[Only] = 1
    BY <2>1, HereIs, OrderIs DEF WholeInv, TypeOK, OrderKnown
  <2>4. Here' = 1  BY <2>3, OrderIs DEF OrderKnown, Here, Step
  <2>5. Through(Here)'
    BY <2>4, StepsAre DEF Through, StepsKnown, Listed
  <2>6. MindHolds'
    BY <1>1, <1>2, <2>2, <2>5 DEF MindHolds, Coming, Publishing, Working, saved
  <2>7. SpentHolds'
    <3>1. /\ Call' = Call /\ CallNumber' = CallNumber /\ FirstCall' = FirstCall
          /\ record' = record /\ attempt' = attempt /\ spent' = spent
      BY <1>1 DEF Call, CallNumber, FirstCall, saved, history
    <3>2. Passed(FirstCall) => Passed(FirstCall)'  BY <3>1 DEF Passed, Accepted
    <3>3. Here' <= FirstCall'
      BY <2>4, <3>1, CallsAre, StepsAre DEF StepsKnown, WholeInv, Listed
    <3>. QED  BY <2>2, <3>1, <3>2, <3>3 DEF WholeInv, SpentHolds
  <2>. QED  BY <1>1, <2>1, <2>2, <2>3, <2>6, <2>7, Moves
<1>3. CASE manifest # "prepared"
  <2>1. UNCHANGED at /\ To(Only, "returned")  BY <1>1, <1>3
  <2>2. Where' = "returned" /\ manifest \in Settled
    BY <1>1, <1>3, <2>1, Goes DEF WholeInv, TypeOK
  <2>3. MindHolds'
    BY <1>1, <2>2 DEF MindHolds, Coming, Publishing, Working, saved
  <2>4. SpentHolds'
    BY <1>1, <2>1, <2>2, SavedSame DEF WholeInv, SpentHolds, saved, history
  <2>5. at' \in [Process -> 1..Len(Order)]  BY <2>1 DEF WholeInv, TypeOK
  <2>. QED  BY <1>1, <2>1, <2>3, <2>4, <2>5, Moves
<1>. QED  BY <1>2, <1>3

(* A stop, whoever notices it: with two calls made, the first of them is   *)
(* on record under its own number.                                         *)
LEMMA StopsHere ==
  ASSUME WholeInv, To(Only, "idle"), spent' = CallNumber, stops' \in 0..MaxStops,
         UNCHANGED <<saved, at, prepares, limit>>
  PROVE  WholeInv'
<1>1. UNCHANGED <<attempt, record, failure, final, manifest, told, at, prepares, limit>>
  BY DEF saved
<1>2. CallOK' /\ DiskHolds' /\ ManifestHolds'  BY <1>1, DiskSame DEF WholeInv
<1>3. Where' = "idle" /\ pc' \in [Process -> {"idle", "returned"} \cup Working]
  BY Goes DEF WholeInv
<1>4. /\ Call' = Call /\ CallNumber' = CallNumber /\ CallNumber \in 0..limit
      /\ FirstCall' = FirstCall
  BY <1>1, NumberIs, HereIs DEF WholeInv, DiskHolds, Call, CallNumber, FirstCall
<1>5. TypeOK'  BY <1>1, <1>3, <1>4 DEF WholeInv, TypeOK
<1>6. MindHolds'  BY <1>3 DEF MindHolds, Coming, Publishing, Working
<1>7. SpentHolds'
  <2>. SUFFICES ASSUME CallNumber >= 2
       PROVE  Passed(FirstCall) /\ record[FirstCall].number = 1
    BY <1>1, <1>3, <1>4 DEF SpentHolds, Passed, Accepted
  <2>. DEFINE c == FirstCall
  <2>1. c \in Call /\ c \in Listed /\ \A r \in Call : c <= r  BY CallsAre DEF WholeInv
  <2>2. \A r \in Call : r \in Nat  BY CallsAre, StepsAre DEF WholeInv, StepsKnown
  <2>. HIDE DEF c
  <2>3. PICK r \in Asked : r # c
    <3>1. CASE Asked \subseteq {c}
      <4>1. IsFiniteSet({c}) /\ Cardinality({c}) = 1  BY FS_Singleton
      <4>2. Cardinality(Asked) <= 1  BY <3>1, <4>1, FS_Subset
      <4>. QED  BY <4>2, NumberIs DEF WholeInv
    <3>. QED  BY <3>1
  <2>4. c < r /\ r \in Listed /\ Started(r)
    BY <2>1, <2>2, <2>3, CallsAre DEF Asked, Started, WholeInv
  <2>5. Passed(c) /\ record[c] # None
    BY <2>1, <2>4 DEF WholeInv, DiskHolds, Came, Through, Passed
  <2>6. record[c].number = Ordinal(c)
    BY <2>1, <2>5 DEF WholeInv, DiskHolds, RecordSays, Passed
  <2>7. {q \in Call : q <= c} = {c}  BY <2>1, <2>2
  <2>8. Ordinal(c) = 1  BY <2>7, FS_Singleton DEF Ordinal
  <2>. QED  BY <2>5, <2>6, <2>8 DEF c
<1>. QED  BY <1>2, <1>5, <1>6, <1>7 DEF WholeInv

LEMMA StopKeeps == ASSUME WholeInv, Stop(Only) PROVE WholeInv'
<1>1. /\ Where \in Working /\ To(Only, "idle") /\ spent' = CallNumber /\ stops' \in 0..MaxStops
      /\ UNCHANGED <<saved, at, prepares, limit>>
  BY SizeAssumption DEF Stop, Where, WholeInv, TypeOK
<1>. QED  BY <1>1, StopsHere DEF WholeInv

(* A step of the attempt under way: nothing rests on it yet.               *)
LEMMA AttemptMoves ==
  ASSUME WholeInv, Where \in {"stage", "call"}, ~ FlawBefore(Here), Here \in Call,
         attempt[Here] \in {None, "open"},
         NEW a \in {"open"} \cup Ends(Here), attempt' = [attempt EXCEPT ![Here] = a],
         NEW w \in {"stage", "call", "fail"}, To(Only, w),
         w = "call" => a = "open",
         attempt[Here] = None => CallNumber < limit,
         UNCHANGED <<record, failure, final, manifest, told, at, history>>
  PROVE  WholeInv'
<1>. PICK s \in Listed : s = Here  BY HereIs DEF WholeInv
<1>1. /\ attempt \in [Call -> {None, "open"} \cup CallEnd] /\ s \in Call
      /\ a \in {"open"} \cup CallEnd
  BY DEF WholeInv, CallOK, Ends, CallEnd
<1>2. attempt' \in [Call -> {None, "open"} \cup CallEnd] /\ Call' = Call
  BY <1>1 DEF Call
<1>3. \A r \in Call : attempt'[r] = IF r = s THEN a ELSE attempt[r]  BY <1>1
<1>4. CallOK'
  <2>1. a = "weak" => s \in BatchSteps \cup {Performance}  BY DEF Ends
  <2>. QED  BY <1>2, <1>3, <2>1 DEF WholeInv, CallOK
<1>5. Grown
  <2>1. None \notin CallEnd /\ "open" \notin CallEnd  BY NoneAssumption DEF CallEnd
  <2>. QED  BY <1>1, <1>2, <1>3, <2>1 DEF Grown
<1>6. manifest = "prepared" /\ Through(Here) /\ Where \in Working /\ w \in Working
  BY DEF WholeInv, MindHolds, Coming, Working
<1>7. Here' = Here /\ Through(Here)' /\ ~ FlawBefore(Here)' /\ Came(s)'
  <2>1. Came(Here)  BY <1>6 DEF Came
  <2>2. Came(Here)' /\ Here' = Here  BY <1>5, <2>1, StillThrough DEF WholeInv
  <2>. QED  BY <2>2 DEF Came
<1>8. CallNumber' <= limit /\ CallNumber' \in Nat
  <2>1. /\ CallNumber = Cardinality(Asked) /\ IsFiniteSet(Asked) /\ CallNumber <= limit
    BY NumberIs DEF WholeInv, DiskHolds
  <2>2. CallNumber' = Cardinality(Asked') /\ CallNumber' \in Nat
    BY <1>4, NumberNext DEF NumberKnown
  <2>3. CASE attempt[s] = None
    <3>1. Asked' = Asked \cup {s} /\ s \notin Asked
      BY <1>1, <1>2, <1>3, <2>3, NoneAssumption DEF Asked
    <3>2. Cardinality(Asked') = Cardinality(Asked) + 1  BY <2>1, <3>1, FS_AddElement
    <3>. QED  BY <2>1, <2>2, <2>3, <3>2, HereIs, NumberIs DEF WholeInv
  <2>4. CASE attempt[s] # None
    <3>1. Asked' = Asked  BY <1>1, <1>2, <1>3, <2>4, NoneAssumption DEF Asked
    <3>. QED  BY <2>1, <2>2, <3>1
  <2>. QED  BY <2>3, <2>4
<1>9. ASSUME NEW r \in Listed PROVE (Started(r)' => Came(r)') /\ RecordSays(r)'
  <2>1. Kept(r)  BY <1>5, GrownKeeps DEF WholeInv
  <2>2. Started(r) => Came(r)  BY DEF WholeInv, DiskHolds
  <2>3. Started(r)' => Came(r)'
    BY <1>2, <1>3, <1>7, <2>1, <2>2 DEF Started, Kept
  <2>4. Ordinal(r)' = Ordinal(r)  BY <1>2 DEF Ordinal
  <2>5. RecordSays(r)'
    BY <1>2, <2>1, <2>4 DEF WholeInv, DiskHolds, RecordSays, Kept
  <2>. QED  BY <2>3, <2>5
<1>10. ~ Suits /\ final = {}
  <2>1. ~ Suits  BY <1>1, NoneAssumption DEF Suits, CallEnd
  <2>. QED  BY <2>1 DEF WholeInv, DiskHolds
<1>11. DiskHolds'
  BY <1>6, <1>8, <1>9, <1>10, NoneAssumption DEF DiskHolds, history
<1>12. ManifestHolds'  BY <1>6 DEF ManifestHolds, VerdictIsBacked
<1>13. Where' = w /\ pc' \in [Process -> {"idle", "returned"} \cup Working]
  BY <1>6, Goes DEF WholeInv
<1>14. TypeOK'
  BY <1>2, <1>13 DEF WholeInv, TypeOK, history
<1>15. MindHolds'
  BY <1>1, <1>2, <1>3, <1>6, <1>7, <1>13 DEF MindHolds, Coming, Publishing, Working
<1>16. ~ (spent >= 2)
  <2>. SUFFICES ASSUME spent >= 2 PROVE FALSE  OBVIOUS
  <2>1. Where = "stage" /\ Here <= FirstCall /\ Passed(FirstCall)
    BY DEF WholeInv, SpentHolds
  <2>2. Here = FirstCall  BY <2>1, CallsAre, HereIs DEF WholeInv
  <2>3. Accepted(Here)  BY <2>1, <2>2 DEF Passed
  <2>. QED  BY <2>3, NoneAssumption DEF Accepted, CallEnd
<1>17. SpentHolds'  BY <1>16 DEF SpentHolds, history
<1>. QED  BY <1>4, <1>11, <1>12, <1>14, <1>15, <1>17 DEF WholeInv

LEMMA ReserveKeeps == ASSUME WholeInv, Reserve(Only) PROVE WholeInv'
<1>1. /\ Where = "stage" /\ ~ FlawBefore(Here) /\ Here \in Call /\ attempt[Here] = None
      /\ UNCHANGED <<record, failure, final, manifest, told, at, history>>
  BY DEF Reserve, MayCall, Where, Here
<1>2. CASE CallNumber < limit
  <2>1. attempt' = [attempt EXCEPT ![Here] = "open"] /\ To(Only, "call")
    BY <1>2 DEF Reserve, Here
  <2>. QED  BY <1>1, <1>2, <2>1, AttemptMoves
<1>3. CASE ~ (CallNumber < limit)
  <2>1. UNCHANGED <<saved, at, history>> /\ To(Only, "fail")
    BY <1>1, <1>3 DEF Reserve, saved
  <2>2. Where' = "fail" /\ "fail" \in Working  BY <2>1, Goes DEF WholeInv, Working
  <2>3. MindHolds'
    BY <1>1, <2>1, <2>2 DEF WholeInv, MindHolds, Coming, Publishing, Working, saved
  <2>4. SpentHolds'
    BY <2>1, <2>2, SavedSame DEF WholeInv, SpentHolds, saved, history
  <2>5. at' \in [Process -> 1..Len(Order)]  BY <2>1 DEF WholeInv, TypeOK
  <2>. QED  BY <2>1, <2>2, <2>3, <2>4, <2>5, Moves
<1>. QED  BY <1>2, <1>3

LEMMA CallEndsKeeps == ASSUME WholeInv, CallEnds(Only) PROVE WholeInv'
<1>1. /\ Where = "call" /\ ~ FlawBefore(Here) /\ Here \in Call /\ attempt[Here] = "open"
  BY DEF CallEnds, Where, WholeInv, MindHolds, Coming
<1>2. /\ UNCHANGED <<record, failure, final, manifest, told, at, history>>
      /\ To(Only, "stage")
  BY <1>1 DEF CallEnds, Here
<1>3. PICK how \in Ends(Here) : attempt' = [attempt EXCEPT ![Here] = how]
  BY <1>1 DEF CallEnds, Here
<1>4. attempt[Here] # None  BY <1>1, NoneAssumption
<1>. QED  BY <1>1, <1>2, <1>3, <1>4, AttemptMoves

LEMMA RecoverKeeps == ASSUME WholeInv, Recover(Only) PROVE WholeInv'
<1>1. /\ Where = "stage" /\ ~ FlawBefore(Here) /\ Here \in Call /\ attempt[Here] = "open"
      /\ UNCHANGED <<record, failure, final, manifest, told, pc, at, history>>
  BY DEF Recover, MayCall, Where, Here
<1>2. PICK how \in Ends(Here) : attempt' = [attempt EXCEPT ![Here] = how]
  BY DEF Recover, Here
<1>3. To(Only, "stage")
  BY <1>1, HereIs DEF To, Where, WholeInv, TypeOK
<1>4. attempt[Here] # None  BY <1>1, NoneAssumption
<1>. QED  BY <1>1, <1>2, <1>3, <1>4, AttemptMoves

RecordType == [1..Publish -> {None} \cup [status : {"completed", "failed"}, number : 0..limit]]

(* What a step must have behind it to be recorded as completed.            *)
Backed(s) ==
    /\ s \in Call => Accepted(s)
    /\ s = Validation => attempt[Performance] \in {"good", "plain"}

(* The place of the call among the calls, when its record is first written:*)
(* all before it were made, and none after it.                             *)
LEMMA FirstNumber ==
  ASSUME WholeInv, NEW s \in Listed, s \in Call, Came(s), Accepted(s), record[s] = None
  PROVE  CallNumber = Ordinal(s)
<1>1. \A r \in Call : r \in Listed /\ r \in Nat
  BY CallsAre, StepsAre DEF WholeInv, StepsKnown
<1>2. \A r \in Call : Accepted(r) => r \in Asked
  BY NoneAssumption DEF Accepted, Asked, CallEnd
<1>3. ASSUME NEW r \in Call, r <= s PROVE r \in Asked
  <2>1. CASE r = s  BY <1>2, <2>1
  <2>2. CASE r < s
    <3>1. Passed(r)  BY <1>1, <2>2 DEF Came, Through
    <3>. QED  BY <1>2, <3>1 DEF Passed
  <2>. QED  BY <1>1, <1>3, <2>1, <2>2
<1>4. ASSUME NEW r \in Asked PROVE r <= s
  <2>1. r \in Call /\ Started(r)  BY DEF Asked, Started
  <2>2. Through(r)  BY <1>1, <2>1 DEF WholeInv, DiskHolds, Came
  <2>3. ~ (s < r)  BY <2>2 DEF Through, Passed
  <2>. QED  BY <1>1, <2>1, <2>3
<1>5. Asked = {r \in Call : r <= s}  BY <1>3, <1>4 DEF Asked
<1>. QED  BY <1>5, NumberIs DEF WholeInv, Ordinal

LEMMA Recorded ==
  ASSUME WholeInv, NEW s \in Listed, s = Here, Where \in {"record", "refuse", "publish"},
         NEW entry \in [status : {"completed", "failed"}, number : 0..limit],
         record[s] = None, record' = [record EXCEPT ![s] = entry],
         entry.status = "completed" => Backed(s) /\ (s \in Call => entry.number = CallNumber),
         entry.status = "failed" => s # Publish,
         UNCHANGED <<attempt, failure, final, manifest, told, history>>
  PROVE  /\ CallOK' /\ DiskHolds' /\ ManifestHolds' /\ Grown
         /\ record' \in RecordType
         /\ entry.status = "completed" => Passed(s)'
<1>1. record \in RecordType /\ record' \in RecordType /\ s \in 1..Publish
  BY HereIs DEF WholeInv, TypeOK, RecordType
<1>2. record'[s] = entry /\ \A r \in Listed : r # s => record'[r] = record[r]
  BY <1>1 DEF RecordType, Listed
<1>3. Call' = Call /\ CallNumber' = CallNumber /\ limit' = limit
  BY DEF Call, CallNumber, history
<1>4. CallOK'  BY <1>3 DEF WholeInv, CallOK
<1>5. Grown  BY <1>2, <1>3 DEF Grown
<1>6. manifest = "prepared" /\ Came(s)
  BY DEF WholeInv, MindHolds, Coming, Working, Came
<1>7. entry # None
  <2>1. 0..limit \subseteq Nat  BY HereIs DEF WholeInv
  <2>2. entry \in [status : {"completed", "failed"}, number : Nat]  BY <2>1
  <2>. QED  BY <2>2, NoneAssumption
<1>8. entry.status = "completed" => Passed(s)'
  BY <1>2, <1>3, <1>7 DEF Passed, Backed, Accepted
<1>9. ASSUME NEW r \in Listed PROVE (Started(r)' => Came(r)') /\ RecordSays(r)'
  <2>1. Kept(r)  BY <1>5, GrownKeeps DEF WholeInv
  <2>2. Ordinal(r)' = Ordinal(r)  BY <1>3 DEF Ordinal
  <2>3. CASE r # s
    <3>1. record'[r] = record[r]  BY <1>2, <2>3
    <3>2. Started(r)' <=> Started(r)  BY <1>3, <3>1 DEF Started
    <3>3. (Started(r) => Came(r)) /\ RecordSays(r)  BY DEF WholeInv, DiskHolds
    <3>. QED  BY <1>3, <2>1, <2>2, <3>1, <3>2, <3>3 DEF RecordSays, Kept
  <2>4. CASE r = s
    <3>1. Came(r)'  BY <1>6, <2>1, <2>4 DEF Kept
    <3>2. CASE entry.status = "completed"
      <4>1. s \in Call => entry.number = Ordinal(s)
        BY <1>6, <3>2, FirstNumber DEF Backed
      <4>. QED  BY <1>2, <1>3, <1>8, <2>2, <2>4, <3>1, <3>2, <4>1 DEF RecordSays
    <3>3. CASE entry.status = "failed"
      BY <1>2, <2>4, <3>1, <3>3 DEF RecordSays
    <3>. QED  BY <3>2, <3>3
  <2>. QED  BY <2>3, <2>4
<1>10. Suits' = Suits  BY <1>3 DEF Suits
<1>11. DiskHolds'
  <2>1. final' = final /\ manifest' = manifest /\ attempt' = attempt  OBVIOUS
  <2>. QED  BY <1>3, <1>9, <1>10, <2>1 DEF WholeInv, DiskHolds
<1>12. ManifestHolds'  BY <1>6 DEF ManifestHolds, VerdictIsBacked
<1>. QED  BY <1>1, <1>4, <1>5, <1>8, <1>11, <1>12

(* The next step, once this one is recorded.                               *)
LEMMA Advances ==
  ASSUME WholeInv, NEW s \in Listed, s = Here, s # Publish, Came(s), Grown, Passed(s)',
         at' = [at EXCEPT ![Only] = @ + 1]
  PROVE  /\ at' \in [Process -> 1..Len(Order)]
         /\ Here' \in Listed /\ Through(Here)'
         /\ \A r \in Listed : r < Here' <=> r <= s
<1>. DEFINE n == at[Only]
<1>1. /\ n \in 1..Len(Order) /\ Order[n] = s /\ Only \in Process
      /\ at \in [Process -> 1..Len(Order)]
  BY HereIs DEF WholeInv, Here, Step, TypeOK
<1>2. n < Len(Order)  BY <1>1, OrderIs DEF OrderKnown
<1>3. /\ n + 1 \in 1..Len(Order) /\ Order[n + 1] \in Listed
      /\ \A r \in Listed : r < Order[n + 1] <=> r <= s
  BY <1>1, <1>2, OrderIs DEF OrderKnown
<1>4. at' \in [Process -> 1..Len(Order)] /\ at'[Only] = n + 1  BY <1>1, <1>3
<1>5. Here' = Order[n + 1]  BY <1>4 DEF Here, Step
<1>. HIDE DEF n
<1>6. \A r \in Listed : r \in Nat  BY StepsAre DEF StepsKnown, Listed
<1>7. PICK t \in Listed : t = Here'  BY <1>3, <1>5
<1>8. ASSUME NEW r \in Listed, r < t PROVE Passed(r)' /\ ~ FlawBefore(r)'
  <2>1. Kept(r)  BY GrownKeeps DEF WholeInv
  <2>2. r <= s  BY <1>3, <1>5, <1>7, <1>8
  <2>3. CASE r = s
    BY <2>1, <2>3 DEF Kept, Came
  <2>4. CASE r < s
    <3>1. Passed(r) /\ ~ FlawBefore(r)  BY <2>4 DEF Came, Through
    <3>2. Through(r)  BY <1>6, <2>4 DEF Came, Through
    <3>. QED  BY <2>1, <3>1, <3>2 DEF Kept, Came
  <2>. QED  BY <1>6, <2>2, <2>3, <2>4
<1>9. Through(t)'  BY <1>8 DEF Through
<1>10. Through(Here)'  BY <1>7, <1>9
<1>. QED  BY <1>3, <1>4, <1>5, <1>10

LEMMA Fails ==
  ASSUME WholeInv, Where \in Working \ {"tell"}, To(Only, "fail"), UNCHANGED <<saved, at, history>>
  PROVE  WholeInv'
<1>1. Where' = "fail" /\ "fail" \in Working  BY Goes DEF WholeInv, Working
<1>2. MindHolds'  BY <1>1 DEF WholeInv, MindHolds, Coming, Publishing, Working, saved
<1>3. SpentHolds'  BY <1>1, SavedSame DEF WholeInv, SpentHolds, saved, history
<1>4. at' \in [Process -> 1..Len(Order)]  BY DEF WholeInv, TypeOK
<1>. QED  BY <1>1, <1>2, <1>3, <1>4, Moves

(* The saved record is the one that would be written.                      *)
LEMMA RecordedBefore ==
  ASSUME WholeInv, NEW s \in Listed, record[s] # None, record' = [record EXCEPT ![s] = record[s]],
         UNCHANGED <<attempt, failure, final, manifest, told, history>>
  PROVE  record' = record
<1>1. record \in RecordType  BY DEF WholeInv, TypeOK, RecordType
<1>. QED  BY <1>1 DEF RecordType

LEMMA RecordStepKeeps == ASSUME WholeInv, RecordStep(Only) PROVE WholeInv'
<1>. PICK s \in Listed : s = Here  BY HereIs DEF WholeInv
<1>1. /\ Where = "record" /\ Writes(Only, s, Entry(s), Onward(Only))
      /\ UNCHANGED <<attempt, failure, final, manifest, told, history>>
  BY DEF RecordStep, Where, Here
<1>2. /\ s # Publish /\ Backed(s) /\ Came(s) /\ manifest = "prepared"
  BY <1>1 DEF WholeInv, MindHolds, Coming, Working, Backed, Came
<1>3. /\ Entry(s) \in [status : {"completed", "failed"}, number : 0..limit]
      /\ Entry(s).status = "completed"
      /\ s \in Call => Entry(s).number = CallNumber
  <2>1. CallNumber \in 0..limit /\ 0 \in 0..limit
    BY NumberIs, HereIs DEF WholeInv, DiskHolds
  <2>. QED  BY <2>1 DEF Entry
<1>. DEFINE e == Entry(s)
<1>4. CASE record[s] \in {None, e}
  <2>1. /\ record' = [record EXCEPT ![s] = e] /\ To(Only, "stage")
        /\ at' = [at EXCEPT ![Only] = @ + 1]
    BY <1>1, <1>4 DEF Writes, Onward
  <2>. HIDE DEF e
  <2>2. /\ CallOK' /\ DiskHolds' /\ ManifestHolds' /\ Grown /\ record' \in RecordType /\ Passed(s)'
    <3>1. CASE record[s] = None
      BY <1>1, <1>2, <1>3, <2>1, <3>1, Recorded DEF e
    <3>2. CASE record[s] # None
      <4>1. record[s] = e  BY <1>4, <3>2
      <4>2. record' = record  BY <1>1, <2>1, <3>2, <4>1, RecordedBefore
      <4>3. record \in RecordType  BY DEF WholeInv, TypeOK, RecordType
      <4>4. CallOK' /\ DiskHolds' /\ ManifestHolds'
        BY <1>1, <4>2, DiskSame DEF WholeInv, history
      <4>5. Call' = Call  BY <1>1 DEF Call
      <4>6. Passed(s)  BY <1>2, <1>3, <3>2, <4>1 DEF Passed, Backed, e
      <4>7. Passed(s)'  BY <1>1, <4>2, <4>5, <4>6 DEF Passed, Accepted
      <4>. QED  BY <1>1, <4>2, <4>3, <4>4, <4>5, <4>7 DEF Grown
    <3>. QED  BY <3>1, <3>2
  <2>3. /\ at' \in [Process -> 1..Len(Order)] /\ Through(Here)' /\ Here' \in Listed
        /\ \A r \in Listed : r < Here' <=> r <= s
    BY <1>2, <2>1, <2>2, Advances
  <2>4. Where' = "stage" /\ pc' \in [Process -> {"idle", "returned"} \cup Working]
    BY <2>1, Goes DEF WholeInv, Working
  <2>5. Call' = Call /\ CallNumber' = CallNumber /\ FirstCall' = FirstCall
    BY <1>1 DEF Call, CallNumber, FirstCall
  <2>6. TypeOK'
    BY <1>1, <2>2, <2>3, <2>4, <2>5 DEF WholeInv, TypeOK, RecordType, history
  <2>7. MindHolds'
    BY <1>1, <1>2, <2>3, <2>4 DEF MindHolds, Coming, Publishing, Working
  <2>8. SpentHolds'
    <3>. SUFFICES ASSUME spent >= 2 PROVE SpentHolds'  BY <1>1 DEF SpentHolds, history
    <3>1. /\ CallNumber = spent /\ Passed(FirstCall) /\ record[FirstCall].number = 1
          /\ Here <= FirstCall
      BY <1>1 DEF WholeInv, SpentHolds
    <3>2. PICK c \in Listed : c = FirstCall /\ c \in Call  BY CallsAre DEF WholeInv
    <3>3. s # c
      <4>. SUFFICES ASSUME s = c PROVE FALSE  OBVIOUS
      <4>1. record[s] = e  BY <1>4, <3>1, <3>2 DEF Passed
      <4>2. e.number = CallNumber  BY <1>3, <3>2 DEF e
      <4>. QED  BY <3>1, <3>2, <4>1, <4>2
    <3>4. \A r \in Listed : r \in Nat  BY StepsAre DEF StepsKnown, Listed
    <3>5. Here' <= c  BY <2>3, <3>1, <3>2, <3>3, <3>4
    <3>6. Kept(c)  BY <2>2, GrownKeeps DEF WholeInv
    <3>7. Passed(c)' /\ record'[c] = record[c]
      BY <2>2, <3>1, <3>2, <3>6 DEF Kept, Grown, Passed
    <3>. QED
      BY <1>1, <2>4, <2>5, <3>1, <3>2, <3>5, <3>7 DEF SpentHolds, history
  <2>. QED  BY <2>2, <2>6, <2>7, <2>8 DEF WholeInv
<1>5. CASE record[s] \notin {None, e}
  <2>1. UNCHANGED <<saved, at, history>> /\ To(Only, "fail")
    BY <1>1, <1>5 DEF Writes, saved
  <2>2. Where \in Working \ {"tell"}  BY <1>1 DEF Working
  <2>. QED  BY <2>1, <2>2, Fails
<1>. QED  BY <1>4, <1>5

LEMMA RefuseKeeps == ASSUME WholeInv, Refuse(Only) PROVE WholeInv'
<1>. PICK s \in Listed : s = Here  BY HereIs DEF WholeInv
<1>. DEFINE e == [status |-> "failed", number |-> 0]
<1>1. /\ Where = "refuse" /\ Writes(Only, s, e, To(Only, "fail") /\ UNCHANGED at)
      /\ UNCHANGED <<attempt, failure, final, manifest, told, history>>
  BY DEF Refuse, Where, Here
<1>2. /\ s # Publish /\ Came(s) /\ manifest = "prepared" /\ Where \in Working \ {"tell"}
  BY <1>1 DEF WholeInv, MindHolds, Coming, Working, Came
<1>3. e \in [status : {"completed", "failed"}, number : 0..limit] /\ e.status = "failed"
  <2>1. 0 \in 0..limit  BY HereIs DEF WholeInv
  <2>. QED  BY <2>1
<1>4. CASE record[s] = None
  <2>1. /\ record' = [record EXCEPT ![s] = e] /\ To(Only, "fail") /\ UNCHANGED at
    BY <1>1, <1>4 DEF Writes
  <2>. HIDE DEF e
  <2>2. /\ CallOK' /\ DiskHolds' /\ ManifestHolds' /\ Grown /\ record' \in RecordType
    BY <1>1, <1>2, <1>3, <1>4, <2>1, Recorded
  <2>3. Where' = "fail" /\ pc' \in [Process -> {"idle", "returned"} \cup Working]
    BY <2>1, Goes DEF WholeInv, Working
  <2>4. Call' = Call  BY <1>1 DEF Call
  <2>5. TypeOK'
    BY <1>1, <2>1, <2>2, <2>3, <2>4 DEF WholeInv, TypeOK, RecordType, history
  <2>6. MindHolds'
    BY <1>1, <1>2, <2>3 DEF MindHolds, Coming, Publishing, Working
  <2>7. SpentHolds'  BY <1>1 DEF WholeInv, SpentHolds, history
  <2>. QED  BY <2>2, <2>5, <2>6, <2>7 DEF WholeInv
<1>5. CASE record[s] # None
  <2>1. record' = record /\ To(Only, "fail") /\ UNCHANGED at
    <3>1. CASE record[s] = e
      <4>1. record' = [record EXCEPT ![s] = e] /\ To(Only, "fail") /\ UNCHANGED at
        BY <1>1, <3>1 DEF Writes
      <4>. HIDE DEF e
      <4>2. record' = record  BY <1>1, <1>5, <3>1, <4>1, RecordedBefore
      <4>. QED  BY <4>1, <4>2
    <3>2. CASE record[s] # e
      BY <1>1, <1>5, <3>2 DEF Writes
    <3>. QED  BY <3>1, <3>2
  <2>2. UNCHANGED <<saved, at, history>>  BY <1>1, <2>1 DEF saved
  <2>. QED  BY <1>2, <2>1, <2>2, Fails
<1>. QED  BY <1>4, <1>5

LEMMA RecordPublishKeeps == ASSUME WholeInv, RecordPublish(Only) PROVE WholeInv'
<1>. DEFINE e == Entry(Publish)
<1>. DEFINE s == Publish
<1>1. /\ Where = "publish" /\ Writes(Only, s, e, To(Only, "settle") /\ UNCHANGED at)
      /\ UNCHANGED <<attempt, failure, final, manifest, told, history>>
  BY DEF RecordPublish, Where
<1>2. /\ s = Here /\ Came(Here) /\ manifest = "prepared" /\ Where \in Working \ {"tell"}
      /\ Suits => final = {"midi", "xml"}
  BY <1>1 DEF WholeInv, MindHolds, Coming, Publishing, Working, Came
<1>3. s \in Listed /\ s \notin Call /\ s # Validation
  BY <1>2, HereIs, StepsAre DEF StepsKnown, WholeInv, CallOK
<1>4. e \in [status : {"completed", "failed"}, number : 0..limit] /\ e.status = "completed"
  <2>1. 0 \in 0..limit  BY HereIs DEF WholeInv
  <2>. QED  BY <1>3, <2>1 DEF Entry
<1>5. Backed(s)  BY <1>3 DEF Backed
<1>6. CASE record[s] \in {None, e}
  <2>1. record' = [record EXCEPT ![s] = e] /\ To(Only, "settle") /\ UNCHANGED at
    BY <1>1, <1>6 DEF Writes
  <2>. HIDE DEF e, s
  <2>2. /\ CallOK' /\ DiskHolds' /\ ManifestHolds' /\ record' \in RecordType /\ Grown
        /\ record'[Publish] # None
    <3>1. CASE record[s] = None
      <4>1. /\ CallOK' /\ DiskHolds' /\ ManifestHolds' /\ Grown
            /\ record' \in RecordType /\ Passed(s)'
        BY <1>1, <1>2, <1>3, <1>4, <1>5, <2>1, <3>1, Recorded
      <4>. QED  BY <4>1 DEF Passed, s
    <3>2. CASE record[s] # None
      <4>1. record[s] = e  BY <1>6, <3>2
      <4>2. record' = record  BY <1>1, <1>3, <2>1, <3>2, <4>1, RecordedBefore
      <4>3. record \in RecordType  BY DEF WholeInv, TypeOK, RecordType
      <4>4. CallOK' /\ DiskHolds' /\ ManifestHolds'
        BY <1>1, <4>2, DiskSame DEF WholeInv, history
      <4>5. Call' = Call  BY <1>1 DEF Call
      <4>. QED  BY <1>1, <3>2, <4>2, <4>3, <4>4, <4>5 DEF Grown, s
    <3>. QED  BY <3>1, <3>2
  <2>3. Where' = "settle" /\ pc' \in [Process -> {"idle", "returned"} \cup Working]
    BY <2>1, Goes DEF WholeInv, Working
  <2>4. Call' = Call /\ Suits' = Suits  BY <1>1 DEF Call, Suits
  <2>5. TypeOK'
    BY <1>1, <2>1, <2>2, <2>3, <2>4 DEF WholeInv, TypeOK, RecordType, history
  <2>6. Came(Here)' /\ Here' = Here
    BY <1>2, <2>1, <2>2, StillThrough DEF WholeInv
  <2>7. Through(Here)' /\ ~ FlawBefore(Here)' /\ Here' = Publish
    BY <1>2, <2>6 DEF Came, s
  <2>8. MindHolds'
    BY <1>1, <1>2, <2>2, <2>3, <2>4, <2>7 DEF MindHolds, Coming, Publishing, Working
  <2>9. SpentHolds'  BY <1>1 DEF WholeInv, SpentHolds, history
  <2>. QED  BY <2>2, <2>5, <2>8, <2>9 DEF WholeInv
<1>7. CASE record[s] \notin {None, e}
  <2>1. UNCHANGED <<saved, at, history>> /\ To(Only, "fail")
    BY <1>1, <1>7 DEF Writes, saved
  <2>. QED  BY <1>2, <2>1, Fails
<1>. QED  BY <1>6, <1>7

(* A step that leaves calls and records alone, and promotes only what      *)
(* suits.                                                                  *)
LEMMA DiskStays ==
  ASSUME CallOK, DiskHolds, UNCHANGED <<attempt, record, limit>>, manifest' # None,
         final' # {} => Suits
  PROVE  CallOK' /\ DiskHolds' /\ Grown /\ Call' = Call /\ CallNumber' = CallNumber /\ Suits' = Suits
<1>1. Call' = Call /\ CallNumber' = CallNumber  BY DEF Call, CallNumber
<1>2. CallOK'  BY <1>1 DEF CallOK
<1>3. Grown  BY <1>1 DEF Grown
<1>4. ASSUME NEW s \in Listed PROVE (Started(s)' => Came(s)') /\ RecordSays(s)'
  <2>1. Kept(s)  BY <1>3, GrownKeeps
  <2>2. Ordinal(s)' = Ordinal(s)  BY <1>1 DEF Ordinal
  <2>. QED
    BY <1>1, <2>1, <2>2 DEF DiskHolds, Started, RecordSays, Kept
<1>5. Suits' = Suits  BY <1>1 DEF Suits
<1>6. DiskHolds'  BY <1>1, <1>4, <1>5 DEF DiskHolds
<1>. QED  BY <1>1, <1>2, <1>3, <1>5, <1>6

LEMMA PromoteKeeps == ASSUME WholeInv, Promote(Only) PROVE WholeInv'
<1>. DEFINE w == IF Where = "midi" THEN "xml" ELSE "publish"
<1>1. /\ Where \in {"midi", "xml"} /\ final' = final \cup {Where} /\ To(Only, w)
      /\ UNCHANGED <<attempt, record, failure, manifest, told, at, history>>
  BY DEF Promote, Where
<1>2. /\ Where \in Working /\ w \in {"xml", "publish"} /\ w \in Working
      /\ w = "xml" => Where = "midi"
      /\ w = "publish" => Where = "xml"
  BY <1>1 DEF Working
<1>. HIDE DEF w
<1>3. /\ manifest = "prepared" /\ Came(Here) /\ Here = Publish /\ Suits
      /\ Where = "xml" => "midi" \in final
      /\ final \subseteq {"midi", "xml"}
  BY <1>1, <1>2 DEF WholeInv, MindHolds, Coming, Publishing, Came, TypeOK
<1>4. CallOK' /\ DiskHolds' /\ Grown /\ Call' = Call /\ CallNumber' = CallNumber /\ Suits' = Suits
  BY <1>1, <1>3, DiskStays, NoneAssumption DEF WholeInv, history
<1>5. Where' = w /\ pc' \in [Process -> {"idle", "returned"} \cup Working]
  BY <1>1, <1>2, Goes DEF WholeInv
<1>6. Came(Here)' /\ Here' = Here  BY <1>1, <1>3, <1>4, StillThrough DEF WholeInv
<1>7. Through(Here)' /\ ~ FlawBefore(Here)' /\ Here' = Publish  BY <1>3, <1>6 DEF Came
<1>8. TypeOK'  BY <1>1, <1>3, <1>4, <1>5 DEF WholeInv, TypeOK, history
<1>9. ManifestHolds'  BY <1>1, <1>3 DEF ManifestHolds, VerdictIsBacked
<1>10. w = "xml" => "midi" \in final'  BY <1>1, <1>2
<1>11. w = "publish" => final' = {"midi", "xml"}  BY <1>1, <1>2, <1>3
<1>12. MindHolds'
  BY <1>1, <1>2, <1>3, <1>4, <1>5, <1>7, <1>10, <1>11
  DEF MindHolds, Coming, Publishing, Working
<1>13. SpentHolds'  BY <1>1 DEF WholeInv, SpentHolds, history
<1>. QED  BY <1>4, <1>8, <1>9, <1>12, <1>13 DEF WholeInv

(* A piece that came this far and does not suit has a plain answer in it.  *)
LEMMA WholeWay ==
  ASSUME WholeInv, Through(Publish), record[Publish] # None
  PROVE  /\ \A c \in Call : attempt[c] \in {"good", "plain"}
         /\ \A i \in DOMAIN Order : record[Order[i]] # None
<1>1. /\ Publish \in Nat /\ \A r \in Listed : r \in Nat /\ (r < Publish \/ r = Publish)
  BY StepsAre DEF StepsKnown, Listed
<1>2. ASSUME NEW c \in Call PROVE attempt[c] \in {"good", "plain"}
  <2>1. c \in Listed /\ c < Publish /\ c \in {Harmony, Main, Transition} \cup BatchSteps \cup {Performance}
    BY StepsAre DEF WholeInv, CallOK, StepsKnown
  <2>2. Accepted(c)  BY <2>1 DEF Through, Passed
  <2>3. attempt[c] # "bad"
    <3>. SUFFICES ASSUME attempt[c] = "bad" PROVE FALSE  OBVIOUS
    <3>1. c \in {Main, Transition}  BY <2>2 DEF Accepted
    <3>2. Ending + 1 \in Listed /\ Ending + 1 < Publish
      BY StepsAre DEF StepsKnown, Listed
    <3>3. ~ FlawBefore(Ending + 1)  BY <3>2 DEF Through
    <3>. QED  BY <3>1, <3>3 DEF FlawBefore
  <2>4. attempt[c] # "weak"
    <3>. SUFFICES ASSUME attempt[c] = "weak" PROVE FALSE  OBVIOUS
    <3>1. c \in BatchSteps \cup {Performance}  BY DEF WholeInv, CallOK
    <3>2. CASE c \in BatchSteps
      <4>1. Performance \in Listed /\ Performance < Publish
        BY StepsAre DEF StepsKnown, Listed
      <4>2. ~ FlawBefore(Performance)  BY <4>1 DEF Through
      <4>. QED  BY <3>2, <4>2 DEF FlawBefore
    <3>3. CASE c = Performance
      <4>1. Validation \in Listed /\ Validation < Publish
        BY StepsAre DEF StepsKnown, Listed
      <4>. QED  BY <3>3, <4>1 DEF Through, Passed
    <3>. QED  BY <3>1, <3>2, <3>3
  <2>. QED  BY <2>2, <2>3, <2>4 DEF Accepted
<1>3. ASSUME NEW i \in DOMAIN Order PROVE record[Order[i]] # None
  <2>1. Order[i] \in Listed  BY OrderIs DEF OrderKnown
  <2>. QED  BY <1>1, <2>1 DEF Through, Passed
<1>. QED  BY <1>2, <1>3

LEMMA SettleKeeps == ASSUME WholeInv, Settle(Only) PROVE WholeInv'
<1>1. /\ Where = "settle" /\ manifest' = IF Suits THEN "fit" ELSE "unfit"
      /\ To(Only, "tell")
      /\ UNCHANGED <<attempt, record, failure, final, told, at, history>>
  BY DEF Settle, Where
<1>2. manifest' \in {"fit", "unfit"} /\ (manifest' = "fit" => Suits) /\ (manifest' = "unfit" => ~ Suits)
  BY <1>1
<1>3. /\ Through(Publish) /\ record[Publish] # None /\ (Suits => final = {"midi", "xml"})
      /\ ~ Suits => final = {}
  BY <1>1 DEF WholeInv, MindHolds, Coming, Publishing, Working, DiskHolds
<1>4. manifest' # None  BY <1>2, NoneAssumption DEF Settled
<1>5. CallOK' /\ DiskHolds' /\ Grown /\ Call' = Call /\ CallNumber' = CallNumber /\ Suits' = Suits
  BY <1>1, <1>3, <1>4, DiskStays DEF WholeInv, history
<1>6. Where' = "tell" /\ pc' \in [Process -> {"idle", "returned"} \cup Working]
  BY <1>1, Goes DEF WholeInv, Working
<1>7. TypeOK'  BY <1>1, <1>2, <1>5, <1>6 DEF WholeInv, TypeOK, history, Settled
<1>8. ManifestHolds'
  <2>1. /\ \A c \in Call : attempt[c] \in {"good", "plain"}
        /\ \A i \in DOMAIN Order : record[Order[i]] # None
    BY <1>3, WholeWay
  <2>2. ~ Suits => \E c \in Call : attempt[c] = "plain"  BY <2>1 DEF Suits
  <2>. QED
    BY <1>1, <1>2, <1>3, <1>5, <2>1, <2>2 DEF ManifestHolds, VerdictIsBacked, Suits
<1>9. MindHolds'  BY <1>2, <1>6 DEF MindHolds, Coming, Publishing, Working, Settled
<1>10. SpentHolds'  BY <1>1 DEF WholeInv, SpentHolds, history
<1>. QED  BY <1>5, <1>7, <1>8, <1>9, <1>10 DEF WholeInv

LEMMA TellKeeps == ASSUME WholeInv, Tell(Only) PROVE WholeInv'
<1>1. /\ Where = "tell" /\ told' = TRUE /\ To(Only, "returned")
      /\ UNCHANGED <<attempt, record, failure, final, manifest, at, history>>
  BY DEF Tell, Where
<1>2. CallOK' /\ DiskHolds' /\ ManifestHolds'
  BY <1>1, DiskSame DEF WholeInv, history
<1>3. Where' = "returned" /\ pc' \in [Process -> {"idle", "returned"} \cup Working]
  BY <1>1, Goes DEF WholeInv
<1>4. Call' = Call /\ manifest \in Settled  BY <1>1 DEF Call, WholeInv, MindHolds
<1>5. TypeOK'  BY <1>1, <1>3, <1>4 DEF WholeInv, TypeOK, history
<1>6. MindHolds'  BY <1>1, <1>3, <1>4 DEF MindHolds, Coming, Publishing, Working
<1>7. SpentHolds'  BY <1>1 DEF WholeInv, SpentHolds, history
<1>. QED  BY <1>2, <1>5, <1>6, <1>7 DEF WholeInv

LEMMA RecordFailureKeeps == ASSUME WholeInv, RecordFailure(Only) PROVE WholeInv'
<1>1. /\ Where = "fail" /\ failure' = TRUE /\ To(Only, "give up")
      /\ UNCHANGED <<attempt, record, final, manifest, told, at, history>>
  BY DEF RecordFailure, Where
<1>2. CallOK' /\ DiskHolds' /\ ManifestHolds'
  BY <1>1, DiskSame DEF WholeInv, history
<1>3. Where' = "give up" /\ pc' \in [Process -> {"idle", "returned"} \cup Working]
  BY <1>1, Goes DEF WholeInv, Working
<1>4. manifest = "prepared"  BY <1>1 DEF WholeInv, MindHolds, Working
<1>5. Call' = Call /\ CallNumber' = CallNumber /\ FirstCall' = FirstCall
  BY <1>1 DEF Call, CallNumber, FirstCall
<1>6. TypeOK'  BY <1>1, <1>3, <1>5 DEF WholeInv, TypeOK, history
<1>7. MindHolds'  BY <1>1, <1>3, <1>4 DEF MindHolds, Coming, Publishing, Working
<1>8. SpentHolds'
  BY <1>1, <1>3, <1>5 DEF WholeInv, SpentHolds, Passed, Accepted, history
<1>. QED  BY <1>2, <1>6, <1>7, <1>8 DEF WholeInv

LEMMA GiveUpKeeps == ASSUME WholeInv, GiveUp(Only) PROVE WholeInv'
<1>1. /\ Where = "give up" /\ manifest' = "failed" /\ told' = TRUE /\ To(Only, "returned")
      /\ UNCHANGED <<attempt, record, failure, final, at, history>>
  BY DEF GiveUp, Where
<1>2. CallOK' /\ DiskHolds' /\ Grown /\ Call' = Call /\ CallNumber' = CallNumber
  BY <1>1, DiskStays, NoneAssumption DEF WholeInv, DiskHolds, Settled, history
<1>3. Where' = "returned" /\ pc' \in [Process -> {"idle", "returned"} \cup Working]
  BY <1>1, Goes DEF WholeInv
<1>4. FirstCall' = FirstCall  BY <1>2 DEF FirstCall
<1>5. TypeOK'  BY <1>1, <1>2, <1>3 DEF WholeInv, TypeOK, history, Settled
<1>6. MindHolds'  BY <1>1, <1>3 DEF MindHolds, Coming, Publishing, Working, Settled
<1>7. SpentHolds'
  BY <1>1, <1>2, <1>3, <1>4 DEF WholeInv, SpentHolds, Passed, Accepted, history
<1>8. ManifestHolds'  BY <1>1 DEF ManifestHolds, VerdictIsBacked
<1>. QED  BY <1>2, <1>5, <1>6, <1>7, <1>8 DEF WholeInv

LEMMA WorkKeeps == ASSUME WholeInv, Work(Only) PROVE WholeInv'
BY FoundFlawKeeps, NoCallKeeps, ReserveKeeps, CallEndsKeeps, RecoverKeeps, UseAnswerKeeps,
   RecordStepKeeps, RefuseKeeps, EvaluateKeeps, PromoteKeeps, RecordPublishKeeps, SettleKeeps,
   TellKeeps, RecordFailureKeeps, GiveUpKeeps
DEF Work

(* The manifest is prepared when nothing runs and nothing was settled.     *)
LEMMA PreparedKeeps ==
  ASSUME WholeInv, Where = "idle", manifest' = "prepared", told' = FALSE,
         prepares' \in 0..MaxPrepares,
         UNCHANGED <<attempt, record, failure, final, pc, at, spent, stops, limit>>
  PROVE  WholeInv'
<1>1. CallOK' /\ DiskHolds' /\ Grown /\ Call' = Call /\ CallNumber' = CallNumber
  BY DiskStays, NoneAssumption DEF WholeInv, DiskHolds
<1>2. Where' = Where /\ FirstCall' = FirstCall  BY <1>1 DEF Where, FirstCall
<1>3. TypeOK'  BY <1>1 DEF WholeInv, TypeOK
<1>4. MindHolds'  BY <1>2 DEF MindHolds, Coming, Publishing, Working
<1>5. SpentHolds'  BY <1>1, <1>2 DEF WholeInv, SpentHolds, Passed, Accepted
<1>6. ManifestHolds'  BY DEF ManifestHolds, VerdictIsBacked
<1>. QED  BY <1>1, <1>3, <1>4, <1>5, <1>6 DEF WholeInv

-----------------------------------------------------------------------------
(* What a step of the inner run does to what the outer run looks at.       *)
LEMMA WorkSettles ==
  ASSUME WholeInv, Work(Only)
  PROVE  /\ Where \in Working
         /\ manifest' = manifest \/ (manifest = "prepared" /\ manifest' \in Settled)
         /\ manifest \in {"prepared"} \cup Settled
         /\ manifest \in Settled => UNCHANGED settled
         /\ prepares' = prepares /\ stops' = stops /\ limit' = limit
<1>1. Where \in Working
  BY DEF Work, FoundFlaw, NoCall, Reserve, CallEnds, Recover, UseAnswer, RecordStep, Refuse,
         Evaluate, Promote, RecordPublish, Settle, Tell, RecordFailure, GiveUp, MayCall,
         Where, Working
<1>2. prepares' = prepares /\ stops' = stops /\ limit' = limit
  BY DEF Work, FoundFlaw, NoCall, Reserve, CallEnds, Recover, UseAnswer, RecordStep, Refuse,
         Evaluate, Promote, RecordPublish, Settle, Tell, RecordFailure, GiveUp, history
<1>3. CASE Where = "tell"
  <2>1. Tell(Only)
    BY <1>3 DEF Work, FoundFlaw, NoCall, Reserve, CallEnds, Recover, UseAnswer, RecordStep, Refuse,
         Evaluate, Promote, RecordPublish, Settle, RecordFailure, GiveUp, MayCall, Where
  <2>2. UNCHANGED settled  BY <2>1 DEF Tell, settled
  <2>3. manifest \in Settled  BY <1>3 DEF WholeInv, MindHolds
  <2>. QED  BY <1>1, <1>2, <2>2, <2>3 DEF settled
<1>4. CASE Where # "tell"
  <2>1. manifest = "prepared" /\ manifest \notin Settled
    BY <1>1, <1>4 DEF WholeInv, MindHolds, Settled
  <2>2. manifest' = manifest \/ manifest' \in Settled
    BY DEF Work, FoundFlaw, NoCall, Reserve, CallEnds, Recover, UseAnswer, RecordStep, Refuse,
         Evaluate, Promote, RecordPublish, Settle, Tell, RecordFailure, GiveUp, saved, Settled
  <2>. QED  BY <1>1, <1>2, <2>1, <2>2
<1>. QED  BY <1>3, <1>4

LEMMA WorkNumber == ASSUME WholeInv PROVE CallNumber \in 0..limit /\ PlanCalls \in 0..1
BY NumberIs, HereIs DEF WholeInv, DiskHolds, PlanCalls

-----------------------------------------------------------------------------
(* The outer run.                                                          *)
OuterKnows == WholeInv /\ OuterTypeOK /\ OuterHolds

LEMMA AllSame ==
  ASSUME WholeInv, UNCHANGED vars
  PROVE  /\ WholeInv' /\ Call' = Call /\ CallNumber' = CallNumber /\ Where' = Where
         /\ NotBegun' = NotBegun
<1>1. Where' = Where /\ Call' = Call /\ CallNumber' = CallNumber
  BY DEF Where, Call, CallNumber, vars, saved
<1>2. Here' = Here /\ FirstCall' = FirstCall /\ Suits' = Suits
  BY <1>1 DEF Here, Step, FirstCall, Suits, vars, saved
<1>3. CallOK' /\ DiskHolds' /\ ManifestHolds'
  BY DiskSame DEF WholeInv, vars, saved, history
<1>4. TypeOK'  BY <1>1 DEF WholeInv, TypeOK, vars, saved, history
<1>5. SpentHolds'
  BY <1>1, <1>2 DEF WholeInv, SpentHolds, Passed, Accepted, vars, saved, history
<1>6. MindHolds'
  BY <1>1, <1>2, SavedSame DEF WholeInv, MindHolds, Coming, Publishing, vars, saved
<1>. QED  BY <1>1, <1>3, <1>4, <1>5, <1>6 DEF WholeInv, NotBegun, vars, saved

(* A step of the outer run alone, with the inner run at rest.              *)
LEMMA RunKeeps == ASSUME OuterKnows, Run PROVE OuterKnows'
<1>1. WholeInv /\ UNCHANGED <<vars, plan, reported>> /\ step \in {"idle", "done"}
  BY DEF OuterKnows, Run
<1>2. WholeInv' /\ Call' = Call /\ CallNumber' = CallNumber /\ Where' = Where /\ NotBegun' = NotBegun
  BY <1>1, AllSame
<1>3. PlanCalls' = PlanCalls /\ manifest' = manifest /\ limit' = limit
  BY <1>1 DEF PlanCalls, vars, saved, history
<1>4. CASE outer = None
  <2>1. outer' = "prepared" /\ step' = "plan"  BY <1>4 DEF Run
  <2>. QED
    BY <1>1, <1>2, <1>3, <1>4, <2>1, NoneAssumption
    DEF OuterKnows, OuterTypeOK, OuterHolds, OuterWorking, WholeInv, Settled, CallEnd
<1>5. CASE outer # None
  <2>1. /\ outer' = outer
        /\ step' = IF outer = "prepared" THEN "plan"
                   ELSE IF outer = "whole prepared" THEN "whole" ELSE "done"
    BY <1>5 DEF Run
  <2>2. outer \in {"prepared", "whole prepared"} \cup Settled
    BY <1>5 DEF OuterKnows, OuterTypeOK
  <2>3. ReportAgrees' = ReportAgrees
    BY <1>1, <1>2, <1>3, <2>1 DEF ReportAgrees, GivenUp, Carried
  <2>4. CASE outer = "prepared"
    BY <1>1, <1>2, <1>3, <2>1, <2>4, NoneAssumption
    DEF OuterKnows, OuterTypeOK, OuterHolds, OuterWorking, WholeInv, Settled
  <2>5. CASE outer = "whole prepared"
    BY <1>1, <1>2, <1>3, <2>1, <2>5, NoneAssumption
    DEF OuterKnows, OuterTypeOK, OuterHolds, OuterWorking, WholeInv, Settled
  <2>6. CASE outer \in Settled
    <3>1. step' = "done"  BY <2>1, <2>6 DEF Settled
    <3>. QED
      BY <1>1, <1>2, <1>3, <2>1, <2>3, <2>6, <3>1, NoneAssumption
      DEF OuterKnows, OuterTypeOK, OuterHolds, OuterWorking, WholeInv, Settled
  <2>. QED  BY <2>2, <2>4, <2>5, <2>6
<1>. QED  BY <1>4, <1>5

LEMMA PlanKeeps ==
  ASSUME OuterKnows, AskPlan \/ PlanEnds \/ RecordPlan \/ UsePlan
  PROVE  OuterKnows'
<1>1. /\ WholeInv /\ UNCHANGED <<vars, outer, reported>> /\ step = "plan"
  BY DEF OuterKnows, OuterHolds, AskPlan, PlanEnds, RecordPlan, UsePlan
<1>2. WholeInv' /\ Call' = Call /\ CallNumber' = CallNumber /\ Where' = Where /\ NotBegun' = NotBegun
  BY <1>1, AllSame
<1>3. manifest' = manifest /\ limit' = limit
  BY <1>1 DEF vars, saved, history
<1>4. /\ plan' \in {None, "open", "written", "recorded", "dead"}
      /\ step' \in {"plan", "prepare", "lost"}
      /\ step' = "prepare" => plan' = "recorded"
      /\ step' = "lost" => plan' = "dead"
      /\ plan' # "recorded" => plan # "recorded"
  BY NoneAssumption DEF AskPlan, PlanEnds, RecordPlan, UsePlan
<1>5. outer = "prepared" /\ outer' = "prepared"  BY <1>1 DEF OuterKnows, OuterHolds
<1>. QED
  BY <1>1, <1>2, <1>3, <1>4, <1>5, NoneAssumption
  DEF OuterKnows, OuterTypeOK, OuterHolds, OuterWorking, WholeInv, Settled

LEMMA PrepareWholeKeeps == ASSUME OuterKnows, PrepareWhole PROVE OuterKnows'
<1>1. /\ WholeInv /\ step = "prepare" /\ outer = "prepared" /\ plan = "recorded" /\ NotBegun
      /\ UNCHANGED <<attempt, record, failure, final, pc, at, history, plan, outer, reported>>
      /\ manifest \in {None, "prepared"}
      /\ step' \in {"hand over", "lost"}
      /\ \/ manifest' = "prepared" /\ told' = FALSE
         \/ UNCHANGED <<manifest, told>> /\ step' = "lost"
  BY DEF OuterKnows, OuterHolds, PrepareWhole
<1>2. UNCHANGED <<prepares, spent, stops, limit>>  BY <1>1 DEF history
<1>3. Where = "idle" /\ prepares' \in 0..MaxPrepares
  BY <1>1, <1>2 DEF NotBegun, WholeInv, TypeOK
<1>4. WholeInv'
  <2>1. CASE manifest' = "prepared" /\ told' = FALSE
    BY <1>1, <1>2, <1>3, <2>1, PreparedKeeps
  <2>2. CASE UNCHANGED <<manifest, told>>
    <3>1. UNCHANGED vars  BY <1>1, <2>2 DEF vars, saved
    <3>. QED  BY <1>1, <3>1, AllSame
  <2>. QED  BY <1>1, <2>1, <2>2
<1>5. Where' = Where /\ NotBegun' = NotBegun  BY <1>1 DEF Where, NotBegun, Call
<1>. QED
  BY <1>1, <1>2, <1>3, <1>4, <1>5, NoneAssumption
  DEF OuterKnows, OuterTypeOK, OuterHolds, OuterWorking, WholeInv, Settled

LEMMA CountReported ==
  ASSUME OuterTypeOK, limit \in Nat, NEW n \in 0..1,
         reported' = [reported EXCEPT !.calls = n]
  PROVE  /\ reported' \in [calls : 0..(limit + 1), status : {None} \cup Settled, smf : BOOLEAN]
         /\ reported'.calls = n
<1>1. n \in 0..(limit + 1)  OBVIOUS
<1>. QED  BY <1>1 DEF OuterTypeOK

LEMMA HandOverKeeps == ASSUME OuterKnows, HandOver PROVE OuterKnows'
<1>1. /\ WholeInv /\ step = "hand over" /\ plan = "recorded" /\ manifest = "prepared"
      /\ outer' = "whole prepared" /\ reported' = [reported EXCEPT !.calls = PlanCalls]
      /\ step' = "whole" /\ UNCHANGED <<vars, plan>>
  BY DEF OuterKnows, OuterHolds, HandOver
<1>2. WholeInv' /\ Where' = Where  BY <1>1, AllSame
<1>3. manifest' = manifest /\ limit' = limit  BY <1>1 DEF vars, saved, history
<1>4. reported' \in [calls : 0..(limit + 1), status : {None} \cup Settled, smf : BOOLEAN]
  BY <1>1, WorkNumber, HereIs, CountReported DEF WholeInv, OuterKnows
<1>. QED
  BY <1>1, <1>2, <1>3, <1>4, NoneAssumption
  DEF OuterKnows, OuterTypeOK, OuterHolds, OuterWorking, WholeInv, Settled

LEMMA NoneAsked ==
  ASSUME CallOK, \A s \in Call : attempt[s] = None
  PROVE  CallNumber = 0
<1>1. Asked = {}  BY DEF Asked
<1>. QED  BY <1>1, NumberIs, FS_EmptySet

LEMMA LosePlanKeeps == ASSUME OuterKnows, LosePlan PROVE OuterKnows'
<1>1. /\ WholeInv /\ step = "lost" /\ NotBegun
      /\ manifest \in {None, "prepared"} /\ (manifest # None => plan = "recorded")
      /\ reported.status = None
      /\ outer' = "failed" /\ reported' = [reported EXCEPT !.calls = PlanCalls]
      /\ step' = "done" /\ UNCHANGED <<vars, plan>>
  BY NoneAssumption DEF OuterKnows, OuterHolds, LosePlan
<1>2. WholeInv' /\ Where' = Where /\ CallNumber' = CallNumber  BY <1>1, AllSame
<1>3. manifest' = manifest /\ limit' = limit  BY <1>1 DEF vars, saved, history
<1>4. CallNumber = 0  BY <1>1, NoneAsked DEF NotBegun, WholeInv
<1>5. PlanCalls \in 0..1 /\ limit \in Nat  BY <1>1, WorkNumber, HereIs DEF WholeInv
<1>6. /\ reported'.calls = PlanCalls
      /\ reported' \in [calls : 0..(limit + 1), status : {None} \cup Settled, smf : BOOLEAN]
  BY <1>1, <1>5, CountReported DEF OuterKnows
<1>7. /\ PlanCalls' = PlanCalls
      /\ reported'.status = None
  BY <1>1 DEF PlanCalls, OuterKnows, OuterTypeOK
<1>8. ReportAgrees'
  BY <1>1, <1>2, <1>3, <1>4, <1>5, <1>6, <1>7 DEF ReportAgrees, GivenUp, Carried
<1>. QED
  BY <1>1, <1>2, <1>3, <1>6, <1>8, NoneAssumption
  DEF OuterKnows, OuterTypeOK, OuterHolds, OuterWorking, WholeInv, Settled, NotBegun

(* While the inner run is at work, and when it is stopped.                 *)
LEMMA WholeMoves ==
  ASSUME OuterKnows, WholeInv', outer = "whole prepared", UNCHANGED <<plan, outer, reported>>,
         limit' = limit, manifest' \in {"prepared"} \cup Settled,
         step' \in {"idle", "whole", "report"},
         step' # "whole" => Where' = "idle",
         step' = "report" => manifest' \in Settled
  PROVE  OuterKnows'
BY NoneAssumption
DEF OuterKnows, OuterTypeOK, OuterHolds, OuterWorking, WholeInv, Settled

LEMMA StopOuterKeeps == ASSUME OuterKnows, StopOuter PROVE OuterKnows'
<1>1. /\ WholeInv /\ step \in OuterWorking /\ step' = "idle" /\ To(Only, "idle")
      /\ stops' \in 0..MaxStops /\ spent' = CallNumber
      /\ UNCHANGED <<saved, at, prepares, limit, plan, outer, reported>>
  BY SizeAssumption DEF StopOuter, To, OuterKnows, WholeInv, TypeOK
<1>2. WholeInv'  BY <1>1, StopsHere
<1>3. Where' = "idle"  BY <1>1, Goes DEF WholeInv
<1>4. /\ manifest' = manifest /\ Call' = Call /\ CallNumber' = CallNumber /\ limit' = limit
      /\ attempt' = attempt
  BY <1>1 DEF saved, Call, CallNumber
<1>5. outer \in {"prepared", "whole prepared"}
  BY <1>1 DEF OuterKnows, OuterHolds, OuterWorking
<1>6. CASE outer = "prepared"
  BY <1>1, <1>2, <1>3, <1>4, <1>6, NoneAssumption
  DEF OuterKnows, OuterTypeOK, OuterHolds, OuterWorking, WholeInv, Settled, NotBegun
<1>7. CASE outer = "whole prepared"
  <2>1. manifest \in {"prepared"} \cup Settled  BY <1>7 DEF OuterKnows, OuterHolds
  <2>. QED  BY <1>1, <1>2, <1>3, <1>4, <1>7, <2>1, WholeMoves
<1>. QED  BY <1>5, <1>6, <1>7

LEMMA StartWholeKeeps == ASSUME OuterKnows, StartWhole PROVE OuterKnows'
<1>1. /\ WholeInv /\ step = "whole" /\ outer = "whole prepared" /\ Execute(Only)
      /\ manifest \in {"prepared"} \cup Settled /\ UNCHANGED outerVars
  BY DEF OuterKnows, OuterHolds, StartWhole
<1>2. WholeInv'  BY <1>1, ExecuteKeeps
<1>3. manifest' = manifest /\ limit' = limit  BY <1>1 DEF Execute, saved, history
<1>. QED  BY <1>1, <1>2, <1>3, WholeMoves DEF outerVars

LEMMA WorkWholeKeeps == ASSUME OuterKnows, WorkWhole PROVE OuterKnows'
<1>1. /\ WholeInv /\ step = "whole" /\ outer = "whole prepared" /\ Work(Only)
      /\ UNCHANGED outerVars
  BY DEF OuterKnows, OuterHolds, WorkWhole
<1>2. WholeInv'  BY <1>1, WorkKeeps
<1>3. manifest' \in {"prepared"} \cup Settled /\ limit' = limit
  BY <1>1, WorkSettles
<1>. QED  BY <1>1, <1>2, <1>3, WholeMoves DEF outerVars

LEMMA ReturnedKeeps == ASSUME OuterKnows, Returned PROVE OuterKnows'
<1>1. /\ WholeInv /\ Where = "returned" /\ outer = "whole prepared" /\ To(Only, "idle")
      /\ step' = "report" /\ UNCHANGED <<saved, at, history, plan, outer, reported>>
  BY DEF OuterKnows, OuterHolds, Returned, To, Where
<1>2. manifest \in Settled  BY <1>1 DEF WholeInv, MindHolds
<1>3. Where' = "idle"  BY <1>1, Goes DEF WholeInv
<1>4. manifest' = manifest /\ limit' = limit  BY <1>1 DEF saved, history
<1>5. MindHolds'  BY <1>3 DEF MindHolds, Coming, Publishing, Working
<1>6. SpentHolds'
  BY <1>1, <1>3, SavedSame DEF WholeInv, SpentHolds, saved, history
<1>7. at' \in [Process -> 1..Len(Order)]  BY <1>1 DEF WholeInv, TypeOK
<1>8. WholeInv'  BY <1>1, <1>5, <1>6, <1>7, Moves
<1>. QED  BY <1>1, <1>2, <1>3, <1>4, <1>8, WholeMoves

LEMMA ReportKeeps == ASSUME OuterKnows, Report PROVE OuterKnows'
<1>1. /\ WholeInv /\ step = "report" /\ outer = "whole prepared" /\ plan = "recorded"
      /\ manifest \in Settled /\ Where = "idle"
      /\ outer' = manifest
      /\ reported' = [calls |-> PlanCalls + CallNumber, status |-> manifest,
                      smf |-> "midi" \in final]
      /\ step' = "done" /\ UNCHANGED <<vars, plan>>
  BY DEF OuterKnows, OuterHolds, Report
<1>2. WholeInv' /\ Where' = Where /\ CallNumber' = CallNumber  BY <1>1, AllSame
<1>3. manifest' = manifest /\ limit' = limit /\ PlanCalls' = PlanCalls /\ plan' = plan
  BY <1>1 DEF vars, saved, history, PlanCalls
<1>4. PlanCalls \in 0..1 /\ CallNumber \in 0..limit /\ limit \in Nat
  BY <1>1, WorkNumber, HereIs DEF WholeInv
<1>5. reported' \in [calls : 0..(limit + 1), status : {None} \cup Settled, smf : BOOLEAN]
  <2>1. PlanCalls + CallNumber \in 0..(limit + 1)  BY <1>4
  <2>2. ("midi" \in final) \in BOOLEAN  OBVIOUS
  <2>. QED  BY <1>1, <2>1, <2>2
<1>6. manifest = "fit" => "midi" \in final
  BY DEF OuterKnows, WholeInv, ManifestHolds, VerdictIsBacked
<1>7. ReportAgrees'
  BY <1>1, <1>2, <1>3, <1>6 DEF ReportAgrees, GivenUp, Carried
<1>. QED
  BY <1>1, <1>2, <1>3, <1>5, <1>7, NoneAssumption
  DEF OuterKnows, OuterTypeOK, OuterHolds, OuterWorking, WholeInv, Settled

LEMMA OuterKeeps == ASSUME OuterKnows, OuterNext PROVE OuterKnows'
BY RunKeeps, StopOuterKeeps, PlanKeeps, PrepareWholeKeeps, HandOverKeeps, LosePlanKeeps,
   StartWholeKeeps, WorkWholeKeeps, ReturnedKeeps, ReportKeeps
DEF OuterNext, OuterWork

-----------------------------------------------------------------------------
(* A prepared run, and how both begin.                                     *)
LEMMA ProcessIs == \A p \in Process : p = Only
BY OnceAssumption

LEMMA PreparedRunKeeps ==
  ASSUME WholeInv, OuterInv, running = "prepared", RunPrepared
  PROVE  WholeInv' /\ OuterInv'
<1>1. /\ Next /\ UNCHANGED <<plan, outer, reported, step, running>> /\ outer = None
      /\ manifest # None => prepares = 1
  BY DEF RunPrepared, OuterInv, outerVars
<1>2. WholeInv' /\ limit' = limit /\ (manifest' # None => prepares' = 1)
  <2>1. CASE Prepare
    <3>1. /\ prepares < MaxPrepares /\ prepares' = prepares + 1 /\ manifest' = "prepared"
          /\ told' = FALSE
          /\ UNCHANGED <<attempt, record, failure, final, pc, at, spent, stops, limit>>
      BY <2>1 DEF Prepare
    <3>2. prepares = 0 /\ prepares' = 1 /\ prepares' \in 0..MaxPrepares
      BY <3>1, SizeAssumption, OnceAssumption DEF WholeInv, TypeOK
    <3>3. manifest = None  BY <1>1, <3>2
    <3>4. Where = "idle"
      BY <3>3, HereIs, NoneAssumption DEF WholeInv, MindHolds, Working, Settled
    <3>. QED  BY <3>1, <3>2, <3>4, PreparedKeeps
  <2>2. CASE Execute(Only)
    <3>1. WholeInv'  BY <2>2, ExecuteKeeps
    <3>. QED  BY <1>1, <2>2, <3>1 DEF Execute, saved, history
  <2>3. CASE Stop(Only)
    <3>1. WholeInv'  BY <2>3, StopKeeps
    <3>. QED  BY <1>1, <2>3, <3>1 DEF Stop, saved
  <2>4. CASE Work(Only)
    <3>1. WholeInv'  BY <2>4, WorkKeeps
    <3>2. manifest # None /\ prepares' = prepares /\ limit' = limit
      BY <2>4, WorkSettles, NoneAssumption
    <3>. QED  BY <1>1, <3>1, <3>2
  <2>. QED  BY <1>1, <2>1, <2>2, <2>3, <2>4, ProcessIs DEF Next
<1>3. OuterTypeOK'  BY <1>1, <1>2 DEF OuterInv, OuterTypeOK, WholeInv
<1>4. running' = "prepared"  BY <1>1
<1>. QED  BY <1>1, <1>2, <1>3, <1>4 DEF OuterInv

LEMMA BeginsWhole == ASSUME Init PROVE WholeInv /\ Where = "idle" /\ manifest = None /\ prepares = 0
<1>1. PICK given \in Given : attempt = [s \in CallsWithout(given) |-> None]
  BY DEF Init
<1>2. Call = CallsWithout(given) /\ \A s \in Call : attempt[s] = None
  BY <1>1 DEF Call
<1>3. /\ record = [s \in 1..Publish |-> None]
      /\ failure = FALSE /\ final = {} /\ manifest = None /\ told = FALSE
      /\ pc = [p \in Process |-> "idle"] /\ at = [p \in Process |-> 1]
      /\ spent = 0 /\ prepares = 0 /\ stops = 0 /\ limit \in Limits
  BY DEF Init
<1>4. Where = "idle"  BY <1>3, OnceAssumption DEF Where
<1>5. /\ Call \subseteq {Harmony, Main, Transition} \cup BatchSteps \cup {Performance}
      /\ Main \in Call /\ Performance \in Call
      /\ Transition \in Call => Transitions
  <2>1. Transition # Harmony /\ Transition # Main /\ Transition # Performance
        /\ Transition \notin BatchSteps
    BY StepsAre DEF StepsKnown
  <2>. QED  BY <1>2, <2>1 DEF CallsWithout
<1>6. Call \subseteq Listed
  BY <1>5, StepsAre DEF StepsKnown, Listed
<1>7. CallOK
  <2>1. attempt \in [Call -> {None, "open"} \cup CallEnd]  BY <1>1, <1>2
  <2>2. \A s \in Call : attempt[s] # "weak"  BY <1>2, NoneAssumption DEF CallEnd
  <2>. QED  BY <1>5, <1>6, <2>1, <2>2 DEF CallOK
<1>8. limit \in Nat /\ 0 \in 0..limit  BY <1>3, SizeAssumption
<1>9. CallNumber = 0  BY <1>2, <1>7, NoneAsked
<1>10. TypeOK
  <2>1. 1 \in 1..Len(Order)  BY OrderIs DEF OrderKnown
  <2>2. 0 \in 0..MaxPrepares /\ 0 \in 0..MaxStops  BY SizeAssumption, OnceAssumption
  <2>. QED  BY <1>2, <1>3, <1>8, <2>1, <2>2 DEF TypeOK
<1>11. DiskHolds
  <2>1. \A s \in Listed : record[s] = None  BY <1>3 DEF Listed
  <2>2. \A s \in Listed : ~ Started(s) /\ RecordSays(s)
    BY <1>2, <2>1 DEF Started, RecordSays
  <2>3. final = {} /\ CallNumber <= limit  BY <1>3, <1>8, <1>9
  <2>. QED  BY <1>2, <2>2, <2>3 DEF DiskHolds
<1>12. ManifestHolds  BY <1>3, NoneAssumption DEF ManifestHolds, VerdictIsBacked, Settled
<1>13. MindHolds  BY <1>4 DEF MindHolds, Coming, Publishing, Working
<1>14. SpentHolds
  <2>1. ~ (spent >= 2)  BY <1>3
  <2>. QED  BY <2>1 DEF SpentHolds
<1>. QED  BY <1>3, <1>4, <1>7, <1>10, <1>11, <1>12, <1>13, <1>14 DEF WholeInv

LEMMA RunBegins == RunInit => RunInv
<1>. SUFFICES ASSUME RunInit PROVE RunInv  OBVIOUS
<1>1. /\ Init /\ plan = None /\ outer = None /\ reported = Nothing /\ step = "idle"
      /\ running \in {"supported", "prepared", "score"}
  BY DEF RunInit, OuterInit
<1>2. WholeInv /\ Where = "idle" /\ manifest = None /\ prepares = 0  BY <1>1, BeginsWhole
<1>3. OuterTypeOK
  <2>1. 0 \in 0..(limit + 1)  BY <1>2, HereIs DEF WholeInv
  <2>. QED  BY <1>1, <1>2, <2>1 DEF OuterTypeOK, WholeInv, Nothing
<1>4. \A s \in Call : attempt[s] = None  BY <1>2 DEF WholeInv, DiskHolds
<1>5. OuterHolds
  <2>1. reported.status = None  BY <1>1 DEF Nothing
  <2>. QED
    BY <1>1, <1>2, <1>4, <2>1, NoneAssumption DEF OuterHolds, NotBegun, OuterWorking, Settled
<1>. QED  BY <1>1, <1>2, <1>3, <1>5 DEF RunInv, OuterInv

(* While materials are added to a score, nothing else happens.             *)
LEMMA RunSteps ==
  [RunNext]_runVars => RunSupported \/ RunPrepared \/ UNCHANGED <<allVars, running>>
BY DEF RunNext, AddToScore, ScoreIsFull, runVars

LEMMA RunGoesOn == RunInv /\ [RunNext]_runVars => RunInv'
<1>. SUFFICES ASSUME RunInv, [RunNext]_runVars PROVE RunInv'  OBVIOUS
<1>1. CASE RunSupported
  <2>1. OuterKnows /\ OuterNext /\ running = "supported" /\ running' = "supported"
    BY <1>1 DEF RunSupported, RunInv, OuterInv, OuterKnows
  <2>2. OuterKnows'  BY <2>1, OuterKeeps
  <2>. QED  BY <2>1, <2>2 DEF RunInv, OuterInv, OuterKnows
<1>2. CASE RunPrepared
  BY <1>2, PreparedRunKeeps DEF RunPrepared, RunInv, OuterInv
<1>3. CASE UNCHANGED <<allVars, running>>
  <2>1. UNCHANGED vars /\ UNCHANGED <<plan, outer, reported, step, running>>
    BY <1>3 DEF allVars, outerVars
  <2>2. /\ WholeInv' /\ Call' = Call /\ CallNumber' = CallNumber /\ Where' = Where
        /\ NotBegun' = NotBegun
    BY <2>1, AllSame DEF RunInv
  <2>3. manifest' = manifest /\ prepares' = prepares /\ limit' = limit /\ PlanCalls' = PlanCalls
    BY <2>1 DEF vars, saved, history, PlanCalls
  <2>4. ReportAgrees' = ReportAgrees  BY <2>1, <2>2, <2>3 DEF ReportAgrees, GivenUp, Carried
  <2>5. OuterHolds' = OuterHolds  BY <2>1, <2>2, <2>3, <2>4 DEF OuterHolds
  <2>6. OuterTypeOK'  BY <2>1, <2>2, <2>3 DEF RunInv, OuterInv, OuterTypeOK, WholeInv
  <2>. QED  BY <2>1, <2>2, <2>3, <2>5, <2>6 DEF RunInv, OuterInv
<1>. QED  BY <1>1, <1>2, <1>3, RunSteps

LEMMA RunInvIsBacked == RunInv => VerdictsAreBacked
<1>. SUFFICES ASSUME RunInv PROVE VerdictsAreBacked  OBVIOUS
<1>1. TypeOK /\ VerdictIsBacked  BY DEF RunInv, WholeInv, ManifestHolds
<1>2. NumbersAreOrdinals
  <2>. SUFFICES ASSUME NEW s \in Call, record[s] # None, record[s].status = "completed"
       PROVE  record[s].number = Ordinal(s)
    BY DEF NumbersAreOrdinals, Ordinal
  <2>1. s \in Listed  BY CallsAre DEF RunInv, WholeInv
  <2>2. RecordSays(s)  BY <2>1 DEF RunInv, WholeInv, DiskHolds
  <2>. QED  BY <2>2 DEF RecordSays
<1>3. StoppedRunSpendsNoMore  BY DEF RunInv, WholeInv, SpentHolds, StoppedRunSpendsNoMore
<1>4. running = "supported" => OuterTypeOK /\ ReportAgrees
  <2>1. running = "supported" => (outer \in Settled => ReportAgrees) /\ OuterTypeOK
    BY DEF RunInv, OuterInv, OuterHolds
  <2>2. outer \notin Settled => ReportAgrees  BY DEF ReportAgrees
  <2>. QED  BY <2>1, <2>2
<1>. QED  BY <1>1, <1>2, <1>3, <1>4 DEF VerdictsAreBacked

LEMMA RunHolds == RunSpec => []RunInv
BY RunBegins, RunGoesOn, PTL DEF RunSpec

(* Whatever is given, however the calls end and wherever an invocation is  *)
(* stopped: a piece is called fit only when all its answers are good and   *)
(* both files are there, a record has the number of its call, a run that   *)
(* was stopped after its second call makes no further one, and the outer   *)
(* manifest reports every call and either the verdict of the inner run or  *)
(* that it was given up before the inner run made a call, its plan lost or *)
(* refused by the preparation (execute_prepared_whole_score_staged_genera- *)
(* tion and run_supported_normal_generation).                              *)
THEOREM VerdictsBacked == RunSpec => []VerdictsAreBacked
BY RunHolds, RunInvIsBacked, PTL

LEMMA StepsStay == RunInv /\ [RunNext]_runVars => StaysSettled /\ IsPreparedOnce
<1>. SUFFICES ASSUME RunInv, [RunNext]_runVars PROVE StaysSettled /\ IsPreparedOnce
  OBVIOUS
<1>1. CASE UNCHANGED saved
  BY <1>1 DEF saved, settled, StaysSettled, IsPreparedOnce
<1>2. CASE RunSupported /\ WorkWhole
  <2>1. WholeInv /\ Work(Only)  BY <1>2 DEF RunInv, WorkWhole
  <2>2. /\ manifest' = manifest \/ (manifest = "prepared" /\ manifest' \in Settled)
        /\ manifest \in Settled => UNCHANGED settled
    BY <2>1, WorkSettles
  <2>3. outer \notin Settled
    BY <1>2, NoneAssumption DEF RunSupported, WorkWhole, RunInv, OuterInv, OuterHolds, Settled
  <2>. QED  BY <2>2, <2>3 DEF StaysSettled, IsPreparedOnce, Settled
<1>3. CASE RunSupported /\ PrepareWhole
  <2>1. /\ outer = "prepared" /\ manifest \in {None, "prepared"}
        /\ manifest' \in {manifest, "prepared"}
    BY <1>3 DEF RunSupported, PrepareWhole, RunInv, OuterInv, OuterHolds
  <2>. QED
    BY <2>1, NoneAssumption DEF StaysSettled, IsPreparedOnce, Settled
<1>4. CASE RunPrepared /\ Prepare
  <2>1. outer = None /\ (manifest # None => prepares = 1) /\ prepares \in 0..MaxPrepares
        /\ prepares < MaxPrepares
    BY <1>4 DEF RunPrepared, Prepare, RunInv, OuterInv, WholeInv, TypeOK
  <2>2. manifest = None  BY <2>1, SizeAssumption, OnceAssumption
  <2>. QED
    BY <2>1, <2>2, NoneAssumption DEF StaysSettled, IsPreparedOnce, Settled
<1>5. CASE RunPrepared /\ Work(Only)
  <2>1. /\ manifest' = manifest \/ (manifest = "prepared" /\ manifest' \in Settled)
        /\ manifest \in Settled => UNCHANGED settled
    BY <1>5, WorkSettles DEF RunInv
  <2>2. outer \notin Settled
    BY <1>5, NoneAssumption DEF RunPrepared, RunInv, OuterInv, Settled
  <2>. QED  BY <2>1, <2>2 DEF StaysSettled, IsPreparedOnce, Settled
<1>6. CASE RunSupported /\ ~ WorkWhole /\ ~ PrepareWhole
  <2>1. UNCHANGED saved
    BY <1>6 DEF RunSupported, OuterNext, OuterWork, Run, StopOuter, AskPlan, PlanEnds, RecordPlan,
       UsePlan, HandOver, LosePlan, StartWhole, Execute, Returned, Report, vars
  <2>. QED  BY <1>1, <2>1
<1>7. CASE RunPrepared /\ ~ Prepare /\ ~ Work(Only)
  <2>1. UNCHANGED saved
    BY <1>7, ProcessIs DEF RunPrepared, Next, Execute, Stop
  <2>. QED  BY <1>1, <2>1
<1>8. CASE UNCHANGED <<allVars, running>>
  <2>1. UNCHANGED saved  BY <1>8 DEF allVars, vars
  <2>. QED  BY <1>1, <2>1
<1>. QED  BY <1>2, <1>3, <1>4, <1>5, <1>6, <1>7, <1>8, RunSteps

LEMMA NothingReopens == RunSpec => SettledIsFinal /\ PreparedOnce
<1>1. RunSpec => [][RunNext]_runVars  BY PTL DEF RunSpec
<1>. QED  BY <1>1, RunHolds, StepsStay, PTL DEF SettledIsFinal, PreparedOnce

-----------------------------------------------------------------------------
(* The steps as the ledger of a staged run.                                *)
LedgerMoves == AbstractLedger!Next \/ UNCHANGED <<Ledger, AbstractVerdict>>

LEMMA SameLedger ==
  ASSUME record' = record, AbstractVerdict' = AbstractVerdict
  PROVE  LedgerMoves
BY DEF LedgerMoves, Ledger

LEMMA VerdictIs ==
  ASSUME WholeInv, manifest \in {None, "prepared"}
  PROVE  AbstractVerdict = "open"
BY NoneAssumption DEF AbstractVerdict, Settled

LEMMA LedgerKnown ==
  /\ Len(Order) \in Nat /\ DOMAIN Order = 1..Len(Order)
  /\ Ledger = [i \in 1..Len(Order) |-> IF record[Order[i]] = None THEN None ELSE record[Order[i]].status]
BY OrderIs DEF OrderKnown, Ledger

LEMMA LedgerRecords ==
  ASSUME WholeInv, manifest = "prepared", manifest' = manifest,
         NEW s \in Listed, s = Here, Through(s), record[s] = None,
         NEW entry \in [status : {"completed", "failed"}, number : 0..limit],
         record' = [record EXCEPT ![s] = entry]
  PROVE  LedgerMoves
<1>. DEFINE n == at[Only]
<1>1. n \in 1..Len(Order) /\ Order[n] = s  BY HereIs DEF WholeInv, Here, Step
<1>. HIDE DEF n
<1>2. record \in RecordType /\ s \in 1..Publish /\ entry # None
  <2>1. 0..limit \subseteq Nat  BY HereIs DEF WholeInv
  <2>2. entry \in [status : {"completed", "failed"}, number : Nat]  BY <2>1
  <2>. QED  BY <2>2, HereIs, NoneAssumption DEF WholeInv, TypeOK, RecordType
<1>3. \A r \in 1..Publish : record'[r] = IF r = s THEN entry ELSE record[r]
  BY <1>2 DEF RecordType
<1>4. \A i \in 1..Len(Order) : Order[i] \in 1..Publish /\ (Order[i] = s <=> i = n)
  BY <1>1, OrderIs, StepsAre DEF OrderKnown, Listed, StepsKnown
<1>5. AbstractVerdict = "open" /\ AbstractVerdict' = AbstractVerdict
  BY VerdictIs DEF AbstractVerdict
<1>6. Ledger[n] = None  BY <1>1, LedgerKnown
<1>7. \A j \in 1..(n - 1) : Ledger[j] = "completed"
  <2>. SUFFICES ASSUME NEW j \in 1..(n - 1) PROVE Ledger[j] = "completed"  OBVIOUS
  <2>1. j \in 1..Len(Order) /\ j < n  BY <1>1, LedgerKnown
  <2>2. Order[j] \in Listed /\ Order[j] < s  BY <1>1, <2>1, OrderIs DEF OrderKnown
  <2>3. Passed(Order[j])  BY <2>2 DEF Through
  <2>. QED  BY <2>1, <2>3, LedgerKnown DEF Passed
<1>8. Ledger' = [Ledger EXCEPT ![n] = entry.status]
  <2>. DEFINE Says(i) == IF record[Order[i]] = None THEN None ELSE record[Order[i]].status
  <2>. DEFINE Says2(i) == IF record'[Order[i]] = None THEN None ELSE record'[Order[i]].status
  <2>1. Ledger = [i \in 1..Len(Order) |-> Says(i)] /\ Ledger' = [i \in 1..Len(Order) |-> Says2(i)]
    BY OrderIs DEF OrderKnown, Ledger
  <2>2. \A i \in 1..Len(Order) : Says2(i) = IF i = n THEN entry.status ELSE Says(i)
    BY <1>2, <1>3, <1>4
  <2>. HIDE DEF Says, Says2
  <2>. QED  BY <1>1, <2>1, <2>2
<1>9. AbstractLedger!RecordStep(n, entry.status)
  BY <1>5, <1>6, <1>7, <1>8 DEF AbstractLedger!RecordStep, AbstractLedger!Reached
<1>10. entry.status \in {"completed", "failed"}  OBVIOUS
<1>. QED  BY <1>1, <1>9, <1>10 DEF LedgerMoves, AbstractLedger!Next

LEMMA WritesLedger ==
  ASSUME WholeInv, Where \in {"record", "refuse", "publish"}, manifest' = manifest,
         NEW s \in Listed, s = Here,
         NEW entry \in [status : {"completed", "failed"}, number : 0..limit],
         record' = record \/ (record[s] \in {None, entry} /\ record' = [record EXCEPT ![s] = entry])
  PROVE  LedgerMoves
<1>1. manifest = "prepared" /\ Through(s)
  BY DEF WholeInv, MindHolds, Coming, Working
<1>2. CASE record' = record
  BY <1>2, SameLedger DEF AbstractVerdict
<1>3. CASE record[s] = None /\ record' = [record EXCEPT ![s] = entry]
  BY <1>1, <1>3, LedgerRecords
<1>4. CASE record[s] = entry /\ record' = [record EXCEPT ![s] = entry]
  <2>1. record \in RecordType  BY DEF WholeInv, TypeOK, RecordType
  <2>2. record' = record  BY <1>4, <2>1 DEF RecordType
  <2>. QED  BY <1>2, <2>2
<1>. QED  BY <1>2, <1>3, <1>4

LEMMA RecordLedger ==
  ASSUME WholeInv, RecordStep(Only) \/ Refuse(Only) \/ RecordPublish(Only)
  PROVE  LedgerMoves
<1>. PICK s \in Listed : s = Here  BY HereIs DEF WholeInv
<1>1. CallNumber \in 0..limit /\ 0 \in 0..limit /\ manifest' = manifest
  BY WorkNumber, HereIs DEF WholeInv, RecordStep, Refuse, RecordPublish
<1>2. CASE RecordStep(Only)
  <2>1. Entry(s) \in [status : {"completed", "failed"}, number : 0..limit]
    BY <1>1 DEF Entry
  <2>2. /\ Where = "record"
        /\ record' = record \/ (record[s] \in {None, Entry(s)} /\ record' = [record EXCEPT ![s] = Entry(s)])
    BY <1>2 DEF RecordStep, Writes, Where, Here
  <2>. QED  BY <1>1, <2>1, <2>2, WritesLedger
<1>3. CASE Refuse(Only)
  <2>. DEFINE e == [status |-> "failed", number |-> 0]
  <2>1. e \in [status : {"completed", "failed"}, number : 0..limit]  BY <1>1
  <2>2. /\ Where = "refuse"
        /\ record' = record \/ (record[s] \in {None, e} /\ record' = [record EXCEPT ![s] = e])
    BY <1>3 DEF Refuse, Writes, Where, Here
  <2>. HIDE DEF e
  <2>. QED  BY <1>1, <2>1, <2>2, WritesLedger
<1>4. CASE RecordPublish(Only)
  <2>1. Where = "publish" /\ s = Publish
    BY <1>4 DEF RecordPublish, Where, WholeInv, MindHolds, Publishing
  <2>2. Entry(s) \in [status : {"completed", "failed"}, number : 0..limit]
    BY <1>1 DEF Entry
  <2>3. record' = record \/ (record[s] \in {None, Entry(s)} /\ record' = [record EXCEPT ![s] = Entry(s)])
    BY <1>4, <2>1 DEF RecordPublish, Writes
  <2>. QED  BY <1>1, <2>1, <2>2, <2>3, WritesLedger
<1>. QED  BY <1>2, <1>3, <1>4

LEMMA LedgerCloses ==
  ASSUME WholeInv, record' = record, manifest = "prepared", manifest' \in Settled,
         manifest' \in {"fit", "unfit"} => Through(Publish) /\ record[Publish] # None
  PROVE  LedgerMoves
<1>1. AbstractVerdict = "open"  BY VerdictIs
<1>2. AbstractVerdict' \in {"published", "withheld", "failed"}
      /\ (AbstractVerdict' \in {"published", "withheld"} => manifest' \in {"fit", "unfit"})
  BY DEF AbstractVerdict, Settled
<1>3. Ledger' = Ledger  BY DEF Ledger
<1>4. ASSUME manifest' \in {"fit", "unfit"}, NEW j \in 1..Len(Order)
      PROVE  Ledger[j] = "completed"
  <2>1. Order[j] \in Listed /\ Publish \in Nat  BY OrderIs, StepsAre DEF OrderKnown, StepsKnown
  <2>2. Order[j] < Publish \/ Order[j] = Publish
    BY <2>1, StepsAre DEF StepsKnown, Listed
  <2>3. Passed(Order[j])
    <3>1. CASE Order[j] < Publish  BY <1>4, <2>1, <3>1 DEF Through
    <3>2. CASE Order[j] = Publish
      BY <1>4, <2>1, <3>2 DEF WholeInv, DiskHolds, RecordSays
    <3>. QED  BY <2>2, <3>1, <3>2
  <2>. QED  BY <2>3, LedgerKnown DEF Passed
<1>5. manifest' \in {"fit", "unfit"} => AbstractLedger!Reached(Len(Order) + 1)
  <2>1. 1..(Len(Order) + 1 - 1) = 1..Len(Order)  BY LedgerKnown
  <2>. QED  BY <1>4, <2>1 DEF AbstractLedger!Reached
<1>6. AbstractLedger!Close(AbstractVerdict')
  BY <1>1, <1>2, <1>3, <1>5 DEF AbstractLedger!Close
<1>. QED  BY <1>2, <1>6 DEF LedgerMoves, AbstractLedger!Next, AbstractLedger!Verdict

LEMMA WorkLedger == ASSUME WholeInv, Work(Only) PROVE LedgerMoves
<1>1. CASE RecordStep(Only) \/ Refuse(Only) \/ RecordPublish(Only)
  BY <1>1, RecordLedger
<1>2. CASE Settle(Only)
  <2>1. /\ record' = record /\ manifest' \in {"fit", "unfit"} /\ Where = "settle"
    BY <1>2 DEF Settle, Where
  <2>2. manifest = "prepared" /\ Through(Publish) /\ record[Publish] # None
    BY <2>1 DEF WholeInv, MindHolds, Coming, Publishing, Working
  <2>. QED  BY <2>1, <2>2, LedgerCloses DEF Settled
<1>3. CASE GiveUp(Only)
  <2>1. record' = record /\ manifest' = "failed" /\ Where = "give up"  BY <1>3 DEF GiveUp, Where
  <2>2. manifest = "prepared"  BY <2>1 DEF WholeInv, MindHolds, Working
  <2>. QED  BY <2>1, <2>2, LedgerCloses DEF Settled
<1>4. CASE ~ (RecordStep(Only) \/ Refuse(Only) \/ RecordPublish(Only) \/ Settle(Only) \/ GiveUp(Only))
  <2>1. record' = record /\ manifest' = manifest
    BY <1>4 DEF Work, FoundFlaw, NoCall, Reserve, CallEnds, Recover, UseAnswer, Evaluate, Promote,
       Tell, RecordFailure, saved
  <2>. QED  BY <2>1, SameLedger DEF AbstractVerdict
<1>. QED  BY <1>1, <1>2, <1>3, <1>4

LEMMA RunLedger == RunInv /\ [RunNext]_runVars => LedgerMoves
<1>. SUFFICES ASSUME RunInv, [RunNext]_runVars PROVE LedgerMoves  OBVIOUS
<1>1. CASE record' = record /\ manifest' = manifest
  BY <1>1, SameLedger DEF AbstractVerdict
<1>2. CASE WorkWhole \/ Work(Only)
  BY <1>2, WorkLedger DEF RunInv, WorkWhole
<1>3. CASE record' = record /\ manifest \in {None, "prepared"} /\ manifest' = "prepared"
  <2>1. AbstractVerdict' = "open"  BY <1>3 DEF AbstractVerdict
  <2>. QED  BY <1>3, <2>1, VerdictIs, SameLedger DEF RunInv
<1>4. CASE RunSupported /\ PrepareWhole
  <2>1. /\ manifest \in {None, "prepared"} /\ manifest' \in {manifest, "prepared"}
        /\ record' = record
    BY <1>4 DEF RunSupported, PrepareWhole, RunInv, OuterInv, OuterHolds
  <2>. QED  BY <1>1, <1>3, <2>1
<1>5. CASE RunPrepared /\ Prepare
  <2>1. /\ manifest # None => prepares = 1
        /\ prepares \in 0..MaxPrepares /\ prepares < MaxPrepares
        /\ manifest' = "prepared" /\ record' = record
    BY <1>5 DEF RunPrepared, Prepare, RunInv, OuterInv, WholeInv, TypeOK
  <2>2. manifest = None  BY <2>1, SizeAssumption, OnceAssumption
  <2>. QED  BY <1>3, <2>1, <2>2
<1>6. CASE RunSupported /\ ~ WorkWhole /\ ~ PrepareWhole
  <2>1. UNCHANGED saved
    BY <1>6 DEF RunSupported, OuterNext, OuterWork, Run, StopOuter, AskPlan, PlanEnds, RecordPlan,
       UsePlan, HandOver, LosePlan, StartWhole, Execute, Returned, Report, vars
  <2>. QED  BY <1>1, <2>1 DEF saved
<1>7. CASE RunPrepared /\ ~ Prepare /\ ~ Work(Only)
  <2>1. UNCHANGED saved
    BY <1>7, ProcessIs DEF RunPrepared, Next, Execute, Stop
  <2>. QED  BY <1>1, <2>1 DEF saved
<1>8. CASE UNCHANGED <<allVars, running>>
  BY <1>1, <1>8 DEF allVars, vars, saved
<1>. QED  BY <1>2, <1>4, <1>5, <1>6, <1>7, <1>8, RunSteps

LEMMA LedgerBegins == RunInit => AbstractLedger!Init
<1>. SUFFICES ASSUME RunInit PROVE AbstractLedger!Init  OBVIOUS
<1>1. Init  BY DEF RunInit, OuterInit
<1>2. WholeInv /\ manifest = None  BY <1>1, BeginsWhole
<1>3. AbstractVerdict = "open"  BY <1>2, VerdictIs
<1>4. \A i \in 1..Len(Order) : record[Order[i]] = None
  BY <1>1, OrderIs DEF Init, OrderKnown, Listed
<1>5. Ledger = [i \in 1..Len(Order) |-> None]  BY <1>4, LedgerKnown
<1>. QED  BY <1>3, <1>5 DEF AbstractLedger!Init

(* The run implements StepLedger: its steps are recorded in their order,   *)
(* each once and none after one that failed, it is published or withheld   *)
(* only with all of them completed, and nothing is recorded after that.    *)
THEOREM LedgerPromiseKept == RunSpec => KeepsLedgerPromise
<1>1. RunSpec => [][RunNext]_runVars  BY PTL DEF RunSpec
<1>2. LedgerMoves => [AbstractLedger!Next]_(AbstractLedger!vars)
  BY DEF LedgerMoves, AbstractLedger!vars
<1>3. RunSpec => AbstractLedger!Spec
  BY <1>1, <1>2, LedgerBegins, RunHolds, RunLedger, PTL DEF RunSpec, AbstractLedger!Spec
<1>. QED  BY <1>3 DEF KeepsLedgerPromise

(* No invocation changes the records, the answers or the files of a run    *)
(* whose manifest is settled, and none prepares a run that is under way or *)
(* settled a second time; all along the steps are recorded as StepLedger   *)
(* promises.                                                               *)
THEOREM SettledRunsStay == RunSpec => SettledStays
BY NothingReopens, LedgerPromiseKept DEF SettledStays

-----------------------------------------------------------------------------
ScoreHolds ==
    /\ maximum \in Nat /\ materials \in Seq(1 .. maximum)
    /\ Batched(materials, Partition(materials, maximum), maximum)
    /\ \A n \in 1 .. Len(materials) : Len(Partition(SubSeq(materials, 1, n), maximum)) \in Nat
    /\ NoMoreBatches(materials, maximum)
    /\ EarlierBatchesStay(materials, maximum)

LEMMA ScoreBegins == RunInit => ScoreHolds
<1>. SUFFICES ASSUME RunInit PROVE ScoreHolds  OBVIOUS
<1>1. materials = <<>> /\ maximum \in Nat  BY ScoreAssumption DEF RunInit
<1>2. Len(<<>>) = 0 /\ <<>> \in Seq(1 .. maximum)  OBVIOUS
<1>3. 1 .. Len(materials) = {}  BY <1>1, <1>2
<1>4. Batched(materials, Partition(materials, maximum), maximum)  BY <1>1, BatchedNone
<1>. QED
  BY <1>1, <1>2, <1>3, <1>4 DEF ScoreHolds, NoMoreBatches, EarlierBatchesStay

LEMMA ScoreGrows == ScoreHolds /\ [RunNext]_runVars => ScoreHolds'
<1>. SUFFICES ASSUME ScoreHolds, [RunNext]_runVars PROVE ScoreHolds'  OBVIOUS
<1>1. CASE UNCHANGED score
  BY <1>1 DEF score, ScoreHolds
<1>2. CASE AddToScore
  <2>1. PICK x \in 1 .. maximum : materials' = Append(materials, x)  BY <1>2 DEF AddToScore
  <2>2. maximum' = maximum  BY <1>2 DEF AddToScore
  <2>3. maximum \in Nat /\ materials \in Seq(1 .. maximum)  BY DEF ScoreHolds
  <2>4. 1 .. maximum \subseteq Nat /\ x \in Nat  BY <2>3
  <2>5. materials \in Seq(Nat)
    <3>1. \A k \in 1 .. Len(materials) : materials[k] \in Nat  BY <2>3, <2>4
    <3>. QED  BY <2>3, <2>4, SeqMonotonic
  <2>6. Append(materials, x) \in Seq(1 .. maximum)  BY <2>3
  <2>. DEFINE w == materials
              c == maximum
  <2>7. Batched(Append(w, x), Partition(Append(w, x), c), c)
    BY <2>3, <2>5, BatchedNext DEF ScoreHolds
  <2>8. Partition(w, c) \in Seq(Seq(Nat))  BY <2>5, PartitionIsSeq
  <2>9. /\ \A n \in 1 .. Len(Append(w, x)) : Len(Partition(SubSeq(Append(w, x), 1, n), c)) \in Nat
        /\ NoMoreBatches(Append(w, x), c) /\ EarlierBatchesStay(Append(w, x), c)
    BY <2>3, <2>4, <2>5, <2>8, BatchesStay DEF ScoreHolds
  <2>. QED
    BY <2>1, <2>2, <2>3, <2>6, <2>7, <2>9 DEF ScoreHolds, NoMoreBatches, EarlierBatchesStay
<1>. QED
  BY <1>1, <1>2 DEF RunNext, RunSupported, RunPrepared, ScoreIsFull, runVars

LEMMA ScoreFits == ScoreHolds => BatchesFit
<1>. SUFFICES ASSUME ScoreHolds PROVE BatchesFit  OBVIOUS
<1>1. maximum \in Nat /\ materials \in Seq(1 .. maximum)  BY DEF ScoreHolds
<1>2. 1 .. maximum \subseteq Nat  BY <1>1
<1>3. materials \in Seq(Nat)  BY <1>1, <1>2, SeqMonotonic
<1>4. Batched(materials, Partition(materials, maximum), maximum)
      /\ EarlierBatchesStay(materials, maximum)
  BY DEF ScoreHolds
<1>5. BatchesCoverTheScore(materials, maximum)  BY <1>1, <1>3, <1>4, BatchesCover
<1>6. FewestCalls(materials, maximum)  BY <1>1, <1>3, <1>4, BatchesAreFew
<1>7. PrefixIsWholeBatches(materials, maximum)  BY <1>1, <1>3, <1>4, PrefixesAreBatches
<1>. QED  BY <1>4, <1>5, <1>6, <1>7 DEF BatchesFit

(* However many materials a score has, whatever each of them requires and  *)
(* whatever the ceiling: partition_texture_batches puts every material into*)
(* one batch, in its place, with no batch above the ceiling; no other way  *)
(* of cutting the score needs fewer model calls; materials that are added  *)
(* later leave all batches but the last as they are; and                   *)
(* execute_texture_stage accepts a prepared prefix just when it consists   *)
(* of whole batches and leaves one to be generated.                        *)
THEOREM ScoreIsBatched == RunSpec => []BatchesFit
<1>1. RunSpec => []ScoreHolds  BY ScoreBegins, ScoreGrows, PTL DEF RunSpec
<1>. QED  BY <1>1, ScoreFits, PTL
=============================================================================
