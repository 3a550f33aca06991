--------------------------- MODULE SequenceLemmas ---------------------------
(***************************************************************************)
(* What the operators of the community modules return that the models are  *)
(* built from, for every argument.  FlattenSeq, the folds over a finite    *)
(* set, the sums and SetToSeq are given by recursive functions: that one   *)
(* exists, and what its values have in common, is shown by the least       *)
(* position, or the smallest set, where it fails.                          *)
(***************************************************************************)
EXTENDS Integers, SequencesExt, FiniteSetTheorems, WellFoundedInduction, TLAPS

(* A set of natural numbers that is not empty has a least member. *)
LEMMA LeastExists ==
    ASSUME NEW T, T \subseteq Nat, T # {}
    PROVE  \E x \in T : \A y \in T : x <= y
  <1> DEFINE R == {ss \in Nat \X Nat : ss[1] < ss[2]}
  <1>1. PICK x \in T : \A y \in T : ~(<<y, x>> \in R)
    <2>1. IsWellFoundedOn(R, Nat)
      BY NatLessThanWellFounded DEF OpToRel
    <2> HIDE DEF R
    <2> QED
      BY <2>1, WFMin
  <1>2. ASSUME NEW y \in T PROVE x <= y
    <2>1. <<y, x>> \in Nat \X Nat /\ <<y, x>>[1] = y /\ <<y, x>>[2] = x
      OBVIOUS
    <2>2. ~(<<y, x>>[1] < <<y, x>>[2])
      BY <1>1, <2>1, Zenon
    <2>3. x \in Nat /\ y \in Nat
      OBVIOUS
    <2> QED
      BY <2>1, <2>2, <2>3
  <1> QED
    BY <1>2

(* f holds, for each of the first n positions, the concatenation up to it. *)
FlattenedBy(seqs, n, f) ==
    f = [i \in 1..n |-> IF i = 1 THEN seqs[i] ELSE f[i-1] \o seqs[i]]

(* Such a function exists. *)
LEMMA FlattenedByExists ==
    ASSUME NEW seqs, NEW n \in Nat
    PROVE  \E f : FlattenedBy(seqs, n, f)
  <1> DEFINE T == {k \in Nat : ~\E f : FlattenedBy(seqs, k, f)}
  <1>1. SUFFICES ASSUME T # {} PROVE FALSE
    OBVIOUS
  <1>2. PICK k \in T : \A y \in T : k <= y
    BY <1>1, LeastExists
  <1>3. k # 0
    <2>1. FlattenedBy(seqs, 0, <<>>)
      BY DEF FlattenedBy
    <2> QED
      BY <2>1
  <1>4. k - 1 \in Nat /\ k - 1 \notin T
    BY <1>2, <1>3
  <1>5. PICK g : FlattenedBy(seqs, k - 1, g)
    BY <1>4
  <1> DEFINE f == [i \in 1..k |-> IF i = k THEN (IF i = 1 THEN seqs[i] ELSE g[i-1] \o seqs[i]) ELSE g[i]]
  <1>6. \A i \in 1..k : f[i] = IF i = 1 THEN seqs[i] ELSE f[i-1] \o seqs[i]
    <2> TAKE i \in 1..k
    <2>1. CASE i = k
      BY <2>1
    <2>2. CASE i # k
      <3>1. i \in 1..(k-1) /\ f[i] = g[i] /\ (i # 1 => f[i-1] = g[i-1])
        BY <1>4, <2>2
      <3> QED
        BY <1>5, <3>1 DEF FlattenedBy
    <2> QED
      BY <2>1, <2>2
  <1>7. f = [i \in 1..k |-> f[i]]
    OBVIOUS
  <1> HIDE DEF f
  <1>8. FlattenedBy(seqs, k, f)
    BY <1>6, <1>7 DEF FlattenedBy
  <1> QED
    BY <1>8

(* FlattenSeq is the last value of one. *)
LEMMA FlattenDef ==
    ASSUME NEW S, NEW seqs \in Seq(Seq(S))
    PROVE  \/ seqs = <<>> /\ FlattenSeq(seqs) = <<>>
           \/ Len(seqs) > 0 /\ \E f : FlattenedBy(seqs, Len(seqs), f) /\ FlattenSeq(seqs) = f[Len(seqs)]
  <1>1. CASE Len(seqs) = 0
    BY <1>1 DEF FlattenSeq
  <1>2. CASE Len(seqs) # 0
    <2> DEFINE flatten == CHOOSE f : FlattenedBy(seqs, Len(seqs), f)
    <2>1. FlattenedBy(seqs, Len(seqs), flatten)
      <3>1. Len(seqs) \in Nat
        OBVIOUS
      <3>2. \E f : FlattenedBy(seqs, Len(seqs), f)
        BY <3>1, FlattenedByExists, Zenon
      <3> QED
        BY <3>2, Zenon
    <2>2. FlattenSeq(seqs) = flatten[Len(seqs)]
      BY <1>2, Zenon DEF FlattenSeq, FlattenedBy
    <2> HIDE DEF flatten
    <2>3. Len(seqs) > 0
      BY <1>2
    <2> QED
      BY <2>1, <2>2, <2>3
  <1> QED
    BY <1>1, <1>2

(* The concatenations up to each position, by the recursion alone. *)
LEMMA PrefixesTyped ==
    ASSUME NEW S, NEW seqs \in Seq(Seq(S)), NEW f,
           \A k \in 1..Len(seqs) : f[k] = IF k = 1 THEN seqs[k] ELSE f[k-1] \o seqs[k]
    PROVE  \A k \in 1..Len(seqs) : f[k] \in Seq(S)
  <1> DEFINE T == {k \in 1..Len(seqs) : f[k] \notin Seq(S)}
  <1>1. ASSUME T # {} PROVE FALSE
    <2>0. T \subseteq Nat
      OBVIOUS
    <2>1. PICK k \in T : \A y \in T : k <= y
      BY <1>1, <2>0, LeastExists
    <2>2. f[k] = IF k = 1 THEN seqs[k] ELSE f[k-1] \o seqs[k]
      BY <2>1
    <2>3. k # 1 => k - 1 \in 1..Len(seqs) /\ f[k-1] \in Seq(S)
      BY <2>1
    <2>4. seqs[k] \in Seq(S)
      BY <2>1
    <2>5. f[k] \in Seq(S)
      BY <2>2, <2>3, <2>4
    <2> QED
      BY <2>1, <2>5
  <1> HIDE DEF T
  <1>2. T = {}
    BY <1>1
  <1> QED
    BY <1>2, Zenon DEF T

(* The elements of the flattened sequence are elements of the sequences. *)
LEMMA FlattenTyped ==
    ASSUME NEW S, NEW seqs \in Seq(Seq(S))
    PROVE  FlattenSeq(seqs) \in Seq(S)
  <1>1. CASE seqs = <<>>
    BY <1>1 DEF FlattenSeq
  <1>2. CASE seqs # <<>>
    <2>1. PICK f : FlattenedBy(seqs, Len(seqs), f) /\ FlattenSeq(seqs) = f[Len(seqs)]
      BY <1>2, FlattenDef
    <2>2. \A k \in 1..Len(seqs) : f[k] = IF k = 1 THEN seqs[k] ELSE f[k-1] \o seqs[k]
      BY <2>1 DEF FlattenedBy
    <2>3. Len(seqs) \in 1..Len(seqs)
      BY <1>2
    <2>4. \A k \in 1..Len(seqs) : f[k] \in Seq(S)
      BY <2>2, PrefixesTyped
    <2> QED
      BY <2>1, <2>3, <2>4
  <1> QED
    BY <1>1, <1>2
(* The elements of a concatenation, position by position. *)
LEMMA Concatenated ==
    ASSUME NEW S, NEW s \in Seq(S), NEW t \in Seq(S)
    PROVE  /\ Len(s \o t) = Len(s) + Len(t)
           /\ s \o t \in Seq(S)
           /\ \A i \in 1..Len(s) : i \in 1..Len(s \o t) /\ (s \o t)[i] = s[i]
           /\ \A i \in 1..Len(t) : Len(s) + i \in 1..Len(s \o t) /\ (s \o t)[Len(s) + i] = t[i]
  OBVIOUS

(* Every element of every sequence is in the flattened one. *)
LEMMA FlattenCovers ==
    ASSUME NEW S, NEW seqs \in Seq(Seq(S)), NEW n \in 1..Len(seqs), NEW j \in 1..Len(seqs[n])
    PROVE  \E k \in 1..Len(FlattenSeq(seqs)) : FlattenSeq(seqs)[k] = seqs[n][j]
  <1> DEFINE Has(s) == \E k \in 1..Len(s) : s[k] = seqs[n][j]
  <1>1. PICK f : FlattenedBy(seqs, Len(seqs), f) /\ FlattenSeq(seqs) = f[Len(seqs)]
    BY FlattenDef
  <1>2. \A k \in 1..Len(seqs) : f[k] = IF k = 1 THEN seqs[k] ELSE f[k-1] \o seqs[k]
    BY <1>1 DEF FlattenedBy
  <1>3. \A k \in 1..Len(seqs) : f[k] \in Seq(S) /\ seqs[k] \in Seq(S)
    BY <1>2, PrefixesTyped
  <1>4. Has(seqs[n])
    OBVIOUS
  <1>5. ASSUME NEW k \in 1..Len(seqs), k # 1
        PROVE  k - 1 \in 1..Len(seqs) /\ (Has(f[k-1]) \/ Has(seqs[k]) => Has(f[k]))
    <2>0. k - 1 \in 1..Len(seqs)
      BY <1>5
    <2>1. f[k] = f[k-1] \o seqs[k]
      BY <1>2, <1>5, Zenon
    <2>2. f[k-1] \in Seq(S) /\ seqs[k] \in Seq(S)
      BY <1>3, <2>0
    <2> DEFINE u == f[k-1]
               v == seqs[k]
    <2> HIDE DEF u, v
    <2>3. /\ \A i \in 1..Len(u) : i \in 1..Len(u \o v) /\ (u \o v)[i] = u[i]
          /\ \A i \in 1..Len(v) : Len(u) + i \in 1..Len(u \o v) /\ (u \o v)[Len(u) + i] = v[i]
      <3>1. u \in Seq(S) /\ v \in Seq(S)
        BY <2>2 DEF u, v
      <3> QED
        BY <3>1
    <2> HIDE DEF Has
    <2>4. Has(f[k-1]) => Has(f[k])
      <3>1. Has(u) => Has(u \o v)
        BY <2>3 DEF Has
      <3> QED
        BY <2>1, <3>1 DEF u, v
    <2>5. Has(seqs[k]) => Has(f[k])
      <3>1. Has(v) => Has(u \o v)
        BY <2>3 DEF Has
      <3> QED
        BY <2>1, <3>1 DEF u, v
    <2> QED
      BY <2>0, <2>4, <2>5
  <1>6. 1 \in 1..Len(seqs) => f[1] = seqs[1]
    BY <1>2
  <1> HIDE DEF Has
  <1> DEFINE T == {k \in Nat : k \in n..Len(seqs) /\ ~Has(f[k])}
  <1>7. ASSUME T # {} PROVE FALSE
    <2>1. PICK k \in T : \A y \in T : k <= y
      BY <1>7, LeastExists
    <2>2. k \in 1..Len(seqs) /\ n <= k /\ ~Has(f[k])
      BY <2>1
    <2>3. k # n
      BY <1>4, <1>5, <1>6, <2>2
    <2>4. k # 1 /\ k - 1 \in n..Len(seqs) /\ k - 1 \in Nat
      BY <2>2, <2>3
    <2>5. Has(f[k-1])
      BY <2>1, <2>4
    <2> QED
      BY <1>5, <2>2, <2>4, <2>5
  <1>8. Len(seqs) \in n..Len(seqs) /\ Len(seqs) \in Nat
    OBVIOUS
  <1>9. Has(FlattenSeq(seqs))
    BY <1>1, <1>7, <1>8
  <1> QED
    BY <1>9 DEF Has
-----------------------------------------------------------------------------
(* Among sets of members of a finite set there is one without a smaller one. *)
LEMMA SmallestSet ==
    ASSUME NEW S, IsFiniteSet(S), NEW Bad \in SUBSET (SUBSET S), Bad # {}
    PROVE  \E T \in Bad : \A x \in T : T \ {x} \notin Bad
  <1> DEFINE N == {n \in Nat : \E T \in Bad : Cardinality(T) = n}
  <1>1. \A T \in SUBSET S : IsFiniteSet(T) /\ Cardinality(T) \in Nat
    BY FS_Subset, FS_CardinalityType
  <1>2. N \subseteq Nat /\ N # {}
    BY <1>1
  <1>3. PICK n \in N : \A m \in N : n <= m
    BY <1>2, LeastExists
  <1>4. PICK T \in Bad : Cardinality(T) = n
    BY <1>3
  <1>5. ASSUME NEW x \in T, T \ {x} \in Bad PROVE FALSE
    <2>1. Cardinality(T \ {x}) = Cardinality(T) - 1
      BY <1>1, FS_RemoveElement
    <2>2. T \in SUBSET S /\ Cardinality(T) \in Nat /\ Cardinality(T \ {x}) \in Nat
      BY <1>1
    <2>3. Cardinality(T \ {x}) \in N
      BY <1>5, <2>2
    <2>4. n <= Cardinality(T \ {x})
      BY <1>3, <2>3
    <2>5. Cardinality(T) = n
      BY <1>4
    <2> HIDE DEF N
    <2> QED
      BY <2>1, <2>2, <2>4, <2>5
  <1> QED
    BY <1>4, <1>5

(* One round of a fold: what P picks of a set is left for last, and G adds *)
(* its share to what the rest came to.                                     *)
Round(P, G, base, it, T) == IF T = {} THEN base ELSE G[<<P[T], it[T \ {P[T]}]>>]

Picks(P, S) == \A T \in SUBSET S : T # {} => P[T] \in T
IsFold(P, G, base, S, it) == \A T \in SUBSET S : it[T] = Round(P, G, base, it, T)

(* A fold over a finite set exists. *)
LEMMA FoldExists ==
    ASSUME NEW S, IsFiniteSet(S), NEW V, NEW base \in V, NEW G \in [S \X V -> V],
           NEW P, Picks(P, S)
    PROVE  \E it \in [SUBSET S -> V] : IsFold(P, G, base, S, it)
  <1> DEFINE Upto(k) == \E it \in [SUBSET S -> V] :
                           \A T \in SUBSET S : Cardinality(T) <= k => it[T] = Round(P, G, base, it, T)
             N == {k \in Nat : ~Upto(k)}
  <1>1. \A T \in SUBSET S : IsFiniteSet(T) /\ Cardinality(T) \in Nat /\ Cardinality(T) <= Cardinality(S)
    BY FS_Subset, FS_CardinalityType
  <1>2. \A T \in SUBSET S : \A x \in T : Cardinality(T \ {x}) = Cardinality(T) - 1
    BY <1>1, FS_RemoveElement
  <1>3. \A T \in SUBSET S : Cardinality(T) = 0 => T = {}
    BY <1>1, FS_EmptySet
  <1>4. ASSUME N # {} PROVE FALSE
    <2>1. PICK k \in N : \A m \in N : k <= m
      BY <1>4, LeastExists
    <2>2. k # 0
      <3> DEFINE it == [T \in SUBSET S |-> base]
      <3>1. it \in [SUBSET S -> V] /\ \A T \in SUBSET S : it[T] = base
        OBVIOUS
      <3> HIDE DEF it
      <3>2. \A T \in SUBSET S : Cardinality(T) <= 0 => it[T] = Round(P, G, base, it, T)
        BY <1>1, <1>3, <3>1 DEF Round
      <3>3. Upto(0)
        BY <3>1, <3>2
      <3> QED
        BY <2>1, <3>3
    <2>3. k - 1 \in Nat /\ k - 1 \notin N
      <3>1. k \in Nat /\ k - 1 \in Nat /\ ~(k <= k - 1)
        BY <2>1, <2>2
      <3>2. \A m \in N : k <= m
        BY <2>1
      <3> HIDE DEF N
      <3> QED
        BY <3>1, <3>2
    <2>4. PICK it \in [SUBSET S -> V] :
             \A T \in SUBSET S : Cardinality(T) <= k - 1 => it[T] = Round(P, G, base, it, T)
      BY <2>3
    <2> DEFINE new == [T \in SUBSET S |-> Round(P, G, base, it, T)]
    <2>5. \A T \in SUBSET S : Round(P, G, base, it, T) \in V
      <3> TAKE T \in SUBSET S
      <3>1. CASE T = {}
        BY <3>1 DEF Round
      <3>2. CASE T # {}
        <4>1. P[T] \in T /\ T \ {P[T]} \in SUBSET S
          BY <3>2 DEF Picks
        <4> QED
          BY <3>2, <4>1 DEF Round
      <3> QED
        BY <3>1, <3>2
    <2>6. new \in [SUBSET S -> V] /\ \A T \in SUBSET S : new[T] = Round(P, G, base, it, T)
      BY <2>5
    <2> HIDE DEF new
    <2>7. ASSUME NEW T \in SUBSET S, Cardinality(T) <= k
          PROVE  Round(P, G, base, new, T) = Round(P, G, base, it, T)
      <3>1. CASE T = {}
        BY <3>1 DEF Round
      <3>2. CASE T # {}
        <4>1. P[T] \in T /\ T \ {P[T]} \in SUBSET S
          BY <3>2 DEF Picks
        <4>2. Cardinality(T \ {P[T]}) <= k - 1
          BY <1>1, <1>2, <2>1, <2>7, <4>1
        <4>3. new[T \ {P[T]}] = it[T \ {P[T]}]
          BY <2>4, <2>6, <4>1, <4>2
        <4> QED
          BY <3>2, <4>3 DEF Round
      <3> QED
        BY <3>1, <3>2
    <2>8. Upto(k)
      BY <2>6, <2>7
    <2> QED
      BY <2>1, <2>8
  <1>5. Cardinality(S) \in Nat
    BY FS_CardinalityType
  <1>6. Upto(Cardinality(S))
    BY <1>4, <1>5
  <1> QED
    BY <1>1, <1>6 DEF IsFold

-----------------------------------------------------------------------------
(* The member that the folds over sets leave for last. *)
LastOf(T) == CHOOSE x \in T : TRUE

(* it holds, for each part of S, the sum of the values of f over it. *)
SumsUp(f, S, it) ==
    \A T \in SUBSET S : it[T] = IF T = {} THEN 0 ELSE f[LastOf(T)] + it[T \ {LastOf(T)}]

(* n is the sum of the values of f over S. *)
IsSum(f, S, n) == \E it : SumsUp(f, S, it) /\ n = it[S]

(* Sums exist, over a finite set of natural numbers. *)
LEMMA SumExists ==
    ASSUME NEW S, IsFiniteSet(S), NEW f, \A x \in S : f[x] \in Nat
    PROVE  \E it \in [SUBSET S -> Nat] : SumsUp(f, S, it)
  <1> DEFINE P == [T \in SUBSET S |-> LastOf(T)]
             G == [p \in S \X Nat |-> f[p[1]] + p[2]]
  <1>1. \A T \in SUBSET S : T # {} => P[T] \in T /\ P[T] = LastOf(T)
    BY DEF LastOf
  <1>2. G \in [S \X Nat -> Nat] /\ \A x \in S, n \in Nat : G[<<x, n>>] = f[x] + n
    OBVIOUS
  <1> HIDE DEF P, G
  <1>3. PICK it \in [SUBSET S -> Nat] : \A T \in SUBSET S : it[T] = Round(P, G, 0, it, T)
    <2>1. Picks(P, S)
      BY <1>1 DEF Picks
    <2>2. \E it \in [SUBSET S -> Nat] : IsFold(P, G, 0, S, it)
      BY <1>2, <2>1, FoldExists
    <2> QED
      BY <2>2 DEF IsFold
  <1>4. SumsUp(f, S, it)
    <2> SUFFICES ASSUME NEW T \in SUBSET S
                 PROVE  it[T] = IF T = {} THEN 0 ELSE f[LastOf(T)] + it[T \ {LastOf(T)}]
      BY DEF SumsUp
    <2>1. CASE T = {}
      BY <1>3, <2>1 DEF Round
    <2>2. CASE T # {}
      <3>1. LastOf(T) \in S /\ P[T] = LastOf(T) /\ it[T \ {LastOf(T)}] \in Nat
        BY <1>1, <2>2
      <3>2. it[T] = G[<<LastOf(T), it[T \ {LastOf(T)}]>>]
        BY <1>3, <2>2, <3>1 DEF Round
      <3> QED
        BY <1>2, <2>2, <3>1, <3>2
    <2> QED
      BY <2>1, <2>2
  <1> QED
    BY <1>4

(* Two sums of the same values are the same, part by part. *)
LEMMA SumsAgree ==
    ASSUME NEW S, IsFiniteSet(S), NEW U, NEW W, S \subseteq U, S \subseteq W,
           NEW f, NEW g, \A x \in S : f[x] = g[x],
           NEW it, SumsUp(f, U, it), NEW jt, SumsUp(g, W, jt)
    PROVE  \A T \in SUBSET S : it[T] = jt[T]
  <1> DEFINE Bad == {T \in SUBSET S : it[T] # jt[T]}
  <1>1. ASSUME Bad # {} PROVE FALSE
    <2>1. PICK T \in Bad : \A x \in T : T \ {x} \notin Bad
      BY <1>1, SmallestSet
    <2>2. T \in SUBSET U /\ T \in SUBSET W /\ T \in SUBSET S /\ it[T] # jt[T]
      OBVIOUS
    <2>3. T # {}
      BY <2>2 DEF SumsUp
    <2>4. LastOf(T) \in T
      BY <2>3 DEF LastOf
    <2>5. it[T \ {LastOf(T)}] = jt[T \ {LastOf(T)}] /\ f[LastOf(T)] = g[LastOf(T)]
      BY <2>1, <2>4
    <2> QED
      BY <2>2, <2>3, <2>5 DEF SumsUp
  <1> QED
    BY <1>1

(* A sum depends on the values of the members only. *)
LEMMA SumUnique ==
    ASSUME NEW S, IsFiniteSet(S), NEW f, NEW g, \A x \in S : f[x] = g[x],
           NEW n, IsSum(f, S, n), NEW m, IsSum(g, S, m)
    PROVE  n = m
  <1>1. PICK it : SumsUp(f, S, it) /\ n = it[S]
    BY DEF IsSum
  <1>2. PICK jt : SumsUp(g, S, jt) /\ m = jt[S]
    BY DEF IsSum
  <1>3. it[S] = jt[S]
    BY <1>1, <1>2, SumsAgree
  <1> QED
    BY <1>1, <1>2, <1>3

TakesAny(f, S, it) == \A T \in SUBSET S : \A x \in T : it[T] = f[x] + it[T \ {x}]

(* A sum does not depend on the order: any member can be taken off first. *)
LEMMA SumTakesAny ==
    ASSUME NEW S, IsFiniteSet(S), NEW f, \A x \in S : f[x] \in Nat,
           NEW it \in [SUBSET S -> Nat], SumsUp(f, S, it)
    PROVE  TakesAny(f, S, it)
  <1> DEFINE Bad == {T \in SUBSET S : \E x \in T : it[T] # f[x] + it[T \ {x}]}
  <1>1. ASSUME Bad # {} PROVE FALSE
    <2>1. PICK T \in Bad : \A x \in T : T \ {x} \notin Bad
      BY <1>1, SmallestSet
    <2>2. PICK x \in T : it[T] # f[x] + it[T \ {x}]
      OBVIOUS
    <2> DEFINE y == LastOf(T)
    <2>3. y \in T
      BY <2>2 DEF LastOf
    <2>4. it[T] = f[y] + it[T \ {y}]
      BY <2>2 DEF SumsUp
    <2> HIDE DEF y
    <2>5. x # y
      BY <2>2, <2>4
    <2>6. T \ {y} \in SUBSET S /\ x \in T \ {y} /\ T \ {x} \in SUBSET S /\ y \in T \ {x}
      BY <2>3, <2>5
    <2>7. it[T \ {y}] = f[x] + it[(T \ {y}) \ {x}]
      BY <2>1, <2>3, <2>6
    <2>8. it[T \ {x}] = f[y] + it[(T \ {x}) \ {y}]
      BY <2>1, <2>2, <2>6
    <2>9. (T \ {x}) \ {y} = (T \ {y}) \ {x} /\ (T \ {x}) \ {y} \in SUBSET S
      BY <2>6
    <2>10. f[x] \in Nat /\ f[y] \in Nat /\ it[(T \ {x}) \ {y}] \in Nat
      BY <2>3, <2>9
    <2> DEFINE rest == it[(T \ {x}) \ {y}]
               fx == f[x]
               fy == f[y]
    <2>11. it[T \ {y}] = fx + rest /\ it[T \ {x}] = fy + rest
      BY <2>7, <2>8, <2>9
    <2>12. fx \in Nat /\ fy \in Nat /\ rest \in Nat
      BY <2>10
    <2>13. it[T] = fy + it[T \ {y}] /\ it[T] # fx + it[T \ {x}]
      BY <2>2, <2>4
    <2> HIDE DEF rest, fx, fy
    <2>14. it[T] = fy + (fx + rest) /\ it[T] # fx + (fy + rest)
      BY <2>11, <2>13
    <2> QED
      BY <2>12, <2>14
  <1> QED
    BY <1>1 DEF TakesAny

(* What two value functions are on a set. *)
NatOn(f, S) == \A x \in S : f[x] \in Nat
SameOn(f, g, S) == \A x \in S : f[x] = g[x]

(* The sum over a set with one more member. *)
LEMMA SumAdds ==
    ASSUME NEW S, IsFiniteSet(S), NEW x, x \notin S, NEW T, T = S \cup {x},
           NEW f, NatOn(f, T), NEW n, IsSum(f, S, n), NEW m, IsSum(f, T, m)
    PROVE  m = f[x] + n
  <1>0. \A y \in S \cup {x} : f[y] \in Nat
    BY DEF NatOn
  <1>1. IsFiniteSet(S \cup {x})
    BY FS_AddElement
  <1>2. PICK it \in [SUBSET (S \cup {x}) -> Nat] : SumsUp(f, S \cup {x}, it)
    BY <1>0, <1>1, SumExists
  <1>3. PICK jt : SumsUp(f, S, jt) /\ n = jt[S]
    BY DEF IsSum
  <1>4. it[S] = jt[S]
    BY <1>2, <1>3, SumsAgree
  <1>5. it[S \cup {x}] = f[x] + it[(S \cup {x}) \ {x}]
    <2>1. TakesAny(f, S \cup {x}, it)
      BY <1>0, <1>1, <1>2, SumTakesAny
    <2> QED
      BY <2>1 DEF TakesAny
  <1>6. (S \cup {x}) \ {x} = S
    OBVIOUS
  <1>7. IsSum(f, T, it[T]) /\ IsFiniteSet(T)
    BY <1>1, <1>2 DEF IsSum
  <1>8. m = it[S \cup {x}]
    BY <1>7, SumUnique
  <1> QED
    BY <1>3, <1>4, <1>5, <1>6, <1>8

(* A sum of natural numbers is one, and that over nothing is 0. *)
LEMMA SumIsNat ==
    ASSUME NEW S, IsFiniteSet(S), NEW f, \A x \in S : f[x] \in Nat, NEW n, IsSum(f, S, n)
    PROVE  n \in Nat /\ (S = {} => n = 0)
  <1>1. PICK it \in [SUBSET S -> Nat] : SumsUp(f, S, it)
    BY SumExists
  <1>2. IsSum(f, S, it[S]) /\ it[S] \in Nat
    BY <1>1 DEF IsSum
  <1>3. n = it[S]
    BY <1>2, SumUnique
  <1>4. S = {} => it[S] = 0
    BY <1>1 DEF SumsUp
  <1> QED
    BY <1>2, <1>3, <1>4

(* The value of one member changes. *)
LEMMA SumUpdate ==
    ASSUME NEW S, IsFiniteSet(S), NEW x \in S, NEW f, NEW g,
           NatOn(f, S), NatOn(g, S), \A y \in S : y = x \/ f[y] = g[y],
           NEW n, IsSum(f, S, n), NEW m, IsSum(g, S, m)
    PROVE  n + g[x] = m + f[x]
  <1>0. /\ \A y \in S : f[y] \in Nat /\ g[y] \in Nat
        /\ \A y \in S : y # x => f[y] = g[y]
    BY DEF NatOn, SameOn
  <1>1. PICK it \in [SUBSET S -> Nat] : SumsUp(f, S, it)
    BY <1>0, SumExists
  <1>2. PICK jt \in [SUBSET S -> Nat] : SumsUp(g, S, jt)
    BY <1>0, SumExists
  <1> DEFINE R == S \ {x}
  <1>3. R \subseteq S /\ R \in SUBSET R /\ \A y \in R : f[y] = g[y]
    BY <1>0
  <1>4. IsFiniteSet(R)
    BY FS_RemoveElement
  <1>5. it[R] = jt[R]
    <2> HIDE DEF R
    <2> QED
      BY <1>1, <1>2, <1>3, <1>4, SumsAgree
  <1>6. S \in SUBSET S
    OBVIOUS
  <1>7. it[S] = f[x] + it[R] /\ jt[S] = g[x] + jt[R]
    <2>1. (\A y \in S : f[y] \in Nat) /\ (\A y \in S : g[y] \in Nat)
      BY <1>0
    <2>2. TakesAny(f, S, it) /\ TakesAny(g, S, jt)
      BY <1>1, <1>2, <2>1, SumTakesAny
    <2> QED
      BY <1>6, <2>2 DEF TakesAny
  <1>8. n = it[S] /\ m = jt[S]
    <2>1. IsSum(f, S, it[S]) /\ IsSum(g, S, jt[S])
      BY <1>1, <1>2 DEF IsSum
    <2> QED
      BY <2>1, SumUnique
  <1> DEFINE rest == it[R]
  <1>9. rest \in Nat /\ f[x] \in Nat /\ g[x] \in Nat
    BY <1>0, <1>3
  <1>10. n = f[x] + rest /\ m = g[x] + rest
    BY <1>5, <1>7, <1>8
  <1> HIDE DEF rest, R
  <1> QED
    BY <1>9, <1>10

(* Members that add nothing. *)
LEMMA SumIgnoresZeros ==
    ASSUME NEW T, IsFiniteSet(T), NEW S \in SUBSET T, NEW f, NEW g,
           NatOn(g, T), SameOn(f, g, S), \A y \in T \ S : g[y] = 0,
           NEW n, IsSum(f, S, n), NEW m, IsSum(g, T, m)
    PROVE  n = m
  <1>0. (\A y \in T : g[y] \in Nat) /\ (\A y \in S : f[y] = g[y])
    BY DEF NatOn, SameOn
  <1>1. PICK jt \in [SUBSET T -> Nat] : SumsUp(g, T, jt)
    BY <1>0, SumExists
  <1>2. IsFiniteSet(S)
    BY FS_Subset
  <1> DEFINE Bad == {U \in SUBSET T : jt[U] # jt[U \cap S]}
  <1>3. ASSUME Bad # {} PROVE FALSE
    <2>0. Bad \in SUBSET (SUBSET T)
      OBVIOUS
    <2> HIDE DEF Bad
    <2>1. PICK U \in Bad : \A x \in U : U \ {x} \notin Bad
      BY <1>3, <2>0, SmallestSet
    <2>2. U \in SUBSET T /\ jt[U] # jt[U \cap S]
      BY DEF Bad
    <2>3. U \cap S # U
      BY <2>2
    <2>4. PICK x \in U : x \notin S
      BY <2>3
    <2>5. g[x] = 0 /\ U \ {x} \in SUBSET T /\ (U \ {x}) \cap S = U \cap S
      BY <2>2, <2>4
    <2>6. jt[U] = g[x] + jt[U \ {x}] /\ jt[U \ {x}] \in Nat
      <3>1. TakesAny(g, T, jt)
        BY <1>0, <1>1, SumTakesAny
      <3> QED
        BY <2>2, <2>5, <3>1 DEF TakesAny
    <2>7. jt[U \ {x}] = jt[(U \ {x}) \cap S]
      BY <2>1, <2>5 DEF Bad
    <2>8. jt[U] = jt[U \ {x}]
      BY <2>5, <2>6
    <2>9. jt[U \ {x}] = jt[U \cap S]
      BY <2>5, <2>7
    <2> QED
      BY <2>2, <2>8, <2>9
  <1>4. T \in SUBSET T /\ T \cap S = S /\ S \in SUBSET S /\ S \subseteq T
    OBVIOUS
  <1>5. jt[T] = jt[S]
    BY <1>3, <1>4
  <1>6. PICK it : SumsUp(f, S, it) /\ n = it[S]
    BY DEF IsSum
  <1>7. it[S] = jt[S]
    BY <1>0, <1>1, <1>2, <1>4, <1>6, SumsAgree
  <1>8. IsSum(g, T, jt[T])
    BY <1>1 DEF IsSum
  <1>9. m = jt[T]
    BY <1>8, SumUnique
  <1> QED
    BY <1>5, <1>6, <1>7, <1>9

-----------------------------------------------------------------------------
(* SetToSeq lists a finite set, each member once. *)
LEMMA SetToSeqLists ==
    ASSUME NEW S, IsFiniteSet(S)
    PROVE  /\ Cardinality(S) \in Nat
           /\ SetToSeq(S) \in [1..Cardinality(S) -> S]
           /\ \A i \in 1..Cardinality(S) : \A j \in 1..Cardinality(S) :
                 SetToSeq(S)[i] = SetToSeq(S)[j] => i = j
           /\ \A x \in S : \E i \in 1..Cardinality(S) : SetToSeq(S)[i] = x
  <1> DEFINE n == Cardinality(S)
             q == SetToSeq(S)
  <1>1. n \in Nat /\ ExistsBijection(1..n, S)
    BY FS_CardinalityType
  <1>2. \E f \in [1..n -> S] : IsInjective(f)
    BY <1>1 DEF ExistsBijection, Bijection, Injection
  <1>3. q \in [1..n -> S] /\ IsInjective(q)
    BY <1>2, Zenon DEF SetToSeq
  <1>4. IsFiniteSet(1..n) /\ Cardinality(1..n) = n
    BY <1>1, FS_Interval
  <1>5. q \in Injection(1..n, S)
    BY <1>3 DEF Injection
  <1>6. q \in Surjection(1..n, S)
    <2>1. Cardinality(1..n) = Cardinality(S)
      BY <1>4
    <2> HIDE DEF q, n
    <2> QED
      BY <1>4, <1>5, <2>1, FS_Injection
  <1>7. \A i \in 1..n : \A j \in 1..n : q[i] = q[j] => i = j
    BY <1>3 DEF IsInjective
  <1>8. \A x \in S : \E i \in 1..n : q[i] = x
    BY <1>6 DEF Surjection
  <1> QED
    BY <1>1, <1>3, <1>7, <1>8
=============================================================================
