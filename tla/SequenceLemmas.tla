---------------------------- MODULE SequenceLemmas ----------------------------
(***************************************************************************)
(* Induction over the natural numbers and over sequences, for a set of those    *)
(* that have the property, and the recursion theorem it gives: a function that  *)
(* is defined step by step along 0 .. n exists.  Then what joining and splitting *)
(* a sequence does to the number of its elements in a set, and what a queue says *)
(* of the things that some of its elements begin and others settle, or which of   *)
(* them are behind which.  The other proofs take from here what they need of the  *)
(* model's queues and of the loops over them.                                  *)
(***************************************************************************)
EXTENDS Integers, Sequences, FiniteSets, SequenceTheorems, FiniteSetTheorems,
        WellFoundedInduction, TLAPS

(* A set of numbers that is not empty has a least one.                          *)
LEMMA LeastNumber ==
    ASSUME NEW S \in SUBSET Nat, S # {}
    PROVE  \E m \in S : \A k \in S : m <= k
<1> DEFINE R == OpToRel(<, Nat)
<1>1. IsWellFoundedOn(R, Nat)
  BY NatLessThanWellFounded
<1>2. \E x \in S : \A y \in S : ~(<<y, x>> \in R)
  <2> HIDE DEF R
  <2> QED
    BY <1>1, WFMin
<1>3. PICK x \in S : \A y \in S : ~(<<y, x>> \in R)
  BY <1>2
<1>4. ASSUME NEW y \in S PROVE x <= y
  <2>1. y \in Nat /\ x \in Nat
    OBVIOUS
  <2>2. ~(y < x)
    BY <1>3, <2>1 DEF OpToRel
  <2> QED
    BY <2>1, <2>2
<1> QED
  BY <1>4

(* A set that holds 0, and with a number below n the next one, holds 0 .. n.     *)
LEMMA NumberInduction ==
    ASSUME NEW n \in Nat, NEW P, 0 \in P,
           \A i \in 0 .. n : i \in P /\ i < n => i + 1 \in P
    PROVE  \A i \in 0 .. n : i \in P
<1> DEFINE missed == {i \in 0 .. n : i \notin P}
<1> SUFFICES ASSUME missed # {} PROVE FALSE
  OBVIOUS
<1>1. missed \in SUBSET Nat
  OBVIOUS
<1>2. PICK m \in missed : \A k \in missed : m <= k
  <2> HIDE DEF missed
  <2> QED
    BY <1>1, LeastNumber
<1>3. m # 0 /\ m \in 0 .. n
  OBVIOUS
<1>4. m - 1 \in 0 .. n /\ m - 1 < n /\ ~(m <= m - 1)
  BY <1>3
<1>5. m - 1 \in P
  BY <1>2, <1>4
<1> QED
  BY <1>3, <1>4, <1>5

(* A set of sequences that holds the empty one, and with a sequence every one      *)
(* that is longer by an element, holds them all.                               *)
LEMMA SequenceInduction ==
    ASSUME NEW E, NEW P, <<>> \in P,
           \A q \in Seq(E), e \in E : q \in P => Append(q, e) \in P
    PROVE  \A q \in Seq(E) : q \in P
<1> SUFFICES ASSUME NEW q \in Seq(E) PROVE q \in P
  OBVIOUS
<1> DEFINE prefixes == {i \in 0 .. Len(q) : SubSeq(q, 1, i) \in P}
<1>1. 0 \in prefixes
  <2>1. SubSeq(q, 1, 0) = <<>> /\ Len(q) \in Nat
    BY LenProperties
  <2>2. 0 \in 0 .. Len(q)
    BY <2>1
  <2> QED
    BY <2>1, <2>2, Zenon
<1>2. ASSUME NEW i \in 0 .. Len(q), i \in prefixes, i < Len(q)
      PROVE  i + 1 \in prefixes
  <2>1. i + 1 \in 1 .. Len(q) /\ i + 1 \in Nat
    BY <1>2
  <2>2. SubSeq(q, 1, i) \in Seq(E) /\ q[i + 1] \in E
    BY <2>1, SubSeqProperties, ElementOfSeq
  <2>3. SubSeq(q, 1, i + 1) = Append(SubSeq(q, 1, i), q[i + 1])
    BY <2>1, SubSeqProperties, AppendProperties
  <2>4. Append(SubSeq(q, 1, i), q[i + 1]) \in P
    BY <1>2, <2>2
  <2>5. i + 1 \in 0 .. Len(q)
    BY <2>1
  <2> QED
    BY <2>3, <2>4, <2>5, Zenon
<1>3. Len(q) \in prefixes
  <2> HIDE DEF prefixes
  <2>1. Len(q) \in Nat
    BY LenProperties
  <2>2. \A i \in 0 .. Len(q) : i \in prefixes
    BY <1>1, <1>2, <2>1, NumberInduction
  <2> QED
    BY <2>1, <2>2
<1>4. SubSeq(q, 1, Len(q)) = q
  BY SubSeqProperties
<1> QED
  BY <1>3, <1>4

(* A loop over 1 .. n: a value to begin with, and what each round makes of the       *)
(* value so far.                                                            *)
Loop(V, n, b, G) == b \in V /\ n \in Nat /\ G \in [1 .. n -> [V -> V]]

(* The values after 0, 1, .. n rounds.                                        *)
Computes(V, n, b, G, g) ==
    g \in [0 .. n -> V] /\ g[0] = b /\ \A i \in 1 .. n : g[i] = G[i][g[i - 1]]

(* Every loop computes something: what is defined at 0, and at i from its value     *)
(* at i - 1, is a function.                                                  *)
LEMMA LoopComputes ==
    ASSUME NEW V, NEW n, NEW b, NEW G, Loop(V, n, b, G)
    PROVE  \E g : Computes(V, n, b, G, g)
<1>0. b \in V /\ n \in Nat /\ G \in [1 .. n -> [V -> V]]
  BY DEF Loop
<1> USE <1>0
<1> DEFINE upTo(g, k) == g[0] = b /\ \A i \in 1 .. k : g[i] = G[i][g[i - 1]]
           P == {k \in 0 .. n : \E g \in [0 .. k -> V] : upTo(g, k)}
<1>1. 0 \in P
  <2> DEFINE g == [i \in 0 .. 0 |-> b]
  <2>1. g \in [0 .. 0 -> V] /\ upTo(g, 0)
    OBVIOUS
  <2> HIDE DEF g
  <2>2. 0 \in 0 .. n
    OBVIOUS
  <2> QED
    BY <2>1, <2>2
<1>2. ASSUME NEW k \in 0 .. n, k \in P, k < n
      PROVE  k + 1 \in P
  <2>1. PICK g \in [0 .. k -> V] : upTo(g, k)
    BY <1>2
  <2> DEFINE h == [i \in 0 .. k + 1 |-> IF i = k + 1 THEN G[k + 1][g[k]] ELSE g[i]]
  <2>2. k + 1 \in 1 .. n /\ g[k] \in V
    BY <1>2
  <2>3. G[k + 1][g[k]] \in V
    BY <2>2
  <2>4. h \in [0 .. k + 1 -> V]
    BY <2>3
  <2>5. h[0] = b
    BY <2>1
  <2>6. ASSUME NEW i \in 1 .. k + 1 PROVE h[i] = G[i][h[i - 1]]
    <3>1. CASE i = k + 1
      <4>1. k \in 0 .. k + 1 /\ k # k + 1 /\ k + 1 \in 0 .. k + 1 /\ i - 1 = k
        BY <3>1
      <4>2. h[i] = G[k + 1][g[k]] /\ h[k] = g[k]
        BY <3>1, <4>1
      <4> QED
        BY <3>1, <4>1, <4>2
    <3>2. CASE i # k + 1
      <4>1. i \in 1 .. k /\ i - 1 \in 0 .. k
        BY <3>2
      <4>2. h[i] = g[i] /\ h[i - 1] = g[i - 1]
        BY <4>1
      <4> QED
        BY <2>1, <4>1, <4>2
    <3> QED
      BY <3>1, <3>2
  <2> HIDE DEF h
  <2> QED
    BY <2>2, <2>4, <2>5, <2>6
<1>3. n \in P
  <2> HIDE DEF P
  <2>1. \A k \in 0 .. n : k \in P
    BY <1>1, <1>2, NumberInduction
  <2> QED
    BY <2>1
<1> QED
  BY <1>3 DEF Computes

-----------------------------------------------------------------------------
(*                        Counting in a sequence                            *)

(* How many elements of q are in S.                                            *)
Hits(q, S) == Cardinality({i \in 1 .. Len(q) : q[i] \in S})

LEMMA HitsType ==
    ASSUME NEW E, NEW q \in Seq(E), NEW S
    PROVE  Hits(q, S) \in Nat /\ IsFiniteSet({i \in 1 .. Len(q) : q[i] \in S})
<1>1. Len(q) \in Nat
  BY LenProperties
<1>2. IsFiniteSet(1 .. Len(q))
  BY <1>1, FS_Interval
<1>3. IsFiniteSet({i \in 1 .. Len(q) : q[i] \in S})
  BY <1>2, FS_Subset
<1> QED
  BY <1>3, FS_CardinalityType DEF Hits

LEMMA HitsEmpty == \A S : Hits(<<>>, S) = 0
<1> SUFFICES ASSUME NEW S PROVE Hits(<<>>, S) = 0
  OBVIOUS
<1>1. {i \in 1 .. Len(<<>>) : <<>>[i] \in S} = {}
  OBVIOUS
<1> QED
  BY <1>1, FS_EmptySet DEF Hits

(* An element more is a hit more, or none.                                     *)
LEMMA HitsAppend ==
    ASSUME NEW E, NEW q \in Seq(E), NEW e \in E, NEW S
    PROVE  Hits(Append(q, e), S) = Hits(q, S) + (IF e \in S THEN 1 ELSE 0)
<1> DEFINE A == {i \in 1 .. Len(q) : q[i] \in S}
           B == {i \in 1 .. Len(Append(q, e)) : Append(q, e)[i] \in S}
           n == Len(q) + 1
<1>1. /\ Len(q) \in Nat /\ Len(Append(q, e)) = n
      /\ \A i \in 1 .. Len(q) : Append(q, e)[i] = q[i]
      /\ Append(q, e)[n] = e
  BY LenProperties, AppendProperties
<1>0. Hits(q, S) = Cardinality(A) /\ Hits(Append(q, e), S) = Cardinality(B)
  BY DEF Hits
<1>2. IsFiniteSet(A) /\ Cardinality(A) \in Nat
  BY HitsType DEF Hits
<1>3. n \notin A
  BY <1>1
<1>4. CASE e \in S
  <2>1. B = A \cup {n}
    BY <1>1, <1>4
  <2>2. Cardinality(A \cup {n}) = Cardinality(A) + 1
    BY <1>2, <1>3, FS_AddElement
  <2> HIDE DEF A, B
  <2> QED
    BY <1>0, <1>4, <2>1, <2>2
<1>5. CASE e \notin S
  <2>1. B = A
    BY <1>1, <1>5
  <2> HIDE DEF A, B
  <2> QED
    BY <1>0, <1>2, <1>5, <2>1
<1> QED
  BY <1>4, <1>5

LEMMA HitsConcat ==
    ASSUME NEW E, NEW q \in Seq(E), NEW s \in Seq(E), NEW S
    PROVE  Hits(q \o s, S) = Hits(q, S) + Hits(s, S)
<1> DEFINE P == {u \in Seq(E) : Hits(q \o u, S) = Hits(q, S) + Hits(u, S)}
<1>1. <<>> \in P
  <2>1. <<>> \in Seq(E) /\ q \o <<>> = q
    BY EmptySeq, ConcatEmptySeq
  <2>2. Hits(q, S) \in Nat /\ Hits(<<>>, S) = 0
    BY HitsEmpty, HitsType
  <2> HIDE DEF Hits
  <2> QED
    BY <2>1, <2>2
<1>2. ASSUME NEW u \in Seq(E), NEW e \in E, u \in P PROVE Append(u, e) \in P
  <2>1. q \o u \in Seq(E) /\ Append(u, e) \in Seq(E)
    BY ConcatProperties, AppendProperties
  <2>2. q \o Append(u, e) = Append(q \o u, e)
    <3>1. Append(u, e) = u \o <<e>> /\ Append(q \o u, e) = (q \o u) \o <<e>>
      BY <2>1, AppendIsConcat
    <3>2. <<e>> \in Seq(E)
      OBVIOUS
    <3> QED
      BY <3>1, <3>2, ConcatAssociative
  <2>3. Hits(Append(q \o u, e), S) = Hits(q \o u, S) + (IF e \in S THEN 1 ELSE 0)
    BY <2>1, HitsAppend
  <2>4. Hits(Append(u, e), S) = Hits(u, S) + (IF e \in S THEN 1 ELSE 0)
    BY HitsAppend
  <2>5. Hits(q, S) \in Nat /\ Hits(u, S) \in Nat
    BY HitsType
  <2>6. Hits(q \o u, S) = Hits(q, S) + Hits(u, S)
    BY <1>2
  <2>7. Hits(q \o Append(u, e), S) = Hits(q, S) + Hits(Append(u, e), S)
    <3>1. CASE e \in S
      BY <3>1, <2>2, <2>3, <2>4, <2>5, <2>6
    <3>2. CASE e \notin S
      BY <3>2, <2>2, <2>3, <2>4, <2>5, <2>6
    <3> QED
      BY <3>1, <3>2
  <2> QED
    BY <2>1, <2>7
<1>3. s \in P
  <2> HIDE DEF P
  <2> QED
    BY <1>1, <1>2, SequenceInduction
<1> QED
  BY <1>3

LEMMA HitsHead ==
    ASSUME NEW E, NEW q \in Seq(E), q # <<>>, NEW S
    PROVE  Hits(q, S) = (IF Head(q) \in S THEN 1 ELSE 0) + Hits(Tail(q), S)
<1>1. Head(q) \in E /\ Tail(q) \in Seq(E)
  BY HeadTailProperties
<1>2. <<Head(q)>> \in Seq(E) /\ q = <<Head(q)>> \o Tail(q)
  BY <1>1, SMTT(20)
<1>3. Hits(<<Head(q)>>, S) = IF Head(q) \in S THEN 1 ELSE 0
  <2>1. <<Head(q)>> = Append(<<>>, Head(q)) /\ <<>> \in Seq(E)
    OBVIOUS
  <2>2. Hits(Append(<<>>, Head(q)), S) = Hits(<<>>, S) + (IF Head(q) \in S THEN 1 ELSE 0)
    BY <1>1, <2>1, HitsAppend
  <2>3. Hits(<<>>, S) = 0
    BY HitsEmpty
  <2> HIDE DEF Hits
  <2> QED
    BY <2>1, <2>2, <2>3
<1>4. Hits(<<Head(q)>> \o Tail(q), S) = Hits(<<Head(q)>>, S) + Hits(Tail(q), S)
  BY <1>1, <1>2, HitsConcat
<1> QED
  BY <1>2, <1>3, <1>4

LEMMA HitsSplit ==
    ASSUME NEW E, NEW q \in Seq(E), NEW n \in 0 .. Len(q), NEW S
    PROVE  Hits(q, S) = Hits(SubSeq(q, 1, n), S) + Hits(SubSeq(q, n + 1, Len(q)), S)
<1>0. Len(q) \in Nat
  BY LenProperties
<1>1. SubSeq(q, 1, n) \in Seq(E) /\ SubSeq(q, n + 1, Len(q)) \in Seq(E)
  BY <1>0, SubSeqProperties
<1>2. q = SubSeq(q, 1, n) \o SubSeq(q, n + 1, Len(q))
  <2>1. 1 \in 1 .. Len(q) + 1 /\ n \in 1 - 1 .. Len(q) /\ Len(q) \in n .. Len(q)
    BY <1>0
  <2>2. SubSeq(q, 1, n) \o SubSeq(q, n + 1, Len(q)) = SubSeq(q, 1, Len(q))
    BY <2>1, ConcatAdjacentSubSeq
  <2> QED
    BY <2>2, SubSeqFull
<1>3. Hits(SubSeq(q, 1, n) \o SubSeq(q, n + 1, Len(q)), S)
        = Hits(SubSeq(q, 1, n), S) + Hits(SubSeq(q, n + 1, Len(q)), S)
  BY <1>1, HitsConcat
<1> QED
  BY <1>2, <1>3

LEMMA HitsAll ==
    ASSUME NEW E, NEW q \in Seq(E), NEW S, \A i \in 1 .. Len(q) : q[i] \in S
    PROVE  Hits(q, S) = Len(q)
<1>1. Len(q) \in Nat
  BY LenProperties
<1>2. {i \in 1 .. Len(q) : q[i] \in S} = 1 .. Len(q)
  OBVIOUS
<1>3. Cardinality(1 .. Len(q)) = Len(q)
  BY <1>1, FS_Interval
<1> QED
  BY <1>2, <1>3 DEF Hits

LEMMA HitsNone ==
    ASSUME NEW E, NEW q \in Seq(E), NEW S
    PROVE  Hits(q, S) = 0 <=> \A i \in 1 .. Len(q) : q[i] \notin S
<1> DEFINE A == {i \in 1 .. Len(q) : q[i] \in S}
<1>1. Hits(q, S) = Cardinality(A)
  BY DEF Hits
<1>2. IsFiniteSet(A)
  BY HitsType
<1>3. Cardinality(A) = 0 <=> A = {}
  BY <1>2, FS_EmptySet
<1> QED
  BY <1>1, <1>3

-----------------------------------------------------------------------------
(*                    What is outstanding in a queue                        *)

(* At the j-th place of q nothing of X is outstanding: whatever of X comes before   *)
(* it, or had come before the queue began, is followed by something of Z.         *)
Between(q, i, j, Z) == \E k \in i + 1 .. j - 1 : q[k] \in Z

Settled(q, begun, X, Z, j) ==
    /\ begun => Between(q, 0, j, Z)
    /\ \A i \in 1 .. j - 1 : q[i] \in X => Between(q, i, j, Z)

(* So it is wherever something of Y comes, and at the end of q.                    *)
SettledAtAll(q, begun, X, Z, Y) == \A j \in 1 .. Len(q) : q[j] \in Y => Settled(q, begun, X, Z, j)

SettledAtEnd(q, begun, X, Z) == Settled(q, begun, X, Z, Len(q) + 1)

(* After q is joined with s, the places of q are what they were.                  *)
LEMMA SettledJoins ==
    ASSUME NEW E, NEW q \in Seq(E), NEW s \in Seq(E), NEW X, NEW Z, NEW b \in BOOLEAN,
           NEW j \in 1 .. Len(q) + 1, Settled(q, b, X, Z, j)
    PROVE  Settled(q \o s, b, X, Z, j)
<1> DEFINE u == q \o s
<1>1. Len(q) \in Nat /\ \A k \in 1 .. Len(q) : u[k] = q[k]
  BY LenProperties, ConcatProperties
<1> HIDE DEF u
<1>2. ASSUME NEW i \in 0 .. j - 1, Between(q, i, j, Z) PROVE Between(u, i, j, Z)
  <2>1. PICK k \in i + 1 .. j - 1 : q[k] \in Z
    BY <1>2 DEF Between
  <2>2. k \in 1 .. Len(q)
    BY <1>1
  <2> QED
    BY <1>1, <2>1, <2>2 DEF Between
<1>3. b => Between(u, 0, j, Z)
  BY <1>2 DEF Settled
<1>4. ASSUME NEW i \in 1 .. j - 1, u[i] \in X PROVE Between(u, i, j, Z)
  <2>1. i \in 1 .. Len(q)
    BY <1>1
  <2>2. Between(q, i, j, Z)
    BY <1>1, <1>4, <2>1 DEF Settled
  <2> QED
    BY <1>2, <2>2
<1>5. Settled(u, b, X, Z, j)
  BY <1>3, <1>4 DEF Settled
<1> QED
  BY <1>5 DEF u

(* The head of q is taken: what was outstanding before, or is it now, was settled.  *)
LEMMA SettledTail ==
    ASSUME NEW E, NEW q \in Seq(E), q # <<>>, NEW X, NEW Z, NEW b \in BOOLEAN, NEW c \in BOOLEAN,
           c => (b /\ Head(q) \notin Z) \/ Head(q) \in X,
           NEW j \in 2 .. Len(q) + 1, Settled(q, b, X, Z, j)
    PROVE  Settled(Tail(q), c, X, Z, j - 1)
<1> DEFINE u == Tail(q)
<1>1. /\ Len(q) \in Nat /\ Len(u) = Len(q) - 1 /\ Head(q) = q[1]
      /\ \A k \in 1 .. Len(u) : u[k] = q[k + 1]
  BY LenProperties, HeadTailProperties
<1> HIDE DEF u
<1>2. ASSUME NEW i \in 0 .. j - 2, Between(q, i + 1, j, Z) PROVE Between(u, i, j - 1, Z)
  <2>1. PICK k \in i + 2 .. j - 1 : q[k] \in Z
    BY <1>2 DEF Between
  <2>2. k - 1 \in 1 .. Len(u) /\ k - 1 \in i + 1 .. j - 1 - 1 /\ (k - 1) + 1 = k
    BY <1>1
  <2> QED
    BY <1>1, <2>1, <2>2 DEF Between
<1>3. ASSUME c PROVE Between(u, 0, j - 1, Z)
  <2>1. CASE Head(q) \in X
    <3>1. Between(q, 1, j, Z)
      BY <1>1, <2>1 DEF Settled
    <3> QED
      BY <1>2, <3>1
  <2>2. CASE b /\ Head(q) \notin Z
    <3>1. PICK k \in 0 + 1 .. j - 1 : q[k] \in Z
      BY <2>2 DEF Settled, Between
    <3>2. k # 1
      BY <1>1, <2>2, <3>1
    <3>3. k \in 1 + 1 .. j - 1
      BY <3>1, <3>2
    <3>4. Between(q, 0 + 1, j, Z)
      BY <3>1, <3>3 DEF Between
    <3> QED
      BY <1>2, <3>4
  <2> QED
    BY <1>3, <2>1, <2>2
<1>4. ASSUME NEW i \in 1 .. j - 1 - 1, u[i] \in X PROVE Between(u, i, j - 1, Z)
  <2>1. i \in 1 .. Len(u) /\ i + 1 \in 1 .. j - 1 /\ i \in 0 .. j - 2
    BY <1>1
  <2>2. Between(q, i + 1, j, Z)
    BY <1>1, <1>4, <2>1 DEF Settled
  <2> QED
    BY <1>2, <2>1, <2>2
<1>5. Settled(u, c, X, Z, j - 1)
  BY <1>3, <1>4 DEF Settled
<1> QED
  BY <1>5 DEF u

LEMMA SettledAtAllTail ==
    ASSUME NEW E, NEW q \in Seq(E), q # <<>>, NEW X, NEW Y, NEW Z, NEW b \in BOOLEAN, NEW c \in BOOLEAN,
           c => (b /\ Head(q) \notin Z) \/ Head(q) \in X,
           SettledAtAll(q, b, X, Z, Y)
    PROVE  SettledAtAll(Tail(q), c, X, Z, Y)
<1> SUFFICES ASSUME NEW j \in 1 .. Len(Tail(q)), Tail(q)[j] \in Y
             PROVE  Settled(Tail(q), c, X, Z, j)
  BY DEF SettledAtAll
<1>1. Len(q) \in Nat /\ Len(Tail(q)) = Len(q) - 1 /\ Tail(q)[j] = q[j + 1]
  BY LenProperties, HeadTailProperties
<1>2. j + 1 \in 2 .. Len(q) + 1 /\ j + 1 \in 1 .. Len(q) /\ (j + 1) - 1 = j
  BY <1>1
<1>3. Settled(q, b, X, Z, j + 1)
  BY <1>1, <1>2 DEF SettledAtAll
<1>4. Settled(Tail(q), c, X, Z, (j + 1) - 1)
  BY <1>2, <1>3, SettledTail
<1> QED
  BY <1>2, <1>4

LEMMA SettledAtEndTail ==
    ASSUME NEW E, NEW q \in Seq(E), q # <<>>, NEW X, NEW Z, NEW b \in BOOLEAN, NEW c \in BOOLEAN,
           c => (b /\ Head(q) \notin Z) \/ Head(q) \in X,
           SettledAtEnd(q, b, X, Z)
    PROVE  SettledAtEnd(Tail(q), c, X, Z)
<1>1. Len(q) \in Nat /\ Len(q) > 0 /\ Len(Tail(q)) = Len(q) - 1
  BY LenProperties, HeadTailProperties, EmptySeq
<1>2. Len(q) + 1 \in 2 .. Len(q) + 1 /\ (Len(q) + 1) - 1 = Len(Tail(q)) + 1
  BY <1>1
<1>3. Settled(Tail(q), c, X, Z, (Len(q) + 1) - 1)
  BY <1>2, SettledTail DEF SettledAtEnd
<1> QED
  BY <1>2, <1>3 DEF SettledAtEnd

(* What is joined brings nothing of Y.                                         *)
LEMMA SettledAtAllJoins ==
    ASSUME NEW E, NEW q \in Seq(E), NEW s \in Seq(E), NEW X, NEW Y, NEW Z, NEW b \in BOOLEAN,
           SettledAtAll(q, b, X, Z, Y), \A i \in 1 .. Len(s) : s[i] \notin Y
    PROVE  SettledAtAll(q \o s, b, X, Z, Y)
<1> SUFFICES ASSUME NEW j \in 1 .. Len(q \o s), (q \o s)[j] \in Y
             PROVE  Settled(q \o s, b, X, Z, j)
  BY DEF SettledAtAll
<1>1. /\ Len(q) \in Nat /\ Len(s) \in Nat /\ Len(q \o s) = Len(q) + Len(s)
      /\ (q \o s)[j] = IF j <= Len(q) THEN q[j] ELSE s[j - Len(q)]
  BY LenProperties, ConcatProperties
<1>2. CASE j <= Len(q)
  <2>1. j \in 1 .. Len(q) /\ j \in 1 .. Len(q) + 1
    BY <1>1, <1>2
  <2>2. Settled(q, b, X, Z, j)
    BY <1>1, <1>2, <2>1 DEF SettledAtAll
  <2> QED
    BY <2>1, <2>2, SettledJoins
<1>3. CASE ~(j <= Len(q))
  <2>1. j - Len(q) \in 1 .. Len(s)
    BY <1>1, <1>3
  <2> QED
    BY <1>1, <1>3, <2>1
<1> QED
  BY <1>2, <1>3

(* What is joined brings nothing of X.                                         *)
LEMMA SettledAtEndJoins ==
    ASSUME NEW E, NEW q \in Seq(E), NEW s \in Seq(E), NEW X, NEW Z, NEW b \in BOOLEAN,
           SettledAtEnd(q, b, X, Z), \A i \in 1 .. Len(s) : s[i] \notin X
    PROVE  SettledAtEnd(q \o s, b, X, Z)
<1> DEFINE u == q \o s
           n == Len(q) + 1
           m == Len(u) + 1
<1>1. /\ Len(q) \in Nat /\ Len(s) \in Nat /\ Len(u) = Len(q) + Len(s)
      /\ \A i \in 1 .. Len(u) : u[i] = IF i <= Len(q) THEN q[i] ELSE s[i - Len(q)]
  BY LenProperties, ConcatProperties
<1>2. Settled(u, b, X, Z, n)
  <2>1. n \in 1 .. Len(q) + 1
    BY <1>1
  <2> QED
    BY <2>1, SettledJoins DEF SettledAtEnd
<1> HIDE DEF u
<1>3. n \in Nat /\ m \in Nat /\ n <= m
  BY <1>1
<1>4. ASSUME NEW i \in 0 .. n - 1, Between(u, i, n, Z) PROVE Between(u, i, m, Z)
  <2>1. PICK k \in i + 1 .. n - 1 : u[k] \in Z
    BY <1>4 DEF Between
  <2>2. k \in i + 1 .. m - 1
    BY <1>3
  <2> QED
    BY <2>1, <2>2 DEF Between
<1>5. b => Between(u, 0, m, Z)
  <2>1. 0 \in 0 .. n - 1
    BY <1>1
  <2> QED
    BY <1>2, <1>4, <2>1 DEF Settled
<1>6. ASSUME NEW i \in 1 .. m - 1, u[i] \in X PROVE Between(u, i, m, Z)
  <2>1. CASE i <= Len(q)
    <3>1. i \in 1 .. n - 1 /\ i \in 0 .. n - 1
      BY <1>1, <2>1
    <3> QED
      BY <1>2, <1>4, <1>6, <3>1 DEF Settled
  <2>2. CASE ~(i <= Len(q))
    <3>1. i \in 1 .. Len(u) /\ i - Len(q) \in 1 .. Len(s)
      BY <1>1, <2>2
    <3> QED
      BY <1>1, <1>6, <2>2, <3>1
  <2> QED
    BY <2>1, <2>2
<1>7. Settled(u, b, X, Z, m)
  BY <1>5, <1>6 DEF Settled
<1> QED
  BY <1>7 DEF SettledAtEnd, u, m

(* Something of Y may follow where all is settled.                               *)
LEMMA SettledAtAllAppend ==
    ASSUME NEW E, NEW q \in Seq(E), NEW e \in E, NEW X, NEW Y, NEW Z, NEW b \in BOOLEAN,
           SettledAtAll(q, b, X, Z, Y), SettledAtEnd(q, b, X, Z)
    PROVE  SettledAtAll(Append(q, e), b, X, Z, Y)
<1>1. <<e>> \in Seq(E) /\ Append(q, e) = q \o <<e>> /\ Len(Append(q, e)) = Len(q) + 1 /\ Len(q) \in Nat
      /\ \A i \in 1 .. Len(q) : Append(q, e)[i] = q[i]
  BY AppendIsConcat, AppendProperties, LenProperties
<1> SUFFICES ASSUME NEW j \in 1 .. Len(Append(q, e)), Append(q, e)[j] \in Y
             PROVE  Settled(q \o <<e>>, b, X, Z, j)
  BY <1>1 DEF SettledAtAll
<1>2. j \in 1 .. Len(q) + 1
  BY <1>1
<1>3. Settled(q, b, X, Z, j)
  <2>1. CASE j = Len(q) + 1
    BY <2>1 DEF SettledAtEnd
  <2>2. CASE j # Len(q) + 1
    <3>1. j \in 1 .. Len(q)
      BY <1>1, <1>2, <2>2
    <3> QED
      BY <1>1, <3>1 DEF SettledAtAll
  <2> QED
    BY <2>1, <2>2
<1> QED
  BY <1>1, <1>2, <1>3, SettledJoins

(* Something of Z settles all there is.                                          *)
LEMMA SettledAtEndAppend ==
    ASSUME NEW E, NEW q \in Seq(E), NEW e \in E, NEW X, NEW Z, e \in Z, e \notin X, NEW b \in BOOLEAN
    PROVE  SettledAtEnd(Append(q, e), b, X, Z)
<1> DEFINE u == Append(q, e)
           n == Len(q) + 1
<1>1. Len(q) \in Nat /\ Len(u) = n /\ u[n] = e
  BY AppendProperties, LenProperties
<1> HIDE DEF u
<1>2. ASSUME NEW i \in 0 .. Len(q) PROVE Between(u, i, n + 1, Z)
  <2>1. n \in i + 1 .. (n + 1) - 1
    BY <1>1
  <2> QED
    BY <1>1, <2>1 DEF Between
<1>3. ASSUME NEW i \in 1 .. (n + 1) - 1, u[i] \in X PROVE Between(u, i, n + 1, Z)
  <2>1. i # n
    BY <1>1, <1>3
  <2>2. i \in 0 .. Len(q)
    BY <1>1, <2>1
  <2> QED
    BY <1>2, <2>2
<1>4. Between(u, 0, n + 1, Z)
  <2>1. 0 \in 0 .. Len(q)
    BY <1>1
  <2> QED
    BY <1>2, <2>1
<1>5. Settled(u, b, X, Z, n + 1)
  BY <1>3, <1>4 DEF Settled
<1> QED
  BY <1>1, <1>5 DEF SettledAtEnd, u

(* What is settled at the head of the queue never was outstanding.                *)
LEMMA SettledAtHead ==
    ASSUME NEW E, NEW q \in Seq(E), q # <<>>, NEW X, NEW Y, NEW Z, NEW b \in BOOLEAN,
           SettledAtAll(q, b, X, Z, Y), Head(q) \in Y
    PROVE  ~b
<1>1. 1 \in 1 .. Len(q) /\ q[1] \in Y
  BY HeadTailProperties, LenProperties, EmptySeq
<1>2. Settled(q, b, X, Z, 1)
  BY <1>1 DEF SettledAtAll
<1> QED
  BY <1>2 DEF Settled, Between

(* Queues in which nothing of a set is, or is behind something of another.          *)
NoneOf(q, S) == \A i \in 1 .. Len(q) : q[i] \notin S

Never(q, X, Y) == \A i, j \in 1 .. Len(q) : i < j /\ q[i] \in X => q[j] \notin Y

(* What the head of a queue and the rest of it say of the queue.                    *)
LEMMA Served ==
    ASSUME NEW E, NEW q \in Seq(E), q # <<>>
    PROVE  /\ Tail(q) \in Seq(E) /\ Head(q) \in E
           /\ \A S : NoneOf(q, S) <=> Head(q) \notin S /\ NoneOf(Tail(q), S)
           /\ \A X, Y : Never(q, X, Y) <=> /\ Head(q) \in X => NoneOf(Tail(q), Y)
                                           /\ Never(Tail(q), X, Y)
<1> DEFINE u == Tail(q)
<1>1. /\ u \in Seq(E) /\ Head(q) \in E /\ Head(q) = q[1]
      /\ Len(q) \in Nat \ {0} /\ Len(u) = Len(q) - 1
      /\ \A i \in 1 .. Len(u) : u[i] = q[i + 1] /\ i + 1 \in 1 .. Len(q)
  BY HeadTailProperties, LenProperties, EmptySeq
<1> HIDE DEF u
<1>2. \A i \in 1 .. Len(q) : i = 1 \/ (i - 1 \in 1 .. Len(u) /\ q[i] = u[i - 1])
  BY <1>1
<1>3. ASSUME NEW S PROVE NoneOf(q, S) <=> Head(q) \notin S /\ NoneOf(u, S)
  <2>1. NoneOf(q, S) => Head(q) \notin S /\ NoneOf(u, S)
    BY <1>1 DEF NoneOf
  <2>2. Head(q) \notin S /\ NoneOf(u, S) => NoneOf(q, S)
    BY <1>1, <1>2 DEF NoneOf
  <2> QED
    BY <2>1, <2>2
<1>4. ASSUME NEW X, NEW Y
      PROVE  Never(q, X, Y) <=> (Head(q) \in X => NoneOf(u, Y)) /\ Never(u, X, Y)
  <2>1. ASSUME Never(q, X, Y) PROVE (Head(q) \in X => NoneOf(u, Y)) /\ Never(u, X, Y)
    <3>1. Head(q) \in X => NoneOf(u, Y)
      <4> SUFFICES ASSUME Head(q) \in X, NEW i \in 1 .. Len(u) PROVE u[i] \notin Y
        BY DEF NoneOf
      <4>1. 1 \in 1 .. Len(q) /\ i + 1 \in 1 .. Len(q) /\ 1 < i + 1 /\ u[i] = q[i + 1]
        BY <1>1
      <4> QED
        BY <1>1, <2>1, <4>1 DEF Never
    <3>2. Never(u, X, Y)
      BY <1>1, <2>1 DEF Never
    <3> QED
      BY <3>1, <3>2
  <2>2. ASSUME Head(q) \in X => NoneOf(u, Y), Never(u, X, Y) PROVE Never(q, X, Y)
    <3> SUFFICES ASSUME NEW i \in 1 .. Len(q), NEW j \in 1 .. Len(q), i < j, q[i] \in X
                 PROVE  q[j] \notin Y
      BY DEF Never
    <3>1. j - 1 \in 1 .. Len(u) /\ q[j] = u[j - 1]
      BY <1>2
    <3>2. CASE i = 1
      BY <1>1, <2>2, <3>1, <3>2 DEF NoneOf
    <3>3. CASE i # 1
      <4>1. i - 1 \in 1 .. Len(u) /\ q[i] = u[i - 1] /\ i - 1 < j - 1
        BY <1>2, <3>3
      <4> QED
        BY <2>2, <3>1, <4>1 DEF Never
    <3> QED
      BY <3>2, <3>3
  <2> QED
    BY <2>1, <2>2
<1>5. u \in Seq(E) /\ Head(q) \in E
  BY <1>1
<1> QED
  BY <1>3, <1>4, <1>5 DEF u

(* What a message that is posted adds.                                          *)
LEMMA Posted ==
    ASSUME NEW E, NEW q \in Seq(E), NEW e \in E
    PROVE  /\ Append(q, e) \in Seq(E)
           /\ \A S : NoneOf(Append(q, e), S) <=> NoneOf(q, S) /\ e \notin S
           /\ \A X, Y : Never(Append(q, e), X, Y) <=> /\ Never(q, X, Y)
                                                      /\ NoneOf(q, X) \/ e \notin Y
<1> DEFINE u == Append(q, e)
           n == Len(q) + 1
<1>1. /\ u \in Seq(E) /\ Len(q) \in Nat /\ Len(u) = n /\ u[n] = e
      /\ \A i \in 1 .. Len(q) : u[i] = q[i]
  BY AppendProperties, LenProperties
<1> HIDE DEF u
<1>2. /\ n \in 1 .. Len(u) /\ \A i \in 1 .. Len(q) : i \in 1 .. Len(u) /\ i < n
      /\ \A i \in 1 .. Len(u) : i = n \/ i \in 1 .. Len(q)
  BY <1>1
<1>3. ASSUME NEW S PROVE NoneOf(u, S) <=> NoneOf(q, S) /\ e \notin S
  <2>1. NoneOf(u, S) => NoneOf(q, S) /\ e \notin S
    BY <1>1, <1>2 DEF NoneOf
  <2>2. NoneOf(q, S) /\ e \notin S => NoneOf(u, S)
    BY <1>1, <1>2 DEF NoneOf
  <2> QED
    BY <2>1, <2>2
<1>4. ASSUME NEW X, NEW Y PROVE Never(u, X, Y) <=> Never(q, X, Y) /\ (NoneOf(q, X) \/ e \notin Y)
  <2>1. ASSUME Never(u, X, Y) PROVE Never(q, X, Y) /\ (NoneOf(q, X) \/ e \notin Y)
    <3>1. Never(q, X, Y)
      BY <1>1, <1>2, <2>1 DEF Never
    <3>2. ASSUME e \in Y PROVE NoneOf(q, X)
      BY <1>1, <1>2, <2>1, <3>2 DEF Never, NoneOf
    <3> QED
      BY <3>1, <3>2
  <2>2. ASSUME Never(q, X, Y), NoneOf(q, X) \/ e \notin Y PROVE Never(u, X, Y)
    <3> SUFFICES ASSUME NEW i \in 1 .. Len(u), NEW j \in 1 .. Len(u), i < j, u[i] \in X
                 PROVE  u[j] \notin Y
      BY DEF Never
    <3>1. i \in 1 .. Len(q) /\ u[i] = q[i]
      BY <1>1, <1>2
    <3>2. CASE j = n
      BY <1>1, <2>2, <3>1, <3>2 DEF NoneOf
    <3>3. CASE j \in 1 .. Len(q)
      BY <1>1, <2>2, <3>1, <3>3 DEF Never
    <3> QED
      BY <1>2, <3>2, <3>3
  <2> QED
    BY <2>1, <2>2
<1>5. u \in Seq(E)
  BY <1>1
<1> QED
  BY <1>3, <1>4, <1>5 DEF u
=============================================================================
