--------------------------- MODULE SegmentsProofs ---------------------------
(***************************************************************************)
(* The bytes of a file get to their places and back, for any length of the *)
(* file, of its pieces, of the parts and of the segments, and however      *)
(* short the reads are.  What is said of sequences of sequences is said by *)
(* the places where each one ends when they follow each other: the pieces  *)
(* of an upload, its parts, the blocks of a compressed file.               *)
(***************************************************************************)
EXTENDS Segments, FiniteSetTheorems, SequenceTheorems, TLAPS

-----------------------------------------------------------------------------
\* Numbers.

\* A set of numbers has a least element.
LEMMA Least ==
    ASSUME NEW S, S \subseteq Nat, S # {}
    PROVE  \E m \in S : \A k \in S : m <= k
<1>0. S \subseteq Nat /\ S # {}
  OBVIOUS
<1>1. PICK m \in S : \A k \in S : ~(<<k, m>> \in OpToRel(<, Nat))
  BY <1>0, WFMin, NatLessThanWellFounded, Zenon
<1>2. \A k \in S : ~(k < m)
  BY <1>0, <1>1, Zenon DEF OpToRel
<1> QED BY <1>0, <1>2

\* Induction over a set of numbers.
LEMMA UpTo ==
    ASSUME NEW n \in Nat, NEW G, 0 \in G, \A k \in 1..n : k - 1 \in G => k \in G
    PROVE  \A k \in 0..n : k \in G
<1> DEFINE Bad == {k \in 0..n : k \notin G}
<1> SUFFICES ASSUME Bad # {} PROVE FALSE
  OBVIOUS
<1>1. PICK k \in Bad : \A l \in Bad : k <= l
  <2>1. Bad \subseteq Nat
    OBVIOUS
  <2> HIDE DEF Bad
  <2> QED BY <2>1, Least
<1>2. k \in 1..n /\ k \notin G
  BY <1>1
<1>3. k - 1 \in 0..n /\ ~(k <= k - 1)
  BY <1>2
<1>4. k - 1 \in G
  BY <1>1, <1>3
<1> QED BY <1>2, <1>4

\* Division with a remainder.
LEMMA Division ==
    ASSUME NEW a \in Nat, NEW b \in Nat \ {0}
    PROVE  /\ a \div b \in Nat /\ a % b \in 0..(b - 1)
           /\ a = b * (a \div b) + (a % b)
<1>1. a = b * (a \div b) + (a % b)
  BY Z3
<1>2. a \div b \in Nat /\ a % b \in 0..(b - 1)
  OBVIOUS
<1> QED BY <1>1, <1>2

\* Products of numbers.
LEMMA Product ==
    ASSUME NEW a \in Nat, NEW b \in Nat, NEW c \in Nat, a <= b
    PROVE  a * c \in Nat /\ b * c \in Nat /\ a * c <= b * c /\ (a + 1) * c = a * c + c
OBVIOUS

\* Pieces(a, b) is the number of pieces of length b that a can be cut into.
LEMMA PiecesFit ==
    ASSUME NEW a \in Nat, NEW b \in Nat \ {0}
    PROVE  /\ Pieces(a, b) \in Nat
           /\ a <= Pieces(a, b) * b
           /\ a = 0 => Pieces(a, b) = 0
           /\ a > 0 => Pieces(a, b) >= 1 /\ (Pieces(a, b) - 1) * b < a
<1> DEFINE q == a \div b
<1> DEFINE r == a % b
<1>1. q \in Nat /\ r \in 0..(b - 1) /\ a = b * q + r
  BY Division
<1>2. Pieces(a, b) = q + (IF r = 0 THEN 0 ELSE 1)
  BY DEF Pieces
<1> HIDE DEF q, r
<1> QED BY <1>1, <1>2

-----------------------------------------------------------------------------
\* Sequences of sequences.

\* f[i] is what FlattenSeq(s) has come to after i sequences.
Flattens(f, s, n) ==
    /\ f[0] = <<>> /\ f[n] = FlattenSeq(s)
    /\ \A i \in 1..n : f[i] = f[i - 1] \o s[i]

\* What FlattenSeq returns, step by step.
LEMMA Flattening ==
    ASSUME NEW S, NEW n \in Nat, NEW s \in [1..n -> Seq(S)]
    PROVE  \E f \in [0..n -> Seq(S)] : Flattens(f, s, n)
<1> DEFINE Def(g, k) == g = [i \in 1..k |-> IF i = 1 THEN s[i] ELSE g[i - 1] \o s[i]]
<1>1. \E g : Def(g, 0)
  <2> SUFFICES Def(<<>>, 0)
    OBVIOUS
  <2> QED OBVIOUS
<1>2. ASSUME NEW k \in 1..n, NEW g, Def(g, k - 1) PROVE \E h : Def(h, k)
  <2> DEFINE h == [i \in 1..k |-> IF i = k THEN (IF k = 1 THEN s[k] ELSE g[k - 1] \o s[k])
                                   ELSE g[i]]
  <2>1. \A i \in 1..(k - 1) : g[i] = IF i = 1 THEN s[i] ELSE g[i - 1] \o s[i]
    BY <1>2
  <2>2. \A i \in 1..k : h[i] = IF i = 1 THEN s[i] ELSE h[i - 1] \o s[i]
    BY <2>1
  <2>3. h = [i \in 1..k |-> h[i]]
    OBVIOUS
  <2> HIDE DEF h
  <2>4. Def(h, k)
    BY <2>2, <2>3
  <2> HIDE DEF Def
  <2> QED BY <2>4
<1> HIDE DEF Def
<1>3. \E g : Def(g, n)
  <2> DEFINE Good(k) == \E g : Def(g, k)
  <2>1. Good(0) /\ \A k \in 1..n : Good(k - 1) => Good(k)
    BY <1>1, <1>2
  <2> HIDE DEF Good
  <2> DEFINE G == {k \in 0..n : Good(k)}
  <2>2. 0 \in G /\ \A k \in 1..n : k - 1 \in G => k \in G
    BY <2>1
  <2> HIDE DEF G
  <2>3. \A k \in 0..n : k \in G
    BY <2>2, UpTo
  <2> QED BY <2>3 DEF G, Good
<1> DEFINE F == CHOOSE g : Def(g, n)
<1>4. Def(F, n)
  BY <1>3
<1>5. Len(s) = n /\ (n = 0 => s = <<>>)
  OBVIOUS
<1>6. FlattenSeq(s) = IF n = 0 THEN <<>> ELSE F[n]
  BY <1>5 DEF FlattenSeq, Def
<1> HIDE DEF F
<1> DEFINE f == [i \in 0..n |-> IF i = 0 THEN <<>> ELSE F[i]]
<1>7. <<>> \in Seq(S) /\ \A t \in Seq(S) : <<>> \o t = t
  BY ConcatEmptySeq
<1>8. f[0] = <<>> /\ f[n] = FlattenSeq(s)
  BY <1>6
<1>9. ASSUME NEW i \in 1..n PROVE f[i] = f[i - 1] \o s[i]
  <2>1. F[i] = IF i = 1 THEN s[i] ELSE F[i - 1] \o s[i]
    BY <1>4 DEF Def
  <2>2. f[i] = F[i] /\ f[i - 1] = IF i = 1 THEN <<>> ELSE F[i - 1]
    OBVIOUS
  <2>3. s[i] \in Seq(S) /\ <<>> \o s[i] = s[i]
    BY <1>7
  <2> HIDE DEF f
  <2> QED BY <2>1, <2>2, <2>3
<1>10. f = [i \in 0..n |-> f[i]]
  OBVIOUS
<1> HIDE DEF f
<1>11. f \in [0..n -> Seq(S)]
  <2> DEFINE G == {k \in 0..n : f[k] \in Seq(S)}
  <2>1. 0 \in G
    <3>1. f[0] \in Seq(S)
      BY <1>7, <1>8, Zenon
    <3> QED BY <3>1
  <2>2. ASSUME NEW k \in 1..n, f[k - 1] \in Seq(S) PROVE f[k] \in Seq(S)
    <3>1. s[k] \in Seq(S)
      OBVIOUS
    <3> QED BY <1>9, <2>2, <3>1, ConcatProperties
  <2>3. \A k \in 1..n : k - 1 \in G => k \in G
    BY <2>2
  <2> HIDE DEF G
  <2>4. \A k \in 0..n : k \in G
    BY <2>1, <2>3, UpTo
  <2> QED BY <1>10, <2>4 DEF G
<1> QED BY <1>8, <1>9, <1>11 DEF Flattens

\* Where the elements of t, of length a, and of u are found in v.
Follows(v, t, a, u) ==
    /\ Len(v) = a + Len(u)
    /\ \A l \in 1..a : l \in 1..(a + Len(u)) /\ v[l] = t[l]
    /\ \A j \in 1..Len(u) : a + j \in 1..(a + Len(u)) /\ v[a + j] = u[j]

\* The elements of two sequences keep their order when they are put together.
LEMMA Following ==
    ASSUME NEW S, NEW t \in Seq(S), NEW u \in Seq(S)
    PROVE  t \o u \in Seq(S) /\ Follows(t \o u, t, Len(t), u)
<1> DEFINE a == Len(t)
<1> DEFINE b == Len(u)
<1> DEFINE v == t \o u
<1>1. v \in Seq(S) /\ Len(v) = a + b /\ a \in Nat /\ b \in Nat
  BY ConcatProperties, LenProperties
<1>2. \A l \in 1..(a + b) : v[l] = IF l <= a THEN t[l] ELSE u[l - a]
  BY ConcatProperties
<1> HIDE DEF a, b, v
<1>3. \A l \in 1..a : l \in 1..(a + b) /\ v[l] = t[l]
  BY <1>1, <1>2
<1>4. ASSUME NEW j \in 1..b PROVE a + j \in 1..(a + b) /\ v[a + j] = u[j]
  <2> DEFINE l == a + j
  <2>1. l \in 1..(a + b) /\ ~(l <= a) /\ l - a = j
    BY <1>1
  <2> HIDE DEF l
  <2> QED BY <1>2, <2>1 DEF l
<1> QED BY <1>1, <1>3, <1>4 DEF a, b, v, Follows

\* at[i] is where the i-th of n sequences ends when they follow each other.
Ends(at, s, n) ==
    /\ at \in [0..n -> Nat] /\ at[0] = 0
    /\ \A i \in 1..n : at[i] = at[i - 1] + Len(s[i])

\* The elements of the n sequences are in u where those before them end.
Composed(u, at, s, n) ==
    \A i \in 1..n : \A j \in 1..Len(s[i]) :
      at[i - 1] + j \in 1..at[n] /\ u[at[i - 1] + j] = s[i][j]

\* Each element of the flattened sequence is found by where those before it end.
LEMMA Flattened ==
    ASSUME NEW S, NEW n \in Nat, NEW s \in [1..n -> Seq(S)], NEW at, Ends(at, s, n)
    PROVE  /\ FlattenSeq(s) \in Seq(S) /\ Len(FlattenSeq(s)) = at[n]
           /\ Composed(FlattenSeq(s), at, s, n)
<1>1. PICK f \in [0..n -> Seq(S)] : Flattens(f, s, n)
  BY Flattening
<1>2. \A i \in 1..n : s[i] \in Seq(S)
  OBVIOUS
<1>3. ASSUME NEW k \in 1..n
      PROVE  /\ f[k - 1] \in Seq(S) /\ s[k] \in Seq(S) /\ f[k] = f[k - 1] \o s[k]
             /\ at[k] = at[k - 1] + Len(s[k])
  <2>1. k - 1 \in 0..n
    OBVIOUS
  <2> QED BY <1>1, <1>2, <2>1 DEF Ends, Flattens
<1> DEFINE Placed(k, i) == \A j \in 1..Len(s[i]) :
                             at[i - 1] + j \in 1..at[k] /\ f[k][at[i - 1] + j] = s[i][j]
<1> DEFINE Good(k) == Len(f[k]) = at[k] /\ \A i \in 1..k : Placed(k, i)
<1> HIDE DEF Placed, Good
<1>4. Good(0)
  BY <1>1, EmptySeq DEF Ends, Good, Flattens
<1>5. ASSUME NEW k \in 1..n, Good(k - 1) PROVE Good(k)
  <2> DEFINE t == f[k - 1]
  <2> DEFINE u == s[k]
  <2>1. /\ t \in Seq(S) /\ u \in Seq(S) /\ f[k] = t \o u
        /\ Len(t) = at[k - 1] /\ at[k] = Len(t) + Len(u)
    BY <1>3, <1>5 DEF Good
  <2> HIDE DEF t, u
  <2>2. /\ Len(f[k]) = at[k]
        /\ \A l \in 1..at[k - 1] : l \in 1..at[k] /\ f[k][l] = t[l]
        /\ \A j \in 1..Len(u) : at[k - 1] + j \in 1..at[k] /\ f[k][at[k - 1] + j] = u[j]
    <3>1. Follows(f[k], t, at[k - 1], u)
      BY <2>1, Following
    <3> QED BY <2>1, <3>1 DEF Follows
  <2>3. ASSUME NEW i \in 1..(k - 1) PROVE Placed(k, i)
    <3>1. Placed(k - 1, i)
      BY <1>5 DEF Good
    <3>2. \A j \in 1..Len(s[i]) : at[i - 1] + j \in 1..at[k - 1] /\ t[at[i - 1] + j] = s[i][j]
      BY <3>1 DEF Placed, t
    <3> QED BY <2>2, <3>2 DEF Placed
  <2>4. Placed(k, k)
    BY <2>2 DEF Placed, u
  <2>5. \A i \in 1..k : i \in 1..(k - 1) \/ i = k
    OBVIOUS
  <2> QED BY <2>2, <2>3, <2>4, <2>5 DEF Good
<1> DEFINE G == {k \in 0..n : Good(k)}
<1>6. 0 \in G /\ \A k \in 1..n : k - 1 \in G => k \in G
  BY <1>4, <1>5
<1> HIDE DEF G
<1>7. \A k \in 0..n : k \in G
  BY <1>6, UpTo
<1>8. Good(n)
  BY <1>7 DEF G
<1> QED
  <2>1. n \in 0..n
    OBVIOUS
  <2> QED BY <1>1, <1>8, <2>1 DEF Good, Placed, Flattens, Composed

\* Each place in the flattened sequence lies in one of the sequences.
LEMMA Within ==
    ASSUME NEW S, NEW n \in Nat, NEW s \in [1..n -> Seq(S)], NEW at, Ends(at, s, n),
           NEW l \in 1..at[n]
    PROVE  \E i \in 1..n : at[i - 1] < l /\ l <= at[i]
<1> DEFINE B == {k \in 0..n : l <= at[k]}
<1>1. \A k \in 0..n : at[k] \in Nat
  BY DEF Ends
<1>2. B \subseteq Nat /\ n \in B
  BY <1>1
<1>3. PICK i \in B : \A k \in B : i <= k
  <2> HIDE DEF B
  <2> QED BY <1>2, Least
<1>4. i \in 1..n /\ l <= at[i]
  BY <1>3 DEF Ends
<1>5. i - 1 \in 0..n /\ ~(i <= i - 1)
  BY <1>4
<1>6. ~(l <= at[i - 1])
  BY <1>3, <1>5
<1> QED BY <1>1, <1>4, <1>5, <1>6

\* The sequence u is the flattened one.
LEMMA FlattenIs ==
    ASSUME NEW S, NEW n \in Nat, NEW s \in [1..n -> Seq(S)], NEW at, Ends(at, s, n),
           NEW u \in Seq(S), Len(u) = at[n], Composed(u, at, s, n)
    PROVE  FlattenSeq(s) = u
<1> DEFINE t == FlattenSeq(s)
<1>1. t \in Seq(S) /\ Len(t) = at[n] /\ Composed(t, at, s, n)
  BY Flattened
<1> HIDE DEF t
<1>2. \A k \in 0..n : at[k] \in Nat
  BY DEF Ends
<1>3. ASSUME NEW l \in 1..at[n] PROVE t[l] = u[l]
  <2>1. PICK i \in 1..n : at[i - 1] < l /\ l <= at[i]
    BY Within
  <2> DEFINE j == l - at[i - 1]
  <2>2. j \in 1..Len(s[i]) /\ at[i - 1] + j = l
    BY SMTT(30), <1>2, <2>1 DEF Ends
  <2> HIDE DEF j
  <2> QED BY <1>1, <2>2 DEF Composed
<1>4. t = u
  BY <1>1, <1>3, SeqEqual
<1> QED BY <1>4 DEF t

-----------------------------------------------------------------------------
\* The bytes.

\* The bytes there are.
Datum == [block : Int, nth : Int, of : Int]

\* Bytes of the file, and of a block.
LEMMA RawType ==
    ASSUME NEW offset \in Int, NEW size \in Nat
    PROVE  /\ Raw(offset, size) \in Seq(Datum) /\ Len(Raw(offset, size)) = size
           /\ \A i \in 1..size : Raw(offset, size)[i] = Byte(0, offset + i - 1, 0)
BY DEF Raw, Byte, Datum

LEMMA PackedType ==
    ASSUME NEW b \in Int, NEW n \in Nat
    PROVE  /\ Packed(b, n) \in Seq(Datum) /\ Len(Packed(b, n)) = n
           /\ \A i \in 1..n : Packed(b, n)[i] = Byte(b, i, n)
BY DEF Packed, Byte, Datum

\* The bytes up to the end of each piece.
BytesUpTo == [p \in 0..Len(files_) |-> Bytes(1..p)]

LEMMA BytesEnd ==
    ASSUME files_ \in Seq(Seq(Datum))
    PROVE  /\ Ends(BytesUpTo, files_, Len(files_))
           /\ Len(files_) \in Nat /\ files_ \in [1..Len(files_) -> Seq(Datum)]
           /\ Bytes(DOMAIN files_) = BytesUpTo[Len(files_)]
<1> DEFINE n == Len(files_)
<1> DEFINE C(p) == {p} \X DOMAIN files_[p]
<1> DEFINE U(p) == UNION {C(q) : q \in 1..p}
<1>1. n \in Nat /\ files_ \in [1..n -> Seq(Datum)] /\ DOMAIN files_ = 1..n
  BY LenProperties
<1>2. ASSUME NEW p \in 1..n
      PROVE  IsFiniteSet(C(p)) /\ Cardinality(C(p)) = Len(files_[p]) /\ Len(files_[p]) \in Nat
  <2> DEFINE m == Len(files_[p])
  <2> DEFINE D == DOMAIN files_[p]
  <2>1. m \in Nat /\ D = 1..m
    BY <1>1, LenProperties
  <2>2. IsFiniteSet(D) /\ Cardinality(D) = m
    <3> HIDE DEF m
    <3> QED BY <2>1, FS_Interval
  <2>3. IsFiniteSet({p}) /\ Cardinality({p}) = 1
    BY FS_Singleton
  <2> HIDE DEF D, m
  <2>4. IsFiniteSet({p} \X D) /\ Cardinality({p} \X D) = 1 * m
    BY <2>2, <2>3, FS_Product
  <2>5. 1 * m = m
    BY <2>1
  <2> QED BY <2>1, <2>4, <2>5 DEF D, m
<1>3. ASSUME NEW p \in 1..n PROVE U(p) = U(p - 1) \cup C(p) /\ U(p - 1) \cap C(p) = {}
  <2>1. \A q \in 1..p : q \in 1..(p - 1) \/ q = p
    OBVIOUS
  <2>2. \A q \in 1..(p - 1) : q \in 1..p /\ q # p
    OBVIOUS
  <2> QED BY <2>1, <2>2
<1>4. U(0) = {}
  OBVIOUS
<1>5. \A p : Bytes(1..p) = Cardinality(U(p))
  BY DEF Bytes
<1> HIDE DEF U, C
<1> DEFINE G == {p \in 0..n : IsFiniteSet(U(p))}
<1>6. 0 \in G
  <2>1. IsFiniteSet(U(0))
    BY <1>4, FS_EmptySet, Zenon
  <2> HIDE DEF n
  <2> QED BY <1>1, <2>1
<1>7. ASSUME NEW p \in 1..n, p - 1 \in G PROVE p \in G
  <2>1. IsFiniteSet(U(p - 1))
    BY <1>7
  <2>2. IsFiniteSet(U(p - 1) \cup C(p))
    BY <1>2, <2>1, FS_Union, Zenon
  <2>3. IsFiniteSet(U(p))
    BY <1>3, <2>2, Zenon
  <2> HIDE DEF n
  <2> QED BY <1>1, <2>3
<1> HIDE DEF G
<1>8. \A p \in 0..n : p \in G
  <2> HIDE DEF n
  <2> QED BY <1>1, <1>6, <1>7, UpTo
<1>9. \A p \in 0..n : IsFiniteSet(U(p)) /\ Cardinality(U(p)) \in Nat
  BY <1>8, FS_CardinalityType DEF G
<1>10. ASSUME NEW p \in 1..n PROVE Bytes(1..p) = Bytes(1..(p - 1)) + Len(files_[p])
  <2>1. p - 1 \in 0..n
    OBVIOUS
  <2>2. IsFiniteSet(U(p - 1)) /\ Cardinality(U(p - 1)) \in Nat
    BY <1>9, <2>1
  <2> DEFINE A == U(p - 1)
  <2> DEFINE B == C(p)
  <2>3. U(p) = A \cup B /\ A \cap B = {} /\ IsFiniteSet(A) /\ IsFiniteSet(B)
    BY <1>2, <1>3, <2>2, Zenon
  <2> HIDE DEF A, B
  <2>4. Cardinality(A \cup B) = Cardinality(A) + Cardinality(B) - Cardinality(A \cap B)
    BY <2>3, FS_Union
  <2>5. Cardinality(U(p)) = Cardinality(A) + Cardinality(B) - 0
    BY <2>3, <2>4, FS_EmptySet, Zenon
  <2> QED BY <1>2, <1>5, <2>2, <2>5 DEF A, B
<1>11. Bytes(1..0) = 0
  BY <1>4, <1>5, FS_EmptySet
<1>12. Bytes(DOMAIN files_) = Bytes(1..n)
  BY <1>1
<1>13. Ends(BytesUpTo, files_, n)
  BY <1>1, <1>5, <1>9, <1>10, <1>11 DEF Ends, BytesUpTo
<1> QED BY <1>1, <1>12, <1>13 DEF BytesUpTo

\* Places only move up.
LEMMA Rising ==
    ASSUME NEW S, NEW n \in Nat, NEW s \in [1..n -> Seq(S)], NEW at, Ends(at, s, n),
           NEW i \in 0..n, NEW k \in i..n
    PROVE  at[i] <= at[k]
<1>1. \A l \in 0..n : at[l] \in Nat
  BY DEF Ends
<1>2. ASSUME NEW l \in 1..n PROVE at[l - 1] <= at[l]
  <2>1. Len(s[l]) \in Nat /\ at[l] = at[l - 1] + Len(s[l])
    BY LenProperties DEF Ends
  <2>2. l - 1 \in 0..n
    OBVIOUS
  <2> QED BY <1>1, <2>1, <2>2
<1> DEFINE G == {l \in 0..n : i <= l => at[i] <= at[l]}
<1>3. 0 \in G
  BY <1>1
<1>4. ASSUME NEW l \in 1..n, l - 1 \in G PROVE l \in G
  <2>1. l - 1 \in 0..n /\ (i <= l => i <= l - 1 \/ i = l)
    OBVIOUS
  <2> QED BY <1>1, <1>2, <1>4, <2>1
<1> HIDE DEF G
<1>5. \A l \in 0..n : l \in G
  BY <1>3, <1>4, UpTo
<1> QED BY <1>5 DEF G

\* From a on, u holds what its slice up to b and then x hold.
Extends(u, a, b, x, c) ==
    SubSeq(u, a + 1, b) \o x = SubSeq(u, a + 1, c)

\* A slice of the flattened sequence that ends in s[p] goes on with what follows in s[p].
LEMMA Extending ==
    ASSUME NEW S, NEW n \in Nat, NEW s \in [1..n -> Seq(S)], NEW at, Ends(at, s, n),
           NEW u \in Seq(S), Len(u) = at[n], Composed(u, at, s, n),
           NEW p \in 1..n, NEW v \in 0..Len(s[p]), NEW w \in v..Len(s[p]),
           NEW a \in 0..(at[p - 1] + v)
    PROVE  Extends(u, a, at[p - 1] + v, SubSeq(s[p], v + 1, w), at[p - 1] + w)
<1> DEFINE b == at[p - 1]
<1> DEFINE m == Len(s[p])
<1> DEFINE x == SubSeq(s[p], v + 1, w)
<1> DEFINE y == SubSeq(u, b + v + 1, b + w)
<1>1. s[p] \in Seq(S) /\ m \in Nat /\ \A j \in 1..m : s[p][j] \in S
  BY LenProperties, ElementOfSeq
<1>2. b \in Nat /\ b + m <= Len(u) /\ Len(u) \in Nat
  <2>1. p - 1 \in 0..n /\ n \in p..n /\ p \in 0..n
    OBVIOUS
  <2>2. at[p] = at[p - 1] + Len(s[p]) /\ at[p - 1] \in Nat /\ at[n] \in Nat
    BY <2>1 DEF Ends
  <2>3. at[p] <= at[n]
    BY <2>1, Rising
  <2> QED BY <2>2, <2>3
<1>3. \A j \in 1..m : b + j \in 1..Len(u) /\ u[b + j] = s[p][j] /\ u[b + j] \in S
  BY <1>1 DEF Composed
<1> HIDE DEF b, m
<1>4. v \in 0..m /\ w \in v..m /\ a \in 0..(b + v)
  BY DEF b, m
<1>5. /\ x \in Seq(S) /\ Len(x) = w - v
      /\ \A j \in 1..(w - v) : x[j] = s[p][v + j]
  <2>1. v + 1 \in Int /\ w \in Int /\ \A j \in (v + 1)..w : s[p][j] \in S
    BY <1>1, <1>4
  <2>2. /\ x \in Seq(S) /\ Len(x) = IF v + 1 <= w THEN w - (v + 1) + 1 ELSE 0
        /\ \A j \in 1..(w - (v + 1) + 1) : x[j] = s[p][v + 1 + j - 1]
    BY <2>1, SubSeqProperties
  <2>3. w - (v + 1) + 1 = w - v /\ \A j \in Int : v + 1 + j - 1 = v + j
    BY <1>4
  <2> HIDE DEF x
  <2> QED BY <1>4, <2>2, <2>3
<1>6. /\ y \in Seq(S) /\ Len(y) = w - v
      /\ \A j \in 1..(w - v) : y[j] = u[b + v + j]
  <2> DEFINE k == b + v + 1
  <2> DEFINE l == b + w
  <2>1. k \in Int /\ l \in Int /\ \A i \in k..l : i - b \in 1..m /\ b + (i - b) = i
    BY <1>1, <1>2, <1>4
  <2>2. /\ l - k + 1 = w - v /\ (k <= l \/ w - v = 0)
        /\ \A j \in Int : k + j - 1 = b + v + j
    BY <1>2, <1>4
  <2>3. y = SubSeq(u, k, l)
    OBVIOUS
  <2> HIDE DEF k, l, y
  <2>4. \A i \in k..l : u[i] \in S
    BY <1>3, <2>1
  <2>5. /\ y \in Seq(S) /\ Len(y) = IF k <= l THEN l - k + 1 ELSE 0
        /\ \A j \in 1..(l - k + 1) : y[j] = u[k + j - 1]
    BY <2>1, <2>3, <2>4, SubSeqProperties
  <2>6. Len(y) = w - v
    BY <1>4, <2>1, <2>2, <2>5
  <2>7. ASSUME NEW j \in 1..(w - v) PROVE y[j] = u[b + v + j]
    <3>1. j \in Int /\ j \in 1..(l - k + 1)
      BY <1>4, <2>2
    <3> QED BY <2>2, <2>5, <3>1
  <2> QED BY <2>5, <2>6, <2>7
<1>7. x = y
  <2> HIDE DEF x, y
  <2>1. ASSUME NEW j \in 1..(w - v) PROVE x[j] = y[j]
    <3>1. v + j \in 1..m /\ b + (v + j) = b + v + j
      BY <1>1, <1>2, <1>4
    <3>2. s[p][v + j] = u[b + (v + j)]
      BY <1>3, <3>1
    <3> QED BY <1>5, <1>6, <3>1, <3>2
  <2> QED BY <1>5, <1>6, <2>1, SeqEqual
<1>8. SubSeq(u, a + 1, b + v) \o y = SubSeq(u, a + 1, b + w)
  <2> DEFINE c == a + 1
  <2> DEFINE k == b + v
  <2> DEFINE l == b + w
  <2>1. c \in 1..(Len(u) + 1) /\ k \in (c - 1)..Len(u) /\ l \in k..Len(u)
    BY <1>1, <1>2, <1>4
  <2>2. y = SubSeq(u, k + 1, l)
    OBVIOUS
  <2> HIDE DEF c, k, l, y
  <2>3. SubSeq(u, c, k) \o SubSeq(u, k + 1, l) = SubSeq(u, c, l)
    BY <2>1, ConcatAdjacentSubSeq
  <2> QED BY <2>2, <2>3 DEF c, k, l
<1> QED BY <1>7, <1>8 DEF b, Extends

\* Slices of equal length, the last one as long as what is left.
Slices(s, n, u, size) ==
    /\ s = [i \in 1..n |-> s[i]]
    /\ \A i \in 1..n : s[i] = SubSeq(u, (i - 1) * size + 1, Lesser(i * size, Len(u)))
    /\ Len(u) <= n * size
    /\ n > 0 => (n - 1) * size <= Len(u)

\* A sequence is its slices, one after the other.
LEMMA Slicing ==
    ASSUME NEW S, NEW u \in Seq(S), NEW n \in Nat, NEW size \in Positive, NEW s,
           Slices(s, n, u, size)
    PROVE  FlattenSeq(s) = u
<1> DEFINE m == Len(u)
<1> DEFINE at == [i \in 0..n |-> Lesser(i * size, m)]
<1>1. m \in Nat /\ size \in Nat /\ size > 0 /\ \A k \in 1..m : u[k] \in S
  BY LenProperties, ElementOfSeq DEF Positive
<1> HIDE DEF m
<1>2. ASSUME NEW i \in 1..n
      PROVE  /\ s[i] \in Seq(S) /\ at[i] = at[i - 1] + Len(s[i])
             /\ \A j \in 1..Len(s[i]) : at[i - 1] + j \in 1..m /\ u[at[i - 1] + j] = s[i][j]
  <2> DEFINE a == (i - 1) * size
  <2> DEFINE c == i * size
  <2>1. a \in Nat /\ c = a + size /\ a <= m
    <3> DEFINE e == i - 1
    <3> DEFINE g == n - 1
    <3>1. e \in Nat /\ g \in Nat /\ e <= g /\ e + 1 = i /\ n > 0
      OBVIOUS
    <3>2. a = e * size /\ c = (e + 1) * size /\ g * size <= m
      BY <3>1 DEF m, Slices
    <3> HIDE DEF a, c, e, g
    <3>3. e * size \in Nat /\ g * size \in Nat /\ e * size <= g * size
          /\ (e + 1) * size = e * size + size
      BY <1>1, <3>1, Product
    <3> QED BY <1>1, <3>2, <3>3
  <2>2. at[i - 1] = Lesser(a, m) /\ at[i] = Lesser(c, m)
    OBVIOUS
  <2> DEFINE k == a + 1
  <2> DEFINE l == Lesser(c, m)
  <2> DEFINE y == s[i]
  <2>3. y = SubSeq(u, k, l)
    BY DEF Slices, m
  <2> HIDE DEF a, c, at, y
  <2>4. at[i - 1] = a /\ at[i] = l /\ k = a + 1 /\ l \in a..m /\ l \in Int /\ k \in Int
    BY <1>1, <2>1, <2>2 DEF Lesser
  <2>5. \A j \in k..l : u[j] \in S
    BY <1>1, <2>1, <2>4
  <2> HIDE DEF k, l
  <2>6. /\ y \in Seq(S) /\ Len(y) = IF k <= l THEN l - k + 1 ELSE 0
        /\ \A j \in 1..(l - k + 1) : y[j] = u[k + j - 1]
    BY <2>3, <2>4, <2>5, SubSeqProperties
  <2>7. Len(y) = l - a /\ l - k + 1 = l - a
    BY <2>1, <2>4, <2>6
  <2>8. ASSUME NEW j \in 1..Len(y)
        PROVE  at[i - 1] + j \in 1..m /\ u[at[i - 1] + j] = y[j]
    <3>1. j \in 1..(l - a)
      BY <2>7
    <3>2. j \in 1..(l - k + 1) /\ k + j - 1 = a + j /\ a + j \in 1..m
      BY <1>1, <2>1, <2>4, <3>1
    <3> QED BY <2>4, <2>6, <3>2
  <2>9. at[i] = at[i - 1] + Len(y)
    BY <2>1, <2>4, <2>7
  <2> QED BY <2>6, <2>8, <2>9 DEF y
<1>3. s \in [1..n -> Seq(S)]
  <2>1. \A i \in 1..n : s[i] \in Seq(S)
    BY <1>2
  <2> QED BY <2>1 DEF Slices
<1>4. at \in [0..n -> Nat] /\ at[0] = 0 /\ at[n] = m
  <2>1. \A i \in 0..n : i * size \in Nat
    BY <1>1, Product
  <2>2. 0 * size = 0 /\ 0 \in 0..n /\ n \in 0..n
    BY <1>1
  <2>3. n * size \in Nat /\ m <= n * size
    BY <2>1, <2>2 DEF m, Slices
  <2> QED BY <1>1, <2>1, <2>2, <2>3 DEF Lesser
<1> HIDE DEF at
<1>5. Ends(at, s, n)
  BY <1>2, <1>4 DEF Ends
<1>6. Composed(u, at, s, n)
  BY <1>2, <1>4 DEF Composed
<1> QED BY <1>3, <1>4, <1>5, <1>6, FlattenIs DEF m

-----------------------------------------------------------------------------
\* The inductive invariant.

\* What is moved, and by what means.
Form ==
    /\ file_sz \in 0..MaxSize
    /\ do_compress \in BOOLEAN /\ (do_compress => file_sz > Threshold)
    /\ segment_size \in SegmentSizes
    /\ max_in_flight \in InFlight
    /\ stage \in {"split", "compress", "start", "pump", "stored", "fetch",
                  "refused", "failed", "done"}

\* The pieces that are uploaded: the file as it is, or its blocks.
BlockAt(b) ==
    [offset |-> BlockSize * (b - 1), size |-> Lesser(file_sz - BlockSize * (b - 1), BlockSize)]

Cut ==
    /\ ~do_compress => /\ stage \notin {"split", "compress"}
                       /\ block = <<>> /\ files_ = <<Raw(0, file_sz)>>
    /\ do_compress /\ stage = "split" => block = <<>> /\ files_ = <<>>
    /\ do_compress /\ stage # "split" =>
         /\ block = [b \in 1..NumBlocks |-> BlockAt(b)]
         /\ files_ = [b \in 1..NumBlocks |-> files_[b]]
         /\ \A b \in 1..NumBlocks :
              \/ stage = "compress" /\ files_[b] = <<>>
              \/ Len(files_[b]) \in Positive /\ files_[b] = Packed(b, Len(files_[b]))

\* The slice of the data that the i-th part is.
Slice(i) == SubSeq(Stream, i * segment_size + 1, Lesser((i + 1) * segment_size, Len(Stream)))

\* Where a pump is in the data.
Position(p) == Bytes(1..(p.piece - 1)) + p.within

\* A pump has read what its current segment begins with.
Pumping(f, p) ==
    /\ p = [num |-> p.num, segment |-> p.segment, data |-> p.data, piece |-> p.piece,
            within |-> p.within]
    /\ p.segment \in 0..p.num
    /\ p.piece \in 1..Len(files_)
    /\ p.within \in 0..Len(files_[p.piece])
    /\ p.segment < p.num =>
         /\ p.data = SubSeq(Stream, (f + p.segment) * segment_size + 1, Position(p))
         /\ (f + p.segment) * segment_size <= Position(p)
         /\ Position(p) <= (f + p.segment + 1) * segment_size
    /\ \A i \in f..(f + p.segment - 1) : part[i] = Slice(i)

\* The parts that a pump has been given.
Planned ==
    /\ num_parts_ \in 0..MaxParts /\ next \in Nat
    /\ pump = [f \in DOMAIN pump |-> pump[f]]
    /\ \A f \in DOMAIN pump :
         /\ f \in Nat /\ pump[f].num \in Nat
         /\ f < num_parts_ /\ pump[f].num = Lesser(num_parts_ - f, NumPerPump)
         /\ f + NumPerPump <= next
    /\ \A f, g \in DOMAIN pump : f < g => f + NumPerPump <= g
    /\ \A i \in 0..(num_parts_ - 1) : i < next =>
         \E f \in DOMAIN pump : f <= i /\ i < f + NumPerPump

Parts ==
    /\ stage \in {"split", "compress", "start"} =>
         num_parts_ = 0 /\ next = 0 /\ DOMAIN pump = {} /\ fetched = {}
    /\ stage # "pump" => \A f \in DOMAIN pump : pump[f].segment = pump[f].num
    /\ stage = "pump" =>
         /\ num_parts_ = NumParts /\ fetched = {}
         /\ \A f \in DOMAIN pump : Pumping(f, pump[f])
    /\ stage \in {"pump", "stored"} =>
         /\ part = [i \in 0..(num_parts_ - 1) |-> part[i]]
         /\ \A i \in 0..(num_parts_ - 1) : part[i] \in {Missing, Slice(i)}

\* What has been fetched is in its place.
Fetched ==
    /\ fetched \subseteq Nat
    /\ stage \in {"stored", "fetch", "failed", "done"} => object = Stream
    /\ stage = "stored" => fetched = {}
    /\ stage = "fetch" =>
         /\ DOMAIN local_file_ = DOMAIN object /\ local_file_ \in Seq(Datum)
         /\ \A i \in fetched : \A k \in DOMAIN object :
              i * segment_size < k /\ k <= (i + 1) * segment_size => local_file_[k] = object[k]
    /\ stage = "done" => local_file_ = Raw(0, file_sz)
    /\ stage = "failed" => file_sz = 0
    /\ stage = "refused" => Pieces(Len(Stream), segment_size) > Lesser(MaxParts, MaxSegments)

IInv == Form /\ Cut /\ Planned /\ Parts /\ Fetched


-----------------------------------------------------------------------------
\* What the invariant says of the blocks and of the data.

\* The constants are numbers.
LEMMA Constants ==
    /\ MaxSize \in Nat /\ MinimalBlock \in Nat \ {0} /\ CpuThreads \in Nat \ {0}
    /\ IoThreads \in Nat \ {0} /\ MaxParts \in Nat \ {0} /\ MaxSegments \in Nat \ {0}
    /\ MaxPacked \in Nat \ {0} /\ MaxRead \in Nat \ {0}
    /\ Threshold \in Nat /\ MinimalBlock <= Threshold
    /\ \A size \in SegmentSizes : size \in Nat \ {0} /\ size \in Positive
    /\ \A num \in InFlight : num \in Nat \ {0}
BY SegmentsAssumption DEF Positive

\* A file that is compressed has blocks, of which none is empty: all but the last one
\* begin and end within the file, and the last one begins in it.
LEMMA Blocks ==
    ASSUME Form, do_compress
    PROVE  /\ file_sz \in Nat \ {0} /\ BlockSize \in Nat \ {0} /\ NumBlocks \in Nat \ {0}
           /\ file_sz <= NumBlocks * BlockSize /\ (NumBlocks - 1) * BlockSize < file_sz
<1>1. file_sz \in Nat /\ file_sz > Threshold
  BY Constants DEF Form
<1>2. file_sz \in Nat \ {0} /\ MinimalBlock <= file_sz
  BY <1>1, Constants
<1> DEFINE q == file_sz \div MinimalBlock
<1>3. q \in Nat \ {0} /\ q <= file_sz
  <2> DEFINE r == file_sz % MinimalBlock
  <2>1. q \in Nat /\ r \in 0..(MinimalBlock - 1) /\ file_sz = MinimalBlock * q + r
    BY <1>1, Constants, Division
  <2> HIDE DEF q, r
  <2>2. MinimalBlock \in Nat /\ MinimalBlock >= 1
    BY Constants
  <2>3. q # 0
    BY <1>2, <2>1, <2>2
  <2>4. q <= MinimalBlock * q
    BY <2>1, <2>2
  <2>5. MinimalBlock * q \in Nat
    BY <2>1, <2>2
  <2> HIDE DEF q
  <2> QED BY <2>1, <2>3, <2>4, <2>5
<1>4. EstimatedBlocks \in Nat \ {0} /\ EstimatedBlocks <= file_sz
  <2>1. EstimatedBlocks = Lesser(q, CpuThreads)
    BY DEF EstimatedBlocks
  <2> HIDE DEF q
  <2> QED BY <1>1, <1>3, <2>1, Constants DEF Lesser
<1>5. BlockSize \in Nat \ {0}
  <2> DEFINE e == EstimatedBlocks
  <2> DEFINE r == file_sz % e
  <2>1. BlockSize \in Nat /\ r \in 0..(e - 1) /\ file_sz = e * BlockSize + r
    BY <1>1, <1>4, Division DEF BlockSize
  <2> HIDE DEF e, r
  <2>2. BlockSize = 0 => file_sz = r
    BY <2>1, <1>4 DEF e
  <2> QED BY <1>4, <2>1, <2>2 DEF e
<1>6. /\ NumBlocks \in Nat /\ file_sz <= NumBlocks * BlockSize
      /\ NumBlocks >= 1 /\ (NumBlocks - 1) * BlockSize < file_sz
  BY SMTT(30), <1>2, <1>5, PiecesFit DEF NumBlocks
<1> QED BY <1>2, <1>5, <1>6

\* A part of the file as a slice of it.
LEMMA RawSlice ==
    ASSUME NEW size \in Nat, NEW k \in Nat, NEW l \in k..size
    PROVE  Raw(k, l - k) = SubSeq(Raw(0, size), k + 1, l)
<1> DEFINE u == Raw(0, size)
<1> DEFINE t == Raw(k, l - k)
<1> DEFINE c == k + 1
<1> DEFINE y == SubSeq(u, c, l)
<1>1. /\ u \in Seq(Datum) /\ Len(u) = size
      /\ \A i \in 1..size : u[i] = Byte(0, i - 1, 0) /\ u[i] \in Datum
  <2>1. /\ u \in Seq(Datum) /\ Len(u) = size
        /\ \A i \in 1..size : u[i] = Byte(0, 0 + i - 1, 0)
    BY RawType
  <2> HIDE DEF u
  <2> QED BY <2>1, ElementOfSeq
<1>2. /\ t \in Seq(Datum) /\ Len(t) = l - k
      /\ \A i \in 1..(l - k) : t[i] = Byte(0, k + i - 1, 0)
  <2>1. k \in Int /\ l - k \in Nat
    OBVIOUS
  <2> QED BY <2>1, RawType
<1>3. c \in Int /\ l \in Int /\ c = k + 1 /\ \A i \in c..l : i \in 1..size
  OBVIOUS
<1>4. y = SubSeq(u, c, l)
  OBVIOUS
<1> HIDE DEF c, u, t, y
<1>5. \A i \in c..l : u[i] \in Datum
  BY <1>1, <1>3
<1>6. /\ y \in Seq(Datum) /\ Len(y) = IF c <= l THEN l - c + 1 ELSE 0
      /\ \A i \in 1..(l - c + 1) : y[i] = u[c + i - 1]
  BY <1>3, <1>4, <1>5, SubSeqProperties
<1>7. Len(y) = l - k
  BY <1>3, <1>6
<1>8. ASSUME NEW i \in 1..(l - k) PROVE y[i] = t[i]
  <2> DEFINE g == c + i - 1
  <2>1. i \in 1..(l - c + 1) /\ g \in 1..size /\ g - 1 = k + i - 1 /\ c + i - 1 = g
    BY <1>3
  <2> HIDE DEF g
  <2>2. u[g] = Byte(0, g - 1, 0)
    BY <1>1, <2>1
  <2> QED BY <1>2, <1>6, <2>1, <2>2
<1>9. t = y
  BY <1>2, <1>6, <1>7, <1>8, SeqEqual
<1> QED BY <1>9 DEF t, y, u, c

\* The blocks follow each other from the first byte of the file to its last.
LEMMA BlocksFollow ==
    ASSUME Form, do_compress
    PROVE  /\ \A b \in 1..NumBlocks :
                /\ BlockAt(b).offset \in Nat /\ BlockAt(b).size \in Nat \ {0}
                /\ BlockAt(b).offset + BlockAt(b).size <= file_sz
                /\ b < NumBlocks => BlockAt(b + 1).offset = BlockAt(b).offset + BlockAt(b).size
                /\ b = NumBlocks => BlockAt(b).offset + BlockAt(b).size = file_sz
           /\ BlockAt(1).offset = 0
<1> DEFINE n == NumBlocks
<1> DEFINE size == BlockSize
<1>1. file_sz \in Nat /\ size \in Nat \ {0} /\ n \in Nat \ {0}
  BY Blocks
<1>2. file_sz <= n * size /\ (n - 1) * size < file_sz
  BY Blocks
<1>3. \A b : BlockAt(b).offset = size * (b - 1)
             /\ BlockAt(b).size = Lesser(file_sz - size * (b - 1), size)
  BY DEF BlockAt
<1> HIDE DEF n, size
<1>4. size * (1 - 1) = 0
  BY <1>1
<1>5. ASSUME NEW b \in 1..n
      PROVE  /\ size * (b - 1) \in Nat /\ size * (b - 1) < file_sz
             /\ size * (b + 1 - 1) = size * (b - 1) + size
             /\ b = n => file_sz <= size * (b - 1) + size
             /\ b < n => size * (b - 1) + size < file_sz
  <2> DEFINE e == b - 1
  <2> DEFINE g == n - 1
  <2>1. e \in Nat /\ g \in Nat /\ e <= g /\ e + 1 = b /\ b + 1 - 1 = e + 1 /\ g + 1 = n
        /\ (b < n => e + 1 <= g) /\ (b = n => e = g) /\ e + 1 \in Nat
    BY <1>1
  <2>2. n * size = (g + 1) * size /\ (n - 1) * size = g * size
    BY <2>1
  <2> HIDE DEF e, g
  <2>3. e * size \in Nat /\ g * size \in Nat /\ e * size <= g * size
        /\ (e + 1) * size = e * size + size
    BY <1>1, <2>1, Product
  <2>4. (g + 1) * size = g * size + size
    BY <1>1, <2>1, Product
  <2>5. b < n => (e + 1) * size <= g * size
    BY <1>1, <2>1, Product
  <2>6. size * (b - 1) = e * size /\ size * (b + 1 - 1) = (e + 1) * size
    BY <1>1, <2>1 DEF e
  <2> QED BY <1>1, <1>2, <2>1, <2>2, <2>3, <2>4, <2>5, <2>6
<1>6. ASSUME NEW b \in 1..n
      PROVE  /\ BlockAt(b).offset \in Nat /\ BlockAt(b).size \in Nat \ {0}
             /\ BlockAt(b).offset + BlockAt(b).size <= file_sz
             /\ b < n => BlockAt(b + 1).offset = BlockAt(b).offset + BlockAt(b).size
             /\ b = n => BlockAt(b).offset + BlockAt(b).size = file_sz
  <2> DEFINE k == size * (b - 1)
  <2>1. BlockAt(b).offset = k /\ BlockAt(b).size = Lesser(file_sz - k, size)
        /\ BlockAt(b + 1).offset = size * (b + 1 - 1)
    BY <1>3
  <2>2. k \in Nat /\ k < file_sz /\ size * (b + 1 - 1) = k + size
        /\ (b = n => file_sz <= k + size) /\ (b < n => k + size < file_sz)
    BY <1>5
  <2> HIDE DEF k
  <2> QED BY <1>1, <2>1, <2>2 DEF Lesser
<1>7. BlockAt(1).offset = 0
  BY <1>3, <1>4
<1> QED BY <1>6, <1>7 DEF n

\* The blocks as bytes of the file.
LEMMA BlocksAreFile ==
    ASSUME Form, do_compress
    PROVE  FlattenSeq([b \in 1..NumBlocks |-> Raw(BlockAt(b).offset, BlockAt(b).size)])
             = Raw(0, file_sz)
<1> DEFINE s == [b \in 1..NumBlocks |-> Raw(BlockAt(b).offset, BlockAt(b).size)]
<1> DEFINE n == NumBlocks
<1> DEFINE at == [b \in 0..n |-> IF b = 0 THEN 0 ELSE BlockAt(b).offset + BlockAt(b).size]
<1> DEFINE u == Raw(0, file_sz)
<1>1. file_sz \in Nat /\ n \in Nat \ {0}
  BY Blocks
<1>2. /\ \A b \in 1..n :
           /\ BlockAt(b).offset \in Nat /\ BlockAt(b).size \in Nat \ {0}
           /\ BlockAt(b).offset + BlockAt(b).size <= file_sz
           /\ b < n => BlockAt(b + 1).offset = BlockAt(b).offset + BlockAt(b).size
           /\ b = n => BlockAt(b).offset + BlockAt(b).size = file_sz
      /\ BlockAt(1).offset = 0
  BY BlocksFollow
<1>3. /\ u \in Seq(Datum) /\ Len(u) = file_sz
      /\ \A i \in 1..file_sz : u[i] = Byte(0, i - 1, 0)
  <2>1. /\ u \in Seq(Datum) /\ Len(u) = file_sz
        /\ \A i \in 1..file_sz : u[i] = Byte(0, 0 + i - 1, 0)
    BY <1>1, RawType
  <2> HIDE DEF u
  <2> QED BY <2>1
<1> HIDE DEF n, u
<1>4. at \in [0..n -> Nat] /\ at[0] = 0 /\ at[n] = file_sz
  BY <1>1, <1>2
<1>5. \A b \in 1..n : at[b - 1] = BlockAt(b).offset
                      /\ at[b] = BlockAt(b).offset + BlockAt(b).size
  <2> SUFFICES ASSUME NEW b \in 1..n PROVE at[b - 1] = BlockAt(b).offset
    OBVIOUS
  <2>1. CASE b = 1
    BY <1>1, <1>2, <2>1
  <2>2. CASE b # 1
    <3> DEFINE c == b - 1
    <3>1. c \in 1..n /\ c < n /\ c + 1 = b /\ c \in 0..n /\ c # 0
      BY <1>1, <2>2
    <3> HIDE DEF c
    <3> QED BY <1>2, <3>1 DEF c
  <2> QED BY <2>1, <2>2
<1>6. ASSUME NEW b \in 1..n
      PROVE  /\ s[b] \in Seq(Datum) /\ at[b] = at[b - 1] + Len(s[b])
             /\ \A j \in 1..Len(s[b]) :
                  at[b - 1] + j \in 1..file_sz /\ u[at[b - 1] + j] = s[b][j]
  <2> DEFINE k == BlockAt(b).offset
  <2> DEFINE m == BlockAt(b).size
  <2>1. s[b] = Raw(k, m)
    BY DEF n
  <2>2. k \in Nat /\ m \in Nat /\ k + m <= file_sz /\ k \in Int
    BY <1>2
  <2>3. at[b - 1] = k /\ at[b] = k + m
    BY <1>5
  <2> HIDE DEF k, m, at, s
  <2>4. /\ s[b] \in Seq(Datum) /\ Len(s[b]) = m
        /\ \A i \in 1..m : s[b][i] = Byte(0, k + i - 1, 0)
    BY <2>1, <2>2, RawType
  <2>5. ASSUME NEW j \in 1..m
        PROVE  at[b - 1] + j \in 1..file_sz /\ u[at[b - 1] + j] = s[b][j]
    <3> DEFINE g == k + j
    <3>1. g \in 1..file_sz /\ k + j - 1 = g - 1 /\ at[b - 1] + j = g
      BY <1>1, <2>2, <2>3
    <3> HIDE DEF g
    <3>2. u[g] = Byte(0, g - 1, 0)
      BY <1>3, <3>1
    <3> QED BY <2>4, <3>1, <3>2
  <2> QED BY <2>2, <2>3, <2>4, <2>5
<1>7. s \in [1..n -> Seq(Datum)]
  <2>1. s = [b \in 1..n |-> s[b]]
    BY DEF n
  <2> HIDE DEF s
  <2> QED BY <1>6, <2>1
<1> HIDE DEF s, at
<1>8. Ends(at, s, n)
  BY <1>4, <1>6 DEF Ends
<1>9. Composed(u, at, s, n)
  BY <1>4, <1>6 DEF Composed
<1>10. FlattenSeq(s) = u
  BY <1>1, <1>3, <1>4, <1>7, <1>8, <1>9, FlattenIs
<1> QED BY <1>10 DEF s, u

\* The pieces, and the data that they are together.
LEMMA Data ==
    ASSUME Form, Cut
    PROVE  /\ files_ \in Seq(Seq(Datum))
           /\ stage \notin {"split", "compress"} => Len(files_) \in Nat \ {0}
           /\ Stream \in Seq(Datum) /\ Len(Stream) = Bytes(DOMAIN files_)
           /\ Len(Stream) = BytesUpTo[Len(files_)]
           /\ Composed(Stream, BytesUpTo, files_, Len(files_))
<1>1. files_ \in Seq(Seq(Datum)) /\ (stage \notin {"split", "compress"} => Len(files_) \in Nat \ {0})
  <2>1. CASE ~do_compress
    <3>1. Raw(0, file_sz) \in Seq(Datum)
      BY Constants, RawType DEF Form
    <3>2. files_ = <<Raw(0, file_sz)>>
      BY <2>1 DEF Cut
    <3> HIDE DEF Raw
    <3> QED BY <3>1, <3>2
  <2>2. CASE do_compress /\ stage = "split"
    BY <2>2 DEF Cut
  <2>3. CASE do_compress /\ stage # "split"
    <3> DEFINE n == NumBlocks
    <3>1. n \in Nat \ {0}
      BY <2>3, Blocks
    <3>2. files_ = [b \in 1..n |-> files_[b]]
      BY <2>3 DEF Cut
    <3>3. ASSUME NEW b \in 1..n PROVE files_[b] \in Seq(Datum)
      <4> DEFINE x == files_[b]
      <4>0. \A c \in 1..NumBlocks :
              \/ files_[c] = <<>>
              \/ Len(files_[c]) \in Positive /\ files_[c] = Packed(c, Len(files_[c]))
        BY <2>3, Zenon DEF Cut
      <4>1. x = <<>> \/ (Len(x) \in Nat /\ x = Packed(b, Len(x)))
        BY <4>0 DEF Positive
      <4>2. b \in Int
        BY <3>1
      <4> HIDE DEF x
      <4>3. CASE x = <<>>
        BY <4>3 DEF x
      <4>4. CASE Len(x) \in Nat /\ x = Packed(b, Len(x))
        BY <4>2, <4>4, PackedType DEF x
      <4> QED BY <4>1, <4>3, <4>4
    <3> HIDE DEF n
    <3> QED BY <3>1, <3>2, <3>3
  <2> QED BY <2>1, <2>2, <2>3 DEF Form
<1> DEFINE n == Len(files_)
<1>2. /\ Ends(BytesUpTo, files_, n) /\ n \in Nat /\ files_ \in [1..n -> Seq(Datum)]
      /\ Bytes(DOMAIN files_) = BytesUpTo[n]
  BY <1>1, BytesEnd
<1> HIDE DEF n
<1>3. Stream \in Seq(Datum) /\ Len(Stream) = BytesUpTo[n] /\ Composed(Stream, BytesUpTo, files_, n)
  BY <1>2, Flattened DEF Stream
<1> QED BY <1>1, <1>2, <1>3 DEF n

\* The data of a file that is not compressed is the file.
LEMMA PlainData ==
    ASSUME Form, Cut, ~do_compress
    PROVE  Stream = Raw(0, file_sz)
<1> DEFINE u == Raw(0, file_sz)
<1>1. files_ = <<u>> /\ Len(files_) = 1 /\ files_[1] = u
  BY DEF Cut
<1>2. u \in Seq(Datum) /\ Len(u) = file_sz /\ file_sz \in Nat
  <2>1. file_sz \in Nat /\ 0 \in Int
    BY Constants DEF Form
  <2> QED BY <2>1, RawType
<1> HIDE DEF u
<1>3. Stream \in Seq(Datum) /\ Len(Stream) = BytesUpTo[1] /\ Composed(Stream, BytesUpTo, files_, 1)
  BY <1>1, Data
<1>4. Ends(BytesUpTo, files_, 1)
  BY <1>1, Data, BytesEnd
<1>5. BytesUpTo[0] = 0 /\ BytesUpTo[1] = 0 + Len(u)
  BY <1>1, <1>4 DEF Ends
<1>6. ASSUME NEW j \in 1..Len(u) PROVE Stream[j] = u[j]
  <2>1. Stream[0 + j] = u[j]
    BY <1>1, <1>3, <1>5 DEF Composed
  <2>2. 0 + j = j
    BY <1>2
  <2> QED BY <2>1, <2>2
<1>7. Len(Stream) = Len(u)
  BY <1>2, <1>3, <1>5
<1> QED BY <1>2, <1>3, <1>6, <1>7, SeqEqual DEF u

\* Compressed bytes follow each other as those of n blocks that are all whole.
Chain(s, n) ==
    /\ Len(s) \in Nat \ {0}
    /\ \A l \in 1..Len(s) :
         s[l] \in Datum /\ s[l].block \in 1..n /\ s[l].nth \in 1..s[l].of
    /\ s[1].block = 1 /\ s[1].nth = 1
    /\ s[Len(s)].block = n /\ s[Len(s)].nth = s[Len(s)].of
    /\ \A l \in 1..Len(s) \ {1} :
         IF s[l - 1].nth = s[l - 1].of
         THEN s[l].block = s[l - 1].block + 1 /\ s[l].nth = 1
         ELSE s[l] = [s[l - 1] EXCEPT !.nth = @ + 1]

\* The data of a file that is compressed is its blocks in their order.
LEMMA CompressedData ==
    ASSUME Form, Cut, do_compress, stage \notin {"split", "compress"}
    PROVE  Chain(Stream, NumBlocks)
<1> DEFINE n == NumBlocks
<1> DEFINE at == BytesUpTo
<1> DEFINE m == Len(Stream)
<1>1. n \in Nat \ {0}
  BY Blocks
<1>2. Len(files_) = n
  <2>1. files_ = [b \in 1..n |-> files_[b]]
    BY DEF Cut
  <2> HIDE DEF n
  <2> QED BY <1>1, <2>1
<1>3. /\ Stream \in Seq(Datum) /\ m = at[n] /\ Composed(Stream, at, files_, n)
      /\ Ends(at, files_, n) /\ files_ \in [1..n -> Seq(Datum)]
  BY <1>2, Data, BytesEnd
<1>4. \A b \in 1..n : Len(files_[b]) \in Nat \ {0} /\ files_[b] = Packed(b, Len(files_[b]))
  BY DEF Cut, Positive
<1> HIDE DEF n, at, m
<1>5. at[0] = 0 /\ m = at[n] /\ \A b \in 0..n : at[b] \in Nat
  BY <1>1, <1>3 DEF Ends
<1>6. \A b \in 1..n : b - 1 \in 0..n /\ at[b] > at[b - 1] /\ at[b] <= m
  <2> SUFFICES ASSUME NEW b \in 1..n PROVE at[b] > at[b - 1] /\ at[b] <= m
    BY <1>1
  <2>1. at[b] = at[b - 1] + Len(files_[b]) /\ b - 1 \in 0..n
    BY <1>1, <1>3 DEF Ends
  <2>2. b \in 0..n /\ n \in b..n
    BY <1>1
  <2>3. at[b] <= at[n]
    BY <1>1, <1>3, <2>2, Rising
  <2> QED BY <1>4, <1>5, <2>1, <2>2, <2>3
<1>7. ASSUME NEW b \in 1..n, NEW l \in (at[b - 1] + 1)..at[b]
      PROVE  Stream[l] = Byte(b, l - at[b - 1], at[b] - at[b - 1])
  <2> DEFINE j == l - at[b - 1]
  <2> DEFINE r == Len(files_[b])
  <2>1. b - 1 \in 0..n /\ b \in 0..n /\ b \in Int
    BY <1>1
  <2>2. at[b] = at[b - 1] + r /\ at[b - 1] \in Nat /\ r \in Nat /\ files_[b] = Packed(b, r)
    BY <1>3, <1>4, <1>5, <2>1 DEF Ends
  <2>3. j \in 1..r /\ at[b - 1] + j = l /\ at[b] - at[b - 1] = r
    BY <1>5, <2>1, <2>2
  <2>4. Stream[at[b - 1] + j] = files_[b][j]
    BY <1>3, <2>3 DEF Composed
  <2> HIDE DEF j, r
  <2>5. Packed(b, r)[j] = Byte(b, j, r)
    BY <2>1, <2>2, <2>3, PackedType
  <2> QED BY <2>2, <2>3, <2>4, <2>5 DEF j
<1>8. ASSUME NEW l \in 1..m
      PROVE  \E b \in 1..n : l \in (at[b - 1] + 1)..at[b]
  <2>1. l \in 1..at[n]
    BY <1>5
  <2>2. PICK b \in 1..n : at[b - 1] < l /\ l <= at[b]
    BY <1>1, <1>3, <2>1, Within
  <2> QED BY <1>1, <1>5, <1>6, <2>2
<1>9. m \in Nat \ {0}
  <2>1. n \in 1..n /\ n \in 0..n /\ n - 1 \in 0..n
    BY <1>1
  <2> QED BY <1>5, <1>6, <2>1
<1>10. ASSUME NEW l \in 1..m
       PROVE  Stream[l] \in Datum /\ Stream[l].block \in 1..n /\ Stream[l].nth \in 1..Stream[l].of
  <2>1. PICK b \in 1..n : l \in (at[b - 1] + 1)..at[b]
    BY <1>8
  <2>2. b - 1 \in 0..n /\ b \in 0..n /\ b \in Int /\ at[b - 1] \in Nat /\ at[b] \in Nat
    BY <1>1, <1>5
  <2>3. Stream[l] = Byte(b, l - at[b - 1], at[b] - at[b - 1])
    BY <1>7, <2>1
  <2>4. l - at[b - 1] \in 1..(at[b] - at[b - 1]) /\ at[b] - at[b - 1] \in Int
    BY <2>1, <2>2
  <2> QED BY <2>2, <2>3, <2>4 DEF Byte, Datum
<1>11. Stream[1].block = 1 /\ Stream[1].nth = 1
  <2>1. 1 \in 1..n /\ 1 - 1 = 0 /\ at[1] > at[1 - 1] /\ at[1] \in Nat
    BY <1>1, <1>5, <1>6
  <2>2. 1 \in (at[1 - 1] + 1)..at[1] /\ 1 - at[1 - 1] = 1
    BY <1>5, <2>1
  <2>3. Stream[1] = Byte(1, 1 - at[1 - 1], at[1] - at[1 - 1])
    BY <1>7, <2>1, <2>2
  <2> QED BY <2>2, <2>3 DEF Byte
<1>12. Stream[m].block = n /\ Stream[m].nth = Stream[m].of
  <2>1. n \in 1..n /\ n - 1 \in 0..n /\ n \in 0..n
    BY <1>1
  <2>2. m \in (at[n - 1] + 1)..at[n] /\ m = at[n]
    BY <1>5, <1>6, <2>1
  <2>3. Stream[m] = Byte(n, m - at[n - 1], at[n] - at[n - 1])
    BY <1>7, <2>1, <2>2
  <2> QED BY <2>2, <2>3 DEF Byte
<1>13. ASSUME NEW l \in 1..m \ {1}
       PROVE  IF Stream[l - 1].nth = Stream[l - 1].of
              THEN Stream[l].block = Stream[l - 1].block + 1 /\ Stream[l].nth = 1
              ELSE Stream[l] = [Stream[l - 1] EXCEPT !.nth = @ + 1]
  <2> DEFINE k == l - 1
  <2>1. k \in 1..m /\ l = k + 1 /\ l <= m
    BY <1>9
  <2>2. PICK b \in 1..n : k \in (at[b - 1] + 1)..at[b]
    BY <1>8, <2>1
  <2>3. b - 1 \in 0..n /\ b \in 0..n /\ b \in Int /\ at[b - 1] \in Nat /\ at[b] \in Nat
    BY <1>1, <1>5
  <2> HIDE DEF k
  <2>4. Stream[k] = Byte(b, k - at[b - 1], at[b] - at[b - 1])
    BY <1>7, <2>2
  <2>5. CASE k = at[b]
    <3> DEFINE c == b + 1
    <3>1. b # n
      BY <1>5, <1>9, <2>1, <2>5
    <3>2. c \in 1..n /\ c - 1 = b
      BY <1>1, <3>1
    <3>3. at[c] > at[b] /\ at[c] \in Nat
      <4>1. c \in 0..n
        BY <1>1, <3>2
      <4> HIDE DEF c
      <4> QED BY <1>5, <1>6, <3>2, <4>1
    <3>4. l \in (at[c - 1] + 1)..at[c] /\ l - at[c - 1] = 1
      BY <2>1, <2>3, <2>5, <3>2, <3>3
    <3> HIDE DEF c
    <3>5. Stream[l] = Byte(c, l - at[c - 1], at[c] - at[c - 1])
      BY <1>7, <3>2, <3>4
    <3>6. Stream[l].block = b + 1 /\ Stream[l].nth = 1
      BY <3>4, <3>5 DEF Byte, c
    <3>7. Stream[k].block = b /\ Stream[k].nth = Stream[k].of
      BY <2>4, <2>5 DEF Byte
    <3> QED BY <3>6, <3>7 DEF k
  <2>6. CASE k # at[b]
    <3> DEFINE j == k - at[b - 1]
    <3> DEFINE r == at[b] - at[b - 1]
    <3>1. l \in (at[b - 1] + 1)..at[b] /\ l - at[b - 1] = j + 1 /\ j # r
      BY <2>1, <2>2, <2>3, <2>6
    <3>2. Stream[l] = Byte(b, l - at[b - 1], at[b] - at[b - 1])
      BY <1>7, <3>1
    <3> HIDE DEF j, r
    <3>3. Stream[l] = Byte(b, j + 1, r) /\ Stream[k] = Byte(b, j, r)
      BY <2>4, <3>1, <3>2 DEF j, r
    <3>4. Stream[k].nth # Stream[k].of /\ Stream[l] = [Stream[k] EXCEPT !.nth = @ + 1]
      BY <3>1, <3>3 DEF Byte
    <3> QED BY <3>4 DEF k
  <2> QED BY <2>5, <2>6
<1> QED BY <1>9, <1>10, <1>11, <1>12, <1>13 DEF Chain, m, n

\* A file without data is empty.
LEMMA EmptyData ==
    ASSUME Form, Cut, stage \notin {"split", "compress"}, Stream = <<>>
    PROVE  file_sz = 0
<1>1. Len(Stream) = 0
  OBVIOUS
<1>2. CASE do_compress
  <2>1. Chain(Stream, NumBlocks)
    BY <1>2, CompressedData
  <2> QED BY <1>1, <2>1 DEF Chain
<1>3. CASE ~do_compress
  <2>1. file_sz \in Nat /\ 0 \in Int
    BY Constants DEF Form
  <2>2. Len(Raw(0, file_sz)) = file_sz
    BY <2>1, RawType
  <2>3. Stream = Raw(0, file_sz)
    BY <1>3, PlainData
  <2> QED BY <1>1, <2>2, <2>3
<1> QED BY <1>2, <1>3

\* Compressed data is what the decompressor takes.
LEMMA DataIsGzip ==
    ASSUME NEW n, NEW s, Chain(s, n)
    PROVE  IsGzip(s)
<1>1. Len(s) \in Nat \ {0} /\ DOMAIN s = 1..Len(s)
  BY DEF Chain
<1> QED BY <1>1 DEF Chain, IsGzip, Last

\* What the decompressor makes of the compressed data is the file.
LEMMA InflatedIsFile ==
    ASSUME Form, Cut, do_compress, stage \notin {"split", "compress"}
    PROVE  Inflated(Stream) = Raw(0, file_sz)
<1> DEFINE n == NumBlocks
<1> DEFINE m == Len(Stream)
<1> DEFINE t == Stream
<1> DEFINE whole(l) == t[l].nth = t[l].of
<1> DEFINE from(l) == BlockAt(t[l].block).offset
<1> DEFINE size(l) == BlockAt(t[l].block).size
<1> DEFINE s == [l \in 1..m |-> IF whole(l) THEN Raw(from(l), size(l)) ELSE <<>>]
<1> DEFINE at == [l \in 0..m |-> IF l = 0 THEN 0
                                 ELSE IF whole(l) THEN from(l) + size(l) ELSE from(l)]
<1> DEFINE u == Raw(0, file_sz)
<1>1. file_sz \in Nat /\ n \in Nat \ {0}
  BY Blocks
<1>2. /\ \A b \in 1..n :
           /\ BlockAt(b).offset \in Nat /\ BlockAt(b).size \in Nat \ {0}
           /\ BlockAt(b).offset + BlockAt(b).size <= file_sz
           /\ b < n => BlockAt(b + 1).offset = BlockAt(b).offset + BlockAt(b).size
           /\ b = n => BlockAt(b).offset + BlockAt(b).size = file_sz
      /\ BlockAt(1).offset = 0
  BY BlocksFollow
<1>3. /\ u \in Seq(Datum) /\ Len(u) = file_sz
      /\ \A i \in 1..file_sz : u[i] = Byte(0, i - 1, 0)
  <2>1. /\ u \in Seq(Datum) /\ Len(u) = file_sz
        /\ \A i \in 1..file_sz : u[i] = Byte(0, 0 + i - 1, 0)
    BY <1>1, RawType
  <2> HIDE DEF u
  <2> QED BY <2>1
<1>4. Chain(t, n)
  BY CompressedData
<1>5. t \in Seq(Datum) /\ m = Len(t) /\ m \in Nat \ {0} /\ DOMAIN t = 1..m
  BY <1>4, Data, LenProperties DEF Chain
<1>6. Inflated(Stream) = FlattenSeq(s)
  <2>1. block = [b \in 1..n |-> BlockAt(b)]
    BY DEF Cut
  <2>2. \A l \in 1..m : t[l].block \in 1..n
    BY <1>4, <1>5 DEF Chain
  <2> HIDE DEF n, t, m
  <2>3. \A l \in 1..m : block[t[l].block] = BlockAt(t[l].block)
    BY <2>1, <2>2
  <2>4. s = [l \in DOMAIN t |-> IF t[l].nth = t[l].of
                                THEN Raw(block[t[l].block].offset, block[t[l].block].size)
                                ELSE <<>>]
    BY <1>5, <2>3
  <2> HIDE DEF s
  <2> QED BY <2>4 DEF Inflated, t
<1> HIDE DEF n, t, m, u
<1>7. ASSUME NEW l \in 1..m
      PROVE  /\ t[l].block \in 1..n /\ from(l) \in Nat /\ size(l) \in Nat \ {0}
             /\ from(l) + size(l) <= file_sz
  BY <1>2, <1>4, <1>5 DEF Chain
<1>8. ASSUME NEW l \in 1..m PROVE at[l - 1] = from(l)
  <2>1. CASE l = 1
    <3>1. t[1].block = 1
      BY <1>4 DEF Chain
    <3>2. l - 1 = 0 /\ 0 \in 0..m
      BY <1>5, <2>1
    <3> QED BY <1>2, <2>1, <3>1, <3>2
  <2>2. CASE l # 1
    <3> DEFINE k == l - 1
    <3>1. k \in 1..m /\ k \in 0..m /\ k # 0 /\ l \in 1..Len(t) \ {1}
      BY <1>5, <2>2
    <3>2. IF whole(k) THEN t[l].block = t[k].block + 1
          ELSE t[l] = [t[k] EXCEPT !.nth = @ + 1]
      BY <1>4, <3>1 DEF Chain
    <3>3. at[k] = IF whole(k) THEN from(k) + size(k) ELSE from(k)
      BY <3>1
    <3>4. t[k].block \in 1..n /\ t[l].block \in 1..n /\ t[k] \in Datum
      BY <1>4, <1>5, <1>7, <3>1 DEF Chain
    <3> HIDE DEF k, at
    <3>5. CASE whole(k)
      <4> DEFINE b == t[k].block
      <4>1. b \in 1..n /\ t[l].block = b + 1 /\ b < n
        BY <1>1, <3>2, <3>4, <3>5
      <4>2. at[k] = BlockAt(b).offset + BlockAt(b).size
        BY <3>3, <3>5
      <4> HIDE DEF b
      <4> QED BY <1>2, <4>1, <4>2 DEF k
    <3>6. CASE ~whole(k)
      <4>1. t[l].block = t[k].block
        BY <3>2, <3>4, <3>6 DEF Datum
      <4> QED BY <3>3, <3>6, <4>1 DEF k
    <3> QED BY <3>5, <3>6
  <2> QED BY <2>1, <2>2
<1>9. ASSUME NEW l \in 1..m
      PROVE  /\ s[l] \in Seq(Datum) /\ at[l] = at[l - 1] + Len(s[l])
             /\ \A j \in 1..Len(s[l]) :
                  at[l - 1] + j \in 1..file_sz /\ u[at[l - 1] + j] = s[l][j]
  <2> DEFINE k == from(l)
  <2> DEFINE r == size(l)
  <2>1. /\ k \in Nat /\ r \in Nat /\ k + r <= file_sz /\ k \in Int
        /\ at[l - 1] = k
    BY <1>7, <1>8
  <2>2. s[l] = IF whole(l) THEN Raw(k, r) ELSE <<>>
    OBVIOUS
  <2>3. at[l] = IF whole(l) THEN k + r ELSE k
    BY <1>5
  <2> HIDE DEF at, s, k, r
  <2>4. CASE ~whole(l)
    <3>1. s[l] = <<>> /\ at[l] = k
      BY <2>2, <2>3, <2>4, Zenon
    <3>2. s[l] \in Seq(Datum) /\ Len(s[l]) = 0
      BY <3>1, EmptySeq
    <3> QED BY <2>1, <3>1, <3>2
  <2>5. CASE whole(l)
    <3>1. s[l] = Raw(k, r) /\ at[l] = k + r
      BY <2>2, <2>3, <2>5, Zenon
    <3>0. /\ Raw(k, r) \in Seq(Datum) /\ Len(Raw(k, r)) = r
          /\ \A i \in 1..r : Raw(k, r)[i] = Byte(0, k + i - 1, 0)
      BY <2>1, RawType
    <3>2. /\ s[l] \in Seq(Datum) /\ Len(s[l]) = r
          /\ \A i \in 1..r : s[l][i] = Byte(0, k + i - 1, 0)
      BY <3>0, <3>1, Zenon
    <3>3. ASSUME NEW j \in 1..r
          PROVE  at[l - 1] + j \in 1..file_sz /\ u[at[l - 1] + j] = s[l][j]
      <4> DEFINE g == k + j
      <4>1. g \in 1..file_sz /\ k + j - 1 = g - 1 /\ at[l - 1] + j = g
        BY <1>1, <2>1
      <4> HIDE DEF g
      <4>2. u[g] = Byte(0, g - 1, 0)
        BY <1>3, <4>1
      <4> QED BY <3>2, <4>1, <4>2
    <3> QED BY <2>1, <3>1, <3>2, <3>3
  <2> QED BY <2>4, <2>5
<1>10. s \in [1..m -> Seq(Datum)]
  <2>1. s = [l \in 1..m |-> s[l]]
    OBVIOUS
  <2> HIDE DEF s
  <2> QED BY <1>9, <2>1
<1>11. at \in [0..m -> Nat] /\ at[0] = 0
  BY <1>5, <1>7
<1>12. at[m] = file_sz
  <2>1. m \in 1..m /\ t[m].block = n /\ whole(m)
    BY <1>4, <1>5 DEF Chain
  <2>2. at[m] = BlockAt(n).offset + BlockAt(n).size
    BY <1>5, <2>1
  <2> HIDE DEF at
  <2> QED BY <1>1, <1>2, <2>2
<1> HIDE DEF s, at
<1>13. Ends(at, s, m) /\ Composed(u, at, s, m)
  BY <1>9, <1>11, <1>12 DEF Ends, Composed
<1>14. FlattenSeq(s) = u
  BY <1>3, <1>5, <1>10, <1>12, <1>13, FlattenIs
<1> QED BY <1>6, <1>14 DEF u

-----------------------------------------------------------------------------
\* Every step preserves the invariant.

\* It holds at the start.
LEMMA InitInv ==
    Init => IInv
<1> SUFFICES ASSUME Init PROVE IInv
  OBVIOUS
<1>1. stage \in {"split", "start"} /\ (do_compress <=> stage = "split")
  BY DEF Init
<1>2. Form
  <2>1. do_compress = FALSE \/ do_compress = (file_sz > Threshold)
    BY DEF Init
  <2>2. (file_sz > Threshold) \in BOOLEAN
    <3>1. file_sz \in Nat /\ Threshold \in Nat
      BY Constants DEF Init
    <3> QED BY <3>1
  <2>3. do_compress \in BOOLEAN /\ (do_compress => file_sz > Threshold)
    BY <2>1, <2>2, Zenon
  <2> QED BY <1>1, <2>3 DEF Init, Form
<1>3. Cut
  BY <1>1 DEF Init, Cut
<1>4. pump = <<>> /\ DOMAIN pump = {} /\ next = 0 /\ num_parts_ = 0 /\ fetched = {}
  BY DEF Init
<1>5. Planned
  <2>1. pump = [f \in DOMAIN pump |-> pump[f]]
    BY <1>4
  <2>2. num_parts_ \in 0..MaxParts
    BY <1>4, Constants
  <2> QED BY <1>4, <2>1, <2>2 DEF Planned
<1>6. Parts
  BY <1>1, <1>4 DEF Parts
<1>7. Fetched
  BY <1>1, <1>4 DEF Fetched
<1> QED BY <1>2, <1>3, <1>5, <1>6, <1>7 DEF IInv

\* The plan depends on few variables.
LEMMA PlanStays ==
    ASSUME Planned, UNCHANGED <<num_parts_, next, pump, max_in_flight>>
    PROVE  Planned'
<1>1. NumPerPump' = NumPerPump
  BY DEF NumPerPump
<1> QED BY <1>1 DEF Planned

\* So do the pieces: what is cut stays so while nothing is compressed.
LEMMA CutStays ==
    ASSUME Cut, UNCHANGED <<file_sz, do_compress, block, files_>>,
           stage \notin {"split", "compress"}, stage' \notin {"split", "compress"}
    PROVE  Cut' /\ Stream' = Stream /\ Bytes(DOMAIN files_)' = Bytes(DOMAIN files_)
<1>1. NumBlocks' = NumBlocks /\ BlockSize' = BlockSize
  BY DEF NumBlocks, BlockSize, EstimatedBlocks
<1>2. \A b : BlockAt(b)' = BlockAt(b)
  BY <1>1 DEF BlockAt
<1>3. Cut'
  <2>1. CASE do_compress
    BY <1>1, <1>2, <2>1 DEF Cut
  <2>2. CASE ~do_compress
    BY <2>2 DEF Cut
  <2> QED BY <2>1, <2>2
<1>4. Stream' = Stream /\ Bytes(DOMAIN files_)' = Bytes(DOMAIN files_)
  BY DEF Stream, Bytes
<1> QED BY <1>3, <1>4

\* Cutting a file into blocks.
LEMMA SplitInv ==
    ASSUME IInv, Split
    PROVE  IInv'
<1> USE DEF IInv
<1>1. stage = "split" /\ stage' = "compress" /\ do_compress
      /\ UNCHANGED <<file_sz, do_compress, segment_size, max_in_flight, num_parts_, next, pump,
                     fetched>>
  BY DEF Split, Cut, source, download
<1>2. Form'
  BY <1>1 DEF Form
<1>3. NumBlocks' = NumBlocks /\ BlockSize' = BlockSize
  BY <1>1 DEF NumBlocks, BlockSize, EstimatedBlocks
<1>4. \A b : BlockAt(b)' = BlockAt(b)
  BY <1>1, <1>3 DEF BlockAt
<1>5. block' = [b \in 1..NumBlocks |-> BlockAt(b)] /\ files_' = [b \in 1..NumBlocks |-> <<>>]
  BY DEF Split, BlockAt
<1>6. Cut'
  BY <1>1, <1>3, <1>4, <1>5 DEF Cut
<1>7. Planned'
  BY <1>1, PlanStays
<1>8. Parts' /\ Fetched'
  BY <1>1 DEF Parts, Fetched
<1> QED BY <1>2, <1>6, <1>7, <1>8

\* Compressing a block.
LEMMA CompressInv ==
    ASSUME IInv, NEW b \in DOMAIN files_, Compress(b)
    PROVE  IInv'
<1> USE DEF IInv
<1>1. /\ stage = "compress" /\ stage' \in {"compress", "start"} /\ do_compress
      /\ UNCHANGED <<file_sz, do_compress, segment_size, max_in_flight, num_parts_, next, pump,
                     block, fetched>>
  BY DEF Compress, Cut, source, download
<1>2. Form'
  BY <1>1 DEF Form
<1>3. NumBlocks' = NumBlocks /\ BlockSize' = BlockSize
  BY <1>1 DEF NumBlocks, BlockSize, EstimatedBlocks
<1>4. \A c : BlockAt(c)' = BlockAt(c)
  BY <1>1, <1>3 DEF BlockAt
<1>5. PICK k \in 1..MaxPacked : files_' = [files_ EXCEPT ![b] = Packed(b, k)]
  BY DEF Compress
<1>6. files_ = [c \in 1..NumBlocks |-> files_[c]] /\ b \in 1..NumBlocks /\ b \in Int
  BY <1>1, Blocks DEF Cut
<1>7. Len(Packed(b, k)) = k /\ k \in Positive
  <2>1. k \in Nat /\ k # 0
    BY Constants
  <2> QED BY <1>6, <2>1, PackedType DEF Positive
<1>8. files_' = [c \in 1..NumBlocks |-> files_'[c]]
      /\ \A c \in 1..NumBlocks : files_'[c] = IF c = b THEN Packed(b, k) ELSE files_[c]
  BY <1>5, <1>6
<1>9. ASSUME NEW c \in 1..NumBlocks
      PROVE  \/ stage' = "compress" /\ files_'[c] = <<>>
             \/ Len(files_'[c]) \in Positive /\ files_'[c] = Packed(c, Len(files_'[c]))
  <2>1. CASE c = b
    BY <1>7, <1>8, <2>1
  <2>2. CASE c # b
    <3>1. files_'[c] = files_[c] /\ c \in DOMAIN files_ \ {b}
      BY <1>6, <1>8, <2>2
    <3>2. \/ files_[c] = <<>>
          \/ Len(files_[c]) \in Positive /\ files_[c] = Packed(c, Len(files_[c]))
      BY <1>1 DEF Cut
    <3>3. files_[c] = <<>> => stage' = "compress"
      BY <3>1 DEF Compress
    <3> QED BY <3>1, <3>2, <3>3
  <2> QED BY <2>1, <2>2
<1>10. Cut'
  <2>1. block = [c \in 1..NumBlocks |-> BlockAt(c)]
    BY <1>1 DEF Cut
  <2> QED BY <1>1, <1>3, <1>4, <1>8, <1>9, <2>1 DEF Cut
<1>11. Planned'
  BY <1>1, PlanStays
<1>12. Parts' /\ Fetched'
  BY <1>1 DEF Parts, Fetched
<1> QED BY <1>2, <1>10, <1>11, <1>12

\* The number of parts that the data is divided into, when there are not too many.
LEMMA PartsFit ==
    ASSUME Form, Cut
    PROVE  /\ NumParts \in Nat \ {0}
           /\ Len(Stream) \in Nat /\ Len(Stream) <= NumParts * segment_size
           /\ (NumParts - 1) * segment_size <= Len(Stream)
           /\ NumParts > 1 => (NumParts - 1) * segment_size < Len(Stream)
<1> DEFINE a == Len(Stream)
<1> DEFINE n == Pieces(a, segment_size)
<1>1. segment_size \in Nat \ {0}
  BY Constants DEF Form
<1>2. a \in Nat /\ Bytes(DOMAIN files_) = a
  BY Data, LenProperties
<1> HIDE DEF a
<1>3. /\ n \in Nat /\ a <= n * segment_size /\ (a = 0 => n = 0)
      /\ (a > 0 => n >= 1 /\ (n - 1) * segment_size < a)
  BY <1>1, <1>2, PiecesFit
<1>4. NumParts = IF n = 0 THEN 1 ELSE n
  BY <1>2 DEF NumParts
<1> HIDE DEF n
<1>5. 0 * segment_size = 0 /\ 1 * segment_size = segment_size /\ (1 - 1) * segment_size = 0
  BY <1>1
<1>6. CASE n = 0
  BY <1>1, <1>2, <1>3, <1>4, <1>5, <1>6 DEF a
<1>7. CASE n # 0
  <2>1. a > 0
    BY <1>2, <1>3, <1>7
  <2>2. (n - 1) * segment_size \in Nat
    BY <1>1, <1>3, <1>7
  <2> QED BY <1>2, <1>3, <1>4, <1>7, <2>1, <2>2 DEF a
<1> QED BY <1>6, <1>7

\* Dividing the data into parts.
LEMMA StartInv ==
    ASSUME IInv, Start
    PROVE  IInv'
<1> USE DEF IInv
<1>1. /\ stage = "start" /\ stage' \in {"refused", "pump"}
      /\ UNCHANGED <<file_sz, do_compress, segment_size, max_in_flight, block, files_, next,
                     pump, fetched>>
      /\ next = 0 /\ DOMAIN pump = {} /\ num_parts_ = 0 /\ fetched = {}
  BY DEF Start, Parts, source, download
<1>2. Form'
  BY <1>1 DEF Form
<1>3. Cut' /\ Stream' = Stream /\ Bytes(DOMAIN files_)' = Bytes(DOMAIN files_)
  BY <1>1, CutStays
<1>4. NumParts' = NumParts
  BY <1>1, <1>3 DEF NumParts
<1>5. NumParts \in Nat \ {0}
  BY PartsFit
<1>6. CASE TooManyParts
  <2>1. stage' = "refused" /\ num_parts_' = num_parts_
    BY <1>6 DEF Start
  <2>2. Planned'
    BY <1>1, <2>1, PlanStays
  <2>3. Pieces(Len(Stream), segment_size) > Lesser(MaxParts, MaxSegments)
    <3> DEFINE n == Pieces(Len(Stream), segment_size)
    <3>1. Len(Stream) \in Nat /\ segment_size \in Nat \ {0}
          /\ Bytes(DOMAIN files_) = Len(Stream)
      BY PartsFit, Data, Constants DEF Form
    <3>2. n \in Nat
      BY <3>1, PiecesFit
    <3>3. NumParts = IF n = 0 THEN 1 ELSE n
      BY <3>1 DEF NumParts
    <3> HIDE DEF n
    <3>4. n > MaxParts
      BY <1>6, <3>2, <3>3, Constants DEF TooManyParts
    <3>5. n > Lesser(MaxParts, MaxSegments)
      BY <3>2, <3>4, Constants DEF Lesser
    <3> QED BY <3>5 DEF n
  <2>4. Parts'
    BY <1>1, <2>1 DEF Parts
  <2>5. Fetched'
    BY <1>1, <1>3, <2>1, <2>3 DEF Fetched
  <2> QED BY <1>2, <1>3, <2>2, <2>4, <2>5
<1>7. CASE ~TooManyParts
  <2>1. /\ stage' = "pump" /\ num_parts_' = NumParts
        /\ part' = [i \in 0..(NumParts - 1) |-> Missing]
    BY <1>7 DEF Start
  <2>2. num_parts_' \in 0..MaxParts
    BY <1>5, <1>7, <2>1, Constants DEF TooManyParts
  <2>3. Planned'
    BY <1>1, <2>2 DEF Planned
  <2>4. Parts'
    BY <1>1, <1>4, <2>1 DEF Parts
  <2>5. Fetched'
    BY <1>1, <2>1 DEF Fetched
  <2> QED BY <1>2, <1>3, <2>3, <2>4, <2>5
<1> QED BY <1>6, <1>7

\* The number of parts of a pump: two pumps fit into the budget of segments, and there
\* is a part for it unless a single segment may be in flight.
LEMMA PerPump ==
    ASSUME Form, num_parts_ \in Nat
    PROVE  /\ NumPerPump \in Nat /\ 2 * NumPerPump <= max_in_flight
           /\ max_in_flight > 1 => NumPerPump >= 1
<1> DEFINE a == num_parts_ \div IoThreads
<1> DEFINE b == max_in_flight \div 2
<1>1. a \in Nat
  BY Constants, Division
<1>2. max_in_flight \in Nat \ {0}
  BY Constants DEF Form
<1>3. b \in Nat /\ 2 * b <= max_in_flight /\ (max_in_flight > 1 => b >= 1)
  <2> DEFINE r == max_in_flight % 2
  <2>1. b \in Nat /\ r \in 0..(2 - 1) /\ max_in_flight = 2 * b + r
    BY <1>2, Division
  <2> HIDE DEF b, r
  <2> QED BY <1>2, <2>1
<1>4. NumPerPump = Lesser(a + 1, b)
  BY DEF NumPerPump
<1> HIDE DEF a, b
<1> QED BY <1>1, <1>2, <1>3, <1>4 DEF Lesser

\* The parts lie in the data: each one but the last whole, and the last one not beyond it.
LEMMA PartStart ==
    ASSUME IInv, stage = "pump", NEW i \in 0..(num_parts_ - 1)
    PROVE  /\ i * segment_size \in Nat /\ i * segment_size <= Len(Stream)
           /\ (i + 1) * segment_size = i * segment_size + segment_size
           /\ i > 0 => i * segment_size < Len(Stream)
           /\ i < num_parts_ - 1 => (i + 1) * segment_size <= Len(Stream)
<1> DEFINE n == num_parts_ - 1
<1>1. num_parts_ = NumParts /\ segment_size \in Nat \ {0} /\ segment_size \in Nat
  BY Constants DEF IInv, Parts, Form
<1>2. num_parts_ \in Nat \ {0} /\ Len(Stream) \in Nat
      /\ (num_parts_ - 1) * segment_size <= Len(Stream)
      /\ (num_parts_ > 1 => (num_parts_ - 1) * segment_size < Len(Stream))
  BY <1>1, PartsFit DEF IInv
<1>3. n \in Nat /\ i \in Nat /\ i + 1 \in Nat /\ i <= n /\ (i < n => i + 1 <= n)
      /\ n * segment_size <= Len(Stream) /\ (n > 0 => n * segment_size < Len(Stream))
      /\ (i < num_parts_ - 1 => i < n) /\ (i > 0 => n > 0)
  BY <1>2
<1> HIDE DEF n
<1>4. i * segment_size \in Nat /\ n * segment_size \in Nat
      /\ i * segment_size <= n * segment_size
      /\ (i + 1) * segment_size = i * segment_size + segment_size
  BY <1>1, <1>3, Product
<1>5. i < n => (i + 1) * segment_size <= n * segment_size
  BY <1>1, <1>3, Product
<1> DEFINE c == (i + 1) * segment_size
<1> DEFINE a == i * segment_size
<1> DEFINE b == n * segment_size
<1>6. a \in Nat /\ b \in Nat /\ a <= b /\ c = a + segment_size /\ (i < n => c <= b)
      /\ b <= Len(Stream) /\ (n > 0 => b < Len(Stream))
  BY <1>3, <1>4, <1>5
<1> HIDE DEF a, b, c
<1>7. a <= Len(Stream) /\ (i > 0 => a < Len(Stream))
      /\ (i < num_parts_ - 1 => c <= Len(Stream))
  BY <1>1, <1>2, <1>3, <1>6
<1> QED BY <1>6, <1>7 DEF a, c

\* The pieces one by one: where they begin and how long they are.
LEMMA PieceByPiece ==
    ASSUME Form, Cut, stage \notin {"split", "compress"}
    PROVE  /\ Len(files_) \in Nat \ {0} /\ DOMAIN files_ = 1..Len(files_)
           /\ Bytes(1..0) = 0 /\ Bytes(1..Len(files_)) = Len(Stream)
           /\ \A p \in 1..Len(files_) :
                /\ p - 1 \in 0..Len(files_)
                /\ Bytes(1..(p - 1)) \in Nat /\ Bytes(1..p) \in Nat
                /\ Len(files_[p]) \in Nat
                /\ Bytes(1..p) = Bytes(1..(p - 1)) + Len(files_[p])
                /\ Bytes(1..p) <= Len(Stream)
<1> DEFINE n == Len(files_)
<1>1. /\ files_ \in Seq(Seq(Datum)) /\ n \in Nat \ {0} /\ Len(Stream) = BytesUpTo[n]
  BY Data
<1>2. Ends(BytesUpTo, files_, n) /\ files_ \in [1..n -> Seq(Datum)] /\ DOMAIN files_ = 1..n
  BY <1>1, BytesEnd
<1> HIDE DEF n
<1>3. \A p \in 0..n : BytesUpTo[p] = Bytes(1..p)
  BY DEF BytesUpTo, n
<1>4. Bytes(1..0) = 0 /\ Bytes(1..n) = Len(Stream)
  <2>1. 0 \in 0..n /\ n \in 0..n
    BY <1>1
  <2> QED BY <1>1, <1>2, <1>3, <2>1 DEF Ends
<1>5. ASSUME NEW p \in 1..n
      PROVE  /\ p - 1 \in 0..n
             /\ Bytes(1..(p - 1)) \in Nat /\ Bytes(1..p) \in Nat
             /\ Len(files_[p]) \in Nat
             /\ Bytes(1..p) = Bytes(1..(p - 1)) + Len(files_[p])
             /\ Bytes(1..p) <= Len(Stream)
  <2>1. p - 1 \in 0..n /\ p \in 0..n /\ n \in p..n
    BY <1>1
  <2>2. BytesUpTo[p - 1] = Bytes(1..(p - 1)) /\ BytesUpTo[p] = Bytes(1..p)
    BY <1>3, <2>1
  <2>3. BytesUpTo[p - 1] \in Nat /\ BytesUpTo[p] \in Nat
        /\ BytesUpTo[p] = BytesUpTo[p - 1] + Len(files_[p])
    BY <1>2, <2>1 DEF Ends
  <2>4. Len(files_[p]) \in Nat
    <3>1. files_[p] \in Seq(Datum)
      BY <1>2
    <3> QED BY <3>1, LenProperties
  <2>5. BytesUpTo[p] <= BytesUpTo[n]
    BY <1>1, <1>2, <2>1, Rising
  <2> QED BY <1>1, <2>1, <2>2, <2>3, <2>4, <2>5
<1> QED BY <1>1, <1>2, <1>4, <1>5 DEF n

\* A new pump begins where its first part does, in whatever piece that is.
LEMMA NewPumpStart ==
    ASSUME IInv, stage = "pump", next < num_parts_
    PROVE  Pumping(next, NewPump(next, NumCur))
<1> USE DEF IInv
<1> DEFINE n == Len(files_)
<1> DEFINE start == next * segment_size
<1> DEFINE beyond == {p \in DOMAIN files_ : start < Bytes(1..p)}
<1> DEFINE piece == FirstPiece(start)
<1> DEFINE from == Bytes(1..(piece - 1))
<1> DEFINE q == NewPump(next, NumCur)
<1>1. segment_size \in Nat \ {0} /\ num_parts_ \in Nat /\ next \in 0..(num_parts_ - 1)
  BY Constants DEF Form, Planned
<1>2. /\ n \in Nat \ {0} /\ DOMAIN files_ = 1..n /\ Bytes(1..0) = 0 /\ Bytes(1..n) = Len(Stream)
      /\ \A p \in 1..n :
           /\ p - 1 \in 0..n /\ Bytes(1..(p - 1)) \in Nat /\ Bytes(1..p) \in Nat
           /\ Len(files_[p]) \in Nat /\ Bytes(1..p) = Bytes(1..(p - 1)) + Len(files_[p])
  BY PieceByPiece
<1>3. /\ start \in Nat /\ start <= Len(Stream) /\ (next > 0 => start < Len(Stream))
      /\ (next + 1) * segment_size = start + segment_size
  BY <1>1, PartStart
<1>4. next = 0 => start = 0
  BY <1>1
<1> HIDE DEF n, start
<1>5. piece = IF beyond = {} THEN 1 ELSE CHOOSE p \in beyond : \A r \in beyond : p <= r
  BY DEF FirstPiece
<1>6. piece \in 1..n /\ start - from \in 0..Len(files_[piece]) /\ from \in Nat
  <2>1. CASE beyond = {}
    <3>1. n \in DOMAIN files_ /\ n \in 1..n
      BY <1>2
    <3>2. ~(start < Len(Stream))
      <4>1. n \notin beyond
        BY <2>1, Zenon
      <4>2. ~(start < Bytes(1..n))
        BY <3>1, <4>1, Zenon
      <4> QED BY <1>2, <4>2, Zenon
    <3>3. start = 0
      BY <1>1, <1>3, <1>4, <3>2
    <3>4. piece = 1 /\ 1 \in 1..n /\ piece - 1 = 0
      BY <1>2, <1>5, <2>1
    <3> HIDE DEF piece
    <3>5. from = 0 /\ Len(files_[piece]) \in Nat
      BY <1>2, <3>4
    <3> HIDE DEF from
    <3> QED BY <3>3, <3>4, <3>5
  <2>2. CASE beyond # {}
    <3>1. beyond \subseteq Nat
      BY <1>2
    <3>2. \E p \in beyond : \A r \in beyond : p <= r
      <4> HIDE DEF beyond
      <4> QED BY <2>2, <3>1, Least
    <3>3. piece \in beyond /\ \A r \in beyond : piece <= r
      <4> HIDE DEF beyond, piece
      <4> QED BY <1>5, <2>2, <3>2
    <3> HIDE DEF piece
    <3>4. piece \in 1..n /\ start < Bytes(1..piece)
      BY <1>2, <3>3
    <3>5. from \in Nat /\ Bytes(1..piece) = from + Len(files_[piece])
          /\ Len(files_[piece]) \in Nat
      BY <1>2, <3>4
    <3>6. from <= start
      <4>1. CASE piece = 1
        <5>1. piece - 1 = 0
          BY <4>1
        <5>2. from = 0
          BY <1>2, <5>1
        <5> QED BY <1>3, <5>2
      <4>2. CASE piece # 1
        <5> DEFINE r == piece - 1
        <5>1. r \in 1..n /\ ~(piece <= r)
          BY <1>2, <3>4, <4>2
        <5>2. r \notin beyond
          <6> HIDE DEF beyond, r
          <6> QED BY <3>3, <5>1
        <5>3. ~(start < Bytes(1..r))
          BY <1>2, <5>1, <5>2
        <5> QED BY <1>3, <3>5, <5>3
      <4> QED BY <4>1, <4>2
    <3> HIDE DEF from
    <3> QED BY <1>3, <3>4, <3>5, <3>6
  <2> QED BY <2>1, <2>2
<1> HIDE DEF beyond
<1>7. q = [num |-> NumCur, segment |-> 0, data |-> <<>>, piece |-> piece,
           within |-> start - from]
  BY DEF NewPump, start
<1> HIDE DEF piece
<1>8. NumCur \in Nat
  <2>1. NumPerPump \in Nat
    BY <1>1, PerPump
  <2> QED BY <1>1, <2>1 DEF NumCur, Lesser
<1>9. Position(q) = start
  <2>1. q.piece = piece /\ q.within = start - from
    BY <1>7
  <2>2. Position(q) = from + (start - from)
    BY <2>1 DEF Position
  <2> HIDE DEF from, q
  <2> QED BY <1>3, <1>6, <2>2
<1> HIDE DEF from
<1>10. q.segment = 0 /\ next + 0 = next /\ next + 0 - 1 = next - 1
       /\ (next + q.segment) * segment_size = start
       /\ (next + q.segment + 1) * segment_size = start + segment_size
  <2>1. q.segment = 0 /\ next + 0 = next /\ next + 0 - 1 = next - 1
    BY <1>1, <1>7
  <2> HIDE DEF q
  <2> QED BY <1>3, <2>1 DEF start
<1>11. q.data = SubSeq(Stream, start + 1, start)
  <2>1. q.data = <<>>
    BY <1>7
  <2> DEFINE c == start + 1
  <2>2. c \in Int /\ start \in Int /\ start < c
    BY <1>3
  <2> HIDE DEF c, q
  <2>3. SubSeq(Stream, c, start) = <<>>
    BY <2>2, SubSeqEmpty
  <2> QED BY <2>1, <2>3 DEF c
<1>12. next..(next + q.segment - 1) = {}
  BY <1>1, <1>10
<1>13. /\ q = [num |-> q.num, segment |-> q.segment, data |-> q.data, piece |-> q.piece,
              within |-> q.within]
       /\ q.segment \in 0..q.num /\ q.piece \in 1..n
       /\ q.within \in 0..Len(files_[q.piece])
  BY <1>6, <1>7, <1>8
<1> HIDE DEF q
<1>14. start <= Position(q) /\ Position(q) <= start + segment_size
  BY <1>1, <1>3, <1>9
<1>15. Pumping(next, q)
  BY <1>9, <1>10, <1>11, <1>12, <1>13, <1>14 DEF Pumping, n
<1> QED BY <1>15 DEF q

\* The parts that a pump has read are among those of the file.
LEMMA PumpInRange ==
    ASSUME IInv, stage = "pump"
    PROVE  /\ DOMAIN part = 0..(num_parts_ - 1)
           /\ \A f \in DOMAIN pump : f..(f + pump[f].segment - 1) \subseteq DOMAIN part
<1>1. part = [i \in 0..(num_parts_ - 1) |-> part[i]]
  BY DEF IInv, Parts
<1>2. DOMAIN part = 0..(num_parts_ - 1)
  BY <1>1
<1>3. num_parts_ \in Nat /\ NumPerPump \in Nat
  <2>1. num_parts_ \in Nat
    BY Constants DEF IInv, Planned
  <2> QED BY <2>1, PerPump DEF IInv
<1>4. ASSUME NEW f \in DOMAIN pump PROVE f..(f + pump[f].segment - 1) \subseteq 0..(num_parts_ - 1)
  <2>1. f \in Nat /\ f < num_parts_ /\ pump[f].num = Lesser(num_parts_ - f, NumPerPump)
    BY DEF IInv, Planned
  <2>2. pump[f].segment \in 0..pump[f].num
    BY DEF IInv, Parts, Pumping
  <2> QED BY <1>3, <2>1, <2>2 DEF Lesser
<1> QED BY <1>2, <1>4

\* A pump keeps its place while the data stays and only parts are written that it did not
\* write itself, or as it would.
LEMMA PumpingStays ==
    ASSUME UNCHANGED <<files_, segment_size>>,
           \A i \in DOMAIN part : part[i] = Slice(i) => part'[i] = Slice(i)
    PROVE  \A f, p : f..(f + p.segment - 1) \subseteq DOMAIN part /\ Pumping(f, p)
                       => Pumping(f, p)'
<1>1. Stream' = Stream
  BY DEF Stream
<1>2. \A i : Slice(i)' = Slice(i)
  BY <1>1 DEF Slice
<1>3. \A p : Position(p)' = Position(p)
  BY DEF Position, Bytes
<1> QED BY <1>1, <1>2, <1>3 DEF Pumping

\* Scheduling a pump.
LEMMA SchedulePumpInv ==
    ASSUME IInv, SchedulePump
    PROVE  IInv'
<1> USE DEF IInv
<1>1. /\ stage = "pump" /\ next < num_parts_ /\ next' = next + NumPerPump
      /\ UNCHANGED <<file_sz, do_compress, segment_size, max_in_flight, stage, block, files_,
                     num_parts_, part, object, fetched, local_file_>>
      /\ num_parts_ \in Nat /\ next \in Nat /\ num_parts_ = NumParts /\ fetched = {}
  BY Constants DEF SchedulePump, download, source, Planned, Parts
<1>2. Form'
  BY <1>1 DEF Form
<1>3. Cut' /\ Stream' = Stream /\ Bytes(DOMAIN files_)' = Bytes(DOMAIN files_)
  BY <1>1, CutStays
<1> DEFINE q == NewPump(next, NumCur)
<1> DEFINE D == DOMAIN pump
<1> DEFINE num == NumPerPump
<1>4. pump' = [f \in D \cup {next} |-> IF f = next THEN q ELSE pump[f]]
  BY DEF SchedulePump
<1>5. Pumping(next, q)
  BY <1>1, NewPumpStart
<1>6. q.num = Lesser(num_parts_ - next, num)
  BY DEF NewPump, NumCur
<1>7. num \in Nat /\ NumPerPump' = num
  BY <1>1, PerPump DEF NumPerPump
<1> HIDE DEF q, D, num
<1>8. /\ pump' = [f \in DOMAIN pump' |-> pump'[f]]
      /\ DOMAIN pump' = D \cup {next} /\ pump'[next] = q
      /\ \A f \in D \ {next} : pump'[f] = pump[f]
  BY <1>4
<1>9. \A f \in D : f \in Nat /\ pump[f].num \in Nat /\ f < num_parts_
                   /\ pump[f].num = Lesser(num_parts_ - f, num) /\ f + num <= next
  BY DEF Planned, num, D
<1>10. \A f, g \in D : f < g => f + num <= g
  BY DEF Planned, num, D
<1>11. \A i \in 0..(num_parts_ - 1) : i < next => \E f \in D : f <= i /\ i < f + num
  BY DEF Planned, num, D
<1>12. Planned'
  <2>1. ASSUME NEW f \in D \cup {next}
        PROVE  /\ f \in Nat /\ pump'[f].num \in Nat /\ f < num_parts_
               /\ pump'[f].num = Lesser(num_parts_ - f, num) /\ f + num <= next'
    <3>1. CASE f = next
      <4>1. pump'[f].num = Lesser(num_parts_ - f, num)
        BY <1>6, <1>8, <3>1
      <4> QED BY <1>1, <1>7, <3>1, <4>1 DEF Lesser, num
    <3>2. CASE f # next
      <4>1. f \in D /\ pump'[f] = pump[f] /\ next' = next + num
        BY <1>1, <1>8, <3>2 DEF num
      <4> QED BY <1>1, <1>7, <1>9, <4>1
    <3> QED BY <3>1, <3>2
  <2>2. ASSUME NEW f \in D \cup {next}, NEW g \in D \cup {next}, f < g
        PROVE  f + num <= g
    <3>1. f \in Nat /\ g \in Nat
      BY <2>1
    <3>2. CASE g = next
      <4>1. f \in D
        BY <1>1, <2>2, <3>2
      <4> QED BY <1>9, <3>2, <4>1
    <3>3. CASE g # next /\ f = next
      <4>1. g + num <= next
        BY <1>9, <3>3
      <4> QED BY <1>1, <1>7, <2>2, <3>1, <3>3, <4>1
    <3>4. CASE g # next /\ f # next
      BY <1>10, <2>2, <3>4
    <3> QED BY <3>2, <3>3, <3>4
  <2>3. ASSUME NEW i \in 0..(num_parts_ - 1), i < next'
        PROVE  \E f \in D \cup {next} : f <= i /\ i < f + num
    <3>1. CASE i < next
      BY <1>11, <3>1
    <3>2. CASE ~(i < next)
      <4>1. next <= i /\ i < next + num
        BY <1>1, <2>3, <3>2 DEF num
      <4> QED BY <4>1
    <3> QED BY <3>1, <3>2
  <2>4. num_parts_' \in 0..MaxParts /\ next' \in Nat
    BY <1>1, <1>7 DEF Planned, num
  <2> QED BY <1>1, <1>7, <1>8, <2>1, <2>2, <2>3, <2>4 DEF Planned
<1>13. Parts'
  <2>1. \A f, p : f..(f + p.segment - 1) \subseteq DOMAIN part /\ Pumping(f, p)
                    => Pumping(f, p)'
    BY <1>1, PumpingStays
  <2>2. ASSUME NEW f \in D \cup {next}, NEW p, p = pump'[f] PROVE Pumping(f, p)'
    <3>1. CASE f = next
      <4>1. Pumping(f, p)
        BY <1>5, <1>8, <2>2, <3>1
      <4>2. p.segment = 0
        <5>1. q.segment = 0
          BY DEF q, NewPump
        <5> QED BY <1>8, <2>2, <3>1, <5>1
      <4>3. f..(f + p.segment - 1) = {}
        BY <1>1, <3>1, <4>2
      <4>4. f..(f + p.segment - 1) \subseteq DOMAIN part
        BY <4>3, Zenon
      <4> QED BY <2>1, <4>1, <4>4
    <3>2. CASE f # next
      <4>1. p = pump[f] /\ f \in D
        BY <1>8, <2>2, <3>2
      <4>2. Pumping(f, p)
        BY <1>1, <4>1 DEF Parts, D
      <4>3. f..(f + p.segment - 1) \subseteq DOMAIN part
        BY <1>1, <4>1, PumpInRange DEF D
      <4> QED BY <2>1, <4>2, <4>3
    <3> QED BY <3>1, <3>2
  <2>3. \A f \in DOMAIN pump' : Pumping(f, pump[f])'
    BY <1>8, <2>2 DEF Pumping, Position
  <2>4. NumParts' = NumParts
    BY <1>1, <1>3 DEF NumParts
  <2>5. \A i : Slice(i)' = Slice(i)
    BY <1>1, <1>3 DEF Slice
  <2> QED BY <1>1, <2>3, <2>4, <2>5 DEF Parts
<1>14. Fetched'
  BY <1>1 DEF Fetched
<1> QED BY <1>2, <1>3, <1>12, <1>13, <1>14

\* The length of a slice.
LEMMA SliceLength ==
    ASSUME NEW S, NEW u \in Seq(S), NEW a \in Nat, NEW b \in a..Len(u)
    PROVE  SubSeq(u, a + 1, b) \in Seq(S) /\ Len(SubSeq(u, a + 1, b)) = b - a
<1> DEFINE c == a + 1
<1>1. Len(u) \in Nat /\ \A i \in 1..Len(u) : u[i] \in S
  BY LenProperties, ElementOfSeq
<1>2. c \in Int /\ b \in Int /\ \A i \in c..b : i \in 1..Len(u)
  BY <1>1
<1>3. b - a = IF c <= b THEN b - c + 1 ELSE 0
  BY <1>1
<1> HIDE DEF c
<1>4. \A i \in c..b : u[i] \in S
  BY <1>1, <1>2
<1>5. SubSeq(u, c, b) \in Seq(S) /\ Len(SubSeq(u, c, b)) = IF c <= b THEN b - c + 1 ELSE 0
  BY <1>2, <1>4, SubSeqProperties
<1> QED BY <1>3, <1>5 DEF c

\* What a pump has read of its segment goes on, in the data, with what it reads next.
LEMMA ReadOn ==
    ASSUME IInv, stage = "pump", NEW f \in DOMAIN pump, pump[f].segment < pump[f].num,
           NEW w \in pump[f].within..Len(files_[pump[f].piece])
    PROVE  /\ Bytes(1..(pump[f].piece - 1)) + w <= Len(Stream)
           /\ pump[f].data \o SubSeq(files_[pump[f].piece], pump[f].within + 1, w)
                = SubSeq(Stream, (f + pump[f].segment) * segment_size + 1,
                         Bytes(1..(pump[f].piece - 1)) + w)
<1> USE DEF IInv
<1> DEFINE n == Len(files_)
<1> DEFINE i == f + pump[f].segment
<1> DEFINE a == i * segment_size
<1> DEFINE k == pump[f].piece
<1> DEFINE v == pump[f].within
<1> DEFINE from == Bytes(1..(k - 1))
<1>1. Pumping(f, pump[f]) /\ f \in Nat /\ segment_size \in Nat \ {0}
  BY Constants DEF Parts, Planned, Form
<1>2. /\ k \in 1..n /\ v \in 0..Len(files_[k]) /\ pump[f].segment \in Nat
      /\ pump[f].data = SubSeq(Stream, a + 1, from + v) /\ a <= from + v
  BY <1>1 DEF Pumping, Position, Planned
<1>3. i \in Nat /\ a \in Nat
  <2>1. i \in Nat
    BY <1>1, <1>2
  <2> HIDE DEF i
  <2> QED BY <1>1, <2>1
<1>4. /\ files_ \in Seq(Seq(Datum)) /\ Stream \in Seq(Datum) /\ n \in Nat
      /\ Len(Stream) = BytesUpTo[n] /\ Composed(Stream, BytesUpTo, files_, n)
  BY Data
<1>5. Ends(BytesUpTo, files_, n) /\ files_ \in [1..n -> Seq(Datum)]
  BY <1>4, BytesEnd
<1>6. /\ from \in Nat /\ Len(files_[k]) \in Nat /\ BytesUpTo[k - 1] = from
      /\ from + Len(files_[k]) <= Len(Stream)
  <2>1. k - 1 \in 0..n /\ from \in Nat /\ Len(files_[k]) \in Nat
        /\ from + Len(files_[k]) <= Len(Stream)
    BY <1>2, PieceByPiece
  <2> HIDE DEF k
  <2> QED BY <2>1 DEF BytesUpTo
<1>7. w \in v..Len(files_[k])
  OBVIOUS
<1>8. pump[f].data \o SubSeq(files_[k], v + 1, w)
        = SubSeq(Stream, a + 1, from + v) \o SubSeq(files_[k], v + 1, w)
  BY <1>2
<1> HIDE DEF n, a, k, v, from
<1>9. a \in 0..(BytesUpTo[k - 1] + v)
  BY <1>2, <1>3, <1>6
<1>10. Extends(Stream, a, BytesUpTo[k - 1] + v, SubSeq(files_[k], v + 1, w), BytesUpTo[k - 1] + w)
  BY <1>2, <1>4, <1>5, <1>7, <1>9, Extending
<1>11. SubSeq(Stream, a + 1, from + v) \o SubSeq(files_[k], v + 1, w)
         = SubSeq(Stream, a + 1, from + w)
  BY <1>6, <1>10 DEF Extends
<1>12. from + w <= Len(Stream)
  <2>1. Len(Stream) \in Nat
    BY <1>4, LenProperties
  <2> QED BY <1>2, <1>6, <1>7, <2>1
<1> QED BY <1>8, <1>11, <1>12 DEF from, a, k, v

\* A pump with another state.
Moved(p, segment, data, piece, within) ==
    [p EXCEPT !.piece = piece, !.within = within, !.data = data, !.segment = segment]

\* A pump, changed field by field.
LEMMA PumpFields ==
    ASSUME NEW p, p = [num |-> p.num, segment |-> p.segment, data |-> p.data,
                       piece |-> p.piece, within |-> p.within],
           NEW y2, NEW y3, NEW y4, NEW y5
    PROVE  Moved(p, y2, y3, y4, y5)
             = [num |-> p.num, segment |-> y2, data |-> y3, piece |-> y4, within |-> y5]
<1> DEFINE r == [p EXCEPT !.piece = y4, !.within = y5, !.data = y3, !.segment = y2]
<1> DEFINE x1 == p.num
<1> DEFINE D == {"num", "segment", "data", "piece", "within"}
<1>1. DOMAIN p = D /\ p.num = x1
  OBVIOUS
<1>2. r = [x \in D |-> r[x]]
  BY <1>1, Zenon
<1>3. r.num = x1 /\ r.segment = y2 /\ r.data = y3 /\ r.piece = y4 /\ r.within = y5
  BY <1>1
<1> DEFINE t == [num |-> x1, segment |-> y2, data |-> y3, piece |-> y4, within |-> y5]
<1>4. /\ t = [x \in D |-> t[x]]
      /\ t.num = x1 /\ t.segment = y2 /\ t.data = y3 /\ t.piece = y4 /\ t.within = y5
  OBVIOUS
<1> HIDE DEF r, t
<1>5. \A x \in D : r[x] = t[x]
  BY <1>3, <1>4
<1>6. r = t
  <2> HIDE DEF D
  <2> QED BY <1>2, <1>4, <1>5
<1> QED BY <1>6 DEF r, t, Moved

\* What becomes of a pump and of the parts when the pump reads.
Reads(f, q) ==
    /\ pump' = [pump EXCEPT ![f] = q]
    /\ q = [num |-> q.num, segment |-> q.segment, data |-> q.data, piece |-> q.piece,
            within |-> q.within]
    /\ q.num = pump[f].num /\ q.segment \in 0..q.num
    /\ q.piece \in 1..Len(files_)
    /\ q.within \in 0..Len(files_[q.piece])
    /\ q.segment < q.num =>
         /\ q.data = SubSeq(Stream, (f + q.segment) * segment_size + 1, Position(q))
         /\ (f + q.segment) * segment_size <= Position(q)
         /\ Position(q) <= (f + q.segment + 1) * segment_size
    /\ \A j \in f..(f + q.segment - 1) : part'[j] = Slice(j)
    /\ \/ part' = part
       \/ \E i \in 0..(num_parts_ - 1) : part' = [part EXCEPT ![i] = Slice(i)]

\* A read takes a pump from its place to the next, and what it has made a part of is the
\* part that belongs there.
LEMMA ReadMoves ==
    ASSUME IInv, NEW f \in DOMAIN pump, Read(f)
    PROVE  stage = "pump" /\ \E q : Reads(f, q)
<1> DEFINE p == pump[f]
<1> DEFINE i == f + p.segment
<1> DEFINE k == p.piece
<1> DEFINE v == p.within
<1> DEFINE n == Len(files_)
<1> DEFINE size == segment_size
<1> DEFINE len == Len(files_[k])
<1> DEFINE from == Bytes(1..(k - 1))
<1> DEFINE remaining == Lesser(size - Len(p.data), len - v)
<1> DEFINE a == i * size
<1> DEFINE total == Len(Stream)
<1> DEFINE Taken(res) == res \in IF remaining = 0 THEN {0} ELSE 1..Lesser(remaining, MaxRead)
<1>1. p.segment < p.num
  BY DEF Read
<1>2. stage = "pump" /\ Pumping(f, p) /\ f \in Nat /\ p.num \in Nat
  <2>1. p.segment # p.num
    <3>1. p.num \in Nat
      BY DEF IInv, Planned
    <3> QED BY <1>1, <3>1
  <2> QED BY <2>1 DEF IInv, Parts, Planned
<1>3. PICK res :
        /\ Taken(res)
        /\ LET within == v + res
               data == p.data \o SubSeq(files_[k], v + 1, within)
               last == k = n
               over == ~last /\ within = len
               full == res = remaining /\ (last \/ Len(data) = size)
           IN /\ pump' = [pump EXCEPT ![f] =
                            [p EXCEPT !.piece = IF over THEN @ + 1 ELSE @,
                                      !.within = IF over THEN 0 ELSE within,
                                      !.data = IF full THEN <<>> ELSE data,
                                      !.segment = IF full THEN @ + 1 ELSE @]]
              /\ part' = IF full THEN [part EXCEPT ![i] = data] ELSE part
  BY DEF Read
<1> DEFINE within == v + res
<1> DEFINE data == p.data \o SubSeq(files_[k], v + 1, within)
<1> DEFINE over == k # n /\ within = len
<1> DEFINE full == res = remaining /\ (k = n \/ Len(data) = size)
<1> DEFINE segment == IF full THEN p.segment + 1 ELSE p.segment
<1> DEFINE rest == IF full THEN <<>> ELSE data
<1> DEFINE piece == IF over THEN k + 1 ELSE k
<1> DEFINE place == IF over THEN 0 ELSE within
<1> DEFINE q == [num |-> p.num, segment |-> segment, data |-> rest, piece |-> piece,
                 within |-> place]
<1> DEFINE pos == from + within
<1>4. p = [num |-> p.num, segment |-> p.segment, data |-> p.data, piece |-> p.piece,
           within |-> p.within]
  BY <1>2 DEF Pumping
<1>5. pump' = [pump EXCEPT ![f] = q] /\ part' = IF full THEN [part EXCEPT ![i] = data] ELSE part
  <2>1. [p EXCEPT !.piece = piece, !.within = place, !.data = rest, !.segment = segment] = q
    <3> HIDE DEF p, piece, place, rest, segment
    <3>1. Moved(p, segment, rest, piece, place) = q
      BY <1>4, PumpFields
    <3> QED BY <3>1 DEF Moved
  <2>2. pump' = [pump EXCEPT ![f] =
           [p EXCEPT !.piece = piece, !.within = place, !.data = rest, !.segment = segment]]
    BY <1>3, Zenon
  <2> HIDE DEF q
  <2> QED BY <1>3, <2>1, <2>2, Zenon
<1>6. /\ size \in Nat \ {0} /\ num_parts_ \in Nat /\ n \in Nat \ {0} /\ len \in Nat
      /\ k \in 1..n /\ from \in Nat /\ from + len <= total
      /\ Bytes(1..k) = from + len /\ (k = n => from + len = total)
      /\ v \in 0..len /\ p.segment \in 0..p.num
  <2>1. k \in 1..n /\ v \in 0..len /\ p.segment \in 0..p.num
    BY <1>2 DEF Pumping
  <2>2. size \in Nat \ {0} /\ num_parts_ \in Nat
    BY Constants DEF IInv, Form, Planned
  <2>3. n \in Nat \ {0} /\ len \in Nat /\ from \in Nat /\ from + len <= total
        /\ Bytes(1..k) = from + len /\ Bytes(1..n) = total
    BY <1>2, <2>1, PieceByPiece DEF IInv
  <2>4. k = n => from + len = total
    BY <2>3
  <2> QED BY <2>1, <2>2, <2>3, <2>4
<1>7. i = f + p.segment /\ a = i * size
  OBVIOUS
<1>8. f < num_parts_ /\ p.num = Lesser(num_parts_ - f, NumPerPump) /\ NumPerPump \in Nat
  BY <1>6, PerPump DEF IInv, Planned
<1>9. p.data = SubSeq(Stream, a + 1, from + v) /\ a <= from + v /\ from + v <= (i + 1) * size
      /\ \A j \in f..(f + p.segment - 1) : part[j] = Slice(j)
  BY <1>1, <1>2 DEF Pumping, Position
<1>10. Taken(res) /\ remaining = Lesser(size - Len(p.data), len - v)
  BY <1>3
<1>11. /\ within = v + res /\ pos = from + within
       /\ full <=> res = remaining /\ (k = n \/ Len(data) = size)
       /\ over <=> k # n /\ within = len
       /\ full => segment = p.segment + 1 /\ rest = <<>>
       /\ ~full => segment = p.segment /\ rest = data
       /\ over => piece = k + 1 /\ place = 0
       /\ ~over => piece = k /\ place = within
  OBVIOUS
<1>12. /\ q = [num |-> q.num, segment |-> q.segment, data |-> q.data, piece |-> q.piece,
              within |-> q.within]
       /\ q.num = p.num /\ q.segment = segment /\ q.data = rest /\ q.piece = piece
       /\ q.within = place
  OBVIOUS
<1>13. p = pump[f] /\ n = Len(files_) /\ size = segment_size
  OBVIOUS
<1>14. stage = "pump" /\ Stream \in Seq(Datum) /\ total \in Nat
  <2>1. Stream \in Seq(Datum)
    BY Data DEF IInv
  <2> QED BY <1>2, <2>1, LenProperties
<1>15. i \in 0..(num_parts_ - 1) /\ (p.segment + 1 < p.num => i < num_parts_ - 1)
  <2> DEFINE x == p.segment
  <2> DEFINE y == p.num
  <2>1. x \in 0..y /\ x < y /\ y \in Nat /\ f \in Nat /\ i = f + x /\ num_parts_ \in Nat
        /\ y = Lesser(num_parts_ - f, NumPerPump) /\ NumPerPump \in Nat
    BY <1>1, <1>2, <1>6, <1>7, <1>8
  <2> HIDE DEF x, y, i
  <2>2. y <= num_parts_ - f
    BY <2>1 DEF Lesser
  <2>3. i \in 0..(num_parts_ - 1) /\ (x + 1 < y => i < num_parts_ - 1)
    BY <2>1, <2>2
  <2> QED BY <2>3 DEF x, y
<1>16. /\ a \in Nat /\ a <= total /\ (i + 1) * size = a + size
       /\ i < num_parts_ - 1 => (i + 1) * size <= total
  BY <1>14, <1>15, PartStart
<1>17. Len(p.data) = from + v - a /\ from + v <= a + size
  <2> DEFINE b == from + v
  <2>1. b \in a..Len(Stream)
    <3>1. b \in a..total
      <4> HIDE DEF from, v, a, total, len
      <4> QED BY <1>6, <1>9, <1>14, <1>16
    <3> QED BY <3>1
  <2>2. p.data = SubSeq(Stream, a + 1, b) /\ b <= a + size
    BY <1>9, <1>16
  <2> HIDE DEF a, b, p
  <2>3. Len(SubSeq(Stream, a + 1, b)) = b - a
    BY <1>14, <1>16, <2>1, SliceLength
  <2>4. Len(p.data) = b - a /\ b <= a + size
    BY <2>2, <2>3, Zenon
  <2>5. b = from + v
    BY DEF b
  <2> HIDE DEF from, v, size
  <2> QED BY <1>6, <1>16, <2>4, <2>5
<1>18. /\ within \in v..len /\ within \in 0..len
       /\ pos \in a..total /\ pos <= a + size /\ pos \in Nat
       /\ res = remaining => (pos = a + size \/ within = len)
  <2>1. remaining = Lesser(size - (from + v - a), len - v)
    BY <1>10, <1>17
  <2>2. res \in IF remaining = 0 THEN {0} ELSE 1..Lesser(remaining, MaxRead)
    BY <1>10
  <2>3. within = v + res /\ pos = from + within
    OBVIOUS
  <2>4. v \in 0..len /\ a \in Nat /\ from + len <= total /\ a <= from + v /\ from + v <= a + size
        /\ size \in Nat \ {0} /\ len \in Nat /\ from \in Nat /\ total \in Nat
    BY <1>6, <1>9, <1>14, <1>16, <1>17
  <2> HIDE DEF remaining, from, v, a, total, len, size, within, pos
  <2>5. remaining \in Nat /\ remaining <= len - v /\ remaining <= a + size - (from + v)
        /\ (remaining = len - v \/ remaining = a + size - (from + v))
    BY <2>1, <2>4 DEF Lesser
  <2>6. res \in 0..remaining
    BY <2>2, <2>5, Constants DEF Lesser
  <2>7. res \in Nat
    BY <2>5, <2>6
  <2> QED BY <2>3, <2>4, <2>5, <2>6, <2>7
<1>19. data = SubSeq(Stream, a + 1, pos)
  BY <1>1, <1>14, <1>18, ReadOn
<1>20. full => pos = Lesser(a + size, total)
  <2>1. Len(data) = pos - a
    <3> DEFINE b == pos
    <3>1. b \in a..Len(Stream)
      BY <1>18
    <3> HIDE DEF a, b, data
    <3>2. Len(SubSeq(Stream, a + 1, b)) = b - a
      BY <1>14, <1>16, <3>1, SliceLength
    <3>3. data = SubSeq(Stream, a + 1, b)
      BY <1>19 DEF b
    <3> QED BY <3>2, <3>3 DEF b
  <2>2. pos = from + within
    OBVIOUS
  <2>3. full => res = remaining /\ (k = n \/ Len(data) = size)
    OBVIOUS
  <2> HIDE DEF a, pos, full, data, size, total, from, within, len, k, n, remaining
  <2>4. Len(data) = size => pos = a + size
    BY <1>6, <1>16, <1>18, <2>1
  <2>5. (k = n /\ within = len) => pos = total
    BY <1>6, <2>2
  <2>6. full => pos = a + size \/ pos = total
    BY <1>18, <2>3, <2>4, <2>5
  <2>7. pos <= total /\ pos <= a + size /\ pos \in Nat /\ a + size \in Nat /\ total \in Nat
    BY <1>6, <1>14, <1>16, <1>18
  <2> QED BY <2>6, <2>7 DEF Lesser
<1>21. full => data = Slice(i)
  <2>1. Slice(i) = SubSeq(Stream, a + 1, Lesser((i + 1) * size, total))
    BY DEF Slice
  <2> HIDE DEF a, pos, full, data, i, size, total
  <2> QED BY <1>16, <1>19, <1>20, <2>1
<1> HIDE DEF q
<1>22. q.piece \in 1..n /\ Position(q) = pos /\ q.within \in 0..Len(files_[q.piece])
  <2>1. CASE over
    <3>0. k # n /\ within = len
      BY <2>1
    <3>1. k + 1 \in 1..n /\ k + 1 - 1 = k /\ within = len
      <4> HIDE DEF k, n, within, len
      <4> QED BY <1>6, <3>0
    <3>2. q.piece = k + 1 /\ q.within = 0
      BY <1>11, <1>12, <2>1, Zenon
    <3>3. Len(files_[k + 1]) \in Nat
      BY <1>14, <3>1, PieceByPiece DEF IInv
    <3>4. Position(q) = Bytes(1..k) + 0
      <4>1. q.piece - 1 = k
        <5> HIDE DEF k
        <5> QED BY <1>6, <3>1, <3>2
      <4> QED BY <3>2, <4>1 DEF Position
    <3>5. Bytes(1..k) + 0 = pos
      <4>1. pos = from + len
        BY <3>1
      <4> HIDE DEF from, len, pos, k
      <4> QED BY <1>6, <4>1
    <3> QED BY <3>1, <3>2, <3>3, <3>4, <3>5
  <2>2. CASE ~over
    <3>1. q.piece = k /\ q.within = within
      BY <1>11, <1>12, <2>2, Zenon
    <3>2. Position(q) = pos
      BY <3>1 DEF Position
    <3> QED BY <1>6, <1>18, <3>1, <3>2
  <2> QED BY <2>1, <2>2
<1> HIDE DEF a, pos, from, within, data, remaining, len, v, total, over, full, segment, rest,
             piece, place
<1>23. (full /\ q.segment = p.segment + 1 /\ q.data = <<>>)
       \/ (~full /\ q.segment = p.segment /\ q.data = data)
  BY <1>11, <1>12
<1>24. q.segment \in 0..q.num
  <2> HIDE DEF p
  <2> QED BY SMTT(30), <1>1, <1>2, <1>6, <1>12, <1>23
<1>25. q.segment < q.num =>
         /\ q.data = SubSeq(Stream, (f + q.segment) * size + 1, pos)
         /\ (f + q.segment) * size <= pos
         /\ pos <= (f + q.segment + 1) * size
  <2>1. CASE ~full
    <3>1. f + q.segment = i /\ q.data = data
      BY <1>7, <1>23, <2>1
    <3>2. (f + q.segment) * size = a /\ (f + q.segment + 1) * size = a + size
      BY <1>7, <1>16, <3>1
    <3> DEFINE x == (f + q.segment) * size
    <3> DEFINE y == (f + q.segment + 1) * size
    <3>3. x = a /\ y = a + size
      BY <3>2
    <3> HIDE DEF i, size, x, y
    <3>4. q.data = SubSeq(Stream, x + 1, pos) /\ x <= pos /\ pos <= y
      BY <1>18, <1>19, <3>1, <3>3
    <3> QED BY <3>4 DEF x, y
  <2>2. CASE full
    <3> SUFFICES ASSUME q.segment < q.num
                 PROVE  /\ q.data = SubSeq(Stream, (f + q.segment) * size + 1, pos)
                        /\ (f + q.segment) * size <= pos
                        /\ pos <= (f + q.segment + 1) * size
      OBVIOUS
    <3>1. q.segment = p.segment + 1 /\ q.num = p.num /\ q.data = <<>>
      BY <1>12, <1>23, <2>2
    <3>2. f + q.segment = i + 1 /\ i < num_parts_ - 1 /\ i + 1 \in 0..(num_parts_ - 1)
      <4> DEFINE x == p.segment
      <4>1. x \in Nat /\ i = f + x
        BY <1>6, <1>7
      <4>2. q.segment = x + 1 /\ x + 1 < p.num
        BY <3>1
      <4> HIDE DEF x, i
      <4>3. f + q.segment = i + 1
        BY <1>2, <4>1, <4>2
      <4> QED BY <1>6, <1>15, <4>2, <4>3 DEF x
    <3> HIDE DEF i
    <3>3. pos = a + size
      <4> HIDE DEF size
      <4> QED BY SMTT(30), <1>6, <1>14, <1>16, <1>20, <2>2, <3>2 DEF Lesser
    <3>4. (i + 1 + 1) * size = (i + 1) * size + size
      <4> DEFINE j == i + 1
      <4>1. j \in 0..(num_parts_ - 1)
        BY <3>2
      <4> HIDE DEF j
      <4>2. (j + 1) * size = j * size + size
        BY <1>14, <4>1, PartStart
      <4> QED BY <4>2 DEF j
    <3>5. (f + q.segment) * size = pos /\ (f + q.segment + 1) * size = pos + size
      BY <1>16, <3>2, <3>3, <3>4
    <3>6. SubSeq(Stream, pos + 1, pos) = <<>>
      <4> DEFINE c == pos + 1
      <4>1. c \in Int /\ pos \in Int /\ pos < c
        BY <1>18
      <4> HIDE DEF c
      <4>2. SubSeq(Stream, c, pos) = <<>>
        BY <4>1, SubSeqEmpty
      <4> QED BY <4>2 DEF c
    <3> DEFINE x == (f + q.segment) * size
    <3> DEFINE y == (f + q.segment + 1) * size
    <3>7. x = pos /\ y = pos + size /\ pos <= pos + size
      BY <1>6, <1>18, <3>5
    <3> HIDE DEF x, y, size
    <3>8. q.data = SubSeq(Stream, x + 1, pos) /\ x <= pos /\ pos <= y
      BY <1>18, <3>1, <3>6, <3>7
    <3> QED BY <3>8 DEF x, y
  <2> QED BY <2>1, <2>2
<1>26. /\ part = [j \in 0..(num_parts_ - 1) |-> part[j]]
  BY <1>2 DEF IInv, Parts
<1>27. \/ ~full /\ part' = part
       \/ full /\ part' = [part EXCEPT ![i] = Slice(i)] /\ part'[i] = Slice(i)
  <2> HIDE DEF i
  <2>1. CASE full
    <3>1. part' = [part EXCEPT ![i] = Slice(i)]
      BY <1>5, <1>21, <2>1, Zenon
    <3>2. DOMAIN part = 0..(num_parts_ - 1)
      BY <1>26
    <3> QED BY <1>15, <2>1, <3>1, <3>2
  <2>2. CASE ~full
    BY <1>5, <2>2
  <2> QED BY <2>1, <2>2
<1>28. ASSUME NEW j \in f..(f + q.segment - 1) PROVE part'[j] = Slice(j)
  <2> DEFINE x == p.segment
  <2>1. x \in Nat /\ i = f + x /\ \A l \in f..(f + x - 1) : part[l] = Slice(l)
    BY <1>6, <1>7, <1>9
  <2>2. (full /\ q.segment = x + 1) \/ (~full /\ q.segment = x)
    BY <1>23
  <2> HIDE DEF x, i
  <2>3. (full /\ j = i) \/ (j \in f..(f + x - 1) /\ part[j] = Slice(j))
    BY <1>2, <2>1, <2>2
  <2>4. part'[j] = part[j] \/ (full /\ j = i)  \/ part'[j] = Slice(j)
    <3>1. CASE full
      <4>1. \A l \in DOMAIN part : part'[l] = IF l = i THEN Slice(i) ELSE part[l]
        BY <1>27, <3>1
      <4>2. CASE j \in DOMAIN part
        BY <4>1, <4>2
      <4>3. CASE j \notin DOMAIN part
        <5>1. f + q.segment - 1 <= num_parts_ - 1
          BY <1>2, <1>15, <2>1, <2>2, <3>1
        <5>2. j \in 0..(num_parts_ - 1)
          BY <1>2, <1>6, <2>1, <2>2, <3>1, <5>1
        <5> QED BY <1>26, <4>3, <5>2
      <4> QED BY <4>2, <4>3
    <3>2. CASE ~full
      BY <1>27, <3>2
    <3> QED BY <3>1, <3>2
  <2> QED BY <1>27, <2>3, <2>4
<1>29. Reads(f, q)
  <2>1. part' = part \/ part' = [part EXCEPT ![i] = Slice(i)]
    BY <1>27
  <2>2. \/ part' = part
        \/ \E j \in 0..(num_parts_ - 1) : part' = [part EXCEPT ![j] = Slice(j)]
    <3> HIDE DEF i
    <3> QED BY <1>15, <2>1
  <2>3. q.segment < q.num =>
         /\ q.data = SubSeq(Stream, (f + q.segment) * segment_size + 1, Position(q))
         /\ (f + q.segment) * segment_size <= Position(q)
         /\ Position(q) <= (f + q.segment + 1) * segment_size
    BY <1>22, <1>25
  <2> QED BY <1>5, <1>12, <1>22, <1>24, <1>28, <2>2, <2>3 DEF Reads
<1> QED BY <1>14, <1>29

\* One read of a pump.
LEMMA ReadInv ==
    ASSUME IInv, NEW f \in DOMAIN pump, Read(f)
    PROVE  IInv'
<1>1. /\ UNCHANGED <<file_sz, do_compress, segment_size, max_in_flight, stage, block, files_,
                     num_parts_, next, object, fetched, local_file_>>
  BY DEF Read, source, download
<1>2. stage = "pump" /\ fetched = {}
  BY ReadMoves DEF IInv, Parts
<1>3. PICK q : Reads(f, q)
  BY ReadMoves
<1> USE DEF IInv
<1>4. Form'
  BY <1>1 DEF Form
<1>5. Cut' /\ Stream' = Stream /\ Bytes(DOMAIN files_)' = Bytes(DOMAIN files_)
  BY <1>1, <1>2, CutStays
<1>6. \A j : Slice(j)' = Slice(j)
  BY <1>1, <1>5 DEF Slice
<1>7. /\ part = [j \in 0..(num_parts_ - 1) |-> part[j]]
      /\ \A j \in 0..(num_parts_ - 1) : part[j] \in {Missing, Slice(j)}
  BY <1>2 DEF Parts
<1>8. /\ part' = [j \in 0..(num_parts_ - 1) |-> part'[j]]
      /\ \A j \in 0..(num_parts_ - 1) : part'[j] = part[j] \/ part'[j] = Slice(j)
  <2>1. CASE part' = part
    BY <1>7, <2>1
  <2>2. CASE \E i \in 0..(num_parts_ - 1) : part' = [part EXCEPT ![i] = Slice(i)]
    <3>1. PICK i \in 0..(num_parts_ - 1) : part' = [part EXCEPT ![i] = Slice(i)]
      BY <2>2
    <3>2. DOMAIN part = 0..(num_parts_ - 1) /\ DOMAIN part' = DOMAIN part
      BY <1>7, <3>1
    <3>3. \A j \in DOMAIN part : part'[j] = IF j = i THEN Slice(i) ELSE part[j]
      BY <3>1
    <3> QED BY <3>1, <3>2, <3>3
  <2> QED BY <1>3, <2>1, <2>2 DEF Reads
<1>9. \A j \in DOMAIN part : part[j] = Slice(j) => part'[j] = Slice(j)
  BY <1>7, <1>8
<1>10. \A g, r : g..(g + r.segment - 1) \subseteq DOMAIN part /\ Pumping(g, r)
                   => Pumping(g, r)'
  BY <1>1, <1>9, PumpingStays
<1>11. Pumping(f, q)'
  <2>1. Position(q)' = Position(q)
    BY <1>1 DEF Position, Bytes
  <2> QED BY <1>1, <1>3, <1>5, <1>6, <2>1 DEF Pumping, Reads
<1>12. pump = [g \in DOMAIN pump |-> pump[g]]
  BY DEF Planned
<1>13. /\ DOMAIN pump' = DOMAIN pump /\ pump' = [g \in DOMAIN pump |-> pump'[g]]
       /\ pump'[f] = q /\ \A g \in DOMAIN pump \ {f} : pump'[g] = pump[g]
  BY <1>3, <1>12 DEF Reads
<1>14. Planned'
  <2>1. NumPerPump' = NumPerPump
    BY <1>1 DEF NumPerPump
  <2>2. \A g \in DOMAIN pump : pump'[g].num = pump[g].num
    BY <1>3, <1>13 DEF Reads
  <2> QED BY <1>1, <1>13, <2>1, <2>2 DEF Planned
<1>15. Parts'
  <2>1. ASSUME NEW g \in DOMAIN pump, NEW r, r = pump'[g] PROVE Pumping(g, r)'
    <3>1. CASE g = f
      <4>1. r = q
        BY <1>13, <2>1, <3>1
      <4> QED BY <1>11, <3>1, <4>1
    <3>2. CASE g # f
      <4>1. r = pump[g] /\ Pumping(g, r)
        BY <1>2, <1>13, <2>1, <3>2 DEF Parts
      <4>2. g..(g + r.segment - 1) \subseteq DOMAIN part
        BY <1>2, <4>1, PumpInRange
      <4> QED BY <1>10, <4>1, <4>2
    <3> QED BY <3>1, <3>2
  <2>2. \A g \in DOMAIN pump' : Pumping(g, pump[g])'
    BY <1>13, <2>1 DEF Pumping, Position
  <2>3. NumParts' = NumParts
    BY <1>1, <1>5 DEF NumParts
  <2>4. \A j \in 0..(num_parts_ - 1) : part'[j] \in {Missing, Slice(j)}
    BY <1>7, <1>8
  <2>5. num_parts_ = NumParts
    BY <1>2 DEF Parts
  <2> QED BY <1>1, <1>2, <1>6, <1>8, <2>2, <2>3, <2>4, <2>5 DEF Parts
<1>16. Fetched'
  BY <1>1, <1>2 DEF Fetched
<1> QED BY <1>4, <1>5, <1>14, <1>15, <1>16

\* The parts put together.
LEMMA AssembleInv ==
    ASSUME IInv, Assemble
    PROVE  IInv'
<1> USE DEF IInv
<1>1. /\ stage = "pump" /\ stage' = "stored" /\ next >= num_parts_
      /\ \A f \in DOMAIN pump : pump[f].segment = pump[f].num
      /\ UNCHANGED <<file_sz, do_compress, segment_size, max_in_flight, block, files_,
                     num_parts_, next, pump, part, fetched, local_file_>>
      /\ object' = FlattenSeq([i \in 1..num_parts_ |-> part[i - 1]])
  BY DEF Assemble, source, upload, download
<1>2. /\ num_parts_ = NumParts /\ fetched = {}
      /\ \A f \in DOMAIN pump : Pumping(f, pump[f])
  BY <1>1 DEF Parts
<1>3. num_parts_ \in Nat \ {0} /\ next \in Nat /\ NumPerPump \in Nat /\ segment_size \in Positive
  <2>1. num_parts_ \in Nat \ {0} /\ next \in Nat /\ segment_size \in Positive
    BY <1>2, PartsFit, Constants DEF Planned, Form
  <2> QED BY <2>1, PerPump
<1>4. ASSUME NEW i \in 0..(num_parts_ - 1) PROVE part[i] = Slice(i)
  <2>1. i < next
    BY <1>1, <1>3
  <2>2. PICK f \in DOMAIN pump : f <= i /\ i < f + NumPerPump
    BY <2>1 DEF Planned
  <2>3. f \in Nat /\ pump[f].num = Lesser(num_parts_ - f, NumPerPump)
        /\ pump[f].segment = pump[f].num
    BY <1>1 DEF Planned
  <2>4. i \in f..(f + pump[f].segment - 1)
    BY <1>3, <2>2, <2>3 DEF Lesser
  <2> QED BY <1>2, <2>4 DEF Pumping
<1> DEFINE s == [i \in 1..num_parts_ |-> part[i - 1]]
<1>5. Slices(s, num_parts_, Stream, segment_size)
  <2>1. ASSUME NEW i \in 1..num_parts_
        PROVE  s[i] = SubSeq(Stream, (i - 1) * segment_size + 1,
                             Lesser(i * segment_size, Len(Stream)))
    <3> DEFINE j == i - 1
    <3>1. j \in 0..(num_parts_ - 1) /\ j + 1 = i
      BY <1>3
    <3>2. s[i] = part[j]
      OBVIOUS
    <3> HIDE DEF s, j
    <3>3. s[i] = SubSeq(Stream, j * segment_size + 1, Lesser((j + 1) * segment_size, Len(Stream)))
      BY <1>4, <3>1, <3>2 DEF Slice
    <3> QED BY <3>1, <3>3 DEF j
  <2>2. s = [i \in 1..num_parts_ |-> s[i]]
    OBVIOUS
  <2> HIDE DEF s
  <2>3. Len(Stream) <= num_parts_ * segment_size
        /\ (num_parts_ - 1) * segment_size <= Len(Stream)
    BY <1>2, PartsFit
  <2> QED BY <2>1, <2>2, <2>3 DEF Slices
<1>6. object' = Stream
  <2>1. Stream \in Seq(Datum)
    BY Data
  <2>2. object' = FlattenSeq(s)
    BY <1>1
  <2> HIDE DEF s
  <2> QED BY <1>3, <1>5, <2>1, <2>2, Slicing
<1>7. Form'
  BY <1>1 DEF Form
<1>8. Cut' /\ Stream' = Stream
  BY <1>1, CutStays
<1>9. Planned'
  BY <1>1, PlanStays
<1>10. \A i : Slice(i)' = Slice(i)
  BY <1>1, <1>8 DEF Slice
<1>11. Parts'
  BY <1>1, <1>2, <1>10 DEF Parts
<1>12. Fetched'
  BY <1>1, <1>2, <1>6, <1>8 DEF Fetched
<1> QED BY <1>7, <1>8, <1>9, <1>11, <1>12

\* The object as long as nothing is downloaded, and while it is.
LEMMA ObjectType ==
    ASSUME IInv, stage \in {"stored", "fetch"}
    PROVE  object = Stream /\ object \in Seq(Datum) /\ Len(object) \in Nat
           /\ DOMAIN object = 1..Len(object)
<1>1. object = Stream /\ Stream \in Seq(Datum)
  BY Data DEF IInv, Fetched
<1> QED BY <1>1, LenProperties

\* The download begins with a file of holes.
LEMMA StartDownloadInv ==
    ASSUME IInv, StartDownload
    PROVE  IInv'
<1> USE DEF IInv
<1>1. /\ stage = "stored" /\ stage' \in {"refused", "fetch"} /\ segment_size' \in SegmentSizes
      /\ local_file_' = [i \in DOMAIN object |-> Hole]
      /\ UNCHANGED <<file_sz, do_compress, max_in_flight, block, files_, num_parts_, next, pump,
                     part, object, fetched>>
  BY DEF StartDownload, source, upload
<1>2. Form'
  BY <1>1 DEF Form
<1>3. Cut' /\ Stream' = Stream
  BY <1>1, CutStays
<1>4. Planned'
  BY <1>1, PlanStays
<1>5. Parts'
  BY <1>1 DEF Parts
<1>6. object = Stream /\ Len(object) \in Nat /\ DOMAIN object = 1..Len(object) /\ fetched = {}
  BY <1>1, ObjectType DEF Fetched
<1>7. local_file_' \in Seq(Datum) /\ DOMAIN local_file_' = DOMAIN object
  <2>1. Hole \in Datum
    BY DEF Hole, Byte, Datum
  <2> HIDE DEF Hole
  <2> DEFINE m == Len(object)
  <2>2. m \in Nat /\ local_file_' = [i \in 1..m |-> Hole] /\ DOMAIN object = 1..m
    BY <1>1, <1>6
  <2> HIDE DEF m
  <2> QED BY <2>1, <2>2
<1>8. stage' = "refused" =>
        Pieces(Len(Stream), segment_size') > Lesser(MaxParts, MaxSegments)
  <2> DEFINE n == Pieces(Len(object), segment_size')
  <2>1. segment_size' \in Nat \ {0}
    BY <1>1, Constants
  <2>2. n \in Nat
    BY <1>6, <2>1, PiecesFit
  <2>3. stage' = "refused" => SegmentsOf(segment_size') > MaxSegments
    BY DEF StartDownload
  <2>4. SegmentsOf(segment_size') = IF n = 0 THEN 1 ELSE n
    BY DEF SegmentsOf
  <2> HIDE DEF n
  <2>5. stage' = "refused" => n > Lesser(MaxParts, MaxSegments)
    BY <2>2, <2>3, <2>4, Constants DEF Lesser
  <2> QED BY <1>6, <2>5 DEF n
<1>9. Fetched'
  BY <1>1, <1>3, <1>6, <1>7, <1>8 DEF Fetched
<1> QED BY <1>2, <1>3, <1>4, <1>5, <1>9

\* A segment is written where it belongs.
LEMMA FetchInv ==
    ASSUME IInv, NEW i \in 0..(NumSegments - 1), Fetch(i)
    PROVE  IInv'
<1> USE DEF IInv
<1> DEFINE first == i * segment_size
<1> DEFINE size == Size(first)
<1> DEFINE data == Body(first, LastOfRange(first, size))
<1> DEFINE m == Len(object)
<1>1. /\ stage = "fetch" /\ stage' = "fetch" /\ i \in 0..(NumSegments - 1)
      /\ Len(data) = size /\ fetched' = fetched \cup {i}
      /\ local_file_' = [k \in DOMAIN local_file_ |->
                           IF k - WriteOffset(i, data) \in DOMAIN data
                           THEN data[k - WriteOffset(i, data)]
                           ELSE local_file_[k]]
      /\ UNCHANGED <<file_sz, do_compress, segment_size, max_in_flight, block, files_,
                     num_parts_, next, pump, part, object>>
  BY DEF Fetch, source, upload
<1>2. object = Stream /\ object \in Seq(Datum) /\ m \in Nat /\ DOMAIN object = 1..m
  BY <1>1, ObjectType
<1>3. DOMAIN local_file_ = DOMAIN object /\ local_file_ \in Seq(Datum) /\ fetched \subseteq Nat
  BY <1>1 DEF Fetched
<1>4. segment_size \in Nat \ {0} /\ i \in Nat /\ first \in Nat
      /\ (i + 1) * segment_size = first + segment_size
  <2>1. segment_size \in Nat \ {0}
    BY Constants DEF Form
  <2>2. i \in Nat
    OBVIOUS
  <2> QED BY <2>1, <2>2, Product
<1>5. /\ size = Lesser(m - first, segment_size)
      /\ data = SubSeq(object, first + 1, Lesser(first + size - 1 + 1, m))
      /\ WriteOffset(i, data) = first
  BY DEF Size, Body, LastOfRange, WriteOffset
<1> HIDE DEF m, first, size, data
<1>6. \A k \in 1..m : object[k] \in Datum
  BY <1>2, ElementOfSeq DEF m
<1> DEFINE c == first + 1
<1> DEFINE l == Lesser(first + size - 1 + 1, m)
<1>7. size \in Int /\ size <= m - first /\ size <= segment_size
      /\ (size = m - first \/ size = segment_size)
  BY <1>2, <1>4, <1>5 DEF Lesser
<1>8. c \in Int /\ l \in Int /\ c = first + 1 /\ l = first + size
  BY <1>2, <1>4, <1>7 DEF Lesser
<1>9. data = SubSeq(object, c, l)
  BY <1>5
<1> HIDE DEF c, l
<1>10. \A k \in c..l : k \in 1..m /\ object[k] \in Datum
  BY <1>2, <1>4, <1>6, <1>7, <1>8
<1>11. /\ data \in Seq(Datum) /\ Len(data) = IF c <= l THEN l - c + 1 ELSE 0
       /\ \A k \in 1..(l - c + 1) : data[k] = object[c + k - 1]
  BY <1>8, <1>9, <1>10, SubSeqProperties
<1>12. size \in Nat /\ DOMAIN data = 1..size
  <2>1. DOMAIN data = 1..Len(data) /\ Len(data) \in Nat
    BY <1>11, LenProperties
  <2> QED BY <1>1, <2>1
<1>13. \A k \in 1..size : data[k] = object[first + k]
  <2> SUFFICES ASSUME NEW k \in 1..size PROVE data[k] = object[first + k]
    OBVIOUS
  <2>1. k \in 1..(l - c + 1) /\ c + k - 1 = first + k
    BY <1>4, <1>8, <1>12
  <2> QED BY <1>11, <2>1
<1>14. ASSUME NEW k \in 1..m
       PROVE  local_file_'[k] = IF k - first \in 1..size THEN object[k] ELSE local_file_[k]
  <2>1. local_file_'[k] = IF k - first \in 1..size THEN data[k - first] ELSE local_file_[k]
    BY <1>1, <1>2, <1>3, <1>5, <1>12
  <2>2. k - first \in 1..size => data[k - first] = object[k]
    <3> DEFINE j == k - first
    <3>1. first + j = k
      BY <1>4
    <3> HIDE DEF j
    <3>2. j \in 1..size => data[j] = object[k]
      BY <1>13, <3>1
    <3> QED BY <3>2 DEF j
  <2> QED BY <2>1, <2>2
<1>15. local_file_' \in Seq(Datum) /\ DOMAIN local_file_' = DOMAIN object
  <2>1. \A k \in 1..m : local_file_[k] \in Datum
    <3>1. Len(local_file_) \in Nat /\ DOMAIN local_file_ = 1..Len(local_file_)
      BY <1>3, LenProperties
    <3>2. \A k \in 1..Len(local_file_) : local_file_[k] \in Datum
      BY <1>3, ElementOfSeq
    <3> QED BY <1>2, <1>3, <3>1, <3>2
  <2>2. \A k \in 1..m : local_file_'[k] \in Datum
    BY <1>6, <1>14, <2>1
  <2>3. local_file_' = [k \in 1..m |-> local_file_'[k]]
    BY <1>1, <1>2, <1>3
  <2> QED BY <1>2, <2>2, <2>3
<1>16. ASSUME NEW j \in fetched \cup {i}, NEW k \in 1..m,
              j * segment_size < k, k <= (j + 1) * segment_size
       PROVE  local_file_'[k] = object[k]
  <2>1. CASE k - first \in 1..size
    BY <1>14, <2>1
  <2>2. CASE k - first \notin 1..size
    <3>1. j # i
      <4> SUFFICES ASSUME j = i PROVE FALSE
        OBVIOUS
      <4>1. first < k /\ k <= first + segment_size
        BY <1>4, <1>16 DEF first
      <4> QED BY <1>2, <1>4, <1>7, <2>2, <4>1
    <3>2. local_file_[k] = object[k]
      BY <1>1, <1>2, <1>16, <3>1 DEF Fetched
    <3> QED BY <1>14, <2>2, <3>2
  <2> QED BY <2>1, <2>2
<1>17. Form'
  BY <1>1 DEF Form
<1>18. Cut' /\ Stream' = Stream
  BY <1>1, CutStays
<1>19. Planned'
  BY <1>1, PlanStays
<1>20. Parts'
  BY <1>1 DEF Parts
<1>21. Fetched'
  <2>1. fetched' \subseteq Nat
    BY <1>1, <1>3, <1>4
  <2> QED BY <1>1, <1>2, <1>15, <1>16, <1>18, <2>1 DEF Fetched
<1> QED BY <1>17, <1>18, <1>19, <1>20, <1>21

\* An object without bytes may not be had.
LEMMA FetchRefusedInv ==
    ASSUME IInv, FetchRefused
    PROVE  IInv'
<1> USE DEF IInv
<1>1. /\ stage = "fetch" /\ stage' = "failed" /\ object = <<>>
      /\ UNCHANGED <<file_sz, do_compress, segment_size, max_in_flight, block, files_,
                     num_parts_, next, pump, part, object, fetched, local_file_>>
  BY DEF FetchRefused, source, upload, download
<1>2. object = Stream
  BY <1>1 DEF Fetched
<1>3. file_sz = 0
  BY <1>1, <1>2, EmptyData
<1>4. Form'
  BY <1>1 DEF Form
<1>5. Cut' /\ Stream' = Stream
  BY <1>1, CutStays
<1>6. Planned'
  BY <1>1, PlanStays
<1>7. Parts'
  BY <1>1 DEF Parts
<1>8. Fetched'
  BY <1>1, <1>2, <1>3, <1>5 DEF Fetched
<1> QED BY <1>4, <1>5, <1>6, <1>7, <1>8

\* When all segments are there, so is each byte of the object.
LEMMA AllFetched ==
    ASSUME IInv, stage = "fetch", fetched = 0..(NumSegments - 1)
    PROVE  local_file_ = Stream
<1> DEFINE m == Len(object)
<1> DEFINE n == Pieces(m, segment_size)
<1>1. object = Stream /\ object \in Seq(Datum) /\ m \in Nat /\ DOMAIN object = 1..m
  BY ObjectType
<1>2. DOMAIN local_file_ = DOMAIN object /\ local_file_ \in Seq(Datum)
  BY DEF IInv, Fetched
<1>3. segment_size \in Nat \ {0} /\ segment_size \in Nat
  BY Constants DEF IInv, Form
<1>4. NumSegments = IF n = 0 THEN 1 ELSE n
  BY DEF NumSegments, SegmentsOf
<1> HIDE DEF m
<1>5. n \in Nat /\ m <= n * segment_size
  BY <1>1, <1>3, PiecesFit
<1> HIDE DEF n
<1>6. ASSUME NEW k \in 1..m PROVE local_file_[k] = object[k]
  <2> DEFINE b == k - 1
  <2> DEFINE i == b \div segment_size
  <2> DEFINE r == b % segment_size
  <2>1. b \in Nat /\ k = b + 1
    OBVIOUS
  <2> HIDE DEF b
  <2>2. i \in Nat /\ r \in 0..(segment_size - 1) /\ b = segment_size * i + r
    BY <1>3, <2>1, Division
  <2> HIDE DEF i, r
  <2>3. i * segment_size \in Nat /\ (i + 1) * segment_size = i * segment_size + segment_size
        /\ segment_size * i = i * segment_size
    BY <1>3, <2>2, Product
  <2>4. i * segment_size < k /\ k <= (i + 1) * segment_size
    <3> DEFINE a == i * segment_size
    <3>1. a \in Nat /\ b = a + r /\ (i + 1) * segment_size = a + segment_size
      BY <2>2, <2>3
    <3> HIDE DEF a
    <3>2. a < k /\ k <= a + segment_size
      BY <1>3, <2>1, <2>2, <3>1
    <3> QED BY <3>1, <3>2 DEF a
  <2>5. i < n
    <3> SUFFICES ASSUME n <= i PROVE FALSE
      BY <1>5, <2>2
    <3>1. n * segment_size <= i * segment_size /\ n * segment_size \in Nat
      BY <1>3, <1>5, <2>2, Product
    <3> DEFINE a == i * segment_size
    <3> DEFINE c == n * segment_size
    <3>2. a \in Nat /\ c \in Nat /\ c <= a /\ a < k /\ m <= c
      BY <1>5, <2>3, <2>4, <3>1
    <3> HIDE DEF a, c
    <3> QED BY <1>1, <3>2
  <2>6. i \in fetched
    BY <1>4, <1>5, <2>2, <2>5
  <2> QED BY <1>1, <2>4, <2>6 DEF IInv, Fetched
<1>7. Len(local_file_) = m
  <2>1. DOMAIN local_file_ = 1..Len(local_file_) /\ Len(local_file_) \in Nat
    BY <1>2, LenProperties
  <2> QED BY <1>1, <1>2, <2>1
<1>8. local_file_ = object
  BY <1>1, <1>2, <1>6, <1>7, SeqEqual DEF m
<1> QED BY <1>1, <1>8

\* The download ends with the file as it was.
LEMMA InstallInv ==
    ASSUME IInv, Install
    PROVE  IInv'
<1> USE DEF IInv
<1>1. /\ stage = "fetch" /\ fetched = 0..(NumSegments - 1)
      /\ stage' = IF do_compress /\ ~IsGzip(local_file_) THEN "failed" ELSE "done"
      /\ local_file_' = IF do_compress /\ IsGzip(local_file_) THEN Inflated(local_file_)
                        ELSE local_file_
      /\ UNCHANGED <<file_sz, do_compress, segment_size, max_in_flight, block, files_,
                     num_parts_, next, pump, part, object, fetched>>
  BY DEF Install, source, upload
<1>2. local_file_ = Stream /\ object = Stream
  BY <1>1, AllFetched, ObjectType
<1>3. do_compress => IsGzip(Stream) /\ Inflated(Stream) = Raw(0, file_sz)
  BY <1>1, CompressedData, DataIsGzip, InflatedIsFile
<1>4. stage' = "done" /\ local_file_' = Raw(0, file_sz)
  <2>1. CASE do_compress
    BY <1>1, <1>2, <1>3, <2>1
  <2>2. CASE ~do_compress
    BY <1>1, <1>2, <2>2, PlainData
  <2> QED BY <2>1, <2>2
<1>5. Form'
  BY <1>1, <1>4 DEF Form
<1>6. Cut' /\ Stream' = Stream
  BY <1>1, <1>4, CutStays
<1>7. Planned'
  BY <1>1, PlanStays
<1>8. Parts'
  BY <1>1, <1>4 DEF Parts
<1>9. Fetched'
  <2>1. Raw(0, file_sz)' = Raw(0, file_sz)
    BY <1>1 DEF Raw
  <2>2. fetched' \subseteq Nat
    BY <1>1 DEF Fetched
  <2> QED BY <1>1, <1>2, <1>4, <1>6, <2>1, <2>2 DEF Fetched
<1> QED BY <1>5, <1>6, <1>7, <1>8, <1>9

\* No step breaks it.
LEMMA NextInv ==
    IInv /\ [Next]_vars => IInv'
<1> SUFFICES ASSUME IInv, [Next]_vars PROVE IInv'
  OBVIOUS
<1>1. CASE UNCHANGED vars
  <2>1. /\ UNCHANGED <<file_sz, do_compress, segment_size, max_in_flight, stage, block>>
        /\ UNCHANGED <<files_, num_parts_, next, pump, part, object, fetched, local_file_>>
    BY <1>1 DEF vars
  <2>2. BlockSize' = BlockSize /\ NumBlocks' = NumBlocks /\ Stream' = Stream
    BY <2>1 DEF BlockSize, NumBlocks, EstimatedBlocks, Stream
  <2>3. Form'
    BY <2>1 DEF IInv, Form
  <2>4. Cut'
    <3>1. \A b : BlockAt(b)' = BlockAt(b)
      BY <2>1, <2>2 DEF BlockAt
    <3> QED BY <2>1, <2>2, <3>1 DEF IInv, Cut
  <2>5. Planned'
    BY <2>1, PlanStays DEF IInv
  <2>6. Parts'
    <3>1. \A i : Slice(i)' = Slice(i)
      BY <2>1, <2>2 DEF Slice
    <3>2. NumParts' = NumParts
      BY <2>1 DEF NumParts, Bytes
    <3>3. \A f \in DOMAIN pump : Pumping(f, pump[f]) => Pumping(f, pump[f])'
      <4>1. \A p : Position(p)' = Position(p)
        BY <2>1 DEF Position, Bytes
      <4>2. \A f \in DOMAIN pump : Position(pump[f])' = Position(pump[f])
        BY <2>1 DEF Position, Bytes
      <4> QED BY <2>1, <2>2, <3>1, <4>2 DEF Pumping
    <3> QED BY <2>1, <3>1, <3>2, <3>3 DEF IInv, Parts
  <2>7. Fetched'
    <3>1. Raw(0, file_sz)' = Raw(0, file_sz)
      BY <2>1 DEF Raw
    <3> QED BY <2>1, <2>2, <3>1 DEF IInv, Fetched
  <2> QED BY <2>3, <2>4, <2>5, <2>6, <2>7 DEF IInv
<1>2. CASE Step
  <2>1. CASE Split
    BY <2>1, SplitInv
  <2>2. CASE \E b \in DOMAIN files_ : Compress(b)
    BY <2>2, CompressInv
  <2>3. CASE Start
    BY <2>3, StartInv
  <2>4. CASE SchedulePump
    BY <2>4, SchedulePumpInv
  <2>5. CASE \E f \in DOMAIN pump : Read(f)
    BY <2>5, ReadInv
  <2>6. CASE Assemble
    BY <2>6, AssembleInv
  <2>7. CASE StartDownload
    BY <2>7, StartDownloadInv
  <2>8. CASE \E i \in 0..(NumSegments - 1) : Fetch(i)
    BY <2>8, FetchInv
  <2>9. CASE FetchRefused
    BY <2>9, FetchRefusedInv
  <2>10. CASE Install
    BY <2>10, InstallInv
  <2> QED BY <1>2, <2>1, <2>2, <2>3, <2>4, <2>5, <2>6, <2>7, <2>8, <2>9, <2>10 DEF Step
<1> QED BY <1>1, <1>2 DEF Next, Finished

-----------------------------------------------------------------------------
\* What follows from it.

\* The invariant holds in every state: the pieces are what the file was cut into, each pump
\* is where its parts are, and what is written is what was uploaded.
THEOREM Invariance ==
    Spec => []IInv
BY InitInv, NextInv, PTL DEF Spec

\* The types of all variables, for files of any length and any limits.
THEOREM TypeCorrect ==
    Spec => []TypeOK
<1>1. IInv => TypeOK
  BY DEF IInv, Form, Planned, Fetched, TypeOK
<1> QED BY <1>1, Invariance, PTL

\* The blocks of the compressor follow each other without a gap or an overlap from the
\* first byte of the file to its last, and none is empty, whatever the length of the file,
\* MINIMAL_BLOCK and the number of threads are (compressor.cpp:128-148).
THEOREM BlocksAlwaysCoverFile ==
    Spec => []BlocksCoverFile
<1>1. ASSUME IInv, block # <<>>
      PROVE  /\ \A b \in DOMAIN block : block[b].size > 0
             /\ FlattenSeq([b \in DOMAIN block |-> Raw(block[b].offset, block[b].size)])
                  = Raw(0, file_sz)
  <2>1. Form /\ do_compress /\ block = [b \in 1..NumBlocks |-> BlockAt(b)]
    BY <1>1 DEF IInv, Form, Cut
  <2>2. DOMAIN block = 1..NumBlocks /\ \A b \in 1..NumBlocks : block[b] = BlockAt(b)
    BY <2>1
  <2>3. \A b \in 1..NumBlocks : BlockAt(b).size \in Nat \ {0}
    BY <2>1, BlocksFollow
  <2>4. [b \in DOMAIN block |-> Raw(block[b].offset, block[b].size)]
          = [b \in 1..NumBlocks |-> Raw(BlockAt(b).offset, BlockAt(b).size)]
    BY <2>2
  <2>5. FlattenSeq([b \in 1..NumBlocks |-> Raw(BlockAt(b).offset, BlockAt(b).size)])
          = Raw(0, file_sz)
    BY <2>1, BlocksAreFile
  <2>6. \A b \in DOMAIN block : block[b].size > 0
    BY <2>2, <2>3
  <2>7. FlattenSeq([b \in DOMAIN block |-> Raw(block[b].offset, block[b].size)])
          = Raw(0, file_sz)
    <3> DEFINE s == [b \in DOMAIN block |-> Raw(block[b].offset, block[b].size)]
    <3> DEFINE t == [b \in 1..NumBlocks |-> Raw(BlockAt(b).offset, BlockAt(b).size)]
    <3>1. s = t /\ FlattenSeq(t) = Raw(0, file_sz)
      BY <2>4, <2>5
    <3> HIDE DEF s, t
    <3>2. FlattenSeq(s) = Raw(0, file_sz)
      BY <3>1
    <3> QED BY <3>2 DEF s
  <2> QED BY <2>6, <2>7
<1>2. IInv => BlocksCoverFile
  BY <1>1 DEF BlocksCoverFile
<1> QED BY <1>2, Invariance, PTL

\* A part holds the bytes that belong at its place, wherever the scratch files begin and
\* end and however short the reads are (uploader.cpp:149-200).
THEOREM PartsAreInPlace ==
    Spec => []PartsInPlace
<1>1. IInv => PartsInPlace
  <2> SUFFICES ASSUME IInv, stage \in {"pump", "stored"}, NEW i \in DOMAIN part,
                      part[i] # Missing
               PROVE  part[i] = Slice(i)
    BY DEF PartsInPlace, Slice
  <2>1. part = [j \in 0..(num_parts_ - 1) |-> part[j]]
        /\ \A j \in 0..(num_parts_ - 1) : part[j] \in {Missing, Slice(j)}
    BY DEF IInv, Parts
  <2>2. i \in 0..(num_parts_ - 1)
    BY <2>1
  <2> QED BY <2>1, <2>2
<1> QED BY <1>1, Invariance, PTL

\* What is downloaded is what was uploaded, byte for byte, compressed or not, in whatever
\* segments the one and the other were moved.
THEOREM RoundTripIsExact ==
    Spec => []RoundTrip
<1>1. IInv => RoundTrip
  BY DEF IInv, Fetched, RoundTrip
<1> QED BY <1>1, Invariance, PTL

\* The reasons for which a file does not arrive: there are too many parts or segments, or
\* there is no byte to ask S3 for.  A compressed file is never refused by the decompressor.
NoOtherEnd ==
    /\ stage = "refused" => Pieces(Len(Stream), segment_size) > Lesser(MaxParts, MaxSegments)
    /\ stage = "failed" => file_sz = 0

\* Nothing but the limits and an empty object keeps a file from arriving
\* (uploader.cpp:283, downloader.cpp:203): what Arrives says of the states in which the
\* transfer may stop, without the promise that it does stop.
THEOREM FilesFailForAReason ==
    Spec => []NoOtherEnd
<1>1. IInv => NoOtherEnd
  BY DEF IInv, Fetched, NoOtherEnd
<1> QED BY <1>1, Invariance, PTL

\* Each part below the loop variable has exactly one pump, and each pump fits twice into
\* the budget of segments (uploader.cpp:295-310), if at least two segments may be in
\* flight.  With one, pumps of no part are scheduled for ever.
THEOREM EachPartHasOnePump ==
    ASSUME 1 \notin InFlight
    PROVE  Spec => []OnePumpPerPart
<1> DEFINE num == NumPerPump
<1>1. ASSUME IInv PROVE OnePumpPerPart
  <2>1. max_in_flight \in Nat /\ max_in_flight > 1 /\ num_parts_ \in Nat /\ next \in Nat
    <3>1. max_in_flight \in InFlight /\ max_in_flight # 1
      BY <1>1 DEF IInv, Form
    <3>2. max_in_flight \in Nat \ {0}
      BY <3>1, Constants
    <3> QED BY <1>1, <3>1, <3>2, Constants DEF IInv, Planned
  <2>2. num \in Nat /\ num >= 1 /\ 2 * num <= max_in_flight
    BY <1>1, <2>1, PerPump DEF IInv
  <2> HIDE DEF num
  <2>3. \A f \in DOMAIN pump : f \in Nat /\ f < num_parts_
                               /\ pump[f].num = Lesser(num_parts_ - f, num)
    BY <1>1 DEF IInv, Planned, num
  <2>4. \A f, g \in DOMAIN pump : f < g => f + num <= g
    BY <1>1 DEF IInv, Planned, num
  <2>5. \A i \in 0..(num_parts_ - 1) : i < next =>
          \E f \in DOMAIN pump : f <= i /\ i < f + num
    BY <1>1 DEF IInv, Planned, num
  <2>6. \A f \in DOMAIN pump : /\ pump[f].num >= 1 /\ pump[f].num <= num
                               /\ pump[f].num \in Nat /\ f + pump[f].num <= num_parts_
    BY <2>1, <2>2, <2>3 DEF Lesser
  <2>7. \A f \in DOMAIN pump : 2 * pump[f].num <= max_in_flight
    BY <2>1, <2>2, <2>6
  <2>8. ASSUME NEW i \in 0..(Lesser(next, num_parts_) - 1)
        PROVE  \E f \in DOMAIN pump :
                 /\ f <= i /\ i < f + pump[f].num
                 /\ \A g \in DOMAIN pump : g <= i /\ i < g + pump[g].num => g = f
    <3>1. i \in 0..(num_parts_ - 1) /\ i < next
      BY <2>1 DEF Lesser
    <3>2. PICK f \in DOMAIN pump : f <= i /\ i < f + num
      BY <2>5, <3>1
    <3>3. i < f + pump[f].num
      BY <2>1, <2>2, <2>3, <3>1, <3>2 DEF Lesser
    <3>4. ASSUME NEW g \in DOMAIN pump, g <= i, i < g + pump[g].num PROVE g = f
      <4>1. g \in Nat /\ f \in Nat /\ i < g + num
        BY <2>2, <2>3, <2>6, <3>1, <3>4
      <4>2. ~(f < g) /\ ~(g < f)
        BY <2>2, <2>4, <3>1, <3>2, <3>4, <4>1
      <4> QED BY <4>1, <4>2
    <3> QED BY <3>2, <3>3, <3>4
  <2> QED BY <2>6, <2>7, <2>8 DEF OnePumpPerPart
<1> QED BY <1>1, Invariance, PTL
=============================================================================
