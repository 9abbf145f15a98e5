------------------------ MODULE PrefixDeletionProofs ------------------------
(***************************************************************************)
(* deletePrefix() for buckets, pages, batches and chunks of any size, and  *)
(* any number of changes by others.                                        *)
(***************************************************************************)
EXTENDS PrefixDeletion, TLAPS, FiniteSetTheorems, SequenceTheorems

(***************************************************************************)
(* The loop of normalizeKey().                                             *)
(***************************************************************************)

\* Of natural numbers one is the least: induction, as the proofs below use it.
LEMMA LeastNatural ==
    ASSUME NEW T, T \subseteq Nat, T # {}
    PROVE  \E x \in T : \A y \in T : x <= y
<1> DEFINE R == OpToRel(<, Nat)
<1>1. IsWellFoundedOn(R, Nat)
  BY NatLessThanWellFounded
<1>2. \A x, y \in Nat : x < y => <<x, y>> \in R
  BY DEF OpToRel
<1> HIDE DEF R
<1>3. \E x \in T : \A y \in T : ~ (<<y, x>> \in R)
  BY <1>1, WFMin
<1>4. \A x, y \in T : x \in Nat /\ y \in Nat /\ (~(y < x) => x <= y)
  OBVIOUS
<1> QED
  BY <1>2, <1>3, <1>4

\* It has nothing that normalising drops or splits.
Plain(path) == \A i \in DOMAIN path : path[i] \notin {Empty, Dot} \cup DOMAIN Pieces

\* It has nothing that normalising refuses.
Clean(path) == \A i \in DOMAIN path : Range(Kept(path[i])) \cap Refused = {}

\* What is kept of its members is made of its members.
Closed(S) == \A s \in S : Kept(s) \in Seq(S)

\* What is kept of a segment has nothing to drop or to split; a segment that has
\* nothing of that is kept as it is.
LEMMA KeptOfSegment ==
    ASSUME NEW s
    PROVE  /\ \A x \in Range(Kept(s)) : x \notin {Empty, Dot} \cup DOMAIN Pieces
           /\ s \notin {Empty, Dot} \cup DOMAIN Pieces => Kept(s) = <<s>> /\ Range(Kept(s)) = {s}
<1>1. CASE s \in {Empty, Dot}
  <2>1. Range(Kept(s)) = {}
    BY <1>1 DEF Kept, Range
  <2> QED
    BY <1>1, <2>1
<1>2. CASE s \notin {Empty, Dot} /\ s \in DOMAIN Pieces
  BY <1>2, PiecesAssumption DEF Kept
<1>3. CASE s \notin {Empty, Dot} \cup DOMAIN Pieces
  <2>1. Kept(s) = <<s>>
    BY <1>3 DEF Kept
  <2>2. Range(Kept(s)) = {s}
    BY <2>1 DEF Range
  <2> QED
    BY <1>3, <2>1, <2>2
<1> QED
  BY <1>1, <1>2, <1>3

\* What the loop of normalizeKey has kept of the first n segments.
KeptUpTo(path, n, f) ==
    f = [i \in 0 .. n |-> IF i = 0 THEN <<>> ELSE f[i - 1] \o Kept(path[i])]

\* The loop gives a value for every path.
LEMMA KeptExists ==
    ASSUME NEW path, NEW n \in Nat
    PROVE  \E f : KeptUpTo(path, n, f)
<1> DEFINE T == {m \in Nat : ~ \E f : KeptUpTo(path, m, f)}
<1> SUFFICES ASSUME T # {} PROVE FALSE
  OBVIOUS
<1>1. PICK m \in T : \A y \in T : m <= y
  BY LeastNatural
<1>2. m # 0
  <2> DEFINE g == [i \in 0 .. 0 |-> <<>>]
  <2>1. KeptUpTo(path, 0, g)
    BY DEF KeptUpTo
  <2> QED
    BY <1>1, <2>1
<1>3. m \in Nat /\ m - 1 \in Nat /\ m - 1 \notin T
  BY <1>1, <1>2
<1>4. PICK f : KeptUpTo(path, m - 1, f)
  BY <1>3
<1> DEFINE g == [i \in 0 .. m |-> IF i < m THEN f[i] ELSE f[m - 1] \o Kept(path[m])]
           h == [i \in 0 .. m |-> IF i = 0 THEN <<>> ELSE g[i - 1] \o Kept(path[i])]
<1>5. ASSUME NEW i \in 0 .. m PROVE g[i] = h[i]
  <2>1. CASE i = m
    <3>1. m - 1 \in 0 .. m /\ m - 1 < m /\ i # 0
      BY <1>2, <1>3, <2>1
    <3>2. g[m - 1] = f[m - 1]
      BY <3>1
    <3> QED
      BY <2>1, <3>1, <3>2
  <2>2. CASE i # m /\ i # 0
    <3>1. i \in 0 .. m - 1 /\ i - 1 \in 0 .. m /\ i < m /\ i - 1 < m
      BY <1>3, <2>2
    <3>2. g[i] = f[i] /\ g[i - 1] = f[i - 1]
      BY <3>1
    <3>3. f[i] = f[i - 1] \o Kept(path[i])
      BY <1>4, <2>2, <3>1, Zenon DEF KeptUpTo
    <3> QED
      BY <2>2, <3>2, <3>3
  <2>3. CASE i = 0
    <3>1. 0 \in 0 .. m - 1 /\ 0 < m
      BY <1>2, <1>3
    <3>2. f[0] = <<>>
      BY <1>4, <3>1 DEF KeptUpTo
    <3> QED
      BY <2>3, <3>1, <3>2
  <2> QED
    BY <2>1, <2>2, <2>3
<1>6. g = h
  BY <1>5
<1>7. KeptUpTo(path, m, g)
  BY <1>6 DEF KeptUpTo
<1> QED
  BY <1>1, <1>7

\* One turn of the loop.
LEMMA KeptStep ==
    ASSUME NEW path, NEW n \in Nat, NEW f, KeptUpTo(path, n, f)
    PROVE  /\ f[0] = <<>>
           /\ \A i \in 1 .. n : f[i] = f[i - 1] \o Kept(path[i])
<1>1. 0 \in 0 .. n
  OBVIOUS
<1>2. f[0] = <<>>
  BY <1>1 DEF KeptUpTo
<1>3. ASSUME NEW i \in 1 .. n
      PROVE f[i] = f[i - 1] \o Kept(path[i])
  <2>1. i \in 0 .. n /\ i # 0
    OBVIOUS
  <2> QED
    BY <2>1, Zenon DEF KeptUpTo
<1> QED
  BY <1>2, <1>3

\* normalizeKey() returns what the loop has kept in the end.
LEMMA NormalizeLoop ==
    ASSUME NEW S, NEW path \in Seq(S)
    PROVE  /\ NormalizeKey(path) # Rejected => Clean(path)
           /\ Clean(path) =>
                 \E f : KeptUpTo(path, Len(path), f) /\ NormalizeKey(path) = f[Len(path)]
<1> DEFINE Loop(p) == CHOOSE f : KeptUpTo(p, Len(p), f)
           body == [p \in {path} |->
                       IF \E i \in DOMAIN p : Range(Kept(p[i])) \cap Refused # {}
                       THEN Rejected ELSE Loop(p)[Len(p)]]
<1>1. Len(path) \in Nat
  OBVIOUS
<1>2. KeptUpTo(path, Len(path), Loop(path))
  BY <1>1, KeptExists
<1>3. body[path] = IF \E i \in DOMAIN path : Range(Kept(path[i])) \cap Refused # {}
                   THEN Rejected ELSE Loop(path)[Len(path)]
  OBVIOUS
<1>4. NormalizeKey(path) = body[path]
  BY DEF NormalizeKey, KeptUpTo
<1> HIDE DEF body, Loop
<1> QED
  BY <1>2, <1>3, <1>4 DEF Clean

\* The loop gives sequences, of what is kept of the segments.
LEMMA LoopIsMadeOfKept ==
    ASSUME NEW S, Closed(S), NEW path \in Seq(S),
           NEW f, KeptUpTo(path, Len(path), f),
           NEW m \in 0 .. Len(path)
    PROVE  /\ f[m] \in Seq(S)
           /\ \A x \in Range(f[m]) : \E k \in DOMAIN path : x \in Range(Kept(path[k]))
<1> DEFINE Right(j) == /\ f[j] \in Seq(S)
                       /\ \A x \in Range(f[j]) : \E k \in DOMAIN path : x \in Range(Kept(path[k]))
           T == {j \in 0 .. Len(path) : ~ Right(j)}
<1> SUFFICES ASSUME T # {} PROVE FALSE
  OBVIOUS
<1>0. Len(path) \in Nat /\ T \subseteq Nat
  OBVIOUS
<1>1. PICK j \in T : \A y \in T : j <= y
  BY <1>0, LeastNatural
<1>2. f[0] = <<>> /\ \A i \in 1 .. Len(path) : f[i] = f[i - 1] \o Kept(path[i])
  BY <1>0, KeptStep
<1>3. j \in 0 .. Len(path) /\ ~ Right(j)
  BY <1>1
<1>4. Right(0)
  BY <1>2 DEF Range
<1>10. j # 0 /\ j \in 0 .. Len(path)
  BY <1>3, <1>4
<1>5. /\ j - 1 \in 0 .. Len(path) /\ j \in DOMAIN path /\ j \in 1 .. Len(path)
      /\ ~(j <= j - 1)
  BY <1>0, <1>10
<1>6. Right(j - 1)
  <2>1. j - 1 \notin T
    BY <1>1, <1>5
  <2> QED
    BY <1>5, <2>1
<1> HIDE DEF T
<1>7. path[j] \in S /\ Kept(path[j]) \in Seq(S)
  BY <1>5 DEF Closed
<1>8. f[j] = f[j - 1] \o Kept(path[j])
  BY <1>2, <1>5
<1>9. f[j] \in Seq(S) /\ Range(f[j]) = Range(f[j - 1]) \cup Range(Kept(path[j]))
  BY <1>6, <1>7, <1>8, ConcatProperties, RangeConcatenation
<1> QED
  BY <1>3, <1>5, <1>6, <1>9

\* A plain path without anything refused is normal.
LEMMA PlainIsNormal ==
    ASSUME NEW S, NEW path \in Seq(S), Plain(path), Clean(path)
    PROVE  NormalizeKey(path) = path
<1>1. PICK f : KeptUpTo(path, Len(path), f) /\ NormalizeKey(path) = f[Len(path)]
  BY NormalizeLoop
<1> DEFINE Right(j) == f[j] = SubSeq(path, 1, j)
           T == {j \in 0 .. Len(path) : ~ Right(j)}
<1>2. Len(path) \in Nat /\ T \subseteq Nat /\ DOMAIN path = 1 .. Len(path)
  OBVIOUS
<1>3. f[0] = <<>> /\ \A i \in 1 .. Len(path) : f[i] = f[i - 1] \o Kept(path[i])
  BY <1>1, <1>2, KeptStep
<1>4. T = {}
  <2> SUFFICES ASSUME T # {} PROVE FALSE
    OBVIOUS
  <2>1. PICK j \in T : \A y \in T : j <= y
    BY <1>2, LeastNatural
  <2>2. Right(0)
    BY <1>3
  <2>8. j # 0 /\ j \in 0 .. Len(path)
    BY <2>1, <2>2
  <2>3. j - 1 \in 0 .. Len(path) /\ j \in 1 .. Len(path) /\ ~(j <= j - 1)
    BY <1>2, <2>8
  <2>4. Right(j - 1)
    <3>1. j - 1 \notin T
      BY <2>1, <2>3
    <3> QED
      BY <2>3, <3>1
  <2>5. Kept(path[j]) = <<path[j]>>
    BY <1>2, <2>3, KeptOfSegment DEF Plain
  <2>6. f[j] = SubSeq(path, 1, j - 1) \o <<path[j]>>
    BY <1>3, <2>3, <2>4, <2>5
  <2>7. SubSeq(path, 1, j - 1) \o <<path[j]>> = SubSeq(path, 1, j)
    BY <1>2, <2>3
  <2> QED
    BY <2>1, <2>6, <2>7
<1>5. f[Len(path)] = SubSeq(path, 1, Len(path))
  BY <1>2, <1>4
<1> QED
  BY <1>1, <1>5

\* What normalizeKey() returns has nothing left to drop, to split or to refuse, and
\* normalising it again changes nothing.
THEOREM NormalizingIsIdempotent ==
    ASSUME NEW S, Closed(S), NEW path \in Seq(S), NormalizeKey(path) # Rejected
    PROVE  LET key == NormalizeKey(path) IN
           /\ key \in Seq(S) /\ Plain(key) /\ Clean(key)
           /\ NormalizeKey(key) = key
<1> DEFINE key == NormalizeKey(path)
<1>1. Clean(path)
  BY NormalizeLoop
<1>2. PICK f : KeptUpTo(path, Len(path), f) /\ key = f[Len(path)]
  BY <1>1, NormalizeLoop
<1>3. Len(path) \in 0 .. Len(path)
  OBVIOUS
<1>4. /\ key \in Seq(S)
      /\ \A x \in Range(key) : \E k \in DOMAIN path : x \in Range(Kept(path[k]))
  BY <1>2, <1>3, LoopIsMadeOfKept
<1> HIDE DEF key
<1>5. ASSUME NEW i \in DOMAIN key
      PROVE  /\ key[i] \notin {Empty, Dot} \cup DOMAIN Pieces
             /\ Range(Kept(key[i])) \cap Refused = {}
  <2>1. PICK k \in DOMAIN path : key[i] \in Range(Kept(path[k]))
    BY <1>4 DEF Range
  <2>2. key[i] \notin {Empty, Dot} \cup DOMAIN Pieces /\ key[i] \notin Refused
    BY <1>1, <2>1, KeptOfSegment DEF Clean
  <2> QED
    BY <2>2, KeptOfSegment
<1>6. Plain(key) /\ Clean(key)
  BY <1>5 DEF Plain, Clean
<1>7. NormalizeKey(key) = key
  BY <1>4, <1>6, PlainIsNormal
<1> QED
  BY <1>4, <1>6, <1>7 DEF key

\* A path holds something that is refused if one of its parts does.
LEMMA CleanConcat ==
    ASSUME NEW S, NEW a \in Seq(S), NEW b \in Seq(S)
    PROVE  Clean(a \o b) <=> Clean(a) /\ Clean(b)
<1>1. /\ a \o b \in Seq(S) /\ Len(a \o b) = Len(a) + Len(b) /\ Len(a) \in Nat /\ Len(b) \in Nat
      /\ \A i \in 1 .. Len(a) + Len(b) : (a \o b)[i] = IF i <= Len(a) THEN a[i] ELSE b[i - Len(a)]
  BY ConcatProperties
<1> DEFINE path == a \o b
<1>2. DOMAIN path = 1 .. Len(path) /\ DOMAIN a = 1 .. Len(a) /\ DOMAIN b = 1 .. Len(b)
  BY <1>1
<1> HIDE DEF path
<1>3. ASSUME Clean(a), Clean(b), NEW i \in 1 .. Len(path)
      PROVE  Range(Kept(path[i])) \cap Refused = {}
  <2>1. CASE i <= Len(a)
    BY <1>1, <1>2, <1>3, <2>1 DEF Clean, path
  <2>2. CASE ~(i <= Len(a))
    <3>1. i - Len(a) \in 1 .. Len(b)
      BY <1>1, <2>2 DEF path
    <3> QED
      BY <1>1, <1>2, <1>3, <2>2, <3>1 DEF Clean, path
  <2> QED
    BY <2>1, <2>2
<1>4. ASSUME Clean(path), NEW i \in 1 .. Len(a)
      PROVE  Range(Kept(a[i])) \cap Refused = {}
  <2>1. i \in 1 .. Len(path) /\ path[i] = a[i]
    BY <1>1 DEF path
  <2> QED
    BY <1>2, <1>4, <2>1 DEF Clean
<1>5. ASSUME Clean(path), NEW i \in 1 .. Len(b)
      PROVE  Range(Kept(b[i])) \cap Refused = {}
  <2>1. Len(a) + i \in 1 .. Len(path) /\ path[Len(a) + i] = b[i]
    BY <1>1 DEF path
  <2> QED
    BY <1>2, <1>5, <2>1 DEF Clean
<1>6. Clean(path) <=> Clean(a) /\ Clean(b)
  BY <1>2, <1>3, <1>4, <1>5 DEF Clean
<1> QED
  BY <1>6 DEF path

\* Two paths are normalised one after the other.
LEMMA NormalizeConcat ==
    ASSUME NEW S, Closed(S), NEW a \in Seq(S), NEW b \in Seq(S), Clean(a), Clean(b)
    PROVE  NormalizeKey(a \o b) = NormalizeKey(a) \o NormalizeKey(b)
<1> DEFINE path == a \o b
<1>1. /\ path \in Seq(S) /\ Len(path) = Len(a) + Len(b) /\ Len(a) \in Nat /\ Len(b) \in Nat
      /\ \A i \in 1 .. Len(a) + Len(b) : path[i] = IF i <= Len(a) THEN a[i] ELSE b[i - Len(a)]
  BY ConcatProperties
<1>2. DOMAIN path = 1 .. Len(path) /\ DOMAIN a = 1 .. Len(a) /\ DOMAIN b = 1 .. Len(b)
  BY <1>1
<1>3. Clean(path)
  BY CleanConcat
<1> HIDE DEF path
<1>4. PICK f : KeptUpTo(path, Len(path), f) /\ NormalizeKey(path) = f[Len(path)]
  BY <1>1, <1>3, NormalizeLoop
<1>5. PICK g : KeptUpTo(a, Len(a), g) /\ NormalizeKey(a) = g[Len(a)]
  BY NormalizeLoop
<1>6. PICK h : KeptUpTo(b, Len(b), h) /\ NormalizeKey(b) = h[Len(b)]
  BY NormalizeLoop
<1>7. f[0] = <<>> /\ \A i \in 1 .. Len(path) : f[i] = f[i - 1] \o Kept(path[i])
  <2>1. Len(path) \in Nat /\ KeptUpTo(path, Len(path), f)
    BY <1>1, <1>4
  <2> QED
    BY <2>1, KeptStep
<1>8. g[0] = <<>> /\ \A i \in 1 .. Len(a) : g[i] = g[i - 1] \o Kept(a[i])
  BY <1>1, <1>5, KeptStep
<1>9. h[0] = <<>> /\ \A i \in 1 .. Len(b) : h[i] = h[i - 1] \o Kept(b[i])
  BY <1>1, <1>6, KeptStep
<1>10. /\ \A i \in 0 .. Len(a) : g[i] \in Seq(S)
       /\ \A i \in 0 .. Len(b) : h[i] \in Seq(S)
  BY <1>5, <1>6, LoopIsMadeOfKept
<1> DEFINE Right(j) == f[j] = IF j <= Len(a) THEN g[j] ELSE g[Len(a)] \o h[j - Len(a)]
           T == {j \in 0 .. Len(path) : ~ Right(j)}
<1>11. T \subseteq Nat
  BY <1>1
<1>12. T = {}
  <2> SUFFICES ASSUME T # {} PROVE FALSE
    OBVIOUS
  <2>1. PICK j \in T : \A y \in T : j <= y
    BY <1>11, LeastNatural
  <2>2. Right(0)
    BY <1>1, <1>7, <1>8
  <2>8. j # 0 /\ j \in 0 .. Len(path)
    BY <2>1, <2>2
  <2>3. j - 1 \in 0 .. Len(path) /\ j \in 1 .. Len(path) /\ ~(j <= j - 1)
    BY <1>1, <2>8
  <2>4. Right(j - 1)
    <3>1. j - 1 \notin T
      BY <2>1, <2>3
    <3> QED
      BY <2>3, <3>1
  <2>5. f[j] = f[j - 1] \o Kept(path[j])
    BY <1>7, <2>3
  <2> HIDE DEF T
  <2>6. CASE j <= Len(a)
    <3>1. j \in 1 .. Len(a) /\ j - 1 <= Len(a) /\ path[j] = a[j]
      BY <1>1, <2>3, <2>6
    <3>2. g[j] = g[j - 1] \o Kept(a[j]) /\ f[j - 1] = g[j - 1]
      BY <1>8, <2>4, <3>1
    <3>3. Right(j)
      BY <2>5, <2>6, <3>1, <3>2
    <3> QED
      BY <2>1, <3>3 DEF T
  <2>7. CASE ~(j <= Len(a))
    <3> DEFINE k == j - Len(a)
    <3>1. k \in 1 .. Len(b) /\ k - 1 \in 0 .. Len(b) /\ path[j] = b[k] /\ b[k] \in S
      BY <1>1, <2>3, <2>7
    <3>2. h[k] = h[k - 1] \o Kept(b[k])
      BY <1>9, <3>1
    <3>3. f[j - 1] = g[Len(a)] \o h[k - 1]
      <4>1. CASE j - 1 <= Len(a)
        <5>1. j - 1 = Len(a) /\ k - 1 = 0
          BY <1>1, <2>3, <2>7, <4>1
        <5>2. g[Len(a)] \in Seq(S) /\ h[k - 1] = <<>>
          BY <1>1, <1>9, <1>10, <5>1
        <5>3. g[Len(a)] \o <<>> = g[Len(a)]
          BY <5>2, ConcatEmptySeq
        <5> QED
          BY <2>4, <4>1, <5>1, <5>2, <5>3
      <4>2. CASE ~(j - 1 <= Len(a))
        <5>1. (j - 1) - Len(a) = k - 1
          BY <1>1, <2>3
        <5> QED
          BY <2>4, <4>2, <5>1
      <4> QED
        BY <4>1, <4>2
    <3>4. g[Len(a)] \in Seq(S) /\ h[k - 1] \in Seq(S) /\ Kept(b[k]) \in Seq(S)
      BY <1>1, <1>10, <3>1 DEF Closed
    <3> HIDE DEF k
    <3>7. (g[Len(a)] \o h[k - 1]) \o Kept(b[k]) = g[Len(a)] \o (h[k - 1] \o Kept(b[k]))
      <4> DEFINE x == g[Len(a)]
                 y == h[k - 1]
                 z == Kept(b[k])
      <4>1. x \in Seq(S) /\ y \in Seq(S) /\ z \in Seq(S)
        BY <3>4
      <4> HIDE DEF x, y, z
      <4>2. (x \o y) \o z = x \o (y \o z)
        BY <4>1, ConcatAssociative
      <4> QED
        BY <4>2 DEF x, y, z
    <3>5. f[j] = g[Len(a)] \o h[k]
      BY <2>5, <3>1, <3>2, <3>3, <3>7, Zenon
    <3>6. Right(j)
      BY <2>7, <3>5 DEF k
    <3> QED
      BY <2>1, <3>6 DEF T
  <2> QED
    BY <2>6, <2>7
<1>13. Right(Len(path))
  BY <1>1, <1>12
<1>14. CASE Len(b) = 0
  <2>1. NormalizeKey(b) = <<>> /\ Len(path) = Len(a) /\ g[Len(a)] \in Seq(S)
    BY <1>1, <1>6, <1>9, <1>10, <1>14
  <2>2. g[Len(a)] \o <<>> = g[Len(a)]
    BY <2>1, ConcatEmptySeq
  <2> QED
    BY <1>1, <1>4, <1>5, <1>13, <2>1, <2>2 DEF path
<1>15. CASE Len(b) # 0
  <2>1. ~(Len(path) <= Len(a)) /\ Len(path) - Len(a) = Len(b)
    BY <1>1, <1>15
  <2> QED
    BY <1>4, <1>5, <1>6, <1>13, <2>1 DEF path
<1> QED
  BY <1>14, <1>15

\* The segments considered are closed.
LEMMA SegmentsAreClosed == Closed(Segments)
<1> SUFFICES ASSUME NEW s \in Segments PROVE Kept(s) \in Seq(Segments)
  BY DEF Closed
<1>1. CASE s \in {Empty, Dot}
  BY <1>1 DEF Kept
<1>2. CASE s \notin {Empty, Dot} /\ s \in DOMAIN Pieces
  <2>1. Pieces[s] \in Seq(Range(Pieces[s]))
    BY <1>2, PiecesAssumption
  <2>3. ASSUME NEW x \in Range(Pieces[s]) PROVE x \in Segments
    <3>1. x \in UNION {Range(Pieces[r]) : r \in DOMAIN Pieces}
      BY <1>2
    <3> QED
      BY <3>1, Zenon DEF Segments
  <2>2. Pieces[s] \in Seq(Segments)
    BY <2>1, <2>3
  <2> QED
    BY <1>2, <2>2 DEF Kept
<1>3. CASE s \notin {Empty, Dot} \cup DOMAIN Pieces
  BY <1>3 DEF Kept
<1> QED
  BY <1>1, <1>2, <1>3

\* What normalising leaves alone is plain and clean.
LEMMA NormalIsPlain ==
    ASSUME NEW path \in Seq(Segments), NormalizeKey(path) = path
    PROVE  Plain(path) /\ Clean(path)
<1>1. CASE path = <<>>
  BY <1>1 DEF Plain, Clean
<1>2. CASE path # <<>>
  BY <1>2, SegmentsAreClosed, NormalizingIsIdempotent DEF Rejected
<1> QED
  BY <1>1, <1>2

(***************************************************************************)
(* Pages and batches.                                                      *)
(***************************************************************************)

\* A finite set of places is enumerated by rank: each rank is that of one of its
\* members, and each member has one.  So a page lists each of its files.
LEMMA Enumeration ==
    ASSUME NEW n \in Nat, NEW S \in SUBSET (1 .. n)
    PROVE  LET At(m) == CHOOSE i \in S : Cardinality({j \in S : j <= i}) = m
           IN  /\ Cardinality(S) \in Nat
               /\ \A m \in 1 .. Cardinality(S) :
                     At(m) \in S /\ Cardinality({j \in S : j <= At(m)}) = m
               /\ \A i \in S : \E m \in 1 .. Cardinality(S) : At(m) = i
<1> DEFINE Below(i) == {j \in S : j <= i}
           rank == [i \in S |-> Cardinality(Below(i))]
           size == Cardinality(S)
           At(m) == CHOOSE i \in S : Cardinality(Below(i)) = m
<1>1. IsFiniteSet(S) /\ size \in Nat
  <2>1. IsFiniteSet(1 .. n)
    BY FS_Interval
  <2>2. IsFiniteSet(S)
    BY <2>1, FS_Subset
  <2> QED
    BY <2>2, FS_CardinalityType
<1>2. ASSUME NEW i \in S
      PROVE  IsFiniteSet(Below(i)) /\ Cardinality(Below(i)) \in 1 .. size
  <2>1. IsFiniteSet(Below(i)) /\ Cardinality(Below(i)) <= size
    BY <1>1, FS_Subset
  <2>2. Cardinality(Below(i)) \in Nat
    BY <2>1, FS_CardinalityType
  <2>3. i \in Below(i)
    OBVIOUS
  <2>4. Cardinality(Below(i)) # 0
    BY <2>1, <2>3, FS_EmptySet
  <2> QED
    BY <1>1, <2>1, <2>2, <2>4
<1>3. ASSUME NEW i \in S, NEW k \in S, i < k
      PROVE  Cardinality(Below(i)) # Cardinality(Below(k))
  <2>0. S \in SUBSET Nat
    OBVIOUS
  <2>1. Below(i) \in SUBSET Below(k) /\ k \in Below(k) /\ k \notin Below(i)
    <3>1. k \in Below(k) /\ k \notin Below(i)
      BY <1>3, <2>0
    <3>2. ASSUME NEW j \in S, j <= i PROVE j <= k
      <4>1. j \in Nat /\ i \in Nat /\ k \in Nat
        BY <2>0
      <4> QED
        BY <1>3, <3>2, <4>1
    <3> QED
      BY <3>1, <3>2
  <2>2. IsFiniteSet(Below(k))
    BY <1>2
  <2>3. ASSUME NEW T, IsFiniteSet(T), NEW U \in SUBSET T, Cardinality(T) = Cardinality(U)
        PROVE  T = U
    BY <2>3, FS_Subset
  <2> HIDE DEF Below
  <2> QED
    BY <2>1, <2>2, <2>3
<1>4. rank \in [S -> 1 .. size]
  BY <1>2
<1>5. \A i, k \in S : rank[i] = rank[k] => i = k
  BY <1>3
<1> HIDE DEF rank
<1>6. rank \in Injection(S, 1 .. size)
  BY <1>4, <1>5 DEF Injection, IsInjective
<1>7. IsFiniteSet(1 .. size) /\ Cardinality(1 .. size) = size
  BY <1>1, FS_Interval
<1>8. rank \in Surjection(S, 1 .. size)
  BY <1>6, <1>7, FS_Injection
<1>9. \A m \in 1 .. size : \E i \in S : rank[i] = m
  BY <1>8 DEF Surjection
<1>10. \A i \in S : rank[i] = Cardinality(Below(i))
  BY DEF rank
<1> HIDE DEF size, Below
<1>11. ASSUME NEW m \in 1 .. size
       PROVE  At(m) \in S /\ Cardinality(Below(At(m))) = m
  BY <1>9, <1>10
<1>12. ASSUME NEW i \in S
       PROVE  \E m \in 1 .. size : At(m) = i
  <2>1. rank[i] \in 1 .. size
    BY <1>4
  <2>2. At(rank[i]) \in S /\ rank[At(rank[i])] = rank[i]
    BY <1>10, <1>11, <2>1
  <2> QED
    BY <1>5, <2>1, <2>2
<1> QED
  BY <1>1, <1>11, <1>12 DEF size, Below

\* The place where Oracle says the next page starts.
LEMMA LeastIsFirst ==
    ASSUME NEW n \in Nat, NEW S \in SUBSET (1 .. n), S # {}
    PROVE  Least(S) \in S /\ \A j \in S : Least(S) <= j
<1> DEFINE At(m) == CHOOSE i \in S : Cardinality({j \in S : j <= i}) = m
           first == At(1)
<1>1. 1 \in 1 .. Cardinality(S)
  <2>1. Cardinality(S) \in Nat /\ \A i \in S : \E m \in 1 .. Cardinality(S) : At(m) = i
    BY Enumeration
  <2>2. PICK m \in 1 .. Cardinality(S) : TRUE
    BY <2>1
  <2> QED
    BY <2>1, <2>2
<1>2. first \in S /\ Cardinality({j \in S : j <= first}) = 1
  BY <1>1, Enumeration
<1> HIDE DEF first
<1>3. ASSUME NEW j \in S
      PROVE  first <= j
  <2>1. SUFFICES ASSUME j <= first PROVE j = first
    BY <1>2
  <2>2. IsFiniteSet(1 .. n)
    BY FS_Interval
  <2>3. IsFiniteSet({k \in S : k <= first})
    <3>1. {k \in S : k <= first} \in SUBSET (1 .. n)
      OBVIOUS
    <3> QED
      BY <2>2, <3>1, FS_Subset
  <2>4. PICK x : {k \in S : k <= first} = {x}
    BY <1>2, <2>3, FS_Singleton
  <2>5. first <= first
    BY <1>2
  <2> QED
    BY <1>2, <2>1, <2>4, <2>5
<1> QED
  BY <1>2, <1>3 DEF Least

\* What a page adds to the list: names of keys that remained, and all of those
\* up to its last place, but what is missed.
LEMMA PageLists ==
    ASSUME TypeOK, NEW files \in SUBSET Remaining, NEW last, NEW next, Page(files, last, next)
    PROVE  /\ listed' \in Seq(Keys) /\ Len(listed) <= Len(listed') /\ cursor' = next
           /\ \A n \in DOMAIN listed : listed'[n] = listed[n]
           /\ \A n \in DOMAIN listed' \ DOMAIN listed :
                 \E i \in Remaining : listed'[n] = Order[i]
           /\ \A i \in Remaining : i <= last =>
                 Order[i] \in missed' \/ \E n \in DOMAIN listed' : listed'[n] = Order[i]
           /\ missed \subseteq missed' /\ missed' \in SUBSET Keys
           /\ files = Remaining => missed' = missed
<1> DEFINE page == {i \in files : i <= last}
           size == Cardinality(page)
           At(m) == CHOOSE i \in page : Cardinality({j \in page : j <= i}) = m
           names == [m \in 1 .. size |-> Order[At(m)]]
<1>1. Len(Order) \in Nat /\ Places = 1 .. Len(Order) /\ \A i \in Places : Order[i] \in Keys
  BY OrderAssumption DEF Places
<1>2. page \in SUBSET (1 .. Len(Order))
  BY <1>1 DEF Remaining
<1>3. /\ size \in Nat
      /\ \A m \in 1 .. size : At(m) \in page
      /\ \A i \in page : \E m \in 1 .. size : At(m) = i
  <2> HIDE DEF page
  <2> QED
    BY <1>1, <1>2, Enumeration
<1>4. listed' = listed \o names /\ cursor' = next
  BY DEF Page
<1>0. missed' = missed \cup {Order[i] : i \in {j \in Remaining \ files : j <= last}}
  BY DEF Page
<1> HIDE DEF At, size
<1>5. \A m \in 1 .. size : At(m) \in Remaining /\ At(m) \in Places
  BY <1>3 DEF Remaining
<1>6. names \in Seq(Keys) /\ Len(names) = size /\ \A m \in 1 .. size : names[m] = Order[At(m)]
  BY <1>1, <1>3, <1>5
<1>7. listed \in Seq(Keys) /\ Len(listed) \in Nat /\ DOMAIN listed = 1 .. Len(listed)
  BY DEF TypeOK
<1> HIDE DEF names, page
<1>8. /\ listed' \in Seq(Keys) /\ Len(listed') = Len(listed) + size
      /\ \A n \in 1 .. Len(listed) + size :
            listed'[n] = IF n <= Len(listed) THEN listed[n] ELSE names[n - Len(listed)]
  BY <1>4, <1>6, <1>7, ConcatProperties
<1>9. DOMAIN listed' = 1 .. Len(listed) + size
  BY <1>8
<1>10. \A n \in DOMAIN listed : listed'[n] = listed[n]
  BY <1>3, <1>7, <1>8
<1>11. ASSUME NEW n \in DOMAIN listed' \ DOMAIN listed
       PROVE  \E i \in Remaining : listed'[n] = Order[i]
  <2>1. n - Len(listed) \in 1 .. size /\ listed'[n] = names[n - Len(listed)]
    BY <1>3, <1>7, <1>8, <1>9
  <2> QED
    BY <1>5, <1>6, <2>1
<1>12. ASSUME NEW i \in files, i <= last
       PROVE  \E n \in DOMAIN listed' : listed'[n] = Order[i]
  <2>1. i \in page
    BY <1>12 DEF page
  <2>2. PICK m \in 1 .. size : At(m) = i
    BY <1>3, <2>1
  <2>3. Len(listed) + m \in DOMAIN listed' /\ listed'[Len(listed) + m] = names[m]
    <3>1. m \in Nat /\ 1 <= m /\ m <= size
      BY <1>3
    <3>2. /\ Len(listed) + m \in 1 .. Len(listed) + size
          /\ ~(Len(listed) + m <= Len(listed)) /\ (Len(listed) + m) - Len(listed) = m
      BY <1>3, <1>7, <3>1
    <3> QED
      BY <1>8, <1>9, <3>2
  <2> QED
    BY <1>6, <2>2, <2>3
<1>13. \A i \in Remaining : i <= last =>
          Order[i] \in missed' \/ \E n \in DOMAIN listed' : listed'[n] = Order[i]
  BY <1>0, <1>12
<1>14. missed \subseteq missed' /\ missed' \in SUBSET Keys /\ (files = Remaining => missed' = missed)
  BY <1>0, <1>1 DEF TypeOK, Remaining
<1> QED
  BY <1>3, <1>4, <1>7, <1>8, <1>10, <1>11, <1>13, <1>14

\* A batch is an interval of positions, and what is begun then ends with it.
LEMMA BatchIsNext ==
    ASSUME TypeOK
    PROVE  LET upTo == begun + Cardinality(NextBatch)
           IN  /\ upTo \in begun .. Len(listed)
               /\ NextBatch = begun + 1 .. upTo
               /\ NextBatch = {} => begun = Len(listed)
<1> DEFINE upTo == IF begun + BatchSize < Len(listed) THEN begun + BatchSize ELSE Len(listed)
<1>0. listed \in Seq(Keys)
  BY DEF TypeOK
<1>1. /\ begun \in Nat /\ Len(listed) \in Nat /\ begun <= Len(listed)
      /\ BatchSize \in Nat /\ BatchSize > 0
  BY <1>0, SizesAssumption DEF TypeOK
<1>2. upTo \in Int /\ begun <= upTo /\ upTo <= Len(listed)
  BY <1>1
<1>3. begun < upTo \/ upTo = Len(listed)
  <2>1. CASE begun + BatchSize < Len(listed)
    <3>1. upTo = begun + BatchSize
      BY <2>1
    <3>2. begun < begun + BatchSize
      BY <1>1
    <3> QED
      BY <3>1, <3>2
  <2>2. CASE ~(begun + BatchSize < Len(listed))
    BY <2>2
  <2> QED
    BY <2>1, <2>2
<1>4. NextBatch = begun + 1 .. upTo
  BY <1>0, <1>1 DEF NextBatch
<1> HIDE DEF upTo
<1>5. Cardinality(begun + 1 .. upTo) = upTo - begun
  <2>1. begun + 1 \in Int
    BY <1>1
  <2>2. Cardinality(begun + 1 .. upTo) = IF begun + 1 > upTo THEN 0 ELSE upTo - (begun + 1) + 1
    BY <1>2, <2>1, FS_Interval
  <2> QED
    BY <1>1, <1>2, <2>2
<1>6. begun + Cardinality(NextBatch) = upTo
  BY <1>1, <1>2, <1>4, <1>5
<1>7. NextBatch = {} => ~(begun < upTo)
  BY <1>1, <1>2, <1>4
<1>8. upTo \in begun .. Len(listed)
  BY <1>1, <1>2
<1>9. ASSUME ~(begun < upTo) PROVE begun = Len(listed)
  <2>1. Len(listed) <= begun
    BY <1>1, <1>2, <1>3, <1>9
  <2> QED
    BY <1>1, <2>1
<1> QED
  BY <1>4, <1>6, <1>7, <1>8, <1>9

(***************************************************************************)
(* The inductive invariant.                                                *)
(***************************************************************************)

\* Every position that was begun has a verdict or is waiting for it, and only
\* what can be addressed is waiting.
Progress ==
    /\ stage \in {"begin", "listing"} => begun = 0
    /\ stage \in {"begin", "listing", "batches", "resolved"} => waiting = {}
    /\ \A i \in 1 .. begun : verdict[i] = "open" <=> i \in waiting
    /\ \A i \in waiting : ~Unaddressable(i)
    /\ stage = "begin" => listed = <<>> /\ cursor = 0
    /\ stage = "resolved" => begun = Len(listed)

ListedAreUnder == \A n \in DOMAIN listed : Under(listed[n])

\* The places that the pages so far have covered: of oracle, those before the
\* start of the next page; once the listing is over, all.
Passed(i) ==
    stage \in {"begin", "listing"} => IF driver = "oracle" THEN i < cursor ELSE i <= cursor

\* No file that stays is lost between two pages.
SteadyAreListed ==
    stage # "rejected" =>
        \A i \in Places :
            Order[i] \in steady /\ Under(Order[i]) /\ Passed(i) =>
                Order[i] \in missed \/ \E n \in DOMAIN listed : listed[n] = Order[i]

SteadyAreNotGone ==
    /\ steady \cap gone = {}
    /\ stage \in {"begin", "listing"} => gone = {}

IInv ==
    /\ TypeOK /\ Progress
    /\ ListedAreUnder /\ SteadyAreListed /\ SteadyAreNotGone
    /\ OnlyNamesReject

(***************************************************************************)
(* Parts of the actions.                                                   *)
(***************************************************************************)

\* The history goes on: what is steady still is there, what is gone is not steady.
LEMMA Observing ==
    ASSUME IInv, store' \in SUBSET Keys, Observe
    PROVE  /\ steady' \in SUBSET store' /\ steady' \subseteq steady
           /\ gone' \in SUBSET Keys /\ SteadyAreNotGone'
           /\ stage' \notin {"begin", "listing"}
                => gone \subseteq gone' /\ Keys \ store' \subseteq gone'
BY DEF IInv, TypeOK, SteadyAreNotGone, Observe

\* The names of a call do not change while its list does not.
LEMMA NamesStay ==
    ASSUME UNCHANGED <<call, listed>>
    PROVE  /\ \A k : Under(k)' <=> Under(k)
           /\ \A i : Unaddressable(i)' <=> Unaddressable(i)
           /\ \A i : PathRefused(i)' <=> PathRefused(i)
           /\ \A k : Normal(k)' <=> Normal(k)
           /\ \A k : Address(k)' = Address(k)
BY DEF call, Under, Asked, Unaddressable, PathRefused, Normal, Address, PathOf, Home

\* A step that takes, judges or ends a batch keeps all that is not about it.
LEMMA DeletingKeeps ==
    ASSUME IInv, stage \in Deleting, stage' \in Deleting \cup {"resolved"},
           UNCHANGED <<call, cursor, collected>>,
           store' \in SUBSET Keys, changes' \in 0 .. MaxChanges, Observe,
           begun' \in 0 .. Len(listed), waiting' \in SUBSET (1 .. begun'),
           verdict' \in [1 .. begun' -> {"open", "deleted", "failed"}],
           Progress'
    PROVE  IInv'
<1> USE DEF collected
<1>1. TypeOK'
  BY Observing DEF IInv, TypeOK, Stages, Deleting, Ended, call
<1>2. ListedAreUnder'
  BY NamesStay DEF IInv, ListedAreUnder
<1>3. SteadyAreListed'
  BY NamesStay, Observing DEF IInv, SteadyAreListed, Passed, Deleting
<1>4. SteadyAreNotGone'
  BY Observing
<1>5. OnlyNamesReject'
  BY DEF OnlyNamesReject, Deleting
<1> QED
  BY <1>1, <1>2, <1>3, <1>4, <1>5 DEF IInv

\* A verdict on positions that wait: they wait no longer.
LEMMA Judging ==
    ASSUME IInv, stage \in {"asking", "each"},
           NEW d \in SUBSET waiting, NEW f \in SUBSET waiting, Judge(d, f),
           UNCHANGED <<call, cursor, collected, begun, changes>>,
           store' \in SUBSET Keys, Observe
    PROVE  /\ IInv'
           /\ \A i \in DOMAIN verdict' : verdict'[i] = "deleted" => i \in d \/ verdict[i] = "deleted"
<1> USE DEF IInv, TypeOK, collected
<1>1. /\ begun' \in 0 .. Len(listed) /\ DOMAIN verdict = 1 .. begun
      /\ waiting' = waiting \ (d \cup f) /\ waiting' \in SUBSET (1 .. begun')
      /\ stage' \in {"batches", stage} /\ (stage' = "batches" => waiting' = {})
  BY DEF Judge
<1>2. /\ verdict' = [i \in 1 .. begun |-> IF i \in d THEN "deleted"
                                         ELSE IF i \in f THEN "failed" ELSE verdict[i]]
      /\ verdict' \in [1 .. begun' -> {"open", "deleted", "failed"}]
  BY <1>1 DEF Judge
<1>3. \A i \in 1 .. begun' : verdict'[i] = "open" <=> i \in waiting'
  BY <1>1, <1>2 DEF Progress
<1>4. \A i \in waiting' : ~Unaddressable(i)'
  BY <1>1, NamesStay DEF Progress
<1>5. Progress'
  BY <1>1, <1>3, <1>4 DEF Progress
<1>6. IInv'
  <2> HIDE DEF IInv, TypeOK, collected
  <2>1. stage \in Deleting /\ stage' \in Deleting /\ changes' \in 0 .. MaxChanges
    BY <1>1 DEF Deleting, IInv, TypeOK
  <2> QED
    BY <1>1, <1>2, <1>5, <2>1, DeletingKeeps
<1> QED
  BY <1>2, <1>6

(***************************************************************************)
(* The actions keep the invariant.                                         *)
(***************************************************************************)

\* Nothing has been collected when the listing begins.
LEMMA BeginKeeps ==
    ASSUME IInv, Begin
    PROVE  IInv'
<1>1. /\ stage = "begin" /\ stage' \in {"rejected", "listing"}
      /\ UNCHANGED <<call, store, cursor, report, changes>> /\ Observe
      /\ store' \in SUBSET Keys
  BY DEF Begin, IInv, TypeOK
<1>2. listed = <<>> /\ cursor = 0 /\ begun = 0 /\ waiting = {}
  BY <1>1 DEF IInv, Progress
<1>3. TypeOK'
  BY <1>1, Observing DEF IInv, TypeOK, Stages, Ended, call, report, collected
<1>4. Progress'
  BY <1>1, <1>2 DEF Progress, report, collected
<1>5. ListedAreUnder'
  BY <1>1, NamesStay DEF IInv, ListedAreUnder, report, collected
<1>6. SteadyAreListed'
  BY <1>1, NamesStay, Observing DEF IInv, SteadyAreListed, Passed, report, collected, call
<1>7. SteadyAreNotGone' /\ OnlyNamesReject'
  BY <1>1, <1>2, Observing DEF OnlyNamesReject, report, collected
<1> QED
  BY <1>3, <1>4, <1>5, <1>6, <1>7 DEF IInv

\* A page keeps it if the cursor it returns passes no file that it neither lists
\* nor has missed.
LEMMA PageKeeps ==
    ASSUME IInv, stage = "listing", NEW files \in SUBSET Remaining,
           NEW last \in Nat, NEW next \in 0 .. Len(Order), Page(files, last, next),
           driver = "local" \/ files = Remaining,
           next = 0 => \A i \in Remaining : i <= last,
           next # 0 /\ driver = "oracle" => \A i \in Remaining : i < next => i <= last,
           next # 0 /\ driver # "oracle" => next = last,
           UNCHANGED <<call, store, begun, waiting, verdict, changes>>, Observe
    PROVE  IInv'
<1>1. /\ listed' \in Seq(Keys) /\ Len(listed) <= Len(listed') /\ cursor' = next
      /\ \A n \in DOMAIN listed : listed'[n] = listed[n]
      /\ \A n \in DOMAIN listed' \ DOMAIN listed : \E i \in Remaining : listed'[n] = Order[i]
      /\ \A i \in Remaining : i <= last =>
            Order[i] \in missed' \/ \E n \in DOMAIN listed' : listed'[n] = Order[i]
      /\ missed \subseteq missed' /\ missed' \in SUBSET Keys
      /\ files = Remaining => missed' = missed
  BY PageLists DEF IInv
<1>2. stage' = (IF next = 0 THEN "batches" ELSE "listing") /\ store' \in SUBSET Keys
  BY DEF Page, IInv, TypeOK
<1>3. begun = 0 /\ waiting = {} /\ begun' = 0 /\ waiting' = {}
  BY DEF IInv, Progress
<1>4. \A k : Under(k)' <=> Under(k)
  BY DEF call, Under, Asked, Home
<1>5. TypeOK'
  <2>1. Len(listed') \in Nat
    BY <1>1
  <2> QED
    BY <1>1, <1>2, <1>3, <2>1, Observing DEF IInv, TypeOK, Stages, Deleting, call
<1>6. Progress'
  BY <1>2, <1>3 DEF Progress
<1>7. ListedAreUnder'
  <2> SUFFICES ASSUME NEW n \in DOMAIN listed' PROVE Under(listed'[n])
    BY <1>4 DEF ListedAreUnder
  <2>1. CASE n \in DOMAIN listed
    BY <1>1, <2>1 DEF IInv, ListedAreUnder
  <2>2. CASE n \notin DOMAIN listed
    BY <1>1, <2>2 DEF Remaining
  <2> QED
    BY <2>1, <2>2
<1>8. SteadyAreListed'
  <2> SUFFICES ASSUME NEW i \in Places, Order[i] \in steady, Under(Order[i]), Passed(i)'
               PROVE  Order[i] \in missed' \/ \E n \in DOMAIN listed' : listed'[n] = Order[i]
    BY <1>2, <1>4, Observing DEF SteadyAreListed
  <2>1. CASE Passed(i)
    <3>1. Order[i] \in missed \/ \E n \in DOMAIN listed : listed[n] = Order[i]
      BY <2>1 DEF IInv, SteadyAreListed
    <3>2. DOMAIN listed \subseteq DOMAIN listed'
      <4>1. listed \in Seq(Keys)
        BY DEF IInv, TypeOK
      <4> QED
        BY <1>1, <4>1
    <3> QED
      BY <1>1, <3>1, <3>2
  <2>2. CASE ~Passed(i)
    <3>1. i \in Nat /\ cursor \in Nat
      BY OrderAssumption DEF Places, IInv, TypeOK
    <3>2. i \in Remaining
      BY <2>2, <3>1 DEF Passed, Remaining, IInv, TypeOK
    <3>3. i <= last
      BY <1>1, <1>2, <3>1, <3>2 DEF Passed, call
    <3> QED
      BY <1>1, <3>2, <3>3
  <2> QED
    BY <2>1, <2>2
<1>9. SteadyAreNotGone' /\ OnlyNamesReject'
  BY <1>2, Observing DEF OnlyNamesReject
<1> QED
  BY <1>5, <1>6, <1>7, <1>8, <1>9 DEF IInv

\* The pages of every driver are such.
LEMMA ListKeeps ==
    ASSUME IInv, List
    PROVE  IInv'
<1>1. /\ stage = "listing"
      /\ UNCHANGED <<call, store, begun, waiting, verdict, changes>> /\ Observe
  BY DEF List
<1>2. Len(Order) \in Nat /\ Places = 1 .. Len(Order) /\ Remaining \in SUBSET (1 .. Len(Order))
  BY OrderAssumption DEF Places, Remaining
<1>3. CASE CountedPage /\ driver # "oracle"
  <2>1. PICK last \in Places :
           Page(Remaining, last, IF \E i \in Remaining : i > last THEN last ELSE 0)
    BY <1>3 DEF CountedPage
  <2>2. last \in 1 .. Len(Order) /\ last \in Nat
    BY <1>2, <2>1
  <2>3. CASE \E i \in Remaining : i > last
    <3>1. Page(Remaining, last, last) /\ last # 0 /\ last \in 0 .. Len(Order)
      BY <1>2, <2>1, <2>2, <2>3
    <3> QED
      BY <1>1, <1>3, <2>2, <3>1, PageKeeps
  <2>4. CASE ~\E i \in Remaining : i > last
    <3>1. /\ Page(Remaining, last, 0) /\ 0 \in 0 .. Len(Order)
          /\ \A i \in Remaining : i <= last
      BY <1>2, <2>1, <2>2, <2>4
    <3> QED
      BY <1>1, <2>2, <3>1, PageKeeps
  <2> QED
    BY <2>3, <2>4
<1>4. ASSUME NEW files \in SUBSET Remaining, TokenPage(files),
             driver # "oracle", driver = "local" \/ files = Remaining
      PROVE  IInv'
  <2>1. PICK last \in cursor + 1 .. Len(Order) :
           Page(files, last, IF last < Len(Order) THEN last ELSE 0)
    BY <1>4 DEF TokenPage
  <2>2. last \in 1 .. Len(Order) /\ last \in Nat
    BY <1>2, <2>1 DEF IInv, TypeOK
  <2>3. CASE last < Len(Order)
    <3>1. Page(files, last, last) /\ last # 0 /\ last \in 0 .. Len(Order)
      BY <1>2, <2>1, <2>2, <2>3
    <3> QED
      BY <1>1, <1>4, <2>2, <3>1, PageKeeps
  <2>4. CASE ~(last < Len(Order))
    <3>1. Page(files, last, 0) /\ 0 \in 0 .. Len(Order) /\ \A i \in Remaining : i <= last
      BY <1>2, <2>1, <2>2, <2>4
    <3> QED
      BY <1>1, <1>4, <2>2, <3>1, PageKeeps
  <2> QED
    BY <2>3, <2>4
<1>6. CASE LocalList
  <2>1. CASE Page({}, Len(Order), 0)
    <3>1. 0 \in 0 .. Len(Order) /\ \A i \in Remaining : i <= Len(Order)
      BY <1>2
    <3> QED
      BY <1>1, <1>2, <1>6, <2>1, <3>1, PageKeeps DEF LocalList
  <2>2. CASE \E files \in Readable : TokenPage(files)
    <3>1. \A files \in Readable : files \in SUBSET Remaining
      BY DEF Readable
    <3> QED
      BY <1>4, <1>6, <2>2, <3>1 DEF LocalList
  <2> QED
    BY <1>6, <2>1, <2>2 DEF LocalList
<1>5. CASE OracleList
  <2>1. PICK last \in Places :
           LET left == {i \in Remaining : i > last} IN
           Page(Remaining, last, IF left = {} THEN 0 ELSE Least(left))
    BY <1>5 DEF OracleList
  <2> DEFINE left == {i \in Remaining : i > last}
  <2>2. last \in 1 .. Len(Order) /\ last \in Nat /\ driver = "oracle"
    BY <1>2, <1>5, <2>1 DEF OracleList
  <2>3. left \in SUBSET (1 .. Len(Order))
    BY <1>2
  <2>4. CASE left = {}
    <3>1. Page(Remaining, last, 0) /\ 0 \in 0 .. Len(Order) /\ \A i \in Remaining : i <= last
      BY <1>2, <2>1, <2>2, <2>4
    <3> QED
      BY <1>1, <2>2, <3>1, PageKeeps
  <2>5. CASE left # {}
    <3>1. Page(Remaining, last, Least(left))
      BY <2>1, <2>5
    <3>2. Least(left) \in left /\ \A i \in left : Least(left) <= i
      <4> HIDE DEF left
      <4> QED
        BY <1>2, <2>5, <2>3, LeastIsFirst
    <3>3. Least(left) \in 0 .. Len(Order) /\ Least(left) # 0
      BY <1>2, <2>3, <3>2
    <3>4. \A i \in Remaining : i < Least(left) => i <= last
      BY <1>2, <2>2, <3>2, <3>3
    <3> HIDE DEF left
    <3> QED
      BY <1>1, <2>2, <3>1, <3>3, <3>4, PageKeeps
  <2> QED
    BY <2>4, <2>5
<1> QED
  BY <1>3, <1>4, <1>5, <1>6 DEF List, S3List, MinioList, AzureList, GcsList

\* A listing that fails has deleted nothing.
LEMMA ListFailsKeeps ==
    ASSUME IInv, ListFails
    PROVE  IInv'
<1>1. /\ stage = "listing" /\ stage' = "rejected"
      /\ UNCHANGED <<call, store, cursor, report, changes>> /\ Observe
      /\ store' \in SUBSET Keys
  BY DEF ListFails, IInv, TypeOK
<1>2. begun = 0 /\ waiting = {}
  BY <1>1 DEF IInv, Progress
<1>3. TypeOK'
  BY <1>1, Observing DEF IInv, TypeOK, Stages, Ended, call, report, collected
<1>4. Progress'
  BY <1>1, <1>2 DEF Progress, report, collected
<1>5. ListedAreUnder'
  BY <1>1, NamesStay DEF IInv, ListedAreUnder, report, collected
<1>6. SteadyAreListed'
  BY <1>1 DEF SteadyAreListed
<1>7. SteadyAreNotGone' /\ OnlyNamesReject'
  BY <1>1, <1>2, Observing DEF OnlyNamesReject, report, collected
<1> QED
  BY <1>3, <1>4, <1>5, <1>6, <1>7 DEF IInv

\* A batch in the driver's hands: what cannot be addressed has failed, the rest waits.
LEMMA TakingKeeps ==
    ASSUME IInv, stage = "batches", NEW s \in {"asking", "each"}, TakeBatch(s),
           UNCHANGED <<call, store, cursor, collected, changes>>, Observe
    PROVE  IInv'
<1> USE DEF collected
<1> DEFINE upTo == begun + Cardinality(NextBatch)
<1>1. upTo \in begun .. Len(listed) /\ NextBatch = begun + 1 .. upTo
  BY BatchIsNext DEF IInv
<1>2. /\ stage' = s /\ begun' = upTo /\ waiting' = {i \in NextBatch : ~Unaddressable(i)}
      /\ verdict' = [i \in 1 .. upTo |-> IF i <= begun THEN verdict[i]
                                        ELSE IF Unaddressable(i) THEN "failed" ELSE "open"]
  BY DEF TakeBatch
<1>3. /\ begun \in 0 .. Len(listed) /\ Len(listed) \in Nat /\ waiting = {}
      /\ verdict \in [1 .. begun -> {"open", "deleted", "failed"}]
  BY DEF IInv, TypeOK, Progress
<1> HIDE DEF upTo
<1>4. begun' \in 0 .. Len(listed) /\ waiting' \in SUBSET (1 .. begun')
  BY <1>1, <1>2, <1>3
<1>5. verdict' \in [1 .. begun' -> {"open", "deleted", "failed"}]
  BY <1>1, <1>2, <1>3
<1>6. Progress'
  <2>1. stage' \notin {"begin", "listing", "batches", "resolved"}
    BY <1>2
  <2>2. ASSUME NEW i \in 1 .. begun'
        PROVE  verdict'[i] = "open" <=> i \in waiting'
    <3>1. CASE i <= begun
      <4>1. i \in 1 .. begun /\ i \notin NextBatch
        BY <1>1, <1>2, <1>3, <3>1
      <4>2. verdict[i] # "open"
        BY <1>3, <4>1 DEF IInv, Progress
      <4> QED
        BY <1>2, <3>1, <4>1, <4>2
    <3>2. CASE ~(i <= begun)
      <4>1. i \in NextBatch
        BY <1>1, <1>2, <1>3, <3>2
      <4> QED
        BY <1>2, <3>2, <4>1
    <3> QED
      BY <3>1, <3>2
  <2>3. \A i \in waiting' : ~Unaddressable(i)'
    BY <1>2, NamesStay
  <2> QED
    BY <2>1, <2>2, <2>3 DEF Progress
<1>7. /\ stage \in Deleting /\ stage' \in Deleting
      /\ store' \in SUBSET Keys /\ changes' \in 0 .. MaxChanges
  BY <1>2 DEF Deleting, IInv, TypeOK
<1> QED
  BY <1>4, <1>5, <1>6, <1>7, DeletingKeeps

\* A name that cannot be addressed rejects the call, batches before it or not.
LEMMA RejectingKeeps ==
    ASSUME IInv, stage = "batches", stage' = "rejected",
           \E i \in NextBatch : PathRefused(i),
           UNCHANGED <<call, store, cursor, report, changes>>, Observe
    PROVE  IInv'
<1>1. TypeOK'
  BY Observing DEF IInv, TypeOK, Stages, Ended, call, report, collected
<1>2. Progress'
  BY NamesStay DEF IInv, Progress, report, collected
<1>3. ListedAreUnder'
  BY NamesStay DEF IInv, ListedAreUnder, report, collected
<1>4. SteadyAreListed'
  BY DEF SteadyAreListed
<1>5. SteadyAreNotGone'
  BY Observing DEF IInv, TypeOK
<1>6. OnlyNamesReject'
  BY NamesStay DEF OnlyNamesReject, NextBatch, report, collected
<1> QED
  BY <1>1, <1>2, <1>3, <1>4, <1>5, <1>6 DEF IInv

\* A batch either rejects the call or is in the driver's hands.
LEMMA StartBatchKeeps ==
    ASSUME IInv, StartBatch
    PROVE  IInv'
<1>1. /\ stage = "batches" /\ ViewDeleteMany
      /\ UNCHANGED <<call, store, cursor, collected, changes>> /\ Observe
  BY DEF StartBatch
<1>2. \/ stage' = "rejected" /\ UNCHANGED <<begun, waiting, verdict>>
         /\ \E i \in NextBatch : PathRefused(i)
      \/ \E s \in {"asking", "each"} : TakeBatch(s)
  BY <1>1
     DEF ViewDeleteMany, DriverDeleteMany, NormalizeFirst, S3DeleteMany, MinioDeleteMany,
         GcsDeleteMany, AzureDeleteMany, OracleDeleteMany, LocalDeleteMany
<1> QED
  BY <1>1, <1>2, TakingKeeps, RejectingKeeps DEF report, collected

\* deletePrefix() is at an end when no path is left.
LEMMA FinishKeeps ==
    ASSUME IInv, Finish
    PROVE  IInv'
<1>1. /\ stage = "batches" /\ stage' = "resolved" /\ begun = Len(listed) /\ waiting = {}
      /\ UNCHANGED <<call, store, cursor, report, changes>> /\ Observe
  BY BatchIsNext DEF Finish, IInv, Progress
<1>2. Progress'
  BY <1>1 DEF IInv, Progress, report, collected
<1> QED
  BY <1>1, <1>2, DeletingKeeps DEF IInv, TypeOK, report, collected, Deleting

\* What a request for many names removes was waiting for its verdict.
LEMMA ChunkWaits == Chunk \in SUBSET waiting
BY DEF Chunk

\* One request for many names gives each of them its verdict.
LEMMA ManyAnsweredKeeps ==
    ASSUME IInv, ManyAnswered
    PROVE  IInv'
<1>1. PICK errors \in SUBSET Chunk :
          RemoveKeys(Addresses(Chunk \ errors)) /\ Judge(Chunk \ errors, errors)
  BY DEF ManyAnswered
<1>2. store' \in SUBSET Keys
  BY <1>1 DEF RemoveKeys, IInv, TypeOK
<1> QED
  BY <1>1, <1>2, ChunkWaits, Judging DEF ManyAnswered

\* So does a chunk that fails: the next one is still waiting.
LEMMA S3ChunkFailsKeeps ==
    ASSUME IInv, S3ChunkFails
    PROVE  IInv'
<1>1. PICK some \in SUBSET Chunk : RemoveKeys(Addresses(some)) /\ Judge({}, Chunk)
  BY DEF S3ChunkFails
<1>2. store' \in SUBSET Keys
  BY <1>1 DEF RemoveKeys, IInv, TypeOK
<1> QED
  BY <1>1, <1>2, ChunkWaits, Judging DEF S3ChunkFails

\* The fallback of minio takes every path of the batch over.
LEMMA MinioFallsBackKeeps ==
    ASSUME IInv, MinioFallsBack
    PROVE  IInv'
<1>1. /\ stage = "asking" /\ stage' = "each" /\ store' \in SUBSET Keys
      /\ UNCHANGED <<call, cursor, report, changes>> /\ Observe
  BY DEF MinioFallsBack, RemoveKeys, IInv, TypeOK
<1>2. Progress'
  BY <1>1, NamesStay DEF IInv, Progress, report, collected
<1> QED
  BY <1>1, <1>2, DeletingKeeps DEF IInv, TypeOK, report, collected, Deleting

\* The answer to one delete() is the verdict on one path.
LEMMA DeleteAnsweredKeeps ==
    ASSUME IInv, NEW i \in waiting, DeleteAnswered(i)
    PROVE  IInv'
<1>1. Judge({}, {i}) \/ Judge({i}, {})
  BY DEF DeleteAnswered
<1>2. store' \in SUBSET Keys
  BY DEF DeleteAnswered, RemoveKeys, IInv, TypeOK
<1> QED
  BY <1>1, <1>2, Judging DEF DeleteAnswered

\* So is its failure, whatever it has removed.
LEMMA DeleteFailsKeeps ==
    ASSUME IInv, NEW i \in waiting, DeleteFails(i)
    PROVE  IInv'
<1>1. store' \in SUBSET Keys
  BY DEF DeleteFails, RemoveKeys, IInv, TypeOK
<1> QED
  BY <1>1, Judging DEF DeleteFails

\* A batch without an addressable path is over at once.
LEMMA NothingToAskKeeps ==
    ASSUME IInv, NothingToAsk
    PROVE  IInv'
<1>1. /\ stage = "each" /\ stage' = "batches" /\ waiting = {}
      /\ UNCHANGED <<call, store, cursor, report, changes>> /\ Observe
  BY DEF NothingToAsk
<1>2. Progress'
  BY <1>1, NamesStay DEF IInv, Progress, report, collected
<1> QED
  BY <1>1, <1>2, DeletingKeeps DEF IInv, TypeOK, report, collected, Deleting

\* What others create is not steady, what they delete no longer.
LEMMA OthersKeeps ==
    ASSUME IInv, Others
    PROVE  IInv'
<1>1. /\ stage' = stage /\ stage \notin Ended /\ UNCHANGED <<call, cursor, report>> /\ Observe
      /\ changes' = changes + 1 /\ changes < MaxChanges
  BY DEF Others
<1>2. store' \in SUBSET Keys
  BY DEF Others, IInv, TypeOK
<1>3. changes' \in 0 .. MaxChanges
  BY <1>1, SizesAssumption DEF IInv, TypeOK
<1>4. TypeOK'
  BY <1>1, <1>2, <1>3, Observing DEF IInv, TypeOK, call, report, collected
<1>5. Progress'
  BY <1>1, NamesStay DEF IInv, Progress, report, collected
<1>6. ListedAreUnder'
  BY <1>1, NamesStay DEF IInv, ListedAreUnder, report, collected
<1>7. SteadyAreListed'
  BY <1>1, <1>2, NamesStay, Observing DEF IInv, SteadyAreListed, Passed, report, collected, call
<1>8. SteadyAreNotGone'
  BY <1>1, <1>2, Observing
<1>9. OnlyNamesReject'
  BY <1>1 DEF OnlyNamesReject, Ended
<1> QED
  BY <1>4, <1>5, <1>6, <1>7, <1>8, <1>9 DEF IInv

\* The invariant does not depend on anything else.
LEMMA StutterKeeps ==
    ASSUME IInv, UNCHANGED vars
    PROVE  IInv'
<1>1. TypeOK' /\ Progress'
  BY NamesStay DEF vars, call, report, collected, IInv, TypeOK, Progress
<1>2. ListedAreUnder' /\ SteadyAreListed' /\ SteadyAreNotGone'
  BY NamesStay
     DEF vars, call, report, collected, IInv, ListedAreUnder, SteadyAreListed, SteadyAreNotGone, Passed
<1>3. OnlyNamesReject'
  BY NamesStay DEF vars, report, collected, IInv, OnlyNamesReject
<1> QED
  BY <1>1, <1>2, <1>3 DEF IInv

\* It holds when deletePrefix() is called: nothing is listed and all is steady.
LEMMA InitIInv ==
    ASSUME Init
    PROVE  IInv
<1>1. TypeOK
  BY SizesAssumption, OrderAssumption DEF Init, TypeOK, Stages
<1>2. Progress /\ ListedAreUnder /\ SteadyAreNotGone /\ OnlyNamesReject
  BY DEF Init, Progress, ListedAreUnder, SteadyAreNotGone, OnlyNamesReject
<1>3. SteadyAreListed
  BY OrderAssumption DEF Init, SteadyAreListed, Passed, Places
<1> QED
  BY <1>1, <1>2, <1>3 DEF IInv

\* Every step of the call, and of others, keeps it.
LEMMA NextKeeps ==
    ASSUME IInv, [Next]_vars
    PROVE  IInv'
BY BeginKeeps, ListKeeps, ListFailsKeeps, StartBatchKeeps, FinishKeeps, ManyAnsweredKeeps,
   S3ChunkFailsKeeps, MinioFallsBackKeeps, DeleteAnsweredKeeps, DeleteFailsKeeps,
   NothingToAskKeeps, OthersKeeps, StutterKeeps
   DEF Next, Step

(***************************************************************************)
(* The theorems.                                                           *)
(***************************************************************************)

\* The inductive invariant holds for every driver, every bucket and every size of
\* pages, batches and chunks, whatever fails and whatever others change.
THEOREM PrefixDeletionInductive == Spec => []IInv
<1>1. Init => IInv
  BY InitIInv
<1>2. IInv /\ [Next]_vars => IInv'
  BY NextKeeps
<1> QED
  BY <1>1, <1>2, PTL DEF Spec

\* The types; among them that a position is begun only when it is listed.
THEOREM PrefixDeletionTypeCorrect == Spec => []TypeOK
<1>1. IInv => TypeOK
  BY DEF IInv
<1> QED
  BY <1>1, PrefixDeletionInductive, PTL

\* A result of deletePrefix() accounts for every path that its listing gave.
THEOREM ReportsAddUp == Spec => []ReportAddsUp
<1>1. IInv => ReportAddsUp
  <2> SUFFICES ASSUME IInv, stage = "resolved"
               PROVE  begun = Len(listed) /\ \A i \in DOMAIN listed : verdict[i] # "open"
    BY DEF ReportAddsUp
  <2>1. begun = Len(listed) /\ waiting = {} /\ \A i \in 1 .. begun : verdict[i] # "open"
    BY DEF IInv, Progress
  <2>2. DOMAIN listed = 1 .. Len(listed)
    BY DEF IInv, TypeOK
  <2> QED
    BY <2>1, <2>2
<1> QED
  BY <1>1, PrefixDeletionInductive, PTL

\* Once a batch was begun only a name that cannot be addressed rejects the call.
THEOREM OnlyNamesRejectTheCall == Spec => []OnlyNamesReject
<1>1. IInv => OnlyNamesReject
  BY DEF IInv
<1> QED
  BY <1>1, PrefixDeletionInductive, PTL

(***************************************************************************)
(* What is deleted.                                                        *)
(***************************************************************************)

\* What a step of the call removes was waiting, under the address of its path.
LEMMA StepRemovesWaiting ==
    ASSUME IInv, Step
    PROVE  \A k \in store \ store' : \E i \in waiting : k = Address(listed[i])
<1>1. CASE store' = store
  BY <1>1
<1>2. CASE \E some \in SUBSET waiting : RemoveKeys(Addresses(some))
  BY <1>2 DEF RemoveKeys, Addresses
<1>3. ASSUME ManyAnswered \/ S3ChunkFails \/ MinioFallsBack
      PROVE  \E some \in SUBSET waiting : RemoveKeys(Addresses(some))
  <2>1. \A some \in SUBSET Chunk : some \in SUBSET waiting /\ Chunk \ some \in SUBSET waiting
    BY ChunkWaits
  <2> QED
    BY <1>3, <2>1 DEF ManyAnswered, S3ChunkFails, MinioFallsBack
<1>4. ASSUME NEW i \in waiting, DeleteAnswered(i) \/ DeleteFails(i)
      PROVE  \E some \in SUBSET waiting : RemoveKeys(Addresses(some))
  <2>1. \A some \in SUBSET {i} : some \in SUBSET waiting
    OBVIOUS
  <2> QED
    BY <1>4, <2>1 DEF DeleteAnswered, DeleteFails
<1>5. Begin \/ List \/ ListFails \/ StartBatch \/ Finish \/ NothingToAsk => store' = store
  BY DEF Begin, List, ListFails, StartBatch, Finish, NothingToAsk
<1> QED
  BY <1>1, <1>2, <1>3, <1>4, <1>5 DEF Step

\* What gets the verdict of a deleted file in a step has been removed by it, or
\* was not there.
LEMMA VerdictIsEarned ==
    ASSUME IInv, Step, NEW i \in DOMAIN verdict', verdict'[i] = "deleted"
    PROVE  \/ i \in DOMAIN verdict /\ verdict[i] = "deleted"
           \/ i \in waiting /\ Address(listed[i]) \notin store' /\ stage' \in Deleting
<1> USE DEF IInv, TypeOK
<1>1. DOMAIN verdict = 1 .. begun /\ waiting \in SUBSET (1 .. begun)
  OBVIOUS
<1>2. CASE verdict' = verdict
  BY <1>2
<1>3. ASSUME NEW s, TakeBatch(s)
      PROVE  i \in DOMAIN verdict /\ verdict[i] = "deleted"
  <2>1. begun' = begun + Cardinality(NextBatch) /\ begun' \in begun .. Len(listed)
    BY <1>3, BatchIsNext DEF TakeBatch
  <2>2. DOMAIN verdict' = 1 .. begun'
    BY <1>3 DEF TakeBatch
  <2>3. verdict'[i] = IF i <= begun THEN verdict[i]
                      ELSE IF Unaddressable(i) THEN "failed" ELSE "open"
    BY <1>3, <2>2 DEF TakeBatch
  <2>4. i <= begun
    BY <2>3
  <2> QED
    BY <1>1, <2>1, <2>2, <2>3, <2>4
<1>4. ASSUME stage \in {"asking", "each"},
             NEW d \in SUBSET waiting, NEW f \in SUBSET waiting, Judge(d, f),
             \A j \in d : Address(listed[j]) \notin store'
      PROVE  \/ i \in DOMAIN verdict /\ verdict[i] = "deleted"
             \/ i \in waiting /\ Address(listed[i]) \notin store' /\ stage' \in Deleting
  BY <1>4 DEF Judge, Deleting
<1>5. CASE ManyAnswered
  <2>1. PICK errors \in SUBSET Chunk :
           RemoveKeys(Addresses(Chunk \ errors)) /\ Judge(Chunk \ errors, errors)
    BY <1>5 DEF ManyAnswered
  <2>2. \A j \in Chunk \ errors : Address(listed[j]) \notin store'
    BY <2>1 DEF RemoveKeys, Addresses
  <2> QED
    BY <1>4, <1>5, <2>1, <2>2, ChunkWaits DEF ManyAnswered
<1>6. CASE S3ChunkFails
  BY <1>4, <1>6, ChunkWaits DEF S3ChunkFails
<1>7. ASSUME NEW j \in waiting, DeleteAnswered(j)
      PROVE  \/ i \in DOMAIN verdict /\ verdict[i] = "deleted"
             \/ i \in waiting /\ Address(listed[i]) \notin store' /\ stage' \in Deleting
  <2>1. Address(listed[j]) \notin store'
    BY <1>7 DEF DeleteAnswered, RemoveKeys, Addresses
  <2> QED
    BY <1>4, <1>7, <2>1 DEF DeleteAnswered
<1>8. ASSUME NEW j \in waiting, DeleteFails(j)
      PROVE  \/ i \in DOMAIN verdict /\ verdict[i] = "deleted"
             \/ i \in waiting /\ Address(listed[i]) \notin store' /\ stage' \in Deleting
  BY <1>4, <1>8 DEF DeleteFails
<1>9. CASE StartBatch
  BY <1>2, <1>3, <1>9
     DEF StartBatch, ViewDeleteMany, DriverDeleteMany, NormalizeFirst, S3DeleteMany,
         MinioDeleteMany, GcsDeleteMany, AzureDeleteMany, OracleDeleteMany, LocalDeleteMany
<1>10. Begin \/ List \/ ListFails \/ Finish \/ MinioFallsBack \/ NothingToAsk => verdict' = verdict
  BY DEF Begin, List, ListFails, Finish, MinioFallsBack, NothingToAsk, report, collected
<1> QED
  BY <1>2, <1>5, <1>6, <1>7, <1>8, <1>9, <1>10 DEF Step

(***************************************************************************)
(* Names.                                                                  *)
(***************************************************************************)

\* The sequence goes on after a beginning.
Begins(s, t) == Len(s) < Len(t) /\ \A i \in 1 .. Len(s) : t[i] = s[i]

\* What begins with a sequence is that sequence and the rest.
LEMMA BeginningAndRest ==
    ASSUME NEW S, NEW s \in Seq(S), NEW t \in Seq(S), Begins(s, t)
    PROVE  LET rest == SubSeq(t, Len(s) + 1, Len(t)) IN
           /\ IsStrictPrefix(s, t)
           /\ rest \in Seq(S) /\ Len(rest) = Len(t) - Len(s)
           /\ \A i \in 1 .. Len(rest) : rest[i] = t[Len(s) + i]
           /\ s \o rest = t
<1> DEFINE rest == SubSeq(t, Len(s) + 1, Len(t))
<1>1. Len(s) \in Nat /\ Len(t) \in Nat /\ Len(s) < Len(t)
  BY DEF Begins
<1>2. rest \in Seq(S) /\ Len(rest) = Len(t) - Len(s)
  BY <1>1
<1>3. ASSUME NEW i \in 1 .. Len(rest) PROVE rest[i] = t[Len(s) + i]
  BY <1>1, <1>2
<1>4. s \o rest = t
  <2>1. s \o rest \in Seq(S) /\ Len(s \o rest) = Len(t)
    BY <1>1, <1>2
  <2>2. ASSUME NEW i \in 1 .. Len(t) PROVE (s \o rest)[i] = t[i]
    <3>1. CASE i <= Len(s)
      <4>1. i \in 1 .. Len(s)
        BY <1>1, <3>1
      <4> QED
        BY <1>2, <4>1 DEF Begins
    <3>2. CASE ~(i <= Len(s))
      <4>1. i - Len(s) \in 1 .. Len(rest) /\ i = Len(s) + (i - Len(s))
        BY <1>1, <1>2, <3>2
      <4>2. (s \o rest)[i] = rest[i - Len(s)]
        BY <1>1, <1>2, <3>2
      <4> QED
        BY <1>3, <4>1, <4>2
    <3> QED
      BY <3>1, <3>2
  <2> QED
    BY <2>1, <2>2, SeqEqual
<1>5. IsStrictPrefix(s, t)
  <2>1. SubSeq(s, 1, Len(s)) = SubSeq(t, 1, Len(s))
    <3>1. /\ SubSeq(s, 1, Len(s)) \in Seq(S) /\ Len(SubSeq(s, 1, Len(s))) = Len(s)
          /\ SubSeq(t, 1, Len(s)) \in Seq(S) /\ Len(SubSeq(t, 1, Len(s))) = Len(s)
      BY <1>1
    <3>2. ASSUME NEW i \in 1 .. Len(s)
          PROVE  SubSeq(s, 1, Len(s))[i] = SubSeq(t, 1, Len(s))[i]
      BY <1>1 DEF Begins
    <3> QED
      BY <3>1, <3>2, SeqEqual
  <2>2. s # t
    BY <1>1
  <2> QED
    BY <1>1, <2>1, <2>2 DEF IsStrictPrefix, IsPrefix
<1> HIDE DEF rest
<1> QED
  BY <1>2, <1>3, <1>4, <1>5 DEF rest

\* A strict prefix is a beginning.
LEMMA StrictPrefixBegins ==
    ASSUME NEW S, NEW s \in Seq(S), NEW t \in Seq(S), IsStrictPrefix(s, t)
    PROVE  Begins(s, t)
<1>1. Len(s) \in Nat /\ Len(t) \in Nat /\ Len(s) <= Len(t) /\ s # t
  BY DEF IsStrictPrefix, IsPrefix
<1>2. SubSeq(s, 1, Len(s)) = SubSeq(t, 1, Len(s))
  BY DEF IsStrictPrefix, IsPrefix
<1>3. ASSUME NEW i \in 1 .. Len(s) PROVE t[i] = s[i]
  <2>1. SubSeq(s, 1, Len(s))[i] = s[i] /\ SubSeq(t, 1, Len(s))[i] = t[i]
    BY <1>1
  <2> QED
    BY <1>2, <2>1
<1>4. Len(s) # Len(t)
  BY <1>1, <1>3, SeqEqual
<1> QED
  BY <1>1, <1>3, <1>4 DEF Begins

\* The prefix that a listing is given begins with the scope of the view.
LEMMA ListPrefixBegins ==
    ASSUME TypeOK, ~Blank(prefix), ListPrefix(scope, prefix) # Rejected
    PROVE  ListPrefix(scope, prefix) \in Seq(Segments) /\ Begins(scope, ListPrefix(scope, prefix))
<1>1. scope \in Seq(Segments) /\ prefix \in Seq(Segments) /\ Empty \in Segments
  BY NamesAssumption DEF TypeOK, Segments
<1>2. Len(scope) \in Nat /\ Len(prefix) \in Nat /\ <<Empty>> \in Seq(Segments)
  BY <1>1
<1>3. CASE scope = <<>>
  <2>1. ListPrefix(scope, prefix) = prefix /\ Len(scope) = 0
    BY <1>3 DEF ListPrefix
  <2>2. Len(prefix) # 0
    BY <1>1 DEF Blank
  <2> QED
    BY <1>1, <1>2, <2>1, <2>2 DEF Begins
<1>4. CASE scope # <<>>
  <2> DEFINE key == NormalizeKey(prefix)
             slash == IF Last(prefix) = Empty THEN <<Empty>> ELSE <<>>
  <2>1. key # Rejected /\ ListPrefix(scope, prefix) = (scope \o key) \o slash
    BY <1>4 DEF ListPrefix, InScope, JoinKey
  <2>2. key \in Seq(Segments)
    BY <1>1, <2>1, SegmentsAreClosed, NormalizingIsIdempotent
  <2>3. Len(key) \in Nat /\ Len(key) # 0
    BY <2>1, <2>2 DEF Rejected
  <2>4. slash \in Seq(Segments)
    BY <1>2
  <2> HIDE DEF key, slash
  <2>5. scope \o key \in Seq(Segments) /\ Len(scope \o key) = Len(scope) + Len(key)
    BY <1>1, <2>2
  <2>6. ASSUME NEW i \in 1 .. Len(scope) PROVE ((scope \o key) \o slash)[i] = scope[i]
    <3>1. i \in 1 .. Len(scope \o key) /\ (scope \o key)[i] = scope[i]
      BY <1>1, <2>2, <2>3, <2>5
    <3> QED
      BY <2>4, <2>5, <3>1
  <2>7. /\ (scope \o key) \o slash \in Seq(Segments)
        /\ Len((scope \o key) \o slash) = Len(scope \o key) + Len(slash) /\ Len(slash) \in Nat
    BY <2>4, <2>5
  <2> QED
    BY <1>2, <2>1, <2>3, <2>5, <2>6, <2>7 DEF Begins
<1> QED
  BY <1>3, <1>4

\* The prefix of the storage, and the local driver has it in normal form.
LEMMA HomeIsSound ==
    /\ Home \in Seq(Segments) /\ Clean(Home)
    /\ driver = "local" => NormalizeKey(Home) = Home
<1>1. Root \in Seq(Segments) /\ (Root = <<>> \/ NormalizeKey(Root) # Rejected)
  BY NamesAssumption
<1>2. CASE Root = <<>>
  <2>1. Plain(Root) /\ Clean(Root)
    BY <1>2 DEF Plain, Clean
  <2>2. NormalizeKey(Root) = Root
    BY <1>1, <2>1, PlainIsNormal
  <2> QED
    BY <1>1, <2>1, <2>2 DEF Home
<1>3. CASE NormalizeKey(Root) # Rejected
  <2>1. Clean(Root)
    BY <1>1, <1>3, NormalizeLoop
  <2>2. /\ NormalizeKey(Root) \in Seq(Segments) /\ Clean(NormalizeKey(Root))
        /\ NormalizeKey(NormalizeKey(Root)) = NormalizeKey(Root)
    BY <1>1, <1>3, SegmentsAreClosed, NormalizingIsIdempotent
  <2> QED
    BY <1>1, <2>1, <2>2 DEF Home
<1> QED
  BY <1>1, <1>2, <1>3

\* All that a call may address begins with this.
Base == Home \o scope

\* It holds nothing that is refused, and the local driver has it in normal form.
LEMMA BaseIsSound ==
    ASSUME TypeOK
    PROVE  /\ Base \in Seq(Segments) /\ Clean(Base)
           /\ driver = "local" => NormalizeKey(Base) = Base
<1>1. scope \in Seq(Segments) /\ NormalizeKey(scope) = scope
  BY NamesAssumption DEF TypeOK
<1>2. Clean(scope)
  BY <1>1, NormalIsPlain
<1>3. NormalizeKey(Home \o scope) = NormalizeKey(Home) \o NormalizeKey(scope)
  BY <1>1, <1>2, HomeIsSound, SegmentsAreClosed, NormalizeConcat
<1>4. Clean(Home \o scope)
  BY <1>1, <1>2, HomeIsSound, CleanConcat
<1>5. Home \o scope \in Seq(Segments)
  BY <1>1, HomeIsSound
<1>6. driver = "local" => NormalizeKey(Home \o scope) = Home \o scope
  BY <1>1, <1>3, HomeIsSound
<1> QED
  BY <1>4, <1>5, <1>6, Zenon DEF Base

\* What begins with all of the scope begins, after the prefix of the storage, with
\* both put together.
LEMMA BaseOfAsked ==
    ASSUME TypeOK, NEW t \in Seq(Segments), Begins(scope, t)
    PROVE  Home \o t \in Seq(Segments) /\ Begins(Base, Home \o t)
<1>1. scope \in Seq(Segments) /\ Home \in Seq(Segments)
  BY NamesAssumption, HomeIsSound DEF TypeOK
<1>2. /\ Len(Home) \in Nat /\ Len(scope) \in Nat /\ Len(t) \in Nat /\ Len(scope) < Len(t)
      /\ Len(Home \o scope) = Len(Home) + Len(scope) /\ Len(Home \o t) = Len(Home) + Len(t)
  BY <1>1 DEF Begins
<1>3. ASSUME NEW i \in 1 .. Len(Home \o scope) PROVE (Home \o t)[i] = (Home \o scope)[i]
  <2>1. CASE i <= Len(Home)
    <3>1. (Home \o t)[i] = Home[i] /\ (Home \o scope)[i] = Home[i]
      BY <1>1, <1>2, <2>1
    <3> QED
      BY <3>1
  <2>2. CASE ~(i <= Len(Home))
    <3>1. i - Len(Home) \in 1 .. Len(scope)
      BY <1>2, <2>2
    <3>2. (Home \o t)[i] = t[i - Len(Home)] /\ (Home \o scope)[i] = scope[i - Len(Home)]
      BY <1>1, <1>2, <2>2
    <3> QED
      BY <3>1, <3>2 DEF Begins
  <2> QED
    BY <2>1, <2>2
<1>4. Home \o t \in Seq(Segments)
  BY <1>1
<1> QED
  BY <1>2, <1>3, <1>4 DEF Begins, Base

\* A key that is listed lies below the prefix of the storage and the scope.
LEMMA UnderBegins ==
    ASSUME TypeOK, ~Blank(prefix), ListPrefix(scope, prefix) # Rejected,
           NEW k \in Keys, Under(k)
    PROVE  Begins(Base, k)
<1>1. k \in Seq(Segments) /\ Base \in Seq(Segments)
  BY NamesAssumption, BaseIsSound
<1>2. Asked \in Seq(Segments) /\ Begins(Base, Asked)
  BY ListPrefixBegins, BaseOfAsked DEF Asked, JoinKey
<1>3. Len(Base) \in Nat /\ Len(Asked) \in Nat /\ Len(k) \in Nat /\ Len(Base) < Len(Asked)
  BY <1>1, <1>2 DEF Begins
<1>4. CASE driver # "local"
  <2>1. Len(Asked) \in 1 .. Len(k) /\ \A i \in 1 .. Len(Asked) - 1 : k[i] = Asked[i]
    BY <1>4 DEF Under, HasPrefix
  <2>2. ASSUME NEW i \in 1 .. Len(Base) PROVE k[i] = Base[i]
    <3>1. i \in 1 .. Len(Asked) - 1
      BY <1>3
    <3> QED
      BY <1>2, <2>1, <3>1 DEF Begins
  <2>3. Len(Base) < Len(k)
    BY <1>3, <2>1
  <2> QED
    BY <2>2, <2>3 DEF Begins
<1>5. CASE driver = "local"
  <2> DEFINE rest == SubSeq(Asked, Len(Base) + 1, Len(Asked))
             directory == NormalizeKey(Asked)
  <2>1. directory # Rejected /\ IsStrictPrefix(directory, k)
    BY <1>5 DEF Under, ResolveInsideRoot
  <2>2. rest \in Seq(Segments) /\ Base \o rest = Asked
    BY <1>1, <1>2, BeginningAndRest
  <2>3. Clean(Asked)
    BY <1>2, <2>1, NormalizeLoop
  <2> HIDE DEF rest
  <2>4. Clean(rest)
    BY <1>1, <2>2, <2>3, CleanConcat
  <2>5. directory = Base \o NormalizeKey(rest)
    BY <1>1, <1>5, <2>2, <2>4, BaseIsSound, SegmentsAreClosed, NormalizeConcat
  <2>6. NormalizeKey(rest) \in Seq(Segments)
    <3>1. NormalizeKey(rest) # Rejected => NormalizeKey(rest) \in Seq(Segments)
      BY <2>2, SegmentsAreClosed, NormalizingIsIdempotent
    <3>2. Rejected \in Seq(Segments)
      BY DEF Rejected
    <3> QED
      BY <3>1, <3>2
  <2> HIDE DEF directory
  <2>7. /\ directory \in Seq(Segments) /\ Len(directory) >= Len(Base) /\ Len(directory) \in Nat
        /\ \A i \in 1 .. Len(Base) : directory[i] = Base[i]
    BY <1>1, <1>3, <2>5, <2>6, ConcatProperties
  <2>8. Begins(directory, k)
    BY <1>1, <2>1, <2>7, StrictPrefixBegins
  <2>9. Len(Base) < Len(k)
    BY <1>3, <2>7, <2>8 DEF Begins
  <2>10. ASSUME NEW i \in 1 .. Len(Base) PROVE k[i] = Base[i]
    <3>1. i \in 1 .. Len(directory)
      BY <1>3, <2>7
    <3> QED
      BY <2>7, <2>8, <3>1 DEF Begins
  <2> QED
    BY <2>9, <2>10 DEF Begins
<1> QED
  BY <1>4, <1>5

\* The path of such a key is what comes after.
LEMMA PathIsRest ==
    ASSUME TypeOK, NEW k \in Keys, Begins(Base, k)
    PROVE  PathOf(k) \in Seq(Segments) /\ Base \o PathOf(k) = k
<1>1. scope \in Seq(Segments) /\ Home \in Seq(Segments) /\ k \in Seq(Segments)
  BY NamesAssumption, HomeIsSound DEF TypeOK
<1> DEFINE inner == SubSeq(k, Len(Home) + 1, Len(k))
           rest == SubSeq(inner, Len(scope) + 1, Len(inner))
<1>2. /\ Len(Home) \in Nat /\ Len(scope) \in Nat /\ Len(k) \in Nat
      /\ Len(Home \o scope) = Len(Home) + Len(scope)
      /\ Len(Home) + Len(scope) < Len(k)
  BY <1>1 DEF Begins, Base
<1>3. Begins(Home, k)
  <2>1. ASSUME NEW i \in 1 .. Len(Home) PROVE k[i] = Home[i]
    <3>1. i \in 1 .. Len(Home \o scope) /\ (Home \o scope)[i] = Home[i]
      BY <1>1, <1>2
    <3> QED
      BY <3>1 DEF Begins, Base
  <2> QED
    BY <1>2, <2>1 DEF Begins
<1>4. /\ IsStrictPrefix(Home, k)
      /\ inner \in Seq(Segments) /\ Len(inner) = Len(k) - Len(Home)
      /\ \A i \in 1 .. Len(inner) : inner[i] = k[Len(Home) + i]
      /\ Home \o inner = k
  BY <1>1, <1>3, BeginningAndRest
<1> HIDE DEF inner
<1>5. Begins(scope, inner)
  <2>1. ASSUME NEW i \in 1 .. Len(scope) PROVE inner[i] = scope[i]
    <3>1. i \in 1 .. Len(inner) /\ Len(Home) + i \in 1 .. Len(Home \o scope)
      BY <1>2, <1>4
    <3>2. (Home \o scope)[Len(Home) + i] = scope[i]
      BY <1>1, <1>2
    <3> QED
      BY <1>4, <3>1, <3>2 DEF Begins, Base
  <2> QED
    BY <1>2, <1>4, <2>1 DEF Begins
<1>6. IsStrictPrefix(scope, inner) /\ rest \in Seq(Segments) /\ scope \o rest = inner
  BY <1>1, <1>4, <1>5, BeginningAndRest
<1>7. PathOf(k) = rest
  BY <1>4, <1>6 DEF PathOf, OutOfScope, StripKey, inner
<1> HIDE DEF rest
<1>9. rest \in Seq(Segments)
  BY <1>6
<1>8. (Home \o scope) \o rest = Home \o (scope \o rest)
  BY <1>1, <1>9, ConcatAssociative
<1> QED
  BY <1>4, <1>6, <1>7, <1>8 DEF Base

\* What deleting a path addresses: its normal form, put below the base again.
LEMMA AddressIsBelow ==
    ASSUME TypeOK, NEW k, PathOf(k) \in Seq(Segments), Address(k) # Rejected
    PROVE  LET n == NormalizeKey(PathOf(k)) IN
           /\ n # Rejected /\ Address(k) = Base \o n
           /\ n \in Seq(Segments) /\ Clean(n) /\ NormalizeKey(n) = n
<1> DEFINE n == NormalizeKey(PathOf(k))
<1>1. scope \in Seq(Segments) /\ Home \in Seq(Segments) /\ Base \in Seq(Segments)
  BY NamesAssumption, HomeIsSound, BaseIsSound DEF TypeOK
<1>2. n # Rejected
  <2>1. CASE scope = <<>> /\ n = Rejected
    <3>1. <<>> \o <<>> = <<>>
      OBVIOUS
    <3>2. InScope(scope, PathOf(k)) = Rejected
      BY <2>1, <3>1 DEF InScope, JoinKey, Rejected
    <3> QED
      BY <3>2 DEF Address
  <2>2. CASE scope # <<>> /\ n = Rejected
    BY <2>2 DEF Address, InScope
  <2> QED
    BY <2>1, <2>2
<1>3. n \in Seq(Segments) /\ Clean(n) /\ NormalizeKey(n) = n
  BY <1>2, SegmentsAreClosed, NormalizingIsIdempotent
<1>4. InScope(scope, PathOf(k)) = scope \o n
  BY <1>2 DEF InScope, JoinKey
<1> HIDE DEF n
<1>5. Home \o (scope \o n) = Base \o n
  BY <1>1, <1>3, ConcatAssociative DEF Base
<1>6. CASE driver # "local"
  BY <1>2, <1>3, <1>4, <1>5, <1>6 DEF Address, JoinKey, n
<1>7. CASE driver = "local"
  <2>1. Address(k) = ResolveInsideRoot(Base \o n)
    BY <1>4, <1>5, <1>7 DEF Address, JoinKey
  <2>2. Address(k) = NormalizeKey(Base \o n)
    BY <2>1 DEF ResolveInsideRoot
  <2>3. NormalizeKey(Base \o n) = NormalizeKey(Base) \o NormalizeKey(n)
    BY <1>1, <1>3, BaseIsSound, SegmentsAreClosed, NormalizeConcat
  <2> QED
    BY <1>2, <1>3, <1>7, <2>2, <2>3, BaseIsSound DEF n
<1> QED
  BY <1>6, <1>7

\* The path of a key below the base leads back to it, if normalising leaves it
\* alone, and to another of the same normal form below the base if not.
LEMMA PathLeadsBack ==
    ASSUME TypeOK, NEW k \in Keys, Begins(Base, k), Address(k) # Rejected
    PROVE  /\ IF Normal(k) THEN Address(k) = k
              ELSE NormalizeKey(Address(k)) = NormalizeKey(k)
           /\ IsStrictPrefix(Base, Address(k))
<1> DEFINE p == PathOf(k)
           n == NormalizeKey(p)
<1>1. p \in Seq(Segments) /\ Base \o p = k
  BY PathIsRest
<1>2. /\ n # Rejected /\ Address(k) = Base \o n
      /\ n \in Seq(Segments) /\ Clean(n) /\ NormalizeKey(n) = n
  BY <1>1, AddressIsBelow
<1>3. Base \in Seq(Segments) /\ Clean(Base) /\ Clean(p)
  BY <1>1, <1>2, BaseIsSound, NormalizeLoop
<1>4. Normal(k) => Address(k) = k
  BY <1>1, <1>2 DEF Normal
<1>5. NormalizeKey(k) = NormalizeKey(Base) \o n
  BY <1>1, <1>3, SegmentsAreClosed, NormalizeConcat
<1> HIDE DEF p, n
<1>6. NormalizeKey(Address(k)) = NormalizeKey(Base) \o n
  BY <1>2, <1>3, SegmentsAreClosed, NormalizeConcat
<1>7. IsStrictPrefix(Base, Base \o n)
  <2>1. Len(n) \in Nat /\ Len(n) # 0 /\ Len(Base) \in Nat
    BY <1>2, <1>3 DEF Rejected
  <2>2. Base \o n \in Seq(Segments) /\ Begins(Base, Base \o n)
    BY <1>2, <1>3, <2>1, ConcatProperties DEF Begins
  <2> QED
    BY <1>3, <2>2, BeginningAndRest
<1> QED
  BY <1>2, <1>4, <1>5, <1>6, <1>7

\* Whatever was listed was listed for a prefix that Begin let through.
PrefixIsSound ==
    stage \notin {"begin", "rejected"} \/ listed # <<>> =>
        ~Blank(prefix) /\ ListPrefix(scope, prefix) # Rejected

\* The prefix does not change, and is checked before anything is listed.
LEMMA PrefixStaysSound ==
    ASSUME IInv, PrefixIsSound, [Next]_vars
    PROVE  PrefixIsSound'
<1>1. CASE UNCHANGED vars
  BY <1>1 DEF vars, call, report, collected, PrefixIsSound
<1>2. CASE Others
  BY <1>2 DEF Others, call, report, collected, PrefixIsSound
<1>3. CASE Begin
  <2>1. listed = <<>> /\ UNCHANGED <<call, listed>>
    BY <1>3 DEF Begin, IInv, Progress, report, collected
  <2>2. stage' # "rejected" => ~Blank(prefix) /\ ListPrefix(scope, prefix) # Rejected
    BY <1>3 DEF Begin
  <2> QED
    BY <2>1, <2>2 DEF PrefixIsSound, call
<1>4. CASE Step /\ ~Begin
  <2>1. stage \notin {"begin", "rejected"} /\ UNCHANGED call
    BY <1>4 DEF Step, List, ListFails, StartBatch, Finish, ManyAnswered, S3ChunkFails,
                MinioFallsBack, DeleteAnswered, DeleteFails, NothingToAsk
  <2> QED
    BY <2>1 DEF PrefixIsSound, call
<1> QED
  BY <1>1, <1>2, <1>3, <1>4 DEF Next, Step

\* It is sound throughout.
LEMMA PrefixIsAlwaysSound == Spec => []PrefixIsSound
<1>1. Init => PrefixIsSound
  BY DEF Init, PrefixIsSound
<1>2. IInv /\ PrefixIsSound /\ [Next]_vars => PrefixIsSound'
  BY PrefixStaysSound
<1> QED
  BY <1>1, <1>2, PrefixDeletionInductive, PTL DEF Spec

\* What is listed lies below the base, and so does what its path leads to.
LEMMA ListedLeadBack ==
    ASSUME IInv, PrefixIsSound
    PROVE  /\ PathsNameTheirKeys
           /\ \A i \in DOMAIN listed :
                 Unaddressable(i) \/ IsStrictPrefix(Base, Address(listed[i]))
<1> SUFFICES ASSUME NEW i \in DOMAIN listed, ~Unaddressable(i)
             PROVE  /\ IF Normal(listed[i]) THEN Address(listed[i]) = listed[i]
                       ELSE NormalizeKey(Address(listed[i])) = NormalizeKey(listed[i])
                    /\ IsStrictPrefix(Base, Address(listed[i]))
  BY DEF PathsNameTheirKeys
<1>1. TypeOK /\ listed \in Seq(Keys) /\ Under(listed[i])
  BY DEF IInv, TypeOK, ListedAreUnder
<1>2. listed[i] \in Keys /\ listed # <<>>
  BY <1>1
<1>3. Begins(Base, listed[i])
  BY <1>1, <1>2, UnderBegins DEF PrefixIsSound
<1> QED
  BY <1>1, <1>2, <1>3, PathLeadsBack DEF Unaddressable

\* The path that a listing makes of a key leads deleteMany() back to that key, or
\* to none, whatever the prefix of the storage and the scope of the view; but if
\* normalising changes the name, to the key of the same normal form.
THEOREM PathsLeadBack == Spec => []PathsNameTheirKeys
<1>1. IInv /\ PrefixIsSound => PathsNameTheirKeys
  BY ListedLeadBack
<1> QED
  BY <1>1, PrefixIsAlwaysSound, PrefixDeletionInductive, PTL

\* A file that is waiting is in the list, and is what its path addresses, if that is
\* normal.
LEMMA WaitingIsNamed ==
    ASSUME IInv, PathsNameTheirKeys, NEW i \in waiting
    PROVE  /\ i \in DOMAIN listed /\ listed[i] \in Keys /\ Under(listed[i])
           /\ Normal(listed[i]) => Address(listed[i]) = listed[i]
<1>1. i \in 1 .. begun /\ begun \in 0 .. Len(listed) /\ listed \in Seq(Keys)
  BY DEF IInv, TypeOK
<1>2. i \in DOMAIN listed /\ listed[i] \in Keys
  BY <1>1
<1> QED
  BY <1>2 DEF IInv, Progress, ListedAreUnder, PathsNameTheirKeys

\* The reports stay true: what is gone is on record, and the list does not change
\* once there are verdicts.
LEMMA DeletedStayGone ==
    ASSUME IInv, PathsNameTheirKeys, NormalDeletedWereGone, [Next]_vars
    PROVE  NormalDeletedWereGone'
<1>1. IInv' /\ store' \in SUBSET Keys
  BY NextKeeps DEF IInv, TypeOK
<1>2. DOMAIN verdict = 1 .. begun /\ DOMAIN verdict' = 1 .. begun'
  BY <1>1 DEF IInv, TypeOK
<1>3. CASE stage' \in {"begin", "listing"}
  <2>1. begun' = 0
    BY <1>1, <1>3 DEF IInv, Progress
  <2> QED
    BY <1>2, <2>1 DEF NormalDeletedWereGone
<1>4. ASSUME Observe \/ UNCHANGED <<gone, store>>, stage' \notin {"begin", "listing"}
      PROVE  gone \subseteq gone'
  BY <1>1, <1>4, Observing
<1>5. CASE UNCHANGED vars
  BY <1>5, NamesStay DEF vars, report, collected, NormalDeletedWereGone
<1>6. CASE Others
  <2>1. UNCHANGED <<call, listed, verdict>> /\ Observe
    BY <1>6 DEF Others, report, collected
  <2> QED
    BY <1>3, <1>4, <2>1, NamesStay DEF NormalDeletedWereGone
<1>7. CASE Step /\ stage' \notin {"begin", "listing"}
  <2> SUFFICES ASSUME NEW i \in DOMAIN verdict', verdict'[i] = "deleted",
                      Normal(listed[i])'
               PROVE  listed'[i] \in gone'
    BY DEF NormalDeletedWereGone
  <2>1. Observe
    BY <1>7
       DEF Step, Begin, List, ListFails, StartBatch, Finish, ManyAnswered, S3ChunkFails,
           MinioFallsBack, DeleteAnswered, DeleteFails, NothingToAsk
  <2>2. gone \subseteq gone' /\ Keys \ store' \subseteq gone'
    BY <1>1, <1>7, <2>1, Observing
  <2>3. begun # 0 => UNCHANGED listed
    <3>1. List => begun = 0
      BY DEF List, IInv, Progress
    <3> QED
      BY <1>7, <3>1
         DEF Step, Begin, ListFails, StartBatch, Finish, ManyAnswered, S3ChunkFails,
             MinioFallsBack, DeleteAnswered, DeleteFails, NothingToAsk, report, collected
  <2>6. UNCHANGED call
    BY <1>7
       DEF Step, Begin, List, ListFails, StartBatch, Finish, ManyAnswered, S3ChunkFails,
           MinioFallsBack, DeleteAnswered, DeleteFails, NothingToAsk
  <2>7. Normal(listed'[i])
    BY <2>6 DEF call, Normal, PathOf, Home
  <2>4. CASE i \in DOMAIN verdict /\ verdict[i] = "deleted"
    <3>1. listed[i] \in gone /\ begun # 0
      <4>1. begun # 0
        BY <1>2, <2>4
      <4> QED
        BY <2>3, <2>4, <2>7, <4>1 DEF NormalDeletedWereGone
    <3> QED
      BY <2>2, <2>3, <3>1
  <2>5. CASE i \in waiting /\ Address(listed[i]) \notin store' /\ stage' \in Deleting
    <3>2. i \in 1 .. begun /\ begun \in 0 .. Len(listed) /\ listed \in Seq(Keys)
      BY <1>1, <2>5 DEF IInv, TypeOK
    <3>3. begun # 0
      BY <3>2
    <3>1. listed[i] \in Keys \ store'
      BY <2>3, <2>5, <2>7, <3>3, WaitingIsNamed
    <3> QED
      BY <2>2, <2>3, <3>1, <3>3
  <2> QED
    BY <1>7, <2>4, <2>5, VerdictIsEarned
<1> QED
  BY <1>3, <1>5, <1>6, <1>7 DEF Next

\* What is reported as deleted was absent at some moment after the listing, if its
\* name is normal.
THEOREM DeletedFilesWereGone == Spec => []NormalDeletedWereGone
<1>1. Init => NormalDeletedWereGone
  BY DEF Init, NormalDeletedWereGone
<1>2. IInv /\ PathsNameTheirKeys /\ NormalDeletedWereGone /\ [Next]_vars
        => NormalDeletedWereGone'
  BY DeletedStayGone
<1> QED
  BY <1>1, <1>2, PrefixDeletionInductive, PathsLeadBack, PTL DEF Spec

\* After a result without failures no file of a normal name is left that was there
\* all the time, unless it was missed: whatever is steady and under the prefix is
\* listed, and what is listed is gone.
THEOREM SteadyFilesAreEmptied == Spec => []SteadyEmptied
<1>1. IInv /\ NormalDeletedWereGone => SteadyEmptied
  <2> SUFFICES ASSUME IInv, NormalDeletedWereGone, stage = "resolved",
                      \A i \in DOMAIN verdict : verdict[i] = "deleted",
                      NEW k \in steady, Under(k), Normal(k), k \notin missed
               PROVE  FALSE
    BY DEF SteadyEmptied
  <2>1. PICK i \in Places : Order[i] = k
    BY DEF IInv, TypeOK, Keys, Range, Places
  <2>2. PICK n \in DOMAIN listed : listed[n] = k
    BY <2>1 DEF IInv, SteadyAreListed, Passed
  <2>3. DOMAIN listed = DOMAIN verdict
    BY DEF IInv, TypeOK, Progress
  <2> QED
    BY <2>2, <2>3 DEF NormalDeletedWereGone, IInv, SteadyAreNotGone
<1> QED
  BY <1>1, PrefixDeletionInductive, DeletedFilesWereGone, PTL

\* deletePrefix() removes nothing outside the scope of the view and the prefix of the
\* storage, and nothing that is not under the prefix it was given, except where a
\* listed name is normalised to it.
THEOREM OutsideStaysUntouched == Spec => OutsideUntouched
<1>1. ASSUME IInv, PrefixIsSound, [Next]_vars
      PROVE  [changes' = changes =>
                 \A k \in store \ store' :
                     /\ IsStrictPrefix(JoinKey(Home, scope), k)
                     /\ \/ Under(k)
                        \/ \E i \in DOMAIN listed :
                              ~Normal(listed[i]) /\ Address(listed[i]) = k]_vars
  <2>1. CASE UNCHANGED vars
    BY <2>1
  <2>2. CASE Others
    <3>1. changes' # changes
      BY <2>2 DEF Others, IInv, TypeOK
    <3> QED
      BY <3>1
  <2>3. CASE Step
    <3> SUFFICES ASSUME NEW k \in store \ store'
                 PROVE  /\ IsStrictPrefix(JoinKey(Home, scope), k)
                        /\ \/ Under(k)
                           \/ \E i \in DOMAIN listed :
                                 ~Normal(listed[i]) /\ Address(listed[i]) = k
      OBVIOUS
    <3>1. PICK i \in waiting : Address(listed[i]) = k
      BY <1>1, <2>3, StepRemovesWaiting
    <3>2. PathsNameTheirKeys
      BY <1>1, ListedLeadBack
    <3>3. /\ i \in DOMAIN listed /\ Under(listed[i])
          /\ Normal(listed[i]) => Address(listed[i]) = listed[i]
      BY <1>1, <3>2, WaitingIsNamed
    <3>4. ~Unaddressable(i)
      BY <1>1 DEF IInv, Progress
    <3>5. IsStrictPrefix(Base, k)
      BY <1>1, <3>1, <3>3, <3>4, ListedLeadBack
    <3> QED
      BY <3>1, <3>3, <3>5 DEF Base, JoinKey
  <2> QED
    BY <1>1, <2>1, <2>2, <2>3 DEF Next
<1> QED
  BY <1>1, PrefixDeletionInductive, PrefixIsAlwaysSound, PTL DEF Spec, OutsideUntouched
=============================================================================
