------------------------- MODULE LocalListingProofs -------------------------
(***************************************************************************)
(* The pages of a listing, for trees, pages and numbers of changes of any  *)
(* size.                                                                   *)
(***************************************************************************)
EXTENDS LocalListing, TLAPS, FiniteSetTheorems, SequenceTheorems

AllNames == Names \cup {Empty}

Entries == Paths \cup Directories(Paths)

(***************************************************************************)
(* Entries.                                                                *)
(***************************************************************************)

\* Of natural numbers one is the least.
LEMMA LeastNatural ==
    ASSUME NEW T, T \subseteq Nat, T # {}
    PROVE  \E x \in T : \A y \in T : x <= y
<1> DEFINE R == OpToRel(<, Nat)
<1>1. IsWellFoundedOn(R, Nat)
  BY NatLessThanWellFounded
<1>2. \A x, y \in Nat : x < y => <<x, y>> \in R
  BY DEF OpToRel
<1> HIDE DEF R
<1>3. \E x \in T : \A y \in T : ~ (<<y, x>> \in R)
  BY <1>1, WFMin
<1>4. \A x, y \in T : x \in Nat /\ y \in Nat /\ (~(y < x) => x <= y)
  OBVIOUS
<1> QED
  BY <1>2, <1>3, <1>4

\* Finitely many files have finitely many directories.
LEMMA EntriesAreFinite ==
    /\ IsFiniteSet(Entries)
    /\ Entries \subseteq Seq(AllNames)
    /\ \A files \in SUBSET Paths : Directories(files) \subseteq Entries
<1> DEFINE above(p) == {SubSeq(p, 1, i) \o <<Empty>> : i \in 1 .. Len(p) - 1}
           f == [p \in Paths |-> above(p)]
           T == {f[p] : p \in Paths}
<1>1. Directories(Paths) = UNION T
  BY DEF Directories
<1>2. ASSUME NEW p \in Paths PROVE IsFiniteSet(above(p)) /\ above(p) \subseteq Seq(AllNames)
  <2>1. p \in Seq(AllNames) /\ Len(p) \in Nat
    <3>1. p \in Seq(Names)
      BY PathsAssumption
    <3>2. Len(p) \in Nat /\ \A i \in 1 .. Len(p) : p[i] \in AllNames
      BY <3>1 DEF AllNames
    <3>3. p = [i \in 1 .. Len(p) |-> p[i]]
      BY <3>1
    <3> QED
      BY <3>2, <3>3, IsASeq
  <2> DEFINE g == [i \in 1 .. Len(p) - 1 |-> SubSeq(p, 1, i) \o <<Empty>>]
  <2>2. IsFiniteSet(1 .. Len(p) - 1)
    BY <2>1, FS_Interval
  <2>3. g \in Surjection(1 .. Len(p) - 1, above(p))
    BY DEF Surjection
  <2>4. IsFiniteSet(above(p))
    BY <2>2, <2>3, FS_Surjection
  <2>5. ASSUME NEW i \in 1 .. Len(p) - 1
        PROVE  SubSeq(p, 1, i) \o <<Empty>> \in Seq(AllNames)
    <3>1. SubSeq(p, 1, i) \in Seq(AllNames)
      BY <2>1
    <3>2. <<Empty>> \in Seq(AllNames)
      BY DEF AllNames
    <3> QED
      BY <3>1, <3>2
  <2> QED
    BY <2>4, <2>5
<1>3. IsFiniteSet(T)
  <2>1. f \in Surjection(Paths, T)
    BY DEF Surjection
  <2> QED
    BY <2>1, PathsAssumption, FS_Surjection
<1>4. \A A \in T : IsFiniteSet(A) /\ A \subseteq Seq(AllNames)
  BY <1>2
<1>5. IsFiniteSet(Directories(Paths))
  <2> HIDE DEF T
  <2> QED
    BY <1>1, <1>3, <1>4, FS_UNION
<1>6. Directories(Paths) \subseteq Seq(AllNames)
  BY <1>1, <1>4
<1>7. Paths \subseteq Seq(AllNames)
  <2> SUFFICES ASSUME NEW p \in Paths PROVE p \in Seq(AllNames)
    OBVIOUS
  <2>1. p \in Seq(Names)
    BY PathsAssumption
  <2>2. Len(p) \in Nat /\ \A i \in 1 .. Len(p) : p[i] \in AllNames
    BY <2>1 DEF AllNames
  <2>3. p = [i \in 1 .. Len(p) |-> p[i]]
    BY <2>1
  <2> QED
    BY <2>2, <2>3, IsASeq
<1>8. \A files \in SUBSET Paths : Directories(files) \subseteq Directories(Paths)
  BY DEF Directories
<1>9. IsFiniteSet(Entries)
  BY <1>5, PathsAssumption, FS_Union DEF Entries
<1> QED
  BY <1>6, <1>7, <1>8, <1>9 DEF Entries

(***************************************************************************)
(* The two orders are orders.                                              *)
(***************************************************************************)

\* A rank tells names apart.
Ranking(rank) ==
    /\ rank \in [AllNames -> Nat]
    /\ \A m, n \in AllNames : m # n => rank[m] # rank[n]

\* The orders are those of rankings.
LEMMA RanksAreRankings == Ranking(LocaleRank) /\ Ranking(CodeRank)
BY LocaleAssumption, CodeAssumption, DistinctAssumption DEF Ranking, Ranks, AllNames

Shorter(p, q) == Len(p) < Len(q) /\ \A i \in 1 .. Len(p) : p[i] = q[i]

SmallerAt(rank, p, q, i) ==
    /\ i \in 1 .. Len(p) /\ i \in 1 .. Len(q)
    /\ rank[p[i]] < rank[q[i]]
    /\ \A j \in 1 .. i - 1 : p[j] = q[j]

\* The order, without the operators of sequences.
LEMMA OrderShape ==
    ASSUME NEW rank, NEW p \in Seq(AllNames), NEW q \in Seq(AllNames)
    PROVE  Lexicographic(rank, p, q) <=> Shorter(p, q) \/ \E i \in Nat : SmallerAt(rank, p, q, i)
<1>1. Len(p) \in Nat /\ Len(q) \in Nat /\ DOMAIN p = 1 .. Len(p) /\ DOMAIN q = 1 .. Len(q)
  OBVIOUS
<1>2. IsStrictPrefix(p, q) => Shorter(p, q)
  <2> SUFFICES ASSUME IsStrictPrefix(p, q) PROVE Shorter(p, q)
    OBVIOUS
  <2>1. Len(p) <= Len(q) /\ SubSeq(p, 1, Len(p)) = SubSeq(q, 1, Len(p)) /\ p # q
    BY DEF IsStrictPrefix, IsPrefix
  <2>2. ASSUME NEW i \in 1 .. Len(p) PROVE p[i] = q[i]
    <3>1. SubSeq(p, 1, Len(p))[i] = p[i] /\ SubSeq(q, 1, Len(p))[i] = q[i]
      BY <1>1, <2>1
    <3> QED
      BY <2>1, <3>1
  <2>3. Len(p) # Len(q)
    BY <2>1, <2>2, SeqEqual
  <2>4. Len(p) < Len(q)
    <3>1. Len(p) <= Len(q)
      BY <2>1
    <3>2. Len(p) \in Nat /\ Len(q) \in Nat
      OBVIOUS
    <3> QED
      BY <2>3, <3>1, <3>2
  <2> QED
    BY <2>2, <2>4 DEF Shorter
<1>3. Shorter(p, q) => IsStrictPrefix(p, q)
  <2> SUFFICES ASSUME Shorter(p, q) PROVE IsStrictPrefix(p, q)
    OBVIOUS
  <2>1. /\ SubSeq(p, 1, Len(p)) \in Seq(AllNames) /\ Len(SubSeq(p, 1, Len(p))) = Len(p)
        /\ SubSeq(q, 1, Len(p)) \in Seq(AllNames) /\ Len(SubSeq(q, 1, Len(p))) = Len(p)
    BY <1>1 DEF Shorter
  <2>2. ASSUME NEW i \in 1 .. Len(p) PROVE SubSeq(p, 1, Len(p))[i] = SubSeq(q, 1, Len(p))[i]
    BY <1>1 DEF Shorter
  <2>3. SubSeq(p, 1, Len(p)) = SubSeq(q, 1, Len(p))
    BY <2>1, <2>2, SeqEqual
  <2>4. Len(p) <= Len(q) /\ p # q
    BY <1>1 DEF Shorter
  <2> QED
    BY <2>3, <2>4 DEF IsStrictPrefix, IsPrefix
<1> QED
  BY <1>1, <1>2, <1>3 DEF Lexicographic, SmallerAt

\* It is a strict order.
LEMMA OrderIsStrict ==
    ASSUME NEW rank, Ranking(rank), NEW p \in Seq(AllNames)
    PROVE  ~Lexicographic(rank, p, p)
<1>1. \A i \in 1 .. Len(p) : rank[p[i]] \in Nat
  BY DEF Ranking
<1>2. Len(p) \in Nat
  OBVIOUS
<1> QED
  BY <1>1, <1>2, OrderShape DEF Shorter, SmallerAt

\* It is transitive.
LEMMA OrderIsTransitive ==
    ASSUME NEW rank, Ranking(rank), NEW p \in Seq(AllNames), NEW q \in Seq(AllNames),
           NEW r \in Seq(AllNames), Lexicographic(rank, p, q), Lexicographic(rank, q, r)
    PROVE  Lexicographic(rank, p, r)
<1>1. Len(p) \in Nat /\ Len(q) \in Nat /\ Len(r) \in Nat
  OBVIOUS
<1>2. /\ \A i \in 1 .. Len(p) : rank[p[i]] \in Nat
      /\ \A i \in 1 .. Len(q) : rank[q[i]] \in Nat
      /\ \A i \in 1 .. Len(r) : rank[r[i]] \in Nat
  BY DEF Ranking
<1>3. Shorter(p, q) \/ \E i \in Nat : SmallerAt(rank, p, q, i)
  BY OrderShape
<1>4. Shorter(q, r) \/ \E i \in Nat : SmallerAt(rank, q, r, i)
  BY OrderShape
<1>5. CASE Shorter(p, q) /\ Shorter(q, r)
  <2>1. Len(p) < Len(r)
    BY <1>1, <1>5 DEF Shorter
  <2>2. ASSUME NEW i \in 1 .. Len(p) PROVE p[i] = r[i]
    <3>1. i \in 1 .. Len(q)
      BY <1>1, <1>5 DEF Shorter
    <3> QED
      BY <1>5, <3>1 DEF Shorter
  <2> QED
    BY <2>1, <2>2, OrderShape DEF Shorter
<1>6. ASSUME Shorter(p, q), NEW i \in Nat, SmallerAt(rank, q, r, i)
      PROVE  Lexicographic(rank, p, r)
  <2>1. CASE i <= Len(p)
    <3>1. i \in 1 .. Len(p) /\ p[i] = q[i]
      BY <1>1, <1>6, <2>1 DEF Shorter, SmallerAt
    <3>2. ASSUME NEW j \in 1 .. i - 1 PROVE p[j] = r[j]
      <4>1. j \in 1 .. Len(p)
        BY <1>1, <2>1
      <4> QED
        BY <1>6, <4>1 DEF Shorter, SmallerAt
    <3>3. SmallerAt(rank, p, r, i)
      BY <1>6, <3>1, <3>2 DEF SmallerAt
    <3> QED
      BY <3>3, OrderShape
  <2>2. CASE ~(i <= Len(p))
    <3>1. Len(p) < Len(r)
      BY <1>1, <1>6, <2>2 DEF SmallerAt
    <3>2. ASSUME NEW j \in 1 .. Len(p) PROVE p[j] = r[j]
      <4>1. j \in 1 .. i - 1
        BY <1>1, <2>2
      <4> QED
        BY <1>6, <4>1 DEF Shorter, SmallerAt
    <3> QED
      BY <3>1, <3>2, OrderShape DEF Shorter
  <2> QED
    BY <2>1, <2>2
<1>7. ASSUME NEW i \in Nat, SmallerAt(rank, p, q, i), Shorter(q, r)
      PROVE  Lexicographic(rank, p, r)
  <2>1. i \in 1 .. Len(q) /\ i \in 1 .. Len(r) /\ q[i] = r[i]
    BY <1>1, <1>7 DEF Shorter, SmallerAt
  <2>2. ASSUME NEW j \in 1 .. i - 1 PROVE p[j] = r[j]
    <3>1. j \in 1 .. Len(q)
      BY <1>1, <2>1
    <3> QED
      BY <1>7, <3>1 DEF Shorter, SmallerAt
  <2>3. SmallerAt(rank, p, r, i)
    BY <1>7, <2>1, <2>2 DEF SmallerAt
  <2> QED
    BY <2>3, OrderShape
<1>8. ASSUME NEW i \in Nat, SmallerAt(rank, p, q, i), NEW k \in Nat, SmallerAt(rank, q, r, k)
      PROVE  Lexicographic(rank, p, r)
  <2>1. /\ i \in 1 .. Len(p) /\ i \in 1 .. Len(q) /\ rank[p[i]] < rank[q[i]]
        /\ k \in 1 .. Len(q) /\ k \in 1 .. Len(r) /\ rank[q[k]] < rank[r[k]]
    BY <1>8 DEF SmallerAt
  <2>2. CASE i < k
    <3>1. i \in 1 .. Len(r) /\ q[i] = r[i]
      BY <1>1, <1>8, <2>1, <2>2 DEF SmallerAt
    <3>2. ASSUME NEW j \in 1 .. i - 1 PROVE p[j] = r[j]
      <4>1. j \in 1 .. k - 1
        BY <2>2
      <4> QED
        BY <1>8, <4>1 DEF SmallerAt
    <3>3. SmallerAt(rank, p, r, i)
      BY <2>1, <3>1, <3>2 DEF SmallerAt
    <3> QED
      BY <3>3, OrderShape
  <2>3. CASE k < i
    <3>1. k \in 1 .. Len(p) /\ p[k] = q[k]
      BY <1>1, <1>8, <2>1, <2>3 DEF SmallerAt
    <3>2. ASSUME NEW j \in 1 .. k - 1 PROVE p[j] = r[j]
      <4>1. j \in 1 .. i - 1
        BY <2>3
      <4> QED
        BY <1>8, <4>1 DEF SmallerAt
    <3>3. SmallerAt(rank, p, r, k)
      BY <2>1, <3>1, <3>2 DEF SmallerAt
    <3> QED
      BY <3>3, OrderShape
  <2>4. CASE i = k
    <3>1. rank[p[i]] < rank[r[i]]
      BY <1>2, <2>1, <2>4
    <3>2. \A j \in 1 .. i - 1 : p[j] = r[j]
      BY <1>8, <2>4 DEF SmallerAt
    <3>3. SmallerAt(rank, p, r, i)
      BY <2>1, <2>4, <3>1, <3>2 DEF SmallerAt
    <3> QED
      BY <3>3, OrderShape
  <2> QED
    BY <2>2, <2>3, <2>4
<1> QED
  BY <1>3, <1>4, <1>5, <1>6, <1>7, <1>8

\* It is total: two keys first differ somewhere, or one goes on after the other.
LEMMA OrderIsTotal ==
    ASSUME NEW rank, Ranking(rank), NEW p \in Seq(AllNames), NEW q \in Seq(AllNames), p # q
    PROVE  Lexicographic(rank, p, q) \/ Lexicographic(rank, q, p)
<1>1. Len(p) \in Nat /\ Len(q) \in Nat
  OBVIOUS
<1> DEFINE T == {i \in Nat : i \in 1 .. Len(p) /\ i \in 1 .. Len(q) /\ p[i] # q[i]}
<1>2. CASE T = {}
  <2>1. \A i \in Nat : i \in 1 .. Len(p) /\ i \in 1 .. Len(q) => p[i] = q[i]
    BY <1>2
  <2>2. Len(p) # Len(q)
    BY <1>1, <2>1, SeqEqual
  <2>3. Shorter(p, q) \/ Shorter(q, p)
    BY <1>1, <2>1, <2>2 DEF Shorter
  <2> QED
    BY <2>3, OrderShape
<1>3. CASE T # {}
  <2>1. PICK i \in T : \A j \in T : i <= j
    BY <1>3, LeastNatural
  <2>2. i \in Nat /\ i \in 1 .. Len(p) /\ i \in 1 .. Len(q) /\ p[i] # q[i]
    OBVIOUS
  <2>3. ASSUME NEW j \in 1 .. i - 1 PROVE p[j] = q[j]
    <3>1. j \in Nat /\ j \in 1 .. Len(p) /\ j \in 1 .. Len(q) /\ j < i
      BY <1>1, <2>2
    <3>2. j \notin T
      BY <2>1, <2>2, <3>1
    <3> QED
      BY <3>1, <3>2
  <2>4. p[i] \in AllNames /\ q[i] \in AllNames
    BY <2>2
  <2>5. rank[p[i]] < rank[q[i]] \/ rank[q[i]] < rank[p[i]]
    BY <2>2, <2>4 DEF Ranking
  <2>6. SmallerAt(rank, p, q, i) \/ SmallerAt(rank, q, p, i)
    BY <2>2, <2>3, <2>5 DEF SmallerAt
  <2> QED
    BY <2>2, <2>6, OrderShape
<1> QED
  BY <1>2, <1>3

(***************************************************************************)
(* A page.                                                                 *)
(***************************************************************************)

PageNow(u) == {e \in ToVisit(u) : Cardinality(VisitedFirst(e, u)) < Limit}

LastNow(u) == CHOOSE e \in PageNow(u) : PageNow(u) \subseteq VisitedFirst(e, u) \cup {e}

\* A walk comes to finitely many entries.
LEMMA WalkIsFinite ==
    ASSUME TypeOK, NEW u
    PROVE  /\ ToVisit(u) \subseteq Entries /\ ToVisit(u) \subseteq Seq(AllNames)
           /\ \A e : /\ VisitedFirst(e, u) \subseteq ToVisit(u)
                     /\ IsFiniteSet(VisitedFirst(e, u)) /\ Cardinality(VisitedFirst(e, u)) \in Nat
<1>1. tree \in SUBSET Paths
  BY DEF TypeOK
<1>2. ToVisit(u) \subseteq Entries
  BY <1>1, EntriesAreFinite DEF ToVisit, Entries
<1>3. \A e : VisitedFirst(e, u) \subseteq ToVisit(u)
  BY DEF VisitedFirst
<1>4. ASSUME NEW e PROVE IsFiniteSet(VisitedFirst(e, u))
  <2>1. VisitedFirst(e, u) \in SUBSET Entries
    BY <1>2, <1>3
  <2> QED
    BY <2>1, EntriesAreFinite, FS_Subset
<1> QED
  BY <1>2, <1>3, <1>4, EntriesAreFinite, FS_CardinalityType

\* What is visited later has more before it.
LEMMA LaterHasMoreBefore ==
    ASSUME TypeOK, NEW u, NEW d \in ToVisit(u), NEW e \in ToVisit(u), VisitedBefore(d, e)
    PROVE  Cardinality(VisitedFirst(d, u)) < Cardinality(VisitedFirst(e, u))
<1>1. \A a \in ToVisit(u) : a \in Seq(AllNames)
  BY WalkIsFinite
<1>2. VisitedFirst(d, u) \subseteq VisitedFirst(e, u)
  <2> SUFFICES ASSUME NEW c \in ToVisit(u), VisitedBefore(c, d) PROVE VisitedBefore(c, e)
    BY DEF VisitedFirst
  <2> QED
    BY <1>1, RanksAreRankings, OrderIsTransitive DEF VisitedBefore
<1>3. d \in VisitedFirst(e, u) /\ d \notin VisitedFirst(d, u)
  BY <1>1, RanksAreRankings, OrderIsStrict DEF VisitedFirst, VisitedBefore
<1>4. /\ IsFiniteSet(VisitedFirst(e, u)) /\ Cardinality(VisitedFirst(e, u)) \in Nat
      /\ Cardinality(VisitedFirst(d, u)) \in Nat
  BY WalkIsFinite
<1>5. /\ Cardinality(VisitedFirst(d, u)) <= Cardinality(VisitedFirst(e, u))
      /\ Cardinality(VisitedFirst(d, u)) # Cardinality(VisitedFirst(e, u))
  BY <1>2, <1>3, <1>4, FS_Subset
<1> QED
  BY <1>4, <1>5

\* A page has a last entry, and holds what a walk comes to before it.
LEMMA PageIsABeginning ==
    ASSUME TypeOK, NEW u, ToVisit(u) # {}
    PROVE  /\ LastNow(u) \in PageNow(u)
           /\ PageNow(u) \subseteq VisitedFirst(LastNow(u), u) \cup {LastNow(u)}
           /\ VisitedFirst(LastNow(u), u) \subseteq PageNow(u)
<1> DEFINE Rank(e) == Cardinality(VisitedFirst(e, u))
<1>0. Limit \in Nat /\ Limit > 0
  BY LimitAssumption
<1>1. \A e : Rank(e) \in Nat
  BY WalkIsFinite
<1>2. \A d, e \in ToVisit(u) : VisitedBefore(d, e) => Rank(d) < Rank(e)
  BY LaterHasMoreBefore
<1>3. \A e : \A d \in VisitedFirst(e, u) : d \in ToVisit(u) /\ VisitedBefore(d, e)
  BY DEF VisitedFirst
<1>4. PageNow(u) = {e \in ToVisit(u) : Rank(e) < Limit}
  BY DEF PageNow
<1>5. \A e : VisitedFirst(e, u) = {} => Rank(e) = 0
  BY FS_EmptySet
<1> HIDE DEF Rank
<1>6. PageNow(u) # {}
  <2> DEFINE T == {Rank(e) : e \in ToVisit(u)}
  <2>1. T \subseteq Nat /\ T # {}
    BY <1>1
  <2>2. PICK n \in T : \A m \in T : n <= m
    BY <2>1, LeastNatural
  <2>3. PICK e \in ToVisit(u) : Rank(e) = n
    OBVIOUS
  <2>4. \A d \in ToVisit(u) : Rank(e) <= Rank(d)
    BY <2>2, <2>3
  <2>5. VisitedFirst(e, u) = {}
    <3> SUFFICES ASSUME NEW d \in VisitedFirst(e, u) PROVE FALSE
      OBVIOUS
    <3>1. d \in ToVisit(u) /\ Rank(d) < Rank(e) /\ Rank(e) <= Rank(d)
      BY <1>2, <1>3, <2>4
    <3> QED
      BY <1>1, <3>1
  <2>6. Rank(e) < Limit
    BY <1>0, <1>5, <2>5
  <2> QED
    BY <1>4, <2>6
<1>7. \E e \in PageNow(u) : \A d \in PageNow(u) : Rank(d) <= Rank(e)
  <2> DEFINE T == {Limit - Rank(e) : e \in PageNow(u)}
  <2>1. T \subseteq Nat /\ T # {}
    BY <1>0, <1>1, <1>4, <1>6
  <2>2. PICK n \in T : \A m \in T : n <= m
    BY <2>1, LeastNatural
  <2>3. PICK e \in PageNow(u) : Limit - Rank(e) = n
    OBVIOUS
  <2>4. ASSUME NEW d \in PageNow(u) PROVE Rank(d) <= Rank(e)
    <3>1. Limit - Rank(e) <= Limit - Rank(d)
      BY <2>2, <2>3
    <3> QED
      BY <1>0, <1>1, <3>1
  <2> QED
    BY <2>4
<1>8. PICK e \in PageNow(u) : \A d \in PageNow(u) : Rank(d) <= Rank(e)
  BY <1>7
<1>9. PageNow(u) \subseteq VisitedFirst(e, u) \cup {e}
  <2> SUFFICES ASSUME NEW d \in PageNow(u), d # e PROVE d \in VisitedFirst(e, u)
    OBVIOUS
  <2>1. d \in ToVisit(u) /\ e \in ToVisit(u) /\ d \in Seq(AllNames) /\ e \in Seq(AllNames)
    BY <1>4, WalkIsFinite
  <2>2. VisitedBefore(d, e) \/ VisitedBefore(e, d)
    BY <2>1, RanksAreRankings, OrderIsTotal DEF VisitedBefore
  <2>3. ~VisitedBefore(e, d)
    <3> SUFFICES ASSUME VisitedBefore(e, d) PROVE FALSE
      OBVIOUS
    <3>1. Rank(e) < Rank(d) /\ Rank(d) <= Rank(e)
      BY <1>2, <1>8, <2>1
    <3> QED
      BY <1>1, <3>1
  <2> QED
    BY <2>1, <2>2, <2>3 DEF VisitedFirst
<1>10. LastNow(u) \in PageNow(u) /\ PageNow(u) \subseteq VisitedFirst(LastNow(u), u) \cup {LastNow(u)}
  BY <1>9 DEF LastNow
<1>11. ASSUME NEW d \in VisitedFirst(LastNow(u), u) PROVE d \in PageNow(u)
  <2>1. d \in ToVisit(u) /\ VisitedBefore(d, LastNow(u)) /\ LastNow(u) \in ToVisit(u) /\ Rank(LastNow(u)) < Limit
    BY <1>3, <1>4, <1>10
  <2>2. Rank(d) < Rank(LastNow(u))
    BY <1>2, <2>1
  <2>3. Rank(d) < Limit
    BY <1>0, <1>1, <2>1, <2>2
  <2> QED
    BY <1>4, <2>1, <2>3
<1> QED
  BY <1>10, <1>11

(***************************************************************************)
(* The inductive invariant.                                                *)
(***************************************************************************)

\* What was listed lies behind the cursor, and so is skipped by the next page.
ListedAreSkipped == ~finished => \A p \in Paths : listed[p] > 0 => Skipped(p)

\* What stays and lies behind the cursor was listed, or not seen.
SkippedWereListed ==
    ~finished => \A p \in steady : Skipped(p) => listed[p] = 1 \/ (p \in missed /\ listed[p] = 0)

\* What a listing owes a file that stays.
Accounted(p) == listed[p] = 1 \/ (p \in missed /\ listed[p] = 0)

IInv == TypeOK /\ ListedAreSkipped /\ SkippedWereListed /\ EverySteadyFileOnce

\* The two orders agree on the names, as they do on lower-case letters.
SameOrder ==
    \A m, n \in AllNames : LocaleRank[m] < LocaleRank[n] <=> CodeRank[m] < CodeRank[n]

\* Then they agree on the keys.
LEMMA OrdersAgree ==
    ASSUME SameOrder, NEW p \in Seq(AllNames), NEW q \in Seq(AllNames)
    PROVE  VisitedBefore(p, q) <=> KeyBelow(p, q)
<1>1. ASSUME NEW i \in Nat
      PROVE  SmallerAt(LocaleRank, p, q, i) <=> SmallerAt(CodeRank, p, q, i)
  <2>1. i \in 1 .. Len(p) => p[i] \in AllNames
    OBVIOUS
  <2>2. i \in 1 .. Len(q) => q[i] \in AllNames
    OBVIOUS
  <2> QED
    BY <2>1, <2>2 DEF SmallerAt, SameOrder
<1> QED
  BY <1>1, OrderShape DEF VisitedBefore, KeyBelow

\* The parts of a page.
LEMMA PageStep ==
    ASSUME NEW u, PageWithout(u)
    PROVE  /\ UNCHANGED <<tree, steady, changes>>
           /\ listed' = [p \in Paths |-> IF p \in PageNow(u) /\ listed[p] < 2
                                         THEN listed[p] + 1 ELSE listed[p]]
           /\ finished' = (PageNow(u) = ToVisit(u))
           /\ cursor' = IF PageNow(u) = ToVisit(u) THEN None ELSE LastNow(u)
           /\ missed' = missed \cup {p \in tree : ~Skipped(p) /\ Unseen(p, u)}
BY DEF PageWithout, PageNow, LastNow

\* A page keeps the types.
LEMMA PageKeepsTypes ==
    ASSUME TypeOK, NEW u, PageWithout(u)
    PROVE  TypeOK'
<1>1. listed' \in [Paths -> 0 .. 2]
  <2> SUFFICES ASSUME NEW p \in Paths
               PROVE  (IF p \in PageNow(u) /\ listed[p] < 2
                       THEN listed[p] + 1 ELSE listed[p]) \in 0 .. 2
    BY PageStep
  <2>1. listed[p] \in 0 .. 2
    BY DEF TypeOK
  <2> QED
    BY <2>1
<1>2. cursor' \in Paths \cup Directories(Paths) \cup {None}
  <2>1. CASE PageNow(u) = ToVisit(u)
    BY <2>1, PageStep
  <2>2. CASE PageNow(u) # ToVisit(u)
    <3>1. ToVisit(u) # {}
      BY <2>2 DEF PageNow
    <3>2. LastNow(u) \in Entries
      BY <3>1, PageIsABeginning, WalkIsFinite DEF PageNow
    <3> QED
      BY <2>2, <3>2, PageStep DEF Entries
  <2> QED
    BY <2>1, <2>2
<1>3. finished' \in BOOLEAN
  BY PageStep
<1>4. missed' \in SUBSET Paths
  BY PageStep DEF TypeOK
<1> QED
  BY <1>1, <1>2, <1>3, <1>4, PageStep DEF TypeOK

\* The next page begins where this one ended, and so the count of no file is wrong.
LEMMA PageKeeps ==
    ASSUME SameOrder, IInv, ~finished, NEW u, PageWithout(u)
    PROVE  IInv'
<1>0. TypeOK /\ TypeOK' /\ ~finished
  BY PageKeepsTypes, PageStep DEF IInv
<1>1. ASSUME NEW p \in Paths PROVE listed[p] \in 0 .. 2
  BY <1>0 DEF TypeOK
<1>2. ASSUME NEW p \in Paths
      PROVE  /\ p \notin PageNow(u) => listed'[p] = listed[p]
             /\ p \in PageNow(u) /\ listed[p] = 0 => listed'[p] = 1
  BY <1>1, PageStep
<1>3. ASSUME NEW p \in steady
      PROVE  /\ p \in Paths /\ p \in Seq(AllNames) /\ p \in Entries
             /\ Skipped(p) => Accounted(p) /\ p \notin PageNow(u)
             /\ ~Skipped(p) => listed[p] = 0 /\ (p \in ToVisit(u) \/ p \in missed')
  <2>1. p \in tree /\ p \in Paths
    BY <1>0 DEF TypeOK
  <2>2. p \in Seq(AllNames) /\ p \in Entries
    BY <2>1, EntriesAreFinite DEF Entries
  <2>3. Skipped(p) => Accounted(p) /\ p \notin PageNow(u)
    BY <1>0 DEF Accounted, IInv, SkippedWereListed, PageNow, ToVisit
  <2>4. ASSUME ~Skipped(p) PROVE listed[p] = 0 /\ (p \in ToVisit(u) \/ p \in missed')
    BY <1>0, <1>1, <2>1, <2>4, PageStep DEF IInv, ListedAreSkipped, ToVisit
  <2> QED
    BY <2>1, <2>2, <2>3, <2>4
<1>6. missed \subseteq missed'
  BY PageStep
<1>4. CASE PageNow(u) = ToVisit(u)
  <2>1. finished' /\ steady' = steady
    BY <1>4, PageStep
  <2>2. ASSUME NEW p \in steady PROVE Accounted(p)'
    <3>1. CASE Skipped(p)
      BY <1>2, <1>3, <1>6, <3>1 DEF Accounted
    <3>2. CASE ~Skipped(p) /\ p \in PageNow(u)
      BY <1>2, <1>3, <3>2 DEF Accounted
    <3>3. CASE ~Skipped(p) /\ p \notin PageNow(u)
      BY <1>2, <1>3, <1>4, <3>3 DEF Accounted
    <3> QED
      BY <3>1, <3>2, <3>3
  <2> QED
    BY <1>0, <2>1, <2>2
    DEF IInv, ListedAreSkipped, SkippedWereListed, EverySteadyFileOnce, Accounted
<1>5. CASE PageNow(u) # ToVisit(u)
  <2>1. ~finished' /\ steady' = steady /\ cursor' = LastNow(u)
    BY <1>5, PageStep
  <2>2. ToVisit(u) # {}
    BY <1>5 DEF PageNow
  <2>3. /\ LastNow(u) \in ToVisit(u) /\ LastNow(u) \in Entries /\ LastNow(u) \in Seq(AllNames)
        /\ PageNow(u) \subseteq VisitedFirst(LastNow(u), u) \cup {LastNow(u)}
        /\ VisitedFirst(LastNow(u), u) \subseteq PageNow(u) /\ LastNow(u) \in PageNow(u)
    BY <1>0, <2>2, PageIsABeginning, WalkIsFinite DEF PageNow
  <2>4. LastNow(u) # None
    BY <2>3, NoneAssumption DEF Entries
  <2>5. \A e : Skipped(e)' <=> e = LastNow(u) \/ KeyBelow(e, LastNow(u))
    BY <2>1, <2>4 DEF Skipped
  <2>6. ASSUME NEW e \in Entries, Skipped(e) PROVE Skipped(e)'
    <3>1. cursor \in Entries /\ cursor \in Seq(AllNames) /\ e \in Seq(AllNames)
      BY <1>0, <2>6, EntriesAreFinite DEF Skipped, TypeOK, Entries
    <3>2. LastNow(u) # cursor /\ ~KeyBelow(LastNow(u), cursor)
      BY <2>3, <2>6 DEF ToVisit, Skipped
    <3>3. KeyBelow(cursor, LastNow(u))
      BY <2>3, <3>1, <3>2, RanksAreRankings, OrderIsTotal DEF KeyBelow
    <3>4. e = cursor \/ KeyBelow(e, cursor)
      BY <2>6 DEF Skipped
    <3>5. KeyBelow(e, LastNow(u))
      BY <2>3, <3>1, <3>3, <3>4, RanksAreRankings, OrderIsTransitive DEF KeyBelow
    <3> QED
      BY <2>5, <3>5
  <2>7. ASSUME NEW e \in PageNow(u) PROVE Skipped(e)'
    <3>1. e \in Seq(AllNames) /\ (e = LastNow(u) \/ VisitedBefore(e, LastNow(u)))
      BY <1>0, <2>3, WalkIsFinite DEF PageNow, VisitedFirst
    <3> QED
      BY <2>3, <2>5, <3>1, OrdersAgree
  <2>8. ListedAreSkipped'
    <3> SUFFICES ASSUME NEW p \in Paths, listed'[p] > 0 PROVE Skipped(p)'
      BY DEF ListedAreSkipped
    <3>1. CASE p \in PageNow(u)
      BY <2>7, <3>1
    <3>2. CASE p \notin PageNow(u)
      <4>1. listed[p] > 0 /\ p \in Entries
        BY <1>2, <3>2 DEF Entries
      <4>2. Skipped(p)
        BY <1>0, <4>1 DEF IInv, ListedAreSkipped
      <4> QED
        BY <2>6, <4>1, <4>2
    <3> QED
      BY <3>1, <3>2
  <2>9. SkippedWereListed'
    <3> SUFFICES ASSUME NEW p \in steady, Skipped(p)' PROVE Accounted(p)'
      BY <2>1 DEF SkippedWereListed, Accounted
    <3>1. CASE Skipped(p)
      BY <1>2, <1>3, <1>6, <3>1 DEF Accounted
    <3>2. CASE ~Skipped(p) /\ p \notin ToVisit(u)
      BY <1>2, <1>3, <3>2 DEF Accounted, PageNow
    <3>3. CASE ~Skipped(p) /\ p \in ToVisit(u)
      <4>1. p \in ToVisit(u) /\ p \in Seq(AllNames) /\ p \in Paths /\ listed[p] = 0
        BY <1>3, <3>3
      <4>2. p = LastNow(u) \/ VisitedBefore(p, LastNow(u))
        BY <2>3, <2>5, <4>1, OrdersAgree
      <4>3. p \in PageNow(u)
        BY <2>3, <4>1, <4>2 DEF VisitedFirst
      <4> QED
        BY <1>2, <4>1, <4>3 DEF Accounted
    <3> QED
      BY <3>1, <3>2, <3>3
  <2> QED
    BY <1>0, <2>1, <2>8, <2>9 DEF IInv, EverySteadyFileOnce
<1> QED
  BY <1>4, <1>5

\* Others change the files, not what was listed.
LEMMA OthersKeepTypes ==
    ASSUME TypeOK, Others
    PROVE  TypeOK'
<1>1. PICK p \in Paths : Create(p) \/ (p \in tree /\ Unlink(p))
  BY DEF Others
<1>2. changes \in Nat /\ MaxChanges \in Nat /\ changes < MaxChanges /\ changes' = changes + 1
  BY <1>1, LimitAssumption DEF Create, Unlink, TypeOK
<1>3. changes' \in 0 .. MaxChanges
  BY <1>2
<1>4. CASE Create(p)
  BY <1>3, <1>4 DEF Create, TypeOK
<1>5. CASE Unlink(p)
  <2>1. WellFormed(tree \ {p})
    BY DEF TypeOK, WellFormed
  <2> QED
    BY <1>3, <1>5, <2>1 DEF Unlink, TypeOK
<1> QED
  BY <1>1, <1>4, <1>5

LEMMA OthersKeep ==
    ASSUME IInv, ~finished, Others
    PROVE  IInv'
<1>1. /\ UNCHANGED <<cursor, finished, listed, missed>> /\ steady' \subseteq steady
  BY DEF Others, Create, Unlink
<1>2. TypeOK'
  BY OthersKeepTypes DEF IInv
<1> QED
  BY <1>1, <1>2
  DEF IInv, ListedAreSkipped, SkippedWereListed, EverySteadyFileOnce, Skipped

(***************************************************************************)
(* The theorems.                                                           *)
(***************************************************************************)

\* Nothing was listed before the first page.
LEMMA InitTypes == Init => TypeOK
<1> SUFFICES ASSUME Init PROVE TypeOK
  OBVIOUS
<1>1. tree \in SUBSET Paths /\ WellFormed(tree) /\ steady = tree /\ missed = {}
  BY DEF Init
<1>2. listed = [p \in Paths |-> 0] /\ listed \in [Paths -> 0 .. 2]
  BY DEF Init
<1>3. changes = 0 /\ changes \in 0 .. MaxChanges
  BY LimitAssumption DEF Init
<1>4. cursor \in Paths \cup Directories(Paths) \cup {None} /\ finished \in BOOLEAN
  BY DEF Init
<1> QED
  BY <1>1, <1>2, <1>3, <1>4 DEF TypeOK

\* Types: a cursor is the key of a file or a directory, and no name is both.
THEOREM LocalListingTypeCorrect == Spec => []TypeOK
<1>1. Init => TypeOK
  BY InitTypes
<1>2. TypeOK /\ [Next]_vars => TypeOK'
  <2> SUFFICES ASSUME TypeOK, [Next]_vars PROVE TypeOK'
    OBVIOUS
  <2>1. CASE UNCHANGED vars
    BY <2>1 DEF vars, TypeOK
  <2> QED
    BY <2>1, PageKeepsTypes, OthersKeepTypes DEF Next, Page
<1> QED
  BY <1>1, <1>2, PTL DEF Spec

\* Where the order of a walk is that of the cursor, iterate() yields every file
\* that stays exactly once, wherever its pages end and whatever others do, but for
\* what lay in a directory that a page could not read.
THEOREM PagesLoseNothing ==
    ASSUME SameOrder
    PROVE  Spec => []EverySteadyFileOnce
<1>1. Init => IInv
  BY InitTypes
  DEF Init, IInv, ListedAreSkipped, SkippedWereListed, EverySteadyFileOnce, Skipped
<1>2. IInv /\ [Next]_vars => IInv'
  <2> SUFFICES ASSUME IInv, [Next]_vars PROVE IInv'
    OBVIOUS
  <2>1. CASE UNCHANGED vars
    BY <2>1
    DEF vars, IInv, TypeOK, ListedAreSkipped, SkippedWereListed, EverySteadyFileOnce, Skipped
  <2> QED
    BY <2>1, PageKeeps, OthersKeep DEF Next, Page
<1>3. IInv => EverySteadyFileOnce
  BY DEF IInv
<1> QED
  BY <1>1, <1>2, <1>3, PTL DEF Spec
=============================================================================
