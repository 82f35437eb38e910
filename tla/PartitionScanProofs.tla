------------------------ MODULE PartitionScanProofs ------------------------
(***************************************************************************)
(* Proofs about the partition scanner, for every image, table, window and  *)
(* mode of the search.                                                     *)
(***************************************************************************)
EXTENDS PartitionScan, NumberLemmas, FiniteSetTheorems, SequenceTheorems

-----------------------------------------------------------------------------
(* The sweep over the table's extents.                                     *)

Start == [cursor |-> MiB, gaps |-> <<>>]

After(f, S) == IF S = {} THEN Start ELSE PastUsed(f[S \ {LastOf(S)}], LastOf(S))

SweepLaw(f, E) == f = [S \in SUBSET E |-> After(f, S)]

LEMMA SweptIs ==
  ASSUME NEW E
  PROVE  Swept(E) = (CHOOSE f : SweepLaw(f, E))[E]
BY DEF Swept, MapThenFoldSet, SweepLaw, After, Start

Extent2 == Nat \X Nat

LEMMA LexOrder ==
  /\ \A u, v \in Extent2 : Lex(u, v) \/ Lex(v, u)
  /\ \A u, v, w \in Extent2 : Lex(u, v) /\ Lex(v, w) => Lex(u, w)
BY DEF Lex, Extent2

(* A set of extents that is finite and not empty has a last one.           *)
LEMMA LastExists ==
  ASSUME NEW S, S \subseteq Extent2, IsFiniteSet(S), S # {}
  PROVE  \E u \in S : \A v \in S : Lex(v, u)
<1> DEFINE Fails(Q) == Q # {} /\ ~\E u \in Q : \A v \in Q : Lex(v, u)
           T == {Cardinality(Q) : Q \in {R \in SUBSET S : Fails(R)}}
<1>1. \A Q \in SUBSET S : IsFiniteSet(Q) /\ Cardinality(Q) \in Nat
  BY FS_Subset, FS_CardinalityType
<1>2. SUFFICES ASSUME Fails(S) PROVE FALSE
  OBVIOUS
<1>3. T # {} /\ T \subseteq Nat
  BY <1>1, <1>2
<1> HIDE DEF Fails
<1>4. PICK n \in T : \A m \in T : n <= m
  <2> HIDE DEF T
  <2> QED BY <1>3, LeastOf
<1>5. PICK Q \in SUBSET S : Fails(Q) /\ Cardinality(Q) = n
  BY <1>4
<1>6. PICK x \in Q : TRUE
  BY <1>5 DEF Fails
<1> DEFINE R == Q \ {x}
<1>7. /\ R \in SUBSET S /\ Cardinality(R) = Cardinality(Q) - 1
      /\ Cardinality(R) \in Nat /\ Cardinality(Q) \in Nat
  BY <1>1, <1>5, <1>6, FS_RemoveElement
<1>8. ~Fails(R)
  <2>1. SUFFICES ASSUME Fails(R) PROVE FALSE
    OBVIOUS
  <2>2. Cardinality(R) \in T
    BY <1>7, <2>1
  <2> QED BY <1>4, <1>5, <1>7, <2>2
<1>9. CASE R = {}
  <2>1. Q = {x} /\ x \in Extent2
    BY <1>6, <1>9, <1>5
  <2>2. Lex(x, x)
    BY <2>1, LexOrder
  <2> QED BY <1>5, <2>1, <2>2 DEF Fails
<1>10. CASE R # {}
  <2>1. PICK m \in R : \A v \in R : Lex(v, m)
    BY <1>8, <1>10 DEF Fails
  <2>2. x \in Extent2 /\ m \in Extent2 /\ m \in Q /\ \A v \in Q : v = x \/ v \in R
    BY <1>5, <1>6, <2>1
  <2>3. Lex(x, x) /\ (Lex(x, m) \/ Lex(m, x))
    BY <2>2, LexOrder
  <2>4. CASE Lex(x, m)
    BY <1>5, <2>1, <2>2, <2>4 DEF Fails
  <2>5. CASE Lex(m, x)
    <3>1. \A v \in R : v \in Extent2 /\ Lex(v, x)
      BY <1>7, <2>1, <2>2, <2>5, LexOrder
    <3> QED BY <1>5, <1>6, <2>2, <2>3, <3>1 DEF Fails
  <2> QED BY <2>3, <2>4, <2>5
<1> QED BY <1>9, <1>10

LEMMA LastFacts ==
  ASSUME NEW S, S \subseteq Extent2, IsFiniteSet(S), S # {}
  PROVE  LastOf(S) \in S /\ \A v \in S : Lex(v, LastOf(S))
<1>1. \E u \in S : \A v \in S : Lex(v, u)
  BY LastExists
<1> QED BY <1>1 DEF LastOf

(* The sweep is defined: one function obeys its law.                       *)
Small(E, n) == {S \in SUBSET E : Cardinality(S) <= n}
SweepUpTo(f, E, n) == f = [S \in Small(E, n) |-> After(f, S)]

LEMMA SmallerIs ==
  ASSUME NEW E, E \subseteq Extent2, IsFiniteSet(E), NEW n \in Nat,
         NEW S \in SUBSET E, Cardinality(S) <= n + 1, S # {}
  PROVE  S \ {LastOf(S)} \in Small(E, n)
<1>1. IsFiniteSet(S)
  BY FS_Subset
<1>2. LastOf(S) \in S
  BY <1>1, LastFacts
<1>3. Cardinality(S \ {LastOf(S)}) = Cardinality(S) - 1 /\ Cardinality(S) \in Nat
  BY <1>1, <1>2, FS_RemoveElement, FS_CardinalityType
<1> QED BY <1>3 DEF Small

LEMMA SweepExists ==
  ASSUME NEW E, E \subseteq Extent2, IsFiniteSet(E)
  PROVE  \E f : SweepLaw(f, E)
<1>1. \A S \in SUBSET E : IsFiniteSet(S) /\ Cardinality(S) \in Nat
  BY FS_Subset, FS_CardinalityType
<1> DEFINE T == {n \in Nat : ~\E f : SweepUpTo(f, E, n)}
<1>2. T = {}
  <2>1. SUFFICES ASSUME T # {} PROVE FALSE
    OBVIOUS
  <2>2. PICK n \in T : \A m \in T : n <= m
    <3>1. T \subseteq Nat
      OBVIOUS
    <3> HIDE DEF T
    <3> QED BY <2>1, <3>1, LeastOf
  <2>3. CASE n = 0
    <3> DEFINE f == [S \in Small(E, 0) |-> Start]
    <3>1. \A S \in Small(E, 0) : S = {}
      <4>1. SUFFICES ASSUME NEW S \in Small(E, 0) PROVE S = {}
        OBVIOUS
      <4>2. IsFiniteSet(S) /\ Cardinality(S) = 0
        BY <1>1, <4>1 DEF Small
      <4> QED BY <4>2, FS_EmptySet
    <3>2. f = [S \in Small(E, 0) |-> After(f, S)]
      BY <3>1 DEF After
    <3>3. SweepUpTo(f, E, 0)
      BY <3>2 DEF SweepUpTo
    <3> QED BY <2>2, <2>3, <3>3
  <2>4. CASE n # 0
    <3> DEFINE k == n - 1
    <3>1. k \in Nat /\ n = k + 1 /\ k \notin T
      BY <2>2, <2>4
    <3>2. PICK g : SweepUpTo(g, E, k)
      BY <3>1
    <3> HIDE DEF k
    <3> DEFINE f == [S \in Small(E, n) |-> After(g, S)]
    <3>3. ASSUME NEW S \in Small(E, k) PROVE S \in Small(E, n) /\ f[S] = g[S]
      <4>1. S \in Small(E, n)
        BY <1>1, <3>1 DEF Small
      <4>2. g[S] = After(g, S)
        BY <3>2 DEF SweepUpTo
      <4> QED BY <4>1, <4>2
    <3>4. ASSUME NEW S \in Small(E, n) PROVE f[S] = After(f, S)
      <4>1. CASE S = {}
        BY <4>1 DEF After
      <4>2. CASE S # {}
        <5>1. S \ {LastOf(S)} \in Small(E, k)
          BY <3>1, <4>2, SmallerIs DEF Small
        <5>2. f[S \ {LastOf(S)}] = g[S \ {LastOf(S)}]
          BY <3>3, <5>1
        <5> QED BY <4>2, <5>2 DEF After
      <4> QED BY <4>1, <4>2
    <3>5. SweepUpTo(f, E, n)
      <4>1. DOMAIN f = Small(E, n) /\ f = [S \in DOMAIN f |-> f[S]]
        OBVIOUS
      <4> HIDE DEF f
      <4> QED BY <3>4, <4>1 DEF SweepUpTo
    <3> QED BY <2>2, <3>5
  <2> QED BY <2>3, <2>4
<1>3. Cardinality(E) \in Nat
  BY <1>1
<1>4. PICK f : SweepUpTo(f, E, Cardinality(E))
  BY <1>2, <1>3
<1>5. Small(E, Cardinality(E)) = SUBSET E
  BY FS_Subset DEF Small
<1> QED BY <1>4, <1>5 DEF SweepUpTo, SweepLaw

(* What the sweep has when it is past the extents of S.                    *)
FreeGap == {g \in [from : Nat, to : Nat] : g.from < g.to}

Apart(g, u) == u[2] <= g.from \/ g.to <= u[1]

GoodSweep(a, S) ==
  /\ a.cursor \in Nat /\ a.gaps \in Seq(FreeGap)
  /\ \A u \in S : u[2] <= a.cursor
  /\ \A i \in DOMAIN a.gaps :
       /\ \E u \in S : a.gaps[i].to = u[1]
       /\ \A u \in S : Apart(a.gaps[i], u)

LEMMA PastUsedGood ==
  ASSUME NEW S, S \subseteq Extent2, NEW u \in S, \A v \in S : Lex(v, u),
         NEW a, GoodSweep(a, S \ {u})
  PROVE  GoodSweep(PastUsed(a, u), S)
<1> DEFINE b == PastUsed(a, u)
           new == [from |-> a.cursor, to |-> u[1]]
<1>1. a.cursor \in Nat /\ a.gaps \in Seq(FreeGap) /\ u[1] \in Nat /\ u[2] \in Nat
  BY DEF GoodSweep, Extent2
<1>2. b.cursor = Most(a.cursor, u[2])
      /\ b.gaps = IF u[1] > a.cursor THEN Append(a.gaps, new) ELSE a.gaps
  BY DEF PastUsed
<1>3. b.cursor \in Nat /\ a.cursor <= b.cursor /\ u[2] <= b.cursor
  BY <1>1, <1>2 DEF Most
<1>4. \A v \in S : v[2] <= b.cursor
  <2>1. \A v \in S \ {u} : v[2] <= a.cursor /\ v[2] \in Nat
    BY DEF GoodSweep, Extent2
  <2> QED BY <1>1, <1>3, <2>1
<1>5. ASSUME NEW i \in DOMAIN a.gaps
      PROVE  /\ \E v \in S : a.gaps[i].to = v[1]
             /\ \A v \in S : Apart(a.gaps[i], v)
  <2>1. PICK w \in S \ {u} : a.gaps[i].to = w[1]
    BY DEF GoodSweep
  <2>2. a.gaps[i].to <= u[1]
    BY <2>1, <1>1 DEF Lex, Extent2
  <2>3. \A v \in S \ {u} : Apart(a.gaps[i], v)
    BY DEF GoodSweep
  <2> QED BY <2>1, <2>2, <2>3 DEF Apart
<1>6. CASE ~(u[1] > a.cursor)
  <2>1. b.gaps = a.gaps
    BY <1>2, <1>6
  <2> HIDE DEF b
  <2> QED BY <1>1, <1>3, <1>4, <1>5, <2>1 DEF GoodSweep, b
<1>7. CASE u[1] > a.cursor
  <2>1. new \in FreeGap
    BY <1>1, <1>7 DEF FreeGap
  <2>2. b.gaps = Append(a.gaps, new)
    BY <1>2, <1>7
  <2>4. new.to = u[1] /\ new.from = a.cursor
    OBVIOUS
  <2> HIDE DEF b, new
  <2>3. ASSUME NEW v \in S PROVE Apart(new, v)
    <3>1. CASE v = u
      BY <1>1, <2>4, <3>1 DEF Apart
    <3>2. CASE v # u
      <4>1. v[2] <= a.cursor
        BY <3>2 DEF GoodSweep
      <4> QED BY <2>4, <4>1 DEF Apart
    <3> QED BY <3>1, <3>2
  <2>5. /\ b.gaps \in Seq(FreeGap) /\ Len(b.gaps) = Len(a.gaps) + 1
        /\ \A i \in 1..Len(a.gaps) : b.gaps[i] = a.gaps[i]
        /\ b.gaps[Len(a.gaps) + 1] = new
    BY <1>1, <2>1, <2>2
  <2>6. ASSUME NEW i \in DOMAIN b.gaps
        PROVE  /\ \E v \in S : b.gaps[i].to = v[1]
               /\ \A v \in S : Apart(b.gaps[i], v)
    <3>1. CASE i \in DOMAIN a.gaps
      <4>1. b.gaps[i] = a.gaps[i]
        BY <1>1, <2>5, <3>1
      <4> QED BY <1>5, <3>1, <4>1
    <3>2. CASE i \notin DOMAIN a.gaps
      <4>1. b.gaps[i] = new
        <5>1. i = Len(a.gaps) + 1
          BY <1>1, <2>5, <3>2
        <5> QED BY <2>5, <5>1
      <4> QED BY <2>3, <2>4, <4>1
    <3> QED BY <3>1, <3>2
  <2> QED BY <1>3, <1>4, <2>5, <2>6 DEF GoodSweep, b
<1> QED BY <1>6, <1>7

LEMMA SweptFacts ==
  ASSUME NEW E, E \subseteq Extent2, IsFiniteSet(E)
  PROVE  GoodSweep(Swept(E), E)
<1> DEFINE f == CHOOSE g : SweepLaw(g, E)
<1>1. SweepLaw(f, E)
  BY SweepExists
<1>2. Swept(E) = f[E]
  BY SweptIs
<1> HIDE DEF f
<1>3. \A S \in SUBSET E : IsFiniteSet(S) /\ Cardinality(S) \in Nat
  BY FS_Subset, FS_CardinalityType
<1> DEFINE Bad == {S \in SUBSET E : ~GoodSweep(f[S], S)}
           T == {Cardinality(S) : S \in Bad}
<1>4. Bad = {}
  <2>1. SUFFICES ASSUME Bad # {} PROVE FALSE
    OBVIOUS
  <2>2. PICK n \in T : \A m \in T : n <= m
    <3>1. T \subseteq Nat /\ T # {}
      BY <1>3, <2>1
    <3> HIDE DEF T
    <3> QED BY <3>1, LeastOf
  <2>3. PICK S \in Bad : Cardinality(S) = n
    BY <2>2
  <2>4. f[S] = After(f, S)
    BY <1>1, <2>3 DEF SweepLaw
  <2>5. CASE S = {}
    <3>1. f[S] = Start
      BY <2>4, <2>5 DEF After
    <3>2. GoodSweep(Start, {})
      BY WindowAssumption DEF GoodSweep, Start
    <3> QED BY <2>3, <2>5, <3>1, <3>2
  <2>6. CASE S # {}
    <3> DEFINE u == LastOf(S)
               R == S \ {u}
    <3>1. S \in SUBSET E /\ IsFiniteSet(S) /\ S \subseteq Extent2
      BY <1>3, <2>3
    <3>2. u \in S /\ \A v \in S : Lex(v, u)
      BY <2>6, <3>1, LastFacts
    <3>3. R \in SUBSET E /\ Cardinality(R) = Cardinality(S) - 1
      BY <3>1, <3>2, FS_RemoveElement
    <3>4. GoodSweep(f[R], R)
      <4>1. Cardinality(R) \in Nat /\ Cardinality(S) \in Nat
        BY <1>3, <3>1, <3>3
      <4>2. Cardinality(R) \notin T
        BY <2>2, <2>3, <3>3, <4>1
      <4>3. R \notin Bad
        BY <4>2
      <4> QED BY <3>3, <4>3
    <3>5. f[S] = PastUsed(f[R], u)
      BY <2>4, <2>6 DEF After
    <3> HIDE DEF u
    <3>6. GoodSweep(PastUsed(f[R], u), S)
      BY <3>1, <3>2, <3>4, PastUsedGood
    <3> QED BY <2>3, <3>5, <3>6
  <2> QED BY <2>5, <2>6
<1> QED BY <1>2, <1>4

-----------------------------------------------------------------------------
(* Picking the elements of a sequence.                                     *)

PickStep(f, seq, at, n) ==
  IF n = 0 THEN <<>>
  ELSE IF n \in at THEN Append(f[n - 1], seq[n]) ELSE f[n - 1]

PickUpTo(f, seq, at, m) == f = [n \in 0..m |-> PickStep(f, seq, at, n)]

LEMMA PickedIs ==
  ASSUME NEW seq, NEW at
  PROVE  Picked(seq, at) = (CHOOSE f : PickUpTo(f, seq, at, Len(seq)))[Len(seq)]
BY DEF Picked, PickUpTo, PickStep

LEMMA PickExists ==
  ASSUME NEW seq, NEW at, NEW m \in Nat
  PROVE  \E f : PickUpTo(f, seq, at, m)
<1> DEFINE T == {n \in Nat : ~\E f : PickUpTo(f, seq, at, n)}
<1>1. SUFFICES ASSUME T # {} PROVE FALSE
  OBVIOUS
<1>2. PICK n \in T : \A k \in T : n <= k
  <2>1. T \subseteq Nat
    OBVIOUS
  <2> HIDE DEF T
  <2> QED BY <1>1, <2>1, LeastOf
<1>3. CASE n = 0
  <2> DEFINE f == [k \in 0..0 |-> <<>>]
  <2>1. f = [k \in 0..0 |-> PickStep(f, seq, at, k)]
    BY DEF PickStep
  <2> HIDE DEF f
  <2>2. PickUpTo(f, seq, at, 0)
    BY <2>1 DEF PickUpTo
  <2> QED BY <1>2, <1>3, <2>2
<1>4. CASE n # 0
  <2> DEFINE k == n - 1
  <2>1. k \in Nat /\ n = k + 1 /\ k \notin T
    BY <1>2, <1>4
  <2>2. PICK g : PickUpTo(g, seq, at, k)
    BY <2>1
  <2> HIDE DEF k
  <2> DEFINE f == [i \in 0..n |-> PickStep(g, seq, at, i)]
  <2>3. ASSUME NEW i \in 0..k PROVE i \in 0..n /\ f[i] = g[i]
    <3>1. i \in 0..n
      BY <2>1
    <3>2. g[i] = PickStep(g, seq, at, i)
      BY <2>2 DEF PickUpTo
    <3> QED BY <3>1, <3>2
  <2>4. ASSUME NEW i \in 0..n PROVE f[i] = PickStep(f, seq, at, i)
    <3>1. CASE i = 0
      BY <3>1 DEF PickStep
    <3>2. CASE i # 0
      <4>1. i - 1 \in 0..k
        BY <2>1, <3>2
      <4>2. f[i - 1] = g[i - 1]
        BY <2>3, <4>1
      <4> QED BY <3>2, <4>2 DEF PickStep
    <3> QED BY <3>1, <3>2
  <2>5. DOMAIN f = 0..n /\ f = [i \in DOMAIN f |-> f[i]]
    OBVIOUS
  <2> HIDE DEF f
  <2>6. PickUpTo(f, seq, at, n)
    BY <2>4, <2>5 DEF PickUpTo
  <2> QED BY <1>2, <2>6
<1> QED BY <1>3, <1>4

(* What is picked has what the elements at the given positions have, and   *)
(* picking at more positions gives no fewer elements.                      *)
LEMMA PickedFacts ==
  ASSUME NEW S, NEW seq \in Seq(S), NEW at, NEW more, at \cap DOMAIN seq \subseteq more,
         NEW Q, \A i \in at \cap DOMAIN seq : seq[i] \in Q
  PROVE  /\ Picked(seq, at) \in Seq(Q)
         /\ Len(Picked(seq, at)) <= Len(Picked(seq, more))
<1> DEFINE f == CHOOSE h : PickUpTo(h, seq, at, Len(seq))
           g == CHOOSE h : PickUpTo(h, seq, more, Len(seq))
           Ok(n) == f[n] \in Seq(Q) /\ g[n] \in Seq(S) /\ Len(f[n]) <= Len(g[n])
           T == {n \in 0..Len(seq) : ~Ok(n)}
<1>1. Len(seq) \in Nat /\ DOMAIN seq = 1..Len(seq) /\ \A n \in 1..Len(seq) : seq[n] \in S
  OBVIOUS
<1>2. PickUpTo(f, seq, at, Len(seq)) /\ PickUpTo(g, seq, more, Len(seq))
  <2>1. \E h : PickUpTo(h, seq, at, Len(seq))
    BY <1>1, PickExists
  <2>2. \E h : PickUpTo(h, seq, more, Len(seq))
    BY <1>1, PickExists
  <2> QED BY <2>1, <2>2
<1>3. Picked(seq, at) = f[Len(seq)] /\ Picked(seq, more) = g[Len(seq)]
  BY PickedIs
<1> HIDE DEF f, g
<1>4. \A n \in 0..Len(seq) : f[n] = PickStep(f, seq, at, n) /\ g[n] = PickStep(g, seq, more, n)
  BY <1>2 DEF PickUpTo
<1>5. T = {}
  <2>1. SUFFICES ASSUME T # {} PROVE FALSE
    OBVIOUS
  <2>2. PICK n \in T : \A k \in T : n <= k
    <3>1. T \subseteq Nat
      OBVIOUS
    <3> HIDE DEF T
    <3> QED BY <2>1, <3>1, LeastOf
  <2>3. n \in 0..Len(seq) /\ ~Ok(n)
    BY <2>2
  <2>4. CASE n = 0
    <3>1. f[0] = <<>> /\ g[0] = <<>>
      BY <1>1, <1>4 DEF PickStep
    <3> QED BY <2>3, <2>4, <3>1
  <2>5. CASE n # 0
    <3>1. n - 1 \in 0..Len(seq) /\ n \in 1..Len(seq)
      BY <1>1, <2>3, <2>5
    <3>2. Ok(n - 1)
      <4>1. n - 1 \notin T
        BY <2>2, <3>1
      <4> HIDE DEF Ok
      <4> QED BY <3>1, <4>1
    <3> DEFINE p == f[n - 1]
               q == g[n - 1]
               x == seq[n]
    <3>3. p \in Seq(Q) /\ q \in Seq(S) /\ Len(p) <= Len(q) /\ x \in S
      BY <1>1, <3>1, <3>2
    <3>4. /\ f[n] = IF n \in at THEN Append(p, x) ELSE p
          /\ g[n] = IF n \in more THEN Append(q, x) ELSE q
      BY <1>4, <2>3, <2>5 DEF PickStep
    <3>5. n \in at => n \in more /\ x \in Q
      BY <1>1, <3>1
    <3> HIDE DEF p, q, x
    <3> QED BY <2>3, <3>3, <3>4, <3>5
  <2> QED BY <2>4, <2>5
<1>6. Ok(Len(seq))
  BY <1>1, <1>5
<1> QED BY <1>3, <1>6

(* As many elements are picked as there are positions, and they are the    *)
(* elements at those positions.                                            *)
LEMMA PickedExact ==
  ASSUME NEW S, NEW seq \in Seq(S), NEW at, at \subseteq DOMAIN seq
  PROVE  /\ Picked(seq, at) \in Seq(S)
         /\ IsFiniteSet(at) /\ Len(Picked(seq, at)) = Cardinality(at)
         /\ ToSet(Picked(seq, at)) = {seq[i] : i \in at}
<1> DEFINE f == CHOOSE h : PickUpTo(h, seq, at, Len(seq))
           upTo(n) == {i \in at : i <= n}
           Ok(n) == /\ f[n] \in Seq(S) /\ IsFiniteSet(upTo(n))
                    /\ Len(f[n]) = Cardinality(upTo(n))
                    /\ {f[n][i] : i \in DOMAIN f[n]} = {seq[i] : i \in upTo(n)}
           T == {n \in 0..Len(seq) : ~Ok(n)}
<1>1. Len(seq) \in Nat /\ DOMAIN seq = 1..Len(seq) /\ \A n \in 1..Len(seq) : seq[n] \in S
  OBVIOUS
<1>2. PickUpTo(f, seq, at, Len(seq))
  BY <1>1, PickExists
<1>3. Picked(seq, at) = f[Len(seq)]
  BY PickedIs
<1> HIDE DEF f
<1>4. \A n \in 0..Len(seq) : f[n] = PickStep(f, seq, at, n)
  BY <1>2 DEF PickUpTo
<1> HIDE DEF Ok
<1>5. T = {}
  <2>1. SUFFICES ASSUME T # {} PROVE FALSE
    OBVIOUS
  <2>2. PICK n \in T : \A k \in T : n <= k
    <3>1. T \subseteq Nat
      OBVIOUS
    <3> HIDE DEF T
    <3> QED BY <2>1, <3>1, LeastOf
  <2>3. n \in 0..Len(seq) /\ ~Ok(n)
    BY <2>2
  <2>4. CASE n = 0
    <3>1. f[0] = <<>> /\ upTo(0) = {}
      BY <1>1, <1>4 DEF PickStep
    <3>2. Len(<<>>) = 0 /\ <<>> \in Seq(S) /\ DOMAIN <<>> = {}
      OBVIOUS
    <3>3. IsFiniteSet({}) /\ Cardinality({}) = 0
      BY FS_EmptySet
    <3>4. Ok(0)
      BY <3>1, <3>2, <3>3 DEF Ok
    <3> QED BY <2>3, <2>4, <3>4
  <2>5. CASE n # 0
    <3>1. n - 1 \in 0..Len(seq) /\ n \in 1..Len(seq)
      BY <1>1, <2>3, <2>5
    <3>2. Ok(n - 1)
      <4>1. n - 1 \notin T
        BY <2>2, <3>1
      <4> QED BY <3>1, <4>1
    <3> DEFINE p == f[n - 1]
               x == seq[n]
               U == upTo(n - 1)
    <3>3. /\ p \in Seq(S) /\ x \in S /\ IsFiniteSet(U) /\ Len(p) = Cardinality(U)
          /\ {p[i] : i \in DOMAIN p} = {seq[i] : i \in U}
      BY <1>1, <3>1, <3>2 DEF Ok
    <3>4. f[n] = IF n \in at THEN Append(p, x) ELSE p
      BY <1>4, <2>3, <2>5 DEF PickStep
    <3>5. upTo(n) = (IF n \in at THEN U \cup {n} ELSE U) /\ n \notin U
      <4>1. \A i \in at : i \in Nat
        BY <1>1
      <4>2. n \in Nat
        BY <3>1
      <4> QED BY <4>1, <4>2
    <3>6. CASE n \in at
      <4>1. upTo(n) = U \cup {n} /\ f[n] = Append(p, x)
        BY <3>4, <3>5, <3>6
      <4>2. IsFiniteSet(upTo(n)) /\ Cardinality(upTo(n)) = Cardinality(U) + 1
        <5>1. IsFiniteSet(U) /\ n \notin U
          BY <3>3, <3>5
        <5> DEFINE W == upTo(n)
        <5>2. W = U \cup {n}
          BY <4>1
        <5> HIDE DEF U, W
        <5>3. IsFiniteSet(W) /\ Cardinality(W) = Cardinality(U) + 1
          BY <5>1, <5>2, FS_AddElement
        <5> QED BY <5>3 DEF W
      <4>3. /\ f[n] \in Seq(S) /\ Len(f[n]) = Len(p) + 1
            /\ f[n][Len(p) + 1] = x /\ \A i \in 1..Len(p) : f[n][i] = p[i]
        <5> DEFINE q == Append(p, x)
        <5>1. p \in Seq(S) /\ x \in S /\ f[n] = q
          BY <3>3, <4>1
        <5> HIDE DEF p, x
        <5>2. /\ q \in Seq(S) /\ Len(q) = Len(p) + 1
              /\ q[Len(p) + 1] = x /\ \A i \in 1..Len(p) : q[i] = p[i]
          BY <5>1
        <5> HIDE DEF q
        <5> QED BY <5>1, <5>2
      <4>4. DOMAIN f[n] = DOMAIN p \cup {Len(p) + 1} /\ DOMAIN p = 1..Len(p)
        <5> DEFINE q == f[n]
        <5>1. q \in Seq(S) /\ p \in Seq(S) /\ Len(q) = Len(p) + 1
          BY <3>3, <4>3
        <5> HIDE DEF p, q
        <5>2. DOMAIN q = 1..Len(q) /\ DOMAIN p = 1..Len(p) /\ Len(p) \in Nat
          BY <5>1
        <5>3. DOMAIN q = DOMAIN p \cup {Len(p) + 1}
          BY <5>1, <5>2
        <5> QED BY <5>2, <5>3 DEF q
      <4>5. {f[n][i] : i \in DOMAIN f[n]} = {p[i] : i \in DOMAIN p} \cup {x}
        <5> HIDE DEF p, x
        <5> QED BY <4>3, <4>4
      <4>6. {seq[i] : i \in upTo(n)} = {seq[i] : i \in U} \cup {x}
        <5> HIDE DEF U
        <5> QED BY <4>1
      <4>7. Ok(n)
        <5> HIDE DEF p, x, U, upTo
        <5> QED BY <3>3, <4>2, <4>3, <4>5, <4>6 DEF Ok
      <4> QED BY <2>3, <4>7
    <3>7. CASE n \notin at
      <4>1. f[n] = p /\ upTo(n) = U
        BY <3>4, <3>5, <3>7
      <4>2. Ok(n)
        <5> HIDE DEF x
        <5> QED BY <3>3, <4>1 DEF Ok
      <4> QED BY <2>3, <4>2
    <3> QED BY <3>6, <3>7
  <2> QED BY <2>4, <2>5
<1>6. Ok(Len(seq))
  BY <1>1, <1>5
<1>7. upTo(Len(seq)) = at
  BY <1>1
<1> QED BY <1>3, <1>6, <1>7 DEF Ok, ToSet

-----------------------------------------------------------------------------
(* The table and the gaps it leaves.                                       *)

Part == [first : Nat, len : Nat]

LEMMA DiskIs ==
  ASSUME NEW d \in Disks
  PROVE  /\ d.size \in Nat /\ d.block \in Nat /\ d.map \in Seq(ApmEntry)
         /\ d.mbr \in Seq(MbrEntry) /\ SectorUnit(d) \in Nat \ {0}
         /\ \A lba, unit : Array(d, lba, unit) \in Seq(GptEntry)
BY DiskAssumption, WindowAssumption DEF SectorUnit, Array

LEMMA ApmType ==
  ASSUME NEW d \in Disks
  PROVE  ScanApm(d) \in Seq(Part)
<1> DEFINE at == {i \in Signed(d) : d.map[i].blocks # 0 /\ ~d.map[i].bookkeeping
                                    /\ d.map[i].start * d.block < d.size}
           seq == Picked(d.map, at)
<1>1. seq \in Seq(ApmEntry)
  <2>1. d.map \in Seq(ApmEntry) /\ \A i \in DOMAIN d.map : d.map[i] \in ApmEntry
    BY DiskIs
  <2> HIDE DEF at
  <2> QED BY <2>1, PickedFacts
<1>2. ScanApm(d) = [i \in DOMAIN seq |->
                      Located(seq[i].start * d.block, seq[i].blocks * d.block)]
  BY DEF ScanApm, Placed
<1> HIDE DEF seq
<1>3. ASSUME NEW i \in DOMAIN seq
      PROVE  Located(seq[i].start * d.block, seq[i].blocks * d.block) \in Part
  <2>1. seq[i] \in ApmEntry /\ d.block \in Nat
    BY <1>1, DiskIs
  <2>2. seq[i].start \in Nat /\ seq[i].blocks \in Nat
    BY <2>1 DEF ApmEntry
  <2>3. seq[i].start * d.block \in Nat /\ seq[i].blocks * d.block \in Nat
    BY <2>1, <2>2
  <2> QED BY <2>3 DEF Located, Part
<1> QED BY <1>1, <1>2, <1>3

LEMMA EntriesType ==
  ASSUME NEW d \in Disks, NEW lba, NEW g, NEW unit \in Nat
  PROVE  ReadGptEntries(d, lba, g, unit) \in Seq(Part)
<1> DEFINE read == Array(d, lba, unit)
           Whole == {e \in GptEntry : e.first <= e.last}
           at == EntriesKept(g, read)
           seq == Picked(read, at)
<1>1. read \in Seq(GptEntry)
  BY DiskIs
<1>2. \A i \in at \cap DOMAIN read : read[i] \in Whole
  BY <1>1 DEF EntriesKept, Fits
<1>3. ReadGptEntries(d, lba, g, unit) =
        [i \in DOMAIN seq |-> Located(seq[i].first * unit,
                                      (seq[i].last - seq[i].first + 1) * unit)]
  BY DEF ReadGptEntries, Placed, EntryExtent
<1>4. seq \in Seq(Whole)
  <2> HIDE DEF at, read, Whole
  <2> QED BY <1>1, <1>2, PickedFacts
<1> HIDE DEF seq
<1>5. ASSUME NEW i \in DOMAIN seq
      PROVE  Located(seq[i].first * unit, (seq[i].last - seq[i].first + 1) * unit) \in Part
  <2>1. seq[i] \in Whole
    BY <1>4
  <2>2. /\ seq[i].first \in Nat /\ seq[i].last \in Nat
        /\ seq[i].last - seq[i].first + 1 \in Nat
    BY <2>1 DEF GptEntry
  <2> QED BY <2>2 DEF Located, Part
<1> QED BY <1>3, <1>4, <1>5

LEMMA MbrType ==
  ASSUME NEW d \in Disks, NEW unit \in Nat
  PROVE  MbrPartitions(d, unit) \in Seq(Part)
<1> DEFINE at == {i \in DOMAIN d.mbr : d.mbr[i].type = "data" /\ d.mbr[i].sectors # 0}
           seq == Picked(d.mbr, at)
<1>1. seq \in Seq(MbrEntry)
  <2>1. d.mbr \in Seq(MbrEntry) /\ \A i \in DOMAIN d.mbr : d.mbr[i] \in MbrEntry
    BY DiskIs
  <2> HIDE DEF at
  <2> QED BY <2>1, PickedFacts
<1>2. MbrPartitions(d, unit) =
        [i \in DOMAIN seq |-> Located(seq[i].start * unit, seq[i].sectors * unit)]
  BY DEF MbrPartitions, Placed
<1> HIDE DEF seq
<1>3. ASSUME NEW i \in DOMAIN seq
      PROVE  Located(seq[i].start * unit, seq[i].sectors * unit) \in Part
  <2>1. seq[i] \in MbrEntry
    BY <1>1
  <2>2. seq[i].start \in Nat /\ seq[i].sectors \in Nat
    BY <2>1 DEF MbrEntry
  <2>3. seq[i].start * unit \in Nat /\ seq[i].sectors * unit \in Nat
    BY <2>2
  <2> QED BY <2>3 DEF Located, Part
<1> QED BY <1>1, <1>2, <1>3

(* A table is a sequence of partitions with a beginning and a length.      *)
LEMMA TableType ==
  ASSUME NEW d \in Disks
  PROVE  Table(d) \in Seq(Part)
<1>1. SectorUnit(d) \in Nat
  BY DiskIs
<1>2. ScanApm(d) \in Seq(Part) /\ MbrPartitions(d, SectorUnit(d)) \in Seq(Part)
  BY <1>1, ApmType, MbrType
<1>3. ScanGpt(d, SectorUnit(d)) \in Seq(Part)
  BY <1>1, EntriesType DEF ScanGpt
<1>4. <<>> \in Seq(Part)
  OBVIOUS
<1> QED BY <1>2, <1>3, <1>4 DEF Table

LEMMA ImageFinite ==
  ASSUME NEW S, IsFiniteSet(S), NEW f, DOMAIN f = S
  PROVE  IsFiniteSet({f[x] : x \in S})
<1> DEFINE T == {f[x] : x \in S}
           g == [x \in S |-> f[x]]
<1>1. g \in Surjection(S, T)
  BY DEF Surjection
<1> HIDE DEF g, T
<1>2. IsFiniteSet(T)
  BY <1>1, FS_Surjection
<1> QED BY <1>2 DEF T

LEMMA ExtentsType ==
  ASSUME NEW parts \in Seq(Part)
  PROVE  Extents(parts) \subseteq Extent2 /\ IsFiniteSet(Extents(parts))
<1>1. \A p \in ToSet(parts) : p \in Part
  BY DEF ToSet
<1>2. \A p \in ToSet(parts) : <<p.first, End(p)>> \in Extent2
  BY <1>1 DEF End, Part, Extent2
<1>3. IsFiniteSet(ToSet(parts))
  <2>1. Len(parts) \in Nat /\ DOMAIN parts = 1..Len(parts)
    OBVIOUS
  <2>2. IsFiniteSet(DOMAIN parts)
    BY <2>1, FS_Interval
  <2> QED BY <2>2, ImageFinite DEF ToSet
<1> DEFINE S == {q \in ToSet(parts) : q.len # 0}
           f == [p \in S |-> <<p.first, End(p)>>]
<1>4. IsFiniteSet(S)
  BY <1>3, FS_Subset
<1>5. Extents(parts) = {f[p] : p \in S} /\ DOMAIN f = S
  BY DEF Extents
<1> HIDE DEF S, f
<1>6. IsFiniteSet(Extents(parts))
  BY <1>4, <1>5, ImageFinite
<1> QED BY <1>2, <1>6 DEF Extents

(* The gaps of a table: each begins before it ends, and no partition that  *)
(* has a length reaches into it.                                           *)
Clear(g, parts) == \A j \in DOMAIN parts : \A x \in Nat :
                     g.from <= x /\ x < g.to => ~Inside(x, parts[j])

LEMMA GapsFacts ==
  ASSUME NEW parts \in Seq(Part), NEW size \in Nat
  PROVE  /\ UnallocatedGaps(parts, size) \in Seq(FreeGap)
         /\ \A i \in DOMAIN UnallocatedGaps(parts, size) :
              Clear(UnallocatedGaps(parts, size)[i], parts)
<1> DEFINE E == Extents(parts)
           end == Swept(E)
           all == UnallocatedGaps(parts, size)
           last == [from |-> end.cursor, to |-> size]
<1>1. GoodSweep(end, E)
  BY ExtentsType, SweptFacts
<1> HIDE DEF end
<1>2. ASSUME NEW g \in FreeGap, \A u \in E : Apart(g, u)
      PROVE  Clear(g, parts)
  <2>1. SUFFICES ASSUME NEW j \in DOMAIN parts, NEW x \in Nat, g.from <= x, x < g.to,
                        Inside(x, parts[j])
                 PROVE  FALSE
    BY DEF Clear
  <2> DEFINE p == parts[j]
  <2>2. p \in Part /\ p \in ToSet(parts)
    BY DEF ToSet
  <2> HIDE DEF p
  <2>3. p.first \in Nat /\ p.len \in Nat /\ p.first <= x /\ x < p.first + p.len
    BY <2>1, <2>2 DEF Inside, End, Part, p
  <2>4. <<p.first, p.first + p.len>> \in E
    BY <2>2, <2>3 DEF Extents, End
  <2>5. Apart(g, <<p.first, p.first + p.len>>)
    BY <1>2, <2>4
  <2> QED BY <2>1, <2>3, <2>5 DEF Apart, FreeGap
<1>3. end.gaps \in Seq(FreeGap) /\ end.cursor \in Nat
  BY <1>1 DEF GoodSweep
<1>4. \A i \in DOMAIN end.gaps : Clear(end.gaps[i], parts)
  BY <1>1, <1>2, <1>3 DEF GoodSweep
<1>5. CASE end.cursor < size
  <2>1. all = Append(end.gaps, last)
    BY <1>5 DEF UnallocatedGaps, end
  <2>2. last \in FreeGap /\ last.from = end.cursor
    BY <1>3, <1>5 DEF FreeGap
  <2>3. Clear(last, parts)
    BY <1>1, <1>2, <2>2 DEF GoodSweep, Apart
  <2> HIDE DEF all, last
  <2>4. all \in Seq(FreeGap)
    BY <1>3, <2>1, <2>2
  <2>5. ASSUME NEW i \in DOMAIN all PROVE Clear(all[i], parts)
    <3>1. all[i] = last \/ (i \in DOMAIN end.gaps /\ all[i] = end.gaps[i])
      BY <1>3, <2>1, <2>2
    <3> QED BY <1>4, <2>3, <3>1
  <2> QED BY <2>4, <2>5 DEF all
<1>6. CASE ~(end.cursor < size)
  <2>1. all = end.gaps
    BY <1>6 DEF UnallocatedGaps, end
  <2> QED BY <1>3, <1>4, <2>1
<1> QED BY <1>5, <1>6

-----------------------------------------------------------------------------
(* The inductive invariant of the search.                                  *)

AllGaps == IF Searched(disk, mode) THEN UnallocatedGaps(known, disk.size) ELSE <<>>

(* The gap that is begun when k are left.                                  *)
GapOf(k) == AllGaps[Len(AllGaps) - k + 1]

(* What is left of the gaps is the end of the list, and the search is      *)
(* inside a gap that is wide enough, at or behind the volumes it found     *)
(* there.                                                                  *)
ShapeInv ==
  /\ disk \in Disks /\ known \in Seq(Part) /\ AllGaps \in Seq(FreeGap)
  /\ Searched(disk, mode) => \A k \in 1..Len(AllGaps) : Clear(GapOf(k), known)
  /\ pc \in {"gap", "dense", "stride", "done"} /\ off \in Nat /\ covered \in Nat
  /\ gaps \in Seq(FreeGap) /\ Len(gaps) <= Len(AllGaps)
  /\ \A i \in 1..Len(gaps) : gaps[i] = AllGaps[Len(AllGaps) - Len(gaps) + i]
  /\ pc \in {"dense", "stride"} =>
       gaps # <<>> /\ Gap.to - Gap.from >= MiB /\ Gap.from <= covered /\ covered <= off
  /\ pc = "done" => gaps = <<>>

(* Every volume found begins in its own gap, the volumes of one gap follow *)
(* one another, and those of the gap at hand end before `covered`.         *)
Finding == [first : Nat, len : Nat \ {0}, gap : Nat]

InPlace(i) ==
  LET f == found[i] IN
  /\ f.gap \in 1..Len(AllGaps) /\ Len(gaps) <= f.gap
  /\ pc \in {"gap", "done"} => f.gap # Len(gaps)
  /\ GapOf(f.gap).from <= f.first /\ f.first < GapOf(f.gap).to
  /\ f.gap = Len(gaps) => End(f) <= covered
  /\ \A j \in DOMAIN found : i < j /\ f.gap = found[j].gap => End(f) <= found[j].first

FoundInv == found \in Seq(Finding) /\ \A i \in DOMAIN found : InPlace(i)

(* Gaps that are done are complete; in the gap at hand, nothing is missed  *)
(* behind the search: no sector by pass 1, no boundary by pass 2.          *)
Seen(x) == \E i \in DOMAIN found : Inside(x, found[i])
Readable(g) == \A x \in disk.bad : x < g.from \/ x >= g.to
Complete(g) ==
  Readable(g) => \A at \in DOMAIN disk.boot : InReach(at, g) /\ Lost(at) => Seen(at)

MissedInv ==
  /\ \A k \in 1..Len(AllGaps) : Len(gaps) < k => Complete(GapOf(k))
  /\ pc = "dense" /\ Readable(Gap) =>
       \A at \in DOMAIN disk.boot : Lost(at) /\ Gap.from <= at /\ at < off => Seen(at)
  /\ pc = "stride" => off % MiB = 0
  /\ pc = "stride" /\ Readable(Gap) =>
       \A at \in DOMAIN disk.boot : Lost(at) /\ Gap.from <= at =>
         /\ at < DenseEnd => Seen(at)
         /\ at % MiB = 0 /\ at < off => Seen(at)

-----------------------------------------------------------------------------
(* What the steps of the search compute.                                   *)

LEMMA RoundUpFacts ==
  ASSUME NEW x \in Nat
  PROVE  /\ RoundUp(x) \in Nat /\ x <= RoundUp(x) /\ RoundUp(x) % MiB = 0
         /\ \A y \in Nat : y % MiB = 0 /\ x <= y => RoundUp(x) <= y
<1> DEFINE n == (x + MiB - 1) \div MiB
<1>1. MiB \in Nat \ {0}
  BY WindowAssumption
<1>2. RoundUp(x) = n * MiB
  BY DEF RoundUp
<1>3. n \in Nat /\ x <= n * MiB /\ \A q \in Nat : x <= q * MiB => n * MiB <= q * MiB
  <2>1. CASE x = 0
    <3>1. 0 * MiB + (MiB - 1) = x + MiB - 1 /\ MiB - 1 \in 0..(MiB - 1)
      BY <1>1, <2>1
    <3>2. n = 0
      BY <1>1, <3>1, DivModUnique
    <3> HIDE DEF n
    <3>3. n * MiB = 0 /\ \A q \in Nat : q * MiB \in Nat
      BY <1>1, <3>2
    <3> QED BY <2>1, <3>2, <3>3
  <2>2. CASE x # 0
    <3>1. x \in Nat \ {0}
      BY <2>2
    <3>2. n \in Nat \ {0} /\ x <= n * MiB
      BY <1>1, <3>1, RoundedUp
    <3>3. \A q \in Nat : x <= q * MiB => n * MiB <= q * MiB
      BY <1>1, <3>1, RoundedUp
    <3> QED BY <3>2, <3>3
  <2> QED BY <2>1, <2>2
<1> HIDE DEF n
<1>4. n * MiB \in Nat /\ (n * MiB + 0) % MiB = 0 /\ n * MiB + 0 = n * MiB
  <2>1. 0 \in 0..(MiB - 1)
    BY <1>1
  <2>2. (n * MiB + 0) % MiB = 0
    BY <1>1, <1>3, <2>1, DivModUnique
  <2> QED BY <1>1, <1>3, <2>2
<1>5. ASSUME NEW y \in Nat, y % MiB = 0, x <= y PROVE n * MiB <= y
  <2>1. y \div MiB \in Nat /\ y = (y \div MiB) * MiB + (y % MiB)
    BY <1>1, DivMod
  <2>2. (y \div MiB) * MiB \in Nat
    BY <1>1, <2>1
  <2>3. y = (y \div MiB) * MiB
    BY <1>5, <2>1, <2>2
  <2> QED BY <1>3, <1>5, <2>1, <2>3
<1> QED BY <1>2, <1>3, <1>4, <1>5

(* Boundaries are a MiB apart.                                             *)
LEMMA Boundaries ==
  ASSUME NEW x \in Nat, x % MiB = 0
  PROVE  /\ (x + MiB) % MiB = 0
         /\ \A y \in Nat : y % MiB = 0 /\ x <= y /\ y < x + MiB => y = x
<1> DEFINE q == x \div MiB
<1>1. MiB \in Nat \ {0}
  BY WindowAssumption
<1>2. q \in Nat /\ x = q * MiB + (x % MiB)
  BY <1>1, DivMod
<1> HIDE DEF q
<1>3. (q + 1) * MiB + 0 = x + MiB /\ q + 1 \in Nat /\ 0 \in 0..(MiB - 1)
  <2>1. (q + 1) * MiB = q * MiB + MiB /\ q * MiB \in Nat
    BY <1>1, <1>2
  <2> QED BY <1>1, <1>2, <2>1
<1>4. (x + MiB) % MiB = 0
  BY <1>1, <1>3, DivModUnique
<1>5. ASSUME NEW y \in Nat, y % MiB = 0, x < y PROVE x + MiB <= y
  <2>1. PICK p \in Nat \ {0} : y - x = p * MiB
    BY <1>1, <1>5, MultipleDistance
  <2>2. p = 1 \/ MiB + MiB <= p * MiB
    <3>1. 1 < p => 1 * MiB + MiB <= p * MiB
      BY <1>1, <2>1, ProductBelow
    <3>2. 1 * MiB = MiB
      BY <1>1
    <3> QED BY <2>1, <3>1, <3>2
  <2>3. 1 * MiB = MiB /\ p * MiB \in Nat
    BY <1>1, <2>1
  <2> QED BY <1>1, <2>1, <2>2, <2>3
<1>6. ASSUME NEW y \in Nat, y % MiB = 0, x <= y, y < x + MiB PROVE y = x
  <2>1. x < y => x + MiB <= y
    BY <1>5, <1>6
  <2> QED BY <1>1, <1>6, <2>1
<1> QED BY <1>4, <1>6

LEMMA SelfSizeType ==
  ASSUME NEW b \in Boot
  PROVE  SelfSize(b) \in Nat
<1> DEFINE T == {i \in DOMAIN b.copies : b.copies[i] # 0}
<1>1. b.copies \in Seq(Nat)
  BY DEF Boot
<1>2. CASE T = {}
  BY <1>2 DEF SelfSize
<1>3. CASE T # {}
  <2>1. PICK x \in T : \A y \in T : x <= y
    <3>1. T \subseteq Nat
      BY <1>1
    <3> HIDE DEF T
    <3> QED BY <1>3, <3>1, LeastOf
  <2>2. \E i \in DOMAIN b.copies : b.copies[i] # 0 /\ \A j \in 1..(i - 1) : b.copies[j] = 0
    <3>1. x \in DOMAIN b.copies /\ b.copies[x] # 0
      BY <2>1
    <3>2. ASSUME NEW j \in 1..(x - 1) PROVE b.copies[j] = 0
      <4>1. j \in DOMAIN b.copies /\ j < x
        BY <1>1, <3>1
      <4>2. x \in Nat /\ j \in Nat
        BY <1>1, <3>1
      <4>3. j \notin T
        <5> HIDE DEF T
        <5> QED BY <2>1, <4>1, <4>2
      <4> QED BY <4>1, <4>3
    <3> QED BY <3>1, <3>2
  <2> DEFINE i == CHOOSE k \in DOMAIN b.copies :
                    b.copies[k] # 0 /\ \A j \in 1..(k - 1) : b.copies[j] = 0
  <2>3. i \in DOMAIN b.copies
    BY <2>2
  <2>4. SelfSize(b) = b.copies[i]
    BY <1>3 DEF SelfSize
  <2> HIDE DEF i
  <2> QED BY <1>1, <2>3, <2>4
<1> QED BY <1>2, <1>3

LEMMA IdentifiedType ==
  ASSUME NEW d \in Disks, NEW at
  PROVE  Identified(d, at) \in Nat
<1>1. SUFFICES ASSUME Record(d, at)
               PROVE  RecordedLength(d.boot[at]) \in Nat
  BY DEF Identified
<1> DEFINE b == d.boot[at]
<1>2. b \in Boot
  BY <1>1, DiskAssumption DEF Record
<1> HIDE DEF b
<1>3. SelfSize(b) \in Nat /\ b.secs \in Nat /\ b.above \in Nat /\ Field \in Nat
  BY <1>2, SelfSizeType, WindowAssumption DEF Boot
<1>4. b.above * Field \in Nat
  BY <1>3
<1>5. RecordedLength(b) \in Nat
  BY <1>3, <1>4 DEF RecordedLength
<1> QED BY <1>5 DEF b

(* The 32 bits above every FAT32 sector count are zero.  identifyVolume    *)
(* reads them as part of the count; they belong to the next field.         *)
CountsStandAlone ==
  \A d \in Disks : \A b \in DOMAIN d.boot : d.boot[b].kind = "FAT32" => d.boot[b].above = 0

LEMMA LostIsIdentified ==
  ASSUME CountsStandAlone, disk \in Disks, NEW at \in DOMAIN disk.boot, Lost(at)
  PROVE  at \in Nat /\ at < disk.size /\ at \notin disk.bad /\ Identified(disk, at) # 0
<1> DEFINE b == disk.boot[at]
<1>1. b \in Boot /\ at \in Nat /\ disk.size \in Nat
  BY DiskAssumption
<1>2. b.kind = "FAT32" => b.above = 0
  BY DEF CountsStandAlone
<1> HIDE DEF b
<1>3. /\ at < disk.size /\ at \notin disk.bad /\ b.signed /\ b.sane
      /\ b.kind = "FVE" => b.hidden \in {0, at}
      /\ Extent(b) > 0 /\ at + Extent(b) <= disk.size
  BY DEF Lost, b
<1>4. SelfSize(b) \in Nat /\ b.secs \in Nat /\ Field \in Nat
  BY <1>1, SelfSizeType, WindowAssumption DEF Boot
<1>5. RecordedLength(b) = Extent(b) /\ Extent(b) \in Nat
  BY <1>2, <1>4 DEF RecordedLength, Extent
<1>6. Record(disk, at)
  BY <1>3 DEF Record
<1>7. Extent(b) <= disk.size - at
  BY <1>1, <1>3, <1>5
<1>8. Identified(disk, at) = RecordedLength(b)
  BY <1>3, <1>5, <1>6, <1>7 DEF Identified, b
<1> QED BY <1>1, <1>3, <1>5, <1>8

(* What a read in pass 1 gives.                                            *)
Unread(x) == x \in disk.bad \/ x >= disk.size

LEMMA ChunkedFacts ==
  ASSUME disk \in Disks, off \in Nat, DenseEnd \in Nat, off < DenseEnd
  PROVE  /\ Chunked \in Nat /\ off + Chunked <= DenseEnd
         /\ Chunked = 0 => Unread(off)
<1> DEFINE want == Least(Chunk, DenseEnd - off)
           Ok(g) == /\ \A k \in 0..(g - 1) : ~Unread(off + k)
                    /\ g < want => Unread(off + g)
           T == {k \in 0..want : k = want \/ Unread(off + k)}
<1>1. want \in Nat \ {0} /\ off + want <= DenseEnd
  BY WindowAssumption DEF Least
<1>2. Chunked = CHOOSE g \in 0..want : Ok(g)
  BY DEF Chunked, Unread
<1> HIDE DEF want
<1>3. \E g \in 0..want : Ok(g)
  <2>1. T # {} /\ T \subseteq Nat
    BY <1>1
  <2>2. PICK g \in T : \A k \in T : g <= k
    <3> HIDE DEF T
    <3> QED BY <2>1, LeastOf
  <2>3. g \in 0..want /\ (g < want => Unread(off + g))
    BY <1>1, <2>2
  <2>4. ASSUME NEW k \in 0..(g - 1) PROVE ~Unread(off + k)
    <3>1. k \in 0..want /\ k \notin T
      BY <1>1, <2>2, <2>3
    <3> QED BY <3>1
  <2> QED BY <2>3, <2>4
<1>4. Chunked \in 0..want /\ Ok(Chunked)
  <2> HIDE DEF Ok
  <2> QED BY <1>2, <1>3
<1> HIDE DEF T
<1>5. Chunked = 0 => Unread(off)
  <2>1. SUFFICES ASSUME Chunked = 0 PROVE Unread(off)
    OBVIOUS
  <2>2. Unread(off + Chunked)
    BY <1>1, <1>4, <2>1
  <2>3. off + Chunked = off
    BY <2>1
  <2> QED BY <2>2, <2>3
<1> QED BY <1>1, <1>4, <1>5

-----------------------------------------------------------------------------
(* The shape of the search is invariant.                                   *)

Fixed == UNCHANGED <<disk, mode, known, AllGaps>>

LEMMA StepsFix == [Next]_vars => Fixed
<1>1. [Next]_vars => UNCHANGED <<disk, mode, known>>
  BY DEF Next, Scan, Returned, vars, BeginGap, SkipGap, Done, DenseHit, DenseMiss,
         DenseOver, StrideHit, StrideMiss, StrideOver
<1> QED BY <1>1 DEF Fixed, AllGaps

LEMMA GapFacts ==
  ASSUME ShapeInv, gaps # <<>>
  PROVE  /\ Len(gaps) \in 1..Len(AllGaps) /\ Gap = GapOf(Len(gaps)) /\ Gap \in FreeGap
         /\ Tail(gaps) \in Seq(FreeGap) /\ Len(Tail(gaps)) = Len(gaps) - 1
         /\ \A i \in 1..Len(Tail(gaps)) :
              Tail(gaps)[i] = AllGaps[Len(AllGaps) - Len(Tail(gaps)) + i]
         /\ DenseEnd \in Nat /\ Gap.from < DenseEnd /\ DenseEnd <= Gap.to
         /\ Stop \in Nat /\ Stop <= Gap.to
<1>1. /\ gaps \in Seq(FreeGap) /\ Len(gaps) <= Len(AllGaps)
      /\ AllGaps \in Seq(FreeGap) /\ Len(AllGaps) \in Nat /\ Len(gaps) \in Nat \ {0}
  BY DEF ShapeInv
<1>2. \A i \in 1..Len(gaps) : gaps[i] = AllGaps[Len(AllGaps) - Len(gaps) + i]
  BY DEF ShapeInv
<1>3. Gap = gaps[1] /\ Gap \in FreeGap
  BY <1>1 DEF Gap
<1>4. Gap = GapOf(Len(gaps))
  <2>1. gaps[1] = AllGaps[Len(AllGaps) - Len(gaps) + 1]
    BY <1>1, <1>2
  <2> QED BY <1>3, <2>1 DEF GapOf
<1>5. /\ Tail(gaps) \in Seq(FreeGap) /\ Len(Tail(gaps)) = Len(gaps) - 1
      /\ \A i \in 1..Len(Tail(gaps)) : Tail(gaps)[i] = gaps[i + 1]
  BY <1>1
<1>6. ASSUME NEW i \in 1..Len(Tail(gaps))
      PROVE  Tail(gaps)[i] = AllGaps[Len(AllGaps) - Len(Tail(gaps)) + i]
  <2>1. i + 1 \in 1..Len(gaps)
    BY <1>1, <1>5
  <2>2. gaps[i + 1] = AllGaps[Len(AllGaps) - Len(gaps) + (i + 1)]
    BY <1>2, <2>1
  <2>3. Len(AllGaps) - Len(gaps) + (i + 1) = Len(AllGaps) - Len(Tail(gaps)) + i
    BY <1>1, <1>5
  <2> QED BY <1>5, <2>2, <2>3
<1>7. Gap.from \in Nat /\ Gap.to \in Nat /\ Gap.from < Gap.to
  BY <1>3 DEF FreeGap
<1>8. /\ DenseEnd \in Nat /\ Gap.from < DenseEnd /\ DenseEnd <= Gap.to
      /\ Stop \in Nat /\ Stop <= Gap.to
  BY <1>7, WindowAssumption DEF DenseEnd, Stop, Least
<1> QED BY <1>1, <1>3, <1>4, <1>5, <1>6, <1>8

LEMMA ShapeInit == Init => ShapeInv
<1> SUFFICES ASSUME Init PROVE ShapeInv
  OBVIOUS
<1>1. disk \in Disks /\ disk.size \in Nat
  BY DiskIs DEF Init
<1>2. known \in Seq(Part)
  <2>1. Table(disk) \in Seq(Part)
    BY <1>1, TableType
  <2>2. <<Located(0, disk.size)>> \in Seq(Part)
    BY <1>1 DEF Located, Part
  <2> QED BY <2>1, <2>2 DEF Init
<1>3. /\ UnallocatedGaps(known, disk.size) \in Seq(FreeGap)
      /\ \A i \in DOMAIN UnallocatedGaps(known, disk.size) :
           Clear(UnallocatedGaps(known, disk.size)[i], known)
  BY <1>1, <1>2, GapsFacts
<1>4. AllGaps \in Seq(FreeGap) /\ gaps = AllGaps
  BY <1>3 DEF AllGaps, Init
<1>5. ASSUME Searched(disk, mode), NEW k \in 1..Len(AllGaps) PROVE Clear(GapOf(k), known)
  <2>1. AllGaps = UnallocatedGaps(known, disk.size)
    BY <1>5 DEF AllGaps
  <2>2. Len(AllGaps) - k + 1 \in DOMAIN AllGaps
    BY <1>4
  <2> QED BY <1>3, <2>1, <2>2 DEF GapOf
<1>6. /\ gaps \in Seq(FreeGap) /\ Len(gaps) <= Len(AllGaps)
      /\ \A i \in 1..Len(gaps) : gaps[i] = AllGaps[Len(AllGaps) - Len(gaps) + i]
  BY <1>4
<1>7. pc = "gap" /\ off \in Nat /\ covered \in Nat
  BY DEF Init
<1> QED BY <1>1, <1>2, <1>4, <1>5, <1>6, <1>7 DEF ShapeInv

LEMMA HitFacts ==
  ASSUME ShapeInv, Reading, Hits # {}
  PROVE  LET at == CHOOSE x \in Hits : \A y \in Hits : x <= y IN
         at \in Hits /\ \A y \in Hits : at <= y
<1> DEFINE at == CHOOSE x \in Hits : \A y \in Hits : x <= y
<1>1. gaps # <<>> /\ off \in Nat /\ disk \in Disks /\ off < DenseEnd
  BY DEF ShapeInv, Reading
<1>2. DenseEnd \in Nat
  BY <1>1, GapFacts
<1>3. Chunked \in Nat
  BY <1>1, <1>2, ChunkedFacts
<1>4. Hits \subseteq Nat
  BY <1>1, <1>3 DEF Hits
<1>5. \E x \in Hits : \A y \in Hits : x <= y
  BY <1>4, LeastOf
<1> QED BY <1>5

(* Leaving a gap.                                                          *)
LEMMA ShapeTail ==
  ASSUME ShapeInv, gaps # <<>>, gaps' = Tail(gaps), pc' = "gap", Fixed,
         UNCHANGED <<off, covered>>
  PROVE  ShapeInv'
<1>1. /\ Tail(gaps) \in Seq(FreeGap) /\ Len(Tail(gaps)) <= Len(AllGaps)
      /\ \A i \in 1..Len(Tail(gaps)) :
           Tail(gaps)[i] = AllGaps[Len(AllGaps) - Len(Tail(gaps)) + i]
  <2>1. Len(gaps) <= Len(AllGaps) /\ Len(gaps) \in Nat /\ Len(AllGaps) \in Nat
    BY DEF ShapeInv
  <2> QED BY <2>1, GapFacts
<1>2. gaps' \in Seq(FreeGap) /\ Len(gaps') <= Len(AllGaps')
  BY <1>1 DEF Fixed
<1>3. \A i \in 1..Len(gaps') : gaps'[i] = AllGaps'[Len(AllGaps') - Len(gaps') + i]
  BY <1>1 DEF Fixed
<1>4. /\ disk' \in Disks /\ known' \in Seq(Part) /\ AllGaps' \in Seq(FreeGap)
      /\ Searched(disk', mode') => \A k \in 1..Len(AllGaps') : Clear(GapOf(k)', known')
  BY DEF ShapeInv, Fixed, GapOf
<1>5. off' \in Nat /\ covered' \in Nat
  BY DEF ShapeInv
<1> QED BY <1>2, <1>3, <1>4, <1>5 DEF ShapeInv

(* Moving on inside a gap.                                                 *)
LEMMA ShapeMove ==
  ASSUME ShapeInv, gaps # <<>>, gaps' = gaps, pc' \in {"dense", "stride"}, Fixed,
         Gap.to - Gap.from >= MiB, off' \in Nat, covered' \in Nat,
         Gap.from <= covered', covered' <= off'
  PROVE  ShapeInv'
<1>1. /\ disk' \in Disks /\ known' \in Seq(Part) /\ AllGaps' \in Seq(FreeGap)
      /\ Searched(disk', mode') => \A k \in 1..Len(AllGaps') : Clear(GapOf(k)', known')
  BY DEF ShapeInv, Fixed, GapOf
<1>2. /\ gaps' \in Seq(FreeGap) /\ Len(gaps') <= Len(AllGaps')
      /\ \A i \in 1..Len(gaps') : gaps'[i] = AllGaps'[Len(AllGaps') - Len(gaps') + i]
  BY DEF ShapeInv, Fixed
<1>3. /\ pc' \in {"gap", "dense", "stride", "done"}
      /\ gaps' # <<>> /\ Gap' = Gap /\ pc' # "done"
  BY DEF Gap
<1> QED BY <1>1, <1>2, <1>3 DEF ShapeInv

LEMMA ShapeStep == ShapeInv /\ [Next]_vars => ShapeInv'
<1> SUFFICES ASSUME ShapeInv, [Next]_vars PROVE ShapeInv'
  OBVIOUS
<1>1. Fixed
  BY StepsFix
<1>2. /\ disk \in Disks /\ pc \in {"gap", "dense", "stride", "done"}
      /\ off \in Nat /\ covered \in Nat /\ MiB \in Nat \ {0}
      /\ pc \in {"dense", "stride"} =>
           gaps # <<>> /\ Gap.to - Gap.from >= MiB /\ Gap.from <= covered /\ covered <= off
  BY WindowAssumption DEF ShapeInv
<1>3. gaps # <<>> => Gap.from \in Nat /\ DenseEnd \in Nat
  BY GapFacts DEF FreeGap
<1>4. CASE BeginGap
  <2>1. /\ gaps # <<>> /\ gaps' = gaps /\ pc' = "dense" /\ Gap.to - Gap.from >= MiB
        /\ off' = Gap.from /\ covered' = Gap.from
    BY <1>4 DEF BeginGap
  <2>2. Gap.from <= covered' /\ covered' <= off' /\ off' \in Nat /\ covered' \in Nat
    BY <1>3, <2>1
  <2> QED BY <1>1, <2>1, <2>2, ShapeMove
<1>5. CASE SkipGap
  BY <1>1, <1>5, ShapeTail DEF SkipGap
<1>6. CASE DenseHit
  <2> DEFINE at == CHOOSE x \in Hits : \A y \in Hits : x <= y
  <2>1. /\ Reading /\ Hits # {} /\ pc' = "dense" /\ gaps' = gaps /\ pc = "dense"
        /\ off' = at + Identified(disk, at) /\ covered' = off'
    BY <1>6 DEF DenseHit, Reading
  <2>2. at \in Hits
    BY <2>1, HitFacts
  <2> HIDE DEF at
  <2>3. Chunked \in Nat
    BY <1>2, <1>3, <2>1, ChunkedFacts DEF Reading
  <2>4. at \in Nat /\ off <= at /\ Identified(disk, at) \in Nat
    BY <1>2, <2>2, <2>3, IdentifiedType DEF Hits
  <2>5. off' \in Nat /\ Gap.from <= off'
    BY <1>2, <1>3, <2>1, <2>4
  <2> QED BY <1>1, <1>2, <2>1, <2>5, ShapeMove
<1>7. CASE DenseMiss
  <2>1. /\ Reading /\ pc' = "dense" /\ gaps' = gaps /\ covered' = covered /\ pc = "dense"
        /\ off' = off + Chunked
    BY <1>7 DEF DenseMiss, Reading
  <2>2. Chunked \in Nat
    BY <1>2, <1>3, <2>1, ChunkedFacts DEF Reading
  <2>3. off' \in Nat /\ covered' <= off' /\ Gap.from <= covered' /\ covered' \in Nat
    BY <1>2, <2>1, <2>2
  <2> QED BY <1>1, <1>2, <2>1, <2>3, ShapeMove
<1>8. CASE DenseOver
  <2>1. /\ pc = "dense" /\ pc' = "stride" /\ gaps' = gaps /\ covered' = covered
        /\ off' = RoundUp(covered)
    BY <1>8 DEF DenseOver
  <2>2. off' \in Nat /\ covered' <= off' /\ Gap.from <= covered' /\ covered' \in Nat
    BY <1>2, <2>1, RoundUpFacts
  <2> QED BY <1>1, <1>2, <2>1, <2>2, ShapeMove
<1>9. CASE StrideHit
  <2>1. /\ pc = "stride" /\ pc' = "stride" /\ gaps' = gaps
        /\ covered' = off + Identified(disk, off) /\ off' = RoundUp(covered')
    BY <1>9 DEF StrideHit, Striding
  <2>2. Identified(disk, off) \in Nat
    BY <1>2, IdentifiedType
  <2>3. covered' \in Nat /\ Gap.from <= covered'
    BY <1>2, <1>3, <2>1, <2>2
  <2>4. off' \in Nat /\ covered' <= off'
    BY <2>1, <2>3, RoundUpFacts
  <2> QED BY <1>1, <1>2, <2>1, <2>3, <2>4, ShapeMove
<1>10. CASE StrideMiss
  <2>1. /\ pc = "stride" /\ pc' = "stride" /\ gaps' = gaps /\ covered' = covered
        /\ off' = off + MiB
    BY <1>10 DEF StrideMiss, Striding
  <2>2. off' \in Nat /\ covered' <= off' /\ Gap.from <= covered' /\ covered' \in Nat
    BY <1>2, <2>1
  <2> QED BY <1>1, <1>2, <2>1, <2>2, ShapeMove
<1>11. CASE StrideOver
  <2>1. gaps # <<>>
    BY <1>2, <1>11 DEF StrideOver
  <2> QED BY <1>1, <1>11, <2>1, ShapeTail DEF StrideOver
<1>12. CASE Done
  <2>1. /\ gaps = <<>> /\ gaps' = gaps /\ pc' = "done" /\ off' = off /\ covered' = covered
    BY <1>12 DEF Done
  <2>2. /\ disk' \in Disks /\ known' \in Seq(Part) /\ AllGaps' \in Seq(FreeGap)
        /\ Searched(disk', mode') => \A k \in 1..Len(AllGaps') : Clear(GapOf(k)', known')
    BY <1>1 DEF ShapeInv, Fixed, GapOf
  <2>3. /\ gaps' \in Seq(FreeGap) /\ Len(gaps') <= Len(AllGaps')
        /\ \A i \in 1..Len(gaps') : gaps'[i] = AllGaps'[Len(AllGaps') - Len(gaps') + i]
    BY <1>1, <2>1 DEF ShapeInv, Fixed
  <2>4. off' \in Nat /\ covered' \in Nat /\ gaps' = <<>>
    BY <1>2, <2>1
  <2> QED BY <2>1, <2>2, <2>3, <2>4 DEF ShapeInv
<1>13. CASE UNCHANGED vars
  <2>1. UNCHANGED <<disk, mode, pc, known, gaps, off, covered>>
    BY <1>13 DEF vars
  <2> QED BY <1>1, <2>1 DEF ShapeInv, Fixed, GapOf, Gap
<1> QED BY <1>4, <1>5, <1>6, <1>7, <1>8, <1>9, <1>10, <1>11, <1>12, <1>13
        DEF Next, Scan, Returned

-----------------------------------------------------------------------------
(* The volumes of a gap are found one behind the other.                    *)

LEMMA FoundKept ==
  ASSUME FoundInv, found' = found, Fixed, Len(gaps) \in Nat, Len(gaps') \in Nat,
         Len(gaps') <= Len(gaps),
         \A i \in DOMAIN found :
           /\ pc' \in {"gap", "done"} => found[i].gap # Len(gaps')
           /\ found[i].gap = Len(gaps') => End(found[i]) <= covered'
  PROVE  FoundInv'
<1>1. found' \in Seq(Finding)
  BY DEF FoundInv
<1>2. ASSUME NEW i \in DOMAIN found' PROVE InPlace(i)'
  <2> DEFINE f == found[i]
  <2>1. found'[i] = f /\ i \in DOMAIN found
    OBVIOUS
  <2>2. InPlace(i) /\ AllGaps' = AllGaps
    BY <2>1 DEF FoundInv, Fixed
  <2>3. /\ f.gap \in 1..Len(AllGaps) /\ Len(gaps) <= f.gap
        /\ GapOf(f.gap).from <= f.first /\ f.first < GapOf(f.gap).to
        /\ \A j \in DOMAIN found : i < j /\ f.gap = found[j].gap => End(f) <= found[j].first
    BY <2>2 DEF InPlace
  <2>4. /\ pc' \in {"gap", "done"} => f.gap # Len(gaps')
        /\ f.gap = Len(gaps') => End(f) <= covered'
    BY <2>1
  <2>5. f.gap \in Int /\ Len(gaps') <= f.gap
    BY <2>3
  <2>6. InPlace(i)' =
          (/\ f.gap \in 1..Len(AllGaps) /\ Len(gaps') <= f.gap
           /\ pc' \in {"gap", "done"} => f.gap # Len(gaps')
           /\ GapOf(f.gap).from <= f.first /\ f.first < GapOf(f.gap).to
           /\ f.gap = Len(gaps') => End(f) <= covered'
           /\ \A j \in DOMAIN found : i < j /\ f.gap = found[j].gap => End(f) <= found[j].first)
    BY <2>1, <2>2 DEF InPlace, GapOf, End
  <2> QED BY <2>3, <2>4, <2>5, <2>6
<1> QED BY <1>1, <1>2 DEF FoundInv

LEMMA FoundMore ==
  ASSUME FoundInv, ShapeInv, Fixed, gaps # <<>>, gaps' = gaps, pc' \in {"dense", "stride"},
         NEW at \in Nat, NEW n \in Nat \ {0},
         found' = Append(found, [first |-> at, len |-> n, gap |-> Len(gaps)]),
         covered <= at, Gap.from <= at, at < Gap.to, covered' = at + n
  PROVE  FoundInv'
<1> DEFINE new == [first |-> at, len |-> n, gap |-> Len(gaps)]
<1>1. Len(gaps) \in 1..Len(AllGaps) /\ Gap = GapOf(Len(gaps)) /\ Len(AllGaps) \in Nat
  BY GapFacts DEF ShapeInv
<1>2. /\ new \in Finding /\ new.gap = Len(gaps) /\ new.first = at /\ End(new) = covered'
  BY <1>1 DEF Finding, End
<1> HIDE DEF new
<1>3. found \in Seq(Finding) /\ found' = Append(found, new)
  BY DEF FoundInv, new
<1>4. /\ found' \in Seq(Finding) /\ Len(found') = Len(found) + 1
      /\ \A i \in 1..Len(found) : found'[i] = found[i]
      /\ found'[Len(found) + 1] = new
  BY <1>2, <1>3
<1>5. \A i \in DOMAIN found' : i \in 1..Len(found) \/ i = Len(found) + 1
  BY <1>3, <1>4
<1>6. DOMAIN found = 1..Len(found) /\ DOMAIN found' = 1..(Len(found) + 1) /\ Len(found) \in Nat
  BY <1>3, <1>4
<1>7. ASSUME NEW i \in 1..Len(found)
      PROVE  /\ found[i].gap = Len(gaps) => End(found[i]) <= at /\ End(found[i]) <= covered'
             /\ found[i].first \in Nat
  <2>1. found[i] \in Finding
    BY <1>3
  <2>2. found[i].gap = Len(gaps) => End(found[i]) <= covered
    BY <1>6 DEF FoundInv, InPlace
  <2>3. End(found[i]) \in Nat /\ found[i].first \in Nat /\ covered \in Nat
    BY <2>1 DEF Finding, End, ShapeInv
  <2> QED BY <2>2, <2>3
<1>8. ASSUME NEW i \in DOMAIN found', NEW f, f = found'[i],
             /\ f.gap \in 1..Len(AllGaps) /\ Len(gaps) <= f.gap
             /\ GapOf(f.gap).from <= f.first /\ f.first < GapOf(f.gap).to
             /\ f.gap = Len(gaps) => End(f) <= covered',
             \A j \in DOMAIN found' : i < j /\ f.gap = found'[j].gap => End(f) <= found'[j].first
      PROVE  InPlace(i)'
  <2>1. pc' \notin {"gap", "done"} /\ AllGaps' = AllGaps
    BY DEF Fixed
  <2> QED BY <1>8, <2>1 DEF InPlace, GapOf, End
<1>9. ASSUME NEW i \in DOMAIN found' PROVE InPlace(i)'
  <2>1. CASE i = Len(found) + 1
    <3>1. found'[i] = new
      BY <1>4, <2>1
    <3>2. /\ new.gap \in 1..Len(AllGaps) /\ Len(gaps) <= new.gap
          /\ GapOf(new.gap).from <= new.first /\ new.first < GapOf(new.gap).to
          /\ End(new) <= covered'
      BY <1>1, <1>2
    <3>3. \A j \in DOMAIN found' : ~(i < j)
      BY <1>6, <2>1
    <3> QED BY <1>8, <3>1, <3>2, <3>3
  <2>2. CASE i \in 1..Len(found)
    <3> DEFINE f == found[i]
    <3>1. found'[i] = f
      BY <1>4, <2>2
    <3>2. InPlace(i)
      BY <1>6, <2>2 DEF FoundInv
    <3>3. /\ f.gap \in 1..Len(AllGaps) /\ Len(gaps) <= f.gap
          /\ GapOf(f.gap).from <= f.first /\ f.first < GapOf(f.gap).to
          /\ \A j \in DOMAIN found : i < j /\ f.gap = found[j].gap => End(f) <= found[j].first
      BY <3>2 DEF InPlace
    <3>4. f.gap = Len(gaps) => End(f) <= at /\ End(f) <= covered'
      BY <1>7, <2>2
    <3> HIDE DEF f
    <3>5. ASSUME NEW j \in DOMAIN found', i < j, f.gap = found'[j].gap
          PROVE  End(f) <= found'[j].first
      <4>1. CASE j \in 1..Len(found)
        BY <1>4, <1>6, <3>3, <3>5, <4>1
      <4>2. CASE j = Len(found) + 1
        BY <1>2, <1>4, <3>4, <3>5, <4>2
      <4> QED BY <1>5, <4>1, <4>2
    <3> QED BY <1>8, <3>1, <3>3, <3>4, <3>5
  <2> QED BY <1>5, <2>1, <2>2
<1> QED BY <1>4, <1>9 DEF FoundInv

LEMMA FoundInit == Init => FoundInv
BY DEF Init, FoundInv

LEMMA FoundStep == ShapeInv /\ FoundInv /\ [Next]_vars => FoundInv'
<1> SUFFICES ASSUME ShapeInv, FoundInv, [Next]_vars PROVE FoundInv'
  OBVIOUS
<1>1. Fixed
  BY StepsFix
<1>2. /\ disk \in Disks /\ off \in Nat /\ covered \in Nat /\ Len(gaps) \in Nat
      /\ pc \in {"dense", "stride"} => gaps # <<>> /\ Gap.from <= covered /\ covered <= off
  BY DEF ShapeInv
<1>3. gaps # <<>> =>
        /\ Gap.from \in Nat /\ Gap.to \in Nat /\ DenseEnd \in Nat /\ DenseEnd <= Gap.to
        /\ Stop \in Nat /\ Stop <= Gap.to /\ Len(Tail(gaps)) = Len(gaps) - 1
  BY GapFacts DEF FreeGap
<1>4. \A i \in DOMAIN found :
        /\ found[i].gap \in Nat /\ Len(gaps) <= found[i].gap
        /\ pc \in {"gap", "done"} => found[i].gap # Len(gaps)
        /\ found[i].gap = Len(gaps) => End(found[i]) <= covered
  BY DEF FoundInv, InPlace
<1>5. ASSUME found' = found, gaps' = Tail(gaps), gaps # <<>> PROVE FoundInv'
  <2>1. Len(gaps') = Len(gaps) - 1 /\ Len(gaps') \in Nat
    <3>1. Len(gaps) # 0
      BY <1>5 DEF ShapeInv
    <3> QED BY <1>2, <1>3, <1>5, <3>1
  <2>2. \A i \in DOMAIN found : found[i].gap # Len(gaps')
    BY <1>2, <1>4, <2>1
  <2> QED BY <1>1, <1>2, <1>5, <2>1, <2>2, FoundKept
<1>6. ASSUME found' = found, gaps' = gaps, covered' = covered,
             pc' \in {"gap", "done"} => pc \in {"gap", "done"}
      PROVE  FoundInv'
  BY <1>1, <1>2, <1>4, <1>6, FoundKept
<1>7. CASE BeginGap
  <2>1. found' = found /\ gaps' = gaps /\ pc' = "dense" /\ pc = "gap"
    BY <1>7 DEF BeginGap
  <2> QED BY <1>1, <1>2, <1>4, <2>1, FoundKept
<1>8. CASE SkipGap
  BY <1>5, <1>8 DEF SkipGap
<1>9. CASE Done
  BY <1>6, <1>9 DEF Done
<1>10. CASE DenseHit
  <2> DEFINE at == CHOOSE x \in Hits : \A y \in Hits : x <= y
  <2>1. /\ Reading /\ Hits # {} /\ pc' = "dense" /\ gaps' = gaps /\ pc = "dense"
        /\ covered' = at + Identified(disk, at) /\ Report(at)
    BY <1>10 DEF DenseHit, Reading
  <2>2. at \in Hits
    BY <2>1, HitFacts
  <2> HIDE DEF at
  <2>3. Chunked \in Nat /\ off + Chunked <= DenseEnd
    BY <1>2, <1>3, <2>1, ChunkedFacts DEF Reading
  <2>4. at \in Nat /\ off <= at /\ at < DenseEnd /\ Identified(disk, at) \in Nat \ {0}
    BY <1>2, <1>3, <2>1, <2>2, <2>3, IdentifiedType DEF Hits
  <2>5. covered <= at /\ Gap.from <= at /\ at < Gap.to
    BY <1>2, <1>3, <2>1, <2>4
  <2>6. found' = Append(found, [first |-> at, len |-> Identified(disk, at), gap |-> Len(gaps)])
    BY <2>1 DEF Report
  <2> QED BY <1>1, <1>2, <2>1, <2>4, <2>5, <2>6, FoundMore
<1>11. CASE DenseMiss
  BY <1>6, <1>11 DEF DenseMiss, Reading
<1>12. CASE DenseOver
  BY <1>6, <1>12 DEF DenseOver
<1>13. CASE StrideHit
  <2>1. /\ pc = "stride" /\ pc' = "stride" /\ gaps' = gaps /\ Identified(disk, off) # 0
        /\ covered' = off + Identified(disk, off) /\ off + 1 <= Stop
        /\ found' = Append(found, [first |-> off, len |-> Identified(disk, off), gap |-> Len(gaps)])
    BY <1>13 DEF StrideHit, Striding, Report
  <2>2. Identified(disk, off) \in Nat \ {0}
    BY <1>2, <2>1, IdentifiedType
  <2>3. covered <= off /\ Gap.from <= off /\ off < Gap.to
    BY <1>2, <1>3, <2>1
  <2> QED BY <1>1, <1>2, <2>1, <2>2, <2>3, FoundMore
<1>14. CASE StrideMiss
  BY <1>6, <1>14 DEF StrideMiss, Striding
<1>15. CASE StrideOver
  BY <1>2, <1>5, <1>15 DEF StrideOver
<1>16. CASE UNCHANGED vars
  BY <1>6, <1>16 DEF vars
<1> QED BY <1>7, <1>8, <1>9, <1>10, <1>11, <1>12, <1>13, <1>14, <1>15, <1>16
        DEF Next, Scan, Returned

-----------------------------------------------------------------------------
(* Nothing within reach is missed.                                         *)

LEMMA SeenStays ==
  ASSUME FoundInv, [Next]_vars
  PROVE  \A x : Seen(x) => Seen(x)'
<1>1. found' = found \/ \E e : found' = Append(found, e)
  <2>1. CASE UNCHANGED vars
    BY <2>1 DEF vars
  <2>2. CASE Next
    BY <2>2 DEF Next, Scan, Returned, vars, BeginGap, SkipGap, Done, DenseHit, DenseMiss,
         DenseOver, StrideHit, StrideMiss, StrideOver, Report
  <2> QED BY <2>1, <2>2
<1>2. \A i \in DOMAIN found : i \in DOMAIN found' /\ found'[i] = found[i]
  <2>1. CASE found' = found
    BY <2>1
  <2>2. CASE \E e : found' = Append(found, e)
    <3>1. PICK e : found' = Append(found, e)
      BY <2>2
    <3>2. found \in Seq(Finding \cup {e}) /\ e \in Finding \cup {e}
      BY DEF FoundInv
    <3> QED BY <3>1, <3>2
  <2> QED BY <1>1, <2>1, <2>2
<1>3. ASSUME NEW x, Seen(x) PROVE Seen(x)'
  <2>1. PICK i \in DOMAIN found : Inside(x, found[i])
    BY <1>3 DEF Seen
  <2>2. i \in DOMAIN found' /\ found'[i] = found[i]
    BY <1>2
  <2>3. Inside(x, found'[i])
    BY <2>1, <2>2
  <2>4. Seen(x)' <=> \E j \in DOMAIN found' : Inside(x, found'[j])
    BY DEF Seen, Inside, End
  <2> QED BY <2>2, <2>3, <2>4
<1> QED BY <1>3

LEMMA CompleteStays ==
  ASSUME FoundInv, [Next]_vars
  PROVE  \A k : Complete(GapOf(k)) => Complete(GapOf(k))'
<1>1. disk' = disk /\ mode' = mode /\ AllGaps' = AllGaps
  BY StepsFix DEF Fixed
<1>2. \A x : Seen(x) => Seen(x)'
  BY SeenStays
<1> QED BY <1>1, <1>2 DEF Complete, Readable, InReach, Lost, GapOf

(* Moving on inside a gap keeps what is behind the search complete.        *)
LEMMA MissedMove ==
  ASSUME FoundInv, MissedInv, [Next]_vars, gaps' = gaps,
         pc' \in {"gap", "dense", "stride", "done"},
         pc' = "dense" /\ Readable(Gap) =>
           \A at \in DOMAIN disk.boot : Lost(at) /\ Gap.from <= at /\ at < off' => Seen(at)',
         pc' = "stride" => off' % MiB = 0,
         pc' = "stride" /\ Readable(Gap) =>
           \A at \in DOMAIN disk.boot : Lost(at) /\ Gap.from <= at =>
             /\ at < DenseEnd => Seen(at)'
             /\ at % MiB = 0 /\ at < off' => Seen(at)'
  PROVE  MissedInv'
<1>1. disk' = disk /\ mode' = mode /\ AllGaps' = AllGaps /\ Gap' = Gap
  BY StepsFix DEF Fixed, Gap
<1>2. /\ Readable(Gap)' = Readable(Gap) /\ DenseEnd' = DenseEnd
      /\ \A at : Lost(at)' = Lost(at)
  BY <1>1 DEF Readable, DenseEnd, Least, Lost
<1>3. \A k \in 1..Len(AllGaps') : Len(gaps') < k => Complete(GapOf(k))'
  BY <1>1, CompleteStays DEF MissedInv
<1> QED BY <1>1, <1>2, <1>3 DEF MissedInv

(* Leaving a gap that is complete.                                         *)
LEMMA MissedTail ==
  ASSUME ShapeInv, FoundInv, MissedInv, [Next]_vars, gaps # <<>>, gaps' = Tail(gaps),
         pc' = "gap", Complete(Gap)
  PROVE  MissedInv'
<1>1. AllGaps' = AllGaps /\ Len(AllGaps) \in Nat
  BY StepsFix DEF Fixed, ShapeInv
<1> DEFINE n == Len(gaps)
<1>2. Len(gaps') = n - 1 /\ Gap = GapOf(n) /\ n \in Nat
  BY GapFacts
<1>3. ASSUME NEW k \in 1..Len(AllGaps'), Len(gaps') < k PROVE Complete(GapOf(k))'
  <2>1. k = n \/ n < k
    <3>1. k \in Int /\ n - 1 < k
      BY <1>1, <1>2, <1>3
    <3>2. n \in Int
      BY <1>2
    <3> HIDE DEF n
    <3> QED BY <3>1, <3>2
  <2>2. Complete(GapOf(k))
    BY <1>1, <1>2, <1>3, <2>1 DEF MissedInv
  <2> QED BY <2>2, CompleteStays
<1> QED BY <1>3 DEF MissedInv

LEMMA MissedInit == Init => MissedInv
<1> SUFFICES ASSUME Init PROVE MissedInv
  OBVIOUS
<1>1. AllGaps \in Seq(FreeGap) /\ gaps = AllGaps
  BY ShapeInit DEF Init, AllGaps, ShapeInv
<1>2. pc = "gap" /\ \A k \in 1..Len(AllGaps) : ~(Len(gaps) < k)
  BY <1>1 DEF Init
<1> QED BY <1>2 DEF MissedInv

(* The volume just reported is seen, from its first sector to its last.    *)
LEMMA NewIsSeen ==
  ASSUME FoundInv, NEW at \in Nat, Report(at), Identified(disk, at) \in Nat,
         NEW x \in Nat, at <= x, x < at + Identified(disk, at)
  PROVE  Seen(x)'
<1> DEFINE new == [first |-> at, len |-> Identified(disk, at), gap |-> Len(gaps)]
<1>1. found \in Seq(Finding) /\ found' = Append(found, new)
  BY DEF Report, FoundInv
<1>2. Inside(x, new)
  BY DEF Inside, End
<1> HIDE DEF new
<1>3. found \in Seq(Finding \cup {new}) /\ new \in Finding \cup {new}
  BY <1>1
<1>4. Len(found) + 1 \in DOMAIN found' /\ found'[Len(found) + 1] = new
  BY <1>1, <1>3
<1>5. Inside(x, found'[Len(found) + 1])
  BY <1>2, <1>4
<1>6. Seen(x)' <=> \E j \in DOMAIN found' : Inside(x, found'[j])
  BY DEF Seen, Inside, End
<1> QED BY <1>4, <1>5, <1>6

LEMMA MissedStep ==
  ASSUME CountsStandAlone
  PROVE  ShapeInv /\ FoundInv /\ MissedInv /\ [Next]_vars => MissedInv'
<1> SUFFICES ASSUME ShapeInv, FoundInv, MissedInv, [Next]_vars PROVE MissedInv'
  OBVIOUS
<1>1. /\ disk \in Disks /\ disk.size \in Nat /\ off \in Nat /\ covered \in Nat
      /\ pc \in {"gap", "dense", "stride", "done"}
      /\ pc \in {"dense", "stride"} => gaps # <<>> /\ Gap.from <= covered /\ covered <= off
  BY DiskIs DEF ShapeInv
<1>2. gaps # <<>> =>
        /\ Gap.from \in Nat /\ Gap.to \in Nat /\ DenseEnd \in Nat /\ DenseEnd <= Gap.to
        /\ Stop \in Nat
  BY GapFacts DEF FreeGap
<1>3. \A x : Seen(x) => Seen(x)'
  BY SeenStays
<1>4. ASSUME NEW at \in DOMAIN disk.boot, Lost(at)
      PROVE  at \in Nat /\ at < disk.size /\ at \notin disk.bad /\ Identified(disk, at) # 0
  BY <1>1, <1>4, LostIsIdentified
<1>5. ASSUME pc = "dense", Readable(Gap), NEW at \in DOMAIN disk.boot, Lost(at),
             Gap.from <= at, at < off
      PROVE  Seen(at)
  BY <1>5 DEF MissedInv
<1>6. pc = "stride" => off % MiB = 0
  BY DEF MissedInv
<1>7. ASSUME pc = "stride", Readable(Gap), NEW at \in DOMAIN disk.boot, Lost(at), Gap.from <= at
      PROVE  /\ at < DenseEnd => Seen(at)
             /\ at % MiB = 0 /\ at < off => Seen(at)
  BY <1>7 DEF MissedInv
<1>8. ASSUME gaps' = gaps, pc' \in {"gap", "done"} PROVE MissedInv'
  BY <1>8, MissedMove
<1>9. CASE BeginGap
  <2>1. gaps # <<>> /\ gaps' = gaps /\ pc' = "dense" /\ off' = Gap.from
    BY <1>9 DEF BeginGap
  <2>2. \A at \in DOMAIN disk.boot : Lost(at) /\ Gap.from <= at => ~(at < off')
    BY <1>2, <1>4, <2>1
  <2> QED BY <2>1, <2>2, MissedMove
<1>10. CASE SkipGap
  <2>1. gaps # <<>> /\ gaps' = Tail(gaps) /\ pc' = "gap" /\ Gap.to - Gap.from < MiB
    BY <1>10, <1>1 DEF SkipGap
  <2>2. Complete(Gap)
    BY <1>2, <2>1, WindowAssumption DEF Complete, InReach
  <2> QED BY <2>1, <2>2, MissedTail
<1>11. CASE Done
  BY <1>8, <1>11 DEF Done
<1>12. CASE DenseHit
  <2> DEFINE first == CHOOSE x \in Hits : \A y \in Hits : x <= y
  <2>1. /\ Reading /\ Hits # {} /\ pc = "dense" /\ pc' = "dense" /\ gaps' = gaps
        /\ Report(first) /\ off' = first + Identified(disk, first)
    BY <1>12 DEF DenseHit, Reading
  <2>2. first \in Hits /\ \A y \in Hits : first <= y
    BY <2>1, HitFacts
  <2> HIDE DEF first
  <2>3. Chunked \in Nat
    BY <1>1, <1>2, <2>1, ChunkedFacts DEF Reading
  <2>4. /\ first \in Nat /\ first \in off..(off + Chunked - 1)
        /\ Identified(disk, first) \in Nat
    BY <1>1, <2>2, <2>3, IdentifiedType DEF Hits
  <2>5. ASSUME Readable(Gap), NEW at \in DOMAIN disk.boot, Lost(at),
               Gap.from <= at, at < off'
        PROVE  Seen(at)'
    <3>1. at \in Nat /\ Identified(disk, at) # 0
      BY <1>4, <2>5
    <3>2. CASE at < off
      BY <1>3, <1>5, <2>1, <2>5, <3>2
    <3>3. CASE off <= at /\ at < first
      <4>1. at \in Hits
        BY <1>1, <2>3, <2>4, <3>1, <3>3 DEF Hits
      <4> QED BY <2>2, <2>4, <3>1, <3>3, <4>1
    <3>4. CASE first <= at
      BY <2>1, <2>4, <2>5, <3>1, <3>4, NewIsSeen
    <3> QED BY <1>1, <2>4, <3>1, <3>2, <3>3, <3>4
  <2> QED BY <2>1, <2>5, MissedMove
<1>13. CASE DenseMiss
  <2>1. /\ Reading /\ Hits = {} /\ pc = "dense" /\ pc' = "dense" /\ gaps' = gaps
        /\ off' = off + Chunked
    BY <1>13 DEF DenseMiss, Reading
  <2>2. Chunked \in Nat
    BY <1>1, <1>2, <2>1, ChunkedFacts DEF Reading
  <2>3. ASSUME Readable(Gap), NEW at \in DOMAIN disk.boot, Lost(at),
               Gap.from <= at, at < off'
        PROVE  Seen(at)'
    <3>1. at \in Nat /\ Identified(disk, at) # 0
      BY <1>4, <2>3
    <3>2. CASE at < off
      BY <1>3, <1>5, <2>1, <2>3, <3>2
    <3>3. CASE off <= at
      <4>1. at \in Hits
        BY <1>1, <2>1, <2>2, <2>3, <3>1, <3>3 DEF Hits
      <4> QED BY <2>1, <4>1
    <3> QED BY <1>1, <3>1, <3>2, <3>3
  <2> QED BY <2>1, <2>3, MissedMove
<1>14. CASE DenseOver
  <2>1. /\ pc = "dense" /\ ~Reading /\ pc' = "stride" /\ gaps' = gaps
        /\ off' = RoundUp(covered)
    BY <1>14 DEF DenseOver
  <2>2. ASSUME Readable(Gap), NEW at \in DOMAIN disk.boot, Lost(at), Gap.from <= at, at < DenseEnd
        PROVE  Seen(at)'
    <3>1. at \in Nat /\ at < disk.size /\ at \notin disk.bad
      BY <1>4, <2>2
    <3>2. CASE at < off
      BY <1>3, <1>5, <2>1, <2>2, <3>2
    <3>3. CASE off <= at
      <4>1. off < DenseEnd
        BY <1>1, <1>2, <2>1, <2>2, <3>1, <3>3
      <4>2. Chunked \in Nat /\ (Chunked = 0 => Unread(off))
        BY <1>1, <1>2, <2>1, <4>1, ChunkedFacts
      <4>3. Unread(off)
        BY <2>1, <4>1, <4>2 DEF Reading
      <4>4. off \notin disk.bad
        BY <1>1, <1>2, <2>1, <2>2, <4>1 DEF Readable
      <4> QED BY <1>1, <3>1, <3>3, <4>3, <4>4 DEF Unread
    <3> QED BY <1>1, <3>1, <3>2, <3>3
  <2>3. ASSUME Readable(Gap), NEW at \in DOMAIN disk.boot, Lost(at), Gap.from <= at,
               at % MiB = 0, at < off'
        PROVE  Seen(at)'
    <3>1. at \in Nat
      BY <1>4, <2>3
    <3>2. at < covered
      <4>1. covered <= at => RoundUp(covered) <= at
        BY <1>1, <2>3, <3>1, RoundUpFacts
      <4>2. RoundUp(covered) \in Nat
        BY <1>1, RoundUpFacts
      <4> QED BY <1>1, <2>1, <2>3, <3>1, <4>1, <4>2
    <3>3. at < off
      BY <1>1, <2>1, <3>1, <3>2
    <3> QED BY <1>3, <1>5, <2>1, <2>3, <3>3
  <2>4. off' % MiB = 0
    BY <1>1, <2>1, RoundUpFacts
  <2> QED BY <2>1, <2>2, <2>3, <2>4, MissedMove
<1>15. CASE StrideHit
  <2>1. /\ pc = "stride" /\ pc' = "stride" /\ gaps' = gaps /\ Report(off)
        /\ covered' = off + Identified(disk, off) /\ off' = RoundUp(covered')
    BY <1>15 DEF StrideHit, Striding
  <2>2. Identified(disk, off) \in Nat /\ covered' \in Nat
    BY <1>1, <2>1, IdentifiedType
  <2>3. ASSUME Readable(Gap), NEW at \in DOMAIN disk.boot, Lost(at), Gap.from <= at,
               at % MiB = 0, at < off'
        PROVE  Seen(at)'
    <3>1. at \in Nat
      BY <1>4, <2>3
    <3>2. at < covered'
      <4>1. covered' <= at => RoundUp(covered') <= at
        BY <2>2, <2>3, <3>1, RoundUpFacts
      <4>2. RoundUp(covered') \in Nat
        BY <2>2, RoundUpFacts
      <4> QED BY <2>1, <2>2, <2>3, <3>1, <4>1, <4>2
    <3>3. CASE at < off
      BY <1>3, <1>7, <2>1, <2>3, <3>3
    <3>4. CASE off <= at
      BY <1>1, <2>1, <2>2, <3>1, <3>2, <3>4, NewIsSeen
    <3> QED BY <1>1, <3>1, <3>3, <3>4
  <2>4. off' % MiB = 0
    BY <2>1, <2>2, RoundUpFacts
  <2>5. \A at \in DOMAIN disk.boot :
          Readable(Gap) /\ Lost(at) /\ Gap.from <= at /\ at < DenseEnd => Seen(at)'
    BY <1>3, <1>7, <2>1
  <2> QED BY <2>1, <2>3, <2>4, <2>5, MissedMove
<1>16. CASE StrideMiss
  <2>1. /\ pc = "stride" /\ pc' = "stride" /\ gaps' = gaps
        /\ Identified(disk, off) = 0 /\ off' = off + MiB
    BY <1>16 DEF StrideMiss, Striding
  <2>2. ASSUME Readable(Gap), NEW at \in DOMAIN disk.boot, Lost(at), Gap.from <= at,
               at % MiB = 0, at < off'
        PROVE  Seen(at)'
    <3>1. at \in Nat /\ Identified(disk, at) # 0
      BY <1>4, <2>2
    <3>2. CASE at < off
      BY <1>3, <1>7, <2>1, <2>2, <3>2
    <3>3. CASE off <= at
      <4>1. at = off
        BY <1>1, <1>6, <2>1, <2>2, <3>1, <3>3, Boundaries
      <4> QED BY <2>1, <3>1, <4>1
    <3> QED BY <1>1, <3>1, <3>2, <3>3
  <2>3. off' % MiB = 0
    BY <1>1, <1>6, <2>1, Boundaries
  <2>4. \A at \in DOMAIN disk.boot :
          Readable(Gap) /\ Lost(at) /\ Gap.from <= at /\ at < DenseEnd => Seen(at)'
    BY <1>3, <1>7, <2>1
  <2> QED BY <2>1, <2>2, <2>3, <2>4, MissedMove
<1>17. CASE StrideOver
  <2>1. /\ pc = "stride" /\ ~(off + 1 <= Stop) /\ gaps' = Tail(gaps) /\ pc' = "gap"
        /\ gaps # <<>>
    BY <1>1, <1>17 DEF StrideOver, Striding
  <2>2. ASSUME Readable(Gap), NEW at \in DOMAIN disk.boot, InReach(at, Gap), Lost(at)
        PROVE  Seen(at)
    <3>1. at \in Nat
      BY <1>4, <2>2
    <3>2. /\ Gap.from <= at
          /\ at < DenseEnd \/ (at % MiB = 0 /\ at < Stop)
      BY <2>2 DEF InReach, DenseEnd, Stop
    <3>3. at < Stop => at < off
      BY <1>1, <1>2, <2>1, <3>1
    <3> QED BY <1>7, <2>1, <2>2, <3>2, <3>3
  <2>3. Complete(Gap)
    BY <2>2 DEF Complete
  <2> QED BY <2>1, <2>3, MissedTail
<1>18. CASE UNCHANGED vars
  <2>1. gaps' = gaps /\ pc' = pc /\ off' = off
    BY <1>18 DEF vars
  <2> QED BY <1>1, <1>3, <1>5, <1>6, <1>7, <2>1, MissedMove
<1> QED BY <1>9, <1>10, <1>11, <1>12, <1>13, <1>14, <1>15, <1>16, <1>17, <1>18
        DEF Next, Scan, Returned

-----------------------------------------------------------------------------
(* The theorems.                                                           *)

(* The search stays in its gaps, behind the volumes it has found: the      *)
(* inductive invariant of scanForOrphans.                                  *)
THEOREM ScanKeepsPlace == Spec => [](ShapeInv /\ FoundInv)
<1>1. Init => ShapeInv /\ FoundInv
  BY ShapeInit, FoundInit
<1>2. ShapeInv /\ FoundInv /\ [Next]_vars => (ShapeInv /\ FoundInv)'
  BY ShapeStep, FoundStep
<1> QED BY <1>1, <1>2, PTL DEF Spec

(* A volume found by the search begins outside every partition of the      *)
(* table and outside every other volume of its gap: unallocatedGaps and    *)
(* `covered` in scanForOrphans, for every table, image and mode.           *)
THEOREM FoundApart == Spec => [](FoundOutsideTable /\ NoneInsideAnother)
<1>1. ShapeInv /\ FoundInv => FoundOutsideTable
  <2>1. SUFFICES ASSUME ShapeInv, FoundInv, NEW i \in DOMAIN found, NEW j \in DOMAIN known,
                        Inside(found[i].first, known[j])
                 PROVE  FALSE
    BY DEF FoundOutsideTable
  <2>2. /\ found[i].gap \in 1..Len(AllGaps)
        /\ GapOf(found[i].gap).from <= found[i].first
        /\ found[i].first < GapOf(found[i].gap).to
    BY <2>1 DEF FoundInv, InPlace
  <2>3. Searched(disk, mode)
    <3>1. SUFFICES ASSUME ~Searched(disk, mode) PROVE FALSE
      OBVIOUS
    <3>2. AllGaps = <<>>
      BY <3>1 DEF AllGaps
    <3> QED BY <2>2, <3>2
  <2>4. Clear(GapOf(found[i].gap), known)
    BY <2>1, <2>2, <2>3 DEF ShapeInv
  <2>5. found[i].first \in Nat
    <3>1. found[i] \in Finding
      BY <2>1 DEF FoundInv
    <3> QED BY <3>1 DEF Finding
  <2> QED BY <2>1, <2>2, <2>4, <2>5 DEF Clear
<1>2. FoundInv => NoneInsideAnother
  <2>1. SUFFICES ASSUME FoundInv, NEW i \in DOMAIN found, NEW j \in DOMAIN found, i # j,
                        found[i].gap = found[j].gap, Inside(found[i].first, found[j])
                 PROVE  FALSE
    BY DEF NoneInsideAnother
  <2>2. found[i] \in Finding /\ found[j] \in Finding /\ i \in Nat /\ j \in Nat
    BY <2>1 DEF FoundInv
  <2>3. /\ found[i].first \in Nat /\ found[j].first \in Nat
        /\ found[i].len \in Nat \ {0} /\ found[j].len \in Nat \ {0}
    BY <2>2 DEF Finding
  <2>4. /\ i < j => End(found[i]) <= found[j].first
        /\ j < i => End(found[j]) <= found[i].first
    BY <2>1 DEF FoundInv, InPlace
  <2> QED BY <2>1, <2>2, <2>3, <2>4 DEF Inside, End
<1> QED BY <1>1, <1>2, ScanKeepsPlace, PTL

(* What is lost comes back, each volume once.  The hypothesis is what      *)
(* identifyVolume relies on when it reads a FAT32 sector count as 64 bits: *)
(* the 32 bits behind it are zero.  Where they are not, the volume is      *)
(* missed.                                                                 *)
THEOREM LostComesBack ==
  ASSUME CountsStandAlone
  PROVE  Spec => []FoundExactlyOnce
<1> DEFINE IInv == ShapeInv /\ FoundInv /\ MissedInv
<1>1. Init => IInv
  BY ShapeInit, FoundInit, MissedInit
<1>2. IInv /\ [Next]_vars => IInv'
  BY ShapeStep, FoundStep, MissedStep
<1>3. IInv => NoneMissed
  <2>1. SUFFICES ASSUME IInv, pc = "done", Searched(disk, mode),
                        NEW g \in ToSet(UnallocatedGaps(known, disk.size)), Readable(g),
                        NEW at \in DOMAIN disk.boot, InReach(at, g), Lost(at)
                 PROVE  Seen(at)
    BY DEF NoneMissed, Seen, Readable
  <2>2. AllGaps = UnallocatedGaps(known, disk.size) /\ AllGaps \in Seq(FreeGap) /\ gaps = <<>>
    BY <2>1 DEF AllGaps, ShapeInv
  <2>3. PICK i \in DOMAIN AllGaps : g = AllGaps[i]
    BY <2>2 DEF ToSet
  <2> DEFINE k == Len(AllGaps) - i + 1
  <2>4. k \in 1..Len(AllGaps) /\ Len(AllGaps) - k + 1 = i /\ Len(gaps) < k
    BY <2>2, <2>3
  <2> HIDE DEF k
  <2>5. GapOf(k) = g
    BY <2>3, <2>4 DEF GapOf
  <2>6. Complete(g)
    BY <2>1, <2>4, <2>5 DEF MissedInv
  <2> QED BY <2>1, <2>6 DEF Complete
<1> HIDE DEF IInv
<1>4. Spec => []NoneMissed
  BY <1>1, <1>2, <1>3, PTL DEF Spec
<1> QED BY <1>4, FoundApart, PTL DEF FoundExactlyOnce

-----------------------------------------------------------------------------
(* A GPT survives the loss of its headers.                                 *)

LEMMA FirstBest ==
  ASSUME NEW n \in 1..3, NEW f, \A i \in 1..n : f[i] \in Nat
  PROVE  \E i \in 1..n : /\ \A j \in 1..n : f[j] <= f[i]
                         /\ \A j \in 1..(i - 1) : f[j] < f[i]
<1>1. CASE n = 1
  BY <1>1
<1>2. CASE n = 2
  <2>1. f[1] \in Nat /\ f[2] \in Nat /\ \A j \in 1..n : j = 1 \/ j = 2
    BY <1>2
  <2>2. CASE f[1] < f[2]
    BY <1>2, <2>1, <2>2
  <2>3. CASE f[2] <= f[1]
    BY <1>2, <2>1, <2>3
  <2> QED BY <2>1, <2>2, <2>3
<1>3. CASE n = 3
  <2>1. f[1] \in Nat /\ f[2] \in Nat /\ f[3] \in Nat /\ \A j \in 1..n : j = 1 \/ j = 2 \/ j = 3
    BY <1>3
  <2>2. CASE f[2] <= f[1] /\ f[3] <= f[1]
    BY <1>3, <2>1, <2>2
  <2>3. CASE f[1] < f[2] /\ f[3] <= f[2]
    BY <1>3, <2>1, <2>3
  <2>4. CASE f[1] < f[3] /\ f[2] < f[3]
    BY <1>3, <2>1, <2>4
  <2> QED BY <2>1, <2>2, <2>3, <2>4
<1> QED BY <1>1, <1>2, <1>3

LEMMA CandidatesFacts ==
  ASSUME NEW g, NEW backup
  PROVE  LET c == Candidates(g, backup) IN
         /\ Len(c) \in 1..3 /\ DOMAIN c = 1..Len(c)
         /\ \A j \in DOMAIN c : c[j] \in {2, g.entry} \cup (IF backup # None THEN {backup.entry} ELSE {})
         /\ \E j \in DOMAIN c : c[j] = 2
         /\ \E j \in DOMAIN c : c[j] = g.entry
         /\ backup # None => \E j \in DOMAIN c : c[j] = backup.entry
<1> DEFINE S == {2, g.entry} \cup (IF backup # None THEN {backup.entry} ELSE {})
           own == IF g.entry # 2 THEN <<g.entry>> ELSE <<>>
           other == IF backup # None /\ backup.entry \notin {2, g.entry}
                    THEN <<backup.entry>> ELSE <<>>
           two == <<2>> \o own
           c == two \o other
<1>1. c = Candidates(g, backup)
  BY DEF Candidates
<1>2. <<2>> \in Seq(S) /\ own \in Seq(S) /\ other \in Seq(S)
  <2>1. 2 \in S /\ g.entry \in S /\ (backup # None => backup.entry \in S)
    OBVIOUS
  <2> HIDE DEF S
  <2>2. /\ <<2>> \in Seq(S) /\ <<g.entry>> \in Seq(S) /\ <<>> \in Seq(S)
        /\ backup # None => <<backup.entry>> \in Seq(S)
    BY <2>1
  <2> QED BY <2>2
<1>3. /\ Len(own) = IF g.entry # 2 THEN 1 ELSE 0
      /\ g.entry # 2 => own[1] = g.entry
      /\ Len(<<2>>) = 1 /\ <<2>>[1] = 2
  OBVIOUS
<1>4. /\ Len(other) = IF backup # None /\ backup.entry \notin {2, g.entry} THEN 1 ELSE 0
      /\ backup # None /\ backup.entry \notin {2, g.entry} => other[1] = backup.entry
  OBVIOUS
<1> HIDE DEF S, own, other
<1>5. /\ two \in Seq(S) /\ Len(two) = 1 + Len(own)
      /\ two[1] = 2 /\ (g.entry # 2 => two[2] = g.entry)
  <2> DEFINE one == <<2>>
  <2>1. one \in Seq(S) /\ Len(one) = 1 /\ one[1] = 2 /\ two = one \o own
    BY <1>2, <1>3
  <2> HIDE DEF one, two
  <2>2. two \in Seq(S) /\ Len(two) = Len(one) + Len(own)
    BY <1>2, <2>1, ConcatProperties
  <2>3. \A i \in 1..(Len(one) + Len(own)) :
          two[i] = IF i <= Len(one) THEN one[i] ELSE own[i - Len(one)]
    BY <1>2, <2>1, ConcatProperties
  <2> QED BY <1>3, <2>1, <2>2, <2>3
<1> HIDE DEF two
<1>6. /\ c \in Seq(S) /\ Len(c) = Len(two) + Len(other)
      /\ \A i \in 1..Len(two) : c[i] = two[i]
      /\ \A i \in 1..Len(other) : c[Len(two) + i] = other[i]
  <2>1. /\ Len(c) = Len(two) + Len(other) /\ c \in Seq(S)
        /\ \A i \in 1..Len(c) : c[i] = IF i <= Len(two) THEN two[i] ELSE other[i - Len(two)]
    <3>1. two \in Seq(S) /\ other \in Seq(S) /\ c = two \o other
      BY <1>2, <1>5
    <3> HIDE DEF c
    <3>2. c \in Seq(S) /\ Len(c) = Len(two) + Len(other)
      BY <3>1, ConcatProperties
    <3>3. \A i \in 1..(Len(two) + Len(other)) :
            c[i] = IF i <= Len(two) THEN two[i] ELSE other[i - Len(two)]
      BY <3>1, ConcatProperties
    <3> QED BY <3>2, <3>3
  <2>2. Len(two) \in Nat /\ Len(other) \in Nat
    BY <1>3, <1>4, <1>5
  <2> HIDE DEF c
  <2>3. ASSUME NEW i \in 1..Len(other) PROVE c[Len(two) + i] = other[i]
    <3>1. Len(two) + i \in 1..Len(c) /\ ~(Len(two) + i <= Len(two)) /\ Len(two) + i - Len(two) = i
      BY <2>1, <2>2
    <3> QED BY <2>1, <3>1
  <2> QED BY <2>1, <2>2, <2>3
<1> HIDE DEF c
<1>7. Len(c) \in 1..3 /\ DOMAIN c = 1..Len(c)
  BY <1>3, <1>4, <1>5, <1>6
<1>8. 1 \in DOMAIN c /\ c[1] = 2
  BY <1>3, <1>4, <1>5, <1>6, <1>7
<1>9. g.entry # 2 => 2 \in DOMAIN c /\ c[2] = g.entry
  BY <1>3, <1>4, <1>5, <1>6, <1>7
<1>10. backup # None /\ backup.entry \notin {2, g.entry} =>
         Len(two) + 1 \in DOMAIN c /\ c[Len(two) + 1] = backup.entry
  BY <1>3, <1>4, <1>5, <1>6, <1>7
<1>11. backup # None => \E j \in DOMAIN c : c[j] = backup.entry
  BY <1>8, <1>9, <1>10
<1>12. \E j \in DOMAIN c : c[j] = g.entry
  BY <1>8, <1>9
<1>13. \A j \in DOMAIN c : c[j] \in S
  BY <1>6, <1>7
<1> QED BY <1>1, <1>7, <1>8, <1>11, <1>12, <1>13 DEF S

(* scanGpt returns what one of the candidates yields, and no fewer entries *)
(* than any of them.                                                       *)
LEMMA BestYield ==
  ASSUME NEW d \in Disks, d.native = 1
  PROVE  LET Yield(lba) == ReadGptEntries(d, lba, Geometry(d, 1), 1) IN
         /\ \E lba \in Places(d) : ScanGpt(d, 1) = Yield(lba)
         /\ \A lba \in Places(d) : Len(Yield(lba)) <= Len(ScanGpt(d, 1))
<1> DEFINE g == Geometry(d, 1)
           c == Candidates(g, d.backup)
           Yield(i) == ReadGptEntries(d, c[i], g, 1)
           best == CHOOSE i \in DOMAIN c :
                     /\ \A j \in DOMAIN c : Len(Yield(j)) <= Len(Yield(i))
                     /\ \A j \in 1..(i - 1) : Len(Yield(j)) < Len(Yield(i))
           f == [i \in DOMAIN c |-> Len(Yield(i))]
<1>1. ScanGpt(d, 1) = Yield(best)
  BY DEF ScanGpt, Header
<1> HIDE DEF g
<1>2. /\ Len(c) \in 1..3 /\ DOMAIN c = 1..Len(c)
      /\ \A j \in DOMAIN c : c[j] \in Places(d)
      /\ \A lba \in Places(d) : \E j \in DOMAIN c : c[j] = lba
  BY CandidatesFacts DEF Places, g
<1> HIDE DEF c
<1>3. \A i \in DOMAIN c : Len(Yield(i)) \in Nat
  <2>1. \A i : Yield(i) \in Seq(Part)
    BY EntriesType
  <2> HIDE DEF Yield
  <2> QED BY <2>1
<1> HIDE DEF Yield
<1>4. \E i \in DOMAIN c : /\ \A j \in DOMAIN c : Len(Yield(j)) <= Len(Yield(i))
                          /\ \A j \in 1..(i - 1) : Len(Yield(j)) < Len(Yield(i))
  <2>1. PICK i \in 1..Len(c) : /\ \A j \in 1..Len(c) : f[j] <= f[i]
                               /\ \A j \in 1..(i - 1) : f[j] < f[i]
    <3>1. \A i \in 1..Len(c) : f[i] \in Nat
      BY <1>2, <1>3
    <3> HIDE DEF f
    <3> QED BY <1>2, <3>1, FirstBest
  <2>2. \A j \in 1..(i - 1) : j \in DOMAIN c
    BY <1>2
  <2> QED BY <1>2, <2>1, <2>2
<1>5. best \in DOMAIN c /\ \A j \in DOMAIN c : Len(Yield(j)) <= Len(Yield(best))
  BY <1>4
<1>6. ASSUME NEW lba \in Places(d)
      PROVE  Len(ReadGptEntries(d, lba, g, 1)) <= Len(ScanGpt(d, 1))
  <2>1. PICK j \in DOMAIN c : c[j] = lba
    BY <1>2
  <2>2. Yield(j) = ReadGptEntries(d, lba, g, 1)
    BY <2>1 DEF Yield
  <2> HIDE DEF best
  <2> QED BY <1>1, <1>5, <2>2
<1>7. \E lba \in Places(d) : ScanGpt(d, 1) = ReadGptEntries(d, lba, g, 1)
  <2> HIDE DEF best
  <2> QED BY <1>1, <1>2, <1>5 DEF Yield
<1> QED BY <1>6, <1>7 DEF g

(* What an array yields: an extent for every entry kept.                   *)
LEMMA YieldIs ==
  ASSUME NEW d \in Disks, NEW lba, NEW g
  PROVE  LET a == Array(d, lba, 1)
             yield == ReadGptEntries(d, lba, g, 1)
             kept == EntriesKept(g, a)
         IN  /\ IsFiniteSet(kept) /\ Len(yield) = Cardinality(kept)
             /\ ToSet(yield) = {EntryExtent(a[n], 1) : n \in kept}
<1> DEFINE a == Array(d, lba, 1)
           kept == EntriesKept(g, a)
           seq == Picked(a, kept)
           yield == ReadGptEntries(d, lba, g, 1)
<1>1. a \in Seq(GptEntry) /\ kept \subseteq DOMAIN a
  BY DiskIs DEF EntriesKept
<1>2. yield = [i \in DOMAIN seq |-> EntryExtent(seq[i], 1)]
  BY DEF ReadGptEntries, Placed
<1> HIDE DEF a, kept
<1>3. /\ seq \in Seq(GptEntry) /\ IsFiniteSet(kept) /\ Len(seq) = Cardinality(kept)
      /\ ToSet(seq) = {a[n] : n \in kept}
  BY <1>1, PickedExact
<1> HIDE DEF seq, yield
<1>4. DOMAIN seq = 1..Len(seq) /\ Len(seq) \in Nat
  BY <1>3
<1>5. Len(yield) = Len(seq) /\ DOMAIN yield = DOMAIN seq
  BY <1>2, <1>4
<1>6. ToSet(yield) = {EntryExtent(x, 1) : x \in ToSet(seq)}
  BY <1>2, <1>5 DEF ToSet
<1>7. ToSet(yield) = {EntryExtent(a[n], 1) : n \in kept}
  BY <1>3, <1>6
<1> QED BY <1>3, <1>5, <1>7 DEF a, kept, yield

(* An array of which another is what remains keeps all that the other      *)
(* does; if it keeps no more, the two keep the same.                       *)
LEMMA RemainsKept ==
  ASSUME NEW g, NEW a \in Seq(GptEntry), NEW b \in Seq(GptEntry), disk \in Disks,
         g \in GptHeader, Spans(g, a), RemainsOf(b, a)
  PROVE  EntriesKept(g, b) \subseteq EntriesKept(g, a)
         /\ \A n \in EntriesKept(g, b) : a[n] = b[n]
<1>1. disk.size \in Nat /\ g.lastUsable \in Nat /\ g.lastUsable < disk.size
  BY DiskAssumption DEF Spans, GptHeader
<1>2. ASSUME NEW n \in EntriesKept(g, b)
      PROVE  n \in EntriesKept(g, a) /\ a[n] = b[n]
  <2>1. n \in DOMAIN b /\ EntrySlot(g, n) /\ Fits(g, b[n])
    BY DEF EntriesKept
  <2>2. b[n] \in GptEntry
    BY <2>1
  <2>3. ~Absurd(b[n])
    BY <1>1, <2>1, <2>2 DEF Absurd, Fits, GptEntry
  <2>4. n \in DOMAIN a /\ a[n] = b[n]
    BY <2>1, <2>3 DEF RemainsOf
  <2> QED BY <2>1, <2>4 DEF EntriesKept
<1> QED BY <1>2

(* scanGpt, readGptEntries: whichever headers survive, the table is what   *)
(* an intact copy of the entry array says.                                 *)
THEOREM OneArrayIsEnough == Spec => []GptSurvives
<1> DEFINE KnownInv ==
      disk \in Disks /\ known = IF Table(disk) = <<>> THEN <<Located(0, disk.size)>> ELSE Table(disk)
<1>1. Init => KnownInv
  BY DEF Init
<1>2. KnownInv /\ [Next]_vars => KnownInv'
  <2>1. [Next]_vars => disk' = disk /\ known' = known
    BY StepsFix DEF Fixed
  <2> QED BY <2>1
<1>3. KnownInv => GptSurvives
  <2> DEFINE At(lba) == Array(disk, lba, 1)
             g == Geometry(disk, 1)
             kept(lba) == EntriesKept(g, At(lba))
             yield(lba) == ReadGptEntries(disk, lba, g, 1)
  <2>1. SUFFICES ASSUME KnownInv, disk.native = 1, ~disk.ddr, disk.signed, Protective(disk),
                        ~BareVolume(disk), SectorUnit(disk) = 1,
                        NEW lba \in Places(disk), Spans(g, At(lba)),
                        \A other \in Places(disk) : RemainsOf(At(other), At(lba)),
                        \E n \in DOMAIN At(lba) : Usable(At(lba)[n])
                 PROVE  /\ \A n \in DOMAIN At(lba) :
                             Usable(At(lba)[n]) => EntryExtent(At(lba)[n], 1) \in ToSet(known)
                        /\ \A p \in ToSet(known) :
                             \E n \in DOMAIN At(lba) : p = EntryExtent(At(lba)[n], 1)
    BY DEF GptSurvives
  <2>2. /\ disk \in Disks /\ disk.size \in Nat \ {0} /\ TableLbas \in Nat
        /\ disk.primary \in GptHeader \cup {None} /\ disk.backup \in GptHeader \cup {None}
        /\ \A x : At(x) \in Seq(GptEntry)
    BY <2>1, DiskAssumption, WindowAssumption, DiskIs
  <2>3. g \in GptHeader
    <3>1. CASE disk.primary = None /\ disk.backup = None
      <4>1. g = StandardHeader(disk, 1)
        BY <2>1, <3>1 DEF Geometry, Header
      <4>2. disk.size \div 1 = disk.size
        <5>1. 1 \in Nat \ {0} /\ 0 \in 0..(1 - 1) /\ disk.size * 1 + 0 = disk.size
          BY <2>2
        <5> QED BY <2>2, <5>1, DivModUnique
      <4> DEFINE last == IF disk.size - 1 >= TableLbas + 1 THEN disk.size - 1 - TableLbas ELSE 0
      <4>3. TableLbas + 1 \in Nat /\ last \in Nat /\ TableSlots \in Nat \ {0} /\ 2 \in Nat /\ 1 \in Nat \ {0}
        BY <2>2, WindowAssumption
      <4> HIDE DEF g
      <4>4. g = [entry |-> 2, num |-> TableSlots, stride |-> 1, firstUsable |-> TableLbas + 1,
                 lastUsable |-> last]
        BY <4>1, <4>2 DEF StandardHeader
      <4> HIDE DEF last
      <4> QED BY <4>3, <4>4 DEF GptHeader
    <3>2. CASE ~(disk.primary = None /\ disk.backup = None)
      BY <2>1, <2>2, <3>2 DEF Geometry, Header
    <3> QED BY <3>1, <3>2
  <2>4. /\ \E x \in Places(disk) : ScanGpt(disk, 1) = yield(x)
        /\ \A x \in Places(disk) : Len(yield(x)) <= Len(ScanGpt(disk, 1))
    BY <2>1, BestYield
  <2>5. PICK won \in Places(disk) : ScanGpt(disk, 1) = yield(won)
    BY <2>4
  <2>6. \A x : /\ IsFiniteSet(kept(x)) /\ Len(yield(x)) = Cardinality(kept(x))
               /\ ToSet(yield(x)) = {EntryExtent(At(x)[n], 1) : n \in kept(x)}
    BY <2>2, YieldIs
  <2>7. kept(won) \subseteq kept(lba) /\ \A n \in kept(won) : At(lba)[n] = At(won)[n]
    <3> HIDE DEF g
    <3> QED BY <2>1, <2>2, <2>3, RemainsKept
  <2>8. \A n \in DOMAIN At(lba) : Usable(At(lba)[n]) => n \in kept(lba)
    <3>1. ASSUME NEW n \in DOMAIN At(lba), Usable(At(lba)[n]) PROVE n \in kept(lba)
      <4> DEFINE e == At(lba)[n]
      <4>1. e \in GptEntry /\ EntrySlot(g, n) /\ Usable(e)
        BY <2>1, <2>2, <3>1 DEF Spans
      <4>2. g.firstUsable <= TableLbas + 1 /\ g.lastUsable + TableLbas + 1 >= disk.size
            /\ g.firstUsable \in Nat /\ g.lastUsable \in Nat
        BY <2>1, <2>3 DEF Spans, GptHeader
      <4> HIDE DEF e, g
      <4>3. Fits(g, e)
        <5>1. /\ e.used /\ e.first <= e.last /\ e.first > TableLbas
              /\ e.last < disk.size - TableLbas
          BY <4>1 DEF Usable
        <5>2. e.first \in Nat /\ e.last \in Nat /\ disk.size \in Nat /\ TableLbas \in Nat
          BY <2>2, <4>1 DEF GptEntry
        <5> DEFINE x == e.first
                   y == e.last
                   lo == g.firstUsable
                   hi == g.lastUsable
                   z == disk.size
        <5>3. x >= lo /\ y <= hi
          <6>1. /\ x \in Nat /\ y \in Nat /\ lo \in Nat /\ hi \in Nat /\ z \in Nat /\ TableLbas \in Nat
                /\ x > TableLbas /\ y < z - TableLbas /\ lo <= TableLbas + 1 /\ hi + TableLbas + 1 >= z
            BY <4>2, <5>1, <5>2
          <6> HIDE DEF x, y, lo, hi, z
          <6> QED BY <6>1
        <5> QED BY <5>1, <5>3 DEF Fits
      <4> QED BY <3>1, <4>1, <4>3 DEF EntriesKept, e
    <3> QED BY <3>1
  <2>9. kept(lba) \subseteq DOMAIN At(lba)
    BY DEF EntriesKept
  <2>10. disk \in Disks /\ known = IF Table(disk) = <<>> THEN <<Located(0, disk.size)>> ELSE Table(disk)
    BY <2>1
  <2> HIDE DEF kept, yield, At, g, KnownInv
  <2>11. kept(won) = kept(lba)
    <3>1. Cardinality(kept(lba)) <= Cardinality(kept(won))
      BY <2>4, <2>5, <2>6
    <3> QED BY <2>6, <2>7, <3>1, FS_Subset, FS_CardinalityType
  <2>12. ToSet(ScanGpt(disk, 1)) = {EntryExtent(At(lba)[n], 1) : n \in kept(lba)}
    BY <2>5, <2>6, <2>7, <2>11
  <2>13. known = ScanGpt(disk, 1)
    <3>1. \E n \in DOMAIN At(lba) : n \in kept(lba)
      BY <2>1, <2>8
    <3>2. ToSet(ScanGpt(disk, 1)) # {}
      BY <2>12, <3>1
    <3>3. ScanGpt(disk, 1) # <<>>
      BY <3>2 DEF ToSet
    <3>4. Table(disk) = ScanGpt(disk, 1)
      BY <2>1, <3>3 DEF Table
    <3> QED BY <2>10, <3>3, <3>4
  <2> QED BY <2>8, <2>9, <2>12, <2>13
<1> QED BY <1>1, <1>2, <1>3, PTL DEF Spec
=============================================================================
