------------------------- MODULE CommandLineProofs -------------------------
(***************************************************************************)
(* Proofs about the command line, for every volume, destination, list and  *)
(* bound: what export-list reports of its list, that the report is the     *)
(* tree, and that an export that exits with 0 left a copy of every file.   *)
(***************************************************************************)
EXTENDS CommandLine, NumberLemmas, SequenceTheorems, FiniteSetTheorems, TLAPS

(* Dropping the last element of a sequence.                                *)
LEMMA FrontIs ==
  ASSUME NEW S, NEW q \in Seq(S), q # <<>>
  PROVE  /\ Len(q) \in Nat \ {0} /\ Front(q) \in Seq(S) /\ Len(Front(q)) = Len(q) - 1
         /\ \A i \in 1..(Len(q) - 1) : Front(q)[i] = q[i]
         /\ Last(q) = q[Len(q)] /\ Last(q) \in S
<1> DEFINE n == Len(q) - 1
           t == SubSeq(q, 1, n)
<1>1. n \in Nat /\ Len(q) \in Nat \ {0} /\ \A i \in 1..n : q[i] \in S
  OBVIOUS
<1>2. /\ t \in Seq(S)
      /\ Len(t) = IF 1 <= n THEN n - 1 + 1 ELSE 0
      /\ \A i \in 1..(n - 1 + 1) : t[i] = q[1 + i - 1]
  BY <1>1, SubSeqProperties
<1>3. Front(q) = t
  BY DEF Front
<1>4. Last(q) = q[Len(q)] /\ Last(q) \in S
  BY <1>1 DEF Last
<1> HIDE DEF t, n
<1>5. Len(t) = n /\ \A i \in 1..n : t[i] = q[i]
  <2>1. n - 1 + 1 = n /\ (1 <= n \/ n = 0)
    BY <1>1
  <2>2. ASSUME NEW i \in 1..n PROVE 1 + i - 1 = i
    OBVIOUS
  <2> QED BY <1>2, <2>1, <2>2
<1> QED BY <1>1, <1>2, <1>3, <1>4, <1>5 DEF n

LEMMA AppendIs ==
  ASSUME NEW S, NEW q \in Seq(S), NEW e \in S
  PROVE  /\ Append(q, e) \in Seq(S) /\ Append(q, e) # <<>>
         /\ Len(Append(q, e)) = Len(q) + 1
         /\ \A i \in 1..Len(q) : Append(q, e)[i] = q[i]
         /\ Append(q, e)[Len(q) + 1] = e
OBVIOUS

(* Two sequences with the same elements.                                   *)
LEMMA SameSeq ==
  ASSUME NEW S, NEW q \in Seq(S), NEW r \in Seq(S), Len(q) = Len(r),
         \A i \in 1..Len(q) : q[i] = r[i]
  PROVE  q = r
OBVIOUS

LEMMA FrontThenLast ==
  ASSUME NEW S, NEW q \in Seq(S), q # <<>>
  PROVE  q = Append(Front(q), q[Len(q)])
<1> DEFINE f == Front(q)  e == q[Len(q)]
<1>1. /\ Len(q) \in Nat \ {0} /\ f \in Seq(S) /\ Len(f) = Len(q) - 1
      /\ (\A i \in 1..(Len(q) - 1) : f[i] = q[i]) /\ e \in S
  BY FrontIs
<1> HIDE DEF f
<1>2. /\ Append(f, e) \in Seq(S) /\ Len(Append(f, e)) = Len(f) + 1
      /\ (\A i \in 1..Len(f) : Append(f, e)[i] = f[i]) /\ Append(f, e)[Len(f) + 1] = e
  BY <1>1, AppendIs
<1>3. Len(Append(f, e)) = Len(q) /\ Len(f) + 1 = Len(q)
  BY <1>1, <1>2
<1>4. ASSUME NEW i \in 1..Len(q) PROVE q[i] = Append(f, e)[i]
  <2>1. CASE i = Len(q)
    BY <1>2, <1>3, <2>1
  <2>2. CASE i # Len(q)
    <3>1. i \in 1..Len(f) /\ i \in 1..(Len(q) - 1)
      BY <1>1, <2>2
    <3> QED BY <1>1, <1>2, <3>1
  <2> QED BY <2>1, <2>2
<1> HIDE DEF e
<1> QED BY <1>2, <1>3, <1>4, SameSeq DEF f, e

-----------------------------------------------------------------------------
(* The routes of a volume, step by step.                                   *)

StepRec == [e : DirEntry, at : Nat]
Node(v, r, k) == IF k = 1 THEN v.root ELSE r[k - 1].e.node
Picks(v, r, k) ==
  \E i \in DOMAIN v.list[Node(v, r, k)] : r[k] = [e |-> v.list[Node(v, r, k)][i], at |-> i]
Fresh(v, r, n) ==
  \A i, j \in 1..n : i < j /\ v.ident[Node(v, r, i)] # 0
                       => v.ident[Node(v, r, i)] # v.ident[Node(v, r, j)]
IsRoute(v, r, limit) ==
  /\ r \in Seq(StepRec) /\ Len(r) <= limit
  /\ \A k \in 1..Len(r) : Node(v, r, k) \in Dirs /\ Picks(v, r, k)
  /\ Fresh(v, r, Len(r))
RouteSet(v, limit) == {r \in Seq(StepRec) : r # <<>> /\ IsRoute(v, r, limit)}

LEMMA VolumeIs ==
  ASSUME NEW v, Volume(v)
  PROVE  /\ v.root \in Dirs /\ v.list \in [Dirs -> Seq(DirEntry)] /\ v.ident \in [Dirs -> Nat]
         /\ \A d \in Dirs : \A i \in DOMAIN v.list[d] :
              i \in Nat \ {0} /\ i <= Len(v.list[d]) /\ v.list[d][i] \in DirEntry
BY DEF Volume

(* What came before a step does not depend on it.                          *)
LEMMA NodeSame ==
  ASSUME NEW v, NEW q, NEW r, NEW n \in Nat, \A i \in 1..n : q[i] = r[i], NEW k \in 1..(n + 1)
  PROVE  Node(v, q, k) = Node(v, r, k)
<1>1. CASE k = 1
  BY <1>1 DEF Node
<1>2. CASE k # 1
  <2>1. k - 1 \in 1..n
    BY <1>2
  <2> QED BY <1>2, <2>1 DEF Node
<1> QED BY <1>1, <1>2

(* A route with one step more, and a route without its last step.          *)
LEMMA RouteGrows ==
  ASSUME NEW v, Volume(v), NEW limit \in Nat, NEW q \in Seq(StepRec), NEW x \in StepRec
  PROVE  IsRoute(v, Append(q, x), limit)
           <=> /\ IsRoute(v, q, limit)
               /\ Node(v, q, Len(q) + 1) \in Dirs /\ Len(q) < limit
               /\ Fresh(v, q, Len(q) + 1)
               /\ \E i \in DOMAIN v.list[Node(v, q, Len(q) + 1)] :
                    x = [e |-> v.list[Node(v, q, Len(q) + 1)][i], at |-> i]
<1> DEFINE r == Append(q, x)
           n == Len(q)
<1>1. /\ r \in Seq(StepRec) /\ Len(r) = n + 1 /\ (\A i \in 1..n : r[i] = q[i]) /\ r[n + 1] = x
      /\ n \in Nat
  BY AppendIs
<1> HIDE DEF r, n
<1>2. \A k \in 1..(n + 1) : Node(v, r, k) = Node(v, q, k)
  BY <1>1, NodeSame
<1>3. ASSUME NEW m \in Nat, m <= n + 1 PROVE Fresh(v, r, m) <=> Fresh(v, q, m)
  <2>1. \A i \in 1..m : i \in 1..(n + 1)
    BY <1>1, <1>3
  <2> QED BY <1>2, <2>1 DEF Fresh
<1>4. ASSUME NEW k \in 1..n PROVE Picks(v, r, k) <=> Picks(v, q, k)
  <2>1. k \in 1..(n + 1)
    BY <1>1
  <2> QED BY <1>1, <1>2, <2>1 DEF Picks
<1>5. Picks(v, r, n + 1) <=> \E i \in DOMAIN v.list[Node(v, q, n + 1)] :
                                x = [e |-> v.list[Node(v, q, n + 1)][i], at |-> i]
  <2>1. n + 1 \in 1..(n + 1)
    BY <1>1
  <2> QED BY <1>1, <1>2, <2>1 DEF Picks
<1>6. Fresh(v, q, n + 1) => Fresh(v, q, n)
  <2>1. \A i \in 1..n : i \in 1..(n + 1)
    BY <1>1
  <2> QED BY <2>1 DEF Fresh
<1>7. \A k \in 1..(n + 1) : k \in 1..n \/ k = n + 1
  BY <1>1
<1>8. \A k \in 1..n : k \in 1..(n + 1)
  BY <1>1
<1>9. n + 1 \in 1..(n + 1) /\ n + 1 \in Nat /\ n + 1 <= n + 1
  BY <1>1
<1>10. (n + 1 <= limit <=> n < limit) /\ (n < limit => n <= limit)
  BY <1>1
<1>11. ASSUME IsRoute(v, r, limit)
       PROVE  /\ IsRoute(v, q, limit) /\ Node(v, q, n + 1) \in Dirs /\ n < limit /\ Fresh(v, q, n + 1)
              /\ Picks(v, r, n + 1)
  <2>1. /\ Len(r) <= limit /\ Fresh(v, r, n + 1)
        /\ \A k \in 1..(n + 1) : Node(v, r, k) \in Dirs /\ Picks(v, r, k)
    BY <1>1, <1>11 DEF IsRoute
  <2>2. Fresh(v, q, n + 1) /\ Fresh(v, q, n)
    BY <1>3, <1>6, <1>9, <2>1
  <2>3. \A k \in 1..n : Node(v, q, k) \in Dirs /\ Picks(v, q, k)
    BY <1>2, <1>4, <1>8, <2>1
  <2>4. Node(v, q, n + 1) \in Dirs /\ n < limit /\ n <= limit /\ Picks(v, r, n + 1)
    BY <1>1, <1>2, <1>9, <1>10, <2>1
  <2>5. IsRoute(v, q, limit)
    BY <2>2, <2>3, <2>4 DEF IsRoute, n
  <2> QED BY <2>2, <2>4, <2>5
<1>12. ASSUME IsRoute(v, q, limit), Node(v, q, n + 1) \in Dirs, n < limit, Fresh(v, q, n + 1),
              Picks(v, r, n + 1)
       PROVE  IsRoute(v, r, limit)
  <2>1. \A k \in 1..n : Node(v, q, k) \in Dirs /\ Picks(v, q, k)
    BY <1>12 DEF IsRoute, n
  <2>2. \A k \in 1..(n + 1) : Node(v, r, k) \in Dirs /\ Picks(v, r, k)
    BY <1>2, <1>4, <1>7, <1>9, <1>12, <2>1
  <2>3. Fresh(v, r, n + 1)
    BY <1>3, <1>9, <1>12
  <2> QED BY <1>1, <1>10, <1>12, <2>2, <2>3 DEF IsRoute
<1> QED BY <1>5, <1>11, <1>12 DEF r, n

(* What `export`, `tree` and `find` are measured against is that set.      *)
Longer(Q, limit) == UNION {Extended(r) : r \in {q \in Q : MayOpen(q, limit)}}
GrowthLaw(f, limit) == f = [n \in 0..limit |-> IF n = 0 THEN {<<>>} ELSE Longer(f[n - 1], limit)]

LEMMA GrowthExists ==
  ASSUME NEW limit \in Nat, NEW n \in Nat
  PROVE  \E f : f = [m \in 0..n |-> IF m = 0 THEN {<<>>} ELSE Longer(f[m - 1], limit)]
<1> DEFINE Law(f, m) == f = [k \in 0..m |-> IF k = 0 THEN {<<>>} ELSE Longer(f[k - 1], limit)]
           T == {m \in Nat : ~\E f : Law(f, m)}
<1>1. T = {}
  <2>1. SUFFICES ASSUME T # {} PROVE FALSE
    OBVIOUS
  <2>2. PICK m \in T : \A k \in T : m <= k
    <3>1. T \subseteq Nat
      OBVIOUS
    <3> HIDE DEF T
    <3> QED BY <2>1, <3>1, LeastOf
  <2>3. CASE m = 0
    <3> DEFINE f == [k \in 0..0 |-> {<<>>}]
    <3>1. f = [k \in 0..0 |-> IF k = 0 THEN {<<>>} ELSE Longer(f[k - 1], limit)]
      OBVIOUS
    <3> HIDE DEF f
    <3> QED BY <2>2, <2>3, <3>1
  <2>4. CASE m # 0
    <3> DEFINE p == m - 1
    <3>1. p \in Nat /\ m = p + 1 /\ p \notin T
      <4>1. m \in Nat
        BY <2>2
      <4>2. p \in Nat /\ m = p + 1 /\ ~(m <= p)
        BY <2>4, <4>1
      <4> HIDE DEF T, p
      <4> QED BY <2>2, <4>2
    <3>2. PICK g : Law(g, p)
      BY <3>1
    <3> HIDE DEF p
    <3> DEFINE f == [k \in 0..m |-> IF k = 0 THEN {<<>>} ELSE Longer(g[k - 1], limit)]
    <3>3. ASSUME NEW k \in 0..p PROVE f[k] = g[k]
      <4>1. g[k] = IF k = 0 THEN {<<>>} ELSE Longer(g[k - 1], limit)
        BY <3>2
      <4>2. k \in 0..m
        BY <3>1
      <4> QED BY <4>1, <4>2
    <3>4. ASSUME NEW k \in 0..m PROVE f[k] = IF k = 0 THEN {<<>>} ELSE Longer(f[k - 1], limit)
      <4>1. CASE k = 0
        BY <4>1
      <4>2. CASE k # 0
        <5>1. k - 1 \in 0..p
          BY <3>1, <4>2
        <5>2. f[k - 1] = g[k - 1] /\ f[k] = Longer(g[k - 1], limit)
          BY <3>3, <4>2, <5>1
        <5> HIDE DEF f
        <5> QED BY <4>2, <5>2
      <4> QED BY <4>1, <4>2
    <3>5. Law(f, m)
      <4>1. DOMAIN f = 0..m /\ f = [k \in DOMAIN f |-> f[k]]
        OBVIOUS
      <4> HIDE DEF f
      <4> QED BY <3>4, <4>1
    <3> QED BY <2>2, <3>5
  <2> QED BY <2>3, <2>4
<1> QED BY <1>1

LEMMA RoutesBy ==
  ASSUME NEW limit
  PROVE  Routes(limit) = UNION {(CHOOSE f : GrowthLaw(f, limit))[n] : n \in 1..limit}
BY DEF Routes, GrowthLaw, Longer

LEMMA LongerIs ==
  ASSUME Volume(s.vol), NEW limit \in Nat, NEW Q \in SUBSET Seq(StepRec)
  PROVE  Longer(Q, limit) =
           {r \in Seq(StepRec) : \E q \in Q, x \in StepRec :
              /\ r = Append(q, x)
              /\ Node(s.vol, q, Len(q) + 1) \in Dirs /\ Len(q) < limit /\ Fresh(s.vol, q, Len(q) + 1)
              /\ \E i \in DOMAIN s.vol.list[Node(s.vol, q, Len(q) + 1)] :
                   x = [e |-> s.vol.list[Node(s.vol, q, Len(q) + 1)][i], at |-> i]}
<1> DEFINE D(q) == Node(s.vol, q, Len(q) + 1)
           X(q, i) == [e |-> s.vol.list[D(q)][i], at |-> i]
<1>1. ASSUME NEW q \in Q PROVE MayOpen(q, limit) <=> /\ D(q) \in Dirs /\ Len(q) < limit
                                                    /\ Fresh(s.vol, q, Len(q) + 1)
  BY DEF MayOpen, Node, NodeAt, Fresh
<1>2. ASSUME NEW q \in Q PROVE Extended(q) = {Append(q, X(q, i)) : i \in DOMAIN s.vol.list[D(q)]}
  BY DEF Extended, Node, NodeAt
<1>3. ASSUME NEW q \in Q, D(q) \in Dirs, NEW i \in DOMAIN s.vol.list[D(q)]
      PROVE  X(q, i) \in StepRec /\ Append(q, X(q, i)) \in Seq(StepRec)
  <2>1. i \in Nat /\ s.vol.list[D(q)][i] \in DirEntry
    BY <1>3, VolumeIs
  <2>2. X(q, i) \in StepRec
    BY <2>1 DEF StepRec
  <2> HIDE DEF X
  <2> QED BY <2>2, AppendIs
<1> HIDE DEF X, D
<1>4. ASSUME NEW r PROVE r \in Longer(Q, limit) <=>
        \E q \in Q : /\ D(q) \in Dirs /\ Len(q) < limit /\ Fresh(s.vol, q, Len(q) + 1)
                     /\ \E i \in DOMAIN s.vol.list[D(q)] : r = Append(q, X(q, i))
  BY <1>1, <1>2 DEF Longer
<1> DEFINE RHS == {r \in Seq(StepRec) : \E q \in Q, x \in StepRec :
              /\ r = Append(q, x)
              /\ D(q) \in Dirs /\ Len(q) < limit /\ Fresh(s.vol, q, Len(q) + 1)
              /\ \E i \in DOMAIN s.vol.list[D(q)] : x = X(q, i)}
<1>5. ASSUME NEW r PROVE r \in RHS <=>
        \E q \in Q : /\ D(q) \in Dirs /\ Len(q) < limit /\ Fresh(s.vol, q, Len(q) + 1)
                     /\ \E i \in DOMAIN s.vol.list[D(q)] : r = Append(q, X(q, i))
  BY <1>3
<1>6. Longer(Q, limit) = RHS
  <2> HIDE DEF RHS
  <2> QED BY <1>4, <1>5
<1> QED BY <1>6 DEF D, X

LEMMA RoutesAre ==
  ASSUME Volume(s.vol), NEW limit \in Nat
  PROVE  Routes(limit) = RouteSet(s.vol, limit) /\ IsFiniteSet(RouteSet(s.vol, limit))
<1> DEFINE v == s.vol
           Sized_routes(n) == {r \in Seq(StepRec) : IsRoute(v, r, limit) /\ Len(r) = n}
           R == CHOOSE f : GrowthLaw(f, limit)
<1>1. GrowthLaw(R, limit)
  <2>1. \E f : GrowthLaw(f, limit)
    BY GrowthExists DEF GrowthLaw
  <2> QED BY <2>1
<1> HIDE DEF R
<1>2. /\ R[0] = {<<>>}
      /\ \A n \in 1..limit : R[n] = Longer(R[n - 1], limit)
  <2>1. ASSUME NEW n \in 0..limit PROVE R[n] = IF n = 0 THEN {<<>>} ELSE Longer(R[n - 1], limit)
    BY <1>1 DEF GrowthLaw
  <2>2. 0 \in 0..limit /\ \A n \in 1..limit : n \in 0..limit /\ n # 0
    OBVIOUS
  <2> QED BY <2>1, <2>2
<1>3. Sized_routes(0) = {<<>>}
  <2>1. IsRoute(v, <<>>, limit)
    BY DEF IsRoute, Fresh
  <2>2. <<>> \in Seq(StepRec) /\ Len(<<>>) = 0
    OBVIOUS
  <2>3. ASSUME NEW r \in Seq(StepRec), Len(r) = 0 PROVE r = <<>>
    BY <2>3
  <2> QED BY <2>1, <2>2, <2>3
<1>4. ASSUME NEW n \in 1..limit
      PROVE  Sized_routes(n) = Longer(Sized_routes(n - 1), limit)
  <2> DEFINE Q == Sized_routes(n - 1)
  <2>1. Q \in SUBSET Seq(StepRec) /\ n - 1 \in Nat /\ n \in Nat
    OBVIOUS
  <2>2. ASSUME NEW r \in Sized_routes(n) PROVE r \in Longer(Q, limit)
    <3> DEFINE q == Front(r)  x == r[Len(r)]
    <3>1. r \in Seq(StepRec) /\ IsRoute(v, r, limit) /\ Len(r) = n /\ r # <<>>
      BY <2>2
    <3>2. q \in Seq(StepRec) /\ Len(q) = n - 1 /\ r = Append(q, x) /\ x \in StepRec
      BY <3>1, FrontIs, FrontThenLast
    <3> HIDE DEF q, x
    <3>3. /\ IsRoute(v, q, limit)
          /\ Node(v, q, Len(q) + 1) \in Dirs /\ Len(q) < limit
          /\ Fresh(v, q, Len(q) + 1)
          /\ \E i \in DOMAIN v.list[Node(v, q, Len(q) + 1)] :
               x = [e |-> v.list[Node(v, q, Len(q) + 1)][i], at |-> i]
      BY <3>1, <3>2, RouteGrows
    <3>4. q \in Q
      BY <3>2, <3>3
    <3> HIDE DEF Q
    <3>5. Longer(Q, limit) =
            {y \in Seq(StepRec) : \E p \in Q, z \in StepRec :
               /\ y = Append(p, z)
               /\ Node(v, p, Len(p) + 1) \in Dirs /\ Len(p) < limit /\ Fresh(v, p, Len(p) + 1)
               /\ \E i \in DOMAIN v.list[Node(v, p, Len(p) + 1)] :
                    z = [e |-> v.list[Node(v, p, Len(p) + 1)][i], at |-> i]}
      BY <2>1, LongerIs
    <3> HIDE DEF v
    <3> QED BY <3>1, <3>2, <3>3, <3>4, <3>5
  <2>3. ASSUME NEW r \in Longer(Q, limit) PROVE r \in Sized_routes(n)
    <3>1. \E q \in Q, x \in StepRec :
            /\ r = Append(q, x)
            /\ Node(v, q, Len(q) + 1) \in Dirs /\ Len(q) < limit /\ Fresh(v, q, Len(q) + 1)
            /\ \E i \in DOMAIN v.list[Node(v, q, Len(q) + 1)] :
                 x = [e |-> v.list[Node(v, q, Len(q) + 1)][i], at |-> i]
      <4> HIDE DEF Q
      <4> QED BY <2>1, <2>3, LongerIs
    <3>2. PICK q \in Q : \E x \in StepRec :
            /\ r = Append(q, x)
            /\ Node(v, q, Len(q) + 1) \in Dirs /\ Len(q) < limit /\ Fresh(v, q, Len(q) + 1)
            /\ \E i \in DOMAIN v.list[Node(v, q, Len(q) + 1)] :
                 x = [e |-> v.list[Node(v, q, Len(q) + 1)][i], at |-> i]
      BY <3>1
    <3>3. PICK x \in StepRec :
            /\ r = Append(q, x)
            /\ Node(v, q, Len(q) + 1) \in Dirs /\ Len(q) < limit /\ Fresh(v, q, Len(q) + 1)
            /\ \E i \in DOMAIN v.list[Node(v, q, Len(q) + 1)] :
                 x = [e |-> v.list[Node(v, q, Len(q) + 1)][i], at |-> i]
      BY <3>2
    <3>4. q \in Seq(StepRec) /\ IsRoute(v, q, limit) /\ Len(q) = n - 1
      OBVIOUS
    <3>5. IsRoute(v, r, limit)
      BY <3>3, <3>4, RouteGrows
    <3>6. r \in Seq(StepRec) /\ Len(r) = n
      <4>1. n - 1 + 1 = n
        OBVIOUS
      <4> QED BY <3>3, <3>4, <4>1, AppendIs
    <3> QED BY <3>5, <3>6
  <2> HIDE DEF Sized_routes, Q
  <2>4. Sized_routes(n) = Longer(Q, limit)
    BY <2>2, <2>3
  <2> QED BY <2>4 DEF Q
<1>5. ASSUME NEW n \in 1..limit, IsFiniteSet(Sized_routes(n - 1)) PROVE IsFiniteSet(Sized_routes(n))
  <2> DEFINE Q == {q \in Sized_routes(n - 1) : MayOpen(q, limit)}
             F == {Extended(q) : q \in Q}
  <2>1. IsFiniteSet(Q)
    <3>1. Q \in SUBSET Sized_routes(n - 1)
      OBVIOUS
    <3> QED BY <1>5, <3>1, FS_Subset
  <2>2. ASSUME NEW q \in Q PROVE IsFiniteSet(Extended(q))
    <3> DEFINE l == s.vol.list[NodeAt(q, Len(q) + 1)]
               g == [i \in 1..Len(l) |-> Append(q, [e |-> l[i], at |-> i])]
    <3>1. NodeAt(q, Len(q) + 1) \in Dirs
      BY DEF MayOpen
    <3>2. Len(l) \in Nat /\ DOMAIN l = 1..Len(l)
      BY <3>1, VolumeIs
    <3>3. Extended(q) = {Append(q, [e |-> l[i], at |-> i]) : i \in 1..Len(l)}
      BY <3>2 DEF Extended
    <3> HIDE DEF l
    <3>4. g \in Surjection(1..Len(l), Extended(q))
      BY <3>3 DEF Surjection
    <3>5. IsFiniteSet(1..Len(l))
      BY <3>2, FS_Interval
    <3> HIDE DEF g
    <3> QED BY <3>4, <3>5, FS_Surjection
  <2>3. IsFiniteSet(F)
    <3> DEFINE g == [q \in Q |-> Extended(q)]
    <3>1. g \in Surjection(Q, F)
      BY DEF Surjection
    <3> HIDE DEF g, Q, F
    <3> QED BY <2>1, <3>1, FS_Surjection
  <2>4. IsFiniteSet(UNION F)
    <3>1. \A U \in F : IsFiniteSet(U)
      BY <2>2
    <3> HIDE DEF F
    <3> QED BY <2>3, <3>1, FS_UNION
  <2>5. Sized_routes(n) = UNION F
    BY <1>4 DEF Longer
  <2> QED BY <2>4, <2>5
<1> DEFINE Good(n) == R[n] = Sized_routes(n) /\ IsFiniteSet(Sized_routes(n))
           T == {n \in 0..limit : ~Good(n)}
<1>6. Good(0)
  <2>1. IsFiniteSet({<<>>})
    BY FS_Singleton
  <2> QED BY <1>2, <1>3, <2>1
<1>7. ASSUME NEW n \in 1..limit, Good(n - 1) PROVE Good(n)
  <2>1. R[n] = Longer(R[n - 1], limit)
    BY <1>2
  <2> HIDE DEF Sized_routes
  <2>2. R[n] = Sized_routes(n)
    BY <1>4, <1>7, <2>1
  <2> QED BY <1>5, <1>7, <2>2
<1>8. \A n \in 0..limit : Good(n)
  <2> HIDE DEF Good
  <2>1. SUFFICES ASSUME T # {} PROVE FALSE
    OBVIOUS
  <2>2. PICK m \in T : \A k \in T : m <= k
    <3>1. T \subseteq Nat
      OBVIOUS
    <3> HIDE DEF T
    <3> QED BY <2>1, <3>1, LeastOf
  <2>3. m \in 1..limit /\ m - 1 \in 0..limit /\ ~(m <= m - 1)
    BY <1>6, <2>2
  <2>4. Good(m - 1)
    BY <2>2, <2>3
  <2> QED BY <1>7, <2>2, <2>3, <2>4
<1> DEFINE F == {Sized_routes(n) : n \in 1..limit}
<1>9. RouteSet(v, limit) = UNION F
  <2>1. ASSUME NEW r \in RouteSet(v, limit) PROVE \E n \in 1..limit : r \in Sized_routes(n)
    <3>1. r \in Seq(StepRec) /\ r # <<>> /\ IsRoute(v, r, limit) /\ Len(r) <= limit
      BY DEF RouteSet, IsRoute
    <3>2. Len(r) \in 1..limit
      BY <3>1
    <3> QED BY <3>1, <3>2
  <2>2. ASSUME NEW n \in 1..limit, NEW r \in Sized_routes(n) PROVE r \in RouteSet(v, limit)
    <3>1. r \in Seq(StepRec) /\ IsRoute(v, r, limit) /\ Len(r) = n /\ Len(<<>>) = 0
      OBVIOUS
    <3>2. r # <<>>
      BY <3>1
    <3> QED BY <3>1, <3>2 DEF RouteSet
  <2> HIDE DEF Sized_routes
  <2> QED BY <2>1, <2>2
<1>10. Routes(limit) = UNION F
  <2>1. Routes(limit) = UNION {R[n] : n \in 1..limit}
    BY RoutesBy DEF R
  <2>2. \A n \in 1..limit : R[n] = Sized_routes(n)
    <3>1. \A n \in 1..limit : n \in 0..limit
      OBVIOUS
    <3> HIDE DEF Sized_routes
    <3> QED BY <1>8, <3>1
  <2> HIDE DEF Sized_routes
  <2> QED BY <2>1, <2>2
<1>11. IsFiniteSet(UNION F)
  <2>1. \A n \in 1..limit : IsFiniteSet(Sized_routes(n))
    <3>1. \A n \in 1..limit : n \in 0..limit
      OBVIOUS
    <3> HIDE DEF Sized_routes
    <3> QED BY <1>8, <3>1
  <2> HIDE DEF Sized_routes
  <2>2. IsFiniteSet(F)
    <3> DEFINE g == [n \in 1..limit |-> Sized_routes(n)]
    <3>1. g \in Surjection(1..limit, F)
      BY DEF Surjection
    <3>2. IsFiniteSet(1..limit)
      BY FS_Interval
    <3> HIDE DEF g, F
    <3> QED BY <3>1, <3>2, FS_Surjection
  <2>3. \A U \in F : IsFiniteSet(U)
    BY <2>1
  <2> HIDE DEF F
  <2> QED BY <2>2, <2>3, FS_UNION
<1> HIDE DEF F
<1> QED BY <1>9, <1>10, <1>11

-----------------------------------------------------------------------------
(* Where the walk stands.                                                  *)

FrameRec == [dir : Dirs, path : Seq(Name), rest : Seq(DirEntry), used : SUBSET Seq(Name)]

(* The entries of a frame's directory that were taken, and the last one.   *)
At(v, f) == Len(v.list[f.dir]) - Len(f.rest)
Taken(v, f) == [e |-> v.list[f.dir][At(v, f)], at |-> At(v, f)]
RestOf(v, f) ==
  /\ Len(f.rest) <= Len(v.list[f.dir])
  /\ \A i \in 1..Len(f.rest) : f.rest[i] = v.list[f.dir][At(v, f) + i]

Nested(v, st) ==
  /\ st \in Seq(FrameRec)
  /\ st # <<>> => st[1].dir = v.root
  /\ \A k \in 1..Len(st) : RestOf(v, st[k])
  /\ \A k \in 1..(Len(st) - 1) : At(v, st[k]) >= 1 /\ v.list[st[k].dir][At(v, st[k])].node = st[k + 1].dir
  /\ \A i, j \in 1..Len(st) : i < j /\ v.ident[st[i].dir] # 0 => v.ident[st[i].dir] # v.ident[st[j].dir]

Cursor(v, st) == [k \in 1..(Len(st) - 1) |-> Taken(v, st[k])]

Agrees(v, st, r, k) == \A j \in 1..(k - 1) : r[j] = Taken(v, st[j])
PassedAt(v, st, r, k) ==
  /\ k <= Len(r) /\ Agrees(v, st, r, k)
  /\ \/ r[k].at < At(v, st[k])
     \/ r[k].at = At(v, st[k]) /\ (k = Len(st) \/ Len(r) = k)
(* The routes the walk is done with.                                       *)
Seen(v, st, limit) ==
  IF st = <<>> THEN RouteSet(v, limit)
  ELSE {r \in RouteSet(v, limit) : \E k \in 1..Len(st) : PassedAt(v, st, r, k)}

(* A child may be opened.                                                  *)
Enters(v, st, d, limit) ==
  /\ d \in Dirs /\ Len(st) < limit
  /\ \A i \in 1..Len(st) : v.ident[st[i].dir] # 0 => v.ident[st[i].dir] # v.ident[d]

LEMMA FrameIs ==
  ASSUME NEW v, Volume(v), NEW st, Nested(v, st), NEW k \in 1..Len(st)
  PROVE  /\ st[k] \in FrameRec /\ st[k].dir \in Dirs /\ st[k].rest \in Seq(DirEntry)
         /\ At(v, st[k]) \in Nat /\ Len(v.list[st[k].dir]) \in Nat /\ Len(st[k].rest) \in Nat
         /\ At(v, st[k]) <= Len(v.list[st[k].dir])
         /\ Len(st) \in Nat
<1>1. st[k] \in FrameRec /\ RestOf(v, st[k]) /\ Len(st) \in Nat
  BY DEF Nested
<1>2. st[k].dir \in Dirs /\ st[k].rest \in Seq(DirEntry)
  BY <1>1 DEF FrameRec
<1>3. v.list[st[k].dir] \in Seq(DirEntry)
  BY <1>2, VolumeIs
<1>4. Len(v.list[st[k].dir]) \in Nat /\ Len(st[k].rest) \in Nat /\ Len(st[k].rest) <= Len(v.list[st[k].dir])
  BY <1>1, <1>2, <1>3 DEF RestOf
<1>5. At(v, st[k]) \in Nat /\ At(v, st[k]) <= Len(v.list[st[k].dir])
  <2> DEFINE x == Len(v.list[st[k].dir])  y == Len(st[k].rest)
  <2>1. x \in Nat /\ y \in Nat /\ y <= x /\ At(v, st[k]) = x - y
    BY <1>4 DEF At
  <2> HIDE DEF x, y
  <2>2. At(v, st[k]) \in Nat /\ At(v, st[k]) <= x
    BY <2>1
  <2> QED BY <2>2 DEF x
<1> QED BY <1>1, <1>2, <1>4, <1>5

LEMMA TakenIs ==
  ASSUME NEW v, Volume(v), NEW st, Nested(v, st), NEW k \in 1..Len(st), At(v, st[k]) >= 1
  PROVE  /\ Taken(v, st[k]) \in StepRec /\ Taken(v, st[k]).at = At(v, st[k])
         /\ At(v, st[k]) \in DOMAIN v.list[st[k].dir]
<1>1. /\ st[k].dir \in Dirs /\ At(v, st[k]) \in Nat /\ At(v, st[k]) <= Len(v.list[st[k].dir])
      /\ Len(v.list[st[k].dir]) \in Nat
  BY FrameIs
<1>2. v.list[st[k].dir] \in Seq(DirEntry)
  BY <1>1, VolumeIs
<1>3. At(v, st[k]) \in DOMAIN v.list[st[k].dir]
  BY <1>1, <1>2
<1>4. v.list[st[k].dir][At(v, st[k])] \in DirEntry
  BY <1>1, <1>3, VolumeIs
<1> QED BY <1>1, <1>3, <1>4 DEF Taken, StepRec

LEMMA CursorIs ==
  ASSUME NEW v, Volume(v), NEW st, Nested(v, st), st # <<>>
  PROVE  /\ Cursor(v, st) \in Seq(StepRec) /\ Len(Cursor(v, st)) = Len(st) - 1
         /\ Len(st) \in Nat \ {0}
         /\ \A k \in 1..(Len(st) - 1) : Cursor(v, st)[k] = Taken(v, st[k])
         /\ \A k \in 1..Len(st) : Node(v, Cursor(v, st), k) = st[k].dir
         /\ \A k \in 1..(Len(st) - 1) : Picks(v, Cursor(v, st), k)
         /\ Fresh(v, Cursor(v, st), Len(st))
<1> DEFINE c == Cursor(v, st)  n == Len(st)
<1>1. n \in Nat \ {0}
  BY DEF Nested
<1>2. \A k \in 1..(n - 1) : At(v, st[k]) >= 1 /\ Taken(v, st[k]) \in StepRec
                            /\ At(v, st[k]) \in DOMAIN v.list[st[k].dir]
  <2>1. \A k \in 1..(n - 1) : k \in 1..n /\ At(v, st[k]) >= 1
    BY <1>1 DEF Nested
  <2> QED BY <2>1, TakenIs
<1>3. c \in Seq(StepRec) /\ Len(c) = n - 1 /\ \A k \in 1..(n - 1) : c[k] = Taken(v, st[k])
  <2> DEFINE m == n - 1
  <2>1. m \in Nat /\ c = [k \in 1..m |-> Taken(v, st[k])]
    BY <1>1 DEF Cursor
  <2> HIDE DEF m, c
  <2>2. c \in [1..m -> StepRec]
    BY <1>2, <2>1 DEF m
  <2>3. c \in Seq(StepRec) /\ Len(c) = m
    BY <2>1, <2>2, IsASeq, LenProperties
  <2> QED BY <2>1, <2>3 DEF m
<1> HIDE DEF c
<1>4. ASSUME NEW k \in 1..n PROVE Node(v, c, k) = st[k].dir
  <2>1. CASE k = 1
    BY <2>1 DEF Node, Nested
  <2>2. CASE k # 1
    <3>1. k - 1 \in 1..(n - 1) /\ k - 1 + 1 = k
      BY <1>1, <2>2
    <3>2. c[k - 1].e = v.list[st[k - 1].dir][At(v, st[k - 1])]
      <4>1. c[k - 1] = Taken(v, st[k - 1])
        BY <1>3, <3>1
      <4> QED BY <4>1 DEF Taken
    <3>3. v.list[st[k - 1].dir][At(v, st[k - 1])].node = st[k].dir
      BY <3>1 DEF Nested
    <3> QED BY <2>2, <3>2, <3>3 DEF Node
  <2> QED BY <2>1, <2>2
<1>5. ASSUME NEW k \in 1..(n - 1) PROVE Picks(v, c, k)
  <2>1. k \in 1..n
    BY <1>1
  <2>2. Node(v, c, k) = st[k].dir /\ At(v, st[k]) \in DOMAIN v.list[st[k].dir] /\ c[k] = Taken(v, st[k])
    BY <1>2, <1>3, <1>4, <2>1
  <2> QED BY <2>2 DEF Picks, Taken
<1>6. Fresh(v, c, n)
  BY <1>4 DEF Fresh, Nested
<1> QED BY <1>1, <1>3, <1>4, <1>5, <1>6 DEF c

(* A route that agrees with the stack is in the stack's directory.         *)
LEMMA AgreesNode ==
  ASSUME NEW v, Volume(v), NEW st, Nested(v, st), NEW r, NEW k \in 1..Len(st), Agrees(v, st, r, k)
  PROVE  Node(v, r, k) = st[k].dir
<1> DEFINE c == Cursor(v, st)
<1>1. st # <<>>
  BY DEF Nested
<1>2. /\ Len(st) \in Nat \ {0} /\ Node(v, c, k) = st[k].dir
      /\ \A i \in 1..(Len(st) - 1) : c[i] = Taken(v, st[i])
  BY <1>1, CursorIs
<1> HIDE DEF c
<1>3. k - 1 \in Nat /\ k \in 1..(k - 1 + 1) /\ \A i \in 1..(k - 1) : i \in 1..(Len(st) - 1)
  BY <1>2
<1>4. \A i \in 1..(k - 1) : c[i] = r[i]
  BY <1>2, <1>3 DEF Agrees
<1>5. Node(v, c, k) = Node(v, r, k)
  BY <1>3, <1>4, NodeSame
<1> QED BY <1>2, <1>5

LEMMA RoutePicks ==
  ASSUME NEW v, Volume(v), NEW st, Nested(v, st), NEW limit, NEW r \in RouteSet(v, limit),
         NEW k \in 1..Len(st), k <= Len(r), Agrees(v, st, r, k)
  PROVE  /\ r[k].at \in DOMAIN v.list[st[k].dir] /\ r[k].at \in Nat \ {0}
         /\ r[k] = [e |-> v.list[st[k].dir][r[k].at], at |-> r[k].at]
         /\ r[k].at <= Len(v.list[st[k].dir])
<1>1. r \in Seq(StepRec) /\ IsRoute(v, r, limit) /\ k \in 1..Len(r)
  <2>1. r \in Seq(StepRec) /\ IsRoute(v, r, limit)
    BY DEF RouteSet
  <2> QED BY <2>1
<1>2. Picks(v, r, k)
  BY <1>1 DEF IsRoute
<1>3. Node(v, r, k) = st[k].dir /\ st[k].dir \in Dirs
  BY AgreesNode, FrameIs
<1>4. PICK i \in DOMAIN v.list[st[k].dir] : r[k] = [e |-> v.list[st[k].dir][i], at |-> i]
  BY <1>2, <1>3 DEF Picks
<1>5. i \in Nat \ {0} /\ i <= Len(v.list[st[k].dir]) /\ r[k].at = i
  BY <1>3, <1>4, VolumeIs
<1> QED BY <1>4, <1>5

(* The next entry is a step of a route.                                    *)
Ahead(v, st) == [e |-> Head(st[Len(st)].rest), at |-> At(v, st[Len(st)]) + 1]
NextRoute(v, st) == Append(Cursor(v, st), Ahead(v, st))

LEMMA AheadIs ==
  ASSUME NEW v, Volume(v), NEW st, Nested(v, st), st # <<>>, st[Len(st)].rest # <<>>,
         NEW limit \in Nat, Len(st) <= limit
  PROVE  /\ At(v, st[Len(st)]) + 1 \in DOMAIN v.list[st[Len(st)].dir]
         /\ Head(st[Len(st)].rest) = v.list[st[Len(st)].dir][At(v, st[Len(st)]) + 1]
         /\ Head(st[Len(st)].rest) \in DirEntry
         /\ At(v, st[Len(st)]) + 1 <= Len(v.list[st[Len(st)].dir])
         /\ Ahead(v, st) \in StepRec
         /\ NextRoute(v, st) \in RouteSet(v, limit) /\ Len(NextRoute(v, st)) = Len(st)
         /\ NextRoute(v, st)[Len(st)] = Ahead(v, st)
         /\ \A k \in 1..(Len(st) - 1) : NextRoute(v, st)[k] = Taken(v, st[k])
<1> DEFINE n == Len(st)  f == st[n]  a == At(v, f) + 1  c == Cursor(v, st)  l == v.list[f.dir]
<1>1. n \in Nat \ {0} /\ n \in 1..n
  BY DEF Nested
<1>2. /\ f \in FrameRec /\ f.dir \in Dirs /\ f.rest \in Seq(DirEntry)
      /\ At(v, f) \in Nat /\ Len(l) \in Nat /\ Len(f.rest) \in Nat
  BY <1>1, FrameIs
<1>3. RestOf(v, f)
  BY <1>1 DEF Nested
<1>4. Len(f.rest) >= 1 /\ Head(f.rest) = f.rest[1] /\ 1 \in 1..Len(f.rest)
  BY <1>2
<1>5. l \in Seq(DirEntry)
  BY <1>2, VolumeIs
<1>6. a \in 1..Len(l) /\ a <= Len(l) /\ a \in Nat
  <2> DEFINE x == Len(l)  y == Len(f.rest)
  <2>1. x \in Nat /\ y \in Nat /\ y <= x /\ y >= 1 /\ a = x - y + 1
    BY <1>2, <1>3, <1>4 DEF RestOf, At
  <2> HIDE DEF x, y, a
  <2>2. a \in 1..x /\ a <= x /\ a \in Nat
    BY <2>1
  <2> QED BY <2>2 DEF x
<1>7. a \in DOMAIN l
  BY <1>5, <1>6
<1>8. Head(f.rest) = l[a] /\ l[a] \in DirEntry
  BY <1>2, <1>3, <1>4, <1>7, VolumeIs DEF RestOf
<1>9. Ahead(v, st) \in StepRec /\ Ahead(v, st) = [e |-> l[a], at |-> a]
  BY <1>6, <1>8 DEF Ahead, StepRec
<1>10. /\ c \in Seq(StepRec) /\ Len(c) = n - 1
       /\ \A k \in 1..(n - 1) : c[k] = Taken(v, st[k])
       /\ \A k \in 1..n : Node(v, c, k) = st[k].dir
       /\ \A k \in 1..(n - 1) : Picks(v, c, k)
       /\ Fresh(v, c, n)
  BY CursorIs
<1> HIDE DEF c
<1>11. IsRoute(v, c, limit)
  <2>1. n - 1 <= limit /\ \A k \in 1..(n - 1) : k \in 1..n /\ Node(v, c, k) \in Dirs
    <3>1. \A k \in 1..(n - 1) : k \in 1..n
      BY <1>1
    <3>2. \A k \in 1..n : st[k].dir \in Dirs
      BY FrameIs
    <3>3. n - 1 <= limit
      BY <1>1
    <3> QED BY <1>10, <3>1, <3>2, <3>3
  <2>2. Fresh(v, c, n - 1)
    <3>1. \A i \in 1..(n - 1) : i \in 1..n
      BY <1>1
    <3> QED BY <1>10, <3>1 DEF Fresh
  <2> QED BY <1>10, <2>1, <2>2 DEF IsRoute
<1>12. IsRoute(v, Append(c, Ahead(v, st)), limit)
  <2>1. Len(c) + 1 = n /\ Len(c) < limit /\ Node(v, c, Len(c) + 1) = f.dir
    BY <1>1, <1>10
  <2> HIDE DEF n, f, a
  <2> QED BY <1>2, <1>7, <1>9, <1>10, <1>11, <2>1, RouteGrows
<1>13. /\ NextRoute(v, st) \in Seq(StepRec) /\ NextRoute(v, st) # <<>>
       /\ Len(NextRoute(v, st)) = n /\ NextRoute(v, st)[n] = Ahead(v, st)
       /\ \A k \in 1..(n - 1) : NextRoute(v, st)[k] = Taken(v, st[k])
  <2>1. Len(c) + 1 = n
    BY <1>1, <1>10
  <2>2. NextRoute(v, st) = Append(c, Ahead(v, st))
    BY DEF NextRoute, c
  <2> HIDE DEF n
  <2> QED BY <1>9, <1>10, <2>1, <2>2, AppendIs
<1>14. NextRoute(v, st) \in RouteSet(v, limit)
  BY <1>12, <1>13 DEF RouteSet, NextRoute, c
<1> QED BY <1>6, <1>7, <1>8, <1>9, <1>13, <1>14

Forth(st, p) == [st EXCEPT ![Len(st)].rest = Tail(@), ![Len(st)].used = @ \cup {p}]

LEMMA ForthIs ==
  ASSUME NEW v, Volume(v), NEW st, Nested(v, st), st # <<>>, st[Len(st)].rest # <<>>, NEW p \in Seq(Name)
  PROVE  /\ Nested(v, Forth(st, p)) /\ Forth(st, p) \in Seq(FrameRec) /\ Len(Forth(st, p)) = Len(st)
         /\ \A k \in 1..(Len(st) - 1) : Forth(st, p)[k] = st[k]
         /\ Forth(st, p)[Len(st)].rest = Tail(st[Len(st)].rest)
         /\ Forth(st, p)[Len(st)].used = st[Len(st)].used \cup {p}
         /\ \A k \in 1..Len(st) : Forth(st, p)[k].dir = st[k].dir /\ Forth(st, p)[k].path = st[k].path
         /\ At(v, Forth(st, p)[Len(st)]) = At(v, st[Len(st)]) + 1
         /\ Taken(v, Forth(st, p)[Len(st)]) = Ahead(v, st)
<1> DEFINE n == Len(st)  f == st[n]  g == [f EXCEPT !.rest = Tail(@), !.used = @ \cup {p}]
           t == Forth(st, p)
<1>1. st \in Seq(FrameRec) /\ n \in Nat \ {0} /\ n \in 1..n
  BY DEF Nested
<1>2. /\ f \in FrameRec /\ f.dir \in Dirs /\ f.rest \in Seq(DirEntry)
      /\ At(v, f) \in Nat /\ Len(v.list[f.dir]) \in Nat /\ Len(f.rest) \in Nat
  BY <1>1, FrameIs
<1>3. Len(f.rest) >= 1 /\ Tail(f.rest) \in Seq(DirEntry) /\ Len(Tail(f.rest)) = Len(f.rest) - 1
      /\ \A i \in 1..Len(Tail(f.rest)) : Tail(f.rest)[i] = f.rest[i + 1]
  <2> DEFINE q == f.rest
  <2>1. q \in Seq(DirEntry) /\ q # <<>>
    BY <1>2
  <2> HIDE DEF q
  <2>2. Len(q) >= 1 /\ Tail(q) \in Seq(DirEntry) /\ Len(Tail(q)) = Len(q) - 1
        /\ \A i \in 1..Len(Tail(q)) : Tail(q)[i] = q[i + 1]
    BY <2>1
  <2> QED BY <2>2 DEF q
<1>4. /\ g \in FrameRec /\ g.dir = f.dir /\ g.path = f.path /\ g.rest = Tail(f.rest)
      /\ g.used = f.used \cup {p}
  BY <1>2, <1>3 DEF FrameRec
<1>5. t \in Seq(FrameRec) /\ Len(t) = n /\ (\A k \in 1..(n - 1) : t[k] = st[k]) /\ t[n] = g
  <2>1. t = [st EXCEPT ![n] = g]
    BY <1>1, <1>2 DEF Forth, FrameRec
  <2> HIDE DEF g, t
  <2>2. t \in Seq(FrameRec) /\ Len(t) = n /\ \A k \in 1..n : t[k] = IF k = n THEN g ELSE st[k]
    BY <1>1, <1>4, <2>1, ExceptSeq
  <2>3. \A k \in 1..(n - 1) : k \in 1..n /\ k # n
    BY <1>1
  <2> QED BY <1>1, <2>2, <2>3
<1>6. At(v, g) = At(v, f) + 1
  <2> DEFINE x == Len(v.list[f.dir])  y == Len(f.rest)
  <2>1. x \in Nat /\ y \in Nat /\ At(v, g) = x - (y - 1) /\ At(v, f) = x - y
    BY <1>2, <1>3, <1>4 DEF At
  <2> HIDE DEF x, y, g, f
  <2> QED BY <2>1
<1>7. RestOf(v, g)
  <2> DEFINE x == Len(v.list[f.dir])  y == Len(f.rest)
  <2>1. RestOf(v, f)
    BY <1>1 DEF Nested
  <2>2. x \in Nat /\ y \in Nat /\ y <= x /\ y >= 1 /\ Len(g.rest) = y - 1
    BY <1>2, <1>3, <1>4, <2>1 DEF RestOf
  <2>3. Len(g.rest) <= Len(v.list[g.dir])
    <3>1. y - 1 <= x
      BY <2>2
    <3> QED BY <1>4, <2>2, <3>1
  <2>4. ASSUME NEW i \in 1..Len(g.rest) PROVE g.rest[i] = v.list[g.dir][At(v, g) + i]
    <3> DEFINE a == At(v, f)
    <3>1. i + 1 \in 1..y /\ i \in 1..Len(Tail(f.rest)) /\ i \in Nat
      BY <1>3, <1>4, <2>2
    <3>2. g.rest[i] = f.rest[i + 1]
      BY <1>3, <1>4, <3>1
    <3>3. f.rest[i + 1] = v.list[f.dir][a + (i + 1)]
      BY <2>1, <3>1 DEF RestOf
    <3>4. a + (i + 1) = a + 1 + i
      <4> HIDE DEF a, f
      <4>1. a \in Nat
        BY <1>2 DEF a
      <4> QED BY <3>1, <4>1
    <3> QED BY <1>4, <1>6, <3>2, <3>3, <3>4
  <2> QED BY <2>3, <2>4 DEF RestOf
<1> HIDE DEF g, t
<1>8. \A k \in 1..n : t[k].dir = st[k].dir /\ t[k].path = st[k].path
  <2>1. \A k \in 1..n : k \in 1..(n - 1) \/ k = n
    BY <1>1
  <2> QED BY <1>4, <1>5, <2>1
<1>9. Taken(v, g) = Ahead(v, st)
  <2>1. n <= n /\ n \in Nat
    BY <1>1
  <2>2. Head(f.rest) = v.list[f.dir][At(v, f) + 1]
    BY <2>1, AheadIs
  <2> QED BY <1>4, <1>6, <2>2 DEF Taken, Ahead
<1>10. Nested(v, t)
  <2>1. t # <<>> => t[1].dir = v.root
    <3>1. 1 \in 1..n
      BY <1>1
    <3> QED BY <1>8, <3>1 DEF Nested
  <2>2. \A k \in 1..Len(t) : RestOf(v, t[k])
    <3>1. \A k \in 1..n : k \in 1..(n - 1) \/ k = n
      BY <1>1
    <3>2. \A k \in 1..n : RestOf(v, st[k])
      BY DEF Nested
    <3> QED BY <1>5, <1>7, <3>1, <3>2
  <2>3. ASSUME NEW k \in 1..(n - 1)
        PROVE  At(v, t[k]) >= 1 /\ v.list[t[k].dir][At(v, t[k])].node = t[k + 1].dir
    <3>1. k + 1 \in 1..n
      BY <1>1
    <3>2. At(v, st[k]) >= 1 /\ v.list[st[k].dir][At(v, st[k])].node = st[k + 1].dir
      BY DEF Nested
    <3> QED BY <1>5, <1>8, <3>1, <3>2
  <2>4. \A i, j \in 1..n : i < j /\ v.ident[t[i].dir] # 0 => v.ident[t[i].dir] # v.ident[t[j].dir]
    <3>1. \A i, j \in 1..n : i < j /\ v.ident[st[i].dir] # 0 => v.ident[st[i].dir] # v.ident[st[j].dir]
      BY DEF Nested
    <3> QED BY <1>8, <3>1
  <2> QED BY <1>5, <2>1, <2>2, <2>3, <2>4 DEF Nested
<1> QED BY <1>4, <1>5, <1>6, <1>8, <1>9, <1>10 DEF t

(* Agreement with the stack is about the frames below the top one.         *)
LEMMA SameAgrees ==
  ASSUME NEW v, NEW st, NEW t, NEW r, NEW n \in Nat, \A k \in 1..(n - 1) : t[k] = st[k],
         NEW k \in 1..n
  PROVE  Agrees(v, t, r, k) <=> Agrees(v, st, r, k)
<1>1. \A j \in 1..(k - 1) : j \in 1..(n - 1)
  OBVIOUS
<1> QED BY <1>1 DEF Agrees

LEMMA SamePassed ==
  ASSUME NEW v, NEW st, NEW t, NEW r, NEW n \in Nat, \A k \in 1..(n - 1) : t[k] = st[k],
         n <= Len(t), n <= Len(st), Len(t) \in Nat, Len(st) \in Nat, NEW k \in 1..(n - 1)
  PROVE  PassedAt(v, t, r, k) <=> PassedAt(v, st, r, k)
<1>1. k \in 1..n /\ k # Len(t) /\ k # Len(st)
  OBVIOUS
<1>2. Agrees(v, t, r, k) <=> Agrees(v, st, r, k)
  BY <1>1, SameAgrees
<1>3. t[k] = st[k]
  OBVIOUS
<1> QED BY <1>1, <1>2, <1>3 DEF PassedAt

(* The next route is not one the walk is done with.                        *)
LEMMA NextIsNew ==
  ASSUME NEW v, Volume(v), NEW st, Nested(v, st), st # <<>>, st[Len(st)].rest # <<>>,
         NEW limit \in Nat, Len(st) <= limit
  PROVE  NextRoute(v, st) \notin Seen(v, st, limit)
<1> DEFINE n == Len(st)  r == NextRoute(v, st)
<1>1. n \in Nat \ {0}
  BY DEF Nested
<1>2. /\ Len(r) = n /\ r[n] = Ahead(v, st) /\ \A k \in 1..(n - 1) : r[k] = Taken(v, st[k])
  BY AheadIs
<1>3. \A k \in 1..n : At(v, st[k]) \in Nat
  BY FrameIs
<1>4. SUFFICES ASSUME NEW k \in 1..n, PassedAt(v, st, r, k) PROVE FALSE
  BY DEF Seen
<1> HIDE DEF r
<1>5. CASE k = n
  <2>1. r[n].at = At(v, st[n]) + 1
    BY <1>2 DEF Ahead
  <2>2. r[n].at < At(v, st[n]) \/ r[n].at = At(v, st[n])
    BY <1>4, <1>5 DEF PassedAt
  <2> QED BY <1>1, <1>3, <2>1, <2>2
<1>6. CASE k # n
  <2>1. k \in 1..(n - 1)
    BY <1>1, <1>6
  <2>2. r[k].at = At(v, st[k])
    <3>1. r[k] = Taken(v, st[k])
      BY <1>2, <2>1
    <3> QED BY <3>1 DEF Taken
  <2>3. ~(r[k].at < At(v, st[k]))
    BY <1>3, <2>2
  <2> QED BY <1>2, <1>4, <1>6, <2>3 DEF PassedAt
<1> QED BY <1>5, <1>6

(* A route through the next entry begins with the next route.              *)
LEMMA ThroughNext ==
  ASSUME NEW v, Volume(v), NEW st, Nested(v, st), st # <<>>, st[Len(st)].rest # <<>>,
         NEW limit \in Nat, Len(st) <= limit, NEW r \in RouteSet(v, limit),
         Len(st) <= Len(r), Agrees(v, st, r, Len(st)), r[Len(st)].at = At(v, st[Len(st)]) + 1
  PROVE  /\ r[Len(st)] = Ahead(v, st)
         /\ Len(r) = Len(st) => r = NextRoute(v, st)
         /\ Len(r) # Len(st) => Enters(v, st, Head(st[Len(st)].rest).node, limit)
<1> DEFINE n == Len(st)  e == Head(st[n].rest)  s0 == NextRoute(v, st)
<1>1. n \in Nat \ {0} /\ n \in 1..n
  BY DEF Nested
<1>2. r \in Seq(StepRec) /\ IsRoute(v, r, limit)
  BY DEF RouteSet
<1>3. r[n] = [e |-> v.list[st[n].dir][r[n].at], at |-> r[n].at]
  BY <1>1, RoutePicks
<1>4. e = v.list[st[n].dir][At(v, st[n]) + 1] /\ s0 \in RouteSet(v, limit) /\ Len(s0) = n
      /\ s0[n] = Ahead(v, st) /\ \A k \in 1..(n - 1) : s0[k] = Taken(v, st[k])
  BY AheadIs
<1>5. r[n] = Ahead(v, st)
  BY <1>3, <1>4 DEF Ahead
<1> HIDE DEF s0
<1>6. ASSUME Len(r) = n PROVE r = s0
  <2>1. s0 \in Seq(StepRec)
    BY <1>4 DEF RouteSet
  <2>2. ASSUME NEW i \in 1..n PROVE r[i] = s0[i]
    <3>1. i \in 1..(n - 1) \/ i = n
      BY <1>1
    <3> QED BY <1>4, <1>5, <3>1 DEF Agrees
  <2> QED BY <1>2, <1>4, <1>6, <2>1, <2>2, SameSeq
<1>7. ASSUME Len(r) # n PROVE Enters(v, st, e.node, limit)
  <2>1. Len(r) \in Nat /\ n < Len(r) /\ n + 1 \in 1..Len(r) /\ Len(r) <= limit
    BY <1>1, <1>2, <1>7 DEF IsRoute
  <2>2. Node(v, r, n + 1) = e.node
    <3>1. n + 1 # 1 /\ n + 1 - 1 = n
      BY <1>1
    <3>2. r[n].e = e
      BY <1>5 DEF Ahead
    <3> QED BY <3>1, <3>2 DEF Node
  <2>3. e.node \in Dirs /\ n < limit
    BY <1>1, <1>2, <2>1, <2>2 DEF IsRoute
  <2>4. ASSUME NEW i \in 1..n, v.ident[st[i].dir] # 0 PROVE v.ident[st[i].dir] # v.ident[e.node]
    <3>1. i \in 1..Len(r) /\ i < n + 1
      BY <1>1, <2>1
    <3>2. Agrees(v, st, r, i)
      <4>1. \A j \in 1..(i - 1) : j \in 1..(n - 1)
        BY <1>1
      <4> QED BY <4>1 DEF Agrees
    <3>3. Node(v, r, i) = st[i].dir
      BY <3>2, AgreesNode
    <3>4. Fresh(v, r, Len(r))
      BY <1>2 DEF IsRoute
    <3> QED BY <2>1, <2>2, <2>4, <3>1, <3>3, <3>4 DEF Fresh
  <2> QED BY <2>3, <2>4 DEF Enters
<1> QED BY <1>5, <1>6, <1>7 DEF s0

(* Taking an entry that is not opened ends one route.                      *)
LEMMA SeenForth ==
  ASSUME NEW v, Volume(v), NEW st, Nested(v, st), st # <<>>, st[Len(st)].rest # <<>>,
         NEW limit \in Nat, Len(st) <= limit, NEW p \in Seq(Name),
         ~Enters(v, st, Head(st[Len(st)].rest).node, limit)
  PROVE  Seen(v, Forth(st, p), limit) = Seen(v, st, limit) \cup {NextRoute(v, st)}
<1> DEFINE n == Len(st)  t == Forth(st, p)  s0 == NextRoute(v, st)
<1>1. n \in Nat \ {0} /\ n \in 1..n
  BY DEF Nested
<1>2. /\ Len(t) = n /\ (\A k \in 1..(n - 1) : t[k] = st[k]) /\ Nested(v, t)
      /\ At(v, t[n]) = At(v, st[n]) + 1
  BY ForthIs
<1>3. s0 \in RouteSet(v, limit) /\ Len(s0) = n /\ s0[n] = Ahead(v, st)
      /\ \A k \in 1..(n - 1) : s0[k] = Taken(v, st[k])
  BY AheadIs
<1>4. At(v, st[n]) \in Nat
  BY <1>1, FrameIs
<1> HIDE DEF t, s0
<1>5. \A k \in 1..n : k \in 1..(n - 1) \/ k = n
  BY <1>1
<1>6. t # <<>>
  BY <1>1, <1>2
<1>7. ASSUME NEW r, NEW k \in 1..(n - 1) PROVE PassedAt(v, t, r, k) <=> PassedAt(v, st, r, k)
  BY <1>1, <1>2, SamePassed
<1>8. ASSUME NEW r PROVE Agrees(v, t, r, n) <=> Agrees(v, st, r, n)
  BY <1>1, <1>2, SameAgrees
<1>9. ASSUME NEW r \in RouteSet(v, limit), PassedAt(v, t, r, n)
      PROVE  PassedAt(v, st, r, n) \/ r = s0
  <2>1. n <= Len(r) /\ Agrees(v, st, r, n)
        /\ (r[n].at < At(v, st[n]) + 1 \/ r[n].at = At(v, st[n]) + 1)
    BY <1>2, <1>8, <1>9 DEF PassedAt
  <2>2. r[n].at \in Nat
    BY <1>1, <2>1, RoutePicks
  <2>3. CASE r[n].at = At(v, st[n]) + 1
    <3>1. Len(r) # n => Enters(v, st, Head(st[n].rest).node, limit)
      BY <2>1, <2>3, ThroughNext
    <3>2. Len(r) = n => r = s0
      BY <2>1, <2>3, ThroughNext DEF s0
    <3> QED BY <3>1, <3>2
  <2>4. CASE r[n].at < At(v, st[n]) + 1
    <3>1. r[n].at < At(v, st[n]) \/ r[n].at = At(v, st[n])
      BY <1>4, <2>2, <2>4
    <3> QED BY <2>1, <3>1 DEF PassedAt
  <2> QED BY <2>1, <2>3, <2>4
<1>10. ASSUME NEW r \in RouteSet(v, limit), PassedAt(v, st, r, n) PROVE PassedAt(v, t, r, n)
  <2>1. n <= Len(r) /\ Agrees(v, st, r, n) /\ (r[n].at < At(v, st[n]) \/ r[n].at = At(v, st[n]))
    BY <1>10 DEF PassedAt
  <2>2. r[n].at \in Nat
    BY <1>1, <2>1, RoutePicks
  <2>3. r[n].at < At(v, t[n])
    BY <1>2, <1>4, <2>1, <2>2
  <2> QED BY <1>8, <2>1, <2>3 DEF PassedAt
<1>11. PassedAt(v, t, s0, n)
  <2>1. s0[n].at = At(v, t[n])
    BY <1>2, <1>3 DEF Ahead
  <2>2. Agrees(v, st, s0, n)
    BY <1>3 DEF Agrees
  <2> QED BY <1>1, <1>2, <1>3, <1>8, <2>1, <2>2 DEF PassedAt
<1>12. ASSUME NEW r \in RouteSet(v, limit)
       PROVE  (\E k \in 1..n : PassedAt(v, t, r, k)) <=> ((\E k \in 1..n : PassedAt(v, st, r, k)) \/ r = s0)
  BY <1>1, <1>5, <1>7, <1>9, <1>10, <1>11
<1>13. Seen(v, t, limit) = {r \in RouteSet(v, limit) : \E k \in 1..n : PassedAt(v, t, r, k)}
  BY <1>2, <1>6 DEF Seen
<1>14. Seen(v, st, limit) = {r \in RouteSet(v, limit) : \E k \in 1..n : PassedAt(v, st, r, k)}
  BY DEF Seen
<1>15. Seen(v, t, limit) = Seen(v, st, limit) \cup {s0}
  BY <1>3, <1>12, <1>13, <1>14
<1> QED BY <1>15 DEF t, s0

(* Opening a directory does too, and its own routes come after it.         *)
LEMMA SeenDown ==
  ASSUME NEW v, Volume(v), NEW st, Nested(v, st), st # <<>>, st[Len(st)].rest # <<>>,
         NEW limit \in Nat, NEW p \in Seq(Name), NEW g \in FrameRec,
         g.dir = Head(st[Len(st)].rest).node, g.rest = v.list[g.dir],
         Enters(v, st, g.dir, limit)
  PROVE  /\ Nested(v, Append(Forth(st, p), g)) /\ Append(Forth(st, p), g) \in Seq(FrameRec)
         /\ Seen(v, Append(Forth(st, p), g), limit) = Seen(v, st, limit) \cup {NextRoute(v, st)}
<1> DEFINE n == Len(st)  f == Forth(st, p)  t == Append(f, g)  s0 == NextRoute(v, st)
<1>1. n \in Nat \ {0} /\ n \in 1..n /\ n + 1 \in Nat
  BY DEF Nested
<1>2. /\ f \in Seq(FrameRec) /\ Len(f) = n /\ (\A k \in 1..(n - 1) : f[k] = st[k]) /\ Nested(v, f)
      /\ At(v, f[n]) = At(v, st[n]) + 1 /\ Taken(v, f[n]) = Ahead(v, st)
      /\ \A k \in 1..n : f[k].dir = st[k].dir
  BY ForthIs
<1> HIDE DEF f
<1>3. /\ t \in Seq(FrameRec) /\ t # <<>> /\ Len(t) = n + 1 /\ (\A k \in 1..n : t[k] = f[k]) /\ t[n + 1] = g
  BY <1>2, AppendIs
<1>4. n <= limit
  BY <1>1 DEF Enters
<1>5. s0 \in RouteSet(v, limit) /\ Len(s0) = n /\ s0[n] = Ahead(v, st)
      /\ \A k \in 1..(n - 1) : s0[k] = Taken(v, st[k])
  BY <1>4, AheadIs
<1>6. At(v, st[n]) \in Nat
  BY <1>1, FrameIs
<1>7. g.dir \in Dirs /\ v.list[g.dir] \in Seq(DirEntry) /\ At(v, g) = 0
  <2>1. g.dir \in Dirs /\ v.list[g.dir] \in Seq(DirEntry)
    BY VolumeIs DEF FrameRec
  <2>2. Len(v.list[g.dir]) \in Nat
    BY <2>1
  <2> QED BY <2>1, <2>2 DEF At
<1> HIDE DEF t, s0
<1>8. \A k \in 1..(n + 1) : k \in 1..(n - 1) \/ k = n \/ k = n + 1
  BY <1>1
<1>9. \A k \in 1..(n - 1) : k \in 1..n /\ t[k] = st[k]
  BY <1>1, <1>2, <1>3
<1>10. t[n] = f[n] /\ t[n].dir = st[n].dir
  BY <1>1, <1>2, <1>3
<1>11. Nested(v, t)
  <2>1. t[1].dir = v.root
    <3>1. 1 \in 1..n /\ f # <<>>
      BY <1>1, <1>2
    <3> QED BY <1>2, <1>3, <3>1 DEF Nested
  <2>2. ASSUME NEW k \in 1..Len(t) PROVE RestOf(v, t[k])
    <3>1. CASE k = n + 1
      <4>1. Len(g.rest) <= Len(v.list[g.dir])
        <5>1. Len(v.list[g.dir]) \in Nat
          BY <1>7
        <5> QED BY <5>1
      <4>2. \A i \in 1..Len(g.rest) : g.rest[i] = v.list[g.dir][At(v, g) + i]
        <5>1. \A i \in 1..Len(g.rest) : 0 + i = i
          OBVIOUS
        <5> QED BY <1>7, <5>1
      <4> QED BY <1>3, <3>1, <4>1, <4>2 DEF RestOf
    <3>2. CASE k # n + 1
      <4>1. k \in 1..n
        BY <1>1, <1>3, <3>2
      <4>2. \A i \in 1..n : RestOf(v, f[i])
        BY <1>2 DEF Nested
      <4> QED BY <1>3, <4>1, <4>2
    <3> QED BY <3>1, <3>2
  <2>3. ASSUME NEW k \in 1..n
        PROVE  At(v, t[k]) >= 1 /\ v.list[t[k].dir][At(v, t[k])].node = t[k + 1].dir
    <3>1. CASE k = n
      <4>1. At(v, t[n]) >= 1
        BY <1>2, <1>6, <1>10
      <4>2. Taken(v, f[n]).e.node = g.dir
        BY <1>2 DEF Ahead
      <4> QED BY <1>3, <1>10, <3>1, <4>1, <4>2 DEF Taken
    <3>2. CASE k # n
      <4>1. k \in 1..(n - 1) /\ k + 1 \in 1..n
        BY <1>1, <3>2
      <4>2. At(v, f[k]) >= 1 /\ v.list[f[k].dir][At(v, f[k])].node = f[k + 1].dir
        BY <1>2, <4>1 DEF Nested
      <4> QED BY <1>3, <4>1, <4>2
    <3> QED BY <3>1, <3>2
  <2>4. ASSUME NEW i \in 1..(n + 1), NEW j \in 1..(n + 1), i < j, v.ident[t[i].dir] # 0
        PROVE  v.ident[t[i].dir] # v.ident[t[j].dir]
    <3>1. i \in 1..n
      BY <1>1, <2>4
    <3>2. t[i].dir = st[i].dir
      BY <1>2, <1>3, <3>1
    <3>3. CASE j = n + 1
      BY <1>3, <2>4, <3>1, <3>2, <3>3 DEF Enters
    <3>4. CASE j # n + 1
      <4>1. j \in 1..n
        BY <1>1, <3>4
      <4>2. t[j].dir = st[j].dir
        BY <1>2, <1>3, <4>1
      <4> QED BY <2>4, <3>1, <3>2, <4>1, <4>2 DEF Nested
    <3> QED BY <3>3, <3>4
  <2>5. \A k \in 1..(n + 1 - 1) : k \in 1..n
    BY <1>1
  <2> QED BY <1>3, <2>1, <2>2, <2>3, <2>4, <2>5 DEF Nested
<1>12. ASSUME NEW r, NEW k \in 1..(n - 1) PROVE PassedAt(v, t, r, k) <=> PassedAt(v, st, r, k)
  <2>1. n <= Len(t) /\ n <= Len(st) /\ Len(t) \in Nat
    BY <1>1, <1>3
  <2> QED BY <1>1, <1>9, <2>1, SamePassed
<1>13. ASSUME NEW r PROVE Agrees(v, t, r, n) <=> Agrees(v, st, r, n)
  BY <1>1, <1>9, SameAgrees
<1>14. n # n + 1
  BY <1>1
<1>15. ASSUME NEW r \in RouteSet(v, limit), PassedAt(v, t, r, n)
       PROVE  PassedAt(v, st, r, n) \/ r = s0
  <2>1. n <= Len(r) /\ Agrees(v, st, r, n)
        /\ (r[n].at < At(v, st[n]) + 1 \/ (r[n].at = At(v, st[n]) + 1 /\ Len(r) = n))
    BY <1>2, <1>3, <1>10, <1>13, <1>14, <1>15 DEF PassedAt
  <2>2. r[n].at \in Nat
    BY <1>1, <2>1, RoutePicks
  <2>3. CASE r[n].at = At(v, st[n]) + 1 /\ Len(r) = n
    BY <1>4, <2>1, <2>3, ThroughNext DEF s0
  <2>4. CASE r[n].at < At(v, st[n]) + 1
    <3>1. r[n].at < At(v, st[n]) \/ r[n].at = At(v, st[n])
      BY <1>6, <2>2, <2>4
    <3> QED BY <2>1, <3>1 DEF PassedAt
  <2> QED BY <2>1, <2>3, <2>4
<1>16. ASSUME NEW r \in RouteSet(v, limit), PassedAt(v, st, r, n) PROVE PassedAt(v, t, r, n)
  <2>1. n <= Len(r) /\ Agrees(v, st, r, n) /\ (r[n].at < At(v, st[n]) \/ r[n].at = At(v, st[n]))
    BY <1>16 DEF PassedAt
  <2>2. r[n].at \in Nat
    BY <1>1, <2>1, RoutePicks
  <2>3. r[n].at < At(v, t[n])
    BY <1>2, <1>6, <1>10, <2>1, <2>2
  <2> QED BY <1>13, <2>1, <2>3 DEF PassedAt
<1>17. PassedAt(v, t, s0, n)
  <2>1. s0[n].at = At(v, t[n])
    BY <1>2, <1>5, <1>10 DEF Ahead
  <2>2. Agrees(v, st, s0, n)
    BY <1>5 DEF Agrees
  <2> QED BY <1>1, <1>5, <1>13, <2>1, <2>2 DEF PassedAt
<1>18. ASSUME NEW r \in RouteSet(v, limit), PassedAt(v, t, r, n + 1) PROVE FALSE
  <2>1. n + 1 \in 1..Len(t)
    BY <1>1, <1>3
  <2>2. n + 1 <= Len(r) /\ Agrees(v, t, r, n + 1) /\ (r[n + 1].at < 0 \/ r[n + 1].at = 0)
    BY <1>3, <1>7, <1>18 DEF PassedAt
  <2>3. r[n + 1].at \in Nat \ {0}
    BY <1>11, <2>1, <2>2, RoutePicks
  <2> QED BY <2>2, <2>3
<1>19. ASSUME NEW r \in RouteSet(v, limit)
       PROVE  (\E k \in 1..(n + 1) : PassedAt(v, t, r, k)) <=> ((\E k \in 1..n : PassedAt(v, st, r, k)) \/ r = s0)
  <2>1. \A k \in 1..n : k \in 1..(n - 1) \/ k = n
    BY <1>1
  <2>2. \A k \in 1..n : k \in 1..(n + 1)
    BY <1>1
  <2>3. ASSUME NEW k \in 1..(n + 1), PassedAt(v, t, r, k)
        PROVE  (\E i \in 1..n : PassedAt(v, st, r, i)) \/ r = s0
    BY <1>1, <1>8, <1>9, <1>12, <1>15, <1>18, <2>3
  <2>4. ASSUME NEW k \in 1..n, PassedAt(v, st, r, k) PROVE PassedAt(v, t, r, k)
    BY <1>12, <1>16, <2>1, <2>4
  <2> QED BY <1>1, <1>17, <2>2, <2>3, <2>4
<1>20. Seen(v, t, limit) = {r \in RouteSet(v, limit) : \E k \in 1..(n + 1) : PassedAt(v, t, r, k)}
  BY <1>3 DEF Seen
<1>21. Seen(v, st, limit) = {r \in RouteSet(v, limit) : \E k \in 1..n : PassedAt(v, st, r, k)}
  BY DEF Seen
<1>22. Seen(v, t, limit) = Seen(v, st, limit) \cup {s0}
  BY <1>5, <1>19, <1>20, <1>21
<1> QED BY <1>3, <1>11, <1>22 DEF t, f, s0

(* Leaving a directory whose entries were all taken changes nothing.       *)
LEMMA SeenUp ==
  ASSUME NEW v, Volume(v), NEW st, Nested(v, st), st # <<>>, st[Len(st)].rest = <<>>,
         NEW limit \in Nat
  PROVE  Nested(v, Front(st)) /\ Seen(v, Front(st), limit) = Seen(v, st, limit)
<1> DEFINE n == Len(st)  m == n - 1  t == Front(st)
<1>1. n \in Nat \ {0} /\ n \in 1..n /\ m \in Nat /\ n = m + 1 /\ n - 1 = m
  BY DEF Nested
<1>2. t \in Seq(FrameRec) /\ Len(t) = m /\ \A k \in 1..m : t[k] = st[k]
  BY FrontIs DEF Nested
<1>3. At(v, st[n]) = Len(v.list[st[n].dir])
  <2>1. Len(v.list[st[n].dir]) \in Nat /\ Len(st[n].rest) = 0
    BY <1>1, FrameIs
  <2> QED BY <2>1 DEF At
<1> HIDE DEF t, m
<1>4. Nested(v, t)
  <2>1. ASSUME t # <<>> PROVE t[1].dir = v.root
    <3>1. m # 0
      BY <1>2, <2>1
    <3>2. 1 \in 1..m
      BY <1>1, <3>1
    <3> QED BY <1>2, <3>2 DEF Nested
  <2>2. \A k \in 1..m : k \in 1..n
    BY <1>1
  <2>3. \A k \in 1..m : RestOf(v, t[k])
    BY <1>2, <2>2 DEF Nested
  <2>4. ASSUME NEW k \in 1..(m - 1)
        PROVE  At(v, t[k]) >= 1 /\ v.list[t[k].dir][At(v, t[k])].node = t[k + 1].dir
    <3>1. k \in 1..(n - 1) /\ k \in 1..m /\ k + 1 \in 1..m
      BY <1>1
    <3>2. At(v, st[k]) >= 1 /\ v.list[st[k].dir][At(v, st[k])].node = st[k + 1].dir
      BY <3>1 DEF Nested
    <3> QED BY <1>2, <3>1, <3>2
  <2>5. \A i, j \in 1..m : i < j /\ v.ident[t[i].dir] # 0 => v.ident[t[i].dir] # v.ident[t[j].dir]
    BY <1>2, <2>2 DEF Nested
  <2> QED BY <1>2, <2>1, <2>3, <2>4, <2>5 DEF Nested
<1>5. Seen(v, st, limit) = {r \in RouteSet(v, limit) : \E k \in 1..n : PassedAt(v, st, r, k)}
  BY DEF Seen
<1>6. ASSUME NEW r \in RouteSet(v, limit) PROVE Len(r) \in Nat \ {0}
  BY DEF RouteSet
<1>7. CASE m = 0
  <2>1. t = <<>>
    BY <1>2, <1>7
  <2>2. Seen(v, t, limit) = RouteSet(v, limit)
    BY <2>1 DEF Seen
  <2>3. ASSUME NEW r \in RouteSet(v, limit) PROVE PassedAt(v, st, r, n)
    <3>1. n = 1
      BY <1>1, <1>7
    <3>2. Agrees(v, st, r, n) /\ n <= Len(r)
      BY <1>6, <3>1 DEF Agrees
    <3>3. r[n].at \in Nat /\ r[n].at <= Len(v.list[st[n].dir]) /\ Len(v.list[st[n].dir]) \in Nat
      BY <1>1, <3>2, RoutePicks, FrameIs
    <3> QED BY <1>3, <3>2, <3>3 DEF PassedAt
  <2> QED BY <1>1, <1>4, <1>5, <2>2, <2>3 DEF t
<1>8. CASE m # 0
  <2>1. m \in Nat \ {0} /\ m \in 1..m /\ m # n /\ m \in 1..n /\ m \in 1..(n - 1)
    BY <1>1, <1>8
  <2>2. t # <<>>
    BY <1>2, <1>8
  <2>3. Seen(v, t, limit) = {r \in RouteSet(v, limit) : \E k \in 1..m : PassedAt(v, t, r, k)}
    BY <1>2, <2>2 DEF Seen
  <2>4. ASSUME NEW r, NEW k \in 1..(m - 1) PROVE PassedAt(v, t, r, k) <=> PassedAt(v, st, r, k)
    <3>1. m <= Len(t) /\ m <= Len(st) /\ Len(t) \in Nat /\ \A i \in 1..(m - 1) : t[i] = st[i]
      BY <1>1, <1>2
    <3> QED BY <1>1, <3>1, SamePassed
  <2>5. ASSUME NEW r PROVE Agrees(v, t, r, m) <=> Agrees(v, st, r, m)
    <3>1. \A i \in 1..(m - 1) : t[i] = st[i]
      BY <1>1, <1>2
    <3> QED BY <1>1, <2>1, <3>1, SameAgrees
  <2>6. At(v, st[m]) \in Nat /\ At(v, st[m]) >= 1 /\ t[m] = st[m]
    BY <1>2, <2>1, FrameIs DEF Nested
  <2>7. ASSUME NEW r \in RouteSet(v, limit), PassedAt(v, t, r, m)
        PROVE  PassedAt(v, st, r, m) \/ PassedAt(v, st, r, n)
    <3>1. m <= Len(r) /\ Agrees(v, st, r, m) /\ (r[m].at < At(v, st[m]) \/ r[m].at = At(v, st[m]))
      BY <2>5, <2>6, <2>7 DEF PassedAt
    <3>2. CASE r[m].at < At(v, st[m]) \/ Len(r) = m
      BY <3>1, <3>2 DEF PassedAt
    <3>3. CASE r[m].at = At(v, st[m]) /\ Len(r) # m
      <4>1. n <= Len(r)
        BY <1>1, <1>6, <3>1, <3>3
      <4>2. r[m] = [e |-> v.list[st[m].dir][r[m].at], at |-> r[m].at]
        BY <2>1, <3>1, RoutePicks
      <4>3. r[m] = Taken(v, st[m])
        BY <3>3, <4>2 DEF Taken
      <4>4. Agrees(v, st, r, n)
        <5>1. \A j \in 1..(n - 1) : j \in 1..(m - 1) \/ j = m
          BY <1>1
        <5> QED BY <3>1, <4>3, <5>1 DEF Agrees
      <4>5. r[n].at \in Nat /\ r[n].at <= Len(v.list[st[n].dir]) /\ Len(v.list[st[n].dir]) \in Nat
        BY <1>1, <4>1, <4>4, RoutePicks, FrameIs
      <4> QED BY <1>3, <4>1, <4>4, <4>5 DEF PassedAt
    <3> QED BY <3>1, <3>2, <3>3
  <2>8. ASSUME NEW r \in RouteSet(v, limit), PassedAt(v, st, r, m) \/ PassedAt(v, st, r, n)
        PROVE  PassedAt(v, t, r, m)
    <3>1. CASE PassedAt(v, st, r, m)
      <4>1. m <= Len(r) /\ Agrees(v, t, r, m) /\ (r[m].at < At(v, t[m]) \/ r[m].at = At(v, t[m]))
        BY <2>5, <2>6, <3>1 DEF PassedAt
      <4> QED BY <1>2, <4>1 DEF PassedAt
    <3>2. CASE PassedAt(v, st, r, n)
      <4>1. n <= Len(r) /\ Agrees(v, st, r, n)
        BY <3>2 DEF PassedAt
      <4>2. m <= Len(r)
        BY <1>1, <1>6, <4>1
      <4>3. r[m] = Taken(v, st[m])
        BY <2>1, <4>1 DEF Agrees
      <4>4. r[m].at = At(v, t[m])
        BY <2>6, <4>3 DEF Taken
      <4>5. Agrees(v, st, r, m)
        <5>1. \A j \in 1..(m - 1) : j \in 1..(n - 1)
          BY <1>1
        <5> QED BY <4>1, <5>1 DEF Agrees
      <4> QED BY <1>2, <2>5, <4>2, <4>4, <4>5 DEF PassedAt
    <3> QED BY <2>8, <3>1, <3>2
  <2>9. ASSUME NEW r \in RouteSet(v, limit)
        PROVE  (\E k \in 1..m : PassedAt(v, t, r, k)) <=> (\E k \in 1..n : PassedAt(v, st, r, k))
    <3>1. \A k \in 1..n : k \in 1..(m - 1) \/ k = m \/ k = n
      BY <1>1
    <3>2. \A k \in 1..m : k \in 1..(m - 1) \/ k = m
      BY <1>1
    <3>3. \A k \in 1..(m - 1) : k \in 1..m /\ k \in 1..n
      BY <1>1
    <3> QED BY <1>1, <2>1, <2>4, <2>7, <2>8, <3>1, <3>2, <3>3
  <2>10. Seen(v, t, limit) = Seen(v, st, limit)
    BY <1>5, <2>3, <2>9
  <2> QED BY <1>4, <2>10 DEF t
<1> QED BY <1>7, <1>8

LEMMA SeenStart ==
  ASSUME NEW v, Volume(v), NEW g \in FrameRec, g.dir = v.root, g.rest = v.list[v.root],
         NEW limit \in Nat
  PROVE  Nested(v, <<g>>) /\ Seen(v, <<g>>, limit) = {}
<1> DEFINE t == <<g>>
<1>1. t \in Seq(FrameRec) /\ Len(t) = 1 /\ t[1] = g /\ t # <<>>
  OBVIOUS
<1> HIDE DEF t
<1>2. v.root \in Dirs /\ v.list[v.root] \in Seq(DirEntry)
  BY VolumeIs
<1>3. At(v, g) = 0 /\ Len(v.list[v.root]) \in Nat
  BY <1>2 DEF At
<1>4. RestOf(v, g)
  <2>1. \A i \in 1..Len(v.list[v.root]) : 0 + i = i
    BY <1>3
  <2> QED BY <1>3, <2>1 DEF RestOf
<1>5. Nested(v, t)
  <2>1. \A i \in 1..Len(t) : i = 1
    BY <1>1
  <2>2. ~\E i \in 1..(Len(t) - 1) : TRUE
    BY <1>1
  <2>3. \A i, j \in 1..Len(t) : ~(i < j)
    BY <1>1
  <2> QED BY <1>1, <1>4, <2>1, <2>2, <2>3 DEF Nested
<1>6. ASSUME NEW r \in RouteSet(v, limit), NEW k \in 1..1, PassedAt(v, t, r, k) PROVE FALSE
  <2>1. k = 1 /\ 1 \in 1..Len(t)
    BY <1>1
  <2>2. 1 <= Len(r) /\ Agrees(v, t, r, 1) /\ (r[1].at < 0 \/ r[1].at = 0)
    BY <1>1, <1>3, <1>6, <2>1 DEF PassedAt
  <2>3. r[1].at \in Nat \ {0}
    BY <1>5, <2>1, <2>2, RoutePicks
  <2> QED BY <2>2, <2>3
<1>7. Seen(v, t, limit) = {}
  BY <1>1, <1>6 DEF Seen
<1> QED BY <1>5, <1>7 DEF t

(* `ancestors` holds the known identities of the open directories: the     *)
(* pushes and pops of the walk keep it so.                                 *)
More(v, a, d) == IF v.ident[d] = 0 THEN a ELSE Append(a, v.ident[d])
Hold(v, st, k, q, x) ==
  (\E i \in 1..Len(q) : q[i] = x) <=> (x # 0 /\ \E i \in 1..k : v.ident[st[i].dir] = x)
IdentsBy(v, st, an, A) ==
  /\ A \in [0..Len(st) -> Seq(Nat)] /\ A[0] = <<>> /\ A[Len(st)] = an
  /\ \A k \in 1..Len(st) : A[k] = More(v, A[k - 1], st[k].dir)
  /\ \A k \in 0..Len(st) : \A x \in Nat : Hold(v, st, k, A[k], x)
Idents(v, st, an) == \E A : IdentsBy(v, st, an, A)

LEMMA IdentsSame ==
  ASSUME NEW v, NEW st, NEW t, NEW an, Len(t) = Len(st), Len(st) \in Nat,
         \A k \in 1..Len(st) : t[k].dir = st[k].dir, Idents(v, st, an)
  PROVE  Idents(v, t, an)
<1>1. PICK A : IdentsBy(v, st, an, A)
  BY DEF Idents
<1>2. /\ A \in [0..Len(t) -> Seq(Nat)] /\ A[0] = <<>> /\ A[Len(t)] = an
      /\ \A k \in 1..Len(t) : A[k] = More(v, A[k - 1], t[k].dir)
  BY <1>1 DEF IdentsBy
<1>3. ASSUME NEW k \in 0..Len(t), NEW x \in Nat
      PROVE  (\E i \in 1..Len(A[k]) : A[k][i] = x) <=> (x # 0 /\ \E i \in 1..k : v.ident[t[i].dir] = x)
  <2>1. \A i \in 1..k : i \in 1..Len(st)
    OBVIOUS
  <2>2. k \in 0..Len(st)
    OBVIOUS
  <2>3. (\E i \in 1..Len(A[k]) : A[k][i] = x) <=> (x # 0 /\ \E i \in 1..k : v.ident[st[i].dir] = x)
    <3>1. Hold(v, st, k, A[k], x)
      BY <1>1, <2>2 DEF IdentsBy
    <3> QED BY <3>1 DEF Hold
  <2>4. (\E i \in 1..k : v.ident[t[i].dir] = x) <=> (\E i \in 1..k : v.ident[st[i].dir] = x)
    BY <2>1
  <2> QED BY <2>3, <2>4
<1>4. IdentsBy(v, t, an, A)
  BY <1>2, <1>3 DEF IdentsBy, Hold
<1> QED BY <1>4 DEF Idents

LEMMA IdentsDown ==
  ASSUME NEW v, Volume(v), NEW st \in Seq(FrameRec), NEW an, Idents(v, st, an), NEW g \in FrameRec
  PROVE  Idents(v, Append(st, g), More(v, an, g.dir))
<1> DEFINE n == Len(st)  t == Append(st, g)  b == More(v, an, g.dir)
<1>1. PICK A : IdentsBy(v, st, an, A)
  BY DEF Idents
<1> DEFINE B == [k \in 0..(n + 1) |-> IF k = n + 1 THEN b ELSE A[k]]
<1>2. /\ Len(t) = n + 1 /\ (\A k \in 1..n : t[k] = st[k]) /\ t[n + 1] = g /\ n \in Nat
  BY AppendIs
<1>3. g.dir \in Dirs /\ v.ident[g.dir] \in Nat
  BY VolumeIs DEF FrameRec
<1> HIDE DEF t
<1>4. A \in [0..n -> Seq(Nat)] /\ A[0] = <<>> /\ A[n] = an /\ an \in Seq(Nat)
  BY <1>1, <1>2 DEF IdentsBy
<1>5. b \in Seq(Nat)
  BY <1>3, <1>4 DEF More
<1> HIDE DEF b
<1>6. B \in [0..(n + 1) -> Seq(Nat)] /\ B[n + 1] = b /\ \A k \in 0..n : B[k] = A[k]
  <2>1. \A k \in 0..(n + 1) : k = n + 1 \/ k \in 0..n
    BY <1>2
  <2>2. n + 1 \in 0..(n + 1) /\ \A k \in 0..n : k \in 0..(n + 1) /\ k # n + 1
    BY <1>2
  <2> QED BY <1>4, <1>5, <2>1, <2>2
<1> HIDE DEF B
<1>7. ASSUME NEW k \in 1..(n + 1) PROVE B[k] = More(v, B[k - 1], t[k].dir)
  <2>1. k - 1 \in 0..n
    BY <1>2
  <2>2. CASE k = n + 1
    <3>1. k - 1 = n
      BY <1>2, <2>2
    <3> QED BY <1>2, <1>4, <1>6, <2>1, <2>2, <3>1 DEF b
  <2>3. CASE k # n + 1
    <3>1. k \in 1..n /\ k \in 0..n
      BY <1>2, <2>3
    <3>2. A[k] = More(v, A[k - 1], st[k].dir)
      BY <1>1, <3>1 DEF IdentsBy
    <3> QED BY <1>2, <1>6, <2>1, <3>1, <3>2
  <2> QED BY <2>2, <2>3
<1>8. ASSUME NEW k \in 0..(n + 1), NEW x \in Nat
      PROVE  (\E i \in 1..Len(B[k]) : B[k][i] = x) <=> (x # 0 /\ \E i \in 1..k : v.ident[t[i].dir] = x)
  <2>1. CASE k # n + 1
    <3>1. k \in 0..n /\ \A i \in 1..k : i \in 1..n
      BY <1>2, <2>1
    <3>2. (\E i \in 1..Len(A[k]) : A[k][i] = x) <=> (x # 0 /\ \E i \in 1..k : v.ident[st[i].dir] = x)
      <4>1. Hold(v, st, k, A[k], x)
        BY <1>1, <3>1 DEF IdentsBy
      <4> QED BY <4>1 DEF Hold
    <3> QED BY <1>2, <1>6, <3>1, <3>2
  <2>2. CASE k = n + 1
    <3>1. n \in 0..n
      BY <1>2
    <3>2. (\E i \in 1..Len(an) : an[i] = x) <=> (x # 0 /\ \E i \in 1..n : v.ident[st[i].dir] = x)
      <4>1. (\E i \in 1..Len(A[n]) : A[n][i] = x) <=> (x # 0 /\ \E i \in 1..n : v.ident[st[i].dir] = x)
        <5>1. Hold(v, st, n, A[n], x)
          BY <1>1, <3>1 DEF IdentsBy
        <5> QED BY <5>1 DEF Hold
      <4> QED BY <1>4, <4>1
    <3>3. (\E i \in 1..k : v.ident[t[i].dir] = x)
             <=> ((\E i \in 1..n : v.ident[st[i].dir] = x) \/ v.ident[g.dir] = x)
      <4>1. \A i \in 1..k : i \in 1..n \/ i = n + 1
        BY <1>2, <2>2
      <4>2. n + 1 \in 1..k /\ \A i \in 1..n : i \in 1..k
        BY <1>2, <2>2
      <4> QED BY <1>2, <4>1, <4>2
    <3>4. (\E i \in 1..Len(b) : b[i] = x)
             <=> ((\E i \in 1..Len(an) : an[i] = x) \/ (v.ident[g.dir] # 0 /\ v.ident[g.dir] = x))
      <4>1. CASE v.ident[g.dir] = 0
        BY <4>1 DEF b, More
      <4>2. CASE v.ident[g.dir] # 0
        <5> DEFINE y == v.ident[g.dir]
        <5>1. b = Append(an, y) /\ y \in Nat
          BY <1>3, <4>2 DEF b, More
        <5> HIDE DEF y
        <5>2. Len(b) = Len(an) + 1 /\ (\A i \in 1..Len(an) : b[i] = an[i]) /\ b[Len(an) + 1] = y
              /\ Len(an) \in Nat
          BY <1>4, <5>1, AppendIs
        <5>3. \A i \in 1..Len(b) : i \in 1..Len(an) \/ i = Len(an) + 1
          BY <5>2
        <5>4. Len(an) + 1 \in 1..Len(b) /\ \A i \in 1..Len(an) : i \in 1..Len(b)
          BY <5>2
        <5> QED BY <4>2, <5>2, <5>3, <5>4 DEF y
      <4> QED BY <4>1, <4>2
    <3> QED BY <1>6, <2>2, <3>2, <3>3, <3>4
  <2> QED BY <2>1, <2>2
<1>9. B[0] = <<>>
  <2>1. 0 \in 0..n
    BY <1>2
  <2> QED BY <1>4, <1>6, <2>1
<1>10. IdentsBy(v, t, b, B)
  BY <1>2, <1>6, <1>7, <1>8, <1>9 DEF IdentsBy, Hold
<1> QED BY <1>10 DEF Idents, t, b

LEMMA IdentsUp ==
  ASSUME NEW v, Volume(v), NEW st \in Seq(FrameRec), st # <<>>, NEW an, Idents(v, st, an)
  PROVE  /\ an \in Seq(Nat)
         /\ Idents(v, Front(st), IF v.ident[st[Len(st)].dir] = 0 THEN an ELSE Front(an))
<1> DEFINE n == Len(st)  m == n - 1  t == Front(st)  d == st[n].dir
           b == IF v.ident[d] = 0 THEN an ELSE Front(an)
<1>1. PICK A : IdentsBy(v, st, an, A)
  BY DEF Idents
<1>2. n \in Nat \ {0} /\ n \in 1..n /\ m \in Nat /\ n = m + 1 /\ n - 1 = m
  OBVIOUS
<1>3. t \in Seq(FrameRec) /\ Len(t) = m /\ \A k \in 1..m : t[k] = st[k]
  BY FrontIs
<1>4. d \in Dirs /\ v.ident[d] \in Nat
  <2>1. st[n] \in FrameRec
    BY <1>2
  <2> QED BY <2>1, VolumeIs DEF FrameRec
<1> HIDE DEF t, m
<1>5. A \in [0..n -> Seq(Nat)] /\ A[0] = <<>> /\ A[n] = an /\ an \in Seq(Nat)
      /\ A[n] = More(v, A[m], d) /\ A[m] \in Seq(Nat)
  <2>1. n \in 0..n /\ m \in 0..n
    BY <1>2
  <2> QED BY <1>1, <1>2, <2>1 DEF IdentsBy
<1>6. b = A[m]
  <2>1. CASE v.ident[d] = 0
    BY <1>5, <2>1 DEF More
  <2>2. CASE v.ident[d] # 0
    <3> DEFINE y == v.ident[d]  q == A[m]
    <3>1. y \in Nat /\ q \in Seq(Nat) /\ an = Append(q, y)
      BY <1>4, <1>5, <2>2 DEF More
    <3> HIDE DEF y, q
    <3>2. /\ an \in Seq(Nat) /\ an # <<>> /\ Len(an) = Len(q) + 1
          /\ \A i \in 1..Len(q) : an[i] = q[i]
      BY <3>1, AppendIs
    <3>3. Front(an) \in Seq(Nat) /\ Len(Front(an)) = Len(an) - 1
          /\ \A i \in 1..(Len(an) - 1) : Front(an)[i] = an[i]
      BY <3>2, FrontIs
    <3>4. Len(q) \in Nat /\ Len(an) - 1 = Len(q)
      BY <3>1, <3>2
    <3>5. \A i \in 1..Len(q) : Front(an)[i] = q[i]
      BY <3>2, <3>3, <3>4
    <3>6. Front(an) = q
      BY <3>1, <3>3, <3>4, <3>5, SameSeq
    <3> QED BY <2>2, <3>6 DEF q
  <2> QED BY <2>1, <2>2
<1> HIDE DEF b, d
<1> DEFINE B == [k \in 0..m |-> A[k]]
<1>7. B \in [0..m -> Seq(Nat)] /\ \A k \in 0..m : B[k] = A[k] /\ k \in 0..n
  <2>1. \A k \in 0..m : k \in 0..n
    BY <1>2
  <2> QED BY <1>5, <2>1
<1> HIDE DEF B
<1>8. B[0] = <<>> /\ B[m] = b
  <2>1. 0 \in 0..m /\ m \in 0..m
    BY <1>2
  <2> QED BY <1>5, <1>6, <1>7, <2>1
<1>9. ASSUME NEW k \in 1..m PROVE B[k] = More(v, B[k - 1], t[k].dir)
  <2>1. k \in 1..n /\ k \in 0..m /\ k - 1 \in 0..m
    BY <1>2
  <2>2. A[k] = More(v, A[k - 1], st[k].dir)
    BY <1>1, <2>1 DEF IdentsBy
  <2> QED BY <1>3, <1>7, <2>1, <2>2
<1>10. ASSUME NEW k \in 0..m, NEW x \in Nat
       PROVE  (\E i \in 1..Len(B[k]) : B[k][i] = x) <=> (x # 0 /\ \E i \in 1..k : v.ident[t[i].dir] = x)
  <2>1. k \in 0..n /\ \A i \in 1..k : i \in 1..m
    BY <1>2
  <2>2. (\E i \in 1..Len(A[k]) : A[k][i] = x) <=> (x # 0 /\ \E i \in 1..k : v.ident[st[i].dir] = x)
    <3>1. Hold(v, st, k, A[k], x)
      BY <1>1, <2>1 DEF IdentsBy
    <3> QED BY <3>1 DEF Hold
  <2> QED BY <1>3, <1>7, <2>1, <2>2
<1>11. IdentsBy(v, t, b, B)
  BY <1>3, <1>7, <1>8, <1>9, <1>10 DEF IdentsBy, Hold
<1> QED BY <1>5, <1>11 DEF Idents, t, b, d

LEMMA IdentsStart ==
  ASSUME NEW v, Volume(v), NEW g \in FrameRec
  PROVE  Idents(v, <<g>>, More(v, <<>>, g.dir))
<1> DEFINE e == [k \in 0..0 |-> <<>>]
<1>1. IdentsBy(v, <<>>, <<>>, e)
  <2>1. e \in [0..0 -> Seq(Nat)] /\ e[0] = <<>> /\ Len(<<>>) = 0
    OBVIOUS
  <2> HIDE DEF e
  <2>2. \A k \in 0..0 : k = 0
    OBVIOUS
  <2> QED BY <2>1, <2>2 DEF IdentsBy, Hold
<1>2. Idents(v, <<>>, <<>>)
  BY <1>1 DEF Idents
<1>3. <<>> \in Seq(FrameRec) /\ Append(<<>>, g) = <<g>>
  OBVIOUS
<1>4. Idents(v, Append(<<>>, g), More(v, <<>>, g.dir))
  BY <1>2, <1>3, IdentsDown
<1> QED BY <1>3, <1>4

LEMMA LoopsIs ==
  ASSUME Volume(s.vol), stack \in Seq(FrameRec), Idents(s.vol, stack, ancestors), NEW d \in Dirs
  PROVE  Loops(d) <=> s.vol.ident[d] # 0 /\ \E i \in 1..Len(stack) : s.vol.ident[stack[i].dir] = s.vol.ident[d]
<1> DEFINE x == s.vol.ident[d]  n == Len(stack)
<1>1. PICK A : IdentsBy(s.vol, stack, ancestors, A)
  BY DEF Idents
<1>2. n \in Nat /\ n \in 0..n /\ x \in Nat
  BY VolumeIs
<1>3. A[n] = ancestors /\ ancestors \in Seq(Nat)
  BY <1>1, <1>2 DEF IdentsBy
<1>4. (\E i \in 1..Len(ancestors) : ancestors[i] = x) <=> (x # 0 /\ \E i \in 1..n : s.vol.ident[stack[i].dir] = x)
  <2>1. (\E i \in 1..Len(A[n]) : A[n][i] = x) <=> (x # 0 /\ \E i \in 1..n : s.vol.ident[stack[i].dir] = x)
    <3>1. Hold(s.vol, stack, n, A[n], x)
      BY <1>1, <1>2 DEF IdentsBy
    <3> QED BY <3>1 DEF Hold
  <2> QED BY <1>3, <2>1
<1>5. x \in ToSet(ancestors) <=> \E i \in 1..Len(ancestors) : ancestors[i] = x
  <2>1. DOMAIN ancestors = 1..Len(ancestors)
    BY <1>3
  <2> HIDE DEF x
  <2> QED BY <2>1 DEF ToSet
<1> QED BY <1>4, <1>5 DEF Loops

LEMMA KnownIs ==
  ASSUME Volume(s.vol), NEW an \in Seq(Nat), NEW d \in Dirs
  PROVE  an \o Known(d) = More(s.vol, an, d)
<1>1. s.vol.ident[d] \in Nat
  BY VolumeIs
<1> DEFINE x == s.vol.ident[d]
<1> HIDE DEF x
<1>2. an \o <<>> = an
  OBVIOUS
<1>3. an \o <<x>> = Append(an, x)
  BY <1>1 DEF x
<1> QED BY <1>2, <1>3 DEF Known, More, x

(* How deep a command descends, the directory it starts from included.     *)
Deepest(c) == IF c = "export" THEN MaxDepth ELSE Least(MaxDepth, ReportDepth + 1)

WalkInv ==
  /\ s \in Scenarios /\ pc \in {"run", "done", "died"}
  /\ s.cmd # "list" =>
       /\ Nested(s.vol, stack) /\ Idents(s.vol, stack, ancestors)
       /\ Len(stack) <= Deepest(s.cmd)
       /\ pc = "done" => stack = <<>>
       /\ \A k \in 1..Len(stack) :
            IsFiniteSet(stack[k].used) /\ Cardinality(stack[k].used) <= At(s.vol, stack[k])

LEMMA DeepestIs ==
  ASSUME NEW c
  PROVE  Deepest(c) \in Nat /\ 1 <= Deepest(c) /\ Deepest(c) <= MaxDepth
         /\ (c = "export" => Deepest(c) = MaxDepth)
         /\ (c # "export" => Deepest(c) = Least(MaxDepth, ReportDepth + 1)
                             /\ \A n \in Nat : n < Deepest(c) <=> (n < MaxDepth /\ n <= ReportDepth))
<1>1. MaxDepth \in Nat \ {0} /\ ReportDepth \in Nat
  BY DepthAssumption
<1> QED BY <1>1 DEF Deepest, Least

LEMMA ScenarioIs ==
  ASSUME s \in Scenarios
  PROVE  Scenario(s) /\ Volume(s.vol)
BY ScenarioAssumption DEF Scenario

(* The names an entry may be given are names, and all different.           *)
LEMMA SafeIs ==
  ASSUME NEW e \in DirEntry
  PROVE  Safe(e) \in Name /\ Safe(e).side = e.name.side
<1> DEFINE q == e.name  m == [q EXCEPT !.text = San[@]]
<1>1. q \in Name
  BY DEF DirEntry
<1>2. San[q.text] \in DOMAIN San
  BY <1>1, SanAssumption DEF Name
<1>3. m \in Name /\ m.side = q.side
  BY <1>1, <1>2 DEF Name
<1> HIDE DEF m
<1>4. InsertBeforeExt(m, DeletedMark) \in Name /\ InsertBeforeExt(m, DeletedMark).side = m.side
  <2>1. m.marks \in Seq(Nat) /\ DeletedMark \in Nat
    BY <1>3 DEF Name, DeletedMark
  <2>2. Append(m.marks, DeletedMark) \in Seq(Nat)
    BY <2>1, AppendIs
  <2> QED BY <1>3, <2>2 DEF InsertBeforeExt, Name
<1>5. Safe(e) = IF e.deleted THEN InsertBeforeExt(m, DeletedMark) ELSE m
  BY DEF Safe, m
<1> QED BY <1>3, <1>4, <1>5

LEMMA VariantIs ==
  ASSUME NEW e \in DirEntry, Top.path \in Seq(Name), NEW n \in Nat
  PROVE  /\ \E x \in Name : Variant(e, n) = Append(Top.path, x) /\ x.side = e.name.side
                            /\ x.marks = IF n = 1 THEN Safe(e).marks ELSE Append(Safe(e).marks, n)
         /\ Safe(e).marks \in Seq(Nat)
<1> DEFINE m == Safe(e)  x == IF n = 1 THEN m ELSE InsertBeforeExt(m, n)
<1>1. m \in Name /\ m.side = e.name.side
  BY SafeIs
<1>2. m.marks \in Seq(Nat)
  BY <1>1 DEF Name
<1>3. Append(m.marks, n) \in Seq(Nat)
  BY <1>2, AppendIs
<1>4. Variant(e, n) = Append(Top.path, x)
  BY DEF Variant
<1> HIDE DEF m
<1>5. x \in Name /\ x.side = e.name.side /\ x.marks = IF n = 1 THEN m.marks ELSE Append(m.marks, n)
  BY <1>1, <1>3 DEF InsertBeforeExt, Name
<1> HIDE DEF x
<1> QED BY <1>2, <1>4, <1>5 DEF m

LEMMA VariantsDiffer ==
  ASSUME NEW e \in DirEntry, Top.path \in Seq(Name), NEW i \in Nat, NEW j \in Nat,
         Variant(e, i) = Variant(e, j)
  PROVE  i = j
<1> DEFINE q == Safe(e).marks  p == Top.path
<1>1. PICK x \in Name : /\ Variant(e, i) = Append(p, x)
                        /\ x.marks = IF i = 1 THEN q ELSE Append(q, i)
  BY VariantIs
<1>2. PICK y \in Name : /\ Variant(e, j) = Append(p, y)
                        /\ y.marks = IF j = 1 THEN q ELSE Append(q, j)
  BY VariantIs
<1>3. q \in Seq(Nat) /\ p \in Seq(Name)
  <2>1. Safe(e).marks \in Seq(Nat)
    BY VariantIs
  <2> QED BY <2>1
<1> HIDE DEF q, p
<1>4. x = y
  <2>1. Append(p, x) = Append(p, y)
    BY <1>1, <1>2
  <2>2. Append(p, x)[Len(p) + 1] = x /\ Append(p, y)[Len(p) + 1] = y
    BY <1>3, AppendIs
  <2> QED BY <2>1, <2>2
<1>5. Len(q) \in Nat /\ Len(Append(q, i)) = Len(q) + 1 /\ Len(Append(q, j)) = Len(q) + 1
      /\ Append(q, i)[Len(q) + 1] = i /\ Append(q, j)[Len(q) + 1] = j
  BY <1>3, AppendIs
<1>6. Append(q, i) # q /\ Append(q, j) # q
  BY <1>5
<1>7. (Append(q, i) = Append(q, j)) => i = j
  BY <1>5
<1> QED BY <1>1, <1>2, <1>4, <1>6, <1>7

(* `used` is too small to hold every variant of a name.                    *)
LEMMA ClaimedIs ==
  ASSUME WalkInv, s.cmd # "list", stack # <<>>, Top.rest # <<>>
  PROVE  /\ Claimed(Entry) \in Seq(Name) /\ Claimed(Entry) \notin Top.used
         /\ \E x \in Name : Claimed(Entry) = Append(Top.path, x) /\ x.side = Entry.name.side
<1> DEFINE n == Len(stack)  e == Entry  v == s.vol
           T == {i \in 1..MaxDup : Variant(e, i) \notin Top.used}
<1>1. Scenario(s) /\ Volume(v) /\ s \in Scenarios /\ Nested(v, stack)
  BY ScenarioIs DEF WalkInv
<1>2. n \in Nat \ {0} /\ n \in 1..n
  BY <1>1 DEF Nested
<1>3. Top \in FrameRec /\ Top.path \in Seq(Name) /\ Top.dir \in Dirs /\ At(v, Top) \in Nat
      /\ Len(v.list[Top.dir]) \in Nat
  BY <1>1, <1>2, FrameIs DEF Top, FrameRec
<1>4. e \in DirEntry /\ At(v, Top) + 1 <= Len(v.list[Top.dir])
  <2>1. n \in Nat /\ n <= n
    BY <1>2
  <2> QED BY <1>1, <2>1, AheadIs DEF Top, Entry
<1>5. IsFiniteSet(Top.used) /\ Cardinality(Top.used) <= At(v, Top)
  BY <1>2 DEF WalkInv, Top
<1>6. MaxDup \in Nat /\ Len(v.list[Top.dir]) <= MaxDup
  BY <1>1, <1>3, DepthAssumption, DupAssumption
<1> HIDE DEF e
<1>7. T # {}
  <2>1. SUFFICES ASSUME \A i \in 1..MaxDup : Variant(e, i) \in Top.used PROVE FALSE
    OBVIOUS
  <2> DEFINE f == [i \in 1..MaxDup |-> Variant(e, i)]
  <2>2. f \in [1..MaxDup -> Top.used]
    BY <2>1
  <2>3. ASSUME NEW i \in 1..MaxDup, NEW j \in 1..MaxDup, f[i] = f[j] PROVE i = j
    BY <1>3, <1>4, <2>3, VariantsDiffer
  <2> HIDE DEF f
  <2>4. f \in Injection(1..MaxDup, Top.used)
    BY <2>2, <2>3 DEF Injection, IsInjective
  <2>5. Cardinality(1..MaxDup) <= Cardinality(Top.used)
    BY <1>5, <2>4, FS_Injection
  <2>6. Cardinality(1..MaxDup) = MaxDup
    <3>1. Cardinality(1..MaxDup) = IF 1 > MaxDup THEN 0 ELSE MaxDup - 1 + 1
      BY <1>6, FS_Interval
    <3> QED BY <1>6, <3>1
  <2>7. Cardinality(Top.used) \in Nat
    BY <1>5, FS_CardinalityType
  <2> QED BY <1>3, <1>4, <1>5, <1>6, <2>5, <2>6, <2>7
<1>8. PICK i \in T : \A j \in T : i <= j
  <2>1. T \subseteq Nat
    OBVIOUS
  <2> HIDE DEF T
  <2> QED BY <1>7, <2>1, LeastOf
<1> DEFINE Fits(k) == Variant(e, k) \notin Top.used /\ \A m \in 1..(k - 1) : Variant(e, m) \in Top.used
<1>9. i \in 1..MaxDup /\ Fits(i)
  <2>1. ASSUME NEW m \in 1..(i - 1) PROVE Variant(e, m) \in Top.used
    <3>1. m \in 1..MaxDup /\ ~(i <= m)
      <4>1. i \in 1..MaxDup
        BY <1>8
      <4> HIDE DEF T
      <4> QED BY <1>6, <4>1
    <3> QED BY <1>8, <3>1
  <2> QED BY <1>8, <2>1
<1> DEFINE c == CHOOSE k \in 1..MaxDup : Fits(k)
<1>10. c \in 1..MaxDup /\ Fits(c)
  <2> HIDE DEF Fits
  <2> QED BY <1>9
<1>11. Claimed(e) = Variant(e, c)
  BY DEF Claimed
<1> HIDE DEF c
<1>12. c \in Nat /\ Variant(e, c) \notin Top.used
  BY <1>10
<1>13. PICK x \in Name : Variant(e, c) = Append(Top.path, x) /\ x.side = e.name.side
  BY <1>3, <1>4, <1>12, VariantIs
<1>14. Append(Top.path, x) \in Seq(Name)
  BY <1>3, AppendIs
<1> QED BY <1>11, <1>12, <1>13, <1>14 DEF e

LEMMA EntersIs ==
  ASSUME WalkInv, s.cmd # "list", NEW d \in Dirs, NEW limit
  PROVE  Enters(s.vol, stack, d, limit) <=> Len(stack) < limit /\ ~Loops(d)
<1>1. Volume(s.vol) /\ stack \in Seq(FrameRec) /\ Idents(s.vol, stack, ancestors)
  BY ScenarioIs DEF WalkInv, Nested
<1>2. Loops(d) <=> s.vol.ident[d] # 0 /\ \E i \in 1..Len(stack) : s.vol.ident[stack[i].dir] = s.vol.ident[d]
  BY <1>1, LoopsIs
<1> QED BY <1>2 DEF Enters

(* What a step of a walking command does to the stack.                     *)
Past(p) ==
  /\ pc = "run" /\ stack # <<>> /\ Top.rest # <<>> /\ p \in Seq(Name)
  /\ ~Enters(s.vol, stack, Entry.node, Deepest(s.cmd))
  /\ stack' = Forth(stack, p) /\ ancestors' = ancestors /\ pc' = "run"
Into(d, p) ==
  /\ pc = "run" /\ stack # <<>> /\ Top.rest # <<>> /\ p \in Seq(Name)
  /\ d = Entry.node /\ Enters(s.vol, stack, d, Deepest(s.cmd))
  /\ stack' = Append(Forth(stack, p), Frame(d, p)) /\ ancestors' = ancestors \o Known(d) /\ pc' = "run"
Out ==
  /\ pc = "run" /\ stack # <<>> /\ Top.rest = <<>>
  /\ stack' = Front(stack)
  /\ ancestors' = IF Known(Top.dir) = <<>> THEN ancestors ELSE Front(ancestors)
  /\ pc' = IF Len(stack) = 1 THEN "done" ELSE "run"
Still == stack' = stack /\ ancestors' = ancestors /\ (pc' = pc \/ pc' = "died")

LEMMA EntryIs ==
  ASSUME WalkInv, s.cmd # "list", stack # <<>>, Top.rest # <<>>
  PROVE  /\ Entry \in DirEntry /\ Top \in FrameRec /\ Len(stack) \in Nat \ {0}
         /\ Append(Top.path, Entry.name) \in Seq(Name)
         /\ Nested(s.vol, stack) /\ Volume(s.vol)
<1>1. Volume(s.vol) /\ Nested(s.vol, stack)
  BY ScenarioIs DEF WalkInv
<1>2. Len(stack) \in Nat \ {0} /\ Len(stack) \in 1..Len(stack) /\ Len(stack) <= Len(stack)
  BY <1>1 DEF Nested
<1>3. Top \in FrameRec
  BY <1>1, <1>2, FrameIs DEF Top
<1>4. Entry \in DirEntry
  BY <1>1, <1>2, AheadIs DEF Entry, Top
<1>5. Top.path \in Seq(Name) /\ Entry.name \in Name
  BY <1>3, <1>4 DEF FrameRec, DirEntry
<1>6. Append(Top.path, Entry.name) \in Seq(Name)
  BY <1>5, AppendIs
<1> QED BY <1>1, <1>2, <1>3, <1>4, <1>6

LEMMA OnwardIs == ASSUME NEW p PROVE Onward(p) = Forth(stack, p)
BY DEF Onward, Forth

LEMMA WalkMoves ==
  ASSUME WalkInv, [Next]_vars, s.cmd # "list"
  PROVE  s' = s /\ ((\E p : Past(p)) \/ (\E d, p : Into(d, p)) \/ Out \/ Still)
<1>1. CASE ExportFolder
  <2>1. /\ pc = "run" /\ stack # <<>> /\ Top.rest # <<>> /\ s.cmd = "export" /\ Entry.node \in Dirs
        /\ s' = s /\ pc' = pc
    BY <1>1 DEF ExportFolder, AtEntry, Walking, IsFolder
  <2> DEFINE d == Entry.node  p == Claimed(Entry)
  <2>2. p \in Seq(Name)
    BY <2>1, ClaimedIs
  <2>3. Deepest(s.cmd) = MaxDepth /\ MaxDepth \in Nat /\ Len(stack) \in Nat
    BY <2>1, DeepestIs, EntryIs
  <2>4. CASE Loops(d) \/ Len(stack) >= MaxDepth
    <3>1. stack' = Forth(stack, p) /\ ancestors' = ancestors
      BY <1>1, <2>4, OnwardIs DEF ExportFolder
    <3>2. ~Enters(s.vol, stack, d, Deepest(s.cmd))
      <4>1. ~(Len(stack) < MaxDepth) \/ Loops(d)
        BY <2>3, <2>4
      <4> QED BY <2>1, <2>3, <4>1, EntersIs
    <3>3. Past(p)
      BY <2>1, <2>2, <3>1, <3>2 DEF Past
    <3> QED BY <2>1, <3>3
  <2>5. CASE ~(Loops(d) \/ Len(stack) >= MaxDepth)
    <3>1. stack' = Append(Forth(stack, p), Frame(d, p)) /\ ancestors' = ancestors \o Known(d)
      BY <1>1, <2>5, OnwardIs DEF ExportFolder
    <3>2. Len(stack) < MaxDepth
      BY <2>3, <2>5
    <3>3. Enters(s.vol, stack, d, Deepest(s.cmd))
      BY <2>1, <2>3, <2>5, <3>2, EntersIs
    <3>4. Into(d, p)
      BY <2>1, <2>2, <3>1, <3>3 DEF Into
    <3> QED BY <2>1, <3>4
  <2> QED BY <2>4, <2>5
<1>2. CASE ExportFile
  <2>1. /\ pc = "run" /\ stack # <<>> /\ Top.rest # <<>> /\ s.cmd = "export"
        /\ s' = s /\ pc' = pc /\ ancestors' = ancestors /\ stack' = Onward(Claimed(Entry))
        /\ ~Enters(s.vol, stack, Entry.node, Deepest(s.cmd))
    BY <1>2 DEF ExportFile, AtEntry, Walking, IsFolder, Enters
  <2>2. Claimed(Entry) \in Seq(Name)
    BY <2>1, ClaimedIs
  <2>3. Past(Claimed(Entry))
    BY <2>1, <2>2, OnwardIs DEF Past
  <2> QED BY <2>1, <2>3
<1>3. CASE ReportFolder
  <2>1. /\ pc = "run" /\ stack # <<>> /\ Top.rest # <<>> /\ s.cmd # "export" /\ Entry.node \in Dirs
        /\ s' = s /\ pc' = pc
    BY <1>3 DEF ReportFolder, AtEntry, Walking, IsFolder
  <2> DEFINE d == Entry.node  p == Append(Top.path, Entry.name)
             tooDeep == Len(stack) > ReportDepth \/ Len(stack) >= MaxDepth
  <2>2. p \in Seq(Name) /\ Len(stack) \in Nat
    BY <2>1, EntryIs
  <2>3. tooDeep <=> ~(Len(stack) < Deepest(s.cmd))
    <3>1. Len(stack) < Deepest(s.cmd) <=> (Len(stack) < MaxDepth /\ Len(stack) <= ReportDepth)
      BY <2>1, <2>2, DeepestIs
    <3> QED BY <2>2, <3>1, DepthAssumption
  <2>4. CASE tooDeep \/ Loops(d)
    <3>1. stack' = Forth(stack, p) /\ ancestors' = ancestors
      BY <1>3, <2>4, OnwardIs DEF ReportFolder
    <3>2. ~Enters(s.vol, stack, d, Deepest(s.cmd))
      BY <2>1, <2>3, <2>4, EntersIs
    <3>3. Past(p)
      BY <2>1, <2>2, <3>1, <3>2 DEF Past
    <3> QED BY <2>1, <3>3
  <2>5. CASE ~(tooDeep \/ Loops(d))
    <3>1. stack' = Append(Forth(stack, p), Frame(d, p)) /\ ancestors' = ancestors \o Known(d)
      BY <1>3, <2>5, OnwardIs DEF ReportFolder
    <3>3. Enters(s.vol, stack, d, Deepest(s.cmd))
      BY <2>1, <2>3, <2>5, EntersIs
    <3>4. Into(d, p)
      BY <2>1, <2>2, <3>1, <3>3 DEF Into
    <3> QED BY <2>1, <3>4
  <2> QED BY <2>4, <2>5
<1>4. CASE ReportFile
  <2>1. /\ pc = "run" /\ stack # <<>> /\ Top.rest # <<>>
        /\ s' = s /\ pc' = pc /\ ancestors' = ancestors /\ stack' = Onward(Append(Top.path, Entry.name))
        /\ ~Enters(s.vol, stack, Entry.node, Deepest(s.cmd))
    BY <1>4 DEF ReportFile, AtEntry, Walking, IsFolder, Enters
  <2>2. Append(Top.path, Entry.name) \in Seq(Name)
    BY <2>1, EntryIs
  <2>3. Past(Append(Top.path, Entry.name))
    BY <2>1, <2>2, OnwardIs DEF Past
  <2> QED BY <2>1, <2>3
<1>5. CASE LeaveDir
  <2>1. s' = s /\ Out
    BY <1>5 DEF LeaveDir, Walking, Out
  <2> QED BY <2>1
<1>6. CASE ListLine \/ ListEnds
  BY <1>6 DEF ListLine, ListEnds
<1>7. CASE Throw
  <2>1. s' = s /\ Still
    BY <1>7 DEF Throw, Still
  <2> QED BY <2>1
<1>8. CASE Ended \/ UNCHANGED vars
  <2>1. s' = s /\ Still
    BY <1>8 DEF Ended, Still, vars
  <2> QED BY <2>1
<1> QED BY <1>1, <1>2, <1>3, <1>4, <1>5, <1>6, <1>7, <1>8 DEF Next

LEMMA FrameOf ==
  ASSUME Volume(s.vol), NEW d \in Dirs, NEW p \in Seq(Name)
  PROVE  /\ Frame(d, p) \in FrameRec /\ Frame(d, p).dir = d /\ Frame(d, p).rest = s.vol.list[d]
         /\ Frame(d, p).path = p /\ Frame(d, p).used = {}
<1>1. s.vol.list[d] \in Seq(DirEntry)
  BY VolumeIs
<1> QED BY <1>1 DEF Frame, FrameRec

UsedFits(v, st) ==
  \A k \in 1..Len(st) : IsFiniteSet(st[k].used) /\ Cardinality(st[k].used) <= At(v, st[k])

LEMMA UsedForth ==
  ASSUME NEW v, Volume(v), NEW st, Nested(v, st), st # <<>>, st[Len(st)].rest # <<>>,
         NEW p \in Seq(Name), UsedFits(v, st)
  PROVE  UsedFits(v, Forth(st, p))
<1> DEFINE n == Len(st)  t == Forth(st, p)
<1>1. n \in Nat \ {0} /\ n \in 1..n
  BY DEF Nested
<1>2. /\ Len(t) = n /\ (\A k \in 1..(n - 1) : t[k] = st[k])
      /\ t[n].used = st[n].used \cup {p}
      /\ At(v, t[n]) = At(v, st[n]) + 1
  BY ForthIs
<1> HIDE DEF t
<1>3. IsFiniteSet(st[n].used) /\ Cardinality(st[n].used) <= At(v, st[n]) /\ At(v, st[n]) \in Nat
  BY <1>1, FrameIs DEF UsedFits
<1>4. IsFiniteSet(t[n].used) /\ Cardinality(t[n].used) <= At(v, t[n])
  <2>1. IsFiniteSet(t[n].used) /\ Cardinality(st[n].used) \in Nat
        /\ Cardinality(t[n].used) = IF p \in st[n].used THEN Cardinality(st[n].used)
                                    ELSE Cardinality(st[n].used) + 1
    BY <1>2, <1>3, FS_AddElement, FS_CardinalityType
  <2> QED BY <1>2, <1>3, <2>1
<1>5. ASSUME NEW k \in 1..n PROVE IsFiniteSet(t[k].used) /\ Cardinality(t[k].used) <= At(v, t[k])
  <2>1. CASE k = n
    BY <1>4, <2>1
  <2>2. CASE k # n
    <3>1. k \in 1..(n - 1)
      BY <1>1, <2>2
    <3> QED BY <1>2, <3>1 DEF UsedFits
  <2> QED BY <2>1, <2>2
<1> QED BY <1>2, <1>5 DEF UsedFits, t

LEMMA WalkInvBy ==
  ASSUME s' = s, pc' \in {"run", "done", "died"}, s \in Scenarios,
         Nested(s.vol, stack'), Idents(s.vol, stack', ancestors'), Len(stack') <= Deepest(s.cmd),
         pc' = "done" => stack' = <<>>, UsedFits(s.vol, stack')
  PROVE  WalkInv'
<1>1. Nested(s.vol, stack)'
  BY DEF Nested, RestOf, At
<1>2. Idents(s.vol, stack, ancestors)'
  <2>1. PICK A : IdentsBy(s.vol, stack', ancestors', A)
    BY DEF Idents
  <2>2. IdentsBy(s.vol, stack, ancestors, A)'
    BY <2>1 DEF IdentsBy, More, Hold
  <2> QED BY <2>2 DEF Idents
<1>3. (Len(stack) <= Deepest(s.cmd))'
  BY DEF Deepest, Least
<1>4. (\A k \in 1..Len(stack) :
        IsFiniteSet(stack[k].used) /\ Cardinality(stack[k].used) <= At(s.vol, stack[k]))'
  BY DEF UsedFits, At
<1> QED BY <1>1, <1>2, <1>3, <1>4 DEF WalkInv

LEMMA WalkInit == Init => WalkInv
<1> SUFFICES ASSUME Init PROVE WalkInv
  OBVIOUS
<1>1. s \in Scenarios /\ pc = "run" /\ Volume(s.vol)
  BY ScenarioIs DEF Init
<1>2. CASE s.cmd = "list"
  BY <1>1, <1>2 DEF WalkInv
<1>3. CASE s.cmd # "list"
  <2> DEFINE g == [dir |-> s.vol.root, path |-> <<>>, rest |-> s.vol.list[s.vol.root], used |-> {}]
  <2>1. s.vol.root \in Dirs /\ <<>> \in Seq(Name) /\ g = Frame(s.vol.root, <<>>)
    BY <1>1, VolumeIs DEF Frame
  <2>2. stack = <<g>> /\ ancestors = Known(s.vol.root)
    BY <1>3 DEF Init, Start
  <2>3. g \in FrameRec /\ g.dir = s.vol.root /\ g.rest = s.vol.list[s.vol.root] /\ g.used = {}
    <3> DEFINE z == <<>>  d == s.vol.root
    <3>1. d \in Dirs /\ z \in Seq(Name) /\ g = Frame(d, z)
      BY <2>1
    <3> HIDE DEF g, z, d
    <3>2. Frame(d, z) \in FrameRec /\ Frame(d, z).dir = d /\ Frame(d, z).rest = s.vol.list[d]
          /\ Frame(d, z).used = {}
      BY <1>1, <3>1, FrameOf
    <3> QED BY <3>1, <3>2 DEF d
  <2> HIDE DEF g
  <2>4. Nested(s.vol, stack)
    BY <1>1, <2>2, <2>3, SeenStart, 0 \in Nat
  <2>5. ancestors = More(s.vol, <<>>, s.vol.root)
    <3>1. <<>> \o Known(s.vol.root) = More(s.vol, <<>>, s.vol.root)
      <4>1. <<>> \in Seq(Nat)
        OBVIOUS
      <4> QED BY <1>1, <2>1, <4>1, KnownIs
    <3>2. <<>> \o Known(s.vol.root) = Known(s.vol.root)
      <4>1. s.vol.ident[s.vol.root] \in Nat
        BY <1>1, <2>1, VolumeIs
      <4>2. Known(s.vol.root) \in Seq(Nat)
        BY <4>1 DEF Known
      <4> QED BY <4>2
    <3> QED BY <2>2, <3>1, <3>2
  <2>6. Idents(s.vol, stack, ancestors)
    BY <1>1, <2>2, <2>3, <2>5, IdentsStart
  <2>7. Len(stack) = 1 /\ stack[1] = g
    BY <2>2
  <2>8. Len(stack) <= Deepest(s.cmd)
    BY <2>7, DeepestIs
  <2>9. \A k \in 1..Len(stack) :
          IsFiniteSet(stack[k].used) /\ Cardinality(stack[k].used) <= At(s.vol, stack[k])
    <3>1. Len(s.vol.list[s.vol.root]) \in Nat
      BY <1>1, <2>1, VolumeIs
    <3>2. At(s.vol, g) = 0
      BY <2>3, <3>1 DEF At
    <3> QED BY <2>3, <2>7, <3>2, FS_EmptySet
  <2> QED BY <1>1, <2>4, <2>6, <2>8, <2>9 DEF WalkInv
<1> QED BY <1>2, <1>3

LEMMA WalkStep == WalkInv /\ [Next]_vars => WalkInv'
<1> SUFFICES ASSUME WalkInv, [Next]_vars PROVE WalkInv'
  OBVIOUS
<1>1. s \in Scenarios /\ pc \in {"run", "done", "died"} /\ Volume(s.vol)
  BY ScenarioIs DEF WalkInv
<1>2. CASE s.cmd = "list"
  <2>1. s' = s /\ pc' \in {"run", "done", "died"}
    BY <1>1 DEF Next, vars, ExportFolder, ExportFile, ReportFolder, ReportFile, LeaveDir, ListLine,
       ListEnds, Throw, Ended
  <2> QED BY <1>1, <1>2, <2>1 DEF WalkInv
<1>3. CASE s.cmd # "list"
  <2> DEFINE v == s.vol  n == Len(stack)
  <2>1. Nested(v, stack) /\ Idents(v, stack, ancestors) /\ n <= Deepest(s.cmd) /\ UsedFits(v, stack)
        /\ (pc = "done" => stack = <<>>) /\ stack \in Seq(FrameRec) /\ n \in Nat
    BY <1>3 DEF WalkInv, UsedFits, Nested
  <2>2. s' = s
    BY <1>3, WalkMoves
  <2>3. ASSUME NEW p, Past(p) PROVE WalkInv'
    <3>1. stack # <<>> /\ stack[n].rest # <<>> /\ p \in Seq(Name) /\ stack' = Forth(stack, p)
          /\ ancestors' = ancestors /\ pc' = "run"
      BY <2>3 DEF Past, Top
    <3>2. /\ Nested(v, stack') /\ Len(stack') = n
          /\ \A k \in 1..n : stack'[k].dir = stack[k].dir
      BY <1>1, <2>1, <3>1, ForthIs
    <3>3. Idents(v, stack', ancestors')
      BY <2>1, <3>1, <3>2, IdentsSame
    <3>4. UsedFits(v, stack')
      BY <1>1, <2>1, <3>1, UsedForth
    <3> QED BY <1>1, <2>1, <2>2, <3>1, <3>2, <3>3, <3>4, WalkInvBy
  <2>4. ASSUME NEW d, NEW p, Into(d, p) PROVE WalkInv'
    <3> DEFINE f == Forth(stack, p)  g == Frame(d, p)
    <3>1. stack # <<>> /\ stack[n].rest # <<>> /\ p \in Seq(Name) /\ stack' = Append(f, g)
          /\ ancestors' = ancestors \o Known(d) /\ pc' = "run" /\ d = Head(stack[n].rest).node
          /\ Enters(v, stack, d, Deepest(s.cmd))
      BY <2>4 DEF Into, Top, Entry
    <3>2. d \in Dirs /\ n < Deepest(s.cmd) /\ Deepest(s.cmd) \in Nat
      BY <3>1, DeepestIs DEF Enters
    <3>3. g \in FrameRec /\ g.dir = d /\ g.rest = v.list[d] /\ g.used = {}
      BY <1>1, <3>1, <3>2, FrameOf
    <3>4. /\ Nested(v, f) /\ f \in Seq(FrameRec) /\ Len(f) = n
          /\ \A k \in 1..n : f[k].dir = stack[k].dir
      BY <1>1, <2>1, <3>1, ForthIs
    <3> HIDE DEF f, g
    <3>5. Nested(v, stack')
      BY <1>1, <2>1, <3>1, <3>2, <3>3, SeenDown DEF f
    <3>6. Idents(v, f, ancestors)
      BY <2>1, <3>4, IdentsSame
    <3>7. ancestors' = More(v, ancestors, d)
      <4>1. ancestors \in Seq(Nat)
        BY <1>1, <2>1, <3>1, IdentsUp
      <4> QED BY <1>1, <3>1, <3>2, <4>1, KnownIs
    <3>8. Idents(v, stack', ancestors')
      <4>1. f \in Seq(FrameRec) /\ g \in FrameRec /\ Volume(v) /\ g.dir = d
        BY <1>1, <3>3, <3>4
      <4>2. Idents(v, Append(f, g), More(v, ancestors, g.dir))
        BY <3>6, <4>1, IdentsDown
      <4> QED BY <3>1, <3>7, <4>1, <4>2
    <3>9. Len(stack') = n + 1 /\ (\A k \in 1..n : stack'[k] = f[k]) /\ stack'[n + 1] = g
      BY <3>1, <3>3, <3>4, AppendIs
    <3>10. Len(stack') <= Deepest(s.cmd)
      BY <2>1, <3>2, <3>9
    <3>11. UsedFits(v, stack')
      <4>1. UsedFits(v, f)
        BY <1>1, <2>1, <3>1, UsedForth DEF f
      <4>2. At(v, g) = 0 /\ IsFiniteSet(g.used) /\ Cardinality(g.used) = 0
        <5>1. Len(v.list[d]) \in Nat
          BY <1>1, <3>2, VolumeIs
        <5> QED BY <3>3, <5>1, FS_EmptySet DEF At
      <4>3. \A k \in 1..(n + 1) : k \in 1..n \/ k = n + 1
        BY <2>1
      <4> QED BY <3>4, <3>9, <4>1, <4>2, <4>3 DEF UsedFits
    <3> QED BY <1>1, <2>2, <3>1, <3>5, <3>8, <3>10, <3>11, WalkInvBy
  <2>5. CASE Out
    <3>1. stack # <<>> /\ stack[n].rest = <<>> /\ stack' = Front(stack)
          /\ ancestors' = (IF Known(stack[n].dir) = <<>> THEN ancestors ELSE Front(ancestors))
          /\ pc' = IF n = 1 THEN "done" ELSE "run"
      BY <2>5 DEF Out, Top
    <3>2. Known(stack[n].dir) = <<>> <=> v.ident[stack[n].dir] = 0
      BY DEF Known
    <3>3. Nested(v, stack')
      BY <1>1, <2>1, <3>1, SeenUp, 0 \in Nat
    <3>4. ancestors' = IF v.ident[stack[n].dir] = 0 THEN ancestors ELSE Front(ancestors)
      BY <3>1, <3>2
    <3>5. Idents(v, stack', ancestors')
      <4> DEFINE b == IF v.ident[stack[n].dir] = 0 THEN ancestors ELSE Front(ancestors)
      <4>1. Idents(v, Front(stack), b)
        BY <1>1, <2>1, <3>1, IdentsUp
      <4>2. stack' = Front(stack) /\ ancestors' = b
        BY <3>1, <3>4
      <4> HIDE DEF b, v
      <4> QED BY <4>1, <4>2, Zenon
    <3>6. Len(stack') = n - 1 /\ (\A k \in 1..(n - 1) : stack'[k] = stack[k]) /\ stack' \in Seq(FrameRec)
      BY <2>1, <3>1, FrontIs
    <3>7. Len(stack') <= Deepest(s.cmd) /\ (pc' = "done" => stack' = <<>>)
      BY <2>1, <3>1, <3>6, DeepestIs
    <3>8. UsedFits(v, stack')
      <4>1. \A k \in 1..(n - 1) : k \in 1..n
        BY <2>1
      <4> QED BY <2>1, <3>6, <4>1 DEF UsedFits
    <3> QED BY <1>1, <2>2, <3>1, <3>3, <3>5, <3>7, <3>8, WalkInvBy
  <2>6. CASE Still
    <3>1. stack' = stack /\ ancestors' = ancestors /\ (pc' = pc \/ pc' = "died")
      BY <2>6 DEF Still
    <3> QED BY <1>1, <2>1, <2>2, <3>1, WalkInvBy
  <2> QED BY <1>3, <2>3, <2>4, <2>5, <2>6, WalkMoves
<1> QED BY <1>2, <1>3

-----------------------------------------------------------------------------
(* The destination.                                                        *)

Obj == [kind : {"dir", "data", "rsrc"}, node : Files \cup {Foreign}, got : Nat, cut : BOOLEAN]
IsDisk(d) == d \in [DOMAIN d -> Obj] /\ IsFiniteSet(DOMAIN d) /\ DOMAIN d \subseteq Seq(Name)
Written(d) == {p \in DOMAIN d : d[p].kind = "data" /\ d[p].node # Foreign}

LEMMA ObjIs ==
  /\ DirObj \in Obj /\ DirObj.kind = "dir"
  /\ \A f \in Files, n \in Nat, c \in BOOLEAN :
       Data(f, n, c) \in Obj /\ Data(f, n, c).kind = "data" /\ Data(f, n, c).node = f /\ Data(f, n, c).got = n
BY DEF DirObj, Data, Obj

LEMMA PutIs ==
  ASSUME NEW d, IsDisk(d), NEW p \in Seq(Name), NEW obj \in Obj
  PROVE  /\ IsDisk(Put(d, p, obj)) /\ DOMAIN Put(d, p, obj) = DOMAIN d \cup {p}
         /\ Put(d, p, obj)[p] = obj
         /\ \A q \in DOMAIN d : q # p => Put(d, p, obj)[q] = d[q]
<1> DEFINE t == Put(d, p, obj)
<1>1. t = [q \in DOMAIN d \cup {p} |-> IF q = p THEN obj ELSE d[q]]
  BY DEF Put
<1>2. IsFiniteSet(DOMAIN d \cup {p})
  BY FS_AddElement DEF IsDisk
<1>3. t \in [DOMAIN d \cup {p} -> Obj]
  BY <1>1 DEF IsDisk
<1> HIDE DEF t
<1> QED BY <1>1, <1>2, <1>3 DEF IsDisk, t

LEMMA RemovedIs ==
  ASSUME NEW d, IsDisk(d), NEW p
  PROVE  /\ IsDisk(Removed(d, p)) /\ DOMAIN Removed(d, p) = DOMAIN d \ {p}
         /\ \A q \in DOMAIN d : q # p => Removed(d, p)[q] = d[q]
<1> DEFINE t == Removed(d, p)
<1>1. t = [q \in DOMAIN d \ {p} |-> d[q]]
  BY DEF Removed
<1>2. IsFiniteSet(DOMAIN d \ {p})
  BY FS_RemoveElement DEF IsDisk
<1>3. t \in [DOMAIN d \ {p} -> Obj]
  BY <1>1 DEF IsDisk
<1> HIDE DEF t
<1> QED BY <1>1, <1>2, <1>3 DEF IsDisk, t

(* Making directories adds directories, and touches nothing that is there. *)
LEMMA MkDirsIs ==
  ASSUME NEW d, IsDisk(d), NEW p \in Seq(Name)
  PROVE  /\ IsDisk(MkDirs(d, p)) /\ DOMAIN d \subseteq DOMAIN MkDirs(d, p)
         /\ \A q \in DOMAIN d : MkDirs(d, p)[q] = d[q]
         /\ \A q \in DOMAIN MkDirs(d, p) : q \notin DOMAIN d => MkDirs(d, p)[q] = DirObj
<1> DEFINE way == {n \in 1..Len(p) : \A m \in 1..n : ~(SubSeq(p, 1, m) \in DOMAIN d
                                         /\ d[SubSeq(p, 1, m)].kind # "dir")}
           new == {SubSeq(p, 1, n) : n \in way}
           t == MkDirs(d, p)
<1>1. t = [q \in DOMAIN d \cup new |-> IF q \in DOMAIN d THEN d[q] ELSE DirObj]
  BY DEF MkDirs
<1>2. way \subseteq 1..Len(p) /\ Len(p) \in Nat
  OBVIOUS
<1> HIDE DEF way, t
<1>3. IsFiniteSet(way)
  <2>1. IsFiniteSet(1..Len(p))
    BY <1>2, FS_Interval
  <2> QED BY <1>2, <2>1, FS_Subset
<1>4. IsFiniteSet(new)
  <2> DEFINE g == [n \in way |-> SubSeq(p, 1, n)]
  <2>1. g \in Surjection(way, new)
    BY DEF Surjection
  <2> HIDE DEF g, new
  <2> QED BY <1>3, <2>1, FS_Surjection
<1>5. new \subseteq Seq(Name)
  <2>1. ASSUME NEW n \in way PROVE SubSeq(p, 1, n) \in Seq(Name)
    <3>1. n \in 1..Len(p) /\ \A i \in 1..n : p[i] \in Name
      BY <1>2
    <3> QED BY <3>1, SubSeqProperties
  <2> QED BY <2>1
<1> HIDE DEF new
<1>6. IsFiniteSet(DOMAIN d \cup new)
  BY <1>4, FS_Union DEF IsDisk
<1>7. t \in [DOMAIN d \cup new -> Obj]
  BY <1>1, ObjIs DEF IsDisk
<1>8. DOMAIN t = DOMAIN d \cup new
  BY <1>1
<1>9. IsDisk(t)
  BY <1>5, <1>6, <1>7, <1>8 DEF IsDisk
<1> QED BY <1>1, <1>8, <1>9 DEF t

LEMMA SideIs ==
  ASSUME NEW p \in Seq(Name), p # <<>>
  PROVE  Side(p) \in Seq(Name) /\ Side(p) # <<>> /\ Last(Side(p)).side = TRUE
<1> DEFINE m == [Last(p) EXCEPT !.side = TRUE]
<1>1. Front(p) \in Seq(Name) /\ Last(p) \in Name
  BY FrontIs
<1>2. m \in Name /\ m.side = TRUE
  BY <1>1 DEF Name
<1>3. Side(p) = Append(Front(p), m)
  BY DEF Side
<1> HIDE DEF m
<1>4. /\ Side(p) \in Seq(Name) /\ Side(p) # <<>> /\ Len(Side(p)) = Len(Front(p)) + 1
      /\ Side(p)[Len(Front(p)) + 1] = m
  BY <1>1, <1>2, <1>3, AppendIs
<1>5. Last(Side(p)) = m
  BY <1>4, FrontIs
<1> QED BY <1>2, <1>4, <1>5

(* A sidecar touches no path but one with the "._".                        *)
Unsided(p) == p # <<>> /\ Last(p).side = FALSE
LEMMA SidecarIs ==
  ASSUME NEW d, IsDisk(d), NEW p \in Seq(Name), p # <<>>, NEW f \in Files
  PROVE  /\ IsDisk(WithSidecar(d, p, f)) /\ DOMAIN d \subseteq DOMAIN WithSidecar(d, p, f)
         /\ \A q \in DOMAIN d : Unsided(q) => WithSidecar(d, p, f)[q] = d[q]
         /\ \A q \in DOMAIN WithSidecar(d, p, f) :
              \/ q \in DOMAIN d /\ WithSidecar(d, p, f)[q] = d[q]
              \/ ~Unsided(q) /\ WithSidecar(d, p, f)[q].kind = "rsrc"
<1> DEFINE t == WithSidecar(d, p, f)  obj == [kind |-> "rsrc", node |-> f, got |-> 1, cut |-> FALSE]
<1>1. CASE t = d
  BY <1>1
<1>2. CASE t = Put(d, Side(p), obj)
  <2> DEFINE x == Side(p)
  <2>1. obj \in Obj /\ obj.kind = "rsrc"
    BY DEF Obj
  <2>2. x \in Seq(Name) /\ ~Unsided(x)
    BY SideIs DEF Unsided
  <2>3. t = Put(d, x, obj)
    BY <1>2
  <2> HIDE DEF obj, t, x
  <2>4. IsDisk(Put(d, x, obj)) /\ DOMAIN Put(d, x, obj) = DOMAIN d \cup {x} /\ Put(d, x, obj)[x] = obj
    <3>1. IsDisk(Put(d, x, obj))
      BY <2>1, <2>2, PutIs
    <3>2. DOMAIN Put(d, x, obj) = DOMAIN d \cup {x}
      BY <2>1, <2>2, PutIs
    <3>3. Put(d, x, obj)[x] = obj
      BY DEF Put
    <3> QED BY <3>1, <3>2, <3>3
  <2>5. \A q \in DOMAIN d : q # x => Put(d, x, obj)[q] = d[q]
    BY <2>1, <2>2, PutIs
  <2> QED BY <2>1, <2>2, <2>3, <2>4, <2>5 DEF t
<1>3. t = d \/ t = Put(d, Side(p), obj)
  BY DEF WithSidecar
<1> QED BY <1>1, <1>2, <1>3

DiskInv == s \in Scenarios /\ IsDisk(dest) /\ files \in Nat /\ failed \in Nat /\ partial \in Nat /\ cycles \in Nat

LEMMA DestIs ==
  ASSUME s \in Scenarios
  PROVE  IsDisk(s.dest) /\ Written(s.dest) = {}
<1>1. /\ IsFiniteSet(DOMAIN s.dest) /\ DOMAIN s.dest \subseteq Seq(Name)
      /\ s.dest \in [DOMAIN s.dest -> [kind : {"dir", "data"}, node : {Foreign}, got : Nat, cut : BOOLEAN]]
  BY ScenarioAssumption DEF Scenario
<1>2. ASSUME NEW p \in DOMAIN s.dest PROVE s.dest[p] \in Obj /\ s.dest[p].node = Foreign
  <2>1. s.dest[p] \in [kind : {"dir", "data"}, node : {Foreign}, got : Nat, cut : BOOLEAN]
    BY <1>1
  <2> QED BY <2>1 DEF Obj
<1>3. s.dest \in [DOMAIN s.dest -> Obj]
  BY <1>1, <1>2
<1> QED BY <1>1, <1>2, <1>3 DEF IsDisk, Written

LEMMA StreamIs ==
  ASSUME Volume(s.vol), NEW f \in Files, NEW r \in Streams(f)
  PROVE  r.got \in Nat /\ r.cut \in BOOLEAN /\ (r.ok => r.got = s.vol.given[f]) /\ s.vol.given[f] \in Nat /\ s.vol.size[f] \in Nat
<1>1. s.vol.given[f] \in Nat /\ s.vol.size[f] \in Nat
  BY DEF Volume
<1>2. PICK n \in 0..s.vol.given[f], c \in BOOLEAN :
        r = [got |-> n, cut |-> c, ok |-> n = s.vol.given[f] /\ f \notin s.vol.torn]
  BY DEF Streams
<1>3. r.got = n /\ n \in Nat /\ r.cut \in BOOLEAN
  BY <1>1, <1>2
<1>4. r.ok => n = s.vol.given[f]
  BY <1>2
<1> QED BY <1>1, <1>3, <1>4

LineRec == [node : Files, path : Seq(Name) \ {<<>>}]
LEMMA LineIs ==
  ASSUME s \in Scenarios
  PROVE  /\ s.vol.lines \in Seq(LineRec)
         /\ \A i \in 1..Len(s.vol.lines) :
              s.vol.lines[i].node \in Files /\ s.vol.lines[i].path \in Seq(Name) /\ s.vol.lines[i].path # <<>>
<1>1. s.vol.lines \in Seq(LineRec)
  BY ScenarioIs DEF Volume, LineRec
<1> DEFINE l == s.vol.lines
<1> HIDE DEF l
<1>2. ASSUME NEW i \in 1..Len(l) PROVE l[i].node \in Files /\ l[i].path \in Seq(Name) /\ l[i].path # <<>>
  <2>1. l \in Seq(LineRec)
    BY <1>1 DEF l
  <2>2. l[i] \in LineRec
    BY <2>1
  <2> QED BY <2>2 DEF LineRec
<1> QED BY <1>1, <1>2 DEF l

-----------------------------------------------------------------------------
(* `export-list`.                                                          *)

LEMMA MkDirsWritten ==
  ASSUME NEW d, IsDisk(d), NEW p \in Seq(Name)
  PROVE  Written(MkDirs(d, p)) = Written(d) /\ \A q \in Written(d) : MkDirs(d, p)[q] = d[q]
<1> DEFINE t == MkDirs(d, p)
<1>1. /\ DOMAIN d \subseteq DOMAIN t /\ \A q \in DOMAIN d : t[q] = d[q]
      /\ \A q \in DOMAIN t : q \notin DOMAIN d => t[q] = DirObj
  BY MkDirsIs
<1> HIDE DEF t
<1>2. DirObj.kind # "data"
  BY ObjIs
<1>3. \A q : q \in Written(t) <=> q \in Written(d)
  BY <1>1, <1>2 DEF Written
<1>4. \A q \in Written(d) : t[q] = d[q]
  BY <1>1 DEF Written
<1> QED BY <1>3, <1>4 DEF t

LEMMA PutWritten ==
  ASSUME NEW d, IsDisk(d), NEW p \in Seq(Name), p \notin Written(d), NEW f \in Files, NEW n \in Nat,
         NEW c \in BOOLEAN
  PROVE  /\ IsDisk(Put(d, p, Data(f, n, c)))
         /\ Written(Put(d, p, Data(f, n, c))) = Written(d) \cup {p}
         /\ Put(d, p, Data(f, n, c))[p] = Data(f, n, c)
         /\ \A q \in Written(d) : Put(d, p, Data(f, n, c))[q] = d[q]
<1> DEFINE obj == Data(f, n, c)  t == Put(d, p, obj)
<1>1. obj \in Obj /\ obj.kind = "data" /\ obj.node = f
  BY ObjIs
<1>2. obj.node # Foreign
  BY <1>1, ForeignAssumption
<1> HIDE DEF obj, t
<1>3. t = Put(d, p, obj)
  BY DEF t
<1>4. IsDisk(t)
  BY <1>1, <1>3, PutIs
<1>5. DOMAIN t = DOMAIN d \cup {p} /\ t[p] = obj /\ \A q \in DOMAIN d : q # p => t[q] = d[q]
  BY <1>3 DEF Put
<1>6. ASSUME NEW q PROVE q \in Written(t) <=> q \in Written(d) \cup {p}
  <2>1. CASE q = p
    BY <1>1, <1>2, <1>5, <2>1 DEF Written
  <2>2. CASE q # p
    BY <1>5, <2>2 DEF Written
  <2> QED BY <2>1, <2>2
<1>7. \A q \in Written(d) : q \in DOMAIN d /\ q # p
  BY DEF Written
<1> QED BY <1>4, <1>5, <1>6, <1>7 DEF t, obj

LEMMA RemovedWritten ==
  ASSUME NEW d, IsDisk(d), NEW p, p \notin Written(d)
  PROVE  Written(Removed(d, p)) = Written(d) /\ \A q \in Written(d) : Removed(d, p)[q] = d[q]
<1> DEFINE t == Removed(d, p)
<1>1. DOMAIN t = DOMAIN d \ {p} /\ \A q \in DOMAIN d : q # p => t[q] = d[q]
  BY RemovedIs
<1> HIDE DEF t
<1>2. ASSUME NEW q PROVE q \in Written(t) <=> q \in Written(d)
  <2>1. CASE q = p
    BY <1>1, <2>1 DEF Written
  <2>2. CASE q # p
    BY <1>1, <2>2 DEF Written
  <2> QED BY <2>1, <2>2
<1>3. \A q \in Written(d) : q \in DOMAIN d /\ q # p
  BY DEF Written
<1> QED BY <1>1, <1>2, <1>3 DEF t

LEMMA SidecarWritten ==
  ASSUME NEW d, IsDisk(d), NEW p \in Seq(Name), p # <<>>, NEW f \in Files,
         \A q \in Written(d) : Unsided(q)
  PROVE  /\ Written(WithSidecar(d, p, f)) = Written(d)
         /\ \A q \in Written(d) : WithSidecar(d, p, f)[q] = d[q]
<1> DEFINE t == WithSidecar(d, p, f)
<1>1. /\ DOMAIN d \subseteq DOMAIN t
      /\ \A q \in DOMAIN d : Unsided(q) => t[q] = d[q]
      /\ \A q \in DOMAIN t : \/ q \in DOMAIN d /\ t[q] = d[q]
                             \/ ~Unsided(q) /\ t[q].kind = "rsrc"
  BY SidecarIs
<1> HIDE DEF t
<1>2. \A q \in Written(d) : t[q] = d[q] /\ q \in DOMAIN t /\ q \in DOMAIN d
  BY <1>1 DEF Written
<1>3. ASSUME NEW q \in Written(d) PROVE q \in Written(t)
  BY <1>2 DEF Written
<1>4. ASSUME NEW q \in Written(t) PROVE q \in Written(d)
  <2>1. q \in DOMAIN t /\ t[q].kind # "rsrc" /\ t[q].kind = "data" /\ t[q].node # Foreign
    BY DEF Written
  <2>2. q \in DOMAIN d /\ t[q] = d[q]
    BY <1>1, <2>1
  <2> QED BY <2>1, <2>2 DEF Written
<1> QED BY <1>2, <1>3, <1>4 DEF t

(* The lines read, what they left on the destination, and the totals.      *)
LinesRead == Len(s.vol.lines) - Len(todo)
Incomplete(v, d) == {p \in Written(d) : d[p].node \in v.known /\ d[p].got < v.size[d[p].node]}
Honest(v, d) ==
  \A p \in Written(d) : /\ d[p].node \in Files /\ d[p].got \in Nat
                        /\ d[p].got = 0 => d[p].node \in v.known /\ v.size[d[p].node] = 0
Named(v, d, n) == \A p \in Written(d) : \E i \in 1..n : v.lines[i].path = p

Totals(v, d, n, done, short) ==
  /\ Named(v, d, n) /\ Honest(v, d)
  /\ done = Cardinality(Written(d)) /\ short = Cardinality(Incomplete(v, d))

ListInv ==
  s.cmd = "list" =>
    /\ todo \in Seq(LineRec) /\ Len(todo) <= Len(s.vol.lines)
    /\ \A i \in 1..Len(todo) : todo[i] = s.vol.lines[LinesRead + i]
    /\ files + failed = LinesRead
    /\ pc = "done" => todo = <<>>
    /\ NamedOnce => Totals(s.vol, dest, LinesRead, files, partial)

(* A file that was kept, seen from the totals.                             *)
Adds(v, d, t, p, f, got, cut) ==
  /\ IsDisk(d) /\ IsDisk(t) /\ p \notin Written(d) /\ f \in Files /\ got \in Nat
  /\ Written(t) = Written(d) \cup {p} /\ t[p] = Data(f, got, cut) /\ \A q \in Written(d) : t[q] = d[q]
  /\ got = 0 => f \in v.known /\ v.size[f] = 0
Shorts(v, f, got, short) == IF f \in v.known /\ got < v.size[f] THEN short + 1 ELSE short

LEMMA TotalsGrow ==
  ASSUME NEW v, NEW d, NEW n \in Nat, NEW done \in Nat, NEW short \in Nat, Totals(v, d, n, done, short),
         NEW t, NEW p, NEW f, NEW got, NEW cut, Adds(v, d, t, p, f, got, cut), v.lines[n + 1].path = p
  PROVE  Totals(v, t, n + 1, done + 1, Shorts(v, f, got, short))
<1> USE DEF Adds
<1>1. t[p].node = f /\ t[p].got = got
  BY DEF Data
<1>2. \A q \in Written(t) : q \in Written(d) \/ q = p
  OBVIOUS
<1>3. Named(v, t, n + 1)
  <2>1. \A i \in 1..n : i \in 1..(n + 1)
    OBVIOUS
  <2>2. n + 1 \in 1..(n + 1)
    OBVIOUS
  <2> QED BY <1>2, <2>1, <2>2 DEF Named, Totals
<1>4. Honest(v, t)
  BY <1>1, <1>2 DEF Honest, Totals
<1>5. IsFiniteSet(Written(d))
  <2>1. IsFiniteSet(DOMAIN d) /\ Written(d) \in SUBSET DOMAIN d
    BY DEF IsDisk, Written
  <2> QED BY <2>1, FS_Subset
<1>6. Cardinality(Written(t)) = done + 1
  <2> DEFINE W == Written(d)
  <2>1. W = Written(d) /\ IsFiniteSet(W) /\ p \notin W /\ done = Cardinality(W) /\ Written(t) = W \cup {p}
    BY <1>5 DEF Totals
  <2> HIDE DEF W
  <2>2. Cardinality(W \cup {p}) = Cardinality(W) + 1
    BY <2>1, FS_AddElement
  <2> QED BY <2>1, <2>2
<1>7. IsFiniteSet(Incomplete(v, d)) /\ p \notin Incomplete(v, d)
  <2>1. Incomplete(v, d) \in SUBSET Written(d)
    BY DEF Incomplete
  <2> QED BY <1>5, <2>1, FS_Subset
<1>8. CASE f \in v.known /\ got < v.size[f]
  <2>1. \A q : q \in Incomplete(v, t) <=> q \in Incomplete(v, d) \cup {p}
    BY <1>1, <1>8 DEF Incomplete
  <2>2. Incomplete(v, t) = Incomplete(v, d) \cup {p}
    BY <2>1
  <2>3. Cardinality(Incomplete(v, t)) = short + 1
    <3> DEFINE W == Incomplete(v, d)
    <3>1. IsFiniteSet(W) /\ p \notin W /\ short = Cardinality(W) /\ Incomplete(v, t) = W \cup {p}
      BY <1>7, <2>2 DEF Totals
    <3> HIDE DEF W
    <3>2. Cardinality(W \cup {p}) = Cardinality(W) + 1
      BY <3>1, FS_AddElement
    <3> QED BY <3>1, <3>2
  <2> QED BY <1>3, <1>4, <1>6, <1>8, <2>3 DEF Totals, Shorts
<1>9. CASE ~(f \in v.known /\ got < v.size[f])
  <2>1. \A q : q \in Incomplete(v, t) <=> q \in Incomplete(v, d)
    BY <1>1, <1>9 DEF Incomplete
  <2>2. Incomplete(v, t) = Incomplete(v, d)
    BY <2>1
  <2>3. Cardinality(Incomplete(v, t)) = short
    BY <2>2 DEF Totals
  <2> QED BY <1>3, <1>4, <1>6, <1>9, <2>3 DEF Totals, Shorts
<1> QED BY <1>8, <1>9

LEMMA TotalsKeep ==
  ASSUME NEW v, NEW d, NEW n \in Nat, NEW m \in Nat, n <= m, NEW done, NEW short,
         Totals(v, d, n, done, short), NEW t,
         Written(t) = Written(d), \A q \in Written(d) : t[q] = d[q]
  PROVE  Totals(v, t, m, done, short)
<1>1. Named(v, t, m)
  <2>1. \A i \in 1..n : i \in 1..m
    OBVIOUS
  <2> QED BY <2>1 DEF Named, Totals
<1>2. Honest(v, t)
  BY DEF Honest, Totals
<1>3. Incomplete(v, t) = Incomplete(v, d)
  <2>1. \A q : q \in Incomplete(v, t) <=> q \in Incomplete(v, d)
    BY DEF Incomplete
  <2> QED BY <2>1
<1> QED BY <1>1, <1>2, <1>3 DEF Totals

(* What a line of the list does.                                           *)
LEMMA LineHead ==
  ASSUME ListInv, DiskInv, s.cmd = "list", todo # <<>>
  PROVE  /\ LinesRead \in Nat /\ LinesRead + 1 \in 1..Len(s.vol.lines) /\ Len(s.vol.lines) \in Nat
         /\ Head(todo) = s.vol.lines[LinesRead + 1]
         /\ Head(todo).node \in Files /\ Head(todo).path \in Seq(Name) /\ Head(todo).path # <<>>
         /\ Tail(todo) \in Seq(LineRec) /\ Len(Tail(todo)) = Len(todo) - 1 /\ Len(todo) \in Nat \ {0}
         /\ \A i \in 1..Len(Tail(todo)) : Tail(todo)[i] = s.vol.lines[LinesRead + 1 + i]
<1> DEFINE l == s.vol.lines  n == LinesRead  q == todo
<1>1. l \in Seq(LineRec) /\ Len(l) \in Nat /\ \A i \in 1..Len(l) :
        l[i].node \in Files /\ l[i].path \in Seq(Name) /\ l[i].path # <<>>
  BY LineIs DEF DiskInv
<1>2. q \in Seq(LineRec) /\ Len(q) <= Len(l) /\ n = Len(l) - Len(q)
      /\ \A i \in 1..Len(q) : q[i] = l[n + i]
  BY DEF ListInv, LinesRead
<1> HIDE DEF l, n, q
<1>3. q # <<>>
  BY DEF q
<1>4. Len(q) \in Nat \ {0} /\ Head(q) = q[1] /\ Tail(q) \in Seq(LineRec) /\ Len(Tail(q)) = Len(q) - 1
      /\ \A i \in 1..Len(Tail(q)) : Tail(q)[i] = q[i + 1]
  BY <1>2, <1>3
<1>5. n \in Nat /\ n + 1 \in 1..Len(l) /\ 1 \in 1..Len(q)
  BY <1>1, <1>2, <1>4
<1>6. Head(q) = l[n + 1]
  BY <1>2, <1>4, <1>5
<1>7. ASSUME NEW i \in 1..Len(Tail(q)) PROVE Tail(q)[i] = l[n + 1 + i]
  <2>1. i + 1 \in 1..Len(q) /\ n + (i + 1) = n + 1 + i
    BY <1>4, <1>5
  <2>2. q[i + 1] = l[n + (i + 1)]
    BY <1>2, <2>1
  <2> QED BY <1>4, <2>1, <2>2
<1> QED BY <1>1, <1>4, <1>5, <1>6, <1>7 DEF l, n, q

LEMMA ListInit == Init => ListInv
<1> SUFFICES ASSUME Init, s.cmd = "list" PROVE ListInv
  BY DEF ListInv
<1>1. s \in Scenarios /\ pc = "run" /\ todo = s.vol.lines /\ dest = s.dest
      /\ files = 0 /\ failed = 0 /\ partial = 0
  BY DEF Init
<1>2. s.vol.lines \in Seq(LineRec) /\ Len(s.vol.lines) \in Nat
  BY <1>1, LineIs
<1>3. LinesRead = 0
  BY <1>1, <1>2 DEF LinesRead
<1>4. Written(dest) = {}
  BY <1>1, DestIs
<1>5. Totals(s.vol, dest, 0, 0, 0)
  <2>1. Incomplete(s.vol, dest) = {}
    BY <1>4 DEF Incomplete
  <2> QED BY <1>4, <2>1, FS_EmptySet DEF Totals, Named, Honest
<1>6. \A i \in 1..Len(todo) : 0 + i = i
  OBVIOUS
<1>7. \A i \in 1..Len(todo) : todo[i] = s.vol.lines[LinesRead + i]
  BY <1>1, <1>3, <1>6
<1>8. 0 + 0 = 0 /\ Len(todo) <= Len(s.vol.lines)
  BY <1>1, <1>2
<1> QED BY <1>1, <1>2, <1>3, <1>5, <1>7, <1>8 DEF ListInv

LEMMA ListInvBy ==
  ASSUME s' = s, todo' \in Seq(LineRec), Len(todo') <= Len(s.vol.lines),
         NEW n \in Nat, n = Len(s.vol.lines) - Len(todo'),
         \A i \in 1..Len(todo') : todo'[i] = s.vol.lines[n + i],
         files' + failed' = n, pc' = "done" => todo' = <<>>,
         NamedOnce => Totals(s.vol, dest', n, files', partial')
  PROVE  ListInv'
<1>1. LinesRead' = n
  BY DEF LinesRead
<1>2. NamedOnce' => Totals(s.vol, dest', n, files', partial')
  BY DEF NamedOnce
<1>3. Totals(s.vol, dest', n, files', partial') => Totals(s.vol, dest, LinesRead, files, partial)'
  BY <1>1 DEF Totals, Named, Honest, Incomplete, Written
<1>4. (\A i \in 1..Len(todo) : todo[i] = s.vol.lines[LinesRead + i])'
  BY <1>1
<1> QED BY <1>1, <1>2, <1>3, <1>4 DEF ListInv

(* A path that comes up on the list was not written before.                *)
LEMMA LineIsNew ==
  ASSUME s \in Scenarios, NEW n \in Nat, n + 1 \in 1..Len(s.vol.lines), NamedOnce,
         NEW d, Named(s.vol, d, n)
  PROVE  s.vol.lines[n + 1].path \notin Written(d)
<1>1. Len(s.vol.lines) \in Nat /\ DOMAIN s.vol.lines = 1..Len(s.vol.lines)
  <2>1. s.vol.lines \in Seq(LineRec)
    BY LineIs
  <2> QED BY <2>1
<1>2. SUFFICES ASSUME s.vol.lines[n + 1].path \in Written(d) PROVE FALSE
  OBVIOUS
<1>3. PICK i \in 1..n : s.vol.lines[i].path = s.vol.lines[n + 1].path
  BY <1>2 DEF Named
<1>4. i \in 1..Len(s.vol.lines) /\ i # n + 1
  BY <1>1
<1> QED BY <1>1, <1>3, <1>4 DEF NamedOnce

LEMMA WrittenUnsided ==
  ASSUME s \in Scenarios, NEW n \in Nat, n <= Len(s.vol.lines), NamedOnce,
         NEW d, Named(s.vol, d, n), NEW q \in Written(d)
  PROVE  Unsided(q)
<1>1. Len(s.vol.lines) \in Nat /\ DOMAIN s.vol.lines = 1..Len(s.vol.lines)
  <2>1. s.vol.lines \in Seq(LineRec)
    BY LineIs
  <2> QED BY <2>1
<1>2. PICK i \in 1..n : s.vol.lines[i].path = q
  BY DEF Named
<1>3. i \in 1..Len(s.vol.lines)
  BY <1>1
<1>4. s.vol.lines[i].path # <<>> /\ s.vol.lines[i].path \in Seq(Name)
  BY <1>3, LineIs
<1>5. Last(s.vol.lines[i].path).side \in BOOLEAN
  <2> DEFINE p == s.vol.lines[i].path
  <2>1. p \in Seq(Name) /\ p # <<>>
    BY <1>4
  <2> HIDE DEF p
  <2>2. Last(p) \in Name
    BY <2>1, FrontIs
  <2> QED BY <2>2 DEF Name, p
<1>6. ~Last(s.vol.lines[i].path).side
  BY <1>1, <1>3 DEF NamedOnce
<1> QED BY <1>2, <1>4, <1>5, <1>6 DEF Unsided

LEMMA DiskInvBy ==
  ASSUME s' = s, s \in Scenarios, IsDisk(dest'), files' \in Nat, failed' \in Nat, partial' \in Nat, cycles' \in Nat
  PROVE  DiskInv'
<1>1. IsDisk(dest)'
  BY DEF IsDisk, Obj
<1> QED BY <1>1 DEF DiskInv

LEMMA DiskInit == Init => DiskInv
BY DestIs DEF Init, DiskInv

(* Every outcome of a line, with what it leaves on the destination.        *)
LineFile == Head(todo).node
LinePath == Head(todo).path
Ready == MkDirs(dest, Front(LinePath))
Copied(got, cut) == Put(Ready, LinePath, Data(LineFile, got, cut))
LineLost ==
  /\ failed' = failed + 1 /\ files' = files /\ partial' = partial
  /\ dest' = Ready \/ dest' = Removed(Ready, LinePath)
LineKept(got, cut) ==
  /\ got = 0 => LineFile \in s.vol.known /\ s.vol.size[LineFile] = 0
  /\ failed' = failed /\ files' = files + 1
  /\ partial' = IF LineFile \in s.vol.known /\ got < s.vol.size[LineFile] THEN partial + 1 ELSE partial
  /\ dest' = Copied(got, cut) \/ dest' = WithSidecar(Copied(got, cut), LinePath, LineFile)

LEMMA LineOutcome ==
  ASSUME ListInv, DiskInv, ListLine
  PROVE  /\ s.cmd = "list" /\ todo # <<>> /\ s' = s /\ pc' = pc /\ todo' = Tail(todo) /\ cycles' = cycles
         /\ LineFile \in Files /\ LinePath \in Seq(Name) /\ LinePath # <<>>
         /\ IsDisk(Ready) /\ Written(Ready) = Written(dest) /\ \A q \in Written(dest) : Ready[q] = dest[q]
         /\ \A got \in Nat, cut \in BOOLEAN : IsDisk(Copied(got, cut))
         /\ LineLost \/ \E got \in Nat, cut \in BOOLEAN : LineKept(got, cut)
<1>1. s.cmd = "list" /\ todo # <<>> /\ s' = s /\ pc' = pc /\ todo' = Tail(todo) /\ cycles' = cycles
  BY DEF ListLine
<1>2. LineFile \in Files /\ LinePath \in Seq(Name) /\ LinePath # <<>> /\ Front(LinePath) \in Seq(Name)
  <2>1. LineFile \in Files /\ LinePath \in Seq(Name) /\ LinePath # <<>>
    BY <1>1, LineHead DEF LineFile, LinePath
  <2> QED BY <2>1, FrontIs
<1>3. IsDisk(dest) /\ s \in Scenarios /\ Volume(s.vol)
  BY ScenarioIs DEF DiskInv
<1>4. IsDisk(Ready) /\ Written(Ready) = Written(dest) /\ (\A q \in Written(dest) : Ready[q] = dest[q])
  BY <1>2, <1>3, MkDirsIs, MkDirsWritten DEF Ready
<1>5. ASSUME NEW got \in Nat, NEW cut \in BOOLEAN PROVE IsDisk(Copied(got, cut))
  BY <1>2, <1>4, PutIs, ObjIs DEF Copied
<1>6. \/ LineLost
      \/ \E r \in Streams(LineFile) :
           /\ Kept(LineFile, r) /\ files' = files + 1 /\ failed' = failed
           /\ partial' = IF Sized(LineFile) /\ r.got < s.vol.size[LineFile] THEN partial + 1 ELSE partial
           /\ dest' = Copied(r.got, r.cut) \/ dest' = WithSidecar(Copied(r.got, r.cut), LinePath, LineFile)
  BY DEF ListLine, LineLost, Ready, Copied, LineFile, LinePath
<1>7. ASSUME NEW r \in Streams(LineFile),
             Kept(LineFile, r), files' = files + 1, failed' = failed,
             partial' = (IF Sized(LineFile) /\ r.got < s.vol.size[LineFile] THEN partial + 1 ELSE partial),
             dest' = Copied(r.got, r.cut) \/ dest' = WithSidecar(Copied(r.got, r.cut), LinePath, LineFile)
      PROVE  \E got \in Nat, cut \in BOOLEAN : LineKept(got, cut)
  <2>1. r.got \in Nat /\ r.cut \in BOOLEAN
    BY <1>2, <1>3, StreamIs
  <2>2. LineKept(r.got, r.cut)
    BY <1>7, <2>1 DEF LineKept, Kept, Sized
  <2> QED BY <2>1, <2>2
<1>8. LineLost \/ \E got \in Nat, cut \in BOOLEAN : LineKept(got, cut)
  BY <1>6, <1>7
<1> QED BY <1>1, <1>2, <1>4, <1>5, <1>8

LEMMA DiskStep == WalkInv /\ ListInv /\ DiskInv /\ [Next]_vars => DiskInv'
<1> SUFFICES ASSUME WalkInv, ListInv, DiskInv, [Next]_vars PROVE DiskInv'
  OBVIOUS
<1>1. s \in Scenarios /\ IsDisk(dest) /\ files \in Nat /\ failed \in Nat /\ partial \in Nat /\ cycles \in Nat
      /\ Volume(s.vol)
  BY ScenarioIs DEF DiskInv
<1>2. CASE ExportFolder
  <2>1. s.cmd = "export" /\ stack # <<>> /\ Top.rest # <<>> /\ s' = s
        /\ files' = files /\ failed' = failed /\ partial' = partial
        /\ (dest' = dest \/ dest' = MkDirs(dest, Claimed(Entry)))
        /\ (cycles' = cycles \/ cycles' = cycles + 1)
    BY <1>2 DEF ExportFolder, AtEntry, Walking
  <2>2. Claimed(Entry) \in Seq(Name)
    BY <2>1, ClaimedIs
  <2>3. IsDisk(MkDirs(dest, Claimed(Entry)))
    BY <1>1, <2>2, MkDirsIs
  <2>4. IsDisk(dest') /\ cycles' \in Nat
    BY <1>1, <2>1, <2>3
  <2> QED BY <1>1, <2>1, <2>4, DiskInvBy
<1>3. CASE ExportFile
  <2> DEFINE f == Entry.node  p == Claimed(Entry)
  <2>1. s.cmd = "export" /\ stack # <<>> /\ Top.rest # <<>> /\ s' = s /\ Entry.node \notin Dirs
        /\ partial' = partial /\ cycles' = cycles /\ (files' = files \/ files' = files + 1)
        /\ (failed' = failed \/ failed' = failed + 1)
        /\ (dest' = dest \/ \E r \in Streams(f) : dest' = WithSidecar(Put(dest, p, Data(f, r.got, r.cut)), p, f))
    BY <1>3 DEF ExportFile, AtEntry, Walking, IsFolder
  <2>2. p \in Seq(Name) /\ p # <<>> /\ f \in Files
    <3>1. PICK x \in Name : p = Append(Top.path, x) /\ p \in Seq(Name)
      BY <2>1, ClaimedIs
    <3>2. Entry \in DirEntry /\ Top \in FrameRec
      BY <2>1, EntryIs
    <3>3. Top.path \in Seq(Name)
      BY <3>2 DEF FrameRec
    <3>4. Append(Top.path, x) # <<>>
      BY <3>3, AppendIs
    <3>5. f \in Files
      BY <2>1, <3>2 DEF DirEntry
    <3> QED BY <3>1, <3>4, <3>5
  <2> HIDE DEF p, f
  <2>3. ASSUME NEW r \in Streams(f), dest' = WithSidecar(Put(dest, p, Data(f, r.got, r.cut)), p, f)
        PROVE  IsDisk(dest')
    <3>1. r.got \in Nat /\ r.cut \in BOOLEAN
      BY <1>1, <2>2, StreamIs
    <3>2. Data(f, r.got, r.cut) \in Obj
      BY <2>2, <3>1, ObjIs
    <3>3. IsDisk(Put(dest, p, Data(f, r.got, r.cut)))
      BY <1>1, <2>2, <3>2, PutIs
    <3>4. IsDisk(WithSidecar(Put(dest, p, Data(f, r.got, r.cut)), p, f))
      BY <2>2, <3>3, SidecarIs
    <3> QED BY <2>3, <3>4
  <2>4. IsDisk(dest')
    BY <1>1, <2>1, <2>3
  <2>5. files' \in Nat /\ failed' \in Nat /\ partial' \in Nat /\ cycles' \in Nat
    BY <1>1, <2>1
  <2> QED BY <1>1, <2>1, <2>4, <2>5, DiskInvBy
<1>4. CASE ReportFolder \/ ReportFile \/ LeaveDir \/ ListEnds \/ Throw \/ Ended \/ UNCHANGED vars
  <2>1. s' = s /\ dest' = dest /\ (files' = files \/ files' = files + 1) /\ failed' = failed /\ partial' = partial
        /\ (cycles' = cycles \/ cycles' = cycles + 1)
    BY <1>4 DEF ReportFolder, ReportFile, LeaveDir, ListEnds, Throw, Ended, vars, counters
  <2>2. IsDisk(dest') /\ files' \in Nat /\ failed' \in Nat /\ partial' \in Nat /\ cycles' \in Nat
    BY <1>1, <2>1
  <2> QED BY <1>1, <2>1, <2>2, DiskInvBy
<1>5. CASE ListLine
  <2>1. s' = s /\ cycles' = cycles /\ LineFile \in Files /\ LinePath \in Seq(Name) /\ LinePath # <<>>
        /\ IsDisk(Ready) /\ (\A got \in Nat, cut \in BOOLEAN : IsDisk(Copied(got, cut)))
        /\ (LineLost \/ \E got \in Nat, cut \in BOOLEAN : LineKept(got, cut))
    BY <1>5, LineOutcome
  <2>2. CASE LineLost
    <3>1. IsDisk(dest')
      BY <2>1, <2>2, RemovedIs DEF LineLost
    <3> QED BY <1>1, <2>1, <2>2, <3>1, DiskInvBy DEF LineLost
  <2>3. ASSUME NEW got \in Nat, NEW cut \in BOOLEAN, LineKept(got, cut)
          PROVE  DiskInv'
    <3>1. IsDisk(dest')
      <4>1. IsDisk(WithSidecar(Copied(got, cut), LinePath, LineFile))
        BY <2>1, SidecarIs
      <4> QED BY <2>1, <2>3, <4>1 DEF LineKept
    <3>2. files' \in Nat /\ failed' \in Nat /\ partial' \in Nat
      BY <1>1, <2>3 DEF LineKept
    <3> QED BY <1>1, <2>1, <3>1, <3>2, DiskInvBy
  <2> QED BY <2>1, <2>2, <2>3
<1> QED BY <1>2, <1>3, <1>4, <1>5 DEF Next

LEMMA ListStep == ListInv /\ DiskInv /\ [Next]_vars => ListInv'
<1> SUFFICES ASSUME ListInv, DiskInv, [Next]_vars, s'.cmd = "list" PROVE ListInv'
  BY DEF ListInv
<1> USE DEF LinesRead
<1>1. s' = s /\ s.cmd = "list"
  BY DEF Next, ExportFolder, ExportFile, ReportFolder, ReportFile, LeaveDir, ListLine, ListEnds, Throw,
         Ended, AtEntry, Walking, vars
<1>2. /\ todo \in Seq(LineRec) /\ Len(todo) <= Len(s.vol.lines)
      /\ \A i \in 1..Len(todo) : todo[i] = s.vol.lines[LinesRead + i]
      /\ files + failed = LinesRead
      /\ pc = "done" => todo = <<>>
      /\ NamedOnce => Totals(s.vol, dest, LinesRead, files, partial)
  BY <1>1 DEF ListInv
<1>3. Len(s.vol.lines) \in Nat /\ s \in Scenarios /\ IsDisk(dest) /\ files \in Nat /\ failed \in Nat /\ partial \in Nat
  BY LineIs DEF DiskInv
<1>4. LinesRead \in Nat
  BY <1>2, <1>3
<1>5. CASE ListLine
  <2> DEFINE n == LinesRead
  <2>1. /\ pc = "run" /\ pc' = pc /\ todo # <<>> /\ todo' = Tail(todo)
        /\ LineFile \in Files /\ LinePath \in Seq(Name) /\ LinePath # <<>>
        /\ IsDisk(Ready) /\ Written(Ready) = Written(dest) /\ (\A q \in Written(dest) : Ready[q] = dest[q])
        /\ (\A got \in Nat, cut \in BOOLEAN : IsDisk(Copied(got, cut)))
        /\ (LineLost \/ \E got \in Nat, cut \in BOOLEAN : LineKept(got, cut))
    <3>1. pc = "run"
      BY <1>5 DEF ListLine
    <3> QED BY <1>5, <3>1, LineOutcome
  <2>2. /\ n \in Nat /\ n + 1 \in 1..Len(s.vol.lines)
        /\ LinePath = s.vol.lines[n + 1].path
        /\ Tail(todo) \in Seq(LineRec) /\ Len(Tail(todo)) = Len(todo) - 1 /\ Len(todo) \in Nat \ {0}
        /\ \A i \in 1..Len(Tail(todo)) : Tail(todo)[i] = s.vol.lines[n + 1 + i]
    BY <1>1, <2>1, LineHead DEF LinePath
  <2>3. n + 1 = Len(s.vol.lines) - Len(todo') /\ Len(todo') <= Len(s.vol.lines)
    BY <1>2, <1>3, <2>1, <2>2
  <2>4. files' + failed' = n + 1
    <3>1. n \in Nat /\ files + failed = n
      BY <1>2, <1>4
    <3> HIDE DEF n, LinesRead
    <3>2. CASE LineLost
      <4>1. files' = files /\ failed' = failed + 1
        BY <3>2 DEF LineLost
      <4> QED BY <1>3, <3>1, <4>1
    <3>3. ASSUME NEW got \in Nat, NEW cut \in BOOLEAN, LineKept(got, cut)
          PROVE  files' + failed' = n + 1
      <4>1. files' = files + 1 /\ failed' = failed
        BY <3>3 DEF LineKept
      <4> QED BY <1>3, <3>1, <4>1
    <3> QED BY <2>1, <3>2, <3>3
  <2>5. NamedOnce => Totals(s.vol, dest', n + 1, files', partial')
    <3> SUFFICES ASSUME NamedOnce PROVE Totals(s.vol, dest', n + 1, files', partial')
      OBVIOUS
    <3>1. Totals(s.vol, dest, n, files, partial)
      BY <1>2
    <3> HIDE DEF n, LinesRead
    <3>2. Totals(s.vol, Ready, n, files, partial)
      BY <2>1, <2>2, <3>1, TotalsKeep
    <3>3. LinePath \notin Written(Ready)
      BY <1>3, <2>1, <2>2, <3>2, LineIsNew DEF Totals
    <3>4. CASE LineLost
      <4>1. Written(dest') = Written(Ready) /\ \A q \in Written(Ready) : dest'[q] = Ready[q]
        BY <2>1, <3>3, <3>4, RemovedWritten DEF LineLost
      <4>2. Totals(s.vol, dest', n + 1, files, partial)
        BY <2>2, <3>2, <4>1, TotalsKeep
      <4> QED BY <3>4, <4>2 DEF LineLost
    <3>5. ASSUME NEW got \in Nat, NEW cut \in BOOLEAN, LineKept(got, cut)
          PROVE  Totals(s.vol, dest', n + 1, files', partial')
      <4> DEFINE t == Copied(got, cut)
                 short == Shorts(s.vol, LineFile, got, partial)
      <4>1. /\ IsDisk(t) /\ Written(t) = Written(Ready) \cup {LinePath}
            /\ t[LinePath] = Data(LineFile, got, cut) /\ \A q \in Written(Ready) : t[q] = Ready[q]
        <5>1. t = Put(Ready, LinePath, Data(LineFile, got, cut))
          BY DEF Copied
        <5> HIDE DEF t
        <5>2. IsDisk(Put(Ready, LinePath, Data(LineFile, got, cut)))
          BY <2>1, <3>3, PutWritten
        <5>3. Written(Put(Ready, LinePath, Data(LineFile, got, cut))) = Written(Ready) \cup {LinePath}
          BY <2>1, <3>3, PutWritten
        <5>4. Put(Ready, LinePath, Data(LineFile, got, cut))[LinePath] = Data(LineFile, got, cut)
          BY DEF Put
        <5>5. \A q \in Written(Ready) : Put(Ready, LinePath, Data(LineFile, got, cut))[q] = Ready[q]
          BY <3>3 DEF Put, Written
        <5> QED BY <5>1, <5>2, <5>3, <5>4, <5>5
      <4> HIDE DEF t, short
      <4>2. got = 0 => LineFile \in s.vol.known /\ s.vol.size[LineFile] = 0
        BY <3>5 DEF LineKept
      <4>3. Totals(s.vol, t, n + 1, files + 1, short)
        <5>1. n \in Nat /\ s.vol.lines[n + 1].path = LinePath
          BY <2>2
        <5>2. Adds(s.vol, Ready, t, LinePath, LineFile, got, cut)
          BY <2>1, <3>3, <4>1, <4>2 DEF Adds
        <5> QED BY <1>3, <3>2, <5>1, <5>2, TotalsGrow DEF short
      <4>4. n + 1 <= Len(s.vol.lines) /\ n + 1 \in Nat /\ Named(s.vol, t, n + 1)
        BY <1>3, <2>2, <4>3 DEF Totals
      <4>5. \A q \in Written(t) : Unsided(q)
        BY <1>3, <4>4, WrittenUnsided
      <4>6. Totals(s.vol, WithSidecar(t, LinePath, LineFile), n + 1, files + 1, short)
        <5>1. /\ Written(WithSidecar(t, LinePath, LineFile)) = Written(t)
              /\ \A q \in Written(t) : WithSidecar(t, LinePath, LineFile)[q] = t[q]
          BY <2>1, <4>1, <4>5, SidecarWritten
        <5> QED BY <4>3, <4>4, <5>1, TotalsKeep
      <4>7. files' = files + 1 /\ partial' = short /\ (dest' = t \/ dest' = WithSidecar(t, LinePath, LineFile))
        BY <3>5 DEF LineKept, t, short, Shorts
      <4> QED BY <4>3, <4>6, <4>7
    <3> QED BY <2>1, <3>4, <3>5
  <2> HIDE DEF n, LinesRead
  <2>6. n + 1 \in Nat
    BY <2>2
  <2> QED BY <1>1, <2>1, <2>2, <2>3, <2>4, <2>5, <2>6, ListInvBy
<1>6. CASE ~ListLine
  <2>1. todo' = todo /\ dest' = dest /\ files' = files /\ failed' = failed /\ partial' = partial
        /\ (pc' = "done" => todo = <<>>)
    BY <1>1, <1>2, <1>6
       DEF Next, ExportFolder, ExportFile, ReportFolder, ReportFile, LeaveDir, ListEnds, Throw,
         Ended, AtEntry, Walking, vars, counters
  <2> QED BY <1>1, <1>2, <1>4, <2>1, ListInvBy
<1> QED BY <1>5, <1>6

LEMMA ListIsHonestFrom ==
  ASSUME ListInv, DiskInv
  PROVE  ListIsHonest
<1> SUFFICES ASSUME s.cmd = "list", NamedOnce
    PROVE  /\ files = Cardinality(Written(dest))
           /\ \A p \in Written(dest) : dest[p].got = 0 => Sized(dest[p].node) /\ s.vol.size[dest[p].node] = 0
           /\ partial = Cardinality({p \in Written(dest) :
                          Sized(dest[p].node) /\ dest[p].got < s.vol.size[dest[p].node]})
           /\ pc = "done" => files + failed = Len(s.vol.lines)
  BY DEF ListIsHonest, Written
<1>1. Totals(s.vol, dest, LinesRead, files, partial) /\ files + failed = LinesRead /\ (pc = "done" => todo = <<>>)
  BY DEF ListInv
<1>2. Len(s.vol.lines) \in Nat
  BY LineIs DEF DiskInv
<1>3. pc = "done" => LinesRead = Len(s.vol.lines)
  BY <1>1, <1>2 DEF LinesRead
<1>4. {p \in Written(dest) : Sized(dest[p].node) /\ dest[p].got < s.vol.size[dest[p].node]} = Incomplete(s.vol, dest)
  BY DEF Incomplete, Sized
<1> QED BY <1>1, <1>3, <1>4 DEF Totals, Honest, Sized

(* What `export-list` says of its run is what is on the destination: the   *)
(* files it counts are those it wrote, none is empty but those known to be *)
(* empty, and the ones that came short are the ones counted as partial.    *)
THEOREM ListTotalsAreHonest == Spec => []ListIsHonest
<1>1. Init => WalkInv /\ ListInv /\ DiskInv
  BY WalkInit, ListInit, DiskInit
<1>2. WalkInv /\ ListInv /\ DiskInv /\ [Next]_vars => (WalkInv /\ ListInv /\ DiskInv)'
  BY WalkStep, ListStep, DiskStep
<1>3. WalkInv /\ ListInv /\ DiskInv => ListIsHonest
  BY ListIsHonestFrom
<1> QED BY <1>1, <1>2, <1>3, PTL DEF Spec

-----------------------------------------------------------------------------
(* The paths a report's parent links spell.                                *)

EntryRec == [name : Name, parent : Nat, dir : BOOLEAN]
Backward(es) == es \in Seq(EntryRec) /\ \A k \in 1..Len(es) : es[k].parent \in 0..(k - 1)
PathLaw(es, f, n) ==
  f = [k \in 0..n |-> IF k = 0 THEN <<>> ELSE Append(f[es[k].parent], es[k].name)]

LEMMA PathLawIs ==
  ASSUME NEW es, NEW f, NEW n \in Nat, PathLaw(es, f, n)
  PROVE  f[0] = <<>> /\ \A k \in 1..n : f[k] = Append(f[es[k].parent], es[k].name)
<1>1. 0 \in 0..n /\ \A k \in 1..n : k \in 0..n /\ k # 0
  OBVIOUS
<1>2. ASSUME NEW k \in 0..n PROVE f[k] = IF k = 0 THEN <<>> ELSE Append(f[es[k].parent], es[k].name)
  BY DEF PathLaw
<1> QED BY <1>1, <1>2

LEMMA PathsExist ==
  ASSUME NEW es, Backward(es), NEW n \in 0..Len(es)
  PROVE  \E f : PathLaw(es, f, n)
<1> DEFINE T == {m \in 0..Len(es) : ~\E f : PathLaw(es, f, m)}
<1>1. Len(es) \in Nat
  BY DEF Backward
<1>2. T = {}
  <2>1. SUFFICES ASSUME T # {} PROVE FALSE
    OBVIOUS
  <2>2. PICK m \in T : \A k \in T : m <= k
    <3>1. T \subseteq Nat
      OBVIOUS
    <3> HIDE DEF T
    <3> QED BY <2>1, <3>1, LeastOf
  <2>3. m \in 0..Len(es) /\ ~\E f : PathLaw(es, f, m)
    BY <2>2
  <2>4. CASE m = 0
    <3> DEFINE f == [k \in 0..0 |-> <<>>]
    <3>1. f = [k \in 0..0 |-> IF k = 0 THEN <<>> ELSE Append(f[es[k].parent], es[k].name)]
      OBVIOUS
    <3> HIDE DEF f
    <3> QED BY <2>3, <2>4, <3>1 DEF PathLaw
  <2>5. CASE m # 0
    <3> DEFINE p == m - 1
    <3>1. p \in 0..Len(es) /\ p \in Nat /\ m = p + 1 /\ p \notin T /\ m \in Nat
      <4>1. m \in Nat /\ p \in 0..Len(es) /\ p \in Nat /\ m = p + 1 /\ ~(m <= p)
        BY <1>1, <2>3, <2>5
      <4> HIDE DEF T, p
      <4> QED BY <2>2, <4>1
    <3>2. PICK g : PathLaw(es, g, p)
      BY <3>1
    <3> HIDE DEF p, T
    <3> DEFINE f == [k \in 0..m |-> IF k = 0 THEN <<>> ELSE Append(g[es[k].parent], es[k].name)]
    <3>3. ASSUME NEW k \in 0..p PROVE f[k] = g[k]
      <4>1. k \in 0..m
        BY <3>1
      <4>2. g[k] = IF k = 0 THEN <<>> ELSE Append(g[es[k].parent], es[k].name)
        BY <3>2 DEF PathLaw
      <4> QED BY <4>1, <4>2
    <3>4. ASSUME NEW k \in 0..m PROVE f[k] = IF k = 0 THEN <<>> ELSE Append(f[es[k].parent], es[k].name)
      <4>1. CASE k = 0
        BY <4>1
      <4>2. CASE k # 0
        <5>1. k \in 1..Len(es)
          BY <1>1, <2>3, <4>2
        <5>2. es[k].parent \in 0..(k - 1)
          BY <5>1 DEF Backward
        <5>3. es[k].parent \in 0..p
          BY <3>1, <5>1, <5>2
        <5>4. f[es[k].parent] = g[es[k].parent] /\ f[k] = Append(g[es[k].parent], es[k].name)
          BY <3>3, <4>2, <5>3
        <5> HIDE DEF f
        <5> QED BY <4>2, <5>4
      <4> QED BY <4>1, <4>2
    <3>5. PathLaw(es, f, m)
      <4>1. DOMAIN f = 0..m /\ f = [k \in DOMAIN f |-> f[k]]
        OBVIOUS
      <4> HIDE DEF f
      <4> QED BY <3>4, <4>1 DEF PathLaw
    <3> QED BY <2>3, <3>5
  <2> QED BY <2>4, <2>5
<1> QED BY <1>2

(* Two reports that begin alike spell the same paths there.                *)
LEMMA PathsAgree ==
  ASSUME NEW es, Backward(es), NEW fs, NEW f, NEW g, NEW m \in Nat, PathLaw(fs, g, m),
         NEW n \in Nat, PathLaw(es, f, n), n = Len(es), n <= m, \A k \in 1..n : fs[k] = es[k],
         NEW i \in 0..n
  PROVE  g[i] = f[i]
<1> DEFINE T == {k \in 0..n : g[k] # f[k]}
<1>1. SUFFICES ASSUME T # {} PROVE FALSE
  OBVIOUS
<1>2. PICK k \in T : \A j \in T : k <= j
  <2>1. T \subseteq Nat
    OBVIOUS
  <2> HIDE DEF T
  <2> QED BY <1>1, <2>1, LeastOf
<1>3. f[0] = <<>> /\ g[0] = <<>>
  BY PathLawIs
<1>4. k \in 1..n /\ k \in 1..m /\ g[k] # f[k]
  BY <1>2, <1>3
<1>5. es[k].parent \in 0..(k - 1)
  BY <1>4 DEF Backward
<1>6. g[es[k].parent] = f[es[k].parent]
  <2>1. es[k].parent \in 0..n /\ ~(k <= es[k].parent)
    BY <1>4, <1>5
  <2> QED BY <1>2, <2>1
<1>7. f[k] = Append(f[es[k].parent], es[k].name) /\ g[k] = Append(g[fs[k].parent], fs[k].name)
  BY <1>4, PathLawIs
<1>8. fs[k] = es[k]
  BY <1>4
<1> QED BY <1>4, <1>6, <1>7, <1>8

LEMMA EntryPathIs ==
  ASSUME NEW es, Backward(es)
  PROVE  \E f : /\ PathLaw(es, f, Len(es))
                /\ \A i : EntryPath(es, i) = f[i]
<1> DEFINE f == CHOOSE g : PathLaw(es, g, Len(es))
<1>1. PathLaw(es, f, Len(es))
  <2>1. Len(es) \in 0..Len(es)
    BY DEF Backward
  <2>2. \E g : PathLaw(es, g, Len(es))
    BY <2>1, PathsExist
  <2> QED BY <2>2
<1>2. ASSUME NEW i PROVE EntryPath(es, i) = f[i]
  BY DEF EntryPath, PathLaw
<1> HIDE DEF f
<1> QED BY <1>1, <1>2

(* Where an entry that is appended is found, and that the others stay.     *)
LEMMA EntryPathGrows ==
  ASSUME NEW es, Backward(es), NEW x \in EntryRec, x.parent \in 0..Len(es)
  PROVE  /\ Backward(Append(es, x)) /\ Len(Append(es, x)) = Len(es) + 1
         /\ \A k \in 1..Len(es) : Append(es, x)[k] = es[k]
         /\ Append(es, x)[Len(es) + 1] = x
         /\ \A i \in 0..Len(es) : EntryPath(Append(es, x), i) = EntryPath(es, i)
         /\ EntryPath(Append(es, x), Len(es) + 1) = Append(EntryPath(es, x.parent), x.name)
         /\ EntryPath(es, 0) = <<>>
<1> DEFINE fs == Append(es, x)  n == Len(es)
<1>1. /\ es \in Seq(EntryRec) /\ n \in Nat /\ fs \in Seq(EntryRec) /\ Len(fs) = n + 1
      /\ (\A k \in 1..n : fs[k] = es[k]) /\ fs[n + 1] = x
  BY AppendIs DEF Backward
<1> HIDE DEF fs
<1>2. Backward(fs)
  <2>1. ASSUME NEW k \in 1..(n + 1) PROVE fs[k].parent \in 0..(k - 1)
    <3>1. CASE k = n + 1
      BY <1>1, <3>1
    <3>2. CASE k # n + 1
      <4>1. k \in 1..n
        BY <1>1, <3>2
      <4> QED BY <1>1, <4>1 DEF Backward
    <3> QED BY <3>1, <3>2
  <2> QED BY <1>1, <2>1 DEF Backward
<1>3. PICK f : PathLaw(es, f, n) /\ \A i : EntryPath(es, i) = f[i]
  BY EntryPathIs
<1>4. PICK g : PathLaw(fs, g, n + 1) /\ \A i : EntryPath(fs, i) = g[i]
  BY <1>1, <1>2, EntryPathIs
<1>5. \A i \in 0..n : g[i] = f[i]
  <2>1. n + 1 \in Nat /\ n <= n + 1
    BY <1>1
  <2> QED BY <1>1, <1>3, <1>4, <2>1, PathsAgree
<1>6. g[n + 1] = Append(g[x.parent], x.name) /\ f[0] = <<>>
  <2>1. n + 1 \in 1..(n + 1) /\ n + 1 \in Nat
    BY <1>1
  <2>2. g[n + 1] = Append(g[fs[n + 1].parent], fs[n + 1].name)
    BY <1>4, <2>1, PathLawIs
  <2>3. f[0] = <<>>
    BY <1>1, <1>3, PathLawIs
  <2> QED BY <1>1, <2>2, <2>3
<1>7. EntryPath(fs, n + 1) = Append(EntryPath(es, x.parent), x.name)
  <2>1. x.parent \in 0..n
    OBVIOUS
  <2> QED BY <1>3, <1>4, <1>5, <1>6, <2>1
<1> QED BY <1>1, <1>2, <1>3, <1>4, <1>5, <1>6, <1>7 DEF fs

-----------------------------------------------------------------------------
(* The paths the reports go by are the names along the way.                *)

LEMMA NamesAlongIs ==
  ASSUME NEW r \in Seq(StepRec)
  PROVE  /\ NamesAlong(r) \in Seq(Name) /\ Len(NamesAlong(r)) = Len(r)
         /\ \A i \in 1..Len(r) : NamesAlong(r)[i] = r[i].e.name
<1> DEFINE n == Len(r)  q == NamesAlong(r)
<1>1. n \in Nat /\ DOMAIN r = 1..n /\ \A i \in 1..n : r[i].e.name \in Name
  <2>1. n \in Nat /\ DOMAIN r = 1..n /\ \A i \in 1..n : r[i] \in StepRec
    OBVIOUS
  <2> HIDE DEF n
  <2> QED BY <2>1 DEF StepRec, DirEntry
<1>2. q = [i \in 1..n |-> r[i].e.name]
  BY <1>1 DEF NamesAlong
<1>3. q \in [1..n -> Name]
  BY <1>1, <1>2
<1> HIDE DEF n
<1>4. q \in Seq(Name) /\ Len(q) = n
  <2> HIDE DEF q
  <2>1. q \in Seq(Name)
    BY <1>1, <1>3, SeqDef
  <2> QED BY <1>1, <1>3, <2>1, LenProperties
<1> QED BY <1>2, <1>4 DEF n

Crumbs(v, st) ==
  \A k \in 1..Len(st) :
    Len(st[k].path) = k - 1 /\ \A i \in 1..(k - 1) : st[k].path[i] = Taken(v, st[i]).e.name

LEMMA NextLast ==
  ASSUME NEW v, Volume(v), NEW st, Nested(v, st), st # <<>>, st[Len(st)].rest # <<>>
  PROVE  /\ Last(NextRoute(v, st)).e = Head(st[Len(st)].rest)
         /\ \E i \in DOMAIN v.list[st[Len(st)].dir] : v.list[st[Len(st)].dir][i] = Head(st[Len(st)].rest)
<1> DEFINE n == Len(st)  r == NextRoute(v, st)
<1>1. n \in Nat \ {0} /\ n <= n
  BY DEF Nested
<1>2. /\ r \in RouteSet(v, n) /\ Len(r) = n /\ r[n] = Ahead(v, st)
      /\ At(v, st[n]) + 1 \in DOMAIN v.list[st[n].dir]
      /\ Head(st[n].rest) = v.list[st[n].dir][At(v, st[n]) + 1]
  BY <1>1, AheadIs
<1>3. r \in Seq(StepRec) /\ r # <<>> /\ r[n].e = Head(st[n].rest)
  BY <1>2 DEF RouteSet, Ahead
<1> HIDE DEF n, r
<1>4. Last(r) = r[n]
  BY <1>2, <1>3, FrontIs
<1> QED BY <1>2, <1>3, <1>4 DEF n, r

LEMMA NextNames ==
  ASSUME NEW v, Volume(v), NEW st, Nested(v, st), st # <<>>, st[Len(st)].rest # <<>>, Crumbs(v, st)
  PROVE  /\ NamesAlong(NextRoute(v, st)) = Append(st[Len(st)].path, Head(st[Len(st)].rest).name)
         /\ Last(NextRoute(v, st)).e = Head(st[Len(st)].rest)
<1> DEFINE n == Len(st)  r == NextRoute(v, st)  x == Head(st[n].rest).name  p == st[n].path
<1>1. n \in Nat \ {0} /\ n \in 1..n /\ n <= n
  BY DEF Nested
<1>2. /\ Head(st[n].rest) \in DirEntry /\ r \in RouteSet(v, n) /\ Len(r) = n /\ r[n] = Ahead(v, st)
      /\ \A k \in 1..(n - 1) : r[k] = Taken(v, st[k])
  BY <1>1, AheadIs
<1>3. r \in Seq(StepRec) /\ r # <<>>
  BY <1>2 DEF RouteSet
<1>4. p \in Seq(Name) /\ x \in Name
  BY <1>1, <1>2, FrameIs DEF FrameRec, DirEntry
<1>5. r[n].e = Head(st[n].rest)
  BY <1>2 DEF Ahead
<1> HIDE DEF n, r, x, p
<1>6. /\ NamesAlong(r) \in Seq(Name) /\ Len(NamesAlong(r)) = n
      /\ \A i \in 1..n : NamesAlong(r)[i] = r[i].e.name
  BY <1>2, <1>3, NamesAlongIs
<1>7. Len(p) = n - 1 /\ \A i \in 1..(n - 1) : p[i] = Taken(v, st[i]).e.name
  BY <1>1 DEF Crumbs, n, p
<1>8. /\ Append(p, x) \in Seq(Name) /\ Len(Append(p, x)) = n
      /\ (\A i \in 1..(n - 1) : Append(p, x)[i] = p[i]) /\ Append(p, x)[n] = x
  <2>1. Len(p) + 1 = n
    BY <1>1, <1>7
  <2> QED BY <1>4, <1>7, <2>1, AppendIs
<1>9. ASSUME NEW i \in 1..n PROVE NamesAlong(r)[i] = Append(p, x)[i]
  <2>1. CASE i = n
    BY <1>5, <1>6, <1>8, <2>1 DEF x
  <2>2. CASE i # n
    <3>1. i \in 1..(n - 1)
      BY <1>1, <2>2
    <3> QED BY <1>2, <1>6, <1>7, <1>8, <3>1
  <2> QED BY <2>1, <2>2
<1>10. NamesAlong(r) = Append(p, x)
  BY <1>6, <1>8, <1>9, SameSeq
<1>11. Last(r) = r[n]
  BY <1>2, <1>3, FrontIs
<1> QED BY <1>5, <1>10, <1>11 DEF n, r, x, p

LEMMA CrumbsForth ==
  ASSUME NEW v, Volume(v), NEW st, Nested(v, st), st # <<>>, st[Len(st)].rest # <<>>, Crumbs(v, st),
         NEW p \in Seq(Name)
  PROVE  Crumbs(v, Forth(st, p))
<1> DEFINE n == Len(st)  t == Forth(st, p)
<1>1. n \in Nat
  BY DEF Nested
<1>2. /\ Len(t) = n /\ (\A k \in 1..(n - 1) : t[k] = st[k])
      /\ \A k \in 1..n : t[k].path = st[k].path
  BY ForthIs
<1> HIDE DEF t
<1>3. ASSUME NEW k \in 1..n, NEW i \in 1..(k - 1) PROVE i \in 1..(n - 1)
  BY <1>1
<1> QED BY <1>2, <1>3 DEF Crumbs, t

LEMMA CrumbsDown ==
  ASSUME NEW v, Volume(v), NEW st, Nested(v, st), st # <<>>, st[Len(st)].rest # <<>>, Crumbs(v, st),
         NEW p \in Seq(Name), NEW g \in FrameRec,
         g.path = Append(st[Len(st)].path, Head(st[Len(st)].rest).name)
  PROVE  Crumbs(v, Append(Forth(st, p), g))
<1> DEFINE n == Len(st)  f == Forth(st, p)  t == Append(f, g)
           x == Head(st[n].rest).name  q == st[n].path
<1>1. n \in Nat \ {0} /\ n \in 1..n /\ n <= n
  BY DEF Nested
<1>2. /\ Len(f) = n /\ f \in Seq(FrameRec) /\ Taken(v, f[n]) = Ahead(v, st)
      /\ (\A k \in 1..(n - 1) : f[k] = st[k]) /\ f[n].path = st[n].path
  BY <1>1, ForthIs
<1>3. Crumbs(v, f)
  BY CrumbsForth
<1>4. q \in Seq(Name) /\ x \in Name
  <2>1. Head(st[n].rest) \in DirEntry
    BY <1>1, AheadIs
  <2> QED BY <1>1, <2>1, FrameIs DEF FrameRec, DirEntry
<1>5. Taken(v, f[n]).e.name = x
  BY <1>2 DEF Ahead
<1>6. q = f[n].path /\ g.path = Append(q, x)
  BY <1>2
<1> HIDE DEF n, f, t, x, q
<1>7. Len(t) = n + 1 /\ (\A k \in 1..n : t[k] = f[k]) /\ t[n + 1] = g
  BY <1>2, AppendIs DEF t
<1>8. Len(q) = n - 1 /\ \A i \in 1..(n - 1) : q[i] = Taken(v, f[i]).e.name
  BY <1>1, <1>2, <1>3, <1>6 DEF Crumbs
<1>9. /\ Len(Append(q, x)) = n /\ (\A i \in 1..(n - 1) : Append(q, x)[i] = q[i])
      /\ Append(q, x)[n] = x
  <2>1. Len(q) + 1 = n
    BY <1>1, <1>8
  <2> QED BY <1>4, <1>8, <2>1, AppendIs
<1>10. ASSUME NEW i \in 1..n PROVE g.path[i] = Taken(v, t[i]).e.name
  <2>1. CASE i = n
    BY <1>5, <1>6, <1>7, <1>9, <2>1
  <2>2. CASE i # n
    <3>1. i \in 1..(n - 1)
      BY <1>1, <2>2
    <3> QED BY <1>6, <1>7, <1>8, <1>9, <3>1
  <2> QED BY <2>1, <2>2
<1>11. ASSUME NEW k \in 1..(n + 1)
       PROVE  Len(t[k].path) = k - 1 /\ \A i \in 1..(k - 1) : t[k].path[i] = Taken(v, t[i]).e.name
  <2>1. CASE k = n + 1
    <3>1. k - 1 = n /\ t[k] = g
      BY <1>1, <1>7, <2>1
    <3>2. Len(g.path) = n
      BY <1>6, <1>9
    <3> QED BY <1>10, <3>1, <3>2
  <2>2. CASE k # n + 1
    <3>1. k \in 1..n /\ \A i \in 1..(k - 1) : i \in 1..n
      BY <1>1, <2>2
    <3>2. Len(f[k].path) = k - 1 /\ \A i \in 1..(k - 1) : f[k].path[i] = Taken(v, f[i]).e.name
      BY <1>2, <1>3, <3>1 DEF Crumbs
    <3>3. t[k] = f[k] /\ \A i \in 1..(k - 1) : t[i] = f[i]
      BY <1>7, <3>1
    <3> QED BY <3>2, <3>3
  <2> QED BY <2>1, <2>2
<1> QED BY <1>7, <1>11 DEF Crumbs, t, f

LEMMA CrumbsUp ==
  ASSUME NEW v, NEW st \in Seq(FrameRec), st # <<>>, Crumbs(v, st)
  PROVE  Crumbs(v, Front(st))
<1> DEFINE n == Len(st)  t == Front(st)
<1>1. n \in Nat \ {0} /\ Len(t) = n - 1 /\ \A k \in 1..(n - 1) : t[k] = st[k]
  BY FrontIs
<1>2. \A k \in 1..(n - 1) : k \in 1..n /\ \A i \in 1..(k - 1) : i \in 1..(n - 1)
  BY <1>1
<1> HIDE DEF t
<1> QED BY <1>1, <1>2 DEF Crumbs, t

(* The routes of the report, and those `find` prints.                      *)
Shown(v, st, limit) == {r \in Seen(v, st, limit) : s.files \/ Last(r).e.node \in Dirs}
Found(v, st, limit) == {r \in Shown(v, st, limit) : Last(r).e.name \in Needles}

LEMMA SeenFinite ==
  ASSUME Volume(s.vol), NEW st, NEW limit \in Nat
  PROVE  /\ Seen(s.vol, st, limit) \subseteq RouteSet(s.vol, limit) /\ IsFiniteSet(Seen(s.vol, st, limit))
         /\ IsFiniteSet(Shown(s.vol, st, limit)) /\ IsFiniteSet(Found(s.vol, st, limit))
<1>1. IsFiniteSet(RouteSet(s.vol, limit))
  BY RoutesAre
<1>2. Seen(s.vol, st, limit) \in SUBSET RouteSet(s.vol, limit)
  BY DEF Seen
<1>3. Shown(s.vol, st, limit) \in SUBSET RouteSet(s.vol, limit)
  BY <1>2 DEF Shown
<1>4. Found(s.vol, st, limit) \in SUBSET RouteSet(s.vol, limit)
  BY <1>3 DEF Found
<1> QED BY <1>1, <1>2, <1>3, <1>4, FS_Subset

-----------------------------------------------------------------------------
(* What a step adds to the routes the walk is done with.                   *)
Limit == Deepest(s.cmd)

LEMMA SeenPrime ==
  ASSUME s' = s
  PROVE  Limit' = Limit /\ Seen(s.vol, stack, Limit)' = Seen(s.vol, stack', Limit)
<1>1. Limit' = Limit
  BY DEF Limit, Deepest, Least
<1>2. RouteSet(s.vol, Limit)' = RouteSet(s.vol, Limit)
  <2>1. ASSUME NEW r PROVE IsRoute(s.vol, r, Limit)' <=> IsRoute(s.vol, r, Limit)
    BY <1>1 DEF IsRoute, Fresh, Picks, Node, StepRec, DirEntry, Name
  <2> QED BY <2>1 DEF RouteSet, StepRec, DirEntry, Name
<1>3. \A r : \A k : PassedAt(s.vol, stack, r, k)' <=> PassedAt(s.vol, stack', r, k)
  BY DEF PassedAt, Agrees, Taken, At
<1> QED BY <1>1, <1>2, <1>3 DEF Seen

LEMMA SeenMoves ==
  ASSUME WalkInv, s.cmd # "list", s' = s
  PROVE  /\ \A p : Past(p) => Seen(s.vol, stack', Limit) = Seen(s.vol, stack, Limit) \cup {NextRoute(s.vol, stack)}
         /\ \A d, p : Into(d, p) => Seen(s.vol, stack', Limit) = Seen(s.vol, stack, Limit) \cup {NextRoute(s.vol, stack)}
         /\ Out \/ Still => Seen(s.vol, stack', Limit) = Seen(s.vol, stack, Limit)
<1> DEFINE v == s.vol  n == Len(stack)
<1>1. Volume(v) /\ Nested(v, stack) /\ n <= Limit /\ Limit \in Nat /\ n \in Nat
  BY ScenarioIs, DeepestIs DEF WalkInv, Limit, Nested
<1>2. ASSUME NEW p, Past(p) PROVE Seen(v, stack', Limit) = Seen(v, stack, Limit) \cup {NextRoute(v, stack)}
  <2>1. stack # <<>> /\ stack[n].rest # <<>> /\ p \in Seq(Name) /\ stack' = Forth(stack, p)
        /\ ~Enters(v, stack, Head(stack[n].rest).node, Limit)
    BY <1>2 DEF Past, Top, Entry, Limit
  <2> QED BY <1>1, <2>1, SeenForth
<1>3. ASSUME NEW d, NEW p, Into(d, p)
      PROVE  Seen(v, stack', Limit) = Seen(v, stack, Limit) \cup {NextRoute(v, stack)}
  <2> DEFINE g == Frame(d, p)
  <2>1. stack # <<>> /\ stack[n].rest # <<>> /\ p \in Seq(Name) /\ stack' = Append(Forth(stack, p), g)
        /\ d = Head(stack[n].rest).node /\ Enters(v, stack, d, Limit)
    BY <1>3 DEF Into, Top, Entry, Limit
  <2>2. d \in Dirs
    BY <2>1 DEF Enters
  <2>3. g \in FrameRec /\ g.dir = d /\ g.rest = v.list[d]
    BY <1>1, <2>1, <2>2, FrameOf
  <2> HIDE DEF g
  <2>4. /\ g.dir = Head(stack[n].rest).node /\ g.rest = v.list[g.dir]
        /\ Enters(v, stack, g.dir, Limit)
    BY <2>1, <2>3
  <2>5. stack # <<>> /\ stack[n].rest # <<>> /\ p \in Seq(Name) /\ stack' = Append(Forth(stack, p), g)
    BY <2>1
  <2> HIDE DEF v
  <2>6. Seen(v, Append(Forth(stack, p), g), Limit) = Seen(v, stack, Limit) \cup {NextRoute(v, stack)}
    BY <1>1, <2>3, <2>4, <2>5, SeenDown
  <2> QED BY <2>5, <2>6
<1>4. ASSUME Out PROVE Seen(v, stack', Limit) = Seen(v, stack, Limit)
  <2>1. stack # <<>> /\ stack[n].rest = <<>> /\ stack' = Front(stack)
    BY <1>4 DEF Out, Top
  <2> QED BY <1>1, <2>1, SeenUp
<1>5. Still => stack' = stack
  BY DEF Still
<1> QED BY <1>2, <1>3, <1>4, <1>5

(* The step of a report.                                                   *)
Path == Append(Top.path, Entry.name)
LEMMA ReportMoves ==
  ASSUME WalkInv, [Next]_vars, s.cmd \in {"tree", "find"}
  PROVE  /\ s' = s
         /\ \/ /\ Past(Path) \/ Into(Entry.node, Path)
               /\ \/ (s.files \/ IsFolder(Entry)) /\ Visit(Entry, Path)
                  \/ ~s.files /\ ~IsFolder(Entry) /\ UNCHANGED report
               /\ Into(Entry.node, Path) => IsFolder(Entry)
            \/ (Out \/ Still) /\ UNCHANGED report
<1>1. CASE ReportFolder
  <2>1. /\ pc = "run" /\ stack # <<>> /\ Top.rest # <<>> /\ Entry.node \in Dirs /\ IsFolder(Entry)
        /\ s' = s /\ pc' = pc /\ Visit(Entry, Path)
    BY <1>1 DEF ReportFolder, AtEntry, Walking, IsFolder, Path
  <2> DEFINE d == Entry.node
             tooDeep == Len(stack) > ReportDepth \/ Len(stack) >= MaxDepth
  <2>2. Path \in Seq(Name) /\ Len(stack) \in Nat
    BY <2>1, EntryIs DEF Path
  <2>3. tooDeep <=> ~(Len(stack) < Deepest(s.cmd))
    <3>1. Len(stack) < Deepest(s.cmd) <=> (Len(stack) < MaxDepth /\ Len(stack) <= ReportDepth)
      BY <2>1, <2>2, DeepestIs
    <3> QED BY <2>2, <3>1, DepthAssumption
  <2>4. CASE tooDeep \/ Loops(d)
    <3>1. stack' = Forth(stack, Path) /\ ancestors' = ancestors
      BY <1>1, <2>4, OnwardIs DEF ReportFolder, Path
    <3>2. ~Enters(s.vol, stack, d, Deepest(s.cmd))
      BY <2>1, <2>3, <2>4, EntersIs
    <3>3. Past(Path)
      BY <2>1, <2>2, <3>1, <3>2 DEF Past
    <3> QED BY <2>1, <3>3
  <2>5. CASE ~(tooDeep \/ Loops(d))
    <3>1. stack' = Append(Forth(stack, Path), Frame(d, Path)) /\ ancestors' = ancestors \o Known(d)
      BY <1>1, <2>5, OnwardIs DEF ReportFolder, Path
    <3>3. Enters(s.vol, stack, d, Deepest(s.cmd))
      BY <2>1, <2>3, <2>5, EntersIs
    <3>4. Into(d, Path)
      BY <2>1, <2>2, <3>1, <3>3 DEF Into
    <3> QED BY <2>1, <3>4
  <2> QED BY <2>4, <2>5
<1>2. CASE ReportFile
  <2>1. /\ pc = "run" /\ stack # <<>> /\ Top.rest # <<>> /\ ~IsFolder(Entry)
        /\ s' = s /\ pc' = pc /\ ancestors' = ancestors /\ stack' = Onward(Path)
        /\ ~Enters(s.vol, stack, Entry.node, Deepest(s.cmd)) /\ Entry.node \notin Dirs
    BY <1>2 DEF ReportFile, AtEntry, Walking, IsFolder, Enters, Path
  <2>2. IF s.files THEN Visit(Entry, Path) ELSE UNCHANGED report
    BY <1>2 DEF ReportFile, Path
  <2>3. Path \in Seq(Name)
    BY <2>1, EntryIs DEF Path
  <2>4. Past(Path)
    BY <2>1, <2>3, OnwardIs DEF Past
  <2>5. ~Into(Entry.node, Path)
    BY <2>1 DEF Into
  <2> QED BY <2>1, <2>2, <2>4, <2>5
<1>3. CASE LeaveDir
  <2>1. s' = s /\ Out /\ UNCHANGED report
    BY <1>3 DEF LeaveDir, Walking, Out
  <2> QED BY <2>1
<1>4. CASE ExportFolder \/ ExportFile \/ ListLine \/ ListEnds
  BY <1>4 DEF ListLine, ListEnds, ExportFolder, ExportFile, AtEntry, Walking
<1>5. CASE Throw \/ Ended \/ UNCHANGED vars
  <2>1. s' = s /\ Still /\ UNCHANGED report
    BY <1>5 DEF Throw, Ended, Still, vars, report
  <2> QED BY <2>1
<1> QED BY <1>1, <1>2, <1>3, <1>4, <1>5 DEF Next

Reports == {"tree", "find"}
CrumbsInv == s.cmd \in Reports => Crumbs(s.vol, stack)

LEMMA CrumbsInit == Init => CrumbsInv
<1> SUFFICES ASSUME Init, s.cmd \in Reports PROVE Crumbs(s.vol, stack)
  BY DEF CrumbsInv
<1>1. Len(stack) = 1 /\ stack[1].path = <<>>
  BY DEF Init, Start, Reports
<1>2. \A k \in 1..1 : k = 1 /\ \A i \in 1..(k - 1) : FALSE
  OBVIOUS
<1>3. Len(<<>>) = 1 - 1
  OBVIOUS
<1> QED BY <1>1, <1>2, <1>3 DEF Crumbs

LEMMA CrumbsStep == WalkInv /\ CrumbsInv /\ [Next]_vars => CrumbsInv'
<1> SUFFICES ASSUME WalkInv, CrumbsInv, [Next]_vars, s'.cmd \in Reports PROVE Crumbs(s.vol, stack)'
  BY DEF CrumbsInv
<1> DEFINE v == s.vol  n == Len(stack)
<1>1. s' = s /\ s.cmd \in Reports
  BY DEF Next, ExportFolder, ExportFile, ReportFolder, ReportFile, LeaveDir, ListLine, ListEnds, Throw,
         Ended, vars
<1>2. Volume(v) /\ Nested(v, stack) /\ Crumbs(v, stack) /\ stack \in Seq(FrameRec)
  BY <1>1, ScenarioIs DEF WalkInv, Nested, CrumbsInv, Reports
<1>3. SUFFICES Crumbs(v, stack')
  BY <1>1 DEF Crumbs, Taken, At
<1>4. (Past(Path) \/ Into(Entry.node, Path)) \/ Out \/ Still
  BY <1>1, ReportMoves DEF Reports
<1>5. CASE Past(Path)
  <2>1. stack # <<>> /\ stack[n].rest # <<>> /\ Path \in Seq(Name) /\ stack' = Forth(stack, Path)
    BY <1>5 DEF Past, Top
  <2> QED BY <1>2, <2>1, CrumbsForth
<1>6. CASE Into(Entry.node, Path)
  <2> DEFINE g == Frame(Entry.node, Path)
  <2>1. stack # <<>> /\ stack[n].rest # <<>> /\ Path \in Seq(Name)
        /\ stack' = Append(Forth(stack, Path), g) /\ Entry.node \in Dirs
    BY <1>6 DEF Into, Top, Enters
  <2>2. g \in FrameRec /\ g.path = Path
    BY <1>2, <2>1, FrameOf
  <2>3. g.path = Append(stack[n].path, Head(stack[n].rest).name)
    BY <2>2 DEF Path, Top, Entry
  <2> HIDE DEF g, v
  <2>4. Crumbs(v, Append(Forth(stack, Path), g))
    BY <1>2, <2>1, <2>2, <2>3, CrumbsDown
  <2> QED BY <2>1, <2>4
<1>7. CASE Out
  <2>1. stack # <<>> /\ stack' = Front(stack)
    BY <1>7 DEF Out
  <2> QED BY <1>2, <2>1, CrumbsUp
<1>8. CASE Still
  BY <1>2, <1>8 DEF Still
<1> QED BY <1>4, <1>5, <1>6, <1>7, <1>8

(* What an entry adds to the report.                                       *)
Listing == s.files \/ IsFolder(Entry)
LEMMA ReportGrows ==
  ASSUME WalkInv, CrumbsInv, s.cmd \in Reports, s' = s,
         Past(Path) \/ Into(Entry.node, Path), NEW r, r = NextRoute(s.vol, stack)
  PROVE  /\ NamesAlong(r) = Path /\ Last(r).e = Entry /\ Entry \in DirEntry
         /\ r \notin Shown(s.vol, stack, Limit) /\ r \notin Found(s.vol, stack, Limit)
         /\ Listing => Shown(s.vol, stack', Limit) = Shown(s.vol, stack, Limit) \cup {r}
         /\ ~Listing => Shown(s.vol, stack', Limit) = Shown(s.vol, stack, Limit)
         /\ Listing /\ Matches(Entry) => Found(s.vol, stack', Limit) = Found(s.vol, stack, Limit) \cup {r}
         /\ ~(Listing /\ Matches(Entry)) => Found(s.vol, stack', Limit) = Found(s.vol, stack, Limit)
<1> DEFINE v == s.vol  n == Len(stack)
<1>1. Volume(v) /\ Nested(v, stack) /\ n <= Limit /\ Limit \in Nat /\ Crumbs(v, stack)
  BY ScenarioIs, DeepestIs DEF WalkInv, Limit, CrumbsInv, Reports
<1>2. stack # <<>> /\ stack[n].rest # <<>>
  BY DEF Past, Into, Top
<1>3. Entry \in DirEntry
  BY <1>2, EntryIs DEF Reports, Top
<1>4. NamesAlong(r) = Path /\ Last(r).e = Entry
  <2>1. /\ NamesAlong(NextRoute(v, stack)) = Append(stack[n].path, Head(stack[n].rest).name)
        /\ Last(NextRoute(v, stack)).e = Head(stack[n].rest)
    BY <1>1, <1>2, NextNames
  <2> QED BY <2>1 DEF Path, Top, Entry
<1>5. r \notin Seen(v, stack, Limit)
  BY <1>1, <1>2, NextIsNew
<1>6. Seen(v, stack', Limit) = Seen(v, stack, Limit) \cup {r}
  BY SeenMoves DEF Reports
<1>7. Listing <=> (s.files \/ Last(r).e.node \in Dirs)
  BY <1>4 DEF Listing, IsFolder
<1>8. Matches(Entry) <=> Last(r).e.name \in Needles
  BY <1>4 DEF Matches
<1> HIDE DEF v
<1>9. r \notin Shown(v, stack, Limit) /\ r \notin Found(v, stack, Limit)
  BY <1>5 DEF Shown, Found
<1>10. Listing => Shown(v, stack', Limit) = Shown(v, stack, Limit) \cup {r}
  BY <1>6, <1>7 DEF Shown
<1>11. ~Listing => Shown(v, stack', Limit) = Shown(v, stack, Limit)
  BY <1>6, <1>7 DEF Shown
<1>12. Listing /\ Matches(Entry) => Found(v, stack', Limit) = Found(v, stack, Limit) \cup {r}
  BY <1>8, <1>10 DEF Found
<1>13. ~(Listing /\ Matches(Entry)) => Found(v, stack', Limit) = Found(v, stack, Limit)
  BY <1>8, <1>10, <1>11 DEF Found
<1> QED BY <1>3, <1>4, <1>9, <1>10, <1>11, <1>12, <1>13 DEF v

LEMMA ReportRests ==
  ASSUME WalkInv, s.cmd \in Reports, s' = s, Out \/ Still
  PROVE  /\ Shown(s.vol, stack', Limit) = Shown(s.vol, stack, Limit)
         /\ Found(s.vol, stack', Limit) = Found(s.vol, stack, Limit)
<1>1. Seen(s.vol, stack', Limit) = Seen(s.vol, stack, Limit)
  BY SeenMoves DEF Reports
<1> QED BY <1>1 DEF Shown, Found

(* `find`.                                                                 *)
FindInv ==
  s.cmd = "find" =>
    /\ hits \in Seq(Seq(Name)) /\ Len(hits) = Cardinality(Found(s.vol, stack, Limit))
    /\ ToSet(hits) = {NamesAlong(r) : r \in Found(s.vol, stack, Limit)}

LEMMA ToSetIs ==
  ASSUME NEW S, NEW q \in Seq(S)
  PROVE  ToSet(q) = {q[i] : i \in 1..Len(q)}
BY DEF ToSet

LEMMA ToSetGrows ==
  ASSUME NEW S, NEW q \in Seq(S), NEW x \in S
  PROVE  ToSet(Append(q, x)) = ToSet(q) \cup {x}
<1> DEFINE t == Append(q, x)
<1>1. /\ t \in Seq(S) /\ Len(t) = Len(q) + 1 /\ (\A i \in 1..Len(q) : t[i] = q[i]) /\ t[Len(q) + 1] = x
      /\ Len(q) \in Nat
  BY AppendIs
<1> HIDE DEF t
<1>2. ToSet(t) = {t[i] : i \in 1..(Len(q) + 1)} /\ ToSet(q) = {q[i] : i \in 1..Len(q)}
  BY <1>1, ToSetIs
<1>3. \A i \in 1..(Len(q) + 1) : i \in 1..Len(q) \/ i = Len(q) + 1
  BY <1>1
<1>4. Len(q) + 1 \in 1..(Len(q) + 1) /\ \A i \in 1..Len(q) : i \in 1..(Len(q) + 1)
  BY <1>1
<1>5. ASSUME NEW y \in ToSet(t) PROVE y \in ToSet(q) \cup {x}
  BY <1>1, <1>2, <1>3
<1>6. ASSUME NEW y \in ToSet(q) \cup {x} PROVE y \in ToSet(t)
  BY <1>1, <1>2, <1>4
<1> QED BY <1>5, <1>6 DEF t

(* Before the first entry nothing is listed.                               *)
LEMMA NothingYet ==
  ASSUME Init, s.cmd # "list"
  PROVE  Seen(s.vol, stack, Limit) = {} /\ Len(stack) = 1
<1> DEFINE g == [dir |-> s.vol.root, path |-> <<>>, rest |-> s.vol.list[s.vol.root], used |-> {}]
<1>1. Volume(s.vol) /\ Limit \in Nat /\ s.vol.root \in Dirs
  BY ScenarioIs, DeepestIs, VolumeIs DEF Init, Limit
<1>2. stack = <<g>>
  BY DEF Init, Start
<1>3. g \in FrameRec /\ g.dir = s.vol.root /\ g.rest = s.vol.list[s.vol.root]
  <2> DEFINE z == <<>>  d == s.vol.root
  <2>1. d \in Dirs /\ z \in Seq(Name) /\ g = Frame(d, z)
    BY <1>1 DEF Frame
  <2> HIDE DEF g, z, d
  <2>2. Frame(d, z) \in FrameRec /\ Frame(d, z).dir = d /\ Frame(d, z).rest = s.vol.list[d]
    BY <1>1, <2>1, FrameOf
  <2> QED BY <2>1, <2>2 DEF d
<1> HIDE DEF g
<1> QED BY <1>1, <1>2, <1>3, SeenStart

LEMMA FindInit == Init => FindInv
<1> SUFFICES ASSUME Init, s.cmd = "find" PROVE FindInv
  BY DEF FindInv
<1>1. Found(s.vol, stack, Limit) = {}
  BY NothingYet DEF Found, Shown
<1>2. hits = <<>>
  BY DEF Init
<1>3. Len(hits) = 0 /\ hits \in Seq(Seq(Name)) /\ ToSet(hits) = {}
  BY <1>2 DEF ToSet
<1> QED BY <1>1, <1>3, FS_EmptySet DEF FindInv

LEMMA FindStep == WalkInv /\ CrumbsInv /\ FindInv /\ [Next]_vars => FindInv'
<1> SUFFICES ASSUME WalkInv, CrumbsInv, FindInv, [Next]_vars, s'.cmd = "find" PROVE FindInv'
  BY DEF FindInv
<1> DEFINE F == Found(s.vol, stack, Limit)
           G == Found(s.vol, stack', Limit)
<1>1. s' = s /\ s.cmd = "find" /\ s.cmd \in Reports
  BY DEF Next, ExportFolder, ExportFile, ReportFolder, ReportFile, LeaveDir, ListLine, ListEnds, Throw,
         Ended, vars, Reports
<1>2. hits \in Seq(Seq(Name)) /\ Len(hits) = Cardinality(F) /\ ToSet(hits) = {NamesAlong(r) : r \in F}
  BY <1>1 DEF FindInv
<1>3. IsFiniteSet(F)
  <2>1. Volume(s.vol) /\ Limit \in Nat
    BY ScenarioIs, DeepestIs DEF WalkInv, Limit
  <2> QED BY <2>1, SeenFinite
<1>4. SUFFICES hits' \in Seq(Seq(Name)) /\ Len(hits') = Cardinality(G) /\ ToSet(hits') = {NamesAlong(r) : r \in G}
  <2>1. Found(s.vol, stack, Limit)' = G
    BY <1>1, SeenPrime DEF Found, Shown
  <2>2. {NamesAlong(r) : r \in Found(s.vol, stack, Limit)}' = {NamesAlong(r) : r \in G}
    BY <2>1 DEF NamesAlong
  <2>3. ToSet(hits)' = ToSet(hits')
    BY DEF ToSet
  <2> HIDE DEF G
  <2> QED BY <2>1, <2>2, <2>3 DEF FindInv
<1>5. CASE (Past(Path) \/ Into(Entry.node, Path)) /\ Listing /\ Matches(Entry) /\ hits' = Append(hits, Path)
  <2> DEFINE r == NextRoute(s.vol, stack)
  <2>1. NamesAlong(r) = Path /\ r \notin F /\ G = F \cup {r}
    BY <1>1, <1>5, ReportGrows
  <2>2. Path \in Seq(Name)
    BY <1>5 DEF Past, Into
  <2>3. Cardinality(F \cup {r}) = Cardinality(F) + 1
    <3> HIDE DEF F, r
    <3> QED BY <1>3, <2>1, FS_AddElement
  <2> HIDE DEF F, G, r
  <2>4. Append(hits, Path) \in Seq(Seq(Name)) /\ Len(Append(hits, Path)) = Len(hits) + 1
    BY <1>2, <2>2, AppendIs
  <2>5. ToSet(Append(hits, Path)) = ToSet(hits) \cup {Path}
    BY <1>2, <2>2, ToSetGrows
  <2>6. {NamesAlong(q) : q \in F \cup {r}} = {NamesAlong(q) : q \in F} \cup {NamesAlong(r)}
    OBVIOUS
  <2> QED BY <1>2, <1>5, <2>1, <2>3, <2>4, <2>5, <2>6
<1>6. CASE (Past(Path) \/ Into(Entry.node, Path)) /\ ~(Listing /\ Matches(Entry)) /\ hits' = hits
  <2>1. G = F
    BY <1>1, <1>6, ReportGrows
  <2> QED BY <1>2, <1>6, <2>1
<1>7. CASE (Out \/ Still) /\ hits' = hits
  <2>1. G = F
    BY <1>1, <1>7, ReportRests
  <2> QED BY <1>2, <1>7, <2>1
<1>8. \/ /\ Past(Path) \/ Into(Entry.node, Path)
         /\ \/ Listing /\ Visit(Entry, Path)
            \/ ~Listing /\ UNCHANGED report
      \/ (Out \/ Still) /\ UNCHANGED report
  BY <1>1, ReportMoves DEF Listing
<1>9. Visit(Entry, Path) => hits' = IF Matches(Entry) THEN Append(hits, Path) ELSE hits
  BY <1>1 DEF Visit
<1>10. UNCHANGED report => hits' = hits
  BY DEF report
<1> QED BY <1>5, <1>6, <1>7, <1>8, <1>9, <1>10

(* `tree`.                                                                 *)
Traced(v, st, es) ==
  /\ \A r \in Shown(v, st, Limit) : \E i \in 1..Len(es) : EntryPath(es, i) = NamesAlong(r)
  /\ \A i \in 1..Len(es) : \E r \in Shown(v, st, Limit) :
       EntryPath(es, i) = NamesAlong(r) /\ es[i].dir = (Last(r).e.node \in Dirs)
Held(st, es, o) ==
  \A k \in 1..(Len(st) - 1) :
    k <= Len(o) /\ o[k] \in 1..Len(es) /\ EntryPath(es, o[k]) = st[k + 1].path
TreeInv ==
  s.cmd = "tree" =>
    /\ Backward(entries) /\ Len(entries) = Cardinality(Shown(s.vol, stack, Limit))
    /\ Traced(s.vol, stack, entries)
    /\ open \in Seq(Nat) /\ Held(stack, entries, open)

LEMMA TreeInit == Init => TreeInv
<1> SUFFICES ASSUME Init, s.cmd = "tree" PROVE TreeInv
  BY DEF TreeInv
<1>1. Shown(s.vol, stack, Limit) = {} /\ Len(stack) = 1
  BY NothingYet DEF Shown
<1>2. entries = <<>> /\ open = <<>>
  BY DEF Init
<1>3. Len(entries) = 0 /\ entries \in Seq(EntryRec) /\ open \in Seq(Nat) /\ \A i \in 1..0 : FALSE
  BY <1>2
<1>4. Backward(entries)
  BY <1>3 DEF Backward
<1>5. Traced(s.vol, stack, entries)
  BY <1>1, <1>3 DEF Traced
<1>6. Held(stack, entries, open)
  <2>1. \A k \in 1..(Len(stack) - 1) : FALSE
    BY <1>1
  <2> QED BY <2>1 DEF Held
<1> QED BY <1>1, <1>3, <1>4, <1>5, <1>6, FS_EmptySet DEF TreeInv

(* The directories open after a step, and their paths.                     *)
LEMMA PathsKept ==
  ASSUME WalkInv, s.cmd # "list", s' = s
  PROVE  /\ \A p : Past(p) => Len(stack') = Len(stack) /\ \A k \in 1..Len(stack) : stack'[k].path = stack[k].path
         /\ \A d, p : Into(d, p) =>
              /\ Len(stack') = Len(stack) + 1 /\ \A k \in 1..Len(stack) : stack'[k].path = stack[k].path
              /\ stack'[Len(stack) + 1].path = p
         /\ Out => Len(stack') = Len(stack) - 1 /\ \A k \in 1..(Len(stack) - 1) : stack'[k].path = stack[k].path
<1> DEFINE v == s.vol  n == Len(stack)
<1>1. Volume(v) /\ Nested(v, stack) /\ n \in Nat /\ stack \in Seq(FrameRec)
  BY ScenarioIs DEF WalkInv, Nested
<1>2. ASSUME NEW p, Past(p)
      PROVE  Len(stack') = n /\ \A k \in 1..n : stack'[k].path = stack[k].path
  <2>1. stack # <<>> /\ stack[n].rest # <<>> /\ p \in Seq(Name) /\ stack' = Forth(stack, p)
    BY <1>2 DEF Past, Top
  <2> QED BY <1>1, <2>1, ForthIs
<1>3. ASSUME NEW d, NEW p, Into(d, p)
      PROVE  /\ Len(stack') = n + 1 /\ \A k \in 1..n : stack'[k].path = stack[k].path
             /\ stack'[n + 1].path = p
  <2> DEFINE f == Forth(stack, p)  g == Frame(d, p)
  <2>1. stack # <<>> /\ stack[n].rest # <<>> /\ p \in Seq(Name) /\ stack' = Append(f, g) /\ d \in Dirs
    BY <1>3 DEF Into, Top, Enters
  <2>2. g \in FrameRec /\ g.path = p
    BY <1>1, <2>1, FrameOf
  <2>3. f \in Seq(FrameRec) /\ Len(f) = n /\ \A k \in 1..n : f[k].path = stack[k].path
    BY <1>1, <2>1, ForthIs
  <2> HIDE DEF f, g
  <2> QED BY <2>1, <2>2, <2>3, AppendIs
<1>4. ASSUME Out
      PROVE  Len(stack') = n - 1 /\ \A k \in 1..(n - 1) : stack'[k].path = stack[k].path
  <2>1. stack # <<>> /\ stack' = Front(stack)
    BY <1>4 DEF Out
  <2> QED BY <1>1, <2>1, FrontIs
<1> QED BY <1>2, <1>3, <1>4

LEMMA OpenedIs ==
  ASSUME NEW e, open \in Seq(Nat), Len(stack) \in Nat \ {0}, Len(stack) - 1 <= Len(open), Len(entries) \in Nat
  PROVE  /\ Opened(e) \in Seq(Nat) /\ Len(stack) <= Len(Opened(e))
         /\ \A k \in 1..(Len(stack) - 1) : Opened(e)[k] = open[k]
         /\ IsFolder(e) => Opened(e)[Len(stack)] = Len(entries) + 1
<1> DEFINE n == Len(stack)  m == Len(entries) + 1
           o == IF Len(open) < n THEN Append(open, 0) ELSE open
           t == [o EXCEPT ![n] = m]
<1>1. Depth + 1 = n
  BY DEF Depth
<1>2. Opened(e) = IF IsFolder(e) THEN t ELSE o
  BY <1>1 DEF Opened
<1>3. n \in Nat \ {0} /\ n - 1 <= Len(open) /\ m \in Nat /\ Len(open) \in Nat
  OBVIOUS
<1> HIDE DEF n, m
<1>4. o \in Seq(Nat) /\ n <= Len(o) /\ \A k \in 1..(n - 1) : o[k] = open[k]
  <2>1. Append(open, 0) \in Seq(Nat) /\ Len(Append(open, 0)) = Len(open) + 1
        /\ \A k \in 1..Len(open) : Append(open, 0)[k] = open[k]
    OBVIOUS
  <2>2. \A k \in 1..(n - 1) : k \in 1..Len(open)
    BY <1>3
  <2> QED BY <1>3, <2>1, <2>2
<1> HIDE DEF o
<1>5. t \in Seq(Nat) /\ Len(t) = Len(o) /\ (\A k \in 1..(n - 1) : t[k] = o[k]) /\ t[n] = m
  <2>1. n \in 1..Len(o)
    BY <1>3, <1>4
  <2> QED BY <1>3, <1>4, <2>1
<1> HIDE DEF t
<1> QED BY <1>2, <1>4, <1>5 DEF n, m

(* The entry that is listed, and where its parent link leads.              *)
Line == [name |-> Entry.name, parent |-> Parent, dir |-> IsFolder(Entry)]
LEMMA ParentIs ==
  ASSUME WalkInv, CrumbsInv, TreeInv, s.cmd = "tree", stack # <<>>, Top.rest # <<>>
  PROVE  /\ Line \in EntryRec /\ Line.parent \in 0..Len(entries) /\ EntryPath(entries, Line.parent) = Top.path
         /\ Len(stack) - 1 <= Len(open) /\ Len(stack) \in Nat \ {0} /\ Len(open) \in Nat
<1> DEFINE n == Len(stack)
<1>1. Entry \in DirEntry /\ Top \in FrameRec /\ n \in Nat \ {0}
  BY EntryIs
<1>2. Backward(entries) /\ open \in Seq(Nat) /\ Held(stack, entries, open) /\ Crumbs(s.vol, stack)
      /\ Len(entries) \in Nat /\ Len(open) \in Nat
  BY DEF TreeInv, CrumbsInv, Reports, Backward
<1>3. Parent = IF n = 1 THEN 0 ELSE open[n - 1]
  BY <1>1 DEF Parent, Depth
<1>4. Parent \in 0..Len(entries) /\ EntryPath(entries, Parent) = Top.path /\ n - 1 <= Len(open)
  <2>1. CASE n = 1
    <3>1. Top.path = <<>>
      <4>1. Len(stack[1].path) = 1 - 1 /\ Top = stack[1]
        BY <1>1, <1>2, <2>1 DEF Crumbs, Top
      <4>2. stack[1].path \in Seq(Name)
        BY <1>1, <4>1 DEF FrameRec
      <4> QED BY <4>1, <4>2
    <3>2. EntryPath(entries, 0) = <<>>
      <4>1. PICK f : PathLaw(entries, f, Len(entries)) /\ \A i : EntryPath(entries, i) = f[i]
        BY <1>2, EntryPathIs
      <4> QED BY <1>2, <4>1, PathLawIs
    <3> QED BY <1>2, <1>3, <2>1, <3>1, <3>2
  <2>2. CASE n # 1
    <3> DEFINE k == n - 1
    <3>1. k \in 1..(n - 1) /\ k + 1 = n
      <4>1. n \in Nat \ {0} /\ n # 1
        BY <1>1, <2>2
      <4> HIDE DEF n
      <4> QED BY <4>1
    <3>2. k <= Len(open) /\ open[k] \in 1..Len(entries) /\ EntryPath(entries, open[k]) = stack[k + 1].path
      BY <1>2, <3>1 DEF Held
    <3> QED BY <1>2, <1>3, <2>2, <3>1, <3>2 DEF Top
  <2> QED BY <2>1, <2>2
<1>5. Line \in EntryRec /\ Line.parent = Parent
  <2>1. Parent \in Nat /\ IsFolder(Entry) \in BOOLEAN /\ Entry.name \in Name
    BY <1>1, <1>2, <1>4 DEF IsFolder, DirEntry
  <2> QED BY <2>1 DEF Line, EntryRec
<1> QED BY <1>1, <1>2, <1>4, <1>5

LEMMA TreeStep == WalkInv /\ CrumbsInv /\ TreeInv /\ [Next]_vars => TreeInv'
<1> SUFFICES ASSUME WalkInv, CrumbsInv, TreeInv, [Next]_vars, s'.cmd = "tree" PROVE TreeInv'
  BY DEF TreeInv
<1> DEFINE V == Shown(s.vol, stack, Limit)
           W == Shown(s.vol, stack', Limit)
           n == Len(stack)
<1>1. s' = s /\ s.cmd = "tree" /\ s.cmd \in Reports
  BY DEF Next, ExportFolder, ExportFile, ReportFolder, ReportFile, LeaveDir, ListLine, ListEnds, Throw,
         Ended, vars, Reports
<1>2. Backward(entries) /\ Len(entries) = Cardinality(V) /\ open \in Seq(Nat) /\ Held(stack, entries, open)
      /\ Traced(s.vol, stack, entries) /\ Len(entries) \in Nat
  BY <1>1 DEF TreeInv, Backward
<1>3. IsFiniteSet(V)
  <2>1. Volume(s.vol) /\ Limit \in Nat
    BY ScenarioIs, DeepestIs DEF WalkInv, Limit
  <2> QED BY <2>1, SeenFinite
<1>4. SUFFICES /\ Backward(entries') /\ Len(entries') = Cardinality(W)
               /\ Traced(s.vol, stack', entries')
               /\ open' \in Seq(Nat) /\ Held(stack', entries', open')
  <2>1. Limit' = Limit /\ Shown(s.vol, stack, Limit)' = W
    BY <1>1, SeenPrime DEF Shown
  <2>2. Traced(s.vol, stack', entries') => Traced(s.vol, stack, entries)'
    <3>1. \A i : EntryPath(entries, i)' = EntryPath(entries', i)
      BY DEF EntryPath
    <3>2. \A r : NamesAlong(r)' = NamesAlong(r)
      BY DEF NamesAlong
    <3> QED BY <2>1, <3>1, <3>2 DEF Traced
  <2>3. Held(stack', entries', open') => Held(stack, entries, open)'
    BY DEF Held, EntryPath
  <2>4. Backward(entries') => Backward(entries)'
    BY DEF Backward, EntryRec, Name
  <2> HIDE DEF W
  <2> QED BY <2>1, <2>2, <2>3, <2>4 DEF TreeInv
<1>5. CASE (Past(Path) \/ Into(Entry.node, Path)) /\ Listing /\ (Into(Entry.node, Path) => IsFolder(Entry))
           /\ entries' = Listed(Entry) /\ open' = Opened(Entry)
  <2> DEFINE r == NextRoute(s.vol, stack)  m == Len(entries)  x == Line  es == Append(entries, x)
             o == Opened(Entry)
  <2>1. NamesAlong(r) = Path /\ r \notin V /\ W = V \cup {r} /\ Last(r).e = Entry
    BY <1>1, <1>5, ReportGrows
  <2>2. stack # <<>> /\ Top.rest # <<>>
    BY <1>5 DEF Past, Into
  <2>3. /\ x \in EntryRec /\ x.parent \in 0..m /\ EntryPath(entries, x.parent) = Top.path
        /\ n - 1 <= Len(open) /\ n \in Nat \ {0} /\ x.name = Entry.name
        /\ x.dir = (Last(r).e.node \in Dirs)
    BY <1>1, <2>1, <2>2, ParentIs DEF Line, IsFolder
  <2>4. entries' = es
    BY <1>5 DEF Listed, Line
  <2> HIDE DEF x, r
  <2>5. /\ Backward(es) /\ Len(es) = m + 1 /\ (\A k \in 1..m : es[k] = entries[k]) /\ es[m + 1] = x
        /\ \A i \in 0..m : EntryPath(es, i) = EntryPath(entries, i)
        /\ EntryPath(es, m + 1) = Append(EntryPath(entries, x.parent), x.name)
    BY <1>2, <2>3, EntryPathGrows
  <2>6. EntryPath(es, m + 1) = Path
    BY <2>3, <2>5 DEF Path
  <2>7. /\ o \in Seq(Nat) /\ n <= Len(o) /\ (\A k \in 1..(n - 1) : o[k] = open[k])
        /\ IsFolder(Entry) => o[n] = m + 1
    BY <1>2, <2>3, OpenedIs
  <2>8. Cardinality(W) = m + 1
    <3> HIDE DEF V, W
    <3>1. Cardinality(V \cup {r}) = Cardinality(V) + 1
      BY <1>3, <2>1, FS_AddElement
    <3> QED BY <1>2, <2>1, <3>1
  <2> HIDE DEF es, o, m
  <2>9. m \in Nat /\ \A i \in 1..m : i \in 0..m /\ i \in 1..(m + 1)
    BY <1>2 DEF m
  <2>10. Traced(s.vol, stack', es)
    <3>1. ASSUME NEW q \in W PROVE \E i \in 1..Len(es) : EntryPath(es, i) = NamesAlong(q)
      <4>1. CASE q = r
        <5>1. m + 1 \in 1..Len(es)
          BY <2>5, <2>9
        <5> QED BY <2>1, <2>6, <4>1, <5>1
      <4>2. CASE q \in V
        <5>1. PICK i \in 1..m : EntryPath(entries, i) = NamesAlong(q)
          BY <1>2, <4>2 DEF Traced, m
        <5>2. i \in 1..Len(es) /\ EntryPath(es, i) = EntryPath(entries, i)
          BY <2>5, <2>9
        <5> QED BY <5>1, <5>2
      <4> HIDE DEF V, W
      <4> QED BY <2>1, <4>1, <4>2
    <3>2. ASSUME NEW i \in 1..Len(es)
          PROVE  \E q \in W : EntryPath(es, i) = NamesAlong(q) /\ es[i].dir = (Last(q).e.node \in Dirs)
      <4> HIDE DEF V, W
      <4>1. CASE i = m + 1
        <5>1. r \in W
          BY <2>1
        <5> QED BY <2>1, <2>3, <2>5, <2>6, <4>1, <5>1
      <4>2. CASE i # m + 1
        <5>1. i \in 1..m
          BY <2>5, <2>9, <4>2
        <5>2. PICK q \in V : EntryPath(entries, i) = NamesAlong(q) /\ entries[i].dir = (Last(q).e.node \in Dirs)
          BY <1>2, <5>1 DEF Traced, m, V
        <5>3. EntryPath(es, i) = EntryPath(entries, i) /\ es[i] = entries[i] /\ q \in W
          BY <2>1, <2>5, <2>9, <5>1
        <5> QED BY <5>2, <5>3
      <4> QED BY <4>1, <4>2
    <3> QED BY <3>1, <3>2 DEF Traced
  <2>11. Held(stack', es, o)
    <3>1. ASSUME NEW k \in 1..(n - 1)
          PROVE  k <= Len(o) /\ o[k] \in 1..Len(es) /\ EntryPath(es, o[k]) = stack[k + 1].path
      <4>1. k <= Len(open) /\ open[k] \in 1..m /\ EntryPath(entries, open[k]) = stack[k + 1].path
        BY <1>2 DEF Held, m
      <4>2. o[k] = open[k] /\ k <= Len(o)
        <5>1. Len(o) \in Nat
          BY <2>7
        <5> QED BY <2>3, <2>7, <5>1
      <4>3. o[k] \in 1..Len(es) /\ EntryPath(es, o[k]) = EntryPath(entries, open[k])
        BY <2>5, <2>9, <4>1, <4>2
      <4> QED BY <4>1, <4>2, <4>3
    <3>2. CASE Past(Path)
      <4>1. Len(stack') = n /\ \A k \in 1..n : stack'[k].path = stack[k].path
        BY <1>1, <3>2, PathsKept
      <4>2. \A k \in 1..(n - 1) : k + 1 \in 1..n
        BY <2>3
      <4> QED BY <3>1, <4>1, <4>2 DEF Held
    <3>3. CASE Into(Entry.node, Path)
      <4>1. /\ Len(stack') = n + 1 /\ (\A k \in 1..n : stack'[k].path = stack[k].path)
            /\ stack'[n + 1].path = Path
        BY <1>1, <3>3, PathsKept
      <4>2. o[n] = m + 1
        BY <1>5, <2>7, <3>3
      <4>3. ASSUME NEW k \in 1..(Len(stack') - 1)
            PROVE  k <= Len(o) /\ o[k] \in 1..Len(es) /\ EntryPath(es, o[k]) = stack'[k + 1].path
        <5>1. CASE k = n
          <6>1. m + 1 \in 1..Len(es)
            BY <2>5, <2>9
          <6> QED BY <2>6, <2>7, <4>1, <4>2, <5>1, <6>1
        <5>2. CASE k # n
          <6>1. k \in 1..(n - 1) /\ k + 1 \in 1..n
            BY <2>3, <4>1, <5>2
          <6> QED BY <3>1, <4>1, <6>1
        <5> QED BY <5>1, <5>2
      <4> QED BY <4>3 DEF Held
    <3> QED BY <1>5, <3>2, <3>3
  <2>12. open' = o
    BY <1>5 DEF o
  <2> QED BY <2>4, <2>5, <2>7, <2>8, <2>10, <2>11, <2>12
<1>6. ASSUME entries' = entries, open' = open, W = V,
             Len(stack') <= n, Len(stack') \in Nat, \A k \in 1..Len(stack') : stack'[k].path = stack[k].path
      PROVE  /\ Backward(entries') /\ Len(entries') = Cardinality(W)
             /\ Traced(s.vol, stack', entries')
             /\ open' \in Seq(Nat) /\ Held(stack', entries', open')
  <2>1. Traced(s.vol, stack', entries)
    BY <1>2, <1>6 DEF Traced
  <2>2. n \in Nat
    <3>1. stack \in Seq(FrameRec)
      BY <1>1 DEF WalkInv, Nested
    <3> QED BY <3>1
  <2>3. \A k \in 1..(Len(stack') - 1) : k \in 1..(n - 1) /\ k + 1 \in 1..Len(stack')
    BY <1>6, <2>2
  <2>4. Held(stack', entries, open)
    BY <1>2, <1>6, <2>3 DEF Held
  <2> QED BY <1>2, <1>6, <2>1, <2>4
<1>7. Len(stack) \in Nat /\ (stack # <<>> => Len(stack) # 0)
  <2>1. stack \in Seq(FrameRec)
    BY <1>1 DEF WalkInv, Nested
  <2> QED BY <2>1
<1>8. CASE Past(Path) /\ ~Listing /\ UNCHANGED report
  <2>1. W = V
    BY <1>1, <1>8, ReportGrows
  <2>2. Len(stack') = n /\ \A k \in 1..n : stack'[k].path = stack[k].path
    BY <1>1, <1>8, PathsKept
  <2> QED BY <1>6, <1>7, <1>8, <2>1, <2>2 DEF report
<1>9. CASE Out /\ UNCHANGED report
  <2>1. W = V
    BY <1>1, <1>9, ReportRests
  <2>2. stack # <<>>
    BY <1>9 DEF Out
  <2>3. Len(stack') = n - 1 /\ \A k \in 1..(n - 1) : stack'[k].path = stack[k].path
    BY <1>1, <1>9, PathsKept
  <2>4. Len(stack') <= n /\ Len(stack') \in Nat
    BY <1>7, <2>2, <2>3
  <2> QED BY <1>6, <1>9, <2>1, <2>3, <2>4 DEF report
<1>10. CASE Still /\ UNCHANGED report
  <2>1. W = V
    BY <1>1, <1>10, ReportRests
  <2>2. stack' = stack
    BY <1>10 DEF Still
  <2> QED BY <1>6, <1>7, <1>10, <2>1, <2>2 DEF report
<1>11. \/ /\ Past(Path) \/ Into(Entry.node, Path)
          /\ \/ Listing /\ Visit(Entry, Path)
             \/ ~Listing /\ ~IsFolder(Entry) /\ UNCHANGED report
          /\ Into(Entry.node, Path) => IsFolder(Entry)
       \/ (Out \/ Still) /\ UNCHANGED report
  BY <1>1, ReportMoves DEF Listing
<1>12. Visit(Entry, Path) => entries' = Listed(Entry) /\ open' = Opened(Entry)
  BY <1>1 DEF Visit
<1> QED BY <1>5, <1>8, <1>9, <1>10, <1>11, <1>12

LEMMA ReportFrom ==
  ASSUME WalkInv, CrumbsInv, FindInv, TreeInv
  PROVE  ReportIsTheTree
<1> DEFINE all == {r \in Routes(Least(MaxDepth, ReportDepth + 1)) : InReport(r)}
           found == {r \in all : Last(r).e.name \in Needles}
<1> SUFFICES ASSUME pc = "done"
    PROVE  /\ s.cmd = "tree" =>
                /\ Len(entries) = Cardinality(all)
                /\ \A r \in all : \E i \in DOMAIN entries : EntryPath(entries, i) = NamesAlong(r)
                /\ \A i \in DOMAIN entries : \E r \in all :
                     EntryPath(entries, i) = NamesAlong(r) /\ entries[i].dir = (Last(r).e.node \in Dirs)
           /\ s.cmd = "find" =>
                /\ Len(hits) = Cardinality(found)
                /\ ToSet(hits) = {NamesAlong(r) : r \in found}
  BY DEF ReportIsTheTree
<1>1. ASSUME s.cmd \in Reports
      PROVE  all = Shown(s.vol, stack, Limit) /\ found = Found(s.vol, stack, Limit)
  <2>1. stack = <<>> /\ Volume(s.vol) /\ Limit = Least(MaxDepth, ReportDepth + 1) /\ Limit \in Nat
    BY <1>1, ScenarioIs, DeepestIs DEF WalkInv, Reports, Limit
  <2>2. Routes(Limit) = Seen(s.vol, stack, Limit)
    BY <2>1, RoutesAre DEF Seen
  <2> QED BY <2>1, <2>2 DEF Shown, Found, InReport
<1> HIDE DEF all, found
<1>2. ASSUME s.cmd = "tree"
      PROVE  /\ Len(entries) = Cardinality(all)
             /\ \A r \in all : \E i \in DOMAIN entries : EntryPath(entries, i) = NamesAlong(r)
             /\ \A i \in DOMAIN entries : \E r \in all :
                  EntryPath(entries, i) = NamesAlong(r) /\ entries[i].dir = (Last(r).e.node \in Dirs)
  <2>1. all = Shown(s.vol, stack, Limit)
    BY <1>1, <1>2 DEF Reports
  <2>2. Len(entries) = Cardinality(all) /\ Traced(s.vol, stack, entries) /\ entries \in Seq(EntryRec)
    BY <1>2, <2>1 DEF TreeInv, Backward
  <2>3. DOMAIN entries = 1..Len(entries)
    BY <2>2
  <2> QED BY <2>1, <2>2, <2>3 DEF Traced
<1>3. ASSUME s.cmd = "find"
      PROVE  Len(hits) = Cardinality(found) /\ ToSet(hits) = {NamesAlong(r) : r \in found}
  BY <1>1, <1>3 DEF FindInv, Reports
<1> QED BY <1>2, <1>3

(* The report is the tree, at any size of volume and at any depth limit:   *)
(* `tree` lists each route once, its parent links spell the route's names, *)
(* and `find` prints the matching routes, no more and no fewer.            *)
THEOREM TheReportIsTheTree == Spec => []ReportIsTheTree
<1>1. Init => WalkInv /\ CrumbsInv /\ FindInv /\ TreeInv
  BY WalkInit, CrumbsInit, FindInit, TreeInit
<1>2. WalkInv /\ CrumbsInv /\ FindInv /\ TreeInv /\ [Next]_vars => (WalkInv /\ CrumbsInv /\ FindInv /\ TreeInv)'
  BY WalkStep, CrumbsStep, FindStep, TreeStep
<1>3. WalkInv /\ CrumbsInv /\ FindInv /\ TreeInv => ReportIsTheTree
  BY ReportFrom
<1> QED BY <1>1, <1>2, <1>3, PTL DEF Spec

-----------------------------------------------------------------------------
(* `export`.  What a frame claimed is below its own directory, and the     *)
(* directories open are claimed by the frames below them.                  *)
Under(q, u) == Len(u) <= Len(q) /\ \A m \in 1..Len(u) : q[m] = u[m]
Extends(u, p) == Len(u) = Len(p) + 1 /\ Under(u, p)
Claims(st) ==
  /\ \A k \in 1..Len(st) : Len(st[k].path) = k - 1
  /\ \A k \in 1..Len(st) : \A u \in st[k].used : Extends(u, st[k].path)
  /\ \A k \in 1..(Len(st) - 1) : st[k + 1].path \in st[k].used
  /\ \A i, j \in 1..Len(st) : i <= j => Under(st[j].path, st[i].path)

(* Where a path that was written belongs: below what a frame claimed, and  *)
(* not below the directory that is open there.                             *)
Owned(st, q, k) == \E u \in st[k].used : Under(q, u) /\ (k < Len(st) => u # st[k + 1].path)
Owns(st, q) == st # <<>> => \E k \in 1..Len(st) : Owned(st, q, k)

LEMMA UnderIs ==
  /\ \A p, q, r \in Seq(Name) : Under(p, q) /\ Under(q, r) => Under(p, r)
  /\ \A p, q, r \in Seq(Name) : Under(p, q) /\ Under(p, r) /\ Len(q) = Len(r) => q = r
  /\ \A p \in Seq(Name) : Under(p, p)
<1>1. ASSUME NEW p \in Seq(Name), NEW q \in Seq(Name), NEW r \in Seq(Name), Under(p, q), Under(q, r)
      PROVE  Under(p, r)
  <2>1. Len(p) \in Nat /\ Len(q) \in Nat /\ Len(r) \in Nat /\ Len(r) <= Len(q) /\ Len(q) <= Len(p)
    BY <1>1 DEF Under
  <2>2. \A m \in 1..Len(r) : m \in 1..Len(q)
    BY <2>1
  <2> QED BY <1>1, <2>1, <2>2 DEF Under
<1>2. ASSUME NEW p \in Seq(Name), NEW q \in Seq(Name), NEW r \in Seq(Name), Under(p, q), Under(p, r),
             Len(q) = Len(r)
      PROVE  q = r
  <2>1. \A m \in 1..Len(q) : q[m] = r[m]
    BY <1>2 DEF Under
  <2> QED BY <1>2, <2>1, SameSeq
<1>3. \A p \in Seq(Name) : Under(p, p)
  BY DEF Under
<1> QED BY <1>1, <1>2, <1>3

LEMMA FramePaths ==
  ASSUME NEW st \in Seq(FrameRec), NEW k \in 1..Len(st)
  PROVE  st[k] \in FrameRec /\ st[k].path \in Seq(Name) /\ \A u \in st[k].used : u \in Seq(Name)
<1>1. st[k] \in FrameRec
  OBVIOUS
<1> QED BY <1>1 DEF FrameRec

(* A name claimed in the open directory is below no other claim.           *)
LEMMA ClaimIsFree ==
  ASSUME NEW st \in Seq(FrameRec), st # <<>>, Claims(st), NEW p \in Seq(Name),
         Extends(p, st[Len(st)].path), p \notin st[Len(st)].used
  PROVE  ~Owns(st, p)
<1> DEFINE n == Len(st)
<1>1. n \in Nat \ {0} /\ n \in 1..n
  OBVIOUS
<1>2. SUFFICES ASSUME NEW k \in 1..n, NEW u \in st[k].used, Under(p, u), k < n => u # st[k + 1].path
      PROVE  FALSE
  BY DEF Owns, Owned
<1> DEFINE a == st[k].path  b == st[n].path
<1>3. u \in Seq(Name) /\ a \in Seq(Name) /\ b \in Seq(Name)
  BY <1>1, FramePaths
<1>4. Len(a) = k - 1 /\ Len(b) = n - 1 /\ Extends(u, a)
  BY <1>1 DEF Claims
<1>5. Extends(p, b)
  OBVIOUS
<1> HIDE DEF n, a, b
<1>6. Len(u) = k /\ Len(p) = n
  BY <1>1, <1>4, <1>5 DEF Extends
<1>7. CASE k = n
  <2>1. p = u
    BY <1>2, <1>3, <1>6, <1>7, UnderIs
  <2> QED BY <1>7, <2>1 DEF n
<1>8. CASE k # n
  <2> DEFINE j == k + 1  t == st[j].path
  <2>1. k < n /\ j \in 1..n /\ j <= n /\ j - 1 = k
    BY <1>1, <1>8
  <2>2. t \in Seq(Name) /\ Len(t) = k
    BY <2>1, FramePaths DEF Claims, n
  <2>3. Under(b, t)
    BY <1>1, <2>1 DEF Claims, n, b
  <2>4. Under(p, b)
    BY <1>5 DEF Extends
  <2> HIDE DEF t, j
  <2>5. Under(p, t)
    BY <1>3, <2>2, <2>3, <2>4, UnderIs
  <2>6. u = t
    BY <1>2, <1>3, <1>6, <2>2, <2>5, UnderIs
  <2> QED BY <1>2, <2>1, <2>6 DEF t, j
<1> QED BY <1>7, <1>8

LEMMA ClaimsForth ==
  ASSUME NEW v, Volume(v), NEW st, Nested(v, st), st # <<>>, st[Len(st)].rest # <<>>, Claims(st),
         NEW p \in Seq(Name), Extends(p, st[Len(st)].path)
  PROVE  /\ Claims(Forth(st, p))
         /\ \A q : Owns(st, q) => Owns(Forth(st, p), q)
         /\ Owns(Forth(st, p), p)
<1> DEFINE n == Len(st)  t == Forth(st, p)
<1>1. n \in Nat \ {0} /\ n \in 1..n /\ st \in Seq(FrameRec)
  BY DEF Nested
<1>2. /\ t \in Seq(FrameRec) /\ Len(t) = n /\ (\A k \in 1..(n - 1) : t[k] = st[k])
      /\ t[n].used = st[n].used \cup {p}
      /\ \A k \in 1..n : t[k].path = st[k].path
  BY ForthIs
<1> HIDE DEF t
<1>3. \A k \in 1..n : k = n \/ k \in 1..(n - 1)
  BY <1>1
<1>4. \A k \in 1..n : st[k].used \subseteq t[k].used
  BY <1>2, <1>3
<1>5. \A k \in 1..n : Len(t[k].path) = k - 1
  BY <1>2 DEF Claims
<1>6. ASSUME NEW k \in 1..n, NEW u \in t[k].used PROVE Extends(u, t[k].path)
  <2>1. CASE k = n
    BY <1>2, <1>6, <2>1 DEF Claims
  <2>2. CASE k \in 1..(n - 1)
    BY <1>2, <1>6, <2>2 DEF Claims
  <2> QED BY <1>3, <2>1, <2>2
<1>7. ASSUME NEW k \in 1..(n - 1) PROVE t[k + 1].path \in t[k].used
  <2>1. k \in 1..n /\ k + 1 \in 1..n
    BY <1>1
  <2> QED BY <1>2, <1>4, <2>1 DEF Claims
<1>8. ASSUME NEW i \in 1..n, NEW j \in 1..n, i <= j PROVE Under(t[j].path, t[i].path)
  <2>1. Under(st[j].path, st[i].path)
    BY <1>8 DEF Claims
  <2> QED BY <1>2, <2>1
<1>9. Claims(t)
  BY <1>2, <1>5, <1>6, <1>7, <1>8 DEF Claims
<1>10. t # <<>> /\ st # <<>>
  BY <1>1, <1>2
<1>11. ASSUME NEW q, Owns(st, q) PROVE Owns(t, q)
  <2>1. PICK k \in 1..n : \E u \in st[k].used : Under(q, u) /\ (k < n => u # st[k + 1].path)
    BY <1>10, <1>11 DEF Owns, Owned
  <2>2. k < n => k + 1 \in 1..n
    BY <1>1
  <2> QED BY <1>2, <1>4, <2>1, <2>2 DEF Owns, Owned
<1>12. Owns(t, p)
  <2>1. p \in t[n].used /\ Under(p, p) /\ ~(n < n)
    BY <1>1, <1>2, UnderIs
  <2> QED BY <1>1, <1>2, <2>1 DEF Owns, Owned
<1> QED BY <1>9, <1>11, <1>12 DEF t

(* Opening the directory just claimed: nothing was written below it yet.   *)
LEMMA ClaimsDown ==
  ASSUME NEW v, Volume(v), NEW st, Nested(v, st), st # <<>>, st[Len(st)].rest # <<>>, Claims(st),
         NEW p \in Seq(Name), Extends(p, st[Len(st)].path), p \notin st[Len(st)].used,
         NEW g \in FrameRec, g.path = p, g.used = {}
  PROVE  /\ Claims(Append(Forth(st, p), g))
         /\ \A q : Owns(st, q) => Owns(Append(Forth(st, p), g), q)
<1> DEFINE n == Len(st)  f == Forth(st, p)  t == Append(f, g)
<1>1. n \in Nat \ {0} /\ n \in 1..n /\ st \in Seq(FrameRec)
  BY DEF Nested
<1>2. /\ f \in Seq(FrameRec) /\ Len(f) = n /\ (\A k \in 1..(n - 1) : f[k] = st[k])
      /\ f[n].used = st[n].used \cup {p}
      /\ \A k \in 1..n : f[k].path = st[k].path
  BY ForthIs
<1>3. Claims(f)
  BY ClaimsForth
<1> HIDE DEF f
<1>4. /\ t \in Seq(FrameRec) /\ Len(t) = n + 1 /\ (\A k \in 1..n : t[k] = f[k]) /\ t[n + 1] = g /\ t # <<>>
  BY <1>2, AppendIs
<1> HIDE DEF t
<1>5. Len(p) = n /\ Under(p, st[n].path)
  BY <1>1 DEF Claims, Extends
<1>6. \A k \in 1..(n + 1) : k = n + 1 \/ k \in 1..n
  BY <1>1
<1>7. ASSUME NEW k \in 1..(n + 1) PROVE Len(t[k].path) = k - 1 /\ \A u \in t[k].used : Extends(u, t[k].path)
  <2>1. CASE k = n + 1
    <3>1. t[k] = g /\ k - 1 = n
      BY <1>1, <1>4, <2>1
    <3> QED BY <1>5, <3>1
  <2>2. CASE k \in 1..n
    BY <1>2, <1>3, <1>4, <2>2 DEF Claims
  <2> QED BY <1>6, <2>1, <2>2
<1>8. ASSUME NEW k \in 1..n PROVE t[k + 1].path \in t[k].used
  <2>1. CASE k = n
    BY <1>2, <1>4, <2>1
  <2>2. CASE k # n
    <3>1. k \in 1..(n - 1) /\ k + 1 \in 1..n
      BY <1>1, <2>2
    <3> QED BY <1>2, <1>3, <1>4, <3>1 DEF Claims
  <2> QED BY <2>1, <2>2
<1>9. ASSUME NEW i \in 1..(n + 1), NEW j \in 1..(n + 1), i <= j PROVE Under(t[j].path, t[i].path)
  <2>1. CASE i = n + 1
    <3>1. j = n + 1
      BY <1>1, <1>9, <2>1
    <3> QED BY <1>4, <2>1, <3>1, UnderIs
  <2>2. CASE i \in 1..n /\ j \in 1..n
    <3>1. Under(st[j].path, st[i].path)
      BY <1>9, <2>2 DEF Claims
    <3> QED BY <1>2, <1>4, <2>2, <3>1
  <2>3. CASE i \in 1..n /\ j = n + 1
    <3>1. i <= n
      BY <2>3
    <3>2. Under(st[n].path, st[i].path)
      BY <1>1, <2>3, <3>1 DEF Claims
    <3>3. st[n].path \in Seq(Name) /\ st[i].path \in Seq(Name)
      BY <1>1, <2>3, FramePaths
    <3>4. Under(p, st[i].path)
      BY <1>5, <3>2, <3>3, UnderIs
    <3> QED BY <1>2, <1>4, <2>3, <3>4
  <2> QED BY <1>6, <2>1, <2>2, <2>3
<1>10. Claims(t)
  <2>1. Len(t) - 1 = n
    BY <1>1, <1>4
  <2> QED BY <1>4, <1>7, <1>8, <1>9, <2>1 DEF Claims
<1>11. ASSUME NEW q, Owns(st, q) PROVE Owns(t, q)
  <2>1. PICK k \in 1..n : \E u \in st[k].used : Under(q, u) /\ (k < n => u # st[k + 1].path)
    BY <1>11 DEF Owns, Owned
  <2>2. PICK u \in st[k].used : Under(q, u) /\ (k < n => u # st[k + 1].path)
    BY <2>1
  <2>3. k \in 1..(n + 1) /\ k < n + 1
    BY <1>1
  <2>4. u \in t[k].used
    <3>1. CASE k = n
      BY <1>2, <1>4, <3>1
    <3>2. CASE k # n
      <4>1. k \in 1..(n - 1)
        BY <1>1, <3>2
      <4> QED BY <1>2, <1>4, <4>1
    <3> QED BY <3>1, <3>2
  <2>5. u # t[k + 1].path
    <3>1. CASE k = n
      BY <1>4, <2>2, <3>1
    <3>2. CASE k # n
      <4>1. k < n /\ k + 1 \in 1..n
        BY <1>1, <3>2
      <4> QED BY <1>2, <1>4, <2>2, <4>1
    <3> QED BY <3>1, <3>2
  <2> QED BY <1>4, <2>2, <2>3, <2>4, <2>5 DEF Owns, Owned
<1> QED BY <1>10, <1>11 DEF t, f

(* Leaving a directory: what is below its claims is below it.              *)
LEMMA ClaimsUp ==
  ASSUME NEW st \in Seq(FrameRec), st # <<>>, Claims(st)
  PROVE  /\ Claims(Front(st))
         /\ \A q \in Seq(Name) : Owns(st, q) => Owns(Front(st), q)
<1> DEFINE n == Len(st)  t == Front(st)
<1>1. n \in Nat \ {0} /\ t \in Seq(FrameRec) /\ Len(t) = n - 1 /\ \A k \in 1..(n - 1) : t[k] = st[k]
  BY FrontIs
<1> HIDE DEF t
<1>2. \A k \in 1..(n - 1) : k \in 1..n
  BY <1>1
<1>3. \A k \in 1..(n - 1 - 1) : k \in 1..(n - 1) /\ k + 1 \in 1..(n - 1)
  BY <1>1
<1>4. Claims(t)
  <2>1. (\A k \in 1..(n - 1) : Len(t[k].path) = k - 1)
        /\ \A k \in 1..(n - 1) : \A u \in t[k].used : Extends(u, t[k].path)
    BY <1>1, <1>2 DEF Claims
  <2>2. \A k \in 1..(n - 1 - 1) : t[k + 1].path \in t[k].used
    BY <1>1, <1>2, <1>3 DEF Claims
  <2>3. ASSUME NEW i \in 1..(n - 1), NEW j \in 1..(n - 1), i <= j PROVE Under(t[j].path, t[i].path)
    <3>1. Under(st[j].path, st[i].path)
      BY <1>2, <2>3 DEF Claims
    <3> QED BY <1>1, <3>1
  <2> QED BY <1>1, <2>1, <2>2, <2>3 DEF Claims
<1>5. ASSUME NEW q \in Seq(Name), Owns(st, q), t # <<>> PROVE \E k \in 1..(n - 1) : Owned(t, q, k)
  <2>1. PICK k \in 1..n : \E u \in st[k].used : Under(q, u) /\ (k < n => u # st[k + 1].path)
    BY <1>5 DEF Owns, Owned
  <2>2. PICK u \in st[k].used : Under(q, u) /\ (k < n => u # st[k + 1].path)
    BY <2>1
  <2>3. n - 1 \in 1..(n - 1) /\ n - 1 \in Nat /\ n \in 1..n
    BY <1>1, <1>5
  <2>4. CASE k = n
    <3> DEFINE w == st[n].path  m == n - 1
    <3>1. w \in st[m].used
      <4>1. m + 1 = n
        BY <1>1
      <4> QED BY <2>3, <4>1 DEF Claims
    <3>2. u \in Seq(Name) /\ w \in Seq(Name)
      BY <2>3, <2>4, FramePaths
    <3>3. Under(u, w)
      BY <2>3, <2>4 DEF Claims, Extends
    <3>4. Under(q, w)
      BY <2>2, <3>2, <3>3, UnderIs
    <3>5. ~(m < n - 1)
      BY <2>3
    <3> QED BY <1>1, <2>3, <3>1, <3>4, <3>5 DEF Owned
  <2>5. CASE k # n
    <3>1. k \in 1..(n - 1) /\ k < n
      BY <1>1, <2>5
    <3>2. k < n - 1 => k + 1 \in 1..(n - 1)
      BY <1>1, <3>1
    <3> QED BY <1>1, <2>2, <3>1, <3>2 DEF Owned
  <2> QED BY <2>4, <2>5
<1> QED BY <1>1, <1>4, <1>5 DEF Owns, t

(* The name an entry gets extends the path of its directory.               *)
LEMMA ClaimedExtends ==
  ASSUME WalkInv, s.cmd = "export", stack # <<>>, Top.rest # <<>>
  PROVE  /\ Claimed(Entry) \in Seq(Name) /\ Claimed(Entry) # <<>>
         /\ Extends(Claimed(Entry), Top.path) /\ Claimed(Entry) \notin Top.used
         /\ Last(Claimed(Entry)).side = Entry.name.side
<1> DEFINE p == Claimed(Entry)  q == Top.path
<1>1. p \in Seq(Name) /\ p \notin Top.used
  BY ClaimedIs
<1>2. PICK x \in Name : p = Append(q, x) /\ x.side = Entry.name.side
  BY ClaimedIs
<1>3. q \in Seq(Name)
  BY EntryIs DEF FrameRec
<1> HIDE DEF p, q
<1>4. /\ p # <<>> /\ Len(p) = Len(q) + 1 /\ (\A i \in 1..Len(q) : p[i] = q[i]) /\ p[Len(q) + 1] = x
      /\ Len(q) \in Nat
  BY <1>2, <1>3, AppendIs
<1>5. Extends(p, q)
  BY <1>4 DEF Extends, Under
<1>6. Last(p) = x
  BY <1>1, <1>4, FrontIs
<1> QED BY <1>1, <1>2, <1>4, <1>5, <1>6 DEF p, q

(* A step of `export` that leaves both counters at zero.                   *)
Clean == failed' = 0 /\ cycles' = 0
LEMMA ExportMoves ==
  ASSUME WalkInv, DiskInv, [Next]_vars, s.cmd = "export", Clean
  PROVE  /\ s' = s /\ failed = 0 /\ cycles = 0
         /\ \/ /\ Into(Entry.node, Claimed(Entry)) /\ Entry.node \in Dirs
               /\ dest' = MkDirs(dest, Claimed(Entry))
            \/ /\ Past(Claimed(Entry)) /\ Entry.node \in Files
               /\ \E c \in BOOLEAN :
                    dest' = WithSidecar(Put(dest, Claimed(Entry), Data(Entry.node, s.vol.given[Entry.node], c)),
                                        Claimed(Entry), Entry.node)
            \/ (Out \/ Still) /\ dest' = dest
<1>1. failed \in Nat /\ cycles \in Nat
  BY DEF DiskInv
<1>2. CASE ExportFolder
  <2>1. /\ pc = "run" /\ stack # <<>> /\ Top.rest # <<>> /\ Entry.node \in Dirs
        /\ s' = s /\ pc' = pc /\ failed' = failed
    BY <1>2 DEF ExportFolder, AtEntry, Walking, IsFolder
  <2> DEFINE d == Entry.node  p == Claimed(Entry)
  <2>2. p \in Seq(Name)
    BY <2>1, ClaimedIs
  <2>3. Deepest(s.cmd) = MaxDepth /\ MaxDepth \in Nat /\ Len(stack) \in Nat
    BY <2>1, DeepestIs, EntryIs
  <2>4. ~(Loops(d) \/ Len(stack) >= MaxDepth)
    <3>1. SUFFICES ASSUME Loops(d) \/ Len(stack) >= MaxDepth PROVE FALSE
      OBVIOUS
    <3>2. cycles' = cycles + 1
      BY <1>2, <3>1 DEF ExportFolder
    <3> QED BY <1>1, <3>2 DEF Clean
  <2>5. /\ stack' = Append(Forth(stack, p), Frame(d, p)) /\ ancestors' = ancestors \o Known(d)
        /\ dest' = MkDirs(dest, p) /\ cycles' = cycles
    BY <1>2, <2>4, OnwardIs DEF ExportFolder
  <2>6. Len(stack) < MaxDepth
    BY <2>3, <2>4
  <2>7. Enters(s.vol, stack, d, Deepest(s.cmd))
    BY <2>1, <2>3, <2>4, <2>6, EntersIs
  <2>8. Into(d, p)
    BY <2>1, <2>2, <2>5, <2>7 DEF Into
  <2> QED BY <2>1, <2>5, <2>8 DEF Clean
<1>3. CASE ExportFile
  <2> DEFINE f == Entry.node  p == Claimed(Entry)
  <2>1. /\ pc = "run" /\ stack # <<>> /\ Top.rest # <<>> /\ f \notin Dirs
        /\ s' = s /\ pc' = pc /\ ancestors' = ancestors /\ stack' = Onward(p) /\ cycles' = cycles
        /\ ~Enters(s.vol, stack, f, Deepest(s.cmd))
    BY <1>3 DEF ExportFile, AtEntry, Walking, IsFolder, Enters
  <2>2. p \in Seq(Name)
    BY <2>1, ClaimedIs
  <2>3. Past(p)
    BY <2>1, <2>2, OnwardIs DEF Past
  <2>4. f \in Files
    BY <2>1, EntryIs DEF DirEntry
  <2>5. PICK r \in Streams(f) : /\ failed' = IF r.ok THEN failed ELSE failed + 1
                                /\ dest' = WithSidecar(Put(dest, p, Data(f, r.got, r.cut)), p, f)
    <3>1. failed' # failed + 1
      BY <1>1 DEF Clean
    <3> QED BY <1>3, <3>1 DEF ExportFile
  <2>6. r.ok /\ failed' = failed
    BY <1>1, <2>5 DEF Clean
  <2>7. r.got = s.vol.given[f] /\ r.cut \in BOOLEAN
    <3>1. Volume(s.vol)
      BY ScenarioIs DEF DiskInv
    <3> QED BY <2>4, <2>6, <3>1, StreamIs
  <2> QED BY <2>1, <2>3, <2>4, <2>5, <2>6, <2>7 DEF Clean
<1>4. CASE LeaveDir
  <2>1. s' = s /\ Out /\ dest' = dest /\ failed' = failed /\ cycles' = cycles
    BY <1>4 DEF LeaveDir, Walking, Out, counters
  <2> QED BY <2>1 DEF Clean
<1>5. CASE ReportFolder \/ ReportFile \/ ListLine \/ ListEnds
  BY <1>5 DEF ListLine, ListEnds, ReportFolder, ReportFile, AtEntry, Walking
<1>6. CASE Throw \/ Ended \/ UNCHANGED vars
  <2>1. s' = s /\ Still /\ dest' = dest /\ failed' = failed /\ cycles' = cycles
    BY <1>6 DEF Throw, Ended, Still, vars, counters
  <2> QED BY <2>1 DEF Clean
<1> QED BY <1>2, <1>3, <1>4, <1>5, <1>6 DEF Next

(* The routes `export` is done with, those past its depth limit included.  *)
Bound == MaxDepth + 1
LEMMA ExportSeen ==
  ASSUME WalkInv, s.cmd = "export", s' = s
  PROVE  /\ \A p : Past(p) /\ Entry.node \notin Dirs =>
              Seen(s.vol, stack', Bound) = Seen(s.vol, stack, Bound) \cup {NextRoute(s.vol, stack)}
         /\ \A d, p : Into(d, p) =>
              Seen(s.vol, stack', Bound) = Seen(s.vol, stack, Bound) \cup {NextRoute(s.vol, stack)}
         /\ Out \/ Still => Seen(s.vol, stack', Bound) = Seen(s.vol, stack, Bound)
<1> DEFINE v == s.vol  n == Len(stack)
<1>1. Volume(v) /\ Nested(v, stack) /\ n <= MaxDepth /\ MaxDepth \in Nat /\ n \in Nat
      /\ Deepest(s.cmd) = MaxDepth
  BY ScenarioIs, DeepestIs DEF WalkInv, Nested
<1>2. n <= Bound /\ Bound \in Nat /\ n < Bound
  BY <1>1 DEF Bound
<1>3. ASSUME NEW p, Past(p), Entry.node \notin Dirs
      PROVE  Seen(v, stack', Bound) = Seen(v, stack, Bound) \cup {NextRoute(v, stack)}
  <2>1. stack # <<>> /\ stack[n].rest # <<>> /\ p \in Seq(Name) /\ stack' = Forth(stack, p)
        /\ ~Enters(v, stack, Head(stack[n].rest).node, Bound)
    BY <1>3 DEF Past, Top, Entry, Enters
  <2> QED BY <1>1, <1>2, <2>1, SeenForth
<1>4. ASSUME NEW d, NEW p, Into(d, p)
      PROVE  Seen(v, stack', Bound) = Seen(v, stack, Bound) \cup {NextRoute(v, stack)}
  <2> DEFINE g == Frame(d, p)
  <2>1. stack # <<>> /\ stack[n].rest # <<>> /\ p \in Seq(Name) /\ stack' = Append(Forth(stack, p), g)
        /\ d = Head(stack[n].rest).node /\ Enters(v, stack, d, MaxDepth)
    BY <1>1, <1>4 DEF Into, Top, Entry
  <2>2. d \in Dirs /\ Enters(v, stack, d, Bound)
    BY <1>2, <2>1 DEF Enters
  <2>3. g \in FrameRec /\ g.dir = d /\ g.rest = v.list[d]
    BY <1>1, <2>1, <2>2, FrameOf
  <2> HIDE DEF g
  <2>4. g.dir = Head(stack[n].rest).node /\ g.rest = v.list[g.dir] /\ Enters(v, stack, g.dir, Bound)
    BY <2>1, <2>2, <2>3
  <2>5. stack # <<>> /\ stack[n].rest # <<>> /\ p \in Seq(Name) /\ stack' = Append(Forth(stack, p), g)
    BY <2>1
  <2> HIDE DEF v
  <2>6. Seen(v, Append(Forth(stack, p), g), Bound) = Seen(v, stack, Bound) \cup {NextRoute(v, stack)}
    BY <1>1, <1>2, <2>3, <2>4, <2>5, SeenDown
  <2> QED BY <2>5, <2>6
<1>5. ASSUME Out PROVE Seen(v, stack', Bound) = Seen(v, stack, Bound)
  <2>1. stack # <<>> /\ stack[n].rest = <<>> /\ stack' = Front(stack)
    BY <1>5 DEF Out, Top
  <2> QED BY <1>1, <1>2, <2>1, SeenUp
<1>6. Still => stack' = stack
  BY DEF Still
<1> QED BY <1>3, <1>4, <1>5, <1>6

(* The copies of a file that took all of it, and the routes that lead to   *)
(* it.                                                                     *)
Whole(o, v, f) == o.kind = "data" /\ o.node = f /\ o.got = v.given[f]
Copies(v, d, f) == {p \in DOMAIN d : Whole(d[p], v, f)}
Leading(v, st, f) == {r \in Seen(v, st, Bound) : Last(r).e.node = f}
CopyInv ==
  s.cmd = "export" /\ failed = 0 /\ cycles = 0 /\ ~SidecarNames =>
    /\ Claims(stack)
    /\ \A q \in Written(dest) : Unsided(q) /\ Owns(stack, q)
    /\ \A f \in Files : Cardinality(Copies(s.vol, dest, f)) >= Cardinality(Leading(s.vol, stack, f))

LEMMA CopiesAre ==
  ASSUME NEW v, NEW d, NEW f \in Files
  PROVE  /\ Copies(v, d, f) = {p \in Written(d) : Whole(d[p], v, f)}
         /\ IsDisk(d) => IsFiniteSet(Copies(v, d, f))
<1>1. \A o : Whole(o, v, f) => o.kind = "data" /\ o.node = f /\ f # Foreign
  BY ForeignAssumption DEF Whole
<1>2. Copies(v, d, f) = {p \in Written(d) : Whole(d[p], v, f)}
  BY <1>1 DEF Copies, Written
<1>3. Copies(v, d, f) \in SUBSET DOMAIN d
  BY DEF Copies
<1> QED BY <1>2, <1>3, FS_Subset DEF IsDisk

LEMMA CopiesKeep ==
  ASSUME NEW v, NEW d, NEW t, Written(t) = Written(d), \A q \in Written(d) : t[q] = d[q], NEW f \in Files
  PROVE  Copies(v, t, f) = Copies(v, d, f)
<1>1. Copies(v, d, f) = {q \in Written(d) : Whole(d[q], v, f)}
  BY CopiesAre
<1>2. Copies(v, t, f) = {q \in Written(t) : Whole(t[q], v, f)}
  BY CopiesAre
<1> QED BY <1>1, <1>2

LEMMA CopiesGrow ==
  ASSUME NEW v, NEW d, NEW t, NEW p, p \notin Written(d), Written(t) = Written(d) \cup {p},
         \A q \in Written(d) : t[q] = d[q], NEW f \in Files, Whole(t[p], v, f)
  PROVE  /\ Copies(v, t, f) = Copies(v, d, f) \cup {p} /\ p \notin Copies(v, d, f)
         /\ \A g \in Files : g # f => Copies(v, t, g) = Copies(v, d, g)
<1>1. \A g \in Files : /\ Copies(v, d, g) = {q \in Written(d) : Whole(d[q], v, g)}
                       /\ Copies(v, t, g) = {q \in Written(t) : Whole(t[q], v, g)}
  BY CopiesAre
<1>2. \A g \in Files : g # f => ~Whole(t[p], v, g)
  BY DEF Whole
<1>3. Copies(v, t, f) = Copies(v, d, f) \cup {p}
  BY <1>1
<1>4. ASSUME NEW g \in Files, g # f PROVE Copies(v, t, g) = Copies(v, d, g)
  BY <1>1, <1>2, <1>4
<1> QED BY <1>1, <1>3, <1>4

LEMMA LeadingIs ==
  ASSUME Volume(s.vol), Bound \in Nat, NEW st, NEW f
  PROVE  IsFiniteSet(Leading(s.vol, st, f))
<1>1. IsFiniteSet(Seen(s.vol, st, Bound))
  BY SeenFinite
<1>2. Leading(s.vol, st, f) \in SUBSET Seen(s.vol, st, Bound)
  BY DEF Leading
<1> QED BY <1>1, <1>2, FS_Subset

LEMMA CopyInit == Init => CopyInv
<1> SUFFICES ASSUME Init, s.cmd = "export" PROVE CopyInv
  BY DEF CopyInv
<1> DEFINE g == [dir |-> s.vol.root, path |-> <<>>, rest |-> s.vol.list[s.vol.root], used |-> {}]
<1>1. Volume(s.vol) /\ Bound \in Nat /\ s.vol.root \in Dirs
  BY ScenarioIs, DepthAssumption, VolumeIs DEF Init, Bound
<1>2. stack = <<g>> /\ dest = s.dest /\ s \in Scenarios
  BY DEF Init, Start
<1>3. g \in FrameRec /\ g.dir = s.vol.root /\ g.rest = s.vol.list[s.vol.root] /\ g.used = {} /\ g.path = <<>>
  <2> DEFINE z == <<>>  d == s.vol.root
  <2>1. d \in Dirs /\ z \in Seq(Name) /\ g = Frame(d, z)
    BY <1>1 DEF Frame
  <2>2. g.used = {} /\ g.path = <<>>
    OBVIOUS
  <2> HIDE DEF g, z, d
  <2>3. Frame(d, z) \in FrameRec /\ Frame(d, z).dir = d /\ Frame(d, z).rest = s.vol.list[d]
    BY <1>1, <2>1, FrameOf
  <2> QED BY <2>1, <2>2, <2>3 DEF d
<1> HIDE DEF g
<1>4. Seen(s.vol, stack, Bound) = {}
  BY <1>1, <1>2, <1>3, SeenStart
<1>5. Written(dest) = {}
  BY <1>2, DestIs
<1>6. Claims(stack)
  <2>1. Len(stack) = 1 /\ stack[1] = g
    BY <1>2
  <2>2. /\ \A k \in 1..1 : k = 1
        /\ \A k \in 1..(1 - 1) : FALSE
        /\ Len(<<>>) = 1 - 1 /\ <<>> \in Seq(Name)
    OBVIOUS
  <2>3. Under(<<>>, <<>>)
    BY DEF Under
  <2> QED BY <1>3, <2>1, <2>2, <2>3 DEF Claims
<1>7. ASSUME NEW f \in Files
      PROVE  Cardinality(Copies(s.vol, dest, f)) >= Cardinality(Leading(s.vol, stack, f))
  <2>1. Leading(s.vol, stack, f) = {} /\ Copies(s.vol, dest, f) = {}
    BY <1>4, <1>5, CopiesAre DEF Leading
  <2> QED BY <2>1, FS_EmptySet
<1> QED BY <1>5, <1>6, <1>7 DEF CopyInv

LEMMA CopyStep == WalkInv /\ DiskInv /\ CopyInv /\ [Next]_vars => CopyInv'
<1> SUFFICES ASSUME WalkInv, DiskInv, CopyInv, [Next]_vars,
                    s'.cmd = "export", failed' = 0, cycles' = 0, ~SidecarNames'
    PROVE  CopyInv'
  BY DEF CopyInv
<1> DEFINE v == s.vol  n == Len(stack)  p == Claimed(Entry)  x == NextRoute(v, stack)
           f == Entry.node
<1>1. s' = s /\ s.cmd = "export"
  BY DEF Next, ExportFolder, ExportFile, ReportFolder, ReportFile, LeaveDir, ListLine, ListEnds, Throw,
         Ended, vars
<1>2. /\ failed = 0 /\ cycles = 0
      /\ \/ Into(f, p) /\ f \in Dirs /\ dest' = MkDirs(dest, p)
         \/ /\ Past(p) /\ f \in Files
            /\ \E c \in BOOLEAN : dest' = WithSidecar(Put(dest, p, Data(f, v.given[f], c)), p, f)
         \/ (Out \/ Still) /\ dest' = dest
  BY <1>1, ExportMoves DEF Clean
<1>3. ~SidecarNames
  BY <1>1 DEF SidecarNames
<1>4. /\ Claims(stack) /\ (\A q \in Written(dest) : Unsided(q) /\ Owns(stack, q))
      /\ \A g \in Files : Cardinality(Copies(v, dest, g)) >= Cardinality(Leading(v, stack, g))
  BY <1>1, <1>2, <1>3 DEF CopyInv
<1>5. Volume(v) /\ Nested(v, stack) /\ Bound \in Nat /\ IsDisk(dest) /\ stack \in Seq(FrameRec)
  BY <1>1, ScenarioIs, DepthAssumption DEF DiskInv, WalkInv, Bound, Nested
<1>6. SUFFICES /\ Claims(stack') /\ (\A q \in Written(dest') : Unsided(q) /\ Owns(stack', q))
               /\ \A g \in Files : Cardinality(Copies(v, dest', g)) >= Cardinality(Leading(v, stack', g))
  <2>1. Claims(stack') => Claims(stack)'
    BY DEF Claims, Extends, Under
  <2>2. Written(dest)' = Written(dest')
    BY DEF Written
  <2>3. \A q : (Unsided(q)' <=> Unsided(q)) /\ (Owns(stack, q)' <=> Owns(stack', q))
    BY DEF Unsided, Owns, Owned, Under
  <2>4. \A g : Copies(s.vol, dest, g)' = Copies(v, dest', g)
    BY <1>1 DEF Copies, Whole
  <2>5. Seen(s.vol, stack, Bound)' = Seen(v, stack', Bound)
    <3>1. RouteSet(s.vol, Bound)' = RouteSet(v, Bound)
      <4>1. ASSUME NEW r PROVE IsRoute(s.vol, r, Bound)' <=> IsRoute(v, r, Bound)
        BY <1>1 DEF IsRoute, Fresh, Picks, Node, StepRec, DirEntry, Name, Bound
      <4> QED BY <1>1, <4>1 DEF RouteSet, StepRec, DirEntry, Name
    <3>2. \A r : \A k : PassedAt(s.vol, stack, r, k)' <=> PassedAt(v, stack', r, k)
      BY <1>1 DEF PassedAt, Agrees, Taken, At
    <3> QED BY <3>1, <3>2 DEF Seen
  <2>6. \A g : Leading(s.vol, stack, g)' = Leading(v, stack', g)
    BY <2>5 DEF Leading
  <2> HIDE DEF v
  <2> QED BY <2>1, <2>2, <2>3, <2>4, <2>6 DEF CopyInv
<1> HIDE DEF v, p, x, f
<1>7. ASSUME stack # <<>>, Top.rest # <<>>
      PROVE  /\ p \in Seq(Name) /\ Unsided(p) /\ Extends(p, stack[n].path) /\ p \notin stack[n].used
             /\ ~Owns(stack, p) /\ Last(x).e.node = f /\ p # <<>> /\ stack[n].rest # <<>>
  <2>1. /\ p \in Seq(Name) /\ p # <<>> /\ Extends(p, Top.path) /\ p \notin Top.used
        /\ Last(p).side = Entry.name.side
    BY <1>1, <1>7, ClaimedExtends DEF p
  <2>2. stack[n].rest # <<>> /\ Top = stack[n]
    BY <1>7 DEF Top
  <2>3. Last(x).e = Entry /\ \E i \in DOMAIN v.list[stack[n].dir] : v.list[stack[n].dir][i] = Entry
    BY <1>5, <1>7, <2>2, NextLast DEF x, Entry
  <2>4. Entry.name.side = FALSE
    <3>1. n \in 1..n
      BY <1>5, <1>7
    <3>2. stack[n].dir \in Dirs
      BY <1>5, <3>1, FrameIs
    <3>3. ~Entry.name.side
      BY <1>3, <2>3, <3>2 DEF SidecarNames, v
    <3>4. Entry.name.side \in BOOLEAN
      <4>1. Entry \in DirEntry
        BY <1>1, <1>7, EntryIs
      <4> QED BY <4>1 DEF DirEntry, Name
    <3> QED BY <3>3, <3>4
  <2>5. ~Owns(stack, p)
    BY <1>4, <1>5, <1>7, <2>1, <2>2, ClaimIsFree
  <2> QED BY <2>1, <2>2, <2>3, <2>4, <2>5 DEF Unsided, f
<1>8. CASE Into(f, p) /\ f \in Dirs /\ dest' = MkDirs(dest, p)
  <2> DEFINE g == Frame(f, p)
  <2>1. stack # <<>> /\ Top.rest # <<>> /\ stack' = Append(Forth(stack, p), g)
    BY <1>8 DEF Into
  <2>2. g \in FrameRec /\ g.path = p /\ g.used = {}
    BY <1>5, <1>7, <1>8, <2>1, FrameOf DEF v
  <2> HIDE DEF g
  <2>3. Claims(stack') /\ \A q : Owns(stack, q) => Owns(stack', q)
    BY <1>4, <1>5, <1>7, <2>1, <2>2, ClaimsDown
  <2>4. Written(dest') = Written(dest) /\ \A q \in Written(dest) : dest'[q] = dest[q]
    BY <1>5, <1>7, <1>8, <2>1, MkDirsWritten
  <2>5. Seen(v, stack', Bound) = Seen(v, stack, Bound) \cup {x}
    BY <1>1, <1>8, ExportSeen DEF v, x
  <2>6. ASSUME NEW h \in Files PROVE Cardinality(Copies(v, dest', h)) >= Cardinality(Leading(v, stack', h))
    <3>1. Copies(v, dest', h) = Copies(v, dest, h)
      BY <2>4, CopiesKeep
    <3>2. Last(x).e.node # h
      BY <1>7, <1>8, <2>1, NodeAssumption
    <3>3. Leading(v, stack', h) = Leading(v, stack, h)
      BY <2>5, <3>2 DEF Leading
    <3> QED BY <1>4, <3>1, <3>3
  <2> QED BY <1>4, <2>3, <2>4, <2>6
<1>9. CASE /\ Past(p) /\ f \in Files
           /\ \E c \in BOOLEAN : dest' = WithSidecar(Put(dest, p, Data(f, v.given[f], c)), p, f)
  <2>0. PICK c \in BOOLEAN : dest' = WithSidecar(Put(dest, p, Data(f, v.given[f], c)), p, f)
    BY <1>9
  <2> DEFINE t == Put(dest, p, Data(f, v.given[f], c))
  <2>1. stack # <<>> /\ Top.rest # <<>> /\ stack' = Forth(stack, p)
    BY <1>9 DEF Past
  <2>2. Claims(stack') /\ (\A q : Owns(stack, q) => Owns(stack', q)) /\ Owns(stack', p)
    BY <1>4, <1>5, <1>7, <2>1, ClaimsForth
  <2>3. p \notin Written(dest)
    BY <1>4, <1>7, <2>1
  <2>4. v.given[f] \in Nat
    BY <1>5, <1>9 DEF Volume
  <2>5. /\ IsDisk(t) /\ Written(t) = Written(dest) \cup {p}
        /\ t[p] = Data(f, v.given[f], c) /\ \A q \in Written(dest) : t[q] = dest[q]
    <3> DEFINE m == v.given[f]  u == Put(dest, p, Data(f, m, c))
    <3>1. p \in Seq(Name) /\ m \in Nat
      BY <1>7, <2>1, <2>4
    <3> HIDE DEF m
    <3>2. IsDisk(u) /\ Written(u) = Written(dest) \cup {p}
      BY <1>5, <1>9, <2>3, <3>1, PutWritten
    <3>3. u[p] = Data(f, m, c) /\ \A q \in Written(dest) : u[q] = dest[q]
      BY <2>3 DEF Put, Written
    <3> QED BY <3>2, <3>3 DEF m
  <2>6. dest' = WithSidecar(t, p, f)
    BY <2>0
  <2> HIDE DEF t
  <2>7. \A q \in Written(t) : Unsided(q) /\ Owns(stack', q)
    BY <1>4, <1>7, <2>1, <2>2, <2>5
  <2>8. Written(dest') = Written(t) /\ \A q \in Written(t) : dest'[q] = t[q]
    BY <1>7, <1>9, <2>1, <2>5, <2>6, <2>7, SidecarWritten
  <2>9. Written(dest') = Written(dest) \cup {p} /\ dest'[p] = Data(f, v.given[f], c)
        /\ \A q \in Written(dest) : dest'[q] = dest[q]
    BY <2>5, <2>8
  <2>10. /\ Copies(v, dest', f) = Copies(v, dest, f) \cup {p} /\ p \notin Copies(v, dest, f)
         /\ \A h \in Files : h # f => Copies(v, dest', h) = Copies(v, dest, h)
    <3>1. Whole(dest'[p], v, f)
      BY <2>9 DEF Whole, Data
    <3> QED BY <1>9, <2>3, <2>9, <3>1, CopiesGrow
  <2>11. Seen(v, stack', Bound) = Seen(v, stack, Bound) \cup {x}
    <3>1. f \notin Dirs
      BY <1>9, NodeAssumption
    <3> QED BY <1>1, <1>9, <3>1, ExportSeen DEF v, x, f
  <2>12. ASSUME NEW h \in Files PROVE Cardinality(Copies(v, dest', h)) >= Cardinality(Leading(v, stack', h))
    <3> DEFINE A == Copies(v, dest, h)  B == Leading(v, stack, h)
    <3>1. IsFiniteSet(A) /\ IsFiniteSet(B) /\ Cardinality(A) >= Cardinality(B)
      BY <1>4, <1>5, CopiesAre, LeadingIs DEF v
    <3>2. CASE h = f
      <4>1. Copies(v, dest', h) = A \cup {p} /\ p \notin A
        BY <2>10, <3>2
      <4>2. Leading(v, stack', h) = B \cup {x}
        BY <1>7, <2>1, <2>11, <3>2 DEF Leading
      <4> HIDE DEF A, B
      <4>3. Cardinality(A \cup {p}) = Cardinality(A) + 1 /\ Cardinality(A) \in Nat /\ Cardinality(B) \in Nat
        BY <3>1, <4>1, FS_AddElement, FS_CardinalityType
      <4>4. Cardinality(B \cup {x}) = IF x \in B THEN Cardinality(B) ELSE Cardinality(B) + 1
        BY <3>1, FS_AddElement
      <4> QED BY <3>1, <4>1, <4>2, <4>3, <4>4
    <3>3. CASE h # f
      <4>1. Copies(v, dest', h) = A
        BY <2>10, <3>3
      <4>2. Leading(v, stack', h) = B
        BY <1>7, <2>1, <2>11, <3>3 DEF Leading
      <4> QED BY <3>1, <4>1, <4>2
    <3> QED BY <3>2, <3>3
  <2> QED BY <2>2, <2>7, <2>8, <2>12
<1>10. CASE (Out \/ Still) /\ dest' = dest
  <2>1. Claims(stack') /\ \A q \in Seq(Name) : Owns(stack, q) => Owns(stack', q)
    <3>1. CASE Out
      BY <1>4, <1>5, <3>1, ClaimsUp DEF Out
    <3>2. CASE Still
      BY <1>4, <3>2 DEF Still
    <3> QED BY <1>10, <3>1, <3>2
  <2>2. Written(dest) \subseteq Seq(Name)
    BY <1>5 DEF IsDisk, Written
  <2>3. Seen(v, stack', Bound) = Seen(v, stack, Bound)
    BY <1>1, <1>10, ExportSeen DEF v
  <2>4. \A h : Leading(v, stack', h) = Leading(v, stack, h)
    BY <2>3 DEF Leading
  <2> QED BY <1>4, <1>10, <2>1, <2>2, <2>4
<1> QED BY <1>2, <1>8, <1>9, <1>10

LEMMA ExitFrom ==
  ASSUME WalkInv, DiskInv, CopyInv
  PROVE  ExitIsHonest
<1> SUFFICES ASSUME s.cmd = "export", pc = "done", ExitCode = 0, cycles = 0, ~SidecarNames, NEW f \in Files
    PROVE  Cardinality(CopiesOf(f)) >= Cardinality({r \in Routes(MaxDepth + 1) : Last(r).e.node = f})
  BY DEF ExitIsHonest
<1>1. failed = 0
  <2>1. ExitCode = IF failed > 0 THEN 1 ELSE 0
    BY DEF ExitCode
  <2>2. failed \in Nat
    BY DEF DiskInv
  <2> QED BY <2>1, <2>2
<1>2. stack = <<>> /\ Volume(s.vol) /\ Bound \in Nat
  BY ScenarioIs, DepthAssumption DEF WalkInv, Bound
<1>3. Routes(Bound) = Seen(s.vol, stack, Bound)
  BY <1>2, RoutesAre DEF Seen
<1>4. Cardinality(Copies(s.vol, dest, f)) >= Cardinality(Leading(s.vol, stack, f))
  BY <1>1 DEF CopyInv
<1> QED BY <1>3, <1>4 DEF CopiesOf, Copies, Whole, Leading, Bound

(* When `export` returns success and refused no directory, each route to   *)
(* a file has its own copy into which all of it went, whatever the names   *)
(* and whatever was on the destination: what a run checks on small         *)
(* volumes, for every one.                                                 *)
THEOREM ExitCodeIsHonest == Spec => []ExitIsHonest
<1>1. Init => WalkInv /\ ListInv /\ DiskInv /\ CopyInv
  BY WalkInit, ListInit, DiskInit, CopyInit
<1>2. WalkInv /\ ListInv /\ DiskInv /\ CopyInv /\ [Next]_vars => (WalkInv /\ ListInv /\ DiskInv /\ CopyInv)'
  BY WalkStep, ListStep, DiskStep, CopyStep
<1>3. WalkInv /\ ListInv /\ DiskInv /\ CopyInv => ExitIsHonest
  BY ExitFrom
<1> QED BY <1>1, <1>2, <1>3, PTL DEF Spec
=============================================================================
