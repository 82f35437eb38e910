---------------------------- MODULE NumberLemmas ----------------------------
(***************************************************************************)
(* Facts about natural numbers that the proofs about sectors, stripes and  *)
(* batches share: division by a unit, multiples of it, and least elements. *)
(***************************************************************************)
EXTENDS Integers, WellFoundedInduction, TLAPS

(* A smaller multiple leaves room for one more.                            *)
LEMMA ProductBelow ==
  ASSUME NEW a \in Nat, NEW b \in Nat, NEW s \in Nat \ {0}, a < b
  PROVE  a * s + s <= b * s
<1>1. PICK d \in Nat : b = a + 1 + d
  <2>1. b - a - 1 \in Nat /\ b = a + 1 + (b - a - 1)
    OBVIOUS
  <2> QED BY <2>1
<1>2. b * s = a * s + s + d * s
  BY <1>1
<1>3. d * s \in Nat /\ a * s \in Nat
  OBVIOUS
<1> QED BY <1>2, <1>3

(* Quotient and remainder are the only ones.                               *)
LEMMA DivModUnique ==
  ASSUME NEW a \in Nat, NEW s \in Nat \ {0}, NEW r \in 0..(s - 1)
  PROVE  (a * s + r) \div s = a /\ (a * s + r) % s = r
<1> DEFINE x == a * s + r  q == x \div s  t == x % s
<1>1. x \in Nat /\ q \in Nat /\ t \in 0..(s - 1) /\ x = q * s + t
  OBVIOUS
<1>2. ~(q < a)
  BY <1>1, ProductBelow
<1>3. ~(a < q)
  BY <1>1, ProductBelow
<1>4. q = a
  BY <1>1, <1>2, <1>3
<1> QED BY <1>1, <1>4

(* What division gives.                                                    *)
LEMMA DivMod ==
  ASSUME NEW x \in Nat, NEW s \in Nat \ {0}
  PROVE  /\ x \div s \in Nat /\ x % s \in 0..(s - 1)
         /\ x = (x \div s) * s + (x % s)
OBVIOUS

(* A set of naturals that is not empty has a least element.                *)
LEMMA LeastOf ==
  ASSUME NEW T, T \subseteq Nat, T # {}
  PROVE  \E x \in T : \A y \in T : x <= y
<1>1. PICK x \in T : \A y \in T : ~(<<y, x>> \in OpToRel(<, Nat))
  BY NatLessThanWellFounded, WFMin
<1>2. \A y \in T : ~(y < x)
  BY <1>1 DEF OpToRel
<1> QED BY <1>2

(* Adding to a multiple of the unit adds to its quotient.                  *)
LEMMA DivAdds ==
  ASSUME NEW a \in Nat, NEW i \in Nat, NEW s \in Nat \ {0}, a % s = 0
  PROVE  (a + i) \div s = (a \div s) + (i \div s)
<1> DEFINE q == a \div s
           p == i \div s
           r == i % s
<1>1. q \in Nat /\ a = q * s
  <2>1. q \in Nat /\ a = q * s + (a % s)
    BY DivMod
  <2>2. q * s \in Nat
    BY <2>1
  <2> QED BY <2>1, <2>2
<1>2. p \in Nat /\ r \in 0..(s - 1) /\ i = p * s + r
  BY DivMod
<1> HIDE DEF q, p, r
<1>3. a + i = (q + p) * s + r
  <2>1. (q + p) * s = q * s + p * s
    BY <1>1, <1>2
  <2>2. q * s \in Nat /\ p * s \in Nat
    BY <1>1, <1>2
  <2> QED BY <1>1, <1>2, <2>1, <2>2
<1>4. q + p \in Nat
  BY <1>1, <1>2
<1>5. ((q + p) * s + r) \div s = q + p
  BY <1>2, <1>4, DivModUnique
<1> QED BY <1>3, <1>5 DEF q, p

(* The distance between two multiples of the unit is one.                  *)
LEMMA MultipleDistance ==
  ASSUME NEW a \in Nat, NEW b \in Nat, NEW s \in Nat \ {0}, a % s = 0, b % s = 0, a < b
  PROVE  \E q \in Nat \ {0} : b - a = q * s
<1> DEFINE m == a \div s
           n == b \div s
<1>1. m \in Nat /\ n \in Nat /\ a = m * s + 0 /\ b = n * s + 0
  BY DivMod
<1> HIDE DEF m, n
<1>2. m * s \in Nat /\ n * s \in Nat /\ a = m * s /\ b = n * s
  BY <1>1
<1>3. m < n
  <2>1. ~(n < m)
    BY <1>1, <1>2, ProductBelow
  <2>2. n # m
    BY <1>2
  <2> QED BY <1>1, <2>1, <2>2
<1>4. n - m \in Nat \ {0} /\ n * s - m * s = (n - m) * s
  BY <1>1, <1>3
<1> QED BY <1>2, <1>4

(* Rounding a length up to whole units covers it, stays below any bound    *)
(* that is a whole number of units, and is at least one unit.              *)
LEMMA RoundedUp ==
  ASSUME NEW u \in Nat \ {0}, NEW s \in Nat \ {0}
  PROVE  /\ (u + s - 1) \div s \in Nat \ {0}
         /\ u <= ((u + s - 1) \div s) * s
         /\ \A q \in Nat : u <= q * s => ((u + s - 1) \div s) * s <= q * s
<1> DEFINE n == (u + s - 1) \div s
           r == (u + s - 1) % s
<1>1. n \in Nat /\ r \in 0..(s - 1) /\ u + s - 1 = n * s + r
  <2>1. u + s - 1 \in Nat
    OBVIOUS
  <2> QED BY <2>1, DivMod
<1> HIDE DEF n, r
<1>2. n * s \in Nat
  BY <1>1
<1>3. u <= n * s
  BY <1>1, <1>2
<1>4. n # 0
  BY <1>2, <1>3
<1>5. ASSUME NEW q \in Nat, u <= q * s, q < n PROVE FALSE
  <2>1. q * s + s <= n * s /\ q * s \in Nat
    BY <1>1, <1>5, ProductBelow
  <2> QED BY <1>1, <1>2, <1>5, <2>1
<1>6. ASSUME NEW q \in Nat, u <= q * s PROVE n * s <= q * s
  <2>1. ~(q < n)
    BY <1>5, <1>6
  <2>2. n = q \/ n < q
    BY <1>1, <2>1
  <2>3. n < q => n * s + s <= q * s
    BY <1>1, ProductBelow
  <2>4. q * s \in Nat
    OBVIOUS
  <2> QED BY <1>2, <2>2, <2>3, <2>4
<1> QED BY <1>1, <1>3, <1>4, <1>6 DEF n
=============================================================================
