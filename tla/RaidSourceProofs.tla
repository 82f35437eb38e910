-------------------------- MODULE RaidSourceProofs --------------------------
(***************************************************************************)
(* Proofs about RaidSource, for every set of drives, stripe size, defect,  *)
(* number of readers and interleaving of their runs.                       *)
(***************************************************************************)
EXTENDS RaidSource, NumberLemmas, SequenceTheorems, FiniteSetTheorems, TLAPS

-----------------------------------------------------------------------------
(* The layout.                                                             *)

LEMMA MemberFacts ==
  ASSUME NEW L \in Layouts
  PROVE  /\ L.members \in Seq(Member)
         /\ Len(L.members) \in Nat \ {0}
         /\ DOMAIN L.members = 1..Len(L.members)
         /\ \A i \in DOMAIN L.members : L.members[i] \in Member
         /\ L.limit \in Nat /\ L.stripe \in Nat
         /\ L.level \in Level
         /\ L.level = "stripe" => L.stripe # 0
BY LayoutAssumption DEF Layout, Usable

LEMMA DataLengthFacts ==
  ASSUME NEW m \in Member
  PROVE  /\ DataLength(m) \in Nat
         /\ m.offset + DataLength(m) <= m.size \/ DataLength(m) = 0
BY DEF Member, DataLength

(* Where each member's data begins: the recursive function is well defined *)
(* and it is what its definition says.                                     *)
BaseStep(L, b, n) ==
  \A i \in 0..n : b[i] = IF i = 0 THEN 0 ELSE b[i - 1] + DataLength(L.members[i])

LEMMA BaseExists ==
  ASSUME NEW L \in Layouts, NEW n \in 0..Len(L.members)
  PROVE  \E b \in [0..n -> Nat] : BaseStep(L, b, n)
<1> DEFINE Has(k) == \E b \in [0..k -> Nat] : BaseStep(L, b, k)
           T == {k \in 0..Len(L.members) : ~Has(k)}
<1>1. SUFFICES ASSUME T # {} PROVE FALSE
  OBVIOUS
<1>2. T \subseteq Nat
  BY MemberFacts
<1>3. PICK k \in T : \A j \in T : k <= j
  <2> HIDE DEF T
  <2> QED BY <1>1, <1>2, LeastOf
<1>4. k # 0
  <2>1. [i \in 0..0 |-> 0] \in [0..0 -> Nat] /\ BaseStep(L, [i \in 0..0 |-> 0], 0)
    BY DEF BaseStep
  <2> QED BY <2>1, <1>3
<1>5. k \in Nat /\ k - 1 \in 0..Len(L.members) /\ k \in DOMAIN L.members
  BY <1>3, <1>4, MemberFacts
<1>6. PICK b \in [0..(k - 1) -> Nat] : BaseStep(L, b, k - 1)
  BY <1>3, <1>5
<1>7. DataLength(L.members[k]) \in Nat
  BY <1>5, MemberFacts, DataLengthFacts
<1> DEFINE c == [i \in 0..k |-> IF i = k THEN b[k - 1] + DataLength(L.members[k]) ELSE b[i]]
<1>8. c \in [0..k -> Nat]
  BY <1>5, <1>6, <1>7
<1>9. BaseStep(L, c, k)
  <2> SUFFICES ASSUME NEW i \in 0..k
               PROVE  c[i] = IF i = 0 THEN 0 ELSE c[i - 1] + DataLength(L.members[i])
    BY DEF BaseStep
  <2>1. CASE i = k
    BY <2>1, <1>4, <1>5
  <2>2. CASE i # k
    <3>1. i \in 0..(k - 1)
      BY <2>2, <1>5
    <3>2. b[i] = IF i = 0 THEN 0 ELSE b[i - 1] + DataLength(L.members[i])
      BY <3>1, <1>6 DEF BaseStep
    <3> QED BY <2>2, <3>1, <3>2, <1>5
  <2> QED BY <2>1, <2>2
<1> QED BY <1>3, <1>8, <1>9

LEMMA BaseFacts ==
  ASSUME NEW L \in Layouts
  PROVE  /\ Base(L)[0] = 0
         /\ \A i \in 0..Len(L.members) : Base(L)[i] \in Nat
         /\ \A i \in 1..Len(L.members) :
              Base(L)[i] = Base(L)[i - 1] + DataLength(L.members[i])
<1> DEFINE n == Len(L.members)
           Law(b) == b = [i \in 0..n |-> IF i = 0 THEN 0 ELSE b[i - 1] + DataLength(L.members[i])]
<1>1. n \in Nat
  BY MemberFacts
<1>2. PICK b \in [0..n -> Nat] : BaseStep(L, b, n)
  BY <1>1, BaseExists
<1>3. Law(b)
  BY <1>2 DEF BaseStep
<1>4. Law(Base(L))
  <2>1. Base(L) = CHOOSE f : Law(f)
    BY DEF Base
  <2> QED BY <2>1, <1>3
<1>5. \A i \in 0..n : Base(L)[i] = IF i = 0 THEN 0 ELSE Base(L)[i - 1] + DataLength(L.members[i])
  BY <1>4
<1>6. \A i \in 0..n : Base(L)[i] = b[i]
  <2> DEFINE T == {i \in 0..n : Base(L)[i] # b[i]}
  <2>1. SUFFICES ASSUME T # {} PROVE FALSE
    OBVIOUS
  <2>2. T \subseteq Nat
    OBVIOUS
  <2>3. PICK k \in T : \A j \in T : k <= j
    <3> HIDE DEF T
    <3> QED BY <2>1, <2>2, LeastOf
  <2>4. k # 0 => k - 1 \in 0..n /\ k - 1 \notin T
    BY <2>3, <1>1
  <2>5. b[k] = IF k = 0 THEN 0 ELSE b[k - 1] + DataLength(L.members[k])
    BY <1>2, <2>3 DEF BaseStep
  <2> QED BY <1>5, <2>3, <2>4, <2>5
<1> QED BY <1>1, <1>2, <1>5, <1>6

LEMMA SmallestFacts ==
  ASSUME NEW L \in Layouts
  PROVE  /\ Smallest(L) \in Nat
         /\ \A i \in DOMAIN L.members : Smallest(L) <= DataLength(L.members[i])
<1> DEFINE T == Range(Lengths(L))
<1>1. T \subseteq Nat
  BY MemberFacts, DataLengthFacts DEF Range, Lengths
<1>2. 1 \in DOMAIN L.members
  BY MemberFacts
<1>3. \A i \in DOMAIN L.members : DataLength(L.members[i]) \in T
  BY DEF Range, Lengths
<1>4. \E x \in T : \A y \in T : x <= y
  <2> HIDE DEF T
  <2> QED BY <1>1, <1>2, <1>3, LeastOf
<1>5. Smallest(L) \in T /\ \A y \in T : Smallest(L) <= y
  BY <1>4 DEF Smallest
<1> HIDE DEF T
<1> QED BY <1>1, <1>3, <1>5

LEMMA SizeFacts ==
  ASSUME NEW L \in Layouts
  PROVE  /\ RawLogicalSize(L) \in Nat
         /\ LogicalSize(L) \in Nat
         /\ LogicalSize(L) <= RawLogicalSize(L)
<1>1. Len(L.members) \in Nat \ {0} /\ L.stripe \in Nat /\ L.limit \in Nat /\ L.level \in Level
  BY MemberFacts
<1>2. RawLogicalSize(L) \in Nat
  <2>1. CASE L.level = "concat"
    <3>1. Base(L)[Len(L.members)] \in Nat
      BY <1>1, BaseFacts
    <3> QED BY <2>1, <3>1 DEF RawLogicalSize
  <2>2. CASE L.level = "mirror"
    BY <2>2, SmallestFacts DEF RawLogicalSize
  <2>3. CASE L.level = "stripe"
    <3> DEFINE m == Smallest(L)
               s == L.stripe
    <3>1. m \in Nat /\ s \in Nat \ {0}
      BY <2>3, MemberFacts, SmallestFacts
    <3>2. RawLogicalSize(L) = (m - (m % s)) * Len(L.members)
      BY <2>3 DEF RawLogicalSize
    <3> HIDE DEF m, s
    <3>3. m \div s \in Nat /\ m % s \in Nat /\ m = (m \div s) * s + (m % s)
      BY <3>1, DivMod
    <3>4. (m \div s) * s \in Nat
      BY <3>1, <3>3
    <3>5. m - (m % s) \in Nat
      BY <3>1, <3>3, <3>4
    <3>6. (m - (m % s)) * Len(L.members) \in Nat
      BY <3>5, <1>1
    <3> QED BY <3>2, <3>6
  <2> QED BY <1>1, <2>1, <2>2, <2>3 DEF Level
<1> QED BY <1>1, <1>2 DEF LogicalSize

-----------------------------------------------------------------------------
(* One run.                                                                *)

(* readRun inverts the way the set was written, and it makes progress: the *)
(* run it chooses is not empty, no longer than the request, lies within    *)
(* one member and holds, sector by sector, the logical sectors asked for.  *)
IsRun(L, t, off, len) ==
  /\ t.member \in DOMAIN L.members
  /\ t.pos \in Nat
  /\ t.run \in 1..len
  /\ \A k \in 0..(t.run - 1) : Stored(L, t.member, t.pos + k) = off + k

LEMMA ConcatInverts ==
  ASSUME NEW L \in Layouts, L.level = "concat",
         NEW off \in Nat, off < LogicalSize(L), NEW len \in Nat \ {0}
  PROVE  IsRun(L, Target(L, off, len), off, len)
<1> DEFINE n == Len(L.members)
           T == {j \in 1..n : off < Base(L)[j]}
           Inside(j) == Base(L)[j - 1] <= off /\ off < Base(L)[j]
           i == CHOOSE j \in DOMAIN L.members : Inside(j)
<1>1. /\ n \in Nat \ {0} /\ DOMAIN L.members = 1..n
      /\ \A j \in 0..n : Base(L)[j] \in Nat
      /\ Base(L)[0] = 0
      /\ \A j \in 1..n : Base(L)[j] = Base(L)[j - 1] + DataLength(L.members[j])
  BY MemberFacts, BaseFacts
<1>2. off < Base(L)[n]
  BY SizeFacts, <1>1 DEF RawLogicalSize
<1>3. \E j \in DOMAIN L.members : Inside(j)
  <2>1. n \in T /\ T \subseteq Nat
    BY <1>1, <1>2
  <2>2. PICK j \in T : \A h \in T : j <= h
    <3> HIDE DEF T
    <3> QED BY <2>1, LeastOf
  <2>3. j - 1 \in 0..n /\ j - 1 \notin T
    BY <2>2, <1>1
  <2>4. Base(L)[j - 1] <= off
    BY <2>3, <1>1
  <2> QED BY <2>2, <2>4, <1>1
<1>4. i \in 1..n /\ Inside(i)
  BY <1>1, <1>3
<1> DEFINE p == off - Base(L)[i - 1]
           d == DataLength(L.members[i])
<1>5. Target(L, off, len) = [member |-> i, pos |-> p, run |-> Least(len, d - p)]
  BY DEF Target, ConcatTarget
<1>6. \A k : Stored(L, i, k) = Base(L)[i - 1] + k
  BY DEF Stored
<1> HIDE DEF i
<1>7. i - 1 \in 0..n /\ Base(L)[i - 1] \in Nat /\ d \in Nat /\ Base(L)[i] = Base(L)[i - 1] + d
  BY <1>1, <1>4, MemberFacts, DataLengthFacts
<1>8. p \in Nat /\ d - p \in Nat \ {0}
  BY <1>4, <1>7
<1>9. Least(len, d - p) \in 1..len
  BY <1>8 DEF Least
<1>10. \A k \in Nat : Base(L)[i - 1] + (p + k) = off + k
  BY <1>7
<1>11. \A k \in Nat : Stored(L, i, p + k) = off + k
  BY <1>6, <1>10
<1> HIDE DEF p, d
<1>12. Least(len, d - p) \in 1..len /\ i \in DOMAIN L.members /\ p \in Nat
  BY <1>1, <1>4, <1>8, <1>9
<1> QED BY <1>5, <1>11, <1>12 DEF IsRun

LEMMA StripeInverts ==
  ASSUME NEW L \in Layouts, L.level = "stripe",
         NEW off \in Nat, NEW len \in Nat \ {0}
  PROVE  IsRun(L, Target(L, off, len), off, len)
<1> DEFINE n == Len(L.members)
           s == L.stripe
           no == off \div s
           in == off % s
           row == no \div n
           col == no % n
           run == Least(len, s - in)
<1>1. n \in Nat \ {0} /\ DOMAIN L.members = 1..n /\ s \in Nat \ {0}
  BY MemberFacts
<1>2. no \in Nat /\ in \in 0..(s - 1) /\ off = no * s + in
  BY <1>1, DivMod
<1>3. Target(L, off, len) = [member |-> col + 1, pos |-> row * s + in, run |-> run]
  BY DEF Target, StripeTarget
<1>4. \A i, k : Stored(L, i, k) = ((k \div s) * n + (i - 1)) * s + (k % s)
  BY DEF Stored
<1> HIDE DEF n, s, no, in
<1>5. row \in Nat /\ col \in 0..(n - 1) /\ no = row * n + col
  BY <1>1, <1>2, DivMod
<1>6. run \in 1..len /\ \A k \in 0..(run - 1) : in + k \in 0..(s - 1)
  BY <1>1, <1>2 DEF Least
<1> HIDE DEF row, col, run
<1>7. row * s \in Nat
  BY <1>1, <1>5
<1>8. ASSUME NEW k \in 0..(run - 1)
      PROVE  Stored(L, col + 1, row * s + in + k) = off + k
  <2>1. in + k \in 0..(s - 1) /\ row * s + in + k = row * s + (in + k)
    BY <1>2, <1>6, <1>7
  <2>2. (row * s + (in + k)) \div s = row /\ (row * s + (in + k)) % s = in + k
    BY <2>1, <1>1, <1>5, DivModUnique
  <2>3. Stored(L, col + 1, row * s + in + k) = (row * n + ((col + 1) - 1)) * s + (in + k)
    BY <1>4, <2>1, <2>2
  <2>4. row * n + ((col + 1) - 1) = no
    BY <1>5, <1>1
  <2>5. no * s \in Nat
    BY <1>1, <1>2
  <2> QED BY <1>2, <1>6, <2>1, <2>3, <2>4, <2>5
<1>9. col + 1 \in 1..n /\ row * s + in \in Nat
  BY <1>1, <1>2, <1>5, <1>7
<1> QED BY <1>1, <1>3, <1>6, <1>8, <1>9 DEF IsRun

LEMMA TargetInverts ==
  ASSUME NEW L \in Layouts, NEW off \in Nat, off < LogicalSize(L), NEW len \in Nat \ {0}
  PROVE  IsRun(L, Target(L, off, len), off, len)
<1>1. CASE L.level = "concat"
  BY <1>1, ConcatInverts
<1>2. CASE L.level = "stripe"
  BY <1>2, StripeInverts
<1>3. CASE L.level = "mirror"
  <2>1. Target(L, off, len) = [member |-> 1, pos |-> off, run |-> len]
    BY <1>3 DEF Target, MirrorTarget
  <2>2. \A k : Stored(L, 1, k) = k
    BY <1>3 DEF Stored
  <2>3. 1 \in DOMAIN L.members
    BY MemberFacts
  <2> QED BY <2>1, <2>2, <2>3 DEF IsRun
<1> QED BY <1>1, <1>2, <1>3, MemberFacts DEF Level

(* A member returns a prefix of what it is asked for.                      *)
LEMMA GotFacts ==
  ASSUME NEW L \in Layouts, NEW i \in DOMAIN L.members, NEW pos \in Nat, NEW len \in Nat
  PROVE  /\ Got(L, i, pos, len) \in 0..len
         /\ \A k \in 0..(Got(L, i, pos, len) - 1) : ~Unreadable(L, i, pos + k)
         /\ Got(L, i, pos, len) < len => Unreadable(L, i, pos + Got(L, i, pos, len))
<1> DEFINE Stops(g) == g = len \/ Unreadable(L, i, pos + g)
           T == {g \in 0..len : Stops(g)}
           First(g) == /\ \A k \in 0..(g - 1) : ~Unreadable(L, i, pos + k)
                       /\ g < len => Unreadable(L, i, pos + g)
<1>1. T \subseteq Nat /\ len \in T
  OBVIOUS
<1>2. PICK g \in T : \A h \in T : g <= h
  <2> HIDE DEF T
  <2> QED BY <1>1, LeastOf
<1>3. First(g)
  <2>1. \A k \in 0..(g - 1) : k \in 0..len /\ k \notin T
    BY <1>2
  <2> QED BY <1>2, <2>1
<1>4. g \in 0..len
  BY <1>2
<1>5. Got(L, i, pos, len) = CHOOSE h \in 0..len : First(h)
  BY DEF Got
<1> DEFINE got == Got(L, i, pos, len)
<1>6. got \in 0..len /\ First(got)
  BY <1>3, <1>4, <1>5
<1> QED BY <1>6

-----------------------------------------------------------------------------
(* The inductive invariant: the types, and that the request was clipped to *)
(* the disk, so that every run begins inside it.                           *)

Clipped ==
  \A r \in Readers : reading[r].want = Clip(reading[r].off, reading[r].len)

RaidInv == TypeOK /\ Clipped /\ NeverWrongData

LEMMA ClipFacts ==
  ASSUME layout \in Layouts, NEW off \in Nat, NEW len \in Nat
  PROVE  /\ Clip(off, len) \in Nat
         /\ Clip(off, len) > 0 => off + Clip(off, len) <= Size
<1>1. Size \in Nat
  BY SizeFacts DEF Size
<1> QED BY <1>1 DEF Clip, Least

LEMMA RaidInit == Init => RaidInv
<1> SUFFICES ASSUME Init PROVE RaidInv
  OBVIOUS
<1>1. TypeOK
  BY DEF Init, TypeOK, Idle
<1>2. Size \in Nat
  BY SizeFacts DEF Init, Size
<1>3. Clip(0, 0) = 0
  BY <1>2 DEF Clip, Least
<1>4. Clipped
  BY <1>3 DEF Init, Clipped, Idle
<1>5. NeverWrongData
  BY DEF Init, NeverWrongData, Idle
<1> QED BY <1>1, <1>4, <1>5 DEF RaidInv

(* What a run appends: n sectors, each the one wanted there or a hole.     *)
IsPiece(r, data, n) ==
  /\ n \in 1..(reading[r].want - Len(out[r]))
  /\ data \in Seq(Nat \cup {Hole}) /\ Len(data) = n
  /\ \A k \in 1..n : data[k] \in {reading[r].off + Len(out[r]) + k - 1, Hole}

LEMMA FillKeeps ==
  ASSUME RaidInv, NEW r \in Readers, NEW n, NEW data, IsPiece(r, data, n),
         Fill(r, data), layout' = layout, reading' = reading
  PROVE  /\ out' \in [Readers -> Seq(Nat \cup {Hole})]
         /\ Clipped' /\ NeverWrongData'
<1> DEFINE S == Nat \cup {Hole}
           old == out[r]
           new == old \o data
<1>1. old \in Seq(S) /\ out \in [Readers -> Seq(S)] /\ reading[r].want \in Nat /\ reading[r].off \in Nat
  BY DEF RaidInv, TypeOK
<1>2. n \in Nat /\ data \in Seq(S) /\ Len(data) = n
  BY <1>1 DEF IsPiece
<1>3. /\ new \in Seq(S) /\ Len(new) = Len(old) + n
      /\ \A k \in 1..(Len(old) + n) : new[k] = IF k <= Len(old) THEN old[k] ELSE data[k - Len(old)]
  BY <1>1, <1>2, ConcatProperties
<1>4. out' = [out EXCEPT ![r] = new]
  BY DEF Fill
<1>5. Len(new) <= reading[r].want
  BY <1>1, <1>3 DEF IsPiece
<1>6. ASSUME NEW k \in DOMAIN new
      PROVE  new[k] \in {reading[r].off + k - 1, Hole}
  <2>1. k \in 1..(Len(old) + n)
    BY <1>3
  <2>2. CASE k <= Len(old)
    BY <1>1, <1>3, <2>1, <2>2 DEF RaidInv, NeverWrongData
  <2>3. CASE ~(k <= Len(old))
    <3>1. k - Len(old) \in 1..n
      BY <1>1, <1>2, <2>1, <2>3
    <3>2. data[k - Len(old)] \in {reading[r].off + Len(old) + (k - Len(old)) - 1, Hole}
      BY <3>1 DEF IsPiece
    <3>3. reading[r].off + Len(old) + (k - Len(old)) - 1 = reading[r].off + k - 1
      BY <1>1, <1>2, <2>1
    <3>4. new[k] = data[k - Len(old)]
      BY <1>3, <2>1, <2>3
    <3> QED BY <3>2, <3>3, <3>4
  <2> QED BY <2>2, <2>3
<1> HIDE DEF new, old
<1>7. out' \in [Readers -> Seq(S)]
  BY <1>1, <1>3, <1>4
<1>8. Clipped'
  BY DEF RaidInv, Clipped, Clip, Size
<1>9. NeverWrongData'
  BY <1>1, <1>4, <1>5, <1>6 DEF RaidInv, NeverWrongData
<1> QED BY <1>7, <1>8, <1>9

(* Where a reader is in its request, and the run it would read next.       *)
LEMMA AimFacts ==
  ASSUME RaidInv, NEW r \in Readers, Looping(r)
  PROVE  /\ reading[r].off + Len(out[r]) \in Nat
         /\ reading[r].want - Len(out[r]) \in Nat \ {0}
         /\ IsRun(layout, Aim(r), reading[r].off + Len(out[r]),
                  reading[r].want - Len(out[r]))
<1>1. /\ layout \in Layouts
      /\ reading[r].off \in Nat /\ reading[r].len \in Nat /\ reading[r].want \in Nat
      /\ Len(out[r]) \in Nat /\ Len(out[r]) < reading[r].want
  BY DEF RaidInv, TypeOK, Looping
<1>2. reading[r].off + reading[r].want <= LogicalSize(layout)
  <2>1. reading[r].want = Clip(reading[r].off, reading[r].len)
    BY DEF RaidInv, Clipped
  <2> DEFINE c == Clip(reading[r].off, reading[r].len)
  <2>2. c > 0 => reading[r].off + c <= Size
    BY <1>1, ClipFacts
  <2>3. c > 0
    BY <1>1, <2>1
  <2> HIDE DEF c
  <2> QED BY <2>1, <2>2, <2>3 DEF Size, c
<1>3. LogicalSize(layout) \in Nat
  BY <1>1, SizeFacts
<1>4. reading[r].off + Len(out[r]) < LogicalSize(layout)
  BY <1>1, <1>2, <1>3
<1> QED BY <1>1, <1>4, TargetInverts DEF Aim

(* A member of the set that is asked for the next run returns a part of    *)
(* it, and what it returns is what was wanted.                             *)
LEMMA ContentsInPlace ==
  ASSUME RaidInv, NEW r \in Readers, Looping(r),
         NEW i \in DOMAIN layout.members, i = Aim(r).member \/ layout.level = "mirror"
  PROVE  /\ GotFrom(r, i) \in 0..Aim(r).run
         /\ \A k \in 0..(Aim(r).run - 1) :
              Stored(layout, i, Aim(r).pos + k) = reading[r].off + Len(out[r]) + k
<1>1. layout \in Layouts
  BY DEF RaidInv, TypeOK
<1>2. IsRun(layout, Aim(r), reading[r].off + Len(out[r]), reading[r].want - Len(out[r]))
  BY AimFacts
<1>3. Aim(r).pos \in Nat /\ Aim(r).run \in Nat
  BY <1>2, AimFacts DEF IsRun
<1>4. GotFrom(r, i) \in 0..Aim(r).run
  BY <1>1, <1>3, GotFacts DEF GotFrom
<1>5. CASE i = Aim(r).member
  BY <1>2, <1>4, <1>5 DEF IsRun
<1>6. CASE layout.level = "mirror"
  <2>1. \A j, k : Stored(layout, j, k) = k
    BY <1>6 DEF Stored
  <2>2. \A k \in 0..(Aim(r).run - 1) :
          Stored(layout, Aim(r).member, Aim(r).pos + k) = reading[r].off + Len(out[r]) + k
    BY <1>2 DEF IsRun
  <2> QED BY <1>4, <2>1, <2>2
<1> QED BY <1>5, <1>6

LEMMA RunType ==
  ASSUME RaidInv, NEW r \in Readers, Looping(r)
  PROVE  /\ Aim(r).member \in DOMAIN layout.members
         /\ Aim(r).run \in 1..(reading[r].want - Len(out[r]))
         /\ reading[r].off + Len(out[r]) \in Nat
         /\ reading[r].want - Len(out[r]) \in Nat
BY AimFacts DEF IsRun

(* n sectors from the member, and zeros for the rest of the run.           *)
LEMMA PieceFacts ==
  ASSUME RaidInv, NEW r \in Readers, Looping(r),
         NEW i \in DOMAIN layout.members, i = Aim(r).member \/ layout.level = "mirror",
         NEW n \in 0..Aim(r).run, NEW z \in 0..(Aim(r).run - n), n + z > 0
  PROVE  IsPiece(r, Contents(layout, i, Aim(r).pos, n) \o Zeros(z), n + z)
<1> DEFINE a == Contents(layout, i, Aim(r).pos, n)
           b == Zeros(z)
           S == Nat \cup {Hole}
           at == reading[r].off + Len(out[r])
           pos == Aim(r).pos
           run == Aim(r).run
<1>1. at \in Nat /\ run \in 1..(reading[r].want - Len(out[r])) /\ reading[r].want - Len(out[r]) \in Nat
  BY RunType
<1>2. n \in Nat /\ z \in Nat /\ n + z \in 1..(reading[r].want - Len(out[r])) /\ n <= run
  BY <1>1
<1>3. \A k \in 0..(run - 1) : Stored(layout, i, pos + k) = at + k
  BY ContentsInPlace
<1>4. \A k \in 1..n : Stored(layout, i, pos + k - 1) = at + k - 1
  <2> TAKE k \in 1..n
  <2>1. k - 1 \in 0..(run - 1)
    BY <1>1, <1>2
  <2>2. pos \in Nat
    BY AimFacts DEF IsRun
  <2>3. pos + (k - 1) = pos + k - 1 /\ at + (k - 1) = at + k - 1
    BY <1>1, <2>1, <2>2
  <2> QED BY <1>3, <2>1, <2>3
<1>5. a \in [1..n -> S] /\ \A k \in 1..n : a[k] = at + k - 1
  <2> HIDE DEF at, pos
  <2>1. \A k \in 1..n : at + k - 1 \in Nat
    BY <1>1, <1>2
  <2> QED BY <1>4, <2>1 DEF Contents, pos
<1>6. b \in [1..z -> S] /\ \A k \in 1..z : b[k] = Hole
  BY DEF Zeros
<1> HIDE DEF a, b, S
<1>7. a \in Seq(S) /\ Len(a) = n /\ b \in Seq(S) /\ Len(b) = z
  BY <1>2, <1>5, <1>6
<1>8. /\ a \o b \in Seq(S) /\ Len(a \o b) = n + z
      /\ \A k \in 1..(n + z) : (a \o b)[k] = IF k <= n THEN a[k] ELSE b[k - n]
  BY <1>7, ConcatProperties
<1>10. ASSUME NEW k \in 1..(n + z) PROVE (a \o b)[k] \in {at + k - 1, Hole}
  <2>1. CASE k <= n
    BY <1>2, <1>5, <1>8, <2>1
  <2>2. CASE ~(k <= n)
    <3>1. k - n \in 1..z
      BY <1>2, <2>2
    <3> QED BY <1>6, <1>8, <2>2, <3>1
  <2> QED BY <2>1, <2>2
<1> QED BY <1>2, <1>8, <1>10 DEF IsPiece, a, b, S

(* The same without a hole.                                                *)
LEMMA WholePiece ==
  ASSUME RaidInv, NEW r \in Readers, Looping(r),
         NEW i \in DOMAIN layout.members, i = Aim(r).member \/ layout.level = "mirror",
         NEW n \in 1..Aim(r).run
  PROVE  IsPiece(r, Contents(layout, i, Aim(r).pos, n), n)
<1> DEFINE a == Contents(layout, i, Aim(r).pos, n)
<1>1. Aim(r).run \in Nat /\ n \in Nat /\ n \in 0..Aim(r).run
  BY RunType
<1>2. IsPiece(r, a \o Zeros(0), n + 0)
  BY <1>1, PieceFacts
<1>3. Zeros(0) = <<>>
  BY DEF Zeros
<1>4. a \o <<>> = a
  <2> DEFINE T == {a[k] : k \in 1..n}
  <2>1. a = [k \in 1..n |-> a[k]] /\ \A k \in 1..n : a[k] \in T
    BY DEF Contents
  <2> HIDE DEF a, T
  <2>2. a \in Seq(T)
    BY <1>1, <2>1
  <2> QED BY <2>2, ConcatEmptySeq
<1>5. n + 0 = n
  BY <1>1
<1> QED BY <1>2, <1>3, <1>4, <1>5

LEMMA BlameType ==
  ASSUME TypeOK, NEW i \in DOMAIN layout.members, NEW n \in Nat, Blame(i, n)
  PROVE  memberErrors' \in [DOMAIN layout.members -> Nat]
<1>1. memberErrors[i] + n \in Nat
  BY DEF TypeOK
<1> QED BY <1>1 DEF TypeOK, Blame

LEMMA FellType ==
  ASSUME TypeOK, layout' = layout, NEW r \in Readers,
         NEW asked \in SUBSET DOMAIN layout.members, FallShort(r, asked)
  PROVE  fell' \subseteq DOMAIN layout'.members
BY DEF TypeOK, FallShort

LEMMA AskedIs ==
  ASSUME layout \in Layouts, NEW r \in Readers, Aim(r).member \in DOMAIN layout.members
  PROVE  /\ Asked(r) \in SUBSET DOMAIN layout.members
         /\ \A i \in DOMAIN layout.members : 1..i \in SUBSET DOMAIN layout.members
<1>1. layout.members \in Seq(Member)
  BY MemberFacts, LayoutAssumption DEF Layout
<1> QED BY <1>1 DEF Asked

LEMMA RaidStep == RaidInv /\ [Next]_vars => RaidInv'
<1> SUFFICES ASSUME RaidInv, [Next]_vars PROVE RaidInv'
  OBVIOUS
<1> USE DEF RaidInv
<1>1. TypeOK
  OBVIOUS
<1>2. ASSUME NEW r \in Readers, NEW off \in 0..MaxOff, NEW len \in 0..MaxLen, ReadAt(r, off, len)
      PROVE  RaidInv'
  <2>1. layout \in Layouts /\ layout' = layout
    BY <1>1, <1>2 DEF TypeOK, ReadAt
  <2>2. off \in Nat /\ len \in Nat
    BY ReadAssumption
  <2>3. Clip(off, len) \in Nat
    BY <2>1, <2>2, ClipFacts
  <2> DEFINE req == [off |-> off, len |-> len, want |-> Clip(off, len), busy |-> TRUE]
  <2>4. req \in [off : Nat, len : Nat, want : Nat, busy : BOOLEAN]
    BY <2>2, <2>3
  <2>5. reading' = [reading EXCEPT ![r] = req] /\ out' = [out EXCEPT ![r] = <<>>]
    BY <1>2 DEF ReadAt
  <2>6. TypeOK'
    BY <1>1, <1>2, <2>4, <2>5 DEF TypeOK, ReadAt
  <2>7. \A o, l : Clip(o, l)' = Clip(o, l)
    BY <2>1 DEF Clip, Size
  <2>8. Clipped'
    BY <1>1, <2>1, <2>5 DEF Clipped, Clip, Size, TypeOK
  <2>9. NeverWrongData'
    BY <1>1, <2>3, <2>5 DEF NeverWrongData, TypeOK
  <2> QED BY <2>6, <2>8, <2>9
<1>3. ASSUME NEW r \in Readers, ReadRun(r)
      PROVE  RaidInv'
  <2> DEFINE t == Aim(r)
             data == Contents(layout, t.member, t.pos, t.run)
  <2>1. Looping(r)
    BY <1>3 DEF ReadRun
  <2>2. t.member \in DOMAIN layout.members /\ t.run \in 1..t.run
    BY <2>1, RunType
  <2>3. IsPiece(r, data, t.run)
    BY <2>1, <2>2, WholePiece
  <2>4. Fill(r, data) /\ UNCHANGED <<layout, reading, memberErrors, reads, fell>>
    BY <1>3 DEF ReadRun
  <2> HIDE DEF data, t
  <2>5. out' \in [Readers -> Seq(Nat \cup {Hole})] /\ Clipped' /\ NeverWrongData'
    BY <2>3, <2>4, FillKeeps
  <2> QED BY <1>1, <2>4, <2>5 DEF TypeOK
<1>4. ASSUME NEW r \in Readers, ReadAlternate(r)
      PROVE  RaidInv'
  <2> DEFINE t == Aim(r)
  <2>1. Looping(r)
    BY <1>4 DEF ReadAlternate
  <2>2. PICK i \in Better(r) : Fill(r, Contents(layout, i, t.pos, GotFrom(r, i)))
    BY <1>4 DEF ReadAlternate
  <2>3. /\ layout.level = "mirror" /\ i \in DOMAIN layout.members /\ 1 \in DOMAIN layout.members
        /\ GotFrom(r, i) > GotFrom(r, 1)
    <3>1. layout \in Layouts
      BY <1>1 DEF TypeOK
    <3> QED BY <2>2, <3>1, MemberFacts DEF Better
  <2>4. GotFrom(r, i) \in 0..t.run /\ GotFrom(r, 1) \in 0..t.run /\ t.run \in Nat
    BY <2>1, <2>3, ContentsInPlace, RunType
  <2>5. GotFrom(r, i) \in 1..t.run /\ t.run - GotFrom(r, 1) \in Nat
    BY <2>3, <2>4
  <2>6. IsPiece(r, Contents(layout, i, t.pos, GotFrom(r, i)), GotFrom(r, i))
    BY <2>1, <2>3, <2>5, WholePiece
  <2>7. Blame(1, t.run - GotFrom(r, 1)) /\ UNCHANGED <<layout, reading, reads>>
    BY <1>4 DEF ReadAlternate
  <2>8. memberErrors' \in [DOMAIN layout.members -> Nat]
    BY <1>1, <2>3, <2>5, <2>7, BlameType
  <2>9. out' \in [Readers -> Seq(Nat \cup {Hole})] /\ Clipped' /\ NeverWrongData'
    BY <2>2, <2>6, <2>7, FillKeeps
  <2>10. fell' \subseteq DOMAIN layout'.members
    <3>1. PICK j \in Better(r) : FallShort(r, 1..j)
      BY <1>4 DEF ReadAlternate
    <3>2. layout \in Layouts /\ t.member \in DOMAIN layout.members
      BY <1>1, <2>1, RunType DEF TypeOK
    <3>4. j \in DOMAIN layout.members
      <4>1. layout.members \in Seq(Member)
        BY <3>2, LayoutAssumption DEF Layout
      <4> QED BY <2>3, <3>1, <4>1 DEF Better
    <3>3. 1..j \in SUBSET DOMAIN layout.members
      BY <3>2, <3>4, AskedIs
    <3> QED BY <1>1, <2>7, <3>1, <3>3, FellType
  <2> QED BY <1>1, <2>7, <2>8, <2>9, <2>10 DEF TypeOK
<1>5. ASSUME NEW r \in Readers, ReadWithHole(r)
      PROVE  RaidInv'
  <2> DEFINE t == Aim(r)
             got == GotFrom(r, t.member)
             data == Contents(layout, t.member, t.pos, got) \o Zeros(t.run - got)
  <2>1. Looping(r) /\ got < t.run
    BY <1>5 DEF ReadWithHole
  <2>2. t.member \in DOMAIN layout.members /\ t.run \in Nat
    BY <2>1, RunType
  <2>3. got \in 0..t.run
    BY <2>1, <2>2, ContentsInPlace
  <2>4. t.run - got \in Nat /\ t.run - got \in 0..(t.run - got) /\ got + (t.run - got) > 0
    BY <2>1, <2>2, <2>3
  <2>5. IsPiece(r, data, got + (t.run - got))
    BY <2>1, <2>2, <2>3, <2>4, PieceFacts
  <2>6. Fill(r, data) /\ Blame(t.member, t.run - got) /\ UNCHANGED <<layout, reading, reads>>
    BY <1>5 DEF ReadWithHole
  <2>9. fell' \subseteq DOMAIN layout'.members
    <3>1. FallShort(r, Asked(r))
      BY <1>5 DEF ReadWithHole
    <3>2. Asked(r) \in SUBSET DOMAIN layout.members
      BY <1>1, <2>2, AskedIs DEF TypeOK
    <3> QED BY <1>1, <2>6, <3>1, <3>2, FellType
  <2> HIDE DEF data, got, t
  <2>7. out' \in [Readers -> Seq(Nat \cup {Hole})] /\ Clipped' /\ NeverWrongData'
    BY <2>5, <2>6, FillKeeps
  <2>8. memberErrors' \in [DOMAIN layout.members -> Nat]
    BY <1>1, <2>2, <2>4, <2>6, BlameType
  <2> QED BY <1>1, <2>6, <2>7, <2>8, <2>9 DEF TypeOK
<1>6. ASSUME NEW r \in Readers, Return(r)
      PROVE  RaidInv'
  <2>1. reading' = [reading EXCEPT ![r].busy = FALSE]
    BY <1>6 DEF Return
  <2>2. TypeOK'
    BY <1>1, <1>6 DEF TypeOK, Return
  <2>3. \A s \in Readers : /\ reading'[s].off = reading[s].off /\ reading'[s].len = reading[s].len
                            /\ reading'[s].want = reading[s].want
    BY <1>1, <2>1 DEF TypeOK
  <2>4. Clipped' /\ NeverWrongData'
    BY <1>6, <2>3 DEF Return, Clipped, Clip, Size, NeverWrongData
  <2> QED BY <2>2, <2>4
<1>7. CASE UNCHANGED vars
  BY <1>7 DEF vars, TypeOK, Clipped, Clip, Size, NeverWrongData
<1> QED BY <1>2, <1>3, <1>4, <1>5, <1>6, <1>7 DEF Next, Step, Quiet

-----------------------------------------------------------------------------
(* The theorems.                                                           *)

(* The variables keep their types: no read past the end of a member or of  *)
(* the set makes a position or a length negative.                          *)
THEOREM RaidTypes == Spec => []TypeOK
<1>1. RaidInv => TypeOK
  BY DEF RaidInv
<1> QED BY RaidInit, RaidStep, <1>1, PTL DEF Spec

(* "Never wrong data": whatever the level, the stripe size, the members'   *)
(* reserves, their defects and the interleaving of the readers, a sector   *)
(* of a buffer is the sector asked for at its place, or a hole.            *)
THEOREM RaidNeverLies == Spec => []NeverWrongData
<1>1. RaidInv => NeverWrongData
  BY DEF RaidInv
<1> QED BY RaidInit, RaidStep, <1>1, PTL DEF Spec

(* A set of drives is a logical disk: every read that returns is answered  *)
(* in full up to the end of the disk, with the right sectors or holes, and *)
(* the size never changes.                                                 *)
THEOREM RaidIsADisk == Spec => ImplementsDisk
<1>1. Init => Disk!Init
  <2> SUFFICES ASSUME Init PROVE Disk!Init
    OBVIOUS
  <2>1. Size \in Nat
    BY SizeFacts DEF Init, Size
  <2> QED BY <2>1 DEF Init, Disk!Init, Disk!Idle, Idle
<1>2. RaidInv /\ [Next]_vars => [Disk!Next]_(Disk!vars)
  <2> SUFFICES ASSUME RaidInv, [Next]_vars PROVE [Disk!Next]_(Disk!vars)
    OBVIOUS
  <2> DEFINE request == [r \in Readers |-> [off |-> reading[r].off, len |-> reading[r].len,
                                         busy |-> reading[r].busy]]
             answer == [r \in Readers |-> IF reading[r].busy THEN <<>> ELSE out[r]]
  <2>1. TypeOK /\ Size \in Nat
    BY SizeFacts DEF RaidInv, TypeOK, Size
  <2>2. ASSUME NEW r \in Readers, NEW off \in 0..MaxOff, NEW len \in 0..MaxLen, ReadAt(r, off, len)
        PROVE  Disk!Ask(r)
    <3>1. Size' = Size
      BY <2>2 DEF ReadAt, Size
    <3>2. request' = [request EXCEPT ![r] = [off |-> off, len |-> len, busy |-> TRUE]]
      BY <2>1, <2>2 DEF ReadAt, TypeOK
    <3>3. answer' = [answer EXCEPT ![r] = <<>>]
      BY <2>1, <2>2 DEF ReadAt, TypeOK
    <3>4. ~request[r].busy
      BY <2>2 DEF ReadAt
    <3> QED BY <3>1, <3>2, <3>3, <3>4 DEF Disk!Ask
  <2>3. ASSUME NEW r \in Readers, Return(r)
        PROVE  Disk!Answer(r)
    <3>1. Size' = Size
      BY <2>3 DEF Return, Size
    <3>2. request' = [request EXCEPT ![r].busy = FALSE]
      BY <2>1, <2>3 DEF Return, TypeOK
    <3>3. answer' = [answer EXCEPT ![r] = answer'[r]]
      BY <2>1, <2>3 DEF Return, TypeOK
    <3>4. request[r].busy
      BY <2>3 DEF Return
    <3>5. answer'[r] = out[r]
      BY <2>1, <2>3 DEF Return, TypeOK
    <3>6. Disk!IsAnswer(out[r], reading[r].off, reading[r].len)
      <4>1. /\ Len(out[r]) = reading[r].want
            /\ \A k \in DOMAIN out[r] : out[r][k] \in {reading[r].off + k - 1, Hole}
        BY <2>1, <2>3 DEF RaidInv, NeverWrongData, TypeOK, Return, Looping
      <4>2. reading[r].want = Disk!Clipped(reading[r].off, reading[r].len)
        BY <2>1 DEF RaidInv, Clipped, Clip, Least, Disk!Clipped, TypeOK
      <4>3. DOMAIN out[r] = 1..Len(out[r])
        BY <2>1 DEF TypeOK
      <4> QED BY <4>1, <4>2, <4>3 DEF Disk!IsAnswer
    <3> QED BY <3>1, <3>2, <3>3, <3>4, <3>5, <3>6 DEF Disk!Answer
  <2>4. ASSUME NEW r \in Readers, Looping(r), reading' = reading, layout' = layout,
               \A s \in Readers \ {r} : out'[s] = out[s]
        PROVE  UNCHANGED Disk!vars
    <3>1. Size' = Size
      BY <2>4 DEF Size
    <3>2. request' = request
      BY <2>4
    <3>3. answer' = answer
      BY <2>4 DEF Looping
    <3> QED BY <3>1, <3>2, <3>3 DEF Disk!vars
  <2>5. ASSUME NEW r \in Readers, ReadRun(r) \/ ReadAlternate(r) \/ ReadWithHole(r)
        PROVE  UNCHANGED Disk!vars
    <3>1. Looping(r) /\ reading' = reading /\ layout' = layout
      BY <2>5 DEF ReadRun, ReadAlternate, ReadWithHole
    <3>2. \E data : out' = [out EXCEPT ![r] = data]
      BY <2>5 DEF ReadRun, ReadAlternate, ReadWithHole, Fill
    <3>3. \A s \in Readers \ {r} : out'[s] = out[s]
      BY <2>1, <3>2 DEF TypeOK
    <3> QED BY <2>4, <3>1, <3>3
  <2>6. CASE UNCHANGED vars
    BY <2>6 DEF vars, Disk!vars, Size
  <2> QED BY <2>2, <2>3, <2>5, <2>6 DEF Next, Step, Quiet, Disk!Next
<1> QED BY RaidInit, RaidStep, <1>1, <1>2, PTL DEF Spec, ImplementsDisk, Disk!Spec

(* A read that has returned left its buffer full up to the end of the disk. *)
Answered == \A r \in Readers : ~reading[r].busy => Len(out[r]) = reading[r].want

LEMMA AnsweredStep == RaidInv /\ Answered /\ [Next]_vars => Answered'
<1> SUFFICES ASSUME RaidInv, Answered, [Next]_vars, NEW q \in Readers, ~reading'[q].busy
             PROVE  Len(out'[q]) = reading'[q].want
  BY DEF Answered
<1>1. TypeOK /\ NeverWrongData
  BY DEF RaidInv
<1>2. ASSUME NEW r \in Readers, NEW off \in 0..MaxOff, NEW len \in 0..MaxLen, ReadAt(r, off, len)
      PROVE  Len(out'[q]) = reading'[q].want
  <2>1. q # r
    BY <1>1, <1>2 DEF TypeOK, ReadAt
  <2>2. out'[q] = out[q] /\ reading'[q] = reading[q]
    BY <1>1, <1>2, <2>1 DEF TypeOK, ReadAt
  <2> QED BY <2>2 DEF Answered
<1>3. ASSUME NEW r \in Readers, Looping(r), reading' = reading, \E data : Fill(r, data)
      PROVE  Len(out'[q]) = reading'[q].want
  <2>1. q # r
    BY <1>3 DEF Looping
  <2>2. out'[q] = out[q]
    BY <1>1, <1>3, <2>1 DEF TypeOK, Fill
  <2> QED BY <1>3, <2>2 DEF Answered
<1>4. ASSUME NEW r \in Readers, ReadRun(r) \/ ReadAlternate(r) \/ ReadWithHole(r)
      PROVE  Len(out'[q]) = reading'[q].want
  <2>1. Looping(r) /\ reading' = reading /\ \E data : Fill(r, data)
    BY <1>4 DEF ReadRun, ReadAlternate, ReadWithHole
  <2> QED BY <1>3, <2>1
<1>5. ASSUME NEW r \in Readers, Return(r)
      PROVE  Len(out'[q]) = reading'[q].want
  <2>1. reading'[q].want = reading[q].want /\ out'[q] = out[q]
    BY <1>1, <1>5 DEF TypeOK, Return
  <2>2. CASE q = r
    BY <1>1, <1>5, <2>1, <2>2 DEF TypeOK, NeverWrongData, Return, Looping
  <2>3. CASE q # r
    <3>1. ~reading[q].busy
      BY <1>1, <1>5, <2>3 DEF TypeOK, Return
    <3> QED BY <2>1, <3>1 DEF Answered
  <2> QED BY <2>2, <2>3
<1>6. CASE UNCHANGED vars
  BY <1>6 DEF vars, Answered
<1> QED BY <1>2, <1>4, <1>5, <1>6 DEF Next, Step, Quiet

(* No short answers: a bad sector is never mistaken for the end of the     *)
(* data, whichever drives fail and wherever.                               *)
THEOREM RaidAnswersInFull == Spec => []FullLength
<1>1. Init => Answered
  BY DEF Init, Answered, Idle
<1>2. RaidInv /\ Answered => FullLength
  BY DEF RaidInv, Answered, Clipped, FullLength, Returned
<1> QED BY RaidInit, RaidStep, AnsweredStep, <1>1, <1>2, PTL DEF Spec

-----------------------------------------------------------------------------
(* Healthy drives.                                                         *)

(* The run a reader wants lies within the data area of the member: never   *)
(* in the reserve in front of it nor in the unused tail of a larger drive. *)
LEMMA RunInside ==
  ASSUME NEW L \in Layouts, NEW off \in Nat, NEW len \in Nat \ {0},
         off + len <= LogicalSize(L)
  PROVE  LET t == Target(L, off, len)
         IN  t.pos + t.run <= DataLength(L.members[t.member])
<1>1. /\ off < LogicalSize(L) /\ off + len <= RawLogicalSize(L)
      /\ LogicalSize(L) \in Nat /\ RawLogicalSize(L) \in Nat
  BY SizeFacts
<1> DEFINE t == Target(L, off, len)
<1>2. IsRun(L, t, off, len)
  BY <1>1, TargetInverts
<1>3. t.member \in DOMAIN L.members /\ t.pos \in Nat /\ t.run \in Nat /\ t.run <= len
  BY <1>2 DEF IsRun
<1>4. DataLength(L.members[t.member]) \in Nat /\ Smallest(L) <= DataLength(L.members[t.member]) /\ Smallest(L) \in Nat
  BY <1>3, MemberFacts, DataLengthFacts, SmallestFacts
<1>5. CASE L.level = "concat"
  <2> DEFINE i == t.member
             d == DataLength(L.members[i])
  <2>1. t.run = Least(len, d - t.pos)
    <3> DEFINE c == CHOOSE j \in DOMAIN L.members : Base(L)[j - 1] <= off /\ off < Base(L)[j]
    <3>1. t = [member |-> c, pos |-> off - Base(L)[c - 1],
               run |-> Least(len, DataLength(L.members[c]) - (off - Base(L)[c - 1]))]
      BY <1>5 DEF Target, ConcatTarget
    <3> HIDE DEF c, t
    <3> QED BY <3>1
  <2> HIDE DEF t
  <2>2. t.run <= d - t.pos
    BY <1>3, <1>4, <2>1 DEF Least
  <2> QED BY <1>3, <1>4, <2>2 DEF t
<1>6. CASE L.level = "mirror"
  <2>1. t.pos = off /\ t.run = len
    BY <1>6 DEF Target, MirrorTarget
  <2>2. RawLogicalSize(L) = Smallest(L)
    BY <1>6 DEF RawLogicalSize
  <2> QED BY <1>1, <1>4, <2>1, <2>2
<1>7. CASE L.level = "stripe"
  <2> DEFINE n == Len(L.members)
             s == L.stripe
             m == Smallest(L)
             no == off \div s
             in == off % s
             row == no \div n
             q == m \div s
  <2>1. n \in Nat \ {0} /\ s \in Nat \ {0} /\ m \in Nat
    BY <1>7, MemberFacts, SmallestFacts
  <2>2. t.pos = row * s + in /\ t.run = Least(len, s - in)
    BY <1>7 DEF Target, StripeTarget
  <2>3. RawLogicalSize(L) = (m - (m % s)) * n
    BY <1>7 DEF RawLogicalSize
  <2> HIDE DEF n, s, m, t
  <2>4. no \in Nat /\ in \in 0..(s - 1) /\ off = no * s + in
    BY <2>1, DivMod
  <2>5. q \in Nat /\ m % s \in Nat /\ m = q * s + (m % s)
    <3>1. q \in Nat /\ m % s \in 0..(s - 1) /\ m = q * s + (m % s)
      BY <2>1, DivMod
    <3> QED BY <3>1, <2>1
  <2> HIDE DEF no, in, q
  <2>6. row \in Nat /\ no % n \in 0..(n - 1) /\ no = row * n + (no % n)
    BY <2>1, <2>4, DivMod
  <2> HIDE DEF row
  <2>7. q * s \in Nat /\ row * s \in Nat /\ no * s \in Nat /\ q * n \in Nat /\ row * n \in Nat
    BY <2>1, <2>4, <2>5, <2>6
  <2>8. RawLogicalSize(L) = (q * s) * n
    <3>1. m - (m % s) = q * s
      BY <2>1, <2>5, <2>7
    <3> QED BY <2>3, <3>1
  <2>9. (q * s) * n = (q * n) * s
    BY <2>1, <2>5
  <2>10. no < q * n
    <3>1. no * s < (q * n) * s
      BY <1>1, <2>4, <2>7, <2>8, <2>9
    <3>2. ~(q * n < no)
      BY <2>1, <2>4, <2>7, <3>1, ProductBelow
    <3> QED BY <2>4, <2>7, <3>1, <3>2
  <2>11. row < q
    <3>1. ~(q < row)
      BY <2>1, <2>4, <2>5, <2>6, <2>7, <2>10, ProductBelow
    <3>2. row # q
      BY <2>1, <2>4, <2>5, <2>6, <2>7, <2>10
    <3> QED BY <2>5, <2>6, <3>1, <3>2
  <2>12. row * s + s <= q * s
    BY <2>1, <2>5, <2>6, <2>11, ProductBelow
  <2>13. q * s <= m
    BY <2>1, <2>5, <2>7
  <2>14. t.run <= s - in
    BY <2>1, <2>2, <2>4, <1>3 DEF Least
  <2>15. t.pos + t.run <= m
    BY <1>3, <2>1, <2>2, <2>4, <2>7, <2>12, <2>13, <2>14
  <2> QED BY <1>3, <1>4, <2>15 DEF m, t
<1>8. L.level \in Level
  BY MemberFacts
<1> QED BY <1>5, <1>6, <1>7, <1>8 DEF Level

(* A request is clipped to the disk, so what is left of it is inside.      *)
LEMMA RestInside ==
  ASSUME RaidInv, NEW r \in Readers, Looping(r)
  PROVE  /\ reading[r].off + Len(out[r]) \in Nat
         /\ reading[r].want - Len(out[r]) \in Nat \ {0}
         /\ (reading[r].off + Len(out[r])) + (reading[r].want - Len(out[r])) <= LogicalSize(layout)
<1> DEFINE c == Clip(reading[r].off, reading[r].len)
<1>1. /\ layout \in Layouts
      /\ reading[r].off \in Nat /\ reading[r].len \in Nat /\ reading[r].want \in Nat
      /\ Len(out[r]) \in Nat /\ Len(out[r]) < reading[r].want /\ reading[r].want = c
  BY DEF RaidInv, TypeOK, Looping, Clipped
<1>2. c > 0 => reading[r].off + c <= Size
  BY <1>1, ClipFacts
<1>3. Size \in Nat
  BY <1>1, SizeFacts DEF Size
<1> HIDE DEF c
<1> QED BY <1>1, <1>2, <1>3 DEF Size

(* The same for every member that can be asked for the run: the one it is  *)
(* aimed at and, in a mirror, all of them.                                 *)
LEMMA RunInsideAll ==
  ASSUME RaidInv, NEW r \in Readers, Looping(r),
         NEW i \in DOMAIN layout.members, i = Aim(r).member \/ layout.level = "mirror"
  PROVE  /\ Aim(r).pos \in Nat /\ Aim(r).run \in Nat /\ Aim(r).run > 0
         /\ Aim(r).pos + Aim(r).run <= DataLength(layout.members[i])
<1> DEFINE off == reading[r].off + Len(out[r])
           len == reading[r].want - Len(out[r])
<1>1. /\ layout \in Layouts /\ off \in Nat /\ len \in Nat \ {0}
      /\ off + len <= LogicalSize(layout) /\ Aim(r) = Target(layout, off, len)
  BY RestInside DEF RaidInv, TypeOK, Aim
<1>2. Aim(r).pos \in Nat /\ Aim(r).run \in Nat /\ Aim(r).run > 0
  BY AimFacts DEF IsRun
<1> HIDE DEF off, len
<1>3. CASE i = Aim(r).member
  BY <1>1, <1>2, <1>3, RunInside
<1>4. CASE layout.level = "mirror"
  <2>1. Aim(r).pos = off /\ Aim(r).run = len
    BY <1>1, <1>4 DEF Target, MirrorTarget
  <2>2. RawLogicalSize(layout) = Smallest(layout)
    BY <1>4 DEF RawLogicalSize
  <2>3. /\ LogicalSize(layout) \in Nat /\ LogicalSize(layout) <= RawLogicalSize(layout)
        /\ Smallest(layout) \in Nat /\ Smallest(layout) <= DataLength(layout.members[i])
        /\ DataLength(layout.members[i]) \in Nat
    BY <1>1, SizeFacts, SmallestFacts, MemberFacts, DataLengthFacts
  <2> QED BY <1>1, <1>2, <2>1, <2>2, <2>3
<1> QED BY <1>3, <1>4

(* A drive without bad sectors gives all it is asked for; so a drive that  *)
(* falls short has some.                                                   *)
LEMMA GoodDriveGivesAll ==
  ASSUME RaidInv, NEW r \in Readers, Looping(r),
         NEW i \in DOMAIN layout.members, i = Aim(r).member \/ layout.level = "mirror",
         i \notin Sick
  PROVE  GotFrom(r, i) = Aim(r).run
<1> DEFINE t == Aim(r)
           m == layout.members[i]
           got == GotFrom(r, i)
<1>1. /\ layout \in Layouts /\ t.pos \in Nat /\ t.run \in Nat /\ t.run > 0
      /\ t.pos + t.run <= DataLength(m)
  BY RunInsideAll DEF RaidInv, TypeOK
<1>2. m \in Member /\ m.bad = {}
  BY <1>1, MemberFacts DEF Sick
<1>3. got \in 0..t.run /\ (got < t.run => Unreadable(layout, i, t.pos + got))
  BY <1>1, GotFacts DEF GotFrom
<1>4. m.offset + DataLength(m) <= m.size /\ m.offset \in Nat /\ m.size \in Nat /\ DataLength(m) \in Nat
  <2>1. DataLength(m) # 0
    BY <1>1
  <2> QED BY <1>2, <2>1, DataLengthFacts DEF Member
<1>5. ASSUME got < t.run PROVE FALSE
  <2>1. m.offset + (t.pos + got) >= m.size
    BY <1>2, <1>3, <1>5 DEF Unreadable
  <2> HIDE DEF got, t, m
  <2> QED BY <1>1, <1>3, <1>4, <1>5, <2>1
<1> HIDE DEF got, t
<1>6. got = t.run
  BY <1>1, <1>3, <1>5
<1> QED BY <1>6 DEF got, t

(* Sectors read from a member hold no hole.                                *)
LEMMA ContentsWhole ==
  ASSUME RaidInv, NEW r \in Readers, Looping(r),
         NEW i \in DOMAIN layout.members, i = Aim(r).member \/ layout.level = "mirror",
         NEW n \in 0..Aim(r).run
  PROVE  /\ Contents(layout, i, Aim(r).pos, n) \in Seq(Nat \cup {Hole})
         /\ Len(Contents(layout, i, Aim(r).pos, n)) = n
         /\ \A k \in 1..n : Contents(layout, i, Aim(r).pos, n)[k] # Hole
<1> DEFINE at == reading[r].off + Len(out[r])
           pos == Aim(r).pos
           run == Aim(r).run
           data == Contents(layout, i, pos, n)
           S == Nat \cup {Hole}
<1>1. at \in Nat /\ run \in Nat /\ pos \in Nat /\ n \in Nat
  BY RunType, AimFacts DEF IsRun
<1>2. \A k \in 0..(run - 1) : Stored(layout, i, pos + k) = at + k
  BY ContentsInPlace
<1> HIDE DEF at, pos, run
<1>3. ASSUME NEW k \in 1..n PROVE Stored(layout, i, pos + k - 1) = at + (k - 1)
  <2>1. k - 1 \in 0..(run - 1) /\ pos + k - 1 = pos + (k - 1)
    BY <1>1 DEF run
  <2> QED BY <1>2, <2>1
<1>4. \A k \in 1..n : data[k] \in Nat
  <2> TAKE k \in 1..n
  <2>1. data[k] = at + (k - 1)
    BY <1>3 DEF Contents
  <2> HIDE DEF data
  <2> QED BY <1>1, <2>1
<1>5. data \in [1..n -> S]
  <2>1. data = [k \in 1..n |-> data[k]]
    BY DEF Contents
  <2> HIDE DEF data
  <2> QED BY <1>4, <2>1
<1> HIDE DEF data, S
<1>6. data \in Seq(S) /\ Len(data) = n
  BY <1>1, <1>5
<1> QED BY <1>4, <1>6, ReadAssumption DEF data, S, pos

(* What a run leaves in the buffers.                                       *)
LEMMA FillPoints ==
  ASSUME TypeOK, NEW r \in Readers, NEW data \in Seq(Nat \cup {Hole}), Fill(r, data)
  PROVE  /\ Len(out[r]) \in Nat /\ DOMAIN out[r] = 1..Len(out[r]) /\ Len(data) \in Nat
         /\ DOMAIN out'[r] = 1..(Len(out[r]) + Len(data))
         /\ \A k \in 1..(Len(out[r]) + Len(data)) :
              out'[r][k] = IF k <= Len(out[r]) THEN out[r][k] ELSE data[k - Len(out[r])]
         /\ \A s \in Readers \ {r} : out'[s] = out[s]
<1> DEFINE S == Nat \cup {Hole}
           old == out[r]
           new == old \o data
<1>1. old \in Seq(S) /\ data \in Seq(S) /\ out'[r] = new /\ \A s \in Readers \ {r} : out'[s] = out[s]
  BY DEF TypeOK, Fill
<1> HIDE DEF S, old
<1>2. /\ new \in Seq(S) /\ Len(new) = Len(old) + Len(data)
      /\ \A k \in 1..(Len(old) + Len(data)) :
           new[k] = IF k <= Len(old) THEN old[k] ELSE data[k - Len(old)]
  BY <1>1, ConcatProperties
<1> HIDE DEF new
<1>3. DOMAIN new = 1..(Len(old) + Len(data)) /\ Len(old) \in Nat /\ Len(data) \in Nat /\ DOMAIN old = 1..Len(old)
  BY <1>1, <1>2
<1> QED BY <1>1, <1>2, <1>3 DEF old

(* Where holes come from: a hole was there before the step, in the same    *)
(* request, or the step is one that found nobody to fill the run.          *)
LEMMA HoleOrigin ==
  ASSUME RaidInv, [Next]_vars, NEW q \in Readers, NEW k \in Holes(q)'
  PROVE  \/ k \in Holes(q) /\ reading'[q].off = reading[q].off
         \/ ReadWithHole(q) /\ k \in (Len(out[q]) + 1)..(Len(out[q]) + Aim(q).run)
<1> DEFINE S == Nat \cup {Hole}
<1>1. TypeOK /\ layout' = layout /\ layout \in Layouts
  BY DEF RaidInv, TypeOK, Next, Step, Quiet, ReadRun, ReadAlternate, ReadWithHole, Return, ReadAt, vars
<1>2. ASSUME out'[q] = out[q], reading'[q].off = reading[q].off
      PROVE  k \in Holes(q) /\ reading'[q].off = reading[q].off
  BY <1>2 DEF Holes
<1>3. ASSUME NEW r \in Readers, NEW off \in 0..MaxOff, NEW len \in 0..MaxLen, ReadAt(r, off, len)
      PROVE  k \in Holes(q) /\ reading'[q].off = reading[q].off
  <2>1. q = r => out'[q] = <<>>
    BY <1>1, <1>3 DEF TypeOK, ReadAt
  <2>2. q # r
    BY <2>1 DEF Holes
  <2>3. out'[q] = out[q] /\ reading'[q] = reading[q]
    BY <1>1, <1>3, <2>2 DEF TypeOK, ReadAt
  <2> QED BY <1>2, <2>3
<1>4. ASSUME NEW r \in Readers, reading' = reading, NEW data \in Seq(S), Fill(r, data),
             \A j \in 1..Len(data) : data[j] # Hole
      PROVE  k \in Holes(q) /\ reading'[q].off = reading[q].off
  <2>1. CASE q # r
    BY <1>1, <1>2, <1>4, <2>1, FillPoints
  <2>2. CASE q = r
    <3>1. /\ Len(out[q]) \in Nat /\ Len(data) \in Nat /\ DOMAIN out[q] = 1..Len(out[q])
          /\ DOMAIN out'[q] = 1..(Len(out[q]) + Len(data))
          /\ \A j \in 1..(Len(out[q]) + Len(data)) :
               out'[q][j] = IF j <= Len(out[q]) THEN out[q][j] ELSE data[j - Len(out[q])]
      BY <1>1, <1>4, <2>2, FillPoints
    <3>2. k \in 1..(Len(out[q]) + Len(data)) /\ out'[q][k] = Hole
      BY <3>1 DEF Holes
    <3>3. k <= Len(out[q])
      <4>1. SUFFICES ASSUME ~(k <= Len(out[q])) PROVE FALSE
        OBVIOUS
      <4>2. k - Len(out[q]) \in 1..Len(data)
        BY <3>1, <3>2, <4>1
      <4> QED BY <1>4, <3>1, <3>2, <4>1, <4>2
    <3>4. k \in DOMAIN out[q] /\ out[q][k] = Hole
      BY <3>1, <3>2, <3>3
    <3> QED BY <1>4, <3>4 DEF Holes
  <2> QED BY <2>1, <2>2
<1>5. ASSUME NEW r \in Readers, ReadRun(r)
      PROVE  k \in Holes(q) /\ reading'[q].off = reading[q].off
  <2> DEFINE data == Contents(layout, Aim(r).member, Aim(r).pos, Aim(r).run)
  <2>1. Looping(r) /\ Fill(r, data) /\ reading' = reading
    BY <1>5 DEF ReadRun
  <2>2. Aim(r).member \in DOMAIN layout.members /\ Aim(r).run \in 0..Aim(r).run
    BY <2>1, RunType
  <2>3. data \in Seq(S) /\ \A j \in 1..Len(data) : data[j] # Hole
    BY <2>1, <2>2, ContentsWhole
  <2> HIDE DEF data
  <2> QED BY <1>4, <2>1, <2>3
<1>6. ASSUME NEW r \in Readers, ReadAlternate(r)
      PROVE  k \in Holes(q) /\ reading'[q].off = reading[q].off
  <2>1. PICK i \in Better(r) : Fill(r, Contents(layout, i, Aim(r).pos, GotFrom(r, i)))
    BY <1>6 DEF ReadAlternate
  <2> DEFINE data == Contents(layout, i, Aim(r).pos, GotFrom(r, i))
  <2>2. Looping(r) /\ Fill(r, data) /\ reading' = reading
    BY <1>6, <2>1 DEF ReadAlternate
  <2>3. layout.level = "mirror" /\ i \in DOMAIN layout.members
    BY <1>1, <2>1, MemberFacts DEF Better
  <2>4. GotFrom(r, i) \in 0..Aim(r).run
    BY <2>2, <2>3, ContentsInPlace
  <2>5. data \in Seq(S) /\ \A j \in 1..Len(data) : data[j] # Hole
    BY <2>2, <2>3, <2>4, ContentsWhole
  <2> HIDE DEF data
  <2> QED BY <1>4, <2>2, <2>5
<1>7. ASSUME NEW r \in Readers, ReadWithHole(r)
      PROVE  \/ k \in Holes(q) /\ reading'[q].off = reading[q].off
             \/ q = r /\ k \in (Len(out[q]) + 1)..(Len(out[q]) + Aim(q).run)
  <2> DEFINE got == GotFrom(r, Aim(r).member)
             data == Contents(layout, Aim(r).member, Aim(r).pos, got) \o Zeros(Aim(r).run - got)
  <2>1. Looping(r) /\ Fill(r, data) /\ reading' = reading /\ got < Aim(r).run
    BY <1>7 DEF ReadWithHole
  <2>2. Aim(r).member \in DOMAIN layout.members /\ Aim(r).run \in Nat /\ got \in 0..Aim(r).run
    BY <2>1, RunType, ContentsInPlace
  <2>3. IsPiece(r, data, got + (Aim(r).run - got))
    <3>1. Aim(r).run - got \in 0..(Aim(r).run - got) /\ got + (Aim(r).run - got) > 0
      BY <2>1, <2>2
    <3> HIDE DEF got
    <3> QED BY <2>1, <2>2, <3>1, PieceFacts
  <2>4. data \in Seq(S) /\ Len(data) = Aim(r).run
    <3>1. got + (Aim(r).run - got) = Aim(r).run
      BY <2>2
    <3> QED BY <2>3, <3>1 DEF IsPiece
  <2> HIDE DEF data, got
  <2>5. CASE q # r
    BY <1>1, <1>2, <2>1, <2>4, <2>5, FillPoints
  <2>6. CASE q = r
    <3>1. /\ Len(out[q]) \in Nat /\ DOMAIN out[q] = 1..Len(out[q])
          /\ DOMAIN out'[q] = 1..(Len(out[q]) + Aim(q).run)
          /\ \A j \in 1..(Len(out[q]) + Aim(q).run) : j <= Len(out[q]) => out'[q][j] = out[q][j]
      BY <1>1, <2>1, <2>4, <2>6, FillPoints
    <3>2. k \in 1..(Len(out[q]) + Aim(q).run) /\ out'[q][k] = Hole
      BY <3>1 DEF Holes
    <3>3. CASE k <= Len(out[q])
      <4>1. k \in DOMAIN out[q] /\ out[q][k] = Hole
        BY <3>1, <3>2, <3>3
      <4> QED BY <2>1, <4>1 DEF Holes
    <3>4. CASE ~(k <= Len(out[q]))
      BY <2>2, <2>6, <3>1, <3>2, <3>4
    <3> QED BY <3>3, <3>4
  <2> QED BY <2>5, <2>6
<1>8. ASSUME NEW r \in Readers, Return(r)
      PROVE  k \in Holes(q) /\ reading'[q].off = reading[q].off
  BY <1>1, <1>2, <1>8 DEF Return, TypeOK
<1>9. CASE UNCHANGED vars
  BY <1>2, <1>9 DEF vars
<1> QED BY <1>3, <1>5, <1>6, <1>7, <1>8, <1>9 DEF Next, Step, Quiet

NoHole == Sick = {} => \A r \in Readers : Holes(r) = {}

LEMMA NoHoleStep == RaidInv /\ NoHole /\ [Next]_vars => NoHole'
<1> SUFFICES ASSUME RaidInv, NoHole, [Next]_vars, Sick' = {},
                    NEW q \in Readers, NEW k \in Holes(q)'
             PROVE  FALSE
  BY DEF NoHole
<1>1. layout' = layout
  BY DEF Next, Step, Quiet, ReadRun, ReadAlternate, ReadWithHole, Return, ReadAt, vars
<1>2. Sick = {} /\ Holes(q) = {}
  BY <1>1 DEF Sick, NoHole
<1>3. ReadWithHole(q)
  BY <1>2, HoleOrigin
<1>4. Looping(q) /\ GotFrom(q, Aim(q).member) < Aim(q).run /\ Aim(q).run \in Nat
      /\ Aim(q).member \in DOMAIN layout.members
  BY <1>3, RunType DEF ReadWithHole
<1>5. GotFrom(q, Aim(q).member) = Aim(q).run
  BY <1>2, <1>4, GoodDriveGivesAll
<1> QED BY <1>4, <1>5

(* Healthy drives are read without a hole, at every level, for every size  *)
(* of the members, of the reserves at their front and of the stripe.       *)
THEOREM RaidHealthyIsWhole == Spec => []HealthyIsWhole
<1>1. Init => NoHole
  BY DEF Init, NoHole, Holes
<1>2. NoHole => HealthyIsWhole
  BY DEF NoHole, HealthyIsWhole
<1> QED BY RaidInit, RaidStep, NoHoleStep, <1>1, <1>2, PTL DEF Spec

-----------------------------------------------------------------------------
(* One dying drive.                                                        *)

LEMMA OneSick ==
  ASSUME layout \in Layouts, Cardinality(Sick) <= 1, NEW i \in Sick, NEW j \in Sick
  PROVE  i = j
<1>1. IsFiniteSet(DOMAIN layout.members)
  BY MemberFacts, FS_Interval
<1>2. Sick \subseteq DOMAIN layout.members
  BY DEF Sick
<1>3. IsFiniteSet(Sick)
  BY <1>1, <1>2, FS_Subset
<1>4. ASSUME i # j PROVE FALSE
  <2>1. {i, j} \subseteq Sick
    OBVIOUS
  <2>2. IsFiniteSet({i}) /\ Cardinality({i}) = 1 /\ {i, j} = {i} \cup {j}
    BY FS_Singleton
  <2>3. Cardinality({i, j}) = 2
    BY <1>4, <2>2, FS_AddElement
  <2>4. Cardinality({i, j}) <= Cardinality(Sick) /\ Cardinality(Sick) \in Nat
    BY <1>3, <2>1, FS_Subset, FS_CardinalityType
  <2> QED BY <2>3, <2>4
<1> QED BY <1>4

LEMMA MirrorStep == RaidInv /\ MirrorSurvivesOne /\ [Next]_vars => MirrorSurvivesOne'
<1> SUFFICES ASSUME RaidInv, MirrorSurvivesOne, [Next]_vars,
                    (layout.level = "mirror" /\ Cardinality(Sick) <= 1 /\ Len(layout.members) > 1)',
                    NEW q \in Readers, NEW k \in Holes(q)'
             PROVE  FALSE
  BY DEF MirrorSurvivesOne
<1>1. layout' = layout /\ layout \in Layouts
  BY DEF RaidInv, TypeOK, Next, Step, Quiet, ReadRun, ReadAlternate, ReadWithHole, Return, ReadAt, vars
<1>2. layout.level = "mirror" /\ Cardinality(Sick) <= 1 /\ Len(layout.members) > 1 /\ Holes(q) = {}
  BY <1>1 DEF Sick, MirrorSurvivesOne
<1>3. ReadWithHole(q)
  BY <1>2, HoleOrigin
<1>4. /\ Looping(q) /\ GotFrom(q, Aim(q).member) < Aim(q).run /\ Aim(q).run \in Nat
      /\ Better(q) = {}
  BY <1>3, RunType DEF ReadWithHole
<1>5. Aim(q).member = 1
  BY <1>2 DEF Aim, Target, MirrorTarget
<1>6. 1 \in DOMAIN layout.members /\ 2 \in DOMAIN layout.members /\ 2 \in 2..Len(layout.members)
  BY <1>1, <1>2, MemberFacts
<1>7. 1 \in Sick
  <2>1. SUFFICES ASSUME 1 \notin Sick PROVE FALSE
    OBVIOUS
  <2>2. GotFrom(q, 1) = Aim(q).run
    BY <1>2, <1>4, <1>6, <2>1, GoodDriveGivesAll
  <2> QED BY <1>4, <1>5, <2>2
<1>8. 2 \notin Sick
  <2>1. 1 # 2
    OBVIOUS
  <2> QED BY <1>1, <1>2, <1>7, <2>1, OneSick
<1>9. GotFrom(q, 2) = Aim(q).run
  BY <1>2, <1>4, <1>6, <1>8, GoodDriveGivesAll
<1>10. GotFrom(q, 1) \in Nat
  BY <1>2, <1>4, <1>6, ContentsInPlace
<1>11. 2 \in Better(q)
  BY <1>2, <1>4, <1>5, <1>6, <1>9, <1>10 DEF Better
<1> QED BY <1>4, <1>11

(* A mirror with one dying drive loses nothing: whichever drive it is and  *)
(* wherever its bad sectors are, no reader is ever given a hole.           *)
THEOREM RaidMirrorSurvives == Spec => []MirrorSurvivesOne
<1>1. Init => MirrorSurvivesOne
  BY DEF Init, MirrorSurvivesOne, Holes
<1> QED BY RaidInit, RaidStep, MirrorStep, <1>1, PTL DEF Spec

-----------------------------------------------------------------------------
(* The list of sick drives.                                                *)

(* In a concatenated set every sector lies in one member.                  *)
LEMMA BaseGrows ==
  ASSUME NEW L \in Layouts, NEW i \in 0..Len(L.members), NEW j \in 0..Len(L.members), i <= j
  PROVE  Base(L)[i] <= Base(L)[j]
<1> DEFINE T == {h \in i..Len(L.members) : ~(Base(L)[i] <= Base(L)[h])}
<1>1. Len(L.members) \in Nat /\ i \in Nat
  BY MemberFacts
<1>2. SUFFICES ASSUME T # {} PROVE FALSE
  BY <1>1
<1>3. T \subseteq Nat
  BY <1>1
<1>4. PICK h \in T : \A g \in T : h <= g
  <2> HIDE DEF T
  <2> QED BY <1>2, <1>3, LeastOf
<1>5. Base(L)[i] \in Nat
  BY BaseFacts
<1>6. h # i /\ h - 1 \in i..Len(L.members) /\ h \in 1..Len(L.members) /\ h - 1 \notin T
  BY <1>1, <1>4, <1>5
<1>7. Base(L)[i] <= Base(L)[h - 1]
  BY <1>6
<1>8. /\ Base(L)[h] = Base(L)[h - 1] + DataLength(L.members[h])
      /\ Base(L)[h - 1] \in Nat /\ DataLength(L.members[h]) \in Nat
  <2>1. h - 1 \in 0..Len(L.members) /\ h \in DOMAIN L.members
    BY <1>1, <1>6, MemberFacts
  <2>2. L.members[h] \in Member
    BY <2>1, MemberFacts
  <2> QED BY <1>6, <2>1, <2>2, BaseFacts, DataLengthFacts
<1> QED BY <1>4, <1>5, <1>7, <1>8

(* Every sector of a run lies on the member the run was read from.         *)
LEMMA RunOnOneMember ==
  ASSUME NEW L \in Layouts, NEW off \in Nat, NEW len \in Nat \ {0},
         off + len <= LogicalSize(L), NEW d \in 0..(Target(L, off, len).run - 1)
  PROVE  Target(L, off + d, 1).member = Target(L, off, len).member
<1> DEFINE t == Target(L, off, len)
           u == Target(L, off + d, 1)
<1>1. LogicalSize(L) \in Nat /\ IsRun(L, t, off, len)
  BY SizeFacts, TargetInverts
<1>2. t.run \in 1..len /\ d \in Nat /\ off + d \in Nat
  BY <1>1 DEF IsRun
<1>3. CASE L.level = "mirror"
  BY <1>3 DEF Target, MirrorTarget
<1>4. CASE L.level = "stripe"
  <2> DEFINE s == L.stripe
             no == off \div s
             in == off % s
  <2>1. s \in Nat \ {0}
    BY <1>4, MemberFacts
  <2>2. no \in Nat /\ in \in 0..(s - 1) /\ off = no * s + in
    BY <2>1, DivMod
  <2>3. t.run = Least(len, s - in)
    BY <1>4 DEF Target, StripeTarget
  <2>4. \A o, l : Target(L, o, l).member = ((o \div s) % Len(L.members)) + 1
    BY <1>4 DEF Target, StripeTarget
  <2> HIDE DEF s, no, in, t, u
  <2>5. in + d \in 0..(s - 1)
    <3>1. d < t.run /\ t.run \in Nat
      BY <1>2 DEF t
    <3> QED BY <1>2, <2>1, <2>2, <2>3, <3>1 DEF Least
  <2>6. off + d = no * s + (in + d)
    <3>1. no * s \in Nat
      BY <2>1, <2>2
    <3> QED BY <1>2, <2>1, <2>2, <3>1
  <2>7. (no * s + (in + d)) \div s = no
    BY <2>1, <2>2, <2>5, DivModUnique
  <2> QED BY <2>4, <2>6, <2>7 DEF no
<1>5. CASE L.level = "concat"
  <2> DEFINE n == Len(L.members)
             i == t.member
             j == u.member
  <2>1. \A o \in Nat : \A l : o < LogicalSize(L) =>
          LET m == Target(L, o, l).member
          IN  m \in DOMAIN L.members /\ Base(L)[m - 1] <= o /\ o < Base(L)[m]
    <3> SUFFICES ASSUME NEW o \in Nat, NEW l, o < LogicalSize(L)
                 PROVE  LET m == Target(L, o, l).member
                        IN  m \in DOMAIN L.members /\ Base(L)[m - 1] <= o /\ o < Base(L)[m]
      OBVIOUS
    <3> DEFINE Inside(h) == Base(L)[h - 1] <= o /\ o < Base(L)[h]
    <3>1. \E h \in DOMAIN L.members : Inside(h)
      <4> DEFINE T == {h \in 1..n : o < Base(L)[h]}
      <4>1. /\ n \in Nat \ {0} /\ DOMAIN L.members = 1..n /\ Base(L)[0] = 0
            /\ \A h \in 0..n : Base(L)[h] \in Nat
        BY MemberFacts, BaseFacts
      <4>2. n \in T /\ T \subseteq Nat
        BY <1>5, <4>1, SizeFacts DEF RawLogicalSize
      <4>3. PICK h \in T : \A g \in T : h <= g
        <5> HIDE DEF T
        <5> QED BY <4>2, LeastOf
      <4>4. h - 1 \in 0..n /\ h - 1 \notin T
        BY <4>1, <4>3
      <4>5. Base(L)[h - 1] <= o
        BY <4>1, <4>4
      <4> QED BY <4>1, <4>3, <4>5
    <3>2. Target(L, o, l).member = CHOOSE h \in DOMAIN L.members : Inside(h)
      BY <1>5 DEF Target, ConcatTarget
    <3> QED BY <3>1, <3>2
  <2>2. off < LogicalSize(L) /\ off + d < LogicalSize(L)
    BY <1>1, <1>2
  <2>3. i \in DOMAIN L.members /\ Base(L)[i - 1] <= off /\ off < Base(L)[i]
    BY <2>1, <2>2
  <2>4. j \in DOMAIN L.members /\ Base(L)[j - 1] <= off + d /\ off + d < Base(L)[j]
    BY <1>2, <2>1, <2>2
  <2>5. off + d < Base(L)[i]
    <3>1. t.pos = off - Base(L)[i - 1]
      <4> DEFINE c == CHOOSE h \in DOMAIN L.members : Base(L)[h - 1] <= off /\ off < Base(L)[h]
      <4>1. t = [member |-> c, pos |-> off - Base(L)[c - 1],
                 run |-> Least(len, DataLength(L.members[c]) - (off - Base(L)[c - 1]))]
        BY <1>5 DEF Target, ConcatTarget
      <4> HIDE DEF c, t
      <4> QED BY <4>1
    <3>2. t.pos + t.run <= DataLength(L.members[i])
      BY RunInside
    <3> HIDE DEF t, i
    <3>3. Base(L)[i] = Base(L)[i - 1] + DataLength(L.members[i]) /\ Base(L)[i - 1] \in Nat
          /\ DataLength(L.members[i]) \in Nat
      <4>1. i \in 1..Len(L.members) /\ i - 1 \in 0..Len(L.members) /\ L.members[i] \in Member
        BY <2>3, MemberFacts
      <4> QED BY <4>1, BaseFacts, DataLengthFacts
    <3>4. d < t.run
      BY <1>2 DEF t
    <3> QED BY <1>2, <3>1, <3>2, <3>3, <3>4
  <2> HIDE DEF i, j, n
  <2>6. i \in 1..Len(L.members) /\ j \in 1..Len(L.members) /\ Len(L.members) \in Nat
    BY <2>3, <2>4, MemberFacts
  <2>7. \A h \in 0..Len(L.members) : Base(L)[h] \in Nat
    BY BaseFacts
  <2>8. i - 1 \in 0..Len(L.members) /\ j - 1 \in 0..Len(L.members) /\ i \in 0..Len(L.members) /\ j \in 0..Len(L.members)
    BY <2>6
  <2>9. ~(i < j)
    <3>1. ASSUME i < j PROVE FALSE
      <4>1. Base(L)[i] <= Base(L)[j - 1]
        BY <2>6, <2>8, <3>1, BaseGrows
      <4> QED BY <1>2, <2>4, <2>5, <2>7, <2>8, <4>1
    <3> QED BY <3>1
  <2>10. ~(j < i)
    <3>1. ASSUME j < i PROVE FALSE
      <4>1. Base(L)[j] <= Base(L)[i - 1]
        BY <2>6, <2>8, <3>1, BaseGrows
      <4>2. off <= off + d /\ off + d \in Nat
        BY <1>2
      <4>3. Base(L)[j] \in Nat /\ Base(L)[i - 1] \in Nat
        BY <2>7, <2>8
      <4>4. Base(L)[i - 1] <= off /\ off + d < Base(L)[j]
        BY <2>3, <2>4
      <4> QED BY <4>1, <4>2, <4>3, <4>4
    <3> QED BY <3>1
  <2>11. i = j
    BY <2>6, <2>9, <2>10
  <2> QED BY <2>11 DEF i, j
<1>6. L.level \in Level
  BY MemberFacts
<1> QED BY <1>3, <1>4, <1>5, <1>6 DEF Level

(* What a step counts: of the drives that fell short in it, of a mirror    *)
(* the first alone; and no count goes down.                                *)
LEMMA ErrorsStep ==
  ASSUME RaidInv, [Next]_vars
  PROVE  \E N \in SUBSET Sick :
           /\ fell' = fell \cup N
           /\ \A i \in DOMAIN layout.members :
                /\ memberErrors'[i] >= memberErrors[i]
                /\ memberErrors'[i] > 0 <=>
                     memberErrors[i] > 0 \/ (i \in N /\ (layout.level = "mirror" => i = 1))
<1> DEFINE Short(r, S) == {i \in S : GotFrom(r, i) < Aim(r).run}
           Counts(N) ==
             /\ fell' = fell \cup N
             /\ \A i \in DOMAIN layout.members :
                  /\ memberErrors'[i] >= memberErrors[i]
                  /\ memberErrors'[i] > 0 <=>
                       memberErrors[i] > 0 \/ (i \in N /\ (layout.level = "mirror" => i = 1))
<1>1. /\ TypeOK /\ layout \in Layouts /\ memberErrors \in [DOMAIN layout.members -> Nat]
      /\ 1 \in DOMAIN layout.members
  BY MemberFacts DEF RaidInv, TypeOK
<1>2. ASSUME NEW r \in Readers, Looping(r), NEW S \in SUBSET DOMAIN layout.members,
             layout.level = "mirror" \/ S \subseteq {Aim(r).member}
      PROVE  Short(r, S) \in SUBSET Sick
  <2>1. SUFFICES ASSUME NEW i \in S, GotFrom(r, i) < Aim(r).run, i \notin Sick PROVE FALSE
    OBVIOUS
  <2>2. GotFrom(r, i) = Aim(r).run
    BY <1>2, <2>1, GoodDriveGivesAll
  <2>3. Aim(r).run \in Nat
    BY <1>2, RunType
  <2> QED BY <2>1, <2>2, <2>3
<1>3. ASSUME NEW r \in Readers, Looping(r), NEW S \in SUBSET DOMAIN layout.members,
             NEW m \in S, m = Aim(r).member, GotFrom(r, m) < Aim(r).run,
             layout.level = "mirror" => m = 1, layout.level # "mirror" => S = {m},
             FallShort(r, S), Blame(m, Aim(r).run - GotFrom(r, m))
      PROVE  \E N \in SUBSET Sick : Counts(N)
  <2> DEFINE n == Aim(r).run - GotFrom(r, m)
             N == Short(r, S)
  <2>1. GotFrom(r, m) \in Nat /\ Aim(r).run \in Nat
    BY <1>3, ContentsInPlace, RunType
  <2>2. n \in Nat /\ n > 0
    BY <1>3, <2>1
  <2>3. memberErrors' = [memberErrors EXCEPT ![m] = @ + n]
    BY <1>3 DEF Blame
  <2>4. N \in SUBSET Sick /\ fell' = fell \cup N /\ m \in N
    BY <1>2, <1>3 DEF FallShort
  <2>5. layout.level # "mirror" => N = {m}
    BY <1>3, <2>4
  <2> HIDE DEF n, N
  <2>6. ASSUME NEW i \in DOMAIN layout.members
        PROVE  /\ memberErrors'[i] >= memberErrors[i]
               /\ memberErrors'[i] > 0 <=> memberErrors[i] > 0 \/ i = m
    BY <1>1, <1>3, <2>2, <2>3
  <2>7. ASSUME NEW i \in DOMAIN layout.members
        PROVE  i = m <=> i \in N /\ (layout.level = "mirror" => i = 1)
    BY <1>3, <2>4, <2>5
  <2> QED BY <2>4, <2>6, <2>7
<1>4. ASSUME NEW r \in Readers, ReadAlternate(r)
      PROVE  \E N \in SUBSET Sick : Counts(N)
  <2>1. /\ Looping(r) /\ GotFrom(r, Aim(r).member) < Aim(r).run
        /\ Blame(1, Aim(r).run - GotFrom(r, 1))
    BY <1>4 DEF ReadAlternate
  <2>2. PICK j \in Better(r) : FallShort(r, 1..j)
    BY <1>4 DEF ReadAlternate
  <2>3. layout.level = "mirror" /\ j \in 2..Len(layout.members)
    BY <2>2 DEF Better
  <2>4. Aim(r).member = 1
    BY <2>3 DEF Aim, Target, MirrorTarget
  <2>5. 1..j \in SUBSET DOMAIN layout.members /\ 1 \in 1..j
    <3>1. j \in DOMAIN layout.members
      BY <1>1, <2>3, MemberFacts, LayoutAssumption DEF Layout
    <3> QED BY <1>1, <2>3, <2>4, <3>1, AskedIs
  <2> QED BY <1>3, <2>1, <2>2, <2>3, <2>4, <2>5
<1>5. ASSUME NEW r \in Readers, ReadWithHole(r)
      PROVE  \E N \in SUBSET Sick : Counts(N)
  <2>1. /\ Looping(r) /\ GotFrom(r, Aim(r).member) < Aim(r).run
        /\ Blame(Aim(r).member, Aim(r).run - GotFrom(r, Aim(r).member))
        /\ FallShort(r, Asked(r))
    BY <1>5 DEF ReadWithHole
  <2>2. Aim(r).member \in DOMAIN layout.members
    BY <2>1, RunType
  <2>3. Asked(r) \in SUBSET DOMAIN layout.members /\ Aim(r).member \in Asked(r)
    BY <1>1, <2>2, AskedIs DEF Asked
  <2>4. layout.level = "mirror" => Aim(r).member = 1
    BY DEF Aim, Target, MirrorTarget
  <2>5. layout.level # "mirror" => Asked(r) = {Aim(r).member}
    BY DEF Asked
  <2> QED BY <1>3, <2>1, <2>3, <2>4, <2>5
<1>6. CASE memberErrors' = memberErrors /\ fell' = fell
  <2>1. {} \in SUBSET Sick /\ Counts({})
    BY <1>1, <1>6
  <2> QED BY <2>1
<1>7. \/ memberErrors' = memberErrors /\ fell' = fell
      \/ \E r \in Readers : ReadAlternate(r) \/ ReadWithHole(r)
  BY DEF Next, Step, Quiet, ReadRun, Return, ReadAt, vars
<1> QED BY <1>4, <1>5, <1>6, <1>7

(* A hole lies in the request, where the next runs continue.               *)
LEMMA SickListStep == RaidInv /\ SickDriveIsListed /\ [Next]_vars => SickDriveIsListed'
<1> SUFFICES ASSUME RaidInv, SickDriveIsListed, [Next]_vars
             PROVE  SickDriveIsListed'
  OBVIOUS
<1> DEFINE Listed(q, k) == memberErrors[Target(layout, reading[q].off + k - 1, 1).member]
<1>1. TypeOK /\ layout' = layout /\ layout \in Layouts /\ TypeOK'
  <2>1. layout' = layout
    BY DEF Next, Step, Quiet, ReadRun, ReadAlternate, ReadWithHole, Return, ReadAt, vars
  <2>2. RaidInv'
    BY RaidStep
  <2> QED BY <2>1, <2>2 DEF RaidInv, TypeOK
<1>2. DOMAIN memberErrors' = DOMAIN layout.members /\ DOMAIN memberErrors = DOMAIN layout.members
  BY <1>1 DEF TypeOK
<1>3. /\ \A i \in DOMAIN memberErrors' :
           memberErrors'[i] > 0 <=> i \in fell' /\ (layout.level = "mirror" => i = 1)
      /\ fell' \subseteq Sick
      /\ \A i \in DOMAIN layout.members : memberErrors'[i] >= memberErrors[i]
  <2>1. PICK N \in SUBSET Sick :
           /\ fell' = fell \cup N
           /\ \A i \in DOMAIN layout.members :
                /\ memberErrors'[i] >= memberErrors[i]
                /\ memberErrors'[i] > 0 <=>
                     memberErrors[i] > 0 \/ (i \in N /\ (layout.level = "mirror" => i = 1))
    BY ErrorsStep
  <2> QED BY <1>2, <2>1 DEF SickDriveIsListed
<1>4. ASSUME NEW q \in Readers, NEW k \in Holes(q)'
      PROVE  Listed(q, k)' > 0
  <2> DEFINE o == reading[q].off + k - 1
             m == Target(layout, o, 1).member
  <2>1. CASE k \in Holes(q) /\ reading'[q].off = reading[q].off
    <3>1. memberErrors[m] > 0
      BY <2>1 DEF SickDriveIsListed
    <3>2. Listed(q, k)' = memberErrors'[m]
      BY <1>1, <2>1
    <3>3. m \in DOMAIN layout.members
      <4>1. k \in DOMAIN out[q] /\ out[q] \in Seq(Nat \cup {Hole}) /\ reading[q].off \in Nat /\ reading[q].want \in Nat
            /\ reading[q].len \in Nat
        BY <1>1, <2>1 DEF TypeOK, Holes
      <4>2. Len(out[q]) <= reading[q].want /\ reading[q].want = Clip(reading[q].off, reading[q].len)
        BY DEF RaidInv, NeverWrongData, Clipped
      <4>3. k \in 1..Len(out[q]) /\ Len(out[q]) \in Nat
        BY <4>1
      <4>4. reading[q].off + reading[q].want <= Size /\ Size \in Nat
        <5> DEFINE c == Clip(reading[q].off, reading[q].len)
        <5>1. c > 0 => reading[q].off + c <= Size
          BY <1>1, <4>1, ClipFacts
        <5>2. c > 0
          BY <4>1, <4>2, <4>3
        <5>3. Size \in Nat
          BY <1>1, SizeFacts DEF Size
        <5> HIDE DEF c
        <5> QED BY <4>2, <5>1, <5>2, <5>3 DEF c
      <4>5. o \in Nat /\ o < LogicalSize(layout)
        BY <4>1, <4>2, <4>3, <4>4 DEF Size
      <4> HIDE DEF o
      <4> QED BY <1>1, <4>5, TargetInverts DEF IsRun
    <3>4. memberErrors'[m] >= memberErrors[m] /\ memberErrors[m] \in Nat /\ memberErrors'[m] \in Nat
      BY <1>1, <1>2, <1>3, <3>3 DEF TypeOK
    <3> HIDE DEF m
    <3> QED BY <3>1, <3>2, <3>4
  <2>2. CASE ReadWithHole(q) /\ k \in (Len(out[q]) + 1)..(Len(out[q]) + Aim(q).run)
    <3> DEFINE at == reading[q].off + Len(out[q])
               rest == reading[q].want - Len(out[q])
               a == Aim(q).member
               n == Aim(q).run - GotFrom(q, a)
    <3>1. Looping(q) /\ GotFrom(q, a) < Aim(q).run /\ Blame(a, n) /\ reading' = reading
      BY <2>2 DEF ReadWithHole
    <3>2. /\ at \in Nat /\ rest \in Nat \ {0} /\ at + rest <= LogicalSize(layout)
          /\ Aim(q) = Target(layout, at, rest)
      BY <3>1, RestInside DEF Aim
    <3>3. a \in DOMAIN layout.members /\ Aim(q).run \in Nat /\ GotFrom(q, a) \in Nat /\ n \in Nat /\ n > 0
      BY <3>1, RunType, ContentsInPlace
    <3>4. Len(out[q]) \in Nat /\ reading[q].off \in Nat
      BY <1>1 DEF TypeOK
    <3>5. k - 1 - Len(out[q]) \in 0..(Aim(q).run - 1) /\ o = at + (k - 1 - Len(out[q]))
      <4> DEFINE got == Len(out[q])
                 run == Aim(q).run
                 off == reading[q].off
      <4>1. k \in (got + 1)..(got + run) /\ got \in Nat /\ run \in Nat /\ off \in Nat
        BY <2>2, <3>3, <3>4
      <4> SUFFICES k - 1 - got \in 0..(run - 1) /\ off + k - 1 = off + got + (k - 1 - got)
        OBVIOUS
      <4> HIDE DEF got, run, off, at, rest, o, m, a, n
      <4> QED BY <4>1
    <3>6. m = a
      <4> HIDE DEF at, rest, o
      <4> QED BY <1>1, <3>2, <3>5, RunOnOneMember
    <3>7. Listed(q, k)' = memberErrors'[a]
      BY <1>1, <3>1, <3>6
    <3>8. memberErrors'[a] = memberErrors[a] + n /\ memberErrors[a] \in Nat
      <4> HIDE DEF a, n
      <4> QED BY <1>1, <3>1, <3>3 DEF TypeOK, Blame
    <3> HIDE DEF a, n
    <3> QED BY <3>3, <3>7, <3>8
  <2> QED BY <2>1, <2>2, HoleOrigin
<1> QED BY <1>1, <1>2, <1>3, <1>4 DEF SickDriveIsListed, Sick

(* The list of failing drives at every level and in every interleaving of  *)
(* the readers' runs: wherever somebody was given a hole, the drive        *)
(* holding those sectors is on it, and it is exactly the drives that       *)
(* returned short reads, of a mirror the first alone.                      *)
THEOREM RaidSickIsListed == Spec => []SickDriveIsListed
<1>1. Init => SickDriveIsListed
  BY DEF Init, SickDriveIsListed, Holes
<1> QED BY RaidInit, RaidStep, SickListStep, <1>1, PTL DEF Spec
=============================================================================
