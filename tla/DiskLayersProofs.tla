-------------------------- MODULE DiskLayersProofs --------------------------
(***************************************************************************)
(* Proofs about DiskLayers, for every drive, cache, partition, volume,     *)
(* metadata, sector and batch size and read.                               *)
(***************************************************************************)
EXTENDS DiskLayers, NumberLemmas, SequenceTheorems

(* What a unit can hold: where it came from, and its tweak.                *)
Place == ({"optane", "qlc"} \X Int) \cup {Hole}
Units == {Noise} \cup (Place \X Int)

LEMMA RigFacts ==
  ASSUME NEW r \in Rigs
  PROVE  /\ r.disk \in Nat /\ r.base \in Nat /\ r.length \in Nat \ {0}
         /\ r.headAt \in Nat /\ r.headSize \in Nat /\ r.shift \in Nat /\ r.declared \in Nat
         /\ r.headAt % S = 0 /\ r.headSize % S = 0
         /\ r.crypto \in {"none", "bitlocker", "filevault"}
         /\ r.copies \in Seq([at : Nat, good : BOOLEAN]) /\ Len(r.copies) = 3
         /\ r.cache \in Seq(Cache) /\ Len(r.cache) <= 1
BY RigsAssumption, HeadAssumption DEF Rig

LEMMA SectorType == S \in Nat \ {0}
BY LayersAssumption

LEMMA BatchFacts == MaxBatch \in Nat \ {0} /\ MaxBatch % S = 0
BY LayersAssumption

-----------------------------------------------------------------------------
(* The inductive invariant.  Each part is what an operation leaves for the *)
(* ones after it: the span is what Merge read off the module, the window   *)
(* what OpenWindow made of the table and the metadata, a FileVault volume  *)
(* is only opened where it begins, and a read in progress lies inside the  *)
(* view it was asked of.                                                   *)

SpanOK ==
  /\ span \in [known : BOOLEAN, merged : BOOLEAN, start : Nat, len : Nat]
  /\ span.len # 0 =>
       /\ span.known /\ span.merged /\ rig.cache # <<>>
       /\ span.start = rig.cache[1].start
       /\ \E a \in FindImsm(rig.cache[1]) :
            span.len = (CHOOSE b \in FindImsm(rig.cache[1]) : TRUE) \div S

WindowOK ==
  /\ window \in [open : BOOLEAN, base : Nat, size : Nat]
  /\ window.open =>
       /\ span.known /\ window.base = rig.base
       /\ window.size = IF ParseFve(rig.length) /\ rig.declared # 0 /\ rig.base < rig.disk
                        THEN Wanted ELSE rig.length

ViewOK ==
  /\ \/ view = Closed
     \/ view = [kind |-> "plain"]
     \/ \E k \in Passwords : view = [kind |-> "bitlocker", key |-> k]
     \/ \E k \in Passwords : /\ view = [kind |-> "filevault", key |-> k, shift |-> rig.shift]
                             /\ rig.shift + 3 * S <= window.size
  /\ view # Closed => window.open

TaskOK ==
  /\ task \in [op : {"rest", "read", "answered"}, off : Nat, len : Nat, out : Seq(Units)]
  /\ task.op = "rest" => task = Rest
  /\ task.op # "rest" => view # Closed
  /\ task.len > 0 => task.off + task.len <= Size
  /\ Len(task.out) <= task.len
  /\ view.kind = "plain" /\ task.op = "read" => task.out = <<>>

LayersInv == rig \in Rigs /\ SpanOK /\ WindowOK /\ ViewOK /\ TaskOK /\ AnswerIsFull

-----------------------------------------------------------------------------
(* The merged disk.                                                        *)

(* The region the search stops at is the first one, so the span is as long *)
(* as the linear copy: neither cut short nor run into the cache metadata.  *)
LEMMA RegionRight ==
  ASSUME NEW c \in Cache,
         \A a \in c.supers : (\A b \in c.supers : a <= b) => a \in c.headers \cup {c.hint},
         c.hint \in c.supers => \A b \in c.supers : c.hint <= b,
         NEW f \in FindImsm(c)
  PROVE  /\ (CHOOSE a \in FindImsm(c) : TRUE) = f
         /\ f \in c.supers /\ \A b \in c.supers : f <= b
         /\ f \in c.headers \cup ({c.hint} \ {-1})
<1>1. c.supers \subseteq Nat /\ c.headers \subseteq Nat
  BY DEF Cache
<1>2. CASE c.hint # -1 /\ c.hint \in c.supers
  <2>1. FindImsm(c) = {c.hint}
    BY <1>2 DEF FindImsm
  <2> QED BY <1>2, <2>1
<1>3. CASE ~(c.hint # -1 /\ c.hint \in c.supers)
  <2>1. FindImsm(c) = {a \in Regions(c) : \A b \in Regions(c) : a <= b}
    BY <1>3 DEF FindImsm
  <2>2. f \in c.headers /\ f \in c.supers /\ \A b \in Regions(c) : f <= b
    BY <2>1 DEF Regions
  <2>3. PICK m \in c.supers : \A b \in c.supers : m <= b
    BY <1>1, <2>2, LeastOf
  <2>4. m \in Regions(c)
    <3>1. m # c.hint
      BY <1>1, <1>3, <2>3
    <3> QED BY <2>3, <3>1 DEF Regions
  <2>5. f <= m /\ m <= f /\ f \in Nat /\ m \in Nat
    BY <1>1, <2>2, <2>3, <2>4
  <2>6. f = m
    BY <2>5
  <2>7. \A a \in FindImsm(c) : a = f
    <3> SUFFICES ASSUME NEW a \in FindImsm(c) PROVE a = f
      OBVIOUS
    <3>1. a \in Regions(c) /\ f \in Regions(c) /\ a <= f /\ f <= a
      BY <2>1, <2>2 DEF Regions
    <3>2. a \in Nat /\ f \in Nat
      BY <1>1, <3>1 DEF Regions
    <3> QED BY <3>1, <3>2
  <2> QED BY <2>2, <2>3, <2>6, <2>7
<1> QED BY <1>2, <1>3

LEMMA SpanRight ==
  ASSUME LayersInv, CacheFindable, NEW u \in Nat, u < rig.disk
  PROVE  /\ InSpan(u \div S) <=> u \div S \in TrueSpan
         /\ InSpan(u \div S) => span.start = rig.cache[1].start
<1>1. rig \in Rigs /\ SpanOK
  BY DEF LayersInv
<1> DEFINE q == u \div S
<1>2. q \in Nat /\ q \in 0..(rig.disk \div S)
  <2>1. q \in Nat /\ u % S \in 0..(S - 1) /\ u = q * S + (u % S)
    BY SectorType, DivMod
  <2>2. rig.disk \in Nat /\ rig.disk \div S \in Nat /\ rig.disk % S \in 0..(S - 1)
        /\ rig.disk = (rig.disk \div S) * S + (rig.disk % S)
    <3>1. rig.disk \in Nat
      BY <1>1, RigFacts
    <3> QED BY <3>1, SectorType, DivMod
  <2> DEFINE d == rig.disk \div S
             x == u % S
             y == rig.disk % S
  <2>3. q \in Nat /\ d \in Nat /\ S \in Nat \ {0} /\ x \in 0..(S - 1) /\ y \in 0..(S - 1)
        /\ q * S + x < d * S + y
    BY <2>1, <2>2, SectorType
  <2> HIDE DEF d, x, y, q
  <2>4. ~(d < q)
    <3>1. ASSUME d < q PROVE FALSE
      <4>1. d * S + S <= q * S /\ d * S \in Nat /\ q * S \in Nat
        BY <2>3, <3>1, ProductBelow
      <4> QED BY <2>3, <4>1
    <3> QED BY <3>1
  <2> QED BY <2>3, <2>4 DEF d
<1> HIDE DEF q
<1>3. CASE span.len = 0
  <2>1. ~InSpan(q)
    BY <1>1, <1>2, <1>3 DEF InSpan, SpanOK
  <2>2. q \notin TrueSpan
    BY <1>3 DEF TrueSpan
  <2> QED BY <2>1, <2>2 DEF q
<1>4. CASE span.len # 0
  <2> DEFINE c == rig.cache[1]
  <2>1. rig.cache # <<>> /\ span.start = c.start /\ span.start \in Nat /\ span.len \in Nat
    BY <1>1, <1>4 DEF SpanOK
  <2>2. PICK f \in FindImsm(c) : span.len = (CHOOSE b \in FindImsm(c) : TRUE) \div S
    BY <1>1, <1>4 DEF SpanOK
  <2>3. 1 \in DOMAIN rig.cache /\ c \in Cache
    BY <1>1, <2>1, RigFacts
  <2>4. /\ \A a \in c.supers : (\A b \in c.supers : a <= b) => a \in c.headers \cup {c.hint}
        /\ c.hint \in c.supers => \A b \in c.supers : c.hint <= b
    BY <2>1 DEF CacheFindable, FirstRegion
  <2>5. /\ (CHOOSE a \in FindImsm(c) : TRUE) = f /\ f \in c.supers
        /\ \A b \in c.supers : f <= b
        /\ f \in c.headers \cup ({c.hint} \ {-1})
    <3> HIDE DEF c
    <3> QED BY <2>2, <2>3, <2>4, RegionRight
  <2>6. f \in Nat /\ f % S = 0
    <3>1. f % S = 0
      BY <1>1, <2>3, <2>5, RegionAssumption
    <3> QED BY <2>3, <2>5, <3>1 DEF Cache
  <2>7. TrueSpan = {lba \in 0..(rig.disk \div S) : lba >= c.start /\
                      \A a \in c.supers : (lba - c.start) * S < a}
    BY <1>4, <2>1 DEF TrueSpan
  <2>8. c.supers \subseteq Nat
    BY <2>3 DEF Cache
  <2> HIDE DEF c
  <2>9. span.len = f \div S
    BY <2>2, <2>5
  <2>10. q \in TrueSpan <=> q >= c.start /\ (q - c.start) * S < f
    <3>1. q >= c.start => (q - c.start) * S \in Nat
      <4>1. q >= c.start => q - c.start \in Nat
        BY <1>2, <2>1
      <4>2. S \in Nat
        BY SectorType
      <4> QED BY <4>1, <4>2
    <3> DEFINE x == (q - c.start) * S
    <3>2. q >= c.start => (x < f <=> \A a \in c.supers : x < a)
      <4> HIDE DEF x
      <4> QED BY <2>5, <2>6, <2>8, <3>1 DEF x
    <3> QED BY <1>2, <2>7, <3>2
  <2> DEFINE n == f \div S
  <2>11. n \in Nat /\ f = n * S
    <3>1. n \in Nat /\ f = n * S + (f % S)
      BY <2>6, SectorType, DivMod
    <3>2. n * S \in Nat
      BY <3>1, SectorType
    <3> QED BY <2>6, <3>1, <3>2
  <2> HIDE DEF n
  <2>12. ASSUME q >= c.start
         PROVE  (q - c.start) * S < n * S <=> q - c.start < n
    <3> DEFINE e == q - c.start
    <3>1. e \in Nat /\ S \in Nat \ {0}
      BY <1>2, <2>1, <2>12, SectorType
    <3> HIDE DEF e
    <3>2. e < n => e * S + S <= n * S
      BY <2>11, <3>1, ProductBelow
    <3>3. n < e => n * S + S <= e * S
      BY <2>11, <3>1, ProductBelow
    <3>4. e * S \in Nat /\ n * S \in Nat
      BY <2>11, <3>1
    <3>5. e * S < n * S <=> e < n
      BY <2>11, <3>1, <3>2, <3>3, <3>4
    <3> QED BY <3>5 DEF e
  <2>13. InSpan(q) <=> q >= c.start /\ q - c.start < n
    BY <1>2, <2>1, <2>9, <2>11 DEF InSpan, n
  <2>14. InSpan(q) <=> q \in TrueSpan
    BY <2>10, <2>11, <2>12, <2>13
  <2>15. InSpan(q) => span.start = rig.cache[1].start
    BY <2>1 DEF c
  <2> QED BY <2>14, <2>15 DEF q
<1> QED BY <1>3, <1>4

(* A place on a drive is told from a hole and from noise by its shape.     *)
LEMMA PlacesDiffer ==
  /\ \A a, b : <<a, b>> # Hole
  /\ \A a, b : <<a, b>> # Noise
<1>1. \A a, b : Len(<<a, b>>) = 2
  OBVIOUS
<1>2. Len(Hole) = 1 /\ Len(Noise) = 1
  BY DEF Hole, Noise
<1> QED BY <1>1, <1>2

LEMMA ServedRight ==
  ASSUME LayersInv, NEW u \in Nat
  PROVE  /\ Served(u) \in Place /\ Served(u) # Hole
         /\ CacheFindable /\ u < rig.disk => Served(u) = TrueCopy(u)
         /\ ~span.merged => TrueCopy(u) = <<"qlc", u>>
<1>1. span.start \in Nat /\ S \in Nat /\ (~span.merged => span.len = 0)
  BY SectorType DEF LayersInv, SpanOK
<1>2. u - span.start * S \in Int /\ u \in Int
  BY <1>1
<1>3. Served(u) \in Place /\ Served(u) # Hole
  BY <1>2, PlacesDiffer DEF Served, Place
<1>4. CacheFindable /\ u < rig.disk => Served(u) = TrueCopy(u)
  BY SpanRight DEF Served, TrueCopy
<1>5. ~span.merged => TrueCopy(u) = <<"qlc", u>>
  BY <1>1 DEF TrueCopy, TrueSpan
<1> QED BY <1>3, <1>4, <1>5

(* What a unit of a read from the disk may be.                             *)
UnitRight(u, x) ==
  /\ x \in Place
  /\ CacheFindable => \/ x = TrueCopy(u) /\ x # Hole
                      \/ x = Hole /\ span.merged /\ TrueCopy(u) \in rig.bad

LEMMA MergedRight ==
  ASSUME LayersInv, NEW u \in Nat, u < rig.disk
  PROVE  UnitRight(u, IF Served(u) \in rig.bad THEN Hole ELSE Served(u)) \/ ~span.merged
<1>1. Hole \in Place
  BY DEF Place
<1> QED BY <1>1, ServedRight DEF UnitRight

(* A read from the disk gives the units it is asked for, up to the end of  *)
(* the disk, or on a drive alone, to the first that does not read.         *)
LEMMA DiskReads ==
  ASSUME LayersInv, NEW u \in Nat, NEW n \in Nat
  PROVE  \E m \in 0..n :
           /\ DOMAIN DiskRead(u, n) = 1..m
           /\ \A k \in 1..m : UnitRight(u + k - 1, DiskRead(u, n)[k])
           /\ m < n => u + m >= rig.disk \/ (~span.merged /\ TrueCopy(u + m) \in rig.bad)
<1> DEFINE there == IF u >= rig.disk THEN 0 ELSE Least(n, rig.disk - u)
<1>1. rig.disk \in Nat
  BY RigFacts DEF LayersInv
<1>2. there \in 0..n /\ (there < n => u + there >= rig.disk)
      /\ \A k \in 1..there : u + k - 1 \in Nat /\ u + k - 1 < rig.disk
  BY <1>1 DEF Least
<1>3. DiskRead(u, n) = IF span.merged THEN MergedRead(u, there) ELSE RawRead(u, there)
  BY DEF DiskRead
<1> HIDE DEF there
<1>4. CASE span.merged
  <2>1. DOMAIN DiskRead(u, n) = 1..there
    BY <1>3, <1>4 DEF MergedRead
  <2>2. ASSUME NEW k \in 1..there PROVE UnitRight(u + k - 1, DiskRead(u, n)[k])
    <3>1. DiskRead(u, n)[k] = IF Served(u + k - 1) \in rig.bad THEN Hole ELSE Served(u + k - 1)
      BY <1>3, <1>4 DEF MergedRead
    <3> DEFINE v == u + k - 1
    <3>2. v \in Nat /\ v < rig.disk
      BY <1>2
    <3> HIDE DEF v
    <3>3. UnitRight(v, IF Served(v) \in rig.bad THEN Hole ELSE Served(v))
      BY <1>4, <3>2, MergedRight
    <3> QED BY <3>1, <3>3 DEF v
  <2> QED BY <1>2, <2>1, <2>2
<1>5. CASE ~span.merged
  <2> DEFINE Fails(k) == <<"qlc", u + k>> \in rig.bad
             Good(g) == (\A k \in 0..(g - 1) : ~Fails(k)) /\ (g < there => Fails(g))
             got == CHOOSE g \in 0..there : Good(g)
             T == {k \in 0..there : k = there \/ Fails(k)}
  <2>1. DiskRead(u, n) = [k \in 1..got |-> <<"qlc", u + k - 1>>]
    BY <1>3, <1>5 DEF RawRead
  <2>2. \E g \in 0..there : Good(g)
    <3>1. T \subseteq Nat /\ there \in T
      BY <1>2
    <3>2. PICK g \in T : \A k \in T : g <= k
      <4> HIDE DEF T
      <4> QED BY <3>1, LeastOf
    <3>3. g \in 0..there /\ (g < there => Fails(g))
      BY <1>2, <3>2
    <3>4. ASSUME NEW k \in 0..(g - 1) PROVE ~Fails(k)
      <4>1. k \in 0..there /\ k < g /\ ~(g <= k)
        BY <1>2, <3>3
      <4>2. k \notin T
        BY <3>2, <4>1
      <4> QED BY <4>1, <4>2
    <3> QED BY <3>3, <3>4
  <2> HIDE DEF Good
  <2>3. got \in 0..there /\ Good(got)
    BY <2>2
  <2> HIDE DEF got
  <2>4. got \in 0..n /\ DOMAIN DiskRead(u, n) = 1..got
    BY <1>2, <2>1, <2>3
  <2>5. ASSUME NEW k \in 1..got PROVE UnitRight(u + k - 1, DiskRead(u, n)[k])
    <3> DEFINE v == u + k - 1
    <3>1. v \in Nat
      BY <2>4
    <3>2. DiskRead(u, n)[k] = <<"qlc", v>>
      BY <2>1
    <3> HIDE DEF v
    <3>3. <<"qlc", v>> = TrueCopy(v)
      BY <1>5, <3>1, ServedRight
    <3>4. <<"qlc", v>> \in Place /\ <<"qlc", v>> # Hole
      BY <3>1, PlacesDiffer DEF Place
    <3>5. UnitRight(v, DiskRead(u, n)[k])
      BY <3>2, <3>3, <3>4 DEF UnitRight
    <3> QED BY <3>5 DEF v
  <2>6. got < n => u + got >= rig.disk \/ TrueCopy(u + got) \in rig.bad
    <3>1. CASE got < there
      <4>1. <<"qlc", u + got>> \in rig.bad /\ u + got \in Nat
        BY <1>2, <2>3, <3>1 DEF Good
      <4> QED BY <1>5, <4>1, ServedRight
    <3>2. CASE got = there
      BY <1>2, <3>2
    <3> QED BY <1>2, <2>3, <3>1, <3>2
  <2> QED BY <1>5, <2>4, <2>5, <2>6
<1> QED BY <1>4, <1>5

LEMMA WindowReads ==
  ASSUME LayersInv, window.open, NEW p \in Nat, NEW n \in Nat
  PROVE  \E m \in 0..n :
           /\ DOMAIN WindowRead(p, n) = 1..m
           /\ \A k \in 1..m : UnitRight(rig.base + p + k - 1, WindowRead(p, n)[k])
           /\ m < n => \/ p + m >= window.size \/ rig.base + p + m >= rig.disk
                       \/ ~span.merged /\ TrueCopy(rig.base + p + m) \in rig.bad
<1>1. window.base = rig.base /\ rig.base \in Nat /\ rig.disk \in Nat /\ window.size \in Nat
  BY RigFacts DEF LayersInv, WindowOK
<1>2. CASE p >= window.size
  <2>1. WindowRead(p, n) = <<>>
    BY <1>2 DEF WindowRead
  <2>2. DOMAIN WindowRead(p, n) = 1..0
    BY <2>1
  <2> HIDE DEF UnitRight
  <2> WITNESS 0 \in 0..n
  <2> QED BY <1>1, <1>2, <2>2
<1>3. CASE ~(p >= window.size)
  <2> DEFINE want == Least(n, window.size - p)
             u == rig.base + p
  <2>1. want \in 0..n /\ (want < n => p + want >= window.size) /\ u \in Nat
    BY <1>1, <1>3 DEF Least
  <2>2. WindowRead(p, n) = DiskRead(u, want)
    BY <1>1, <1>3 DEF WindowRead
  <2> HIDE DEF want, u
  <2>3. PICK m \in 0..want :
           /\ DOMAIN DiskRead(u, want) = 1..m
           /\ \A k \in 1..m : UnitRight(u + k - 1, DiskRead(u, want)[k])
           /\ m < want => u + m >= rig.disk \/ (~span.merged /\ TrueCopy(u + m) \in rig.bad)
    <3>1. u \in Nat /\ want \in Nat
      BY <2>1
    <3> HIDE DEF UnitRight
    <3> QED BY <3>1, DiskReads
  <2>4. m \in 0..n
    BY <2>1
  <2>5. m < n => \/ p + m >= window.size \/ u + m >= rig.disk
                 \/ ~span.merged /\ TrueCopy(u + m) \in rig.bad
    BY <1>1, <2>1, <2>3
  <2> QED BY <2>2, <2>3, <2>4, <2>5 DEF u
<1> QED BY <1>2, <1>3

(* What a unit of a buffer filled with one read may be.                    *)
FilledRight(p, i, x) ==
  /\ x \in Place
  /\ CacheFindable =>
       \/ x = TrueCopy(rig.base + (p + i)) /\ x # Hole
       \/ /\ x = Hole /\ (span.merged => Missing(p + i))
          /\ \E j \in 0..i : Missing(p + j)

LEMMA FillReads ==
  ASSUME LayersInv, window.open, NEW p \in Nat, NEW n \in Nat, NEW i \in Nat, i < n
  PROVE  FilledRight(p, i, ReadAll(p, n)[i + 1])
<1> DEFINE data == WindowRead(p, n)
           x == ReadAll(p, n)[i + 1]
<1>1. rig.base \in Nat /\ rig.disk \in Nat /\ window.size \in Nat
  BY RigFacts DEF LayersInv, WindowOK
<1>2. x = IF i + 1 \in DOMAIN data THEN data[i + 1] ELSE Hole
  BY DEF ReadAll
<1>3. PICK m \in 0..n :
           /\ DOMAIN data = 1..m
           /\ \A k \in 1..m : UnitRight(rig.base + p + k - 1, data[k])
           /\ m < n => \/ p + m >= window.size \/ rig.base + p + m >= rig.disk
                       \/ ~span.merged /\ TrueCopy(rig.base + p + m) \in rig.bad
  BY WindowReads
<1> HIDE DEF data, x
<1>4. CASE i < m
  <2>1. i + 1 \in 1..m /\ x = data[i + 1]
    BY <1>2, <1>3, <1>4
  <2>2. rig.base + p + (i + 1) - 1 = rig.base + (p + i)
    BY <1>1
  <2>3. UnitRight(rig.base + (p + i), x)
    BY <1>3, <2>1, <2>2
  <2>4. TrueCopy(rig.base + (p + i)) \in rig.bad => Missing(p + i)
    BY DEF Missing
  <2>5. i \in 0..i
    OBVIOUS
  <2> QED BY <2>3, <2>4, <2>5 DEF UnitRight, FilledRight, x
<1>5. CASE ~(i < m)
  <2>1. i + 1 \notin DOMAIN data /\ m \in 0..i /\ m < n
    BY <1>3, <1>5
  <2>2. x = Hole /\ Hole \in Place
    BY <1>2, <2>1 DEF Place
  <2>3. rig.base + p + m = rig.base + (p + m)
    BY <1>1
  <2>4. Missing(p + m)
    BY <1>3, <2>1, <2>3 DEF Missing
  <2>5. span.merged => Missing(p + i)
    <3>1. ASSUME span.merged PROVE p + i >= window.size \/ rig.base + (p + i) >= rig.disk
      <4>1. p + m >= window.size \/ rig.base + p + m >= rig.disk
        BY <1>3, <2>1, <3>1
      <4> QED BY <1>1, <2>1, <4>1
    <3> QED BY <3>1 DEF Missing
  <2> QED BY <2>1, <2>2, <2>4, <2>5 DEF FilledRight, x
<1> QED BY <1>4, <1>5

-----------------------------------------------------------------------------
(* Reads.                                                                  *)

LEMMA ViewFacts ==
  ASSUME LayersInv
  PROVE  /\ view.kind \in {"closed", "plain", "bitlocker", "filevault"}
         /\ view # Closed => view.kind # "closed" /\ window.open
         /\ view.kind = "filevault" =>
              view.shift = rig.shift /\ rig.shift + 3 * S <= window.size
         /\ Size \in Nat
<1>1. ViewOK /\ window.size \in Nat /\ rig.shift \in Nat
  BY RigFacts DEF LayersInv, WindowOK
<1>2. view = Closed => view.kind = "closed"
  BY DEF Closed
<1>3. /\ view.kind \in {"closed", "plain", "bitlocker", "filevault"}
      /\ view # Closed => view.kind # "closed" /\ window.open
      /\ view.kind = "filevault" => view.shift = rig.shift /\ rig.shift + 3 * S <= window.size
  BY <1>1, <1>2 DEF ViewOK
<1>4. view.kind = "filevault" => window.size - view.shift \in Nat
  <2>1. ASSUME view.kind = "filevault" PROVE window.size - view.shift \in Nat
    <3>1. 3 * S \in Nat
      BY SectorType
    <3> QED BY <1>1, <1>3, <2>1, <3>1
  <2> QED BY <2>1
<1> QED BY <1>1, <1>3, <1>4 DEF Size

LEMMA TruePlaceType ==
  ASSUME LayersInv, NEW v \in Nat
  PROVE  TruePlace(v) \in Nat /\ TrueTweak(v) \in Int
<1>1. rig.shift \in Nat /\ rig.headAt \in Nat
  BY RigFacts DEF LayersInv
<1>2. TruePlace(v) \in Nat
  BY <1>1 DEF TruePlace
<1>3. v \div S \in Nat /\ TruePlace(v) \div S \in Nat
  BY <1>2, SectorType, DivMod
<1> QED BY <1>2, <1>3 DEF TrueTweak

LEMMA MultipleSum ==
  ASSUME NEW a \in Nat, NEW b \in Nat, NEW s \in Nat \ {0}, a % s = 0, b % s = 0
  PROVE  (a + b) % s = 0
<1> DEFINE m == a \div s
           n == b \div s
<1>1. m \in Nat /\ n \in Nat /\ a = m * s + 0 /\ b = n * s + 0
  BY DivMod
<1> HIDE DEF m, n
<1>2. a + b = (m + n) * s + 0 /\ m + n \in Nat /\ 0 \in 0..(s - 1)
  <2>1. (m + n) * s = m * s + n * s /\ m * s \in Nat /\ n * s \in Nat
    BY <1>1
  <2> QED BY <1>1, <2>1
<1>3. ((m + n) * s + 0) % s = 0
  BY <1>2, DivModUnique
<1> QED BY <1>2, <1>3

(* A sector of a run lies, and was encrypted, where the run says, counted  *)
(* on from its base.                                                       *)
LEMMA RunRight ==
  ASSUME LayersInv, view.kind \in {"bitlocker", "filevault"},
         NEW base \in Nat, base % S = 0, NEW i \in Nat,
         Relocated(base) => base + i < rig.headSize
  PROVE  /\ Physical(base) + i = TruePlace(base + i)
         /\ Tweak(base) + (i \div S) = TrueTweak(base + i)
<1>1. /\ rig.shift \in Nat /\ rig.headAt \in Nat /\ rig.headSize \in Nat
      /\ rig.headAt % S = 0
  BY RigFacts DEF LayersInv
<1>2. (base + i) \div S = (base \div S) + (i \div S)
  BY SectorType, DivAdds
<1>3. CASE view.kind = "filevault"
  <2>1. Physical(base) = rig.shift + base /\ Tweak(base) = base \div S
    <3>1. view.shift = rig.shift
      BY <1>3, ViewFacts
    <3>2. ~Relocated(base)
      BY <1>3 DEF Relocated
    <3>3. Physical(base) = view.shift + base
      BY <1>3, <3>2 DEF Physical
    <3>4. Tweak(base) = base \div S
      BY <1>3 DEF Tweak
    <3> QED BY <3>1, <3>3, <3>4
  <2>2. TruePlace(base + i) = rig.shift + (base + i) /\ TrueTweak(base + i) = (base + i) \div S
    BY <1>3 DEF TruePlace, TrueTweak
  <2> QED BY <1>1, <1>2, <2>1, <2>2
<1>4. CASE view.kind = "bitlocker" /\ Relocated(base)
  <2> DEFINE h == rig.headAt + base
  <2>1. Physical(base) = h /\ Tweak(base) = h \div S
    BY <1>4 DEF Physical, Tweak
  <2>2. base + i < rig.headSize
    BY <1>4
  <2>3. TruePlace(base + i) = rig.headAt + (base + i)
    BY <1>4, <2>2 DEF TruePlace
  <2>4. rig.headAt + (base + i) = h + i /\ h \in Nat
    BY <1>1
  <2>5. TrueTweak(base + i) = (h + i) \div S
    BY <1>4, <2>3, <2>4 DEF TrueTweak
  <2>6. h % S = 0
    BY <1>1, SectorType, MultipleSum
  <2> HIDE DEF h
  <2>7. (h + i) \div S = (h \div S) + (i \div S)
    BY <2>4, <2>6, SectorType, DivAdds
  <2> QED BY <2>1, <2>3, <2>4, <2>5, <2>7
<1>5. CASE view.kind = "bitlocker" /\ ~Relocated(base)
  <2>1. Physical(base) = base /\ Tweak(base) = base \div S
    BY <1>5 DEF Physical, Tweak
  <2>2. ~(base + i < rig.headSize)
    BY <1>1, <1>5 DEF Relocated
  <2>3. TruePlace(base + i) = base + i
    BY <1>5, <2>2 DEF TruePlace
  <2>4. TrueTweak(base + i) = (base + i) \div S
    BY <1>5, <2>3 DEF TrueTweak
  <2> QED BY <1>2, <2>1, <2>3, <2>4
<1> QED BY <1>3, <1>4, <1>5

LEMMA FloorBelow ==
  ASSUME NEW a \in Nat, NEW b \in Nat, a <= b
  PROVE  a - (a % S) <= b - (b % S) /\ a - (a % S) \in Nat
<1> DEFINE m == a \div S
           n == b \div S
           x == a % S
           y == b % S
<1>1. /\ m \in Nat /\ x \in 0..(S - 1) /\ a = m * S + x
      /\ n \in Nat /\ y \in 0..(S - 1) /\ b = n * S + y /\ S \in Nat \ {0}
  BY SectorType, DivMod
<1> HIDE DEF m, n, x, y
<1>2. m * S \in Nat /\ n * S \in Nat
  BY <1>1
<1>3. ~(n < m)
  <2>1. ASSUME n < m PROVE FALSE
    <3>1. n * S + S <= m * S
      BY <1>1, <2>1, ProductBelow
    <3> QED BY <1>1, <1>2, <3>1
  <2> QED BY <2>1
<1>4. m * S <= n * S
  <2>1. m < n => m * S + S <= n * S
    BY <1>1, ProductBelow
  <2> QED BY <1>1, <1>2, <1>3, <2>1
<1>5. a - x = m * S /\ b - y = n * S
  BY <1>1, <1>2
<1> QED BY <1>2, <1>4, <1>5 DEF x, y

(* The n units a round of the read at start hands out from off on.         *)
BatchOK(f, start, off, n) ==
  /\ DOMAIN f = 1..n /\ f = [k \in 1..n |-> f[k]]
  /\ \A k \in 1..n : f[k] \in Units
  /\ CacheFindable => \A k \in 1..n : RightAt(start, off + k - 1, f[k])

(* Two places that begin sectors are whole sectors apart.                  *)
LEMMA SectorsApart ==
  ASSUME NEW a \in Nat, a % S = 0, NEW b \in Nat, b % S = 0, a < b
  PROVE  \E h \in Nat \ {0} : b - a = h * S
BY SectorType, MultipleDistance

(* One round of a decrypting read: it makes progress, hands out no more    *)
(* than was asked for, and each unit is taken from where it is and         *)
(* decrypted as what it is, although the round deals in whole sectors, or  *)
(* is lost to a unit in front of it in the batch.                          *)
LEMMA BatchRight ==
  ASSUME LayersInv, view.kind \in {"bitlocker", "filevault"},
         NEW start \in Nat, NEW off \in Nat, start <= off,
         NEW left \in Nat \ {0}, off + left <= Size
  PROVE  \E n \in 1..left : BatchOK(Batch(off, left), start, off, n)
<1> DEFINE in == off % S
           q == off \div S
           base == off - in
           units == Least(Least(left + in, RunEnd(base) - base), MaxBatch)
           nsec == (units + S - 1) \div S
           n == Least(nsec * S - in, left)
           raw == ReadAll(Physical(base), nsec * S)
<1>1. q \in Nat /\ in \in 0..(S - 1) /\ off = q * S + in /\ S \in Nat \ {0} /\ q * S \in Nat
  <2>1. q \in Nat /\ in \in 0..(S - 1) /\ off = q * S + in
    BY SectorType, DivMod
  <2>2. q * S \in Nat
    BY <2>1, SectorType
  <2> QED BY <2>1, <2>2, SectorType
<1>2. Batch(off, left) = [k \in 1..n |-> Decrypted(raw[(in + k - 1) + 1],
                                                   Tweak(base) + ((in + k - 1) \div S))]
  BY DEF Batch
<1> HIDE DEF raw
<1>20. start - (start % S) <= base /\ start - (start % S) \in Nat
  BY FloorBelow
<1> HIDE DEF in, q
<1>3. base \in Nat /\ base = q * S + 0 /\ off = base + in
  BY <1>1
<1>4. base % S = 0
  <2>1. 0 \in 0..(S - 1)
    BY <1>1
  <2>2. (q * S + 0) % S = 0
    BY <1>1, <2>1, DivModUnique
  <2> QED BY <1>3, <2>2
<1>5. rig.headSize \in Nat /\ rig.headSize % S = 0 /\ Size \in Nat /\ MaxBatch \in Nat \ {0}
  BY RigFacts, ViewFacts, BatchFacts DEF LayersInv
<1> HIDE DEF base
<1>6. /\ RunEnd(base) - base \in Nat \ {0}
      /\ Relocated(base) => \E h \in Nat : RunEnd(base) - base = h * S /\ rig.headSize = base + h * S
  <2>1. CASE Relocated(base)
    <3>1. RunEnd(base) = rig.headSize /\ base < rig.headSize
      BY <2>1 DEF RunEnd, Relocated
    <3>2. PICK h \in Nat \ {0} : rig.headSize - base = h * S
      BY <1>3, <1>4, <1>5, <3>1, SectorsApart
    <3>3. h * S \in Nat
      BY <1>1
    <3> QED BY <1>3, <1>5, <3>1, <3>2, <3>3
  <2>2. CASE ~Relocated(base)
    <3>1. RunEnd(base) = Size
      BY <2>2 DEF RunEnd
    <3>2. base < Size
      BY <1>1, <1>3, <1>5
    <3> QED BY <1>3, <1>5, <2>2, <3>1, <3>2
  <2> QED BY <2>1, <2>2
<1>7. units \in Nat \ {0} /\ units <= RunEnd(base) - base /\ units <= MaxBatch
  BY <1>1, <1>5, <1>6 DEF Least
<1> HIDE DEF units
<1>8. /\ nsec \in Nat \ {0}
      /\ \A h \in Nat : units <= h * S => nsec * S <= h * S
  BY <1>1, <1>7, RoundedUp
<1> HIDE DEF nsec
<1>9. nsec * S \in Nat /\ S <= nsec * S
  <2>1. 0 * S + S <= nsec * S
    BY <1>1, <1>8, ProductBelow
  <2>2. 0 * S = 0 /\ nsec * S \in Nat
    BY <1>1, <1>8
  <2> QED BY <1>1, <2>1, <2>2
<1>10. n \in 1..left /\ n <= nsec * S - in
  BY <1>1, <1>9 DEF Least
<1> HIDE DEF n
<1>11. nsec * S <= MaxBatch
  <2>1. MaxBatch \div S \in Nat /\ MaxBatch = (MaxBatch \div S) * S + (MaxBatch % S)
    BY <1>1, <1>5, DivMod
  <2>2. (MaxBatch \div S) * S \in Nat
    BY <1>1, <2>1
  <2>3. MaxBatch = (MaxBatch \div S) * S
    BY <1>5, <2>1, <2>2, BatchFacts
  <2> QED BY <1>7, <1>8, <2>1, <2>3
<1>12. ASSUME NEW i \in Nat, i < nsec * S
       PROVE  /\ Physical(base) + i = TruePlace(base + i)
              /\ Tweak(base) + (i \div S) = TrueTweak(base + i)
  <2>1. ASSUME Relocated(base) PROVE base + i < rig.headSize
    <3>1. PICK h \in Nat : RunEnd(base) - base = h * S /\ rig.headSize = base + h * S
      BY <1>6, <2>1
    <3>2. nsec * S <= h * S
      BY <1>7, <1>8, <3>1
    <3>3. h * S \in Nat
      BY <1>1
    <3> QED BY <1>3, <1>9, <1>12, <3>1, <3>2, <3>3
  <2> QED BY <1>3, <1>4, <1>12, <2>1, RunRight
<1>13. Physical(base) \in Nat
  <2>1. Physical(base) + 0 = TruePlace(base + 0)
    BY <1>1, <1>9, <1>12
  <2>2. base + 0 = base /\ Physical(base) \in Int
    <3>1. rig.headAt \in Nat /\ rig.shift \in Nat
      BY RigFacts DEF LayersInv
    <3>2. view.kind = "filevault" => view.shift = rig.shift
      BY ViewFacts
    <3> QED BY <1>3, <3>1, <3>2 DEF Physical
  <2>3. TruePlace(base) \in Nat
    BY <1>3, TruePlaceType
  <2> QED BY <2>1, <2>2, <2>3
<1>14. window.open
  BY ViewFacts DEF Closed
<1>15. ASSUME NEW k \in 1..n
       PROVE  /\ Batch(off, left)[k] \in Units
              /\ CacheFindable => RightAt(start, off + k - 1, Batch(off, left)[k])
  <2> DEFINE i == in + k - 1
             v == off + k - 1
             p == Physical(base)
             x == raw[i + 1]
             t == Tweak(base) + (i \div S)
  <2>1. i \in Nat /\ i < nsec * S /\ v = base + i /\ v \in Nat
    BY <1>1, <1>3, <1>9, <1>10
  <2>2. Batch(off, left)[k] = Decrypted(x, t)
    BY <1>2
  <2> HIDE DEF i
  <2>3. p + i = TruePlace(v) /\ t = TrueTweak(v) /\ t \in Int
    <3>1. TrueTweak(v) \in Int
      BY <2>1, TruePlaceType
    <3> QED BY <1>12, <2>1, <3>1
  <2>4. FilledRight(p, i, x)
    BY <1>9, <1>13, <1>14, <2>1, FillReads DEF raw
  <2> HIDE DEF v, p, x, t, raw
  <2>5. Decrypted(x, t) \in Units
    BY <2>3, <2>4 DEF FilledRight, Decrypted, Units
  <2>6. ASSUME CacheFindable PROVE RightAt(start, v, Decrypted(x, t))
    <3>1. CASE x = TrueCopy(rig.base + (p + i)) /\ x # Hole
      <4>1. Decrypted(x, t) = <<TrueCopy(rig.base + TruePlace(v)), TrueTweak(v)>>
        BY <2>3, <3>1 DEF Decrypted
      <4> QED BY <4>1 DEF RightAt
    <3>2. CASE x = Hole /\ (span.merged => Missing(p + i)) /\ \E j \in 0..i : Missing(p + j)
      <4>1. Decrypted(x, t) = Noise /\ Lost = Noise
        BY <3>2 DEF Decrypted, Lost
      <4>2. span.merged => Missing(TruePlace(v))
        BY <2>3, <3>2
      <4>3. PICK j \in 0..i : Missing(p + j)
        BY <3>2
      <4> DEFINE w == base + j
      <4>4. j \in Nat /\ j < nsec * S /\ w \in Nat /\ w <= v /\ v - w = i - j
        BY <1>3, <1>9, <2>1, <4>3
      <4>5. p + j = TruePlace(w)
        BY <1>12, <4>4 DEF p
      <4> HIDE DEF w
      <4>6. v < w + MaxBatch
        BY <1>5, <1>9, <1>11, <2>1, <4>3, <4>4
      <4>7. TruePlace(v) - TruePlace(w) = v - w
        <5>1. p \in Nat
          BY <1>13 DEF p
        <5>2. TruePlace(v) = p + i /\ TruePlace(w) = p + j
          BY <2>3, <4>5
        <5>3. (p + i) - (p + j) = i - j
          BY <2>1, <4>4, <5>1
        <5> QED BY <4>4, <5>2, <5>3
      <4>8. SpoiledBy(w, v)
        BY <4>3, <4>4, <4>5, <4>6, <4>7 DEF SpoiledBy
      <4>9. w \in (start - (start % S))..v
        BY <1>3, <1>20, <2>1, <4>3, <4>4 DEF w
      <4>10. Spoiled(start, v)
        BY <4>2, <4>8, <4>9 DEF Spoiled
      <4> QED BY <4>1, <4>10 DEF RightAt
    <3> QED BY <2>4, <2>6, <3>1, <3>2 DEF FilledRight
  <2> QED BY <2>2, <2>5, <2>6 DEF v
<1>16. DOMAIN Batch(off, left) = 1..n
  BY <1>2
<1>17. Batch(off, left) = [k \in 1..n |-> Batch(off, left)[k]]
  BY <1>2
<1>18. BatchOK(Batch(off, left), start, off, n)
  <2> DEFINE f == Batch(off, left)
  <2>1. /\ DOMAIN f = 1..n /\ f = [k \in 1..n |-> f[k]]
        /\ \A k \in 1..n : f[k] \in Units
        /\ CacheFindable => \A k \in 1..n : RightAt(start, off + k - 1, f[k])
    BY <1>15, <1>16, <1>17
  <2> HIDE DEF f
  <2>2. BatchOK(f, start, off, n)
    BY <2>1 DEF BatchOK
  <2> QED BY <2>2 DEF f
<1> QED BY <1>10, <1>18

(* A plain view answers with what the window gives.                        *)
LEMMA PlainRight ==
  ASSUME LayersInv, ReadPlain
  PROVE  \E data \in Seq(Units) :
           /\ task' = [task EXCEPT !.op = "answered", !.out = data]
           /\ \/ Len(data) = task.len
              \/ Len(data) < task.len /\ EndsAt(task.off + Len(data))
           /\ Len(data) <= task.len
           /\ CacheFindable => \A k \in 1..Len(data) : RightAt(task.off, task.off + k - 1, data[k])
<1> DEFINE off == task.off
           len == task.len
           got == WindowRead(off, len)
           data == [k \in DOMAIN got |-> <<got[k], -1>>]
<1>1. /\ off \in Nat /\ len \in Nat /\ task.op = "read" /\ view.kind = "plain" /\ view # Closed
      /\ (len > 0 => off + len <= Size) /\ Size = window.size /\ window.size \in Nat
  BY DEF LayersInv, TaskOK, WindowOK, ReadPlain, Size, Closed
<1>2. window.open /\ rig.base \in Nat /\ rig.disk \in Nat
  BY <1>1, ViewFacts, RigFacts DEF LayersInv
<1>3. task' = [task EXCEPT !.op = "answered", !.out = data]
  BY DEF ReadPlain
<1>4. PICK m \in 0..len :
           /\ DOMAIN got = 1..m
           /\ \A k \in 1..m : UnitRight(rig.base + off + k - 1, got[k])
           /\ m < len => \/ off + m >= window.size \/ rig.base + off + m >= rig.disk
                         \/ ~span.merged /\ TrueCopy(rig.base + off + m) \in rig.bad
  <2> HIDE DEF off, len, UnitRight
  <2> QED BY <1>1, <1>2, WindowReads
<1> HIDE DEF got
<1>5. ASSUME NEW k \in 1..m
      PROVE  data[k] \in Units /\ (CacheFindable => RightAt(off, off + k - 1, data[k]))
  <2> DEFINE v == off + k - 1
  <2>1. v \in Nat /\ rig.base + off + k - 1 = rig.base + v
    BY <1>1, <1>2
  <2>2. data[k] = <<got[k], -1>>
    BY <1>4
  <2>3. TruePlace(v) = v /\ TrueTweak(v) = -1 /\ Lost = <<Hole, -1>>
    BY <1>1 DEF TruePlace, TrueTweak, Lost
  <2>4. UnitRight(rig.base + v, got[k])
    BY <1>4, <2>1
  <2> HIDE DEF v, data
  <2>5. data[k] \in Units
    BY <2>2, <2>4 DEF UnitRight, Units
  <2>6. ASSUME CacheFindable PROVE RightAt(off, v, data[k])
    <3>1. CASE got[k] = TrueCopy(rig.base + v)
      BY <2>2, <2>3, <3>1 DEF RightAt
    <3>2. CASE got[k] = Hole /\ span.merged /\ TrueCopy(rig.base + v) \in rig.bad
      <4>1. Spoiled(off, v)
        BY <2>3, <3>2 DEF Spoiled, Missing
      <4> QED BY <2>2, <2>3, <3>2, <4>1 DEF RightAt
    <3> QED BY <2>4, <2>6, <3>1, <3>2 DEF UnitRight
  <2> QED BY <2>5, <2>6 DEF v
<1>6. data \in Seq(Units) /\ Len(data) = m
  <2>1. data \in [1..m -> Units]
    BY <1>4, <1>5
  <2> HIDE DEF data
  <2> QED BY <2>1, <1>1, <1>4
<1>7. m < len => EndsAt(off + m)
  <2>1. ASSUME m < len PROVE EndsAt(off + m)
    <3> DEFINE v == off + m
    <3>1. v \in Nat /\ v < window.size /\ rig.base + off + m = rig.base + v
      BY <1>1, <1>2, <2>1
    <3>2. rig.base + v >= rig.disk \/ (~span.merged /\ TrueCopy(rig.base + v) \in rig.bad)
      BY <1>1, <1>4, <2>1, <3>1
    <3>3. rig.base + v \in Nat
      BY <1>2, <3>1
    <3> HIDE DEF v
    <3>4. ~span.merged => TrueCopy(rig.base + v) = <<"qlc", rig.base + v>>
      BY <3>3, ServedRight
    <3>5. EndsAt(v)
      BY <1>1, <3>2, <3>4 DEF EndsAt
    <3> QED BY <3>5 DEF v
  <2> QED BY <2>1
<1>8. m <= len /\ (m = len \/ m < len)
  BY <1>1
<1> HIDE DEF data
<1> QED BY <1>3, <1>5, <1>6, <1>7, <1>8

(* The buffer after a round that handed out n units.                       *)
LEMMA HandedOut ==
  ASSUME NEW start \in Nat, NEW done \in Nat, NEW len \in Nat, done < len,
         NEW n \in 1..(len - done), NEW f, BatchOK(f, start, start + done, n)
  PROVE  /\ f \in Seq(Units) /\ done + Len(f) <= len
         /\ CacheFindable => \A k \in 1..Len(f) : RightAt(start, start + (done + k) - 1, f[k])
<1>1. f \in Seq(Units) /\ Len(f) = n
  <2>1. f \in [1..n -> Units]
    BY DEF BatchOK
  <2>2. n \in Nat
    OBVIOUS
  <2> HIDE DEF Units
  <2> QED BY <2>1, <2>2
<1>2. ASSUME CacheFindable, NEW k \in 1..Len(f)
      PROVE  RightAt(start, start + (done + k) - 1, f[k])
  <2>1. start + (done + k) - 1 = (start + done) + k - 1
    OBVIOUS
  <2>2. k \in 1..n
    BY <1>1
  <2>3. RightAt(start, (start + done) + k - 1, f[k])
    BY <1>2, <2>2 DEF BatchOK
  <2> QED BY <2>1, <2>3
<1>3. done + Len(f) <= len
  BY <1>1
<1> QED BY <1>1, <1>2, <1>3

(* What one round appends to the buffer.                                   *)
LEMMA RoundRight ==
  ASSUME LayersInv, ReadRound
  PROVE  \E data \in Seq(Units) :
           /\ task' = [task EXCEPT !.out = @ \o data]
           /\ Len(task.out) + Len(data) <= task.len
           /\ CacheFindable => \A k \in 1..Len(data) :
                RightAt(task.off, task.off + (Len(task.out) + k) - 1, data[k])
<1> DEFINE done == Len(task.out)
           start == task.off
           len == task.len
           f == Batch(start + done, len - done)
<1>1. /\ start \in Nat /\ len \in Nat /\ task.out \in Seq(Units) /\ done \in Nat
      /\ task.op = "read" /\ done < len
      /\ start + len <= Size /\ view # Closed /\ view.kind # "plain"
      /\ task' = [task EXCEPT !.out = @ \o f]
  BY DEF LayersInv, TaskOK, ReadRound
<1>2. Size \in Nat /\ view.kind \in {"bitlocker", "filevault"}
  BY <1>1, ViewFacts
<1> HIDE DEF done, start, len
<1>3. /\ start + done \in Nat /\ start <= start + done /\ len - done \in Nat \ {0}
      /\ (start + done) + (len - done) <= Size
  BY <1>1, <1>2
<1>4. \E n \in 1..(len - done) : BatchOK(f, start, start + done, n)
  <2> DEFINE o == start + done
             l == len - done
  <2>1. o \in Nat /\ start <= o /\ l \in Nat \ {0} /\ o + l <= Size
    BY <1>3
  <2> HIDE DEF o, l
  <2>2. \E n \in 1..l : BatchOK(Batch(o, l), start, o, n)
    BY <1>1, <1>2, <2>1, BatchRight
  <2> QED BY <2>2 DEF o, l
<1> HIDE DEF f
<1>5. /\ f \in Seq(Units) /\ done + Len(f) <= len
      /\ CacheFindable => \A k \in 1..Len(f) : RightAt(start, start + (done + k) - 1, f[k])
  <2>1. PICK n \in 1..(len - done) : BatchOK(f, start, start + done, n)
    BY <1>4
  <2> QED BY <1>1, <2>1, HandedOut
<1> QED BY <1>1, <1>5 DEF done, start, len

-----------------------------------------------------------------------------
(* The invariant holds initially and is kept by every operation.           *)

LEMMA EmptyIsRight == task.out = <<>> => RightUnitRightKey
BY DEF RightUnitRightKey

LEMMA LayersInit == Init => LayersInv /\ RightUnitRightKey
<1> SUFFICES ASSUME Init PROVE LayersInv /\ RightUnitRightKey
  OBVIOUS
<1>1. SpanOK /\ WindowOK
  BY DEF Init, SpanOK, WindowOK, NoSpan
<1>2. ViewOK
  BY DEF Init, ViewOK
<1>3. TaskOK
  BY DEF Init, TaskOK, Rest, Closed
<1>4. AnswerIsFull /\ task.out = <<>>
  BY DEF Init, AnswerIsFull, Rest
<1> QED BY <1>1, <1>2, <1>3, <1>4, EmptyIsRight DEF Init, LayersInv

(* While the volume is not open nothing is being read.                     *)
LEMMA ClosedIsIdle ==
  ASSUME LayersInv, view = Closed
  PROVE  task = Rest /\ task.out = <<>> /\ task.len = 0
<1>1. TaskOK
  BY DEF LayersInv
<1>2. task = Rest
  BY <1>1 DEF TaskOK
<1> QED BY <1>2 DEF Rest

(* Opening and unlocking leave the reads alone: there are none yet.        *)
LEMMA IdleKept ==
  ASSUME LayersInv, view = Closed, task' = task
  PROVE  TaskOK' /\ AnswerIsFull' /\ RightUnitRightKey'
<1>1. task = Rest /\ task' = Rest /\ task'.out = <<>>
  BY ClosedIsIdle DEF Rest
<1>2. TaskOK'
  <2>1. Len(<<>>) = 0
    OBVIOUS
  <2> QED BY <1>1, <2>1 DEF TaskOK, Rest
<1>3. AnswerIsFull'
  BY <1>1 DEF AnswerIsFull, Rest
<1>4. RightUnitRightKey'
  BY <1>1 DEF RightUnitRightKey
<1> QED BY <1>2, <1>3, <1>4

(* A read leaves the drives and the view alone.                            *)
LEMMA ReadKeeps ==
  ASSUME LayersInv, UNCHANGED <<rig, span, window, view>>
  PROVE  /\ rig' \in Rigs /\ SpanOK' /\ WindowOK' /\ ViewOK' /\ Size' = Size
         /\ CacheFindable' = CacheFindable
         /\ \A off, v, x : RightAt(off, v, x)' = RightAt(off, v, x)
         /\ \A v : EndsAt(v)' = EndsAt(v)
<1>1. rig' \in Rigs /\ SpanOK'
  BY DEF LayersInv, SpanOK
<1>2. WindowOK'
  BY DEF LayersInv, WindowOK, ParseFve, Copies, Wanted
<1>3. ViewOK'
  BY DEF LayersInv, ViewOK, Passwords
<1>4. Size' = Size
  BY DEF Size
<1>5. CacheFindable' = CacheFindable
  BY DEF CacheFindable, FirstRegion
<1>6. \A off, v, x : RightAt(off, v, x)' = RightAt(off, v, x)
  <2>1. \A p : TruePlace(p)' = TruePlace(p) /\ TrueTweak(p)' = TrueTweak(p)
    BY DEF TruePlace, TrueTweak
  <2>2. \A u : TrueCopy(u)' = TrueCopy(u)
    BY DEF TrueCopy, TrueSpan
  <2>3. \A p : Missing(p)' = Missing(p)
    BY <2>2 DEF Missing
  <2>4. \A w, v : SpoiledBy(w, v)' = SpoiledBy(w, v)
    BY <2>1, <2>3 DEF SpoiledBy
  <2>5. \A off, v : Spoiled(off, v)' = Spoiled(off, v)
    BY <2>1, <2>3, <2>4 DEF Spoiled
  <2>6. Lost' = Lost
    BY DEF Lost
  <2> QED BY <2>1, <2>2, <2>5, <2>6 DEF RightAt
<1>7. \A v : EndsAt(v)' = EndsAt(v)
  BY DEF EndsAt
<1> QED BY <1>1, <1>2, <1>3, <1>4, <1>5, <1>6, <1>7

LEMMA LayersStep == LayersInv /\ RightUnitRightKey /\ [Next]_vars => LayersInv' /\ RightUnitRightKey'
<1> SUFFICES ASSUME LayersInv, RightUnitRightKey, [Next]_vars
             PROVE  LayersInv' /\ RightUnitRightKey'
  OBVIOUS
<1>1. rig \in Rigs /\ SpanOK /\ WindowOK /\ ViewOK /\ TaskOK /\ AnswerIsFull
  BY DEF LayersInv
<1>2. CASE Merge
  <2>1. ~span.known /\ UNCHANGED <<rig, window, view, task>>
    BY <1>2 DEF Merge
  <2>2. ~window.open /\ view = Closed
    BY <1>1, <2>1 DEF WindowOK, ViewOK
  <2>3. SpanOK'
    <3> DEFINE c == rig.cache[1]
               end == CHOOSE a \in FindImsm(c) : TRUE
    <3>1. CASE rig.cache = <<>> \/ ~c.boot \/ FindImsm(c) = {}
      BY <1>2, <3>1 DEF Merge, SpanOK, NoSpan
    <3>2. CASE ~(rig.cache = <<>> \/ ~c.boot \/ FindImsm(c) = {})
      <4>1. span' = [known |-> TRUE, merged |-> TRUE, start |-> c.start, len |-> end \div S]
        BY <1>2, <3>2 DEF Merge
      <4>2. c \in Cache
        BY <1>1, <3>2, RigFacts
      <4>3. end \in FindImsm(c) /\ end \in Nat /\ c.start \in Nat
        <5>1. end \in FindImsm(c)
          BY <3>2
        <5>2. FindImsm(c) \subseteq c.supers \cup c.headers
          BY DEF FindImsm, Regions
        <5> QED BY <4>2, <5>1, <5>2 DEF Cache
      <4>4. end \div S \in Nat
        BY <4>3, SectorType, DivMod
      <4> HIDE DEF end
      <4>5. span' \in [known : BOOLEAN, merged : BOOLEAN, start : Nat, len : Nat] /\ span'.known /\ span'.merged
        BY <4>1, <4>3, <4>4
      <4>6. rig'.cache # <<>> /\ span'.start = rig'.cache[1].start
            /\ \E a \in FindImsm(rig'.cache[1]) :
                 span'.len = (CHOOSE b \in FindImsm(rig'.cache[1]) : TRUE) \div S
        BY <2>1, <3>2, <4>1, <4>3 DEF end
      <4> QED BY <4>5, <4>6 DEF SpanOK
    <3> QED BY <3>1, <3>2
  <2>4. WindowOK' /\ ViewOK'
    BY <1>1, <2>1, <2>2 DEF WindowOK, ViewOK
  <2> QED BY <1>1, <2>1, <2>2, <2>3, <2>4, IdleKept DEF LayersInv
<1>3. CASE OpenWindow
  <2>1. span.known /\ ~window.open /\ UNCHANGED <<rig, span, task>>
    BY <1>3 DEF OpenWindow
  <2>2. view = Closed
    BY <1>1, <2>1 DEF ViewOK
  <2>3. rig.base \in Nat /\ rig.length \in Nat /\ rig.disk \in Nat /\ rig.declared \in Nat
    BY <1>1, RigFacts
  <2> DEFINE size == IF ParseFve(rig.length) /\ rig.declared # 0 /\ rig.base < rig.disk
                     THEN Wanted ELSE rig.length
  <2>4. size \in Nat
    BY <2>3 DEF Wanted, Least
  <2>5. window' = [open |-> TRUE, base |-> rig.base, size |-> size]
    BY <1>3 DEF OpenWindow
  <2> HIDE DEF size
  <2>6. window' \in [open : BOOLEAN, base : Nat, size : Nat] /\ window'.open
        /\ window'.base = rig.base /\ window'.size = size
    BY <2>3, <2>4, <2>5
  <2>7. size' = size
    BY <2>1 DEF size, ParseFve, Copies, Wanted
  <2>8. WindowOK'
    BY <2>1, <2>6, <2>7 DEF WindowOK, size
  <2>9. view' = Closed \/ view' = [kind |-> "plain"]
    BY <1>3 DEF OpenWindow
  <2>10. ViewOK'
    BY <2>6, <2>9 DEF ViewOK
  <2>11. SpanOK'
    BY <1>1, <2>1 DEF SpanOK
  <2> QED BY <1>1, <2>1, <2>2, <2>8, <2>10, <2>11, IdleKept DEF LayersInv
<1>4. ASSUME NEW p \in Passwords, UnlockBitLocker(p) \/ UnlockFileVault(p)
      PROVE  LayersInv' /\ RightUnitRightKey'
  <2>1. window.open /\ view = Closed /\ UNCHANGED <<rig, span, window, task>>
    BY <1>4 DEF UnlockBitLocker, UnlockFileVault
  <2>2. SpanOK' /\ WindowOK'
    BY <1>1, <2>1 DEF SpanOK, WindowOK, ParseFve, Copies, Wanted
  <2>3. Passwords' = Passwords
    BY <2>1 DEF Passwords
  <2>4. CASE UnlockBitLocker(p)
    <3>1. view' = Closed \/ view' = [kind |-> "bitlocker", key |-> p]
      BY <2>4 DEF UnlockBitLocker
    <3>2. ViewOK'
      BY <1>4, <2>1, <2>3, <3>1 DEF ViewOK
    <3> QED BY <1>1, <2>1, <2>2, <3>2, IdleKept DEF LayersInv
  <2>5. CASE UnlockFileVault(p)
    <3> DEFINE found == {s \in Shifts : HeaderAt(s, p)}
               at == CHOOSE s \in found : \A x \in found : s <= x
    <3>1. view' = IF found = {} THEN Closed ELSE [kind |-> "filevault", key |-> p, shift |-> at]
      BY <2>5 DEF UnlockFileVault
    <3>2. \A s \in found : s = rig.shift /\ s + 3 * S <= window.size
      BY DEF HeaderAt
    <3>3. found # {} => at = rig.shift /\ rig.shift + 3 * S <= window.size
      <4>1. ASSUME found # {} PROVE found = {rig.shift} /\ rig.shift + 3 * S <= window.size
        BY <3>2, <4>1
      <4>2. rig.shift <= rig.shift
        BY <1>1, RigFacts
      <4> QED BY <4>1, <4>2
    <3> HIDE DEF found, at
    <3>4. ViewOK'
      BY <1>4, <2>1, <2>3, <3>1, <3>3 DEF ViewOK
    <3> QED BY <1>1, <2>1, <2>2, <3>4, IdleKept DEF LayersInv
  <2> QED BY <1>4, <2>4, <2>5
<1>5. CASE Ask
  <2>1. view # Closed /\ UNCHANGED <<rig, span, window, view>>
    BY <1>5 DEF Ask
  <2>2. PICK r \in Reads :
          task' = [op |-> "read", off |-> r[1], len |-> Clipped(r[1], r[2]), out |-> <<>>]
    BY <1>5 DEF Ask
  <2>3. r[1] \in Nat /\ r[2] \in Nat
    BY LayersAssumption
  <2>4. Size \in Nat
    BY ViewFacts
  <2> DEFINE n == Clipped(r[1], r[2])
  <2>5. n \in Nat /\ (n > 0 => r[1] + n <= Size)
    BY <2>3, <2>4 DEF Clipped, Least
  <2> HIDE DEF n
  <2>6. task' = [op |-> "read", off |-> r[1], len |-> n, out |-> <<>>]
    BY <2>2 DEF n
  <2>7. TaskOK'
    <3>1. <<>> \in Seq(Units) /\ Len(<<>>) = 0
      OBVIOUS
    <3> QED BY <2>1, <2>3, <2>5, <2>6, <3>1, ReadKeeps DEF TaskOK
  <2>8. AnswerIsFull' /\ RightUnitRightKey'
    BY <2>6 DEF AnswerIsFull, RightUnitRightKey
  <2> QED BY <2>1, <2>7, <2>8, ReadKeeps DEF LayersInv
<1>6. CASE ReadRound
  <2>1. UNCHANGED <<rig, span, window, view>> /\ task.op = "read" /\ view.kind # "plain"
    BY <1>6 DEF ReadRound
  <2>2. PICK data \in Seq(Units) :
          /\ task' = [task EXCEPT !.out = @ \o data]
          /\ Len(task.out) + Len(data) <= task.len
          /\ CacheFindable => \A k \in 1..Len(data) :
               RightAt(task.off, task.off + (Len(task.out) + k) - 1, data[k])
    BY <1>6, RoundRight
  <2> DEFINE old == task.out
             new == old \o data
  <2>3. /\ task.op \in {"rest", "read", "answered"} /\ task.off \in Nat /\ task.len \in Nat
        /\ old \in Seq(Units)
        /\ task' = [op |-> task.op, off |-> task.off, len |-> task.len, out |-> new]
    BY <1>1, <2>2 DEF TaskOK
  <2>4. /\ new \in Seq(Units) /\ Len(new) = Len(old) + Len(data)
        /\ DOMAIN new = 1..(Len(old) + Len(data)) /\ DOMAIN old = 1..Len(old)
        /\ Len(old) \in Nat /\ Len(data) \in Nat
        /\ \A k \in 1..(Len(old) + Len(data)) :
             new[k] = IF k <= Len(old) THEN old[k] ELSE data[k - Len(old)]
    <3> HIDE DEF old, Units
    <3>1. /\ new \in Seq(Units) /\ Len(new) = Len(old) + Len(data)
          /\ \A k \in 1..(Len(old) + Len(data)) :
               new[k] = IF k <= Len(old) THEN old[k] ELSE data[k - Len(old)]
      BY <2>3, ConcatProperties
    <3> HIDE DEF new
    <3> QED BY <2>3, <3>1
  <2> HIDE DEF new, old
  <2>5. TaskOK'
    <3>1. task.len > 0 => task.off + task.len <= Size
      BY <1>1 DEF TaskOK
    <3>2. view # Closed /\ Len(old) + Len(data) <= task.len
          /\ view.kind # "plain"
      BY <1>1, <2>1, <2>2 DEF TaskOK, old
    <3> QED BY <2>1, <2>3, <2>4, <3>1, <3>2, ReadKeeps DEF TaskOK
  <2>6. AnswerIsFull'
    BY <2>1, <2>3 DEF AnswerIsFull
  <2>7. RightUnitRightKey'
    <3> SUFFICES ASSUME CacheFindable, NEW k \in DOMAIN new
                 PROVE  RightAt(task.off, task.off + k - 1, new[k])
      BY <2>1, <2>3, ReadKeeps DEF RightUnitRightKey
    <3>1. k \in 1..(Len(old) + Len(data))
      BY <2>4
    <3>2. CASE k <= Len(old)
      <4>1. k \in DOMAIN task.out /\ new[k] = task.out[k]
        BY <2>4, <3>1, <3>2 DEF old
      <4> QED BY <4>1 DEF RightUnitRightKey
    <3>3. CASE ~(k <= Len(old))
      <4> DEFINE j == k - Len(old)
      <4>1. j \in 1..Len(data) /\ Len(old) + j = k /\ new[k] = data[j]
        <5>1. Len(old) \in Nat /\ Len(data) \in Nat
          BY <2>4
        <5>2. j \in 1..Len(data) /\ Len(old) + j = k
          BY <3>1, <3>3, <5>1
        <5>3. new[k] = IF k <= Len(old) THEN old[k] ELSE data[k - Len(old)]
          BY <2>4, <3>1
        <5> QED BY <3>3, <5>2, <5>3
      <4> HIDE DEF j
      <4>2. RightAt(task.off, task.off + (Len(old) + j) - 1, data[j])
        BY <2>2, <4>1 DEF old
      <4> QED BY <4>1, <4>2
    <3> QED BY <3>2, <3>3
  <2> QED BY <2>1, <2>5, <2>6, <2>7, ReadKeeps DEF LayersInv
<1>7. CASE Answered
  <2>1. /\ UNCHANGED <<rig, span, window, view>> /\ task.op = "read"
        /\ Len(task.out) >= task.len /\ task' = [task EXCEPT !.op = "answered"]
    BY <1>7 DEF Answered
  <2>2. /\ task.off \in Nat /\ task.len \in Nat /\ task.out \in Seq(Units) /\ view # Closed
        /\ Len(task.out) <= task.len /\ Len(task.out) \in Nat
        /\ task.len > 0 => task.off + task.len <= Size
        /\ task' = [op |-> "answered", off |-> task.off, len |-> task.len, out |-> task.out]
    BY <1>1, <2>1 DEF TaskOK
  <2>3. Len(task.out) = task.len
    BY <2>1, <2>2
  <2>4. TaskOK' /\ AnswerIsFull'
    <3>1. task' \in [op : {"rest", "read", "answered"}, off : Nat, len : Nat, out : Seq(Units)]
      BY <2>2
    <3>2. /\ task'.op = "answered" /\ task'.off = task.off /\ task'.len = task.len
          /\ task'.out = task.out
      BY <2>2
    <3>3. Size' = Size /\ view' = view
      BY <2>1, ReadKeeps
    <3> QED BY <2>2, <2>3, <3>1, <3>2, <3>3 DEF TaskOK, AnswerIsFull
  <2>5. RightUnitRightKey'
    <3> DEFINE old == task.out
    <3>1. task' = [op |-> "answered", off |-> task.off, len |-> task.len, out |-> old]
      BY <2>2
    <3>2. UNCHANGED <<rig, span, window, view>>
      BY <2>1
    <3>3. CacheFindable => \A k \in DOMAIN old : RightAt(task.off, task.off + k - 1, old[k])
      BY DEF RightUnitRightKey
    <3> HIDE DEF old
    <3> QED BY <3>1, <3>2, <3>3, ReadKeeps DEF RightUnitRightKey
  <2> QED BY <2>1, <2>4, <2>5, ReadKeeps DEF LayersInv
<1>10. CASE ReadPlain
  <2>1. UNCHANGED <<rig, span, window, view>> /\ task.op = "read" /\ view # Closed
    BY <1>1, <1>10 DEF ReadPlain, TaskOK
  <2>2. PICK data \in Seq(Units) :
           /\ task' = [task EXCEPT !.op = "answered", !.out = data]
           /\ \/ Len(data) = task.len
              \/ Len(data) < task.len /\ EndsAt(task.off + Len(data))
           /\ Len(data) <= task.len
           /\ CacheFindable => \A k \in 1..Len(data) : RightAt(task.off, task.off + k - 1, data[k])
    BY <1>10, PlainRight
  <2>3. /\ task.off \in Nat /\ task.len \in Nat
        /\ task.len > 0 => task.off + task.len <= Size
        /\ task' = [op |-> "answered", off |-> task.off, len |-> task.len, out |-> data]
    BY <1>1, <2>2 DEF TaskOK
  <2>4. TaskOK' /\ AnswerIsFull'
    <3>1. task' \in [op : {"rest", "read", "answered"}, off : Nat, len : Nat, out : Seq(Units)]
      BY <2>3
    <3>2. /\ task'.op = "answered" /\ task'.off = task.off /\ task'.len = task.len
          /\ task'.out = data
      BY <2>3
    <3>3. Size' = Size /\ view' = view /\ \A v : EndsAt(v)' = EndsAt(v)
      BY <2>1, ReadKeeps
    <3> QED BY <2>1, <2>2, <2>3, <3>1, <3>2, <3>3 DEF TaskOK, AnswerIsFull
  <2>5. RightUnitRightKey'
    <3>1. task'.off = task.off /\ task'.out = data /\ DOMAIN data = 1..Len(data)
      BY <2>3
    <3>2. UNCHANGED <<rig, span, window, view>>
      BY <2>1
    <3>3. CacheFindable => \A k \in DOMAIN data : RightAt(task.off, task.off + k - 1, data[k])
      BY <2>2, <3>1
    <3>4. CacheFindable' = CacheFindable /\ \A off, v, x : RightAt(off, v, x)' = RightAt(off, v, x)
      BY <3>2, ReadKeeps
    <3>5. task' = [op |-> "answered", off |-> task.off, len |-> task.len, out |-> data]
      BY <2>3
    <3> QED BY <3>3, <3>4, <3>5 DEF RightUnitRightKey
  <2> QED BY <2>1, <2>4, <2>5, ReadKeeps DEF LayersInv
<1>8. CASE Taken
  <2>1. UNCHANGED <<rig, span, window, view>> /\ task' = Rest
    BY <1>8 DEF Taken
  <2>2. TaskOK'
    <3>1. <<>> \in Seq(Units) /\ Len(<<>>) = 0
      OBVIOUS
    <3> QED BY <2>1, <3>1 DEF TaskOK, Rest
  <2>3. AnswerIsFull' /\ RightUnitRightKey'
    BY <2>1 DEF AnswerIsFull, RightUnitRightKey, Rest
  <2> QED BY <2>1, <2>2, <2>3, ReadKeeps DEF LayersInv
<1>9. CASE UNCHANGED vars
  <2>1. UNCHANGED <<rig, span, window, view>> /\ task' = task
    BY <1>9 DEF vars
  <2>2. TaskOK' /\ AnswerIsFull'
    BY <1>1, <2>1, ReadKeeps DEF TaskOK, AnswerIsFull
  <2>3. RightUnitRightKey'
    BY <2>1, ReadKeeps DEF RightUnitRightKey
  <2> QED BY <2>1, <2>2, <2>3, ReadKeeps DEF LayersInv
<1> QED BY <1>2, <1>3, <1>4, <1>5, <1>6, <1>7, <1>8, <1>9, <1>10 DEF Next, Read

(* What a read hands out, whatever lies between the drive and the reader:  *)
(* the current copy of each unit asked for, decrypted with the number it   *)
(* was encrypted with, across every boundary of head, batch and cache, or  *)
(* lost to a sector that does not read, itself or in front of it in the    *)
(* batch.                                                                  *)
THEOREM LayersReadRight == Spec => []RightUnitRightKey
BY LayersInit, LayersStep, PTL DEF Spec

(* An answered read is as long as the request, clipped at the end of the   *)
(* view, unless the view is plain and what comes next does not read: a     *)
(* short count tells of damage, a full one tells nothing.                  *)
THEOREM LayersAnswerFull == Spec => []AnswerIsFull
<1>1. LayersInv => AnswerIsFull
  BY DEF LayersInv
<1> QED BY LayersInit, LayersStep, <1>1, PTL DEF Spec

LEMMA GoodCopyParses ==
  ASSUME LayersInv, rig.crypto = "bitlocker", NEW n \in Nat, GoodCopy(n)
  PROVE  ParseFve(n)
<1>1. rig.copies \in Seq([at : Nat, good : BOOLEAN]) /\ Len(rig.copies) = 3
  BY RigFacts DEF LayersInv
<1>2. PICK i \in 1..3 : /\ rig.copies[i].good /\ rig.copies[i].at \in 1..(n - 1)
                        /\ rig.base + rig.copies[i].at < rig.disk
  BY DEF GoodCopy
<1>3. i \in DOMAIN rig.copies /\ rig.copies[i] \in [at : Nat, good : BOOLEAN]
  <2> DEFINE cs == rig.copies
             T == [at : Nat, good : BOOLEAN]
  <2>1. cs \in Seq(T) /\ i \in 1..Len(cs)
    BY <1>1, <1>2
  <2> HIDE DEF cs, T
  <2>2. i \in DOMAIN cs /\ cs[i] \in T
    BY <2>1
  <2> QED BY <2>2 DEF cs, T
<1>4. rig.copies[i] \in Copies
  BY <1>3 DEF Copies, Range
<1>5. rig.copies[i].at # 0 /\ rig.copies[i].at < n
  BY <1>2
<1> QED BY <1>2, <1>4, <1>5 DEF ParseFve

LEMMA WindowFits == LayersInv => WindowFitsVolume
<1> SUFFICES ASSUME LayersInv, window.open, rig.crypto = "bitlocker"
             PROVE  /\ window.size > rig.length => window.base + window.size <= rig.disk
                    /\ GoodCopy(rig.length) =>
                         \/ rig.declared = 0 \/ window.size = rig.declared
                         \/ rig.base + window.size = rig.disk
  BY DEF WindowFitsVolume
<1>1. /\ window.base = rig.base
      /\ window.size = IF ParseFve(rig.length) /\ rig.declared # 0 /\ rig.base < rig.disk
                       THEN Wanted ELSE rig.length
  BY DEF LayersInv, WindowOK
<1>2. rig.base \in Nat /\ rig.length \in Nat /\ rig.disk \in Nat /\ rig.declared \in Nat
      /\ rig.copies \in Seq([at : Nat, good : BOOLEAN]) /\ Len(rig.copies) = 3
  BY RigFacts DEF LayersInv
<1>3. window.size > rig.length => window.base + window.size <= rig.disk
  BY <1>1, <1>2 DEF Wanted, Least
<1>4. ASSUME GoodCopy(rig.length), rig.declared # 0
      PROVE  window.size = rig.declared \/ rig.base + window.size = rig.disk
  <2>1. ParseFve(rig.length)
    BY <1>2, <1>4, GoodCopyParses
  <2>2. rig.base < rig.disk
    <3>1. PICK i \in 1..3 : rig.copies[i].at \in 1..(rig.length - 1)
                            /\ rig.base + rig.copies[i].at < rig.disk
      BY <1>4 DEF GoodCopy
    <3> QED BY <1>2, <3>1
  <2> QED BY <1>1, <1>2, <1>4, <2>1, <2>2 DEF Wanted, Least
<1> QED BY <1>3, <1>4

LEMMA OneCopyUnlocks == LayersInv => OneCopyOpens
<1> SUFFICES ASSUME LayersInv, window.open, rig.crypto = "bitlocker", GoodCopy(window.size),
                    NEW i \in DOMAIN rig.protectors,
                    \A j \in DOMAIN rig.protectors :
                      rig.protectors[j].recovery /\ rig.protectors[j].whole <=> i = j,
                    NEW p \in Passwords
             PROVE  Opens(p) <=> p = rig.protectors[i].opens
  BY DEF OneCopyOpens
<1>1. ParseFve(window.size)
  <2>1. window.size \in Nat
    BY DEF LayersInv, WindowOK
  <2> QED BY <2>1, GoodCopyParses
<1>2. Usable = {i}
  BY DEF Usable
<1>3. i <= i
  <2>1. rig.protectors \in Seq(Protector)
    BY RigsAssumption DEF LayersInv, Rig
  <2>2. i \in Nat
    BY <2>1
  <2> QED BY <2>2
<1>4. Unwraps(p) <=> rig.protectors[i].opens = p
  BY <1>2, <1>3 DEF Unwraps
<1> QED BY <1>1, <1>4 DEF Opens

(* One whole copy of the metadata within the disk is enough, wherever the  *)
(* other two lie: the window is the volume's own as far as the disk goes,  *)
(* and the password of the only whole recovery protector opens it.         *)
THEOREM LayersOneCopy == Spec => []OneCopyIsEnough
<1>1. LayersInv => OneCopyIsEnough
  BY WindowFits, OneCopyUnlocks DEF OneCopyIsEnough
<1> QED BY LayersInit, LayersStep, <1>1, PTL DEF Spec
=============================================================================
