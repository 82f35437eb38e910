-------------------------- MODULE FatVolumeProofs --------------------------
(***************************************************************************)
(* Proofs about the FAT reader, for every volume, however damaged, every   *)
(* number of threads, and every size of cluster, buffer and block.         *)
(***************************************************************************)
EXTENDS FatVolume, NumberLemmas, FiniteSetTheorems, SequenceTheorems

-----------------------------------------------------------------------------
(* The geometry of a mounted volume.                                       *)

Sizes == CS \in Nat \ {0} /\ Chunk \in Nat \ {0} /\ Block \in Nat \ {0}
         /\ Probe \in Nat \ {0} /\ DeletedCap \in Nat \ {0} /\ MaxLfn \in Nat \ {0}

LEMMA SizesHold == Sizes
BY SizeAssumption DEF Sizes

LEMMA VolIs ==
  ASSUME vol \in Volumes
  PROVE  /\ vol.bits \in {12, 16, 32} /\ vol.count \in Nat \ {0} /\ vol.rootUnits \in Nat
         /\ vol.root \in Nat /\ vol.image \in Nat
         /\ vol.fat \in Seq(Nat) /\ DOMAIN vol.fat = 1..vol.count
         /\ vol.unit \in Seq(Slot) /\ DOMAIN vol.unit = 1..Units
         /\ vol.weak \subseteq Nat /\ vol.weakFat \subseteq Nat
         /\ Units \in Nat /\ DataStart \in Nat \ {0} /\ vol.rootUnits + vol.count * CS = Units
<1>1. vol \in Volume /\ Mounted(vol)
  BY VolumeAssumption
<1>2. /\ vol.bits \in {12, 16, 32} /\ vol.count \in Nat /\ vol.rootUnits \in Nat
      /\ vol.root \in Nat /\ vol.image \in Nat
      /\ vol.fat \in Seq(Nat) /\ vol.unit \in Seq(Slot)
      /\ vol.weak \subseteq Nat /\ vol.weakFat \subseteq Nat
  BY <1>1 DEF Volume
<1>3. /\ vol.count > 0 /\ DOMAIN vol.fat = 1..vol.count
      /\ DOMAIN vol.unit = 1..(vol.rootUnits + vol.count * CS)
  BY <1>1 DEF Mounted
<1>4. vol.count * CS \in Nat
  BY <1>2, SizesHold DEF Sizes
<1> QED BY <1>2, <1>3, <1>4 DEF Units, DataStart

LEMMA UnitIs ==
  ASSUME vol \in Volumes, NEW x \in 1..Units
  PROVE  vol.unit[x] \in Slot
<1>1. vol.unit \in Seq(Slot) /\ DOMAIN vol.unit = 1..Units
  BY VolIs
<1>2. ASSUME NEW seq \in Seq(Slot) PROVE \A i \in DOMAIN seq : seq[i] \in Slot
  OBVIOUS
<1> QED BY <1>1, <1>2

LEMMA ClusterOfIs ==
  ASSUME NEW u, NEW x, NEW q, x = u - DataStart, q = x \div CS
  PROVE  ClusterOf(u) = q + 2
BY DEF ClusterOf

(* A valid cluster lies in the data area, and its units name it.           *)
LEMMA ClusterFacts ==
  ASSUME vol \in Volumes, NEW c \in Nat, ValidCluster(c), NEW i \in 0..(CS - 1)
  PROVE  /\ ClusterToOffset(c) \in DataStart..Units
         /\ ClusterToOffset(c) + i \in DataStart..Units
         /\ ClusterOf(ClusterToOffset(c) + i) = c
<1> DEFINE k == c - 2
<1>1. k \in Nat /\ k < vol.count /\ vol.count \in Nat /\ CS \in Nat \ {0}
  BY VolIs, SizesHold DEF ValidCluster, Sizes
<1>2. k * CS \in Nat /\ k * CS + CS <= vol.count * CS
  BY <1>1, ProductBelow
<1>3. k = (k * CS + i) \div CS
  BY <1>1, DivModUnique
<1>4. ClusterToOffset(c) = DataStart + k * CS
  BY DEF ClusterToOffset
<1>5. DataStart = vol.rootUnits + 1 /\ vol.rootUnits \in Nat /\ vol.rootUnits + vol.count * CS = Units
  BY VolIs DEF DataStart
<1> HIDE DEF k
<1>6. k * CS + i = (ClusterToOffset(c) + i) - DataStart
  BY <1>1, <1>2, <1>4, <1>5
<1>7. vol.count * CS \in Nat
  BY <1>1
<1>8. ClusterToOffset(c) \in Int /\ ClusterToOffset(c) >= DataStart
      /\ ClusterToOffset(c) + i <= Units /\ i >= 0 /\ i \in Int
  BY <1>1, <1>2, <1>4, <1>5, <1>7
<1>9. ClusterOf(ClusterToOffset(c) + i) = c
  <2>1. k + 2 = c
    BY DEF k
  <2>2. ClusterOf(ClusterToOffset(c) + i) = k + 2
    <3> DEFINE u == ClusterToOffset(c) + i
               x == k * CS + i
    <3>1. x = u - DataStart /\ k = x \div CS
      <4>1. x = u - DataStart
        BY Zenon, <1>6
      <4>2. k = x \div CS
        BY Zenon, <1>3
      <4> QED BY <4>1, <4>2
    <3> HIDE DEF u, x
    <3>2. ClusterOf(u) = k + 2
      BY <3>1, ClusterOfIs
    <3> QED BY <3>2 DEF u
  <2> QED BY <2>1, <2>2
<1>10. ClusterToOffset(c) \in DataStart..Units /\ ClusterToOffset(c) + i \in DataStart..Units
  <2>1. DataStart \in Int /\ Units \in Int
    BY VolIs
  <2> QED BY <1>8, <2>1
<1> QED BY <1>9, <1>10

(* A read returns at most what was asked for, and nothing only where the   *)
(* first unit does not read.                                               *)
LEMMA GotFacts ==
  ASSUME vol \in Volumes, NEW u \in Nat, NEW n \in Nat, NEW got \in Got(u, n)
  PROVE  /\ got \in 0..n /\ (got > 0 => u + got - 1 <= vol.image)
         /\ n > 0 /\ got = 0 => Unreadable(u)
<1>1. vol.image \in Nat /\ vol.weak \subseteq Nat
  BY VolIs
<1>2. /\ Clip(u, n) \in 0..n /\ (Clip(u, n) > 0 => u + Clip(u, n) - 1 <= vol.image)
      /\ n > 0 /\ Clip(u, n) = 0 => u > vol.image
  BY <1>1 DEF Clip, Least
<1>3. CASE got = Clip(u, n)
  BY <1>2, <1>3 DEF Unreadable
<1>4. CASE got # Clip(u, n)
  <2>1. PICK w \in vol.weak : w >= u /\ w < u + Clip(u, n) /\ got = w - u
    BY <1>4 DEF Got
  <2>2. w \in Nat /\ got \in 0..n /\ (got > 0 => u + got - 1 <= vol.image)
    BY <1>1, <1>2, <2>1
  <2>3. got = 0 => w = u
    BY <2>1, <2>2
  <2> QED BY <2>1, <2>2, <2>3 DEF Unreadable
<1> QED BY <1>3, <1>4

-----------------------------------------------------------------------------
(* The FAT, as the cache gives it.                                         *)

FatSays(c, x) ==
  \/ x = vol.fat[c - 1]
  \/ x = 0 /\ MayReadZero(c)
  \/ x = Half(c) /\ c \in vol.splits \cap vol.weakFat

CacheRight(k) ==
  k.valid => \A c \in Entries(k.block) : FatSays(c, k.entry[c])

LEMMA LoadFacts ==
  ASSUME vol \in Volumes, NEW b \in Nat, NEW k \in Load(b)
  PROVE  k.valid /\ k.block = b /\ CacheRight(k)
<1>1. PICK stop \in {vol.count + 2} \cup (Entries(b) \cap vol.weakFat) : k = Loaded(b, stop)
  BY DEF Load
<1>2. /\ k.valid /\ k.block = b
      /\ k.entry = [c \in Entries(b) |-> Left(c, stop)]
  BY <1>1 DEF Loaded
<1>3. ASSUME NEW c \in Entries(b) PROVE FatSays(c, k.entry[c])
  <2>1. c \in 2..(vol.count + 1) /\ c \div Block = b /\ vol.count \in Nat
    BY VolIs DEF Entries
  <2>2. CASE c < stop
    BY <1>2, <2>2 DEF FatSays, Left
  <2>3. CASE ~(c < stop)
    <3>1. stop \in Entries(b) /\ stop \in vol.weakFat
      BY <2>1, <2>3
    <3>2. stop \in 2..(vol.count + 1) /\ stop \div Block = b
      BY <3>1 DEF Entries
    <3>3. stop = c \/ stop < c
      BY <2>1, <2>3, <3>2
    <3>4. MayReadZero(c)
      BY <2>1, <3>1, <3>2, <3>3 DEF MayReadZero
    <3> QED BY <1>2, <2>3, <3>1, <3>4 DEF FatSays, Left
  <2> QED BY <2>2, <2>3
<1> QED BY <1>2, <1>3 DEF CacheRight

(* Whichever block is in the cache, fatReadRaw returns the entry asked for *)
(* or what a read that failed left of it.                                  *)
LEMMA LookupFacts ==
  ASSUME vol \in Volumes, CacheRight(cache), NEW c \in Nat, ValidCluster(c),
         NEW found \in Lookup(c)
  PROVE  FatSays(c, found.raw) /\ CacheRight(found.cache)
<1> DEFINE b == c \div Block
<1>1. b \in Nat /\ Block \in Nat \ {0} /\ vol.count \in Nat
  <2>1. Block \in Nat \ {0} /\ vol.count \in Nat
    BY SizesHold, VolIs DEF Sizes
  <2> QED BY <2>1, DivMod
<1>2. c \in Entries(b)
  BY <1>1 DEF Entries, ValidCluster
<1> HIDE DEF b
<1> DEFINE blocks == IF Cached(b) THEN {cache} ELSE Load(b)
           Alone  == {vol.fat[c - 1]} \cup (IF c \in vol.weakFat THEN {0} ELSE {})
<1>3. ASSUME NEW k \in blocks PROVE k.valid /\ k.block = b /\ CacheRight(k)
  <2>1. CASE Cached(b)
    BY <1>3, <2>1 DEF Cached
  <2>2. CASE ~Cached(b)
    BY <1>1, <1>3, <2>2, LoadFacts
  <2> QED BY <2>1, <2>2
<1>4. ASSUME NEW x \in Alone PROVE FatSays(c, x)
  <2>1. CASE x = vol.fat[c - 1]
    BY <2>1 DEF FatSays
  <2>2. CASE x # vol.fat[c - 1]
    <3>1. x = 0 /\ c \in vol.weakFat
      BY <1>4, <2>2
    <3>2. MayReadZero(c)
      BY <3>1 DEF MayReadZero
    <3> QED BY <3>1, <3>2 DEF FatSays
  <2> QED BY <2>1, <2>2
<1>5. CASE c \in vol.straddles
  <2>1. found \in {[raw |-> x, cache |-> k] : x \in Alone, k \in blocks}
    BY <1>5 DEF Lookup, b
  <2>2. PICK x \in Alone, k \in blocks : found = [raw |-> x, cache |-> k]
    BY <2>1
  <2> QED BY <1>3, <1>4, <2>2
<1>6. CASE c \notin vol.straddles
  <2>1. found \in {[raw |-> k.entry[c], cache |-> k] : k \in blocks}
    BY <1>6 DEF Lookup, b
  <2>2. PICK k \in blocks : found = [raw |-> k.entry[c], cache |-> k]
    BY <2>1
  <2>3. k.valid /\ k.block = b /\ CacheRight(k)
    BY <1>3, <2>2
  <2>4. FatSays(c, k.entry[c])
    BY <1>2, <2>3 DEF CacheRight
  <2> QED BY <2>2, <2>3, <2>4
<1> QED BY <1>5, <1>6

(* What fatNext makes of an entry is its link, when it has one; of the half*)
(* of one whatever cluster the half names.                                 *)
LEMMA NextFacts ==
  ASSUME vol \in Volumes, NEW c \in Nat, ValidCluster(c), NEW x, FatSays(c, x)
  PROVE  /\ FatNext(x) \in Nat
         /\ Ends(FatNext(x)) => Breaks(c)
         /\ ~Ends(FatNext(x)) =>
              /\ ValidCluster(FatNext(x))
              /\ \/ Linked(c) /\ FatNext(x) = Link(c)
                 \/ Mislinked(c, FatNext(x))
<1>1. vol.bits \in {12, 16, 32} /\ vol.count \in Nat
  BY VolIs
<1>2. c - 1 \in 1..vol.count /\ vol.fat[c - 1] \in Nat
  <2>1. c - 1 \in 1..vol.count
    BY <1>1 DEF ValidCluster
  <2>2. \A i \in DOMAIN vol.fat : vol.fat[i] \in Nat
    <3>1. vol.fat \in Seq(Nat)
      BY VolIs
    <3> QED BY <3>1
  <2>3. DOMAIN vol.fat = 1..vol.count
    BY VolIs
  <2> QED BY <2>1, <2>2, <2>3
<1>3. /\ vol.bits = 12 => vol.count < 4085 /\ vol.fat[c - 1] < 4096
      /\ vol.bits = 16 => vol.count < 65525 /\ vol.fat[c - 1] < 65536
  <2>1. Mounted(vol)
    BY VolumeAssumption
  <2>2. vol.fat[c - 1] \in Range(vol.fat)
    BY <1>2, VolIs DEF Range
  <2> QED BY <2>1, <2>2 DEF Mounted
<1>4. CASE x = vol.fat[c - 1]
  <2> DEFINE e == vol.fat[c - 1]
  <2>1. e \in Nat /\ x = e
    BY <1>2, <1>4
  <2>2. CASE vol.bits = 32
    <3>1. FatNext(x) = e % 268435456 /\ Link(c) = e % 268435456 /\ e % 268435456 \in Nat
      BY <2>1, <2>2 DEF FatNext, Link
    <3> QED BY <3>1, <1>1 DEF Ends, Breaks, Linked, ValidCluster, FatBad, FatEof
  <2>3. CASE vol.bits = 16
    <3>1. e < 65536 /\ vol.count < 65525
      BY <1>3, <2>3
    <3>2. Link(c) = e
      BY <2>1, <2>3, <3>1 DEF Link
    <3>3. FatNext(x) = IF e = 65527 THEN FatBad ELSE IF e > 65527 THEN FatEof ELSE e
      BY <2>1, <2>3 DEF FatNext
    <3> HIDE DEF e
    <3> QED BY <2>1, <3>1, <3>2, <3>3, <1>1 DEF Ends, Breaks, Linked, ValidCluster, FatBad, FatEof
  <2>4. CASE vol.bits = 12
    <3>1. e < 4096 /\ vol.count < 4085
      BY <1>3, <2>4
    <3>2. Link(c) = e
      BY <2>1, <2>4, <3>1 DEF Link
    <3>3. FatNext(x) = IF e = 4087 THEN FatBad ELSE IF e > 4087 THEN FatEof ELSE e
      BY <2>1, <2>4 DEF FatNext
    <3> HIDE DEF e
    <3> QED BY <2>1, <3>1, <3>2, <3>3, <1>1 DEF Ends, Breaks, Linked, ValidCluster, FatBad, FatEof
  <2> QED BY <1>1, <2>2, <2>3, <2>4
<1>5. CASE x = 0 /\ MayReadZero(c)
  <2>1. FatNext(x) = 0
    BY <1>1, <1>5 DEF FatNext
  <2> QED BY <1>5, <2>1 DEF Ends, Breaks
<1>6. CASE x = Half(c) /\ c \in vol.splits \cap vol.weakFat
  <2>1. Half(c) \in 0..255
    <3> DEFINE e == vol.fat[c - 1]
    <3>1. e \in Nat
      BY <1>2
    <3> HIDE DEF e
    <3>2. e % 256 \in 0..255 /\ e % 16 \in 0..15
      BY <3>1
    <3>3. Half(c) = e % 256 \/ Half(c) = e % 16
      BY DEF Half, e
    <3> QED BY <3>2, <3>3
  <2>2. vol.bits = 12
    <3>1. Mounted(vol)
      BY VolumeAssumption
    <3> QED BY <1>6, <3>1 DEF Mounted
  <2>3. FatNext(x) = x
    BY <1>6, <2>1, <2>2 DEF FatNext
  <2>4. Breaks(c)
    BY <1>6 DEF Breaks, MayReadZero
  <2>5. ~Ends(x) => ValidCluster(x)
    BY DEF Ends
  <2> QED BY <1>6, <2>1, <2>3, <2>4, <2>5 DEF Mislinked
<1> QED BY <1>4, <1>5, <1>6 DEF FatSays
-----------------------------------------------------------------------------
(* The slots of one read, one after the other.                             *)

Slots(u, n) == [k \in 1..n |-> u + k - 1]

WalkAfter(f, w, s, S) == IF S = {} THEN w ELSE OnSlot(f[S \ {Max(S)}], s[Max(S)])

WalkLaw(f, w, s) == f = [S \in SUBSET DOMAIN s |-> WalkAfter(f, w, s, S)]

WalkUpTo(f, w, s, n) == f = [S \in SUBSET (1..n) |-> WalkAfter(f, w, s, S)]

LEMMA ScanIs ==
  ASSUME NEW w, NEW u, NEW n
  PROVE  ScanEntries(w, u, n) = (CHOOSE f : WalkLaw(f, w, Slots(u, n)))[DOMAIN Slots(u, n)]
BY DEF ScanEntries, FoldLeft, MapThenFoldSet, WalkLaw, WalkAfter, Slots

LEMMA MaxFacts ==
  ASSUME NEW n \in Nat, NEW S \in SUBSET (1..n), S # {}
  PROVE  /\ Max(S) \in S /\ Max(S) \in 1..n
         /\ \A m \in Nat : S \subseteq 1..(m + 1) => S \ {Max(S)} \in SUBSET (1..m)
<1> DEFINE T == {n - x : x \in S}
<1>1. T \subseteq Nat /\ T # {}
  OBVIOUS
<1>2. PICK d \in T : \A e \in T : d <= e
  <2> HIDE DEF T
  <2> QED BY <1>1, LeastOf
<1>3. PICK x \in S : d = n - x
  BY <1>2
<1>4. ASSUME NEW y \in S PROVE x >= y
  <2>1. n - y \in T /\ y \in 1..n /\ x \in 1..n
    BY <1>3
  <2>2. d <= n - y
    BY <1>2, <2>1
  <2> QED BY <1>3, <2>1, <2>2
<1>5. Max(S) \in S /\ \A y \in S : Max(S) >= y
  BY <1>3, <1>4 DEF Max
<1>6. ASSUME NEW m \in Nat, S \subseteq 1..(m + 1), NEW y \in S \ {Max(S)} PROVE y \in 1..m
  <2>1. y \in 1..(m + 1) /\ Max(S) \in 1..(m + 1) /\ y # Max(S) /\ Max(S) >= y
    BY <1>5, <1>6
  <2> QED BY <2>1
<1> QED BY <1>5, <1>6

LEMMA WalkExists ==
  ASSUME NEW w, NEW s, NEW n \in Nat
  PROVE  \E f : WalkUpTo(f, w, s, n)
<1> DEFINE T == {m \in Nat : ~\E f : WalkUpTo(f, w, s, m)}
<1>1. T = {}
  <2>1. SUFFICES ASSUME T # {} PROVE FALSE
    OBVIOUS
  <2>2. PICK m \in T : \A k \in T : m <= k
    <3>1. T \subseteq Nat
      OBVIOUS
    <3> HIDE DEF T
    <3> QED BY <2>1, <3>1, LeastOf
  <2>3. CASE m = 0
    <3> DEFINE f == [S \in SUBSET (1..0) |-> w]
    <3>1. \A S \in SUBSET (1..0) : S = {}
      OBVIOUS
    <3>2. f = [S \in SUBSET (1..0) |-> WalkAfter(f, w, s, S)]
      BY <3>1 DEF WalkAfter
    <3>3. WalkUpTo(f, w, s, 0)
      BY <3>2 DEF WalkUpTo
    <3> QED BY <2>2, <2>3, <3>3
  <2>4. CASE m # 0
    <3> DEFINE k == m - 1
    <3>1. k \in Nat /\ m = k + 1 /\ k \notin T
      BY <2>2, <2>4
    <3>2. PICK g : WalkUpTo(g, w, s, k)
      BY <3>1
    <3> HIDE DEF k
    <3> DEFINE f == [S \in SUBSET (1..m) |-> WalkAfter(g, w, s, S)]
    <3>3. ASSUME NEW S \in SUBSET (1..k) PROVE S \in SUBSET (1..m) /\ f[S] = g[S]
      <4>1. S \in SUBSET (1..m)
        BY <3>1
      <4>2. g[S] = WalkAfter(g, w, s, S)
        BY <3>2 DEF WalkUpTo
      <4> QED BY <4>1, <4>2
    <3>4. ASSUME NEW S \in SUBSET (1..m) PROVE f[S] = WalkAfter(f, w, s, S)
      <4>1. CASE S = {}
        BY <4>1 DEF WalkAfter
      <4>2. CASE S # {}
        <5>1. S \ {Max(S)} \in SUBSET (1..k)
          BY <3>1, <4>2, MaxFacts
        <5>2. f[S \ {Max(S)}] = g[S \ {Max(S)}]
          BY <3>3, <5>1
        <5> QED BY <4>2, <5>2 DEF WalkAfter
      <4> QED BY <4>1, <4>2
    <3>5. WalkUpTo(f, w, s, m)
      <4>1. DOMAIN f = SUBSET (1..m) /\ f = [S \in DOMAIN f |-> f[S]]
        OBVIOUS
      <4> HIDE DEF f
      <4> QED BY <3>4, <4>1 DEF WalkUpTo
    <3> QED BY <2>2, <3>5
  <2> QED BY <2>3, <2>4
<1> QED BY <1>1

(* What one read of n slots does, slot by slot.                            *)
SlotBySlot(w, u, n) ==
  \E g : /\ g[0] = w /\ ScanEntries(w, u, n) = g[n]
         /\ \A k \in 1..n : g[k] = OnSlot(g[k - 1], u + k - 1)

LEMMA ScanSteps ==
  ASSUME NEW w, NEW u \in Nat, NEW n \in Nat
  PROVE  SlotBySlot(w, u, n)
<1> DEFINE s == Slots(u, n)
           f == CHOOSE h : WalkLaw(h, w, s)
           g == [k \in 0..n |-> f[1..k]]
<1>1. DOMAIN s = 1..n /\ \A k \in 1..n : s[k] = u + k - 1
  BY DEF Slots
<1>2. ScanEntries(w, u, n) = f[1..n]
  BY <1>1, ScanIs
<1> HIDE DEF s
<1>3. WalkLaw(f, w, s)
  <2>1. PICK h : WalkUpTo(h, w, s, n)
    BY WalkExists
  <2>2. WalkLaw(h, w, s)
    BY <1>1, <2>1 DEF WalkLaw, WalkUpTo
  <2> QED BY <2>2
<1> HIDE DEF f
<1>4. \A S \in SUBSET (1..n) : f[S] = WalkAfter(f, w, s, S)
  BY <1>1, <1>3 DEF WalkLaw
<1>5. g[0] = w
  <2>1. 1..0 \in SUBSET (1..n) /\ 1..0 = {}
    OBVIOUS
  <2>2. f[1..0] = w
    BY <1>4, <2>1 DEF WalkAfter
  <2> QED BY <2>2
<1>6. ASSUME NEW k \in 1..n PROVE g[k] = OnSlot(g[k - 1], u + k - 1)
  <2>1. 1..k \in SUBSET (1..n) /\ 1..k # {} /\ k \in 1..k
    OBVIOUS
  <2>2. Max(1..k) = k
    BY <2>1 DEF Max
  <2>3. (1..k) \ {k} = 1..(k - 1)
    OBVIOUS
  <2>4. f[1..k] = OnSlot(f[1..(k - 1)], u + k - 1)
    BY <1>1, <1>4, <2>1, <2>2, <2>3 DEF WalkAfter
  <2> QED BY <2>4
<1>7. ScanEntries(w, u, n) = g[n]
  BY <1>2
<1> HIDE DEF g
<1> QED BY <1>5, <1>6, <1>7 DEF SlotBySlot

Entry == [id : Nat \ {0}, dir : BOOLEAN, deleted : BOOLEAN, size : Nat, first : Nat, name : Nat]

Walk == [lfn : Seq(Slot), past : BOOLEAN, rejected : BOOLEAN, out : Seq(Entry)]

(* An entry, or the node made of it, says what its slot does.              *)
Genuine(e) ==
  /\ e.id \in 1..Units /\ vol.unit[e.id].kind = "entry" /\ Keepable(vol.unit[e.id])
  /\ e.dir = vol.unit[e.id].dir
  /\ e.size = IF e.dir THEN 0 ELSE vol.unit[e.id].size

Knowable == {n \in Node : n.id # 0 /\ Genuine(n)}

(* What entry a slot at x adds to a walk that had or had not seen the end. *)
Adds(past, x, rec) ==
  /\ rec \in Entry /\ rec.id = x /\ Genuine(rec)
  /\ ~rec.deleted => ~past /\ rec.name = vol.unit[x].sum

(* An entry that a listing has to keep.                                    *)
Wanted(x) == vol.unit[x].kind = "entry" /\ vol.unit[x].legal /\ Keepable(vol.unit[x])

LEMMA EntryFacts ==
  ASSUME vol \in Volumes, NEW x \in 1..Units, NEW v \in Walk, vol.unit[x].kind = "entry"
  PROVE  LET nv == OnEntry(v, x) IN
         /\ nv \in Walk /\ nv.past = v.past
         /\ \/ nv.out = v.out /\ ~Wanted(x)
            \/ \E rec : Adds(v.past, x, rec) /\ nv.out = Append(v.out, rec)
<1> DEFINE e == vol.unit[x]
           long == Vouched(v.lfn, e) /\ \A i \in DOMAIN v.lfn : v.lfn[i].legal
           rec == [id |-> x, dir |-> e.dir, deleted |-> e.free \/ v.past,
                   size |-> IF e.dir THEN 0 ELSE e.size, first |-> e.first,
                   name |-> IF long THEN v.lfn[1].sum ELSE e.sum]
           nv == OnEntry(v, x)
<1>1. e \in Slot
  BY UnitIs
<1>2. /\ e.free \in BOOLEAN /\ e.sum \in Nat /\ e.dir \in BOOLEAN /\ e.size \in Nat /\ e.first \in Nat
  BY <1>1 DEF Slot
<1>3. v.lfn \in Seq(Slot) /\ v.past \in BOOLEAN /\ v.rejected \in BOOLEAN /\ v.out \in Seq(Entry)
  BY DEF Walk
<1>4. long => v.lfn[1].sum \in Nat /\ (e.free \/ v.lfn[1].sum = e.sum)
  <2>1. SUFFICES ASSUME long PROVE v.lfn[1].sum \in Nat /\ (e.free \/ v.lfn[1].sum = e.sum)
    OBVIOUS
  <2>2. v.lfn # <<>> /\ (e.free \/ v.lfn[1].sum = e.sum)
    BY <2>1 DEF Vouched
  <2>3. v.lfn[1] \in Slot
    BY <1>3, <2>2
  <2> QED BY <2>2, <2>3 DEF Slot
<1>5. x \in Nat \ {0}
  OBVIOUS
<1>6. nv = IF (long \/ e.legal) /\ Keepable(e)
           THEN [v EXCEPT !.lfn = <<>>, !.out = Append(v.out, rec)]
           ELSE [v EXCEPT !.lfn = <<>>, !.rejected = TRUE]
  BY DEF OnEntry
<1> HIDE DEF nv, long, e
<1>7. rec \in Entry
  BY <1>2, <1>3, <1>4, <1>5 DEF Entry
<1>8. Keepable(e) => Adds(v.past, x, rec)
  <2>0. ASSUME Keepable(e) PROVE Genuine(rec)
    <3>1. rec.id = x /\ rec.dir = e.dir /\ rec.size = IF e.dir THEN 0 ELSE e.size
      OBVIOUS
    <3> HIDE DEF rec
    <3> QED BY <2>0, <3>1 DEF Genuine, e
  <2>1. rec.id = x /\ rec.deleted = (e.free \/ v.past) /\ rec.name = IF long THEN v.lfn[1].sum ELSE e.sum
    OBVIOUS
  <2> HIDE DEF rec
  <2>2. ~rec.deleted => ~v.past /\ rec.name = e.sum
    BY <2>1, <1>4
  <2> QED BY <2>0, <2>1, <2>2, <1>7 DEF Adds, e
<1> HIDE DEF rec
<1>9. Append(v.out, rec) \in Seq(Entry) /\ <<>> \in Seq(Slot)
  BY <1>3, <1>7
<1>10. CASE (long \/ e.legal) /\ Keepable(e)
  <2>1. nv = [v EXCEPT !.lfn = <<>>, !.out = Append(v.out, rec)]
    BY <1>6, <1>10
  <2>2. nv \in Walk /\ nv.past = v.past /\ nv.out = Append(v.out, rec)
    BY <2>1, <1>9 DEF Walk
  <2>3. \E a : Adds(v.past, x, a) /\ nv.out = Append(v.out, a)
    BY <2>2, <1>8, <1>10
  <2> QED BY <2>2, <2>3 DEF nv
<1>11. CASE ~((long \/ e.legal) /\ Keepable(e))
  <2>1. nv = [v EXCEPT !.lfn = <<>>, !.rejected = TRUE]
    BY <1>6, <1>11
  <2>2. nv \in Walk /\ nv.past = v.past /\ nv.out = v.out
    BY <2>1, <1>9 DEF Walk
  <2>3. ~Wanted(x)
    BY <1>11 DEF Wanted, e
  <2> QED BY <2>2, <2>3 DEF nv
<1> QED BY <1>10, <1>11

LEMMA SlotFacts ==
  ASSUME vol \in Volumes, NEW x \in 1..Units, NEW v \in Walk
  PROVE  LET nv == OnSlot(v, x) IN
         /\ nv \in Walk /\ (v.past => nv.past)
         /\ (vol.unit[x].kind = "end" => nv.past)
         /\ \/ nv.out = v.out /\ ~Wanted(x)
            \/ \E rec : Adds(v.past, x, rec) /\ nv.out = Append(v.out, rec)
<1> DEFINE e == vol.unit[x]
           nv == OnSlot(v, x)
<1>1. e \in Slot
  BY UnitIs
<1>2. e.kind \in {"end", "junk", "dot", "lfn", "label", "entry"}
  BY <1>1 DEF Slot
<1>3. v.lfn \in Seq(Slot) /\ v.past \in BOOLEAN /\ v.rejected \in BOOLEAN /\ v.out \in Seq(Entry)
  BY DEF Walk
<1>4. Gathered(v.lfn, e) \in Seq(Slot) /\ <<>> \in Seq(Slot)
  BY <1>1, <1>3 DEF Gathered
<1>5. /\ e.kind = "end" => nv = [v EXCEPT !.lfn = <<>>, !.past = TRUE]
      /\ e.kind = "junk" => nv = [v EXCEPT !.lfn = <<>>, !.rejected = TRUE]
      /\ e.kind \in {"dot", "label"} => nv = [v EXCEPT !.lfn = <<>>]
      /\ e.kind = "lfn" => nv = [v EXCEPT !.lfn = Gathered(v.lfn, e)]
      /\ e.kind = "entry" => nv = OnEntry(v, x)
  BY DEF OnSlot
<1> HIDE DEF e, nv
<1>6. CASE e.kind \in {"end", "junk", "dot", "label", "lfn"}
  <2>1. nv \in Walk /\ nv.out = v.out
    BY <1>4, <1>5, <1>6 DEF Walk
  <2>2. v.past => nv.past
    BY <1>3, <1>5, <1>6 DEF Walk
  <2>3. e.kind = "end" => nv.past
    BY <1>3, <1>5 DEF Walk
  <2>4. ~Wanted(x)
    BY <1>6 DEF Wanted, e
  <2> QED BY <2>1, <2>2, <2>3, <2>4 DEF e, nv
<1>7. CASE e.kind = "entry"
  <2>1. nv = OnEntry(v, x) /\ e.kind # "end" /\ vol.unit[x].kind = "entry"
    BY <1>5, <1>7 DEF e
  <2> QED BY <2>1, EntryFacts DEF e, nv
<1> QED BY <1>2, <1>6, <1>7

(* What a walk v has more than w after the k slots from u on.              *)
Grown(w, v, u, k) ==
  /\ v \in Walk
  /\ w.past => v.past
  /\ \A x \in u..(u + k - 1) : vol.unit[x].kind = "end" => v.past
  /\ Len(w.out) <= Len(v.out)
  /\ \A j \in 1..Len(w.out) : v.out[j] = w.out[j]
  /\ \A j \in (Len(w.out) + 1)..Len(v.out) :
       \E x \in u..(u + k - 1) : Adds(w.past, x, v.out[j])
  /\ \A x \in u..(u + k - 1) : Wanted(x) => \E j \in 1..Len(v.out) : v.out[j].id = x

LEMMA GrownStep ==
  ASSUME vol \in Volumes, NEW w \in Walk, NEW v, NEW u \in Nat \ {0}, NEW k \in Nat,
         Grown(w, v, u, k), u + k <= Units
  PROVE  Grown(w, OnSlot(v, u + k), u, k + 1)
<1> DEFINE x == u + k
           nv == OnSlot(v, x)
<1>1. x \in 1..Units /\ v \in Walk /\ w.out \in Seq(Entry) /\ v.out \in Seq(Entry)
      /\ Len(v.out) \in Nat /\ Len(w.out) \in Nat
  <2>1. v \in Walk
    BY DEF Grown
  <2>2. x \in 1..Units
    BY VolIs
  <2> QED BY <2>1, <2>2 DEF Walk
<1>2. /\ nv \in Walk /\ (v.past => nv.past)
      /\ (vol.unit[x].kind = "end" => nv.past)
      /\ \/ nv.out = v.out /\ ~Wanted(x)
         \/ \E rec : Adds(v.past, x, rec) /\ nv.out = Append(v.out, rec)
  BY <1>1, SlotFacts
<1> HIDE DEF nv
<1>3. nv.past \in BOOLEAN /\ v.past \in BOOLEAN /\ w.past \in BOOLEAN
  BY <1>1, <1>2 DEF Walk
<1>4. w.past => nv.past
  BY <1>2 DEF Grown
<1>5. ASSUME NEW y \in u..(u + (k + 1) - 1), vol.unit[y].kind = "end" PROVE nv.past
  <2>1. CASE y = x
    BY <1>2, <1>5, <2>1
  <2>2. CASE y # x
    <3>1. y \in u..(u + k - 1)
      BY <2>2
    <3>2. v.past
      BY <1>5, <3>1 DEF Grown
    <3> QED BY <1>2, <3>2
  <2> QED BY <2>1, <2>2
<1>6. /\ Len(w.out) <= Len(v.out)
      /\ \A j \in 1..Len(w.out) : v.out[j] = w.out[j]
      /\ \A j \in (Len(w.out) + 1)..Len(v.out) :
           \E y \in u..(u + k - 1) : Adds(w.past, y, v.out[j])
  BY DEF Grown
<1>7. \A y \in u..(u + k - 1) : y \in u..(u + (k + 1) - 1)
  OBVIOUS
<1>8. /\ Len(w.out) <= Len(nv.out)
      /\ \A j \in 1..Len(w.out) : nv.out[j] = w.out[j]
      /\ \A j \in (Len(w.out) + 1)..Len(nv.out) :
           \E y \in u..(u + (k + 1) - 1) : Adds(w.past, y, nv.out[j])
  <2>1. CASE nv.out = v.out
    <3>1. \A j \in (Len(w.out) + 1)..Len(nv.out) :
            \E y \in u..(u + (k + 1) - 1) : Adds(w.past, y, nv.out[j])
      BY <1>6, <1>7, <2>1
    <3> QED BY <1>6, <2>1, <3>1
  <2>2. CASE nv.out # v.out
    <3>1. PICK rec : Adds(v.past, x, rec) /\ nv.out = Append(v.out, rec)
      BY <1>2, <2>2
    <3>2. rec \in Entry
      BY <3>1 DEF Adds
    <3>3. /\ Len(nv.out) = Len(v.out) + 1 /\ nv.out[Len(v.out) + 1] = rec
          /\ \A j \in 1..Len(v.out) : nv.out[j] = v.out[j]
      BY <1>1, <3>1, <3>2
    <3>4. Adds(w.past, x, rec)
      <4>1. ~v.past => ~w.past
        BY <1>3 DEF Grown
      <4> QED BY <3>1, <4>1 DEF Adds
    <3>5. ASSUME NEW j \in (Len(w.out) + 1)..Len(nv.out)
          PROVE  \E y \in u..(u + (k + 1) - 1) : Adds(w.past, y, nv.out[j])
      <4>1. CASE j = Len(v.out) + 1
        <5>1. nv.out[j] = rec /\ x \in u..(u + (k + 1) - 1)
          BY <3>3, <4>1
        <5> HIDE DEF x
        <5> QED BY <3>4, <5>1
      <4>2. CASE j # Len(v.out) + 1
        <5>1. j \in (Len(w.out) + 1)..Len(v.out) /\ j \in 1..Len(v.out)
          BY <1>1, <3>3, <4>2
        <5>2. PICK y \in u..(u + k - 1) : Adds(w.past, y, v.out[j])
          BY <1>6, <5>1
        <5>3. nv.out[j] = v.out[j]
          BY <3>3, <5>1
        <5> QED BY <1>7, <5>2, <5>3
      <4> QED BY <4>1, <4>2
    <3>6. \A j \in 1..Len(w.out) : nv.out[j] = w.out[j]
      <4>1. \A j \in 1..Len(w.out) : j \in 1..Len(v.out)
        BY <1>1, <1>6
      <4> QED BY <1>6, <3>3, <4>1
    <3>7. Len(w.out) <= Len(nv.out)
      BY <1>1, <1>6, <3>3
    <3> QED BY <3>5, <3>6, <3>7
  <2> QED BY <2>1, <2>2
<1>9. ASSUME NEW y \in u..(u + (k + 1) - 1), Wanted(y)
      PROVE  \E j \in 1..Len(nv.out) : nv.out[j].id = y
  <2>1. CASE nv.out = v.out /\ ~Wanted(x)
    <3>1. y \in u..(u + k - 1)
      BY <1>9, <2>1
    <3> QED BY <1>9, <2>1, <3>1 DEF Grown
  <2>2. CASE \E rec : Adds(v.past, x, rec) /\ nv.out = Append(v.out, rec)
    <3>1. PICK rec : Adds(v.past, x, rec) /\ nv.out = Append(v.out, rec)
      BY <2>2
    <3>2. rec \in Entry /\ rec.id = x
      BY <3>1 DEF Adds
    <3>3. /\ Len(nv.out) = Len(v.out) + 1 /\ nv.out[Len(v.out) + 1] = rec
          /\ \A j \in 1..Len(v.out) : nv.out[j] = v.out[j]
      BY <1>1, <3>1, <3>2
    <3>4. CASE y = x
      <4>1. Len(v.out) + 1 \in 1..Len(nv.out)
        BY <1>1, <3>3
      <4> QED BY <3>2, <3>3, <3>4, <4>1
    <3>5. CASE y # x
      <4>1. y \in u..(u + k - 1)
        BY <3>5
      <4>2. PICK j \in 1..Len(v.out) : v.out[j].id = y
        BY <1>9, <4>1 DEF Grown
      <4>3. j \in 1..Len(nv.out)
        BY <1>1, <3>3
      <4> QED BY <3>3, <4>2, <4>3
    <3> QED BY <3>4, <3>5
  <2> QED BY <1>2, <2>1, <2>2
<1> QED BY <1>2, <1>4, <1>5, <1>8, <1>9 DEF Grown, nv

(* All slots of a read.                                                    *)
LEMMA ScanGrows ==
  ASSUME vol \in Volumes, NEW w \in Walk, NEW u \in Nat \ {0}, NEW n \in Nat,
         u + n - 1 <= Units
  PROVE  Grown(w, ScanEntries(w, u, n), u, n)
<1>1. PICK g : /\ g[0] = w /\ ScanEntries(w, u, n) = g[n]
               /\ \A k \in 1..n : g[k] = OnSlot(g[k - 1], u + k - 1)
  <2>1. u \in Nat
    OBVIOUS
  <2>2. SlotBySlot(w, u, n)
    BY <2>1, ScanSteps
  <2> QED BY <2>2 DEF SlotBySlot
<1> DEFINE T == {k \in 0..n : ~Grown(w, g[k], u, k)}
<1>2. T = {}
  <2>1. SUFFICES ASSUME T # {} PROVE FALSE
    OBVIOUS
  <2>2. PICK k \in T : \A m \in T : k <= m
    <3>1. T \subseteq Nat
      OBVIOUS
    <3> HIDE DEF T
    <3> QED BY <2>1, <3>1, LeastOf
  <2>3. CASE k = 0
    <3>1. w.out \in Seq(Entry) /\ Len(w.out) \in Nat
      BY DEF Walk
    <3>2. Grown(w, w, u, 0)
      BY <3>1 DEF Grown
    <3> QED BY <1>1, <2>2, <2>3, <3>2
  <2>4. CASE k # 0
    <3> DEFINE m == k - 1
    <3>1. m \in Nat /\ k = m + 1 /\ m \notin T /\ m \in 0..n /\ k \in 1..n
      BY <2>2, <2>4
    <3>2. Grown(w, g[m], u, m)
      BY <3>1
    <3>3. g[k] = OnSlot(g[m], u + m)
      <4>1. u + k - 1 = u + m
        OBVIOUS
      <4> QED BY <1>1, <3>1, <4>1
    <3>4. u + m <= Units
      BY <3>1, VolIs
    <3> HIDE DEF m
    <3>5. Grown(w, g[k], u, m + 1)
      BY <3>1, <3>2, <3>3, <3>4, GrownStep
    <3> QED BY <2>2, <3>1, <3>5
  <2> QED BY <2>3, <2>4
<1>3. Grown(w, g[n], u, n)
  BY <1>2
<1> QED BY <1>1, <1>3

-----------------------------------------------------------------------------
(* The inductive invariant: of the state all threads share, and of the     *)
(* call each thread is in.                                                 *)

Ops == {"scan", "hop", "chain", "stream"} \cup Resting

Task == [op : Ops, node : Node, contiguous : BOOLEAN, first : Nat, cluster : Nat,
         visited : Nat, walk : Walk, size : Nat, plan : Seq(Nat), guessed : BOOLEAN,
         sent : Seq(Nat \cup {Hole})]

SharedInv ==
  /\ vol \in Volumes
  /\ CacheRight(cache)
  /\ known \subseteq Knowable

(* The unit at k was sent from where it was planned, or lies in a hole.    *)
SentRight(t, k) ==
  IF k > Len(t.plan) THEN t.sent[k] = Hole /\ t.plan[Len(t.plan)] = Units
  ELSE t.sent[k] = t.plan[k] \/ \E j \in 1..k : HoleFrom(t, j, k)

(* A plan shorter than the file ends with the volume.                      *)
PlanReaches(t) ==
  /\ t.op = "chain" /\ Remaining(t) > 0 /\ ~ValidCluster(t.cluster) =>
       t.plan[Len(t.plan)] = Units
  /\ t.op = "stream" /\ Len(t.plan) < t.size => t.plan[Len(t.plan)] = Units

(* What has been sent is the plan, with holes, and the plan is of the file *)
(* that was listed.                                                        *)
InPlace(t) ==
  /\ Len(t.plan) <= t.size /\ Len(t.sent) <= t.size
  /\ \A k \in DOMAIN t.sent : SentRight(t, k)
  /\ t.op = "chain" => t.sent = <<>>
  /\ t.op \in {"chain", "stream"} => t.size = t.node.size
  /\ PlanReaches(t)
  /\ t.op = "read" => Len(t.sent) = t.node.size \/ (t.sent = <<>> /\ EntryLost(t.node))

(* A live file's chain that ran off the volume was being guessed; what the *)
(* stream knows of the damage the notes know.                              *)
Told(t, told) ==
  /\ t.op = "chain" /\ ~t.contiguous /\ ~ValidCluster(t.cluster) => t.guessed
  /\ t.op \in {"stream", "read", "aborted"} =>
       /\ t.guessed => "guessed" \in told
       /\ ~t.contiguous /\ Len(t.plan) < t.size => "guessed" \in told
       /\ (\E k \in DOMAIN t.sent : k <= Len(t.plan) /\ t.sent[k] = Hole) => "gap" \in told

Follows(t, k) ==
  IF k % CS = 0
  THEN /\ t.plan[k + 1] = ClusterToOffset(ClusterOf(t.plan[k + 1]))
       /\ OnChain(t, ClusterOf(t.plan[k]), ClusterOf(t.plan[k + 1]))
  ELSE t.plan[k + 1] = t.plan[k] + 1

(* The plan follows the chain, and as long as bytes remain it ends with a  *)
(* cluster of which the next one, t.cluster, is the successor.             *)
Chained(t) ==
  /\ t.node.deleted /\ (t.op = "chain" \/ t.plan # <<>>) => t.contiguous
  /\ t.guessed => \E u \in Range(t.plan) : Breaks(ClusterOf(u))
  /\ \A k \in 1..(Len(t.plan) - 1) : Follows(t, k)
  /\ t.op = "chain" /\ Remaining(t) > 0 =>
       /\ Len(t.plan) % CS = 0
       /\ t.plan # <<>> => OnChain(t, ClusterOf(t.plan[Len(t.plan)]), t.cluster)

EndBefore(e) == e.id >= DataStart /\ EndsIn(ClusterOf(e.id))

(* A walk that goes on has seen the end marker of every cluster behind it. *)
Ordered(t) ==
  LET out == t.walk.out IN
  /\ t.op = "hop" => ValidCluster(t.cluster)
  /\ \A j \in DOMAIN out : Genuine(out[j])
  /\ \A j \in DOMAIN out : ~out[j].deleted =>
       /\ out[j].name = vol.unit[out[j].id].sum
       /\ \A i \in 1..(j - 1) : EndBefore(out[i]) => ClusterOf(out[i].id) = ClusterOf(out[j].id)
  /\ t.op \in {"scan", "hop"} => \A i \in DOMAIN out : EndBefore(out[i]) => t.walk.past

Good(t, told) == t \in Task /\ InPlace(t) /\ Told(t, told) /\ Chained(t) /\ Ordered(t)

ReadersInv ==
  /\ DOMAIN task = Readers
  /\ \A r \in Readers : Good(task[r], notes)

Inv == SharedInv /\ ReadersInv

(* The volume does not change, so what holds of the new state with the old *)
(* volume holds of it.                                                     *)
LEMMA SharedCarry ==
  ASSUME vol' = vol, vol \in Volumes, CacheRight(cache'), known' \subseteq Knowable
  PROVE  SharedInv'
<1>1. CacheRight(cache)'
  BY DEF CacheRight, FatSays, Entries, MayReadZero, Half
<1>2. Knowable' = Knowable
  BY DEF Knowable, Genuine, Keepable, Units, ValidCluster
<1> QED BY <1>1, <1>2 DEF SharedInv

LEMMA GoodCarry ==
  ASSUME vol' = vol, DOMAIN task' = Readers, \A q \in Readers : Good(task'[q], notes')
  PROVE  ReadersInv'
<1>1. \A c : Breaks(c)' = Breaks(c)
  BY DEF Breaks, Linked, Link, MayReadZero, ValidCluster
<1>2. \A t, c, d : OnChain(t, c, d)' = OnChain(t, c, d)
  <2>1. \A c : Link(c)' = Link(c)
    BY DEF Link
  <2>2. \A c : Linked(c)' = Linked(c)
    BY DEF Linked, Link, ValidCluster
  <2>3. \A c, d : Mislinked(c, d)' = Mislinked(c, d)
    BY DEF Mislinked, Half
  <2> QED BY <1>1, <2>1, <2>2, <2>3 DEF OnChain
<1>3. \A t : Chained(t)' = Chained(t)
  BY <1>1, <1>2 DEF Chained, Follows, ClusterToOffset, ClusterOf, DataStart, Remaining
<1>4. \A t : Ordered(t)' = Ordered(t)
  <2>1. \A e : Genuine(e)' = Genuine(e)
    BY DEF Genuine, Keepable, Units, ValidCluster
  <2> QED BY <2>1 DEF Ordered, EndBefore, EndsIn, ClusterToOffset, ClusterOf, DataStart, ValidCluster
<1>5. \A t, told : Told(t, told)' = Told(t, told)
  BY DEF Told, ValidCluster
<1>6. \A t : InPlace(t)' = InPlace(t)
  <2>1. \A t, j, k : HoleFrom(t, j, k)' = HoleFrom(t, j, k)
    BY DEF HoleFrom, Unreadable
  <2>2. \A t, k : SentRight(t, k)' = SentRight(t, k)
    BY <2>1 DEF SentRight, Units
  <2>3. \A t : PlanReaches(t)' = PlanReaches(t)
    BY DEF PlanReaches, Remaining, ValidCluster, Units
  <2>4. \A n : EntryLost(n)' = EntryLost(n)
    BY DEF EntryLost, Unreadable
  <2> QED BY <2>2, <2>3, <2>4 DEF InPlace
<1> QED BY <1>3, <1>4, <1>5, <1>6 DEF ReadersInv, Good

LEMMA GoodGrows ==
  ASSUME NEW t, NEW told, NEW more, told \subseteq more, Good(t, told)
  PROVE  Good(t, more)
BY DEF Good, Told

(* One thread moves on, the others stay where they are.                    *)
LEMMA Moves ==
  ASSUME ReadersInv, NEW r \in Readers, NEW t, Update(r, t),
         vol' = vol, notes \subseteq notes', Good(t, notes')
  PROVE  ReadersInv'
<1>1. DOMAIN task' = Readers
  BY DEF ReadersInv, Update
<1>2. ASSUME NEW q \in Readers PROVE Good(task'[q], notes')
  <2>1. CASE q = r
    <3>1. task'[q] = t
      BY <2>1 DEF Update, ReadersInv
    <3> QED BY <3>1
  <2>2. CASE q # r
    <3>1. task'[q] = task[q]
      BY <2>2 DEF Update, ReadersInv
    <3>2. Good(task[q], notes)
      BY DEF ReadersInv
    <3>3. Good(task[q], notes')
      BY <3>2, GoodGrows
    <3> QED BY <3>1, <3>3
  <2> QED BY <2>1, <2>2
<1> QED BY <1>1, <1>2, GoodCarry

LEMMA SharedStays ==
  ASSUME SharedInv, UNCHANGED <<vol, cache>>, known' \subseteq Knowable
  PROVE  SharedInv'
<1>1. CacheRight(cache')
  BY DEF SharedInv
<1> QED BY <1>1, SharedCarry DEF SharedInv

-----------------------------------------------------------------------------
(* Calls begin.                                                            *)

LEMMA CallType ==
  ASSUME NEW n \in Node, NEW op \in Ops
  PROVE  Call(op, n) \in Task
<1>1. NoWalk \in Walk
  BY DEF NoWalk, Walk
<1>2. <<>> \in Seq(Nat) /\ <<>> \in Seq(Nat \cup {Hole})
  OBVIOUS
<1> QED BY <1>1, <1>2 DEF Call, Task

LEMMA RootIsNode == Root \in Node
BY DEF Root, Node

(* Nothing is listed, planned or sent yet.                                 *)
LEMMA FreshGood ==
  ASSUME NEW t \in Task, NEW told, t.walk = NoWalk, t.plan = <<>>, t.sent = <<>>, ~t.guessed,
         t.op \in {"idle", "listed", "read", "scan", "chain"},
         t.op = "read" => t.size = 0 /\ (t.node.size = 0 \/ EntryLost(t.node)),
         t.op = "chain" => /\ ValidCluster(t.cluster) /\ t.size = t.node.size
                           /\ (t.node.deleted => t.contiguous)
  PROVE  Good(t, told)
<1>1. t.size \in Nat /\ Len(t.plan) = 0 /\ Len(t.sent) = 0 /\ DOMAIN t.sent = {}
  BY DEF Task
<1>2. InPlace(t)
  BY <1>1 DEF InPlace, PlanReaches
<1>3. Told(t, told)
  BY <1>1 DEF Told
<1>4. Chained(t)
  <2>1. 0 % CS = 0
    BY SizesHold DEF Sizes
  <2> QED BY <1>1, <2>1 DEF Chained, Remaining
<1>5. Ordered(t)
  <2>1. t.walk.out = <<>> /\ DOMAIN t.walk.out = {}
    BY DEF NoWalk
  <2> QED BY <2>1 DEF Ordered
<1> QED BY <1>2, <1>3, <1>4, <1>5 DEF Good

(* An entry that is read again is whole, and what its slot says.           *)
LEMMA ReopenFacts ==
  ASSUME SharedInv, NEW u \in Nat \ {0}, NEW rec \in Reopen(u), rec # NoRecord
  PROVE  /\ rec.dir \in BOOLEAN /\ rec.deleted \in BOOLEAN /\ rec.size \in Nat /\ rec.first \in Nat
         /\ ~rec.dir /\ rec.size > 0 => ValidCluster(rec.first)
         /\ rec.dir = vol.unit[u].dir
         /\ rec.size = IF vol.unit[u].dir THEN 0 ELSE vol.unit[u].size
<1> DEFINE e == vol.unit[u]
<1>1. rec = RecordAt(u)
  BY DEF Reopen
<1>2. u <= Units
  <2>1. Units \in Nat
    BY VolIs DEF SharedInv
  <2> QED BY <1>1, <2>1 DEF RecordAt
<1>3. e \in Slot
  BY <1>2, UnitIs, VolIs DEF SharedInv
<1>4. e.free \in BOOLEAN /\ e.dir \in BOOLEAN /\ e.size \in Nat /\ e.first \in Nat
  BY <1>3 DEF Slot
<1>5. /\ rec = [id |-> u, dir |-> e.dir, deleted |-> e.free,
               size |-> IF e.dir THEN 0 ELSE e.size, first |-> e.first]
      /\ ~(~e.dir /\ e.size > 0 /\ ~ValidCluster(e.first))
  BY <1>1 DEF RecordAt
<1>6. /\ rec.dir = e.dir /\ rec.deleted = e.free /\ rec.first = e.first
      /\ rec.size = IF e.dir THEN 0 ELSE e.size
  BY <1>5
<1> HIDE DEF e
<1> QED BY <1>4, <1>5, <1>6 DEF e

(* An entry that was listed is there the next time, unless it does not read*)
(* or only its long name is legal.                                         *)
LEMMA ReopenLost ==
  ASSUME SharedInv, NEW n \in Knowable, NoRecord \in Reopen(n.id)
  PROVE  EntryLost(n)
<1> DEFINE u == n.id
           e == vol.unit[u]
<1>1. /\ u \in 1..Units /\ e.kind = "entry" /\ Keepable(e) /\ vol \in Volumes
      /\ Units \in Nat
  BY VolIs DEF Knowable, Genuine, SharedInv
<1>2. e \in Slot
  BY <1>1, UnitIs
<1>3. PICK g \in Got(u, 1) : NoRecord = IF g = 1 THEN RecordAt(u) ELSE NoRecord
  BY DEF Reopen
<1>4. CASE g # 1
  <2>1. g \in 0..1 /\ (g = 0 => Unreadable(u))
    <3>1. u \in Nat /\ 1 \in Nat /\ 1 > 0
      BY <1>1
    <3> QED BY <1>1, <1>3, <3>1, GotFacts
  <2> QED BY <1>4, <2>1 DEF EntryLost
<1>5. CASE g = 1
  <2>1. RecordAt(u) = NoRecord
    BY <1>3, <1>5
  <2>2. SUFFICES ASSUME e.legal PROVE FALSE
    BY DEF EntryLost
  <2>3. ~(u > Units) /\ ~(vol.bits = 32 /\ u < DataStart)
    <3>1. vol.bits = 32 => DataStart = 1
      BY <1>1, VolumeAssumption DEF Mounted, DataStart
    <3> QED BY <1>1, <3>1
  <2>4. ~(~e.dir /\ e.size > Units) /\ ~(~e.dir /\ e.size > 0 /\ ~ValidCluster(e.first))
    <3>1. e.dir \in BOOLEAN /\ e.size \in Nat
      BY <1>2 DEF Slot
    <3> QED BY <1>1, <3>1 DEF Keepable
  <2>5. RecordAt(u) = [id |-> u, dir |-> e.dir, deleted |-> e.free,
                       size |-> IF e.dir THEN 0 ELSE e.size, first |-> e.first]
    BY <1>1, <2>2, <2>3, <2>4 DEF RecordAt
  <2> DEFINE rec == [id |-> u, dir |-> e.dir, deleted |-> e.free,
                     size |-> IF e.dir THEN 0 ELSE e.size, first |-> e.first]
  <2>6. rec.id = u /\ NoRecord.id = 0
    BY DEF NoRecord
  <2> HIDE DEF rec
  <2>7. rec = NoRecord
    BY <2>1, <2>5 DEF rec
  <2> QED BY <1>1, <2>6, <2>7
<1> QED BY <1>4, <1>5

LEMMA KnownIs ==
  ASSUME SharedInv, NEW n \in known
  PROVE  n \in Node /\ n.id \in Nat \ {0} /\ n.deleted \in BOOLEAN /\ n \in Knowable
BY DEF SharedInv, Node, Knowable

LEMMA ListRootInv ==
  ASSUME Inv, NEW r \in Readers, ListRoot(r) PROVE Inv'
<1> DEFINE t == [Call("scan", Root) EXCEPT !.first = vol.root, !.cluster = vol.root]
<1>1. vol.root \in Nat
  BY VolIs DEF Inv, SharedInv
<1>2. t \in Task
  <2>1. Call("scan", Root) \in Task
    BY CallType, RootIsNode DEF Ops
  <2> QED BY <1>1, <2>1 DEF Task
<1>3. t.walk = NoWalk /\ t.plan = <<>> /\ t.sent = <<>> /\ ~t.guessed /\ t.op = "scan"
  BY DEF Call
<1>4. Update(r, t) /\ UNCHANGED <<vol, cache, notes, known>>
  BY DEF ListRoot
<1> HIDE DEF t
<1>5. Good(t, notes')
  BY <1>2, <1>3, FreshGood
<1>6. ReadersInv'
  BY <1>4, <1>5, Moves DEF Inv
<1>7. SharedInv'
  BY <1>4, SharedStays DEF Inv, SharedInv
<1> QED BY <1>6, <1>7 DEF Inv

LEMMA ListDirInv ==
  ASSUME Inv, NEW r \in Readers, ListDir(r) PROVE Inv'
<1>1. UNCHANGED <<vol, cache, notes, known>>
  BY DEF ListDir
<1>2. PICK n \in known : \E rec \in Reopen(n.id) :
        IF rec = NoRecord THEN Update(r, Call("listed", n))
        ELSE IF ~rec.dir \/ ~ValidCluster(rec.first) THEN Update(r, Call("listed", n))
        ELSE Update(r, [Call("scan", n) EXCEPT
               !.first = rec.first, !.cluster = rec.first,
               !.contiguous = n.deleted \/ rec.deleted])
  BY DEF ListDir
<1>3. PICK rec \in Reopen(n.id) :
        IF rec = NoRecord THEN Update(r, Call("listed", n))
        ELSE IF ~rec.dir \/ ~ValidCluster(rec.first) THEN Update(r, Call("listed", n))
        ELSE Update(r, [Call("scan", n) EXCEPT
               !.first = rec.first, !.cluster = rec.first,
               !.contiguous = n.deleted \/ rec.deleted])
  BY <1>2
<1>4. n \in Node /\ n.id \in Nat \ {0} /\ n.deleted \in BOOLEAN
  BY KnownIs DEF Inv
<1>5. \E t : Update(r, t) /\ Good(t, notes')
  <2>1. CASE rec = NoRecord \/ ~rec.dir \/ ~ValidCluster(rec.first)
    <3> DEFINE t == Call("listed", n)
    <3>1. Update(r, t)
      BY <1>3, <2>1
    <3>2. t \in Task
      BY <1>4, CallType DEF Ops, Resting
    <3>3. t.walk = NoWalk /\ t.plan = <<>> /\ t.sent = <<>> /\ ~t.guessed /\ t.op = "listed"
      BY DEF Call
    <3> HIDE DEF t
    <3>4. Good(t, notes')
      BY <3>2, <3>3, FreshGood
    <3> QED BY <3>1, <3>4
  <2>2. CASE ~(rec = NoRecord \/ ~rec.dir \/ ~ValidCluster(rec.first))
    <3> DEFINE t == [Call("scan", n) EXCEPT !.first = rec.first, !.cluster = rec.first,
                      !.contiguous = n.deleted \/ rec.deleted]
    <3>1. Update(r, t)
      BY <1>3, <2>2
    <3>2. rec.first \in Nat /\ (n.deleted \/ rec.deleted) \in BOOLEAN
      BY <1>4, <2>2, ReopenFacts DEF Inv
    <3>3. t \in Task
      <4>1. Call("scan", n) \in Task
        BY <1>4, CallType DEF Ops
      <4> QED BY <3>2, <4>1 DEF Task
    <3>4. t.walk = NoWalk /\ t.plan = <<>> /\ t.sent = <<>> /\ ~t.guessed /\ t.op = "scan"
      BY DEF Call
    <3> HIDE DEF t
    <3>5. Good(t, notes')
      BY <3>3, <3>4, FreshGood
    <3> QED BY <3>1, <3>5
  <2> QED BY <2>1, <2>2
<1>6. ReadersInv'
  BY <1>1, <1>5, Moves DEF Inv
<1>7. SharedInv'
  BY <1>1, SharedStays DEF Inv, SharedInv
<1> QED BY <1>6, <1>7 DEF Inv

LEMMA OpenFileInv ==
  ASSUME Inv, NEW r \in Readers, OpenFile(r) PROVE Inv'
<1>1. UNCHANGED <<vol, cache, notes, known>>
  BY DEF OpenFile
<1>2. PICK n \in known : ~n.dir /\ \E rec \in Reopen(n.id) :
        IF rec = NoRecord THEN Update(r, Call("read", n))
        ELSE IF rec.dir \/ rec.size = 0 THEN Update(r, Call("read", n))
        ELSE Update(r, [Call("chain", n) EXCEPT
               !.first = rec.first, !.cluster = rec.first, !.size = rec.size,
               !.contiguous = Straight(n, rec)])
  BY DEF OpenFile
<1>3. PICK rec \in Reopen(n.id) :
        IF rec = NoRecord THEN Update(r, Call("read", n))
        ELSE IF rec.dir \/ rec.size = 0 THEN Update(r, Call("read", n))
        ELSE Update(r, [Call("chain", n) EXCEPT
               !.first = rec.first, !.cluster = rec.first, !.size = rec.size,
               !.contiguous = Straight(n, rec)])
  BY <1>2
<1>4. n \in Node /\ n.id \in Nat \ {0} /\ n.deleted \in BOOLEAN
  BY KnownIs DEF Inv
<1>8. n \in Knowable /\ Genuine(n) /\ n.size = vol.unit[n.id].size /\ ~vol.unit[n.id].dir
  <2>1. n \in Knowable /\ ~n.dir
    BY <1>2, KnownIs DEF Inv
  <2> QED BY <2>1 DEF Knowable, Genuine
<1>5. \E t : Update(r, t) /\ Good(t, notes')
  <2>1. CASE rec = NoRecord \/ rec.dir \/ rec.size = 0
    <3> DEFINE t == Call("read", n)
    <3>1. Update(r, t)
      BY <1>3, <2>1
    <3>2. t \in Task
      BY <1>4, CallType DEF Ops, Resting
    <3>3. t.walk = NoWalk /\ t.plan = <<>> /\ t.sent = <<>> /\ ~t.guessed /\ t.op = "read" /\ t.size = 0
      BY DEF Call
    <3> HIDE DEF t
    <3>5. n.size = 0 \/ EntryLost(n)
      <4>1. CASE rec = NoRecord
        BY <1>8, <4>1, ReopenLost DEF Inv
      <4>2. CASE rec # NoRecord
        BY <1>4, <1>8, <2>1, <4>2, ReopenFacts DEF Inv
      <4> QED BY <4>1, <4>2
    <3>6. t.node = n
      BY DEF Call, t
    <3>4. Good(t, notes')
      BY <3>2, <3>3, <3>5, <3>6, FreshGood
    <3> QED BY <3>1, <3>4
  <2>2. CASE ~(rec = NoRecord \/ rec.dir \/ rec.size = 0)
    <3> DEFINE t == [Call("chain", n) EXCEPT !.first = rec.first, !.cluster = rec.first,
                      !.size = rec.size, !.contiguous = Straight(n, rec)]
    <3>1. Update(r, t)
      BY <1>3, <2>2
    <3>2. /\ rec.first \in Nat /\ rec.size \in Nat /\ rec.deleted \in BOOLEAN
          /\ ValidCluster(rec.first) /\ rec.size = n.size
      <4>2. rec.size = n.size
        BY <1>4, <1>8, <2>2, ReopenFacts DEF Inv
      <4>1. /\ rec.first \in Nat /\ rec.size \in Nat /\ rec.deleted \in BOOLEAN
            /\ ~rec.dir /\ rec.size > 0 => ValidCluster(rec.first)
        BY <1>4, <2>2, ReopenFacts DEF Inv
      <4> QED BY <2>2, <4>1, <4>2
    <3>3. Straight(n, rec) \in BOOLEAN /\ (n.deleted => Straight(n, rec))
      BY <1>4, <3>2 DEF Straight
    <3>4. t \in Task
      <4>1. Call("chain", n) \in Task
        BY <1>4, CallType DEF Ops
      <4> QED BY <3>2, <3>3, <4>1 DEF Task
    <3>5. /\ t.walk = NoWalk /\ t.plan = <<>> /\ t.sent = <<>> /\ ~t.guessed /\ t.op = "chain"
          /\ t.cluster = rec.first /\ t.node = n /\ t.contiguous = Straight(n, rec)
          /\ t.size = rec.size
      BY DEF Call
    <3> HIDE DEF t
    <3>6. Good(t, notes')
      BY <3>2, <3>3, <3>4, <3>5, FreshGood
    <3> QED BY <3>1, <3>6
  <2> QED BY <2>1, <2>2
<1>6. ReadersInv'
  BY <1>1, <1>5, Moves DEF Inv
<1>7. SharedInv'
  BY <1>1, SharedStays DEF Inv, SharedInv
<1> QED BY <1>6, <1>7 DEF Inv

-----------------------------------------------------------------------------
(* Listings.                                                               *)

(* A listing that goes on or ends plans and sends nothing.                 *)
LEMMA ListingGood ==
  ASSUME NEW s \in Task, NEW t \in Task, NEW told, InPlace(s), Chained(s),
         t.op \in {"scan", "hop", "listed"}, t.node = s.node, t.contiguous = s.contiguous,
         t.plan = s.plan, t.sent = s.sent, t.size = s.size, t.guessed = s.guessed, Ordered(t)
  PROVE  Good(t, told)
<1>1. InPlace(t)
  BY DEF InPlace, SentRight, HoleFrom, PlanReaches
<1>2. Told(t, told)
  BY DEF Told
<1>3. \A k \in 1..(Len(t.plan) - 1) : Follows(t, k)
  <2>1. \A k \in 1..(Len(s.plan) - 1) : Follows(s, k)
    BY DEF Chained
  <2> QED BY <2>1 DEF Follows, OnChain
<1>4. Chained(t)
  BY <1>3 DEF Chained
<1> QED BY <1>1, <1>2, <1>4 DEF Good

LEMMA NodesType ==
  ASSUME NEW t \in Task, Ordered(t)
  PROVE  Nodes(t) \subseteq Knowable
<1>1. SUFFICES ASSUME NEW n \in Nodes(t) PROVE n \in Node /\ n.id # 0 /\ Genuine(n)
  BY DEF Knowable
<1>2. PICK e \in Range(t.walk.out) :
        n = [id |-> e.id, dir |-> e.dir, deleted |-> e.deleted \/ t.contiguous, size |-> e.size]
  BY <1>1 DEF Nodes
<1>3. t.walk.out \in Seq(Entry) /\ t.contiguous \in BOOLEAN
  BY DEF Task, Walk
<1>4. e \in Entry /\ Genuine(e)
  BY <1>2, <1>3 DEF Range, Ordered
<1>5. e.id \in Nat \ {0} /\ e.dir \in BOOLEAN /\ e.deleted \in BOOLEAN /\ e.size \in Nat
  BY <1>4 DEF Entry
<1>6. (e.deleted \/ t.contiguous) \in BOOLEAN
  BY <1>3, <1>5
<1>7. n.id = e.id /\ n.dir = e.dir /\ n.size = e.size
  BY <1>2
<1>8. Genuine(n)
  BY <1>4, <1>7 DEF Genuine
<1> QED BY <1>2, <1>5, <1>6, <1>8 DEF Node

LEMMA ListedInv ==
  ASSUME Inv, NEW r \in Readers, NEW t \in Task, NEW told, Listed(r, t, told),
         vol' = vol, CacheRight(cache'), InPlace(t), Chained(t), Ordered(t)
  PROVE  Inv'
<1> DEFINE u == [t EXCEPT !.op = "listed"]
<1>1. u \in Task
  BY DEF Task, Ops, Resting
<1>2. /\ u.op = "listed" /\ u.node = t.node /\ u.contiguous = t.contiguous /\ u.plan = t.plan
      /\ u.sent = t.sent /\ u.size = t.size /\ u.guessed = t.guessed /\ u.walk = t.walk
  BY DEF Task
<1>3. Update(r, u) /\ known' = known \cup Nodes(t) /\ notes \subseteq notes'
  BY DEF Listed
<1> HIDE DEF u
<1>4. Ordered(u)
  BY <1>2 DEF Ordered
<1>5. Good(u, notes')
  BY <1>1, <1>2, <1>4, ListingGood
<1>6. ReadersInv'
  BY <1>3, <1>5, Moves DEF Inv
<1>7. SharedInv'
  <2>1. known \subseteq Knowable /\ vol \in Volumes
    BY DEF Inv, SharedInv
  <2>2. known' \subseteq Knowable
    BY <1>3, <2>1, NodesType
  <2> QED BY <2>1, <2>2, SharedCarry
<1> QED BY <1>6, <1>7 DEF Inv

(* The fixed root of the narrow FATs lies before every cluster.            *)
LEMMA ListFixedRootInv ==
  ASSUME Inv, NEW r \in Readers, ListFixedRoot(r) PROVE Inv'
<1>1. vol \in Volumes /\ CacheRight(cache) /\ UNCHANGED <<vol, cache>>
  BY DEF Inv, SharedInv, ListFixedRoot
<1>2. PICK got \in Got(1, vol.rootUnits) :
        LET t == [Call("scan", Root) EXCEPT !.walk = ScanEntries(NoWalk, 1, got)]
        IN  Listed(r, t, IF got = 0 THEN {"rootGap"} ELSE {})
  BY DEF ListFixedRoot
<1> DEFINE w == ScanEntries(NoWalk, 1, got)
           t == [Call("scan", Root) EXCEPT !.walk = w]
<1>3. vol.rootUnits \in Nat /\ Units \in Nat /\ vol.rootUnits <= Units /\ DataStart = vol.rootUnits + 1
  <2>1. vol.count * CS \in Nat
    BY <1>1, VolIs, SizesHold DEF Sizes
  <2> QED BY <1>1, <2>1, VolIs DEF DataStart
<1>4. got \in 0..vol.rootUnits
  BY <1>1, <1>3, GotFacts
<1>5. NoWalk \in Walk
  BY DEF NoWalk, Walk
<1>6. Grown(NoWalk, w, 1, got)
  <2>1. 1 + got - 1 <= Units /\ got \in Nat /\ 1 \in Nat \ {0}
    BY <1>3, <1>4
  <2> QED BY <1>1, <1>5, <2>1, ScanGrows
<1> HIDE DEF w
<1>7. w \in Walk /\ w.out \in Seq(Entry)
  BY <1>6 DEF Grown, Walk
<1>8. Call("scan", Root) \in Task
  BY CallType, RootIsNode DEF Ops
<1>9. t \in Task
  BY <1>7, <1>8 DEF Task
<1>10. /\ t.walk = w /\ t.op = "scan" /\ t.plan = <<>> /\ t.sent = <<>> /\ t.size = 0 /\ ~t.guessed
       /\ t.node = Root
  BY DEF Call
<1>11. Listed(r, t, IF got = 0 THEN {"rootGap"} ELSE {})
  BY <1>2 DEF w
<1> HIDE DEF t
<1>12. InPlace(t) /\ Chained(t)
  <2>1. Good(Call("scan", Root), {})
    BY <1>8, FreshGood DEF Call
  <2>2. InPlace(Call("scan", Root)) /\ Chained(Call("scan", Root))
    BY <2>1 DEF Good
  <2> QED BY <1>10, <2>2 DEF InPlace, PlanReaches, Chained, Call, Root
<1>13. ASSUME NEW j \in DOMAIN w.out
       PROVE  /\ w.out[j].id < DataStart /\ Genuine(w.out[j])
              /\ ~w.out[j].deleted => w.out[j].name = vol.unit[w.out[j].id].sum
  <2>1. Len(NoWalk.out) = 0
    BY DEF NoWalk
  <2>2. j \in (Len(NoWalk.out) + 1)..Len(w.out)
    BY <1>7, <2>1
  <2>3. PICK x \in 1..(1 + got - 1) : Adds(NoWalk.past, x, w.out[j])
    BY <1>6, <2>2 DEF Grown
  <2>4. w.out[j].id = x /\ x < DataStart
    BY <1>3, <1>4, <2>3 DEF Adds
  <2> QED BY <2>3, <2>4 DEF Adds
<1>14. Ordered(t)
  <2>1. \A j \in DOMAIN w.out : ~EndBefore(w.out[j])
    <3>1. SUFFICES ASSUME NEW j \in DOMAIN w.out PROVE ~(w.out[j].id >= DataStart)
      BY DEF EndBefore
    <3>2. w.out[j] \in Entry
      BY <1>7
    <3>3. w.out[j].id \in Nat
      BY <3>2 DEF Entry
    <3> QED BY <1>3, <1>13, <3>3
  <2>2. \A j \in DOMAIN w.out : \A i \in 1..(j - 1) : i \in DOMAIN w.out
    BY <1>7
  <2> QED BY <1>10, <1>13, <2>1, <2>2 DEF Ordered
<1> QED BY <1>1, <1>9, <1>11, <1>12, <1>14, ListedInv

(* An end marker that must have been read was among the slots read.        *)
LEMMA EndIsRead ==
  ASSUME vol \in Volumes, NEW c \in Nat, ValidCluster(c),
         NEW got \in Got(ClusterToOffset(c), CS), EndsIn(c)
  PROVE  \E x \in ClusterToOffset(c)..(ClusterToOffset(c) + got - 1) : vol.unit[x].kind = "end"
<1> DEFINE off == ClusterToOffset(c)
<1>1. PICK u \in off..(off + CS - 1) :
        /\ vol.unit[u].kind = "end" /\ u <= vol.image
        /\ \A w \in vol.weak : ClusterOf(w) = c => w > u
  BY DEF EndsIn
<1>2. CS \in Nat \ {0} /\ vol.image \in Nat /\ vol.weak \subseteq Nat
  BY SizesHold, VolIs DEF Sizes
<1>3. off \in Nat
  <2>1. 0 \in 0..(CS - 1)
    BY <1>2
  <2>2. off \in DataStart..Units
    BY <2>1, ClusterFacts
  <2> QED BY <2>2, VolIs
<1>4. ASSUME NEW w \in off..(off + CS - 1) PROVE ClusterOf(w) = c
  <2> DEFINE i == w - off
  <2>1. i \in 0..(CS - 1) /\ off + i = w
    BY <1>2, <1>3
  <2> QED BY <2>1, ClusterFacts
<1>5. off + got - 1 >= u /\ got \in Int
  <2>1. Clip(off, CS) \in 0..CS /\ off + Clip(off, CS) - 1 >= u
    BY <1>1, <1>2, <1>3 DEF Clip, Least
  <2>2. CASE got = Clip(off, CS)
    BY <2>1, <2>2
  <2>3. CASE got # Clip(off, CS)
    <3>1. PICK w \in vol.weak : w >= off /\ w < off + Clip(off, CS) /\ got = w - off
      BY <2>3 DEF Got
    <3>2. w \in off..(off + CS - 1)
      BY <1>2, <1>3, <2>1, <3>1
    <3>3. w > u
      BY <1>1, <1>4, <3>1, <3>2
    <3> QED BY <1>2, <1>3, <3>1, <3>3
  <2> QED BY <2>2, <2>3
<1>6. u \in off..(off + got - 1)
  BY <1>3, <1>5
<1> QED BY <1>1, <1>6

(* The entries of a cluster go behind those of the clusters before it.     *)
LEMMA ScanOrdered ==
  ASSUME vol \in Volumes, NEW t \in Task, Ordered(t), t.op = "scan", ValidCluster(t.cluster),
         NEW got \in Got(ClusterToOffset(t.cluster), CS), NEW u \in Task,
         u.walk = ScanEntries(t.walk, ClusterToOffset(t.cluster), got),
         u.cluster = t.cluster
  PROVE  Ordered(u)
<1> DEFINE c == t.cluster
           off == ClusterToOffset(c)
           w == t.walk
           v == ScanEntries(w, off, got)
<1>1. c \in Nat /\ w \in Walk /\ u.walk \in Walk
  BY DEF Task
<1>2. CS \in Nat \ {0} /\ Units \in Nat /\ DataStart \in Nat \ {0}
  BY SizesHold, VolIs DEF Sizes
<1>3. /\ off \in Nat \ {0}
      /\ \A i \in 0..(CS - 1) : off + i <= Units /\ ClusterOf(off + i) = c
  <2>1. 0 \in 0..(CS - 1)
    BY <1>2
  <2>2. \A i \in 0..(CS - 1) :
          off \in DataStart..Units /\ off + i \in DataStart..Units /\ ClusterOf(off + i) = c
    BY <1>1, ClusterFacts
  <2> QED BY <1>2, <2>1, <2>2
<1>4. got \in 0..CS
  BY <1>2, <1>3, GotFacts
<1> HIDE DEF off
<1>5. Grown(w, v, off, got)
  <2>1. off + got - 1 <= Units /\ got \in Nat
    <3>1. CASE got = 0
      <4>1. 0 \in 0..(CS - 1)
        BY <1>2
      <4>2. off + 0 <= Units
        BY <1>3, <4>1
      <4> QED BY <1>2, <1>3, <3>1, <4>2
    <3>2. CASE got # 0
      <4>1. got - 1 \in 0..(CS - 1)
        BY <1>2, <1>4, <3>2
      <4>2. off + (got - 1) <= Units
        BY <1>3, <4>1
      <4> QED BY <1>2, <1>3, <1>4, <4>2
    <3> QED BY <3>1, <3>2
  <2> HIDE DEF w
  <2>2. w \in Walk
    BY <1>1 DEF w
  <2> QED BY <1>3, <2>1, <2>2, ScanGrows
<1>6. \A x \in off..(off + got - 1) : ClusterOf(x) = c
  <2>1. SUFFICES ASSUME NEW x \in off..(off + got - 1) PROVE ClusterOf(x) = c
    OBVIOUS
  <2> DEFINE i == x - off
  <2>2. i \in 0..(CS - 1) /\ off + i = x
    BY <1>2, <1>3, <1>4
  <2> QED BY <1>3, <2>2
<1>7. EndsIn(c) => v.past
  <2>1. SUFFICES ASSUME EndsIn(c) PROVE v.past
    OBVIOUS
  <2>2. PICK x \in off..(off + got - 1) : vol.unit[x].kind = "end"
    BY <1>1, <2>1, EndIsRead DEF off
  <2> QED BY <1>5, <2>2 DEF Grown
<1>8. u.walk = v /\ u.cluster = c
  BY DEF off
<1>9. /\ \A i \in DOMAIN w.out : Genuine(w.out[i])
      /\ \A i \in DOMAIN w.out : EndBefore(w.out[i]) => w.past
      /\ \A j \in DOMAIN w.out : ~w.out[j].deleted =>
           /\ w.out[j].name = vol.unit[w.out[j].id].sum
           /\ \A i \in 1..(j - 1) :
                EndBefore(w.out[i]) => ClusterOf(w.out[i].id) = ClusterOf(w.out[j].id)
  BY DEF Ordered
<1>10. ValidCluster(c)
  OBVIOUS
<1> HIDE DEF v, w, c
<1>11. w.out \in Seq(Entry) /\ v.out \in Seq(Entry)
  BY <1>1, <1>8 DEF Walk, w
<1>12. Len(w.out) \in Nat /\ Len(v.out) \in Nat /\ DOMAIN w.out = 1..Len(w.out) /\ DOMAIN v.out = 1..Len(v.out)
  BY <1>11
<1>13. /\ \A j \in 1..Len(w.out) : v.out[j] = w.out[j]
       /\ \A j \in (Len(w.out) + 1)..Len(v.out) :
            \E x \in off..(off + got - 1) : Adds(w.past, x, v.out[j])
       /\ w.past => v.past
  BY <1>5 DEF Grown
<1>14. ASSUME NEW j \in (Len(w.out) + 1)..Len(v.out)
       PROVE  /\ ClusterOf(v.out[j].id) = c /\ Genuine(v.out[j])
              /\ ~v.out[j].deleted => ~w.past /\ v.out[j].name = vol.unit[v.out[j].id].sum
  <2>1. PICK x \in off..(off + got - 1) : Adds(w.past, x, v.out[j])
    BY <1>13
  <2>2. v.out[j].id = x
    BY <2>1 DEF Adds
  <2> QED BY <1>6, <2>1, <2>2 DEF Adds
<1>15. ASSUME NEW j \in DOMAIN v.out, ~v.out[j].deleted
       PROVE  /\ v.out[j].name = vol.unit[v.out[j].id].sum
              /\ \A i \in 1..(j - 1) :
                   EndBefore(v.out[i]) => ClusterOf(v.out[i].id) = ClusterOf(v.out[j].id)
  <2>1. CASE j <= Len(w.out)
    <3>1. j \in DOMAIN w.out /\ v.out[j] = w.out[j] /\ \A i \in 1..(j - 1) : v.out[i] = w.out[i]
      BY <1>12, <1>13, <2>1
    <3> QED BY <1>9, <1>15, <3>1
  <2>2. CASE ~(j <= Len(w.out))
    <3>1. j \in (Len(w.out) + 1)..Len(v.out)
      BY <1>12, <2>2
    <3>2. ASSUME NEW i \in 1..(j - 1), EndBefore(v.out[i])
          PROVE  ClusterOf(v.out[i].id) = ClusterOf(v.out[j].id)
      <4>1. CASE i <= Len(w.out)
        <5>1. i \in DOMAIN w.out /\ v.out[i] = w.out[i]
          BY <1>12, <1>13, <4>1
        <5>2. w.past
          BY <1>9, <3>2, <5>1
        <5> QED BY <1>14, <1>15, <3>1, <5>2
      <4>2. CASE ~(i <= Len(w.out))
        <5>1. i \in (Len(w.out) + 1)..Len(v.out)
          BY <1>12, <4>2
        <5> QED BY <1>14, <3>1, <5>1
      <4> QED BY <4>1, <4>2
    <3> QED BY <1>14, <1>15, <3>1, <3>2
  <2> QED BY <2>1, <2>2
<1>16. ASSUME NEW i \in DOMAIN v.out, EndBefore(v.out[i]) PROVE v.past
  <2>1. CASE i <= Len(w.out)
    <3>1. i \in DOMAIN w.out /\ v.out[i] = w.out[i]
      BY <1>12, <1>13, <2>1
    <3> QED BY <1>9, <1>13, <1>16, <3>1
  <2>2. CASE ~(i <= Len(w.out))
    <3>1. ClusterOf(v.out[i].id) = c
      BY <1>12, <1>14, <2>2
    <3> QED BY <1>7, <1>16, <3>1 DEF EndBefore
  <2> QED BY <2>1, <2>2
<1>17. ASSUME NEW j \in DOMAIN v.out PROVE Genuine(v.out[j])
  <2>1. CASE j <= Len(w.out)
    <3>1. j \in DOMAIN w.out /\ v.out[j] = w.out[j]
      BY <1>12, <1>13, <2>1
    <3> QED BY <1>9, <3>1
  <2>2. CASE ~(j <= Len(w.out))
    <3>1. j \in (Len(w.out) + 1)..Len(v.out)
      BY <1>12, <2>2
    <3> QED BY <1>14, <3>1
  <2> QED BY <2>1, <2>2
<1> QED BY <1>8, <1>10, <1>15, <1>16, <1>17 DEF Ordered

LEMMA ReaderGood ==
  ASSUME Inv, NEW r \in Readers
  PROVE  /\ task[r] \in Task /\ InPlace(task[r]) /\ Told(task[r], notes)
         /\ Chained(task[r]) /\ Ordered(task[r])
BY DEF Inv, ReadersInv, Good

LEMMA ScanClusterInv ==
  ASSUME Inv, NEW r \in Readers, ScanCluster(r) PROVE Inv'
<1> DEFINE t == task[r]
<1>1. t \in Task /\ InPlace(t) /\ Chained(t) /\ Ordered(t)
  BY ReaderGood
<1>2. vol \in Volumes /\ CacheRight(cache) /\ UNCHANGED <<vol, cache>>
  BY DEF Inv, SharedInv, ScanCluster
<1>3. /\ t.op = "scan" /\ ValidCluster(t.cluster)
      /\ \E got \in Got(ClusterToOffset(t.cluster), CS) :
           IF got = 0 THEN Listed(r, t, {"clusterGap"})
           ELSE /\ Update(r, [t EXCEPT !.op = "hop", !.visited = @ + 1,
                     !.walk = ScanEntries(@, ClusterToOffset(t.cluster), got)])
                /\ UNCHANGED <<known, notes>>
  BY DEF ScanCluster, InDirectory
<1>4. PICK got \in Got(ClusterToOffset(t.cluster), CS) :
           IF got = 0 THEN Listed(r, t, {"clusterGap"})
           ELSE /\ Update(r, [t EXCEPT !.op = "hop", !.visited = t.visited + 1,
                     !.walk = ScanEntries(t.walk, ClusterToOffset(t.cluster), got)])
                /\ UNCHANGED <<known, notes>>
  BY <1>3
<1> HIDE DEF t
<1>5. CASE got = 0
  BY <1>1, <1>2, <1>4, <1>5, ListedInv
<1>6. CASE got # 0
  <2> DEFINE v == ScanEntries(t.walk, ClusterToOffset(t.cluster), got)
             u == [t EXCEPT !.op = "hop", !.visited = t.visited + 1, !.walk = v]
  <2>1. Update(r, u) /\ UNCHANGED <<known, notes>>
    BY <1>4, <1>6
  <2>2. v \in Walk
    <3>1. t.cluster \in Nat /\ t.walk \in Walk /\ CS \in Nat \ {0}
      BY <1>1, SizesHold DEF Task, Sizes
    <3>2. \A i \in 0..(CS - 1) : ClusterToOffset(t.cluster) \in DataStart..Units
                                 /\ ClusterToOffset(t.cluster) + i \in DataStart..Units
      BY <1>2, <1>3, <3>1, ClusterFacts
    <3>3. 0 \in 0..(CS - 1) /\ DataStart \in Nat \ {0} /\ Units \in Nat
      BY <1>2, <3>1, VolIs
    <3>4. ClusterToOffset(t.cluster) \in Nat \ {0}
      BY <3>2, <3>3
    <3>5. got \in 0..CS
      BY <1>2, <3>1, <3>4, GotFacts
    <3>6. got - 1 \in 0..(CS - 1) /\ got \in Nat
      BY <1>6, <3>1, <3>5
    <3>7. ClusterToOffset(t.cluster) + (got - 1) <= Units
      BY <3>2, <3>3, <3>6
    <3>8. ClusterToOffset(t.cluster) + got - 1 <= Units
      BY <3>3, <3>4, <3>6, <3>7
    <3>9. Grown(t.walk, v, ClusterToOffset(t.cluster), got)
      BY <1>2, <3>1, <3>4, <3>6, <3>8, ScanGrows
    <3> QED BY <3>9 DEF Grown
  <2> HIDE DEF v
  <2>3. u \in Task
    <3>1. t.visited + 1 \in Nat /\ "hop" \in Ops
      BY <1>1 DEF Task, Ops
    <3> QED BY <1>1, <2>2, <3>1 DEF Task
  <2>4. /\ u.op = "hop" /\ u.node = t.node /\ u.contiguous = t.contiguous /\ u.plan = t.plan
        /\ u.sent = t.sent /\ u.size = t.size /\ u.guessed = t.guessed /\ u.walk = v
        /\ u.cluster = t.cluster
    BY <1>1 DEF Task
  <2> HIDE DEF u
  <2>5. Ordered(u)
    BY <1>1, <1>2, <1>3, <2>3, <2>4, ScanOrdered DEF v
  <2>6. Good(u, notes')
    BY <1>1, <2>3, <2>4, <2>5, ListingGood
  <2>7. ReadersInv'
    BY <1>2, <2>1, <2>6, Moves DEF Inv
  <2>8. SharedInv'
    BY <1>2, <2>1, SharedStays DEF Inv, SharedInv
  <2> QED BY <2>7, <2>8 DEF Inv
<1> QED BY <1>5, <1>6

LEMMA ScanEnoughInv ==
  ASSUME Inv, NEW r \in Readers, ScanEnough(r) PROVE Inv'
<1>1. task[r] \in Task /\ InPlace(task[r]) /\ Chained(task[r]) /\ Ordered(task[r])
  BY ReaderGood
<1>2. CacheRight(cache') /\ vol' = vol /\ Listed(r, task[r], {})
  BY DEF Inv, SharedInv, ScanEnough
<1> QED BY <1>1, <1>2, ListedInv

LEMMA EnterInv ==
  ASSUME Inv, NEW r \in Readers, NEW c \in Nat, Enter(r, c), task[r].op = "hop",
         vol' = vol, CacheRight(cache')
  PROVE  Inv'
<1> DEFINE t == task[r]
           u == [t EXCEPT !.op = "scan", !.cluster = c]
<1>1. t \in Task /\ InPlace(t) /\ Chained(t) /\ Ordered(t) /\ t.op = "hop"
  BY ReaderGood
<1>2. Update(r, u) /\ UNCHANGED <<known, notes>>
  BY DEF Enter
<1> HIDE DEF t
<1>3. u \in Task
  BY <1>1 DEF Task, Ops
<1>4. /\ u.op = "scan" /\ u.node = t.node /\ u.contiguous = t.contiguous /\ u.plan = t.plan
      /\ u.sent = t.sent /\ u.size = t.size /\ u.guessed = t.guessed /\ u.walk = t.walk
  BY <1>1 DEF Task
<1> HIDE DEF u
<1>5. Ordered(u)
  BY <1>1, <1>4 DEF Ordered
<1>6. Good(u, notes')
  BY <1>1, <1>3, <1>4, <1>5, ListingGood
<1>7. ReadersInv'
  BY <1>2, <1>6, Moves DEF Inv
<1>8. SharedInv'
  BY <1>2, SharedCarry DEF Inv, SharedInv
<1> QED BY <1>7, <1>8 DEF Inv

LEMMA HopAheadInv ==
  ASSUME Inv, NEW r \in Readers, HopAhead(r) PROVE Inv'
<1> DEFINE t == task[r]
           next == t.cluster + 1
<1>1. t \in Task /\ InPlace(t) /\ Chained(t) /\ Ordered(t)
  BY ReaderGood
<1>2. CacheRight(cache') /\ vol' = vol /\ t.op = "hop"
  BY DEF Inv, SharedInv, HopAhead
<1>3. Enter(r, next) \/ Listed(r, t, {})
  BY DEF HopAhead
<1>4. next \in Nat
  BY <1>1 DEF Task
<1> QED BY <1>1, <1>2, <1>3, <1>4, EnterInv, ListedInv

LEMMA HopChainInv ==
  ASSUME Inv, NEW r \in Readers, HopChain(r) PROVE Inv'
<1> DEFINE t == task[r]
<1>1. t \in Task /\ InPlace(t) /\ Chained(t) /\ Ordered(t)
  BY ReaderGood
<1>2. vol \in Volumes /\ CacheRight(cache) /\ vol' = vol /\ t.op = "hop"
  BY DEF Inv, SharedInv, HopChain
<1>3. PICK found \in Lookup(t.cluster) :
        /\ cache' = found.cache
        /\ \/ Listed(r, t, {})
           \/ ~Ends(FatNext(found.raw)) /\ Enter(r, FatNext(found.raw))
  BY DEF HopChain
<1>4. t.cluster \in Nat /\ ValidCluster(t.cluster)
  BY <1>1, <1>2 DEF Task, Ordered
<1> HIDE DEF t
<1>5. FatSays(t.cluster, found.raw) /\ CacheRight(found.cache)
  BY <1>2, <1>4, LookupFacts
<1>6. FatNext(found.raw) \in Nat
  BY <1>2, <1>4, <1>5, NextFacts
<1>7. CASE Listed(r, t, {})
  BY <1>1, <1>2, <1>3, <1>5, <1>7, ListedInv
<1>8. CASE Enter(r, FatNext(found.raw))
  BY <1>2, <1>3, <1>5, <1>6, <1>8, EnterInv DEF t
<1> QED BY <1>3, <1>7, <1>8

-----------------------------------------------------------------------------
(* The plan of a file.                                                     *)

(* A multiple of the unit and less than a unit more.                       *)
LEMMA PastMultiple ==
  ASSUME NEW n \in Nat, NEW s \in Nat \ {0}, n % s = 0
  PROVE  /\ (n + s) % s = 0
         /\ \A j \in 1..(s - 1) : (n + j) % s = j
<1> DEFINE q == n \div s
<1>1. q \in Nat /\ n = q * s
  <2>1. q \in Nat /\ n = q * s + (n % s)
    BY DivMod
  <2>2. q * s \in Nat
    BY <2>1
  <2> QED BY <2>1, <2>2
<1> HIDE DEF q
<1>2. (n + s) % s = 0
  <2>1. n + s = (q + 1) * s + 0
    BY <1>1
  <2>2. q + 1 \in Nat /\ 0 \in 0..(s - 1)
    BY <1>1
  <2>3. ((q + 1) * s + 0) % s = 0
    BY <2>2, DivModUnique
  <2> QED BY <2>1, <2>3
<1>3. ASSUME NEW j \in 1..(s - 1) PROVE (n + j) % s = j
  <2>1. n + j = q * s + j /\ j \in 0..(s - 1)
    BY <1>1
  <2>2. (q * s + j) % s = j
    BY <1>1, <2>1, DivModUnique
  <2> QED BY <2>1, <2>2
<1> QED BY <1>2, <1>3

LEMMA OnChainKept ==
  ASSUME NEW s, NEW t, NEW c, NEW d, OnChain(s, c, d),
         t.contiguous = s.contiguous, s.guessed => t.guessed
  PROVE  OnChain(t, c, d)
BY DEF OnChain

(* The last cluster of the volume is where the volume ends.                *)
LEMMA LastCluster ==
  ASSUME vol \in Volumes, NEW c \in Nat, ValidCluster(c), ~ValidCluster(c + 1)
  PROVE  ClusterToOffset(c) + CS - 1 = Units
<1>1. vol.count \in Nat \ {0} /\ CS \in Nat /\ vol.rootUnits \in Nat
  BY VolIs, SizesHold DEF Sizes
<1>2. c - 2 = vol.count - 1
  BY <1>1 DEF ValidCluster
<1>3. ClusterToOffset(c) = vol.rootUnits + 1 + (vol.count - 1) * CS
  BY <1>2 DEF ClusterToOffset, DataStart
<1>4. (vol.count - 1) * CS + CS = vol.count * CS /\ (vol.count - 1) * CS \in Nat
  <2>1. vol.count - 1 \in Nat
    BY <1>1
  <2> QED BY <1>1, <2>1
<1> DEFINE a == (vol.count - 1) * CS
           o == ClusterToOffset(c)
<1>5. a + CS = vol.count * CS /\ a \in Nat /\ o = vol.rootUnits + 1 + a
  BY <1>3, <1>4
<1> HIDE DEF a, o
<1>6. Units = vol.rootUnits + (a + CS)
  BY <1>5 DEF Units
<1>7. o + CS - 1 = Units
  BY <1>1, <1>5, <1>6
<1> QED BY <1>7 DEF o

(* One cluster's share of the file is planned.                             *)
LEMMA PlannedFacts ==
  ASSUME vol \in Volumes, NEW s \in Task, InPlace(s), Chained(s), s.op = "chain", InChain(s)
  PROVE  LET t == Planned(s) IN
         /\ t \in Task
         /\ \E plan : t = [s EXCEPT !.plan = plan]
         /\ Len(t.plan) <= t.size /\ t.plan # <<>>
         /\ ClusterOf(t.plan[Len(t.plan)]) = s.cluster
         /\ Remaining(t) > 0 => Len(t.plan) % CS = 0
         /\ Remaining(t) > 0 => t.plan[Len(t.plan)] = ClusterToOffset(s.cluster) + CS - 1
         /\ \A k \in 1..(Len(t.plan) - 1) : Follows(t, k)
         /\ Range(s.plan) \subseteq Range(t.plan)
<1> DEFINE c == s.cluster
           off == ClusterToOffset(c)
           m == Least(CS, Remaining(s))
           more == [k \in 1..m |-> off + k - 1]
           plan == s.plan \o more
           t == Planned(s)
           p == Len(s.plan)
<1>1. /\ c \in Nat /\ s.plan \in Seq(Nat) /\ s.size \in Nat /\ p \in Nat /\ CS \in Nat \ {0}
      /\ p <= s.size /\ ValidCluster(c) /\ p = Len(s.plan)
  BY SizesHold DEF Task, Sizes, InPlace, InChain
<1>2. /\ m \in 1..CS /\ p + m <= s.size /\ (p + m < s.size => m = CS)
  BY <1>1 DEF InChain, Remaining, Least
<1>3. /\ off \in Nat
      /\ \A i \in 0..(CS - 1) : off + i \in Nat /\ ClusterOf(off + i) = c
  <2>1. 0 \in 0..(CS - 1)
    BY <1>1
  <2>2. \A i \in 0..(CS - 1) :
          off \in DataStart..Units /\ off + i \in DataStart..Units /\ ClusterOf(off + i) = c
    BY <1>1, ClusterFacts
  <2>3. DataStart \in Nat \ {0} /\ Units \in Nat
    BY VolIs
  <2> QED BY <2>1, <2>2, <2>3
<1> HIDE DEF off, m
<1>4. /\ more \in Seq(Nat) /\ Len(more) = m
      /\ \A j \in 1..m : more[j] = off + (j - 1)
  <2>1. \A j \in 1..m : off + j - 1 \in Nat /\ off + j - 1 = off + (j - 1)
    BY <1>2, <1>3
  <2> QED BY <1>2, <2>1
<1> HIDE DEF more, p
<1>5. /\ plan \in Seq(Nat) /\ Len(plan) = p + m
      /\ \A i \in 1..p : plan[i] = s.plan[i]
      /\ \A j \in 1..m : plan[p + j] = off + (j - 1)
  <2>1. plan \in Seq(Nat) /\ Len(plan) = p + m
    BY <1>1, <1>4, ConcatProperties
  <2>2. \A i \in 1..(p + m) : plan[i] = IF i <= p THEN s.plan[i] ELSE more[i - p]
    BY <1>1, <1>4, ConcatProperties
  <2>3. ASSUME NEW j \in 1..m PROVE plan[p + j] = off + (j - 1)
    <3>1. p + j \in 1..(p + m) /\ ~(p + j <= p) /\ (p + j) - p = j
      BY <1>1, <1>2
    <3> QED BY <1>4, <2>2, <3>1
  <2>4. \A i \in 1..p : plan[i] = s.plan[i]
    BY <1>1, <1>2, <2>2
  <2> QED BY <2>1, <2>3, <2>4
<1>6. t = [s EXCEPT !.plan = plan]
  BY DEF Planned, off, m, more
<1> HIDE DEF t, plan
<1>7. /\ t \in Task /\ t.plan = plan /\ t.size = s.size
      /\ t.contiguous = s.contiguous /\ t.guessed = s.guessed
  BY <1>5, <1>6 DEF Task
<1>8. ClusterOf(plan[p + m]) = c /\ plan # <<>>
  <2>1. m - 1 \in 0..(CS - 1) /\ m \in 1..m
    BY <1>1, <1>2
  <2>2. plan[p + m] = off + (m - 1)
    BY <1>5, <2>1
  <2>3. Len(plan) # 0
    BY <1>1, <1>2, <1>5
  <2> QED BY <1>3, <1>5, <2>1, <2>2, <2>3
<1>9. p % CS = 0 /\ (s.plan # <<>> => OnChain(s, ClusterOf(s.plan[p]), c))
  BY <1>1 DEF Chained, InChain
<1>10. (p + CS) % CS = 0 /\ \A j \in 1..(CS - 1) : (p + j) % CS = j
  BY <1>1, <1>9, PastMultiple
<1>11. Remaining(t) > 0 => Len(plan) % CS = 0
  <2>1. Remaining(t) = s.size - (p + m)
    BY <1>5, <1>7 DEF Remaining
  <2>2. Remaining(t) > 0 => m = CS
    BY <1>1, <1>2, <2>1
  <2> QED BY <1>5, <1>10, <2>2
<1>15. Remaining(t) > 0 => plan[Len(plan)] = off + CS - 1
  <2>1. Remaining(t) = s.size - (p + m)
    BY <1>5, <1>7 DEF Remaining
  <2>2. Remaining(t) > 0 => m = CS
    BY <1>1, <1>2, <2>1
  <2>3. plan[p + m] = off + (m - 1)
    BY <1>1, <1>2, <1>5
  <2> QED BY <1>1, <1>3, <1>5, <2>2, <2>3
<1>12. ASSUME NEW k \in 1..(Len(plan) - 1) PROVE Follows(t, k)
  <2>1. CASE k < p
    <3>1. k \in 1..(p - 1) /\ plan[k] = s.plan[k] /\ plan[k + 1] = s.plan[k + 1]
      <4>1. k \in 1..(p - 1) /\ k \in 1..p /\ k + 1 \in 1..p
        BY <1>1, <2>1
      <4> QED BY <1>5, <4>1
    <3>2. Follows(s, k)
      BY <1>1, <3>1 DEF Chained
    <3> QED BY <1>7, <3>1, <3>2, OnChainKept DEF Follows
  <2>2. CASE k = p
    <3>1. s.plan # <<>> /\ plan[k] = s.plan[p] /\ plan[k + 1] = off /\ k % CS = 0
      <4>1. 1 \in 1..m /\ p \in 1..p /\ p # 0
        BY <1>1, <1>2, <2>2
      <4>2. plan[p + 1] = off + (1 - 1) /\ plan[p] = s.plan[p]
        BY <1>5, <4>1
      <4>3. s.plan # <<>>
        BY <1>1, <4>1
      <4> QED BY <1>3, <1>9, <2>2, <4>2, <4>3
    <3>2. ClusterOf(off) = c
      <4>1. 0 \in 0..(CS - 1) /\ off + 0 = off
        BY <1>1, <1>3
      <4> QED BY <1>3, <4>1
    <3>3. OnChain(t, ClusterOf(plan[k]), c)
      BY <1>7, <1>9, <3>1, OnChainKept
    <3> QED BY <1>7, <3>1, <3>2, <3>3 DEF Follows, off
  <2>3. CASE k > p
    <3> DEFINE j == k - p
    <3>1. j \in 1..(m - 1) /\ k = p + j /\ k + 1 = p + (j + 1)
      BY <1>1, <1>2, <1>5, <2>3
    <3> HIDE DEF j
    <3>2. j \in 1..(CS - 1) /\ j \in 1..m /\ j + 1 \in 1..m
      BY <1>1, <1>2, <3>1
    <3>3. k % CS = j /\ j # 0
      BY <1>10, <3>1, <3>2
    <3>4. plan[k] = off + (j - 1) /\ plan[k + 1] = off + ((j + 1) - 1)
      BY <1>5, <3>1, <3>2
    <3>5. plan[k + 1] = plan[k] + 1
      BY <1>3, <3>2, <3>4
    <3> QED BY <1>7, <3>3, <3>5 DEF Follows
  <2> QED BY <1>1, <2>1, <2>2, <2>3
<1>13. Range(s.plan) \subseteq Range(plan)
  <2>1. SUFFICES ASSUME NEW i \in DOMAIN s.plan PROVE s.plan[i] \in Range(plan)
    BY DEF Range
  <2>2. i \in 1..p /\ i \in DOMAIN plan
    BY <1>1, <1>2, <1>5
  <2> QED BY <1>5, <2>2 DEF Range
<1>14. Len(t.plan) <= t.size /\ ClusterOf(t.plan[Len(t.plan)]) = c
  BY <1>2, <1>5, <1>7, <1>8
<1>16. Remaining(t) > 0 => t.plan[Len(t.plan)] = ClusterToOffset(c) + CS - 1
  BY <1>7, <1>15 DEF off
<1> QED BY <1>6, <1>7, <1>8, <1>11, <1>12, <1>13, <1>14, <1>16 DEF t

(* The loop goes round, to the successor d or for the last time.           *)
LEMMA ChainGood ==
  ASSUME vol \in Volumes, NEW s \in Task, InPlace(s), Told(s, notes), Chained(s), Ordered(s),
         s.op = "chain", InChain(s), NEW u \in Task, NEW told,
         u.op = "chain", u.node = s.node, u.contiguous = s.contiguous, u.size = s.size,
         u.walk = s.walk, u.sent = s.sent, u.plan = Planned(s).plan,
         s.guessed => u.guessed, u.guessed => s.guessed \/ Breaks(s.cluster),
         ~u.contiguous /\ ~ValidCluster(u.cluster) => u.guessed,
         Remaining(Planned(s)) # 0 =>
           /\ OnChain(u, s.cluster, u.cluster)
           /\ ValidCluster(u.cluster) \/ u.cluster = s.cluster + 1
  PROVE  Good(u, told)
<1> DEFINE t == Planned(s)
<1>1. /\ t \in Task /\ Len(t.plan) <= t.size /\ t.plan # <<>>
      /\ ClusterOf(t.plan[Len(t.plan)]) = s.cluster
      /\ Remaining(t) > 0 => Len(t.plan) % CS = 0
      /\ Remaining(t) > 0 => t.plan[Len(t.plan)] = ClusterToOffset(s.cluster) + CS - 1
      /\ \A k \in 1..(Len(t.plan) - 1) : Follows(t, k)
      /\ Range(s.plan) \subseteq Range(t.plan)
  BY PlannedFacts
<1>2. \E plan : t = [s EXCEPT !.plan = plan]
  BY PlannedFacts
<1>3. t.size = s.size /\ t.contiguous = s.contiguous /\ t.guessed = s.guessed
  BY <1>2 DEF Task
<1>4. u.plan = t.plan /\ (Remaining(t) # 0 => OnChain(u, s.cluster, u.cluster))
  OBVIOUS
<1>10. Remaining(t) # 0 => ValidCluster(u.cluster) \/ u.cluster = s.cluster + 1
  OBVIOUS
<1> HIDE DEF t
<1>5. s.sent = <<>> /\ Len(u.plan) \in Nat /\ u.size \in Nat /\ u.plan \in Seq(Nat)
  BY <1>4 DEF InPlace, Task
<1>6. InPlace(u)
  <2>1. Len(u.sent) = 0 /\ DOMAIN u.sent = {} /\ u.sent = <<>>
    BY <1>5
  <2>2. u.size = u.node.size /\ Len(u.plan) <= u.size
    BY <1>1, <1>3, <1>4 DEF InPlace
  <2>3. Remaining(u) = Remaining(t)
    BY <1>3, <1>4 DEF Remaining
  <2>4. PlanReaches(u)
    <3>1. SUFFICES ASSUME Remaining(u) > 0, ~ValidCluster(u.cluster)
                   PROVE  u.plan[Len(u.plan)] = Units
      BY DEF PlanReaches
    <3>2. u.cluster = s.cluster + 1 /\ s.cluster \in Nat /\ ValidCluster(s.cluster)
      BY <1>10, <2>3, <3>1 DEF InChain, Task
    <3>3. ClusterToOffset(s.cluster) + CS - 1 = Units
      BY <3>1, <3>2, LastCluster
    <3> QED BY <1>1, <1>4, <2>3, <3>1, <3>3
  <2> QED BY <1>5, <2>1, <2>2, <2>4 DEF InPlace
<1>7. Told(u, told)
  BY DEF Told
<1>8. Ordered(u)
  BY DEF Ordered
<1>9. Chained(u)
  <2>1. u.node.deleted => u.contiguous
    BY DEF Chained
  <2>2. u.guessed => \E x \in Range(u.plan) : Breaks(ClusterOf(x))
    <3>1. CASE s.guessed
      <4>1. PICK x \in Range(s.plan) : Breaks(ClusterOf(x))
        BY <3>1 DEF Chained
      <4> QED BY <1>1, <1>4, <4>1
    <3>2. CASE ~s.guessed
      <4>1. u.plan[Len(u.plan)] \in Range(u.plan)
        BY <1>1, <1>4, <1>5 DEF Range
      <4> QED BY <1>1, <1>4, <3>2, <4>1
    <3> QED BY <3>1, <3>2
  <2>3. ASSUME NEW k \in 1..(Len(u.plan) - 1) PROVE Follows(u, k)
    <3>1. Follows(t, k)
      BY <1>1, <1>4
    <3> QED BY <1>3, <1>4, <3>1, OnChainKept DEF Follows
  <2>4. Remaining(u) = Remaining(t)
    BY <1>3, <1>4 DEF Remaining
  <2>5. Remaining(u) > 0 =>
          /\ Len(u.plan) % CS = 0
          /\ OnChain(u, ClusterOf(u.plan[Len(u.plan)]), u.cluster)
    BY <1>1, <1>4, <2>4
  <2> QED BY <2>1, <2>2, <2>3, <2>5 DEF Chained
<1> QED BY <1>6, <1>7, <1>8, <1>9 DEF Good

LEMMA ChainStraightInv ==
  ASSUME Inv, NEW r \in Readers, ChainStraight(r) PROVE Inv'
<1> DEFINE s == task[r]
           t == Planned(s)
           u == IF Remaining(t) = 0 THEN t ELSE [t EXCEPT !.cluster = t.cluster + 1]
<1>1. s \in Task /\ InPlace(s) /\ Told(s, notes) /\ Chained(s) /\ Ordered(s)
  BY ReaderGood
<1>2. /\ s.op = "chain" /\ InChain(s) /\ s.contiguous /\ Update(r, u)
      /\ UNCHANGED <<vol, cache, notes, known>> /\ vol \in Volumes
  BY DEF ChainStraight, Inv, SharedInv
<1> HIDE DEF s
<1>3. t \in Task /\ \E plan : t = [s EXCEPT !.plan = plan]
  BY <1>1, <1>2, PlannedFacts
<1>4. /\ t.op = s.op /\ t.node = s.node /\ t.contiguous = s.contiguous /\ t.size = s.size
      /\ t.walk = s.walk /\ t.sent = s.sent /\ t.guessed = s.guessed /\ t.cluster = s.cluster
  BY <1>1, <1>3 DEF Task
<1>5. t.cluster \in Nat
  BY <1>3 DEF Task
<1> HIDE DEF t
<1>6. /\ u \in Task /\ u.op = t.op /\ u.node = t.node /\ u.contiguous = t.contiguous
      /\ u.size = t.size /\ u.walk = t.walk /\ u.sent = t.sent /\ u.guessed = t.guessed
      /\ u.plan = t.plan /\ (Remaining(t) # 0 => u.cluster = t.cluster + 1)
  <2>1. CASE Remaining(t) = 0
    <3>1. u = t
      BY <2>1
    <3> HIDE DEF u
    <3> QED BY <1>3, <2>1, <3>1
  <2>2. CASE Remaining(t) # 0
    <3>1. u = [t EXCEPT !.cluster = t.cluster + 1] /\ t.cluster + 1 \in Nat
      BY <1>5, <2>2
    <3> HIDE DEF u
    <3> QED BY <1>3, <3>1 DEF Task
  <2> QED BY <2>1, <2>2
<1> HIDE DEF u
<1>7. Remaining(t) # 0 => OnChain(u, s.cluster, u.cluster)
  BY <1>2, <1>4, <1>6 DEF OnChain
<1>11. Remaining(t) # 0 => u.cluster = s.cluster + 1
  BY <1>4, <1>6
<1>8. Good(u, notes')
  BY <1>1, <1>2, <1>4, <1>6, <1>7, <1>11, ChainGood DEF t
<1>9. ReadersInv'
  BY <1>2, <1>8, Moves DEF Inv
<1>10. SharedInv'
  BY <1>2, SharedStays DEF Inv, SharedInv
<1> QED BY <1>9, <1>10 DEF Inv

LEMMA ChainFatInv ==
  ASSUME Inv, NEW r \in Readers, ChainFat(r) PROVE Inv'
<1> DEFINE s == task[r]
           t == Planned(s)
<1>1. s \in Task /\ InPlace(s) /\ Told(s, notes) /\ Chained(s) /\ Ordered(s)
  BY ReaderGood
<1>2. /\ s.op = "chain" /\ InChain(s) /\ ~s.contiguous
      /\ UNCHANGED <<vol, notes, known>> /\ vol \in Volumes /\ CacheRight(cache)
      /\ IF Remaining(t) = 0 THEN Update(r, t) /\ UNCHANGED cache
         ELSE \E found \in Lookup(t.cluster) :
                /\ cache' = found.cache
                /\ Update(r, Followed(t, FatNext(found.raw)))
  BY DEF ChainFat, Inv, SharedInv
<1> HIDE DEF s
<1>3. t \in Task /\ \E plan : t = [s EXCEPT !.plan = plan]
  BY <1>1, <1>2, PlannedFacts
<1>4. /\ t.op = s.op /\ t.node = s.node /\ t.contiguous = s.contiguous /\ t.size = s.size
      /\ t.walk = s.walk /\ t.sent = s.sent /\ t.guessed = s.guessed /\ t.cluster = s.cluster
  BY <1>1, <1>3 DEF Task
<1>5. t.cluster \in Nat /\ ValidCluster(t.cluster) /\ t.guessed \in BOOLEAN
  BY <1>2, <1>3, <1>4 DEF Task, InChain
<1> HIDE DEF t
<1>6. CASE Remaining(t) = 0
  <2>1. Update(r, t) /\ cache' = cache
    BY <1>2, <1>6
  <2>2. Good(t, notes')
    BY <1>1, <1>2, <1>3, <1>4, <1>5, <1>6, ChainGood DEF t
  <2>3. ReadersInv'
    BY <1>2, <2>1, <2>2, Moves DEF Inv
  <2>4. SharedInv'
    BY <1>2, <2>1, SharedStays DEF Inv, SharedInv
  <2> QED BY <2>3, <2>4 DEF Inv
<1>7. CASE Remaining(t) # 0
  <2>1. PICK found \in Lookup(t.cluster) :
          cache' = found.cache /\ Update(r, Followed(t, FatNext(found.raw)))
    BY <1>2, <1>7
  <2>2. FatSays(t.cluster, found.raw) /\ CacheRight(found.cache)
    BY <1>2, <1>5, LookupFacts
  <2> DEFINE next == FatNext(found.raw)
             u == Followed(t, next)
  <2>3. /\ next \in Nat
        /\ Ends(next) => Breaks(t.cluster)
        /\ ~Ends(next) => ValidCluster(next)
        /\ ~Ends(next) => (Linked(t.cluster) /\ next = Link(t.cluster)) \/ Mislinked(t.cluster, next)
    BY <1>2, <1>5, <2>2, NextFacts
  <2>4. u = IF Ends(next) THEN [t EXCEPT !.cluster = t.cluster + 1, !.guessed = TRUE]
                          ELSE [t EXCEPT !.cluster = next]
    BY DEF Followed
  <2> HIDE DEF next, u
  <2>5. /\ u \in Task /\ u.op = t.op /\ u.node = t.node /\ u.contiguous = t.contiguous
        /\ u.size = t.size /\ u.walk = t.walk /\ u.sent = t.sent /\ u.plan = t.plan
        /\ u.guessed = (t.guessed \/ Ends(next))
        /\ u.cluster = IF Ends(next) THEN t.cluster + 1 ELSE next
    <3>1. CASE Ends(next)
      <4>1. u = [t EXCEPT !.cluster = t.cluster + 1, !.guessed = TRUE] /\ t.cluster + 1 \in Nat
        BY <1>5, <2>4, <3>1
      <4> QED BY <1>3, <3>1, <4>1 DEF Task
    <3>2. CASE ~Ends(next)
      <4>1. u = [t EXCEPT !.cluster = next]
        BY <2>4, <3>2
      <4> QED BY <1>3, <1>5, <2>3, <3>2, <4>1 DEF Task
    <3> QED BY <3>1, <3>2
  <2>6. OnChain(u, s.cluster, u.cluster)
    BY <1>2, <1>4, <2>3, <2>5 DEF OnChain
  <2>7. ~u.contiguous /\ ~ValidCluster(u.cluster) => u.guessed
    BY <2>3, <2>5
  <2>8. (s.guessed => u.guessed) /\ (u.guessed => s.guessed \/ Breaks(s.cluster))
    BY <1>4, <2>3, <2>5
  <2>12. ValidCluster(u.cluster) \/ u.cluster = s.cluster + 1
    BY <1>4, <2>3, <2>5
  <2>9. Good(u, notes')
    BY <1>1, <1>2, <1>4, <2>5, <2>6, <2>7, <2>8, <2>12, ChainGood DEF t
  <2>10. ReadersInv'
    BY <1>2, <2>1, <2>9, Moves DEF Inv, u, next
  <2>11. SharedInv'
    BY <1>2, <2>1, <2>2, SharedCarry DEF Inv, SharedInv
  <2> QED BY <2>10, <2>11 DEF Inv
<1> QED BY <1>6, <1>7

LEMMA ChainDoneInv ==
  ASSUME Inv, NEW r \in Readers, ChainDone(r) PROVE Inv'
<1> DEFINE t == task[r]
           u == [t EXCEPT !.op = "stream"]
<1>1. t \in Task /\ InPlace(t) /\ Told(t, notes) /\ Chained(t) /\ Ordered(t)
  BY ReaderGood
<1>2. /\ t.op = "chain" /\ ~InChain(t) /\ Update(r, u) /\ UNCHANGED <<vol, cache, known>>
      /\ notes' = IF t.guessed THEN notes \cup {"guessed"} ELSE notes
  BY DEF ChainDone
<1> HIDE DEF t
<1>3. u \in Task
  BY <1>1 DEF Task, Ops
<1>4. /\ u.op = "stream" /\ u.node = t.node /\ u.contiguous = t.contiguous /\ u.plan = t.plan
      /\ u.sent = t.sent /\ u.size = t.size /\ u.guessed = t.guessed /\ u.walk = t.walk
  BY <1>1 DEF Task
<1>5. t.sent = <<>> /\ Len(t.plan) \in Nat /\ t.size \in Nat
  BY <1>1, <1>2 DEF InPlace, Task
<1> HIDE DEF u
<1>6. InPlace(u)
  <2>1. /\ Len(u.plan) <= u.size /\ Len(u.sent) <= u.size /\ u.size = u.node.size
        /\ DOMAIN u.sent = {}
    BY <1>1, <1>2, <1>4, <1>5 DEF InPlace
  <2>2. Len(t.plan) < t.size => Remaining(t) > 0 /\ ~ValidCluster(t.cluster)
    BY <1>2, <1>5 DEF InChain, Remaining
  <2>3. PlanReaches(u)
    BY <1>1, <1>2, <1>4, <2>2 DEF InPlace, PlanReaches
  <2> QED BY <1>4, <2>1, <2>3 DEF InPlace
<1>7. Told(u, notes')
  <2>1. t.guessed => "guessed" \in notes'
    BY <1>2
  <2>2. ~t.contiguous /\ Len(t.plan) < t.size => t.guessed
    BY <1>1, <1>2, <1>5 DEF Told, InChain, Remaining
  <2>3. DOMAIN u.sent = {}
    BY <1>4, <1>5
  <2> QED BY <1>4, <2>1, <2>2, <2>3 DEF Told
<1>8. Chained(u)
  BY <1>1, <1>4 DEF Chained, Follows, OnChain
<1>9. Ordered(u)
  BY <1>1, <1>4 DEF Ordered
<1>10. Good(u, notes')
  BY <1>3, <1>6, <1>7, <1>8, <1>9 DEF Good
<1>11. ReadersInv'
  BY <1>2, <1>10, Moves DEF Inv
<1>12. SharedInv'
  BY <1>2, SharedStays DEF Inv, SharedInv
<1> QED BY <1>11, <1>12 DEF Inv

-----------------------------------------------------------------------------
(* The stream.                                                             *)

(* A buffer ends where the extent does, at the latest.                     *)
LEMMA WantFacts ==
  ASSUME NEW t \in Task, Written(t) < Len(t.plan)
  PROVE  /\ Want(t) \in Nat \ {0} /\ Want(t) <= Chunk /\ Written(t) + Want(t) <= Len(t.plan)
         /\ \A k \in 1..Want(t) : t.plan[Written(t) + k] = t.plan[Written(t) + 1] + k - 1
<1> DEFINE p == Written(t)
           plan == t.plan
           Stops(n) == n = Chunk \/ p + n = Len(plan) \/ plan[p + n + 1] # plan[p + 1] + n
           T == {n \in 1..Chunk : Stops(n)}
           Fits(n) == /\ p + n <= Len(plan)
                      /\ \A k \in 1..n : plan[p + k] = plan[p + 1] + k - 1
                      /\ n = Chunk \/ p + n = Len(plan) \/ plan[p + n + 1] # plan[p + 1] + n
<1>1. /\ p \in Nat /\ plan \in Seq(Nat) /\ Len(plan) \in Nat /\ p < Len(plan)
      /\ Chunk \in Nat \ {0}
  BY SizesHold DEF Task, Written, Sizes
<1>2. Want(t) = CHOOSE n \in 1..Chunk : Fits(n)
  BY DEF Want
<1> HIDE DEF p, plan
<1>3. PICK n \in T : \A m \in T : n <= m
  <2>1. T \subseteq Nat /\ Chunk \in T
    BY <1>1
  <2> HIDE DEF T
  <2> QED BY <2>1, LeastOf
<1>4. ASSUME NEW m \in 1..(n - 1) PROVE p + m # Len(plan) /\ plan[p + m + 1] = plan[p + 1] + m
  <2>1. m \in 1..Chunk /\ m \notin T
    BY <1>1, <1>3
  <2> QED BY <2>1
<1>5. p + n <= Len(plan)
  <2>1. SUFFICES ASSUME ~(p + n <= Len(plan)) PROVE FALSE
    OBVIOUS
  <2>2. Len(plan) - p \in 1..(n - 1) /\ p + (Len(plan) - p) = Len(plan)
    BY <1>1, <1>3, <2>1
  <2> QED BY <1>4, <2>2
<1>6. ASSUME NEW k \in 1..n PROVE plan[p + k] = plan[p + 1] + k - 1
  <2>0. plan[p + 1] \in Nat
    BY <1>1
  <2>1. CASE k = 1
    BY <2>0, <2>1
  <2>2. CASE k # 1
    <3>1. k - 1 \in 1..(n - 1) /\ p + (k - 1) + 1 = p + k
      BY <1>1, <1>3, <2>2
    <3>2. plan[p + (k - 1) + 1] = plan[p + 1] + (k - 1)
      BY <1>4, <3>1
    <3> QED BY <2>0, <3>1, <3>2
  <2> QED BY <2>1, <2>2
<1>7. n \in 1..Chunk /\ Fits(n)
  BY <1>3, <1>5, <1>6
<1> HIDE DEF Fits
<1>8. Want(t) \in 1..Chunk /\ Fits(Want(t))
  BY <1>2, <1>7
<1>9. Want(t) \in Nat \ {0} /\ Want(t) <= Chunk
  BY <1>1, <1>8
<1>10. /\ p + Want(t) <= Len(plan)
       /\ \A k \in 1..Want(t) : plan[p + k] = plan[p + 1] + k - 1
  BY <1>8 DEF Fits
<1> QED BY <1>9, <1>10 DEF p, plan

(* A buffer is the plan's next units, or zeros for units of one extent of  *)
(* which the first does not read, or zeros behind the end of the volume.   *)
Sends(t, more) ==
  \/ \A k \in 1..Len(more) : Written(t) + k <= Len(t.plan) /\ more[k] = t.plan[Written(t) + k]
  \/ /\ Len(more) <= Chunk /\ Unreadable(t.plan[Written(t) + 1])
     /\ \A k \in 1..Len(more) :
          /\ Written(t) + k <= Len(t.plan) /\ more[k] = Hole
          /\ t.plan[Written(t) + k] = t.plan[Written(t) + 1] + k - 1
  \/ /\ Written(t) >= Len(t.plan) /\ t.plan[Len(t.plan)] = Units
     /\ \A k \in 1..Len(more) : more[k] = Hole

LEMMA SentGood ==
  ASSUME NEW t \in Task, t.op = "stream", InPlace(t), Told(t, notes), Chained(t), Ordered(t),
         NEW more \in Seq(Nat \cup {Hole}), NEW told, notes \subseteq told,
         Written(t) + Len(more) <= t.size, Sends(t, more),
         (\E k \in 1..Len(more) : more[k] = Hole /\ Written(t) + k <= Len(t.plan)) => "gap" \in told
  PROVE  Good([t EXCEPT !.sent = t.sent \o more], told)
<1> DEFINE p == Len(t.sent)
           old == t.sent
           new == old \o more
           u == [t EXCEPT !.sent = new]
<1>1. old \in Seq(Nat \cup {Hole}) /\ p \in Nat /\ Len(more) \in Nat /\ Written(t) = p
  BY DEF Task, Written
<1>11. t.plan \in Seq(Nat) /\ Len(t.plan) \in Nat /\ Chunk \in Nat
  BY SizesHold DEF Task, Sizes
<1>2. /\ new \in Seq(Nat \cup {Hole}) /\ Len(new) = p + Len(more)
      /\ DOMAIN new = 1..(p + Len(more)) /\ DOMAIN old = 1..p
      /\ \A k \in 1..(p + Len(more)) : new[k] = IF k <= p THEN old[k] ELSE more[k - p]
  BY <1>1, ConcatProperties
<1> HIDE DEF new
<1>3. /\ u \in Task /\ u.sent = new /\ u.op = "stream" /\ u.node = t.node /\ u.walk = t.walk
      /\ u.contiguous = t.contiguous /\ u.plan = t.plan /\ u.size = t.size /\ u.guessed = t.guessed
  BY <1>2 DEF Task
<1> HIDE DEF u
<1>4. ASSUME NEW k \in DOMAIN new
      PROVE  \/ k \in DOMAIN old /\ new[k] = old[k]
             \/ k - p \in 1..Len(more) /\ p + (k - p) = k /\ new[k] = more[k - p]
  <2> HIDE DEF p
  <2>1. k \in 1..(p + Len(more))
    BY <1>2
  <2>2. CASE k <= p
    <3>1. k \in DOMAIN old /\ new[k] = old[k]
      BY <1>1, <1>2, <2>1, <2>2
    <3> QED BY <3>1
  <2>3. CASE ~(k <= p)
    <3>1. k - p \in 1..Len(more) /\ p + (k - p) = k
      BY <1>1, <2>1, <2>3
    <3>2. new[k] = more[k - p]
      BY <1>2, <2>1, <2>3
    <3> QED BY <3>1, <3>2
  <2> QED BY <2>2, <2>3
<1>5. ASSUME NEW k \in DOMAIN new PROVE SentRight(u, k)
  <2>1. CASE k \in DOMAIN old
    <3>1. SentRight(t, k) /\ k \in 1..p
      BY <1>2, <2>1 DEF InPlace
    <3>2. \A i \in 1..k : new[i] = old[i]
      BY <1>1, <1>2, <3>1
    <3>3. ASSUME NEW j \in 1..k, HoleFrom(t, j, k) PROVE HoleFrom(u, j, k)
      <4>1. \A i \in j..k : i \in 1..k
        BY <3>1
      <4> QED BY <1>3, <3>2, <3>3, <4>1 DEF HoleFrom
    <3>4. new[k] = old[k]
      BY <3>1, <3>2
    <3> QED BY <1>3, <3>1, <3>3, <3>4 DEF SentRight
  <2>2. CASE k \notin DOMAIN old
    <3> DEFINE i == k - p
    <3>1. i \in 1..Len(more) /\ p + i = k /\ new[k] = more[i]
      BY <1>4, <2>2
    <3> HIDE DEF i
    <3>2. CASE k <= Len(t.plan) /\ more[i] = t.plan[k]
      BY <1>1, <1>2, <1>3, <1>11, <3>1, <3>2 DEF SentRight
    <3>3. CASE /\ Len(more) <= Chunk /\ Unreadable(t.plan[p + 1])
               /\ \A x \in 1..Len(more) :
                    /\ p + x <= Len(t.plan) /\ more[x] = Hole
                    /\ t.plan[p + x] = t.plan[p + 1] + x - 1
      <4>1. p + 1 \in 1..k /\ k < (p + 1) + Chunk
        <5>1. Len(more) <= Chunk
          BY <3>3
        <5> QED BY <1>1, <1>11, <3>1, <5>1
      <4>2. ASSUME NEW y \in (p + 1)..k
            PROVE  t.plan[y] = t.plan[p + 1] + (y - (p + 1)) /\ new[y] = Hole
        <5>1. y - p \in 1..Len(more) /\ p + (y - p) = y /\ y \in 1..(p + Len(more)) /\ ~(y <= p)
          BY <1>1, <3>1
        <5>2. more[y - p] = Hole /\ t.plan[y] = t.plan[p + 1] + (y - p) - 1
          BY <3>3, <5>1
        <5>3. new[y] = more[y - p]
          BY <1>2, <5>1
        <5>4. t.plan[p + 1] \in Nat
          <6>1. 1 \in 1..Len(more)
            BY <1>1, <3>1
          <6>2. p + 1 <= Len(t.plan)
            BY <3>3, <6>1
          <6> QED BY <1>1, <1>11, <6>2
        <5> QED BY <1>1, <5>1, <5>2, <5>3, <5>4
      <4>3. HoleFrom(u, p + 1, k)
        BY <1>3, <3>3, <4>1, <4>2 DEF HoleFrom
      <4>4. ~(k > Len(u.plan))
        BY <1>1, <1>3, <1>11, <3>1, <3>3
      <4> QED BY <4>1, <4>3, <4>4 DEF SentRight
    <3>4. CASE p >= Len(t.plan) /\ t.plan[Len(t.plan)] = Units /\ more[i] = Hole
      <4>1. k > Len(u.plan) /\ new[k] = Hole
        BY <1>1, <1>3, <1>11, <3>1, <3>4
      <4> QED BY <1>3, <3>4, <4>1 DEF SentRight
    <3> QED BY <1>1, <3>1, <3>2, <3>3, <3>4 DEF Sends
  <2> QED BY <2>1, <2>2
<1>6. InPlace(u)
  <2>1. Len(u.plan) <= u.size
    BY <1>3 DEF InPlace
  <2>2. Len(u.sent) <= u.size
    BY <1>1, <1>2, <1>3
  <2>3. u.size = u.node.size /\ PlanReaches(u)
    BY <1>3 DEF InPlace, PlanReaches
  <2> QED BY <1>3, <1>5, <2>1, <2>2, <2>3 DEF InPlace
<1>7. ASSUME NEW k \in DOMAIN new, k <= Len(t.plan), new[k] = Hole PROVE "gap" \in told
  <2>1. CASE k \in DOMAIN old /\ new[k] = old[k]
    BY <1>7, <2>1 DEF Told
  <2>2. CASE k - p \in 1..Len(more) /\ p + (k - p) = k /\ new[k] = more[k - p]
    BY <1>1, <1>7, <2>2
  <2> QED BY <1>4, <2>1, <2>2
<1>8. Told(u, told)
  BY <1>3, <1>7 DEF Told
<1>9. Chained(u)
  BY <1>3 DEF Chained, Follows, OnChain
<1>10. Ordered(u)
  BY <1>3 DEF Ordered
<1> QED BY <1>3, <1>6, <1>8, <1>9, <1>10 DEF Good, u, new

LEMMA HolesFacts ==
  ASSUME NEW n \in Nat
  PROVE  Holes(n) \in Seq(Nat \cup {Hole}) /\ Len(Holes(n)) = n /\ \A k \in 1..n : Holes(n)[k] = Hole
BY DEF Holes

LEMMA DataFacts ==
  ASSUME NEW u \in Nat, NEW n \in Nat
  PROVE  Data(u, n) \in Seq(Nat \cup {Hole}) /\ Len(Data(u, n)) = n
         /\ \A k \in 1..n : Data(u, n)[k] = u + k - 1 /\ Data(u, n)[k] # Hole
<1>1. \A k \in 1..n : u + k - 1 \in Nat
  OBVIOUS
<1> QED BY <1>1, HoleAssumption DEF Data

LEMMA SendChunkInv ==
  ASSUME Inv, NEW r \in Readers, SendChunk(r) PROVE Inv'
<1> DEFINE t == task[r]
           p == Written(t)
           n == Want(t)
           x == t.plan[p + 1]
<1>1. t \in Task /\ InPlace(t) /\ Told(t, notes) /\ Chained(t) /\ Ordered(t)
  BY ReaderGood
<1>2. t.op = "stream" /\ p < Len(t.plan) /\ UNCHANGED <<vol, cache, known>> /\ vol \in Volumes
  BY DEF SendChunk, Inv, SharedInv
<1>3. PICK got \in Got(x, n) :
        /\ Update(r, Sent(t, got))
        /\ notes' = IF got = 0 THEN notes \cup {"gap"} ELSE notes
  BY DEF SendChunk
<1>4. /\ n \in Nat \ {0} /\ n <= Chunk /\ p + n <= Len(t.plan)
      /\ \A k \in 1..n : t.plan[p + k] = x + k - 1
  BY <1>1, <1>2, WantFacts
<1>5. /\ p \in Nat /\ t.size \in Nat /\ t.plan \in Seq(Nat) /\ Len(t.plan) <= t.size
      /\ t.sent \in Seq(Nat \cup {Hole})
  BY <1>1 DEF Task, InPlace, Written
<1>6. x \in Nat
  BY <1>2, <1>5
<1> DEFINE more == IF got = 0 THEN Holes(n) ELSE Data(x, got)
<1>7. Sent(t, got) = [t EXCEPT !.sent = t.sent \o more]
  BY DEF Sent
<1> HIDE DEF t, p, n, x
<1>8. got \in 0..n /\ (got = 0 => Unreadable(x))
  BY <1>2, <1>4, <1>6, GotFacts
<1>9. /\ more \in Seq(Nat \cup {Hole}) /\ Len(more) <= n
      /\ \/ got = 0 /\ \A k \in 1..Len(more) : more[k] = Hole
         \/ \A k \in 1..Len(more) : more[k] = t.plan[p + k]
      /\ (\E k \in 1..Len(more) : more[k] = Hole) => got = 0
  <2>1. CASE got = 0
    <3>1. more = Holes(n)
      BY <2>1
    <3> HIDE DEF more
    <3>2. n \in Nat
      BY <1>4
    <3>3. more \in Seq(Nat \cup {Hole}) /\ Len(more) = n /\ \A k \in 1..n : more[k] = Hole
      BY <3>1, <3>2, HolesFacts
    <3>4. Len(more) <= n /\ \A k \in 1..Len(more) : more[k] = Hole
      BY <3>2, <3>3
    <3> QED BY <2>1, <3>3, <3>4
  <2>2. CASE got # 0
    <3>1. more = Data(x, got) /\ got \in Nat /\ got <= n
      BY <1>4, <1>8, <2>2
    <3> HIDE DEF more
    <3>2. /\ more \in Seq(Nat \cup {Hole}) /\ Len(more) = got
          /\ \A k \in 1..got : more[k] = x + k - 1 /\ more[k] # Hole
      BY <1>6, <3>1, DataFacts
    <3>3. \A k \in 1..got : k \in 1..n
      BY <1>4, <3>1
    <3>4. \A k \in 1..got : more[k] = t.plan[p + k]
      BY <1>4, <3>2, <3>3
    <3>5. Len(more) <= n /\ 1..Len(more) = 1..got
      BY <3>1, <3>2
    <3> QED BY <3>2, <3>4, <3>5
  <2> QED BY <2>1, <2>2
<1> HIDE DEF more
<1>10. Len(more) \in Nat
  BY <1>9
<1>11. p + Len(more) <= t.size /\ \A k \in 1..Len(more) : p + k <= Len(t.plan)
  <2>1. Len(t.plan) \in Nat
    BY <1>5
  <2> QED BY <1>4, <1>5, <1>9, <1>10, <2>1
<1>12. (\E k \in 1..Len(more) : more[k] = Hole) => "gap" \in notes'
  BY <1>3, <1>9
<1>17. Sends(t, more)
  <2>1. CASE got = 0 /\ \A k \in 1..Len(more) : more[k] = Hole
    <3>1. Len(more) <= Chunk /\ \A k \in 1..Len(more) : k \in 1..n
      <4>1. Chunk \in Nat
        BY SizesHold DEF Sizes
      <4> QED BY <1>4, <1>9, <1>10, <4>1
    <3>2. Unreadable(t.plan[p + 1])
      BY <1>8, <2>1 DEF x
    <3>3. \A k \in 1..Len(more) : t.plan[p + k] = t.plan[p + 1] + k - 1
      BY <1>4, <3>1 DEF x
    <3> QED BY <1>11, <2>1, <3>1, <3>2, <3>3 DEF Sends, p
  <2>2. CASE \A k \in 1..Len(more) : more[k] = t.plan[p + k]
    BY <1>11, <2>2 DEF Sends, p
  <2> QED BY <1>9, <2>1, <2>2
<1>13. notes \subseteq notes' /\ p = Written(t)
  BY <1>3 DEF p
<1>14. Good([t EXCEPT !.sent = t.sent \o more], notes')
  BY <1>1, <1>2, <1>9, <1>11, <1>12, <1>13, <1>17, SentGood
<1>15. ReadersInv'
  BY <1>2, <1>3, <1>7, <1>13, <1>14, Moves DEF Inv
<1>16. SharedInv'
  BY <1>2, SharedStays DEF Inv, SharedInv
<1> QED BY <1>15, <1>16 DEF Inv

LEMMA PadInv ==
  ASSUME Inv, NEW r \in Readers, Pad(r) PROVE Inv'
<1> DEFINE t == task[r]
           p == Written(t)
           n == Least(Chunk, t.size - p)
<1>1. t \in Task /\ InPlace(t) /\ Told(t, notes) /\ Chained(t) /\ Ordered(t)
  BY ReaderGood
<1>2. /\ t.op = "stream" /\ p >= Len(t.plan) /\ p < t.size
      /\ Update(r, [t EXCEPT !.sent = t.sent \o Holes(n)])
      /\ UNCHANGED <<vol, cache, notes, known>>
  BY DEF Pad
<1>3. p \in Nat /\ t.size \in Nat /\ Len(t.plan) \in Nat /\ Chunk \in Nat \ {0}
  BY <1>1, SizesHold DEF Task, Written, Sizes
<1>4. n \in Nat /\ p + n <= t.size /\ p = Written(t)
  BY <1>2, <1>3 DEF Least
<1> HIDE DEF t, p, n
<1> DEFINE more == Holes(n)
<1>5. more \in Seq(Nat \cup {Hole}) /\ Len(more) = n /\ \A k \in 1..n : more[k] = Hole
  BY <1>4, HolesFacts
<1>6. Update(r, [t EXCEPT !.sent = t.sent \o more])
  BY <1>2
<1> HIDE DEF more
<1>7. \A k \in 1..Len(more) : ~(p + k <= Len(t.plan))
  BY <1>2, <1>3, <1>4, <1>5
<1>11. Sends(t, more)
  <2>1. t.plan[Len(t.plan)] = Units
    BY <1>1, <1>2, <1>3 DEF InPlace, PlanReaches
  <2> QED BY <1>2, <1>4, <1>5, <2>1 DEF Sends
<1>8. Good([t EXCEPT !.sent = t.sent \o more], notes')
  BY <1>1, <1>2, <1>4, <1>5, <1>7, <1>11, SentGood
<1>9. ReadersInv'
  BY <1>2, <1>6, <1>8, Moves DEF Inv
<1>10. SharedInv'
  BY <1>2, SharedStays DEF Inv, SharedInv
<1> QED BY <1>9, <1>10 DEF Inv

(* The stream ends, at its end or where the caller wants no more.          *)
LEMMA EndsGood ==
  ASSUME NEW t \in Task, t.op = "stream", InPlace(t), Told(t, notes), Chained(t), Ordered(t),
         NEW op \in {"read", "aborted"}, op = "read" => Len(t.sent) = t.size
  PROVE  Good([t EXCEPT !.op = op], notes)
<1> DEFINE u == [t EXCEPT !.op = op]
<1>1. u \in Task
  BY DEF Task, Ops, Resting
<1>2. /\ u.op = op /\ u.node = t.node /\ u.contiguous = t.contiguous /\ u.plan = t.plan
      /\ u.sent = t.sent /\ u.size = t.size /\ u.guessed = t.guessed /\ u.walk = t.walk
  BY DEF Task
<1> HIDE DEF u
<1>3. InPlace(u)
  <2>1. \A k \in DOMAIN u.sent : SentRight(u, k)
    BY <1>2 DEF InPlace, SentRight, HoleFrom
  <2>2. t.size = t.node.size
    BY DEF InPlace
  <2> QED BY <1>2, <2>1, <2>2 DEF InPlace, PlanReaches
<1>4. Told(u, notes)
  BY <1>2 DEF Told
<1>5. Chained(u)
  BY <1>2 DEF Chained, Follows, OnChain
<1>6. Ordered(u)
  BY <1>2 DEF Ordered
<1> QED BY <1>1, <1>3, <1>4, <1>5, <1>6 DEF Good, u

LEMMA ReadDoneInv ==
  ASSUME Inv, NEW r \in Readers, ReadDone(r) PROVE Inv'
<1> DEFINE t == task[r]
<1>1. t \in Task /\ InPlace(t) /\ Told(t, notes) /\ Chained(t) /\ Ordered(t)
  BY ReaderGood
<1>2. /\ t.op = "stream" /\ Written(t) >= t.size /\ Update(r, [t EXCEPT !.op = "read"])
      /\ UNCHANGED <<vol, cache, notes, known>>
  BY DEF ReadDone
<1> HIDE DEF t
<1>3. Len(t.sent) = t.size
  BY <1>1, <1>2 DEF InPlace, Written, Task
<1>4. Good([t EXCEPT !.op = "read"], notes')
  BY <1>1, <1>2, <1>3, EndsGood
<1>5. ReadersInv'
  BY <1>2, <1>4, Moves DEF Inv
<1>6. SharedInv'
  BY <1>2, SharedStays DEF Inv, SharedInv
<1> QED BY <1>5, <1>6 DEF Inv

LEMMA AbortInv ==
  ASSUME Inv, NEW r \in Readers, Abort(r) PROVE Inv'
<1> DEFINE t == task[r]
<1>1. t \in Task /\ InPlace(t) /\ Told(t, notes) /\ Chained(t) /\ Ordered(t)
  BY ReaderGood
<1>2. /\ t.op = "stream" /\ Update(r, [t EXCEPT !.op = "aborted"])
      /\ UNCHANGED <<vol, cache, notes, known>>
  BY DEF Abort
<1> HIDE DEF t
<1>3. Good([t EXCEPT !.op = "aborted"], notes')
  BY <1>1, <1>2, EndsGood
<1>4. ReadersInv'
  BY <1>2, <1>3, Moves DEF Inv
<1>5. SharedInv'
  BY <1>2, SharedStays DEF Inv, SharedInv
<1> QED BY <1>4, <1>5 DEF Inv

-----------------------------------------------------------------------------
LEMMA InvInit == Init => Inv
<1> SUFFICES ASSUME Init PROVE Inv
  OBVIOUS
<1>1. /\ vol \in Volumes /\ ~cache.valid /\ known = {}
      /\ task = [r \in Readers |-> Call("idle", Root)]
  BY DEF Init
<1>2. SharedInv
  BY <1>1 DEF SharedInv, CacheRight
<1>3. Call("idle", Root) \in Task
  BY CallType, RootIsNode DEF Ops, Resting
<1>4. Good(Call("idle", Root), notes)
  BY <1>3, FreshGood DEF Call
<1>5. ReadersInv
  BY <1>1, <1>4 DEF ReadersInv
<1> QED BY <1>2, <1>5 DEF Inv

LEMMA InvStep == Inv /\ [Next]_vars => Inv'
<1> SUFFICES ASSUME Inv, [Next]_vars PROVE Inv'
  OBVIOUS
<1>1. CASE UNCHANGED vars
  <2>1. UNCHANGED <<vol, cache, notes, known, task>>
    BY <1>1 DEF vars
  <2>2. DOMAIN task' = Readers /\ \A q \in Readers : Good(task'[q], notes')
    BY <2>1 DEF Inv, ReadersInv
  <2>3. ReadersInv'
    BY <2>1, <2>2, GoodCarry
  <2>4. SharedInv'
    BY <2>1, SharedStays DEF Inv, SharedInv
  <2> QED BY <2>3, <2>4 DEF Inv
<1>2. CASE Next
  <2>1. PICK r \in Readers : Begin(r) \/ Continue(r) \/ Abort(r)
    BY <1>2 DEF Next
  <2>2. CASE Begin(r)
    BY <2>2, ListRootInv, ListFixedRootInv, ListDirInv, OpenFileInv DEF Begin
  <2>3. CASE Continue(r)
    BY <2>3, ScanClusterInv, ScanEnoughInv, HopAheadInv, HopChainInv, ChainStraightInv,
       ChainFatInv, ChainDoneInv, SendChunkInv, PadInv, ReadDoneInv DEF Continue
  <2>4. CASE Abort(r)
    BY <2>4, AbortInv
  <2> QED BY <2>1, <2>2, <2>3, <2>4
<1> QED BY <1>1, <1>2

LEMMA InvHolds == Spec => []Inv
BY InvInit, InvStep, PTL DEF Spec

(* The clusters a file is read from are those of its chain, in order; a    *)
(* deleted file is read straight on; a guess is made only where the chain  *)
(* breaks off or did not read, whatever block of the FAT other threads put *)
(* into the cache in between; the one false link a read can leave behind is*)
(* the half of a FAT12 entry across two sectors (chainExtents, fatReadRaw).*)
THEOREM FatReadsTheChain == Spec => []ReadsTheChain
<1>1. Inv => ReadsTheChain
  <2> SUFFICES ASSUME Inv, NEW r \in Readers, task[r].op \in {"chain", "stream", "read", "aborted"}
               PROVE  LET t == task[r] IN
                      /\ t.node.deleted /\ t.plan # <<>> => t.contiguous
                      /\ t.guessed => \E u \in Range(t.plan) : Breaks(ClusterOf(u))
                      /\ \A k \in 1..(Len(t.plan) - 1) : Follows(t, k)
    BY DEF ReadsTheChain, Follows
  <2>1. Chained(task[r])
    BY ReaderGood
  <2> QED BY <2>1 DEF Chained
<1> QED BY <1>1, InvHolds, PTL

(* What the sink got is the planned unit, or a hole in its place that      *)
(* begins where the drive does not read and ends with the buffer; zeros    *)
(* are appended only behind the last cluster of the volume; and a read     *)
(* that ends has the length listed, unless the entry could not be read     *)
(* again and it is empty (streamRecord, readFileStream).                   *)
THEOREM FatStaysInPlace == Spec => []StaysInPlace
<1>1. Inv => StaysInPlace
  <2> SUFFICES ASSUME Inv, NEW r \in Readers
               PROVE  LET t == task[r] IN
                      /\ \A k \in DOMAIN t.sent : SentRight(t, k)
                      /\ t.op = "read" => \/ Len(t.sent) = t.node.size
                                          \/ t.sent = <<>> /\ EntryLost(t.node)
    BY DEF StaysInPlace, SentRight
  <2>1. InPlace(task[r])
    BY ReaderGood
  <2> QED BY <2>1 DEF InPlace
<1> QED BY <1>1, InvHolds, PTL

(* Zeros for what did not read, and clusters that were guessed, are in the *)
(* notes before the stream hands anything out that rests on them.          *)
THEOREM FatDamageIsTold == Spec => []DamageIsTold
<1>1. Inv => DamageIsTold
  <2> SUFFICES ASSUME Inv, NEW r \in Readers, task[r].op \in {"stream", "read", "aborted"}
               PROVE  LET t == task[r] IN
                      /\ t.guessed => "guessed" \in notes
                      /\ ~t.contiguous /\ Len(t.plan) < t.size => "guessed" \in notes
                      /\ (\E k \in DOMAIN t.sent : k <= Len(t.plan) /\ t.sent[k] = Hole) => "gap" \in notes
    BY DEF DamageIsTold
  <2>1. Told(task[r], notes)
    BY ReaderGood
  <2> QED BY <2>1 DEF Told
<1> QED BY <1>1, InvHolds, PTL

(* Nothing behind an end marker that was read is listed as live, however   *)
(* the chain leads on, and a live entry has its own name (scanEntries,     *)
(* scanDirectory).                                                         *)
THEOREM FatLiveEntriesAreLive == Spec => []LiveEntriesAreLive
<1>1. Inv => LiveEntriesAreLive
  <2> SUFFICES ASSUME Inv, NEW r \in Readers, NEW j \in DOMAIN task[r].walk.out,
                      ~task[r].walk.out[j].deleted
               PROVE  LET out == task[r].walk.out IN
                      /\ out[j].name = vol.unit[out[j].id].sum
                      /\ \A i \in 1..(j - 1) :
                           \/ out[i].id < DataStart
                           \/ ClusterOf(out[i].id) = ClusterOf(out[j].id)
                           \/ ~EndsIn(ClusterOf(out[i].id))
    BY DEF LiveEntriesAreLive
  <2> DEFINE out == task[r].walk.out
  <2>1. /\ out[j].name = vol.unit[out[j].id].sum
        /\ \A i \in 1..(j - 1) : EndBefore(out[i]) => ClusterOf(out[i].id) = ClusterOf(out[j].id)
    BY ReaderGood DEF Ordered
  <2>2. out \in Seq(Entry)
    BY ReaderGood DEF Task, Walk
  <2>3. DataStart \in Nat
    BY VolIs DEF Inv, SharedInv
  <2> HIDE DEF out
  <2>4. ASSUME NEW i \in 1..(j - 1) PROVE out[i].id < DataStart \/ out[i].id >= DataStart
    <3>1. out[i] \in Entry
      BY <2>2 DEF out
    <3>2. out[i].id \in Nat
      BY <3>1 DEF Entry
    <3> QED BY <2>3, <3>2
  <2> QED BY <2>1, <2>4 DEF EndBefore, out
<1> QED BY <1>1, InvHolds, PTL
-----------------------------------------------------------------------------
(* On a drive that reads, a walk has behind it a set of clusters whose     *)
(* entries it lists and whose links lead back to it or to the cluster the  *)
(* walk is at.  As long as the walk has not come back to one of them, they *)
(* are as many as the clusters visited, which is why the cap is reached    *)
(* only when nothing is left to visit.                                     *)

Clusters == 2..(vol.count + 1)

Readable == vol.weak = {} /\ vol.weakFat = {} /\ vol.image >= Units

Holds(out, c) ==
  \A x \in ClusterToOffset(c)..(ClusterToOffset(c) + CS - 1) :
    Wanted(x) => \E j \in DOMAIN out : out[j].id = x

Joined(S, T) == \A c \in S : Linked(c) => Link(c) \in T

Behind(t, S) == S \subseteq Clusters /\ \A c \in S : Holds(t.walk.out, c)

AtScan(t, S) ==
  /\ Behind(t, S)
  /\ t.cluster \in Clusters /\ t.first \in S \cup {t.cluster}
  /\ Joined(S, S \cup {t.cluster})
  /\ t.cluster \in S \/ Cardinality(S) = t.visited

AtHop(t, S) ==
  /\ Behind(t, S)
  /\ t.cluster \in S /\ t.first \in S
  /\ Joined(S \ {t.cluster}, S)
  /\ Joined(S, S) \/ Cardinality(S) = t.visited

AtEnd(t, S) == Behind(t, S) /\ t.first \in S /\ Joined(S, S)

Complete(t) ==
  Readable /\ t.first # 0 /\ ~t.contiguous =>
    /\ t.op = "scan" => \E S : AtScan(t, S)
    /\ t.op = "hop" => \E S : AtHop(t, S)
    /\ t.op = "listed" => \E S : AtEnd(t, S)

CoverInv == \A r \in Readers : Complete(task[r])

LEMMA ClustersAre ==
  ASSUME vol \in Volumes
  PROVE  /\ \A c : c \in Clusters <=> c \in Nat /\ ValidCluster(c)
         /\ IsFiniteSet(Clusters) /\ Cardinality(Clusters) = vol.count
<1>1. vol.count \in Nat \ {0}
  BY VolIs
<1>2. IsFiniteSet(2..(vol.count + 1)) /\ Cardinality(2..(vol.count + 1)) = vol.count
  <2> DEFINE n == vol.count + 1
  <2>1. 2 \in Int /\ n \in Int /\ ~(2 > n) /\ n - 2 + 1 = vol.count
    BY <1>1
  <2> HIDE DEF n
  <2>2. IsFiniteSet(2..n) /\ Cardinality(2..n) = n - 2 + 1
    BY <2>1, FS_Interval, Zenon
  <2> QED BY <2>1, <2>2 DEF n
<1> QED BY <1>1, <1>2 DEF Clusters, ValidCluster

(* One thread moves on, as in Moves.                                       *)
LEMMA CoverMoves ==
  ASSUME ReadersInv, CoverInv, vol' = vol, NEW r \in Readers, NEW t, Update(r, t), Complete(t)
  PROVE  CoverInv'
<1>1. \A q \in Readers : Complete(task'[q])
  <2>1. SUFFICES ASSUME NEW q \in Readers PROVE Complete(task'[q])
    OBVIOUS
  <2>2. CASE q = r
    <3>1. task'[q] = t
      BY <2>2 DEF Update, ReadersInv
    <3> QED BY <3>1
  <2>3. CASE q # r
    <3>1. task'[q] = task[q]
      BY <2>3 DEF Update, ReadersInv
    <3> QED BY <3>1 DEF CoverInv
  <2> QED BY <2>2, <2>3
<1>2. \A x : Wanted(x)' = Wanted(x)
  BY DEF Wanted, Keepable, Units, ValidCluster
<1>3. \A out, c : Holds(out, c)' = Holds(out, c)
  BY <1>2 DEF Holds, ClusterToOffset, DataStart
<1>4. \A t1, S : Behind(t1, S)' = Behind(t1, S)
  BY <1>3 DEF Behind, Clusters
<1>5. \A S, T : Joined(S, T)' = Joined(S, T)
  <2>1. \A c : Linked(c)' = Linked(c) /\ Link(c)' = Link(c)
    BY DEF Linked, Link, ValidCluster
  <2> QED BY <2>1 DEF Joined
<1>6. \A t1, S : AtScan(t1, S)' = AtScan(t1, S)
  BY <1>4, <1>5 DEF AtScan, Clusters
<1>7. \A t1, S : AtHop(t1, S)' = AtHop(t1, S)
  BY <1>4, <1>5 DEF AtHop
<1>8. \A t1, S : AtEnd(t1, S)' = AtEnd(t1, S)
  BY <1>4, <1>5 DEF AtEnd
<1>9. Readable' = Readable
  BY DEF Readable, Units
<1>10. \A t1 : Complete(t1)' = Complete(t1)
  BY <1>6, <1>7, <1>8, <1>9 DEF Complete
<1> QED BY <1>1, <1>10 DEF CoverInv

LEMMA NotListing ==
  ASSUME NEW t, t.op \notin {"scan", "hop", "listed"} PROVE Complete(t)
BY DEF Complete

(* A walk begins with nothing behind it.                                   *)
LEMMA WalkBegins ==
  ASSUME vol \in Volumes, NEW t, t.op = "scan", t.first \in Clusters, t.cluster = t.first,
         t.visited = 0
  PROVE  Complete(t)
<1>1. AtScan(t, {})
  BY FS_EmptySet DEF AtScan, Behind, Joined
<1> QED BY <1>1 DEF Complete

LEMMA ListRootCover ==
  ASSUME Inv, CoverInv, NEW r \in Readers, ListRoot(r) PROVE CoverInv'
<1> DEFINE t == [Call("scan", Root) EXCEPT !.first = vol.root, !.cluster = vol.root]
<1>1. vol \in Volumes /\ ReadersInv
  BY DEF Inv, SharedInv
<1>2. vol.root \in Clusters
  <2>1. Mounted(vol) /\ vol.bits = 32
    BY <1>1, VolumeAssumption DEF ListRoot
  <2> QED BY <2>1 DEF Mounted, Clusters
<1>3. t.op = "scan" /\ t.first = vol.root /\ t.cluster = vol.root /\ t.visited = 0
  BY DEF Call
<1>4. Update(r, t) /\ vol' = vol
  BY DEF ListRoot
<1> HIDE DEF t
<1>5. Complete(t)
  BY <1>1, <1>2, <1>3, WalkBegins
<1> QED BY <1>1, <1>4, <1>5, CoverMoves

LEMMA ListDirCover ==
  ASSUME Inv, CoverInv, NEW r \in Readers, ListDir(r) PROVE CoverInv'
<1>1. vol' = vol /\ vol \in Volumes /\ ReadersInv
  BY DEF ListDir, Inv, SharedInv
<1>2. PICK n \in known : \E rec \in Reopen(n.id) :
        IF rec = NoRecord THEN Update(r, Call("listed", n))
        ELSE IF ~rec.dir \/ ~ValidCluster(rec.first) THEN Update(r, Call("listed", n))
        ELSE Update(r, [Call("scan", n) EXCEPT
               !.first = rec.first, !.cluster = rec.first,
               !.contiguous = n.deleted \/ rec.deleted])
  BY DEF ListDir
<1>3. PICK rec \in Reopen(n.id) :
        IF rec = NoRecord THEN Update(r, Call("listed", n))
        ELSE IF ~rec.dir \/ ~ValidCluster(rec.first) THEN Update(r, Call("listed", n))
        ELSE Update(r, [Call("scan", n) EXCEPT
               !.first = rec.first, !.cluster = rec.first,
               !.contiguous = n.deleted \/ rec.deleted])
  BY <1>2
<1>4. n \in Node /\ n.id \in Nat \ {0}
  BY KnownIs DEF Inv
<1>5. CASE rec = NoRecord \/ ~rec.dir \/ ~ValidCluster(rec.first)
  <2> DEFINE t == Call("listed", n)
  <2>1. Update(r, t)
    BY <1>3, <1>5
  <2>2. t.first = 0
    BY DEF Call
  <2> HIDE DEF t
  <2>3. Complete(t)
    BY <2>2 DEF Complete
  <2> QED BY <1>1, <2>1, <2>3, CoverMoves
<1>6. CASE ~(rec = NoRecord \/ ~rec.dir \/ ~ValidCluster(rec.first))
  <2> DEFINE t == [Call("scan", n) EXCEPT !.first = rec.first, !.cluster = rec.first,
                    !.contiguous = n.deleted \/ rec.deleted]
  <2>1. Update(r, t)
    BY <1>3, <1>6
  <2>2. rec.first \in Clusters
    <3>1. rec.first \in Nat /\ ValidCluster(rec.first)
      BY <1>1, <1>4, <1>6, ReopenFacts DEF Inv
    <3> QED BY <1>1, <3>1, ClustersAre
  <2>3. t.op = "scan" /\ t.first = rec.first /\ t.cluster = rec.first /\ t.visited = 0
    BY DEF Call
  <2> HIDE DEF t
  <2>4. Complete(t)
    BY <1>1, <2>2, <2>3, WalkBegins
  <2> QED BY <1>1, <2>1, <2>4, CoverMoves
<1> QED BY <1>5, <1>6

LEMMA ListFixedRootCover ==
  ASSUME Inv, CoverInv, NEW r \in Readers, ListFixedRoot(r) PROVE CoverInv'
<1>1. vol' = vol /\ ReadersInv
  BY DEF ListFixedRoot, Inv
<1>2. PICK got \in Got(1, vol.rootUnits) :
        LET t == [Call("scan", Root) EXCEPT !.walk = ScanEntries(NoWalk, 1, got)]
        IN  Listed(r, t, IF got = 0 THEN {"rootGap"} ELSE {})
  BY DEF ListFixedRoot
<1> DEFINE w == ScanEntries(NoWalk, 1, got)
           t == [Call("scan", Root) EXCEPT !.walk = w]
           u == [t EXCEPT !.op = "listed"]
<1>3. Update(r, u)
  BY <1>2 DEF Listed
<1> HIDE DEF w
<1>4. u.first = 0
  BY DEF Call
<1> HIDE DEF u
<1>5. Complete(u)
  BY <1>4 DEF Complete
<1> QED BY <1>1, <1>3, <1>5, CoverMoves

(* A listing ends with nothing left to visit.                              *)
LEMMA ListedCover ==
  ASSUME Inv, CoverInv, NEW r \in Readers, NEW told, Listed(r, task[r], told), vol' = vol,
         Readable /\ task[r].first # 0 /\ ~task[r].contiguous => \E S : AtEnd(task[r], S)
  PROVE  CoverInv'
<1> DEFINE t == task[r]
           u == [t EXCEPT !.op = "listed"]
<1>1. t \in Task /\ ReadersInv
  BY ReaderGood DEF Inv
<1>2. Update(r, u)
  BY DEF Listed
<1>3. Readable /\ t.first # 0 /\ ~t.contiguous => \E S : AtEnd(t, S)
  OBVIOUS
<1> HIDE DEF t
<1>4. /\ u.op = "listed" /\ u.contiguous = t.contiguous /\ u.walk = t.walk /\ u.first = t.first
  BY <1>1 DEF Task
<1> HIDE DEF u
<1>5. \A S : AtEnd(t, S) => AtEnd(u, S)
  BY <1>4 DEF AtEnd, Behind
<1>6. Complete(u)
  BY <1>3, <1>4, <1>5 DEF Complete
<1> QED BY <1>1, <1>2, <1>6, CoverMoves

(* A walk that has as many clusters behind it as the volume has, or one it *)
(* comes back to, is at its end.                                           *)
LEMMA ScanEnoughCover ==
  ASSUME Inv, CoverInv, NEW r \in Readers, ScanEnough(r) PROVE CoverInv'
<1> DEFINE t == task[r]
<1>1. t \in Task /\ vol \in Volumes /\ vol' = vol /\ Listed(r, t, {})
  BY ReaderGood DEF Inv, SharedInv, ScanEnough
<1>2. ASSUME Readable, t.first # 0, ~t.contiguous PROVE \E S : AtEnd(t, S)
  <2>1. PICK S : AtScan(t, S)
    BY <1>2 DEF CoverInv, Complete, ScanEnough
  <2>2. ValidCluster(t.cluster) /\ S \subseteq Clusters
    BY <1>1, <2>1, ClustersAre DEF AtScan, Behind
  <2>3. ~(t.visited < vol.count)
    BY <1>2, <2>2 DEF ScanEnough, InDirectory, MaxClusters
  <2>4. t.cluster \in S
    <3>1. CASE Cardinality(S) = t.visited
      <4>1. IsFiniteSet(Clusters) /\ Cardinality(Clusters) = vol.count /\ S \in SUBSET Clusters
        BY <1>1, <2>2, ClustersAre
      <4>2. Cardinality(S) <= vol.count /\ (vol.count = Cardinality(S) => Clusters = S)
        BY <4>1, FS_Subset
      <4>3. vol.count \in Nat /\ t.visited \in Nat
        BY <1>1, VolIs DEF Task
      <4>4. Clusters = S
        BY <2>3, <3>1, <4>2, <4>3
      <4> QED BY <2>1, <4>4 DEF AtScan
    <3> QED BY <2>1, <3>1 DEF AtScan
  <2>5. S \cup {t.cluster} = S
    BY <2>4
  <2>6. AtEnd(t, S)
    BY <2>1, <2>5 DEF AtScan, AtEnd
  <2> QED BY <2>6
<1> QED BY <1>1, <1>2, ListedCover

LEMMA HopAheadCover ==
  ASSUME Inv, CoverInv, NEW r \in Readers, HopAhead(r) PROVE CoverInv'
<1> DEFINE t == task[r]
           next == t.cluster + 1
           u == [t EXCEPT !.op = "scan", !.cluster = next]
<1>1. t \in Task /\ ReadersInv /\ vol' = vol /\ t.contiguous
  BY ReaderGood DEF Inv, HopAhead
<1>2. Enter(r, next) \/ Listed(r, t, {})
  BY DEF HopAhead
<1>3. CASE Listed(r, t, {})
  BY <1>1, <1>3, ListedCover
<1>4. CASE Enter(r, next)
  <2>1. Update(r, u)
    BY <1>4 DEF Enter
  <2> HIDE DEF t, next
  <2>2. u.contiguous
    BY <1>1 DEF Task
  <2> HIDE DEF u
  <2>3. Complete(u)
    BY <2>2 DEF Complete
  <2> QED BY <1>1, <2>1, <2>3, CoverMoves
<1> QED BY <1>2, <1>3, <1>4

(* A cluster of a drive that reads is read whole.                          *)
LEMMA WholeCluster ==
  ASSUME vol \in Volumes, Readable, NEW c \in Clusters
  PROVE  /\ Got(ClusterToOffset(c), CS) = {CS} /\ CS \in Nat \ {0}
         /\ ClusterToOffset(c) \in Nat \ {0} /\ ClusterToOffset(c) + CS - 1 <= Units
<1> DEFINE off == ClusterToOffset(c)
<1>1. CS \in Nat \ {0} /\ vol.image \in Nat /\ Units \in Nat /\ DataStart \in Nat \ {0}
  BY SizesHold, VolIs DEF Sizes
<1>2. c \in Nat /\ ValidCluster(c)
  BY ClustersAre
<1>3. 0 \in 0..(CS - 1) /\ CS - 1 \in 0..(CS - 1)
  BY <1>1
<1>4. off \in DataStart..Units /\ off + (CS - 1) \in DataStart..Units
  BY <1>2, <1>3, ClusterFacts
<1> HIDE DEF off
<1>5. off \in Nat \ {0} /\ off + CS - 1 <= Units
  BY <1>1, <1>4
<1>6. Clip(off, CS) = CS
  BY <1>1, <1>5 DEF Clip, Least, Readable
<1>7. Got(off, CS) = {Clip(off, CS)}
  BY DEF Got, Readable
<1> QED BY <1>1, <1>5, <1>6, <1>7 DEF off

(* Its entries are in the listing from then on, and those that were stay.  *)
LEMMA ClusterIsListed ==
  ASSUME vol \in Volumes, Readable, NEW c \in Clusters, NEW w \in Walk
  PROVE  LET v == ScanEntries(w, ClusterToOffset(c), CS) IN
         Holds(v.out, c) /\ \A d : Holds(w.out, d) => Holds(v.out, d)
<1> DEFINE u == ClusterToOffset(c)
           v == ScanEntries(w, u, CS)
<1>1. CS \in Nat \ {0} /\ u \in Nat \ {0} /\ u + CS - 1 <= Units
  BY WholeCluster
<1> HIDE DEF u
<1>2. Grown(w, v, u, CS)
  BY <1>1, ScanGrows
<1> HIDE DEF v
<1>3. v.out \in Seq(Entry) /\ w.out \in Seq(Entry)
  BY <1>2 DEF Grown, Walk
<1>4. DOMAIN v.out = 1..Len(v.out) /\ DOMAIN w.out = 1..Len(w.out)
      /\ Len(v.out) \in Nat /\ Len(w.out) \in Nat
  BY <1>3
<1>5. Holds(v.out, c)
  BY <1>2, <1>4 DEF Grown, Holds, u
<1>6. \A j \in DOMAIN w.out : j \in DOMAIN v.out /\ v.out[j] = w.out[j]
  BY <1>2, <1>4 DEF Grown
<1>7. ASSUME NEW d, Holds(w.out, d) PROVE Holds(v.out, d)
  BY <1>6, <1>7 DEF Holds
<1> QED BY <1>5, <1>7 DEF v, u

LEMMA ScanClusterCover ==
  ASSUME Inv, CoverInv, NEW r \in Readers, ScanCluster(r) PROVE CoverInv'
<1> DEFINE t == task[r]
<1>1. t \in Task /\ vol \in Volumes /\ vol' = vol /\ ReadersInv /\ t.op = "scan"
  BY ReaderGood DEF Inv, SharedInv, ScanCluster
<1>2. PICK got \in Got(ClusterToOffset(t.cluster), CS) :
           IF got = 0 THEN Listed(r, t, {"clusterGap"})
           ELSE /\ Update(r, [t EXCEPT !.op = "hop", !.visited = t.visited + 1,
                     !.walk = ScanEntries(t.walk, ClusterToOffset(t.cluster), got)])
                /\ UNCHANGED <<known, notes>>
  BY DEF ScanCluster
<1>3. t.cluster \in Nat /\ ValidCluster(t.cluster) /\ t.walk \in Walk /\ t.visited \in Nat
  BY <1>1 DEF ScanCluster, InDirectory, Task
<1>4. t.cluster \in Clusters
  BY <1>1, <1>3, ClustersAre
<1>5. Complete(t)
  BY DEF CoverInv
<1>6. CASE got = 0
  <2>1. Readable => FALSE
    BY <1>1, <1>4, <1>6, WholeCluster
  <2>2. Listed(r, task[r], {"clusterGap"})
    BY <1>2, <1>6
  <2> QED BY <1>1, <2>1, <2>2, ListedCover
<1> HIDE DEF t
<1>7. CASE got # 0
  <2> DEFINE v == ScanEntries(t.walk, ClusterToOffset(t.cluster), got)
             u == [t EXCEPT !.op = "hop", !.visited = t.visited + 1, !.walk = v]
  <2>1. Update(r, u)
    BY <1>2, <1>7
  <2> HIDE DEF v
  <2>2. /\ u.op = "hop" /\ u.contiguous = t.contiguous /\ u.first = t.first
        /\ u.cluster = t.cluster /\ u.visited = t.visited + 1 /\ u.walk = v
    BY <1>1 DEF Task
  <2> HIDE DEF u
  <2>3. ASSUME Readable, t.first # 0, ~t.contiguous PROVE \E S : AtHop(u, S)
    <3>1. PICK S : AtScan(t, S)
      BY <1>1, <1>5, <2>3 DEF Complete
    <3> DEFINE T == S \cup {t.cluster}
    <3>2. got = CS
      BY <1>1, <1>4, <2>3, WholeCluster
    <3>3. Holds(v.out, t.cluster) /\ \A d : Holds(t.walk.out, d) => Holds(v.out, d)
      BY <1>1, <1>3, <1>4, <2>3, <3>2, ClusterIsListed DEF v
    <3>4. Behind(u, T)
      BY <1>4, <2>2, <3>1, <3>3 DEF Behind, AtScan
    <3>5. u.cluster \in T /\ u.first \in T
      BY <2>2, <3>1 DEF AtScan
    <3>6. Joined(T \ {u.cluster}, T)
      BY <2>2, <3>1 DEF AtScan, Joined
    <3>7. Joined(T, T) \/ Cardinality(T) = u.visited
      <4>1. CASE t.cluster \in S
        <5>1. T = S
          BY <4>1
        <5> QED BY <3>1, <5>1 DEF AtScan
      <4>2. CASE t.cluster \notin S
        <5>1. Cardinality(S) = t.visited /\ S \in SUBSET Clusters
          BY <3>1, <4>2 DEF AtScan, Behind
        <5>2. IsFiniteSet(S)
          <6>1. IsFiniteSet(Clusters)
            BY <1>1, ClustersAre
          <6> QED BY <5>1, <6>1, FS_Subset
        <5>3. Cardinality(T) = Cardinality(S) + 1
          BY <4>2, <5>2, FS_AddElement
        <5> QED BY <2>2, <5>1, <5>3
      <4> QED BY <4>1, <4>2
    <3> HIDE DEF T
    <3>8. AtHop(u, T)
      BY <3>4, <3>5, <3>6, <3>7 DEF AtHop
    <3> QED BY <3>8
  <2>4. Complete(u)
    BY <2>2, <2>3 DEF Complete
  <2> QED BY <1>1, <2>1, <2>4, CoverMoves
<1> QED BY <1>6, <1>7

(* Where the walk goes on it goes where the FAT says, and where it stops   *)
(* the FAT says nothing new.                                               *)
LEMMA HopChainCover ==
  ASSUME Inv, CoverInv, NEW r \in Readers, HopChain(r) PROVE CoverInv'
<1> DEFINE t == task[r]
<1>1. /\ t \in Task /\ Ordered(t) /\ vol \in Volumes /\ CacheRight(cache) /\ vol' = vol
      /\ ReadersInv /\ t.op = "hop" /\ ~t.contiguous
  BY ReaderGood DEF Inv, SharedInv, HopChain
<1>2. PICK found \in Lookup(t.cluster) :
        IF Ends(FatNext(found.raw)) \/ FatNext(found.raw) = t.cluster
        THEN Listed(r, t, {}) ELSE Enter(r, FatNext(found.raw))
  BY DEF HopChain
<1>3. t.cluster \in Nat /\ ValidCluster(t.cluster)
  BY <1>1 DEF Task, Ordered
<1>4. Complete(t)
  BY DEF CoverInv
<1> DEFINE next == FatNext(found.raw)
<1>5. /\ FatSays(t.cluster, found.raw)
      /\ next \in Nat
      /\ Ends(next) => Breaks(t.cluster)
      /\ ~Ends(next) => ValidCluster(next)
      /\ Readable /\ ~Ends(next) => Linked(t.cluster) /\ next = Link(t.cluster)
  <2> HIDE DEF t
  <2>1. FatSays(t.cluster, found.raw)
    BY <1>1, <1>3, LookupFacts
  <2>2. Readable => ~Mislinked(t.cluster, next)
    BY DEF Mislinked, Readable
  <2> QED BY <1>1, <1>3, <2>1, <2>2, NextFacts
<1> HIDE DEF next
<1>6. Readable => (Breaks(t.cluster) => ~Linked(t.cluster))
  BY DEF Breaks, MayReadZero, Readable
<1>7. CASE Ends(next) \/ next = t.cluster
  <2>1. Listed(r, t, {})
    BY <1>2, <1>7 DEF next
  <2> HIDE DEF t
  <2>2. ASSUME Readable, t.first # 0 PROVE \E S : AtEnd(t, S)
    <3>1. PICK S : AtHop(t, S)
      BY <1>1, <1>4, <2>2 DEF Complete
    <3>2. Linked(t.cluster) => Link(t.cluster) = t.cluster
      BY <1>5, <1>6, <1>7, <2>2
    <3>3. Joined(S, S)
      BY <3>1, <3>2 DEF AtHop, Joined
    <3>4. AtEnd(t, S)
      BY <3>1, <3>3 DEF AtHop, AtEnd
    <3> QED BY <3>4
  <2> QED BY <1>1, <2>1, <2>2, ListedCover DEF t
<1>8. CASE ~(Ends(next) \/ next = t.cluster)
  <2> DEFINE u == [t EXCEPT !.op = "scan", !.cluster = next]
  <2>1. Update(r, u)
    BY <1>2, <1>8 DEF next, Enter
  <2> HIDE DEF t
  <2>2. /\ u.op = "scan" /\ u.contiguous = t.contiguous /\ u.first = t.first
        /\ u.cluster = next /\ u.visited = t.visited /\ u.walk = t.walk
    BY <1>1 DEF Task
  <2> HIDE DEF u
  <2>3. ASSUME Readable, t.first # 0 PROVE \E S : AtScan(u, S)
    <3>1. PICK S : AtHop(t, S)
      BY <1>1, <1>4, <2>3 DEF Complete
    <3>2. Linked(t.cluster) /\ next = Link(t.cluster) /\ next \in Clusters
      BY <1>1, <1>5, <1>8, <2>3, ClustersAre
    <3>3. Behind(u, S) /\ u.first \in S
      BY <2>2, <3>1 DEF AtHop, Behind
    <3>4. Joined(S, S \cup {u.cluster})
      BY <2>2, <3>1, <3>2 DEF AtHop, Joined
    <3>5. u.cluster \in S \/ Cardinality(S) = u.visited
      BY <2>2, <3>1, <3>2 DEF AtHop, Joined
    <3>6. AtScan(u, S)
      BY <2>2, <3>2, <3>3, <3>4, <3>5 DEF AtScan
    <3> QED BY <3>6
  <2>4. Complete(u)
    BY <1>1, <2>2, <2>3 DEF Complete
  <2> QED BY <1>1, <2>1, <2>4, CoverMoves
<1> QED BY <1>7, <1>8

(* Nothing a file is read by touches a listing.                            *)
LEMMA ReadCover ==
  ASSUME Inv, CoverInv, NEW r \in Readers,
         \/ OpenFile(r) \/ ChainStraight(r) \/ ChainFat(r) \/ ChainDone(r)
         \/ SendChunk(r) \/ Pad(r) \/ ReadDone(r) \/ Abort(r)
  PROVE  CoverInv'
<1> DEFINE Away(u) == u.op \notin {"scan", "hop", "listed"}
<1>1. vol' = vol /\ ReadersInv /\ task[r] \in Task
  BY ReaderGood DEF Inv, OpenFile, ChainStraight, ChainFat, ChainDone, SendChunk, Pad, ReadDone, Abort
<1>2. \E u : Update(r, u) /\ Away(u)
  <2>1. CASE OpenFile(r)
    <3>1. PICK n \in known : \E rec \in Reopen(n.id) :
            IF rec = NoRecord THEN Update(r, Call("read", n))
            ELSE IF rec.dir \/ rec.size = 0 THEN Update(r, Call("read", n))
            ELSE Update(r, [Call("chain", n) EXCEPT
                   !.first = rec.first, !.cluster = rec.first, !.size = rec.size,
                   !.contiguous = Straight(n, rec)])
      BY <2>1 DEF OpenFile
    <3>2. PICK rec \in Reopen(n.id) :
            \/ Update(r, Call("read", n))
            \/ Update(r, [Call("chain", n) EXCEPT
                   !.first = rec.first, !.cluster = rec.first, !.size = rec.size,
                   !.contiguous = Straight(n, rec)])
      BY <3>1
    <3>3. Away(Call("read", n))
      BY DEF Call
    <3>4. Away([Call("chain", n) EXCEPT
                   !.first = rec.first, !.cluster = rec.first, !.size = rec.size,
                   !.contiguous = Straight(n, rec)])
      BY DEF Call
    <3> QED BY <3>2, <3>3, <3>4
  <2> DEFINE t == task[r]
             p == Planned(t)
  <2>2. CASE ChainStraight(r) \/ ChainFat(r)
    <3>1. t \in Task /\ InPlace(t) /\ Chained(t) /\ t.op = "chain" /\ InChain(t)
          /\ vol \in Volumes
      BY <1>1, <2>2, ReaderGood DEF ChainStraight, ChainFat, Inv, SharedInv
    <3> HIDE DEF t
    <3>2. p \in Task /\ \E plan : p = [t EXCEPT !.plan = plan]
      BY <3>1, PlannedFacts
    <3> HIDE DEF p
    <3>3. p.op = "chain"
      BY <3>1, <3>2 DEF Task
    <3>4. \A c : [p EXCEPT !.cluster = c].op = "chain"
                 /\ [p EXCEPT !.cluster = c, !.guessed = TRUE].op = "chain"
      BY <3>2, <3>3 DEF Task
    <3>5. \A next : Away(Followed(p, next))
      BY <3>4 DEF Followed
    <3>6. CASE ChainStraight(r)
      <4>1. Update(r, p) \/ Update(r, [p EXCEPT !.cluster = p.cluster + 1])
        BY <3>6 DEF ChainStraight, p, t
      <4> QED BY <3>3, <3>4, <4>1
    <3>7. CASE ChainFat(r)
      <4>1. Update(r, p) \/ \E x : Update(r, Followed(p, FatNext(x)))
        BY <3>7 DEF ChainFat, p, t
      <4> QED BY <3>3, <3>5, <4>1
    <3> QED BY <2>2, <3>6, <3>7
  <2>3. CASE ChainDone(r) \/ Pad(r) \/ ReadDone(r) \/ Abort(r) \/ SendChunk(r)
    <3>1. t \in Task
      BY <1>1
    <3>2. \A sent : [t EXCEPT !.sent = sent].op = t.op
      <4> HIDE DEF t
      <4> QED BY <3>1 DEF Task
    <3>3. \A op : [t EXCEPT !.op = op].op = op
      <4> HIDE DEF t
      <4> QED BY <3>1 DEF Task
    <3>4. CASE ChainDone(r) \/ ReadDone(r) \/ Abort(r)
      <4>1. \E op \in {"stream", "read", "aborted"} : Update(r, [t EXCEPT !.op = op])
        BY <3>4 DEF ChainDone, ReadDone, Abort
      <4> QED BY <3>3, <4>1
    <3>5. CASE Pad(r) \/ SendChunk(r)
      <4>1. t.op = "stream" /\ \E sent : Update(r, [t EXCEPT !.sent = sent])
        BY <3>5 DEF Pad, SendChunk, Sent
      <4> QED BY <3>2, <4>1
    <3> QED BY <2>3, <3>4, <3>5
  <2> QED BY <2>1, <2>2, <2>3
<1>3. PICK u : Update(r, u) /\ Away(u)
  BY <1>2
<1>4. Complete(u)
  BY <1>3, NotListing
<1> QED BY <1>1, <1>3, <1>4, CoverMoves

LEMMA CoverInit == Init => CoverInv
<1> SUFFICES ASSUME Init, NEW r \in Readers PROVE Complete(task[r])
  BY DEF CoverInv
<1>1. task[r] = Call("idle", Root)
  BY DEF Init
<1>2. Call("idle", Root).op = "idle"
  BY DEF Call
<1> QED BY <1>1, <1>2, NotListing

LEMMA CoverStep == Inv /\ CoverInv /\ [Next]_vars => CoverInv'
<1> SUFFICES ASSUME Inv, CoverInv, [Next]_vars PROVE CoverInv'
  OBVIOUS
<1>1. CASE UNCHANGED vars
  BY <1>1 DEF vars, CoverInv, Complete, AtScan, AtHop, AtEnd, Behind, Joined, Holds, Readable,
       Clusters, Wanted, Keepable, Linked, Link, ValidCluster, ClusterToOffset, DataStart, Units
<1>2. CASE Next
  <2>1. PICK r \in Readers : Begin(r) \/ Continue(r) \/ Abort(r)
    BY <1>2 DEF Next
  <2>2. CASE ListRoot(r)
    BY <2>2, ListRootCover
  <2>3. CASE ListFixedRoot(r)
    BY <2>3, ListFixedRootCover
  <2>4. CASE ListDir(r)
    BY <2>4, ListDirCover
  <2>5. CASE ScanCluster(r)
    BY <2>5, ScanClusterCover
  <2>6. CASE ScanEnough(r)
    BY <2>6, ScanEnoughCover
  <2>7. CASE HopAhead(r)
    BY <2>7, HopAheadCover
  <2>8. CASE HopChain(r)
    BY <2>8, HopChainCover
  <2>9. CASE \/ OpenFile(r) \/ ChainStraight(r) \/ ChainFat(r) \/ ChainDone(r)
             \/ SendChunk(r) \/ Pad(r) \/ ReadDone(r) \/ Abort(r)
    BY <2>9, ReadCover
  <2> QED BY <2>1, <2>2, <2>3, <2>4, <2>5, <2>6, <2>7, <2>8, <2>9 DEF Begin, Continue
<1> QED BY <1>1, <1>2

(* The clusters of a chain, link by link.                                  *)
Behinds(f, k) == f[k] \cup {Link(c) : c \in {d \in f[k] : Linked(d)}}

ReachLaw(f, first, n) == f = [k \in 0..n |-> IF k = 0 THEN {first} ELSE Behinds(f, k - 1)]

LEMMA ReachIs ==
  ASSUME NEW first
  PROVE  Reach(first) = (CHOOSE f : ReachLaw(f, first, vol.count))[vol.count]
BY DEF Reach, ReachLaw, Behinds

LEMMA ReachExists ==
  ASSUME NEW first, NEW n \in Nat PROVE \E f : ReachLaw(f, first, n)
<1> DEFINE T == {m \in Nat : ~\E f : ReachLaw(f, first, m)}
<1>1. T = {}
  <2>1. SUFFICES ASSUME T # {} PROVE FALSE
    OBVIOUS
  <2>2. PICK m \in T : \A k \in T : m <= k
    <3>1. T \subseteq Nat
      OBVIOUS
    <3> HIDE DEF T
    <3> QED BY <2>1, <3>1, LeastOf
  <2>3. CASE m = 0
    <3> DEFINE f == [k \in 0..0 |-> {first}]
    <3>1. f = [k \in 0..0 |-> IF k = 0 THEN {first} ELSE Behinds(f, k - 1)]
      OBVIOUS
    <3> HIDE DEF f
    <3>2. ReachLaw(f, first, 0)
      BY <3>1 DEF ReachLaw
    <3> QED BY <2>2, <2>3, <3>2
  <2>4. CASE m # 0
    <3> DEFINE p == m - 1
    <3>1. p \in Nat /\ m = p + 1 /\ p \notin T
      BY <2>2, <2>4
    <3>2. PICK g : ReachLaw(g, first, p)
      BY <3>1
    <3> HIDE DEF p
    <3> DEFINE f == [k \in 0..m |-> IF k = 0 THEN {first} ELSE Behinds(g, k - 1)]
    <3>3. ASSUME NEW k \in 0..p PROVE f[k] = g[k]
      <4>1. g[k] = IF k = 0 THEN {first} ELSE Behinds(g, k - 1)
        BY <3>2 DEF ReachLaw
      <4>2. k \in 0..m
        BY <3>1
      <4> QED BY <4>1, <4>2
    <3>4. ASSUME NEW k \in 0..m PROVE f[k] = IF k = 0 THEN {first} ELSE Behinds(f, k - 1)
      <4>1. CASE k = 0
        BY <4>1
      <4>2. CASE k # 0
        <5>1. k - 1 \in 0..p
          BY <3>1, <4>2
        <5>2. f[k - 1] = g[k - 1]
          BY <3>3, <5>1
        <5>3. f[k] = Behinds(g, k - 1)
          BY <4>2
        <5> HIDE DEF f
        <5> QED BY <4>2, <5>2, <5>3 DEF Behinds
      <4> QED BY <4>1, <4>2
    <3>5. ReachLaw(f, first, m)
      <4>1. DOMAIN f = 0..m /\ f = [k \in DOMAIN f |-> f[k]]
        OBVIOUS
      <4> HIDE DEF f
      <4> QED BY <3>4, <4>1 DEF ReachLaw
    <3> QED BY <2>2, <3>5
  <2> QED BY <2>3, <2>4
<1> QED BY <1>1

(* A set with the first cluster that its links do not leave holds them all. *)
LEMMA ReachWithin ==
  ASSUME vol \in Volumes, NEW first, NEW S, first \in S, Joined(S, S)
  PROVE  Reach(first) \subseteq S
<1> DEFINE f == CHOOSE g : ReachLaw(g, first, vol.count)
<1>1. vol.count \in Nat
  BY VolIs
<1>2. ReachLaw(f, first, vol.count)
  BY <1>1, ReachExists
<1>3. Reach(first) = f[vol.count]
  BY ReachIs
<1> HIDE DEF f
<1>4. \A k \in 0..vol.count : f[k] = IF k = 0 THEN {first} ELSE Behinds(f, k - 1)
  BY <1>2 DEF ReachLaw
<1> DEFINE T == {k \in 0..vol.count : ~(f[k] \subseteq S)}
<1>5. T = {}
  <2>1. SUFFICES ASSUME T # {} PROVE FALSE
    OBVIOUS
  <2>2. PICK k \in T : \A m \in T : k <= m
    <3>1. T \subseteq Nat
      OBVIOUS
    <3> HIDE DEF T
    <3> QED BY <2>1, <3>1, LeastOf
  <2>3. k \in 0..vol.count /\ k # 0
    BY <1>4, <2>2
  <2>4. k - 1 \in 0..vol.count /\ ~(k <= k - 1)
    BY <1>1, <2>3
  <2>5. f[k - 1] \subseteq S
    BY <2>2, <2>4
  <2>6. f[k] = Behinds(f, k - 1)
    BY <1>4, <2>3
  <2>7. f[k] \subseteq S
    BY <2>5, <2>6 DEF Behinds, Joined
  <2> QED BY <2>2, <2>7
<1>6. vol.count \in 0..vol.count
  BY <1>1
<1> QED BY <1>3, <1>5, <1>6

LEMMA CoverHolds == Spec => []CoverInv
<1>1. Spec => []Inv
  BY InvHolds
<1>2. Init => CoverInv
  BY CoverInit
<1>3. Inv /\ CoverInv /\ [Next]_vars => CoverInv'
  BY CoverStep
<1> QED BY <1>1, <1>2, <1>3, PTL DEF Spec

(* On a drive that reads, a listing misses no entry that can be kept in    *)
(* any cluster its chain reaches, also when the chain runs in circles: the *)
(* cap of scanDirChain, one visit for each cluster of the volume, is never *)
(* too small.                                                              *)
THEOREM FatListsEverything == Spec => []ListsEverything
<1>1. Inv /\ CoverInv => ListsEverything
  <2> SUFFICES ASSUME Inv, CoverInv, NEW r \in Readers, task[r].op = "listed",
                      task[r].first # 0, ~task[r].contiguous, Readable,
                      NEW c \in Reach(task[r].first)
               PROVE  Holds(task[r].walk.out, c)
    BY DEF ListsEverything, Readable, Holds, Wanted
  <2>1. PICK S : AtEnd(task[r], S)
    BY DEF CoverInv, Complete
  <2>2. Reach(task[r].first) \subseteq S
    BY <2>1, ReachWithin DEF AtEnd, Inv, SharedInv
  <2> QED BY <2>1, <2>2 DEF AtEnd, Behind
<1>2. Spec => []Inv /\ []CoverInv
  BY InvHolds, CoverHolds
<1> QED BY <1>1, <1>2, PTL
=============================================================================
