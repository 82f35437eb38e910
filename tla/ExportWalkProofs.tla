-------------------------- MODULE ExportWalkProofs --------------------------
(***************************************************************************)
(* Proofs about the export worker, for every volume, destination, bound    *)
(* and interleaving with the cancel flag, and at the end about the dialog  *)
(* that runs it.                                                           *)
(***************************************************************************)
EXTENDS ExportSession, NumberLemmas, SequenceTheorems, FiniteSetTheorems, TLAPS

(* Dropping the last element of a sequence.                                *)
LEMMA FrontLast ==
  ASSUME NEW S, NEW s \in Seq(S), s # <<>>
  PROVE  /\ Front(s) \in Seq(S)
         /\ Len(Front(s)) = Len(s) - 1
         /\ \A i \in 1..(Len(s) - 1) : Front(s)[i] = s[i]
         /\ Last(s) \in S
<1>1. Len(s) \in Nat /\ Len(s) > 0
  OBVIOUS
<1>2. /\ Front(s) \in Seq(S)
      /\ Len(Front(s)) = Len(s) - 1
      /\ \A i \in 1..(Len(s) - 1) : Front(s)[i] = s[i]
  <2> DEFINE n == Len(s) - 1
             t == SubSeq(s, 1, n)
  <2>1. n \in Nat /\ \A i \in 1..n : s[i] \in S
    BY <1>1
  <2>2. /\ t \in Seq(S)
        /\ Len(t) = IF 1 <= n THEN n - 1 + 1 ELSE 0
        /\ \A i \in 1..(n - 1 + 1) : t[i] = s[1 + i - 1]
    BY <2>1, SubSeqProperties
  <2>3. Front(s) = t
    BY DEF Front
  <2> HIDE DEF t, n
  <2>4. Len(t) = n /\ \A i \in 1..n : t[i] = s[i]
    <3>1. n - 1 + 1 = n /\ (1 <= n \/ n = 0)
      BY <2>1
    <3>2. ASSUME NEW i \in 1..n PROVE 1 + i - 1 = i
      OBVIOUS
    <3> QED BY <2>2, <3>1, <3>2
  <2> QED BY <2>2, <2>3, <2>4 DEF n
<1>3. Last(s) \in S
  BY <1>1 DEF Last
<1> QED BY <1>2, <1>3

LEMMA FrontType ==
  ASSUME NEW S, NEW s \in Seq(S)
  PROVE  Front(s) \in Seq(S)
<1>1. CASE s = <<>>
  <2>1. Len(s) - 1 \in Int /\ \A i \in 1..(Len(s) - 1) : s[i] \in S
    BY <1>1
  <2> QED BY <2>1, SubSeqProperties DEF Front
<1>2. CASE s # <<>>
  BY <1>2, FrontLast
<1> QED BY <1>1, <1>2

LEMMA AppendLast ==
  ASSUME NEW S, NEW s \in Seq(S), NEW e \in S
  PROVE  /\ Append(s, e) \in Seq(S)
         /\ Len(Append(s, e)) = Len(s) + 1
         /\ \A i \in 1..Len(s) : Append(s, e)[i] = s[i]
         /\ Append(s, e)[Len(s) + 1] = e
  OBVIOUS

(* A volume's listings and identities are of the right type.               *)
LEMMA VolumeType ==
  ASSUME vol \in Volumes
  PROVE  /\ vol.roots \in Seq(Entry)
         /\ vol.list \in [Dirs -> Seq(Entry)]
         /\ vol.ident \in [Dirs -> Nat]
         /\ vol.size \in [Files -> Nat]
         /\ vol.bad \subseteq Files /\ vol.rsrc \subseteq Files
  BY SourceAssumption DEF Volume

-----------------------------------------------------------------------------
(* The destination stays a disk.                                           *)

LEMMA ObjType ==
  ASSUME NEW kind \in {"dir", "data", "rsrc", "hash"},
         NEW node \in Files \cup {Foreign}, NEW w \in BOOLEAN
  PROVE  Obj(kind, node, w) \in Object
  BY DEF Obj, Object

LEMMA MtimeType ==
  ASSUME NEW o \in Object, NEW t \in Dirs \cup Files \cup {Foreign, Now}
  PROVE  [o EXCEPT !.mtime = t] \in Object
  BY DEF Object

LEMMA TouchDisk ==
  ASSUME NEW d, IsDisk(d), NEW p
  PROVE  IsDisk(Touch(d, p)) /\ DOMAIN Touch(d, p) = DOMAIN d
  BY MtimeType DEF Touch, IsDisk, IsDir

LEMMA PutDisk ==
  ASSUME NEW d, IsDisk(d), NEW p \in Path, NEW o \in Object
  PROVE  IsDisk(Put(d, p, o)) /\ DOMAIN Put(d, p, o) = DOMAIN d \cup {p}
<1> DEFINE e == IF Exists(d, p) THEN d ELSE Touch(d, Front(p))
<1>1. IsDisk(e) /\ DOMAIN e = DOMAIN d
  BY TouchDisk
<1>2. Put(d, p, o) = [q \in DOMAIN e \cup {p} |-> IF q = p THEN o ELSE e[q]]
  BY DEF Put
<1> QED BY <1>1, <1>2 DEF IsDisk

LEMMA RemovedDisk ==
  ASSUME NEW d, IsDisk(d), NEW p
  PROVE  IsDisk(Removed(d, p))
  BY TouchDisk DEF Removed, IsDisk

LEMMA MkPathDisk ==
  ASSUME NEW d, IsDisk(d), NEW p \in Path
  PROVE  IsDisk(MkPath(d, p))
  BY PutDisk, ObjType DEF MkPath, DirObj

LEMMA StampDisk ==
  ASSUME NEW d, IsDisk(d), NEW p, NEW node \in Dirs \cup Files
  PROVE  IsDisk(Stamp(d, p, node))
  BY MtimeType DEF Stamp, IsDisk, Exists

LEMMA SidecarDisk ==
  ASSUME NEW d, IsDisk(d), NEW p \in Path, NEW node \in Files,
         NEW kind \in {"rsrc", "hash"}
  PROVE  IsDisk(Sidecar(d, p, kind, node))
  BY PutDisk, ObjType DEF Sidecar

-----------------------------------------------------------------------------
(* The stack.                                                              *)

LEMMA RestType ==
  ASSUME NEW f \in Frame, NEW r \in Seq(Entry)
  PROVE  /\ [f EXCEPT !.rest = r] \in Frame
         /\ [f EXCEPT !.rest = r].ident = f.ident /\ [f EXCEPT !.rest = r].path = f.path
<1> DEFINE g == [f EXCEPT !.rest = r]
<1> USE DEF Frame
<1>1. g = [dir |-> f.dir, path |-> f.path, ident |-> f.ident, rest |-> r]
  OBVIOUS
<1>2. f.dir \in Dirs /\ f.path \in Path /\ f.ident \in Nat
  OBVIOUS
<1> QED BY <1>1, <1>2

(* Moving past an entry changes neither the open directories nor types.    *)
LEMMA ConsumedFrames ==
  ASSUME stack \in Seq(Frame), jobs \in Seq(Entry), Pending # <<>>
  PROVE  /\ Head(Pending) \in Entry
         /\ Consumed \in Seq(Frame)
         /\ Len(Consumed) = Len(stack)
         /\ \A i \in DOMAIN stack : /\ Consumed[i].ident = stack[i].ident
                                    /\ Consumed[i].path = stack[i].path
         /\ stack = <<>> => Tail(jobs) \in Seq(Entry)
<1>1. CASE stack = <<>>
  BY <1>1 DEF Pending, Consumed
<1>2. CASE stack # <<>>
  <2>1. /\ Front(stack) \in Seq(Frame) /\ Len(Front(stack)) = Len(stack) - 1
        /\ \A i \in 1..(Len(stack) - 1) : Front(stack)[i] = stack[i]
        /\ Last(stack) \in Frame
    BY <1>2, FrontLast
  <2>2. Last(stack).rest \in Seq(Entry) /\ Last(stack).rest # <<>>
    BY <2>1, <1>2 DEF Frame, Pending
  <2> DEFINE top == [Last(stack) EXCEPT !.rest = Tail(@)]
  <2>3. top \in Frame /\ top.ident = Last(stack).ident /\ top.path = Last(stack).path
    <3>1. Tail(Last(stack).rest) \in Seq(Entry)
      BY <2>2
    <3> QED BY <2>1, <3>1, RestType
  <2>4. Consumed = Append(Front(stack), top)
    BY <1>2 DEF Consumed
  <2>5. Len(stack) \in Nat /\ Len(stack) > 0 /\ DOMAIN stack = 1..Len(stack)
    BY <1>2
  <2> HIDE DEF top
  <2>6. Last(stack) = stack[Len(stack)]
    BY DEF Last
  <2>7. /\ Consumed \in Seq(Frame)
        /\ Len(Consumed) = Len(stack)
        /\ Consumed[Len(stack)] = top
        /\ \A i \in 1..(Len(stack) - 1) : Consumed[i] = stack[i]
    <3> DEFINE f == Front(stack)
    <3>1. f \in Seq(Frame) /\ Len(f) = Len(stack) - 1
      BY <2>1
    <3>2. /\ Append(f, top) \in Seq(Frame)
          /\ Len(Append(f, top)) = Len(f) + 1
          /\ \A i \in 1..Len(f) : Append(f, top)[i] = f[i]
          /\ Append(f, top)[Len(f) + 1] = top
      BY <3>1, <2>3, AppendLast
    <3>3. Len(f) + 1 = Len(stack)
      BY <3>1, <2>5
    <3> QED BY <2>1, <2>4, <3>1, <3>2, <3>3
  <2>8. Head(Pending) \in Entry
    BY <1>2, <2>2 DEF Pending
  <2>9. ASSUME NEW i \in DOMAIN stack
        PROVE  Consumed[i].ident = stack[i].ident /\ Consumed[i].path = stack[i].path
    BY <2>3, <2>5, <2>6, <2>7
  <2> QED BY <1>2, <2>7, <2>8, <2>9
<1> QED BY <1>1, <1>2

(* LoopFree depends on the frames' identities only.                        *)
LEMMA SameIdents ==
  ASSUME NEW s \in Seq(Frame), NEW t \in Seq(Frame), NEW a \in Seq(Nat),
         Len(t) = Len(s), \A i \in DOMAIN s : t[i].ident = s[i].ident
  PROVE  /\ KnownOnce(s) => KnownOnce(t)
         /\ Matches(a, s) => Matches(a, t)
<1>1. DOMAIN t = DOMAIN s
  OBVIOUS
<1>2. KnownOnce(s) => KnownOnce(t)
  BY <1>1 DEF KnownOnce
<1>3. ASSUME Matches(a, s) PROVE Matches(a, t)
  <2>1. PICK at \in [DOMAIN a -> DOMAIN s] :
          /\ \A k, l \in DOMAIN a : k < l => at[k] < at[l]
          /\ \A k \in DOMAIN a : a[k] = s[at[k]].ident
          /\ {at[k] : k \in DOMAIN a} = {i \in DOMAIN s : s[i].ident # 0}
    BY <1>3 DEF Matches
  <2>2. at \in [DOMAIN a -> DOMAIN t]
    BY <1>1
  <2>3. \A k \in DOMAIN a : a[k] = t[at[k]].ident
    BY <2>1
  <2>4. {i \in DOMAIN s : s[i].ident # 0} = {i \in DOMAIN t : t[i].ident # 0}
    BY <1>1
  <2> QED BY <2>1, <2>2, <2>3, <2>4 DEF Matches
<1> QED BY <1>2, <1>3

(* Opening a directory whose identity is unknown or not on the path.       *)
LEMMA PushLoopFree ==
  ASSUME NEW s \in Seq(Frame), NEW a \in Seq(Nat), NEW f \in Frame,
         KnownOnce(s), Matches(a, s),
         f.ident # 0 => f.ident \notin Range(a)
  PROVE  LET b == IF f.ident # 0 THEN Append(a, f.ident) ELSE a
         IN  KnownOnce(Append(s, f)) /\ Matches(b, Append(s, f)) /\ b \in Seq(Nat)
<1> DEFINE t == Append(s, f)
           n == Len(s)
           b == IF f.ident # 0 THEN Append(a, f.ident) ELSE a
<1>1. PICK at \in [DOMAIN a -> DOMAIN s] :
        /\ \A k, l \in DOMAIN a : k < l => at[k] < at[l]
        /\ \A k \in DOMAIN a : a[k] = s[at[k]].ident
        /\ {at[k] : k \in DOMAIN a} = {i \in DOMAIN s : s[i].ident # 0}
  BY DEF Matches
<1>2. /\ n \in Nat /\ DOMAIN s = 1..n /\ DOMAIN t = 1..(n + 1)
      /\ t[n + 1] = f /\ \A i \in 1..n : t[i] = s[i]
  BY AppendLast
<1>3. Len(a) \in Nat /\ DOMAIN a = 1..Len(a)
  OBVIOUS
<1>4. f.ident \in Nat
  BY DEF Frame
<1>5. b \in Seq(Nat)
  BY <1>4
<1>6. ASSUME NEW i \in 1..n, s[i].ident = f.ident PROVE f.ident = 0
  <2> SUFFICES ASSUME f.ident # 0 PROVE FALSE
    OBVIOUS
  <2>1. PICK k \in DOMAIN a : at[k] = i
    BY <1>1, <1>2, <1>6
  <2>2. a[k] = f.ident
    BY <1>1, <2>1, <1>6
  <2> QED BY <2>1, <2>2 DEF Range
<1> HIDE DEF t, n
<1>7. KnownOnce(t)
  BY <1>2, <1>6 DEF KnownOnce
<1>8. CASE f.ident = 0
  <2>1. b = a /\ at \in [DOMAIN a -> DOMAIN t]
    BY <1>2, <1>8
  <2>2. {i \in DOMAIN s : s[i].ident # 0} = {i \in DOMAIN t : t[i].ident # 0}
    BY <1>2, <1>8
  <2>3. \A k \in DOMAIN a : a[k] = t[at[k]].ident
    BY <1>1, <1>2
  <2>4. Matches(a, t)
    BY <1>1, <2>1, <2>2, <2>3 DEF Matches
  <2> QED BY <1>5, <1>7, <2>1, <2>4 DEF t
<1>9. CASE f.ident # 0
  <2> DEFINE m == Len(a) + 1
             up == [k \in 1..m |-> IF k = m THEN n + 1 ELSE at[k]]
  <2>1. /\ b = Append(a, f.ident) /\ DOMAIN b = 1..m
        /\ b[m] = f.ident /\ \A k \in 1..Len(a) : b[k] = a[k]
    BY <1>3, <1>4, <1>9, AppendLast
  <2> HIDE DEF b
  <2>4. m \in 1..m /\ 1..m = (1..Len(a)) \cup {m} /\ \A k \in 1..Len(a) : k < m
    BY <1>3
  <2> HIDE DEF m
  <2>2. ASSUME NEW k \in 1..Len(a) PROVE at[k] \in 1..n /\ up[k] = at[k]
    <3>1. k \in 1..m /\ k # m
      BY <1>3, <2>4
    <3>2. at[k] \in 1..n
      BY <1>1, <1>2, <1>3
    <3> QED BY <3>1, <3>2
  <2>3. up[m] = n + 1
    BY <2>4
  <2>6. up \in [DOMAIN b -> DOMAIN t]
    <3>1. ASSUME NEW k \in 1..m PROVE up[k] \in 1..(n + 1)
      <4>1. CASE k = m
        BY <4>1, <1>2, <2>3
      <4>2. CASE k # m
        <5>1. k \in 1..Len(a)
          BY <4>2, <2>4
        <5>2. at[k] \in 1..n /\ up[k] = at[k]
          BY <5>1, <2>2
        <5> QED BY <5>2, <1>2
      <4> QED BY <4>1, <4>2
    <3>2. DOMAIN up = 1..m
      OBVIOUS
    <3> QED BY <1>2, <2>1, <3>1, <3>2
  <2> HIDE DEF up
  <2>7. ASSUME NEW k \in DOMAIN b, NEW l \in DOMAIN b, k < l
        PROVE  up[k] < up[l]
    <3>1. k \in 1..Len(a)
      BY <1>3, <2>1, <2>4, <2>7
    <3>2. up[k] = at[k] /\ at[k] \in 1..n
      BY <3>1, <2>2
    <3>3. CASE l = m
      BY <3>2, <3>3, <1>2, <2>3
    <3>4. CASE l # m
      <4>1. l \in 1..Len(a)
        BY <3>4, <2>1, <2>4
      <4>2. up[l] = at[l]
        BY <4>1, <2>2
      <4> QED BY <4>1, <4>2, <3>1, <3>2, <1>1, <1>3, <2>7
    <3> QED BY <3>3, <3>4
  <2>8. \A k \in DOMAIN b : b[k] = t[up[k]].ident
    BY <1>1, <1>2, <1>3, <2>1, <2>2, <2>3, <2>4
  <2>9. {up[k] : k \in DOMAIN b} = {i \in DOMAIN t : t[i].ident # 0}
    <3>1. ASSUME NEW k \in DOMAIN b PROVE up[k] \in DOMAIN t /\ t[up[k]].ident # 0
      <4>1. CASE k = m
        BY <4>1, <1>2, <1>9, <2>3
      <4>2. CASE k # m
        BY <4>2, <1>1, <1>2, <1>3, <2>1, <2>2, <2>4
      <4> QED BY <4>1, <4>2
    <3>2. ASSUME NEW i \in DOMAIN t, t[i].ident # 0
          PROVE  \E k \in DOMAIN b : up[k] = i
      <4>1. CASE i = n + 1
        BY <4>1, <2>1, <2>3, <2>4
      <4>2. CASE i # n + 1
        <5>1. i \in 1..n /\ s[i].ident # 0
          BY <4>2, <1>2, <3>2
        <5>2. PICK k \in DOMAIN a : at[k] = i
          BY <5>1, <1>1, <1>2
        <5> QED BY <5>2, <1>3, <2>1, <2>2, <2>4
      <4> QED BY <4>1, <4>2
    <3> QED BY <3>1, <3>2
  <2>10. Matches(b, t)
    BY <2>6, <2>7, <2>8, <2>9 DEF Matches
  <2> QED BY <1>5, <1>7, <2>10 DEF t, b
<1> QED BY <1>8, <1>9

(* Leaving a directory.                                                    *)
LEMMA PopLoopFree ==
  ASSUME NEW s \in Seq(Frame), NEW a \in Seq(Nat), s # <<>>,
         KnownOnce(s), Matches(a, s)
  PROVE  LET b == IF Last(s).ident # 0 THEN Front(a) ELSE a
         IN  KnownOnce(Front(s)) /\ Matches(b, Front(s)) /\ b \in Seq(Nat)
<1> DEFINE t == Front(s)
           n == Len(s)
           b == IF Last(s).ident # 0 THEN Front(a) ELSE a
<1>1. PICK at \in [DOMAIN a -> DOMAIN s] :
        /\ \A k, l \in DOMAIN a : k < l => at[k] < at[l]
        /\ \A k \in DOMAIN a : a[k] = s[at[k]].ident
        /\ {at[k] : k \in DOMAIN a} = {i \in DOMAIN s : s[i].ident # 0}
  BY DEF Matches
<1>2. n \in Nat /\ n > 0 /\ DOMAIN s = 1..n /\ Last(s) = s[n]
  BY DEF Last
<1>3. /\ t \in Seq(Frame) /\ Len(t) = n - 1
      /\ \A i \in 1..(n - 1) : t[i] = s[i]
  BY FrontLast
<1>4. DOMAIN t = 1..(n - 1)
  BY <1>3
<1>5. Len(a) \in Nat /\ DOMAIN a = 1..Len(a)
  OBVIOUS
<1> HIDE DEF t, n
<1>6. KnownOnce(t)
  <2> SUFFICES ASSUME NEW i \in DOMAIN t, NEW j \in DOMAIN t,
                      t[i].ident = t[j].ident, i # j
               PROVE  t[i].ident = 0
    BY DEF KnownOnce
  <2>1. i \in DOMAIN s /\ j \in DOMAIN s
    BY <1>2, <1>4
  <2>2. t[i] = s[i] /\ t[j] = s[j]
    BY <1>3, <1>4
  <2> QED BY <2>1, <2>2 DEF KnownOnce
<1>7. CASE Last(s).ident = 0
  <2>1. \A k \in DOMAIN a : at[k] \in DOMAIN t
    <3> SUFFICES ASSUME NEW k \in DOMAIN a PROVE at[k] \in DOMAIN t
      OBVIOUS
    <3>1. at[k] \in 1..n /\ s[at[k]].ident # 0
      BY <1>1, <1>2
    <3> QED BY <3>1, <1>2, <1>4, <1>7
  <2>2. at \in [DOMAIN a -> DOMAIN t]
    BY <2>1, <1>1
  <2>3. {i \in DOMAIN s : s[i].ident # 0} = {i \in DOMAIN t : t[i].ident # 0}
    BY <1>2, <1>3, <1>4, <1>7
  <2>4. \A k \in DOMAIN a : a[k] = t[at[k]].ident
    BY <2>1, <1>1, <1>3, <1>4
  <2>5. Matches(a, t)
    BY <1>1, <2>2, <2>3, <2>4 DEF Matches
  <2> QED BY <1>6, <1>7, <2>5 DEF t
<1>8. CASE Last(s).ident # 0
  <2> DEFINE m == Len(a) - 1
             dn == [k \in 1..m |-> at[k]]
  <2>1. PICK top \in DOMAIN a : at[top] = n
    BY <1>1, <1>2, <1>8
  <2>2. top = Len(a)
    <3> SUFFICES ASSUME top < Len(a) PROVE FALSE
      BY <1>5
    <3>1. top + 1 \in DOMAIN a
      BY <1>5
    <3>2. at[top] < at[top + 1] /\ at[top + 1] \in 1..n
      BY <3>1, <1>1, <1>2, <1>5
    <3> QED BY <3>2, <2>1, <1>2
  <2>3. a # <<>>
    BY <2>1
  <2>4. /\ b = Front(a) /\ b \in Seq(Nat) /\ Len(b) = m
        /\ \A k \in 1..m : b[k] = a[k]
    BY <1>8, <2>3, FrontLast
  <2>5. DOMAIN b = 1..m /\ m \in Nat /\ \A k \in 1..m : k \in DOMAIN a /\ k < Len(a)
    <3>1. m \in Nat
      BY <1>5, <2>1
    <3>2. DOMAIN b = 1..Len(b)
      BY <2>4
    <3>3. \A k \in 1..m : k \in DOMAIN a /\ k < Len(a)
      BY <1>5
    <3> QED BY <3>1, <3>2, <3>3, <2>4
  <2> HIDE DEF b
  <2>6. ASSUME NEW k \in 1..m PROVE at[k] \in 1..(n - 1)
    <3>1. at[k] < at[top] /\ at[k] \in 1..n
      BY <1>1, <1>2, <2>1, <2>2, <2>5
    <3> QED BY <3>1, <2>1, <1>2
  <2> HIDE DEF m
  <2>7. dn \in [DOMAIN b -> DOMAIN t]
    BY <2>5, <2>6, <1>4
  <2>8. \A k, l \in DOMAIN b : k < l => dn[k] < dn[l]
    BY <1>1, <2>5
  <2>9. \A k \in DOMAIN b : b[k] = t[dn[k]].ident
    BY <1>1, <1>3, <2>4, <2>5, <2>6
  <2>10. {dn[k] : k \in DOMAIN b} = {i \in DOMAIN t : t[i].ident # 0}
    <3>1. ASSUME NEW k \in DOMAIN b PROVE dn[k] \in DOMAIN t /\ t[dn[k]].ident # 0
      <4>1. at[k] \in 1..(n - 1) /\ s[at[k]].ident # 0
        BY <1>1, <2>5, <2>6
      <4> QED BY <4>1, <1>3, <1>4, <2>5
    <3>2. ASSUME NEW i \in DOMAIN t, t[i].ident # 0
          PROVE  \E k \in DOMAIN b : dn[k] = i
      <4>1. i \in DOMAIN s /\ s[i].ident # 0 /\ i # n
        BY <1>2, <1>3, <1>4, <3>2
      <4>2. PICK k \in DOMAIN a : at[k] = i
        BY <4>1, <1>1
      <4>3. k # Len(a)
        BY <4>1, <4>2, <2>1, <2>2
      <4>4. k \in 1..m
        BY <4>3, <1>5 DEF m
      <4>5. dn[k] = at[k]
        BY <4>4
      <4> QED BY <4>2, <4>4, <4>5, <2>5
    <3> HIDE DEF dn
    <3> QED BY <3>1, <3>2
  <2>11. Matches(b, t)
    BY <2>7, <2>8, <2>9, <2>10 DEF Matches
  <2> QED BY <1>6, <2>4, <2>11 DEF t, b
<1> QED BY <1>7, <1>8, <1>2 DEF Frame

-----------------------------------------------------------------------------
(* Type correctness.                                                       *)

LEMMA OutPathType ==
  ASSUME TypeOK, Pending # <<>>
  PROVE  DestDir \in Path /\ OutPath \in Path /\ OutPath # <<>>
         /\ Head(Pending) \in Entry
<1>1. stack \in Seq(Frame) /\ jobs \in Seq(Entry)
  BY DEF TypeOK
<1>2. DestDir \in Path
  <2>1. CASE stack = <<>>
    BY <2>1 DEF DestDir, Path
  <2>2. CASE stack # <<>>
    <3>1. Last(stack) \in Frame
      BY <2>2, <1>1, FrontLast
    <3>2. Last(stack).path \in Path
      BY <3>1 DEF Frame
    <3> QED BY <2>2, <3>2 DEF DestDir
  <2> QED BY <2>1, <2>2
<1>3. Head(Pending) \in Entry
  BY <1>1, ConsumedFrames
<1>4. San(Head(Pending).name) \in DestName
  BY <1>3, NameAssumption DEF Entry
<1>5. OutPath \in Path /\ Len(OutPath) = Len(DestDir) + 1
  BY <1>2, <1>4, AppendLast DEF OutPath, Path
<1>6. OutPath # <<>>
  BY <1>2, <1>5 DEF Path
<1> QED BY <1>2, <1>3, <1>5, <1>6

LEMMA SiblingType ==
  ASSUME NEW p \in Path, p # <<>>, NEW c \in DestName
  PROVE  Sibling(p, c) \in Path /\ Last(p) \in DestName /\ Sibling(p, c) # <<>>
<1>1. Front(p) \in Seq(DestName) /\ Last(p) \in DestName
  BY FrontLast DEF Path
<1>2. Append(Front(p), c) \in Seq(DestName) /\ Len(Append(Front(p), c)) = Len(Front(p)) + 1
  BY <1>1, AppendLast
<1>3. Append(Front(p), c) # <<>>
  <2>1. Len(Front(p)) \in Nat
    BY <1>1
  <2>2. Len(Append(Front(p), c)) # 0
    BY <1>2, <2>1
  <2> QED BY <2>2
<1> QED BY <1>1, <1>2, <1>3 DEF Sibling, Path

LEMMA CandidateType ==
  ASSUME TypeOK, Pending # <<>>, NEW p \in Candidates
  PROVE  p \in Path /\ p # <<>>
<1>1. CASE p = OutPath
  BY <1>1, OutPathType
<1>2. CASE p # OutPath
  <2>1. PICK i \in 1..MaxSuffix : p = Sibling(OutPath, Suffixed(Last(OutPath), i))
    BY <1>2 DEF Candidates
  <2>2. OutPath \in Path /\ OutPath # <<>>
    BY OutPathType
  <2>3. Last(OutPath) \in DestName
    BY <2>2, FrontLast DEF Path
  <2>4. Suffixed(Last(OutPath), i) \in DestName
    BY <2>3, NameAssumption
  <2> QED BY <2>1, <2>2, <2>4, SiblingType
<1> QED BY <1>1, <1>2

(* The part of TypeOK the walk's own variables make up.                    *)
LEMMA ConsumeType ==
  ASSUME TypeOK, Pending # <<>>, Consume
  PROVE  stack' \in Seq(Frame) /\ jobs' \in Seq(Entry)
  BY ConsumedFrames DEF TypeOK, Consume

(* Until a file is dropped or has its sidecars, it is on the destination.  *)
StreamingFile ==
  pc \in {"stream", "keep"} =>
    /\ cur.node \in Files
    /\ cur.out # <<>> /\ cur.out \in DOMAIN dest /\ dest[cur.out].kind = "data"

LEMMA TypeInit == Init => TypeOK
<1> SUFFICES ASSUME Init PROVE TypeOK
  OBVIOUS
<1>1. vol.roots \in Seq(Entry)
  BY VolumeType DEF Init
<1>2. IsDisk(dest)
  BY DestinationAssumption DEF Init
<1>3. NoFile \in Stream
  BY DEF NoFile, Stream, Path
<1>4. jobs \in Seq(Entry) /\ cur \in Stream
  BY <1>1, <1>3 DEF Init
<1>5. stack \in Seq(Frame) /\ ancestors \in Seq(Nat)
  BY DEF Init
<1> QED BY <1>2, <1>4, <1>5 DEF Init, TypeOK, Control

(* The sidecars of a file on a destination that is a tree leave it one.    *)
LEMMA SidecarsDisk ==
  ASSUME TypeOK, cur.out # <<>>, cur.node \in Files, NEW d, IsDisk(d)
  PROVE  IsDisk(WithRsrc(d, cur.node)) /\ IsDisk(WithHash(d, cur.node))
<1>1. cur.out \in Path
  BY DEF TypeOK, Stream
<1>2. Last(cur.out) \in DestName
  BY <1>1, FrontLast DEF Path
<1>3. RsrcName(Last(cur.out)) \in DestName /\ HashName(Last(cur.out)) \in DestName
  BY <1>2, NameAssumption
<1>4. /\ Sibling(cur.out, RsrcName(Last(cur.out))) \in Path
      /\ Sibling(cur.out, HashName(Last(cur.out))) \in Path
  BY <1>1, <1>3, SiblingType
<1>5. IsDisk(WithRsrc(d, cur.node))
  BY <1>4, SidecarDisk, StampDisk DEF WithRsrc
<1>6. IsDisk(WithHash(d, cur.node))
  BY <1>4, SidecarDisk DEF WithHash
<1> QED BY <1>5, <1>6

LEMMA TypeStep ==
  ASSUME TypeOK, StreamingFile, [Next]_vars
  PROVE  TypeOK'
<1> USE DEF TypeOK
<1>1. CASE RefuseDir
  BY <1>1, ConsumeType DEF RefuseDir, Visiting, Control
<1>2. CASE OpenDir
  <2> DEFINE d == Head(Pending).node
  <2>1. Pending # <<>> /\ d \in Dirs /\ ~Refused(d)
    BY <1>2 DEF OpenDir, Visiting
  <2>2. Ident(d) \in Nat /\ vol.list[d] \in Seq(Entry)
    BY <2>1, VolumeType DEF Ident
  <2>3. OutPath \in Path
    BY <2>1, OutPathType
  <2> DEFINE f == [dir |-> d, path |-> OutPath, ident |-> Ident(d), rest |-> vol.list[d]]
  <2>4. f \in Frame
    BY <2>1, <2>2, <2>3 DEF Frame
  <2>5. Consumed \in Seq(Frame) /\ (stack = <<>> => Tail(jobs) \in Seq(Entry))
    BY <2>1, ConsumedFrames
  <2>6. stack' = Append(Consumed, f) /\ ancestors' = Pushed(d)
        /\ dest' = MkPath(dest, OutPath)
    BY <1>2 DEF OpenDir
  <2> HIDE DEF f, d
  <2>7. stack' \in Seq(Frame)
    BY <2>4, <2>5, <2>6, AppendLast
  <2>8. ancestors' \in Seq(Nat)
    BY <2>2, <2>6 DEF Pushed
  <2>9. IsDisk(dest')
    BY <2>3, <2>6, MkPathDisk
  <2>10. jobs' \in Seq(Entry)
    BY <1>2, <2>5 DEF OpenDir
  <2> QED BY <1>2, <2>7, <2>8, <2>9, <2>10 DEF OpenDir, Late, Control
<1>3. CASE LeaveDir
  <2>1. stack # <<>> /\ Last(stack) \in Frame /\ Front(stack) \in Seq(Frame)
    BY <1>3, FrontLast DEF LeaveDir
  <2>2. IsDisk(dest')
    BY <1>3, <2>1, StampDisk DEF LeaveDir, Frame
  <2>3. ancestors' \in Seq(Nat)
    BY <1>3, FrontType DEF LeaveDir, Popped
  <2> QED BY <1>3, <2>1, <2>2, <2>3 DEF LeaveDir, counters, Control
<1>4. CASE Unwind
  <2>1. stack # <<>> /\ Last(stack) \in Frame /\ Front(stack) \in Seq(Frame)
    BY <1>4, FrontLast DEF Unwind
  <2>2. ancestors' \in Seq(Nat)
    BY <1>4, FrontType DEF Unwind, Popped
  <2> QED BY <1>4, <2>1, <2>2 DEF Unwind, counters, Control
<1>5. CASE Finish
  BY <1>5 DEF Finish, walkVars, counters, Finished, Control
<1>6. CASE SkipFile
  BY <1>6, ConsumeType DEF SkipFile, Visiting, Control
<1>7. CASE OpenFile
  <2>1. Pending # <<>> /\ Head(Pending).node \in Files
    BY <1>7 DEF OpenFile, Visiting
  <2>2. PICK p \in Candidates :
          /\ dest' = Put(dest, p, Obj("data", Head(Pending).node, FALSE))
          /\ cur' = [node |-> Head(Pending).node, out |-> p,
                     left |-> vol.size[Head(Pending).node], ok |-> TRUE]
    BY <1>7 DEF OpenFile
  <2>3. p \in Path
    BY <2>1, CandidateType
  <2>4. IsDisk(dest')
    BY <2>1, <2>2, <2>3, PutDisk, ObjType
  <2>5. vol.size[Head(Pending).node] \in Nat
    BY <2>1, VolumeType
  <2>6. cur' \in Stream
    BY <2>1, <2>2, <2>3, <2>5 DEF Stream
  <2>7. late' \in Nat /\ pc' \in Control
    BY <1>7 DEF OpenFile, Late, Control
  <2> QED BY <1>7, <2>1, <2>4, <2>6, <2>7, ConsumeType DEF OpenFile
<1>8. CASE OpenFails
  BY <1>8, ConsumeType DEF OpenFails, Visiting, Control
<1>9. CASE WriteChunk
  <2>1. cur' \in Stream
    <3>1. PICK refused \in BOOLEAN :
            cur' = [cur EXCEPT !.left = @ - 1, !.ok = ~refused /\ ~cancel]
      BY <1>9 DEF WriteChunk
    <3>2. cur.left - 1 \in Nat /\ (~refused /\ ~cancel) \in BOOLEAN
      BY <1>9 DEF WriteChunk, Stream
    <3>3. cur \in Stream
      OBVIOUS
    <3> QED BY <3>1, <3>2, <3>3 DEF Stream
  <2> QED BY <1>9, <2>1 DEF WriteChunk, walkVars, counters
<1>10. CASE ReadFails
  <2>1. cur' \in Stream
    BY <1>10 DEF ReadFails, Stream
  <2> QED BY <1>10, <2>1 DEF ReadFails, walkVars, counters
<1>11. CASE Throw
  <2>1. NoFile \in Stream /\ late' \in Nat /\ files' \in Nat
    BY <1>11 DEF Throw, ThrowInFile, ThrowInDir, Late, NoFile, Stream, Path
  <2>2. CASE ThrowInFile
    <3>1. cur.out # <<>> /\ cur.node \in Files
      BY <2>2 DEF ThrowInFile, StreamingFile
    <3>2. IsDisk(dest') /\ cur' \in Stream
      BY <2>1, <2>2, <3>1, SidecarsDisk DEF ThrowInFile
    <3> QED BY <1>11, <2>1, <3>2 DEF Throw, walkVars, Finished, Control
  <2>3. CASE ThrowInDir /\ UNCHANGED <<cur, files>>
    <3>1. IsDisk(dest')
      BY <2>3, OutPathType, MkPathDisk DEF ThrowInDir, Visiting
    <3> QED BY <1>11, <2>1, <2>3, <3>1 DEF Throw, walkVars, Finished, Control
  <2> QED BY <1>11, <2>2, <2>3 DEF Throw
<1>12. CASE DropFile
  <2>1. NoFile \in Stream
    BY DEF NoFile, Stream, Path
  <2> QED BY <1>12, <2>1, RemovedDisk DEF DropFile, walkVars, Control
<1>13. CASE KeepFile
  <2> DEFINE n == cur.node
  <2>1. n \in Files /\ cur.out \in Path /\ cur.out # <<>> /\ IsDisk(dest)
    BY <1>13 DEF KeepFile, StreamingFile, Stream
  <2>2. IsDisk(WithRsrc(dest, n))
    BY <2>1, SidecarsDisk
  <2> DEFINE c == WithRsrc(dest, n)
             e == Stamp(c, cur.out, n)
  <2> HIDE DEF c
  <2>3. IsDisk(e)
    BY <2>1, <2>2, StampDisk DEF c
  <2> HIDE DEF e
  <2>4. IsDisk(WithHash(e, n))
    BY <2>1, <2>3, SidecarsDisk
  <2>5. dest' = WithHash(e, n)
    BY <1>13 DEF KeepFile, e, c
  <2>6. NoFile \in Stream
    BY DEF NoFile, Stream, Path
  <2> QED BY <1>13, <2>4, <2>5, <2>6 DEF KeepFile, walkVars, Late, Control
<1>16. CASE Enter \/ Resume
  BY <1>16 DEF Enter, Resume, walkVars, counters, Control
<1>17. CASE Accept
  <2>1. IsDisk(dest')
    <3>1. PICK full \in BOOLEAN : dest' = Flushed(full)
      BY <1>17 DEF Accept
    <3>2. cur.out \in DOMAIN dest
      BY <1>17 DEF Accept, StreamingFile
    <3> QED BY <3>1, <3>2 DEF Flushed, IsDisk, Object
  <2> QED BY <1>17, <2>1 DEF Accept, walkVars, counters, Control
<1>14. CASE SetCancel
  BY <1>14 DEF SetCancel, walkVars, counters
<1>15. CASE UNCHANGED vars
  BY <1>15 DEF vars
<1> QED BY <1>1, <1>2, <1>3, <1>4, <1>5, <1>6, <1>7, <1>8, <1>9, <1>10, <1>11, <1>12,
           <1>13, <1>14, <1>15, <1>16, <1>17 DEF Next, Worker, Terminated

LEMMA StreamingInit == Init => StreamingFile
  BY DEF Init, StreamingFile

LEMMA StreamingStep ==
  ASSUME TypeOK, StreamingFile, [Next]_vars
  PROVE  StreamingFile'
<1>1. CASE OpenFile
  <2>1. Pending # <<>> /\ Head(Pending).node \in Files
    BY <1>1 DEF OpenFile, Visiting
  <2>2. PICK p \in Candidates :
          /\ dest' = Put(dest, p, Obj("data", Head(Pending).node, FALSE))
          /\ cur' = [node |-> Head(Pending).node, out |-> p,
                     left |-> vol.size[Head(Pending).node], ok |-> TRUE]
    BY <1>1 DEF OpenFile
  <2>3. p \in Path /\ p # <<>>
    BY <2>1, CandidateType
  <2>4. p \in DOMAIN dest' /\ dest'[p] = Obj("data", Head(Pending).node, FALSE)
    BY <2>2 DEF Put
  <2> QED BY <2>1, <2>2, <2>3, <2>4 DEF StreamingFile, Obj
<1>2. CASE WriteChunk \/ ReadFails
  <2>1. cur'.node = cur.node /\ cur'.out = cur.out /\ pc' = pc /\ dest' = dest
    BY <1>2 DEF WriteChunk, ReadFails, TypeOK, Stream
  <2> QED BY <2>1 DEF StreamingFile
<1>3. CASE pc' \notin {"stream", "keep"}
  BY <1>3 DEF StreamingFile
<1>4. CASE cur' = cur /\ pc' = pc /\ dest' = dest
  BY <1>4 DEF StreamingFile
<1>5. CASE \/ Enter \/ Resume \/ RefuseDir \/ OpenDir \/ LeaveDir \/ Unwind \/ Finish
           \/ SkipFile \/ OpenFails
  BY <1>3, <1>5 DEF Enter, Resume, RefuseDir, OpenDir, LeaveDir, Unwind, Finish, SkipFile,
                    OpenFails, Visiting
<1>6. CASE KeepFile \/ DropFile \/ Throw
  BY <1>3, <1>6 DEF KeepFile, DropFile, Throw
<1>7. CASE SetCancel \/ UNCHANGED vars
  BY <1>4, <1>7 DEF SetCancel, vars
<1>8. CASE Accept
  <2>1. PICK full \in BOOLEAN : dest' = Flushed(full)
    BY <1>8 DEF Accept
  <2>2. pc = "stream" /\ cur' = cur /\ cur.out \in DOMAIN dest /\ dest[cur.out].kind = "data"
    BY <1>8 DEF Accept, StreamingFile
  <2>3. dest[cur.out] \in Object
    BY <2>2 DEF TypeOK, IsDisk
  <2>4. cur.out \in DOMAIN dest' /\ dest'[cur.out].kind = "data"
    BY <2>1, <2>2, <2>3 DEF Flushed, Object
  <2> QED BY <2>2, <2>4 DEF StreamingFile
<1> QED BY <1>1, <1>2, <1>5, <1>6, <1>7, <1>8 DEF Next, Worker, Terminated

(* The worker's variables keep the types of the C++ variables they model,  *)
(* and the destination stays a tree of objects, for every volume.          *)
THEOREM TypeCorrect == Spec => []TypeOK
<1>1. Init => TypeOK /\ StreamingFile
  BY TypeInit, StreamingInit
<1>2. TypeOK /\ StreamingFile /\ [Next]_vars => TypeOK' /\ StreamingFile'
  BY TypeStep, StreamingStep
<1> QED BY <1>1, <1>2, PTL DEF Spec

-----------------------------------------------------------------------------
(* Loops.  LoopFree together with TypeOK is inductive: it says of          *)
(* `ancestors` not only what it holds but in which order, which is what    *)
(* makes the pop on leaving a directory remove that directory's identity.  *)

LEMMA LoopFreeInit == Init => LoopFree
<1> SUFFICES ASSUME Init PROVE LoopFree
  OBVIOUS
<1>1. stack = <<>> /\ ancestors = <<>> /\ MaxDepth \in Nat
  BY BoundAssumption DEF Init
<1>2. KnownOnce(stack)
  BY <1>1 DEF KnownOnce
<1>3. Matches(ancestors, stack)
  <2> DEFINE at == [k \in DOMAIN ancestors |-> 0]
  <2>1. DOMAIN ancestors = {} /\ DOMAIN stack = {}
    BY <1>1
  <2>2. at \in [DOMAIN ancestors -> DOMAIN stack]
    BY <2>1
  <2>3. {at[k] : k \in DOMAIN ancestors} = {i \in DOMAIN stack : stack[i].ident # 0}
    BY <2>1
  <2> QED BY <2>1, <2>2, <2>3 DEF Matches
<1>4. Len(stack) <= MaxDepth
  BY <1>1
<1> QED BY <1>2, <1>3, <1>4 DEF LoopFree

LEMMA ConsumeLoopFree ==
  ASSUME TypeOK, LoopFree, Pending # <<>>
  PROVE  KnownOnce(Consumed) /\ Matches(ancestors, Consumed) /\ Len(Consumed) = Len(stack)
<1>1. stack \in Seq(Frame) /\ jobs \in Seq(Entry) /\ ancestors \in Seq(Nat)
  BY DEF TypeOK
<1>2. /\ Consumed \in Seq(Frame) /\ Len(Consumed) = Len(stack)
      /\ \A i \in DOMAIN stack : Consumed[i].ident = stack[i].ident
  BY <1>1, ConsumedFrames
<1> QED BY <1>1, <1>2, SameIdents DEF LoopFree

LEMMA LoopFreeStep ==
  ASSUME TypeOK, LoopFree, [Next]_vars
  PROVE  LoopFree'
<1>1. stack \in Seq(Frame) /\ jobs \in Seq(Entry) /\ ancestors \in Seq(Nat)
  BY DEF TypeOK
<1>2. CASE OpenDir
  <2> DEFINE d == Head(Pending).node
             f == [dir |-> d, path |-> OutPath, ident |-> Ident(d), rest |-> vol.list[d]]
  <2>1. Pending # <<>> /\ d \in Dirs /\ ~Refused(d)
    BY <1>2 DEF OpenDir, Visiting
  <2>2. f \in Frame /\ f.ident = Ident(d)
    <3>1. Ident(d) \in Nat /\ vol.list[d] \in Seq(Entry)
      BY <2>1, VolumeType DEF Ident, TypeOK
    <3>2. OutPath \in Path
      BY <2>1, OutPathType
    <3> QED BY <2>1, <3>1, <3>2 DEF Frame
  <2>3. f.ident # 0 => f.ident \notin Range(ancestors)
    BY <2>1, <2>2 DEF Refused, OnPath
  <2>4. stack' = Append(Consumed, f) /\ ancestors' = Pushed(d)
    BY <1>2 DEF OpenDir
  <2>5. Len(stack) < MaxDepth
    BY <2>1, <1>1, BoundAssumption DEF Refused
  <2> HIDE DEF f, d
  <2>6. Consumed \in Seq(Frame)
    BY <1>1, <2>1, ConsumedFrames
  <2>7. /\ KnownOnce(Consumed) /\ Matches(ancestors, Consumed)
        /\ Len(Consumed) = Len(stack)
    BY <2>1, ConsumeLoopFree
  <2>8. ancestors' = IF f.ident # 0 THEN Append(ancestors, f.ident) ELSE ancestors
    BY <2>2, <2>4 DEF Pushed
  <2>9. KnownOnce(stack') /\ Matches(ancestors', stack')
    BY <1>1, <2>2, <2>3, <2>4, <2>6, <2>7, <2>8, PushLoopFree
  <2>10. Len(stack') = Len(stack) + 1
    BY <2>2, <2>4, <2>6, <2>7, AppendLast
  <2>11. Len(stack') <= MaxDepth
    BY <1>1, <2>5, <2>10, BoundAssumption
  <2> QED BY <2>9, <2>11 DEF LoopFree
<1>3. CASE LeaveDir \/ Unwind
  <2>1. stack # <<>> /\ stack' = Front(stack) /\ ancestors' = Popped
    BY <1>3 DEF LeaveDir, Unwind
  <2>2. KnownOnce(stack') /\ Matches(ancestors', stack')
    BY <1>1, <2>1, PopLoopFree DEF LoopFree, Popped
  <2>3. Len(stack') = Len(stack) - 1
    BY <1>1, <2>1, FrontLast
  <2>4. Len(stack') <= MaxDepth
    BY <1>1, <2>3, BoundAssumption DEF LoopFree
  <2> QED BY <2>2, <2>4 DEF LoopFree
<1>4. CASE RefuseDir \/ SkipFile \/ OpenFile \/ OpenFails
  <2>1. Pending # <<>> /\ stack' = Consumed /\ ancestors' = ancestors
    BY <1>4 DEF RefuseDir, SkipFile, OpenFile, OpenFails, Visiting, Consume
  <2> QED BY <2>1, ConsumeLoopFree DEF LoopFree
<1>5. CASE UNCHANGED <<stack, ancestors>>
  BY <1>5 DEF LoopFree
<1>6. CASE \/ Enter \/ Resume \/ Finish \/ WriteChunk \/ ReadFails \/ Accept \/ KeepFile
           \/ DropFile \/ Throw
  BY <1>5, <1>6 DEF Enter, Resume, Finish, WriteChunk, ReadFails, Accept, KeepFile, DropFile,
                    Throw, walkVars
<1>7. CASE SetCancel \/ UNCHANGED vars
  BY <1>5, <1>7 DEF SetCancel, walkVars, vars
<1> QED BY <1>2, <1>3, <1>4, <1>6, <1>7 DEF Next, Worker, Terminated

(* Whatever the directory graph of the volume, no directory with a known   *)
(* identity is ever open twice, `ancestors` is exact, and the recursion    *)
(* stays within kMaxWalkDepth.                                             *)
THEOREM NoLoopIsFollowed == Spec => []LoopFree
<1>1. Init => TypeOK /\ StreamingFile /\ LoopFree
  BY TypeInit, StreamingInit, LoopFreeInit
<1>2. TypeOK /\ StreamingFile /\ LoopFree /\ [Next]_vars
      => TypeOK' /\ StreamingFile' /\ LoopFree'
  BY TypeStep, StreamingStep, LoopFreeStep
<1> QED BY <1>1, <1>2, PTL DEF Spec

-----------------------------------------------------------------------------
(* What a step may do to the files that are on the destination.            *)

LEMMA PutKeeps ==
  ASSUME NEW d, IsDisk(d), NEW p, NEW o, NEW q \in DOMAIN d,
         d[q].kind # "dir", q # p
  PROVE  q \in DOMAIN Put(d, p, o) /\ Put(d, p, o)[q] = d[q]
<1> DEFINE e == IF Exists(d, p) THEN d ELSE Touch(d, Front(p))
<1>1. q \in DOMAIN e /\ e[q] = d[q]
  BY DEF Touch, IsDir
<1>2. Put(d, p, o) = [r \in DOMAIN e \cup {p} |-> IF r = p THEN o ELSE e[r]]
  BY DEF Put
<1> QED BY <1>1, <1>2

LEMMA RemovedKeeps ==
  ASSUME NEW d, IsDisk(d), NEW p, NEW q \in DOMAIN d,
         d[q].kind # "dir", q # p
  PROVE  q \in DOMAIN Removed(d, p) /\ Removed(d, p)[q] = d[q]
  BY DEF Removed, Touch, IsDir

LEMMA RemovedShrinks ==
  ASSUME NEW d, IsDisk(d), NEW p
  PROVE  DOMAIN Removed(d, p) \subseteq DOMAIN d
  BY TouchDisk DEF Removed

LEMMA StampKeeps ==
  ASSUME NEW d, IsDisk(d), NEW p, NEW node
  PROVE  /\ DOMAIN Stamp(d, p, node) = DOMAIN d
         /\ \A q \in DOMAIN d : SameFile(Stamp(d, p, node)[q], d[q])
<1>1. DOMAIN Stamp(d, p, node) = DOMAIN d
  BY DEF Stamp
<1>2. ASSUME NEW q \in DOMAIN d
      PROVE  SameFile(Stamp(d, p, node)[q], d[q])
  <2>1. d[q] \in Object
    BY DEF IsDisk
  <2>2. CASE Stamp(d, p, node) = d
    BY <2>2 DEF SameFile
  <2>3. CASE Stamp(d, p, node) = [d EXCEPT ![p].mtime = node] /\ p \in DOMAIN d
    <3>1. CASE q = p
      <4>1. Stamp(d, p, node)[q] = [d[q] EXCEPT !.mtime = node]
        BY <2>3, <3>1
      <4> QED BY <2>1, <4>1 DEF SameFile, Object
    <3>2. CASE q # p
      BY <2>3, <3>2 DEF SameFile
    <3> QED BY <3>1, <3>2
  <2> QED BY <2>2, <2>3 DEF Stamp, Exists
<1> QED BY <1>1, <1>2

(* What has begun since exportCancel_ is set, and whether more may follow. *)
LateInv ==
  \/ late = 0
  \/ late = 1 /\ cancel /\ pc \notin {"enter", "keep"}

LEMMA VisitBegins ==
  ASSUME OpenDir \/ OpenFile \/ KeepFile
  PROVE  /\ pc \in {"enter", "keep"} /\ pc' \notin {"enter", "keep"}
         /\ late' = Late /\ cancel' = cancel
<1>1. CASE OpenDir
  BY <1>1 DEF OpenDir, Visiting
<1>2. CASE OpenFile
  BY <1>2 DEF OpenFile, Visiting
<1>3. CASE KeepFile
  BY <1>3 DEF KeepFile
<1> QED BY <1>1, <1>2, <1>3

LEMMA LateStep ==
  ASSUME TypeOK, LateInv, [Next]_vars
  PROVE  LateInv'
<1>1. CASE \/ Enter \/ Resume \/ RefuseDir \/ LeaveDir \/ Unwind \/ Finish \/ SkipFile
           \/ OpenFails \/ WriteChunk \/ ReadFails \/ Accept \/ DropFile \/ SetCancel
           \/ UNCHANGED vars
  BY <1>1 DEF LateInv, Enter, Resume, RefuseDir, LeaveDir, Unwind, Finish, SkipFile, OpenFails,
              WriteChunk, ReadFails, Accept, DropFile, SetCancel, vars, counters, Visiting, TypeOK
<1>2. CASE OpenDir \/ OpenFile \/ KeepFile
  <2>1. /\ pc \in {"enter", "keep"} /\ pc' \notin {"enter", "keep"}
        /\ late' = Late /\ cancel' = cancel
    BY <1>2, VisitBegins
  <2> QED BY <2>1 DEF LateInv, Late, TypeOK
<1>3. CASE Throw
  BY <1>3 DEF LateInv, Throw, ThrowInFile, ThrowInDir, Late, Visiting, TypeOK
<1> QED BY <1>1, <1>2, <1>3 DEF Next, Worker, Terminated

(* Once exportCancel_ is set, at most one step counts a file or creates    *)
(* anything: the one whose look at the flag came before.                   *)
THEOREM CancelledWritesNothing == Spec => CancelStopsWriting
<1>1. Init => TypeOK /\ StreamingFile /\ LateInv
  BY TypeInit, StreamingInit DEF Init, LateInv
<1>2. TypeOK /\ StreamingFile /\ LateInv /\ [Next]_vars
      => TypeOK' /\ StreamingFile' /\ LateInv'
  BY TypeStep, StreamingStep, LateStep
<1>3. ASSUME TypeOK, LateInv, [Next]_vars, cancel
      PROVE  \/ late = 0 /\ late' = 1
             \/ files' = files /\ DOMAIN dest' \subseteq DOMAIN dest
  <2>1. CASE OpenDir \/ OpenFile \/ KeepFile
    <3>1. pc \in {"enter", "keep"} /\ late' = Late
      BY <2>1, VisitBegins
    <3> QED BY <1>3, <3>1 DEF LateInv, Late
  <2>2. CASE LeaveDir
    BY <1>3, <2>2, StampKeeps DEF LeaveDir, counters, TypeOK
  <2>3. CASE DropFile
    BY <1>3, <2>3, RemovedShrinks DEF DropFile, TypeOK
  <2>4. CASE Throw
    BY <1>3, <2>4 DEF LateInv, Throw, ThrowInFile, ThrowInDir, Late, Visiting
  <2>5. CASE \/ Enter \/ Resume \/ RefuseDir \/ SkipFile \/ OpenFails \/ Unwind \/ Finish
             \/ WriteChunk \/ ReadFails \/ SetCancel \/ UNCHANGED vars
    BY <2>5 DEF Enter, Resume, RefuseDir, SkipFile, OpenFails, Unwind, Finish, WriteChunk,
                ReadFails, SetCancel, counters, vars
  <2>6. CASE Accept
    BY <1>3, <2>6 DEF Accept
  <2> QED BY <1>3, <2>1, <2>2, <2>3, <2>4, <2>5, <2>6 DEF Next, Worker, Terminated
<1>4. TypeOK /\ LateInv /\ [Next]_vars
      => [cancel /\ (files' # files \/ ~(DOMAIN dest' \subseteq DOMAIN dest)) =>
            late = 0 /\ late' = 1]_vars
  BY <1>3
<1> QED BY <1>1, <1>2, <1>4, PTL DEF Spec, CancelStopsWriting

(* Without sidecars, "rename" keeps both: no step replaces or removes a    *)
(* file on the destination other than the one in flight.                   *)
NoSidecars == (\A v \in Volumes : v.rsrc = {}) /\ (\A o \in Options : ~o.hash)

THEOREM RenameKeepsBoth ==
  ASSUME NoSidecars
  PROVE  Spec => KeepsBoth
<1>1. Init => TypeOK /\ StreamingFile
  BY TypeInit, StreamingInit
<1>2. TypeOK /\ StreamingFile /\ [Next]_vars => TypeOK' /\ StreamingFile'
  BY TypeStep, StreamingStep
<1>3. ASSUME TypeOK, StreamingFile, [Next]_vars, opt.collision = "rename",
             NEW q \in DOMAIN dest, dest[q].kind # "dir", q # cur.out
      PROVE  q \in DOMAIN dest' /\ SameFile(dest'[q], dest[q])
  <2>1. IsDisk(dest)
    BY <1>3 DEF TypeOK
  <2>2. CASE dest' = dest
    BY <2>2 DEF SameFile
  <2>3. ASSUME Pending # <<>>, dest' = MkPath(dest, OutPath)
        PROVE  q \in DOMAIN dest' /\ SameFile(dest'[q], dest[q])
    <3>1. CASE dest' = dest
      BY <3>1 DEF SameFile
    <3>2. CASE dest' # dest
      <4>1. OutPath \notin DOMAIN dest /\ dest' = Put(dest, OutPath, DirObj)
        BY <2>3, <3>2 DEF MkPath, Exists
      <4> QED BY <4>1, <2>1, <1>3, PutKeeps DEF SameFile
    <3> QED BY <3>1, <3>2
  <2>4. CASE OpenDir
    BY <2>3, <2>4 DEF OpenDir, Visiting
  <2>5. CASE Throw
    <3>1. vol \in Volumes
      BY <1>3 DEF TypeOK
    <3>2. WithRsrc(dest, cur.node) = dest
      BY <3>1 DEF NoSidecars, WithRsrc
    <3> QED BY <2>2, <2>3, <2>5, <3>2 DEF Throw, ThrowInFile, ThrowInDir, Visiting
  <2>6. CASE LeaveDir
    BY <2>1, <2>6, StampKeeps DEF LeaveDir
  <2>7. CASE OpenFile
    <3>1. PICK p \in Candidates :
            Chosen(p) /\ dest' = Put(dest, p, Obj("data", Head(Pending).node, FALSE))
      BY <2>7 DEF OpenFile
    <3>2. p \notin DOMAIN dest
      BY <1>3, <3>1 DEF Chosen, Exists
    <3> DEFINE new == Obj("data", Head(Pending).node, FALSE)
    <3> HIDE DEF new
    <3>3. q # p
      BY <1>3, <3>2
    <3>4. q \in DOMAIN Put(dest, p, new) /\ Put(dest, p, new)[q] = dest[q]
      BY <3>3, <2>1, <1>3, PutKeeps
    <3>5. dest' = Put(dest, p, new)
      BY <3>1 DEF new
    <3> QED BY <3>4, <3>5 DEF SameFile
  <2>8. CASE KeepFile
    <3>1. vol \in Volumes /\ opt \in Options
      BY <1>3 DEF TypeOK
    <3>2. cur.node \notin vol.rsrc /\ ~opt.hash
      BY <3>1 DEF NoSidecars
    <3>3. dest' = Stamp(dest, cur.out, cur.node)
      BY <2>8, <3>2 DEF KeepFile, WithHash, WithRsrc
    <3> QED BY <2>1, <3>3, StampKeeps
  <2>9. CASE DropFile
    BY <1>3, <2>1, <2>9, RemovedKeeps DEF DropFile, SameFile
  <2>10. CASE \/ Enter \/ Resume \/ RefuseDir \/ Unwind \/ Finish \/ SkipFile \/ OpenFails
              \/ WriteChunk \/ ReadFails \/ SetCancel \/ UNCHANGED vars
    BY <2>2, <2>10 DEF Enter, Resume, RefuseDir, Unwind, Finish, SkipFile, OpenFails, WriteChunk,
                       ReadFails, SetCancel, vars
  <2>11. CASE Accept
    BY <1>3, <2>11 DEF Accept, Flushed, SameFile
  <2> QED BY <1>3, <2>4, <2>5, <2>6, <2>7, <2>8, <2>9, <2>10, <2>11 DEF Next, Worker, Terminated
<1>4. TypeOK /\ StreamingFile /\ [Next]_vars
      => [opt.collision = "rename" =>
            \A p \in DOMAIN dest : dest[p].kind # "dir" /\ p # cur.out =>
              p \in DOMAIN dest' /\ SameFile(dest'[p], dest[p])]_vars
  BY <1>3
<1> QED BY <1>1, <1>2, <1>4, PTL DEF Spec, KeepsBoth

-----------------------------------------------------------------------------
(* The files the export wrote.                                             *)

Ours(o) == o.kind = "data" /\ o.src # Foreign

WholeFiles(d) == {p \in DOMAIN d : Ours(d[p]) /\ d[p].whole}
PartFiles(d) == {p \in DOMAIN d : Ours(d[p]) /\ ~d[p].whole}

(* The file in flight is one of ours, incomplete until it is closed.       *)
InFlight ==
  /\ pc \in {"stream", "keep"} => dest[cur.out].src = cur.node
  /\ pc = "stream" => ~dest[cur.out].whole
  /\ pc = "keep" /\ "close" \notin Faults => dest[cur.out].whole

(* Every file of e is in d, as it is there.                                *)
FilesWithin(e, d) ==
  \A q \in DOMAIN e : e[q].kind = "data" => q \in DOMAIN d /\ SameFile(e[q], d[q])

(* The folders of the destination whose date an export has changed.        *)
Dated(d) == {p \in DOMAIN d \ {<<>>} : d[p].kind = "dir" /\ d[p].mtime = Now}

OpenPaths(s) == {s[i].path : i \in DOMAIN s}

(* The folders still to be stamped are those open on the recursion path.   *)
DatesInv ==
  /\ pc \in {"stream", "keep"} => Front(cur.out) = DestDir
  /\ pc = "done" /\ ~cancel => stack = <<>>
  /\ ~cancel /\ opt.times => Dated(dest) \subseteq OpenPaths(stack)

LEMMA MtimeSame ==
  ASSUME NEW o \in Object, NEW t
  PROVE  SameFile([o EXCEPT !.mtime = t], o) /\ [o EXCEPT !.mtime = t].mtime = t
BY DEF Object, SameFile

LEMMA TouchFiles ==
  ASSUME NEW d, IsDisk(d), NEW p
  PROVE  /\ DOMAIN Touch(d, p) = DOMAIN d
         /\ \A q \in DOMAIN d : SameFile(Touch(d, p)[q], d[q]) /\ (q # p => Touch(d, p)[q] = d[q])
<1>1. CASE ~IsDir(d, p)
  BY <1>1 DEF Touch, SameFile
<1>2. CASE IsDir(d, p)
  <2>1. Touch(d, p) = [d EXCEPT ![p].mtime = Now] /\ p \in DOMAIN d
    BY <1>2 DEF Touch, IsDir
  <2>2. Touch(d, p)[p] = [d[p] EXCEPT !.mtime = Now] /\ d[p] \in Object
    BY <2>1 DEF IsDisk
  <2>3. SameFile(Touch(d, p)[p], d[p])
    BY <2>2, MtimeSame
  <2> QED BY <2>1, <2>3 DEF SameFile
<1> QED BY <1>1, <1>2

LEMMA PutDomain ==
  ASSUME NEW d, NEW p, NEW o
  PROVE  DOMAIN Put(d, p, o) = DOMAIN d \cup {p}
<1> DEFINE e == IF Exists(d, p) THEN d ELSE Touch(d, Front(p))
<1>1. DOMAIN e = DOMAIN d
  BY DEF Touch
<1>2. Put(d, p, o) = [q \in DOMAIN e \cup {p} |-> IF q = p THEN o ELSE e[q]]
  BY DEF Put
<1> HIDE DEF e
<1> QED BY <1>1, <1>2

LEMMA PutAt ==
  ASSUME NEW d, NEW p, NEW o
  PROVE  Put(d, p, o)[p] = o
BY DEF Put

(* Creating or truncating p leaves the other files alone.                  *)
LEMMA PutFiles ==
  ASSUME NEW d, IsDisk(d), NEW p, NEW o
  PROVE  \A q \in DOMAIN d \ {p} :
           /\ SameFile(Put(d, p, o)[q], d[q])
           /\ q # Front(p) => Put(d, p, o)[q] = d[q]
<1> DEFINE e == IF Exists(d, p) THEN d ELSE Touch(d, Front(p))
<1>1. DOMAIN e = DOMAIN d /\ \A q \in DOMAIN d : SameFile(e[q], d[q]) /\ (q # Front(p) => e[q] = d[q])
  BY TouchFiles DEF SameFile
<1>2. Put(d, p, o) = [q \in DOMAIN e \cup {p} |-> IF q = p THEN o ELSE e[q]]
  BY DEF Put
<1> HIDE DEF e
<1> QED BY <1>1, <1>2

LEMMA RemovedFiles ==
  ASSUME NEW d, IsDisk(d), NEW p, p # <<>>
  PROVE  /\ DOMAIN Removed(d, p) = DOMAIN d \ {p}
         /\ \A q \in DOMAIN d \ {p} :
              /\ SameFile(Removed(d, p)[q], d[q])
              /\ q # Front(p) => Removed(d, p)[q] = d[q]
<1> DEFINE e == Touch(d, Front(p))
<1>1. DOMAIN e = DOMAIN d /\ \A q \in DOMAIN d : SameFile(e[q], d[q]) /\ (q # Front(p) => e[q] = d[q])
  BY TouchFiles
<1>2. CASE Exists(d, p)
  <2>1. Removed(d, p) = [q \in DOMAIN e \ {p} |-> e[q]]
    BY <1>2 DEF Removed
  <2> HIDE DEF e
  <2> QED BY <1>1, <2>1
<1>3. CASE ~Exists(d, p)
  BY <1>3 DEF Removed, Exists, SameFile
<1> QED BY <1>2, <1>3

LEMMA WithinTrans ==
  ASSUME NEW c, NEW d, NEW e, FilesWithin(e, d), FilesWithin(d, c)
  PROVE  FilesWithin(e, c)
BY DEF FilesWithin, SameFile

LEMMA WithinRefl == ASSUME NEW d PROVE FilesWithin(d, d)
BY DEF FilesWithin, SameFile

(* Two disks with the same files have the same whole and partial ones.     *)
LEMMA WithinCounts ==
  ASSUME NEW d, NEW e, FilesWithin(e, d)
  PROVE  WholeFiles(e) \subseteq WholeFiles(d) /\ PartFiles(e) \subseteq PartFiles(d)
BY DEF FilesWithin, SameFile, WholeFiles, PartFiles, Ours

LEMMA StampWithin ==
  ASSUME NEW d, IsDisk(d), NEW p, NEW node
  PROVE  FilesWithin(Stamp(d, p, node), d) /\ FilesWithin(d, Stamp(d, p, node))
BY StampKeeps DEF FilesWithin, SameFile

(* A folder or a sidecar at p adds no file.                                *)
LEMMA PutWithin ==
  ASSUME NEW d, IsDisk(d), NEW p, NEW o
  PROVE  o.kind # "data" =>
           /\ FilesWithin(Put(d, p, o), d)
           /\ p \notin DOMAIN d => FilesWithin(d, Put(d, p, o))
<1> DEFINE e == Put(d, p, o)
<1>1. DOMAIN e = DOMAIN d \cup {p} /\ e[p] = o
  <2>1. DOMAIN e = DOMAIN d \cup {p}
    BY PutDomain
  <2>2. e[p] = o
    BY PutAt
  <2> QED BY <2>1, <2>2
<1>2. \A q \in DOMAIN d \ {p} : SameFile(e[q], d[q])
  BY PutFiles
<1> HIDE DEF e
<1>3. o.kind # "data" => FilesWithin(e, d)
  BY <1>1, <1>2 DEF FilesWithin
<1>4. p \notin DOMAIN d => FilesWithin(d, e)
  BY <1>1, <1>2 DEF FilesWithin, SameFile
<1> QED BY <1>3, <1>4 DEF e

LEMMA MkPathWithin ==
  ASSUME NEW d, IsDisk(d), NEW p
  PROVE  FilesWithin(MkPath(d, p), d) /\ FilesWithin(d, MkPath(d, p))
<1>1. DirObj.kind # "data"
  BY DEF DirObj, Obj
<1>2. CASE MkPath(d, p) = d
  BY <1>2, WithinRefl
<1>3. CASE p \notin DOMAIN d /\ MkPath(d, p) = Put(d, p, DirObj)
  BY <1>1, <1>3, PutWithin
<1> QED BY <1>2, <1>3 DEF MkPath, Exists

LEMMA SidecarWithin ==
  ASSUME NEW d, IsDisk(d), NEW p, NEW kind \in {"rsrc", "hash"}, NEW node
  PROVE  FilesWithin(Sidecar(d, p, kind, node), d)
<1>1. Obj(kind, node, TRUE).kind # "data"
  BY DEF Obj
<1> HIDE DEF Obj
<1>2. CASE Writable(d, p)
  BY <1>1, <1>2, PutWithin DEF Sidecar
<1>3. CASE ~Writable(d, p)
  BY <1>3, WithinRefl DEF Sidecar
<1> QED BY <1>2, <1>3

(* The resource fork, the hash and the dates of a file kept add none.      *)
LEMMA ExtrasWithin ==
  ASSUME TypeOK, NEW d, IsDisk(d), cur.out \in Path, cur.out # <<>>, cur.node \in Files
  PROVE  LET n == cur.node
         IN  /\ FilesWithin(WithRsrc(d, n), d)
             /\ FilesWithin(WithHash(Stamp(WithRsrc(d, n), cur.out, n), n), d)
<1> DEFINE n == cur.node
           p == Sibling(cur.out, RsrcName(Last(cur.out)))
           h == Sibling(cur.out, HashName(Last(cur.out)))
           e == Sidecar(d, p, "rsrc", n)
           c == WithRsrc(d, n)
           f == Stamp(c, cur.out, n)
<1>1. p \in Path /\ h \in Path
  <2>1. Last(cur.out) \in DestName
    BY FrontLast DEF Path
  <2>2. RsrcName(Last(cur.out)) \in DestName /\ HashName(Last(cur.out)) \in DestName
    BY <2>1, NameAssumption
  <2> QED BY <2>2, SiblingType
<1>2. IsDisk(e) /\ FilesWithin(e, d)
  BY <1>1, SidecarDisk, SidecarWithin
<1>3. IsDisk(Stamp(e, p, n)) /\ FilesWithin(Stamp(e, p, n), e)
  BY <1>2, StampDisk, StampWithin
<1> HIDE DEF e, p, h
<1>4. IsDisk(c) /\ FilesWithin(c, d)
  <2>1. c \in {d, e, Stamp(e, p, n)}
    BY DEF WithRsrc, e, p
  <2> QED BY <1>2, <1>3, <2>1, WithinTrans, WithinRefl
<1> HIDE DEF c
<1>5. IsDisk(f) /\ FilesWithin(f, d)
  BY <1>4, StampDisk, StampWithin, WithinTrans
<1> HIDE DEF f
<1>6. WithHash(f, n) \in {f, Sidecar(f, h, "hash", n)}
  BY DEF WithHash, h
<1>7. FilesWithin(Sidecar(f, h, "hash", n), f)
  BY <1>5, SidecarWithin
<1>8. FilesWithin(WithHash(f, n), d)
  BY <1>5, <1>6, <1>7, WithinTrans, WithinRefl
<1> QED BY <1>4, <1>8 DEF f, c

-----------------------------------------------------------------------------
(* What each step does to the files.                                       *)

(* The path chosen for a file, and what OpenFile leaves there.             *)
LEMMA OpenFileFacts ==
  ASSUME TypeOK, OpenFile
  PROVE  \E p \in Candidates :
           /\ Chosen(p) /\ p \in Path /\ p # <<>>
           /\ dest' = Put(dest, p, Obj("data", Head(Pending).node, FALSE))
           /\ cur'.out = p /\ cur'.node = Head(Pending).node
           /\ Head(Pending).node \in Files
           /\ pc = "enter" /\ pc' = "stream"
<1>1. Pending # <<>> /\ Head(Pending).node \in Files /\ pc = "enter" /\ pc' = "stream"
  BY DEF OpenFile, Visiting
<1>2. PICK p \in Candidates :
        /\ Chosen(p)
        /\ dest' = Put(dest, p, Obj("data", Head(Pending).node, FALSE))
        /\ cur' = [node |-> Head(Pending).node, out |-> p,
                   left |-> vol.size[Head(Pending).node], ok |-> TRUE]
  BY DEF OpenFile
<1>3. p \in Path /\ p # <<>>
  BY <1>1, CandidateType
<1>4. cur'.out = p /\ cur'.node = Head(Pending).node
  BY <1>2
<1> QED BY <1>1, <1>2, <1>3, <1>4

(* Steps that leave the files of the destination as they are.              *)
Quiet ==
  \/ Enter \/ Resume \/ RefuseDir \/ OpenDir \/ LeaveDir \/ Unwind \/ Finish \/ SkipFile
  \/ OpenFails \/ WriteChunk \/ ReadFails \/ (Throw /\ pc # "keep") \/ SetCancel
  \/ UNCHANGED vars

(* The steps that count the file in flight.                                *)
Kept == KeepFile \/ (Throw /\ pc = "keep")

LEMMA QuietWithin ==
  ASSUME TypeOK, Quiet
  PROVE  /\ FilesWithin(dest', dest) /\ FilesWithin(dest, dest')
         /\ files' = files /\ opt' = opt /\ vol' = vol
         /\ cur'.out = cur.out /\ cur'.node = cur.node
<1>1. IsDisk(dest)
  BY DEF TypeOK
<1>2. CASE dest' = dest
  <2>1. FilesWithin(dest', dest) /\ FilesWithin(dest, dest')
    BY <1>2, WithinRefl
  <2>2. CASE WriteChunk \/ ReadFails
    BY <2>1, <2>2 DEF WriteChunk, ReadFails, counters, TypeOK, Stream
  <2>3. CASE Throw /\ pc # "keep"
    BY <2>1, <2>3 DEF Throw, ThrowInFile, ThrowInDir
  <2>4. CASE UNCHANGED vars
    BY <2>1, <2>4 DEF vars
  <2>5. CASE \/ Enter \/ Resume \/ RefuseDir \/ OpenDir \/ LeaveDir \/ Unwind \/ Finish
             \/ SkipFile \/ OpenFails \/ SetCancel
    BY <2>1, <2>5 DEF Enter, Resume, RefuseDir, OpenDir, LeaveDir, Unwind, Finish, SkipFile,
           OpenFails, SetCancel, counters
  <2> QED BY <2>2, <2>3, <2>4, <2>5 DEF Quiet
<1>3. CASE dest' = MkPath(dest, OutPath) /\ OpenDir
  BY <1>1, <1>3, MkPathWithin DEF OpenDir
<1>4. CASE dest' = MkPath(dest, OutPath) /\ Throw /\ pc # "keep"
  BY <1>1, <1>4, MkPathWithin DEF Throw, ThrowInFile
<1>5. CASE LeaveDir
  BY <1>1, <1>5, StampWithin DEF LeaveDir, counters
<1> QED BY <1>2, <1>3, <1>4, <1>5 DEF Quiet, Enter, Resume, RefuseDir, OpenDir, Unwind, Finish,
             SkipFile, OpenFails, WriteChunk, ReadFails, Throw, ThrowInFile, ThrowInDir, SetCancel, vars

(* Nothing quiet begins or ends the time between the last look at the flag *)
(* and the last sidecar.                                                   *)
LEMMA QuietKeep ==
  ASSUME Quiet
  PROVE  (pc' = "keep") = (pc = "keep")
<1>1. CASE \/ Enter \/ Resume \/ RefuseDir \/ OpenDir \/ LeaveDir \/ Unwind \/ Finish \/ SkipFile
           \/ OpenFails \/ WriteChunk \/ ReadFails
  BY <1>1 DEF Enter, Resume, RefuseDir, OpenDir, LeaveDir, Unwind, Finish, SkipFile, OpenFails,
              WriteChunk, ReadFails, Visiting
<1>2. CASE (Throw /\ pc # "keep") \/ SetCancel \/ UNCHANGED vars
  BY <1>2 DEF Throw, SetCancel, vars
<1> QED BY <1>1, <1>2 DEF Quiet

LEMMA QuietOrNot ==
  ASSUME [Next]_vars
  PROVE  Quiet \/ OpenFile \/ Accept \/ Kept \/ DropFile
BY DEF Next, Worker, Terminated, Quiet, Kept

(* Closing the stream makes the file in flight whole, if the disk took it. *)
LEMMA FlushedFacts ==
  ASSUME TypeOK, StreamingFile, pc = "stream", NEW full \in BOOLEAN
  PROVE  /\ IsDisk(Flushed(full)) /\ DOMAIN Flushed(full) = DOMAIN dest
         /\ \A q \in DOMAIN dest : q # cur.out => Flushed(full)[q] = dest[q]
         /\ Flushed(full)[cur.out].kind = "data"
         /\ Flushed(full)[cur.out].src = dest[cur.out].src
         /\ Flushed(full)[cur.out].whole <=> ~full
<1> DEFINE o == dest[cur.out]
           w == ~full
           n == [o EXCEPT !.whole = w]
<1>1. cur.out \in DOMAIN dest /\ o.kind = "data" /\ o \in Object
  BY DEF StreamingFile, TypeOK, IsDisk
<1>2. /\ DOMAIN Flushed(full) = DOMAIN dest
      /\ \A q \in DOMAIN dest : q # cur.out => Flushed(full)[q] = dest[q]
      /\ Flushed(full)[cur.out] = n
  BY <1>1 DEF Flushed
<1>3. n \in Object /\ n.kind = "data" /\ n.src = o.src /\ n.whole = w
  <2>1. w \in BOOLEAN
    OBVIOUS
  <2> HIDE DEF w, o
  <2> QED BY <1>1, <2>1 DEF Object
<1> HIDE DEF n, o
<1>4. IsDisk(Flushed(full))
  BY <1>2, <1>3 DEF TypeOK, IsDisk
<1> QED BY <1>2, <1>3, <1>4 DEF o, w

LEMMA AcceptFacts ==
  ASSUME TypeOK, StreamingFile, Accept
  PROVE  /\ pc = "stream" /\ pc' = "keep" /\ cur' = cur /\ files' = files /\ opt' = opt
         /\ \E full \in BOOLEAN : (full => "close" \in Faults) /\ dest' = Flushed(full)
BY DEF Accept, counters

(* What counting a file leaves, its sidecars and dates aside.              *)
LEMMA KeptFacts ==
  ASSUME TypeOK, StreamingFile, Kept
  PROVE  /\ pc = "keep" /\ pc' \in {"back", "aborted"} /\ cur' = NoFile
         /\ files' = files + 1 /\ opt' = opt
         /\ dest' \in {dest, WithRsrc(dest, cur.node),
                       WithHash(Stamp(WithRsrc(dest, cur.node), cur.out, cur.node), cur.node)}
         /\ FilesWithin(dest', dest)
<1>1. /\ pc = "keep" /\ pc' \in {"back", "aborted"} /\ cur' = NoFile
      /\ files' = files + 1 /\ opt' = opt
      /\ dest' \in {dest, WithRsrc(dest, cur.node),
                    WithHash(Stamp(WithRsrc(dest, cur.node), cur.out, cur.node), cur.node)}
  BY DEF Kept, KeepFile, Throw, ThrowInFile, ThrowInDir, Visiting
<1>2. cur.out # <<>> /\ cur.node \in Files /\ cur.out \in Path /\ IsDisk(dest)
  BY <1>1 DEF StreamingFile, TypeOK, Stream
<1>3. /\ FilesWithin(WithRsrc(dest, cur.node), dest)
      /\ FilesWithin(WithHash(Stamp(WithRsrc(dest, cur.node), cur.out, cur.node), cur.node), dest)
  BY <1>2, ExtrasWithin
<1>4. FilesWithin(dest', dest)
  BY <1>1, <1>3, WithinRefl
<1> QED BY <1>1, <1>4

-----------------------------------------------------------------------------
(* Partial files.                                                          *)

LEMMA PartInit == Init => NoPartialLeft
<1> SUFFICES ASSUME Init PROVE NoPartialLeft
  OBVIOUS
<1>1. \A p \in DOMAIN dest : dest[p].src = Foreign
  BY DestinationAssumption DEF Init
<1> QED BY <1>1 DEF NoPartialLeft, Written

LEMMA PartStep ==
  ASSUME "close" \notin Faults, TypeOK, StreamingFile, NoPartialLeft, [Next]_vars
  PROVE  NoPartialLeft'
<1>1. \A p \in PartFiles(dest) : p = cur.out /\ pc \in {"stream", "aborted"}
  BY DEF NoPartialLeft, Written, PartFiles, Ours
<1>2. SUFFICES ASSUME NEW p \in PartFiles(dest') PROVE p = cur'.out /\ pc' \in {"stream", "aborted"}
  BY DEF NoPartialLeft, Written, PartFiles, Ours
<1>3. CASE Quiet
  <2>1. p \in PartFiles(dest)
    BY <1>3, QuietWithin, WithinCounts
  <2>2. p = cur.out /\ pc \in {"stream", "aborted"}
    BY <1>1, <2>1
  <2>3. cur'.out = cur.out
    BY <1>3, QuietWithin
  <2>4. pc' \in {pc, "aborted"}
    BY <1>3, <2>2 DEF Quiet, Enter, Resume, RefuseDir, OpenDir, LeaveDir, Unwind, Finish, SkipFile,
                      OpenFails, WriteChunk, ReadFails, Throw, SetCancel, vars, Visiting
  <2> QED BY <2>2, <2>3, <2>4
<1>4. CASE OpenFile
  <2>1. PICK r \in Candidates :
          /\ dest' = Put(dest, r, Obj("data", Head(Pending).node, FALSE))
          /\ cur'.out = r /\ pc = "enter" /\ pc' = "stream"
    BY <1>4, OpenFileFacts
  <2> DEFINE new == Obj("data", Head(Pending).node, FALSE)
  <2> HIDE DEF new
  <2>2. dest' = Put(dest, r, new)
    BY <2>1 DEF new
  <2>3. DOMAIN dest' = DOMAIN dest \cup {r}
    BY <2>2, PutDomain
  <2>4. CASE p # r
    <3>1. p \in DOMAIN dest \ {r}
      BY <1>2, <2>3, <2>4 DEF PartFiles
    <3>2. SameFile(dest'[p], dest[p])
      BY <2>2, <3>1, PutFiles DEF TypeOK
    <3>3. p \in PartFiles(dest)
      BY <1>2, <3>1, <3>2 DEF PartFiles, Ours, SameFile
    <3> QED BY <1>1, <2>1, <3>3
  <2> QED BY <2>1, <2>4
<1>5. CASE Accept
  <2>1. pc = "stream" /\ \E full \in BOOLEAN : (full => "close" \in Faults) /\ dest' = Flushed(full)
    BY <1>5, AcceptFacts
  <2>2. dest' = Flushed(FALSE)
    BY <2>1
  <2>3. /\ DOMAIN dest' = DOMAIN dest
        /\ \A q \in DOMAIN dest : q # cur.out => dest'[q] = dest[q]
        /\ dest'[cur.out].whole
    BY <2>1, <2>2, FlushedFacts
  <2>4. p # cur.out /\ p \in PartFiles(dest)
    BY <1>2, <2>3 DEF PartFiles
  <2> QED BY <1>1, <2>4
<1>7. CASE Kept
  <2>1. pc = "keep" /\ FilesWithin(dest', dest)
    BY <1>7, KeptFacts
  <2>2. p \in PartFiles(dest)
    BY <2>1, WithinCounts
  <2> QED BY <1>1, <2>1, <2>2
<1>6. CASE DropFile
  <2>1. pc = "stream" /\ dest' = Removed(dest, cur.out) /\ cur.out # <<>> /\ IsDisk(dest)
    BY <1>6 DEF DropFile, StreamingFile, TypeOK
  <2>2. p \in DOMAIN dest \ {cur.out} /\ SameFile(dest'[p], dest[p])
    BY <1>2, <2>1, RemovedFiles DEF PartFiles
  <2>3. p \in PartFiles(dest)
    BY <1>2, <2>2 DEF PartFiles, Ours, SameFile
  <2> QED BY <1>1, <2>2, <2>3
<1> QED BY <1>3, <1>4, <1>5, <1>6, <1>7, QuietOrNot

(* While the disk takes the last flush of every file - os.close()'s result *)
(* is the one nobody looks at - an incomplete file is the one in flight,   *)
(* and none is left behind by a worker that returned.                      *)
THEOREM NothingPartialStays ==
  ASSUME "close" \notin Faults
  PROVE  Spec => []NoPartialLeft
<1>1. Init => TypeOK /\ StreamingFile /\ NoPartialLeft
  BY TypeInit, StreamingInit, PartInit
<1>2. TypeOK /\ StreamingFile /\ NoPartialLeft /\ [Next]_vars
      => TypeOK' /\ StreamingFile' /\ NoPartialLeft'
  BY TypeStep, StreamingStep, PartStep
<1> QED BY <1>1, <1>2, PTL DEF Spec

-----------------------------------------------------------------------------
(* The count.  A sidecar is written over whatever has its name, so a name  *)
(* the sanitizer or the "(n)" search gives must not be a sidecar's; or     *)
(* there is no sidecar.                                                    *)

SidecarNames == {RsrcName(c) : c \in DestName} \cup {HashName(c) : c \in DestName}

NamesApart ==
  /\ \A x \in Name : San(x) \notin SidecarNames
  /\ \A x \in DestName \ SidecarNames, n \in 1..MaxSuffix : Suffixed(x, n) \notin SidecarNames

(* No file of ours has a sidecar's name.                                   *)
OursNamed == \A p \in Written : p # <<>> /\ Last(p) \notin SidecarNames

(* The file in flight is whole before it is counted.                       *)
Counted == WholeFiles(dest) \ {cur.out}

CountInv ==
  /\ InFlight
  /\ NamesApart => OursNamed
  /\ <<>> \notin WholeFiles(dest)
  /\ pc # "keep" => cur.out \notin WholeFiles(dest)
  /\ opt.collision = "rename" =>
       /\ IsFiniteSet(Counted)
       /\ files = Cardinality(Counted)

LEMMA WrittenIs == Written = {p \in DOMAIN dest : Ours(dest[p])}
BY DEF Written, Ours

LEMMA CountInit == Init => CountInv
<1> SUFFICES ASSUME Init PROVE CountInv
  OBVIOUS
<1>1. \A p \in DOMAIN dest : dest[p].src = Foreign
  BY DestinationAssumption DEF Init
<1>2. Written = {} /\ WholeFiles(dest) = {}
  BY <1>1 DEF Written, WholeFiles, Ours
<1>3. pc \notin {"stream", "keep"} /\ files = 0
  BY DEF Init
<1> QED BY <1>2, <1>3, FS_EmptySet DEF CountInv, InFlight, OursNamed, Counted

LEMMA InFlightStep ==
  ASSUME TypeOK, StreamingFile, InFlight, [Next]_vars
  PROVE  InFlight'
<1>1. CASE OpenFile
  <2>1. PICK p \in Candidates :
          /\ dest' = Put(dest, p, Obj("data", Head(Pending).node, FALSE))
          /\ cur'.out = p /\ cur'.node = Head(Pending).node /\ pc' = "stream"
    BY <1>1, OpenFileFacts
  <2> DEFINE new == Obj("data", Head(Pending).node, FALSE)
  <2>2. new.src = Head(Pending).node /\ ~new.whole
    BY DEF Obj
  <2> HIDE DEF new
  <2>3. dest' = Put(dest, p, new)
    BY <2>1 DEF new
  <2>4. dest'[p] = new
    BY <2>3, PutAt
  <2> QED BY <2>1, <2>2, <2>4 DEF InFlight
<1>2. CASE WriteChunk \/ ReadFails
  <2>1. cur'.node = cur.node /\ cur'.out = cur.out /\ pc' = pc /\ dest' = dest
    BY <1>2 DEF WriteChunk, ReadFails, TypeOK, Stream
  <2> QED BY <2>1 DEF InFlight
<1>3. CASE pc' \notin {"stream", "keep"}
  BY <1>3 DEF InFlight
<1>4. CASE cur' = cur /\ pc' = pc /\ dest' = dest
  BY <1>4 DEF InFlight
<1>5. CASE \/ Enter \/ Resume \/ RefuseDir \/ OpenDir \/ LeaveDir \/ Unwind \/ Finish
           \/ SkipFile \/ OpenFails
  BY <1>3, <1>5 DEF Enter, Resume, RefuseDir, OpenDir, LeaveDir, Unwind, Finish, SkipFile,
                    OpenFails, Visiting
<1>6. CASE KeepFile \/ DropFile \/ Throw
  BY <1>3, <1>6 DEF KeepFile, DropFile, Throw
<1>7. CASE SetCancel \/ UNCHANGED vars
  BY <1>4, <1>7 DEF SetCancel, vars
<1>8. CASE Accept
  <2>1. PICK full \in BOOLEAN : (full => "close" \in Faults) /\ dest' = Flushed(full)
    BY <1>8, AcceptFacts
  <2>2. pc = "stream" /\ pc' = "keep" /\ cur' = cur
    BY <1>8, AcceptFacts
  <2>3. dest'[cur.out].src = dest[cur.out].src /\ (dest'[cur.out].whole <=> ~full)
    BY <2>1, <2>2, FlushedFacts
  <2>4. dest[cur.out].src = cur.node
    BY <2>2 DEF InFlight
  <2>5. "close" \notin Faults => dest'[cur.out].whole
    BY <2>1, <2>3
  <2> QED BY <2>2, <2>3, <2>4, <2>5 DEF InFlight
<1> QED BY <1>1, <1>2, <1>5, <1>6, <1>7, <1>8 DEF Next, Worker, Terminated

(* The last component of a path chosen for a file.                         *)
LEMMA CandidateName ==
  ASSUME TypeOK, NamesApart, Pending # <<>>, NEW p \in Candidates
  PROVE  Last(p) \notin SidecarNames
<1>1. /\ DestDir \in Path /\ OutPath \in Path /\ OutPath # <<>>
      /\ Head(Pending).name \in Name
  BY OutPathType DEF Entry
<1>2. ASSUME NEW s \in Path, NEW c \in DestName PROVE Last(Append(s, c)) = c
  <2>1. Len(Append(s, c)) = Len(s) + 1 /\ Append(s, c)[Len(s) + 1] = c
    BY AppendLast DEF Path
  <2> QED BY <2>1 DEF Last
<1>3. San(Head(Pending).name) \in DestName \ SidecarNames
  BY <1>1, NameAssumption DEF NamesApart
<1>4. Last(OutPath) = San(Head(Pending).name)
  BY <1>1, <1>2, <1>3 DEF OutPath
<1>5. CASE p # OutPath
  <2>1. PICK i \in 1..MaxSuffix : p = Sibling(OutPath, Suffixed(Last(OutPath), i))
    BY <1>5 DEF Candidates
  <2> DEFINE c == Suffixed(Last(OutPath), i)
  <2>2. c \in DestName /\ c \notin SidecarNames
    BY <1>3, <1>4, NameAssumption DEF NamesApart
  <2>3. Front(OutPath) \in Path
    BY <1>1, FrontType DEF Path
  <2> HIDE DEF c
  <2>4. Last(Append(Front(OutPath), c)) = c
    BY <1>2, <2>2, <2>3
  <2> QED BY <2>1, <2>2, <2>4 DEF Sibling, c
<1> QED BY <1>3, <1>4, <1>5

(* Neither a sidecar nor a date takes a file of ours away.                 *)
SidecarAt(p) == p \in Path /\ p # <<>> /\ Last(p) \in SidecarNames

LEMMA SidecarKeeps ==
  ASSUME NEW d, IsDisk(d), NEW p, SidecarAt(p), NEW kind \in {"rsrc", "hash"},
         NEW node \in Files, \A q \in WholeFiles(d) : Last(q) \notin SidecarNames
  PROVE  IsDisk(Sidecar(d, p, kind, node)) /\ WholeFiles(Sidecar(d, p, kind, node)) = WholeFiles(d)
<1> DEFINE o == Obj(kind, node, TRUE)
           e == Sidecar(d, p, kind, node)
<1>1. o \in Object /\ o.kind # "data"
  BY ObjType DEF Obj
<1>2. CASE ~Writable(d, p)
  BY <1>2 DEF Sidecar
<1>3. CASE Writable(d, p)
  <2>1. e = Put(d, p, o)
    BY <1>3 DEF Sidecar
  <2> HIDE DEF o, e
  <2>2. IsDisk(e) /\ DOMAIN e = DOMAIN d \cup {p}
    BY <1>1, <2>1, PutDisk DEF SidecarAt
  <2>3. FilesWithin(e, d)
    BY <1>1, <2>1, PutWithin
  <2>4. ASSUME NEW q \in WholeFiles(d) PROVE q \in WholeFiles(e)
    <3>1. q \in DOMAIN d \ {p}
      BY DEF SidecarAt, WholeFiles
    <3>2. SameFile(e[q], d[q])
      BY <2>1, <3>1, PutFiles
    <3> QED BY <2>2, <3>1, <3>2 DEF WholeFiles, SameFile, Ours
  <2> QED BY <2>2, <2>3, <2>4, WithinCounts DEF e
<1> QED BY <1>2, <1>3, SidecarDisk DEF SidecarAt

(* With sidecars' names apart, a file kept stays next to its sidecars.     *)
LEMMA ExtrasKeep ==
  ASSUME TypeOK, NEW d, IsDisk(d), cur.out \in Path, cur.out # <<>>, cur.node \in Files,
         \A q \in WholeFiles(d) : Last(q) \notin SidecarNames
  PROVE  LET n == cur.node
         IN  /\ WholeFiles(WithRsrc(d, n)) = WholeFiles(d)
             /\ WholeFiles(WithHash(Stamp(WithRsrc(d, n), cur.out, n), n)) = WholeFiles(d)
<1> DEFINE n == cur.node
           p == Sibling(cur.out, RsrcName(Last(cur.out)))
           h == Sibling(cur.out, HashName(Last(cur.out)))
           e == Sidecar(d, p, "rsrc", n)
           c == WithRsrc(d, n)
           f == Stamp(c, cur.out, n)
<1>1. SidecarAt(p) /\ SidecarAt(h)
  <2>1. Last(cur.out) \in DestName /\ Front(cur.out) \in Path
    BY FrontLast DEF Path
  <2>2. ASSUME NEW x \in DestName, x \in SidecarNames PROVE SidecarAt(Sibling(cur.out, x))
    <3>1. Sibling(cur.out, x) \in Path /\ Sibling(cur.out, x) # <<>>
      BY SiblingType
    <3>2. Len(Sibling(cur.out, x)) = Len(Front(cur.out)) + 1
          /\ Sibling(cur.out, x)[Len(Front(cur.out)) + 1] = x
      BY <2>1, AppendLast DEF Sibling, Path
    <3> QED BY <2>2, <3>1, <3>2 DEF SidecarAt, Last
  <2>3. /\ RsrcName(Last(cur.out)) \in DestName /\ RsrcName(Last(cur.out)) \in SidecarNames
        /\ HashName(Last(cur.out)) \in DestName /\ HashName(Last(cur.out)) \in SidecarNames
    BY <2>1, NameAssumption DEF SidecarNames
  <2> QED BY <2>2, <2>3
<1> HIDE DEF p, h
<1>2. IsDisk(e) /\ WholeFiles(e) = WholeFiles(d)
  BY <1>1, SidecarKeeps
<1> HIDE DEF e
<1>3. ASSUME NEW g, IsDisk(g), NEW r
      PROVE  IsDisk(Stamp(g, r, n)) /\ WholeFiles(Stamp(g, r, n)) = WholeFiles(g)
  <2> DEFINE t == Stamp(g, r, n)
  <2>1. IsDisk(t)
    BY <1>3, StampDisk
  <2>2. FilesWithin(t, g) /\ FilesWithin(g, t)
    BY <1>3, StampWithin
  <2> HIDE DEF t
  <2>3. WholeFiles(t) = WholeFiles(g)
    <3>1. WholeFiles(t) \subseteq WholeFiles(g)
      BY <2>2, WithinCounts
    <3>2. WholeFiles(g) \subseteq WholeFiles(t)
      BY <2>2, WithinCounts
    <3> QED BY <3>1, <3>2
  <2> QED BY <2>1, <2>3 DEF t
<1>4. IsDisk(c) /\ WholeFiles(c) = WholeFiles(d)
  <2>1. c \in {d, e, Stamp(e, p, n)}
    BY DEF WithRsrc, e, p
  <2> QED BY <1>2, <1>3, <2>1
<1> HIDE DEF c
<1>5. IsDisk(f) /\ WholeFiles(f) = WholeFiles(d)
  BY <1>3, <1>4
<1> HIDE DEF f
<1>6. WithHash(f, n) \in {f, Sidecar(f, h, "hash", n)}
  BY DEF WithHash, h
<1>7. WholeFiles(Sidecar(f, h, "hash", n)) = WholeFiles(f)
  BY <1>1, <1>5, SidecarKeeps
<1>8. WholeFiles(WithHash(f, n)) = WholeFiles(d)
  BY <1>5, <1>6, <1>7
<1> QED BY <1>4, <1>8 DEF f, c

LEMMA WithinOurs ==
  ASSUME NEW d, NEW e, FilesWithin(e, d)
  PROVE  {q \in DOMAIN e : Ours(e[q])} \subseteq {q \in DOMAIN d : Ours(d[q])}
BY DEF FilesWithin, SameFile, Ours

(* Flushing, too, makes no file of ours out of another's.                  *)
LEMMA FlushedOurs ==
  ASSUME TypeOK, StreamingFile, pc = "stream", NEW full \in BOOLEAN,
         NEW q \in DOMAIN Flushed(full), Ours(Flushed(full)[q])
  PROVE  q \in Written
<1>1. /\ DOMAIN Flushed(full) = DOMAIN dest
      /\ \A r \in DOMAIN dest : r # cur.out => Flushed(full)[r] = dest[r]
      /\ Flushed(full)[cur.out].src = dest[cur.out].src
  BY FlushedFacts
<1>2. cur.out \in DOMAIN dest /\ dest[cur.out].kind = "data"
  BY DEF StreamingFile
<1>3. Ours(dest[q])
  BY <1>1, <1>2 DEF Ours
<1> QED BY <1>1, <1>3, WrittenIs

LEMMA NamedStep ==
  ASSUME TypeOK, StreamingFile, NamesApart, OursNamed, [Next]_vars
  PROVE  OursNamed'
<1>1. Written' = {p \in DOMAIN dest' : Ours(dest'[p])}
  BY DEF Written, Ours
<1>2. SUFFICES ASSUME NEW p \in DOMAIN dest', Ours(dest'[p])
               PROVE  p # <<>> /\ Last(p) \notin SidecarNames
  BY <1>1 DEF OursNamed
<1>3. SUFFICES ASSUME p \notin Written PROVE p # <<>> /\ Last(p) \notin SidecarNames
  BY DEF OursNamed
<1>4. CASE Quiet
  <2>1. FilesWithin(dest', dest)
    BY <1>4, QuietWithin
  <2>2. p \in {q \in DOMAIN dest : Ours(dest[q])}
    BY <1>2, <2>1, WithinOurs
  <2> QED BY <1>3, <2>2, WrittenIs
<1>5. CASE OpenFile
  <2>1. PICK r \in Candidates :
          /\ dest' = Put(dest, r, Obj("data", Head(Pending).node, FALSE))
          /\ r \in Path /\ r # <<>>
    BY <1>5, OpenFileFacts
  <2> DEFINE new == Obj("data", Head(Pending).node, FALSE)
  <2> HIDE DEF new
  <2>2. dest' = Put(dest, r, new)
    BY <2>1 DEF new
  <2>3. DOMAIN dest' = DOMAIN dest \cup {r}
    BY <2>2, PutDomain
  <2>4. p = r
    <3>1. SUFFICES ASSUME p # r PROVE FALSE
      OBVIOUS
    <3>2. p \in DOMAIN dest \ {r}
      BY <3>1, <2>3
    <3>3. SameFile(dest'[p], dest[p])
      BY <2>2, <3>2, PutFiles DEF TypeOK
    <3> QED BY <1>2, <1>3, <3>2, <3>3, WrittenIs DEF Ours, SameFile
  <2>5. Pending # <<>>
    BY <1>5 DEF OpenFile, Visiting
  <2>6. Last(r) \notin SidecarNames
    BY <2>5, CandidateName
  <2> QED BY <2>1, <2>4, <2>6
<1>6. CASE Accept
  <2>1. pc = "stream" /\ \E full \in BOOLEAN : (full => "close" \in Faults) /\ dest' = Flushed(full)
    BY <1>6, AcceptFacts
  <2>2. p \in Written
    BY <1>2, <2>1, FlushedOurs
  <2> QED BY <1>3, <2>2
<1>8. CASE Kept
  <2>1. FilesWithin(dest', dest)
    BY <1>8, KeptFacts
  <2>2. p \in {q \in DOMAIN dest : Ours(dest[q])}
    BY <1>2, <2>1, WithinOurs
  <2> QED BY <1>3, <2>2, WrittenIs
<1>7. CASE DropFile
  <2>1. dest' = Removed(dest, cur.out) /\ cur.out # <<>> /\ IsDisk(dest)
    BY <1>7 DEF DropFile, StreamingFile, TypeOK
  <2>2. p \in DOMAIN dest \ {cur.out} /\ SameFile(dest'[p], dest[p])
    BY <1>2, <2>1, RemovedFiles
  <2> QED BY <1>2, <1>3, <2>2, WrittenIs DEF Ours, SameFile
<1> QED BY <1>4, <1>5, <1>6, <1>7, <1>8, QuietOrNot

(* Counting a file makes or breaks none.                                   *)
LEMMA KeepWhole ==
  ASSUME TypeOK, StreamingFile, Kept, NoSidecars \/ (NamesApart /\ OursNamed)
  PROVE  WholeFiles(dest') = WholeFiles(dest)
<1>1. /\ pc = "keep"
      /\ dest' \in {dest, WithRsrc(dest, cur.node),
                    WithHash(Stamp(WithRsrc(dest, cur.node), cur.out, cur.node), cur.node)}
  BY KeptFacts
<1>2. cur.out # <<>> /\ cur.out \in Path /\ cur.node \in Files /\ IsDisk(dest)
  BY <1>1 DEF StreamingFile, TypeOK, Stream
<1>3. CASE NoSidecars
  <2>1. vol \in Volumes /\ opt \in Options
    BY DEF TypeOK
  <2>2. cur.node \notin vol.rsrc /\ ~opt.hash
    BY <1>3, <2>1 DEF NoSidecars
  <2>3. dest' \in {dest, Stamp(dest, cur.out, cur.node)}
    BY <1>1, <2>2 DEF WithHash, WithRsrc
  <2>4. FilesWithin(dest', dest) /\ FilesWithin(dest, dest')
    BY <1>2, <2>3, StampWithin, WithinRefl
  <2>5. WholeFiles(dest') \subseteq WholeFiles(dest)
    BY <2>4, WithinCounts
  <2>6. WholeFiles(dest) \subseteq WholeFiles(dest')
    BY <2>4, WithinCounts
  <2> QED BY <2>5, <2>6
<1>4. CASE NamesApart /\ OursNamed
  <2>1. \A q \in WholeFiles(dest) : Last(q) \notin SidecarNames
    BY <1>4 DEF OursNamed, WholeFiles, Written, Ours
  <2>2. /\ WholeFiles(WithRsrc(dest, cur.node)) = WholeFiles(dest)
        /\ WholeFiles(WithHash(Stamp(WithRsrc(dest, cur.node), cur.out, cur.node), cur.node))
             = WholeFiles(dest)
    BY <1>2, <2>1, ExtrasKeep
  <2> QED BY <1>1, <2>2
<1> QED BY <1>3, <1>4

LEMMA CountStep ==
  ASSUME "close" \notin Faults, NoSidecars \/ NamesApart,
         TypeOK, StreamingFile, CountInv, [Next]_vars
  PROVE  CountInv'
<1>1. InFlight'
  BY InFlightStep DEF CountInv
<1>2. NamesApart => OursNamed'
  BY NamedStep DEF CountInv
<1>3. opt' = opt
  BY DEF Next, Worker, Terminated, Enter, Resume, RefuseDir, OpenDir, LeaveDir, Unwind, Finish,
         SkipFile, OpenFile, OpenFails, WriteChunk, ReadFails, Accept, KeepFile, DropFile, Throw,
         SetCancel, vars
<1> DEFINE W == WholeFiles(dest)
           V == WholeFiles(dest')
<1>4. /\ <<>> \notin W
      /\ pc # "keep" => cur.out \notin W
      /\ opt.collision = "rename" => IsFiniteSet(W \ {cur.out}) /\ files = Cardinality(W \ {cur.out})
  BY DEF CountInv, Counted
(* What a step has to show. *)
<1>5. ASSUME <<>> \notin V, pc' # "keep" => cur'.out \notin V,
             opt.collision = "rename" =>
               IsFiniteSet(V \ {cur'.out}) /\ files' = Cardinality(V \ {cur'.out})
      PROVE  CountInv'
  BY <1>1, <1>2, <1>3, <1>5 DEF CountInv, Counted
<1>6. IsDisk(dest)
  BY DEF TypeOK
<1>7. CASE Quiet
  <2>1. FilesWithin(dest', dest) /\ FilesWithin(dest, dest') /\ files' = files /\ cur'.out = cur.out
    BY <1>7, QuietWithin
  <2>2. V = W
    <3>1. V \subseteq W
      BY <2>1, WithinCounts
    <3>2. W \subseteq V
      BY <2>1, WithinCounts
    <3> QED BY <3>1, <3>2
  <2>3. (pc' = "keep") = (pc = "keep")
    BY <1>7, QuietKeep
  <2> HIDE DEF V, W
  <2> QED BY <1>4, <1>5, <2>1, <2>2, <2>3
<1>8. CASE OpenFile
  <2>1. PICK r \in Candidates :
          /\ Chosen(r) /\ r # <<>> /\ cur'.out = r /\ pc = "enter" /\ pc' = "stream"
          /\ dest' = Put(dest, r, Obj("data", Head(Pending).node, FALSE))
    BY <1>8, OpenFileFacts
  <2> DEFINE new == Obj("data", Head(Pending).node, FALSE)
  <2>2. dest' = Put(dest, r, new) /\ ~new.whole
    BY <2>1 DEF Obj
  <2> HIDE DEF new
  <2>3. opt.collision = "rename" => r \notin DOMAIN dest
    BY <2>1 DEF Chosen, Exists
  <2>4. DOMAIN dest' = DOMAIN dest \cup {r}
    BY <2>2, PutDomain
  <2>5. ~dest'[r].whole
    BY <2>2, PutAt
  <2>6. \A q \in DOMAIN dest \ {r} : SameFile(dest'[q], dest[q])
    BY <1>6, <2>2, PutFiles
  <2>7. V = W \ {r}
    BY <2>4, <2>5, <2>6 DEF WholeFiles, Ours, SameFile
  <2>8. opt.collision = "rename" => V \ {r} = W \ {cur.out}
    BY <1>4, <2>1, <2>3, <2>7 DEF WholeFiles
  <2>9. files' = files
    BY <1>8 DEF OpenFile
  <2> HIDE DEF V, W
  <2> QED BY <1>4, <1>5, <2>1, <2>7, <2>8, <2>9
<1>9. CASE Accept
  <2>1. PICK full \in BOOLEAN : dest' = Flushed(full)
    BY <1>9, AcceptFacts
  <2>2. pc = "stream" /\ pc' = "keep" /\ cur' = cur /\ files' = files
    BY <1>9, AcceptFacts
  <2>3. DOMAIN dest' = DOMAIN dest /\ \A q \in DOMAIN dest : q # cur.out => dest'[q] = dest[q]
    BY <2>1, <2>2, FlushedFacts
  <2>4. V \ {cur.out} = W \ {cur.out}
    BY <2>3 DEF WholeFiles
  <2>5. cur.out # <<>>
    BY <2>2 DEF StreamingFile
  <2> HIDE DEF V, W
  <2> QED BY <1>4, <1>5, <2>2, <2>4, <2>5
<1>10. CASE Kept
  <2>1. pc = "keep" /\ pc' \in {"back", "aborted"} /\ cur' = NoFile /\ files' = files + 1
    BY <1>10, KeptFacts
  <2>2. V = W
    BY <1>10, KeepWhole DEF CountInv
  <2>3. cur'.out = <<>>
    BY <2>1 DEF NoFile
  <2>4. cur.out \in W
    <3>1. cur.out \in DOMAIN dest /\ dest[cur.out].kind = "data" /\ cur.node \in Files
      BY <2>1 DEF StreamingFile
    <3>2. dest[cur.out].src = cur.node /\ dest[cur.out].whole
      BY <2>1 DEF CountInv, InFlight
    <3> QED BY <3>1, <3>2, DestinationAssumption DEF WholeFiles, Ours
  <2> HIDE DEF V, W
  <2>5. opt.collision = "rename" => IsFiniteSet(W) /\ files + 1 = Cardinality(W)
    <3> DEFINE T == W \ {cur.out}
    <3>1. W = T \cup {cur.out} /\ cur.out \notin T
      BY <2>4
    <3>2. opt.collision = "rename" => IsFiniteSet(T) /\ files = Cardinality(T)
      BY <1>4
    <3> HIDE DEF T
    <3> QED BY <3>1, <3>2, FS_AddElement
  <2>6. V \ {cur'.out} = W
    BY <1>4, <2>2, <2>3
  <2> QED BY <1>4, <1>5, <2>1, <2>2, <2>3, <2>5, <2>6
<1>11. CASE DropFile
  <2>1. dest' = Removed(dest, cur.out) /\ cur.out # <<>> /\ pc = "stream" /\ pc' = "back"
        /\ files' = files /\ cur' = NoFile
    BY <1>11 DEF DropFile, StreamingFile
  <2>2. DOMAIN dest' = DOMAIN dest \ {cur.out}
    BY <1>6, <2>1, RemovedFiles
  <2>3. \A q \in DOMAIN dest \ {cur.out} : SameFile(dest'[q], dest[q])
    BY <1>6, <2>1, RemovedFiles
  <2>4. V = W \ {cur.out}
    BY <2>2, <2>3 DEF WholeFiles, Ours, SameFile
  <2>5. cur'.out = <<>>
    BY <2>1 DEF NoFile
  <2> HIDE DEF V, W
  <2>6. V \ {cur'.out} = W \ {cur.out}
    BY <1>4, <2>4, <2>5
  <2> QED BY <1>4, <1>5, <2>1, <2>4, <2>5, <2>6
<1> QED BY <1>7, <1>8, <1>9, <1>10, <1>11, QuietOrNot

LEMMA CountInvImplies == CountInv => CountIsOnDisk
<1>1. {p \in Written : dest[p].whole /\ p # cur.out} = Counted
  BY DEF Written, WholeFiles, Ours, Counted
<1> QED BY <1>1 DEF CountInv, CountIsOnDisk

(* Under "rename" the number reported is the number of complete files the  *)
(* export left on the disk, whatever was there before and whatever failed: *)
(* provided no sidecar is written over one of them, and no last flush was  *)
(* refused (its result is not looked at).                                  *)
THEOREM CountsWhatItWrote ==
  ASSUME "close" \notin Faults, NoSidecars \/ NamesApart
  PROVE  Spec => []CountIsOnDisk
<1>1. Init => TypeOK /\ StreamingFile /\ CountInv
  BY TypeInit, StreamingInit, CountInit
<1>2. TypeOK /\ StreamingFile /\ CountInv /\ [Next]_vars
      => TypeOK' /\ StreamingFile' /\ CountInv'
  BY TypeStep, StreamingStep, CountStep
<1> QED BY <1>1, <1>2, CountInvImplies, PTL DEF Spec

-----------------------------------------------------------------------------
(* The dates of the folders.                                               *)

LEMMA FrontAppend ==
  ASSUME NEW S, NEW s \in Seq(S), NEW e \in S
  PROVE  Front(Append(s, e)) = s
<1> DEFINE t == Append(s, e)
           f == Front(t)
<1>1. t \in Seq(S) /\ Len(t) = Len(s) + 1 /\ \A i \in 1..Len(s) : t[i] = s[i]
  BY AppendLast
<1>2. Len(s) \in Nat /\ t # <<>>
  BY <1>1
<1> HIDE DEF t
<1>3. f \in Seq(S) /\ Len(f) = Len(s) /\ \A i \in 1..Len(s) : f[i] = s[i]
  BY <1>1, <1>2, FrontLast
<1> QED BY <1>3 DEF t

(* The directory of a path chosen for a file is the one being filled.      *)
LEMMA CandidateDir ==
  ASSUME TypeOK, Pending # <<>>, NEW p \in Candidates
  PROVE  Front(p) = DestDir
<1>1. DestDir \in Path /\ OutPath \in Path /\ OutPath # <<>> /\ Head(Pending).name \in Name
  BY OutPathType DEF Entry
<1>2. San(Head(Pending).name) \in DestName
  BY <1>1, NameAssumption
<1>3. Front(OutPath) = DestDir
  BY <1>1, <1>2, FrontAppend DEF OutPath, Path
<1>4. CASE p # OutPath
  <2>1. PICK i \in 1..MaxSuffix : p = Sibling(OutPath, Suffixed(Last(OutPath), i))
    BY <1>4 DEF Candidates
  <2> DEFINE c == Suffixed(Last(OutPath), i)
  <2>2. c \in DestName
    BY <1>1, FrontLast, NameAssumption DEF Path
  <2> HIDE DEF c
  <2>3. p = Append(DestDir, c)
    BY <1>3, <2>1 DEF Sibling, c
  <2> QED BY <1>1, <2>2, <2>3, FrontAppend DEF Path
<1> QED BY <1>3, <1>4

(* Creating p dates its folder, and p itself if that is a folder.          *)
LEMMA PutDated ==
  ASSUME NEW d, IsDisk(d), NEW p, NEW o
  PROVE  /\ Dated(Put(d, p, o)) \subseteq Dated(d) \cup {Front(p), p}
         /\ o.kind # "dir" => Dated(Put(d, p, o)) \subseteq Dated(d) \cup {Front(p)}
<1> DEFINE e == Put(d, p, o)
<1>1. DOMAIN e = DOMAIN d \cup {p}
  BY PutDomain
<1>2. e[p] = o
  BY PutAt
<1>3. \A q \in DOMAIN d \ {p} : q # Front(p) => e[q] = d[q]
  BY PutFiles
<1> HIDE DEF e
<1>4. Dated(e) \subseteq Dated(d) \cup {Front(p), p}
  BY <1>1, <1>3 DEF Dated
<1>5. o.kind # "dir" => Dated(e) \subseteq Dated(d) \cup {Front(p)}
  BY <1>1, <1>2, <1>3 DEF Dated
<1> QED BY <1>4, <1>5 DEF e

LEMMA RemovedDated ==
  ASSUME NEW d, IsDisk(d), NEW p, p # <<>>
  PROVE  Dated(Removed(d, p)) \subseteq Dated(d) \cup {Front(p)}
<1> DEFINE e == Removed(d, p)
<1>1. DOMAIN e = DOMAIN d \ {p} /\ \A q \in DOMAIN d \ {p} : q # Front(p) => e[q] = d[q]
  <2>1. DOMAIN e = DOMAIN d \ {p}
    BY RemovedFiles
  <2>2. \A q \in DOMAIN d \ {p} : q # Front(p) => e[q] = d[q]
    BY RemovedFiles
  <2> QED BY <2>1, <2>2
<1> HIDE DEF e
<1>2. Dated(e) \subseteq Dated(d) \cup {Front(p)}
  BY <1>1 DEF Dated
<1> QED BY <1>2 DEF e

LEMMA MkPathDated ==
  ASSUME NEW d, IsDisk(d), NEW p
  PROVE  Dated(MkPath(d, p)) \subseteq Dated(d) \cup {Front(p), p}
<1>1. CASE MkPath(d, p) = d
  BY <1>1
<1>2. CASE MkPath(d, p) = Put(d, p, DirObj)
  BY <1>2, PutDated
<1> QED BY <1>1, <1>2 DEF MkPath

(* A date taken from the source is not the date of today.                  *)
LEMMA StampDated ==
  ASSUME NEW d, IsDisk(d), NEW p, NEW node \in Dirs \cup Files
  PROVE  /\ Dated(Stamp(d, p, node)) \subseteq Dated(d)
         /\ opt.times => p \notin Dated(Stamp(d, p, node))
<1> DEFINE e == Stamp(d, p, node)
<1>1. CASE ~(opt.times /\ Exists(d, p))
  BY <1>1 DEF Stamp, Exists, Dated
<1>2. CASE opt.times /\ Exists(d, p)
  <2>1. e = [d EXCEPT ![p].mtime = node] /\ p \in DOMAIN d
    BY <1>2 DEF Stamp, Exists
  <2>2. d[p] \in Object
    BY <2>1 DEF IsDisk
  <2>3. e[p] = [d[p] EXCEPT !.mtime = node]
    BY <2>1
  <2>4. e[p].mtime = node /\ node # Now
    BY <2>2, <2>3, MtimeSame, DestinationAssumption
  <2>5. DOMAIN e = DOMAIN d /\ \A q \in DOMAIN d : q # p => e[q] = d[q]
    BY <2>1
  <2> HIDE DEF e
  <2>6. Dated(e) \subseteq Dated(d) /\ p \notin Dated(e)
    BY <2>4, <2>5 DEF Dated
  <2> QED BY <2>6 DEF e
<1> QED BY <1>1, <1>2

LEMMA SidecarDated ==
  ASSUME NEW d, IsDisk(d), NEW p, NEW kind \in {"rsrc", "hash"}, NEW node
  PROVE  Dated(Sidecar(d, p, kind, node)) \subseteq Dated(d) \cup {Front(p)}
<1> DEFINE o == Obj(kind, node, TRUE)
<1>1. o.kind # "dir"
  BY DEF Obj
<1> HIDE DEF o
<1>2. Dated(Put(d, p, o)) \subseteq Dated(d) \cup {Front(p)}
  BY <1>1, PutDated
<1> QED BY <1>2 DEF Sidecar, o

(* Keeping a file dates at most the folder it is in.                       *)
LEMMA ExtrasDated ==
  ASSUME TypeOK, NEW d, IsDisk(d), cur.out \in Path, cur.out # <<>>, cur.node \in Files
  PROVE  LET n == cur.node
         IN  Dated(WithHash(Stamp(WithRsrc(d, n), cur.out, n), n))
               \subseteq Dated(d) \cup {Front(cur.out)}
<1> DEFINE n == cur.node
           p == Sibling(cur.out, RsrcName(Last(cur.out)))
           h == Sibling(cur.out, HashName(Last(cur.out)))
           e == Sidecar(d, p, "rsrc", n)
           c == WithRsrc(d, n)
           f == Stamp(c, cur.out, n)
           dir == Front(cur.out)
<1>1. p \in Path /\ Front(p) = dir /\ Front(h) = dir
  <2>1. Last(cur.out) \in DestName /\ dir \in Path
    BY FrontLast DEF Path
  <2>2. RsrcName(Last(cur.out)) \in DestName /\ HashName(Last(cur.out)) \in DestName
    BY <2>1, NameAssumption
  <2>3. p \in Path
    BY <2>2, SiblingType
  <2>4. \A x \in DestName : Front(Append(dir, x)) = dir
    BY <2>1, FrontAppend DEF Path
  <2> QED BY <2>2, <2>3, <2>4 DEF Sibling
<1> HIDE DEF p, h
<1>2. IsDisk(e) /\ Dated(e) \subseteq Dated(d) \cup {dir}
  <2>1. IsDisk(e)
    BY <1>1, SidecarDisk
  <2>2. Dated(e) \subseteq Dated(d) \cup {Front(p)}
    BY SidecarDated
  <2> QED BY <1>1, <2>1, <2>2
<1> HIDE DEF e
<1>3. IsDisk(Stamp(e, p, n)) /\ Dated(Stamp(e, p, n)) \subseteq Dated(e)
  <2>1. IsDisk(Stamp(e, p, n))
    BY <1>2, StampDisk
  <2>2. Dated(Stamp(e, p, n)) \subseteq Dated(e)
    BY <1>2, StampDated
  <2> QED BY <2>1, <2>2
<1>4. IsDisk(c) /\ Dated(c) \subseteq Dated(d) \cup {dir}
  <2>1. c \in {d, e, Stamp(e, p, n)}
    BY DEF WithRsrc, e, p
  <2> QED BY <1>2, <1>3, <2>1
<1> HIDE DEF c
<1>5. IsDisk(f) /\ Dated(f) \subseteq Dated(c)
  <2>1. IsDisk(f)
    BY <1>4, StampDisk
  <2>2. Dated(f) \subseteq Dated(c)
    BY <1>4, StampDated
  <2> QED BY <2>1, <2>2
<1> HIDE DEF f
<1>6. WithHash(f, n) \in {f, Sidecar(f, h, "hash", n)}
  BY DEF WithHash, h
<1>7. Dated(Sidecar(f, h, "hash", n)) \subseteq Dated(f) \cup {Front(h)}
  BY <1>5, SidecarDated
<1>8. Dated(WithHash(f, n)) \subseteq Dated(d) \cup {dir}
  BY <1>1, <1>4, <1>5, <1>6, <1>7
<1> QED BY <1>8 DEF f, c

(* Passing an entry leaves the open paths as they are.                     *)
LEMMA ConsumedPaths ==
  ASSUME TypeOK, Pending # <<>>
  PROVE  /\ Consumed \in Seq(Frame) /\ OpenPaths(Consumed) = OpenPaths(stack)
         /\ (Consumed = <<>>) = (stack = <<>>)
         /\ stack # <<>> => Last(Consumed).path = Last(stack).path
<1>1. /\ Consumed \in Seq(Frame) /\ Len(Consumed) = Len(stack)
      /\ \A i \in DOMAIN stack : Consumed[i].path = stack[i].path
      /\ stack \in Seq(Frame)
  BY ConsumedFrames DEF TypeOK
<1>2. DOMAIN Consumed = DOMAIN stack /\ DOMAIN stack = 1..Len(stack) /\ Len(stack) \in Nat
  BY <1>1
<1>3. OpenPaths(Consumed) = OpenPaths(stack)
  BY <1>1, <1>2 DEF OpenPaths
<1>4. (Consumed = <<>>) = (stack = <<>>)
  BY <1>1
<1>5. stack # <<>> => Last(Consumed).path = Last(stack).path
  BY <1>1, <1>2 DEF Last
<1> QED BY <1>1, <1>3, <1>4, <1>5

LEMMA PushedPaths ==
  ASSUME NEW s \in Seq(Frame), NEW f \in Frame
  PROVE  OpenPaths(Append(s, f)) = OpenPaths(s) \cup {f.path}
<1> DEFINE t == Append(s, f)
<1>1. /\ Len(s) \in Nat /\ DOMAIN s = 1..Len(s) /\ DOMAIN t = 1..(Len(s) + 1)
      /\ \A i \in 1..Len(s) : t[i] = s[i] /\ t[Len(s) + 1] = f
  BY AppendLast
<1>2. 1..(Len(s) + 1) = 1..Len(s) \cup {Len(s) + 1} /\ t[Len(s) + 1] = f
  BY <1>1, AppendLast
<1> HIDE DEF t
<1> QED BY <1>1, <1>2 DEF OpenPaths, t

LEMMA PoppedPaths ==
  ASSUME NEW s \in Seq(Frame), s # <<>>
  PROVE  OpenPaths(s) = OpenPaths(Front(s)) \cup {Last(s).path}
<1> DEFINE t == Front(s)
           n == Len(s)
<1>1. t \in Seq(Frame) /\ Len(t) = n - 1 /\ \A i \in 1..(n - 1) : t[i] = s[i]
  BY FrontLast
<1>2. n \in Nat \ {0} /\ DOMAIN s = 1..n /\ Last(s) = s[n]
  BY DEF Last
<1>3. DOMAIN t = 1..(n - 1) /\ 1..n = 1..(n - 1) \cup {n}
  BY <1>1, <1>2
<1> HIDE DEF t, n
<1> QED BY <1>1, <1>2, <1>3 DEF OpenPaths, t

LEMMA DirIsOpen == ASSUME TypeOK PROVE DestDir \in OpenPaths(stack) \cup {<<>>}
<1>1. stack # <<>> => Len(stack) \in DOMAIN stack
  BY DEF TypeOK
<1> QED BY <1>1 DEF DestDir, OpenPaths, Last

LEMMA DatesInit == Init => DatesInv
<1> SUFFICES ASSUME Init PROVE DatesInv
  OBVIOUS
<1>1. \A p \in DOMAIN dest : dest[p].mtime # Now
  BY DestinationAssumption DEF Init
<1>2. Dated(dest) = {}
  BY <1>1 DEF Dated
<1> QED BY <1>2 DEF Init, DatesInv

LEMMA DatesStep ==
  ASSUME TypeOK, StreamingFile, DatesInv, [Next]_vars
  PROVE  DatesInv'
<1> DEFINE Open == OpenPaths(stack)
<1>1. IsDisk(dest) /\ stack \in Seq(Frame)
  BY DEF TypeOK
<1>2. DestDir \in Open \cup {<<>>}
  BY DirIsOpen
<1>3. \A p \in Dated(dest') : p # <<>>
  BY DEF Dated
<1> HIDE DEF Open
(* A step that cancels, or is taken under the flag, owes no date. *)
<1>4. ASSUME NEW X, Dated(dest') \subseteq Dated(dest) \cup X, opt' = opt, ~cancel' => ~cancel,
             ~cancel => X \subseteq OpenPaths(stack') \cup {<<>>},
             ~cancel => Open \subseteq OpenPaths(stack'),
             pc' \in {"stream", "keep"} => Front(cur'.out) = DestDir',
             pc' = "done" /\ ~cancel' => stack' = <<>>
      PROVE  DatesInv'
  BY <1>3, <1>4 DEF DatesInv, Open
<1>5. ASSUME pc' \in {"stream", "keep"} => pc \in {"stream", "keep"} /\ cur'.out = cur.out,
             stack' = stack,
             pc' = "done" /\ ~cancel' => stack' = <<>>,
             opt' = opt, ~cancel' => ~cancel,
             NEW X, Dated(dest') \subseteq Dated(dest) \cup X, X \subseteq {DestDir, <<>>}
      PROVE  DatesInv'
  <2>1. pc' \in {"stream", "keep"} => Front(cur'.out) = DestDir'
    BY <1>5 DEF DestDir, DatesInv
  <2>2. X \subseteq OpenPaths(stack') \cup {<<>>} /\ Open \subseteq OpenPaths(stack')
    BY <1>2, <1>5 DEF Open
  <2> QED BY <1>4, <1>5, <2>1, <2>2
<1>6. ASSUME Pending # <<>>, Consume
      PROVE  OpenPaths(stack') = Open /\ DestDir' = DestDir
  <2>1. /\ OpenPaths(Consumed) = OpenPaths(stack)
        /\ (Consumed = <<>>) = (stack = <<>>)
        /\ stack # <<>> => Last(Consumed).path = Last(stack).path
    BY <1>6, ConsumedPaths
  <2>2. stack' = Consumed
    BY <1>6 DEF Consume
  <2> QED BY <2>1, <2>2 DEF DestDir, Open
<1>7. CASE RefuseDir \/ SkipFile \/ OpenFails
  <2>1. Pending # <<>> /\ Consume /\ pc' = "back" /\ dest' = dest /\ opt' = opt /\ cancel' = cancel
    BY <1>7 DEF RefuseDir, SkipFile, OpenFails, Visiting
  <2> QED BY <1>4, <1>6, <2>1
<1>8. CASE OpenDir
  <2> DEFINE d == Head(Pending).node
             f == [dir |-> d, path |-> OutPath, ident |-> Ident(d), rest |-> vol.list[d]]
  <2>1. Pending # <<>> /\ d \in Dirs
    BY <1>8 DEF OpenDir, Visiting
  <2>2. f \in Frame /\ f.path = OutPath
    <3>1. Ident(d) \in Nat /\ vol.list[d] \in Seq(Entry)
      BY <2>1, VolumeType DEF Ident, TypeOK
    <3>2. OutPath \in Path
      BY <2>1, OutPathType
    <3> QED BY <2>1, <3>1, <3>2 DEF Frame
  <2>3. stack' = Append(Consumed, f)
    BY <1>8 DEF OpenDir
  <2> HIDE DEF f, d
  <2>4. Consumed \in Seq(Frame) /\ OpenPaths(Consumed) = Open
    BY <2>1, ConsumedPaths DEF Open
  <2>5. OpenPaths(stack') = Open \cup {OutPath}
    BY <2>2, <2>3, <2>4, PushedPaths
  <2>6. Front(OutPath) = DestDir
    BY <2>1, CandidateDir DEF Candidates
  <2>7. Dated(dest') \subseteq Dated(dest) \cup {DestDir, OutPath}
    <3>1. dest' = MkPath(dest, OutPath)
      BY <1>8 DEF OpenDir
    <3> QED BY <1>1, <2>6, <3>1, MkPathDated
  <2>8. pc' = "walk" /\ opt' = opt /\ cancel' = cancel
    BY <1>8 DEF OpenDir, Visiting
  <2> QED BY <1>2, <1>4, <2>5, <2>7, <2>8
<1>9. CASE LeaveDir
  <2>1. stack # <<>> /\ stack' = Front(stack) /\ pc' = "back" /\ opt' = opt /\ cancel' = cancel
        /\ dest' = Stamp(dest, Last(stack).path, Last(stack).dir)
    BY <1>9 DEF LeaveDir
  <2>2. Last(stack).dir \in Dirs
    <3>1. Last(stack) \in Frame
      BY <1>1, <2>1, FrontLast
    <3> QED BY <3>1 DEF Frame
  <2>3. /\ Dated(dest') \subseteq Dated(dest)
        /\ opt.times => Last(stack).path \notin Dated(dest')
    BY <1>1, <2>1, <2>2, StampDated
  <2>4. OpenPaths(stack) = OpenPaths(stack') \cup {Last(stack).path}
    BY <1>1, <2>1, PoppedPaths
  <2> QED BY <2>1, <2>3, <2>4 DEF DatesInv
<1>10. CASE Unwind
  BY <1>10 DEF Unwind, DatesInv
<1>11. CASE Finish
  <2>1. pc' = "done" /\ stack' = <<>> /\ stack' = stack /\ opt' = opt /\ cancel' = cancel /\ dest' = dest
    BY <1>11 DEF Finish, walkVars
  <2> QED BY <1>5, <2>1
<1>12. CASE OpenFile
  <2>1. PICK p \in Candidates :
          /\ p \in Path /\ dest' = Put(dest, p, Obj("data", Head(Pending).node, FALSE))
          /\ cur'.out = p /\ pc' = "stream"
    BY <1>12, OpenFileFacts
  <2>2. Pending # <<>> /\ Consume /\ opt' = opt /\ cancel' = cancel
    BY <1>12 DEF OpenFile, Visiting
  <2>3. Front(p) = DestDir
    BY <2>2, CandidateDir
  <2> DEFINE new == Obj("data", Head(Pending).node, FALSE)
  <2>4. new.kind # "dir"
    BY DEF Obj
  <2> HIDE DEF new
  <2>5. Dated(Put(dest, p, new)) \subseteq Dated(dest) \cup {Front(p)}
    BY <1>1, <2>4, PutDated
  <2>6. Dated(dest') \subseteq Dated(dest) \cup {DestDir}
    BY <2>1, <2>3, <2>5 DEF new
  <2>7. OpenPaths(stack') = Open /\ DestDir' = DestDir
    BY <1>6, <2>2
  <2> QED BY <1>2, <1>4, <2>1, <2>2, <2>3, <2>6, <2>7
<1>13. CASE WriteChunk \/ ReadFails
  <2>1. cur'.out = cur.out /\ pc = "stream" /\ pc' = pc /\ dest' = dest /\ stack' = stack
        /\ opt' = opt /\ cancel' = cancel
    BY <1>13 DEF WriteChunk, ReadFails, TypeOK, Stream, walkVars
  <2> QED BY <1>5, <2>1
<1>14. CASE KeepFile
  <2>1. /\ pc = "keep" /\ pc' = "back" /\ stack' = stack /\ opt' = opt /\ cancel' = cancel
        /\ dest' = WithHash(Stamp(WithRsrc(dest, cur.node), cur.out, cur.node), cur.node)
    BY <1>14 DEF KeepFile, walkVars
  <2>2. cur.node \in Files /\ cur.out # <<>> /\ cur.out \in Path /\ Front(cur.out) = DestDir
    BY <2>1 DEF StreamingFile, TypeOK, Stream, DatesInv
  <2>3. Dated(dest') \subseteq Dated(dest) \cup {Front(cur.out)}
    BY <1>1, <2>1, <2>2, ExtrasDated
  <2> QED BY <1>5, <2>1, <2>2, <2>3
<1>15. CASE DropFile
  <2>1. pc = "stream" /\ dest' = Removed(dest, cur.out) /\ pc' = "back" /\ stack' = stack
        /\ opt' = opt /\ cancel' = cancel
    BY <1>15 DEF DropFile, walkVars
  <2>2. cur.out # <<>> /\ Front(cur.out) = DestDir
    BY <2>1 DEF StreamingFile, DatesInv
  <2>3. Dated(dest') \subseteq Dated(dest) \cup {DestDir}
    BY <1>1, <2>1, <2>2, RemovedDated
  <2> QED BY <1>5, <2>1, <2>3
<1>18. CASE Accept
  <2>1. PICK full \in BOOLEAN : dest' = Flushed(full)
    BY <1>18, AcceptFacts
  <2>2. pc = "stream" /\ pc' = "keep" /\ cur' = cur /\ opt' = opt
    BY <1>18, AcceptFacts
  <2>3. /\ DOMAIN dest' = DOMAIN dest
        /\ \A q \in DOMAIN dest : q # cur.out => dest'[q] = dest[q]
        /\ dest'[cur.out].kind = "data"
    BY <2>1, <2>2, FlushedFacts
  <2>4. Dated(dest') \subseteq Dated(dest)
    BY <2>3 DEF Dated
  <2>5. stack' = stack /\ cancel' = cancel
    BY <1>18 DEF Accept, walkVars
  <2> QED BY <1>5, <2>2, <2>4, <2>5
<1>19. CASE Enter \/ Resume
  <2>1. pc' \notin {"stream", "keep", "done"} /\ stack' = stack /\ dest' = dest /\ opt' = opt
        /\ cancel' = cancel
    BY <1>19 DEF Enter, Resume, walkVars
  <2> QED BY <1>5, <2>1
<1>16. CASE Throw
  BY <1>16 DEF Throw, DatesInv
<1>17. CASE SetCancel \/ UNCHANGED vars
  <2>1. pc' = pc /\ cur' = cur /\ stack' = stack /\ dest' = dest /\ opt' = opt
        /\ (cancel' = cancel \/ cancel')
    BY <1>17 DEF SetCancel, walkVars, vars
  <2> QED BY <2>1 DEF DatesInv, DestDir
<1> QED BY <1>7, <1>8, <1>9, <1>10, <1>11, <1>12, <1>13, <1>14, <1>15, <1>16, <1>17, <1>18, <1>19
        DEF Next, Worker, Terminated

LEMMA DatesInvImplies == DatesInv => FolderDatesKept
BY DEF DatesInv, FolderDatesKept, Dated, OpenPaths

(* Stamping a folder after its children were written is enough: when an    *)
(* export ends uncancelled with "keep dates" on, no folder on the          *)
(* destination carries the date of the export, for every volume, name      *)
(* policy and fault.  What is undone late - a sidecar, a partial file      *)
(* removed - falls in a folder that is still open.                         *)
THEOREM FoldersKeepTheirDates == Spec => []FolderDatesKept
<1>1. Init => TypeOK /\ StreamingFile /\ DatesInv
  BY TypeInit, StreamingInit, DatesInit
<1>2. TypeOK /\ StreamingFile /\ DatesInv /\ [Next]_vars
      => TypeOK' /\ StreamingFile' /\ DatesInv'
  BY TypeStep, StreamingStep, DatesStep
<1> QED BY <1>1, <1>2, DatesInvImplies, PTL DEF Spec

-----------------------------------------------------------------------------
(* A finite set of numbers that is not empty has a largest element.        *)
LEMMA FamilyBounded ==
  ASSUME NEW n \in Nat, NEW f \in [1..n -> Nat]
  PROVE  \E b \in Nat : \A i \in 1..n : f[i] <= b
<1> DEFINE T == {m \in Nat : \E g \in [1..m -> Nat] : ~\E b \in Nat : \A i \in 1..m : g[i] <= b}
<1>1. T = {}
  <2>1. SUFFICES ASSUME T # {} PROVE FALSE
    OBVIOUS
  <2>2. PICK m \in T : \A k \in T : m <= k
    <3>1. T \subseteq Nat
      OBVIOUS
    <3> HIDE DEF T
    <3> QED BY <2>1, <3>1, LeastOf
  <2>3. PICK g \in [1..m -> Nat] : ~\E b \in Nat : \A i \in 1..m : g[i] <= b
    BY <2>2
  <2>4. m # 0
    <3>1. m = 0 => \A i \in 1..m : g[i] <= 0
      OBVIOUS
    <3> QED BY <2>3, <3>1
  <2> DEFINE k == m - 1
             h == [i \in 1..k |-> g[i]]
  <2>5. k \in Nat /\ m = k + 1 /\ k \notin T
    <3>1. m \in Nat
      BY <2>2
    <3>2. k \in Nat /\ m = k + 1 /\ ~(m <= k)
      BY <2>4, <3>1
    <3> HIDE DEF T, k
    <3> QED BY <2>2, <3>2
  <2>6. h \in [1..k -> Nat]
    <3>1. \A i \in 1..k : i \in 1..m
      BY <2>5
    <3> HIDE DEF k
    <3> QED BY <3>1
  <2>7. PICK b \in Nat : \A i \in 1..k : h[i] <= b
    <3> HIDE DEF h
    <3> QED BY <2>5, <2>6
  <2>8. g[m] \in Nat /\ m \in 1..m
    BY <2>2, <2>4
  <2>9. \A i \in 1..k : g[i] <= b
    BY <2>7
  <2>10. b + g[m] \in Nat /\ \A i \in 1..m : g[i] <= b + g[m]
    <3> HIDE DEF T, k, h
    <3>1. ASSUME NEW i \in 1..m PROVE g[i] <= b + g[m]
      <4>1. g[i] \in Nat /\ (i \in 1..k \/ i = m)
        <5> HIDE DEF k, h, T
        <5> QED BY <2>5, <3>1
      <4> HIDE DEF k, h, T
      <4>2. i = m => g[i] <= b + g[m]
        BY <2>8
      <4>3. i \in 1..k => g[i] <= b
        BY <2>9
      <4> QED BY <2>8, <4>1, <4>2, <4>3
    <3> QED BY <2>8, <3>1
  <2> QED BY <2>3, <2>10
<1> QED BY <1>1

LEMMA LargestOf ==
  ASSUME NEW S \in SUBSET Nat, S # {}, IsFiniteSet(S)
  PROVE  \E x \in S : \A y \in S : y <= x
<1>1. PICK n \in Nat : ExistsBijection(1..n, S)
  BY FS_NatBijection
<1>2. PICK f \in Bijection(1..n, S) : TRUE
  BY <1>1 DEF ExistsBijection
<1>3. f \in [1..n -> Nat] /\ \A y \in S : \E i \in 1..n : f[i] = y
  BY <1>2 DEF Bijection, Surjection, Injection
<1>4. PICK b \in Nat : \A i \in 1..n : f[i] <= b
  BY <1>3, FamilyBounded
<1> DEFINE B == {c \in Nat : \A y \in S : y <= c}
<1>5. b \in B /\ B \subseteq Nat
  BY <1>3, <1>4
<1>6. PICK x \in B : \A c \in B : x <= c
  <2> HIDE DEF B
  <2> QED BY <1>5, LeastOf
<1>7. x \in S
  <2>1. SUFFICES ASSUME x \notin S PROVE FALSE
    OBVIOUS
  <2>2. \A y \in S : y \in Nat /\ y <= x /\ y # x
    BY <1>6, <2>1
  <2>3. x # 0
    <3>1. PICK y \in S : TRUE
      OBVIOUS
    <3>2. y \in Nat /\ y <= x /\ y # x /\ x \in Nat
      BY <1>6, <2>2, <3>1
    <3> QED BY <3>2
  <2>4. x - 1 \in Nat /\ \A y \in S : y <= x - 1
    BY <2>2, <2>3, <1>6
  <2>5. x <= x - 1
    BY <1>6, <2>4
  <2> QED BY <2>5, <1>6
<1> QED BY <1>6, <1>7

-----------------------------------------------------------------------------
(* The routes of a volume.                                                 *)

Listing(at, k) == IF k = 1 THEN vol.roots ELSE vol.list[at[k - 1].node]

RouteLaw(f, r) == f = [k \in 1..Len(r) |-> Listing(f, k)[r[k]]]

LEMMA RouteIs ==
  ASSUME NEW r PROVE RouteEntry(r) = CHOOSE f : RouteLaw(f, r)
BY DEF RouteEntry, RouteLaw, Listing

LEMMA RouteExists ==
  ASSUME NEW r \in Seq(Nat) PROVE \E f : RouteLaw(f, r)
<1> DEFINE Law(f, n) == f = [k \in 1..n |-> Listing(f, k)[r[k]]]
           T == {n \in Nat : ~\E f : Law(f, n)}
<1>1. T = {}
  <2>1. SUFFICES ASSUME T # {} PROVE FALSE
    OBVIOUS
  <2>2. PICK n \in T : \A m \in T : n <= m
    <3>1. T \subseteq Nat
      OBVIOUS
    <3> HIDE DEF T
    <3> QED BY <2>1, <3>1, LeastOf
  <2>3. n # 0
    <3> DEFINE f == [k \in 1..0 |-> 0]
    <3>1. f = [k \in 1..0 |-> Listing(f, k)[r[k]]]
      OBVIOUS
    <3> HIDE DEF f
    <3> QED BY <2>2, <3>1
  <2> DEFINE p == n - 1
  <2>4. p \in Nat /\ n = p + 1 /\ p \notin T
    <3>1. n \in Nat
      BY <2>2
    <3>2. p \in Nat /\ n = p + 1 /\ ~(n <= p)
      BY <2>3, <3>1
    <3> HIDE DEF T, p
    <3> QED BY <2>2, <3>2
  <2>5. PICK g : Law(g, p)
    BY <2>4
  <2> HIDE DEF p
  <2> DEFINE f == [k \in 1..n |-> Listing(g, k)[r[k]]]
  <2>6. ASSUME NEW k \in 1..p PROVE f[k] = g[k]
    <3>1. g[k] = Listing(g, k)[r[k]]
      BY <2>5
    <3>2. k \in 1..n
      BY <2>4
    <3> QED BY <3>1, <3>2
  <2>7. ASSUME NEW k \in 1..n PROVE f[k] = Listing(f, k)[r[k]]
    <3>1. CASE k = 1
      BY <3>1 DEF Listing
    <3>2. CASE k # 1
      <4>1. k - 1 \in 1..p
        BY <2>4, <3>2
      <4>2. f[k - 1] = g[k - 1] /\ f[k] = Listing(g, k)[r[k]]
        BY <2>6, <4>1
      <4> HIDE DEF f
      <4> QED BY <3>2, <4>2 DEF Listing
    <3> QED BY <3>1, <3>2
  <2>8. Law(f, n)
    <3>1. DOMAIN f = 1..n /\ f = [k \in DOMAIN f |-> f[k]]
      OBVIOUS
    <3> HIDE DEF f
    <3> QED BY <2>7, <3>1
  <2> HIDE DEF f
  <2> QED BY <2>2, <2>8
<1>2. Len(r) \in Nat
  OBVIOUS
<1>3. \E f : Law(f, Len(r))
  BY <1>1, <1>2
<1> QED BY <1>3 DEF RouteLaw

(* What a route meets: at each step the entry its number picks.            *)
LEMMA RouteSteps ==
  ASSUME NEW r \in Seq(Nat)
  PROVE  \A k \in 1..Len(r) : RouteEntry(r)[k] = Listing(RouteEntry(r), k)[r[k]]
<1> DEFINE f == RouteEntry(r)
<1>1. RouteLaw(f, r)
  BY RouteIs, RouteExists
<1> HIDE DEF f
<1>2. \A k \in 1..Len(r) : f[k] = Listing(f, k)[r[k]]
  BY <1>1 DEF RouteLaw
<1> QED BY <1>2 DEF f

(* A route goes like the routes it begins with.                            *)
LEMMA RoutePrefix ==
  ASSUME NEW r \in Seq(Nat), NEW q \in Seq(Nat), NEW n \in Nat, n <= Len(r), n <= Len(q),
         \A k \in 1..n : q[k] = r[k]
  PROVE  \A k \in 1..n : RouteEntry(q)[k] = RouteEntry(r)[k]
<1> DEFINE f == RouteEntry(q)
           g == RouteEntry(r)
           T == {k \in 1..n : f[k] # g[k]}
<1>1. \A k \in 1..n : f[k] = Listing(f, k)[q[k]] /\ g[k] = Listing(g, k)[r[k]]
  <2>1. \A k \in 1..n : k \in 1..Len(r) /\ k \in 1..Len(q)
    OBVIOUS
  <2> QED BY <2>1, RouteSteps
<1> HIDE DEF f, g
<1>2. T = {}
  <2>1. SUFFICES ASSUME T # {} PROVE FALSE
    OBVIOUS
  <2>2. PICK k \in T : \A m \in T : k <= m
    <3>1. T \subseteq Nat
      OBVIOUS
    <3> HIDE DEF T
    <3> QED BY <2>1, <3>1, LeastOf
  <2>3. CASE k = 1
    BY <1>1, <2>2, <2>3 DEF Listing
  <2>4. CASE k # 1
    <3>1. k - 1 \in 1..n /\ ~(k <= k - 1)
      BY <2>2, <2>4
    <3>2. f[k - 1] = g[k - 1]
      BY <2>2, <3>1
    <3>3. f[k] = g[k]
      <4>1. k \in 1..n
        BY <2>2
      <4>2. Listing(f, k) = Listing(g, k)
        BY <2>4, <3>2 DEF Listing
      <4>3. f[k] = Listing(f, k)[q[k]] /\ g[k] = Listing(g, k)[r[k]] /\ q[k] = r[k]
        BY <1>1, <4>1
      <4> QED BY <4>2, <4>3
    <3> QED BY <2>2, <3>3
  <2> QED BY <2>3, <2>4
<1> QED BY <1>2 DEF f, g

(* Routes that begin alike meet the same entries.                          *)
LEMMA PrefixFacts ==
  ASSUME NEW r \in Seq(Nat), NEW q \in Seq(Nat), NEW n \in Nat, n <= Len(r), n <= Len(q),
         \A k \in 1..n : q[k] = r[k]
  PROVE  /\ \A k \in 1..n : RouteEntry(q)[k] = RouteEntry(r)[k]
         /\ \A k \in 1..(n + 1) : Listing(RouteEntry(q), k) = Listing(RouteEntry(r), k)
         /\ \A k \in 1..n : Opens(RouteEntry(q), k) = Opens(RouteEntry(r), k)
<1>1. \A k \in 1..n : RouteEntry(q)[k] = RouteEntry(r)[k]
  BY RoutePrefix
<1>2. ASSUME NEW k \in 1..(n + 1) PROVE Listing(RouteEntry(q), k) = Listing(RouteEntry(r), k)
  <2>1. k = 1 \/ k - 1 \in 1..n
    OBVIOUS
  <2> QED BY <1>1, <2>1 DEF Listing
<1>3. ASSUME NEW k \in 1..n PROVE Opens(RouteEntry(q), k) = Opens(RouteEntry(r), k)
  <2>1. \A j \in 1..(k - 1) : j \in 1..n
    OBVIOUS
  <2> QED BY <1>1, <2>1 DEF Opens
<1> QED BY <1>1, <1>2, <1>3

(* Step k of a route picks an entry of a directory the walk may open.      *)
Fits(r, k) ==
  /\ r[k] \in 1..Len(Listing(RouteEntry(r), k))
  /\ k > 1 => Opens(RouteEntry(r), k - 1)

IsRoute(r) ==
  r \in Seq(Nat) /\ Len(r) \in Positions /\ \A k \in 1..Len(r) : Fits(r, k)

LEMMA FitsPrefix ==
  ASSUME NEW r \in Seq(Nat), NEW q \in Seq(Nat), NEW n \in Nat, n <= Len(r), n <= Len(q),
         \A k \in 1..n : q[k] = r[k]
  PROVE  \A k \in 1..n : Fits(q, k) = Fits(r, k)
<1> SUFFICES ASSUME NEW k \in 1..n PROVE Fits(q, k) = Fits(r, k)
  OBVIOUS
<1>1. k \in 1..(n + 1) /\ (k > 1 => k - 1 \in 1..n) /\ q[k] = r[k]
  OBVIOUS
<1>2. Listing(RouteEntry(q), k) = Listing(RouteEntry(r), k)
  BY <1>1, PrefixFacts
<1>3. k > 1 => Opens(RouteEntry(q), k - 1) = Opens(RouteEntry(r), k - 1)
  BY <1>1, PrefixFacts
<1> QED BY <1>1, <1>2, <1>3 DEF Fits

LEMMA WidestIs ==
  ASSUME vol \in Volumes
  PROVE  /\ Widest \in Nat /\ Len(vol.roots) <= Widest
         /\ \A d \in Dirs : Len(vol.list[d]) <= Widest
<1>1. vol.roots \in Seq(Entry) /\ vol.list \in [Dirs -> Seq(Entry)]
  BY VolumeType
<1>2. IsFiniteSet({Len(vol.list[d]) : d \in Dirs})
  <2> DEFINE lens == [d \in Dirs |-> Len(vol.list[d])]
             seen == {Len(vol.list[d]) : d \in Dirs}
  <2>1. lens \in Surjection(Dirs, seen)
    BY DEF Surjection
  <2> HIDE DEF lens, seen
  <2>2. IsFiniteSet(seen)
    BY <2>1, FS_Surjection, SourceAssumption
  <2> QED BY <2>2 DEF seen
<1>3. IsFiniteSet({Len(vol.roots)})
  BY FS_Singleton
<1>4. IsFiniteSet(EntryCounts)
  BY <1>2, <1>3, FS_Union DEF EntryCounts
<1>5. EntryCounts \in SUBSET Nat /\ Len(vol.roots) \in EntryCounts
      /\ \A d \in Dirs : Len(vol.list[d]) \in EntryCounts
  BY <1>1 DEF EntryCounts
<1>6. \E n \in EntryCounts : \A m \in EntryCounts : m <= n
  BY <1>4, <1>5, LargestOf
<1>7. Widest \in EntryCounts /\ \A m \in EntryCounts : m <= Widest
  BY <1>6 DEF Widest
<1> QED BY <1>5, <1>7

RealStep(r) ==
  r[Len(r)] <= Len(IF Len(r) = 1 THEN vol.roots
                   ELSE IF Opens(RouteEntry(Front(r)), Len(r) - 1)
                        THEN vol.list[RouteEntry(Front(r))[Len(r) - 1].node] ELSE <<>>)

Grown(R) == {r \in {Append(q, i) : q \in R, i \in 1..Widest} : RealStep(r)}

UpLaw(f, n) == f = [m \in 0..n |-> IF m = 0 THEN {<<>>} ELSE Grown(f[m - 1])]

LEMMA RoutesUpTo ==
  Routes = UNION {(CHOOSE f : UpLaw(f, MaxDepth + 1))[n] : n \in Positions}
BY DEF Routes, UpLaw, Grown, RealStep

LEMMA UpToExists ==
  ASSUME NEW n \in Nat PROVE \E f : UpLaw(f, n)
<1> DEFINE T == {m \in Nat : ~\E f : UpLaw(f, m)}
<1>1. T = {}
  <2>1. SUFFICES ASSUME T # {} PROVE FALSE
    OBVIOUS
  <2>2. PICK m \in T : \A k \in T : m <= k
    <3>1. T \subseteq Nat
      OBVIOUS
    <3> HIDE DEF T
    <3> QED BY <2>1, <3>1, LeastOf
  <2>3. CASE m = 0
    <3> DEFINE f == [k \in 0..0 |-> {<<>>}]
    <3>1. f = [k \in 0..0 |-> IF k = 0 THEN {<<>>} ELSE Grown(f[k - 1])]
      OBVIOUS
    <3> HIDE DEF f
    <3>2. UpLaw(f, 0)
      BY <3>1 DEF UpLaw
    <3> QED BY <2>2, <2>3, <3>2
  <2>4. CASE m # 0
    <3> DEFINE p == m - 1
    <3>1. p \in Nat /\ m = p + 1 /\ p \notin T
      <4>1. m \in Nat
        BY <2>2
      <4>2. p \in Nat /\ m = p + 1 /\ ~(m <= p)
        BY <2>4, <4>1
      <4> HIDE DEF T, p
      <4> QED BY <2>2, <4>2
    <3>2. PICK g : UpLaw(g, p)
      BY <3>1
    <3> HIDE DEF p
    <3> DEFINE f == [k \in 0..m |-> IF k = 0 THEN {<<>>} ELSE Grown(g[k - 1])]
    <3>3. ASSUME NEW k \in 0..p PROVE f[k] = g[k]
      <4>1. g[k] = IF k = 0 THEN {<<>>} ELSE Grown(g[k - 1])
        BY <3>2 DEF UpLaw
      <4>2. k \in 0..m
        BY <3>1
      <4> QED BY <4>1, <4>2
    <3>4. ASSUME NEW k \in 0..m PROVE f[k] = IF k = 0 THEN {<<>>} ELSE Grown(f[k - 1])
      <4>1. CASE k = 0
        BY <4>1
      <4>2. CASE k # 0
        <5>1. k - 1 \in 0..p
          BY <3>1, <4>2
        <5>2. f[k - 1] = g[k - 1] /\ f[k] = Grown(g[k - 1])
          BY <3>3, <4>2, <5>1
        <5> HIDE DEF f
        <5> QED BY <4>2, <5>2
      <4> QED BY <4>1, <4>2
    <3>5. UpLaw(f, m)
      <4>1. DOMAIN f = 0..m /\ f = [k \in DOMAIN f |-> f[k]]
        OBVIOUS
      <4> HIDE DEF f
      <4> QED BY <3>4, <4>1 DEF UpLaw
    <3> QED BY <2>2, <3>5
  <2> QED BY <2>3, <2>4
<1> QED BY <1>1

(* A route with one step more.                                             *)
LEMMA RealStepIs ==
  ASSUME vol \in Volumes, NEW q \in Seq(Nat), NEW i \in Nat, i >= 1
  PROVE  RealStep(Append(q, i)) <=> Fits(Append(q, i), Len(q) + 1)
<1> DEFINE r == Append(q, i)
           n == Len(q) + 1
<1>1. r \in Seq(Nat) /\ Len(r) = n /\ r[n] = i /\ \A k \in 1..Len(q) : q[k] = r[k]
  BY AppendLast
<1>2. n \in Nat /\ Len(q) \in Nat /\ Len(q) <= Len(r) /\ Len(q) <= Len(q) /\ (n = 1 <=> Len(q) = 0)
  BY <1>1
<1>3. Front(r) = q
  BY FrontAppend
<1> HIDE DEF r
<1>4. /\ n \in 1..(Len(q) + 1)
      /\ Listing(RouteEntry(q), n) = Listing(RouteEntry(r), n)
  <2>1. n \in 1..(Len(q) + 1)
    BY <1>2
  <2>2. \A k \in 1..(Len(q) + 1) : Listing(RouteEntry(q), k) = Listing(RouteEntry(r), k)
    BY <1>1, <1>2, PrefixFacts
  <2> HIDE DEF n
  <2> QED BY <2>1, <2>2
<1>5. n > 1 => Opens(RouteEntry(q), Len(q)) = Opens(RouteEntry(r), Len(q))
  <2>1. n > 1 => Len(q) \in 1..Len(q)
    BY <1>2
  <2>2. \A k \in 1..Len(q) : Opens(RouteEntry(q), k) = Opens(RouteEntry(r), k)
    BY <1>1, <1>2, PrefixFacts
  <2> HIDE DEF n
  <2> QED BY <2>1, <2>2
<1>6. n - 1 = Len(q)
  BY <1>2
<1> HIDE DEF n
<1>7. CASE n = 1
  <2>1. RealStep(r) <=> (i <= Len(vol.roots))
    BY <1>1, <1>7 DEF RealStep
  <2>2. Fits(r, n) <=> (i \in 1..Len(vol.roots))
    <3>1. Listing(RouteEntry(r), n) = vol.roots /\ ~(n > 1)
      BY <1>7 DEF Listing
    <3>2. r[n] = i
      BY <1>1
    <3> QED BY <3>1, <3>2 DEF Fits
  <2>3. Len(vol.roots) \in Nat
    BY VolumeType
  <2>4. (i <= Len(vol.roots)) <=> (i \in 1..Len(vol.roots))
    BY <2>3
  <2> QED BY <2>1, <2>2, <2>4 DEF r, n
<1>8. CASE n # 1
  <2> DEFINE l == vol.list[RouteEntry(q)[Len(q)].node]
  <2>1. n > 1 /\ Listing(RouteEntry(r), n) = l
    BY <1>2, <1>4, <1>6, <1>8 DEF Listing
  <2>2. CASE Opens(RouteEntry(q), Len(q))
    <3>1. Len(l) \in Nat
      BY <2>2, VolumeType DEF Opens
    <3>2. RealStep(r) <=> (i <= Len(l))
      BY <1>1, <1>3, <1>6, <1>8, <2>2 DEF RealStep
    <3>3. Fits(r, n) <=> (i \in 1..Len(l))
      <4>1. Opens(RouteEntry(r), n - 1)
        BY <1>5, <1>6, <2>1, <2>2
      <4>2. Fits(r, n) <=> (i \in 1..Len(Listing(RouteEntry(r), n)))
        BY <1>1, <4>1 DEF Fits
      <4> QED BY <2>1, <4>2
    <3> HIDE DEF l
    <3>4. (i <= Len(l)) <=> (i \in 1..Len(l))
      BY <3>1
    <3> QED BY <3>2, <3>3, <3>4 DEF r, n
  <2>3. CASE ~Opens(RouteEntry(q), Len(q))
    <3>1. RealStep(r) <=> (i <= Len(<<>>))
      BY <1>1, <1>3, <1>6, <1>8, <2>3 DEF RealStep
    <3>2. ~RealStep(r)
      <4>1. Len(<<>>) = 0 /\ ~(i <= 0)
        OBVIOUS
      <4>2. ~(i <= Len(<<>>))
        BY <4>1
      <4> QED BY <3>1, <4>2
    <3>3. ~Fits(r, n)
      BY <1>5, <1>6, <2>1, <2>3 DEF Fits
    <3>4. RealStep(r) \in BOOLEAN /\ Fits(r, n) \in BOOLEAN
      BY DEF RealStep, Fits
    <3> QED BY <3>2, <3>3, <3>4 DEF r, n
  <2> QED BY <2>2, <2>3
<1> QED BY <1>7, <1>8

(* A route has up to MaxDepth + 1 steps.                                   *)
LEMMA PositionsAre ==
  /\ Positions \subseteq Nat \ {0} /\ Positions \subseteq 0..(MaxDepth + 1) /\ MaxDepth + 1 \in Nat
  /\ \A n \in Nat \ {0} : n \in Positions <=> n <= MaxDepth + 1
BY BoundAssumption DEF Positions

(* The recursion over lengths gives the sequences each step of which fits. *)
LEMMA RoutesAre ==
  ASSUME vol \in Volumes, NEW r
  PROVE  r \in Routes <=> IsRoute(r)
<1> DEFINE f == CHOOSE g : UpLaw(g, MaxDepth + 1)
           Right(n) == \A s : s \in f[n] <=> s \in Seq(Nat) /\ Len(s) = n /\ \A k \in 1..n : Fits(s, k)
           T == {n \in 0..(MaxDepth + 1) : ~Right(n)}
<1>1. UpLaw(f, MaxDepth + 1)
  BY PositionsAre, UpToExists
<1>2. Routes = UNION {f[n] : n \in Positions}
  BY RoutesUpTo
<1> HIDE DEF f
<1>3. \A n \in 0..(MaxDepth + 1) : f[n] = IF n = 0 THEN {<<>>} ELSE Grown(f[n - 1])
  BY <1>1 DEF UpLaw
<1>4. T = {}
  <2>1. SUFFICES ASSUME T # {} PROVE FALSE
    OBVIOUS
  <2>2. PICK n \in T : \A k \in T : n <= k
    <3>1. T \subseteq Nat
      BY PositionsAre
    <3> HIDE DEF T
    <3> QED BY <2>1, <3>1, LeastOf
  <2>3. n \in 0..(MaxDepth + 1) /\ n \in Nat /\ ~Right(n)
    BY <2>2, PositionsAre
  <2>4. n # 0
    <3>1. SUFFICES ASSUME n = 0 PROVE FALSE
      OBVIOUS
    <3>2. f[0] = {<<>>}
      BY <1>3, <2>3, <3>1
    <3>3. \A s : s = <<>> <=> s \in Seq(Nat) /\ Len(s) = 0
      BY EmptySeq
    <3>4. Right(0)
      BY <3>2, <3>3
    <3> QED BY <2>3, <3>1, <3>4
  <2> DEFINE p == n - 1
  <2>5. p \in 0..(MaxDepth + 1) /\ p \in Nat /\ n = p + 1 /\ ~(n <= p)
    <3>1. n \in Nat /\ n <= MaxDepth + 1
      BY <2>3, PositionsAre
    <3> QED BY <2>4, <3>1, PositionsAre
  <2>6. Right(p)
    BY <2>2, <2>5
  <2>7. f[n] = Grown(f[p])
    BY <1>3, <2>3, <2>4
  <2> HIDE DEF p, T
  <2>8. ASSUME NEW s, s \in f[n]
        PROVE  s \in Seq(Nat) /\ Len(s) = n /\ \A k \in 1..n : Fits(s, k)
    <3>1. PICK q \in f[p], i \in 1..Widest : s = Append(q, i) /\ RealStep(s)
      BY <2>7, <2>8 DEF Grown
    <3>2. q \in Seq(Nat) /\ Len(q) = p /\ \A k \in 1..p : Fits(q, k)
      BY <2>6, <3>1
    <3>3. i \in Nat /\ i >= 1
      BY <3>1, WidestIs
    <3>4. s \in Seq(Nat) /\ Len(s) = n /\ \A k \in 1..p : s[k] = q[k]
      BY <2>5, <3>1, <3>2, <3>3, AppendLast
    <3>5. \A k \in 1..p : Fits(s, k)
      <4>1. p <= Len(s) /\ p <= Len(q)
        BY <2>5, <3>2, <3>4
      <4>2. \A k \in 1..p : Fits(s, k) = Fits(q, k)
        BY <2>5, <3>2, <3>4, <4>1, FitsPrefix
      <4> QED BY <3>2, <4>2
    <3>6. Fits(s, n)
      BY <2>5, <3>1, <3>2, <3>3, RealStepIs
    <3>7. \A k \in 1..n : k \in 1..p \/ k = n
      BY <2>5
    <3> QED BY <3>4, <3>5, <3>6, <3>7
  <2>9. ASSUME NEW s \in Seq(Nat), Len(s) = n, \A k \in 1..n : Fits(s, k)
        PROVE  s \in f[n]
    <3> DEFINE q == Front(s)
               i == s[n]
    <3>1. s # <<>>
      BY <2>4, <2>9
    <3>2. q \in Seq(Nat) /\ Len(q) = p /\ \A k \in 1..p : q[k] = s[k]
      <4>1. Len(s) - 1 = p
        BY <2>5, <2>9
      <4>2. /\ Front(s) \in Seq(Nat) /\ Len(Front(s)) = Len(s) - 1
            /\ \A k \in 1..(Len(s) - 1) : Front(s)[k] = s[k]
        BY <2>9, <3>1, FrontLast
      <4> QED BY <4>1, <4>2
    <3>3. n \in 1..n
      BY <2>3, <2>4
    <3>4. i \in 1..Len(Listing(RouteEntry(s), n)) /\ (n > 1 => Opens(RouteEntry(s), n - 1))
      BY <2>9, <3>3 DEF Fits
    <3> HIDE DEF q
    <3>5. i \in 1..Widest
      <4>1. i \in Nat /\ i >= 1
        BY <2>9, <3>3, <3>4
      <4>2. CASE n = 1
        <5>1. Listing(RouteEntry(s), n) = vol.roots
          BY <4>2 DEF Listing
        <5>2. Len(vol.roots) \in Nat
          BY VolumeType
        <5> QED BY <3>4, <4>1, <5>1, <5>2, WidestIs
      <4>3. CASE n # 1
        <5> DEFINE d == RouteEntry(s)[n - 1].node
        <5>1. Opens(RouteEntry(s), n - 1) /\ Listing(RouteEntry(s), n) = vol.list[d]
          BY <2>3, <2>4, <3>4, <4>3 DEF Listing
        <5>2. d \in Dirs
          BY <5>1 DEF Opens
        <5> HIDE DEF d
        <5>3. Len(vol.list[d]) \in Nat
          BY <5>2, VolumeType
        <5> QED BY <3>4, <4>1, <5>1, <5>2, <5>3, WidestIs
      <4> QED BY <4>2, <4>3
    <3>6. s = Append(q, i)
      <4>1. s = Append(q, i) <=> /\ Len(s) = Len(Append(q, i))
                                 /\ \A k \in 1..Len(s) : s[k] = Append(q, i)[k]
        <5>1. i \in Nat
          BY <2>9, <3>3
        <5>2. Append(q, i) \in Seq(Nat)
          BY <3>2, <5>1
        <5> HIDE DEF i
        <5> QED BY <5>2, <2>9, SeqEqual
      <4>2. i \in Nat
        BY <2>9, <3>3
      <4>3. /\ Len(Append(q, i)) = n /\ Append(q, i)[n] = i
            /\ \A k \in 1..p : Append(q, i)[k] = q[k]
        BY <2>5, <3>2, <4>2, AppendLast
      <4>4. \A k \in 1..n : k \in 1..p \/ k = n
        BY <2>5
      <4>5. i = s[n]
        OBVIOUS
      <4> HIDE DEF i
      <4> QED BY <2>9, <3>2, <4>1, <4>3, <4>4, <4>5
    <3>7. q \in f[p]
      <4>1. p <= Len(s) /\ p <= Len(q)
        BY <2>5, <2>9, <3>2
      <4>2. \A k \in 1..p : Fits(q, k) = Fits(s, k)
        BY <2>5, <2>9, <3>2, <4>1, FitsPrefix
      <4>3. \A k \in 1..p : k \in 1..n
        BY <2>5
      <4> QED BY <2>6, <2>9, <3>2, <4>2, <4>3
    <3>8. RealStep(s)
      <4>1. i \in Nat /\ i >= 1
        BY <3>5, WidestIs
      <4>2. RealStep(Append(q, i)) <=> Fits(Append(q, i), Len(q) + 1)
        BY <3>2, <4>1, RealStepIs
      <4>3. Fits(s, n) /\ Len(q) + 1 = n
        BY <2>5, <2>9, <3>2, <3>3
      <4> HIDE DEF i
      <4> QED BY <3>6, <4>2, <4>3
    <3> HIDE DEF i
    <3> QED BY <2>7, <3>5, <3>6, <3>7, <3>8 DEF Grown
  <2>10. Right(n)
    BY <2>8, <2>9
  <2> QED BY <2>3, <2>10
<1>5. \A n \in Positions : Right(n) /\ n \in Nat /\ n # 0
  BY <1>4, PositionsAre
<1> HIDE DEF T
<1> QED BY <1>2, <1>5 DEF IsRoute

-----------------------------------------------------------------------------
(* Cursors.  The numbers of the entries the open activations are at, from  *)
(* the list of roots down, cut the routes in two: those before the cursor  *)
(* or at it are done, the others are to come.                              *)

DoneBy(c, r) ==
  \E k \in 1..Len(c) :
    /\ k <= Len(r) /\ \A j \in 1..(k - 1) : r[j] = c[j]
    /\ r[k] < c[k] \/ (k = Len(c) /\ r[k] = c[k])

Begins(q, r) == Len(q) <= Len(r) /\ \A j \in 1..Len(q) : r[j] = q[j]

(* One entry further: the routes through that entry are new.               *)
LEMMA CursorForward ==
  ASSUME NEW c \in Seq(Nat), NEW q \in Seq(Nat), NEW r \in Seq(Nat), NEW n \in Nat,
         Len(c) = n + 1, Len(q) = n + 1, \A j \in 1..n : q[j] = c[j], q[n + 1] = c[n + 1] + 1
  PROVE  /\ DoneBy(q, r) <=> DoneBy(c, r) \/ Begins(q, r)
         /\ Begins(q, r) => ~DoneBy(c, r)
<1>1. \A k \in 1..(n + 1) : c[k] \in Nat /\ q[k] \in Nat /\ (k = n + 1 \/ k \in 1..n)
  OBVIOUS
<1>2. \A k \in 1..Len(r) : r[k] \in Nat
  OBVIOUS
<1>3. ASSUME NEW k \in 1..(n + 1), k <= Len(r), \A j \in 1..(k - 1) : r[j] = q[j],
             r[k] < q[k] \/ (k = n + 1 /\ r[k] = q[k])
      PROVE  DoneBy(c, r) \/ Begins(q, r)
  <2>1. \A j \in 1..(k - 1) : j \in 1..n
    OBVIOUS
  <2>2. \A j \in 1..(k - 1) : r[j] = c[j]
    BY <1>3, <2>1
  <2>3. r[k] \in Nat /\ c[k] \in Nat /\ q[k] \in Nat
    BY <1>1, <1>2, <1>3
  <2>4. CASE k # n + 1
    <3>1. q[k] = c[k] /\ r[k] < c[k]
      BY <1>1, <1>3, <2>4
    <3> QED BY <1>3, <2>2, <3>1 DEF DoneBy
  <2>5. CASE k = n + 1 /\ r[k] < q[k]
    <3>1. r[k] < c[k] \/ r[k] = c[k]
      BY <2>3, <2>5
    <3> QED BY <1>3, <2>2, <2>5, <3>1 DEF DoneBy
  <2>6. CASE k = n + 1 /\ r[k] = q[k]
    <3>1. \A j \in 1..(n + 1) : r[j] = q[j]
      <4>1. \A j \in 1..(n + 1) : j \in 1..(k - 1) \/ j = k
        BY <2>6
      <4> QED BY <1>3, <2>6, <4>1
    <3> QED BY <1>3, <2>6, <3>1 DEF Begins
  <2> QED BY <1>3, <2>4, <2>5, <2>6
<1>4. ASSUME NEW k \in 1..(n + 1), k <= Len(r), \A j \in 1..(k - 1) : r[j] = c[j],
             r[k] < c[k] \/ (k = n + 1 /\ r[k] = c[k])
      PROVE  DoneBy(q, r) /\ ~Begins(q, r)
  <2>1. \A j \in 1..(k - 1) : j \in 1..n
    OBVIOUS
  <2>2. \A j \in 1..(k - 1) : r[j] = q[j]
    BY <1>4, <2>1
  <2>3. r[k] \in Nat /\ c[k] \in Nat /\ q[k] \in Nat
    BY <1>1, <1>2, <1>4
  <2>4. r[k] < q[k]
    <3>1. CASE k = n + 1
      BY <1>4, <2>3, <3>1
    <3>2. CASE k # n + 1
      BY <1>1, <1>4, <3>2
    <3> QED BY <3>1, <3>2
  <2>5. DoneBy(q, r)
    BY <1>4, <2>2, <2>4 DEF DoneBy
  <2>6. r[k] # q[k]
    BY <2>3, <2>4
  <2> QED BY <2>5, <2>6 DEF Begins
<1>5. DoneBy(q, r) => DoneBy(c, r) \/ Begins(q, r)
  BY <1>3 DEF DoneBy
<1>6. DoneBy(c, r) => DoneBy(q, r) /\ ~Begins(q, r)
  BY <1>4 DEF DoneBy
<1>7. ASSUME Begins(q, r) PROVE DoneBy(q, r)
  <2>1. n + 1 \in 1..(n + 1) /\ n + 1 <= Len(r) /\ r[n + 1] = q[n + 1]
        /\ \A j \in 1..(n + 1 - 1) : r[j] = q[j]
    BY <1>7 DEF Begins
  <2> QED BY <2>1 DEF DoneBy
<1> QED BY <1>5, <1>6, <1>7

(* Into the entry, a directory: nothing below it is done yet.              *)
MovesDown(c, q, d, n) ==
  /\ n \in Nat /\ c \in Seq(Nat) /\ q \in Seq(Nat) /\ d \in Seq(Nat)
  /\ Len(c) = n + 1 /\ Len(q) = n + 1 /\ Len(d) = n + 2
  /\ \A j \in 1..n : q[j] = c[j]
  /\ q[n + 1] = c[n + 1] + 1
  /\ \A j \in 1..(n + 1) : d[j] = q[j]
  /\ d[n + 2] = 0

LEMMA CursorDown ==
  ASSUME NEW c, NEW q, NEW d, NEW n, MovesDown(c, q, d, n),
         NEW r \in Seq(Nat), \A k \in 1..Len(r) : r[k] # 0
  PROVE  DoneBy(d, r) <=> DoneBy(c, r)
<1> USE DEF MovesDown
<1>1. \A k \in 1..(n + 1) : c[k] \in Nat /\ q[k] \in Nat /\ d[k] \in Nat /\ (k = n + 1 \/ k \in 1..n)
  OBVIOUS
<1>2. \A k \in 1..Len(r) : r[k] \in Nat
  OBVIOUS
<1>3. ASSUME NEW k \in 1..(n + 2), k <= Len(r), \A j \in 1..(k - 1) : r[j] = d[j],
             r[k] < d[k] \/ (k = n + 2 /\ r[k] = d[k])
      PROVE  DoneBy(c, r)
  <2>1. r[k] \in Nat /\ r[k] # 0
    BY <1>2, <1>3
  <2>2. k # n + 2
    BY <1>3, <2>1
  <2>3. k \in 1..(n + 1) /\ \A j \in 1..(k - 1) : j \in 1..n
    BY <2>2
  <2>4. \A j \in 1..(k - 1) : r[j] = c[j]
    <3>1. \A j \in 1..n : j \in 1..(n + 1)
      OBVIOUS
    <3> QED BY <1>3, <2>3, <3>1
  <2>5. r[k] < q[k] /\ c[k] \in Nat /\ q[k] \in Nat
    BY <1>1, <1>3, <2>2, <2>3
  <2>6. r[k] < c[k] \/ (k = n + 1 /\ r[k] = c[k])
    <3>1. CASE k = n + 1
      <4>1. r[k] < c[k] + 1
        BY <2>5, <3>1
      <4> QED BY <2>1, <2>5, <3>1, <4>1
    <3>2. CASE k # n + 1
      <4>1. k \in 1..n
        BY <2>3, <3>2
      <4>2. q[k] = c[k]
        BY <4>1
      <4> QED BY <2>5, <4>2
    <3> QED BY <3>1, <3>2
  <2> QED BY <1>3, <2>3, <2>4, <2>6 DEF DoneBy
<1>4. ASSUME NEW k \in 1..(n + 1), k <= Len(r), \A j \in 1..(k - 1) : r[j] = c[j],
             r[k] < c[k] \/ (k = n + 1 /\ r[k] = c[k])
      PROVE  DoneBy(d, r)
  <2>1. r[k] \in Nat /\ c[k] \in Nat /\ q[k] \in Nat /\ d[k] = q[k]
    BY <1>1, <1>2, <1>4
  <2>2. \A j \in 1..(k - 1) : j \in 1..n /\ j \in 1..(n + 1)
    OBVIOUS
  <2>3. \A j \in 1..(k - 1) : r[j] = d[j]
    BY <1>4, <2>2
  <2>4. r[k] < d[k]
    <3>1. CASE k = n + 1
      BY <1>4, <2>1, <3>1
    <3>2. CASE k # n + 1
      BY <1>1, <1>4, <2>1, <3>2
    <3> QED BY <3>1, <3>2
  <2>5. k \in 1..(n + 2)
    OBVIOUS
  <2> QED BY <1>4, <2>3, <2>4, <2>5 DEF DoneBy
<1>5. DoneBy(d, r) => DoneBy(c, r)
  BY <1>3 DEF DoneBy
<1>6. DoneBy(c, r) => DoneBy(d, r)
  BY <1>4 DEF DoneBy
<1> QED BY <1>5, <1>6

(* Out of a directory: all below it is done, and it is done itself.        *)
LEMMA CursorUp ==
  ASSUME NEW c \in Seq(Nat), NEW u \in Seq(Nat), NEW r \in Seq(Nat), NEW n \in Nat \ {0},
         Len(c) = n + 1, Len(u) = n, \A j \in 1..n : u[j] = c[j]
  PROVE  /\ DoneBy(c, r) => DoneBy(u, r)
         /\ DoneBy(u, r) =>
              \/ DoneBy(c, r)
              \/ Begins(u, r) /\ (Len(r) = n \/ (Len(r) >= n + 1 /\ r[n + 1] > c[n + 1]))
<1>1. \A k \in 1..(n + 1) : c[k] \in Nat /\ (k = n + 1 \/ (k \in 1..n /\ u[k] \in Nat /\ u[k] = c[k]))
  OBVIOUS
<1>2. \A k \in 1..Len(r) : r[k] \in Nat
  OBVIOUS
<1>3. ASSUME NEW k \in 1..(n + 1), k <= Len(r), \A j \in 1..(k - 1) : r[j] = c[j],
             r[k] < c[k] \/ (k = n + 1 /\ r[k] = c[k])
      PROVE  DoneBy(u, r)
  <2>1. CASE k = n + 1
    <3>1. n \in 1..n /\ n <= Len(r) /\ r[n] = u[n]
      <4>1. n \in 1..n /\ n \in 1..(k - 1)
        BY <2>1
      <4> QED BY <1>3, <2>1, <4>1
    <3>2. \A j \in 1..(n - 1) : r[j] = u[j]
      <4>1. \A j \in 1..(n - 1) : j \in 1..(k - 1) /\ j \in 1..n
        BY <2>1
      <4> QED BY <1>3, <4>1
    <3> QED BY <3>1, <3>2 DEF DoneBy
  <2>2. CASE k # n + 1
    <3>1. k \in 1..n /\ r[k] < u[k]
      BY <1>1, <1>3, <2>2
    <3>2. \A j \in 1..(k - 1) : r[j] = u[j]
      <4>1. \A j \in 1..(k - 1) : j \in 1..n
        BY <3>1
      <4> QED BY <1>3, <4>1
    <3> QED BY <1>3, <3>1, <3>2 DEF DoneBy
  <2> QED BY <2>1, <2>2
<1>4. ASSUME NEW k \in 1..n, k <= Len(r), \A j \in 1..(k - 1) : r[j] = u[j],
             r[k] < u[k] \/ (k = n /\ r[k] = u[k])
      PROVE  \/ DoneBy(c, r)
             \/ Begins(u, r) /\ (Len(r) = n \/ (Len(r) >= n + 1 /\ r[n + 1] > c[n + 1]))
  <2>1. \A j \in 1..(k - 1) : r[j] = c[j]
    <3>1. \A j \in 1..(k - 1) : j \in 1..n
      OBVIOUS
    <3> QED BY <1>4, <3>1
  <2>2. CASE r[k] < u[k]
    <3>1. k \in 1..(n + 1) /\ r[k] < c[k]
      BY <2>2
    <3> QED BY <1>4, <2>1, <3>1 DEF DoneBy
  <2>3. CASE k = n /\ r[k] = u[k]
    <3>1. \A j \in 1..n : r[j] = u[j]
      <4>1. \A j \in 1..n : j \in 1..(k - 1) \/ j = k
        BY <2>3
      <4> QED BY <1>4, <2>3, <4>1
    <3>2. Begins(u, r)
      BY <1>4, <2>3, <3>1 DEF Begins
    <3>3. Len(r) \in Nat
      OBVIOUS
    <3>4. ASSUME Len(r) # n, ~(r[n + 1] > c[n + 1]) PROVE DoneBy(c, r)
      <4>1. n + 1 <= Len(r) /\ n + 1 \in 1..(n + 1)
        BY <1>4, <2>3, <3>3, <3>4
      <4>2. r[n + 1] \in Nat /\ c[n + 1] \in Nat
        BY <1>1, <1>2, <4>1
      <4>3. r[n + 1] < c[n + 1] \/ r[n + 1] = c[n + 1]
        BY <3>4, <4>2
      <4>4. \A j \in 1..(n + 1 - 1) : r[j] = c[j]
        BY <3>1
      <4> DEFINE m == n + 1
      <4>5. m \in 1..Len(c) /\ m <= Len(r) /\ m = Len(c)
        BY <4>1
      <4>6. (\A j \in 1..(m - 1) : r[j] = c[j]) /\ (r[m] < c[m] \/ r[m] = c[m])
        BY <4>3, <4>4
      <4> HIDE DEF m
      <4> QED BY <4>5, <4>6 DEF DoneBy
    <3> QED BY <1>4, <2>3, <3>2, <3>3, <3>4
  <2> QED BY <1>4, <2>2, <2>3
<1>5. DoneBy(c, r) => DoneBy(u, r)
  BY <1>3 DEF DoneBy
<1>6. DoneBy(u, r) => \/ DoneBy(c, r)
                      \/ Begins(u, r) /\ (Len(r) = n \/ (Len(r) >= n + 1 /\ r[n + 1] > c[n + 1]))
  BY <1>4 DEF DoneBy
<1> QED BY <1>5, <1>6

(* What the open activations iterate over, what they have left of it, and  *)
(* the cursor that makes; level 1 is the loop over the ticked roots.       *)
LevelList(v, st, k) == IF k = 1 THEN v.roots ELSE v.list[st[k - 1].dir]

LevelRest(js, st, k) == IF k = 1 THEN js ELSE st[k - 1].rest

Cursor(v, js, st) ==
  [k \in 1..(Len(st) + 1) |-> Len(LevelList(v, st, k)) - Len(LevelRest(js, st, k))]

Suffix(t, s) == Len(t) <= Len(s) /\ \A i \in 1..Len(t) : t[i] = s[Len(s) - Len(t) + i]

(* Every activation is on the directory its caller's cursor is at.         *)
PathOK(v, js, st) ==
  /\ \A k \in 1..(Len(st) + 1) : Suffix(LevelRest(js, st, k), LevelList(v, st, k))
  /\ \A k \in 1..Len(st) :
       /\ Cursor(v, js, st)[k] >= 1
       /\ LevelList(v, st, k)[Cursor(v, js, st)[k]].node = st[k].dir
       /\ st[k].ident = v.ident[st[k].dir]

LEMMA LevelTypes ==
  ASSUME vol \in Volumes, NEW js \in Seq(Entry), NEW st \in Seq(Frame), NEW k \in 1..(Len(st) + 1)
  PROVE  LevelList(vol, st, k) \in Seq(Entry) /\ LevelRest(js, st, k) \in Seq(Entry)
<1>1. CASE k = 1
  BY <1>1, VolumeType DEF LevelList, LevelRest
<1>2. CASE k # 1
  <2>1. k - 1 \in 1..Len(st)
    BY <1>2
  <2>2. st[k - 1] \in Frame
    BY <2>1
  <2>3. st[k - 1].dir \in Dirs /\ st[k - 1].rest \in Seq(Entry)
    BY <2>2 DEF Frame
  <2> QED BY <1>2, <2>3, VolumeType DEF LevelList, LevelRest
<1> QED BY <1>1, <1>2

LEMMA CursorType ==
  ASSUME vol \in Volumes, NEW js \in Seq(Entry), NEW st \in Seq(Frame), PathOK(vol, js, st)
  PROVE  /\ Cursor(vol, js, st) \in Seq(Nat) /\ Len(Cursor(vol, js, st)) = Len(st) + 1
         /\ \A k \in 1..(Len(st) + 1) :
              Cursor(vol, js, st)[k] = Len(LevelList(vol, st, k)) - Len(LevelRest(js, st, k))
<1> DEFINE c == Cursor(vol, js, st)
           n == Len(st) + 1
<1>1. n \in Nat /\ DOMAIN c = 1..n
  BY DEF Cursor
<1>2. \A k \in 1..n : c[k] = Len(LevelList(vol, st, k)) - Len(LevelRest(js, st, k))
  BY DEF Cursor
<1>3. ASSUME NEW k \in 1..n PROVE c[k] \in Nat
  <2> DEFINE a == Len(LevelList(vol, st, k))
             b == Len(LevelRest(js, st, k))
  <2>1. a \in Nat /\ b \in Nat
    BY LevelTypes
  <2>2. b <= a
    BY DEF PathOK, Suffix
  <2>3. c[k] = a - b
    BY <1>2
  <2> HIDE DEF a, b, c
  <2> QED BY <2>1, <2>2, <2>3
<1>4. c \in [1..n -> Nat]
  <2>1. c = [k \in 1..n |-> c[k]]
    BY DEF Cursor
  <2> HIDE DEF c
  <2> QED BY <1>3, <2>1
<1>5. c \in Seq(Nat) /\ Len(c) = n
  <2> HIDE DEF c, n
  <2> QED BY <1>1, <1>4
<1> QED BY <1>2, <1>5

(* A route that begins like the cursor leads through the open directories. *)
LEMMA PathRoute ==
  ASSUME vol \in Volumes, NEW js \in Seq(Entry), NEW st \in Seq(Frame), PathOK(vol, js, st),
         NEW s \in Seq(Nat), Len(s) >= Len(st),
         \A k \in 1..Len(st) : s[k] = Cursor(vol, js, st)[k]
  PROVE  /\ \A k \in 1..Len(st) : RouteEntry(s)[k].node = st[k].dir
         /\ \A k \in 1..(Len(st) + 1) : Listing(RouteEntry(s), k) = LevelList(vol, st, k)
<1> DEFINE n == Len(st)
           at == RouteEntry(s)
           T == {k \in 1..n : at[k].node # st[k].dir}
<1>1. n \in Nat /\ Len(s) \in Nat
  OBVIOUS
<1>2. \A k \in 1..n : at[k] = Listing(at, k)[s[k]]
  BY <1>1, RouteSteps
<1> HIDE DEF at
<1>3. T = {}
  <2>1. SUFFICES ASSUME T # {} PROVE FALSE
    OBVIOUS
  <2>2. PICK k \in T : \A m \in T : k <= m
    <3>1. T \subseteq Nat
      OBVIOUS
    <3> HIDE DEF T
    <3> QED BY <2>1, <3>1, LeastOf
  <2>3. k \in 1..n /\ at[k].node # st[k].dir
    BY <2>2
  <2>4. Listing(at, k) = LevelList(vol, st, k)
    <3>1. CASE k = 1
      BY <3>1 DEF Listing, LevelList
    <3>2. CASE k # 1
      <4>1. k - 1 \in 1..n /\ ~(k <= k - 1)
        BY <2>3, <3>2
      <4>2. at[k - 1].node = st[k - 1].dir
        BY <2>2, <4>1
      <4> QED BY <3>2, <4>2 DEF Listing, LevelList
    <3> QED BY <3>1, <3>2
  <2>5. at[k] = LevelList(vol, st, k)[Cursor(vol, js, st)[k]]
    BY <1>2, <2>3, <2>4
  <2>6. at[k].node = st[k].dir
    BY <2>3, <2>5 DEF PathOK
  <2> QED BY <2>3, <2>6
<1>4. \A k \in 1..n : at[k].node = st[k].dir
  BY <1>3
<1>5. ASSUME NEW k \in 1..(n + 1) PROVE Listing(at, k) = LevelList(vol, st, k)
  <2>1. k = 1 \/ k - 1 \in 1..n
    BY <1>1
  <2> HIDE DEF T, n
  <2> QED BY <1>4, <2>1 DEF Listing, LevelList
<1> QED BY <1>4, <1>5 DEF at

LEMMA PathFits ==
  ASSUME vol \in Volumes, NEW js \in Seq(Entry), NEW st \in Seq(Frame), PathOK(vol, js, st),
         KnownOnce(st), NEW s \in Seq(Nat), Len(s) >= Len(st),
         \A k \in 1..Len(st) : s[k] = Cursor(vol, js, st)[k]
  PROVE  \A k \in 1..Len(st) : Opens(RouteEntry(s), k) /\ Fits(s, k)
<1> DEFINE n == Len(st)
           at == RouteEntry(s)
<1>1. n \in Nat /\ \A k \in 1..n : at[k].node = st[k].dir
  BY PathRoute
<1>2. \A k \in 1..n : Listing(at, k) = LevelList(vol, st, k)
  <2>1. \A k \in 1..n : k \in 1..(Len(st) + 1)
    OBVIOUS
  <2> QED BY <2>1, PathRoute
<1> HIDE DEF at
<1>3. ASSUME NEW k \in 1..n PROVE Opens(at, k)
  <2>1. st[k] \in Frame
    OBVIOUS
  <2>2. st[k].dir \in Dirs
    BY <2>1 DEF Frame
  <2>3. ASSUME NEW j \in 1..(k - 1), Ident(at[j].node) # 0
        PROVE  Ident(at[j].node) # Ident(at[k].node)
    <3>1. j \in 1..n /\ j # k /\ j \in DOMAIN st /\ k \in DOMAIN st
      OBVIOUS
    <3>2. st[j].ident = Ident(at[j].node) /\ st[k].ident = Ident(at[k].node)
      BY <1>1, <3>1 DEF PathOK, Ident
    <3> QED BY <2>3, <3>1, <3>2 DEF KnownOnce
  <2> QED BY <1>1, <2>2, <2>3 DEF Opens
<1>4. ASSUME NEW k \in 1..n PROVE Fits(s, k)
  <2>1. s[k] \in 1..Len(LevelList(vol, st, k))
    <3> DEFINE a == Len(LevelList(vol, st, k))
               b == Len(LevelRest(js, st, k))
               c == Cursor(vol, js, st)[k]
    <3>1. k \in 1..(Len(st) + 1)
      OBVIOUS
    <3>2. a \in Nat /\ b \in Nat
      BY <3>1, LevelTypes
    <3>3. c = a - b /\ c >= 1 /\ s[k] = c
      BY <3>1, CursorType DEF PathOK
    <3> HIDE DEF a, b, c
    <3>4. s[k] \in 1..a
      BY <3>2, <3>3
    <3> QED BY <3>4 DEF a
  <2>2. k > 1 => k - 1 \in 1..n
    OBVIOUS
  <2> QED BY <1>2, <1>3, <2>1, <2>2 DEF Fits, at
<1> QED BY <1>3, <1>4 DEF at

-----------------------------------------------------------------------------
(* Steps of the cursor.                                                    *)

LEMMA RestParts ==
  ASSUME NEW f \in Frame, NEW r \in Seq(Entry)
  PROVE  /\ [f EXCEPT !.rest = r] \in Frame
         /\ [f EXCEPT !.rest = r].dir = f.dir /\ [f EXCEPT !.rest = r].ident = f.ident
         /\ [f EXCEPT !.rest = r].rest = r
BY DEF Frame

LEMMA ConsumedDirs ==
  ASSUME stack \in Seq(Frame), stack # <<>>, Last(stack).rest # <<>>
  PROVE  /\ Consumed \in Seq(Frame) /\ Len(Consumed) = Len(stack)
         /\ \A i \in 1..Len(stack) : Consumed[i].dir = stack[i].dir /\ Consumed[i].ident = stack[i].ident
         /\ \A i \in 1..(Len(stack) - 1) : Consumed[i].rest = stack[i].rest
         /\ Consumed[Len(stack)].rest = Tail(stack[Len(stack)].rest)
<1> DEFINE n == Len(stack)
           f == Front(stack)
           top == [Last(stack) EXCEPT !.rest = Tail(@)]
<1>1. n \in Nat /\ n > 0 /\ Last(stack) = stack[n]
  BY DEF Last
<1>2. f \in Seq(Frame) /\ Len(f) = n - 1 /\ (\A i \in 1..(n - 1) : f[i] = stack[i]) /\ stack[n] \in Frame
  BY <1>1, FrontLast
<1>3. /\ top \in Frame /\ top.dir = stack[n].dir /\ top.ident = stack[n].ident
      /\ top.rest = Tail(stack[n].rest)
  <2>1. stack[n].rest \in Seq(Entry) /\ stack[n].rest # <<>>
    BY <1>1, <1>2 DEF Frame
  <2>2. Tail(stack[n].rest) \in Seq(Entry)
    BY <2>1
  <2>3. top = [stack[n] EXCEPT !.rest = Tail(stack[n].rest)]
    BY <1>1
  <2> HIDE DEF top
  <2> QED BY <1>2, <2>2, <2>3, RestParts
<1>4. Consumed = Append(f, top)
  BY DEF Consumed
<1> HIDE DEF f, top
<1>5. /\ Append(f, top) \in Seq(Frame) /\ Len(Append(f, top)) = Len(f) + 1
      /\ \A i \in 1..Len(f) : Append(f, top)[i] = f[i]
      /\ Append(f, top)[Len(f) + 1] = top
  BY <1>2, <1>3, AppendLast
<1>6. Len(f) + 1 = n /\ \A i \in 1..n : i = n \/ i \in 1..(n - 1)
  BY <1>1, <1>2
<1> HIDE DEF n
<1>7. Consumed \in Seq(Frame) /\ Len(Consumed) = n /\ Consumed[n] = top
      /\ \A i \in 1..(n - 1) : Consumed[i] = stack[i]
  BY <1>2, <1>4, <1>5, <1>6
<1>8. \A i \in 1..n : Consumed[i].dir = stack[i].dir /\ Consumed[i].ident = stack[i].ident
  BY <1>3, <1>6, <1>7
<1> QED BY <1>3, <1>7, <1>8 DEF n

JobsLeft == IF stack = <<>> THEN Tail(jobs) ELSE jobs

LEMMA ConsumeLevels ==
  ASSUME stack \in Seq(Frame), jobs \in Seq(Entry), Pending # <<>>
  PROVE  /\ Consumed \in Seq(Frame) /\ Len(Consumed) = Len(stack) /\ JobsLeft \in Seq(Entry)
         /\ \A i \in 1..Len(stack) : Consumed[i].dir = stack[i].dir /\ Consumed[i].ident = stack[i].ident
         /\ \A k \in 1..(Len(stack) + 1) : LevelList(vol, Consumed, k) = LevelList(vol, stack, k)
         /\ \A k \in 1..Len(stack) : LevelRest(JobsLeft, Consumed, k) = LevelRest(jobs, stack, k)
         /\ LevelRest(JobsLeft, Consumed, Len(stack) + 1) = Tail(Pending)
         /\ LevelRest(jobs, stack, Len(stack) + 1) = Pending
<1> DEFINE n == Len(stack)
<1>1. CASE stack = <<>>
  <2>1. n = 0 /\ Consumed = stack /\ Pending = jobs /\ JobsLeft = Tail(jobs)
    BY <1>1 DEF Consumed, Pending, JobsLeft
  <2>2. Tail(jobs) \in Seq(Entry) /\ n + 1 = 1
    BY <2>1
  <2> QED BY <2>1, <2>2 DEF LevelRest
<1>2. CASE stack # <<>>
  <2>1. n \in Nat /\ n > 0 /\ Pending = stack[n].rest /\ JobsLeft = jobs /\ Last(stack).rest # <<>>
    BY <1>2 DEF Pending, JobsLeft, Last
  <2>2. /\ Consumed \in Seq(Frame) /\ Len(Consumed) = n
        /\ \A i \in 1..n : Consumed[i].dir = stack[i].dir /\ Consumed[i].ident = stack[i].ident
        /\ \A i \in 1..(n - 1) : Consumed[i].rest = stack[i].rest
        /\ Consumed[n].rest = Tail(stack[n].rest)
    BY <1>2, <2>1, ConsumedDirs
  <2>3. \A k \in 1..(n + 1) : k = 1 \/ k - 1 \in 1..n
    BY <2>1
  <2>4. \A k \in 1..n : k = 1 \/ k - 1 \in 1..(n - 1)
    BY <2>1
  <2>5. n + 1 # 1 /\ (n + 1) - 1 = n
    BY <2>1
  <2> HIDE DEF n
  <2>6. \A k \in 1..(n + 1) : LevelList(vol, Consumed, k) = LevelList(vol, stack, k)
    BY <2>2, <2>3 DEF LevelList
  <2>7. \A k \in 1..n : LevelRest(JobsLeft, Consumed, k) = LevelRest(jobs, stack, k)
    BY <2>1, <2>2, <2>4 DEF LevelRest
  <2>8. LevelRest(JobsLeft, Consumed, n + 1) = Tail(Pending) /\ LevelRest(jobs, stack, n + 1) = Pending
    BY <2>1, <2>2, <2>5 DEF LevelRest
  <2> QED BY <2>1, <2>2, <2>6, <2>7, <2>8 DEF n
<1> QED BY <1>1, <1>2

LEMMA TailSuffix ==
  ASSUME NEW S, NEW t \in Seq(S), NEW s \in Seq(S), t # <<>>, Suffix(t, s)
  PROVE  /\ Suffix(Tail(t), s) /\ Len(Tail(t)) = Len(t) - 1
         /\ Len(s) - Len(t) + 1 \in 1..Len(s)
         /\ s[Len(s) - Len(t) + 1] = Head(t)
<1> DEFINE u == Tail(t)
           a == Len(s)
           b == Len(t)
<1>1. a \in Nat /\ b \in Nat /\ b >= 1 /\ b <= a
  BY DEF Suffix
<1>2. u \in Seq(S) /\ Len(u) = b - 1 /\ \A i \in 1..(b - 1) : u[i] = t[i + 1]
  OBVIOUS
<1>3. \A i \in 1..b : t[i] = s[a - b + i]
  BY DEF Suffix
<1>4. Head(t) = t[1]
  OBVIOUS
<1> HIDE DEF u, a, b
<1>5. 1 \in 1..b /\ a - b + 1 \in 1..a
  BY <1>1
<1>6. s[a - b + 1] = Head(t)
  BY <1>3, <1>4, <1>5
<1>7. ASSUME NEW i \in 1..(b - 1) PROVE u[i] = s[a - (b - 1) + i]
  <2>1. i + 1 \in 1..b /\ a - b + (i + 1) = a - (b - 1) + i
    BY <1>1
  <2> QED BY <1>2, <1>3, <2>1
<1>8. Len(u) <= a /\ \A i \in 1..Len(u) : u[i] = s[a - Len(u) + i]
  BY <1>1, <1>2, <1>7
<1> QED BY <1>2, <1>5, <1>6, <1>8 DEF u, a, b, Suffix

LEMMA ConsumePath ==
  ASSUME vol \in Volumes, stack \in Seq(Frame), jobs \in Seq(Entry), PathOK(vol, jobs, stack), Pending # <<>>
  PROVE  LET n == Len(stack)
             c == Cursor(vol, jobs, stack)
             q == Cursor(vol, JobsLeft, Consumed)
         IN  /\ PathOK(vol, JobsLeft, Consumed)
             /\ \A k \in 1..n : q[k] = c[k]
             /\ q[n + 1] = c[n + 1] + 1
             /\ q[n + 1] \in 1..Len(LevelList(vol, stack, n + 1))
             /\ LevelList(vol, stack, n + 1)[q[n + 1]] = Head(Pending)
<1> DEFINE n == Len(stack)
           c == Cursor(vol, jobs, stack)
           q == Cursor(vol, JobsLeft, Consumed)
           l == LevelList(vol, stack, n + 1)
<1>1. n \in Nat /\ \A k \in 1..(n + 1) : k \in 1..n \/ k = n + 1
  OBVIOUS
<1>2. \A k \in 1..(n + 1) : c[k] = Len(LevelList(vol, stack, k)) - Len(LevelRest(jobs, stack, k))
  BY DEF Cursor
<1>3. \A k \in 1..(n + 1) : q[k] = Len(LevelList(vol, Consumed, k)) - Len(LevelRest(JobsLeft, Consumed, k))
  <2>1. Len(Consumed) = n
    BY ConsumeLevels
  <2> QED BY <2>1 DEF Cursor
<1>4. l \in Seq(Entry) /\ Pending \in Seq(Entry) /\ Suffix(Pending, l)
  <2>1. n + 1 \in 1..(Len(stack) + 1)
    BY <1>1
  <2>2. LevelRest(jobs, stack, n + 1) = Pending
    BY ConsumeLevels
  <2> QED BY <2>1, <2>2, LevelTypes DEF PathOK
<1>5. /\ Suffix(Tail(Pending), l) /\ Len(Tail(Pending)) = Len(Pending) - 1
      /\ Len(l) - Len(Pending) + 1 \in 1..Len(l)
      /\ l[Len(l) - Len(Pending) + 1] = Head(Pending)
  BY <1>4, TailSuffix
<1>6. /\ Len(Consumed) = n /\ \A i \in 1..n : Consumed[i].dir = stack[i].dir /\ Consumed[i].ident = stack[i].ident
      /\ \A k \in 1..(n + 1) : LevelList(vol, Consumed, k) = LevelList(vol, stack, k)
      /\ \A k \in 1..n : LevelRest(JobsLeft, Consumed, k) = LevelRest(jobs, stack, k)
      /\ LevelRest(JobsLeft, Consumed, n + 1) = Tail(Pending)
      /\ LevelRest(jobs, stack, n + 1) = Pending
  BY ConsumeLevels
<1>7. /\ \A k \in 1..(n + 1) : Suffix(LevelRest(jobs, stack, k), LevelList(vol, stack, k))
      /\ \A k \in 1..n :
            /\ c[k] >= 1
            /\ LevelList(vol, stack, k)[c[k]].node = stack[k].dir
            /\ stack[k].ident = vol.ident[stack[k].dir]
  BY DEF PathOK
<1>8. Len(l) \in Nat /\ Len(Pending) \in Nat /\ Len(Pending) <= Len(l)
  BY <1>4 DEF Suffix
<1>9. l = LevelList(vol, Consumed, n + 1) /\ n + 1 \in 1..(n + 1)
  BY <1>1, <1>6
<1> DEFINE OK == PathOK(vol, JobsLeft, Consumed)
<1>10. OK <=> /\ \A k \in 1..(n + 1) : Suffix(LevelRest(JobsLeft, Consumed, k), LevelList(vol, Consumed, k))
              /\ \A k \in 1..n :
                   /\ q[k] >= 1
                   /\ LevelList(vol, Consumed, k)[q[k]].node = Consumed[k].dir
                   /\ Consumed[k].ident = vol.ident[Consumed[k].dir]
  BY <1>6 DEF PathOK
<1> HIDE DEF n, c, q, OK
<1>11. \A k \in 1..n : k \in 1..(n + 1)
  BY <1>1
<1>12. \A k \in 1..n : q[k] = c[k]
  BY <1>2, <1>3, <1>6, <1>11
<1>13. q[n + 1] = Len(l) - (Len(Pending) - 1) /\ c[n + 1] = Len(l) - Len(Pending)
  BY <1>2, <1>3, <1>5, <1>6, <1>9
<1>14. q[n + 1] = c[n + 1] + 1 /\ q[n + 1] = Len(l) - Len(Pending) + 1
  BY <1>8, <1>13
<1>15. ASSUME NEW k \in 1..(n + 1)
       PROVE  Suffix(LevelRest(JobsLeft, Consumed, k), LevelList(vol, Consumed, k))
  <2>1. CASE k \in 1..n
    BY <1>6, <1>7, <2>1
  <2>2. CASE k = n + 1
    BY <1>5, <1>6, <1>9, <2>2
  <2> QED BY <1>1, <2>1, <2>2
<1>16. OK
  BY <1>6, <1>7, <1>10, <1>11, <1>12, <1>15
<1> QED BY <1>5, <1>12, <1>14, <1>16 DEF n, c, q, OK

(* A route goes on beyond q only through a directory q ends in and opens.  *)
LEMMA RouteBeyond ==
  ASSUME NEW q \in Seq(Nat), Len(q) > 0, NEW r, IsRoute(r), Begins(q, r)
  PROVE  /\ Len(r) <= MaxDepth + 1
         /\ r = q \/ (Len(r) >= Len(q) + 1 /\ Opens(RouteEntry(q), Len(q)) /\ r[Len(q) + 1] >= 1
                      /\ r[Len(q) + 1] <= Len(vol.list[EndOf(q)]))
<1> DEFINE m == Len(q)
<1>1. r \in Seq(Nat) /\ Len(r) \in Positions /\ m \in Nat /\ Len(r) \in Nat /\ m <= Len(r)
      /\ \A j \in 1..m : r[j] = q[j]
  BY DEF IsRoute, Begins
<1>2. Len(r) <= MaxDepth + 1
  BY <1>1, BoundAssumption DEF Positions
<1> DEFINE further == /\ Len(r) >= Len(q) + 1 /\ Opens(RouteEntry(q), Len(q)) /\ r[Len(q) + 1] >= 1
                      /\ r[Len(q) + 1] <= Len(vol.list[EndOf(q)])
<1>3. ASSUME Len(r) = m PROVE r = q
  <2>1. r = [k \in 1..m |-> r[k]] /\ q = [k \in 1..m |-> q[k]]
    BY <1>1, <1>3
  <2> HIDE DEF m
  <2> QED BY <1>1, <2>1
<1>4. ASSUME Len(r) # m PROVE further
  <2>1. m + 1 \in 1..Len(r) /\ m + 1 > 1 /\ (m + 1) - 1 = m /\ m + 1 # 1
    BY <1>1, <1>4
  <2>2. Fits(r, m + 1)
    BY <2>1 DEF IsRoute
  <2>3. r[m + 1] \in 1..Len(Listing(RouteEntry(r), m + 1)) /\ Opens(RouteEntry(r), m)
    <3> HIDE DEF m
    <3> QED BY <2>1, <2>2 DEF Fits
  <2>4. \A k \in 1..m : RouteEntry(r)[k] = RouteEntry(q)[k]
    BY <1>1, RoutePrefix
  <2>5. Listing(RouteEntry(r), m + 1) = vol.list[EndOf(q)]
    <3>1. Listing(RouteEntry(r), m + 1) = vol.list[RouteEntry(r)[m].node]
      <4> HIDE DEF m
      <4> QED BY <2>1 DEF Listing
    <3>2. m \in 1..m
      BY <1>1
    <3>3. EndOf(q) = RouteEntry(q)[m].node
      BY DEF EndOf
    <3> HIDE DEF m
    <3> QED BY <2>4, <3>1, <3>2, <3>3
  <2>6. Opens(RouteEntry(q), m)
    <3>1. m \in 1..m /\ \A j \in 1..(m - 1) : j \in 1..m
      BY <1>1
    <3> HIDE DEF m
    <3> QED BY <2>3, <2>4, <3>1 DEF Opens
  <2>7. r[m + 1] >= 1 /\ r[m + 1] <= Len(vol.list[EndOf(q)])
    <3> DEFINE b == Len(vol.list[EndOf(q)])
    <3>1. r[m + 1] \in 1..b /\ r[m + 1] \in Nat
      BY <1>1, <2>1, <2>3, <2>5
    <3> HIDE DEF b, m
    <3>2. r[m + 1] >= 1 /\ r[m + 1] <= b
      BY <3>1
    <3> QED BY <3>2 DEF b
  <2>8. Len(r) >= m + 1
    BY <2>1
  <2> QED BY <2>6, <2>7, <2>8
<1> HIDE DEF further, m
<1>5. r = q \/ further
  BY <1>3, <1>4
<1> QED BY <1>2, <1>5 DEF further

(* A file, a directory not entered and a directory too deep end the route. *)
LEMMA RouteEnds ==
  ASSUME NEW q \in Seq(Nat), Len(q) > 0,
         Opens(RouteEntry(q), Len(q)) => Len(q) > MaxDepth,
         NEW r, IsRoute(r)
  PROVE  Begins(q, r) <=> r = q
<1>1. CASE r = q
  BY <1>1 DEF Begins
<1>2. ASSUME Begins(q, r) PROVE r = q
  <2>1. MaxDepth \in Nat /\ Len(q) \in Nat /\ Len(r) \in Nat
    BY BoundAssumption DEF IsRoute
  <2>2. Len(r) <= MaxDepth + 1
    BY <1>2, RouteBeyond
  <2>3. r = q \/ (Len(r) >= Len(q) + 1 /\ Opens(RouteEntry(q), Len(q)))
    BY <1>2, RouteBeyond
  <2> QED BY <2>1, <2>2, <2>3
<1> QED BY <1>1, <1>2

(* The entry the walk visits next is at the end of a route of its own.     *)
LEMMA VisitRoute ==
  ASSUME vol \in Volumes, stack \in Seq(Frame), jobs \in Seq(Entry), ancestors \in Seq(Nat),
         PathOK(vol, jobs, stack), LoopFree, Pending # <<>>
  PROVE  LET n == Len(stack)
             q == Cursor(vol, JobsLeft, Consumed)
         IN  /\ q \in Seq(Nat) /\ Len(q) = n + 1
             /\ IsRoute(q)
             /\ EndOf(q) = Head(Pending).node
             /\ Opens(RouteEntry(q), n + 1) <=> EndOf(q) \in Dirs /\ ~OnPath(EndOf(q))
<1> DEFINE n == Len(stack)
           c == Cursor(vol, jobs, stack)
           q == Cursor(vol, JobsLeft, Consumed)
           l == LevelList(vol, stack, n + 1)
           at == RouteEntry(q)
<1>1. /\ PathOK(vol, JobsLeft, Consumed)
      /\ \A k \in 1..n : q[k] = c[k]
      /\ q[n + 1] = c[n + 1] + 1
      /\ q[n + 1] \in 1..Len(l)
      /\ l[q[n + 1]] = Head(Pending)
  BY ConsumePath
<1>2. q \in Seq(Nat) /\ Len(q) = n + 1
  <2>1. Consumed \in Seq(Frame) /\ JobsLeft \in Seq(Entry) /\ Len(Consumed) = n
    BY ConsumeLevels
  <2> QED BY <1>1, <2>1, CursorType
<1>3. n \in Nat /\ n <= MaxDepth /\ MaxDepth \in Nat /\ KnownOnce(stack) /\ Matches(ancestors, stack)
  BY BoundAssumption DEF LoopFree
<1>4. Len(q) >= n
  BY <1>2, <1>3
<1>5. /\ \A k \in 1..n : at[k].node = stack[k].dir
      /\ \A k \in 1..(n + 1) : Listing(at, k) = LevelList(vol, stack, k)
  BY <1>1, <1>2, <1>4, PathRoute
<1>6. \A k \in 1..n : Opens(at, k) /\ Fits(q, k)
  BY <1>1, <1>2, <1>3, <1>4, PathFits
<1>7. at[n + 1] = Head(Pending)
  <2>1. n + 1 \in 1..Len(q) /\ n + 1 \in 1..(n + 1)
    BY <1>2, <1>3
  <2>2. at[n + 1] = Listing(at, n + 1)[q[n + 1]]
    BY <1>2, <2>1, RouteSteps
  <2> QED BY <1>1, <1>5, <2>1, <2>2
<1>8. EndOf(q) = Head(Pending).node
  BY <1>2, <1>7 DEF EndOf
<1> HIDE DEF c, q, l
<1>9. Fits(q, n + 1)
  <2>1. n + 1 > 1 => n \in 1..n /\ (n + 1) - 1 = n
    BY <1>3
  <2>2. Listing(at, n + 1) = l /\ n + 1 \in 1..(n + 1)
    BY <1>3, <1>5 DEF l
  <2> HIDE DEF n
  <2>3. q[n + 1] \in 1..Len(Listing(RouteEntry(q), n + 1))
    BY <1>1, <2>2
  <2>4. n + 1 > 1 => Opens(RouteEntry(q), (n + 1) - 1)
    BY <1>6, <2>1
  <2> QED BY <2>3, <2>4 DEF Fits
<1>10. IsRoute(q)
  <2>1. n + 1 \in Positions
    BY <1>3 DEF Positions
  <2>2. \A k \in 1..(n + 1) : k \in 1..n \/ k = n + 1
    BY <1>3
  <2> HIDE DEF n
  <2> QED BY <1>2, <1>6, <1>9, <2>1, <2>2 DEF IsRoute
<1>11. Opens(at, n + 1) <=> EndOf(q) \in Dirs /\ ~OnPath(EndOf(q))
  <2> DEFINE d == EndOf(q)
  <2>1. at[n + 1].node = d
    BY <1>7, <1>8
  <2>2. (n + 1) - 1 = n
    BY <1>3
  <2>3. \A j \in 1..n : Ident(at[j].node) = stack[j].ident
    BY <1>5 DEF PathOK, Ident
  <2>4. ASSUME d \in Dirs, Ident(d) # 0
        PROVE  Ident(d) \in Range(ancestors) <=> \E j \in 1..n : stack[j].ident = Ident(d)
    <3>1. PICK f \in [DOMAIN ancestors -> DOMAIN stack] :
            /\ \A k \in DOMAIN ancestors : ancestors[k] = stack[f[k]].ident
            /\ {f[k] : k \in DOMAIN ancestors} = {i \in DOMAIN stack : stack[i].ident # 0}
      BY <1>3 DEF Matches
    <3>2. DOMAIN stack = 1..n
      OBVIOUS
    <3>3. ASSUME Ident(d) \in Range(ancestors) PROVE \E j \in 1..n : stack[j].ident = Ident(d)
      <4>1. PICK k \in DOMAIN ancestors : ancestors[k] = Ident(d)
        BY <3>3 DEF Range
      <4>2. f[k] \in 1..n /\ stack[f[k]].ident = Ident(d)
        BY <3>1, <3>2, <4>1
      <4> QED BY <4>2
    <3>4. ASSUME NEW j \in 1..n, stack[j].ident = Ident(d) PROVE Ident(d) \in Range(ancestors)
      <4>1. j \in {i \in DOMAIN stack : stack[i].ident # 0}
        BY <2>4, <3>2, <3>4
      <4>2. PICK k \in DOMAIN ancestors : f[k] = j
        BY <3>1, <4>1
      <4>3. ancestors[k] = Ident(d)
        BY <3>1, <3>4, <4>2
      <4> QED BY <4>3 DEF Range
    <3> QED BY <3>3, <3>4
  <2> HIDE DEF d, at, n
  <2>5. Opens(at, n + 1) <=> /\ d \in Dirs
                             /\ \A j \in 1..n : Ident(at[j].node) # 0 => Ident(at[j].node) # Ident(d)
    BY <2>1, <2>2 DEF Opens
  <2>6. Opens(at, n + 1) <=> d \in Dirs /\ \A j \in 1..n : stack[j].ident # 0 => stack[j].ident # Ident(d)
    BY <2>3, <2>5
  <2>7. Opens(at, n + 1) <=> d \in Dirs /\ ~OnPath(d)
    BY <2>4, <2>6 DEF OnPath
  <2> QED BY <2>7 DEF d
<1> QED BY <1>2, <1>8, <1>10, <1>11 DEF q

LEMMA RouteKinds ==
  ASSUME vol \in Volumes, NEW r
  PROVE  /\ r \in FileRoutes <=> IsRoute(r) /\ EndOf(r) \in Files
         /\ r \in RefusedRoutes <=> /\ IsRoute(r) /\ EndOf(r) \in Dirs
                                    /\ Len(r) > MaxDepth \/ ~Opens(RouteEntry(r), Len(r))
<1>1. r \in Routes <=> IsRoute(r)
  BY RoutesAre
<1> QED BY <1>1 DEF FileRoutes, RefusedRoutes

LEMMA RoutePositive ==
  ASSUME NEW r, IsRoute(r)
  PROVE  r \in Seq(Nat) /\ Len(r) >= 1 /\ \A k \in 1..Len(r) : r[k] >= 1
<1>1. r \in Seq(Nat) /\ Len(r) \in Positions /\ \A k \in 1..Len(r) : Fits(r, k)
  BY DEF IsRoute
<1>2. Len(r) >= 1
  BY <1>1 DEF Positions
<1>3. ASSUME NEW k \in 1..Len(r) PROVE r[k] >= 1
  <2>1. r[k] \in 1..Len(Listing(RouteEntry(r), k)) /\ r[k] \in Nat
    BY <1>1 DEF Fits
  <2> QED BY <2>1
<1> QED BY <1>1, <1>2, <1>3

(* The routes the walk has dealt with when its cursor is c.                *)
DoneFiles(c) == {r \in FileRoutes : DoneBy(c, r)}
DoneRefused(c) == {r \in RefusedRoutes : DoneBy(c, r)}

LEMMA SameDone ==
  ASSUME vol \in Volumes, NEW c, NEW d,
         \A r : IsRoute(r) /\ ~(EndOf(r) \in Dirs /\ Len(r) <= MaxDepth /\ Opens(RouteEntry(r), Len(r)))
                => (DoneBy(d, r) <=> DoneBy(c, r))
  PROVE  DoneFiles(d) = DoneFiles(c) /\ DoneRefused(d) = DoneRefused(c)
<1>1. ASSUME NEW r \in FileRoutes PROVE DoneBy(d, r) <=> DoneBy(c, r)
  <2>1. IsRoute(r) /\ EndOf(r) \in Files
    BY RouteKinds
  <2> QED BY <2>1, SourceAssumption
<1>2. ASSUME NEW r \in RefusedRoutes PROVE DoneBy(d, r) <=> DoneBy(c, r)
  <2>1. IsRoute(r) /\ (Len(r) > MaxDepth \/ ~Opens(RouteEntry(r), Len(r)))
    BY RouteKinds
  <2>2. Len(r) \in Nat /\ MaxDepth \in Nat
    BY <2>1, BoundAssumption DEF IsRoute
  <2> QED BY <2>1, <2>2
<1> QED BY <1>1, <1>2 DEF DoneFiles, DoneRefused

(* Visiting a file, or refusing a directory, is done with one route more.  *)
LEMMA VisitDone ==
  ASSUME vol \in Volumes, stack \in Seq(Frame), jobs \in Seq(Entry), ancestors \in Seq(Nat),
         PathOK(vol, jobs, stack), LoopFree, Pending # <<>>,
         Head(Pending).node \in Files \/ (Head(Pending).node \in Dirs /\ Refused(Head(Pending).node))
  PROVE  LET c == Cursor(vol, jobs, stack)
             q == Cursor(vol, JobsLeft, Consumed)
         IN  /\ q \notin DoneFiles(c) /\ q \notin DoneRefused(c)
             /\ Head(Pending).node \in Files =>
                  DoneFiles(q) = DoneFiles(c) \cup {q} /\ DoneRefused(q) = DoneRefused(c)
             /\ Head(Pending).node \in Dirs =>
                  DoneFiles(q) = DoneFiles(c) /\ DoneRefused(q) = DoneRefused(c) \cup {q}
<1> DEFINE n == Len(stack)
           c == Cursor(vol, jobs, stack)
           q == Cursor(vol, JobsLeft, Consumed)
           e == Head(Pending).node
<1>1. /\ q \in Seq(Nat) /\ Len(q) = n + 1 /\ IsRoute(q) /\ EndOf(q) = e
      /\ Opens(RouteEntry(q), n + 1) <=> e \in Dirs /\ ~OnPath(e)
  BY VisitRoute
<1>2. c \in Seq(Nat) /\ Len(c) = n + 1
  BY CursorType
<1>3. (\A k \in 1..n : q[k] = c[k]) /\ q[n + 1] = c[n + 1] + 1
  BY ConsumePath
<1>4. n \in Nat /\ MaxDepth \in Nat
  BY BoundAssumption
<1>5. e \in Dirs => OnPath(e) \/ n >= MaxDepth
  BY SourceAssumption DEF Refused
<1> HIDE DEF n, c, q, e
<1>6. Opens(RouteEntry(q), Len(q)) => Len(q) > MaxDepth
  BY <1>1, <1>4, <1>5
<1>7. ASSUME NEW r, IsRoute(r)
      PROVE  (DoneBy(q, r) <=> DoneBy(c, r) \/ r = q) /\ (r = q => ~DoneBy(c, r))
  <2>1. r \in Seq(Nat)
    BY <1>7 DEF IsRoute
  <2>2. (DoneBy(q, r) <=> DoneBy(c, r) \/ Begins(q, r)) /\ (Begins(q, r) => ~DoneBy(c, r))
    BY <1>1, <1>2, <1>3, <1>4, <2>1, CursorForward
  <2>3. q \in Seq(Nat) /\ Len(q) > 0
    BY <1>1, <1>4
  <2>4. \A x : IsRoute(x) => (Begins(q, x) <=> x = q)
    BY ONLY <1>6, <2>3, RouteEnds
  <2>5. Begins(q, r) <=> r = q
    BY <1>7, <2>4
  <2> QED BY <2>2, <2>5
<1>8. ~DoneBy(c, q)
  BY <1>1, <1>7
<1>9. /\ \A r \in FileRoutes : DoneBy(q, r) <=> DoneBy(c, r) \/ r = q
      /\ \A r \in RefusedRoutes : DoneBy(q, r) <=> DoneBy(c, r) \/ r = q
  BY <1>7, RouteKinds
<1>10. DoneBy(q, q)
  BY <1>1, <1>7
<1>11. CASE e \in Files
  <2>1. q \in FileRoutes /\ q \notin RefusedRoutes
    BY <1>1, <1>11, RouteKinds, SourceAssumption
  <2>2. DoneFiles(q) = DoneFiles(c) \cup {q} /\ DoneRefused(q) = DoneRefused(c)
    BY <1>9, <1>10, <2>1 DEF DoneFiles, DoneRefused
  <2> QED BY <1>8, <1>11, <2>2, SourceAssumption DEF DoneFiles, DoneRefused, c, q, e
<1>12. CASE e \in Dirs
  <2>1. Len(q) > MaxDepth \/ ~Opens(RouteEntry(q), Len(q))
    BY <1>6
  <2>2. q \in RefusedRoutes
    BY <1>1, <1>12, <2>1, RouteKinds
  <2>3. q \notin FileRoutes
    BY <1>1, <1>12, RouteKinds, SourceAssumption
  <2>4. DoneRefused(q) = DoneRefused(c) \cup {q} /\ DoneFiles(q) = DoneFiles(c)
    BY <1>9, <1>10, <2>2, <2>3 DEF DoneFiles, DoneRefused
  <2> QED BY <1>8, <1>12, <2>4, SourceAssumption DEF DoneFiles, DoneRefused, c, q, e
<1> QED BY <1>11, <1>12 DEF e

(* One activation more: opening the directory the cursor moved to.         *)
LEMMA OpenDone ==
  ASSUME vol \in Volumes, stack \in Seq(Frame), jobs \in Seq(Entry), ancestors \in Seq(Nat),
         PathOK(vol, jobs, stack), LoopFree, Pending # <<>>,
         NEW f \in Frame, f.dir = Head(Pending).node, f.ident = vol.ident[f.dir],
         f.rest = vol.list[f.dir]
  PROVE  /\ PathOK(vol, JobsLeft, Append(Consumed, f))
         /\ DoneFiles(Cursor(vol, JobsLeft, Append(Consumed, f))) = DoneFiles(Cursor(vol, jobs, stack))
         /\ DoneRefused(Cursor(vol, JobsLeft, Append(Consumed, f))) = DoneRefused(Cursor(vol, jobs, stack))
<1> DEFINE n == Len(stack)
           t == Append(Consumed, f)
           c == Cursor(vol, jobs, stack)
           q == Cursor(vol, JobsLeft, Consumed)
           d == Cursor(vol, JobsLeft, t)
<1>1. /\ PathOK(vol, JobsLeft, Consumed)
      /\ \A k \in 1..n : q[k] = c[k]
      /\ q[n + 1] = c[n + 1] + 1
      /\ q[n + 1] \in 1..Len(LevelList(vol, stack, n + 1))
      /\ LevelList(vol, stack, n + 1)[q[n + 1]] = Head(Pending)
  BY ConsumePath
<1>2. /\ Consumed \in Seq(Frame) /\ Len(Consumed) = n /\ JobsLeft \in Seq(Entry) /\ n \in Nat
      /\ \A k \in 1..(n + 1) : LevelList(vol, Consumed, k) = LevelList(vol, stack, k)
  BY ConsumeLevels
<1>3. t \in Seq(Frame) /\ Len(t) = n + 1 /\ t[n + 1] = f /\ \A i \in 1..n : t[i] = Consumed[i]
  <2> HIDE DEF n
  <2> QED BY <1>2, AppendLast
<1>4. /\ \A k \in 1..(n + 1) : LevelList(vol, t, k) = LevelList(vol, Consumed, k)
                               /\ LevelRest(JobsLeft, t, k) = LevelRest(JobsLeft, Consumed, k)
      /\ LevelList(vol, t, n + 2) = vol.list[f.dir] /\ LevelRest(JobsLeft, t, n + 2) = f.rest
  <2>1. \A k \in 1..(n + 1) : k = 1 \/ k - 1 \in 1..n
    BY <1>2
  <2>2. n + 2 # 1 /\ (n + 2) - 1 = n + 1
    BY <1>2
  <2> HIDE DEF n, t
  <2> QED BY <1>3, <2>1, <2>2 DEF LevelList, LevelRest
<1>5. vol.list[f.dir] \in Seq(Entry) /\ f.rest = vol.list[f.dir]
  <2>1. f.dir \in Dirs
    BY DEF Frame
  <2> QED BY <2>1, VolumeType
<1>6. (\A k \in 1..(n + 1) : q[k] = Len(LevelList(vol, Consumed, k)) - Len(LevelRest(JobsLeft, Consumed, k)))
      /\ q \in Seq(Nat) /\ Len(q) = n + 1
  BY <1>1, <1>2, CursorType
<1>7. \A k \in 1..(n + 2) : d[k] = Len(LevelList(vol, t, k)) - Len(LevelRest(JobsLeft, t, k))
  <2>1. Len(t) + 1 = n + 2
    BY <1>2, <1>3
  <2> HIDE DEF t
  <2> QED BY <2>1 DEF Cursor
<1>8. (\A k \in 1..(n + 1) : d[k] = q[k]) /\ d[n + 2] = 0
  <2>1. n + 2 \in 1..(n + 2) /\ \A k \in 1..(n + 1) : k \in 1..(n + 2)
    BY <1>2
  <2>2. Len(vol.list[f.dir]) - Len(vol.list[f.dir]) = 0
    BY <1>5
  <2> HIDE DEF n, t, d, q
  <2>3. \A k \in 1..(n + 1) : d[k] = q[k]
    BY <1>4, <1>6, <1>7, <2>1
  <2> QED BY <1>4, <1>5, <1>7, <2>1, <2>2, <2>3
<1>9. PathOK(vol, JobsLeft, t)
  <2> DEFINE OK == PathOK(vol, JobsLeft, t)
  <2>1. \A k \in 1..(n + 2) : k \in 1..(n + 1) \/ k = n + 2
    BY <1>2
  <2>2. \A k \in 1..(n + 1) : (k \in 1..n /\ k \in 1..(n + 1)) \/ k = n + 1
    BY <1>2
  <2>3. Len(t) + 1 = n + 2
    BY <1>2, <1>3
  <2>4. OK <=> /\ \A k \in 1..(n + 2) : Suffix(LevelRest(JobsLeft, t, k), LevelList(vol, t, k))
               /\ \A k \in 1..(n + 1) :
                   /\ d[k] >= 1
                   /\ LevelList(vol, t, k)[d[k]].node = t[k].dir
                   /\ t[k].ident = vol.ident[t[k].dir]
    BY <1>3, <2>3 DEF PathOK
  <2>5. /\ \A k \in 1..(n + 1) : Suffix(LevelRest(JobsLeft, Consumed, k), LevelList(vol, Consumed, k))
        /\ \A k \in 1..n :
             /\ q[k] >= 1
             /\ LevelList(vol, Consumed, k)[q[k]].node = Consumed[k].dir
             /\ Consumed[k].ident = vol.ident[Consumed[k].dir]
    BY <1>1, <1>2 DEF PathOK
  <2>6. Suffix(f.rest, vol.list[f.dir])
    <3> DEFINE l == vol.list[f.dir]
    <3>1. Len(l) \in Nat /\ f.rest = l
      BY <1>5
    <3> HIDE DEF l
    <3>2. \A i \in 1..Len(l) : Len(l) - Len(l) + i = i
      BY <3>1
    <3>3. Suffix(l, l)
      BY <3>1, <3>2 DEF Suffix
    <3> QED BY <3>1, <3>3 DEF l
  <2>7. q[n + 1] >= 1 /\ n + 1 \in 1..(n + 1)
    <3> DEFINE b == Len(LevelList(vol, stack, n + 1))
    <3>1. q[n + 1] \in 1..b
      BY <1>1
    <3> HIDE DEF b, q
    <3> QED BY <1>2, <3>1
  <2> HIDE DEF n, t, d, q, OK
  <2>8. \A k \in 1..(n + 2) : Suffix(LevelRest(JobsLeft, t, k), LevelList(vol, t, k))
    BY <1>4, <2>1, <2>5, <2>6
  <2>9. ASSUME NEW k \in 1..(n + 1)
        PROVE  d[k] >= 1 /\ LevelList(vol, t, k)[d[k]].node = t[k].dir /\ t[k].ident = vol.ident[t[k].dir]
    <3>1. CASE k \in 1..n
      BY <1>3, <1>4, <1>8, <2>5, <3>1
    <3>2. CASE k = n + 1
      BY <1>1, <1>2, <1>3, <1>4, <1>8, <2>7, <3>2
    <3> QED BY <2>2, <3>1, <3>2
  <2>10. OK
    BY <2>4, <2>8, <2>9
  <2> QED BY <2>10 DEF OK, t
<1>10. d \in Seq(Nat) /\ Len(d) = n + 2
  <2>1. t \in Seq(Frame) /\ JobsLeft \in Seq(Entry) /\ PathOK(vol, JobsLeft, t) /\ Len(t) + 1 = n + 2
    BY <1>2, <1>3, <1>9
  <2> HIDE DEF t
  <2> QED BY <2>1, CursorType
<1>11. c \in Seq(Nat) /\ Len(c) = n + 1
  BY CursorType
<1>12. ASSUME NEW r, IsRoute(r) PROVE DoneBy(d, r) <=> DoneBy(c, r)
  <2>1. r \in Seq(Nat) /\ \A k \in 1..Len(r) : r[k] # 0
    <3>1. r \in Seq(Nat) /\ \A k \in 1..Len(r) : r[k] >= 1
      BY <1>12, RoutePositive
    <3>2. \A k \in 1..Len(r) : r[k] \in Nat
      BY <3>1
    <3> QED BY <3>1, <3>2
  <2> HIDE DEF n, t, c, d, q
  <2>2. n \in Nat /\ c \in Seq(Nat) /\ q \in Seq(Nat) /\ d \in Seq(Nat)
        /\ Len(c) = n + 1 /\ Len(q) = n + 1 /\ Len(d) = n + 2
    BY <1>2, <1>6, <1>10, <1>11
  <2>3. (\A j \in 1..n : q[j] = c[j]) /\ q[n + 1] = c[n + 1] + 1
        /\ (\A j \in 1..(n + 1) : d[j] = q[j]) /\ d[n + 2] = 0
    BY <1>1, <1>8
  <2>4. MovesDown(c, q, d, n)
    BY <2>2, <2>3 DEF MovesDown
  <2> QED BY <2>1, <2>4, CursorDown
<1>13. DoneFiles(d) = DoneFiles(c) /\ DoneRefused(d) = DoneRefused(c)
  <2> HIDE DEF n, t, c, d, q
  <2> QED BY <1>12, SameDone
<1> QED BY <1>9, <1>13

(* One activation less.                                                    *)
LEMMA FrontPath ==
  ASSUME vol \in Volumes, NEW js \in Seq(Entry), NEW st \in Seq(Frame), st # <<>>, PathOK(vol, js, st)
  PROVE  /\ PathOK(vol, js, Front(st))
         /\ \A k \in 1..Len(st) : Cursor(vol, js, Front(st))[k] = Cursor(vol, js, st)[k]
         /\ LevelList(vol, st, Len(st) + 1) = vol.list[Last(st).dir]
         /\ LevelRest(js, st, Len(st) + 1) = Last(st).rest
<1> DEFINE n == Len(st)
           t == Front(st)
           c == Cursor(vol, js, st)
           u == Cursor(vol, js, t)
           OK == PathOK(vol, js, t)
<1>1. n \in Nat /\ n > 0 /\ t \in Seq(Frame) /\ Len(t) = n - 1 /\ \A i \in 1..(n - 1) : t[i] = st[i]
  BY FrontLast
<1>2. Len(t) + 1 = n /\ (\A k \in 1..n : k = 1 \/ k - 1 \in 1..(n - 1)) /\ (\A k \in 1..n : k \in 1..(n + 1))
      /\ (\A k \in 1..(n - 1) : k \in 1..n) /\ n + 1 # 1 /\ (n + 1) - 1 = n
  BY <1>1
<1>3. LevelList(vol, st, n + 1) = vol.list[Last(st).dir] /\ LevelRest(js, st, n + 1) = Last(st).rest
  <2> HIDE DEF n
  <2>1. LevelList(vol, st, n + 1) = vol.list[st[n].dir] /\ LevelRest(js, st, n + 1) = st[n].rest
    BY <1>2 DEF LevelList, LevelRest
  <2> QED BY <2>1 DEF Last, n
<1>4. \A k \in 1..n : LevelList(vol, t, k) = LevelList(vol, st, k) /\ LevelRest(js, t, k) = LevelRest(js, st, k)
  <2> HIDE DEF n, t
  <2> QED BY <1>1, <1>2 DEF LevelList, LevelRest
<1>5. /\ \A k \in 1..n : u[k] = Len(LevelList(vol, t, k)) - Len(LevelRest(js, t, k))
      /\ \A k \in 1..n : c[k] = Len(LevelList(vol, st, k)) - Len(LevelRest(js, st, k))
  <2> HIDE DEF t
  <2>1. \A k \in 1..n : c[k] = Len(LevelList(vol, st, k)) - Len(LevelRest(js, st, k))
    BY <1>2 DEF Cursor
  <2>2. \A k \in 1..n : u[k] = Len(LevelList(vol, t, k)) - Len(LevelRest(js, t, k))
    BY <1>2 DEF Cursor
  <2> QED BY <2>1, <2>2
<1>6. /\ \A k \in 1..(n + 1) : Suffix(LevelRest(js, st, k), LevelList(vol, st, k))
      /\ \A k \in 1..n : /\ c[k] >= 1 /\ LevelList(vol, st, k)[c[k]].node = st[k].dir
                         /\ st[k].ident = vol.ident[st[k].dir]
  BY DEF PathOK
<1>7. OK <=> /\ \A k \in 1..n : Suffix(LevelRest(js, t, k), LevelList(vol, t, k))
             /\ \A k \in 1..(n - 1) : /\ u[k] >= 1 /\ LevelList(vol, t, k)[u[k]].node = t[k].dir
                                      /\ t[k].ident = vol.ident[t[k].dir]
  <2> HIDE DEF t
  <2> QED BY <1>1, <1>2 DEF PathOK
<1> HIDE DEF n, t, c, u, OK
<1>8. \A k \in 1..n : u[k] = c[k]
  BY <1>4, <1>5
<1>9. OK
  BY <1>1, <1>2, <1>4, <1>6, <1>7, <1>8
<1> QED BY <1>3, <1>8, <1>9 DEF n, t, c, u, OK

(* The exhausted directory was neither a file nor refused, and every route *)
(* below it is done with.                                                  *)
LEMMA LeaveDone ==
  ASSUME vol \in Volumes, stack \in Seq(Frame), jobs \in Seq(Entry), stack # <<>>,
         PathOK(vol, jobs, stack), LoopFree, Pending = <<>>
  PROVE  /\ DoneFiles(Cursor(vol, jobs, Front(stack))) = DoneFiles(Cursor(vol, jobs, stack))
         /\ DoneRefused(Cursor(vol, jobs, Front(stack))) = DoneRefused(Cursor(vol, jobs, stack))
<1> DEFINE n == Len(stack)
           t == Front(stack)
           c == Cursor(vol, jobs, stack)
           u == Cursor(vol, jobs, t)
           l == vol.list[Last(stack).dir]
<1>1. n \in Nat /\ n > 0 /\ n <= MaxDepth /\ MaxDepth \in Nat /\ KnownOnce(stack)
      /\ t \in Seq(Frame) /\ Len(t) = n - 1
  BY FrontLast, BoundAssumption DEF LoopFree
<1>2. /\ PathOK(vol, jobs, t) /\ \A k \in 1..n : u[k] = c[k]
      /\ LevelList(vol, stack, n + 1) = l /\ LevelRest(jobs, stack, n + 1) = Last(stack).rest
  BY FrontPath
<1>3. c \in Seq(Nat) /\ Len(c) = n + 1 /\ c[n + 1] = Len(l) - Len(Last(stack).rest)
  <2>1. n + 1 \in 1..(n + 1)
    BY <1>1
  <2> QED BY <1>2, <2>1, CursorType
<1>4. c[n + 1] = Len(l) /\ Len(l) \in Nat
  <2>1. Last(stack).rest = <<>>
    BY DEF Pending
  <2>2. n + 1 \in 1..(n + 1)
    BY <1>1
  <2>3. l \in Seq(Entry)
    BY <1>2, <2>2, LevelTypes
  <2> QED BY <1>3, <2>1, <2>3
<1>5. u \in Seq(Nat) /\ Len(u) = n
  <2>1. (n - 1) + 1 = n
    BY <1>1
  <2> HIDE DEF t
  <2> QED BY <1>1, <1>2, <2>1, CursorType
<1>6. Opens(RouteEntry(u), n) /\ EndOf(u) = Last(stack).dir
  <2>1. Len(u) >= Len(stack) /\ \A k \in 1..Len(stack) : u[k] = Cursor(vol, jobs, stack)[k]
    BY <1>1, <1>2, <1>5
  <2>2. n \in 1..n
    BY <1>1
  <2> HIDE DEF u
  <2>3. \A k \in 1..n : Opens(RouteEntry(u), k)
    BY <1>1, <1>5, <2>1, PathFits
  <2>4. \A k \in 1..n : RouteEntry(u)[k].node = stack[k].dir
    BY <1>5, <2>1, PathRoute
  <2>5. EndOf(u) = stack[n].dir
    BY <1>5, <2>2, <2>4 DEF EndOf
  <2> QED BY <2>2, <2>3, <2>5 DEF Last
<1>7. EndOf(u) \in Dirs
  <2> HIDE DEF n, u
  <2>1. EndOf(u) = RouteEntry(u)[n].node
    BY <1>5 DEF EndOf
  <2> QED BY <1>6, <2>1 DEF Opens
<1> HIDE DEF n, t, c, u
<1>8. ASSUME NEW r, IsRoute(r),
             ~(EndOf(r) \in Dirs /\ Len(r) <= MaxDepth /\ Opens(RouteEntry(r), Len(r)))
      PROVE  DoneBy(u, r) <=> DoneBy(c, r)
  <2>1. r \in Seq(Nat) /\ Len(r) \in Nat
    BY <1>8 DEF IsRoute
  <2>2. n \in Nat \ {0}
    BY <1>1
  <2>3. /\ DoneBy(c, r) => DoneBy(u, r)
        /\ DoneBy(u, r) =>
             \/ DoneBy(c, r)
             \/ Begins(u, r) /\ (Len(r) = n \/ (Len(r) >= n + 1 /\ r[n + 1] > c[n + 1]))
    BY <1>2, <1>3, <1>5, <2>1, <2>2, CursorUp
  <2>4. ASSUME Begins(u, r) PROVE r # u
    <3>1. SUFFICES ASSUME r = u PROVE FALSE
      OBVIOUS
    <3> QED BY <1>1, <1>5, <1>6, <1>7, <1>8, <3>1
  <2>5. ASSUME Begins(u, r)
        PROVE  Len(r) >= n + 1 /\ r[n + 1] >= 1 /\ r[n + 1] <= Len(l)
    <3>1. Len(u) > 0
      BY <1>1, <1>5
    <3>2. r = u \/ (Len(r) >= Len(u) + 1 /\ r[Len(u) + 1] >= 1 /\ r[Len(u) + 1] <= Len(vol.list[EndOf(u)]))
      BY <1>5, <1>8, <2>5, <3>1, RouteBeyond
    <3>3. vol.list[EndOf(u)] = l
      BY <1>6
    <3> QED BY <1>5, <2>4, <2>5, <3>2, <3>3
  <2>6. ASSUME Begins(u, r) PROVE ~(Len(r) = n \/ (Len(r) >= n + 1 /\ r[n + 1] > c[n + 1]))
    <3>1. n + 1 \in 1..Len(r)
      BY <1>1, <2>1, <2>5, <2>6
    <3>2. r[n + 1] \in Nat
      BY <2>1, <3>1
    <3>3. Len(r) >= n + 1 /\ r[n + 1] <= Len(l)
      BY <2>5, <2>6
    <3> HIDE DEF l
    <3> QED BY <1>1, <1>4, <2>1, <3>2, <3>3
  <2> QED BY <2>3, <2>6
<1> HIDE DEF l
<1>9. DoneFiles(u) = DoneFiles(c) /\ DoneRefused(u) = DoneRefused(c)
  BY <1>8, SameDone
<1> QED BY <1>9 DEF t, c, u

(* Before the first entry no route is done with.                           *)
LEMMA StartDone ==
  ASSUME vol \in Volumes
  PROVE  /\ PathOK(vol, vol.roots, <<>>)
         /\ DoneFiles(Cursor(vol, vol.roots, <<>>)) = {}
         /\ DoneRefused(Cursor(vol, vol.roots, <<>>)) = {}
<1> DEFINE l == vol.roots
           c == Cursor(vol, l, <<>>)
           st == <<>>
<1>1. l \in Seq(Entry) /\ Len(l) \in Nat
  BY VolumeType
<1>2. Len(st) = 0 /\ LevelList(vol, st, 1) = l /\ LevelRest(l, st, 1) = l
  BY DEF LevelList, LevelRest
<1>3. Suffix(l, l)
  <2> HIDE DEF l
  <2>1. \A i \in 1..Len(l) : Len(l) - Len(l) + i = i
    BY <1>1
  <2> QED BY <1>1, <2>1 DEF Suffix
<1>4. PathOK(vol, l, st)
  <2>1. (\A k \in 1..(Len(st) + 1) : k = 1) /\ \A k \in 1..Len(st) : FALSE
    BY <1>2
  <2> HIDE DEF l, st
  <2> QED BY <1>2, <1>3, <2>1 DEF PathOK
<1>5. DOMAIN c = 1..1 /\ Len(c) = 1 /\ c[1] = 0
  <2>1. c = [k \in 1..1 |-> Len(LevelList(vol, st, k)) - Len(LevelRest(l, st, k))]
    <3>1. Len(st) + 1 = 1
      BY <1>2
    <3> HIDE DEF st, l
    <3>2. Cursor(vol, l, st) = [k \in 1..1 |-> Len(LevelList(vol, st, k)) - Len(LevelRest(l, st, k))]
      BY <3>1 DEF Cursor
    <3> QED BY <3>2 DEF st
  <2>2. c[1] = Len(l) - Len(l)
    BY <1>2, <2>1
  <2>3. c \in Seq(Int) /\ Len(c) = 1
    <3>1. \A k \in 1..1 : k = 1
      OBVIOUS
    <3>2. Len(l) - Len(l) \in Int
      BY <1>1
    <3> HIDE DEF c, l
    <3> QED BY <1>2, <2>1, <3>1, <3>2
  <2> QED BY <1>1, <2>1, <2>2, <2>3
<1> HIDE DEF c
<1>6. ASSUME NEW r, IsRoute(r) PROVE ~DoneBy(c, r)
  <2>1. r \in Seq(Nat) /\ Len(r) >= 1 /\ \A k \in 1..Len(r) : r[k] >= 1
    BY <1>6, RoutePositive
  <2>2. r[1] >= 1 /\ r[1] \in Nat
    BY <2>1
  <2> QED BY <1>5, <2>2 DEF DoneBy
<1> QED BY <1>4, <1>6, RouteKinds DEF DoneFiles, DoneRefused, c

(* When the roots are used up every route is.                              *)
LEMMA EndDone ==
  ASSUME vol \in Volumes, stack = <<>>, jobs = <<>>
  PROVE  /\ DoneFiles(Cursor(vol, jobs, stack)) = FileRoutes
         /\ DoneRefused(Cursor(vol, jobs, stack)) = RefusedRoutes
<1> DEFINE l == vol.roots
           c == Cursor(vol, jobs, stack)
<1>1. l \in Seq(Entry) /\ Len(l) \in Nat
  BY VolumeType
<1>2. Len(stack) = 0 /\ LevelList(vol, stack, 1) = l /\ LevelRest(jobs, stack, 1) = <<>>
  BY DEF LevelList, LevelRest
<1>3. DOMAIN c = 1..1 /\ Len(c) = 1 /\ c[1] = Len(l)
  <2>1. Len(stack) + 1 = 1
    BY <1>2
  <2>2. c = [k \in 1..1 |-> Len(LevelList(vol, stack, k)) - Len(LevelRest(jobs, stack, k))]
    BY <2>1 DEF Cursor
  <2>3. c[1] = Len(l)
    BY <1>1, <1>2, <2>2
  <2>4. c \in Seq(Int) /\ Len(c) = 1
    <3>1. \A k \in 1..1 : k = 1
      OBVIOUS
    <3>2. Len(l) - Len(LevelRest(jobs, stack, 1)) \in Int
      BY <1>1, <1>2
    <3> HIDE DEF c, l
    <3> QED BY <1>2, <2>2, <3>1, <3>2
  <2> QED BY <2>2, <2>3, <2>4
<1> HIDE DEF c
<1>4. ASSUME NEW r, IsRoute(r) PROVE DoneBy(c, r)
  <2>1. r \in Seq(Nat) /\ Len(r) >= 1 /\ \A k \in 1..Len(r) : r[k] >= 1
    BY <1>4, RoutePositive
  <2>2. r[1] >= 1 /\ r[1] \in Nat /\ 1 \in 1..Len(r)
    BY <2>1
  <2>3. r[1] \in 1..Len(l)
    <3>1. Fits(r, 1)
      BY <1>4, <2>2 DEF IsRoute
    <3> QED BY <3>1 DEF Fits, Listing
  <2>4. r[1] < c[1] \/ r[1] = c[1]
    <3> HIDE DEF l
    <3> QED BY <1>1, <1>3, <2>2, <2>3
  <2>5. 1 \in 1..Len(c) /\ 1 = Len(c) /\ \A j \in 1..(1 - 1) : r[j] = c[j]
    BY <1>3
  <2> QED BY <2>1, <2>4, <2>5 DEF DoneBy
<1> QED BY <1>4, RouteKinds DEF DoneFiles, DoneRefused, c

-----------------------------------------------------------------------------
(* What the counters count.                                                *)

LEMMA SameRoutes ==
  ASSUME vol' = vol
  PROVE  FileRoutes' = FileRoutes /\ RefusedRoutes' = RefusedRoutes
BY DEF FileRoutes, RefusedRoutes, Routes, Widest, EntryCounts, RouteEntry, EndOf, Opens, Ident, Positions

FilesDone == DoneFiles(Cursor(vol, jobs, stack))
RefusedDone == DoneRefused(Cursor(vol, jobs, stack))

InStream == IF pc \in {"stream", "keep"} THEN 1 ELSE 0

CountsMatch ==
  /\ IsFiniteSet(FilesDone) /\ IsFiniteSet(RefusedDone)
  /\ files + fails + skipped + InStream = Cardinality(FilesDone)
  /\ cycles = Cardinality(RefusedDone)

(* An uncancelled walk has accounted for the routes its cursor has passed. *)
PassedAccounted ==
  /\ PathOK(vol, jobs, stack)
  /\ pc = "aborted" => cancel
  /\ pc = "done" => stack = <<>> /\ (jobs = <<>> \/ cancel)
  /\ ~cancel => CountsMatch

LEMMA DoneMoves ==
  ASSUME vol' = vol
  PROVE  /\ FilesDone' = DoneFiles(Cursor(vol, jobs', stack'))
         /\ RefusedDone' = DoneRefused(Cursor(vol, jobs', stack'))
BY SameRoutes DEF FilesDone, RefusedDone, DoneFiles, DoneRefused

LEMMA CountSame ==
  ASSUME CountsMatch, FilesDone' = FilesDone, RefusedDone' = RefusedDone,
         files' + fails' + skipped' + InStream' = files + fails + skipped + InStream,
         cycles' = cycles
  PROVE  CountsMatch'
BY DEF CountsMatch

LEMMA AccountInit == Init => PassedAccounted
<1> SUFFICES ASSUME Init PROVE PassedAccounted
  OBVIOUS
<1>1. vol \in Volumes /\ jobs = vol.roots /\ stack = <<>> /\ pc = "walk"
      /\ files = 0 /\ fails = 0 /\ cycles = 0 /\ skipped = 0
  BY DEF Init
<1>2. PathOK(vol, jobs, stack) /\ FilesDone = {} /\ RefusedDone = {}
  BY <1>1, StartDone DEF FilesDone, RefusedDone
<1>3. IsFiniteSet({}) /\ Cardinality({}) = 0
  BY FS_EmptySet
<1>4. CountsMatch
  BY <1>1, <1>2, <1>3 DEF CountsMatch, InStream
<1> QED BY <1>1, <1>2, <1>4 DEF PassedAccounted

LEMMA VisitPath ==
  ASSUME TypeOK, PassedAccounted, Pending # <<>>, vol' = vol, Consume
  PROVE  PathOK(vol, jobs, stack)'
<1>1. /\ vol \in Volumes /\ stack \in Seq(Frame) /\ jobs \in Seq(Entry)
      /\ PathOK(vol, jobs, stack)
  BY DEF TypeOK, PassedAccounted
<1>2. stack' = Consumed /\ jobs' = JobsLeft
  BY DEF Consume, JobsLeft
<1>3. PathOK(vol, JobsLeft, Consumed)
  BY <1>1, ConsumePath
<1> QED BY <1>2, <1>3

(* Every way of visiting an entry that ends its route.                     *)
LEMMA VisitCounted ==
  ASSUME TypeOK, LoopFree, PassedAccounted, Pending # <<>>, ~cancel, pc = "enter",
         vol' = vol, Consume,
         Head(Pending).node \in Files \/ (Head(Pending).node \in Dirs /\ Refused(Head(Pending).node))
  PROVE  /\ PathOK(vol, jobs, stack)'
         /\ IsFiniteSet(FilesDone') /\ IsFiniteSet(RefusedDone')
         /\ Head(Pending).node \in Files =>
              Cardinality(FilesDone') = files + fails + skipped + 1 /\ Cardinality(RefusedDone') = cycles
         /\ Head(Pending).node \in Dirs =>
              Cardinality(FilesDone') = files + fails + skipped /\ Cardinality(RefusedDone') = cycles + 1
<1> DEFINE q == Cursor(vol, JobsLeft, Consumed)
<1>1. /\ vol \in Volumes /\ stack \in Seq(Frame) /\ jobs \in Seq(Entry) /\ ancestors \in Seq(Nat)
      /\ files \in Nat /\ fails \in Nat /\ cycles \in Nat /\ skipped \in Nat
  BY DEF TypeOK
<1>2. PathOK(vol, jobs, stack) /\ CountsMatch
  BY DEF PassedAccounted
<1>3. stack' = Consumed /\ jobs' = JobsLeft
  BY DEF Consume, JobsLeft
<1>4. PathOK(vol, JobsLeft, Consumed)
  BY <1>1, <1>2, ConsumePath
<1>5. FilesDone' = DoneFiles(q) /\ RefusedDone' = DoneRefused(q)
  BY <1>3, DoneMoves
<1>6. /\ q \notin FilesDone /\ q \notin RefusedDone
      /\ Head(Pending).node \in Files => DoneFiles(q) = FilesDone \cup {q} /\ DoneRefused(q) = RefusedDone
      /\ Head(Pending).node \in Dirs => DoneFiles(q) = FilesDone /\ DoneRefused(q) = RefusedDone \cup {q}
  BY <1>1, <1>2, VisitDone DEF FilesDone, RefusedDone
<1>7. /\ IsFiniteSet(FilesDone) /\ IsFiniteSet(RefusedDone)
      /\ Cardinality(FilesDone) = files + fails + skipped /\ Cardinality(RefusedDone) = cycles
  BY <1>1, <1>2 DEF CountsMatch, InStream
<1> HIDE DEF q
<1>8. /\ IsFiniteSet(FilesDone \cup {q}) /\ Cardinality(FilesDone \cup {q}) = files + fails + skipped + 1
      /\ IsFiniteSet(RefusedDone \cup {q}) /\ Cardinality(RefusedDone \cup {q}) = cycles + 1
  BY <1>6, <1>7, FS_AddElement
<1>9. PathOK(vol, jobs, stack)'
  BY <1>3, <1>4
<1> QED BY <1>5, <1>6, <1>7, <1>8, <1>9

LEMMA AccountStep ==
  ASSUME TypeOK, LoopFree, PassedAccounted, [Next]_vars
  PROVE  PassedAccounted'
<1>0. /\ vol \in Volumes /\ stack \in Seq(Frame) /\ jobs \in Seq(Entry) /\ ancestors \in Seq(Nat)
      /\ files \in Nat /\ fails \in Nat /\ cycles \in Nat /\ skipped \in Nat /\ cancel \in BOOLEAN
  BY DEF TypeOK
<1>1. /\ PathOK(vol, jobs, stack) /\ (pc = "aborted" => cancel)
      /\ (pc = "done" => stack = <<>> /\ (jobs = <<>> \/ cancel)) /\ (~cancel => CountsMatch)
  BY DEF PassedAccounted
<1>2. CASE RefuseDir
  <2>1. /\ Pending # <<>> /\ pc = "enter" /\ vol' = vol /\ Consume /\ cancel' = cancel
        /\ Head(Pending).node \in Dirs /\ Refused(Head(Pending).node)
        /\ pc' = "back" /\ cycles' = cycles + 1 /\ files' = files /\ fails' = fails /\ skipped' = skipped
    BY <1>2 DEF RefuseDir, Visiting
  <2>2. PathOK(vol, jobs, stack)'
    BY <2>1, VisitPath
  <2>3. ASSUME ~cancel PROVE CountsMatch'
    <3>1. /\ IsFiniteSet(FilesDone') /\ IsFiniteSet(RefusedDone')
          /\ Cardinality(FilesDone') = files + fails + skipped /\ Cardinality(RefusedDone') = cycles + 1
      BY <2>1, <2>3, VisitCounted
    <3> QED BY <1>0, <2>1, <3>1 DEF CountsMatch, InStream
  <2> QED BY <2>1, <2>2, <2>3 DEF PassedAccounted
<1>3. CASE SkipFile \/ OpenFails
  <2>1. /\ Pending # <<>> /\ pc = "enter" /\ vol' = vol /\ Consume /\ cancel' = cancel
        /\ Head(Pending).node \in Files
        /\ pc' = "back" /\ cycles' = cycles /\ files' = files
        /\ (fails' = fails + 1 /\ skipped' = skipped) \/ (fails' = fails /\ skipped' = skipped + 1)
    BY <1>3 DEF SkipFile, OpenFails, Visiting
  <2>2. PathOK(vol, jobs, stack)'
    BY <2>1, VisitPath
  <2>3. files' + fails' + skipped' + InStream' = files + fails + skipped + 1
    <3>1. InStream' = 0 /\ files' = files
      BY <2>1 DEF InStream
    <3>2. CASE fails' = fails + 1 /\ skipped' = skipped
      BY <1>0, <3>1, <3>2
    <3>3. CASE fails' = fails /\ skipped' = skipped + 1
      BY <1>0, <3>1, <3>3
    <3> QED BY <2>1, <3>2, <3>3
  <2>4. ASSUME ~cancel PROVE CountsMatch'
    <3>1. /\ IsFiniteSet(FilesDone') /\ IsFiniteSet(RefusedDone')
          /\ Cardinality(FilesDone') = files + fails + skipped + 1 /\ Cardinality(RefusedDone') = cycles
      BY <2>1, <2>4, VisitCounted
    <3> QED BY <2>1, <2>3, <3>1 DEF CountsMatch
  <2> QED BY <2>1, <2>2, <2>4 DEF PassedAccounted
<1>4. CASE OpenFile
  <2>1. /\ Pending # <<>> /\ pc = "enter" /\ vol' = vol /\ Consume /\ cancel' = cancel
        /\ Head(Pending).node \in Files
        /\ pc' = "stream" /\ cycles' = cycles /\ files' = files /\ fails' = fails /\ skipped' = skipped
    BY <1>4 DEF OpenFile, Visiting
  <2>2. PathOK(vol, jobs, stack)'
    BY <2>1, VisitPath
  <2>3. ASSUME ~cancel PROVE CountsMatch'
    <3>1. /\ IsFiniteSet(FilesDone') /\ IsFiniteSet(RefusedDone')
          /\ Cardinality(FilesDone') = files + fails + skipped + 1 /\ Cardinality(RefusedDone') = cycles
      BY <2>1, <2>3, VisitCounted
    <3> QED BY <1>0, <2>1, <3>1 DEF CountsMatch, InStream
  <2> QED BY <2>1, <2>2, <2>3 DEF PassedAccounted
<1>5. CASE OpenDir
  <2> DEFINE d == Head(Pending).node
             f == [dir |-> d, path |-> OutPath, ident |-> Ident(d), rest |-> vol.list[d]]
  <2>1. /\ Pending # <<>> /\ pc = "enter" /\ vol' = vol /\ d \in Dirs /\ cancel' = cancel
        /\ stack' = Append(Consumed, f) /\ jobs' = JobsLeft
        /\ pc' = "walk" /\ cycles' = cycles /\ files' = files /\ fails' = fails /\ skipped' = skipped
    BY <1>5 DEF OpenDir, Visiting, JobsLeft
  <2>2. f \in Frame
    BY <1>0, <2>1, OutPathType, VolumeType DEF Frame, Ident
  <2>3. f.dir = Head(Pending).node /\ f.ident = vol.ident[f.dir] /\ f.rest = vol.list[f.dir]
    BY DEF Ident
  <2> HIDE DEF f, d
  <2>4. /\ PathOK(vol, JobsLeft, Append(Consumed, f))
        /\ DoneFiles(Cursor(vol, JobsLeft, Append(Consumed, f))) = FilesDone
        /\ DoneRefused(Cursor(vol, JobsLeft, Append(Consumed, f))) = RefusedDone
    BY <1>0, <1>1, <2>1, <2>2, <2>3, OpenDone DEF FilesDone, RefusedDone
  <2>5. PathOK(vol, jobs, stack)' /\ FilesDone' = FilesDone /\ RefusedDone' = RefusedDone
    BY <2>1, <2>4, DoneMoves
  <2>6. InStream' = InStream
    BY <2>1 DEF InStream
  <2>7. ~cancel => CountsMatch'
    BY <1>1, <2>1, <2>5, <2>6, CountSame
  <2> QED BY <2>1, <2>5, <2>7 DEF PassedAccounted
<1>6. CASE LeaveDir
  <2>1. /\ stack # <<>> /\ Pending = <<>> /\ pc = "walk" /\ vol' = vol
        /\ stack' = Front(stack) /\ jobs' = jobs
        /\ pc' = "back" /\ cycles' = cycles /\ files' = files /\ fails' = fails /\ skipped' = skipped
        /\ cancel' = cancel
    BY <1>6 DEF LeaveDir, counters
  <2>2. PathOK(vol, jobs, Front(stack))
    BY <1>0, <1>1, <2>1, FrontPath
  <2>3. /\ DoneFiles(Cursor(vol, jobs, Front(stack))) = FilesDone
        /\ DoneRefused(Cursor(vol, jobs, Front(stack))) = RefusedDone
    BY <1>0, <1>1, <2>1, LeaveDone DEF FilesDone, RefusedDone
  <2>4. PathOK(vol, jobs, stack)' /\ FilesDone' = FilesDone /\ RefusedDone' = RefusedDone
    BY <2>1, <2>2, <2>3, DoneMoves
  <2>5. InStream' = InStream
    BY <2>1 DEF InStream
  <2>6. ~cancel => CountsMatch'
    BY <1>1, <2>1, <2>4, <2>5, CountSame
  <2> QED BY <2>1, <2>4, <2>6 DEF PassedAccounted
<1>7. CASE Unwind
  <2>1. /\ stack # <<>> /\ pc = "back" /\ vol' = vol /\ cancel
        /\ stack' = Front(stack) /\ jobs' = jobs /\ pc' = pc /\ cancel' = cancel
    BY <1>7 DEF Unwind
  <2>2. PathOK(vol, jobs, Front(stack))
    BY <1>0, <1>1, <2>1, FrontPath
  <2>3. PathOK(vol, jobs, stack)'
    BY <2>1, <2>2
  <2> QED BY <2>1, <2>3 DEF PassedAccounted
<1>8. CASE vol' = vol /\ jobs' = jobs /\ stack' = stack
  <2>1. PathOK(vol, jobs, stack)' /\ FilesDone' = FilesDone /\ RefusedDone' = RefusedDone
    BY <1>1, <1>8, DoneMoves DEF FilesDone, RefusedDone
  <2>2. CASE Finish
    <3>1. /\ pc \in {"walk", "back"} /\ pc' = "done" /\ stack = <<>> /\ (jobs = <<>> \/ cancel) /\ cancel' = cancel
          /\ cycles' = cycles /\ files' = files /\ fails' = fails /\ skipped' = skipped
      BY <2>2 DEF Finish, counters
    <3>2. InStream' = InStream
      BY <3>1 DEF InStream
    <3>3. ~cancel => CountsMatch'
      BY <1>1, <2>1, <3>1, <3>2, CountSame
    <3> QED BY <1>8, <2>1, <3>1, <3>3 DEF PassedAccounted
  <2>3. CASE WriteChunk \/ ReadFails
    <3>1. /\ pc = "stream" /\ pc' = pc /\ cancel' = cancel
          /\ cycles' = cycles /\ files' = files /\ fails' = fails /\ skipped' = skipped
      BY <2>3 DEF WriteChunk, ReadFails, counters
    <3>2. InStream' = InStream
      BY <3>1 DEF InStream
    <3>3. ~cancel => CountsMatch'
      BY <1>1, <2>1, <3>1, <3>2, CountSame
    <3> QED BY <1>8, <2>1, <3>1, <3>3 DEF PassedAccounted
  <2>4. CASE KeepFile \/ DropFile
    <3>1. /\ pc \in {"stream", "keep"} /\ pc' = "back" /\ cancel' = cancel
          /\ cycles' = cycles /\ skipped' = skipped
          /\ (files' = files + 1 /\ fails' = fails) \/ (files' = files /\ fails' = fails + 1)
      BY <2>4 DEF KeepFile, DropFile
    <3>2. InStream' = 0 /\ InStream = 1
      BY <3>1 DEF InStream
    <3>3. files' + fails' + skipped' + InStream' = files + fails + skipped + InStream
      <4>0. files \in Nat /\ fails \in Nat /\ skipped \in Nat /\ skipped' = skipped
        BY <1>0, <3>1
      <4>1. CASE files' = files + 1 /\ fails' = fails
        BY <3>2, <4>0, <4>1
      <4>2. CASE files' = files /\ fails' = fails + 1
        BY <3>2, <4>0, <4>2
      <4> QED BY <3>1, <4>1, <4>2
    <3>4. ~cancel => CountsMatch'
      BY <1>1, <2>1, <3>1, <3>3, CountSame
    <3> QED BY <2>1, <3>1, <3>4 DEF PassedAccounted
  <2>5. CASE Throw
    <3>1. pc' = "aborted" /\ cancel'
      BY <2>5 DEF Throw
    <3> QED BY <2>1, <3>1 DEF PassedAccounted
  <2>6. CASE SetCancel
    <3>1. pc' = pc /\ cancel'
      BY <2>6 DEF SetCancel
    <3> QED BY <1>1, <1>8, <2>1, <3>1 DEF PassedAccounted
  <2>7. CASE UNCHANGED vars
    <3>1. /\ pc' = pc /\ cancel' = cancel
          /\ cycles' = cycles /\ files' = files /\ fails' = fails /\ skipped' = skipped
      BY <2>7 DEF vars
    <3>2. InStream' = InStream
      BY <3>1 DEF InStream
    <3>3. ~cancel => CountsMatch'
      BY <1>1, <2>1, <3>1, <3>2, CountSame
    <3> QED BY <1>1, <1>8, <2>1, <3>1, <3>3 DEF PassedAccounted
  <2>8. CASE RefuseDir \/ OpenDir \/ LeaveDir \/ Unwind \/ SkipFile \/ OpenFile \/ OpenFails
    BY <1>2, <1>3, <1>4, <1>5, <1>6, <1>7, <2>8
  <2>9. CASE Enter \/ Resume \/ Accept
    <3>1. /\ pc' \notin Finished /\ cancel' = cancel
          /\ cycles' = cycles /\ files' = files /\ fails' = fails /\ skipped' = skipped
      BY <2>9 DEF Enter, Resume, Accept, counters, Finished
    <3>2. InStream' = InStream
      BY <2>9 DEF InStream, Enter, Resume, Accept
    <3>3. ~cancel => CountsMatch'
      BY <1>1, <2>1, <3>1, <3>2, CountSame
    <3> QED BY <2>1, <3>1, <3>3 DEF PassedAccounted, Finished
  <2> QED BY <2>2, <2>3, <2>4, <2>5, <2>6, <2>7, <2>8, <2>9 DEF Next, Worker, Terminated
<1>9. \/ Enter \/ Resume \/ Finish \/ WriteChunk \/ ReadFails \/ Accept \/ KeepFile \/ DropFile
      \/ Throw \/ SetCancel \/ UNCHANGED vars
      => vol' = vol /\ jobs' = jobs /\ stack' = stack
  BY DEF Enter, Resume, Accept, Finish, WriteChunk, ReadFails, KeepFile, DropFile, Throw, SetCancel, vars, walkVars
<1> QED BY <1>2, <1>3, <1>4, <1>5, <1>6, <1>7, <1>8, <1>9 DEF Next, Worker, Terminated

LEMMA AccountEnd ==
  ASSUME TypeOK, stack = <<>>, jobs = <<>>, pc = "done", CountsMatch
  PROVE  files + fails + skipped = Cardinality(FileRoutes) /\ cycles = Cardinality(RefusedRoutes)
<1>1. /\ vol \in Volumes
      /\ files \in Nat /\ fails \in Nat /\ skipped \in Nat
  BY DEF TypeOK
<1>2. FilesDone = FileRoutes /\ RefusedDone = RefusedRoutes
  BY <1>1, EndDone DEF FilesDone, RefusedDone
<1> QED BY <1>1, <1>2 DEF CountsMatch, InStream

(* An export nobody cancelled accounts for every file once per loop-free   *)
(* route to it and for every refusal, whatever the volume, however its     *)
(* directories list each other, and whatever could not be read, opened or  *)
(* written on the way.                                                     *)
THEOREM EveryFileOnce == Spec => []EveryRouteAccounted
<1>1. Init => TypeOK /\ StreamingFile /\ LoopFree /\ PassedAccounted
  BY TypeInit, StreamingInit, LoopFreeInit, AccountInit
<1>2. TypeOK /\ StreamingFile /\ LoopFree /\ PassedAccounted /\ [Next]_vars
      => TypeOK' /\ StreamingFile' /\ LoopFree' /\ PassedAccounted'
  BY TypeStep, StreamingStep, LoopFreeStep, AccountStep
<1>3. TypeOK /\ StreamingFile /\ LoopFree /\ PassedAccounted => EveryRouteAccounted
  BY AccountEnd DEF PassedAccounted, EveryRouteAccounted
<1> QED BY <1>1, <1>2, <1>3, PTL DEF Spec

(***************************************************************************)
(* The session: dialog, timer, join and report around the worker.          *)
(***************************************************************************)

LEMMA FinishedIsOver ==
  ASSUME pc \in Finished
  PROVE  ~Worker /\ ~Throw
<1>1. pc \notin {"walk", "enter", "stream", "keep", "back"}
  BY DEF Finished
<1>2. ~(RefuseDir \/ OpenDir \/ SkipFile \/ OpenFile \/ OpenFails)
  BY <1>1 DEF RefuseDir, OpenDir, SkipFile, OpenFile, OpenFails, Visiting
<1>3. ~(Enter \/ Resume \/ LeaveDir \/ Unwind \/ Finish)
  BY <1>1 DEF Enter, Resume, LeaveDir, Unwind, Finish
<1>4. ~(WriteChunk \/ ReadFails \/ Accept \/ KeepFile \/ DropFile)
  BY <1>1 DEF WriteChunk, ReadFails, Accept, KeepFile, DropFile
<1>5. ~Throw
  BY <1>1 DEF Throw, ThrowInFile, ThrowInDir, Visiting
<1> QED BY <1>2, <1>3, <1>4, <1>5 DEF Worker

LEMMA ReportInit == SessionInit => ReportIsFinal
BY DEF SessionInit, ReportIsFinal

LEMMA ReportStep == ReportIsFinal /\ [SessionNext]_sessionVars => ReportIsFinal'
<1> SUFFICES ASSUME ReportIsFinal, [SessionNext]_sessionVars PROVE ReportIsFinal'
  OBVIOUS
<1>1. CASE WorkerStep \/ WorkerThrows
  <2>1. ui # "report"
    BY <1>1, FinishedIsOver DEF WorkerStep, WorkerThrows, ReportIsFinal
  <2>2. ui' = ui
    BY <1>1 DEF WorkerStep, WorkerThrows, uiVars
  <2> QED BY <2>1, <2>2 DEF ReportIsFinal
<1>2. CASE CancelClick \/ Tick \/ StopWorker
  BY <1>2 DEF CancelClick, Tick, StopWorker, ReportIsFinal
<1>3. CASE Join
  BY <1>3 DEF Join, ReportIsFinal, vars, counters
<1>4. CASE UNCHANGED sessionVars
  BY <1>4 DEF sessionVars, uiVars, vars, ReportIsFinal
<1> QED BY <1>1, <1>2, <1>3, <1>4 DEF SessionNext, UiStep, Reported

(* What the message box says is what the worker ended with: the thread was *)
(* joined before the counters were read, in every interleaving.            *)
THEOREM ReportCorrect == SessionSpec => []ReportIsFinal
BY ReportInit, ReportStep, PTL DEF SessionSpec

LEMMA SessionStep == [SessionNext]_sessionVars => [Next]_vars
<1> SUFFICES ASSUME [SessionNext]_sessionVars PROVE [Next]_vars
  OBVIOUS
<1>1. CASE WorkerStep \/ WorkerThrows
  BY <1>1 DEF WorkerStep, WorkerThrows, Next
<1>2. CASE CancelClick \/ StopWorker
  <2>1. /\ cancel' = TRUE
        /\ UNCHANGED <<vol, opt, walkVars, pc, cur, dest, counters>>
    BY <1>2 DEF CancelClick, StopWorker
  <2>2. CASE cancel
    <3>1. cancel = TRUE
      BY <2>2
    <3> QED BY <2>1, <3>1 DEF vars, walkVars, counters
  <2>3. CASE ~cancel
    BY <2>1, <2>3 DEF SetCancel, Next
  <2> QED BY <2>2, <2>3
<1>3. CASE Tick \/ Join
  BY <1>3 DEF Tick, Join
<1>4. CASE UNCHANGED sessionVars
  BY <1>4 DEF sessionVars
<1> QED BY <1>1, <1>2, <1>3, <1>4 DEF SessionNext, UiStep, Reported

(* The dialog does nothing to the export that another thread setting the   *)
(* cancel flag could not do: every step of a session is a step of the      *)
(* worker's specification or leaves the worker alone.                      *)
THEOREM SessionRefinesWalk == SessionSpec => Init /\ [][Next]_vars
<1>1. SessionInit => Init
  BY DEF SessionInit
<1>2. [SessionNext]_sessionVars => [Next]_vars
  BY SessionStep
<1> QED BY <1>1, <1>2, PTL DEF SessionSpec

-----------------------------------------------------------------------------
(* What the export promises, in a session.                                 *)

(* Whatever the user clicks and whenever: an export under "rename" reports *)
(* the complete files it left, leaves no partial one, follows no loop and  *)
(* restores the folders' dates.  The hypotheses are those of the worker.   *)
THEOREM SessionKeepsPromises ==
  ASSUME "close" \notin Faults, NoSidecars \/ NamesApart
  PROVE  SessionSpec => [](LoopFree /\ CountIsOnDisk /\ NoPartialLeft /\ FolderDatesKept)
<1> DEFINE Inv == /\ TypeOK /\ StreamingFile /\ LoopFree
                  /\ NoPartialLeft /\ CountInv /\ DatesInv
<1>1. SessionInit => Inv
  BY TypeInit, StreamingInit, LoopFreeInit, PartInit, CountInit, DatesInit DEF SessionInit
<1>2. Inv /\ [SessionNext]_sessionVars => Inv'
  BY SessionStep, TypeStep, StreamingStep, LoopFreeStep, PartStep, CountStep, DatesStep
<1>3. Inv => CountIsOnDisk /\ FolderDatesKept
  BY CountInvImplies, DatesInvImplies
<1> QED BY <1>1, <1>2, <1>3, PTL DEF SessionSpec

-----------------------------------------------------------------------------
(* A report that mentions no cancellation and no failure.                  *)

(* Only Cancel ends exec() before the worker does; nothing but Cancel and  *)
(* an exception sets exportCancel_ while the dialog is open; an exception  *)
(* is counted; and an export not cancelled visited all.                    *)
SessionInv ==
  /\ ui \in {"dialog", "returned", "joining", "report"}
  /\ ui = "dialog" => ~userCancelled /\ (cancel => pc = "aborted")
  /\ ui # "dialog" /\ ~userCancelled => pc \in Finished
  /\ pc = "aborted" => fails > 0
  /\ pc = "done" /\ ~userCancelled => jobs = <<>> /\ stack = <<>>
  /\ ReportIsFinal

(* The walk behind a report that says nothing went wrong reached its end   *)
(* with nothing left to visit.                                             *)
SilentIsFinished ==
  ui = "report" /\ ~report.cancelled /\ report.fails = 0
    => pc = "done" /\ jobs = <<>> /\ stack = <<>>

LEMMA SessionInvInit == SessionInit => SessionInv
BY ReportInit DEF SessionInit, Init, SessionInv, Finished

LEMMA SessionInvStep ==
  ASSUME TypeOK, SessionInv, [SessionNext]_sessionVars
  PROVE  SessionInv'
<1>1. ReportIsFinal'
  BY ReportStep DEF SessionInv
<1>2. fails \in Nat
  BY DEF TypeOK
<1>3. CASE WorkerStep
  <2>1. ui' = ui /\ userCancelled' = userCancelled /\ cancel' = cancel /\ Worker
    BY <1>3 DEF WorkerStep, uiVars, Worker, Enter, Resume, Accept, RefuseDir, OpenDir, LeaveDir, Unwind, Finish,
                SkipFile, OpenFile, OpenFails, WriteChunk, ReadFails, KeepFile, DropFile
  <2>2. pc \notin Finished
    BY <2>1, FinishedIsOver
  <2>3. ui # "dialog" => userCancelled
    BY <2>2 DEF SessionInv
  <2>4. CASE Finish
    <3>1. pc' = "done" /\ stack = <<>> /\ (jobs = <<>> \/ cancel) /\ jobs' = jobs /\ stack' = stack
      BY <2>4 DEF Finish, walkVars
    <3>2. ~userCancelled => ~cancel
      BY <2>2, <2>3 DEF SessionInv, Finished
    <3> QED BY <1>1, <2>1, <2>2, <3>1, <3>2 DEF SessionInv, Finished
  <2>5. CASE ~Finish
    <3>1. pc' \in {"walk", "enter", "stream", "keep", "back"}
      BY <2>1, <2>5 DEF Worker, Enter, Resume, Accept, RefuseDir, OpenDir, LeaveDir, Unwind, SkipFile, OpenFile,
                        OpenFails, WriteChunk, ReadFails, KeepFile, DropFile, Visiting
    <3> QED BY <1>1, <2>1, <2>2, <2>3, <3>1 DEF SessionInv, Finished
  <2> QED BY <2>4, <2>5
<1>4. CASE WorkerThrows
  <2>1. ui' = ui /\ userCancelled' = userCancelled /\ Throw
    BY <1>4 DEF WorkerThrows, uiVars
  <2>2. pc' = "aborted" /\ fails' = fails + 1
    BY <2>1 DEF Throw
  <2> QED BY <1>1, <1>2, <2>1, <2>2 DEF SessionInv, Finished
<1>5. CASE CancelClick
  BY <1>1, <1>5 DEF CancelClick, SessionInv, walkVars, counters
<1>6. CASE Tick
  BY <1>1, <1>6 DEF Tick, SessionInv, vars, walkVars, counters
<1>7. CASE StopWorker
  BY <1>1, <1>7 DEF StopWorker, SessionInv, walkVars, counters
<1>8. CASE Join
  BY <1>1, <1>8 DEF Join, SessionInv, vars, walkVars, counters
<1>9. CASE UNCHANGED sessionVars
  BY <1>1, <1>9 DEF SessionInv, sessionVars, uiVars, vars, walkVars, counters
<1> QED BY <1>3, <1>4, <1>5, <1>6, <1>7, <1>8, <1>9 DEF SessionNext, UiStep, Reported

(* The flag that exportSelected sets after exec(), to have the worker      *)
(* unwind, never cuts short an export nobody cancelled: when the report    *)
(* mentions no cancellation and no failure, every ticked root and every    *)
(* directory opened below it had been walked to its end.                   *)
THEOREM NeverCutShort == SessionSpec => []SilentIsFinished
<1>1. SessionInit => TypeOK /\ StreamingFile /\ SessionInv
  BY TypeInit, StreamingInit, SessionInvInit DEF SessionInit
<1>2. TypeOK /\ StreamingFile /\ SessionInv /\ [SessionNext]_sessionVars
      => TypeOK' /\ StreamingFile' /\ SessionInv'
  BY SessionStep, TypeStep, StreamingStep, SessionInvStep
<1>3. SessionInv => SilentIsFinished
  <2> SUFFICES ASSUME SessionInv, ui = "report", ~report.cancelled, report.fails = 0
               PROVE  pc = "done" /\ jobs = <<>> /\ stack = <<>>
    BY DEF SilentIsFinished
  <2>1. pc \in Finished /\ ~userCancelled /\ fails = 0
    BY DEF SessionInv, ReportIsFinal
  <2> QED BY <2>1 DEF SessionInv, Finished
<1> QED BY <1>1, <1>2, <1>3, PTL DEF SessionSpec

-----------------------------------------------------------------------------
(* A report of nothing is the report of everything.                        *)

(* Whoever set exportCancel_: while the user has not cancelled and nothing *)
(* was thrown, the counters count the routes the walk has passed.          *)
SessionCounts == ~userCancelled /\ pc # "aborted" => CountsMatch

LEMMA CountsCarried ==
  ASSUME CountsMatch, UNCHANGED <<vol, walkVars, counters, pc>>
  PROVE  CountsMatch'
<1>1. vol' = vol /\ jobs' = jobs /\ stack' = stack /\ pc' = pc
      /\ files' = files /\ fails' = fails /\ skipped' = skipped /\ cycles' = cycles
  BY DEF walkVars, counters
<1>2. FilesDone' = FilesDone /\ RefusedDone' = RefusedDone
  BY <1>1, DoneMoves DEF FilesDone, RefusedDone
<1>3. InStream' = InStream
  BY <1>1 DEF InStream
<1> QED BY <1>1, <1>2, <1>3, CountSame

LEMMA SessionCountsStep ==
  ASSUME TypeOK, LoopFree, PassedAccounted, SessionInv, SessionCounts, [SessionNext]_sessionVars
  PROVE  SessionCounts'
<1>1. CASE WorkerStep
  <2>1. userCancelled' = userCancelled /\ cancel' = cancel /\ Worker
    BY <1>1 DEF WorkerStep, uiVars, Worker, Enter, Resume, Accept, RefuseDir, OpenDir, LeaveDir, Unwind, Finish,
                SkipFile, OpenFile, OpenFails, WriteChunk, ReadFails, KeepFile, DropFile
  <2>2. pc \notin Finished
    BY <2>1, FinishedIsOver
  <2>3. ~userCancelled => ~cancel
    BY <2>2 DEF SessionInv, Finished
  <2>4. PassedAccounted'
    BY <2>1, AccountStep DEF Next
  <2> QED BY <2>1, <2>3, <2>4 DEF SessionCounts, PassedAccounted
<1>2. CASE WorkerThrows
  BY <1>2 DEF WorkerThrows, Throw, SessionCounts
<1>3. CASE CancelClick
  BY <1>3 DEF CancelClick, SessionCounts
<1>4. CASE Tick \/ StopWorker \/ Join \/ UNCHANGED sessionVars
  <2>1. UNCHANGED <<vol, walkVars, counters, pc, userCancelled>>
    BY <1>4 DEF Tick, StopWorker, Join, sessionVars, uiVars, vars, walkVars, counters
  <2> QED BY <2>1, CountsCarried DEF SessionCounts
<1> QED BY <1>1, <1>2, <1>3, <1>4 DEF SessionNext, UiStep, Reported

(* When the message box mentions neither a cancellation nor a failure, the *)
(* files it reports and those the "skip" policy left alone are all the     *)
(* files below the ticked roots, once for each way to them, and its        *)
(* refusals all the loops: for every volume, and every order of clicks,    *)
(* ticks, stops and exceptions.                                            *)
THEOREM SilentExportIsComplete == SessionSpec => []SilenceMeansComplete
<1> DEFINE Inv == /\ TypeOK /\ StreamingFile /\ LoopFree
                  /\ PassedAccounted /\ SessionInv /\ SessionCounts
<1>1. SessionInit => Inv
  BY TypeInit, StreamingInit, LoopFreeInit, AccountInit, SessionInvInit
     DEF SessionInit, Init, SessionCounts, PassedAccounted
<1>2. Inv /\ [SessionNext]_sessionVars => Inv'
  BY SessionStep, TypeStep, StreamingStep, LoopFreeStep, AccountStep, SessionInvStep, SessionCountsStep
<1>3. Inv => SilenceMeansComplete
  <2> SUFFICES ASSUME Inv, ui = "report", ~report.cancelled, report.fails = 0
               PROVE  /\ report.files + skipped = Cardinality(FileRoutes)
                      /\ report.cycles = Cardinality(RefusedRoutes)
    BY DEF SilenceMeansComplete
  <2>1. pc \in Finished /\ ~userCancelled /\ fails = 0 /\ report.files = files /\ report.cycles = cycles
    BY DEF SessionInv, ReportIsFinal
  <2>2. pc = "done" /\ jobs = <<>> /\ stack = <<>>
    BY <2>1 DEF SessionInv, Finished
  <2>3. CountsMatch
    BY <2>1, <2>2 DEF SessionCounts
  <2>4. files + fails + skipped = Cardinality(FileRoutes) /\ cycles = Cardinality(RefusedRoutes)
    BY <2>2, <2>3, AccountEnd
  <2>5. files + fails + skipped = files + skipped
    BY <2>1 DEF TypeOK
  <2> QED BY <2>1, <2>4, <2>5
<1> QED BY <1>1, <1>2, <1>3, PTL DEF SessionSpec
=============================================================================
