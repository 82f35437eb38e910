-------------------------- MODULE GuiSessionProofs --------------------------
(***************************************************************************)
(* What the tree of the main window shows is of one image, no volume is    *)
(* mounted from its ciphertext, and the files ticked are those exported:   *)
(* RowsAreOfTheImage, NoCiphertextMounted and TickedIsExported of          *)
(* GuiSession, for every set of sources.                                   *)
(***************************************************************************)
EXTENDS GuiSession, NumberLemmas, TLAPS

-----------------------------------------------------------------------------
(* The inductive invariant.                                                *)

Shown == IF image.sound THEN image.vols ELSE image.alone

IsRow(r) ==
  r = [up |-> r.up, stub |-> r.stub, loaded |-> r.loaded, deleted |-> r.deleted, state |-> r.state]

State(p) == rows[VolumeRow(p)].state

(* Nothing is shown, or the volumes of one of the sources are.             *)
ImageOK ==
  \/ volumes = <<>> /\ mounts = <<>> /\ rows = <<>> /\ image = NoSource
  \/ image \in Sources /\ DOMAIN volumes = DOMAIN Shown

(* A row belongs to a volume that is shown, and every volume has its row.  *)
ShapeOK ==
  /\ \A k \in DOMAIN rows : k \in (DOMAIN volumes) \X Nat \X {"node", "stub"} /\ IsRow(rows[k])
  /\ \A p \in DOMAIN volumes : VolumeRow(p) \in DOMAIN rows

(* The state of a volume's row tells what is behind it.                    *)
VolumesOK ==
  \A p \in DOMAIN volumes :
    /\ volumes[p] \in Seq(FileEntry) \cup {NoFs}
    /\ State(p) \in {Behind(p).label, "unlocked", "nocipher"}
    /\ State(p) = "unlocked" => Behind(p).cipher /\ volumes[p] = Behind(p).inner

(* What can be mounted, and what has rows below it, has a readable source. *)
MountsOK ==
  /\ \A p \in DOMAIN mounts :
       p \in DOMAIN volumes /\ mounts[p] = volumes[p] /\ Browsable(State(p))
  /\ \A k \in DOMAIN rows : k # VolumeRow(k[1]) => Browsable(State(k[1]))

(* A row of the tree is an entry of its mount, a filled one has all of     *)
(* them below it, and the row of a volume is no file.                      *)
RowOK(k) ==
  k[3] = "node" =>
    /\ k[2] > 0 => k[1] \in DOMAIN mounts /\ mounts[k[1]][k[2]].up = rows[k].up
    /\ rows[k].loaded =>
         /\ k[1] \in DOMAIN mounts
         /\ mounts[k[1]] # NoFs =>
              \A m \in DOMAIN mounts[k[1]] :
                mounts[k[1]][m].up = k[2] => <<k[1], m, "node">> \in DOMAIN rows
    /\ rows[k].state = "file" => k[2] > 0

RowsOK == \A k \in DOMAIN rows : RowOK(k)

PreviewOK ==
  preview # <<>> => preview \in DOMAIN rows /\ preview[3] = "node" /\ rows[preview].state = "file"

Results == {NoResult} \cup {Produced(s, key) : s \in Sources, key \in Keys}

(* The worker has written what it produces before it says it is done, and  *)
(* a volume that is being unlocked stays locked meanwhile.                 *)
BusyOK ==
  \/ busy \in [op : {"idle", "terminated"}, dialog : BOOLEAN, done : BOOLEAN] /\ ~busy.dialog
  \/ /\ busy \in [op : {"open"}, dialog : BOOLEAN, done : BOOLEAN, source : Sources,
                  key : Keys, opened : Results]
     /\ busy.done => busy.opened = Produced(busy.source, busy.key)
  \/ /\ busy \in [op : {"unlock"}, dialog : BOOLEAN, done : BOOLEAN, part : DOMAIN volumes,
                  key : Keys]
     /\ State(busy.part) \in {"bitlocker", "filevault"}
  \/ busy.op = "export"

TreeOK == ImageOK /\ ShapeOK /\ VolumesOK /\ MountsOK /\ RowsOK /\ PreviewOK

GuiInv == TreeOK /\ BusyOK

-----------------------------------------------------------------------------
(* The helpers.                                                            *)

(* What a source shows is a sequence of volumes.                           *)
LEMMA ShownVolumes ==
  ASSUME NEW s \in Sources
  PROVE  s.vols \in Seq(Volume) /\ s.alone \in Seq(Volume)
BY SourcesAssumption DEF Source

(* A volume of a source: its sources can be read as filesystems, and its   *)
(* label is none of the states a row takes later.                          *)
LEMMA VolumeFacts ==
  ASSUME NEW v \in Volume
  PROVE  /\ v.fs \in Seq(FileEntry) \cup {NoFs}
         /\ v.inner \in Seq(FileEntry) \cup {NoFs}
         /\ v.label \in {"fs", "stub", "unknown", "bitlocker", "filevault", "coreplain"}
BY DEF Volume

(* prepareVolumes keeps the number of volumes, and calls one unlocked only *)
(* with the decrypted source in its place.                                 *)
LEMMA PreparedFacts ==
  ASSUME NEW vols \in Seq(Volume), NEW key
  PROVE  /\ DOMAIN Prepared(vols, key) = DOMAIN vols
         /\ \A i \in DOMAIN vols :
              LET r == Prepared(vols, key)[i] IN
              /\ r.fs \in Seq(FileEntry) \cup {NoFs}
              /\ r.state \in {vols[i].label, "unlocked", "nocipher"}
              /\ r.state = "unlocked" => vols[i].cipher /\ r.fs = vols[i].inner
<1>1. DOMAIN Prepared(vols, key) = DOMAIN vols
  BY DEF Prepared
<1>2. ASSUME NEW i \in DOMAIN vols
      PROVE  LET r == Prepared(vols, key)[i] IN
             /\ r.fs \in Seq(FileEntry) \cup {NoFs}
             /\ r.state \in {vols[i].label, "unlocked", "nocipher"}
             /\ r.state = "unlocked" => vols[i].cipher /\ r.fs = vols[i].inner
  <2> DEFINE v == vols[i]
  <2>1. v \in Volume
    BY <1>2
  <2>2. Prepared(vols, key)[i] =
          (CASE v.label # "bitlocker" \/ key = "none" -> [state |-> v.label, fs |-> v.fs]
             [] v.label = "bitlocker" /\ key # "none" /\ ~v.cipher -> [state |-> "nocipher", fs |-> v.fs]
             [] v.label = "bitlocker" /\ key = "right" /\ v.cipher -> [state |-> "unlocked", fs |-> v.inner]
             [] OTHER -> [state |-> "bitlocker", fs |-> v.fs])
    BY <1>2 DEF Prepared
  <2> HIDE DEF v
  <2>3. /\ v.fs \in Seq(FileEntry) \cup {NoFs}
        /\ v.inner \in Seq(FileEntry) \cup {NoFs}
        /\ v.label # "unlocked"
    BY <2>1, VolumeFacts
  <2>4. CASE v.label # "bitlocker" \/ key = "none"
    BY <2>2, <2>3, <2>4 DEF v
  <2>5. CASE v.label = "bitlocker" /\ key # "none"
    BY <2>2, <2>3, <2>5 DEF v
  <2> QED BY <2>4, <2>5
<1> QED BY <1>1, <1>2

(* What the worker of an open that did not fail hands over.                *)
LEMMA ProducedFacts ==
  ASSUME NEW s \in Sources, NEW key, ~Produced(s, key).error
  PROVE  Produced(s, key) =
           [error |-> FALSE, source |-> s,
            vols |-> Prepared(IF s.sound THEN s.vols ELSE s.alone, key)]
BY DEF Produced, NoResult

(* mountFor adds the one volume to the mounts and changes no other.        *)
LEMMA MountedFacts ==
  ASSUME NEW p
  PROVE  /\ DOMAIN Mounted(p) = DOMAIN mounts \cup {p}
         /\ p \notin DOMAIN mounts => Mounted(p)[p] = volumes[p]
         /\ \A q \in DOMAIN mounts : Mounted(p)[q] = mounts[q]
<1>1. CASE p \in DOMAIN mounts
  BY <1>1 DEF Mounted
<1>2. CASE p \notin DOMAIN mounts
  BY <1>2 DEF Mounted, Joint, Only
<1> QED BY <1>1, <1>2

(* A new row is a row, not yet filled.                                     *)
LEMMA RowFacts ==
  /\ \A up, stub, deleted, state :
       LET r == Row(up, stub, FALSE, deleted, state)
       IN  IsRow(r) /\ r.up = up /\ ~r.loaded /\ r.state = state
  /\ \A text, n : IsRow(Stub(text, n))
BY DEF Row, Stub, IsRow

(* The rows `new` are what filling node n of volume p from fs gives: an    *)
(* entry of fs below n each, and none of those missing.                    *)
IsFilling(new, fs, p, n) ==
  /\ \A k \in DOMAIN new :
       /\ k \in {p} \X Nat \X {"node", "stub"}
       /\ IsRow(new[k])
       /\ k[3] = "node" =>
            fs # NoFs /\ k[2] \in Nat \ {0} /\ fs[k[2]].up = n /\ new[k].up = n /\ ~new[k].loaded
  /\ fs # NoFs => \A m \in DOMAIN fs : fs[m].up = n => <<p, m, "node">> \in DOMAIN new

(* populateChildren, with a mount or with none.                            *)
LEMMA FilledRows ==
  ASSUME NEW fs \in Seq(FileEntry) \cup {NoFs}, NEW p, NEW n \in Nat
  PROVE  IsFilling(IF fs = NoFs THEN Only(StubRow(p, n), Stub("(no readable filesystem)", n))
                   ELSE Filled(fs, p, n), fs, p, n)
<1>1. ASSUME NEW text, fs = NoFs \/ \A m \in DOMAIN fs : fs[m].up # n
      PROVE  IsFilling(Only(StubRow(p, n), Stub(text, n)), fs, p, n)
  <2> DEFINE k   == <<p, n, "stub">>
             new == Only(StubRow(p, n), Stub(text, n))
  <2>1. DOMAIN new = {k} /\ IsRow(new[k])
    BY RowFacts DEF Only, StubRow
  <2>2. k \in {p} \X Nat \X {"node", "stub"} /\ k[3] # "node"
    OBVIOUS
  <2> HIDE DEF new, k
  <2>3. IsFilling(new, fs, p, n)
    BY <1>1, <2>1, <2>2 DEF IsFilling
  <2> QED BY <2>3 DEF new
<1>2. CASE fs = NoFs
  BY <1>1, <1>2
<1>3. CASE fs # NoFs
  <2> DEFINE found   == ListDir(fs, n, FALSE)
             folders == {m \in DOMAIN found : fs[m].dir}
             nodes   == [k \in {<<p, m, "node">> : m \in DOMAIN found} |->
                           Row(n, "", FALSE, found[k[2]], IF fs[k[2]].dir THEN "dir" ELSE "file")]
             stubs   == [k \in {StubRow(p, m) : m \in folders} |-> Stub("...", k[2])]
  <2>1. DOMAIN fs \subseteq Nat \ {0} /\ fs \in Seq(FileEntry)
    BY <1>3
  <2>2. DOMAIN found = {i \in DOMAIN fs : fs[i].up = n}
    BY DEF ListDir
  <2>4. Filled(fs, p, n) = IF found = <<>> THEN Only(StubRow(p, n), Stub("(empty)", n))
                           ELSE Joint(nodes, stubs)
    BY DEF Filled
  <2> HIDE DEF found
  <2>5. CASE found = <<>>
    <3>1. DOMAIN found = {}
      BY <2>5
    <3>2. \A m \in DOMAIN fs : fs[m].up # n
      BY <2>2, <3>1
    <3> QED BY <1>1, <1>3, <2>4, <2>5, <3>2
  <2>6. CASE found # <<>>
    <3> DEFINE new == Joint(nodes, stubs)
    <3>1. DOMAIN new = {<<p, m, "node">> : m \in DOMAIN found} \cup {<<p, m, "stub">> : m \in folders}
      BY DEF Joint, StubRow
    <3>2. \A m \in DOMAIN found :
            new[<<p, m, "node">>] = Row(n, "", FALSE, found[m], IF fs[m].dir THEN "dir" ELSE "file")
      BY DEF Joint, StubRow
    <3>3. \A m \in folders : new[<<p, m, "stub">>] = Stub("...", m)
      BY DEF Joint, StubRow
    <3> HIDE DEF new
    <3>4. \A m \in DOMAIN found : IsRow(new[<<p, m, "node">>])
                                  /\ new[<<p, m, "node">>].up = n /\ ~new[<<p, m, "node">>].loaded
      <4> SUFFICES ASSUME NEW m \in DOMAIN found
                   PROVE  LET r == new[<<p, m, "node">>] IN IsRow(r) /\ r.up = n /\ ~r.loaded
        OBVIOUS
      <4> DEFINE kind == IF fs[m].dir THEN "dir" ELSE "file"
                 r    == new[<<p, m, "node">>]
      <4>1. r = Row(n, "", FALSE, found[m], kind)
        BY <3>2
      <4> HIDE DEF kind, r
      <4>2. IsRow(r) /\ r.up = n /\ ~r.loaded
        BY <4>1 DEF Row, IsRow
      <4> QED BY <4>2 DEF r
    <3>5. \A m \in folders : IsRow(new[<<p, m, "stub">>])
      BY <3>3, RowFacts
    <3>6. IsFilling(new, fs, p, n)
      BY <1>3, <2>1, <2>2, <3>1, <3>4, <3>5 DEF IsFilling
    <3> QED BY <1>3, <2>4, <2>6, <3>6 DEF new
  <2> QED BY <2>5, <2>6
<1> QED BY <1>2, <1>3

-----------------------------------------------------------------------------
(* The steps.                                                              *)

LEMMA GuiInit == Init => GuiInv
<1> SUFFICES ASSUME Init PROVE GuiInv
  OBVIOUS
<1>1. /\ volumes = <<>> /\ mounts = <<>> /\ rows = <<>> /\ preview = <<>> /\ image = NoSource
      /\ busy = [op |-> "idle", dialog |-> FALSE, done |-> FALSE]
  BY DEF Init, Idle
<1>2. DOMAIN volumes = {} /\ DOMAIN mounts = {} /\ DOMAIN rows = {}
  BY <1>1
<1>3. BusyOK
  BY <1>1 DEF BusyOK
<1> QED BY <1>1, <1>2, <1>3 DEF GuiInv, TreeOK, ImageOK, ShapeOK, VolumesOK, MountsOK, RowsOK, PreviewOK

(* What concerns neither the tree nor the mounts.                          *)
LEMMA TreeKept ==
  ASSUME TreeOK, UNCHANGED <<image, volumes, mounts, rows, preview>>
  PROVE  TreeOK'
BY DEF TreeOK, ImageOK, ShapeOK, VolumesOK, MountsOK, RowsOK, RowOK, PreviewOK, Shown, State, Behind, IsRow

(* A new tree: a row per volume, a stub below those that can be read.      *)
LEMMA BuildStep ==
  ASSUME NEW s \in Sources, NEW key, ~Produced(s, key).error, BuildTree(Produced(s, key))
  PROVE  TreeOK'
<1> DEFINE V  == IF s.sound THEN s.vols ELSE s.alone
           vs == Prepared(V, key)
<1>1. Produced(s, key) = [error |-> FALSE, source |-> s, vols |-> vs]
  BY ProducedFacts
<1> HIDE DEF vs
<1>2. /\ image' = s
      /\ volumes' = [p \in DOMAIN vs |-> vs[p].fs]
      /\ mounts' = <<>>
      /\ rows' = Fresh(vs)
      /\ preview' = <<>>
  BY <1>1 DEF BuildTree, KeptMounts
<1>3. V \in Seq(Volume)
  BY ShownVolumes
<1> HIDE DEF V
<1>4. /\ DOMAIN vs = DOMAIN V
      /\ \A i \in DOMAIN V :
           /\ vs[i].fs \in Seq(FileEntry) \cup {NoFs}
           /\ vs[i].state \in {V[i].label, "unlocked", "nocipher"}
           /\ vs[i].state = "unlocked" => V[i].cipher /\ vs[i].fs = V[i].inner
  BY <1>3, PreparedFacts DEF vs
<1>5. Shown' = V /\ \A p : Behind(p)' = V[p]
  BY <1>2 DEF Shown, Behind, V
<1>6. DOMAIN volumes' = DOMAIN V /\ \A p \in DOMAIN V : volumes'[p] = vs[p].fs
  BY <1>2, <1>4
<1>7. /\ DOMAIN rows' = {<<p, 0, "node">> : p \in DOMAIN V} \cup
                        {<<p, 0, "stub">> : p \in {q \in DOMAIN V : Browsable(vs[q].state)}}
      /\ \A p \in DOMAIN V : rows'[<<p, 0, "node">>] = Row(-1, "", FALSE, FALSE, vs[p].state)
      /\ \A p \in DOMAIN V : Browsable(vs[p].state) => rows'[<<p, 0, "stub">>] = Stub("...", 0)
  BY <1>2, <1>4 DEF Fresh, VolumeRow, StubRow
<1>8. \A p \in DOMAIN V :
        /\ State(p)' = vs[p].state
        /\ IsRow(rows'[<<p, 0, "node">>])
        /\ ~rows'[<<p, 0, "node">>].loaded
        /\ Browsable(vs[p].state) => IsRow(rows'[<<p, 0, "stub">>])
  <2> SUFFICES ASSUME NEW p \in DOMAIN V
               PROVE  /\ State(p)' = vs[p].state
                      /\ IsRow(rows'[<<p, 0, "node">>])
                      /\ ~rows'[<<p, 0, "node">>].loaded
                      /\ Browsable(vs[p].state) => IsRow(rows'[<<p, 0, "stub">>])
    OBVIOUS
  <2> DEFINE r  == rows'[<<p, 0, "node">>]
             st == vs[p].state
  <2>1. r = Row(-1, "", FALSE, FALSE, st)
    BY <1>7
  <2>2. Browsable(vs[p].state) => rows'[<<p, 0, "stub">>] = Stub("...", 0)
    BY <1>7
  <2>3. State(p)' = r.state
    BY DEF State, VolumeRow
  <2>4. IsRow(r) /\ ~r.loaded /\ r.state = st
    <3> HIDE DEF r, st
    <3> QED BY <2>1 DEF Row, IsRow
  <2> QED BY <2>2, <2>3, <2>4, RowFacts
<1>9. \A k \in DOMAIN rows' : \E p \in DOMAIN V :
        k = <<p, 0, "node">> \/ (k = <<p, 0, "stub">> /\ Browsable(vs[p].state))
  BY <1>7
<1>10. ImageOK'
  BY <1>2, <1>5, <1>6 DEF ImageOK
<1>11. ShapeOK'
  <2>1. \A k \in DOMAIN rows' : k \in (DOMAIN volumes') \X Nat \X {"node", "stub"} /\ IsRow(rows'[k])
    <3> SUFFICES ASSUME NEW k \in DOMAIN rows'
                 PROVE  k \in (DOMAIN volumes') \X Nat \X {"node", "stub"} /\ IsRow(rows'[k])
      OBVIOUS
    <3>1. PICK p \in DOMAIN V : k = <<p, 0, "node">> \/ (k = <<p, 0, "stub">> /\ Browsable(vs[p].state))
      BY <1>9
    <3>2. IsRow(rows'[k])
      BY <1>8, <3>1
    <3> QED BY <1>6, <3>1, <3>2
  <2>2. \A p \in DOMAIN volumes' : <<p, 0, "node">> \in DOMAIN rows'
    BY <1>6, <1>7
  <2> QED BY <2>1, <2>2 DEF ShapeOK, VolumeRow, IsRow
<1>12. VolumesOK'
  BY <1>4, <1>5, <1>6, <1>8 DEF VolumesOK
<1>13. MountsOK'
  <2>1. \A k \in DOMAIN rows' : k # <<k[1], 0, "node">> => Browsable(State(k[1])')
    <3> SUFFICES ASSUME NEW k \in DOMAIN rows', k # <<k[1], 0, "node">>
                 PROVE  Browsable(State(k[1])')
      OBVIOUS
    <3>1. PICK p \in DOMAIN V : k = <<p, 0, "node">> \/ (k = <<p, 0, "stub">> /\ Browsable(vs[p].state))
      BY <1>9
    <3>2. k[1] = p /\ Browsable(vs[p].state)
      BY <3>1
    <3> QED BY <1>8, <3>2
  <2> QED BY <1>2, <2>1 DEF MountsOK, VolumeRow, State
<1>14. RowsOK'
  <2> SUFFICES ASSUME NEW k \in DOMAIN rows', k[3] = "node" PROVE RowOK(k)'
    BY DEF RowsOK, RowOK
  <2>1. PICK p \in DOMAIN V : k = <<p, 0, "node">>
    BY <1>9
  <2>2. ~rows'[k].loaded /\ k[2] = 0
    BY <1>8, <2>1
  <2>3. rows'[k].state # "file"
    <3>1. rows'[k].state = vs[p].state
      BY <1>8, <2>1 DEF State, VolumeRow
    <3>2. V[p].label # "file"
      BY <1>3, <2>1, VolumeFacts
    <3> QED BY <1>4, <2>1, <3>1, <3>2
  <2> QED BY <2>2, <2>3 DEF RowOK
<1>15. PreviewOK'
  BY <1>2 DEF PreviewOK
<1> QED BY <1>10, <1>11, <1>12, <1>13, <1>14, <1>15 DEF TreeOK

LEMMA JointFacts ==
  ASSUME NEW f, NEW g
  PROVE  /\ DOMAIN Joint(f, g) = DOMAIN f \cup DOMAIN g
         /\ \A x \in DOMAIN f : Joint(f, g)[x] = f[x]
         /\ \A x \in DOMAIN g : x \notin DOMAIN f => Joint(f, g)[x] = g[x]
BY DEF Joint

(* A row with its mark set is otherwise the row it was.                    *)
LEMMA MarkedRow ==
  ASSUME NEW r, IsRow(r), NEW x
  PROVE  /\ x = [r EXCEPT !.loaded = TRUE] =>
              IsRow(x) /\ x.up = r.up /\ x.state = r.state
         /\ x = [r EXCEPT !.state = "unlocked", !.loaded = TRUE] =>
              IsRow(x) /\ x.up = r.up /\ x.state = "unlocked"
         /\ x = [r EXCEPT !.state = "nocipher"] =>
              IsRow(x) /\ x.up = r.up /\ x.state = "nocipher" /\ (x.loaded <=> r.loaded)
<1> DEFINE on == TRUE
<1>1. r = [up |-> r.up, stub |-> r.stub, loaded |-> r.loaded, deleted |-> r.deleted, state |-> r.state]
  BY DEF IsRow
<1> HIDE DEF on
<1>2. ASSUME x = [r EXCEPT !.loaded = on]
      PROVE  IsRow(x) /\ x.up = r.up /\ x.state = r.state
  <2>1. x = [up |-> r.up, stub |-> r.stub, loaded |-> on, deleted |-> r.deleted, state |-> r.state]
    BY <1>1, <1>2
  <2> QED BY <2>1 DEF IsRow
<1>3. ASSUME x = [r EXCEPT !.state = "unlocked", !.loaded = on]
      PROVE  IsRow(x) /\ x.up = r.up /\ x.state = "unlocked"
  <2>1. x = [up |-> r.up, stub |-> r.stub, loaded |-> on, deleted |-> r.deleted, state |-> "unlocked"]
    BY <1>1, <1>3
  <2> QED BY <2>1 DEF IsRow
<1>4. ASSUME x = [r EXCEPT !.state = "nocipher"]
      PROVE  IsRow(x) /\ x.up = r.up /\ x.state = "nocipher" /\ (x.loaded <=> r.loaded)
  <2>1. x = [up |-> r.up, stub |-> r.stub, loaded |-> r.loaded, deleted |-> r.deleted, state |-> "nocipher"]
    BY <1>1, <1>4
  <2>2. x.loaded = r.loaded
    BY <2>1
  <2> QED BY <2>1, <2>2 DEF IsRow
<1> QED BY <1>2, <1>3, <1>4 DEF on

(* Filling row k from what is mounted there keeps every row right.         *)
LEMMA FillingKeepsRows ==
  ASSUME RowsOK,
         NEW k \in DOMAIN rows, NEW fs, NEW new,
         IsFilling(new, fs, k[1], k[2]),
         k[1] \in DOMAIN mounts', mounts'[k[1]] = fs,
         \A q \in DOMAIN mounts : q \in DOMAIN mounts' /\ mounts'[q] = mounts[q],
         \A j \in DOMAIN rows : j[3] = "node" =>
           /\ j \in DOMAIN rows' /\ rows'[j].up = rows[j].up
           /\ rows'[j].state \in {rows[j].state, "unlocked"}
           /\ rows'[j].loaded => rows[j].loaded \/ j = k,
         DOMAIN new \subseteq DOMAIN rows',
         \A j \in DOMAIN rows' : j \notin DOMAIN rows => j \in DOMAIN new /\ rows'[j] = new[j]
  PROVE  RowsOK'
<1> SUFFICES ASSUME NEW j \in DOMAIN rows', j[3] = "node" PROVE RowOK(j)'
  BY DEF RowsOK, RowOK
<1>1. CASE j \in DOMAIN rows
  <2>1. RowOK(j)
    BY <1>1 DEF RowsOK
  <2>2. j[2] > 0 => j[1] \in DOMAIN mounts' /\ mounts'[j[1]][j[2]].up = rows'[j].up
    BY <1>1, <2>1 DEF RowOK
  <2>3. rows'[j].state = "file" => j[2] > 0
    BY <1>1, <2>1 DEF RowOK
  <2>4. ASSUME rows'[j].loaded
        PROVE  /\ j[1] \in DOMAIN mounts'
               /\ mounts'[j[1]] # NoFs =>
                    \A m \in DOMAIN mounts'[j[1]] :
                      mounts'[j[1]][m].up = j[2] => <<j[1], m, "node">> \in DOMAIN rows'
    <3>1. CASE j = k
      BY <3>1 DEF IsFilling
    <3>2. CASE rows[j].loaded
      <4>1. j[1] \in DOMAIN mounts /\ mounts'[j[1]] = mounts[j[1]] /\ j[1] \in DOMAIN mounts'
        BY <2>1, <3>2 DEF RowOK
      <4>2. \A m : <<j[1], m, "node">> \in DOMAIN rows => <<j[1], m, "node">> \in DOMAIN rows'
        OBVIOUS
      <4> QED BY <2>1, <3>2, <4>1, <4>2 DEF RowOK
    <3> QED BY <1>1, <2>4, <3>1, <3>2
  <2> QED BY <2>2, <2>3, <2>4 DEF RowOK
<1>2. CASE j \notin DOMAIN rows
  <2>1. j \in DOMAIN new /\ rows'[j] = new[j]
    BY <1>2
  <2>2. /\ j \in {k[1]} \X Nat \X {"node", "stub"} /\ j[2] \in Nat \ {0}
        /\ fs[j[2]].up = k[2] /\ new[j].up = k[2] /\ ~new[j].loaded
    BY <2>1 DEF IsFilling
  <2>3. j[1] = k[1] /\ j[2] > 0
    BY <2>2
  <2> QED BY <2>1, <2>2, <2>3 DEF RowOK
<1> QED BY <1>1, <1>2

(* A row is filled from what is behind its volume: only a volume that can  *)
(* be read has a row with something below it, so nothing else is mounted.  *)
LEMMA ExpandStep ==
  ASSUME TreeOK, NEW k \in DOMAIN rows, Expand(k)
  PROVE  TreeOK'
<1> DEFINE p    == k[1]
           n    == k[2]
           fs   == Mounted(p)[p]
           kept == [j \in DOMAIN rows \ {StubRow(p, n)} |-> rows[j]]
           new  == IF fs = NoFs THEN Only(StubRow(p, n), Stub("(no readable filesystem)", n))
                   ELSE Filled(fs, p, n)
           old  == [kept EXCEPT ![k].loaded = TRUE]
<1> USE DEF TreeOK
<1>1. /\ mounts' = Mounted(p) /\ rows' = Joint(old, new)
      /\ UNCHANGED <<image, volumes, preview>> /\ Children(rows, k) # {}
  BY DEF Expand
<1>2. k[3] = "node" /\ Browsable(State(p)) /\ p \in DOMAIN volumes /\ n \in Nat /\ k = <<p, n, "node">>
  <2>1. k[3] = "node" /\ \E j \in DOMAIN rows : j[1] = p /\ j # k
    BY <1>1 DEF Children
  <2>2. k \in (DOMAIN volumes) \X Nat \X {"node", "stub"}
    BY DEF ShapeOK
  <2>3. PICK j \in DOMAIN rows : j[1] = p /\ j # k
    BY <2>1
  <2>4. j # VolumeRow(p) \/ k # VolumeRow(p)
    BY <2>3
  <2>5. Browsable(State(p))
    BY <2>3, <2>4 DEF MountsOK
  <2> QED BY <2>1, <2>2, <2>5
<1>3. /\ DOMAIN mounts' = DOMAIN mounts \cup {p}
      /\ \A q \in DOMAIN mounts : mounts'[q] = mounts[q]
      /\ mounts'[p] = fs /\ fs = volumes[p]
  <2>1. \A q \in DOMAIN mounts : mounts[q] = volumes[q]
    BY DEF MountsOK
  <2>2. mounts' = Mounted(p)
    BY <1>1
  <2>3. /\ DOMAIN Mounted(p) = DOMAIN mounts \cup {p}
        /\ p \notin DOMAIN mounts => Mounted(p)[p] = volumes[p]
        /\ \A q \in DOMAIN mounts : Mounted(p)[q] = mounts[q]
    BY MountedFacts
  <2> HIDE DEF p
  <2> QED BY <2>1, <2>2, <2>3 DEF fs
<1>4. fs \in Seq(FileEntry) \cup {NoFs}
  BY <1>2, <1>3 DEF VolumesOK
<1> HIDE DEF fs
<1>5. IsFilling(new, fs, p, n)
  BY <1>2, <1>4, FilledRows
<1>6. /\ DOMAIN old = DOMAIN rows \ {<<p, n, "stub">>} /\ k \in DOMAIN old
      /\ \A j \in DOMAIN old : j # k => old[j] = rows[j]
      /\ old[k] = [rows[k] EXCEPT !.loaded = TRUE]
  BY <1>2 DEF StubRow
<1> HIDE DEF new, old
<1>7. /\ DOMAIN rows' = DOMAIN old \cup DOMAIN new
      /\ \A j \in DOMAIN old : rows'[j] = old[j]
      /\ \A j \in DOMAIN new : j \notin DOMAIN old => rows'[j] = new[j]
  <2>1. rows' = Joint(old, new)
    BY <1>1
  <2> QED BY <2>1 DEF Joint
<1>8. \A j \in DOMAIN old :
        /\ IsRow(rows'[j]) /\ rows'[j].up = rows[j].up /\ rows'[j].state = rows[j].state
        /\ rows'[j].loaded => rows[j].loaded \/ j = k
  <2> SUFFICES ASSUME NEW j \in DOMAIN old
               PROVE  /\ IsRow(rows'[j]) /\ rows'[j].up = rows[j].up /\ rows'[j].state = rows[j].state
                      /\ rows'[j].loaded => rows[j].loaded \/ j = k
    OBVIOUS
  <2>1. IsRow(rows[j])
    BY <1>6 DEF ShapeOK
  <2>2. CASE j = k
    <3>1. rows'[j] = [rows[j] EXCEPT !.loaded = TRUE]
      BY <1>6, <1>7, <2>2
    <3> QED BY <2>1, <2>2, <3>1, MarkedRow
  <2>3. CASE j # k
    BY <1>6, <1>7, <2>1, <2>3
  <2> QED BY <2>2, <2>3
<1>9. \A j \in DOMAIN rows : j[3] = "node" => j \in DOMAIN old
  BY <1>6
<1>10. \A q \in DOMAIN volumes : VolumeRow(q) \in DOMAIN old /\ State(q)' = State(q)
  <2>1. \A q \in DOMAIN volumes : VolumeRow(q) \in DOMAIN rows /\ VolumeRow(q)[3] = "node"
    BY DEF ShapeOK, VolumeRow
  <2> QED BY <1>8, <1>9, <2>1 DEF State, VolumeRow
<1>11. ImageOK'
  BY <1>1, <1>2 DEF ImageOK, Shown
<1>12. ShapeOK'
  <2>1. ASSUME NEW j \in DOMAIN rows'
        PROVE  j \in (DOMAIN volumes) \X Nat \X {"node", "stub"} /\ IsRow(rows'[j])
    <3>1. CASE j \in DOMAIN old
      BY <1>6, <1>8, <3>1 DEF ShapeOK
    <3>2. CASE j \notin DOMAIN old
      <4>1. j \in DOMAIN new /\ rows'[j] = new[j]
        BY <1>7, <2>1, <3>2
      <4>2. j \in {p} \X Nat \X {"node", "stub"} /\ IsRow(new[j])
        BY <1>5, <4>1 DEF IsFilling
      <4> QED BY <1>2, <4>1, <4>2
    <3> QED BY <3>1, <3>2
  <2> QED BY <1>1, <1>7, <1>10, <2>1 DEF ShapeOK, VolumeRow, IsRow
<1>13. VolumesOK'
  BY <1>1, <1>10 DEF VolumesOK, Behind
<1>14. MountsOK'
  <2>1. ASSUME NEW q \in DOMAIN mounts'
        PROVE  q \in DOMAIN volumes' /\ mounts'[q] = volumes'[q] /\ Browsable(State(q)')
    BY <1>1, <1>2, <1>3, <1>10 DEF MountsOK
  <2>2. ASSUME NEW j \in DOMAIN rows', j # VolumeRow(j[1])
        PROVE  Browsable(State(j[1])')
    <3>1. CASE j \in DOMAIN rows
      <4>1. j[1] \in DOMAIN volumes
        BY <3>1 DEF ShapeOK
      <4> QED BY <1>10, <2>2, <3>1, <4>1 DEF MountsOK
    <3>2. CASE j \notin DOMAIN rows
      <4>1. j \in DOMAIN new
        BY <1>6, <1>7, <3>2
      <4>2. j[1] = p
        BY <1>5, <4>1 DEF IsFilling
      <4> QED BY <1>2, <1>10, <4>2
    <3> QED BY <3>1, <3>2
  <2> QED BY <2>1, <2>2 DEF MountsOK, VolumeRow, State
<1>15. RowsOK'
  <2>1. \A j \in DOMAIN rows' : j \notin DOMAIN rows => j \in DOMAIN new /\ rows'[j] = new[j]
    BY <1>6, <1>7
  <2>2. \A j \in DOMAIN rows : j[3] = "node" =>
           /\ j \in DOMAIN rows' /\ rows'[j].up = rows[j].up
           /\ rows'[j].state \in {rows[j].state, "unlocked"}
           /\ rows'[j].loaded => rows[j].loaded \/ j = k
    BY <1>7, <1>8, <1>9
  <2>3. DOMAIN new \subseteq DOMAIN rows'
    BY <1>7
  <2>4. p \in DOMAIN mounts' /\ mounts'[p] = fs
        /\ \A q \in DOMAIN mounts : q \in DOMAIN mounts' /\ mounts'[q] = mounts[q]
    BY <1>3
  <2> QED BY <1>5, <2>1, <2>2, <2>3, <2>4, FillingKeepsRows
<1>16. PreviewOK'
  BY <1>1, <1>7, <1>8, <1>9 DEF PreviewOK
<1> QED BY <1>11, <1>12, <1>13, <1>14, <1>15, <1>16

(* A volume still locked has no row but its own, and is not mounted.       *)
LEMMA LockedIsBare ==
  ASSUME TreeOK, NEW p \in DOMAIN volumes, State(p) \in {"bitlocker", "filevault"}
  PROVE  /\ p \notin DOMAIN mounts
         /\ \A j \in DOMAIN rows : j[1] = p => j = VolumeRow(p)
         /\ Behind(p) \in Volume
<1>1. ~Browsable(State(p))
  BY DEF Browsable
<1>2. image \in Sources /\ p \in DOMAIN Shown
  <2>1. volumes # <<>>
    OBVIOUS
  <2> QED BY <2>1 DEF TreeOK, ImageOK
<1>3. Shown \in Seq(Volume)
  BY <1>2, ShownVolumes DEF Shown
<1>4. Behind(p) = Shown[p]
  BY DEF Behind, Shown
<1>5. Behind(p) \in Volume
  BY <1>2, <1>3, <1>4
<1> QED BY <1>1, <1>5 DEF TreeOK, MountsOK

(* The decrypted source takes its place: the volume's row is filled from   *)
(* it, and no row of another volume is touched.                            *)
LEMMA SwapStep ==
  ASSUME TreeOK, NEW p \in DOMAIN volumes, State(p) \in {"bitlocker", "filevault"},
         Behind(p).cipher, SwapIn(p), UNCHANGED <<image, preview>>
  PROVE  TreeOK'
<1> DEFINE k   == VolumeRow(p)
           fs  == Behind(p).inner
           new == IF fs = NoFs THEN Only(StubRow(p, 0), Stub("(no readable filesystem)", 0))
                  ELSE Filled(fs, p, 0)
           old == [rows EXCEPT ![k].state = "unlocked", ![k].loaded = TRUE]
<1> USE DEF TreeOK
<1>1. Swapped(p) = [q \in DOMAIN volumes |-> IF q = p THEN fs ELSE volumes[q]]
  BY DEF Swapped
<1>2. /\ volumes' = Swapped(p) /\ mounts' = Joint(Only(p, fs), mounts)
      /\ rows' = Joint(old, new)
      /\ UNCHANGED <<image, preview>>
  BY <1>1 DEF SwapIn
<1>3. /\ p \notin DOMAIN mounts
      /\ \A j \in DOMAIN rows : j[1] = p => j = k
      /\ fs \in Seq(FileEntry) \cup {NoFs}
  BY LockedIsBare, VolumeFacts
<1>4. k \in DOMAIN rows /\ k[1] = p /\ k[2] = 0 /\ k[3] = "node" /\ k = <<p, 0, "node">>
  BY DEF VolumeRow, ShapeOK
<1>5. \A q : Behind(q)' = Behind(q)
  BY <1>2 DEF Behind
<1> HIDE DEF fs
<1>6. IsFilling(new, fs, p, 0)
  BY <1>3, FilledRows
<1>7. /\ DOMAIN old = DOMAIN rows
      /\ \A j \in DOMAIN rows : j # k => old[j] = rows[j]
      /\ old[k] = [rows[k] EXCEPT !.state = "unlocked", !.loaded = TRUE]
  BY <1>4
<1> HIDE DEF new, old
<1>8. /\ DOMAIN rows' = DOMAIN rows \cup DOMAIN new
      /\ \A j \in DOMAIN rows : rows'[j] = old[j]
      /\ \A j \in DOMAIN new : j \notin DOMAIN rows => rows'[j] = new[j]
  BY <1>2, <1>7 DEF Joint
<1>9. /\ DOMAIN mounts' = DOMAIN mounts \cup {p} /\ mounts'[p] = fs
      /\ \A q \in DOMAIN mounts : mounts'[q] = mounts[q]
  BY <1>2, <1>3 DEF Joint, Only
<1>10. /\ DOMAIN volumes' = DOMAIN volumes /\ volumes'[p] = fs
       /\ \A q \in DOMAIN volumes : q # p => volumes'[q] = volumes[q]
  BY <1>1, <1>2
<1>11. IsRow(rows'[k]) /\ rows'[k].up = rows[k].up /\ rows'[k].state = "unlocked"
  <2> DEFINE r == rows[k]
             x == rows'[k]
  <2>1. IsRow(r)
    BY <1>4 DEF ShapeOK
  <2>2. x = [r EXCEPT !.state = "unlocked", !.loaded = TRUE]
    BY <1>4, <1>7, <1>8
  <2> HIDE DEF r, x
  <2>3. IsRow(x) /\ x.up = r.up /\ x.state = "unlocked"
    BY <2>1, <2>2, MarkedRow
  <2> QED BY <2>3 DEF r, x
<1>12. \A j \in DOMAIN rows : j # k => rows'[j] = rows[j]
  BY <1>7, <1>8
<1>13. State(p)' = "unlocked" /\ \A q \in DOMAIN volumes : q # p => State(q)' = State(q)
  <2>1. \A q \in DOMAIN volumes : VolumeRow(q) \in DOMAIN rows /\ (q # p => VolumeRow(q) # k)
    BY DEF ShapeOK, VolumeRow
  <2> QED BY <1>11, <1>12, <2>1 DEF State, VolumeRow
<1>14. ImageOK'
  BY <1>2, <1>10 DEF ImageOK, Shown
<1>15. ShapeOK'
  <2>1. ASSUME NEW j \in DOMAIN rows'
        PROVE  j \in (DOMAIN volumes) \X Nat \X {"node", "stub"} /\ IsRow(rows'[j])
    <3>1. CASE j \in DOMAIN rows
      BY <1>11, <1>12, <3>1 DEF ShapeOK
    <3>2. CASE j \notin DOMAIN rows
      <4>1. j \in DOMAIN new /\ rows'[j] = new[j]
        BY <1>8, <2>1, <3>2
      <4> QED BY <1>6, <4>1 DEF IsFilling
    <3> QED BY <3>1, <3>2
  <2> QED BY <1>8, <1>10, <2>1 DEF ShapeOK, VolumeRow, IsRow
<1>16. VolumesOK'
  <2> SUFFICES ASSUME NEW q \in DOMAIN volumes
               PROVE  /\ volumes'[q] \in Seq(FileEntry) \cup {NoFs}
                      /\ State(q)' \in {Behind(q).label, "unlocked", "nocipher"}
                      /\ State(q)' = "unlocked" => Behind(q).cipher /\ volumes'[q] = Behind(q).inner
    BY <1>5, <1>10 DEF VolumesOK
  <2>1. CASE q = p
    BY <1>3, <1>10, <1>13, <2>1 DEF fs
  <2>2. CASE q # p
    BY <1>10, <1>13, <2>2 DEF VolumesOK
  <2> QED BY <2>1, <2>2
<1>17. MountsOK'
  <2>1. ASSUME NEW q \in DOMAIN mounts'
        PROVE  q \in DOMAIN volumes' /\ mounts'[q] = volumes'[q] /\ Browsable(State(q)')
    <3>1. CASE q = p
      BY <1>9, <1>10, <1>13, <3>1 DEF Browsable
    <3>2. CASE q # p
      BY <1>9, <1>10, <1>13, <2>1, <3>2 DEF MountsOK
    <3> QED BY <3>1, <3>2
  <2>2. ASSUME NEW j \in DOMAIN rows', j # VolumeRow(j[1])
        PROVE  Browsable(State(j[1])')
    <3>1. CASE j[1] = p
      BY <1>13, <3>1 DEF Browsable
    <3>2. CASE j[1] # p
      <4>1. j \in DOMAIN rows
        BY <1>6, <1>8, <3>2 DEF IsFilling
      <4>2. j[1] \in DOMAIN volumes
        BY <4>1 DEF ShapeOK
      <4> QED BY <1>13, <2>2, <3>2, <4>1, <4>2 DEF MountsOK
    <3> QED BY <3>1, <3>2
  <2> QED BY <2>1, <2>2 DEF MountsOK, VolumeRow, State
<1>18. RowsOK'
  <2>1. \A j \in DOMAIN rows' : j \notin DOMAIN rows => j \in DOMAIN new /\ rows'[j] = new[j]
    BY <1>8
  <2>2. \A j \in DOMAIN rows : j[3] = "node" =>
           /\ j \in DOMAIN rows' /\ rows'[j].up = rows[j].up
           /\ rows'[j].state \in {rows[j].state, "unlocked"}
           /\ rows'[j].loaded => rows[j].loaded \/ j = k
    BY <1>8, <1>11, <1>12
  <2>3. DOMAIN new \subseteq DOMAIN rows'
    BY <1>8
  <2>4. p \in DOMAIN mounts' /\ mounts'[p] = fs
        /\ \A q \in DOMAIN mounts : q \in DOMAIN mounts' /\ mounts'[q] = mounts[q]
    BY <1>9
  <2>5. IsFilling(new, fs, k[1], k[2]) /\ mounts'[k[1]] = fs /\ k[1] \in DOMAIN mounts'
    BY <1>4, <1>6, <2>4
  <2> HIDE DEF k
  <2> QED BY <1>4, <2>1, <2>2, <2>3, <2>4, <2>5, FillingKeepsRows
<1>19. PreviewOK'
  <2>1. rows[k].state # "file"
    BY DEF State
  <2> QED BY <1>2, <1>8, <1>12, <2>1 DEF PreviewOK
<1> QED BY <1>14, <1>15, <1>16, <1>17, <1>18, <1>19

(* A cipher that is not supported changes the row and nothing else.        *)
LEMMA NoCipherStep ==
  ASSUME TreeOK, NEW p \in DOMAIN volumes, State(p) \in {"bitlocker", "filevault"},
         rows' = [rows EXCEPT ![VolumeRow(p)].state = "nocipher"],
         UNCHANGED <<image, volumes, mounts, preview>>
  PROVE  TreeOK'
<1> DEFINE k == VolumeRow(p)
<1> USE DEF TreeOK
<1>1. p \notin DOMAIN mounts /\ \A j \in DOMAIN rows : j[1] = p => j = k
  BY LockedIsBare
<1>2. k \in DOMAIN rows /\ k[1] = p /\ k[2] = 0 /\ k[3] = "node"
  BY DEF VolumeRow, ShapeOK
<1>3. DOMAIN rows' = DOMAIN rows /\ \A j \in DOMAIN rows : j # k => rows'[j] = rows[j]
  BY <1>2
<1>4. IsRow(rows'[k]) /\ rows'[k].up = rows[k].up /\ rows'[k].state = "nocipher"
      /\ (rows'[k].loaded <=> rows[k].loaded)
  <2> DEFINE r == rows[k]
             x == rows'[k]
  <2>1. IsRow(r)
    BY <1>2 DEF ShapeOK
  <2>2. x = [r EXCEPT !.state = "nocipher"]
    BY <1>2
  <2> HIDE DEF r, x
  <2>3. IsRow(x) /\ x.up = r.up /\ x.state = "nocipher" /\ (x.loaded <=> r.loaded)
    BY <2>1, <2>2, MarkedRow
  <2> QED BY <2>3 DEF r, x
<1>5. State(p)' = "nocipher" /\ \A q \in DOMAIN volumes : q # p => State(q)' = State(q)
  <2>1. \A q \in DOMAIN volumes : VolumeRow(q) \in DOMAIN rows /\ (q # p => VolumeRow(q) # k)
    BY DEF ShapeOK, VolumeRow
  <2> QED BY <1>3, <1>4, <2>1 DEF State, VolumeRow
<1>6. ImageOK'
  <2>1. volumes # <<>>
    OBVIOUS
  <2> QED BY <2>1 DEF ImageOK, Shown
<1>7. ShapeOK'
  <2>1. ASSUME NEW j \in DOMAIN rows
        PROVE  j \in (DOMAIN volumes) \X Nat \X {"node", "stub"} /\ IsRow(rows'[j])
    BY <1>3, <1>4, <2>1 DEF ShapeOK
  <2> QED BY <1>3, <2>1 DEF ShapeOK, VolumeRow, IsRow
<1>8. VolumesOK'
  BY <1>5 DEF VolumesOK, Behind
<1>9. MountsOK'
  <2>1. ASSUME NEW q \in DOMAIN mounts'
        PROVE  q \in DOMAIN volumes' /\ mounts'[q] = volumes'[q] /\ Browsable(State(q)')
    BY <1>1, <1>5, <2>1 DEF MountsOK
  <2>2. ASSUME NEW j \in DOMAIN rows, j # VolumeRow(j[1])
        PROVE  Browsable(State(j[1])')
    <3>1. j[1] \in DOMAIN volumes /\ j[1] # p
      BY <1>1, <2>2 DEF ShapeOK
    <3> QED BY <1>5, <2>2, <3>1 DEF MountsOK
  <2> QED BY <1>3, <2>1, <2>2 DEF MountsOK, VolumeRow, State
<1>10. RowsOK'
  <2> SUFFICES ASSUME NEW j \in DOMAIN rows PROVE RowOK(j)'
    BY <1>3 DEF RowsOK
  <2>1. RowOK(j)
    BY DEF RowsOK
  <2>2. CASE j = k
    BY <1>2, <1>3, <1>4, <2>1, <2>2 DEF RowOK
  <2>3. CASE j # k
    BY <1>3, <2>1, <2>3 DEF RowOK
  <2> QED BY <2>2, <2>3
<1>11. PreviewOK'
  <2>1. rows[k].state # "file"
    BY DEF State
  <2> QED BY <1>3, <2>1 DEF PreviewOK
<1> QED BY <1>6, <1>7, <1>8, <1>9, <1>10, <1>11

(* A file that is previewed lies in a volume mounted before.               *)
LEMMA SelectStep ==
  ASSUME TreeOK, NEW k \in DOMAIN rows, Select(k)
  PROVE  TreeOK'
<1>1. mounts' = mounts
  <2>1. CASE rows[k].state = "file"
    <3>1. k[1] \in DOMAIN mounts
      BY <2>1 DEF Select, TreeOK, RowsOK, RowOK
    <3> QED BY <2>1, <3>1 DEF Select, Mounted
  <2>2. CASE rows[k].state # "file"
    BY <2>2 DEF Select
  <2> QED BY <2>1, <2>2
<1>2. /\ UNCHANGED <<image, volumes, rows>>
      /\ preview' = IF rows[k].state = "file" THEN k ELSE <<>>
      /\ k[3] = "node"
  BY DEF Select
<1>3. PreviewOK'
  BY <1>2 DEF PreviewOK
<1>4. (ImageOK /\ ShapeOK /\ VolumesOK /\ MountsOK /\ RowsOK)'
  BY <1>1, <1>2 DEF TreeOK, ImageOK, ShapeOK, VolumesOK, MountsOK, RowsOK, RowOK, Shown, State, Behind, IsRow
<1> QED BY <1>3, <1>4 DEF TreeOK

(* What busy is while an open or an unlock is under way.                   *)
LEMMA BusyFacts ==
  ASSUME BusyOK
  PROVE  /\ busy.op = "open" =>
              /\ busy \in [op : {"open"}, dialog : BOOLEAN, done : BOOLEAN, source : Sources,
                           key : Keys, opened : Results]
              /\ busy.done => busy.opened = Produced(busy.source, busy.key)
         /\ busy.op = "unlock" =>
              /\ busy \in [op : {"unlock"}, dialog : BOOLEAN, done : BOOLEAN,
                           part : DOMAIN volumes, key : Keys]
              /\ State(busy.part) \in {"bitlocker", "filevault"}
         /\ busy.op = "idle" =>
              busy \in [op : {"idle", "terminated"}, dialog : BOOLEAN, done : BOOLEAN] /\ ~busy.dialog
         /\ busy.dialog => busy.op \in {"open", "unlock", "export"}
BY DEF BusyOK

LEMMA IdleBusy ==
  ASSUME busy' = Idle \/ busy' = [Idle EXCEPT !.op = "terminated"]
  PROVE  BusyOK'
<1>1. ASSUME NEW o \in {"idle", "terminated"}, busy' = [op |-> o, dialog |-> FALSE, done |-> FALSE]
      PROVE  BusyOK'
  <2>1. busy' \in [op : {"idle", "terminated"}, dialog : BOOLEAN, done : BOOLEAN] /\ ~busy'.dialog
    BY <1>1
  <2> QED BY <2>1 DEF BusyOK
<1>2. \/ busy' = [op |-> "idle", dialog |-> FALSE, done |-> FALSE]
      \/ busy' = [op |-> "terminated", dialog |-> FALSE, done |-> FALSE]
  BY DEF Idle
<1> QED BY <1>1, <1>2

(* No step but those of the tree touches the rows, and while one is        *)
(* waiting for the worker none of those is taken.                          *)
LEMMA BusyStep ==
  ASSUME GuiInv, [Next]_vars
  PROVE  BusyOK'
<1> USE DEF GuiInv
<1>1. CASE UNCHANGED vars
  BY <1>1 DEF vars, BusyOK, State
<1>2. ASSUME NEW s \in Sources, NEW key \in Keys, Open(s, key)
      PROVE  BusyOK'
  <2>1. busy' = [op |-> "open", dialog |-> TRUE, done |-> FALSE, source |-> s, key |-> key,
                 opened |-> NoResult]
    BY <1>2 DEF Open
  <2>2. NoResult \in Results
    BY DEF Results
  <2>3. busy' \in [op : {"open"}, dialog : BOOLEAN, done : BOOLEAN, source : Sources,
                   key : Keys, opened : Results]
    BY <2>1, <2>2
  <2>4. ~busy'.done
    BY <2>1
  <2> QED BY <2>3, <2>4 DEF BusyOK
<1>3. ASSUME NEW k \in DOMAIN rows, Toggle(k) \/ Expand(k) \/ Select(k)
      PROVE  BusyOK'
  <2>1. busy.op = "idle" /\ busy' = busy
    BY <1>3 DEF Toggle, Expand, Select
  <2> QED BY <2>1, BusyFacts DEF BusyOK
<1>4. ASSUME NEW p \in DOMAIN volumes, NEW key \in Keys \ {"none"}, Unlock(p, key)
      PROVE  BusyOK'
  <2>1. /\ busy' = [op |-> "unlock", dialog |-> TRUE, done |-> FALSE, part |-> p, key |-> key]
        /\ rows' = rows /\ volumes' = volumes /\ State(p) \in {"bitlocker", "filevault"}
    BY <1>4 DEF Unlock, tree, State
  <2>2. busy' \in [op : {"unlock"}, dialog : BOOLEAN, done : BOOLEAN, part : DOMAIN volumes', key : Keys]
    BY <2>1
  <2>3. busy'.part = p
    BY <2>1
  <2> QED BY <2>1, <2>2, <2>3 DEF BusyOK, State
<1>5. ASSUME EscapeCloses \/ TimerCloses
      PROVE  BusyOK'
  <2>1. /\ busy.op \in {"open", "unlock"} /\ busy' = [busy EXCEPT !.dialog = FALSE]
        /\ rows' = rows /\ volumes' = volumes
    BY <1>5, BusyFacts DEF EscapeCloses, TimerCloses, tree
  <2>2. CASE busy.op = "open"
    <3>1. /\ busy \in [op : {"open"}, dialog : BOOLEAN, done : BOOLEAN, source : Sources,
                       key : Keys, opened : Results]
          /\ busy.done => busy.opened = Produced(busy.source, busy.key)
      BY <2>2, BusyFacts
    <3>2. busy' \in [op : {"open"}, dialog : BOOLEAN, done : BOOLEAN, source : Sources,
                     key : Keys, opened : Results]
      BY <2>1, <3>1
    <3>3. busy'.done = busy.done /\ busy'.opened = busy.opened /\ busy'.source = busy.source
          /\ busy'.key = busy.key
      BY <2>1, <3>1
    <3> QED BY <3>1, <3>2, <3>3 DEF BusyOK
  <2>3. CASE busy.op = "unlock"
    <3>1. /\ busy \in [op : {"unlock"}, dialog : BOOLEAN, done : BOOLEAN,
                       part : DOMAIN volumes, key : Keys]
          /\ State(busy.part) \in {"bitlocker", "filevault"}
      BY <2>3, BusyFacts
    <3>2. busy' \in [op : {"unlock"}, dialog : BOOLEAN, done : BOOLEAN, part : DOMAIN volumes', key : Keys]
          /\ busy'.part = busy.part
      BY <2>1, <3>1
    <3> QED BY <2>1, <3>1, <3>2 DEF BusyOK, State
  <2> QED BY <2>1, <2>2, <2>3
<1>6. CASE Export
  <2>1. busy'.op = "export"
    BY <1>6 DEF Export
  <2> QED BY <2>1 DEF BusyOK
<1>7. CASE OpenWorker
  <2>1. busy.op = "open" /\ busy' = [busy EXCEPT !.opened = Produced(busy.source, busy.key), !.done = TRUE]
    BY <1>7 DEF OpenWorker, ProducedAndDone
  <2>2. busy \in [op : {"open"}, dialog : BOOLEAN, done : BOOLEAN, source : Sources,
                  key : Keys, opened : Results]
    BY <2>1, BusyFacts
  <2>3. Produced(busy.source, busy.key) \in Results
    BY <2>2 DEF Results
  <2>4. busy' \in [op : {"open"}, dialog : BOOLEAN, done : BOOLEAN, source : Sources,
                   key : Keys, opened : Results]
    BY <2>1, <2>2, <2>3
  <2>5. busy'.opened = Produced(busy'.source, busy'.key)
    BY <2>1, <2>2
  <2> QED BY <2>4, <2>5 DEF BusyOK, Produced
<1>8. CASE UnlockWorker
  <2>1. busy.op = "unlock" /\ busy' = [busy EXCEPT !.done = TRUE] /\ rows' = rows /\ volumes' = volumes
    BY <1>8 DEF UnlockWorker, tree
  <2>2. /\ busy \in [op : {"unlock"}, dialog : BOOLEAN, done : BOOLEAN,
                     part : DOMAIN volumes, key : Keys]
        /\ State(busy.part) \in {"bitlocker", "filevault"}
    BY <2>1, BusyFacts
  <2>3. busy' \in [op : {"unlock"}, dialog : BOOLEAN, done : BOOLEAN, part : DOMAIN volumes', key : Keys]
        /\ busy'.part = busy.part
    BY <2>1, <2>2
  <2> QED BY <2>1, <2>2, <2>3 DEF BusyOK, State
<1>9. CASE OpenThrows \/ OpenEnds \/ UnlockEnds \/ ExportEnds
  BY <1>9, IdleBusy DEF OpenThrows, OpenEnds, UnlockEnds, ExportEnds
<1> QED BY <1>1, <1>2, <1>3, <1>4, <1>5, <1>6, <1>7, <1>8, <1>9 DEF Next, User, Program

LEMMA TreeStep ==
  ASSUME GuiInv, [Next]_vars
  PROVE  TreeOK'
<1> USE DEF GuiInv
<1>1. CASE UNCHANGED <<image, volumes, mounts, rows, preview>>
  BY <1>1, TreeKept
<1>2. ASSUME NEW k \in DOMAIN rows, Expand(k)
      PROVE  TreeOK'
  BY <1>2, ExpandStep
<1>3. ASSUME NEW k \in DOMAIN rows, Select(k)
      PROVE  TreeOK'
  BY <1>3, SelectStep
<1>4. CASE OpenEnds
  <2>1. /\ busy.op = "open" /\ busy.done
        /\ IF busy.opened.error THEN UNCHANGED <<image, tree, wanted>> ELSE BuildTree(busy.opened)
    BY <1>4 DEF OpenEnds, Joined
  <2>2. /\ busy \in [op : {"open"}, dialog : BOOLEAN, done : BOOLEAN, source : Sources,
                     key : Keys, opened : Results]
        /\ busy.opened = Produced(busy.source, busy.key)
    BY <2>1, BusyFacts
  <2>3. CASE busy.opened.error
    BY <2>1, <2>3, TreeKept DEF tree
  <2>4. CASE ~busy.opened.error
    <3>1. busy.source \in Sources
      BY <2>2
    <3>2. ~Produced(busy.source, busy.key).error /\ BuildTree(Produced(busy.source, busy.key))
      BY <2>1, <2>2, <2>4
    <3> QED BY <3>1, <3>2, BuildStep
  <2> QED BY <2>3, <2>4
<1>5. CASE UnlockEnds
  <2> DEFINE p == busy.part
  <2>1. busy.op = "unlock" /\ UNCHANGED <<image, preview>>
    BY <1>5 DEF UnlockEnds
  <2>2. p \in DOMAIN volumes /\ State(p) \in {"bitlocker", "filevault"}
    BY <2>1, BusyFacts
  <2>3. CASE busy.key # "right"
    BY <1>5, <2>1, <2>3, TreeKept DEF UnlockEnds
  <2>4. CASE busy.key = "right" /\ ~Behind(p).cipher
    BY <1>5, <2>1, <2>2, <2>4, NoCipherStep DEF UnlockEnds
  <2>5. CASE busy.key = "right" /\ Behind(p).cipher
    BY <1>5, <2>1, <2>2, <2>5, SwapStep DEF UnlockEnds
  <2> QED BY <2>3, <2>4, <2>5
<1>6. ASSUME NEW s \in Sources, NEW key \in Keys, Open(s, key)
      PROVE  TreeOK'
  BY <1>1, <1>6 DEF Open, tree
<1>7. ASSUME NEW k \in DOMAIN rows, Toggle(k)
      PROVE  TreeOK'
  BY <1>1, <1>7 DEF Toggle
<1>8. ASSUME NEW p \in DOMAIN volumes, NEW key \in Keys \ {"none"}, Unlock(p, key)
      PROVE  TreeOK'
  BY <1>1, <1>8 DEF Unlock, tree
<1>9. CASE EscapeCloses \/ Export \/ OpenWorker \/ OpenThrows \/ UnlockWorker \/ TimerCloses \/ ExportEnds
  BY <1>1, <1>9 DEF EscapeCloses, Export, OpenWorker, OpenThrows, UnlockWorker, TimerCloses, ExportEnds, tree
<1>10. CASE UNCHANGED vars
  BY <1>1, <1>10 DEF vars
<1> QED BY <1>2, <1>3, <1>4, <1>5, <1>6, <1>7, <1>8, <1>9, <1>10 DEF Next, User, Program

-----------------------------------------------------------------------------
(* The theorems.                                                           *)

(* The tree, the mounts and the worker's results agree in every state.     *)
THEOREM GuiStaysConsistent == Spec => []GuiInv
<1>1. GuiInv /\ [Next]_vars => GuiInv'
  BY BusyStep, TreeStep DEF GuiInv
<1> QED BY GuiInit, <1>1, PTL DEF Spec

(* However opens, unlocks, expansions and previews follow one another, no  *)
(* reader is ever given the ciphertext of a volume, and what is mounted of *)
(* an encrypted one is what its key decrypts (mountFor, buildTree's arrows *)
(* and unlockBitLockerItem together).                                      *)
THEOREM GuiNoCiphertext == Spec => []NoCiphertextMounted
<1>1. GuiInv => NoCiphertextMounted
  <2> SUFFICES ASSUME GuiInv, NEW p \in DOMAIN mounts, Behind(p).label \in {"bitlocker", "filevault"}
               PROVE  State(p) = "unlocked" /\ mounts[p] = Behind(p).inner /\ Behind(p).cipher
    BY DEF NoCiphertextMounted, State
  <2>1. p \in DOMAIN volumes /\ mounts[p] = volumes[p] /\ Browsable(State(p))
    BY DEF GuiInv, TreeOK, MountsOK
  <2>2. State(p) \in {Behind(p).label, "unlocked", "nocipher"}
    BY <2>1 DEF GuiInv, TreeOK, VolumesOK
  <2>3. State(p) = "unlocked"
    BY <2>1, <2>2 DEF Browsable
  <2> QED BY <2>1, <2>3 DEF GuiInv, TreeOK, VolumesOK
<1> QED BY GuiStaysConsistent, <1>1, PTL

(* What is on screen never mixes two images, whatever is opened over what. *)
THEOREM GuiRowsOfOneImage == Spec => []RowsAreOfTheImage
<1>1. GuiInv => RowsAreOfTheImage
  <2> SUFFICES ASSUME GuiInv, image # NoSource PROVE RowsAreOfTheImage
    BY DEF RowsAreOfTheImage
  <2>1. DOMAIN volumes = DOMAIN (IF image.sound THEN image.vols ELSE image.alone)
    BY DEF GuiInv, TreeOK, ImageOK, Shown
  <2>2. {k[1] : k \in DOMAIN rows} = DOMAIN volumes
    <3>1. \A k \in DOMAIN rows : k[1] \in DOMAIN volumes
      BY DEF GuiInv, TreeOK, ShapeOK
    <3>2. \A p \in DOMAIN volumes : <<p, 0, "node">> \in DOMAIN rows /\ <<p, 0, "node">>[1] = p
      BY DEF GuiInv, TreeOK, ShapeOK, VolumeRow
    <3> QED BY <3>1, <3>2
  <2>3. \A p \in DOMAIN mounts : p \in DOMAIN volumes /\ mounts[p] = volumes[p]
    BY DEF GuiInv, TreeOK, MountsOK
  <2>4. \A k \in DOMAIN rows : k[3] = "node" =>
          /\ k[2] > 0 => k[1] \in DOMAIN mounts /\ mounts[k[1]][k[2]].up = rows[k].up
          /\ rows[k].loaded /\ mounts[k[1]] # NoFs =>
               \A m \in DOMAIN mounts[k[1]] :
                 mounts[k[1]][m].up = k[2] => <<k[1], m, "node">> \in DOMAIN rows
    BY DEF GuiInv, TreeOK, RowsOK, RowOK
  <2>5. preview # <<>> => preview \in DOMAIN rows /\ rows[preview].state = "file"
    BY DEF GuiInv, TreeOK, PreviewOK
  <2> QED BY <2>1, <2>2, <2>3, <2>4, <2>5 DEF RowsAreOfTheImage
<1> QED BY GuiStaysConsistent, <1>1, PTL

-----------------------------------------------------------------------------
(* Paths.  The nodes from an entry of a filesystem up to its root.         *)

IsTree(fs) ==
  /\ fs \in Seq(FileEntry)
  /\ \A n \in DOMAIN fs : fs[n].up < n /\ (fs[n].up > 0 => fs[fs[n].up].dir)

PathLaw(f, fs) == f = [m \in 0..Len(fs) |-> {m} \cup (IF m = 0 THEN {} ELSE f[fs[m].up])]

PathOf(fs) == CHOOSE f : PathLaw(f, fs)

LEMMA FilesBelowIs ==
  ASSUME NEW fs, NEW n
  PROVE  FilesBelow(fs, n) = {m \in DOMAIN fs : ~fs[m].dir /\ n \in PathOf(fs)[m]}
BY DEF FilesBelow, PathOf, PathLaw

LEMMA TreeUp ==
  ASSUME NEW fs, IsTree(fs)
  PROVE  /\ Len(fs) \in Nat /\ DOMAIN fs = 1..Len(fs)
         /\ \A m \in 1..Len(fs) : fs[m].up \in Nat /\ fs[m].up < m /\ fs[m].up \in 0..Len(fs)
<1>1. Len(fs) \in Nat /\ DOMAIN fs = 1..Len(fs) /\ \A m \in 1..Len(fs) : fs[m] \in FileEntry
  BY DEF IsTree
<1>2. ASSUME NEW m \in 1..Len(fs) PROVE fs[m].up \in Nat /\ fs[m].up < m /\ fs[m].up \in 0..Len(fs)
  <2>1. fs[m].up \in Nat /\ fs[m].up < m
    BY <1>1 DEF IsTree, FileEntry
  <2> QED BY <1>1, <2>1
<1> QED BY <1>1, <1>2

LEMMA PathExists ==
  ASSUME NEW fs, IsTree(fs)
  PROVE  \E f : PathLaw(f, fs)
<1> DEFINE N == Len(fs)
           Good(f, n) == DOMAIN f = 0..N /\ \A m \in 0..N :
                           m <= n => f[m] = {m} \cup (IF m = 0 THEN {} ELSE f[fs[m].up])
           T == {n \in 0..N : ~\E f : Good(f, n)}
<1>1. N \in Nat /\ \A m \in 1..N : fs[m].up \in Nat /\ fs[m].up < m /\ fs[m].up \in 0..N
  BY TreeUp
<1> HIDE DEF N
<1>2. T = {}
  <2>1. SUFFICES ASSUME T # {} PROVE FALSE
    OBVIOUS
  <2>2. PICK n \in T : \A k \in T : n <= k
    <3>1. T \subseteq Nat
      BY <1>1
    <3> HIDE DEF T
    <3> QED BY <2>1, <3>1, LeastOf
  <2>3. n \in 0..N /\ n \in Nat
    BY <1>1, <2>2
  <2>4. ASSUME NEW f, Good(f, n) PROVE FALSE
    BY <2>2, <2>4
  <2>5. CASE n = 0
    <3> DEFINE f == [m \in 0..N |-> {m}]
    <3>1. DOMAIN f = 0..N /\ \A m \in 0..N : m <= 0 => m = 0 /\ f[m] = {m}
      BY <1>1
    <3> HIDE DEF f
    <3>2. Good(f, n)
      BY <2>5, <3>1
    <3> QED BY <2>4, <3>2
  <2>6. CASE n # 0
    <3>1. n - 1 \in 0..N /\ ~(n <= n - 1) /\ n \in 1..N
      BY <1>1, <2>3, <2>6
    <3>2. PICK g : Good(g, n - 1)
      <4>1. n - 1 \notin T
        BY <2>2, <3>1
      <4> QED BY <3>1, <4>1
    <3> DEFINE f == [m \in 0..N |-> IF m = n THEN {n} \cup g[fs[n].up] ELSE g[m]]
    <3>3. DOMAIN f = 0..N /\ f[n] = {n} \cup g[fs[n].up] /\ \A m \in 0..N : m # n => f[m] = g[m]
      BY <2>3
    <3> HIDE DEF f
    <3>4. ASSUME NEW m \in 0..N, m <= n
          PROVE  f[m] = {m} \cup (IF m = 0 THEN {} ELSE f[fs[m].up])
      <4>1. m # 0 => fs[m].up \in 0..N /\ fs[m].up # n
        <5>1. m # 0 => m \in 1..N
          BY <1>1
        <5> QED BY <1>1, <2>3, <3>4, <5>1
      <4>2. m # 0 => f[fs[m].up] = g[fs[m].up]
        BY <3>3, <4>1
      <4>3. CASE m = n
        BY <2>6, <3>3, <4>2, <4>3
      <4>4. CASE m # n
        <5>1. m <= n - 1
          BY <1>1, <2>3, <3>4, <4>4
        <5>2. g[m] = {m} \cup (IF m = 0 THEN {} ELSE g[fs[m].up])
          BY <3>2, <5>1
        <5> QED BY <3>3, <4>2, <4>4, <5>2
      <4> QED BY <4>3, <4>4
    <3>5. Good(f, n)
      BY <3>3, <3>4
    <3> QED BY <2>4, <3>5
  <2> QED BY <2>5, <2>6
<1>3. N \in 0..N /\ N \notin T
  <2> HIDE DEF T
  <2> QED BY <1>1, <1>2
<1>4. PICK f : Good(f, N)
  BY <1>3
<1>5. \A m \in 0..N : m <= N
  BY <1>1
<1>6. DOMAIN f = 0..N /\ \A m \in 0..N : f[m] = {m} \cup (IF m = 0 THEN {} ELSE f[fs[m].up])
  BY <1>4, <1>5
<1> DEFINE g == [m \in 0..N |-> {m} \cup (IF m = 0 THEN {} ELSE f[fs[m].up])]
<1>7. \A m \in 0..N : m # 0 => fs[m].up \in 0..N
  <2>1. \A m \in 0..N : m # 0 => m \in 1..N
    BY <1>1
  <2> QED BY <1>1, <2>1
<1>8. \A m \in 0..N : g[m] = f[m]
  BY <1>6
<1>9. g = [m \in 0..N |-> {m} \cup (IF m = 0 THEN {} ELSE g[fs[m].up])]
  <2> DEFINE h == [m \in 0..N |-> {m} \cup (IF m = 0 THEN {} ELSE g[fs[m].up])]
  <2>1. ASSUME NEW m \in 0..N PROVE g[m] = h[m]
    <3>1. m # 0 => g[fs[m].up] = f[fs[m].up]
      BY <1>7, <1>8
    <3>2. g[m] = {m} \cup (IF m = 0 THEN {} ELSE f[fs[m].up])
      OBVIOUS
    <3>3. h[m] = {m} \cup (IF m = 0 THEN {} ELSE g[fs[m].up])
      OBVIOUS
    <3> HIDE DEF g, h
    <3> QED BY <3>1, <3>2, <3>3
  <2>2. g = [m \in 0..N |-> g[m]] /\ h = [m \in 0..N |-> h[m]]
    OBVIOUS
  <2>3. g = h
    <3> HIDE DEF g, h
    <3> QED BY <2>1, <2>2
  <2> QED BY <2>3
<1>10. PathLaw(g, fs)
  <2> HIDE DEF g
  <2> QED BY <1>9 DEF PathLaw, N
<1> QED BY <1>10

(* The path of an entry.                                                   *)
LEMMA PathSteps ==
  ASSUME NEW fs, IsTree(fs), NEW m \in 0..Len(fs)
  PROVE  PathOf(fs)[m] = {m} \cup (IF m = 0 THEN {} ELSE PathOf(fs)[fs[m].up])
<1> DEFINE f == PathOf(fs)
<1>1. PathLaw(f, fs)
  BY PathExists DEF PathOf
<1> HIDE DEF f
<1>2. f[m] = {m} \cup (IF m = 0 THEN {} ELSE f[fs[m].up])
  BY <1>1 DEF PathLaw
<1> QED BY <1>2 DEF f

(* A path begins at its entry and leads up to the root, number by number.  *)
LEMMA PathWithin ==
  ASSUME NEW fs, IsTree(fs), NEW m \in 0..Len(fs)
  PROVE  PathOf(fs)[m] \subseteq 0..m /\ m \in PathOf(fs)[m] /\ 0 \in PathOf(fs)[m]
<1> DEFINE N == Len(fs)
           C == PathOf(fs)
           T == {n \in 0..N : ~(C[n] \subseteq 0..n /\ 0 \in C[n])}
<1>1. N \in Nat /\ \A n \in 1..N : fs[n].up \in Nat /\ fs[n].up < n /\ fs[n].up \in 0..N
  BY TreeUp
<1>2. \A n \in 0..N : C[n] = {n} \cup (IF n = 0 THEN {} ELSE C[fs[n].up])
  BY PathSteps
<1> HIDE DEF C, N
<1>3. T = {}
  <2>1. SUFFICES ASSUME T # {} PROVE FALSE
    OBVIOUS
  <2>2. PICK n \in T : \A k \in T : n <= k
    <3>1. T \subseteq Nat
      BY <1>1
    <3> HIDE DEF T
    <3> QED BY <2>1, <3>1, LeastOf
  <2>3. n \in 0..N /\ n \in Nat /\ ~(C[n] \subseteq 0..n /\ 0 \in C[n])
    BY <1>1, <2>2
  <2>4. n # 0
    <3>1. n = 0 => C[n] = {0} /\ {0} \subseteq 0..0
      BY <1>2, <2>3
    <3> QED BY <2>3, <3>1
  <2>5. fs[n].up \in 0..N /\ fs[n].up \in Nat /\ ~(n <= fs[n].up) /\ fs[n].up < n
    <3>1. n \in 1..N
      BY <1>1, <2>3, <2>4
    <3>2. fs[n].up \in Nat /\ fs[n].up < n /\ fs[n].up \in 0..N
      BY <1>1, <3>1
    <3> QED BY <2>3, <3>2
  <2>6. fs[n].up \notin T
    <3> HIDE DEF T
    <3> QED BY <2>2, <2>5
  <2>7. C[fs[n].up] \subseteq 0..(fs[n].up) /\ 0 \in C[fs[n].up]
    BY <2>5, <2>6
  <2>8. 0..(fs[n].up) \subseteq 0..n
    BY <2>3, <2>5
  <2>9. C[n] = {n} \cup C[fs[n].up] /\ n \in 0..n
    BY <1>2, <2>3, <2>4
  <2> HIDE DEF T
  <2> QED BY <2>3, <2>7, <2>8, <2>9
<1>4. m \in 0..N
  BY DEF N
<1>5. m \notin T
  <2> HIDE DEF T
  <2> QED BY <1>3
<1>6. C[m] \subseteq 0..m /\ 0 \in C[m] /\ m \in C[m]
  BY <1>2, <1>4, <1>5
<1> QED BY <1>6 DEF C

(* Every step of a path but the first is a step of the path one up.        *)
LEMMA PathUp ==
  ASSUME NEW fs, IsTree(fs), NEW m \in 0..Len(fs), NEW a \in PathOf(fs)[m], a # m
  PROVE  m \in 1..Len(fs) /\ a \in PathOf(fs)[fs[m].up]
<1>1. m # 0 /\ a \in PathOf(fs)[fs[m].up]
  BY PathSteps
<1>2. Len(fs) \in Nat
  BY TreeUp
<1> QED BY <1>1, <1>2

(* What is above something on a path is on the path.                       *)
LEMMA PathTrans ==
  ASSUME NEW fs, IsTree(fs), NEW m \in 0..Len(fs), NEW b \in PathOf(fs)[m], NEW a \in PathOf(fs)[b]
  PROVE  a \in PathOf(fs)[m]
<1> DEFINE N == Len(fs)
           C == PathOf(fs)
           T == {n \in 0..N : ~(b \in C[n] => a \in C[n])}
<1>1. N \in Nat /\ \A n \in 1..N : fs[n].up \in Nat /\ fs[n].up < n /\ fs[n].up \in 0..N
  BY TreeUp
<1>2. \A n \in 0..N : C[n] = {n} \cup (IF n = 0 THEN {} ELSE C[fs[n].up])
  BY PathSteps
<1> HIDE DEF N
<1>3. T = {}
  <2>1. SUFFICES ASSUME T # {} PROVE FALSE
    OBVIOUS
  <2>2. PICK n \in T : \A k \in T : n <= k
    <3>1. T \subseteq Nat
      BY <1>1
    <3> HIDE DEF T
    <3> QED BY <2>1, <3>1, LeastOf
  <2>3. n \in 0..N /\ n \in Nat /\ b \in C[n] /\ a \notin C[n]
    BY <1>1, <2>2
  <2>4. b # n
    BY <2>3
  <2>5. n \in 1..N /\ b \in C[fs[n].up]
    BY <2>3, <2>4, PathUp DEF N
  <2>6. fs[n].up \in 0..N /\ ~(n <= fs[n].up)
    BY <1>1, <2>3, <2>5
  <2>7. a \in C[fs[n].up]
    <3>1. fs[n].up \notin T
      <4> HIDE DEF T
      <4> QED BY <2>2, <2>6
    <3> QED BY <2>5, <2>6, <3>1
  <2>8. C[n] = {n} \cup C[fs[n].up]
    <3>1. n # 0
      BY <2>5
    <3> QED BY <1>2, <2>3, <3>1
  <2> HIDE DEF T
  <2> QED BY <2>3, <2>7, <2>8
<1>4. m \in 0..N /\ m \notin T
  <2> HIDE DEF T
  <2> QED BY <1>3 DEF N
<1> QED BY <1>4

(* Of two nodes on a path one is above the other.                          *)
LEMMA PathLinear ==
  ASSUME NEW fs, IsTree(fs), NEW m \in 0..Len(fs), NEW a \in PathOf(fs)[m], NEW b \in PathOf(fs)[m]
  PROVE  a \in PathOf(fs)[b] \/ b \in PathOf(fs)[a]
<1> DEFINE N == Len(fs)
           C == PathOf(fs)
           T == {n \in 0..N : a \in C[n] /\ b \in C[n] /\ ~(a \in C[b] \/ b \in C[a])}
<1>1. N \in Nat /\ \A n \in 1..N : fs[n].up \in Nat /\ fs[n].up < n /\ fs[n].up \in 0..N
  BY TreeUp
<1> HIDE DEF N
<1>2. T = {}
  <2>1. SUFFICES ASSUME T # {} PROVE FALSE
    OBVIOUS
  <2>2. PICK n \in T : \A k \in T : n <= k
    <3>1. T \subseteq Nat
      BY <1>1
    <3> HIDE DEF T
    <3> QED BY <2>1, <3>1, LeastOf
  <2>3. n \in 0..N /\ n \in Nat /\ a \in C[n] /\ b \in C[n] /\ ~(a \in C[b] \/ b \in C[a])
    BY <1>1, <2>2
  <2>4. a # n /\ b # n
    BY <2>3
  <2>5. n \in 1..N /\ a \in C[fs[n].up] /\ b \in C[fs[n].up]
    BY <2>3, <2>4, PathUp DEF N
  <2>6. fs[n].up \in 0..N /\ ~(n <= fs[n].up)
    BY <1>1, <2>3, <2>5
  <2>7. fs[n].up \in T
    BY <2>3, <2>5, <2>6
  <2> HIDE DEF T
  <2> QED BY <2>2, <2>6, <2>7
<1>3. m \in 0..N /\ m \notin T
  <2> HIDE DEF T
  <2> QED BY <1>2 DEF N
<1> QED BY <1>3

(* Below a node on a path the path goes through an entry of it.            *)
LEMMA PathThrough ==
  ASSUME NEW fs, IsTree(fs), NEW m \in 0..Len(fs), NEW a \in PathOf(fs)[m], a # m
  PROVE  \E c \in PathOf(fs)[m] : c \in 1..Len(fs) /\ fs[c].up = a
<1> DEFINE N == Len(fs)
           C == PathOf(fs)
           T == {n \in 0..N : a \in C[n] /\ a # n /\ ~\E c \in C[n] : c \in 1..N /\ fs[c].up = a}
<1>1. N \in Nat /\ \A n \in 1..N : fs[n].up \in Nat /\ fs[n].up < n /\ fs[n].up \in 0..N
  BY TreeUp
<1>2. \A n \in 0..N : C[n] = {n} \cup (IF n = 0 THEN {} ELSE C[fs[n].up])
  BY PathSteps
<1> HIDE DEF N
<1>3. T = {}
  <2>1. SUFFICES ASSUME T # {} PROVE FALSE
    OBVIOUS
  <2>2. PICK n \in T : \A k \in T : n <= k
    <3>1. T \subseteq Nat
      BY <1>1
    <3> HIDE DEF T
    <3> QED BY <2>1, <3>1, LeastOf
  <2>3. n \in 0..N /\ n \in Nat /\ a \in C[n] /\ a # n /\ ~\E c \in C[n] : c \in 1..N /\ fs[c].up = a
    BY <1>1, <2>2
  <2>4. n \in 1..N /\ a \in C[fs[n].up]
    BY <2>3, PathUp DEF N
  <2>5. fs[n].up \in 0..N /\ ~(n <= fs[n].up)
    BY <1>1, <2>3, <2>4
  <2>6. C[n] = {n} \cup C[fs[n].up]
    <3>1. n # 0
      BY <2>4
    <3> QED BY <1>2, <2>3, <3>1
  <2>7. fs[n].up # a
    BY <2>3, <2>4, <2>6
  <2>8. fs[n].up \in T
    BY <2>3, <2>4, <2>5, <2>6, <2>7
  <2> HIDE DEF T
  <2> QED BY <2>2, <2>5, <2>8
<1>4. m \in 0..N /\ m \notin T
  <2> HIDE DEF T
  <2> QED BY <1>3 DEF N
<1> QED BY <1>4 DEF N

-----------------------------------------------------------------------------
(* The check boxes.                                                        *)

Readable(p) == p \in DOMAIN mounts /\ mounts[p] # NoFs

NodeRow(p, n) == <<p, n, "node">>

CheckStates == {"none", "checked", "unchecked", "partly"}

(* A check box that is ticked stands for all files below, one that is not  *)
(* for none of them.                                                       *)
StandsFor(c, w, p, n) ==
  /\ c = "checked" => \A m \in FilesBelow(mounts[p], n) : <<p, m>> \in w
  /\ c \in {"none", "unchecked"} => \A m \in FilesBelow(mounts[p], n) : <<p, m>> \notin w

(* The row of an entry is below the filled row of its folder.              *)
LinkOK(k) ==
  LET p == k[1]
      n == k[2] IN
  /\ n = 0 => rows[k].up = -1
  /\ n > 0 => /\ Readable(p) /\ n \in DOMAIN mounts[p]
              /\ rows[k].up = mounts[p][n].up
              /\ NodeRow(p, rows[k].up) \in DOMAIN rows /\ rows[NodeRow(p, rows[k].up)].loaded

BoxOK(k, c, w) ==
  LET p == k[1]
      n == k[2] IN
  /\ n > 0 => c # "none"
  /\ n = 0 /\ c # "none" => Readable(p) /\ rows[k].loaded /\ StubRow(p, 0) \notin DOMAIN rows
  /\ c = "partly" => /\ rows[k].loaded /\ StubRow(p, n) \notin DOMAIN rows
                     /\ n > 0 => mounts[p][n].dir
  /\ Readable(p) => StandsFor(c, w, p, n)

(* A row of text is below a folder not filled yet, or an empty one.        *)
StubOK(k) ==
  LET p == k[1]
      n == k[2] IN
  /\ NodeRow(p, n) \in DOMAIN rows /\ rows[k].up = n
  /\ rows[k].stub = "..." <=> ~rows[NodeRow(p, n)].loaded
  /\ n > 0 => mounts[p][n].dir
  /\ rows[NodeRow(p, n)].loaded /\ Readable(p) => \A m \in DOMAIN mounts[p] : mounts[p][m].up # n

LinksOK == \A k \in DOMAIN rows : IF k[3] = "node" THEN LinkOK(k) ELSE StubOK(k)

WantedOK ==
  \A w \in wanted : \E p \in DOMAIN mounts : \E m \in Nat :
    w = <<p, m>> /\ mounts[p] # NoFs /\ m \in DOMAIN mounts[p] /\ ~mounts[p][m].dir

TreesOK == \A p \in DOMAIN volumes : volumes[p] # NoFs => IsTree(volumes[p])

ChecksOK ==
  /\ DOMAIN check = DOMAIN rows
  /\ \A k \in DOMAIN rows : check[k] \in CheckStates
  /\ \A k \in DOMAIN rows : k[3] = "node" => BoxOK(k, check[k], wanted)
  /\ \A k \in DOMAIN rows : k[3] = "stub" /\ k[2] = 0 => check[k] = "none"

TickInv == TreesOK /\ LinksOK /\ WantedOK /\ ChecksOK

-----------------------------------------------------------------------------
(* The rows above a row are those of the path of its entry.                *)

Ids(rs, p) == {k[2] : k \in {j \in DOMAIN rs : j[1] = p}}

AboveLaw(f, rs, p) ==
  f = [n \in Ids(rs, p) |-> IF n = 0 THEN {} ELSE LET u == rs[<<p, n, "node">>].up IN {u} \cup f[u]]

LEMMA AboveIs ==
  ASSUME NEW rs, NEW p
  PROVE  Above(rs, p) = CHOOSE f : AboveLaw(f, rs, p)
BY DEF Above, AboveLaw, Ids

RowKeys == \A k \in DOMAIN rows : k[2] \in Nat /\ k[3] \in {"node", "stub"} /\ k = <<k[1], k[2], k[3]>>

LEMMA KeysOfTree ==
  ASSUME TreeOK
  PROVE  RowKeys
BY DEF TreeOK, ShapeOK, RowKeys

LEMMA RowTree ==
  ASSUME TreeOK, TickInv, NEW k \in DOMAIN rows
  PROVE  LET p == k[1]
             n == k[2] IN
         /\ n \in Ids(rows, p)
         /\ NodeRow(p, n) \in DOMAIN rows
         /\ Readable(p) => IsTree(mounts[p])
         /\ n > 0 => /\ Readable(p) /\ n \in 1..Len(mounts[p])
                     /\ rows[NodeRow(p, n)].up = mounts[p][n].up
                     /\ NodeRow(p, mounts[p][n].up) \in DOMAIN rows
                     /\ rows[NodeRow(p, mounts[p][n].up)].loaded
                     /\ mounts[p][n].up \in Ids(rows, p)
<1> DEFINE p == k[1]
           n == k[2]
<1>1. n \in Nat /\ k[3] \in {"node", "stub"} /\ k = <<p, n, k[3]>> /\ n \in Ids(rows, p)
  BY KeysOfTree DEF RowKeys, Ids
<1>2. NodeRow(p, n) \in DOMAIN rows
  <2>1. CASE k[3] = "node"
    BY <1>1, <2>1 DEF NodeRow
  <2>2. CASE k[3] = "stub"
    BY <2>2 DEF TickInv, LinksOK, StubOK
  <2> QED BY <1>1, <2>1, <2>2
<1>3. Readable(p) => IsTree(mounts[p])
  BY DEF Readable, TreeOK, MountsOK, TickInv, TreesOK
<1>4. ASSUME n > 0
      PROVE  /\ Readable(p) /\ n \in 1..Len(mounts[p])
             /\ rows[NodeRow(p, n)].up = mounts[p][n].up
             /\ NodeRow(p, mounts[p][n].up) \in DOMAIN rows
             /\ rows[NodeRow(p, mounts[p][n].up)].loaded
  <2> DEFINE j == NodeRow(p, n)
  <2>1. j \in DOMAIN rows /\ j[1] = p /\ j[2] = n /\ j[3] = "node"
    BY <1>2 DEF NodeRow
  <2> HIDE DEF j
  <2>2. LinkOK(j)
    BY <2>1 DEF TickInv, LinksOK
  <2>3. Readable(p) /\ n \in DOMAIN mounts[p] /\ rows[j].up = mounts[p][n].up
        /\ NodeRow(p, rows[j].up) \in DOMAIN rows /\ rows[NodeRow(p, rows[j].up)].loaded
    BY <1>4, <2>1, <2>2 DEF LinkOK
  <2>4. DOMAIN mounts[p] = 1..Len(mounts[p])
    BY <1>3, <2>3, TreeUp
  <2> QED BY <2>3, <2>4 DEF j
<1>5. ASSUME n > 0 PROVE mounts[p][n].up \in Ids(rows, p)
  BY <1>4, <1>5 DEF Ids, NodeRow
<1> QED BY <1>1, <1>2, <1>3, <1>4, <1>5

(* The nodes from n up, in the mount or, for a volume without, its row.    *)
Way(p, n) == IF Readable(p) THEN PathOf(mounts[p])[n] ELSE {n}

LEMMA AboveExists ==
  ASSUME TreeOK, TickInv, NEW p
  PROVE  \E f : AboveLaw(f, rows, p)
<1> DEFINE D == Ids(rows, p)
           f == [n \in D |-> Way(p, n) \ {n}]
           Body(n) == IF n = 0 THEN {} ELSE LET u == rows[<<p, n, "node">>].up IN {u} \cup f[u]
<1>1. ASSUME NEW n \in D PROVE f[n] = Body(n)
  <2>1. PICK k \in DOMAIN rows : k[1] = p /\ k[2] = n
    BY DEF Ids
  <2>2. n \in Nat
    BY <2>1, KeysOfTree DEF RowKeys
  <2>3. CASE n = 0
    <3>1. Readable(p) => Way(p, 0) = {0}
      <4>1. ASSUME Readable(p) PROVE PathOf(mounts[p])[0] = {0}
        <5>1. IsTree(mounts[p])
          BY <2>1, <4>1, RowTree
        <5>2. 0 \in 0..Len(mounts[p])
          BY <5>1, TreeUp
        <5> QED BY <5>1, <5>2, PathSteps
      <4> QED BY <4>1 DEF Way
    <3>2. Way(p, 0) = {0}
      BY <3>1 DEF Way
    <3> QED BY <2>3, <3>2
  <2>4. CASE n # 0
    <3> DEFINE fs == mounts[p]
               u == fs[n].up
    <3>1. /\ Readable(p) /\ IsTree(fs) /\ n \in 1..Len(fs)
          /\ rows[NodeRow(p, n)].up = u /\ u \in D
      <4>1. n > 0
        BY <2>2, <2>4
      <4> QED BY <2>1, <4>1, RowTree
    <3>2. u \in Nat /\ u < n /\ u \in 0..Len(fs) /\ n \in 0..Len(fs)
      BY <3>1, TreeUp
    <3>3. PathOf(fs)[n] = {n} \cup PathOf(fs)[u] /\ PathOf(fs)[u] \subseteq 0..u /\ u \in PathOf(fs)[u]
      BY <2>4, <3>1, <3>2, PathSteps, PathWithin
    <3>4. n \notin PathOf(fs)[u]
      <4>1. n \notin 0..u
        BY <2>2, <3>2
      <4> QED BY <3>3, <4>1
    <3>5. f[u] = PathOf(fs)[u] \ {u} /\ f[n] = PathOf(fs)[n] \ {n}
      BY <3>1 DEF Way
    <3> HIDE DEF f, u, fs
    <3>6. f[n] = {u} \cup f[u]
      BY <3>3, <3>4, <3>5
    <3> QED BY <2>4, <3>1, <3>6 DEF NodeRow
  <2> QED BY <2>3, <2>4
<1>2. f = [n \in D |-> f[n]]
  OBVIOUS
<1> HIDE DEF f
<1>3. f = [n \in D |-> Body(n)]
  BY <1>1, <1>2
<1>4. AboveLaw(f, rows, p)
  BY <1>3 DEF AboveLaw
<1> QED BY <1>4

LEMMA AboveWay ==
  ASSUME TreeOK, TickInv, NEW k \in DOMAIN rows
  PROVE  Above(rows, k[1])[k[2]] = Way(k[1], k[2]) \ {k[2]}
<1> DEFINE p == k[1]
           D == Ids(rows, p)
           f == Above(rows, p)
           T == {n \in Nat : n \in D /\ f[n] # Way(p, n) \ {n}}
<1>1. AboveLaw(f, rows, p)
  BY AboveExists, AboveIs
<1> HIDE DEF f
<1>2. \A n \in D : f[n] = IF n = 0 THEN {} ELSE LET u == rows[<<p, n, "node">>].up IN {u} \cup f[u]
  BY <1>1 DEF AboveLaw
<1>3. T = {}
  <2>1. SUFFICES ASSUME T # {} PROVE FALSE
    OBVIOUS
  <2>2. PICK n \in T : \A m \in T : n <= m
    <3>1. T \subseteq Nat
      OBVIOUS
    <3> HIDE DEF T
    <3> QED BY <2>1, <3>1, LeastOf
  <2>3. n \in Nat /\ n \in D /\ f[n] # Way(p, n) \ {n}
    BY <2>2
  <2>4. PICK j \in DOMAIN rows : j[1] = p /\ j[2] = n
    BY <2>3 DEF Ids
  <2>5. CASE n = 0
    <3>1. ASSUME Readable(p) PROVE PathOf(mounts[p])[0] = {0}
      <4>1. IsTree(mounts[p])
        BY <3>1, RowTree
      <4>2. 0 \in 0..Len(mounts[p])
        BY <4>1, TreeUp
      <4> QED BY <4>1, <4>2, PathSteps
    <3>2. Way(p, 0) = {0}
      BY <3>1 DEF Way
    <3>3. f[0] = {}
      BY <1>2, <2>3, <2>5
    <3> QED BY <2>3, <2>5, <3>2, <3>3
  <2>6. CASE n # 0
    <3> DEFINE fs == mounts[p]
               u == fs[n].up
    <3>1. /\ Readable(p) /\ IsTree(fs) /\ n \in 1..Len(fs)
          /\ rows[NodeRow(p, n)].up = u /\ u \in D
      <4>1. n > 0
        BY <2>3, <2>6
      <4> QED BY <2>4, <4>1, RowTree
    <3>2. u \in Nat /\ u < n /\ u \in 0..Len(fs) /\ n \in 0..Len(fs)
      BY <3>1, TreeUp
    <3>3. PathOf(fs)[n] = {n} \cup PathOf(fs)[u] /\ PathOf(fs)[u] \subseteq 0..u /\ u \in PathOf(fs)[u]
      BY <2>6, <3>1, <3>2, PathSteps, PathWithin
    <3>4. n \notin PathOf(fs)[u] /\ ~(n <= u)
      <4>1. n \notin 0..u
        BY <2>3, <3>2
      <4> QED BY <2>3, <3>2, <3>3, <4>1
    <3>5. f[u] = PathOf(fs)[u] \ {u}
      <4>1. u \notin T
        <5> HIDE DEF T, u
        <5> QED BY <2>2, <3>4
      <4>2. f[u] = Way(p, u) \ {u}
        BY <3>1, <3>2, <4>1
      <4> QED BY <3>1, <4>2 DEF Way
    <3>6. f[n] = {u} \cup f[u]
      <4>1. f[n] = {rows[<<p, n, "node">>].up} \cup f[rows[<<p, n, "node">>].up]
        BY <1>2, <2>3, <2>6
      <4> QED BY <3>1, <4>1 DEF NodeRow
    <3>7. Way(p, n) = PathOf(fs)[n]
      BY <3>1 DEF Way
    <3> HIDE DEF fs, u, T
    <3> QED BY <2>3, <3>3, <3>4, <3>5, <3>6, <3>7
  <2> QED BY <2>5, <2>6
<1>4. k[2] \in Nat /\ k[2] \in D
  BY RowTree, KeysOfTree DEF RowKeys
<1>5. k[2] \notin T
  <2> HIDE DEF T
  <2> QED BY <1>3
<1> QED BY <1>4, <1>5 DEF f

LEMMA ParentsAre ==
  ASSUME TreeOK, TickInv, NEW k \in DOMAIN rows
  PROVE  /\ k[3] = "node" => Parents(rows, k) = Way(k[1], k[2]) \ {k[2]}
         /\ k[3] = "stub" => Parents(rows, k) = Way(k[1], k[2])
<1>1. Above(rows, k[1])[k[2]] = Way(k[1], k[2]) \ {k[2]}
  BY AboveWay
<1>2. k[2] \in Way(k[1], k[2])
  <2>1. CASE Readable(k[1])
    <3>1. IsTree(mounts[k[1]])
      BY <2>1, RowTree
    <3>2. k[2] \in 0..Len(mounts[k[1]])
      <4>1. k[2] \in Nat /\ Len(mounts[k[1]]) \in Nat
        BY <3>1, KeysOfTree, TreeUp DEF RowKeys
      <4>2. k[2] > 0 => k[2] \in 1..Len(mounts[k[1]])
        BY RowTree
      <4> QED BY <4>1, <4>2
    <3> QED BY <2>1, <3>1, <3>2, PathWithin DEF Way
  <2>2. CASE ~Readable(k[1])
    BY <2>2 DEF Way
  <2> QED BY <2>1, <2>2
<1> QED BY <1>1, <1>2 DEF Parents

-----------------------------------------------------------------------------
(* The rows above a row are there, and filled.                             *)

LEMMA WayRows ==
  ASSUME TreeOK, TickInv, NEW k \in DOMAIN rows, NEW n \in Way(k[1], k[2])
  PROVE  /\ n \in 0..k[2]
         /\ NodeRow(k[1], n) \in DOMAIN rows
         /\ n # k[2] => Readable(k[1]) /\ rows[NodeRow(k[1], n)].loaded
<1> DEFINE p == k[1]
           fs == mounts[p]
           C == PathOf(fs)
           Up(m) == \A a \in C[m] : /\ a \in 0..m /\ NodeRow(p, a) \in DOMAIN rows
                                    /\ a # m => rows[NodeRow(p, a)].loaded
           T == {m \in Nat : NodeRow(p, m) \in DOMAIN rows /\ ~Up(m)}
<1>1. k[2] \in Nat /\ NodeRow(p, k[2]) \in DOMAIN rows
  BY RowTree, KeysOfTree DEF RowKeys
<1>2. CASE ~Readable(p)
  <2>1. n = k[2]
    BY <1>2 DEF Way
  <2> QED BY <1>1, <2>1
<1>3. CASE Readable(p)
  <2>1. IsTree(fs)
    BY <1>3, RowTree
  <2>2. T = {}
    <3>1. SUFFICES ASSUME T # {} PROVE FALSE
      OBVIOUS
    <3>2. PICK m \in T : \A i \in T : m <= i
      <4>1. T \subseteq Nat
        OBVIOUS
      <4> HIDE DEF T
      <4> QED BY <3>1, <4>1, LeastOf
    <3>3. m \in Nat /\ NodeRow(p, m) \in DOMAIN rows /\ ~Up(m)
      BY <3>2
    <3> DEFINE j == NodeRow(p, m)
    <3>4. j \in DOMAIN rows /\ j[1] = p /\ j[2] = m
      BY <3>3 DEF NodeRow
    <3> HIDE DEF j
    <3>5. CASE m = 0
      <4>1. C[0] = {0}
        <5>1. 0 \in 0..Len(fs)
          BY <2>1, TreeUp
        <5> QED BY <2>1, <5>1, PathSteps
      <4>2. Up(m)
        BY <3>3, <3>5, <4>1
      <4> QED BY <3>3, <4>2
    <3>6. CASE m # 0
      <4> DEFINE u == fs[m].up
      <4>1. m \in 1..Len(fs) /\ NodeRow(p, u) \in DOMAIN rows /\ rows[NodeRow(p, u)].loaded
        <5>1. m > 0
          BY <3>3, <3>6
        <5> QED BY <3>4, <5>1, RowTree
      <4>2. u \in Nat /\ u < m /\ u \in 0..Len(fs) /\ m \in 0..Len(fs)
        BY <2>1, <4>1, TreeUp
      <4>3. C[m] = {m} \cup C[u]
        BY <2>1, <3>6, <4>2, PathSteps
      <4>4. Up(u)
        <5>1. u \notin T
          <6> HIDE DEF T, u
          <6> QED BY <3>2, <3>3, <4>2
        <5> QED BY <4>1, <4>2, <5>1
      <4>5. Up(m)
        <5> SUFFICES ASSUME NEW a \in C[m]
                     PROVE  /\ a \in 0..m /\ NodeRow(p, a) \in DOMAIN rows
                            /\ a # m => rows[NodeRow(p, a)].loaded
          OBVIOUS
        <5>1. CASE a = m
          BY <3>3, <5>1
        <5>2. CASE a # m
          <6>1. a \in C[u]
            BY <4>3, <5>2
          <6>2. a \in 0..u /\ NodeRow(p, a) \in DOMAIN rows /\ (a # u => rows[NodeRow(p, a)].loaded)
            BY <4>4, <6>1
          <6>3. a \in 0..m
            BY <3>3, <4>2, <6>2
          <6> QED BY <4>1, <6>2, <6>3
        <5> QED BY <5>1, <5>2
      <4> QED BY <3>3, <4>5
    <3> QED BY <3>5, <3>6
  <2>3. Up(k[2])
    <3>1. k[2] \notin T
      <4> HIDE DEF T
      <4> QED BY <2>2
    <3> QED BY <1>1, <3>1
  <2>4. n \in C[k[2]]
    BY <1>3 DEF Way
  <2> QED BY <1>3, <2>3, <2>4
<1> QED BY <1>2, <1>3

-----------------------------------------------------------------------------
(* The cascade up from a row: each folder above it is what its children    *)
(* make of it.                                                             *)

Passed(rs, k, j) == j[1] = k[1] /\ j[3] = "node" /\ j[2] \in Parents(rs, k)

SumOf(f, chk, rs, k, n) ==
  Summary({Tick(IF Passed(rs, k, j) THEN f[j[2]] ELSE chk[j]) : j \in Children(rs, <<k[1], n, "node">>)})

SumLaw(f, chk, rs, k) == f = [n \in Parents(rs, k) |-> SumOf(f, chk, rs, k, n)]

LEMMA ApplyUpIs ==
  ASSUME NEW chk, NEW rs, NEW k
  PROVE  ApplyUp(chk, rs, k) =
           [j \in DOMAIN chk |-> IF Passed(rs, k, j) THEN (CHOOSE f : SumLaw(f, chk, rs, k))[j[2]] ELSE chk[j]]
BY DEF ApplyUp, SumLaw, SumOf, Passed

LEMMA SumSame ==
  ASSUME NEW f, NEW g, NEW chk, NEW rs, NEW k, NEW n,
         \A j \in Children(rs, <<k[1], n, "node">>) : Passed(rs, k, j) => f[j[2]] = g[j[2]]
  PROVE  SumOf(f, chk, rs, k, n) = SumOf(g, chk, rs, k, n)
<1> DEFINE C == Children(rs, <<k[1], n, "node">>)
           F(j) == Tick(IF Passed(rs, k, j) THEN f[j[2]] ELSE chk[j])
           G(j) == Tick(IF Passed(rs, k, j) THEN g[j[2]] ELSE chk[j])
<1>1. \A j \in C : F(j) = G(j)
  OBVIOUS
<1>2. {F(j) : j \in C} = {G(j) : j \in C}
  <2> HIDE DEF F, G, C
  <2> QED BY <1>1
<1> QED BY <1>2 DEF SumOf

(* The children of a node row: what is below it comes after it.            *)
LEMMA ChildrenAfter ==
  ASSUME TreeOK, TickInv, NEW p, NEW n \in Nat, NEW j \in Children(rows, NodeRow(p, n)), j[3] = "node"
  PROVE  /\ j \in DOMAIN rows /\ j[1] = p /\ j = NodeRow(p, j[2])
         /\ j[2] \in Nat /\ j[2] > n /\ Readable(p) /\ IsTree(mounts[p])
         /\ j[2] \in 1..Len(mounts[p]) /\ mounts[p][j[2]].up = n
<1>1. j \in DOMAIN rows /\ j[1] = p /\ rows[j].up = n
  BY DEF Children, NodeRow
<1>2. j[2] \in Nat /\ j = NodeRow(p, j[2])
  BY <1>1, KeysOfTree DEF RowKeys, NodeRow
<1>3. LinkOK(j)
  BY <1>1 DEF TickInv, LinksOK
<1>4. j[2] # 0
  BY <1>1, <1>3 DEF LinkOK
<1>5. j[2] > 0
  BY <1>2, <1>4
<1>6. /\ Readable(p) /\ IsTree(mounts[p]) /\ j[2] \in 1..Len(mounts[p])
      /\ rows[NodeRow(p, j[2])].up = mounts[p][j[2]].up
  BY <1>1, <1>5, RowTree
<1>7. mounts[p][j[2]].up = n
  BY <1>1, <1>2, <1>6
<1>8. n < j[2]
  BY <1>6, <1>7, TreeUp
<1>9. j[2] > n
  BY <1>2, <1>8
<1> QED BY <1>1, <1>2, <1>6, <1>7, <1>9

LEMMA SumExists ==
  ASSUME TreeOK, TickInv, NEW k \in DOMAIN rows, NEW chk
  PROVE  \E f : SumLaw(f, chk, rows, k)
<1> DEFINE P == Parents(rows, k)
           K == k[2]
           Good(f, b) == DOMAIN f = P /\ \A n \in P : n >= b => f[n] = SumOf(f, chk, rows, k, n)
           T == {i \in 0..(K + 1) : ~\E f : Good(f, (K + 1) - i)}
<1>1. K \in Nat
  BY KeysOfTree DEF RowKeys
<1>2. P \subseteq 0..K
  <2>1. P \subseteq Way(k[1], k[2])
    BY ParentsAre, KeysOfTree DEF RowKeys
  <2> QED BY <2>1, WayRows
<1>3. ASSUME NEW f, NEW g, NEW n \in P, \A m \in P : m > n => f[m] = g[m]
      PROVE  SumOf(f, chk, rows, k, n) = SumOf(g, chk, rows, k, n)
  <2>1. n \in Nat
    BY <1>1, <1>2
  <2>2. ASSUME NEW j \in Children(rows, <<k[1], n, "node">>), Passed(rows, k, j)
        PROVE  f[j[2]] = g[j[2]]
    <3>1. j[3] = "node" /\ j[2] \in P
      BY <2>2 DEF Passed
    <3>2. j[2] > n
      BY <2>1, <2>2, <3>1, ChildrenAfter DEF NodeRow
    <3> QED BY <1>3, <3>1, <3>2
  <2> QED BY <2>2, SumSame
<1> HIDE DEF K, P
<1>4. T = {}
  <2>1. SUFFICES ASSUME T # {} PROVE FALSE
    OBVIOUS
  <2>2. PICK i \in T : \A e \in T : i <= e
    <3>1. T \subseteq Nat
      BY <1>1
    <3> HIDE DEF T
    <3> QED BY <2>1, <3>1, LeastOf
  <2>3. i \in 0..(K + 1) /\ ~\E f : Good(f, (K + 1) - i)
    BY <2>2
  <2>4. i # 0
    <3>1. SUFFICES ASSUME i = 0 PROVE FALSE
      OBVIOUS
    <3>2. (K + 1) - i = K + 1
      BY <1>1, <3>1
    <3>3. \A n \in P : ~(n >= K + 1)
      BY <1>1, <1>2
    <3> DEFINE f0 == [n \in P |-> 0]
    <3>4. DOMAIN f0 = P
      OBVIOUS
    <3> HIDE DEF f0
    <3>5. Good(f0, (K + 1) - i)
      BY <3>2, <3>3, <3>4
    <3> QED BY <2>3, <3>5
  <2> DEFINE b == (K + 1) - i
  <2>5. i - 1 \in 0..(K + 1) /\ ~(i <= i - 1) /\ (K + 1) - (i - 1) = b + 1 /\ b \in Nat
    BY <1>1, <2>3, <2>4
  <2>6. i - 1 \notin T
    <3> HIDE DEF T
    <3> QED BY <2>2, <2>5
  <2>7. \E f : Good(f, b + 1)
    BY <2>5, <2>6
  <2> HIDE DEF T, b
  <2>8. PICK f : Good(f, b + 1)
    BY <2>7
  <2> DEFINE g == [n \in P |-> IF n = b THEN SumOf(f, chk, rows, k, b) ELSE f[n]]
  <2>9. DOMAIN g = P /\ (b \in P => g[b] = SumOf(f, chk, rows, k, b)) /\ \A n \in P : n # b => g[n] = f[n]
    OBVIOUS
  <2> HIDE DEF g
  <2>10. ASSUME NEW n \in P, n >= b
         PROVE  g[n] = SumOf(g, chk, rows, k, n)
    <3>1. \A m \in P : m \in Nat
      BY <1>1, <1>2
    <3>2. \A m \in P : m > n => f[m] = g[m]
      <4>1. ASSUME NEW m \in P, m > n PROVE m # b
        BY <2>5, <2>10, <3>1, <4>1
      <4> QED BY <2>9, <4>1
    <3>3. SumOf(f, chk, rows, k, n) = SumOf(g, chk, rows, k, n)
      BY <1>3, <3>2 DEF P
    <3>4. CASE n = b
      BY <2>9, <3>3, <3>4
    <3>5. CASE n # b
      <4>1. n >= b + 1
        BY <2>5, <2>10, <3>1, <3>5
      <4>2. f[n] = SumOf(f, chk, rows, k, n)
        BY <2>8, <4>1
      <4> QED BY <2>9, <3>3, <3>5, <4>2
    <3> QED BY <3>4, <3>5
  <2>11. Good(g, b)
    BY <2>9, <2>10
  <2> QED BY <2>3, <2>11 DEF b
<1>5. K + 1 \in 0..(K + 1) /\ (K + 1) - (K + 1) = 0
  BY <1>1
<1>6. K + 1 \notin T
  <2> HIDE DEF T
  <2> QED BY <1>4
<1>7. \E f : Good(f, 0)
  BY <1>5, <1>6
<1>8. PICK f : Good(f, 0)
  BY <1>7
<1>9. \A n \in P : n >= 0
  BY <1>1, <1>2
<1> DEFINE g == [n \in P |-> SumOf(f, chk, rows, k, n)]
<1>10. \A n \in P : f[n] = g[n]
  BY <1>8, <1>9
<1>11. \A n \in P : SumOf(f, chk, rows, k, n) = SumOf(g, chk, rows, k, n)
  <2>1. ASSUME NEW n \in P PROVE \A m \in P : m > n => f[m] = g[m]
    BY <1>10
  <2> HIDE DEF g
  <2> QED BY <1>3, <2>1 DEF P
<1>12. g = [n \in P |-> SumOf(g, chk, rows, k, n)]
  <2>1. \A n \in P : g[n] = SumOf(g, chk, rows, k, n)
    <3>1. \A n \in P : g[n] = SumOf(f, chk, rows, k, n)
      OBVIOUS
    <3> HIDE DEF g
    <3> QED BY <1>11, <3>1
  <2>2. g = [n \in P |-> g[n]]
    OBVIOUS
  <2> HIDE DEF g
  <2> QED BY <2>1, <2>2
<1>13. SumLaw(g, chk, rows, k)
  <2> HIDE DEF g
  <2> QED BY <1>12 DEF SumLaw, P
<1> QED BY <1>13

(* What the cascade up leaves alone, and what it makes of a folder.        *)
LEMMA UpLaw ==
  ASSUME TreeOK, TickInv, NEW k \in DOMAIN rows, NEW chk, DOMAIN chk = DOMAIN rows
  PROVE  LET U == ApplyUp(chk, rows, k) IN
         /\ DOMAIN U = DOMAIN rows
         /\ \A j \in DOMAIN rows : ~Passed(rows, k, j) => U[j] = chk[j]
         /\ \A n \in Parents(rows, k) :
              U[NodeRow(k[1], n)] = Summary({Tick(U[j]) : j \in Children(rows, NodeRow(k[1], n))})
<1> DEFINE U == ApplyUp(chk, rows, k)
           s == CHOOSE f : SumLaw(f, chk, rows, k)
           p == k[1]
<1>1. SumLaw(s, chk, rows, k)
  BY SumExists
<1>2. U = [j \in DOMAIN chk |-> IF Passed(rows, k, j) THEN s[j[2]] ELSE chk[j]]
  BY ApplyUpIs
<1> HIDE DEF U, s
<1>3. DOMAIN U = DOMAIN rows
      /\ \A j \in DOMAIN rows : U[j] = IF Passed(rows, k, j) THEN s[j[2]] ELSE chk[j]
  BY <1>2
<1>4. ASSUME NEW n \in Parents(rows, k)
      PROVE  U[NodeRow(p, n)] = Summary({Tick(U[j]) : j \in Children(rows, NodeRow(p, n))})
  <2>1. n \in Way(k[1], k[2])
    BY ParentsAre, KeysOfTree DEF RowKeys
  <2>2. NodeRow(p, n) \in DOMAIN rows
    BY <2>1, WayRows
  <2>3. Passed(rows, k, NodeRow(p, n))
    BY DEF Passed, NodeRow
  <2>4. U[NodeRow(p, n)] = s[n]
    BY <1>3, <2>2, <2>3 DEF NodeRow
  <2>5. s[n] = SumOf(s, chk, rows, k, n)
    BY <1>1 DEF SumLaw
  <2> DEFINE C == Children(rows, <<k[1], n, "node">>)
             F(j) == Tick(IF Passed(rows, k, j) THEN s[j[2]] ELSE chk[j])
             G(j) == Tick(U[j])
  <2>6. C \subseteq DOMAIN rows
    BY DEF Children
  <2>7. \A j \in C : F(j) = G(j)
    BY <1>3, <2>6
  <2>8. {F(j) : j \in C} = {G(j) : j \in C}
    <3> HIDE DEF F, G, C
    <3> QED BY <2>7
  <2>9. SumOf(s, chk, rows, k, n) = Summary({G(j) : j \in C})
    BY <2>8 DEF SumOf
  <2> QED BY <2>4, <2>5, <2>9 DEF NodeRow
<1> QED BY <1>3, <1>4 DEF U

(* What follows from a folder's children to its own box.                   *)
LEMMA SummaryFacts ==
  ASSUME NEW S
  PROVE  /\ Summary(S) \in {"checked", "unchecked", "partly"}
         /\ Summary(S) = "checked" => S = {"checked"}
         /\ Summary(S) = "unchecked" => S = {"unchecked"}
BY DEF Summary

LEMMA TickFacts ==
  ASSUME NEW c
  PROVE  /\ Tick(c) \in {"checked", "unchecked", "partly"}
         /\ Tick(c) = "checked" <=> c = "checked"
         /\ Tick(c) = "partly" <=> c = "partly"
BY DEF Tick

(* A box of c on row k is in step with the files w, which differ from the  *)
(* ticked ones only below the row.                                         *)
Clicked(c, k, w) ==
  /\ Readable(k[1])
  /\ c \in {"none", "checked", "unchecked"}
  /\ k[3] = "node" => BoxOK(k, c, w)
  /\ k[3] = "stub" => k[2] > 0 /\ rows[NodeRow(k[1], k[2])].loaded
  /\ \A q, m : (q = k[1] /\ m \in FilesBelow(mounts[q], k[2])) \/ (<<q, m>> \in w <=> <<q, m>> \in wanted)

(* An empty folder.                                                        *)
LEMMA EmptyFolder ==
  ASSUME TreeOK, TickInv, NEW k \in DOMAIN rows, k[3] = "stub", k[2] > 0,
         rows[NodeRow(k[1], k[2])].loaded
  PROVE  /\ Readable(k[1]) /\ FilesBelow(mounts[k[1]], k[2]) = {}
         /\ Children(rows, NodeRow(k[1], k[2])) = {k}
<1> DEFINE p == k[1]
           n == k[2]
           fs == mounts[p]
<1>1. Readable(p) /\ IsTree(fs) /\ n \in 1..Len(fs)
  BY RowTree
<1>2. StubOK(k)
  BY DEF TickInv, LinksOK
<1>3. fs[n].dir /\ (\A m \in DOMAIN fs : fs[m].up # n) /\ rows[k].up = n
  BY <1>1, <1>2 DEF StubOK
<1>4. ASSUME NEW m \in FilesBelow(fs, n) PROVE FALSE
  <2>1. m \in DOMAIN fs /\ ~fs[m].dir /\ n \in PathOf(fs)[m]
    BY FilesBelowIs
  <2>2. m \in 0..Len(fs)
    BY <1>1, <2>1, TreeUp
  <2>3. n # m
    BY <1>3, <2>1
  <2>4. PICK c \in PathOf(fs)[m] : c \in 1..Len(fs) /\ fs[c].up = n
    BY <1>1, <2>1, <2>2, <2>3, PathThrough
  <2> QED BY <1>1, <1>3, <2>4, TreeUp
<1>5. k = StubRow(p, n)
  BY KeysOfTree DEF RowKeys, StubRow
<1>6. k \in Children(rows, NodeRow(p, n))
  BY <1>3, <1>5 DEF Children, NodeRow, StubRow
<1>7. ASSUME NEW j \in Children(rows, NodeRow(p, n)) PROVE j = k
  <2>1. j \in DOMAIN rows /\ j[1] = p /\ rows[j].up = n
    BY DEF Children, NodeRow
  <2>2. j[3] \in {"node", "stub"} /\ j = <<j[1], j[2], j[3]>> /\ n \in Nat
    BY <2>1, KeysOfTree DEF RowKeys
  <2>3. j[3] # "node"
    <3>1. SUFFICES ASSUME j[3] = "node" PROVE FALSE
      OBVIOUS
    <3>2. j[2] \in 1..Len(fs) /\ fs[j[2]].up = n
      BY <2>2, <3>1, ChildrenAfter
    <3> QED BY <1>1, <1>3, <3>2, TreeUp
  <2>4. j[3] = "stub"
    BY <2>2, <2>3
  <2>5. StubOK(j)
    BY <2>1, <2>4 DEF TickInv, LinksOK
  <2>6. j[2] = n
    BY <2>1, <2>5 DEF StubOK
  <2> QED BY <1>5, <2>1, <2>2, <2>4, <2>6 DEF StubRow
<1> QED BY <1>1, <1>4, <1>6, <1>7

(* A filled folder with an entry: its children are the rows of its         *)
(* entries, all of them.                                                   *)
LEMMA FilledFolder ==
  ASSUME TreeOK, TickInv, NEW p, Readable(p), NEW n \in Nat, NodeRow(p, n) \in DOMAIN rows,
         rows[NodeRow(p, n)].loaded, NEW c \in 1..Len(mounts[p]), mounts[p][c].up = n
  PROVE  /\ StubRow(p, n) \notin DOMAIN rows
         /\ n > 0 => mounts[p][n].dir
         /\ \A j \in Children(rows, NodeRow(p, n)) : j[3] = "node"
         /\ \A m \in 1..Len(mounts[p]) :
              mounts[p][m].up = n => NodeRow(p, m) \in Children(rows, NodeRow(p, n))
<1> DEFINE k == NodeRow(p, n)
           fs == mounts[p]
<1>1. k[1] = p /\ k[2] = n /\ k[3] = "node" /\ k \in DOMAIN rows /\ rows[k].loaded
  BY DEF NodeRow
<1>2. IsTree(fs) /\ DOMAIN fs = 1..Len(fs)
  BY <1>1, RowTree, TreeUp
<1>3. ASSUME StubRow(p, n) \in DOMAIN rows PROVE FALSE
  <2> DEFINE j == StubRow(p, n)
  <2>1. j[1] = p /\ j[2] = n /\ j[3] = "stub" /\ j \in DOMAIN rows
    BY <1>3 DEF StubRow
  <2> HIDE DEF j
  <2>2. StubOK(j)
    BY <2>1 DEF TickInv, LinksOK
  <2> QED BY <1>2, <2>1, <2>2 DEF StubOK
<1>4. n > 0 => fs[n].dir
  BY <1>2 DEF IsTree
<1>5. ASSUME NEW j \in Children(rows, NodeRow(p, n)) PROVE j[3] = "node"
  <2>1. j \in DOMAIN rows /\ j[1] = p /\ rows[j].up = n
    BY DEF Children, NodeRow
  <2>2. j[3] \in {"node", "stub"} /\ j = <<j[1], j[2], j[3]>>
    BY <2>1, KeysOfTree DEF RowKeys
  <2>3. ASSUME j[3] = "stub" PROVE FALSE
    <3>1. StubOK(j)
      BY <2>1, <2>3 DEF TickInv, LinksOK
    <3>2. j[2] = n
      BY <2>1, <3>1 DEF StubOK
    <3> QED BY <1>3, <2>1, <2>2, <2>3, <3>2 DEF StubRow
  <2> QED BY <2>2, <2>3
<1>6. ASSUME NEW m \in 1..Len(fs), fs[m].up = n
      PROVE  NodeRow(p, m) \in Children(rows, NodeRow(p, n))
  <2>1. RowOK(k)
    BY <1>1 DEF TreeOK, RowsOK
  <2>2. NodeRow(p, m) \in DOMAIN rows
    BY <1>1, <1>2, <1>6, <2>1 DEF RowOK, Readable, NodeRow
  <2> DEFINE j == NodeRow(p, m)
  <2>3. j \in DOMAIN rows /\ j[1] = p /\ j[2] = m /\ j[3] = "node"
    BY <2>2 DEF NodeRow
  <2>4. j # NodeRow(p, n)
    <3>1. n # m
      BY <1>2, <1>6, TreeUp
    <3> QED BY <3>1 DEF NodeRow
  <2>5. LinkOK(j)
    BY <2>3 DEF TickInv, LinksOK
  <2>6. rows[j].up = n
    BY <1>2, <1>6, <2>3, <2>5 DEF LinkOK
  <2> HIDE DEF j
  <2> QED BY <2>3, <2>4, <2>6 DEF Children, NodeRow, j
<1> QED BY <1>3, <1>4, <1>5, <1>6

(* A box depends only on the files below its row.                          *)
LEMMA BoxSame ==
  ASSUME NEW j, NEW c, NEW w, NEW v, BoxOK(j, c, w),
         Readable(j[1]) => \A m \in FilesBelow(mounts[j[1]], j[2]) : <<j[1], m>> \in w <=> <<j[1], m>> \in v
  PROVE  BoxOK(j, c, v)
BY DEF BoxOK, StandsFor

(* The row of a node stands for what its children stand for.               *)
LEMMA FolderBox ==
  ASSUME TreeOK, TickInv, NEW p, Readable(p), NEW n \in Nat, NodeRow(p, n) \in DOMAIN rows,
         rows[NodeRow(p, n)].loaded, NEW a \in 1..Len(mounts[p]), mounts[p][a].up = n,
         NEW U, NEW w,
         \A j \in Children(rows, NodeRow(p, n)) : U[j] \in CheckStates /\ BoxOK(j, U[j], w)
  PROVE  BoxOK(NodeRow(p, n), Summary({Tick(U[j]) : j \in Children(rows, NodeRow(p, n))}), w)
<1> DEFINE fs == mounts[p]
           C == Children(rows, NodeRow(p, n))
           S == {Tick(U[j]) : j \in C}
           s == Summary(S)
<1>1. IsTree(fs) /\ DOMAIN fs = 1..Len(fs) /\ Len(fs) \in Nat
  <2>1. NodeRow(p, n)[1] = p
    BY DEF NodeRow
  <2>2. IsTree(fs)
    BY <2>1, RowTree
  <2> QED BY <2>2, TreeUp
<1>2. /\ StubRow(p, n) \notin DOMAIN rows
      /\ n > 0 => fs[n].dir
      /\ \A m \in 1..Len(fs) : fs[m].up = n => NodeRow(p, m) \in C
  BY FilledFolder
<1>3. s \in {"checked", "unchecked", "partly"} /\ (s = "checked" => S = {"checked"})
      /\ (s = "unchecked" => S = {"unchecked"})
  BY SummaryFacts
<1>4. ASSUME NEW m \in FilesBelow(fs, n)
      PROVE  /\ s = "checked" => <<p, m>> \in w
             /\ s = "unchecked" => <<p, m>> \notin w
  <2>1. m \in DOMAIN fs /\ ~fs[m].dir /\ n \in PathOf(fs)[m]
    BY FilesBelowIs
  <2>2. m \in 1..Len(fs) /\ m \in 0..Len(fs)
    BY <1>1, <2>1
  <2>3. n # m
    BY <1>2, <2>1, <2>2
  <2>4. PICK e \in PathOf(fs)[m] : e \in 1..Len(fs) /\ fs[e].up = n
    BY <1>1, <2>1, <2>2, <2>3, PathThrough
  <2> DEFINE j == NodeRow(p, e)
  <2>5. j \in C /\ j[1] = p /\ j[2] = e
    BY <1>2, <2>4 DEF NodeRow
  <2>6. m \in FilesBelow(fs, e)
    BY <2>1, <2>4, FilesBelowIs
  <2> HIDE DEF j, C
  <2>7. U[j] \in CheckStates /\ BoxOK(j, U[j], w) /\ Tick(U[j]) \in S
    BY <2>5 DEF C
  <2>8. StandsFor(U[j], w, p, e)
    BY <2>5, <2>7 DEF BoxOK
  <2> HIDE DEF S, s
  <2>9. CASE s = "checked"
    <3>1. U[j] = "checked"
      BY <1>3, <2>7, <2>9, TickFacts
    <3> QED BY <2>6, <2>8, <2>9, <3>1 DEF StandsFor
  <2>10. CASE s = "unchecked"
    <3>1. Tick(U[j]) = "unchecked"
      BY <1>3, <2>7, <2>10
    <3>2. U[j] \in {"none", "unchecked"}
      BY <2>7, <3>1, TickFacts DEF CheckStates
    <3> QED BY <2>6, <2>8, <2>10, <3>2 DEF StandsFor
  <2>11. CASE s = "partly"
    BY <2>11
  <2> QED BY <1>3, <2>9, <2>10, <2>11
<1> HIDE DEF s, S, C
<1>5. StandsFor(s, w, p, n)
  <2>1. s # "none"
    BY <1>3
  <2> QED BY <1>4, <2>1 DEF StandsFor
<1>6. BoxOK(NodeRow(p, n), s, w)
  BY <1>2, <1>3, <1>5 DEF BoxOK, NodeRow
<1> QED BY <1>6 DEF s, S, C

(* onItemChanged: after a click the boxes of all rows are in step with the *)
(* files ticked.                                                           *)
LEMMA Cascade ==
  ASSUME TreeOK, TickInv, NEW k \in DOMAIN rows, NEW chk, NEW w, Clicked(chk[k], k, w),
         DOMAIN chk = DOMAIN rows, \A j \in DOMAIN rows : j # k => chk[j] = check[j]
  PROVE  LET U == ItemChanged(chk, rows, k) IN
         /\ DOMAIN U = DOMAIN rows
         /\ \A j \in DOMAIN rows : U[j] \in CheckStates
         /\ \A j \in DOMAIN rows : j[3] = "node" => BoxOK(j, U[j], w)
         /\ \A j \in DOMAIN rows : j[3] = "stub" /\ j[2] = 0 =>
              U[j] = "none" \/ (k = VolumeRow(j[1]) /\ chk[k] = "none")
         /\ k[3] = "node" => U[k] = chk[k]
<1> DEFINE p == k[1]
           K == k[2]
           fs == mounts[p]
           c == chk[k]
           D == ApplyDown(chk, rows, k)
           U == ApplyUp(D, rows, k)
           P == Parents(rows, k)
<1>1. /\ DOMAIN check = DOMAIN rows /\ \A j \in DOMAIN rows : check[j] \in CheckStates
      /\ \A j \in DOMAIN rows : j[3] = "node" => BoxOK(j, check[j], wanted)
      /\ \A j \in DOMAIN rows : j[3] = "stub" /\ j[2] = 0 => check[j] = "none"
  BY DEF TickInv, ChecksOK
<1>2. DOMAIN chk = DOMAIN rows /\ chk[k] = c /\ \A j \in DOMAIN rows : j # k => chk[j] = check[j]
  OBVIOUS
<1>3. c \in {"none", "checked", "unchecked"} /\ Readable(p) /\ c \in CheckStates
  BY DEF Clicked, c, CheckStates
<1>4. ItemChanged(chk, rows, k) = U
  BY <1>2, <1>3 DEF ItemChanged
<1> HIDE DEF c
<1>5. DOMAIN D = DOMAIN rows
      /\ \A j \in DOMAIN rows : D[j] = IF j[1] = p /\ k[3] = "node" /\ K \in Parents(rows, j) THEN Tick(c) ELSE chk[j]
  BY <1>2 DEF ApplyDown
<1> HIDE DEF D
<1>6. /\ DOMAIN U = DOMAIN rows
      /\ \A j \in DOMAIN rows : ~Passed(rows, k, j) => U[j] = D[j]
      /\ \A n \in P : U[NodeRow(p, n)] = Summary({Tick(U[j]) : j \in Children(rows, NodeRow(p, n))})
  BY <1>5, UpLaw
<1> HIDE DEF U
<1>7. IsTree(fs) /\ K \in Nat /\ DOMAIN fs = 1..Len(fs) /\ Len(fs) \in Nat /\ k = <<p, K, k[3]>>
      /\ k[3] \in {"node", "stub"} /\ K \in 0..Len(fs)
  <2>1. IsTree(fs) /\ (K > 0 => K \in 1..Len(fs))
    BY <1>3, RowTree
  <2>2. K \in Nat /\ k = <<p, K, k[3]>> /\ k[3] \in {"node", "stub"}
    BY KeysOfTree DEF RowKeys
  <2>3. DOMAIN fs = 1..Len(fs) /\ Len(fs) \in Nat
    BY <2>1, TreeUp
  <2>4. K \in 0..Len(fs)
    BY <2>1, <2>2, <2>3
  <2> QED BY <2>1, <2>2, <2>3, <2>4
<1>8. /\ k[3] = "node" => P = PathOf(fs)[K] \ {K}
      /\ k[3] = "stub" => P = PathOf(fs)[K]
  BY <1>3, ParentsAre DEF Way
<1>9. \A j \in DOMAIN rows : U[j] \in CheckStates
  <2> SUFFICES ASSUME NEW j \in DOMAIN rows PROVE U[j] \in CheckStates
    OBVIOUS
  <2>1. CASE Passed(rows, k, j)
    <3>1. j[2] \in P /\ j = NodeRow(p, j[2])
      BY <2>1, KeysOfTree DEF Passed, RowKeys, NodeRow
    <3>2. U[j] \in {"checked", "unchecked", "partly"}
      BY <1>6, <3>1, SummaryFacts
    <3> QED BY <3>2 DEF CheckStates
  <2>2. CASE ~Passed(rows, k, j)
    <3>1. U[j] = D[j]
      BY <1>6, <2>2
    <3>2. D[j] = Tick(c) \/ D[j] = chk[j]
      BY <1>5
    <3>3. Tick(c) \in CheckStates
      BY TickFacts DEF CheckStates
    <3>4. chk[j] \in CheckStates
      BY <1>1, <1>2, <1>3
    <3> QED BY <3>1, <3>2, <3>3, <3>4
  <2> QED BY <2>1, <2>2
<1>10. \A q, m : (q # p \/ m \notin FilesBelow(fs, K)) => (<<q, m>> \in w <=> <<q, m>> \in wanted)
  BY DEF Clicked, c
<1>11. k[3] = "stub" => /\ FilesBelow(fs, K) = {} /\ Children(rows, NodeRow(p, K)) = {k} /\ K > 0
                        /\ rows[NodeRow(p, K)].loaded
  BY EmptyFolder DEF Clicked, c
<1>12. k[3] = "node" => D[k] = c /\ ~Passed(rows, k, k)
  BY <1>2, <1>5, <1>8 DEF Passed
<1>13. ASSUME NEW j \in DOMAIN rows, j[3] = "node", ~Passed(rows, k, j)
       PROVE  BoxOK(j, U[j], w)
  <2>0. U[j] = D[j] /\ j = NodeRow(j[1], j[2]) /\ j[2] \in Nat
    BY <1>6, <1>13, KeysOfTree DEF RowKeys, NodeRow
  <2>1. CASE j = k
    <3>1. BoxOK(k, c, w)
      BY <1>13, <2>1 DEF Clicked, c
    <3> QED BY <1>12, <1>13, <2>0, <2>1, <3>1
  <2>2. CASE j[1] # p
    <3>1. D[j] = check[j]
      BY <1>2, <1>5, <2>2
    <3>2. BoxOK(j, check[j], w)
      BY <1>1, <1>10, <1>13, <2>2, BoxSame
    <3> QED BY <2>0, <3>1, <3>2
  <2>3. CASE j[1] = p /\ j # k
    <3> DEFINE n == j[2]
    <3>1. n \in 0..Len(fs) /\ n \notin P /\ Parents(rows, j) = PathOf(fs)[n] \ {n}
      <4>1. n > 0 => n \in 1..Len(fs)
        BY <2>3, RowTree
      <4>2. n \in 0..Len(fs)
        BY <1>7, <2>0, <4>1
      <4>3. n \notin P
        BY <1>13, <2>3 DEF Passed
      <4>4. Parents(rows, j) = Way(p, n) \ {n}
        BY <1>13, <2>3, ParentsAre
      <4> QED BY <1>3, <4>2, <4>3, <4>4 DEF Way
    <3>2. n # K
      <4>1. CASE k[3] = "node"
        BY <1>7, <2>0, <2>3, <4>1 DEF NodeRow
      <4>2. CASE k[3] = "stub"
        <5>1. K \in P
          BY <1>7, <1>8, <4>2, PathWithin
        <5> QED BY <3>1, <5>1
      <4> QED BY <1>7, <4>1, <4>2
    <3>3. n \notin PathOf(fs)[K]
      BY <1>7, <1>8, <3>1, <3>2
    <3>4. CASE k[3] = "node" /\ K \in PathOf(fs)[n]
      <4>1. D[j] = Tick(c)
        BY <1>5, <2>3, <3>1, <3>2, <3>4
      <4>2. StandsFor(c, w, p, K)
        BY <1>3, <3>4 DEF Clicked, c, BoxOK
      <4>3. ASSUME NEW m \in FilesBelow(fs, n) PROVE m \in FilesBelow(fs, K)
        <5>1. m \in DOMAIN fs /\ ~fs[m].dir /\ n \in PathOf(fs)[m]
          BY FilesBelowIs
        <5>2. K \in PathOf(fs)[m]
          <6>1. m \in 0..Len(fs)
            BY <1>7, <5>1
          <6> QED BY <1>7, <3>4, <5>1, <6>1, PathTrans
        <5> QED BY <5>1, <5>2, FilesBelowIs
      <4>4. StandsFor(Tick(c), w, p, n)
        <5>1. CASE c = "checked"
          BY <4>2, <4>3, <5>1 DEF StandsFor, Tick
        <5>2. CASE c \in {"none", "unchecked"}
          BY <4>2, <4>3, <5>2 DEF StandsFor, Tick
        <5> QED BY <1>3, <5>1, <5>2
      <4>5. n # 0
        <5>1. CASE n = 0
          <6>1. PathOf(fs)[n] \subseteq 0..0
            BY <1>7, <3>1, <5>1, PathWithin
          <6>2. K \in 0..0
            BY <3>4, <6>1
          <6> QED BY <3>2, <5>1, <6>2
        <5> QED BY <5>1
      <4>6. Tick(c) \in {"checked", "unchecked"}
        BY <1>3 DEF Tick
      <4> QED BY <2>0, <2>3, <4>1, <4>4, <4>5, <4>6 DEF BoxOK
    <3>5. CASE k[3] = "stub" \/ K \notin PathOf(fs)[n]
      <4>1. D[j] = check[j]
        BY <1>2, <1>5, <1>7, <2>3, <3>1, <3>5
      <4>2. ASSUME NEW m \in FilesBelow(fs, n) PROVE m \notin FilesBelow(fs, K)
        <5>1. CASE k[3] = "stub"
          BY <1>11, <5>1
        <5>2. CASE K \notin PathOf(fs)[n]
          <6>1. SUFFICES ASSUME m \in FilesBelow(fs, K) PROVE FALSE
            OBVIOUS
          <6>2. m \in DOMAIN fs /\ n \in PathOf(fs)[m] /\ K \in PathOf(fs)[m]
            BY <4>2, <6>1, FilesBelowIs
          <6>3. m \in 0..Len(fs)
            BY <1>7, <6>2
          <6> QED BY <1>7, <3>3, <5>2, <6>2, <6>3, PathLinear
        <5> QED BY <3>5, <5>1, <5>2
      <4>3. BoxOK(j, check[j], w)
        BY <1>1, <1>10, <1>13, <2>3, <4>2, BoxSame
      <4> QED BY <2>0, <4>1, <4>3
    <3> QED BY <1>7, <3>4, <3>5
  <2> QED BY <2>1, <2>2, <2>3
<1> DEFINE T == {i \in Nat : i <= K /\ (K - i) \in P /\ ~BoxOK(NodeRow(p, K - i), U[NodeRow(p, K - i)], w)}
<1>14. T = {}
  <2>1. SUFFICES ASSUME T # {} PROVE FALSE
    OBVIOUS
  <2>2. PICK i \in T : \A e \in T : i <= e
    <3>1. T \subseteq Nat
      OBVIOUS
    <3> HIDE DEF T
    <3> QED BY <2>1, <3>1, LeastOf
  <2> DEFINE n == K - i
             nr == NodeRow(p, n)
  <2>3. i \in Nat /\ i <= K /\ n \in P /\ ~BoxOK(nr, U[nr], w)
    BY <2>2
  <2>4. n \in Nat
    BY <1>7, <2>3
  <2>5. U[nr] = Summary({Tick(U[j]) : j \in Children(rows, nr)})
    BY <1>6, <2>3
  <2>6. n \in Way(p, K) /\ nr \in DOMAIN rows /\ (n # K => rows[nr].loaded)
    <3>1. n \in Way(p, K)
      BY <1>3, <1>7, <1>8, <2>3 DEF Way
    <3> HIDE DEF n
    <3> QED BY <3>1, WayRows
  <2>7. CASE n = K
    <3>1. k[3] = "stub"
      BY <1>7, <1>8, <2>3, <2>7
    <3>2. Children(rows, nr) = {k} /\ FilesBelow(fs, n) = {} /\ K > 0
      BY <1>11, <2>7, <3>1
    <3>3. U[k] = c
      <4>1. ~Passed(rows, k, k)
        BY <3>1 DEF Passed
      <4> QED BY <1>2, <1>5, <1>6, <3>1, <4>1
    <3> HIDE DEF nr, n
    <3>4. {Tick(U[j]) : j \in Children(rows, nr)} = {Tick(c)}
      BY <3>2, <3>3
    <3>5. U[nr] \in {"checked", "unchecked"}
      BY <1>3, <2>5, <3>4 DEF Summary, Tick
    <3>6. BoxOK(nr, U[nr], w)
      BY <2>7, <3>2, <3>5 DEF BoxOK, StandsFor, nr, NodeRow
    <3> QED BY <2>3, <3>6
  <2>8. CASE n # K
    <3>1. n \in PathOf(fs)[K]
      BY <1>3, <2>6 DEF Way
    <3> HIDE DEF n
    <3>2. PICK a \in PathOf(fs)[K] : a \in 1..Len(fs) /\ fs[a].up = n
      BY <1>7, <2>8, <3>1, PathThrough
    <3>3. ASSUME NEW j \in Children(rows, NodeRow(p, n))
          PROVE  U[j] \in CheckStates /\ BoxOK(j, U[j], w)
      <4>1. j[3] = "node"
        BY <1>3, <2>4, <2>6, <2>8, <3>2, FilledFolder
      <4>2. j \in DOMAIN rows /\ j[1] = p /\ j = NodeRow(p, j[2]) /\ j[2] \in Nat /\ j[2] > n
        BY <2>4, <4>1, ChildrenAfter
      <4>3. U[j] \in CheckStates
        BY <1>9, <4>2
      <4>4. CASE Passed(rows, k, j)
        <5> DEFINE e == j[2]
        <5>1. e \in P /\ e \in Nat /\ e > n
          BY <4>2, <4>4 DEF Passed
        <5>2. e <= K
          <6>1. e \in Way(p, K)
            BY <1>3, <1>7, <1>8, <5>1 DEF Way
          <6>2. e \in 0..K
            BY <6>1, WayRows
          <6> QED BY <1>7, <6>2
        <5> HIDE DEF e
        <5>3. (K - e) \in Nat /\ (K - e) <= K /\ K - (K - e) = e /\ ~(i <= K - e)
          BY <1>7, <2>3, <5>1, <5>2 DEF n
        <5>4. (K - e) \notin T
          <6> HIDE DEF T
          <6> QED BY <2>2, <5>3
        <5>5. BoxOK(NodeRow(p, e), U[NodeRow(p, e)], w)
          BY <5>1, <5>3, <5>4
        <5> QED BY <4>2, <4>3, <5>5 DEF e
      <4>5. CASE ~Passed(rows, k, j)
        BY <1>13, <4>1, <4>2, <4>3, <4>5
      <4> QED BY <4>4, <4>5
    <3>4. BoxOK(nr, Summary({Tick(U[j]) : j \in Children(rows, nr)}), w)
      BY <1>3, <2>4, <2>6, <2>8, <3>2, <3>3, FolderBox
    <3> HIDE DEF nr
    <3> QED BY <2>3, <2>5, <3>4
  <2> QED BY <2>7, <2>8
<1>15. ASSUME NEW j \in DOMAIN rows, j[3] = "node", Passed(rows, k, j)
       PROVE  BoxOK(j, U[j], w)
  <2> DEFINE e == j[2]
  <2>1. e \in P /\ j = NodeRow(p, e) /\ e \in Nat
    BY <1>15, KeysOfTree DEF Passed, RowKeys, NodeRow
  <2>2. e <= K
    <3>1. e \in Way(p, K)
      BY <1>3, <1>7, <1>8, <2>1 DEF Way
    <3>2. e \in 0..K
      BY <3>1, WayRows
    <3> QED BY <1>7, <3>2
  <2> HIDE DEF e
  <2>3. (K - e) \in Nat /\ (K - e) <= K /\ K - (K - e) = e
    BY <1>7, <2>1, <2>2
  <2>4. (K - e) \notin T
    <3> HIDE DEF T
    <3> QED BY <1>14
  <2>5. BoxOK(NodeRow(p, e), U[NodeRow(p, e)], w)
    BY <2>1, <2>3, <2>4
  <2> QED BY <2>1, <2>5
<1>16. ASSUME NEW j \in DOMAIN rows, j[3] = "stub", j[2] = 0
       PROVE  U[j] = "none" \/ (k = VolumeRow(j[1]) /\ c = "none")
  <2>1. U[j] = D[j]
    <3>1. ~Passed(rows, k, j)
      BY <1>16 DEF Passed
    <3> QED BY <1>6, <3>1
  <2>2. j # k
    BY <1>11, <1>16
  <2>3. chk[j] = "none"
    BY <1>1, <1>2, <1>16, <2>2
  <2>4. CASE j[1] = p /\ k[3] = "node" /\ K \in Parents(rows, j)
    <3>1. K \in Way(p, 0)
      BY <1>16, <2>4, ParentsAre
    <3>2. K \in 0..0
      BY <1>16, <2>4, <3>1, WayRows
    <3>3. K = 0
      BY <3>2
    <3>4. k = VolumeRow(p)
      BY <1>7, <2>4, <3>3 DEF VolumeRow
    <3>5. c = "none"
      <4>1. SUFFICES ASSUME c # "none" PROVE FALSE
        OBVIOUS
      <4>2. StubRow(p, 0) \notin DOMAIN rows
        BY <2>4, <3>3, <4>1 DEF Clicked, c, BoxOK
      <4>3. j = StubRow(p, 0)
        BY <1>16, <2>4, KeysOfTree DEF RowKeys, StubRow
      <4> QED BY <1>16, <4>2, <4>3
    <3> QED BY <2>4, <3>4, <3>5
  <2>5. CASE ~(j[1] = p /\ k[3] = "node" /\ K \in Parents(rows, j))
    BY <1>5, <1>16, <2>1, <2>3, <2>5
  <2> QED BY <2>4, <2>5
<1>17. k[3] = "node" => U[k] = c
  BY <1>6, <1>12
<1> HIDE DEF T
<1> QED BY <1>4, <1>6, <1>9, <1>13, <1>15, <1>16, <1>17 DEF c

(* A filled row has the rows of its entries below it.                      *)
LEMMA EntryRow ==
  ASSUME TreeOK, TickInv, NEW p, Readable(p), NEW a \in 1..Len(mounts[p]),
         NodeRow(p, mounts[p][a].up) \in DOMAIN rows, rows[NodeRow(p, mounts[p][a].up)].loaded
  PROVE  NodeRow(p, a) \in DOMAIN rows
<1> DEFINE n == mounts[p][a].up
           k == NodeRow(p, n)
<1>1. IsTree(mounts[p])
  <2>1. k[1] = p
    BY DEF NodeRow
  <2> QED BY <2>1, RowTree
<1>2. n \in Nat
  BY <1>1, TreeUp
<1>3. NodeRow(p, a) \in Children(rows, k)
  BY <1>2, FilledFolder
<1> QED BY <1>3 DEF Children

LEMMA TickedCovers ==
  ASSUME TreeOK, TickInv
  PROVE  TickedIsExported
<1>1. ASSUME NEW k \in Roots PROVE k[3] = "node" /\ k[2] > 0 /\ k[2] \in Nat
  <2>1. k \in DOMAIN rows /\ (k[2] # 0 \/ k[3] = "stub") /\ check[k] = "checked"
        /\ \A n \in Parents(rows, k) \ {0} : check[<<k[1], n, "node">>] = "partly"
    BY DEF Roots
  <2>2. k[2] \in Nat /\ k[3] \in {"node", "stub"} /\ k = <<k[1], k[2], k[3]>>
    BY <2>1, KeysOfTree DEF RowKeys
  <2>3. ASSUME k[3] = "stub" PROVE FALSE
    <3>1. k[2] # 0
      BY <2>1, <2>3 DEF TickInv, ChecksOK
    <3> DEFINE j == NodeRow(k[1], k[2])
    <3>2. k[2] \in Parents(rows, k)
      BY <2>3 DEF Parents
    <3>3. check[j] = "partly"
      BY <2>1, <3>1, <3>2 DEF NodeRow
    <3>4. j \in DOMAIN rows /\ j[1] = k[1] /\ j[2] = k[2] /\ j[3] = "node"
      BY <2>1, RowTree DEF NodeRow
    <3> HIDE DEF j
    <3>5. BoxOK(j, "partly", wanted)
      BY <3>3, <3>4 DEF TickInv, ChecksOK
    <3>6. StubRow(k[1], k[2]) \notin DOMAIN rows
      BY <3>4, <3>5 DEF BoxOK
    <3> QED BY <2>1, <2>2, <2>3, <3>6 DEF StubRow
  <2> QED BY <2>1, <2>2, <2>3
<1>2. ASSUME NEW k \in Roots, NEW m \in FilesBelow(mounts[k[1]], k[2])
      PROVE  <<k[1], m>> \in wanted
  <2>1. k \in DOMAIN rows /\ check[k] = "checked" /\ k[3] = "node" /\ k[2] > 0
    BY <1>1 DEF Roots
  <2>2. Readable(k[1]) /\ BoxOK(k, "checked", wanted)
    BY <2>1, RowTree DEF TickInv, ChecksOK
  <2> QED BY <2>2 DEF BoxOK, StandsFor
<1>3. ASSUME NEW w \in wanted PROVE w \in Covered
  <2>1. PICK p \in DOMAIN mounts : \E m \in Nat :
          w = <<p, m>> /\ mounts[p] # NoFs /\ m \in DOMAIN mounts[p] /\ ~mounts[p][m].dir
    BY DEF TickInv, WantedOK
  <2>2. PICK m \in Nat : w = <<p, m>> /\ mounts[p] # NoFs /\ m \in DOMAIN mounts[p] /\ ~mounts[p][m].dir
    BY <2>1
  <2> DEFINE fs == mounts[p]
             C == PathOf(fs)
             v == VolumeRow(p)
             Partly(a) == NodeRow(p, a) \in DOMAIN rows /\ check[NodeRow(p, a)] = "partly"
             T == {a \in Nat : a \in C[m] /\ a # 0 /\ ~Partly(a)}
  <2>3. Readable(p)
    BY <2>2 DEF Readable
  <2>4. v \in DOMAIN rows /\ v[1] = p /\ v[2] = 0 /\ v[3] = "node" /\ v = NodeRow(p, 0)
    BY DEF TreeOK, MountsOK, ShapeOK, VolumeRow, NodeRow
  <2>5. IsTree(fs) /\ Len(fs) \in Nat /\ m \in 1..Len(fs) /\ m \in 0..Len(fs)
    <3>1. IsTree(fs)
      BY <2>3, <2>4, RowTree
    <3> QED BY <2>2, <3>1, TreeUp
  <2>6. ASSUME NEW a \in C[m] PROVE m \in FilesBelow(fs, a)
    BY <2>2, <2>6, FilesBelowIs
  <2>7. m \in C[m] /\ 0 \in C[m] /\ C[m] \subseteq 0..m
    BY <2>5, PathWithin
  <2>8. ASSUME NEW a \in C[m], NodeRow(p, a) \in DOMAIN rows
        PROVE  check[NodeRow(p, a)] \in {"checked", "partly"} /\ BoxOK(NodeRow(p, a), check[NodeRow(p, a)], wanted)
    <3> DEFINE j == NodeRow(p, a)
    <3>1. j \in DOMAIN rows /\ j[1] = p /\ j[2] = a /\ j[3] = "node"
      BY <2>8 DEF NodeRow
    <3>2. m \in FilesBelow(fs, a) /\ <<p, m>> \in wanted
      BY <2>2, <2>6
    <3> HIDE DEF j, fs
    <3>3. check[j] \in CheckStates /\ BoxOK(j, check[j], wanted)
      BY <3>1 DEF TickInv, ChecksOK
    <3>4. StandsFor(check[j], wanted, p, a)
      BY <2>3, <3>1, <3>3 DEF BoxOK
    <3>5. check[j] \notin {"none", "unchecked"}
      BY <3>2, <3>4 DEF StandsFor, fs
    <3> QED BY <3>3, <3>5 DEF CheckStates, j
  <2>9. rows[v].loaded
    <3>1. check[v] # "none" /\ BoxOK(v, check[v], wanted)
      BY <2>4, <2>7, <2>8
    <3> HIDE DEF v
    <3> QED BY <2>4, <3>1 DEF BoxOK
  <2>10. m \in T
    <3>1. m # 0
      BY <2>5
    <3>2. ASSUME Partly(m) PROVE FALSE
      <4>1. BoxOK(NodeRow(p, m), "partly", wanted)
        BY <2>7, <2>8, <3>2
      <4>2. m > 0
        BY <2>5
      <4> QED BY <2>2, <4>1, <4>2 DEF BoxOK, NodeRow
    <3> QED BY <2>7, <3>1, <3>2
  <2>11. PICK a \in T : \A e \in T : a <= e
    <3>1. T \subseteq Nat
      OBVIOUS
    <3> HIDE DEF T
    <3> QED BY <2>10, <3>1, LeastOf
  <2>12. a \in Nat /\ a \in C[m] /\ a # 0 /\ ~Partly(a)
    BY <2>11
  <2>13. a \in 1..Len(fs) /\ a \in 0..Len(fs)
    <3>1. a \in 0..m
      BY <2>7, <2>12
    <3> QED BY <2>5, <2>12, <3>1
  <2>14. ASSUME NEW b \in C[m], b # 0, b < a PROVE Partly(b)
    <3>1. b \in Nat
      BY <2>7
    <3>2. b \notin T
      <4> HIDE DEF T
      <4> QED BY <2>11, <2>12, <2>14, <3>1
    <3> QED BY <2>14, <3>1, <3>2
  <2> HIDE DEF T
  <2> DEFINE u == fs[a].up
             r == NodeRow(p, a)
  <2>15. u \in Nat /\ u < a /\ u \in 0..Len(fs) /\ u \in C[m]
    <3>1. u \in Nat /\ u < a /\ u \in 0..Len(fs)
      BY <2>5, <2>13, TreeUp
    <3>2. u \in C[a]
      <4>1. C[a] = {a} \cup C[u] /\ u \in C[u]
        BY <2>5, <2>12, <2>13, <3>1, PathSteps, PathWithin
      <4> QED BY <4>1
    <3>3. u \in C[m]
      <4> HIDE DEF u, fs
      <4> QED BY <2>5, <2>12, <3>2, PathTrans
    <3> QED BY <3>1, <3>3
  <2>16. NodeRow(p, u) \in DOMAIN rows /\ rows[NodeRow(p, u)].loaded
    <3>1. CASE u = 0
      BY <2>4, <2>9, <3>1
    <3>2. CASE u # 0
      <4> HIDE DEF u
      <4>1. Partly(u)
        BY <2>14, <2>15, <3>2
      <4>2. BoxOK(NodeRow(p, u), "partly", wanted)
        BY <2>8, <2>15, <4>1
      <4> QED BY <4>1, <4>2 DEF BoxOK
    <3> QED BY <3>1, <3>2
  <2>17. r \in DOMAIN rows
    BY <2>3, <2>13, <2>16, EntryRow
  <2>18. check[r] = "checked"
    BY <2>8, <2>12, <2>17
  <2>19. r[1] = p /\ r[2] = a /\ r[3] = "node"
    BY DEF NodeRow
  <2> HIDE DEF r
  <2>20. ASSUME NEW b \in Parents(rows, r) \ {0} PROVE check[<<r[1], b, "node">>] = "partly"
    <3>1. b \in C[a] /\ b # a
      BY <2>3, <2>17, <2>19, ParentsAre DEF Way
    <3>2. b \in C[m]
      <4> HIDE DEF fs
      <4> QED BY <2>5, <2>12, <3>1, PathTrans
    <3>3. b < a
      <4>1. b \in 0..a
        BY <2>5, <2>13, <3>1, PathWithin
      <4> QED BY <2>12, <3>1, <4>1
    <3>4. Partly(b)
      BY <2>14, <2>20, <3>2, <3>3
    <3> QED BY <2>19, <3>4 DEF NodeRow
  <2>21. r \in Roots
    BY <2>12, <2>17, <2>18, <2>19, <2>20 DEF Roots
  <2>22. m \in FilesBelow(mounts[r[1]], r[2])
    BY <2>6, <2>12, <2>19
  <2> QED BY <2>2, <2>19, <2>21, <2>22 DEF Covered
<1>4. Covered = wanted
  <2>1. Covered \subseteq wanted
    BY <1>2 DEF Covered
  <2> QED BY <1>3, <2>1
<1>5. ASSUME NEW k \in Roots, NEW j \in Roots, j[1] = k[1] PROVE k[2] \notin Parents(rows, j)
  <2>1. SUFFICES ASSUME k[2] \in Parents(rows, j) PROVE FALSE
    OBVIOUS
  <2>2. k[2] # 0 /\ k \in DOMAIN rows /\ k[3] = "node" /\ check[k] = "checked"
    BY <1>1 DEF Roots
  <2>3. k = <<k[1], k[2], "node">>
    BY <2>2, KeysOfTree DEF RowKeys
  <2>4. check[<<j[1], k[2], "node">>] = "partly"
    BY <2>1, <2>2 DEF Roots
  <2> QED BY <1>5, <2>2, <2>3, <2>4
<1> QED BY <1>1, <1>4, <1>5 DEF TickedIsExported

(* The window that has neither changed its tree nor the files ticked.      *)
LEMMA TickKept ==
  ASSUME TickInv, UNCHANGED <<volumes, mounts, rows, check, wanted>>
  PROVE  TickInv'
BY DEF TickInv, TreesOK, LinksOK, LinkOK, StubOK, WantedOK, ChecksOK, BoxOK, StandsFor, Readable, NodeRow, StubRow

LEMMA TickInit == Init => TickInv
<1> SUFFICES ASSUME Init PROVE TickInv
  OBVIOUS
<1>1. volumes = <<>> /\ rows = <<>> /\ check = <<>> /\ wanted = {}
  BY DEF Init
<1>2. DOMAIN volumes = {} /\ DOMAIN rows = {} /\ DOMAIN check = {}
  BY <1>1
<1> QED BY <1>1, <1>2 DEF TickInv, TreesOK, LinksOK, WantedOK, ChecksOK

(* A click: the box of the row and the files ticked change together.       *)
LEMMA ToggleTick ==
  ASSUME TreeOK, TickInv, NEW k \in DOMAIN rows, Toggle(k)
  PROVE  TickInv'
<1> DEFINE p == k[1]
           n == k[2]
           below == FilesBelow(mounts[p], n)
           files == {<<p, m>> : m \in below}
           on == check[k] # "checked"
           c == IF on THEN "checked" ELSE "unchecked"
           chk == [check EXCEPT ![k] = c]
<1>1. /\ check[k] # "none" /\ rows[k].stub # "..."
      /\ check' = ItemChanged(chk, rows, k)
      /\ wanted' = IF on THEN wanted \cup files ELSE wanted \ files
      /\ UNCHANGED <<volumes, mounts, rows>>
  BY DEF Toggle
<1>2. DOMAIN check = DOMAIN rows /\ (k[3] = "node" => BoxOK(k, check[k], wanted))
      /\ (k[3] = "stub" /\ n = 0 => check[k] = "none")
  BY DEF TickInv, ChecksOK
<1>3. k[3] \in {"node", "stub"} /\ n \in Nat
  BY KeysOfTree DEF RowKeys
<1>4. Readable(p)
  <2>1. CASE n > 0
    BY <2>1, RowTree
  <2>2. CASE n = 0
    BY <1>1, <1>2, <1>3, <2>2 DEF BoxOK
  <2> QED BY <1>3, <2>1, <2>2
<1>5. DOMAIN chk = DOMAIN rows /\ chk[k] = c /\ \A j \in DOMAIN rows : j # k => chk[j] = check[j]
  BY <1>2
<1>6. ASSUME NEW q, NEW m
      PROVE  /\ (q = p /\ m \in below) \/ (<<q, m>> \in wanted' <=> <<q, m>> \in wanted)
             /\ q = p /\ m \in below => (<<q, m>> \in wanted' <=> on)
  <2>1. <<q, m>> \in files <=> q = p /\ m \in below
    <3> HIDE DEF below
    <3> QED OBVIOUS
  <2> HIDE DEF files, below, on
  <2> QED BY <1>1, <2>1
<1> HIDE DEF chk
<1>7. Clicked(chk[k], k, wanted')
  <2>1. c \in {"checked", "unchecked"}
    OBVIOUS
  <2>2. \A m \in below : <<p, m>> \in wanted' <=> c = "checked"
    BY <1>6
  <2> HIDE DEF c, on, files
  <2>3. ASSUME k[3] = "node" PROVE BoxOK(k, c, wanted')
    <3>1. BoxOK(k, check[k], wanted)
      BY <1>2, <2>3
    <3>2. n = 0 => Readable(p) /\ rows[k].loaded /\ StubRow(p, 0) \notin DOMAIN rows
      BY <1>1, <3>1 DEF BoxOK
    <3>3. StandsFor(c, wanted', p, n)
      BY <2>1, <2>2 DEF StandsFor
    <3> HIDE DEF p, n
    <3> QED BY <2>1, <3>2, <3>3 DEF BoxOK, p, n
  <2>4. ASSUME k[3] = "stub" PROVE n > 0 /\ rows[NodeRow(p, n)].loaded
    <3>1. n # 0
      BY <1>1, <1>2, <2>4
    <3>2. StubOK(k)
      BY <2>4 DEF TickInv, LinksOK
    <3> QED BY <1>1, <1>3, <3>1, <3>2 DEF StubOK
  <2>5. \A q, m : (q = p /\ m \in FilesBelow(mounts[q], n)) \/ (<<q, m>> \in wanted' <=> <<q, m>> \in wanted)
    BY <1>6
  <2>6. Clicked(c, k, wanted')
    <3> HIDE DEF p, n, below
    <3> QED BY <1>4, <2>1, <2>3, <2>4, <2>5 DEF Clicked, p, n
  <2> QED BY <1>5, <2>6
<1>8. /\ DOMAIN check' = DOMAIN rows
      /\ \A j \in DOMAIN rows : check'[j] \in CheckStates
      /\ \A j \in DOMAIN rows : j[3] = "node" => BoxOK(j, check'[j], wanted')
      /\ \A j \in DOMAIN rows : j[3] = "stub" /\ j[2] = 0 => check'[j] = "none"
  <2>1. chk[k] # "none"
    BY <1>5
  <2> DEFINE U == ItemChanged(chk, rows, k)
  <2>2. /\ DOMAIN U = DOMAIN rows
        /\ \A j \in DOMAIN rows : U[j] \in CheckStates
        /\ \A j \in DOMAIN rows : j[3] = "node" => BoxOK(j, U[j], wanted')
        /\ \A j \in DOMAIN rows : j[3] = "stub" /\ j[2] = 0 =>
             U[j] = "none" \/ (k = VolumeRow(j[1]) /\ chk[k] = "none")
    BY <1>5, <1>7, Cascade
  <2>3. check' = U
    BY <1>1
  <2> HIDE DEF U
  <2> QED BY <2>1, <2>2, <2>3
<1>9. ChecksOK'
  <2>1. ASSUME NEW j \in DOMAIN rows, j[3] = "node" PROVE BoxOK(j, check[j], wanted)'
    <3>1. BoxOK(j, check'[j], wanted')
      BY <1>8, <2>1
    <3> QED BY <1>1, <3>1 DEF BoxOK, StandsFor, Readable, StubRow
  <2> QED BY <1>1, <1>8, <2>1 DEF ChecksOK
<1>10. TreesOK' /\ LinksOK'
  BY <1>1 DEF TickInv, TreesOK, LinksOK, LinkOK, StubOK, Readable, NodeRow, StubRow
<1>11. WantedOK'
  <2> SUFFICES ASSUME NEW w \in wanted'
               PROVE  \E q \in DOMAIN mounts : \E m \in Nat :
                        w = <<q, m>> /\ mounts[q] # NoFs /\ m \in DOMAIN mounts[q] /\ ~mounts[q][m].dir
    BY <1>1 DEF WantedOK
  <2>1. CASE w \in wanted
    BY <2>1 DEF TickInv, WantedOK
  <2>2. CASE w \in files
    <3>1. PICK m \in below : w = <<p, m>>
      BY <2>2
    <3>2. m \in DOMAIN mounts[p] /\ ~mounts[p][m].dir
      BY <3>1, FilesBelowIs
    <3>3. m \in Nat
      <4>1. IsTree(mounts[p])
        BY <1>4, RowTree
      <4> QED BY <3>2, <4>1, TreeUp
    <3> QED BY <1>4, <3>1, <3>2, <3>3 DEF Readable
  <2> QED BY <1>1, <2>1, <2>2
<1> QED BY <1>9, <1>10, <1>11 DEF TickInv

(* Each row that filling node n of volume p from fs adds: an entry of fs,  *)
(* the dots below a folder among them, or the text of an empty one.        *)
NewRow(j, new, fs, p, n) ==
  \/ /\ fs # NoFs
     /\ \E m \in DOMAIN fs : fs[m].up = n /\ j = NodeRow(p, m) /\ new[j].up = n /\ ~new[j].loaded
  \/ /\ fs # NoFs
     /\ \E m \in DOMAIN fs :
          /\ fs[m].up = n /\ fs[m].dir /\ j = StubRow(p, m) /\ new[j].up = m /\ new[j].stub = "..."
          /\ NodeRow(p, m) \in DOMAIN new /\ ~new[NodeRow(p, m)].loaded
  \/ /\ fs = NoFs \/ \A m \in DOMAIN fs : fs[m].up # n
     /\ j = StubRow(p, n) /\ new[j].up = n /\ new[j].stub # "..."

LEMMA NothingListed == \A f : f = <<>> => DOMAIN f = {}
OBVIOUS

LEMMA NewRows ==
  ASSUME NEW fs, NEW p, NEW n,
         NEW new, new = (IF fs = NoFs THEN Only(StubRow(p, n), Stub("(no readable filesystem)", n))
                         ELSE Filled(fs, p, n))
  PROVE  \A j \in DOMAIN new : NewRow(j, new, fs, p, n)
<1>1. ASSUME NEW text, text # "...", new = Only(StubRow(p, n), Stub(text, n)),
             fs = NoFs \/ \A m \in DOMAIN fs : fs[m].up # n,
             NEW j \in DOMAIN new
      PROVE  NewRow(j, new, fs, p, n)
  <2>1. j = StubRow(p, n) /\ new[j] = Stub(text, n)
    BY <1>1 DEF Only
  <2>2. new[j].up = n /\ new[j].stub # "..."
    <3> DEFINE r == new[j]
    <3>1. r = Stub(text, n)
      BY <2>1
    <3> HIDE DEF r
    <3>2. r.up = n /\ r.stub = text
      BY <3>1 DEF Stub, Row
    <3> QED BY <1>1, <3>2 DEF r
  <2> QED BY <1>1, <2>1, <2>2 DEF NewRow
<1>2. CASE fs = NoFs
  BY <1>1, <1>2
<1>3. CASE fs # NoFs
  <2> DEFINE found   == ListDir(fs, n, FALSE)
             folders == {m \in DOMAIN found : fs[m].dir}
             nodes   == [k \in {<<p, m, "node">> : m \in DOMAIN found} |->
                           Row(n, "", FALSE, found[k[2]], IF fs[k[2]].dir THEN "dir" ELSE "file")]
             stubs   == [k \in {StubRow(p, m) : m \in folders} |-> Stub("...", k[2])]
  <2>1. DOMAIN found = {i \in DOMAIN fs : fs[i].up = n}
    BY DEF ListDir
  <2>2. new = IF found = <<>> THEN Only(StubRow(p, n), Stub("(empty)", n)) ELSE Joint(nodes, stubs)
    BY <1>3 DEF Filled
  <2> HIDE DEF found
  <2>3. CASE found = <<>>
    <3>1. DOMAIN found = {}
      BY <2>3, NothingListed
    <3>2. \A m \in DOMAIN fs : fs[m].up # n
      BY <2>1, <3>1
    <3> QED BY <1>1, <2>2, <2>3, <3>2
  <2>4. CASE found # <<>>
    <3>1. DOMAIN new = {<<p, m, "node">> : m \in DOMAIN found} \cup {<<p, m, "stub">> : m \in folders}
      BY <2>2, <2>4 DEF Joint, StubRow
    <3>2. \A m \in DOMAIN found :
            new[<<p, m, "node">>] = Row(n, "", FALSE, found[m], IF fs[m].dir THEN "dir" ELSE "file")
      BY <2>2, <2>4 DEF Joint, StubRow
    <3>3. \A m \in folders : new[<<p, m, "stub">>] = Stub("...", m)
      BY <2>2, <2>4 DEF Joint, StubRow
    <3>4. ASSUME NEW m \in DOMAIN found
          PROVE  new[NodeRow(p, m)].up = n /\ ~new[NodeRow(p, m)].loaded
      <4> DEFINE kind == IF fs[m].dir THEN "dir" ELSE "file"
                 r    == new[<<p, m, "node">>]
      <4>1. r = Row(n, "", FALSE, found[m], kind)
        BY <3>2
      <4> HIDE DEF kind, r
      <4>2. r.up = n /\ ~r.loaded
        BY <4>1 DEF Row
      <4> QED BY <4>2 DEF r, NodeRow
    <3>5. ASSUME NEW m \in folders
          PROVE  new[StubRow(p, m)].up = m /\ new[StubRow(p, m)].stub = "..."
      <4> DEFINE r == new[<<p, m, "stub">>]
      <4>1. r = Stub("...", m)
        BY <3>3
      <4> HIDE DEF r
      <4>2. r.up = m /\ r.stub = "..."
        BY <4>1 DEF Stub, Row
      <4> QED BY <4>2 DEF r, StubRow
    <3>6. ASSUME NEW m \in DOMAIN found PROVE NodeRow(p, m) \in DOMAIN new
      BY <3>1 DEF NodeRow
    <3> SUFFICES ASSUME NEW j \in DOMAIN new PROVE NewRow(j, new, fs, p, n)
      OBVIOUS
    <3>7. CASE \E m \in DOMAIN found : j = <<p, m, "node">>
      <4>1. PICK m \in DOMAIN found : j = NodeRow(p, m)
        BY <3>7 DEF NodeRow
      <4> QED BY <1>3, <2>1, <3>4, <4>1 DEF NewRow
    <3>8. CASE \E m \in folders : j = <<p, m, "stub">>
      <4>1. PICK m \in folders : j = StubRow(p, m)
        BY <3>8 DEF StubRow
      <4>2. m \in DOMAIN fs /\ fs[m].up = n /\ fs[m].dir /\ m \in DOMAIN found
        BY <2>1
      <4> QED BY <1>3, <3>4, <3>5, <3>6, <4>1, <4>2 DEF NewRow
    <3> QED BY <3>1, <3>7, <3>8
  <2> QED BY <2>3, <2>4
<1> QED BY <1>2, <1>3

-----------------------------------------------------------------------------
(* A row being filled.                                                     *)

(* Row k is filled with the rows `new` from fs, the boxes having been c.   *)
Fill(k, fs, new, c) ==
  LET p == k[1]
      n == k[2]
      kept == DOMAIN rows \ {StubRow(p, n)} IN
  /\ k \in DOMAIN rows /\ k[3] = "node" /\ ~rows[k].loaded
  /\ n > 0 /\ Readable(p) => mounts[p][n].dir
  /\ fs # NoFs => IsTree(fs)
  /\ \A j \in DOMAIN new : NewRow(j, new, fs, p, n)
  /\ DOMAIN mounts' = DOMAIN mounts \cup {p} /\ mounts'[p] = fs
  /\ \A q \in DOMAIN mounts : mounts'[q] = mounts[q]
  /\ DOMAIN rows' = kept \cup DOMAIN new
  /\ \A j \in kept : rows'[j].up = rows[j].up /\ (j # k => rows'[j] = rows[j])
  /\ rows'[k].loaded
  /\ \A j \in DOMAIN new : j \notin kept => rows'[j] = new[j]
  /\ DOMAIN c = DOMAIN rows /\ c[k] = check[k]
  /\ \A j \in DOMAIN rows : c[j] \in CheckStates
  /\ \A j \in DOMAIN rows : j[3] = "node" => BoxOK(j, c[j], wanted)
  /\ \A j \in DOMAIN rows : j[3] = "stub" /\ j[2] = 0 => c[j] = "none" \/ k = VolumeRow(j[1])
  /\ DOMAIN check' = DOMAIN rows'
  /\ \A j \in kept : check'[j] = c[j]
  /\ \A j \in DOMAIN new : j \notin kept => check'[j] = IF j[3] = "stub" THEN "none" ELSE Inherited(check[k])
  /\ wanted' = wanted

LEMMA FillTick ==
  ASSUME TreeOK, TickInv, NEW k, NEW fs, NEW new, NEW c, Fill(k, fs, new, c)
  PROVE  LinksOK' /\ WantedOK' /\ ChecksOK'
<1> DEFINE p == k[1]
           n == k[2]
           kept == DOMAIN rows \ {StubRow(p, n)}
           ck == check[k]
<1>1. /\ k \in DOMAIN rows /\ k[3] = "node" /\ ~rows[k].loaded
      /\ n > 0 /\ Readable(p) => mounts[p][n].dir
      /\ fs # NoFs => IsTree(fs)
      /\ \A j \in DOMAIN new : NewRow(j, new, fs, p, n)
  BY DEF Fill
<1>2. /\ DOMAIN mounts' = DOMAIN mounts \cup {p} /\ mounts'[p] = fs
      /\ \A q \in DOMAIN mounts : mounts'[q] = mounts[q]
  BY DEF Fill
<1>3. /\ DOMAIN rows' = kept \cup DOMAIN new
      /\ \A j \in kept : rows'[j].up = rows[j].up /\ (j # k => rows'[j] = rows[j])
      /\ rows'[k].loaded
      /\ \A j \in DOMAIN new : j \notin kept => rows'[j] = new[j]
  BY DEF Fill
<1>4. /\ DOMAIN c = DOMAIN rows /\ c[k] = ck
      /\ \A j \in DOMAIN rows : c[j] \in CheckStates
      /\ \A j \in DOMAIN rows : j[3] = "node" => BoxOK(j, c[j], wanted)
      /\ \A j \in DOMAIN rows : j[3] = "stub" /\ j[2] = 0 => c[j] = "none" \/ k = VolumeRow(j[1])
      /\ DOMAIN check' = DOMAIN rows'
      /\ \A j \in kept : check'[j] = c[j]
      /\ \A j \in DOMAIN new : j \notin kept => check'[j] = IF j[3] = "stub" THEN "none" ELSE Inherited(ck)
      /\ wanted' = wanted
  BY DEF Fill
<1>5. n \in Nat /\ k = NodeRow(p, n) /\ k \in kept /\ k \in DOMAIN rows'
  <2>1. n \in Nat /\ k = NodeRow(p, n)
    BY <1>1, KeysOfTree DEF RowKeys, NodeRow
  <2> QED BY <1>1, <1>3, <2>1 DEF NodeRow, StubRow
<1>6. ASSUME NEW j \in DOMAIN rows, j[1] = p, ~Readable(p) PROVE j[2] = 0
  <2>1. j[2] \in Nat
    BY KeysOfTree DEF RowKeys
  <2> QED BY <1>6, <2>1, RowTree
<1>7. Readable(p) => mounts[p] = fs
  BY <1>2 DEF Readable
<1>8. ASSUME NEW q, q \in DOMAIN mounts PROVE q \in DOMAIN mounts' /\ mounts'[q] = mounts[q]
  BY <1>2, <1>8
<1>9. ASSUME NEW q, q \in DOMAIN mounts', mounts'[q] # NoFs PROVE Readable(q) \/ (q = p /\ fs # NoFs)
  BY <1>2, <1>9 DEF Readable
<1>10. ASSUME fs # NoFs, NEW m \in DOMAIN fs, fs[m].up = n, NEW j \in DOMAIN rows, j[1] = p, j[2] = m
       PROVE  FALSE
  <2>1. m > 0
    BY <1>1, <1>10, TreeUp
  <2>2. Readable(p) /\ rows[NodeRow(p, mounts[p][m].up)].loaded
    BY <1>10, <2>1, RowTree
  <2> QED BY <1>1, <1>5, <1>7, <1>10, <2>2
<1>11. BoxOK(k, ck, wanted)
  BY <1>1, <1>4
<1>12. ck \in {"none", "checked", "unchecked"} /\ (n = 0 => ck = "none") /\ (n > 0 => ck # "none")
  <2>1. ck \in CheckStates
    BY <1>1, <1>4
  <2>2. ck # "partly" /\ (n = 0 => ck = "none") /\ (n > 0 => ck # "none")
    BY <1>1, <1>11 DEF BoxOK
  <2> QED BY <2>1, <2>2 DEF CheckStates
<1>13. ASSUME fs # NoFs, NEW m \in FilesBelow(fs, n)
       PROVE  <<p, m>> \in wanted <=> ck = "checked"
  <2>1. CASE Readable(p)
    <3>1. StandsFor(ck, wanted, p, n)
      BY <1>11, <2>1 DEF BoxOK
    <3> HIDE DEF ck, n, p
    <3> QED BY <1>7, <1>12, <1>13, <2>1, <3>1 DEF StandsFor
  <2>2. CASE ~Readable(p)
    <3>1. ck = "none"
      BY <1>1, <1>6, <1>12, <2>2
    <3>2. <<p, m>> \notin wanted
      <4>1. SUFFICES ASSUME <<p, m>> \in wanted PROVE FALSE
        OBVIOUS
      <4>2. PICK q \in DOMAIN mounts : \E e \in Nat : <<p, m>> = <<q, e>> /\ mounts[q] # NoFs
        BY <4>1 DEF TickInv, WantedOK
      <4>3. q = p /\ mounts[q] # NoFs
        BY <4>2
      <4> QED BY <2>2, <4>3 DEF Readable
    <3> QED BY <3>1, <3>2
  <2> QED BY <2>1, <2>2
<1> HIDE DEF ck
<1>14. ASSUME NEW j \in DOMAIN rows, j[3] = "node" PROVE j \in kept
  BY <1>14 DEF StubRow
<1>15. ASSUME NEW j \in DOMAIN rows, j[3] = "node", rows[j].loaded
       PROVE  j \in DOMAIN rows' /\ rows'[j].loaded
  <2>1. j # k /\ j \in kept
    BY <1>1, <1>14, <1>15
  <2> QED BY <1>3, <1>15, <2>1
(* The rows kept.                                                          *)
<1>16. ASSUME NEW j \in kept, j[3] = "node" PROVE LinkOK(j)'
  <2>1. LinkOK(j) /\ rows'[j].up = rows[j].up
    BY <1>3, <1>16 DEF TickInv, LinksOK
  <2>2. CASE j[2] = 0
    <3>1. rows'[j].up = -1
      BY <2>1, <2>2 DEF LinkOK
    <3> QED BY <2>2, <3>1 DEF LinkOK
  <2>3. CASE j[2] > 0
    <3> DEFINE u == NodeRow(j[1], rows[j].up)
    <3>1. /\ Readable(j[1]) /\ j[2] \in DOMAIN mounts[j[1]]
          /\ rows[j].up = mounts[j[1]][j[2]].up
          /\ u \in DOMAIN rows /\ rows[u].loaded
      BY <2>1, <2>3 DEF LinkOK
    <3>2. u[3] = "node"
      BY DEF NodeRow
    <3> HIDE DEF u
    <3>3. u \in DOMAIN rows' /\ rows'[u].loaded
      BY <1>15, <3>1, <3>2
    <3>4. j[1] \in DOMAIN mounts' /\ mounts'[j[1]] = mounts[j[1]] /\ mounts[j[1]] # NoFs
      BY <1>8, <3>1 DEF Readable
    <3> QED BY <2>1, <2>3, <3>1, <3>3, <3>4 DEF LinkOK, Readable, u, NodeRow
  <2>4. j[2] \in Nat
    BY <1>16, KeysOfTree DEF RowKeys
  <2> QED BY <2>2, <2>3, <2>4
<1>17. ASSUME NEW j \in kept, j[3] = "stub" PROVE StubOK(j)'
  <2> DEFINE u == NodeRow(j[1], j[2])
  <2>1. StubOK(j) /\ j # k
    BY <1>1, <1>17 DEF TickInv, LinksOK
  <2>2. rows'[j] = rows[j] /\ j = StubRow(j[1], j[2])
    BY <1>3, <1>17, <2>1, KeysOfTree DEF RowKeys, StubRow
  <2>3. u # k
    <3>1. SUFFICES ASSUME u = k PROVE FALSE
      OBVIOUS
    <3>2. j[1] = p /\ j[2] = n
      BY <3>1 DEF NodeRow
    <3> QED BY <1>17, <2>2, <3>2
  <2>4. u \in DOMAIN rows /\ u[3] = "node" /\ rows[j].up = j[2] /\ (rows[j].stub = "..." <=> ~rows[u].loaded)
        /\ (j[2] > 0 => mounts[j[1]][j[2]].dir)
        /\ (rows[u].loaded /\ Readable(j[1]) => \A m \in DOMAIN mounts[j[1]] : mounts[j[1]][m].up # j[2])
    BY <2>1 DEF StubOK, NodeRow
  <2>5. u \in DOMAIN rows' /\ rows'[u] = rows[u]
    BY <1>3, <1>14, <2>3, <2>4
  <2>6. j[1] = p => Readable(p)
    <3>1. SUFFICES ASSUME j[1] = p, ~Readable(p) PROVE FALSE
      OBVIOUS
    <3>2. j[2] = 0 /\ n = 0
      BY <1>1, <1>6, <3>1
    <3> QED BY <2>3, <1>5, <3>1, <3>2
  <2>7. Readable(j[1])' => Readable(j[1])
    BY <1>9, <2>6 DEF Readable
  <2>8. Readable(j[1]) => mounts'[j[1]] = mounts[j[1]]
    BY <1>8 DEF Readable
  <2>9. j[2] > 0 => Readable(j[1])
    BY RowTree
  <2>10. /\ u \in DOMAIN rows' /\ rows'[j].up = j[2]
         /\ rows'[j].stub = "..." <=> ~rows'[u].loaded
         /\ j[2] > 0 => mounts'[j[1]][j[2]].dir
         /\ rows'[u].loaded /\ Readable(j[1])' => \A m \in DOMAIN mounts'[j[1]] : mounts'[j[1]][m].up # j[2]
    <3> HIDE DEF u
    <3> QED BY <2>2, <2>4, <2>5, <2>7, <2>8, <2>9
  <2> QED BY <2>10 DEF StubOK, NodeRow, Readable
(* The rows added.                                                         *)
<1>18. ASSUME NEW j \in DOMAIN new, j \notin kept
       PROVE  (j[3] = "node" => LinkOK(j)') /\ (j[3] # "node" => StubOK(j)')
  <2>1. rows'[j] = new[j] /\ NewRow(j, new, fs, p, n)
    BY <1>1, <1>3, <1>18
  <2>2. ASSUME fs # NoFs, NEW m \in DOMAIN fs, fs[m].up = n, j = NodeRow(p, m), new[j].up = n
        PROVE  LinkOK(j)'
    <3>1. m \in Nat /\ m # 0
      BY <1>1, <2>2, TreeUp
    <3>2. p \in DOMAIN mounts' /\ mounts'[p] = fs
      BY <1>2
    <3>3. j[1] = p /\ j[2] = m
      BY <2>2 DEF NodeRow
    <3>4. NodeRow(p, n) \in DOMAIN rows' /\ rows'[NodeRow(p, n)].loaded
      BY <1>3, <1>5
    <3>5. rows'[j].up = n
      BY <2>1, <2>2
    <3> HIDE DEF p, n
    <3> QED BY <2>2, <3>1, <3>2, <3>3, <3>4, <3>5 DEF LinkOK, Readable, NodeRow
  <2>3. ASSUME fs # NoFs, NEW m \in DOMAIN fs, fs[m].up = n, fs[m].dir, j = StubRow(p, m),
               new[j].up = m, new[j].stub = "...",
               NodeRow(p, m) \in DOMAIN new, ~new[NodeRow(p, m)].loaded
        PROVE  StubOK(j)'
    <3>1. p \in DOMAIN mounts' /\ mounts'[p] = fs
      BY <1>2
    <3>2. j[1] = p /\ j[2] = m
      BY <2>3 DEF StubRow
    <3> DEFINE u == NodeRow(p, m)
    <3>3. u \notin kept
      <4>1. u[1] = p /\ u[2] = m
        BY DEF NodeRow
      <4> HIDE DEF u
      <4> QED BY <1>10, <2>3, <4>1
    <3>4. u \in DOMAIN rows' /\ ~rows'[u].loaded
      BY <1>3, <2>3, <3>3
    <3>5. rows'[j].up = m /\ rows'[j].stub = "..."
      BY <2>1, <2>3
    <3> HIDE DEF p, n
    <3> QED BY <2>3, <3>1, <3>2, <3>4, <3>5 DEF StubOK, NodeRow
  <2>4. ASSUME fs = NoFs \/ \A m \in DOMAIN fs : fs[m].up # n,
               j = StubRow(p, n), new[j].up = n, new[j].stub # "..."
        PROVE  StubOK(j)'
    <3>1. j[1] = p /\ j[2] = n
      BY <2>4 DEF StubRow
    <3>2. NodeRow(p, n) \in DOMAIN rows' /\ rows'[NodeRow(p, n)].loaded
      BY <1>3, <1>5
    <3>3. rows'[j].up = n /\ rows'[j].stub # "..."
      BY <2>1, <2>4
    <3>4. n > 0 => mounts'[p][n].dir
      <4>1. SUFFICES ASSUME n > 0 PROVE mounts'[p][n].dir
        OBVIOUS
      <4>2. Readable(p)
        BY <1>1, <4>1, RowTree
      <4> QED BY <1>1, <1>2, <1>7, <4>1, <4>2
    <3>5. mounts'[p] = fs
      BY <1>2
    <3> HIDE DEF p, n
    <3> QED BY <2>4, <3>1, <3>2, <3>3, <3>4, <3>5 DEF StubOK, NodeRow, Readable
  <2>5. \A m : NodeRow(p, m)[3] = "node" /\ StubRow(p, m)[3] = "stub"
    BY DEF NodeRow, StubRow
  <2> QED BY <2>1, <2>2, <2>3, <2>4, <2>5 DEF NewRow
<1>19. LinksOK'
  <2> SUFFICES ASSUME NEW j \in DOMAIN rows' PROVE IF j[3] = "node" THEN LinkOK(j)' ELSE StubOK(j)'
    BY DEF LinksOK
  <2>1. CASE j \in kept
    <3>1. j[3] \in {"node", "stub"}
      BY <2>1, KeysOfTree DEF RowKeys
    <3> QED BY <1>16, <1>17, <2>1, <3>1
  <2>2. CASE j \notin kept
    BY <1>3, <1>18, <2>2
  <2> QED BY <2>1, <2>2
<1>20. WantedOK'
  <2> SUFFICES ASSUME NEW w \in wanted
               PROVE  \E q \in DOMAIN mounts' : \E m \in Nat :
                        w = <<q, m>> /\ mounts'[q] # NoFs /\ m \in DOMAIN mounts'[q] /\ ~mounts'[q][m].dir
    BY <1>4 DEF WantedOK
  <2>1. PICK q \in DOMAIN mounts : \E m \in Nat :
          w = <<q, m>> /\ mounts[q] # NoFs /\ m \in DOMAIN mounts[q] /\ ~mounts[q][m].dir
    BY DEF TickInv, WantedOK
  <2>2. q \in DOMAIN mounts' /\ mounts'[q] = mounts[q]
    BY <1>8
  <2> QED BY <2>1, <2>2
(* The boxes.                                                              *)
<1>21. ASSUME NEW j \in kept, j[3] = "node", j # k PROVE BoxOK(j, check[j], wanted)'
  <2> DEFINE q == j[1]
             d == c[j]
             s == StubRow(q, j[2])
  <2>1. BoxOK(j, d, wanted) /\ check'[j] = d
    BY <1>4, <1>21
  <2>2. j = NodeRow(q, j[2]) /\ j[2] \in Nat
    BY <1>21, KeysOfTree DEF RowKeys, NodeRow
  <2>3. Readable(q)' => Readable(q)
    <3>1. SUFFICES ASSUME q = p, ~Readable(p) PROVE FALSE
      BY <1>9 DEF Readable
    <3>2. j[2] = 0 /\ n = 0
      BY <1>1, <1>6, <3>1
    <3> QED BY <1>5, <1>21, <2>2, <3>1, <3>2
  <2>4. Readable(q) => q \in DOMAIN mounts' /\ mounts'[q] = mounts[q] /\ mounts'[q] # NoFs
    BY <1>8 DEF Readable
  <2>5. rows[j].loaded => rows'[j].loaded
    BY <1>15, <1>21
  <2>6. s \notin DOMAIN rows => s \notin DOMAIN rows'
    <3>1. SUFFICES ASSUME s \in DOMAIN new, s \notin kept PROVE FALSE
      BY <1>3
    <3>2. NewRow(s, new, fs, p, n)
      BY <1>1, <3>1
    <3>3. s[1] = q /\ s[2] = j[2] /\ s[3] = "stub"
      BY DEF StubRow
    <3>4. ASSUME fs # NoFs, NEW m \in DOMAIN fs, fs[m].up = n, s = StubRow(p, m) PROVE FALSE
      <4>1. q = p /\ j[2] = m
        BY <3>4 DEF StubRow
      <4> QED BY <1>10, <3>4, <4>1
    <3>5. ASSUME NEW m, s = NodeRow(p, m) PROVE FALSE
      BY <3>3, <3>5 DEF NodeRow
    <3>6. ASSUME s = StubRow(p, n) PROVE FALSE
      <4>1. q = p /\ j[2] = n
        BY <3>6 DEF StubRow
      <4> QED BY <1>5, <1>21, <2>2, <4>1
    <3> QED BY <3>2, <3>4, <3>5, <3>6 DEF NewRow
  <2>7. q = j[1]
    OBVIOUS
  <2>8. j[2] = 0 => s = StubRow(q, 0)
    OBVIOUS
  <2>9. /\ j[2] > 0 => d # "none"
        /\ j[2] = 0 /\ d # "none" => Readable(q) /\ rows[j].loaded /\ s \notin DOMAIN rows
        /\ d = "partly" => /\ rows[j].loaded /\ s \notin DOMAIN rows
                           /\ j[2] > 0 => mounts[q][j[2]].dir
        /\ Readable(q) => StandsFor(d, wanted, q, j[2])
    <3> HIDE DEF d
    <3> QED BY <2>1 DEF BoxOK
  <2>10. d = "partly" => Readable(q)
    <3>1. j[2] > 0 => Readable(q)
      BY RowTree
    <3> QED BY <2>2, <2>9, <3>1
  <2> DEFINE R == q \in DOMAIN mounts' /\ mounts'[q] # NoFs
             S == /\ d = "checked" => \A m \in FilesBelow(mounts'[q], j[2]) : <<q, m>> \in wanted'
                  /\ d \in {"none", "unchecked"} => \A m \in FilesBelow(mounts'[q], j[2]) : <<q, m>> \notin wanted'
  <2>11. Readable(q) <=> R
    BY <2>3, <2>4 DEF Readable
  <2>12. R => S
    <3>1. Readable(q) => StandsFor(d, wanted, q, j[2])
      BY <2>9
    <3> HIDE DEF q, d, R
    <3> QED BY <1>4, <2>4, <2>11, <3>1 DEF StandsFor
  <2>13. j[2] = 0 /\ d # "none" => R /\ rows'[j].loaded /\ s \notin DOMAIN rows'
    <3> HIDE DEF q, d, s, R
    <3> QED BY <2>5, <2>6, <2>9, <2>11
  <2>14. d = "partly" => rows'[j].loaded /\ s \notin DOMAIN rows'
    <3> HIDE DEF q, d, s, R
    <3> QED BY <2>5, <2>6, <2>9
  <2>15. d = "partly" /\ j[2] > 0 => mounts'[q][j[2]].dir
    <3> HIDE DEF q, d, s, R
    <3> QED BY <2>4, <2>9, <2>10
  <2>16. j[2] > 0 => d # "none"
    BY <2>9
  <2>17. check'[j] = d
    BY <2>1
  <2> HIDE DEF d
  <2> QED BY <2>8, <2>12, <2>13, <2>14, <2>15, <2>16, <2>17 DEF BoxOK, Readable, StandsFor
<1>22. BoxOK(k, check[k], wanted)'
  <2>1. check'[k] = ck
    BY <1>4, <1>5
  <2>2. p \in DOMAIN mounts' /\ mounts'[p] = fs
    BY <1>2
  <2>3. fs # NoFs => \A m \in FilesBelow(fs, n) : (<<p, m>> \in wanted' <=> ck = "checked")
    BY <1>4, <1>13
  <2>4. k[1] = p /\ k[2] = n
    OBVIOUS
  <2> HIDE DEF p, n
  <2> QED BY <1>12, <2>1, <2>2, <2>3, <2>4 DEF BoxOK, Readable, StandsFor
<1>23. ASSUME NEW j \in DOMAIN new, j \notin kept, j[3] = "node" PROVE BoxOK(j, check[j], wanted)'
  <2>1. \A m : StubRow(p, m)[3] = "stub"
    BY DEF StubRow
  <2>2. fs # NoFs /\ \E m \in DOMAIN fs : fs[m].up = n /\ j = NodeRow(p, m)
    BY <1>1, <1>23, <2>1 DEF NewRow
  <2>3. PICK m \in DOMAIN fs : fs[m].up = n /\ j = NodeRow(p, m)
    BY <2>2
  <2>4. IsTree(fs) /\ m \in 1..Len(fs) /\ Len(fs) \in Nat /\ m # 0 /\ n \in 0..Len(fs) /\ m \in 0..Len(fs)
    <3>1. IsTree(fs)
      BY <1>1, <2>2
    <3>2. DOMAIN fs = 1..Len(fs) /\ Len(fs) \in Nat
      BY <3>1, TreeUp
    <3>3. m \in 1..Len(fs) /\ m # 0 /\ m \in 0..Len(fs)
      BY <3>2
    <3>4. n \in 0..Len(fs)
      BY <2>3, <3>1, <3>3, TreeUp
    <3> QED BY <3>1, <3>2, <3>3, <3>4
  <2>5. n \in PathOf(fs)[m]
    BY <2>3, <2>4, PathSteps, PathWithin
  <2>6. ASSUME NEW i \in FilesBelow(fs, m) PROVE <<p, i>> \in wanted <=> ck = "checked"
    <3>1. i \in DOMAIN fs /\ ~fs[i].dir /\ m \in PathOf(fs)[i]
      BY FilesBelowIs
    <3>2. i \in 0..Len(fs)
      BY <2>4, <3>1, TreeUp
    <3>3. n \in PathOf(fs)[i]
      BY <2>4, <2>5, <3>1, <3>2, PathTrans
    <3>4. i \in FilesBelow(fs, n)
      BY <3>1, <3>3, FilesBelowIs
    <3> QED BY <1>13, <2>2, <3>4
  <2> DEFINE d == Inherited(ck)
  <2>7. d \in {"checked", "unchecked"} /\ (d = "checked" <=> ck = "checked")
    BY DEF Inherited
  <2>8. check'[j] = d /\ wanted' = wanted
    BY <1>4, <1>23
  <2>9. j[1] = p /\ j[2] = m
    BY <2>3 DEF NodeRow
  <2>10. p \in DOMAIN mounts' /\ mounts'[p] = fs
    BY <1>2
  <2> HIDE DEF d, p
  <2> QED BY <2>4, <2>6, <2>7, <2>8, <2>9, <2>10 DEF BoxOK, Readable, StandsFor
<1>24. ChecksOK'
  <2>1. ASSUME NEW j \in DOMAIN rows' PROVE check'[j] \in CheckStates
    <3>1. CASE j \in kept
      BY <1>4, <3>1
    <3>2. CASE j \notin kept
      <4>1. check'[j] = IF j[3] = "stub" THEN "none" ELSE Inherited(ck)
        BY <1>3, <1>4, <2>1, <3>2
      <4> QED BY <4>1 DEF Inherited, CheckStates
    <3> QED BY <3>1, <3>2
  <2>2. ASSUME NEW j \in DOMAIN rows', j[3] = "node" PROVE BoxOK(j, check[j], wanted)'
    BY <1>3, <1>21, <1>22, <1>23, <2>2
  <2>3. ASSUME NEW j \in DOMAIN rows', j[3] = "stub", j[2] = 0 PROVE check'[j] = "none"
    <3>1. CASE j \in kept
      <4>1. check'[j] = c[j] /\ (c[j] = "none" \/ k = VolumeRow(j[1]))
        BY <1>4, <2>3, <3>1
      <4>2. ASSUME k = VolumeRow(j[1]) PROVE FALSE
        <5>1. j[1] = p /\ n = 0
          BY <4>2 DEF VolumeRow
        <5>2. j = StubRow(p, n)
          BY <2>3, <3>1, <5>1, KeysOfTree DEF RowKeys, StubRow
        <5> QED BY <3>1, <5>2
      <4> QED BY <4>1, <4>2
    <3>2. CASE j \notin kept
      BY <1>3, <1>4, <2>3, <3>2
    <3> QED BY <3>1, <3>2
  <2> QED BY <1>4, <2>1, <2>2, <2>3 DEF ChecksOK
<1> QED BY <1>19, <1>20, <1>24

(* Marking a row as filled is a change of the row, and a cascade.          *)
LEMMA TouchTick ==
  ASSUME TreeOK, TickInv, NEW k \in DOMAIN rows, k[3] = "node", ~rows[k].loaded
  PROVE  LET c == ItemChanged(check, rows, k) IN
         /\ DOMAIN c = DOMAIN rows /\ c[k] = check[k]
         /\ \A j \in DOMAIN rows : c[j] \in CheckStates
         /\ \A j \in DOMAIN rows : j[3] = "node" => BoxOK(j, c[j], wanted)
         /\ \A j \in DOMAIN rows : j[3] = "stub" /\ j[2] = 0 => c[j] = "none" \/ k = VolumeRow(j[1])
<1> DEFINE p == k[1]
           c == ItemChanged(check, rows, k)
<1>1. /\ DOMAIN check = DOMAIN rows /\ \A j \in DOMAIN rows : check[j] \in CheckStates
      /\ \A j \in DOMAIN rows : j[3] = "node" => BoxOK(j, check[j], wanted)
      /\ \A j \in DOMAIN rows : j[3] = "stub" /\ j[2] = 0 => check[j] = "none"
  BY DEF TickInv, ChecksOK
<1>2. check[k] \in {"none", "checked", "unchecked"}
  <2>1. check[k] # "partly"
    BY <1>1 DEF BoxOK
  <2> QED BY <1>1, <2>1 DEF CheckStates
<1>3. CASE Readable(p)
  <2>1. Clicked(check[k], k, wanted)
    BY <1>1, <1>2, <1>3 DEF Clicked
  <2> QED BY <1>1, <2>1, Cascade
<1>4. CASE ~Readable(p)
  <2>1. ASSUME NEW j \in DOMAIN rows, j[1] = p PROVE j[2] = 0
    <3>1. j[2] \in Nat
      BY KeysOfTree DEF RowKeys
    <3> QED BY <1>4, <2>1, <3>1, RowTree
  <2>2. k[2] = 0 /\ k = VolumeRow(p)
    BY <2>1, KeysOfTree DEF RowKeys, VolumeRow
  <2>3. Parents(rows, k) = {}
    BY <1>4, ParentsAre DEF Way
  <2> DEFINE D == ApplyDown(check, rows, k)
             U == ApplyUp(D, rows, k)
  <2>4. c = U
    BY <1>2 DEF ItemChanged
  <2>5. DOMAIN D = DOMAIN rows
        /\ \A j \in DOMAIN rows : D[j] = IF j[1] = p /\ 0 \in Parents(rows, j) THEN Tick(check[k]) ELSE check[j]
    BY <1>1, <2>2 DEF ApplyDown
  <2> HIDE DEF D
  <2>6. DOMAIN U = DOMAIN rows /\ \A j \in DOMAIN rows : U[j] = D[j]
    BY <2>3, <2>5, UpLaw DEF Passed
  <2> HIDE DEF U, c
  <2>7. ASSUME NEW j \in DOMAIN rows, j[3] = "node" PROVE c[j] = check[j]
    <3>1. j[1] = p => Parents(rows, j) = {}
      BY <1>4, <2>7, ParentsAre DEF Way
    <3> QED BY <2>4, <2>5, <2>6, <3>1
  <2>8. ASSUME NEW j \in DOMAIN rows PROVE c[j] \in CheckStates
    <3>1. Tick(check[k]) \in CheckStates
      BY TickFacts DEF CheckStates
    <3> QED BY <1>1, <2>4, <2>5, <2>6, <3>1
  <2>9. ASSUME NEW j \in DOMAIN rows, j[3] = "stub", j[2] = 0 PROVE c[j] = "none" \/ k = VolumeRow(j[1])
    BY <1>1, <2>2, <2>4, <2>5, <2>6, <2>9
  <2> QED BY <1>1, <2>4, <2>6, <2>7, <2>8, <2>9 DEF c
<1> QED BY <1>3, <1>4

LEMMA FilesystemsAreTrees ==
  ASSUME NEW s \in Sources, NEW V, V = (IF s.sound THEN s.vols ELSE s.alone), NEW p \in DOMAIN V,
         NEW f \in {V[p].fs, V[p].inner}, f # NoFs
  PROVE  IsTree(f)
<1>1. V \in Seq(Volume)
  BY ShownVolumes
<1>2. V[p] \in Volume
  BY <1>1
<1>3. f \in Seq(FileEntry)
  BY <1>2, VolumeFacts
<1>4. V[p] \in Range(s.vols) \cup Range(s.alone)
  BY DEF Range
<1>5. \A n \in DOMAIN f : f[n].up < n /\ (f[n].up > 0 => f[f[n].up].dir)
  BY <1>4, SourcesAssumption
<1> QED BY <1>3, <1>5 DEF IsTree

(* Expanding a row.                                                        *)
LEMMA ExpandTick ==
  ASSUME TreeOK, TickInv, NEW k \in DOMAIN rows, Expand(k)
  PROVE  TickInv'
<1> DEFINE p    == k[1]
           n    == k[2]
           fs   == Mounted(p)[p]
           kept == [j \in DOMAIN rows \ {StubRow(p, n)} |-> rows[j]]
           new  == IF fs = NoFs THEN Only(StubRow(p, n), Stub("(no readable filesystem)", n))
                   ELSE Filled(fs, p, n)
           old  == [kept EXCEPT ![k].loaded = TRUE]
           c    == ItemChanged(check, rows, k)
<1>1. /\ mounts' = Mounted(p) /\ rows' = Joint(old, new)
      /\ Children(rows, k) # {} /\ ~rows[k].loaded
      /\ check' = [j \in DOMAIN rows' |->
                IF j \in DOMAIN kept THEN c[j]
                ELSE IF j[3] = "stub" THEN "none" ELSE Inherited(c[k])]
      /\ UNCHANGED <<volumes, wanted>>
  BY DEF Expand
<1> HIDE DEF c
<1>2. k[3] = "node" /\ n \in Nat /\ k = <<p, n, "node">> /\ p \in DOMAIN volumes
  <2>1. k[3] = "node"
    BY <1>1 DEF Children
  <2> QED BY <2>1, KeysOfTree DEF RowKeys, TreeOK, ShapeOK
<1>3. /\ DOMAIN mounts' = DOMAIN mounts \cup {p}
      /\ \A q \in DOMAIN mounts : mounts'[q] = mounts[q]
      /\ mounts'[p] = fs /\ fs = volumes[p]
  <2>1. \A q \in DOMAIN mounts : mounts[q] = volumes[q]
    BY DEF TreeOK, MountsOK
  <2>2. mounts' = Mounted(p)
    BY <1>1
  <2>3. /\ DOMAIN Mounted(p) = DOMAIN mounts \cup {p}
        /\ p \notin DOMAIN mounts => Mounted(p)[p] = volumes[p]
        /\ \A q \in DOMAIN mounts : Mounted(p)[q] = mounts[q]
    BY MountedFacts
  <2> HIDE DEF p
  <2> QED BY <2>1, <2>2, <2>3 DEF fs
<1>4. fs # NoFs => IsTree(fs)
  BY <1>2, <1>3 DEF TickInv, TreesOK
<1> HIDE DEF fs
<1>5. \A j \in DOMAIN new : NewRow(j, new, fs, p, n)
  BY NewRows
<1>6. /\ DOMAIN old = DOMAIN rows \ {StubRow(p, n)} /\ k \in DOMAIN old
      /\ \A j \in DOMAIN old : j # k => old[j] = rows[j]
      /\ old[k] = [rows[k] EXCEPT !.loaded = TRUE]
      /\ DOMAIN kept = DOMAIN old
  BY <1>2 DEF StubRow
<1> HIDE DEF new, old, kept
<1>7. /\ DOMAIN rows' = DOMAIN old \cup DOMAIN new
      /\ \A j \in DOMAIN old : rows'[j] = old[j]
      /\ \A j \in DOMAIN new : j \notin DOMAIN old => rows'[j] = new[j]
  BY <1>1 DEF Joint
<1>8. rows'[k].up = rows[k].up /\ rows'[k].loaded
  <2> DEFINE r == rows[k]
             x == rows'[k]
  <2>1. IsRow(r)
    BY DEF TreeOK, ShapeOK
  <2>2. x = [r EXCEPT !.loaded = TRUE]
    BY <1>6, <1>7
  <2> HIDE DEF r, x
  <2>3. x.up = r.up /\ x.loaded
    <3>1. r = [up |-> r.up, stub |-> r.stub, loaded |-> r.loaded, deleted |-> r.deleted, state |-> r.state]
      BY <2>1 DEF IsRow
    <3>2. x = [up |-> r.up, stub |-> r.stub, loaded |-> TRUE, deleted |-> r.deleted, state |-> r.state]
      BY <2>2, <3>1
    <3> QED BY <3>2
  <2> QED BY <2>3 DEF r, x
<1>9. ASSUME n > 0, Readable(p) PROVE mounts[p][n].dir
  <2>1. PICK j \in Children(rows, k) : TRUE
    BY <1>1
  <2>2. j \in DOMAIN rows /\ j[1] = p /\ rows[j].up = n
    BY <2>1 DEF Children
  <2>3. j[3] \in {"node", "stub"}
    BY <2>2, KeysOfTree DEF RowKeys
  <2>4. CASE j[3] = "node"
    <3>1. IsTree(mounts[p]) /\ j[2] \in 1..Len(mounts[p]) /\ mounts[p][j[2]].up = n
      BY <1>2, <2>4, ChildrenAfter DEF NodeRow
    <3> QED BY <1>9, <3>1, TreeUp DEF IsTree
  <2>5. CASE j[3] = "stub"
    <3>1. StubOK(j)
      BY <2>2, <2>5 DEF TickInv, LinksOK
    <3> QED BY <1>9, <2>2, <3>1 DEF StubOK
  <2> QED BY <2>3, <2>4, <2>5
<1>10. /\ DOMAIN c = DOMAIN rows /\ c[k] = check[k]
       /\ \A j \in DOMAIN rows : c[j] \in CheckStates
       /\ \A j \in DOMAIN rows : j[3] = "node" => BoxOK(j, c[j], wanted)
       /\ \A j \in DOMAIN rows : j[3] = "stub" /\ j[2] = 0 => c[j] = "none" \/ k = VolumeRow(j[1])
  BY <1>1, <1>2, TouchTick DEF c
<1>11. /\ DOMAIN check' = DOMAIN rows'
       /\ \A j \in DOMAIN old : check'[j] = c[j]
       /\ \A j \in DOMAIN new : j \notin DOMAIN old =>
            check'[j] = IF j[3] = "stub" THEN "none" ELSE Inherited(check[k])
  BY <1>1, <1>6, <1>7, <1>10
<1>12. Fill(k, fs, new, c)
  <2>1. \A j \in DOMAIN rows \ {StubRow(p, n)} : rows'[j].up = rows[j].up /\ (j # k => rows'[j] = rows[j])
    BY <1>6, <1>7, <1>8
  <2>2. DOMAIN rows' = (DOMAIN rows \ {StubRow(p, n)}) \cup DOMAIN new
    BY <1>6, <1>7
  <2>3. \A j \in DOMAIN rows \ {StubRow(p, n)} : check'[j] = c[j]
    BY <1>6, <1>11
  <2>4. \A j \in DOMAIN new : j \notin DOMAIN rows \ {StubRow(p, n)} =>
           rows'[j] = new[j] /\ check'[j] = IF j[3] = "stub" THEN "none" ELSE Inherited(check[k])
    BY <1>6, <1>7, <1>11
  <2>5. wanted' = wanted
    BY <1>1
  <2>6. DOMAIN check' = DOMAIN rows'
    BY <1>11
  <2>7. ~rows[k].loaded
    BY <1>1
  <2> QED BY <1>2, <1>3, <1>4, <1>5, <1>8, <1>9, <1>10, <2>1, <2>2, <2>3, <2>4, <2>5, <2>6, <2>7 DEF Fill
<1>13. LinksOK' /\ WantedOK' /\ ChecksOK'
  BY <1>12, FillTick
<1>14. TreesOK'
  BY <1>1 DEF TickInv, TreesOK
<1> QED BY <1>13, <1>14 DEF TickInv

(* The decrypted volume is mounted and filled.                             *)
LEMMA SwapTick ==
  ASSUME TreeOK, TickInv, NEW p \in DOMAIN volumes, State(p) \in {"bitlocker", "filevault"},
         SwapIn(p), wanted' = wanted
  PROVE  TickInv'
<1> DEFINE k   == VolumeRow(p)
           fs  == Behind(p).inner
           new == IF fs = NoFs THEN Only(StubRow(p, 0), Stub("(no readable filesystem)", 0))
                  ELSE Filled(fs, p, 0)
           old == [rows EXCEPT ![k].state = "unlocked", ![k].loaded = TRUE]
<1>1. Swapped(p) = [q \in DOMAIN volumes |-> IF q = p THEN fs ELSE volumes[q]]
  BY DEF Swapped
<1>2. /\ volumes' = Swapped(p) /\ mounts' = Joint(Only(p, fs), mounts)
      /\ rows' = Joint(old, new)
      /\ check' = Joint(check, [j \in DOMAIN new |-> IF j[3] = "stub" THEN "none" ELSE "unchecked"])
  BY <1>1 DEF SwapIn
<1>3. p \notin DOMAIN mounts /\ \A j \in DOMAIN rows : j[1] = p => j = k
  BY LockedIsBare
<1>4. fs # NoFs => IsTree(fs)
  <2>1. image \in Sources /\ p \in DOMAIN Shown
    <3>1. volumes # <<>>
      OBVIOUS
    <3> QED BY <3>1 DEF TreeOK, ImageOK
  <2>2. Behind(p) = Shown[p]
    BY DEF Behind, Shown
  <2> QED BY <2>1, <2>2, FilesystemsAreTrees DEF Shown
<1> HIDE DEF fs
<1>5. k \in DOMAIN rows /\ k[1] = p /\ k[2] = 0 /\ k[3] = "node"
  BY DEF VolumeRow, TreeOK, ShapeOK
<1>6. /\ DOMAIN mounts' = DOMAIN mounts \cup {p} /\ mounts'[p] = fs
      /\ \A q \in DOMAIN mounts : mounts'[q] = mounts[q]
  BY <1>2, <1>3 DEF Joint, Only
<1>7. \A j \in DOMAIN new : NewRow(j, new, fs, p, 0)
  BY NewRows
<1>8. /\ DOMAIN old = DOMAIN rows
      /\ \A j \in DOMAIN rows : j # k => old[j] = rows[j]
      /\ old[k] = [rows[k] EXCEPT !.state = "unlocked", !.loaded = TRUE]
  BY <1>5
<1> HIDE DEF new, old
<1>9. /\ DOMAIN rows' = DOMAIN rows \cup DOMAIN new
      /\ \A j \in DOMAIN rows : rows'[j] = old[j]
      /\ \A j \in DOMAIN new : j \notin DOMAIN rows => rows'[j] = new[j]
  BY <1>2, <1>8 DEF Joint
<1>10. rows'[k].up = rows[k].up /\ rows'[k].loaded
  <2> DEFINE r == rows[k]
             x == rows'[k]
  <2>1. IsRow(r)
    BY <1>5 DEF TreeOK, ShapeOK
  <2>2. x = [r EXCEPT !.state = "unlocked", !.loaded = TRUE]
    BY <1>5, <1>8, <1>9
  <2> HIDE DEF r, x
  <2>3. x.up = r.up /\ x.loaded
    <3>1. r = [up |-> r.up, stub |-> r.stub, loaded |-> r.loaded, deleted |-> r.deleted, state |-> r.state]
      BY <2>1 DEF IsRow
    <3>2. x = [up |-> r.up, stub |-> r.stub, loaded |-> TRUE, deleted |-> r.deleted, state |-> "unlocked"]
      BY <2>2, <3>1
    <3> QED BY <3>2
  <2> QED BY <2>3 DEF r, x
<1>11. ~rows[k].loaded
  <2>1. RowOK(k)
    BY <1>5 DEF TreeOK, RowsOK
  <2> HIDE DEF k
  <2> QED BY <1>3, <1>5, <2>1 DEF RowOK
<1>12. /\ DOMAIN check = DOMAIN rows
       /\ \A j \in DOMAIN rows : check[j] \in CheckStates
       /\ \A j \in DOMAIN rows : j[3] = "node" => BoxOK(j, check[j], wanted)
       /\ \A j \in DOMAIN rows : j[3] = "stub" /\ j[2] = 0 => check[j] = "none"
  BY DEF TickInv, ChecksOK
<1>13. check[k] = "none"
  <2>1. BoxOK(k, check[k], wanted)
    BY <1>5, <1>12
  <2> HIDE DEF k
  <2> QED BY <1>5, <1>11, <2>1 DEF BoxOK
<1>14. /\ DOMAIN check' = DOMAIN rows'
       /\ \A j \in DOMAIN rows : check'[j] = check[j]
       /\ \A j \in DOMAIN new : j \notin DOMAIN rows =>
            check'[j] = IF j[3] = "stub" THEN "none" ELSE Inherited(check[k])
  BY <1>2, <1>9, <1>12, <1>13 DEF Joint, Inherited
<1>15. StubRow(p, 0) \notin DOMAIN rows
  <2>1. StubRow(p, 0)[1] = p /\ StubRow(p, 0) # k
    BY DEF StubRow, VolumeRow
  <2> QED BY <1>3, <2>1
<1>16. Fill(k, fs, new, check)
  <2>1. DOMAIN rows \ {StubRow(k[1], k[2])} = DOMAIN rows
    BY <1>5, <1>15
  <2>2. \A j \in DOMAIN rows : rows'[j].up = rows[j].up /\ (j # k => rows'[j] = rows[j])
    BY <1>8, <1>9, <1>10
  <2> HIDE DEF k
  <2>3. /\ \A j \in DOMAIN new : NewRow(j, new, fs, k[1], k[2])
        /\ DOMAIN mounts' = DOMAIN mounts \cup {k[1]} /\ mounts'[k[1]] = fs
        /\ ~(k[2] > 0)
    BY <1>5, <1>6, <1>7
  <2> QED BY <1>4, <1>5, <1>6, <1>9, <1>10, <1>11, <1>12, <1>14, <2>1, <2>2, <2>3 DEF Fill
<1>17. LinksOK' /\ WantedOK' /\ ChecksOK'
  BY <1>16, FillTick
<1>18. TreesOK'
  BY <1>1, <1>2, <1>4 DEF TickInv, TreesOK
<1> QED BY <1>17, <1>18 DEF TickInv

(* A cipher that is not supported: the row says so.                        *)
LEMMA NoCipherTick ==
  ASSUME TreeOK, TickInv, NEW p \in DOMAIN volumes,
         rows' = [rows EXCEPT ![VolumeRow(p)].state = "nocipher"],
         UNCHANGED <<volumes, mounts, check, wanted>>
  PROVE  TickInv'
<1> DEFINE k == VolumeRow(p)
<1>1. k \in DOMAIN rows /\ IsRow(rows[k])
  BY DEF TreeOK, ShapeOK
<1>2. DOMAIN rows' = DOMAIN rows /\ \A j \in DOMAIN rows :
        /\ j # k => rows'[j] = rows[j]
        /\ rows'[j].up = rows[j].up /\ (rows'[j].loaded <=> rows[j].loaded) /\ rows'[j].stub = rows[j].stub
  <2> DEFINE r == rows[k]
             x == rows'[k]
  <2>1. DOMAIN rows' = DOMAIN rows /\ (\A j \in DOMAIN rows : j # k => rows'[j] = rows[j])
        /\ x = [r EXCEPT !.state = "nocipher"]
    BY <1>1
  <2>2. IsRow(r)
    BY <1>1
  <2> HIDE DEF r, x
  <2>3. x.up = r.up /\ x.stub = r.stub /\ (x.loaded <=> r.loaded)
    <3>1. r = [up |-> r.up, stub |-> r.stub, loaded |-> r.loaded, deleted |-> r.deleted, state |-> r.state]
      BY <2>2 DEF IsRow
    <3>2. x = [up |-> r.up, stub |-> r.stub, loaded |-> r.loaded, deleted |-> r.deleted, state |-> "nocipher"]
      BY <2>1, <3>1
    <3>3. x.up = r.up /\ x.stub = r.stub /\ x.loaded = r.loaded
      BY <3>2
    <3> QED BY <3>3
  <2> QED BY <2>1, <2>3 DEF r, x
<1>3. TreesOK' /\ WantedOK'
  BY DEF TickInv, TreesOK, WantedOK
<1>4. LinksOK'
  <2> SUFFICES ASSUME NEW j \in DOMAIN rows PROVE IF j[3] = "node" THEN LinkOK(j)' ELSE StubOK(j)'
    BY <1>2 DEF LinksOK
  <2>1. ASSUME LinkOK(j) PROVE LinkOK(j)'
    BY <1>2, <2>1 DEF LinkOK, Readable
  <2>2. ASSUME StubOK(j) PROVE StubOK(j)'
    BY <1>2, <2>2 DEF StubOK, Readable
  <2> QED BY <2>1, <2>2 DEF TickInv, LinksOK
<1>5. ChecksOK'
  <2>1. ASSUME NEW j \in DOMAIN rows, BoxOK(j, check[j], wanted) PROVE BoxOK(j, check[j], wanted)'
    BY <1>2, <2>1 DEF BoxOK, StandsFor, Readable
  <2> QED BY <1>2, <2>1 DEF TickInv, ChecksOK
<1> QED BY <1>3, <1>4, <1>5 DEF TickInv

(* A new tree, in which nothing is ticked.                                 *)
LEMMA BuildTick ==
  ASSUME NEW s \in Sources, NEW key, ~Produced(s, key).error, BuildTree(Produced(s, key))
  PROVE  TickInv'
<1> DEFINE V  == IF s.sound THEN s.vols ELSE s.alone
           vs == Prepared(V, key)
<1>1. Produced(s, key) = [error |-> FALSE, source |-> s, vols |-> vs]
  BY ProducedFacts
<1> HIDE DEF vs
<1>2. /\ volumes' = [p \in DOMAIN vs |-> vs[p].fs]
      /\ mounts' = <<>>
      /\ rows' = Fresh(vs)
      /\ check' = [k \in DOMAIN rows' |-> "none"]
      /\ wanted' = {}
  BY <1>1 DEF BuildTree, KeptMounts
<1>3. DOMAIN vs = DOMAIN V /\ \A p \in DOMAIN V : vs[p].fs \in {V[p].fs, V[p].inner}
  <2>1. DOMAIN vs = DOMAIN V
    BY DEF vs, Prepared
  <2>2. ASSUME NEW p \in DOMAIN V PROVE vs[p].fs \in {V[p].fs, V[p].inner}
    <3> DEFINE v == V[p]
    <3>1. vs[p] =
            (CASE v.label # "bitlocker" \/ key = "none" -> [state |-> v.label, fs |-> v.fs]
               [] v.label = "bitlocker" /\ key # "none" /\ ~v.cipher -> [state |-> "nocipher", fs |-> v.fs]
               [] v.label = "bitlocker" /\ key = "right" /\ v.cipher -> [state |-> "unlocked", fs |-> v.inner]
               [] OTHER -> [state |-> "bitlocker", fs |-> v.fs])
      BY DEF vs, Prepared
    <3> HIDE DEF v
    <3>2. CASE v.label # "bitlocker" \/ key = "none"
      BY <3>1, <3>2 DEF v
    <3>3. CASE v.label = "bitlocker" /\ key # "none"
      BY <3>1, <3>3 DEF v
    <3> QED BY <3>2, <3>3
  <2> QED BY <2>1, <2>2
<1>4. TreesOK'
  <2> SUFFICES ASSUME NEW p \in DOMAIN volumes', volumes'[p] # NoFs PROVE IsTree(volumes'[p])
    BY DEF TreesOK
  <2>1. p \in DOMAIN V /\ volumes'[p] \in {V[p].fs, V[p].inner}
    BY <1>2, <1>3
  <2> QED BY <2>1, FilesystemsAreTrees
<1> HIDE DEF V
<1>5. \A k \in DOMAIN rows' :
        \/ \E p : k = <<p, 0, "node">> /\ rows'[k].up = -1 /\ ~rows'[k].loaded
        \/ \E p : /\ k = <<p, 0, "stub">> /\ rows'[k].up = 0 /\ rows'[k].stub = "..."
                  /\ <<p, 0, "node">> \in DOMAIN rows' /\ ~rows'[<<p, 0, "node">>].loaded
  <2>1. /\ DOMAIN rows' = {<<p, 0, "node">> : p \in DOMAIN vs} \cup
                          {<<p, 0, "stub">> : p \in {q \in DOMAIN vs : Browsable(vs[q].state)}}
        /\ \A p \in DOMAIN vs : rows'[<<p, 0, "node">>] = Row(-1, "", FALSE, FALSE, vs[p].state)
        /\ \A p \in DOMAIN vs : Browsable(vs[p].state) => rows'[<<p, 0, "stub">>] = Stub("...", 0)
    BY <1>2 DEF Fresh, VolumeRow, StubRow
  <2>2. ASSUME NEW p \in DOMAIN vs
        PROVE  rows'[<<p, 0, "node">>].up = -1 /\ ~rows'[<<p, 0, "node">>].loaded
    <3> DEFINE r == rows'[<<p, 0, "node">>]
               st == vs[p].state
    <3>1. r = Row(-1, "", FALSE, FALSE, st)
      BY <2>1
    <3> HIDE DEF r, st
    <3>2. r.up = -1 /\ ~r.loaded
      BY <3>1 DEF Row
    <3> QED BY <3>2 DEF r
  <2>3. ASSUME NEW p \in DOMAIN vs, Browsable(vs[p].state)
        PROVE  rows'[<<p, 0, "stub">>].up = 0 /\ rows'[<<p, 0, "stub">>].stub = "..."
    <3> DEFINE r == rows'[<<p, 0, "stub">>]
    <3>1. r = Stub("...", 0)
      BY <2>1, <2>3
    <3> HIDE DEF r
    <3>2. r.up = 0 /\ r.stub = "..."
      BY <3>1 DEF Stub, Row
    <3> QED BY <3>2 DEF r
  <2> SUFFICES ASSUME NEW k \in DOMAIN rows'
               PROVE  \/ \E p : k = <<p, 0, "node">> /\ rows'[k].up = -1 /\ ~rows'[k].loaded
                      \/ \E p : /\ k = <<p, 0, "stub">> /\ rows'[k].up = 0 /\ rows'[k].stub = "..."
                                /\ <<p, 0, "node">> \in DOMAIN rows' /\ ~rows'[<<p, 0, "node">>].loaded
    OBVIOUS
  <2>4. CASE \E p \in DOMAIN vs : k = <<p, 0, "node">>
    BY <2>2, <2>4
  <2>5. CASE \E p \in DOMAIN vs : k = <<p, 0, "stub">> /\ Browsable(vs[p].state)
    <3>1. PICK p \in DOMAIN vs : k = <<p, 0, "stub">> /\ Browsable(vs[p].state)
      BY <2>5
    <3>2. <<p, 0, "node">> \in DOMAIN rows'
      BY <2>1
    <3> QED BY <2>2, <2>3, <3>1, <3>2
  <2> QED BY <2>1, <2>4, <2>5
<1>6. \A p : ~Readable(p)'
  <2>1. DOMAIN mounts' = {}
    BY <1>2, NothingListed
  <2> QED BY <2>1 DEF Readable
<1>7. LinksOK'
  <2> SUFFICES ASSUME NEW k \in DOMAIN rows' PROVE IF k[3] = "node" THEN LinkOK(k)' ELSE StubOK(k)'
    BY DEF LinksOK
  <2>1. ASSUME NEW p, k = <<p, 0, "node">>, rows'[k].up = -1 PROVE k[3] = "node" /\ LinkOK(k)'
    <3>1. k[1] = p /\ k[2] = 0 /\ k[3] = "node"
      BY <2>1
    <3> QED BY <2>1, <3>1 DEF LinkOK
  <2>2. ASSUME NEW p, k = <<p, 0, "stub">>, rows'[k].up = 0, rows'[k].stub = "...",
               <<p, 0, "node">> \in DOMAIN rows', ~rows'[<<p, 0, "node">>].loaded
        PROVE  k[3] # "node" /\ StubOK(k)'
    <3>1. k[1] = p /\ k[2] = 0 /\ k[3] = "stub"
      BY <2>2
    <3> QED BY <2>2, <3>1 DEF StubOK, NodeRow
  <2> QED BY <1>5, <2>1, <2>2
<1>8. WantedOK'
  BY <1>2 DEF WantedOK
<1>9. ChecksOK'
  <2>1. ASSUME NEW k \in DOMAIN rows' PROVE BoxOK(k, check[k], wanted)'
    <3>1. k[2] = 0
      <4>1. \A p : <<p, 0, "node">>[2] = 0 /\ <<p, 0, "stub">>[2] = 0
        OBVIOUS
      <4>2. \E p : k = <<p, 0, "node">> \/ k = <<p, 0, "stub">>
        BY <1>5, <2>1
      <4> QED BY <4>1, <4>2
    <3>2. check'[k] = "none"
      BY <1>2, <2>1
    <3> QED BY <1>6, <3>1, <3>2 DEF BoxOK, Readable
  <2> QED BY <1>2, <2>1 DEF ChecksOK, CheckStates
<1> QED BY <1>4, <1>7, <1>8, <1>9 DEF TickInv

LEMMA TickStep ==
  ASSUME GuiInv, TickInv, [Next]_vars
  PROVE  TickInv'
<1> USE DEF GuiInv
<1>1. CASE UNCHANGED <<volumes, mounts, rows, check, wanted>>
  BY <1>1, TickKept
<1>2. ASSUME NEW k \in DOMAIN rows, Toggle(k)
      PROVE  TickInv'
  BY <1>2, ToggleTick
<1>3. ASSUME NEW k \in DOMAIN rows, Expand(k)
      PROVE  TickInv'
  BY <1>3, ExpandTick
<1>4. ASSUME NEW k \in DOMAIN rows, Select(k)
      PROVE  TickInv'
  <2>1. mounts' = mounts
    <3>1. CASE rows[k].state = "file"
      <4>1. k[1] \in DOMAIN mounts
        BY <1>4, <3>1 DEF Select, TreeOK, RowsOK, RowOK
      <4> QED BY <1>4, <3>1, <4>1 DEF Select, Mounted
    <3>2. CASE rows[k].state # "file"
      BY <1>4, <3>2 DEF Select
    <3> QED BY <3>1, <3>2
  <2> QED BY <1>1, <1>4, <2>1 DEF Select
<1>5. CASE OpenEnds
  <2>1. /\ busy.op = "open" /\ busy.done
        /\ IF busy.opened.error THEN UNCHANGED <<image, tree, wanted>> ELSE BuildTree(busy.opened)
    BY <1>5 DEF OpenEnds, Joined
  <2>2. /\ busy \in [op : {"open"}, dialog : BOOLEAN, done : BOOLEAN, source : Sources,
                     key : Keys, opened : Results]
        /\ busy.opened = Produced(busy.source, busy.key)
    BY <2>1, BusyFacts
  <2>3. CASE busy.opened.error
    BY <1>1, <2>1, <2>3 DEF tree
  <2>4. CASE ~busy.opened.error
    <3>1. busy.source \in Sources
      BY <2>2
    <3>2. ~Produced(busy.source, busy.key).error /\ BuildTree(Produced(busy.source, busy.key))
      BY <2>1, <2>2, <2>4
    <3> QED BY <3>1, <3>2, BuildTick
  <2> QED BY <2>3, <2>4
<1>6. CASE UnlockEnds
  <2> DEFINE p == busy.part
  <2>1. busy.op = "unlock" /\ UNCHANGED <<image, preview, wanted>>
    BY <1>6 DEF UnlockEnds
  <2>2. p \in DOMAIN volumes /\ State(p) \in {"bitlocker", "filevault"}
    BY <2>1, BusyFacts
  <2>3. CASE busy.key # "right"
    BY <1>1, <1>6, <2>1, <2>3 DEF UnlockEnds
  <2>4. CASE busy.key = "right" /\ ~Behind(p).cipher
    BY <1>6, <2>1, <2>2, <2>4, NoCipherTick DEF UnlockEnds
  <2>5. CASE busy.key = "right" /\ Behind(p).cipher
    BY <1>6, <2>1, <2>2, <2>5, SwapTick DEF UnlockEnds
  <2> QED BY <2>3, <2>4, <2>5
<1>7. ASSUME NEW s \in Sources, NEW key \in Keys, Open(s, key)
      PROVE  TickInv'
  BY <1>1, <1>7 DEF Open, tree
<1>8. ASSUME NEW p \in DOMAIN volumes, NEW key \in Keys \ {"none"}, Unlock(p, key)
      PROVE  TickInv'
  BY <1>1, <1>8 DEF Unlock, tree
<1>9. CASE EscapeCloses \/ Export \/ OpenWorker \/ OpenThrows \/ UnlockWorker \/ TimerCloses \/ ExportEnds
  BY <1>1, <1>9 DEF EscapeCloses, Export, OpenWorker, OpenThrows, UnlockWorker, TimerCloses, ExportEnds, tree
<1>10. CASE UNCHANGED vars
  BY <1>1, <1>10 DEF vars, tree
<1> QED BY <1>2, <1>3, <1>4, <1>5, <1>6, <1>7, <1>8, <1>9, <1>10 DEF Next, User, Program

(* What is exported is what was ticked: whatever is ticked, unticked and   *)
(* expanded, in whatever order, the rows collected cover exactly the files *)
(* ticked, and each once.                                                  *)
THEOREM GuiTickedIsExported == Spec => []TickedIsExported
<1>1. Init => TickInv
  BY TickInit
<1>2. GuiInv /\ TickInv /\ [Next]_vars => TickInv'
  BY TickStep
<1>3. GuiInv /\ TickInv => TickedIsExported
  BY TickedCovers DEF GuiInv
<1> QED BY GuiStaysConsistent, <1>1, <1>2, <1>3, PTL DEF Spec
=============================================================================
