----------------------------- MODULE MCNtfsVolume -----------------------------
(* Small NTFS volumes for TLC.                                             *)
EXTENDS NtfsVolume

None == [type |-> "other", named |-> FALSE, resident |-> FALSE, vcn |-> 0, runs |-> <<>>, alloc |-> 0,
         size |-> 0, value |-> <<>>, refs |-> <<>>, entries |-> <<>>]
Data(vcn, runs, size) == [None EXCEPT !.type = "data", !.vcn = vcn, !.runs = runs, !.size = size]
Inline(v) == [None EXCEPT !.type = "data", !.resident = TRUE, !.value = v]
Ref3(no, head, tail) == [no |-> no, head |-> head, tail |-> tail]
List(refs, res, runs) ==
  [None EXCEPT !.type = "list", !.resident = res, !.refs = refs, !.runs = IF res THEN <<>> ELSE runs]
RootIndex(es) == [None EXCEPT !.type = "root", !.resident = TRUE, !.entries = es]
Alloc(runs) == [None EXCEPT !.type = "alloc", !.runs = runs]

File(id, size) == [id |-> id, dir |-> FALSE, alias |-> FALSE, size |-> size]
Folder(id) == [File(id, 0) EXCEPT !.dir = TRUE]
Alias(id) == [File(id, 0) EXCEPT !.alias = TRUE]

Blank == [tag |-> "data", whole |-> TRUE, attrs |-> <<>>, entries |-> <<>>, used |-> 1, live |-> TRUE]
Record(as) == [Blank EXCEPT !.tag = "FILE", !.attrs = as]
Block(es, n, live) == [Blank EXCEPT !.tag = "INDX", !.entries = es, !.used = n, !.live = live]
More(es) == [Blank EXCEPT !.entries = es]

Base == [k \in 1..24 |-> Blank]
Put(us, f) == [k \in DOMAIN us |-> IF k \in DOMAIN f THEN f[k] ELSE us[k]]

(* Clusters of two units; the MFT is clusters 0, 1, 4 and 2, so records    *)
(* 0..3 are units 1..4, 4 and 5 units 9 and 10, 6 and 7 units 5 and 6.     *)
Mft == Record(<<Data(0, << <<0, 2>>, <<4, 1>>, <<2, 1>> >>, 8)>>)
FileVolumes ==
  {[boot |-> "NTFS", mft |-> 0, bad |-> b,
    unit |-> Put(Base,
      (1 :> Mft) @@ (10 :> Record(<<RootIndex(<<File(6, 5), File(1, 1)>>)>>)) @@
      (5 :> [Record(<<List(<<Ref3(6, 1, 1), Ref3(r1, 1, t), Ref3(r2, 2, 2)>>, res, << <<11, 1>> >>)>> \o h) EXCEPT !.whole = w]) @@
      (r1 + 1 :> Record(<<Data(v, << <<6, 1>>, <<x, 1>> >>, IF v = 0 THEN 5 ELSE 0)>>)) @@
      (r2 + 1 :> Record(<<[Data(9, <<>>, 7) EXCEPT !.named = TRUE], Data(2 - v, << <<8, 2>> >>, IF v = 0 THEN 0 ELSE 5)>>)) @@
      (2 :> Record(<<Inline(<<77>>)>>)))] :
     r1 \in {2, 3}, r2 \in {2, 3}, res \in BOOLEAN, h \in {<<>>, <<None>>}, w \in BOOLEAN, v \in {0, 2},
     x \in {-1, 7}, b \in {{}, {14}, {15}, {23}, {24}, {3}}, t \in {1, 2}}

(* Folders: entries in the root and in index blocks, which the folder's    *)
(* own record or another one tells of; the last block may have been given  *)
(* back, with a key that moved or of a file that is gone still in it.      *)
Blocks == <<Alloc(<< <<4, 1>>, <<-1, 1>>, <<8, 2>> >>)>>
FolderVolumes ==
  {[boot |-> "NTFS", mft |-> 0, bad |-> b,
    unit |-> Put(Base,
      (1 :> Record(<<Data(0, << <<0, 4>> >>, 8)>>)) @@
      (6 :> Record(<<RootIndex(<<File(7, 1), Alias(7), Folder(5)>>)>>
                   \o IF far THEN <<List(<<Ref3(3, 1, 1)>>, TRUE, <<>>)>> ELSE Blocks)) @@
      (4 :> Record(Blocks)) @@
      (9 :> Block(<<File(2, 1)>>, 2, TRUE)) @@ (10 :> More(<<Alias(2), File(3, 1)>>)) @@
      (17 :> Block(<<File(4, 1)>>, 1, TRUE)) @@
      (19 :> l) @@
      (8 :> Record(<<Inline(<<55>>)>>)))] :
     far \in BOOLEAN, b \in {{}, {10}, {17}},
     l \in {Block(<<File(1, 1)>>, 1, TRUE), Block(<<File(1, 1)>>, 1, FALSE), Block(<<Alias(7), File(2, 1)>>, 1, FALSE)}}

Broken == {[boot |-> b, mft |-> 0, bad |-> c, unit |-> Base] : b \in {"NTFS", "other", "broken"}, c \in {{}, {1}}}

Small == {v \in FileVolumes : v.unit[3].tag = "FILE" /\ v.unit[4].tag = "FILE"}
           \cup FolderVolumes \cup Broken
=============================================================================
