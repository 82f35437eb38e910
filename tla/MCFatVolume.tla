----------------------------- MODULE MCFatVolume -----------------------------
(* Small damaged volumes for TLC: clusters of two slots, two FAT entries   *)
(* to a block.                                                             *)
EXTENDS FatVolume

Empty(kind) ==
  [kind |-> kind, free |-> FALSE, sum |-> 0, legal |-> TRUE, dir |-> FALSE, size |-> 0, first |-> 0]
End == Empty("end")
Bytes == Empty("junk")
Dots == Empty("dot")
Long(sum) == [Empty("lfn") EXCEPT !.sum = sum]
File(first, size) == [Empty("entry") EXCEPT !.first = first, !.size = size, !.sum = 1]
Dir(first) == [File(first, 0) EXCEPT !.dir = TRUE]
Gone(e) == [e EXCEPT !.free = TRUE]

Eof == 268435455
Tagged(c) == c + 268435456

Disk32(fat, unit) ==
  [bits |-> 32, count |-> Len(fat), root |-> 2, rootUnits |-> 0, fat |-> fat,
   straddles |-> {}, splits |-> {}, unit |-> unit, weak |-> {}, weakFat |-> {}, image |-> Len(unit)]
(* A root with one file, live or deleted, and every FAT over the data.     *)
DataFats == {<<Eof, a, b, c>> : a \in {0, 3, Tagged(5)}, b \in {0, 3, 5, Eof}, c \in {0, 3, 4, 5}}
DataDisk(fat, e) == Disk32(fat, <<e, End, Bytes, Bytes, Bytes, Bytes, Bytes, Bytes>>)
DataDisks ==
  {DataDisk(f, e) : f \in DataFats, e \in {File(3, 5), Gone(File(4, 4))}}
WeakDisks ==
  {[DataDisk(f, File(3, 6)) EXCEPT !.weak = w, !.weakFat = x, !.image = i] :
     f \in {<<Eof, 4, 5, Eof>>, <<Eof, 5, 3, Tagged(4)>>}, w \in {{}, {4}, {3, 6}, {1}},
     x \in {{}, {2, 4}, {5}}, i \in {6, 8}}

(* Every chain of directory clusters, with folders, deleted entries, an    *)
(* end marker and a long name across two clusters.                         *)
DirFats ==
  {<<a, b, c, d>> : a \in {3, 4, Eof}, b \in {2, 3, 4, 0}, c \in {2, 5, Eof}, d \in {3, Eof}}
DirUnits ==
  {<<File(5, 1), Long(1), e, Dir(4), Dots, f, Dir(2), End>> :
     e \in {File(5, 2), Gone(Dir(4)), End}, f \in {End, Gone(Dir(3))}}
DirDisks == {Disk32(f, u) : f \in DirFats, u \in DirUnits} \cup
  {Disk32(<<3, 4, Eof, 0>>, <<Long(1), Long(1), Long(1), Long(1), Long(1), File(5, 1), End, End>>)}

(* FAT12 and FAT16: a fixed root, special values of their own, and FAT12   *)
(* entries across two blocks.                                              *)
NarrowDisk(bits, next, slots) ==
  [Disk32(<<next, 4, 5, 0>>, slots \o <<File(4, 2), End, Bytes, Bytes, Bytes, Bytes, Bytes, Bytes>>)
     EXCEPT !.bits = bits, !.root = 0, !.rootUnits = 2]
Specials == {<<12, 4087>>, <<12, 4088>>, <<12, 3>>, <<16, 65527>>, <<16, 65535>>, <<16, 4088>>}
NarrowDisks ==
  {NarrowDisk(x[1], x[2], s) : x \in Specials,
     s \in {<<File(2, 5), Dir(2)>>, <<Long(1), Gone(File(2, 3))>>, <<Long(2), File(2, 4)>>}}
SplitDisks ==
  {[NarrowDisk(12, 3, <<File(2, 6), Dir(3)>>) EXCEPT
      !.straddles = {3}, !.weakFat = w, !.weak = x] : w \in {{}, {3}}, x \in {{}, {1}, {2, 3}}}

(* A FAT12 entry across two sectors, the second of which may not read: its *)
(* first byte names another file's cluster.  Cluster 20 is 14 in hex, 4    *)
(* with the high digits gone.                                              *)
HalfDisks ==
  {[NarrowDisk(12, 20, <<File(3, 6), File(4, 2)>>) EXCEPT
      !.count = 20, !.fat = [c \in 1..20 |-> IF c + 1 = 3 THEN x ELSE IF c + 1 = 20 THEN 21 ELSE 4095],
      !.unit = <<File(3, 6), File(4, 2)>> \o [u \in 1..40 |-> Bytes], !.image = 42,
      !.splits = {3}, !.weakFat = w] : x \in {20, 4084}, w \in {{}, {3}}}

AllDisks == HalfDisks \cup DataDisks \cup WeakDisks \cup DirDisks \cup NarrowDisks \cup SplitDisks
CONSTANTS r1, r2
TwoReaders == {r1, r2}
EitherWay == Permutations(TwoReaders)
=============================================================================
