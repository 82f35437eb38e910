--------------------------- MODULE MCExfatVolume ---------------------------
(* Small damaged exFAT volumes for TLC: clusters of four entries.          *)
EXTENDS ExfatVolume

Empty(kind) ==
  [kind |-> kind, live |-> TRUE, tag |-> 0, pos |-> 0, count |-> 0, dir |-> FALSE, names |-> 0,
   legal |-> TRUE, noFat |-> FALSE, first |-> 0, size |-> 0, valid |-> 0]
End == Empty("end")
Data == Empty("other")
Bitmap(c) == [Empty("bitmap") EXCEPT !.first = c, !.size = 1]
(* The three entries of a file's set.                                      *)
Set3(tag, dir, used, noFat, first, size, valid) ==
  LET e == [Empty("file") EXCEPT !.tag = tag, !.live = used]
  IN  <<[e EXCEPT !.count = 2, !.dir = dir],
        [e EXCEPT !.kind = "stream", !.pos = 1, !.names = 1, !.noFat = noFat, !.first = first,
                  !.size = size, !.valid = valid],
        [e EXCEPT !.kind = "name", !.pos = 2]>>
File(tag, noFat, first, size, valid) == Set3(tag, FALSE, TRUE, noFat, first, size, valid)
Gone(tag, noFat, first, size) == Set3(tag, FALSE, FALSE, noFat, first, size, size)
Dir(tag, used, noFat, first, size) == Set3(tag, TRUE, used, noFat, first, size, size)

Eof == 99
Both == [b \in {"primary", "backup"} |-> TRUE]
Fill(s, n) == s \o [k \in 1..(n - Len(s)) |-> Data]
Disk(fat, unit) ==
  [boot |-> Both, count |-> Len(fat), root |-> 2, fat |-> fat, unit |-> Fill(unit, 4 * Len(fat)),
   bad |-> {}, badFat |-> {}]

(* Files of one and two clusters, chained or not, and every FAT of them.   *)
FileDisks ==
  {Disk(<<Eof, a, b, Eof>>, File(1, n, 3, 7, v) \o <<End>>) :
     a \in {0, 4, 5, 9}, b \in {0, 3, 5, Eof}, n \in BOOLEAN, v \in {0, 3, 7, 8}} \cup
  {[Disk(<<Eof, 5, Eof, 4>>, File(1, FALSE, 3, 10, 0) \o <<End>>) EXCEPT
      !.bad = b, !.badFat = f, !.boot["primary"] = p] :
     b \in {{}, {5}, {6, 14}, {2}}, f \in {{}, {3}, {5}}, p \in BOOLEAN} \cup
  {[Disk(<<Eof, 5, Eof, 4>>, <<End>>) EXCEPT !.boot = [b \in {"primary", "backup"} |-> FALSE]]}

(* Deleted files, and folders that own or share their clusters.            *)
SharedDisks ==
  {Disk(<<3, Eof, 5, Eof, Eof, Eof>>,
        d \o <<Bitmap(6)>> \o Gone(3, n, f, 6) \o <<End>> \o Dir(4, TRUE, TRUE, 3, 4) \o <<End>> \o g) :
     d \in {Dir(1, l, FALSE, c, 4) : l \in BOOLEAN, c \in {2, 4}}, n \in BOOLEAN, f \in {4, 5, 6, 7},
     g \in {File(5, TRUE, 7, 2, 2), Gone(5, TRUE, 6, 2)}}

(* Sets across clusters of a folder, contiguous or chained, with stale FAT *)
(* values, broken sets and debris behind the end.                          *)
Folders ==
  {Disk(<<Eof, a, b, Eof, Eof>>, Dir(1, l, n, 3, 8) \o <<End>> \o <<x>> \o File(2, n, 6, 2, 2) \o s \o y) :
     a \in {0, 4, 5}, b \in {0, 3, 5}, l \in BOOLEAN, n \in BOOLEAN,
     x \in {Data, End, Gone(9, TRUE, 6, 1)[1]}, s \in {<<>>, <<End>>}, y \in {File(7, TRUE, 6, 3, 0)}} \cup
  {Disk(<<Eof, a, Eof, Eof, Eof>>, Dir(1, TRUE, n, 3, 8) \o <<End, Data, Data, Data>>
     \o File(2, n, 6, 2, 2) \o <<Data, Data>> \o SubSeq(File(7, n, 6, 4, 0), 2, 3)) : a \in {4, 5}, n \in BOOLEAN} \cup
  {Disk(<<Eof, 4, Eof, Eof, Eof>>, Dir(1, TRUE, n, 3, 8) \o <<End>> \o
     SubSeq(Gone(8, TRUE, 6, 2), 1, k) \o File(2, n, 6, 2, 2)) : k \in {1, 2}, n \in BOOLEAN}

(* A deleted file whose clusters a live file, the folder of two clusters   *)
(* it is in, or the bitmap has now; sectors of the root, of the folder and *)
(* of the FAT do not read.                                                 *)
HurtDisks ==
  LET Root2(g, d, last) == IF last THEN g \o <<Bitmap(8)>> \o d ELSE d \o <<Bitmap(8)>> \o g IN
  {[Disk(<<3, Eof, 5, Eof, Eof, Eof, Eof>>,
         Root2(Gone(3, TRUE, f, 2), Dir(1, TRUE, n, 4, 8), o) \o <<End>>
         \o <<Data>> \o File(4, TRUE, 7, 2, 2) \o File(5, TRUE, 6, 4, 0)) EXCEPT !.bad = b, !.badFat = w] :
     n \in BOOLEAN, o \in BOOLEAN, f \in {5, 6, 7, 8},
     b \in {{}, {4}, {9}, {11}, {13}}, w \in {{}, {2}, {4}}}

AllVolumes == FileDisks \cup SharedDisks \cup Folders \cup HurtDisks

CONSTANTS r1, r2
TwoReaders == {r1, r2}
EitherWay == Permutations(TwoReaders)
=============================================================================
