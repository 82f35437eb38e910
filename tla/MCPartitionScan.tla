--------------------------- MODULE MCPartitionScan ---------------------------
(* Small images for TLC: twenty sectors, a "MiB" of two.                   *)
EXTENDS PartitionScan

Blank == [size |-> 20, native |-> 1, ddr |-> FALSE, block |-> 1, map |-> <<>>,
          signed |-> TRUE, mbr |-> <<>>, primary |-> None, backup |-> None,
          array |-> <<>>, boot |-> <<>>, bad |-> {}]

Data(start, sectors) == [type |-> "data", start |-> start, sectors |-> sectors]
Guard == [type |-> "protective", start |-> 1, sectors |-> 19]

(* MBR tables: entries that are disjoint, nested, overlapping, equal, past *)
(* the end of the image, or beyond it altogether.                          *)
MbrEntries == {Data(2, 2), Data(3, 1), Data(2, 9), Data(9, 4), Data(18, 4), Data(22, 3), Data(0, 1)}
MbrDisks == {[Blank EXCEPT !.mbr = <<a, b>>] : a \in MbrEntries, b \in MbrEntries}

(* 4Kn: the same entries mean twice the offset.                            *)
WideDisks == {[Blank EXCEPT !.native = 2, !.mbr = <<Data(3, 2)>>]}

(* APM: bookkeeping, an unsigned entry, one beyond the image; or nothing   *)
(* usable, so that the MBR speaks.                                         *)
Apm(signed, start, blocks, keeping) ==
  [signed |-> signed, start |-> start, blocks |-> blocks, bookkeeping |-> keeping]
ApmDisks ==
  {[Blank EXCEPT !.ddr = TRUE, !.block = b, !.mbr = <<Data(2, 2)>>,
                 !.map = <<Apm(TRUE, 1, 2, TRUE), Apm(s, 3, 3, FALSE), Apm(TRUE, 12, 2, FALSE)>>] :
     b \in {1, 2}, s \in BOOLEAN}

(* GPT: every combination of surviving headers, and arrays that lost some  *)
(* of their slots.                                                         *)
Std(entry) == [entry |-> entry, firstUsable |-> 2, lastUsable |-> 18, num |-> 2, stride |-> 1]
Slot(first, last) == [used |-> TRUE, first |-> first, last |-> last]
Free == [used |-> FALSE, first |-> 0, last |-> 0]
Wrecked == Slot(7, 300)
Slots == {<<Slot(3, 4), Slot(9, 10)>>, <<Slot(3, 4), Free>>, <<Wrecked, Slot(9, 10)>>, <<Slot(9, 5), Wrecked>>}
GptDisks ==
  {[Blank EXCEPT !.mbr = <<Guard>>, !.primary = p, !.backup = b,
                 !.array = [x \in {2, 18} |-> IF x = 2 THEN s ELSE t]] :
     p \in {None, Std(2), Std(18)}, b \in {None, Std(18)}, s \in Slots, t \in Slots}

(* Entries of two slots, as one header, both or none says; a header that   *)
(* counts one entry only.                                                  *)
Spaced == {<<Slot(3, 4), Free, Slot(9, 10)>>, <<Slot(3, 4), Slot(6, 6), Slot(9, 10)>>, <<Wrecked, Free, Slot(9, 10)>>}
Wide(entry) == [Std(entry) EXCEPT !.stride = 2]
Short(entry) == [Std(entry) EXCEPT !.num = 1]
SpacedDisks ==
  {[Blank EXCEPT !.mbr = <<Guard>>, !.primary = p, !.backup = b,
                 !.array = [x \in {2, 18} |-> IF x = 2 THEN s ELSE t]] :
     p \in {None, Wide(2), Wide(18), Short(2)}, b \in {None, Wide(18)}, s \in Spaced, t \in Spaced}

Rec(kind, secs) ==
  [kind |-> kind, signed |-> TRUE, sane |-> TRUE, secs |-> secs, above |-> 0,
   hidden |-> 0, copies |-> <<>>]
Ntfs == Rec("NTFS", 2)
Tiny == Rec("FAT", 1)
Long == Rec("EXFAT", 7)
Huge == Rec("EXFAT", 30)
BitLocker(h) == [Rec("FVE", 0) EXCEPT !.hidden = h, !.copies = <<0, 4, 2>>]
Stray == [Rec("NTFS", 2) EXCEPT !.signed = FALSE]
Fat32 == [Rec("FAT32", 4) EXCEPT !.above = 1]
Pair(x, a, y, b) == [s \in {x, y} |-> IF s = x THEN a ELSE b]
Boots ==
  {<<>>, Pair(12, Long, 16, Tiny), Pair(12, Long, 14, Ntfs)} \cup
  {Pair(x, a, y, b) : x \in {4, 5, 6}, a \in {Ntfs, Tiny, Long, BitLocker(5)},
                      y \in {7, 11, 16}, b \in {Ntfs, Tiny, Huge}}
FewBoots == {<<>>, Pair(4, Stray, 10, BitLocker(3)), Pair(6, Ntfs, 8, Tiny), Pair(5, Tiny, 6, Ntfs), Pair(0, Tiny, 6, Tiny)}

With(disks, boots, bads) ==
  {[d EXCEPT !.boot = b, !.bad = x] : d \in disks, b \in boots, x \in bads}

LostDisks ==
  With({d \in MbrDisks : d.mbr[1].start <= d.mbr[2].start}, Boots, {{}})
    \cup With({[Blank EXCEPT !.mbr = <<Data(2, 2)>>]}, Boots, {{5}, {9}})
    \cup With(GptDisks \cup SpacedDisks \cup ApmDisks \cup WideDisks, FewBoots, {{}})
(* A lost FAT32 volume whose FAT size, above its sector count, is not 0.   *)
Fat32Disks == With({[Blank EXCEPT !.mbr = <<Data(2, 2)>>]}, {[s \in {6} |-> Fat32]} \cup Boots, {{}})

AllModes == {"off", "fast", "deep"}
=============================================================================
