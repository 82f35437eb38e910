---------------------------- MODULE PartitionScan ----------------------------
(***************************************************************************)
(* scanPartitions (src/partition/partition.cpp): what the rest of the      *)
(* program is offered as volumes.  The table is read first (APM, GPT with  *)
(* whichever headers survive, MBR), then every gap the table leaves is     *)
(* searched for boot records of volumes the table forgot.                  *)
(*                                                                         *)
(* Positions and lengths are in sectors of 512 bytes.  Tables and boot     *)
(* records are the fields the code looks at; a sector in `bad` cannot be   *)
(* read.  A disk says in `native` how many sectors its LBAs span: the code *)
(* has to find out.                                                        *)
(***************************************************************************)
EXTENDS Naturals, Sequences, FiniteSets, SequencesExt

CONSTANTS
  Disks,            \* the images considered
  Modes,            \* OrphanScan values considered
  Large,            \* sectors per LBA on a 4Kn drive (8)
  MiB, Dense, FastCap, Chunk,  \* sectors in a MiB and the windows of the search
  TableLbas,        \* LBAs of a GPT's header and array (33)
  TableSlots,       \* entries of a standard GPT (128)
  ApmMax,           \* APM_MAX_ENTRIES
  Field,            \* 2^32: one more than a 32-bit field holds
  None              \* no header

Boot == [kind : {"FVE", "NTFS", "EXFAT", "FAT32", "FAT"},
         signed : BOOLEAN,    \* ends in 55 AA
         sane : BOOLEAN,      \* sector and cluster sizes are plausible
         secs : Nat,          \* the sector count it records
         above : Nat,         \* the 32-bit field after that count
         hidden : Nat,        \* FVE: its own start
         copies : Seq(Nat)]   \* FVE: the size in each metadata copy, 0 if unusable

MbrEntry == [type : {"empty", "data", "protective"}, start : Nat, sectors : Nat]
GptHeader == [entry : Nat, firstUsable : Nat, lastUsable : Nat,
              num : Nat \ {0},     \* entries the array has
              stride : Nat \ {0}]  \* slots of 128 bytes to an entry
GptEntry == [used : BOOLEAN, first : Nat, last : Nat]
ApmEntry == [signed : BOOLEAN, start : Nat, blocks : Nat, bookkeeping : BOOLEAN]

ASSUME WindowAssumption ==
  /\ {MiB, Chunk, Dense, FastCap, Large} \subseteq Nat \ {0}
  /\ {TableLbas, ApmMax, Field} \subseteq Nat /\ TableSlots \in Nat \ {0}

ASSUME DiskAssumption ==
  \A d \in Disks :
    /\ d.size \in Nat \ {0} /\ d.native \in {1, Large}
    /\ d.ddr \in BOOLEAN /\ d.block \in Nat \ {0} /\ d.map \in Seq(ApmEntry)
    /\ d.signed \in BOOLEAN /\ d.mbr \in Seq(MbrEntry)
    /\ d.primary \in GptHeader \cup {None} /\ d.backup \in GptHeader \cup {None}
    /\ \A a \in DOMAIN d.array : a \in Nat /\ d.array[a] \in Seq(GptEntry)
    /\ \A b \in DOMAIN d.boot : b \in Nat /\ d.boot[b] \in Boot
    /\ d.bad \subseteq Nat

-----------------------------------------------------------------------------
(* The partition table.                                                    *)

Least(a, b) == IF a <= b THEN a ELSE b
Most(a, b) == IF a >= b THEN a ELSE b

Record(d, at) == at < d.size /\ at \in DOMAIN d.boot /\ at \notin d.bad

(* detectSectorSize: an entry that fits and has a boot record where this   *)
(* reading of it says speaks for that reading; ties go to 512.             *)
Corroborates(d, e, unit) ==
  /\ e.type = "data" /\ e.sectors # 0 /\ e.start # 0
  /\ (e.start + e.sectors) * unit <= d.size
  /\ Record(d, e.start * unit)

SectorUnit(d) ==
  LET Speaks(unit) == \E i \in DOMAIN d.mbr : Corroborates(d, d.mbr[i], unit)
  IN  IF ~Speaks(1) /\ Speaks(Large) THEN Large ELSE 1

Located(first, len) == [first |-> first, len |-> len]

(* The elements of seq at the given positions, in order.                   *)
Picked(seq, at) ==
  LET upTo[n \in 0..Len(seq)] ==
        IF n = 0 THEN <<>>
        ELSE IF n \in at THEN Append(upTo[n - 1], seq[n]) ELSE upTo[n - 1]
  IN  upTo[Len(seq)]

Placed(seq, Place(_)) == [i \in DOMAIN seq |-> Place(seq[i])]

(* scanApm: entries up to the first unsigned one, bookkeeping left out.    *)
Signed(d) ==
  {i \in 1..Least(Len(d.map), ApmMax) : \A j \in 1..i : d.map[j].signed}

ScanApm(d) ==
  LET Volumes(e) == e.blocks # 0 /\ ~e.bookkeeping /\ e.start * d.block < d.size
      Place(e) == Located(e.start * d.block, e.blocks * d.block)
  IN  Placed(Picked(d.map, {i \in Signed(d) : Volumes(d.map[i])}), Place)

(* A header or an array is found only by reading in the unit it was        *)
(* written in.                                                             *)
Header(d, h, unit) == IF unit = d.native THEN h ELSE None
Array(d, lba, unit) == IF unit = d.native /\ lba \in DOMAIN d.array THEN d.array[lba] ELSE <<>>

StandardHeader(d, unit) ==
  LET lastLba == (d.size \div unit) - 1
  IN  [entry |-> 2, num |-> TableSlots, stride |-> 1, firstUsable |-> TableLbas + 1,
       lastUsable |-> IF lastLba >= TableLbas + 1 THEN lastLba - TableLbas ELSE 0]

(* Mutant: only the array the surviving header points to is read.          *)
Candidates_headerOnly(g, backup) == <<g.entry>>

(* Where the entry array may be, best first.                               *)
Candidates(g, backup) ==
  <<2>> \o (IF g.entry # 2 THEN <<g.entry>> ELSE <<>>)
        \o (IF backup # None /\ backup.entry \notin {2, g.entry} THEN <<backup.entry>> ELSE <<>>)

(* An array is a run of 128-byte slots; an entry begins every stride slots *)
(* and there are num of them.                                              *)
EntrySlot(g, n) == n <= g.num * g.stride /\ (n - 1) % g.stride = 0

Fits(g, e) == e.used /\ e.first <= e.last
              /\ e.first >= g.firstUsable /\ e.last <= g.lastUsable

EntriesKept(g, seq) == {n \in DOMAIN seq : EntrySlot(g, n) /\ Fits(g, seq[n])}
EntryExtent(e, unit) == Located(e.first * unit, (e.last - e.first + 1) * unit)

ReadGptEntries(d, lba, g, unit) ==
  LET seq == Array(d, lba, unit)
      Place(e) == EntryExtent(e, unit)
  IN  Placed(Picked(seq, EntriesKept(g, seq)), Place)

(* The geometry: from whichever header survives, the primary before the    *)
(* backup.  No checksum is compared.                                       *)
Geometry(d, unit) ==
  LET primary == Header(d, d.primary, unit)
      backup == Header(d, d.backup, unit)
  IN  CASE primary # None -> primary
        [] primary = None /\ backup # None -> backup
        [] OTHER -> StandardHeader(d, unit)

(* scanGpt: the candidate that yields most entries, the first of them on a *)
(* tie.                                                                    *)
ScanGpt(d, unit) ==
  LET g == Geometry(d, unit)
      c == Candidates(g, Header(d, d.backup, unit))
      Yield(i) == ReadGptEntries(d, c[i], g, unit)
      best == CHOOSE i \in DOMAIN c :
                /\ \A j \in DOMAIN c : Len(Yield(j)) <= Len(Yield(i))
                /\ \A j \in 1..(i - 1) : Len(Yield(j)) < Len(Yield(i))
  IN  Yield(best)

MbrPartitions(d, unit) ==
  LET Listed(e) == e.type = "data" /\ e.sectors # 0
      Place(e) == Located(e.start * unit, e.sectors * unit)
  IN  Placed(Picked(d.mbr, {i \in DOMAIN d.mbr : Listed(d.mbr[i])}), Place)

(* A boot record in sector 0 of a kind the test knows: exFAT is not among  *)
(* them.                                                                   *)
BareVolume(d) == Record(d, 0) /\ d.boot[0].kind # "EXFAT"

Protective(d) == \E i \in DOMAIN d.mbr : d.mbr[i].type = "protective"

(* The table scanPartitions settles on, or <<>> for the whole image.       *)
Table(d) ==
  LET unit == SectorUnit(d) IN
  CASE d.ddr /\ ScanApm(d) # <<>> -> ScanApm(d)
    [] ~(d.ddr /\ ScanApm(d) # <<>>) /\ d.signed /\ ~BareVolume(d) ->
         IF Protective(d) /\ ScanGpt(d, unit) # <<>>
         THEN ScanGpt(d, unit) ELSE MbrPartitions(d, unit)
    [] OTHER -> <<>>

-----------------------------------------------------------------------------
(* Gaps and boot records.                                                  *)

End(p) == p.first + p.len

(* Extents are swept in the order of their beginnings, then their ends.    *)
Lex(a, b) == a[1] < b[1] \/ (a[1] = b[1] /\ a[2] <= b[2])
Extents(parts) == {<<p.first, End(p)>> : p \in {q \in ToSet(parts) : q.len # 0}}
LastOf(S) == CHOOSE u \in S : \A v \in S : Lex(v, u)

(* Mutant: the cursor goes to the end of the last partition, not to the    *)
(* furthest end so far.                                                    *)
PastUsed_last(acc, used) ==
  [cursor |-> used[2],
   gaps |-> IF used[1] > acc.cursor THEN Append(acc.gaps, [from |-> acc.cursor, to |-> used[1]])
            ELSE acc.gaps]

PastUsed(acc, used) ==
  [cursor |-> Most(acc.cursor, used[2]),
   gaps |-> IF used[1] > acc.cursor THEN Append(acc.gaps, [from |-> acc.cursor, to |-> used[1]])
            ELSE acc.gaps]

(* unallocatedGaps: the first MiB, which holds the table, is left out.     *)
Swept(extents) ==
  MapThenFoldSet(LAMBDA used, acc : PastUsed(acc, used), [cursor |-> MiB, gaps |-> <<>>],
                 LAMBDA used : used, LastOf, extents)

UnallocatedGaps(parts, size) ==
  LET end == Swept(Extents(parts))
  IN  IF end.cursor < size THEN Append(end.gaps, [from |-> end.cursor, to |-> size])
      ELSE end.gaps

(* bitlockerSelfSize: the first usable copy of the metadata.               *)
SelfSize(b) ==
  IF \A i \in DOMAIN b.copies : b.copies[i] = 0 THEN 0
  ELSE b.copies[CHOOSE i \in DOMAIN b.copies :
                  b.copies[i] # 0 /\ \A j \in 1..(i - 1) : b.copies[j] = 0]

(* The length identifyVolume reads off a record.  The FAT32 count is a     *)
(* 32-bit field read as 64 bits.                                           *)
RecordedLength(b) ==
  CASE b.kind = "FVE" -> SelfSize(b)
    [] b.kind = "NTFS" -> b.secs + 1
    [] b.kind = "FAT32" -> b.secs + b.above * Field
    [] OTHER -> b.secs

(* identifyVolume: 0 when the record is not accepted.                      *)
Identified(d, at) ==
  IF /\ Record(d, at) /\ d.boot[at].signed /\ d.boot[at].sane
     /\ d.boot[at].kind = "FVE" => d.boot[at].hidden \in {0, at}
     /\ RecordedLength(d.boot[at]) <= d.size - at
  THEN RecordedLength(d.boot[at]) ELSE 0

-----------------------------------------------------------------------------
VARIABLES
  disk, mode,
  pc,        \* "gap", "dense", "stride", "done"
  known,     \* the table's partitions
  gaps,      \* gaps not begun; the first is the one being searched
  off,       \* where the search is
  covered,   \* end of the last volume confirmed in this gap
  found      \* volumes found, each with the gap: how many were left

vars == <<disk, mode, pc, known, gaps, off, covered, found>>

(* scanForOrphans searches the gaps, unless it is switched off or there is *)
(* no table: then the whole image is one volume.                           *)
Searched(d, m) == Table(d) # <<>> /\ m # "off"

(* The table is read in one go; the search takes the steps.                *)
Init ==
  /\ disk \in Disks /\ mode \in Modes
  /\ known = IF Table(disk) = <<>> THEN <<Located(0, disk.size)>> ELSE Table(disk)
  /\ gaps = IF Searched(disk, mode) THEN UnallocatedGaps(known, disk.size) ELSE <<>>
  /\ pc = "gap"
  /\ off = 0 /\ covered = 0
  /\ found = <<>>

Gap == Head(gaps)

BeginGap ==
  /\ pc = "gap" /\ gaps # <<>>
  /\ Gap.to - Gap.from >= MiB
  /\ pc' = "dense"
  /\ off' = Gap.from /\ covered' = Gap.from
  /\ UNCHANGED <<disk, mode, known, gaps, found>>

SkipGap ==
  /\ pc = "gap" /\ gaps # <<>>
  /\ Gap.to - Gap.from < MiB
  /\ gaps' = Tail(gaps)
  /\ UNCHANGED <<disk, mode, pc, known, off, covered, found>>

Done ==
  /\ pc = "gap" /\ gaps = <<>>
  /\ pc' = "done"
  /\ UNCHANGED <<disk, mode, known, gaps, off, covered, found>>

DenseEnd == Least(Gap.to, Gap.from + Dense)
Stop == IF mode = "deep" THEN Gap.to ELSE Least(Gap.to, Gap.from + FastCap)
RoundUp(x) == ((x + MiB - 1) \div MiB) * MiB

Report(at) ==
  found' = Append(found, [first |-> at, len |-> Identified(disk, at),
                           gap |-> Len(gaps)])

(* readAt gives the sectors up to the first unreadable one, or the end.    *)
Chunked ==
  LET want == Least(Chunk, DenseEnd - off)
      Blank(x) == x \in disk.bad \/ x >= disk.size
  IN  CHOOSE g \in 0..want :
        /\ \A k \in 0..(g - 1) : ~Blank(off + k)
        /\ g < want => Blank(off + g)

Hits == {x \in off..(off + Chunked - 1) : Identified(disk, x) # 0}

(* Mutant: a read that gives nothing is taken for a chunk.                 *)
Reading_unchecked == pc = "dense" /\ off < DenseEnd

Reading == pc = "dense" /\ off < DenseEnd /\ Chunked > 0

(* Pass 1: a volume in the chunk; the search jumps past its full length.   *)
DenseHit ==
  /\ Reading /\ Hits # {}
  /\ LET at == CHOOSE x \in Hits : \A y \in Hits : x <= y IN
       /\ Report(at)
       /\ off' = at + Identified(disk, at) /\ covered' = off'
  /\ UNCHANGED <<disk, mode, pc, known, gaps>>

DenseMiss ==
  /\ Reading /\ Hits = {}
  /\ off' = off + Chunked
  /\ UNCHANGED <<disk, mode, pc, known, gaps, covered, found>>

(* The window is searched, or a read gives nothing; pass 2 begins behind   *)
(* the last volume.                                                        *)
DenseOver ==
  /\ pc = "dense" /\ ~Reading
  /\ pc' = "stride"
  /\ off' = RoundUp(covered)
  /\ UNCHANGED <<disk, mode, known, gaps, covered, found>>

Striding == pc = "stride" /\ off + 1 <= Stop

StrideHit ==
  /\ Striding /\ Identified(disk, off) # 0
  /\ Report(off)
  /\ covered' = off + Identified(disk, off) /\ off' = RoundUp(covered')
  /\ UNCHANGED <<disk, mode, pc, known, gaps>>

StrideMiss ==
  /\ Striding /\ Identified(disk, off) = 0
  /\ off' = off + MiB
  /\ UNCHANGED <<disk, mode, pc, known, gaps, covered, found>>

StrideOver ==
  /\ pc = "stride" /\ ~Striding
  /\ pc' = "gap" /\ gaps' = Tail(gaps)
  /\ UNCHANGED <<disk, mode, known, off, covered, found>>

Scan ==
  \/ BeginGap \/ SkipGap \/ Done
  \/ DenseHit \/ DenseMiss \/ DenseOver \/ StrideHit \/ StrideMiss \/ StrideOver

Returned == pc = "done" /\ UNCHANGED vars

Next == Scan \/ Returned

(* scanPartitions runs to its end once it is called.                       *)
Spec == Init /\ [][Next]_vars /\ WF_vars(Scan)

-----------------------------------------------------------------------------
(* Properties.                                                             *)

Inside(x, p) == p.first <= x /\ x < End(p)

(* A volume found by the search does not begin inside a partition of the   *)
(* table, however the table's entries overlap, nest or run past the end.   *)
FoundOutsideTable ==
  \A i \in DOMAIN found : \A j \in DOMAIN known : ~Inside(found[i].first, known[j])

(* "The scan never reports structures found inside a volume it already     *)
(* knows": the backup boot record of a found volume, or an image stored in *)
(* it, is not reported as a second volume of the same gap.                 *)
NoneInsideAnother ==
  \A i, j \in DOMAIN found :
    i # j /\ found[i].gap = found[j].gap => ~Inside(found[i].first, found[j])

(* The number of sectors the volume really has, by its own record.         *)
Extent(b) ==
  CASE b.kind = "FVE" -> SelfSize(b) [] b.kind = "NTFS" -> b.secs + 1 [] OTHER -> b.secs

(* A volume whose record is intact and consistent with where it lies.      *)
Lost(at) ==
  LET b == disk.boot[at] IN
  /\ at < disk.size /\ at \notin disk.bad /\ b.signed /\ b.sane
  /\ b.kind = "FVE" => b.hidden \in {0, at}
  /\ Extent(b) > 0 /\ at + Extent(b) <= disk.size

(* Pass 1 sees every sector of its window, pass 2 every MiB boundary.      *)
InReach(at, g) ==
  /\ g.to - g.from >= MiB
  /\ \/ g.from <= at /\ at < Least(g.to, g.from + Dense)
     \/ /\ at % MiB = 0 /\ g.from <= at
        /\ at < (IF mode = "deep" THEN g.to ELSE Least(g.to, g.from + FastCap))

(* Nothing within the reach of the search is missed: every consistent boot *)
(* record in a gap is reported or lies inside a volume that is.  Unreadable *)
(* sectors in the gap end pass 1 early and are outside this promise.       *)
NoneMissed ==
  pc = "done" /\ Searched(disk, mode) =>
    \A g \in ToSet(UnallocatedGaps(known, disk.size)) :
      (\A x \in disk.bad : x < g.from \/ x >= g.to) =>
        \A at \in DOMAIN disk.boot :
          InReach(at, g) /\ Lost(at) => \E i \in DOMAIN found : Inside(at, found[i])

(* What is lost comes back, each volume once: the gaps are outside the     *)
(* table, the two passes share what they covered, nothing is passed over.  *)
FoundExactlyOnce == FoundOutsideTable /\ NoneInsideAnother /\ NoneMissed

Usable(e) == e.used /\ e.first <= e.last /\ e.first > TableLbas
             /\ e.last < disk.size - TableLbas

(* A slot nobody can take for a partition: unused, ending before it begins *)
(* or past the end of the image.                                           *)
Absurd(e) == ~e.used \/ e.first > e.last \/ e.last >= disk.size

(* What is left of b is what a says: the other slots of b decode as        *)
(* absurd.                                                                 *)
RemainsOf(b, a) ==
  \A n \in DOMAIN b : Absurd(b[n]) \/ (n \in DOMAIN a /\ a[n] = b[n])

(* The header in use bounds the usable area no more tightly than the       *)
(* standard and inside the image, and its array reaches every usable slot. *)
Spans(g, a) ==
  /\ g.firstUsable <= TableLbas + 1
  /\ g.lastUsable + TableLbas + 1 >= disk.size /\ g.lastUsable < disk.size
  /\ \A n \in DOMAIN a : Usable(a[n]) => EntrySlot(g, n)

(* Where a copy of the array is looked for.                                *)
Places(d) ==
  {2, Geometry(d, 1).entry} \cup (IF d.backup # None THEN {d.backup.entry} ELSE {})

(* "Tolerating a destroyed primary header": whichever of a GPT's headers   *)
(* survive, with one intact copy of the array where some header or the     *)
(* standard places it, every partition of that copy is reported where it   *)
(* lies, and nothing that it does not say.  The other copies may have lost *)
(* any of their slots.  Copies that contradict each other are outside the  *)
(* promise: the code keeps the longer list, and of two as long the one at  *)
(* LBA 2, so a stale copy that kept more slots hides the current one.  A   *)
(* header whose signature survives and whose fields do not is outside it   *)
(* too, since nothing compares its checksum.                               *)
GptSurvives ==
  disk.native = 1 /\ ~disk.ddr /\ disk.signed /\ Protective(disk)
    /\ ~BareVolume(disk) /\ SectorUnit(disk) = 1 =>
    \A lba \in Places(disk) :
      LET a == Array(disk, lba, 1) IN
      /\ Spans(Geometry(disk, 1), a)
      /\ \A other \in Places(disk) : RemainsOf(Array(disk, other, 1), a)
      /\ \E n \in DOMAIN a : Usable(a[n])
      =>
      /\ \A n \in DOMAIN a : Usable(a[n]) => EntryExtent(a[n], 1) \in ToSet(known)
      /\ \A p \in ToSet(known) : \E n \in DOMAIN a : p = EntryExtent(a[n], 1)

(* The search ends on every image, in every mode.                          *)
ScanEnds == <>(pc = "done")

=============================================================================
