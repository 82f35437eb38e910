----------------------------- MODULE RaidSource -----------------------------
(***************************************************************************)
(* de::raid::RaidSource (src/raid/raid.cpp): two or more drives presented  *)
(* as one disk, read concurrently by the preview and the export worker     *)
(* while drives have bad sectors.                                          *)
(*                                                                         *)
(* The unit is the sector, and sector numbers stand for contents: sector x *)
(* of the logical disk holds x.  A drive returns the sectors up to its     *)
(* first unreadable one, as RawImageSource::readAt does.  Readers run the  *)
(* loop of readAt one run at a time; the error counters they share are     *)
(* updated under errMutex_, once per run.                                  *)
(***************************************************************************)
EXTENDS Naturals, Sequences, FiniteSets, Functions

CONSTANTS
  Layouts,    \* the sets considered, each accepted by assemble()
  Readers,    \* threads reading
  MaxOff, MaxLen,  \* bounds on the offset and length of a read
  MaxReads,   \* bound on the reads of one thread
  Hole        \* a sector of zeros

Level == {"concat", "stripe", "mirror"}
Member == [size : Nat, offset : Nat, length : Nat, bad : SUBSET Nat]
Layout == [level : Level, stripe : Nat, members : Seq(Member), limit : Nat]

(* assemble(): members present, and a usable stripe size.                  *)
Usable(L) ==
  /\ L.members # <<>>
  /\ L.level = "stripe" => L.stripe # 0 /\ \E e \in 0..L.stripe : L.stripe = 2^e

ASSUME LayoutAssumption == \A L \in Layouts : L \in Layout /\ Usable(L)
ASSUME ReadAssumption ==
  /\ MaxOff \in Nat /\ MaxLen \in Nat /\ MaxReads \in Nat
  /\ Hole \notin Nat

-----------------------------------------------------------------------------
(* Geometry.                                                               *)

(* Mutant: the metadata reserve at the front counts as data.               *)
DataLength_withReserve(m) ==
  IF m.length # 0 /\ m.length < m.size THEN m.length ELSE m.size

DataLength(m) ==
  IF m.offset >= m.size THEN 0
  ELSE LET rest == m.size - m.offset
       IN  IF m.length # 0 /\ m.length < rest THEN m.length ELSE rest

Lengths(L) == [i \in DOMAIN L.members |-> DataLength(L.members[i])]

(* Where the data of the i-th member begins in a concatenated set.         *)
Base(L) ==
  LET base[i \in 0..Len(L.members)] ==
        IF i = 0 THEN 0 ELSE base[i - 1] + DataLength(L.members[i])
  IN  base

Smallest(L) ==
  CHOOSE x \in Range(Lengths(L)) : \A y \in Range(Lengths(L)) : x <= y

RawLogicalSize(L) ==
  CASE L.level = "concat" -> Base(L)[Len(L.members)]
    [] L.level = "stripe" -> (Smallest(L) - (Smallest(L) % L.stripe)) * Len(L.members)
    [] L.level = "mirror" -> Smallest(L)

LogicalSize(L) ==
  IF L.limit # 0 /\ L.limit < RawLogicalSize(L) THEN L.limit ELSE RawLogicalSize(L)

Least(a, b) == IF a <= b THEN a ELSE b

(* readRun, by level: the member that holds logical sector off, the        *)
(* position in its data area, and how much of a read of len can be served  *)
(* from there in one go.                                                   *)
ConcatTarget(L, off, len) ==
  LET i == CHOOSE j \in DOMAIN L.members : Base(L)[j - 1] <= off /\ off < Base(L)[j]
      pos == off - Base(L)[i - 1]
  IN  [member |-> i, pos |-> pos, run |-> Least(len, DataLength(L.members[i]) - pos)]

(* Mutant: a run crosses the stripe boundary.                              *)
StripeTarget_across(L, off, len) ==
  [member |-> ((off \div L.stripe) % Len(L.members)) + 1,
   pos |-> ((off \div L.stripe) \div Len(L.members)) * L.stripe + (off % L.stripe),
   run |-> len]

StripeTarget(L, off, len) ==
  LET n == Len(L.members)
      stripeNo == off \div L.stripe
      inStripe == off % L.stripe
  IN  [member |-> (stripeNo % n) + 1, pos |-> (stripeNo \div n) * L.stripe + inStripe,
       run |-> Least(len, L.stripe - inStripe)]

MirrorTarget(L, off, len) == [member |-> 1, pos |-> off, run |-> len]

Target(L, off, len) ==
  CASE L.level = "concat" -> ConcatTarget(L, off, len)
    [] L.level = "stripe" -> StripeTarget(L, off, len)
    [] L.level = "mirror" -> MirrorTarget(L, off, len)

(* What whoever wrote the set put at position pos of member i's data area: *)
(* the reference the reading code has to invert.                           *)
Stored(L, i, pos) ==
  CASE L.level = "concat" -> Base(L)[i - 1] + pos
    [] L.level = "stripe" ->
         ((pos \div L.stripe) * Len(L.members) + (i - 1)) * L.stripe + (pos % L.stripe)
    [] L.level = "mirror" -> pos

(* RawImageSource::readAt on a member: sectors up to the first it cannot   *)
(* read.                                                                   *)
Unreadable(L, i, pos) ==
  LET m == L.members[i] IN m.offset + pos \in m.bad \/ m.offset + pos >= m.size

Got(L, i, pos, len) ==
  CHOOSE g \in 0..len :
    /\ \A k \in 0..(g - 1) : ~Unreadable(L, i, pos + k)
    /\ g < len => Unreadable(L, i, pos + g)

Contents(L, i, pos, n) == [k \in 1..n |-> Stored(L, i, pos + k - 1)]
Zeros(n) == [k \in 1..n |-> Hole]

-----------------------------------------------------------------------------
VARIABLES
  layout,        \* layout_
  reading,       \* per reader: the readAt in progress
  out,           \* per reader: the part of the caller's buffer filled so far
  memberErrors,  \* memberErrors_
  reads,         \* per reader: reads begun, for the bound
  fell           \* the members that have returned a short read, a history

vars == <<layout, reading, out, memberErrors, reads, fell>>

Idle == [off |-> 0, len |-> 0, want |-> 0, busy |-> FALSE]

Size == LogicalSize(layout)

Init ==
  /\ layout \in Layouts
  /\ reading = [r \in Readers |-> Idle]
  /\ out = [r \in Readers |-> <<>>]
  /\ memberErrors = [i \in DOMAIN layout.members |-> 0]
  /\ reads = [r \in Readers |-> 0]
  /\ fell = {}

(* readAt is called; the request is clipped at the end of the disk.        *)
Clip(off, len) == IF off >= Size THEN 0 ELSE Least(len, Size - off)

ReadAt(r, off, len) ==
  /\ ~reading[r].busy /\ reads[r] < MaxReads
  /\ reading' = [reading EXCEPT ![r] = [off |-> off, len |-> len,
                                        want |-> Clip(off, len), busy |-> TRUE]]
  /\ out' = [out EXCEPT ![r] = <<>>]
  /\ reads' = [reads EXCEPT ![r] = @ + 1]
  /\ UNCHANGED <<layout, memberErrors, fell>>

Looping(r) == reading[r].busy /\ Len(out[r]) < reading[r].want

Aim(r) == Target(layout, reading[r].off + Len(out[r]), reading[r].want - Len(out[r]))

GotFrom(r, i) == Got(layout, i, Aim(r).pos, Aim(r).run)

Fill(r, data) == out' = [out EXCEPT ![r] = @ \o data]

Blame(i, n) == memberErrors' = [memberErrors EXCEPT ![i] = @ + n]

(* Of the members asked for this run, those that fall short.               *)
FallShort(r, asked) == fell' = fell \cup {i \in asked : GotFrom(r, i) < Aim(r).run}

(* The members readRun asks in vain: in a mirror, every one.               *)
Asked(r) == IF layout.level = "mirror" THEN DOMAIN layout.members ELSE {Aim(r).member}

(* readRun: the member gives the whole run.                                *)
ReadRun(r) ==
  /\ Looping(r)
  /\ LET t == Aim(r) IN
       /\ GotFrom(r, t.member) = t.run
       /\ Fill(r, Contents(layout, t.member, t.pos, t.run))
  /\ UNCHANGED <<layout, reading, memberErrors, reads, fell>>

(* Mutant: the search for another member starts one too late.              *)
Better_late(r) ==
  IF layout.level = "mirror"
  THEN {i \in 3..Len(layout.members) : GotFrom(r, i) > GotFrom(r, 1)}
  ELSE {}

(* The members of a mirror that return more of the run than the first did. *)
Better(r) ==
  IF layout.level = "mirror"
  THEN {i \in 2..Len(layout.members) : GotFrom(r, i) > GotFrom(r, 1)}
  ELSE {}

(* Mutant: the other member is asked for the missing part, which is then   *)
(* put at the front of the buffer.                                         *)
ReadAlternate_misplaced(r) ==
  /\ Looping(r)
  /\ LET t == Aim(r) IN
       /\ GotFrom(r, t.member) < t.run
       /\ \E i \in Better(r) :
            /\ \A j \in Better(r) : i <= j
            /\ Fill(r, Contents(layout, i, t.pos + GotFrom(r, 1),
                                GotFrom(r, i) - GotFrom(r, 1)))
            /\ FallShort(r, 1..i)
       /\ Blame(1, t.run - GotFrom(r, 1))
  /\ UNCHANGED <<layout, reading, reads>>

(* readRun: another member of the mirror does better; the first such one.  *)
(* Only the first member's failure is counted.                             *)
ReadAlternate(r) ==
  /\ Looping(r)
  /\ LET t == Aim(r) IN
       /\ GotFrom(r, t.member) < t.run
       /\ \E i \in Better(r) :
            /\ \A j \in Better(r) : i <= j
            /\ Fill(r, Contents(layout, i, t.pos, GotFrom(r, i)))
            /\ FallShort(r, 1..i)
       /\ Blame(1, t.run - GotFrom(r, 1))
  /\ UNCHANGED <<layout, reading, reads>>

(* Mutant: the failure is always charged to the first member.              *)
ReadWithHole_blamesFirst(r) ==
  /\ Looping(r)
  /\ LET t == Aim(r)
         got == GotFrom(r, t.member) IN
       /\ got < t.run
       /\ Better(r) = {}
       /\ Fill(r, Contents(layout, t.member, t.pos, got) \o Zeros(t.run - got))
       /\ Blame(1, t.run - got)
       /\ FallShort(r, Asked(r))
  /\ UNCHANGED <<layout, reading, reads>>

(* readRun: nobody does; the rest of the run is zero-filled.               *)
ReadWithHole(r) ==
  /\ Looping(r)
  /\ LET t == Aim(r)
         got == GotFrom(r, t.member) IN
       /\ got < t.run
       /\ Better(r) = {}
       /\ Fill(r, Contents(layout, t.member, t.pos, got) \o Zeros(t.run - got))
       /\ Blame(t.member, t.run - got)
       /\ FallShort(r, Asked(r))
  /\ UNCHANGED <<layout, reading, reads>>

Return(r) ==
  /\ reading[r].busy /\ ~Looping(r)
  /\ reading' = [reading EXCEPT ![r].busy = FALSE]
  /\ UNCHANGED <<layout, out, memberErrors, reads, fell>>

Step(r) == ReadRun(r) \/ ReadAlternate(r) \/ ReadWithHole(r) \/ Return(r)

(* The bound on reads is reached and every thread has its answer.          *)
Quiet == (\A r \in Readers : ~reading[r].busy /\ reads[r] = MaxReads) /\ UNCHANGED vars

Next ==
  \/ \E r \in Readers : Step(r) \/ \E off \in 0..MaxOff, len \in 0..MaxLen : ReadAt(r, off, len)
  \/ Quiet

Spec == Init /\ [][Next]_vars /\ \A r \in Readers : WF_vars(Step(r))

-----------------------------------------------------------------------------
(* Properties.                                                             *)

TypeOK ==
  /\ layout \in Layouts
  /\ reading \in [Readers -> [off : Nat, len : Nat, want : Nat, busy : BOOLEAN]]
  /\ out \in [Readers -> Seq(Nat \cup {Hole})]
  /\ memberErrors \in [DOMAIN layout.members -> Nat]
  /\ reads \in [Readers -> Nat]
  /\ fell \subseteq DOMAIN layout.members

(* Whatever the level, the boundaries crossed and the drives' defects, the *)
(* buffer holds at every moment the sectors asked for, or holes, in place. *)
NeverWrongData ==
  \A r \in Readers :
    /\ Len(out[r]) <= reading[r].want
    /\ \A k \in DOMAIN out[r] : out[r][k] \in {reading[r].off + k - 1, Hole}

Returned(r) == reads[r] > 0 /\ ~reading[r].busy
Holes(r) == {k \in DOMAIN out[r] : out[r][k] = Hole}
Sick == {i \in DOMAIN layout.members : layout.members[i].bad # {}}

(* A set of healthy drives is read completely: no position inside the      *)
(* logical size falls outside a member, in a metadata reserve or in the    *)
(* unused tail of the larger drive.                                        *)
HealthyIsWhole == Sick = {} => \A r \in Readers : Holes(r) = {}

(* "A mirrored set with one dying drive is fully recoverable", whichever   *)
(* drive it is and wherever its bad sectors are.                           *)
MirrorSurvivesOne ==
  layout.level = "mirror" /\ Cardinality(Sick) <= 1 /\ Len(layout.members) > 1 =>
    \A r \in Readers : Holes(r) = {}

(* A read is answered in full up to the end of the disk, so a caller never *)
(* mistakes a bad sector for the end of the data.                          *)
FullLength ==
  \A r \in Readers : Returned(r) => Len(out[r]) = Clip(reading[r].off, reading[r].len)

(* "The user should know which drive is the sick one": wherever a reader   *)
(* was given a hole, the drive that holds those sectors is on the list;    *)
(* and over all reads of all readers the list is exactly the drives that   *)
(* returned short reads, each of them with bad sectors, but of a mirror    *)
(* its first drive alone.  The other drives of a mirror are never on it,   *)
(* whether they failed where the first did or were asked in its place and  *)
(* fell short, although readErrors() is said to tell the "members that     *)
(* returned short/failed reads" (raid.h:75).                               *)
SickDriveIsListed ==
  /\ \A r \in Readers : \A k \in Holes(r) :
       memberErrors[Target(layout, reading[r].off + k - 1, 1).member] > 0
  /\ \A i \in DOMAIN memberErrors :
       memberErrors[i] > 0 <=> i \in fell /\ (layout.level = "mirror" => i = 1)
  /\ fell \subseteq Sick

(* The set is one logical disk.                                            *)
Disk == INSTANCE LogicalDisk WITH
          Offsets <- 0..MaxOff, Counts <- 0..MaxLen,
          size <- Size,
          request <- [r \in Readers |-> [off |-> reading[r].off, len |-> reading[r].len,
                                         busy |-> reading[r].busy]],
          answer <- [r \in Readers |-> IF reading[r].busy THEN <<>> ELSE out[r]]
ImplementsDisk == Disk!Spec
=============================================================================
