----------------------------- MODULE DiskLayers -----------------------------
(***************************************************************************)
(* The sources that stand between a drive and a filesystem: the merged view*)
(* of an Optane cache and its QLC drive (src/optane), the window of a      *)
(* partition, and the decrypted view of a BitLocker or a FileVault 2       *)
(* volume (src/bitlocker, src/corestorage).  Each is an ImageSource over   *)
(* the one below it, and none keeps any state, so a read is what one       *)
(* thread does, whatever others do.                                        *)
(*                                                                         *)
(* The unit is a part of a sector, S to the sector.  The content of a unit *)
(* is where it was read from, and after decryption also the sector number  *)
(* that was used as its tweak.                                             *)
(***************************************************************************)
EXTENDS Integers, Sequences, FiniteSets, SequencesExt

CONSTANTS
  Rigs,      \* the sets of drives and volumes considered: see Rig
  Reads,     \* <<offset, length>> of the reads tried
  S,         \* units in a sector
  MaxBatch,  \* MAX_BATCH of the decrypting views
  Step,      \* distance of the shifts tried for a FileVault volume
  MaxShift   \* the last one

ASSUME LayersAssumption ==
  /\ {S, MaxBatch, Step} \subseteq Nat \ {0} /\ MaxShift \in Nat
  /\ MaxBatch % S = 0 /\ Step % S = 0
  /\ Reads \subseteq Nat \X Nat

(* What an Optane module holds: whether a boot record opens it, the disk   *)
(* sector that record names, where cache headers are and which have a super*)
(* with a good checksum behind them, and the hint the user gave, if any.   *)
Cache == [boot : BOOLEAN, start : Nat, headers : SUBSET Nat, supers : SUBSET Nat, hint : Nat \cup {-1}]

(* One key protector of BitLocker: `opens` is the password whose stretched *)
(* form unwraps its key.                                                   *)
Protector == [recovery : BOOLEAN, whole : BOOLEAN, opens : Nat]

(* `base`, `length`: the partition as its table says.  `copies`: where the *)
(* boot record says the metadata is, and whether it parses there.          *)
Rig == [disk : Nat, cache : Seq(Cache), base : Nat, length : Nat,
        crypto : {"none", "bitlocker", "filevault"},
        copies : Seq([at : Nat, good : BOOLEAN]), declared : Nat,
        headAt : Nat, headSize : Nat, protectors : Seq(Protector),
        secret : Nat, shift : Nat, bad : SUBSET ({"qlc", "optane"} \X Nat)]

ASSUME RigsAssumption ==
  \A r \in Rigs : r \in Rig /\ Len(r.cache) <= 1 /\ Len(r.copies) = 3 /\ r.length > 0

(* Cache regions begin on sectors: findImsm probes every REGION_ALIGN      *)
(* bytes, and the hint is a sector number times the sector size.           *)
ASSUME RegionAssumption ==
  \A r \in Rigs : \A i \in DOMAIN r.cache :
    \A a \in r.cache[i].headers \cup ({r.cache[i].hint} \ {-1}) : a % S = 0

(* Drives, partitions and volumes are of whole sectors, and it is sectors  *)
(* that do not read.                                                       *)
ASSUME SectorAssumption ==
  \A r \in Rigs :
    /\ \A n \in {r.disk, r.base, r.length, r.declared} : n % S = 0
    /\ \A x \in r.bad : \A k \in 0..(S - 1) : <<x[1], x[2] - (x[2] % S) + k>> \in r.bad

(* The unit of BitLocker's relocation, as of its encryption, is the sector. *)
ASSUME HeadAssumption == \A r \in Rigs : r.headAt % S = 0 /\ r.headSize % S = 0

VARIABLES
  rig,     \* the drives, fixed
  span,    \* the merge: which disk sectors the Optane serves
  window,  \* the volume's window on the disk
  view,    \* how the volume is read: not at all, plain, or decrypted
  task     \* the read in progress, or its answer

vars == <<rig, span, window, view, task>>

Rest == [op |-> "rest", off |-> 0, len |-> 0, out |-> <<>>]

Closed == [kind |-> "closed"]

Hole == <<"zeros">>
Noise == <<"noise">>

Least(a, b) == IF a < b THEN a ELSE b

-----------------------------------------------------------------------------
(* The merge.                                                              *)

NoSpan == [known |-> TRUE, merged |-> FALSE, start |-> 0, len |-> 0]

(* Cache headers with a super that checks out behind them.                 *)
Regions(c) == c.headers \cap c.supers

(* findImsm: the hint if it holds, else the first region of the module.    *)
FindImsm(c) ==
  IF c.hint # -1 /\ c.hint \in c.supers THEN {c.hint}
  ELSE {a \in Regions(c) : \A b \in Regions(c) : a <= b}

(* makeSpanMerge: the linear copy starts at the sector its boot record     *)
(* names and ends where the cache region begins; without either there is   *)
(* no merge.                                                               *)
Merge ==
  /\ ~span.known
  /\ span' = IF rig.cache = <<>> THEN NoSpan
             ELSE LET c == rig.cache[1] IN
                  IF ~c.boot \/ FindImsm(c) = {} THEN NoSpan
                  ELSE [known |-> TRUE, merged |-> TRUE, start |-> c.start,
                        len |-> (CHOOSE a \in FindImsm(c) : TRUE) \div S]
  /\ UNCHANGED <<rig, window, view, task>>

(* SpanCacheMap::lookup.                                                   *)
InSpan(lba) == lba >= span.start /\ lba < span.start + span.len

Served(u) == IF InSpan(u \div S) THEN <<"optane", u - span.start * S>> ELSE <<"qlc", u>>

(* OptaneMergeSource::readAt goes sector by sector; what does not read     *)
(* leaves the buffer as it was, and is counted all the same.               *)
MergedRead(u, n) ==
  [k \in 1..n |-> IF Served(u + k - 1) \in rig.bad THEN Hole ELSE Served(u + k - 1)]

(* RawImageSource::readAt gives up at the first sector that does not read. *)
RawRead(u, n) ==
  LET Fails(k) == <<"qlc", u + k>> \in rig.bad
      got == CHOOSE g \in 0..n : (\A k \in 0..(g - 1) : ~Fails(k)) /\ (g < n => Fails(g))
  IN  [k \in 1..got |-> <<"qlc", u + k - 1>>]

DiskRead(u, n) ==
  LET there == IF u >= rig.disk THEN 0 ELSE Least(n, rig.disk - u)
  IN  IF span.merged THEN MergedRead(u, there) ELSE RawRead(u, there)

(* The window over it: SubImageSource::readAt.                             *)
WindowRead(u, n) ==
  IF u >= window.size THEN <<>> ELSE DiskRead(window.base + u, Least(n, window.size - u))

(* ImageSource::read: a buffer of zeros, as far as the read does not go.   *)
ReadAll(u, n) ==
  LET data == WindowRead(u, n)
  IN  [k \in 1..n |-> IF k \in DOMAIN data THEN data[k] ELSE Hole]

-----------------------------------------------------------------------------
(* The window of the volume.                                               *)

(* Mutant: only the first copy of the metadata is tried.                   *)
Copies_first == {rig.copies[1]}

Copies == Range(rig.copies)

(* parseFve through a window of n units: some copy within it parses.  What *)
(* lies behind the end of the disk reads as zeros, which do not.           *)
ParseFve(n) ==
  /\ rig.crypto = "bitlocker"
  /\ \E c \in Copies : c.good /\ c.at # 0 /\ c.at < n /\ rig.base + c.at < rig.disk

(* No further than the disk goes.                                          *)
Wanted == Least(rig.declared, rig.disk - rig.base)

(* reconcileVolumeSize: the size in the metadata outranks the partition's. *)
OpenWindow ==
  /\ span.known /\ ~window.open
  /\ window' = [open |-> TRUE, base |-> rig.base,
                size |-> IF ParseFve(rig.length) /\ rig.declared # 0 /\ rig.base < rig.disk
                         THEN Wanted ELSE rig.length]
  /\ view' = IF rig.crypto = "none" THEN [kind |-> "plain"] ELSE Closed
  /\ UNCHANGED <<rig, span, task>>

-----------------------------------------------------------------------------
(* Unlocking.                                                              *)

(* unlockWithRecovery: the first recovery protector that is whole decides. *)
Usable == {i \in DOMAIN rig.protectors : rig.protectors[i].recovery /\ rig.protectors[i].whole}

Unwraps(password) ==
  \E i \in Usable : (\A j \in Usable : i <= j) /\ rig.protectors[i].opens = password

Opens(password) == ParseFve(window.size) /\ Unwraps(password)

(* bitlocker::unlockVolume.                                                *)
UnlockBitLocker(password) ==
  /\ window.open /\ rig.crypto = "bitlocker" /\ view = Closed
  /\ view' = IF Opens(password)
             THEN [kind |-> "bitlocker", key |-> password] ELSE Closed
  /\ UNCHANGED <<rig, span, window, task>>

(* findLogicalVolumeShift: the HFS+ header is two sectors into the volume, *)
(* and only the right key at the right shift makes one of what is there.   *)
HeaderAt(shift, key) ==
  /\ shift + 3 * S <= window.size
  /\ key = rig.secret /\ shift = rig.shift
  /\ Hole \notin ToSet(ReadAll(shift + 2 * S, S))

Shifts == {n * Step : n \in 0..(MaxShift \div Step)}

(* corestorage::unlockVolume.                                              *)
UnlockFileVault(key) ==
  /\ window.open /\ rig.crypto = "filevault" /\ view = Closed
  /\ LET found == {s \in Shifts : HeaderAt(s, key)}
     IN  view' = IF found = {} THEN Closed
                 ELSE [kind |-> "filevault", key |-> key,
                       shift |-> CHOOSE s \in found : \A x \in found : s <= x]
  /\ UNCHANGED <<rig, span, window, task>>

-----------------------------------------------------------------------------
(* Reading.                                                                *)

Size == IF view.kind = "filevault" THEN window.size - view.shift ELSE window.size

Clipped(off, len) == IF off >= Size THEN 0 ELSE Least(len, Size - off)

Ask ==
  /\ task.op = "rest" /\ view # Closed
  /\ \E r \in Reads :
       task' = [op |-> "read", off |-> r[1], len |-> Clipped(r[1], r[2]), out |-> <<>>]
  /\ UNCHANGED <<rig, span, window, view>>

(* Mutant: a run is not ended where the relocated head ends.               *)
RunEnd_size(base) == Size

(* The head of a BitLocker volume lies elsewhere; a run of sectors is      *)
(* contiguous only on one side of its end.                                 *)
Relocated(base) == view.kind = "bitlocker" /\ rig.headSize # 0 /\ base < rig.headSize

RunEnd(base) == IF Relocated(base) THEN rig.headSize ELSE Size

Physical(base) ==
  CASE view.kind = "filevault" -> view.shift + base
    [] Relocated(base) -> rig.headAt + base
    [] OTHER -> base

(* The sector number a sector is decrypted with: FileVault counts from the *)
(* start of the logical volume, BitLocker on the disk's volume.            *)
Tweak(base) == (IF view.kind = "filevault" THEN base ELSE Physical(base)) \div S

(* Zeros that stand for what did not read are decrypted like anything else. *)
Decrypted(raw, tweak) == IF raw = Hole THEN Noise ELSE <<raw, tweak>>

(* Mutant: sectors are counted by rounding down.                           *)
Batch_roundedDown(off, left) ==
  LET base  == off - (off % S)
      units == Least(Least(left + (off % S), RunEnd(base) - base), MaxBatch)
      nsec  == units \div S
      raw   == ReadAll(Physical(base), nsec * S)
  IN  [k \in 1..Least(nsec * S - (off % S), left) |->
         LET i == (off % S) + k - 1 IN Decrypted(raw[i + 1], Tweak(base) + i \div S)]

(* One round of readAt: whole sectors of one run, read with one call, of   *)
(* which the units asked for are handed out.  What the call came short of  *)
(* is zeros, and all of it is decrypted.                                   *)
Batch(off, left) ==
  LET base  == off - (off % S)
      units == Least(Least(left + (off % S), RunEnd(base) - base), MaxBatch)
      nsec  == (units + S - 1) \div S
      raw   == ReadAll(Physical(base), nsec * S)
  IN  [k \in 1..Least(nsec * S - (off % S), left) |->
         LET i == (off % S) + k - 1 IN Decrypted(raw[i + 1], Tweak(base) + i \div S)]

ReadRound ==
  LET done == Len(task.out) IN
  /\ task.op = "read" /\ view.kind # "plain" /\ done < task.len
  /\ task' = [task EXCEPT !.out = @ \o Batch(task.off + done, task.len - done)]
  /\ UNCHANGED <<rig, span, window, view>>

Answered ==
  /\ task.op = "read" /\ view.kind # "plain" /\ Len(task.out) >= task.len
  /\ task' = [task EXCEPT !.op = "answered"]
  /\ UNCHANGED <<rig, span, window, view>>

(* A volume that is not encrypted is read through the window, with one     *)
(* call, whose count is the answer's length.                               *)
ReadPlain ==
  /\ task.op = "read" /\ view.kind = "plain"
  /\ LET data == WindowRead(task.off, task.len)
     IN  task' = [task EXCEPT !.op = "answered", !.out = [k \in DOMAIN data |-> <<data[k], -1>>]]
  /\ UNCHANGED <<rig, span, window, view>>

Taken ==
  /\ task.op = "answered"
  /\ task' = Rest
  /\ UNCHANGED <<rig, span, window, view>>

-----------------------------------------------------------------------------
Init ==
  /\ rig \in Rigs
  /\ span = [NoSpan EXCEPT !.known = FALSE] /\ window = [open |-> FALSE, base |-> 0, size |-> 0]
  /\ view = Closed /\ task = Rest

Passwords == {p.opens : p \in Range(rig.protectors)} \cup {rig.secret, 0}

Read == ReadRound \/ Answered \/ ReadPlain

Next ==
  \/ Merge \/ OpenWindow
  \/ \E p \in Passwords : UnlockBitLocker(p) \/ UnlockFileVault(p)
  \/ Ask \/ Read \/ Taken

(* A read is a loop that waits for nobody.                                 *)
Fairness == WF_vars(Read)

Spec == Init /\ [][Next]_vars /\ Fairness

-----------------------------------------------------------------------------
(* Properties.                                                             *)

(* Where the parts of the disk really are: the cache ends at its first     *)
(* region, and holds the current data of the sectors in front of it.  That *)
(* region is found if its header is whole, or the hint names it.           *)
FirstRegion(a) == a \in rig.cache[1].supers /\ \A b \in rig.cache[1].supers : a <= b

CacheFindable ==
  rig.cache = <<>> \/ LET c == rig.cache[1] IN
    /\ \A a \in c.supers : FirstRegion(a) => a \in c.headers \cup {c.hint}
    /\ c.hint \in c.supers => FirstRegion(c.hint)

TrueSpan ==
  IF rig.cache = <<>> \/ span.len = 0 THEN {}
  ELSE {lba \in 0..(rig.disk \div S) : lba >= rig.cache[1].start /\
          \A a \in rig.cache[1].supers : (lba - rig.cache[1].start) * S < a}

TruePlace(v) ==
  CASE view.kind = "filevault" -> rig.shift + v
    [] view.kind = "bitlocker" /\ v < rig.headSize -> rig.headAt + v
    [] OTHER -> v

TrueTweak(v) ==
  CASE view.kind = "filevault" -> v \div S
    [] view.kind = "bitlocker" -> TruePlace(v) \div S
    [] OTHER -> -1

TrueCopy(u) ==
  IF u \div S \in TrueSpan THEN <<"optane", u - rig.cache[1].start * S>> ELSE <<"qlc", u>>

Missing(p) ==
  TrueCopy(rig.base + p) \in rig.bad \/ p >= window.size \/ rig.base + p >= rig.disk

(* What a unit may be lost to.  The merged disk is read sector by sector:  *)
(* a unit is lost only when it is missing itself.  On a drive alone a read *)
(* stops at the first sector that fails, so under a decrypting view, which *)
(* reads a batch with one call, a missing unit takes with it what follows  *)
(* it in the batch: less than MaxBatch units, contiguous with it on the    *)
(* volume, of the same request.                                            *)
SpoiledBy(w, v) ==
  /\ w <= v /\ v < w + MaxBatch /\ TruePlace(v) - TruePlace(w) = v - w
  /\ Missing(TruePlace(w))

Spoiled(off, v) ==
  IF span.merged THEN Missing(TruePlace(v))
  ELSE view.kind # "plain" /\ \E w \in (off - (off % S))..v : SpoiledBy(w, v)

Lost == IF view.kind = "plain" THEN <<Hole, -1>> ELSE Noise

(* Every unit a read hands out is the current copy of the unit asked for,  *)
(* decrypted as what it was encrypted as, across the end of the relocated  *)
(* head, of a batch, of a sector and of the span of the cache; cache       *)
(* metadata is never served as data.  What is not that is lost, to a       *)
(* sector that does not read or lies outside the window or the disk, and   *)
(* never another unit's content: as the buffer was in a plain view, noise  *)
(* in a decrypted one.                                                     *)
RightAt(off, v, x) ==
  \/ x = <<TrueCopy(rig.base + TruePlace(v)), TrueTweak(v)>>
  \/ Spoiled(off, v) /\ x = Lost

RightUnitRightKey ==
  CacheFindable => \A k \in DOMAIN task.out : RightAt(task.off, task.off + k - 1, task.out[k])

(* A read gives the units asked for, clipped at the end of the view.  Only *)
(* a plain view comes up short, and then the unit it ends at lies behind   *)
(* the disk, or on a drive alone, and does not read.  So a reader that     *)
(* takes a short count for damage is right, but must not take a full one   *)
(* for none: through the merge and the decrypting views every read is full *)
(* and what is lost is not told.                                           *)
EndsAt(v) ==
  /\ view.kind = "plain"
  /\ rig.base + v >= rig.disk \/ (~span.merged /\ <<"qlc", rig.base + v>> \in rig.bad)

AnswerIsFull ==
  task.op = "answered" =>
    Len(task.out) = task.len \/ (Len(task.out) < task.len /\ EndsAt(task.off + Len(task.out)))

AnswersInFull == (task.op = "read" ~> task.op = "answered") /\ []AnswerIsFull

(* A copy of the metadata that is whole, within the first n units of the   *)
(* partition and on the disk.                                              *)
GoodCopy(n) ==
  \E i \in 1..3 : LET c == rig.copies[i]
                  IN  c.good /\ c.at \in 1..(n - 1) /\ rig.base + c.at < rig.disk

(* The window lies on the disk whatever the metadata declares, and covers  *)
(* the volume the metadata describes as far as the disk goes, although     *)
(* the partition table is a generation behind.                             *)
WindowFitsVolume ==
  window.open /\ rig.crypto = "bitlocker" =>
    /\ window.size > rig.length => window.base + window.size <= rig.disk
    /\ GoodCopy(rig.length) =>
         \/ rig.declared = 0 \/ window.size = rig.declared
         \/ rig.base + window.size = rig.disk

(* One copy of the metadata is enough ("a damaged or partially overwritten *)
(* first copy is not the end of the volume", parseFve): the password of    *)
(* the only whole recovery protector, and no other, opens the volume.      *)
OneCopyOpens ==
  window.open /\ rig.crypto = "bitlocker" /\ GoodCopy(window.size) =>
    \A i \in DOMAIN rig.protectors :
      (\A j \in DOMAIN rig.protectors :
         rig.protectors[j].recovery /\ rig.protectors[j].whole <=> i = j) =>
      \A p \in Passwords : Opens(p) <=> p = rig.protectors[i].opens

(* What one whole copy of the metadata says decides both, where the volume *)
(* ends and who can open it.                                               *)
OneCopyIsEnough == WindowFitsVolume /\ OneCopyOpens
=============================================================================
