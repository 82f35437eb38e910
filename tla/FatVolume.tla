------------------------------ MODULE FatVolume ------------------------------
(***************************************************************************)
(* The FAT12/16/32 reader (src/fs/fat/fat.cpp) on a mounted volume whose   *)
(* metadata may be damaged: FAT chains that loop, cross, end early or leave*)
(* the volume, stale directory entries, sectors that do not read, or only  *)
(* sometimes.                                                              *)
(*                                                                         *)
(* The unit of the model is one directory slot (32 bytes); data is counted *)
(* in the same unit, and a unit's content is its own address.  Addresses   *)
(* follow the volume: the fixed root of FAT12/16 from address 1, then the  *)
(* data area, CS units to a cluster.  The volume is never written, so what *)
(* threads share is the cached block of the FAT and the list of notes.     *)
(***************************************************************************)
EXTENDS Integers, Sequences, FiniteSets, SequencesExt

CONSTANTS
  Readers,     \* threads that use the filesystem
  Volumes,     \* the volumes considered: see Volume
  CS,          \* units per cluster
  Chunk,       \* units per call of the sink: 1 MiB
  Block,       \* FAT entries per block read into the cache: FAT_BLOCK
  Probe,       \* slots of the next cluster a deleted directory is judged by
  DeletedCap,  \* MAX_DELETED_DIR_CLUSTERS
  MaxLfn,      \* MAX_LFN_ENTRIES
  Hole         \* a unit of zeros written in place of data

ASSUME SizeAssumption ==
  /\ {CS, Chunk, Block, Probe, DeletedCap, MaxLfn} \subseteq Nat \ {0}
  /\ Probe <= CS

(* A slot as its bytes read.  `free` is a first byte of 0xE5; `sum` is in  *)
(* a long-name slot the checksum stored there, in an entry the checksum of *)
(* the short name it was written with; `legal` says that the name, or the  *)
(* part of one, passes decodeShortName and nameIsSafe.                     *)
Slot == [kind : {"end", "junk", "dot", "lfn", "label", "entry"}, free : BOOLEAN,
         sum : Nat, legal : BOOLEAN, dir : BOOLEAN, size : Nat, first : Nat]

(* `fat` holds the raw entries; a read that covers a `weak` unit, or an    *)
(* entry of `weakFat`, may stop short of it, and may not the next time.    *)
(* A FAT12 entry may lie across two blocks (`straddles`), or across two    *)
(* sectors of one (`splits`), where a read that stops short leaves half.   *)
(* `image` is how many units the image file has of the volume's.           *)
Volume == [bits : {12, 16, 32}, count : Nat, root : Nat, rootUnits : Nat,
           fat : Seq(Nat), straddles : SUBSET Nat, splits : SUBSET Nat, unit : Seq(Slot),
           weak : SUBSET Nat, weakFat : SUBSET Nat, image : Nat]

(* What mount() guarantees of the geometry.  The number of clusters decides *)
(* between the two narrow FATs, and an entry is as wide as its FAT says.   *)
Mounted(v) ==
  /\ v.count > 0
  /\ DOMAIN v.fat = 1..v.count
  /\ DOMAIN v.unit = 1..(v.rootUnits + v.count * CS)
  /\ v.rootUnits < v.image
  /\ IF v.bits = 32 THEN v.root \in 2..(v.count + 1) /\ v.rootUnits = 0
                    ELSE v.rootUnits > 0
  /\ v.straddles \cup v.splits = {} \/ v.bits = 12
  /\ v.bits = 12 => v.count < 4085 /\ \A x \in Range(v.fat) : x < 4096
  /\ v.bits = 16 => v.count < 65525 /\ \A x \in Range(v.fat) : x < 65536

ASSUME VolumeAssumption ==
  \A v \in Volumes : v \in Volume /\ Mounted(v)

ASSUME HoleAssumption == Hole \notin Nat

VARIABLES
  vol,     \* the volume, fixed
  cache,   \* fatBlock_, fatBlockStart_, fatBlockValid_
  notes,   \* notes_: what the user is told, each message once
  known,   \* nodes some listing returned, which a caller may come back with
  task     \* per thread: the call in progress, or the last one's result

vars == <<vol, cache, notes, known, task>>

Node == [id : Nat, dir : BOOLEAN, deleted : BOOLEAN, size : Nat]
Root == [id |-> 0, dir |-> TRUE, deleted |-> FALSE, size |-> 0]

Resting == {"idle", "listed", "read", "aborted"}
NoWalk == [lfn |-> <<>>, past |-> FALSE, rejected |-> FALSE, out |-> <<>>]

Call(op, n) ==
  [op |-> op, node |-> n, contiguous |-> FALSE, first |-> 0, cluster |-> 0,
   visited |-> 0, walk |-> NoWalk, size |-> 0, plan |-> <<>>,
   guessed |-> FALSE, sent |-> <<>>]

-----------------------------------------------------------------------------
(* Geometry and the drive.                                                 *)

Units == vol.rootUnits + vol.count * CS

DataStart == vol.rootUnits + 1

ClusterToOffset(c) == DataStart + (c - 2) * CS

ClusterOf(u) == (u - DataStart) \div CS + 2

ValidCluster(c) == c >= 2 /\ c < vol.count + 2

Least(a, b) == IF a < b THEN a ELSE b

(* readAt on the volume: how many of n units from u on it may return.      *)
Clip(u, n) == IF u > vol.image THEN 0 ELSE Least(n, vol.image - u + 1)

Got(u, n) ==
  {Clip(u, n)} \cup {w - u : w \in {x \in vol.weak : x >= u /\ x < u + Clip(u, n)}}

-----------------------------------------------------------------------------
(* The FAT.                                                                *)

Entries(b) == {c \in 2..(vol.count + 1) : c \div Block = b}

(* The first byte of a FAT12 entry, and a zero: an even cluster's entry    *)
(* has its low eight bits there, an odd one's its low four.                *)
Half(c) == vol.fat[c - 1] % (IF c % 2 = 0 THEN 256 ELSE 16)

(* What a read that stopped at entry `stop` leaves of the entry of c.      *)
Left(c, stop) ==
  IF c < stop THEN vol.fat[c - 1]
  ELSE IF c = stop /\ c \in vol.splits THEN Half(c) ELSE 0

Loaded(b, stop) ==
  [valid |-> TRUE, block |-> b, entry |-> [c \in Entries(b) |-> Left(c, stop)]]

Load(b) ==
  {Loaded(b, stop) : stop \in {vol.count + 2} \cup (Entries(b) \cap vol.weakFat)}

Cached(b) == cache.valid /\ cache.block = b

(* fatReadRaw for the entry of c, under the mutex: the block comes from    *)
(* the cache or replaces what is there; a FAT12 entry that lies across two *)
(* blocks is then read by itself.  A failed read counts as 0 in fatNext.   *)
Lookup(c) ==
  LET blocks == IF Cached(c \div Block) THEN {cache} ELSE Load(c \div Block)
      Alone  == {vol.fat[c - 1]} \cup (IF c \in vol.weakFat THEN {0} ELSE {})
  IN  IF c \in vol.straddles
      THEN {[raw |-> x, cache |-> k] : x \in Alone, k \in blocks}
      ELSE {[raw |-> k.entry[c], cache |-> k] : k \in blocks}

FatBad == 268435447
FatEof == 268435448

(* fatNext: the reserved top nibble of FAT32 goes, and the special values  *)
(* of the narrow FATs become FAT32's.                                      *)
FatNext(raw) ==
  LET bad == IF vol.bits = 16 THEN 65527 ELSE 4087
  IN  IF vol.bits = 32 THEN raw % 268435456
      ELSE IF raw = bad THEN FatBad
      ELSE IF raw > bad THEN FatEof
      ELSE raw

(* The value does not name a next cluster.                                 *)
Ends(x) == x = 0 \/ x = FatBad \/ x >= FatEof \/ ~ValidCluster(x)

-----------------------------------------------------------------------------
(* Directory entries.                                                      *)

NoRecord == [id |-> 0]

(* recordAt: the entry an id points at, read again.                        *)
RecordAt(u) ==
  LET e == vol.unit[u] IN
  IF \/ u > Units \/ (vol.bits = 32 /\ u < DataStart)
     \/ e.kind # "entry" \/ ~e.legal
     \/ ~e.dir /\ e.size > Units
     \/ ~e.dir /\ e.size > 0 /\ ~ValidCluster(e.first)
  THEN NoRecord
  ELSE [id |-> u, dir |-> e.dir, deleted |-> e.free,
        size |-> IF e.dir THEN 0 ELSE e.size, first |-> e.first]

Reopen(u) == {IF g = 1 THEN RecordAt(u) ELSE NoRecord : g \in Got(u, 1)}

(* The long-name slots in w.lfn are one run and vouch for entry e; for a   *)
(* deleted entry they say themselves what its lost first byte was, so any  *)
(* run does.                                                               *)
Vouched(lfn, e) ==
  /\ lfn # <<>>
  /\ \A i \in DOMAIN lfn : lfn[i].sum = lfn[1].sum
  /\ e.free \/ lfn[1].sum = e.sum

Keepable(e) ==
  /\ e.dir \/ e.size <= Units
  /\ e.dir \/ e.size > 0 => ValidCluster(e.first)

(* An 8.3 entry; `name` is the checksum that goes with the name listed.    *)
OnEntry(w, u) ==
  LET e == vol.unit[u]
      long == Vouched(w.lfn, e) /\ \A i \in DOMAIN w.lfn : w.lfn[i].legal
      rec == [id |-> u, dir |-> e.dir, deleted |-> e.free \/ w.past,
              size |-> IF e.dir THEN 0 ELSE e.size, first |-> e.first,
              name |-> IF long THEN w.lfn[1].sum ELSE e.sum]
  IN  IF (long \/ e.legal) /\ Keepable(e)
      THEN [w EXCEPT !.lfn = <<>>, !.out = Append(@, rec)]
      ELSE [w EXCEPT !.lfn = <<>>, !.rejected = TRUE]

Gathered(lfn, e) == Append(IF Len(lfn) >= MaxLfn THEN <<>> ELSE lfn, e)

OnSlot(w, u) ==
  LET e == vol.unit[u] IN
  CASE e.kind = "end"   -> [w EXCEPT !.lfn = <<>>, !.past = TRUE]
    [] e.kind = "junk"  -> [w EXCEPT !.lfn = <<>>, !.rejected = TRUE]
    [] e.kind \in {"dot", "label"} -> [w EXCEPT !.lfn = <<>>]
    [] e.kind = "lfn"   -> [w EXCEPT !.lfn = Gathered(@, e)]
    [] e.kind = "entry" -> OnEntry(w, u)

(* Mutant: the end-of-directory marker is forgotten at the next cluster.   *)
ScanEntries_fresh(w, u, n) ==
  FoldLeft(OnSlot, [w EXCEPT !.past = FALSE], [k \in 1..n |-> u + k - 1])

(* scanEntries over the n slots read from u on.                            *)
ScanEntries(w, u, n) == FoldLeft(OnSlot, w, [k \in 1..n |-> u + k - 1])

(* A cluster that reads as directory entries, judged by its first slots:   *)
(* one with a reserved bit spoils it, one in use is needed.                *)
Plausible(c) ==
  LET kinds == {vol.unit[u].kind : u \in ClusterToOffset(c)..(ClusterToOffset(c) + Probe - 1)}
  IN  "junk" \notin kinds /\ kinds # {"end"}

-----------------------------------------------------------------------------
(* listDir.                                                                *)

Update(r, t) == task' = [task EXCEPT ![r] = t]

Nodes(t) ==
  {[id |-> e.id, dir |-> e.dir, deleted |-> e.deleted \/ t.contiguous, size |-> e.size] :
     e \in Range(t.walk.out)}

Listed(r, t, told) ==
  /\ Update(r, [t EXCEPT !.op = "listed"])
  /\ known' = known \cup Nodes(t)
  /\ notes' = notes \cup told \cup (IF t.walk.rejected THEN {"skipped"} ELSE {})

(* The root of FAT32 is a chain.                                           *)
ListRoot(r) ==
  /\ task[r].op \in Resting /\ vol.bits = 32
  /\ Update(r, [Call("scan", Root) EXCEPT !.first = vol.root, !.cluster = vol.root])
  /\ UNCHANGED <<vol, cache, notes, known>>

(* scanFixedRoot: one read of the root region of FAT12/16.                 *)
ListFixedRoot(r) ==
  /\ task[r].op \in Resting /\ vol.bits # 32
  /\ \E got \in Got(1, vol.rootUnits) :
       LET t == [Call("scan", Root) EXCEPT !.walk = ScanEntries(NoWalk, 1, got)]
       IN  Listed(r, t, IF got = 0 THEN {"rootGap"} ELSE {})
  /\ UNCHANGED <<vol, cache>>

(* A folder of an earlier listing: its entry is read again.                *)
ListDir(r) ==
  /\ task[r].op \in Resting
  /\ \E n \in known : n.dir /\ \E rec \in Reopen(n.id) :
       IF rec = NoRecord THEN Update(r, Call("listed", n))
       ELSE IF ~rec.dir \/ ~ValidCluster(rec.first) THEN Update(r, Call("listed", n))
       ELSE Update(r, [Call("scan", n) EXCEPT
              !.first = rec.first, !.cluster = rec.first,
              !.contiguous = n.deleted \/ rec.deleted])
  /\ UNCHANGED <<vol, cache, notes, known>>

(* Mutant: one cluster fewer than the volume has.                          *)
MaxClusters_short(contiguous) == IF contiguous THEN DeletedCap ELSE vol.count - 1

(* The cap on the length of a directory.                                   *)
MaxClusters(contiguous) == IF contiguous THEN DeletedCap ELSE vol.count

InDirectory(t) == ValidCluster(t.cluster) /\ t.visited < MaxClusters(t.contiguous)

(* One cluster of the directory is read, perhaps not all of it.            *)
ScanCluster(r) ==
  LET t == task[r] IN
  /\ t.op = "scan" /\ InDirectory(t)
  /\ \E got \in Got(ClusterToOffset(t.cluster), CS) :
       IF got = 0 THEN Listed(r, t, {"clusterGap"})
       ELSE /\ Update(r, [t EXCEPT !.op = "hop", !.visited = @ + 1,
                 !.walk = ScanEntries(@, ClusterToOffset(t.cluster), got)])
            /\ UNCHANGED <<known, notes>>
  /\ UNCHANGED <<vol, cache>>

ScanEnough(r) ==
  /\ task[r].op = "scan" /\ ~InDirectory(task[r])
  /\ Listed(r, task[r], {})
  /\ UNCHANGED <<vol, cache>>

Enter(r, c) ==
  /\ Update(r, [task[r] EXCEPT !.op = "scan", !.cluster = c])
  /\ UNCHANGED <<known, notes>>

(* A deleted directory goes on as long as what follows looks like one.     *)
HopAhead(r) ==
  LET t == task[r]
      next == t.cluster + 1 IN
  /\ t.op = "hop" /\ t.contiguous
  /\ \E got \in IF ValidCluster(next) THEN Got(ClusterToOffset(next), Probe) ELSE {0} :
       IF got = Probe /\ Plausible(next) THEN Enter(r, next) ELSE Listed(r, t, {})
  /\ UNCHANGED <<vol, cache>>

HopChain(r) ==
  LET t == task[r] IN
  /\ t.op = "hop" /\ ~t.contiguous
  /\ \E found \in Lookup(t.cluster) :
       LET next == FatNext(found.raw) IN
         /\ cache' = found.cache
         /\ IF Ends(next) \/ next = t.cluster THEN Listed(r, t, {}) ELSE Enter(r, next)
  /\ UNCHANGED vol

-----------------------------------------------------------------------------
(* readFileStream.                                                         *)

(* Mutant: the flag of the node is not passed on to the record.            *)
Straight_byEntry(n, rec) == rec.deleted

(* A deleted file, or one below a deleted folder, is read straight through. *)
Straight(n, rec) == n.deleted \/ rec.deleted

OpenFile(r) ==
  /\ task[r].op \in Resting
  /\ \E n \in known : ~n.dir /\ \E rec \in Reopen(n.id) :
       IF rec = NoRecord THEN Update(r, Call("read", n))
       ELSE IF rec.dir \/ rec.size = 0 THEN Update(r, Call("read", n))
       ELSE Update(r, [Call("chain", n) EXCEPT
              !.first = rec.first, !.cluster = rec.first, !.size = rec.size,
              !.contiguous = Straight(n, rec)])
  /\ UNCHANGED <<vol, cache, notes, known>>

(* `plan` is the extents of chainExtents one after the other; `visited <   *)
(* needed` of the code says no more than that bytes remain.                *)
Remaining(t) == t.size - Len(t.plan)

InChain(t) == Remaining(t) > 0 /\ ValidCluster(t.cluster)

Planned(t) ==
  LET off == ClusterToOffset(t.cluster)
  IN  [t EXCEPT !.plan = @ \o [k \in 1..Least(CS, Remaining(t)) |-> off + k - 1]]

(* Mutant: the guess is made and forgotten.                                *)
Followed_silently(t, next) ==
  IF Ends(next) THEN [t EXCEPT !.cluster = @ + 1] ELSE [t EXCEPT !.cluster = next]

(* Where the chain goes on; where it does not, the next cluster is guessed. *)
Followed(t, next) ==
  IF Ends(next) THEN [t EXCEPT !.cluster = @ + 1, !.guessed = TRUE]
                ELSE [t EXCEPT !.cluster = next]

(* One round of the loop; the last cluster needed asks for no next one.    *)
ChainStraight(r) ==
  LET t == Planned(task[r]) IN
  /\ task[r].op = "chain" /\ InChain(task[r])
  /\ task[r].contiguous
  /\ Update(r, IF Remaining(t) = 0 THEN t ELSE [t EXCEPT !.cluster = @ + 1])
  /\ UNCHANGED <<vol, cache, notes, known>>

ChainFat(r) ==
  LET t == Planned(task[r]) IN
  /\ task[r].op = "chain" /\ InChain(task[r])
  /\ ~task[r].contiguous
  /\ IF Remaining(t) = 0 THEN Update(r, t) /\ UNCHANGED cache
     ELSE \E found \in Lookup(t.cluster) :
            /\ cache' = found.cache
            /\ Update(r, Followed(t, FatNext(found.raw)))
  /\ UNCHANGED <<vol, notes, known>>

ChainDone(r) ==
  LET t == task[r] IN
  /\ t.op = "chain" /\ ~InChain(t)
  /\ Update(r, [t EXCEPT !.op = "stream"])
  /\ notes' = IF t.guessed THEN notes \cup {"guessed"} ELSE notes
  /\ UNCHANGED <<vol, cache, known>>

Written(t) == Len(t.sent)

(* Mutant: the buffer is filled across the end of an extent.               *)
Want_across(t) == Least(Chunk, Len(t.plan) - Written(t))

(* What is left of the extent the stream is in, or one buffer of it.       *)
Want(t) ==
  LET p == Written(t)
  IN  CHOOSE n \in 1..Chunk :
        /\ p + n <= Len(t.plan)
        /\ \A k \in 1..n : t.plan[p + k] = t.plan[p + 1] + k - 1
        /\ n = Chunk \/ p + n = Len(t.plan) \/ t.plan[p + n + 1] # t.plan[p + 1] + n

Holes(n) == [k \in 1..n |-> Hole]

Data(u, n) == [k \in 1..n |-> u + k - 1]

(* A buffer goes to the sink: what was read of it, or zeros for all of it. *)
Sent(t, got) ==
  [t EXCEPT !.sent = @ \o (IF got = 0 THEN Holes(Want(t))
                           ELSE Data(t.plan[Written(t) + 1], got))]

SendChunk(r) ==
  LET t == task[r] IN
  /\ t.op = "stream" /\ Written(t) < Len(t.plan)
  /\ \E got \in Got(t.plan[Written(t) + 1], Want(t)) :
       /\ Update(r, Sent(t, got))
       /\ notes' = IF got = 0 THEN notes \cup {"gap"} ELSE notes
  /\ UNCHANGED <<vol, cache, known>>

(* The clusters are exhausted and the size is not.                         *)
Pad(r) ==
  LET t == task[r] IN
  /\ t.op = "stream" /\ Written(t) >= Len(t.plan) /\ Written(t) < t.size
  /\ Update(r, [t EXCEPT !.sent = @ \o Holes(Least(Chunk, t.size - Written(t)))])
  /\ UNCHANGED <<vol, cache, notes, known>>

ReadDone(r) ==
  LET t == task[r] IN
  /\ t.op = "stream" /\ Written(t) >= Len(t.plan) /\ Written(t) >= t.size
  /\ Update(r, [t EXCEPT !.op = "read"])
  /\ UNCHANGED <<vol, cache, notes, known>>

(* The sink returned false: the preview has enough, or the export failed.  *)
Abort(r) ==
  /\ task[r].op = "stream" /\ Written(task[r]) > 0
  /\ Update(r, [task[r] EXCEPT !.op = "aborted"])
  /\ UNCHANGED <<vol, cache, notes, known>>

-----------------------------------------------------------------------------
Init ==
  /\ vol \in Volumes
  /\ cache = [valid |-> FALSE, block |-> 0, entry |-> <<>>]
  /\ notes = {}
  /\ known = {}
  /\ task = [r \in Readers |-> Call("idle", Root)]

Begin(r) == ListRoot(r) \/ ListFixedRoot(r) \/ ListDir(r) \/ OpenFile(r)

Continue(r) ==
  \/ ScanCluster(r) \/ ScanEnough(r) \/ HopAhead(r) \/ HopChain(r)
  \/ ChainStraight(r) \/ ChainFat(r) \/ ChainDone(r)
  \/ SendChunk(r) \/ Pad(r) \/ ReadDone(r)

Next == \E r \in Readers : Begin(r) \/ Continue(r) \/ Abort(r)

(* A thread inside a call is running code that does not wait.              *)
Fairness == \A r \in Readers : WF_vars(Continue(r))

Spec == Init /\ [][Next]_vars /\ Fairness

-----------------------------------------------------------------------------
(* Properties.                                                             *)

(* What the drive may make the cached FAT say of c: its entry, or nothing. *)
MayReadZero(c) ==
  \E w \in vol.weakFat : w = c \/ (w < c /\ w \div Block = c \div Block)

(* The low bits of the entry of c, which name the cluster behind it, if    *)
(* any: the format, apart from how the code decodes it.                    *)
Link(c) ==
  vol.fat[c - 1] % (CASE vol.bits = 12 -> 4096 [] vol.bits = 16 -> 65536 [] OTHER -> 268435456)

(* It does name one; the values from FatBad on name none, however large    *)
(* the volume.                                                             *)
Linked(c) == ValidCluster(Link(c)) /\ Link(c) < 268435447

Breaks(c) == ~Linked(c) \/ MayReadZero(c)

(* The entry of c was half read, and the half names a cluster.             *)
Mislinked(c, d) == c \in vol.splits \cap vol.weakFat /\ d = Half(c)

OnChain(t, c, d) ==
  IF t.contiguous THEN d = c + 1
  ELSE \/ Linked(c) /\ d = Link(c)
       \/ Breaks(c) /\ t.guessed /\ d = c + 1
       \/ Mislinked(c, d)

(* The clusters read for a file are those its FAT chain names, in order;   *)
(* the walk leaves the chain where it breaks off or did not read, and then *)
(* the loss is recorded; or, unrecorded, at a FAT12 entry of which a read  *)
(* that stopped short left half: what is behind the stop does not always   *)
(* "read back as free" (fatReadRaw).  A file shown as deleted never follows*)
(* the FAT, which describes somebody else's data by now (fat.h,            *)
(* "deliberately not consulted").  Violated when another block of the FAT, *)
(* which this thread or another left in the cache, is taken for the wanted *)
(* one, or when the flag of a file below a deleted folder is lost.         *)
ReadsTheChain ==
  \A r \in Readers :
    LET t == task[r] IN
    t.op \in {"chain", "stream", "read", "aborted"} =>
      /\ t.node.deleted /\ t.plan # <<>> => t.contiguous
      /\ t.guessed => \E u \in Range(t.plan) : Breaks(ClusterOf(u))
      /\ \A k \in 1..(Len(t.plan) - 1) :
           IF k % CS = 0
           THEN /\ t.plan[k + 1] = ClusterToOffset(ClusterOf(t.plan[k + 1]))
                /\ OnChain(t, ClusterOf(t.plan[k]), ClusterOf(t.plan[k + 1]))
           ELSE t.plan[k + 1] = t.plan[k] + 1

Unreadable(u) == u \in vol.weak \/ u > vol.image

(* Zeros from j to k: one buffer at most, all of one extent, and a unit at *)
(* its beginning that does not read.                                       *)
HoleFrom(t, j, k) ==
  /\ Unreadable(t.plan[j]) /\ k < j + Chunk
  /\ \A i \in j..k : t.plan[i] = t.plan[j] + (i - j) /\ t.sent[i] = Hole

(* The entry of n is listed, but cannot be opened again: it does not read, *)
(* or only its long name is one (recordAt decodes the short one).          *)
EntryLost(n) == Unreadable(n.id) \/ ~vol.unit[n.id].legal

(* What does not read leaves a hole in its own place: whatever comes behind*)
(* stays at its offset in the file ("everything after the bad patch stays  *)
(* at its correct offset", streamRecord).  A hole is larger than the bad   *)
(* sector it begins with, up to the buffer's end, but goes no further than *)
(* the extent.  Zeros are added behind the clusters only when the last one *)
(* of the volume is the file's, and a stream that ended has the length that*)
(* was listed, unless the entry could not be read again: then it is empty  *)
(* and counts as read.                                                     *)
StaysInPlace ==
  \A r \in Readers :
    LET t == task[r] IN
    /\ \A k \in DOMAIN t.sent :
         IF k > Len(t.plan) THEN t.sent[k] = Hole /\ t.plan[Len(t.plan)] = Units
         ELSE t.sent[k] = t.plan[k] \/ \E j \in 1..k : HoleFrom(t, j, k)
    /\ t.op = "read" => \/ Len(t.sent) = t.node.size
                        \/ t.sent = <<>> /\ EntryLost(t.node)

(* Whoever got zeros, or clusters that were guessed, in a live file can    *)
(* know: the notes of the volume say so by the time the stream ends.       *)
DamageIsTold ==
  \A r \in Readers :
    LET t == task[r] IN
    t.op \in {"stream", "read", "aborted"} =>
      /\ t.guessed => "guessed" \in notes
      /\ ~t.contiguous /\ Len(t.plan) < t.size => "guessed" \in notes
      /\ (\E k \in DOMAIN t.sent : k <= Len(t.plan) /\ t.sent[k] = Hole) => "gap" \in notes

(* An end marker that must have been read with its cluster.                *)
EndsIn(c) ==
  \E u \in ClusterToOffset(c)..(ClusterToOffset(c) + CS - 1) :
    /\ vol.unit[u].kind = "end" /\ u <= vol.image
    /\ \A w \in vol.weak : ClusterOf(w) = c => w > u

(* An entry listed as live is one: no end-of-directory marker was read     *)
(* before it, in whatever earlier cluster of the chain, and the long name  *)
(* it is listed under was written for it.                                  *)
LiveEntriesAreLive ==
  \A r \in Readers :
    LET out == task[r].walk.out IN
    \A j \in DOMAIN out : ~out[j].deleted =>
      /\ out[j].name = vol.unit[out[j].id].sum
      /\ \A i \in 1..(j - 1) :
           \/ out[i].id < DataStart
           \/ ClusterOf(out[i].id) = ClusterOf(out[j].id)
           \/ ~EndsIn(ClusterOf(out[i].id))

(* The clusters of a directory, by its chain alone.                        *)
Reach(first) ==
  LET step[k \in 0..vol.count] ==
        IF k = 0 THEN {first}
        ELSE step[k - 1] \cup
             {Link(c) : c \in {d \in step[k - 1] : Linked(d)}}
  IN  step[vol.count]

(* On a drive that reads, a listing misses nothing: every entry that can   *)
(* be kept, in every cluster the chain reaches, is in it, also when the    *)
(* chain runs in circles.                                                  *)
ListsEverything ==
  \A r \in Readers :
    LET t == task[r] IN
    (/\ t.op = "listed" /\ t.first # 0 /\ ~t.contiguous
     /\ vol.weak = {} /\ vol.weakFat = {} /\ vol.image >= Units) =>
      \A c \in Reach(t.first) :
        \A u \in ClusterToOffset(c)..(ClusterToOffset(c) + CS - 1) :
          LET e == vol.unit[u] IN
          e.kind = "entry" /\ e.legal /\ Keepable(e) =>
            \E i \in DOMAIN t.walk.out : t.walk.out[i].id = u

=============================================================================
