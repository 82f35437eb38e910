----------------------------- MODULE ExfatVolume -----------------------------
(***************************************************************************)
(* The exFAT reader (src/fs/exfat/exfat.cpp) on a volume whose metadata may*)
(* be damaged: entry sets that lost members or cross clusters, directories *)
(* without a FAT chain, chains that loop or break, deleted files whose     *)
(* clusters were given to others, a first boot sector that is gone.        *)
(*                                                                         *)
(* The unit is one directory entry (32 bytes); data is counted in the same *)
(* unit, and a unit's content is its address.  Cluster 2 is units 1..CS.   *)
(* What does not read never does, so every read has one outcome; what      *)
(* threads share is the map of live clusters, built once under liveMutex_, *)
(* and the list of notes.                                                  *)
(***************************************************************************)
EXTENDS Integers, Sequences, FiniteSets, SequencesExt

CONSTANTS
  Readers,       \* threads that use the filesystem
  Volumes,       \* the volumes considered: see Volume
  CS,            \* units per cluster
  Chunk,         \* units per call of the sink: 1 MiB
  Block,         \* FAT entries per block read: FAT_BLOCK
  MaxSecondary,  \* MAX_SECONDARY
  MaxWalkDepth,  \* kMaxWalkDepth
  Hole           \* a unit of zeros

ASSUME SizeAssumption ==
  {CS, Chunk, Block, MaxSecondary, MaxWalkDepth} \subseteq Nat \ {0}

(* An entry.  `tag` and `pos` say which set it was written with, and where *)
(* in it; the checksum in a file entry holds for its own set only.  `live` *)
(* is the in-use bit, `count` the secondaries, `names` how many name       *)
(* entries NameLength calls for, `legal` that the name passes nameIsSafe.  *)
Slot == [kind : {"end", "file", "stream", "name", "bitmap", "other"}, live : BOOLEAN,
         tag : Nat, pos : Nat, count : Nat, dir : BOOLEAN, names : Nat, legal : BOOLEAN,
         noFat : BOOLEAN, first : Nat, size : Nat, valid : Nat]

Volume == [boot : [{"primary", "backup"} -> BOOLEAN], count : Nat, root : Nat,
           fat : Seq(Nat), unit : Seq(Slot), bad : SUBSET Nat, badFat : SUBSET Nat]

ASSUME VolumeAssumption ==
  \A v \in Volumes :
    v \in Volume /\ v.root \in 2..(v.count + 1) /\ Len(v.fat) = v.count /\ Len(v.unit) = v.count * CS

VARIABLES
  vol,      \* the volume, fixed
  mounted,  \* "no", the boot region it was mounted from, or "failed"
  live,     \* liveClusters_, liveBuilt_, who holds liveMutex_, and the walk's stack
  notes,    \* notes_
  known,    \* nodes some listing returned, which a caller may come back with
  task      \* per thread: the call in progress, or the last one's result

vars == <<vol, mounted, live, notes, known, task>>

Root == [id |-> 0, dir |-> TRUE, deleted |-> FALSE, reused |-> "unknown", size |-> 0]

Rest == [op |-> "idle", node |-> Root, out |-> <<>>, plan |-> <<>>, size |-> 0, sent |-> <<>>]

Resting == {"idle", "listed", "read"}

-----------------------------------------------------------------------------
(* Geometry, the drive and the FAT.                                        *)

Units == vol.count * CS

ClusterToOffset(c) == (c - 2) * CS + 1

ClusterOf(u) == (u - 1) \div CS + 2

ValidClusters == 2..(vol.count + 1)

ValidCluster(c) == c \in ValidClusters

Least(a, b) == IF a < b THEN a ELSE b

(* readAt: how many of n units from u on it returns.                       *)
Got(u, n) == CHOOSE k \in 0..n :
  (k = n \/ u + k \in vol.bad) /\ \A w \in u..(u + k - 1) : w \notin vol.bad

(* A block of the FAT that did not read whole has zeros behind.            *)
FatNext(c) ==
  IF \E w \in vol.badFat : w <= c /\ w \div Block = c \div Block THEN 0 ELSE vol.fat[c - 1]

(* Where the FAT gives no answer the adjacent cluster is tried.            *)
Onward(c, noFat) == IF ~noFat /\ ValidCluster(FatNext(c)) THEN FatNext(c) ELSE c + 1

(* The clusters from `first` on, n at most, up to one outside the volume.  *)
Clusters(first, n, next) ==
  LET Extend(cs, k) ==
        LET c == IF cs = <<>> THEN first ELSE next[Last(cs)]
        IN  IF Len(cs) = k - 1 /\ ValidCluster(c) THEN Append(cs, c) ELSE cs
  IN  FoldLeft(Extend, <<>>, [k \in 1..n |-> k])

Needed(units) == (units + CS - 1) \div CS

(* chainExtents, its extents one after the other, and whether it guessed.  *)
ChainExtents(first, noFat, units) ==
  LET next == [c \in ValidClusters |-> Onward(c, noFat)]
      cs == Clusters(first, Needed(units), next)
  IN  [plan |-> [k \in 1..Least(units, Len(cs) * CS) |->
                   ClusterToOffset(cs[(k - 1) \div CS + 1]) + ((k - 1) % CS)],
       guessed |-> ~noFat /\ \E k \in DOMAIN cs : k < Needed(units) /\ ~ValidCluster(FatNext(cs[k]))]

-----------------------------------------------------------------------------
(* Entry sets.                                                             *)

(* readEntries: n entries from u on, across clusters; fewer if it fails.   *)
ReadEntries(u, n, noFat) ==
  LET After(x) ==
        IF x % CS # 0 THEN x + 1
        ELSE IF ValidCluster(Onward(ClusterOf(x), noFat)) THEN ClusterToOffset(Onward(ClusterOf(x), noFat)) ELSE 0
      Extend(got, k) ==
        LET x == IF got = <<>> THEN u ELSE After(Last(got))
        IN  IF Len(got) = k - 1 /\ x # 0 /\ x \notin vol.bad THEN Append(got, x) ELSE got
      at == FoldLeft(Extend, <<>>, [k \in 1..n |-> k])
  IN  [k \in DOMAIN at |-> vol.unit[at[k]]]

NoRecord == [id |-> 0]

CountOk(e) == e.count >= 1 /\ e.count <= MaxSecondary

(* Mutant: the name entries are not counted.                               *)
WellFormed_anyName(raw, n) ==
  LET streams == {i \in 2..n : raw[i].kind = "stream"}
      namesAt == {i \in 2..n : raw[i].kind = "name"}
  IN  /\ \E s \in streams : streams = {s} /\ \A i \in namesAt : s < i
      /\ \A i \in namesAt : raw[i].legal

(* Exactly one stream entry, in front of as many names as it needs.        *)
WellFormed(raw, n) ==
  LET streams == {i \in 2..n : raw[i].kind = "stream"}
      namesAt == {i \in 2..n : raw[i].kind = "name"}
  IN  /\ \E s \in streams :
           /\ streams = {s} /\ \A i \in namesAt : s < i
           /\ raw[s].names > 0 /\ Cardinality(namesAt) >= raw[s].names
      /\ \A i \in namesAt : raw[i].legal

ParseEntrySet(raw, u) ==
  LET n == raw[1].count + 1
      s == raw[CHOOSE i \in 2..n : raw[i].kind = "stream"]
  IN  IF \/ Len(raw) < 2 \/ raw[1].kind # "file" \/ ~CountOk(raw[1]) \/ Len(raw) < n
         \/ ~WellFormed(raw, n)
         \/ s.size > Units \/ (s.size > 0 /\ ~ValidCluster(s.first))
      THEN NoRecord
      ELSE [id |-> u, dir |-> raw[1].dir, deleted |-> ~raw[1].live, noFat |-> s.noFat,
            first |-> s.first, size |-> s.size, valid |-> s.valid]

(* entrySetChecksum against the checksum stored, the in-use bits put back. *)
Checks(raw) ==
  /\ Len(raw) = raw[1].count + 1
  /\ \A i \in DOMAIN raw : raw[i].tag = raw[1].tag /\ raw[i].pos = i - 1

(* Mutant: the entries are always taken along the FAT.                     *)
RecordAt_byFat(u) ==
  LET head == ReadEntries(u, 1, FALSE)
  IN  IF head = <<>> \/ ~CountOk(vol.unit[u]) THEN NoRecord
      ELSE ParseEntrySet(ReadEntries(u, vol.unit[u].count + 1, FALSE), u)

(* recordAt: an id does not say how its directory is chained, so both ways *)
(* are tried and the checksum decides; failing that, whatever parses.      *)
BestOf(byFat, flat, u) ==
  LET Good(raw) == ParseEntrySet(raw, u) # NoRecord /\ Checks(raw)
  IN  ParseEntrySet(IF ~Good(byFat) /\ Good(flat) THEN flat ELSE byFat, u)

RecordAt(u) ==
  IF ReadEntries(u, 1, FALSE) = <<>> \/ ~CountOk(vol.unit[u]) THEN NoRecord
  ELSE BestOf(ReadEntries(u, vol.unit[u].count + 1, FALSE), ReadEntries(u, vol.unit[u].count + 1, TRUE), u)

-----------------------------------------------------------------------------
(* Directories.                                                            *)

(* How far a directory goes; without a length only a chain tells.          *)
MaxClusters(noFat, size) == IF size > 0 THEN Needed(size) ELSE IF noFat THEN 1 ELSE vol.count

NoScan == [noFat |-> FALSE, skip |-> 0, past |-> FALSE, rejected |-> FALSE, lost |-> FALSE, out |-> <<>>]

(* A file entry: the set it opens is kept, and its members in this cluster *)
(* are done; behind the end marker only a set that checks is kept.         *)
OnFile(w, u) ==
  LET e   == vol.unit[u]
      raw == ReadEntries(u, e.count + 1, w.noFat)
      rec == ParseEntrySet(raw, u)
  IN  IF ~CountOk(e) \/ rec = NoRecord \/ (w.past /\ ~Checks(raw))
      THEN [w EXCEPT !.rejected = TRUE]
      ELSE [w EXCEPT !.skip = u + e.count,
                     !.out = Append(@, [rec EXCEPT !.deleted = @ \/ w.past])]

OnSlot(w, u) ==
  CASE u <= w.skip               -> w
    [] vol.unit[u].kind = "end"  -> [w EXCEPT !.past = TRUE]
    [] vol.unit[u].kind = "file" -> OnFile(w, u)
    [] OTHER                     -> w

ScanCluster(w, c) ==
  LET u == ClusterToOffset(c) IN
  IF w.lost THEN w
  ELSE IF Got(u, CS) = 0 THEN [w EXCEPT !.lost = TRUE]
  ELSE FoldLeft(OnSlot, [w EXCEPT !.skip = 0], [k \in 1..Got(u, CS) |-> u + k - 1])

DirectoryClusters(first, noFat, size) ==
  LET next == [c \in ValidClusters |-> IF noFat THEN c + 1 ELSE IF FatNext(c) = c THEN 0 ELSE FatNext(c)]
  IN  Clusters(first, MaxClusters(noFat, size), next)

ScanDirectory(first, noFat, size) ==
  FoldLeft(ScanCluster, [NoScan EXCEPT !.noFat = noFat], DirectoryClusters(first, noFat, size))

ScanNotes(w) ==
  (IF w.lost THEN {"clusterGap"} ELSE {}) \cup (IF w.rejected THEN {"skipped"} ELSE {})

(* storedBytes: what lies behind ValidDataLength was never written, unless *)
(* the field was never maintained.                                         *)
StoredBytes(rec) == IF rec.valid > 0 /\ rec.valid < rec.size THEN rec.valid ELSE rec.size

GuessNotes(chain) == IF chain.guessed THEN {"guessed"} ELSE {}

-----------------------------------------------------------------------------
(* Mounting.                                                               *)

(* readRootMetadata: where the root says the allocation bitmap is, as far  *)
(* as its clusters read.                                                   *)
Bitmaps ==
  LET cs == DirectoryClusters(vol.root, FALSE, 0)
      Read(i) == LET u == ClusterToOffset(cs[i]) IN u..(u + Got(u, CS) - 1)
      at == {u \in UNION {Read(i) : i \in {j \in DOMAIN cs : \A k \in 1..j : Read(k) # {}}} :
               vol.unit[u].kind = "bitmap" /\ vol.unit[u].live /\ ValidCluster(vol.unit[u].first)}
  IN  {ChainExtents(vol.unit[u].first, FALSE, vol.unit[u].size) : u \in at}

BitmapExtents == UNION {Range(chain.plan) : chain \in Bitmaps}

(* open: the backup boot region where the primary does not make sense.     *)
Open ==
  /\ mounted \in {"no", "failed"}
  /\ mounted' = IF vol.boot["primary"] THEN "primary" ELSE IF vol.boot["backup"] THEN "backup" ELSE "failed"
  /\ notes' = IF mounted' = "failed" THEN {}
              ELSE (IF mounted' = "backup" THEN {"backup"} ELSE {})
                   \cup ScanNotes(ScanDirectory(vol.root, FALSE, 0))
                   \cup UNION {GuessNotes(chain) : chain \in Bitmaps}
  /\ UNCHANGED <<vol, live, known, task>>

-----------------------------------------------------------------------------
(* listDir.                                                                *)

Ready(r) == mounted \in {"primary", "backup"} /\ task[r].op \in Resting

Update(r, t) == task' = [task EXCEPT ![r] = t]

(* What a folder's node leads to: its own record, or the root's clusters.  *)
Folder(n) ==
  IF n.id = 0 THEN [dir |-> TRUE, first |-> vol.root, noFat |-> FALSE, size |-> 0, deleted |-> FALSE]
  ELSE RecordAt(n.id)

(* The entries are read; files among them that are deleted, or lie below a *)
(* deleted folder, are judged against the map of live clusters next.       *)
Found(r, n, gone, w) ==
  /\ notes' = notes \cup ScanNotes(w)
  /\ Update(r, [Rest EXCEPT !.op = "judge", !.node = n,
       !.out = [i \in DOMAIN w.out |-> [w.out[i] EXCEPT !.deleted = @ \/ gone]]])

Listing(r, n, rec) ==
  IF rec = NoRecord THEN Update(r, [Rest EXCEPT !.op = "listed", !.node = n]) /\ UNCHANGED notes
  ELSE IF ~rec.dir \/ ~ValidCluster(rec.first)
  THEN Update(r, [Rest EXCEPT !.op = "listed", !.node = n]) /\ UNCHANGED notes
  ELSE Found(r, n, n.deleted \/ rec.deleted, ScanDirectory(rec.first, rec.noFat, rec.size))

ListDir(r) ==
  /\ Ready(r)
  /\ \E n \in {x \in known : x.dir} : Listing(r, n, Folder(n))
  /\ UNCHANGED <<vol, mounted, live, known>>

ToJudge(t) == {i \in DOMAIN t.out : t.out[i].deleted /\ ~t.out[i].dir}

(* Mutant: the flag is set first and the map built afterwards.             *)
LiveReady_early == live.built \/ live.holder # {}

LiveReady == live.built

(* buildLiveClusterMap under liveMutex_: the bitmap's own clusters and the *)
(* chain of the root, then a walk over live directories.                   *)
LiveStart(r) ==
  LET next == [c \in ValidClusters |-> FatNext(c)] IN
  /\ task[r].op = "judge" /\ ToJudge(task[r]) # {} /\ ~LiveReady /\ live.holder = {}
  /\ live' = [live EXCEPT !.holder = {r},
       !.clusters = {ClusterOf(u) : u \in BitmapExtents}
                    \cup Range(Clusters(vol.root, vol.count, next)),
       !.todo = <<[first |-> vol.root, noFat |-> FALSE, size |-> 0, depth |-> 0]>>,
       !.visited = {vol.root}]
  /\ UNCHANGED <<vol, mounted, notes, known, task>>

(* Mutant: a directory met twice is walked twice.                          *)
Mark_again(d, v, rec) ==
  LET chain == ChainExtents(rec.first, rec.noFat, IF rec.dir THEN rec.size ELSE StoredBytes(rec))
      m == [v EXCEPT !.clusters = @ \cup {ClusterOf(u) : u \in Range(chain.plan)},
                     !.told = @ \cup GuessNotes(chain)]
  IN  IF rec.deleted \/ ~ValidCluster(rec.first) THEN v
      ELSE IF ~rec.dir THEN m
      ELSE [m EXCEPT !.todo = Append(@, [first |-> rec.first, noFat |-> rec.noFat,
                                         size |-> rec.size, depth |-> 0])]

(* One record of a live directory: what it owns is marked, and a directory *)
(* not seen before is walked too.                                          *)
Mark(d, v, rec) ==
  LET chain == ChainExtents(rec.first, rec.noFat, IF rec.dir THEN rec.size ELSE StoredBytes(rec))
      m == [v EXCEPT !.clusters = @ \cup {ClusterOf(u) : u \in Range(chain.plan)},
                     !.told = @ \cup GuessNotes(chain)]
  IN  IF rec.deleted \/ ~ValidCluster(rec.first) THEN v
      ELSE IF ~rec.dir \/ d.depth + 1 >= MaxWalkDepth \/ rec.first \in v.visited THEN m
      ELSE [m EXCEPT !.visited = @ \cup {rec.first},
              !.todo = Append(@, [first |-> rec.first, noFat |-> rec.noFat, size |-> rec.size,
                                  depth |-> d.depth + 1])]

WalkedIn(d, w) ==
  LET Marked(v, rec) == Mark(d, v, rec)
  IN  FoldLeft(Marked, [live EXCEPT !.todo = Front(@), !.told = @ \cup ScanNotes(w)], w.out)

LiveStep(r) ==
  /\ live.holder = {r} /\ live.todo # <<>>
  /\ LET d == Last(live.todo) IN live' = WalkedIn(d, ScanDirectory(d.first, d.noFat, d.size))
  /\ notes' = notes \cup live'.told
  /\ UNCHANGED <<vol, mounted, known, task>>

LiveEnd(r) ==
  /\ live.holder = {r} /\ live.todo = <<>>
  /\ live' = [live EXCEPT !.holder = {}, !.built = TRUE]
  /\ UNCHANGED <<vol, mounted, notes, known, task>>

(* reallocatedPermille over the clusters an export would read: none, some  *)
(* or all of them in use (-1, 0, 1..999, 1000).                            *)
ClustersOf(rec) == {ClusterOf(u) : u \in Range(ChainExtents(rec.first, rec.noFat, StoredBytes(rec)).plan)}

Among(of, use) ==
  CASE of = {} -> "unknown" [] use = {} -> "none" [] use = of -> "all" [] OTHER -> "some"

Reallocated(rec) == Among(ClustersOf(rec), ClustersOf(rec) \cap live.clusters)

Nodes(t) ==
  {[id |-> rec.id, dir |-> rec.dir, deleted |-> rec.deleted,
    reused |-> IF rec.deleted /\ ~rec.dir THEN Reallocated(rec) ELSE "unknown",
    size |-> IF rec.dir THEN 0 ELSE rec.size] : rec \in Range(t.out)}

Judged(r) ==
  LET t == task[r] IN
  /\ t.op = "judge" /\ (ToJudge(t) = {} \/ LiveReady) /\ live.holder # {r}
  /\ Update(r, [t EXCEPT !.op = "listed"])
  /\ known' = known \cup Nodes(t)
  /\ notes' = notes \cup UNION {GuessNotes(ChainExtents(t.out[i].first, t.out[i].noFat,
                                                        StoredBytes(t.out[i]))) : i \in ToJudge(t)}
  /\ UNCHANGED <<vol, mounted, live>>

-----------------------------------------------------------------------------
(* readFileStream.                                                         *)

Streaming(r, n, size, chain) ==
  /\ Update(r, [Rest EXCEPT !.op = "stream", !.node = n, !.plan = chain.plan, !.size = size])
  /\ notes' = notes \cup GuessNotes(chain)

Reading(r, n, rec) ==
  IF rec = NoRecord THEN Update(r, [Rest EXCEPT !.op = "read", !.node = n]) /\ UNCHANGED notes
  ELSE IF rec.dir \/ rec.size = 0
  THEN Update(r, [Rest EXCEPT !.op = "read", !.node = n]) /\ UNCHANGED notes
  ELSE Streaming(r, n, rec.size, ChainExtents(rec.first, rec.noFat, StoredBytes(rec)))

ReadFile(r) ==
  /\ Ready(r)
  /\ \E n \in {x \in known : ~x.dir} : Reading(r, n, RecordAt(n.id))
  /\ UNCHANGED <<vol, mounted, live, known>>

Holes(n) == [k \in 1..n |-> Hole]

(* A buffer of the extent the stream is in.                                *)
Want(t) ==
  LET p == Len(t.sent)
      Run(n) == p + n <= Len(t.plan) /\ \A k \in 1..n : t.plan[p + k] = t.plan[p + 1] + k - 1
  IN  CHOOSE n \in 1..Chunk : Run(n) /\ (n = Chunk \/ ~Run(n + 1))

(* What was read goes to the sink; where nothing was, zeros for all of it. *)
SendChunk(r) ==
  LET t == task[r]
      u == t.plan[Len(t.sent) + 1]
      got == Got(u, Want(t)) IN
  /\ t.op = "stream" /\ Len(t.sent) < Len(t.plan)
  /\ Update(r, [t EXCEPT !.sent = @ \o IF got = 0 THEN Holes(Want(t)) ELSE [k \in 1..got |-> u + k - 1]])
  /\ notes' = IF got = 0 THEN notes \cup {"gap"} ELSE notes
  /\ UNCHANGED <<vol, mounted, live, known>>

(* Zeros up to the size.                                                   *)
ReadDone(r) ==
  LET t == task[r] IN
  /\ t.op = "stream" /\ Len(t.sent) >= Len(t.plan)
  /\ Update(r, [t EXCEPT !.op = "read", !.sent = @ \o Holes(t.size - Len(t.sent))])
  /\ UNCHANGED <<vol, mounted, live, notes, known>>

-----------------------------------------------------------------------------
Init ==
  /\ vol \in Volumes /\ mounted = "no" /\ notes = {} /\ known = {Root}
  /\ live = [built |-> FALSE, holder |-> {}, clusters |-> {}, todo |-> <<>>, visited |-> {}, told |-> {}]
  /\ task = [r \in Readers |-> Rest]

Begin(r) == ListDir(r) \/ ReadFile(r)

Continue(r) ==
  LiveStart(r) \/ LiveStep(r) \/ LiveEnd(r) \/ Judged(r) \/ SendChunk(r) \/ ReadDone(r)

Next == Open \/ \E r \in Readers : Begin(r) \/ Continue(r)

Spec == Init /\ [][Next]_vars

-----------------------------------------------------------------------------
(* Properties.                                                             *)

(* The set an entry was written with, wherever its members lie now.        *)
StreamOf(u) == vol.unit[CHOOSE s \in 1..Units : vol.unit[s].tag = vol.unit[u].tag /\ vol.unit[s].kind = "stream"]

Whole(u, noFat) ==
  /\ vol.unit[u].kind = "file"
  /\ LET raw == ReadEntries(u, vol.unit[u].count + 1, noFat) IN
       Len(raw) = vol.unit[u].count + 1 /\ Checks(raw)

Sound == vol.bad = {} /\ vol.badFat = {}

(* The clusters of a directory, by its set alone.                          *)
Extent(first, noFat, size) ==
  LET reach[k \in Nat] ==
        IF k = 0 THEN {first}
        ELSE LET near == reach[k - 1] IN
             near \cup {d \in {IF noFat THEN c + 1 ELSE vol.fat[c - 1] : c \in near} : ValidCluster(d)}
  IN  reach[(IF size > 0 THEN Needed(size) ELSE IF noFat THEN 1 ELSE vol.count) - 1]

(* On a drive that reads, a listing has every file whose entry set is      *)
(* whole, in whatever cluster of the directory it begins and wherever it   *)
(* ends; a broken set in front does not swallow it.  One shown as live is  *)
(* in use, and so is everything shown below a folder that is not deleted.  *)
NothingSwallowed ==
  \A r \in Readers :
    LET t == task[r]
        rec == Folder(t.node) IN
    t.op = "listed" /\ t.node.dir /\ rec # NoRecord /\ Sound =>
      /\ ValidCluster(rec.first) =>
         \A u \in 1..Units :
           ClusterOf(u) \in Extent(rec.first, rec.noFat, rec.size) /\ Whole(u, rec.noFat)
             => \E i \in DOMAIN t.out : t.out[i].id = u
      /\ \A i \in DOMAIN t.out : ~t.out[i].deleted => vol.unit[t.out[i].id].live

(* What the walk over live directories leads to, guessed clusters included.*)
Walked ==
  LET Of(e)   == Range(ChainExtents(e.first, e.noFat, IF e.dir THEN e.size ELSE StoredBytes(e)).plan)
      In(dirs) == {e \in UNION {Range(ScanDirectory(d[1], d[2], d[3]).out) : d \in dirs} : ~e.deleted}
      dirsTo[k \in Nat] ==
        IF k = 0 THEN {<<vol.root, FALSE, 0>>}
        ELSE LET dirs == dirsTo[k - 1] IN
             dirs \cup {<<e.first, e.noFat, e.size>> : e \in {x \in In(dirs) : x.dir /\ ValidCluster(x.first)}}
  IN  {ClusterOf(u) : u \in UNION {Of(e) : e \in In(dirsTo[vol.count])}}
      \cup Extent(vol.root, FALSE, 0) \cup {ClusterOf(u) : u \in BitmapExtents}

(* The format, whatever of it can be read: the clusters of a record; the   *)
(* slots of a folder in their order; its sets in use, none of them behind  *)
(* an end marker; the folders below the root as deep as the walk may go.   *)
Chain(e) ==
  Clusters(e.first,
           IF ~e.dir THEN Needed(StoredBytes(e))
           ELSE IF e.size > 0 THEN Needed(e.size) ELSE IF e.noFat THEN 1 ELSE vol.count,
           [c \in ValidClusters |-> IF e.noFat THEN c + 1 ELSE vol.fat[c - 1]])

UnitsOf(cs) ==
  [k \in 1..(Len(cs) * CS) |-> ClusterToOffset(cs[(k - 1) \div CS + 1]) + ((k - 1) % CS)]

Slots(at, k) ==
  [i \in 1..Least(vol.unit[at[k]].count + 1, Len(at) + 1 - k) |-> vol.unit[at[k + i - 1]]]

SetsAlong(at) ==
  LET InUse(k) == /\ vol.unit[at[k]].kind = "file" /\ vol.unit[at[k]].live
                  /\ \A i \in 1..k : vol.unit[at[i]].kind # "end"
                  /\ Checks(Slots(at, k))
  IN  {ParseEntrySet(Slots(at, k), at[k]) : k \in {x \in DOMAIN at : InUse(x)}} \ {NoRecord}

LiveSets(d) == SetsAlong(UnitsOf(Chain(d)))

RootRecord == [dir |-> TRUE, first |-> vol.root, noFat |-> FALSE, size |-> 0]

BitmapRecords ==
  {[dir |-> FALSE, first |-> e.first, noFat |-> FALSE, size |-> e.size, valid |-> e.size] :
     e \in {vol.unit[u] : u \in {x \in 1..Units : /\ ClusterOf(x) \in Range(Chain(RootRecord))
                                                  /\ vol.unit[x].kind = "bitmap" /\ vol.unit[x].live}}}

LinksRead(e) ==
  e.noFat \/ \A c \in Range(Chain(e)), w \in vol.badFat : ~(w <= c /\ w \div Block = c \div Block)

Reads(d) == LinksRead(d) /\ \A u \in vol.bad : ClusterOf(u) \notin Range(Chain(d))

LiveFolders(any) ==
  LET below[k \in Nat] ==
        IF k = 0 THEN {RootRecord}
        ELSE below[k - 1] \cup
             {e \in UNION {LiveSets(d) : d \in {x \in below[k - 1] : any \/ Reads(x)}} :
                e.dir /\ ValidCluster(e.first)}
  IN  below[MaxWalkDepth - 1]

(* The clusters in use: all of them, or (~any) those of which each folder  *)
(* on the way, and the links of the owner, can be read.                    *)
OwnersIn(folders) ==
  {RootRecord} \cup UNION {LiveSets(d) : d \in folders}
  \cup (IF RootRecord \in folders THEN BitmapRecords ELSE {})

Taken(any) ==
  UNION {Range(Chain(e)) : e \in {x \in OwnersIn({d \in LiveFolders(any) : any \/ Reads(d)}) :
                                     any \/ LinksRead(x)}}

(* A folder on the way is read in part, or its chain breaks off, which the *)
(* walk does not notice.                                                   *)
CutShort ==
  \E d \in LiveFolders(TRUE) :
    ~LinksRead(d) \/ \E c \in Range(Chain(d)) : Got(ClusterToOffset(c), CS) \in 1..(CS - 1)

JudgedRightly(reused, of) ==
  /\ reused = "none" =>
       \/ of \cap Taken(TRUE) = {}
       \/ of \cap Taken(FALSE) = {} /\ (live.told # {} \/ CutShort)
  /\ reused = "all" => of \subseteq Walked
  /\ reused = "unknown" => of = {}

(* A deleted file is shown as intact only when nothing live, be it a file, *)
(* a folder or the bitmap, has any of the clusters an export of it would   *)
(* read, and as lost only when all of them were found in use; whoever      *)
(* listed first, and while another thread is still walking the volume to   *)
(* find out (FsNode::reallocatedPermille).  On a drive that does not read  *)
(* everywhere the walk misses what lies in a folder that does not, or      *)
(* below it, and what a broken chain led to, and nothing else: what it     *)
(* missed then counts as free (0, and not the -1 of filesystem.h for       *)
(* "cannot tell").  That is noted, unless a folder's cluster was read in   *)
(* part or its chain broke off, which scanDirectory does not see.          *)
IntactMeansIntact ==
  \A n \in known : n.deleted /\ ~n.dir => JudgedRightly(n.reused, ClustersOf(RecordAt(n.id)))

(* The bytes of a file, by the set its listing showed.                     *)
Content(e) ==
  [k \in 1..e.size |->
     IF k > (IF e.valid \in 1..e.size THEN e.valid ELSE e.size) THEN Hole
     ELSE LET next == [c \in ValidClusters |-> IF e.noFat THEN c + 1 ELSE vol.fat[c - 1]]
              cs == Clusters(e.first, Needed(e.size), next)
              i  == (k - 1) \div CS + 1
          IN  IF i \in DOMAIN cs THEN ClusterToOffset(cs[i]) + ((k - 1) % CS) ELSE -1]

(* A file listed from a set that is whole is read as that set says: the    *)
(* clusters in the order of its chain, zeros where nothing was ever        *)
(* written, in full length; although an id does not tell how the entries   *)
(* of its directory follow each other, and a directory that is not chained *)
(* leaves stale values in the FAT.  Where a sector does not read, or the   *)
(* chain breaks off (-1), what is behind stays in place and a note tells.  *)
(* (Of a file without a chain that runs off the volume nobody is told.)    *)
ReadsAsListed ==
  \A r \in Readers :
    LET t == task[r] IN
    t.op = "read" /\ (\E noFat \in BOOLEAN : Whole(t.node.id, noFat)) =>
      LET e == StreamOf(t.node.id)
          c == Content(e) IN
      /\ Len(t.sent) = e.size
      /\ \A k \in DOMAIN t.sent :
           \/ t.sent[k] = c[k]
           \/ vol.badFat # {} /\ "guessed" \in notes
           \/ c[k] = -1 /\ (e.noFat \/ "guessed" \in notes)
           \/ t.sent[k] = Hole /\ "gap" \in notes /\ vol.bad # {}

(* The walk over the live folders ends, whatever circles they form: every  *)
(* round of it meets a folder for the first time or has one folder fewer   *)
(* to visit, and only then can those who wait for the map go on.           *)
WalkAdvances ==
  [][live.holder # {} /\ live'.holder = live.holder =>
       \/ Cardinality(live'.visited) > Cardinality(live.visited)
       \/ Len(live'.todo) < Len(live.todo)]_live
=============================================================================
