# data-extractor-pro: verification project

data-extractor-pro opens disks and disk images, finds the volumes on them
(damaged, lost, encrypted or spread over a RAID set), browses their
filesystems without mounting them, and copies files off. This directory holds
TLA+ models of its core logic, the TLC configurations that check them, and
TLAPS proofs of what matters most. Paths below are relative to the repository;
"line" numbers are those of the commit modelled.

## The system

Everything above the bytes sees one abstraction, `ImageSource` (size and
`readAt`). Sources stack: a raw image or device, a partition of it
(`SubImageSource`), a reassembled RAID set, an Optane merge, an unlocked
BitLocker or CoreStorage volume. Above sit the partition scanner, the
filesystem readers (one interface, `Filesystem`), and two front ends, a Qt
application and a command line.

| Component | State | Operations | Talks to | Hard behaviour |
|---|---|---|---|---|
| Image sources (`src/core/image_source.*`) | file descriptor, size | `readAt`, `read` | every layer above | short reads at bad sectors, concurrent readers |
| RAID source (`src/raid/raid.*`) | layout, error counters under a mutex | `assemble`, `readAt`, `readErrors` | member sources | geometry at boundaries, failing members, two threads |
| RAID detection (`src/raid/raid_detect.*`) | none | propose and score layouts | sources, scanner, readers | a plausible but wrong layout |
| Partition scanner (`src/partition`) | none | table, gaps, search for lost volumes | a source | damaged tables, overlaps, two search passes |
| Filesystem readers (`src/fs`: NTFS, FAT, exFAT, HFS, HFS+, APFS) | mounted volume geometry, caches | `root`, `listDir`, `readFileStream`, `fileTimes`, `dirIdentity` | a volume source | loops and cross links in damaged metadata, deleted files |
| Decompression (`src/fs/compression`) | none | decmpfs, LZVN | HFS+, APFS | truncated streams |
| BitLocker, CoreStorage (`src/bitlocker`, `src/corestorage`) | keys, metadata | unlock, decrypting `readAt` | a source | damaged metadata copies, relocated sectors |
| Optane merge (`src/optane`) | span map | merged `readAt` | two sources | stale against cached sectors |
| Export worker (`MainWindow::exportWalk`) | recursion, ancestors, counters, the destination disk | mirror a subtree | a `Filesystem`, the destination | directory loops, name collisions, cancel, failures |
| Export session (`MainWindow::exportSelected`) | dialog, timer, two flags | start, Cancel, report | the worker thread, through atomics | every ordering of click, tick, end and exception |
| Open, mount, unlock, tree (`src/gui/main_window.cpp`) | rows, volumes, mounts, one busy flag | `runOpen`, `mountFor`, `populateChildren` | sources, scanner, readers | results of a thread applied to the tree |
| Tree selection (`onItemChanged`, `collectExportRoots`) | three-state check boxes | tick, expand, collect roots | the tree | lazily loaded children, roots inside roots |
| Command line (`src/cli/main.cpp`) | none | list, extract, export a tree or a list | all of the above | its own export walk |
| Tree report (`src/report`) | none | listing of a volume | a `Filesystem` | its own walk |
| Preferences, device picker, hex view, file owner | settings | dialogs, one system call | - | none of note |

What makes each correct, in one sentence:

* A source answers a read with the bytes asked for or with zeros, in place and
  in full up to its end, whatever lies under it.
* The scanner reports every volume the table describes or the gaps hold, once,
  and nothing inside another volume.
* A reader never follows damaged metadata for ever and never returns another
  file's data.
* A layer between a drive and a filesystem serves the current copy of each
  unit, decrypted as what it was encrypted as, and never ciphertext as data.
* The window shows one image at a time, and exports what was ticked.
* An export accounts for every file reachable without going round a loop,
  loses nothing that was on the destination unless told to, and its final
  report is true, also when cancelled or when something fails.

## Modules and the code they model

### `ExportWalk` - the export worker

`exportWalk` is recursive; the model is its explicit stack. A frame of `stack`
is one activation on a directory: where it writes, its identity, and the
entries its range-for has not reached. `ancestors` is the vector the C++ passes
by reference, pushed and popped exactly where the code does. `dest` is the
destination disk, a function from existing paths to objects with a kind, the
source file they came from, whether they are whole, and their date. The code
looks at the cancel flag at three places, and each look is a step apart from
what follows it, because the other thread may set the flag in between: `Enter`
(1079) and the visit of the entry (`RefuseDir`, `OpenDir`, `SkipFile`,
`OpenFile`, `OpenFails`); `Accept` (1158-1159: the close and the look behind the
stream) and `KeepFile` (count, sidecars, dates); a call that returned and the
look of its caller (`Resume`, `Unwind`). `pc` says on which side of a look the
worker is (`Control`). The other actions are the ways through the code:
`WriteChunk`, `ReadFails`, `DropFile`, `LeaveDir`, `Finish`, `Throw` (an
exception reaches the thread's catch block; its parts are the places one can come
from); `SetCancel` is the other thread.

Abstracted: names are members of a small set with `San`, `Suffixed`,
`RsrcName`, `HashName` given by the instance; contents are the file they came
from; source dates are always known; the bytes counter, the current name shown
in the dialog and `applyInvokingOwner` are left out; a sidecar write either
cannot be opened or succeeds. `skipped` and `late` are history variables: files
passed over by the "skip" policy, which the code counts nowhere, and what was
begun after the flag was set by a step whose look at it came before.

### `ExportSession` - the dialog around the worker

Extends `ExportWalk` with the UI thread of `exportSelected`: `CancelClick`
(the `canceled` slot), `Tick` (the 150 ms timer sees `exportDone_`),
`StopWorker` (`exportCancel_ = true` after `exec()`), `Join` (join, then read
the counters). `exportDone_` is `pc \in Finished`: the store is the thread's
last statement. That the dialog acts on the worker only through `SetCancel` is
the theorem `SessionRefinesWalk`.

### `RaidSource`, `LogicalDisk` - one disk out of several

`RaidSource` models `assemble`, the geometry (`Layout::logicalSize`,
`Member::dataLength`), `readAt`'s loop and `readRun`, per level, with members
that return only the sectors before their first unreadable one, as
`RawImageSource::readAt` does. Sector numbers stand for contents: sector x of
the logical disk holds x, and `Stored` says what the writer of the set put
where, so reading is right when it inverts `Stored`. Each iteration of the loop
is a step, so two readers interleave; the error counters are the shared state,
and `fell` remembers which members returned a short read.
`LogicalDisk` is the promise of `ImageSource` to every layer above: clipped
reads whose every sector is the right one or a hole. `ImplementsDisk` is the
refinement.

### `PartitionScan` - finding the volumes

`Table` is what `scanPartitions` settles on (APM, GPT, MBR, or nothing), built
from `SectorUnit` (`detectSectorSize`), `ScanApm`, `ScanGpt` and
`MbrPartitions`; reading it is one pure computation and happens in `Init`.
`UnallocatedGaps`, `Identified` (`identifyVolume`) and the steps `BeginGap`,
`DenseHit`, `DenseMiss`, `DenseOver`, `StrideHit`, `StrideMiss`, `StrideOver`
are the search for lost volumes, chunk by chunk and MiB by MiB, with
unreadable sectors. The unit is the 512-byte sector; a 32-bit field holds less
than `Field`, and reading it as 64 bits takes in the next field, as the code
does for FAT32. A GPT header gives `Geometry`: the usable area, the number of
entries and their size in slots of 128 bytes (the code takes any size from 128
to 4096; sizes that are no whole number of slots are not modelled).
`GptSurvives` compares what is reported with what an intact copy of the array
says, extent by extent.

### `FatVolume` - the FAT12/16/32 reader

One volume, fixed and possibly damaged; per thread, `task` is the call it is in
(`listDir` or `readFileStream`) with the local variables of the code. A
listing goes cluster by cluster (`ScanCluster`, then `HopChain` through the FAT
or `HopAhead` in a deleted folder); `ScanEntries` is the state machine over
slots (end marker, long-name run, rejected slots). A file is planned hop by hop
(`ChainFat`, `ChainStraight`, `ChainDone`), then streamed buffer by buffer
(`SendChunk`, `Pad`, `ReadDone`, `Abort`). Shared state: the cached FAT block,
the notes, and `known`, the nodes listings have handed out, from which callers
choose. `recordAt` runs again for each call, as in the code. `Link` and `Linked`
say what an entry of the FAT means by the format (an entry as wide as the FAT,
special values none of which is a cluster), apart from how `FatNext` decodes it;
that the two agree is part of what is checked and proved. Any read of a weak
sector may stop short of it, and not do so the next time; a FAT block read short
is zeros from there on, and of a FAT12 entry that lies across the stop
(`splits`) the first byte is left (`Left`, `Half`).

Abstracted: a slot is its kind, its flags, its size and cluster, and the
checksum that ties long and short names; a unit of data is its address, so a
buffer shows where it was read from; the BPB is its result, `Mounted`, which
includes that the number of clusters decides between the widths (fewer than 4085
for FAT12, fewer than 65525 for FAT16, `parseBpb`) and that an entry is no wider
than its FAT; extents
are flattened into the sequence of addresses they cover, since joining them only
matters for how much one read may take (`Want`). Bounds: `CS`, `Chunk`, `Block`,
`DeletedCap` and `MaxLfn` stand for the cluster size, 1 MiB, 64 KiB of FAT, 64
clusters and 20 slots.

### `ExfatVolume` - the exFAT reader

`Open` chooses between the primary and the backup boot sector. A directory is
the sequence of entries of its clusters, followed through the FAT or, without
one, straight on; `ScanDirectory` is the state machine over entry sets (how
many secondaries, which kinds, the checksum that ties them, sets that lost
members, debris behind the end marker). An id names a cluster and an entry and
not how the directory is chained, so that `ReadFile` guesses again, as the
code does. `LiveStart`, `LiveStep`, `LiveEnd` are `liveClusters`: one thread
walks all live folders under `liveMutex_` while others wait; `Judged` is what a
listing makes of the result, the share of a deleted file's clusters that is now
someone else's. The unit is one 32-byte entry; a checksum is a tag.
`IntactMeansIntact` compares that with the format itself, whatever of it can be
read (`Chain`, `LiveSets`, `LiveFolders`): `Taken(TRUE)` are the clusters in use,
`Taken(FALSE)` those the walk has to find, since every folder on the way to them
reads. A deleted file called intact has nothing of the first, or, where the walk
noted something or was `CutShort` in a way it does not notice, nothing of the
second.

### `HfsPlusVolume` - the HFS+ reader

Three B-trees (catalog, extents overflow, attributes) made of nodes with
records; a node that does not read is a node of zeros. `Open` is the mount with
its notes. `LowerBound` is the descent with its binary search, `Cursor` the walk
from there along the leaves up to a record that is not readable, which in a
circle of empty leaves has no end. A listing is
`Group`: the leaves along the chain (`VisitFrom`), then those only the index of
all leaves knows (`GroupBeyond`), and `ListLost`, the folders of which only the
thread record is left. `Found`, `ByThread` and `FromThread` are the look-ups by
id, with the cache and its emptying at `CacheMax`; `ResolveHardLink` goes by the
private folder; `EnsureExtents` appends the overflow extents. Reads (`ReadFile`,
`ReadResource`) are one step each: the readers share a cache that grows only by
what the volume holds, and calls in a different order are calls of one thread
in a different order. A call that does not return ends in `"endless"`; to know,
it remembers what it searched for (`asked`). Decompression is external.

### `NtfsVolume` - the NTFS reader

`Open` reads the boot sector and maps the MFT from record 0 (`mft`, the only
thing the reader keeps). `CollectAttributes` follows an attribute list, resident
or not, as far as it reads (`ListOf`), into other records; `Children` takes the
entries of the root and of all index blocks, in use or not, cluster by cluster; `Content` orders the pieces of a data stream
and reads their runs, holes as zeros. Fix-ups are a flag of the record. An index
block is one cluster long; other sizes are not modelled.

### `DiskLayers` - Optane, partition window, BitLocker, FileVault

Each layer is an `ImageSource` over the one below. `Merge` finds the cache
region of an Optane module (boot record, headers with checksum, the user's
hint) and the span it covers; `OpenWindow` is the partition, widened or cut to
what the BitLocker metadata says; `UnlockBitLocker` tries the protectors,
`UnlockFileVault` the shifts of the logical volume's start. A read (`Ask`) of a
plain view is one call (`ReadPlain`), whose count is the answer's length; one of
a decrypting view goes batch by batch (`ReadRound`): relocated head or not, end
of batch, sector numbers for the cipher. What one call gives is the code's:
`RawRead` stops at the first bad sector, `MergedRead` goes on sector by sector
and counts what failed, `ReadAll` (`ImageSource::read`) fills up with zeros,
and `Batch` decrypts the zeros too. A unit's content is where it came from and
the tweak it was decrypted with; a wrong key or tweak, or zeros in place of
what did not read, give `Noise`. `Opens` says which
passwords a whole recovery protector accepts, `OneCopyOpens` what one whole copy
of the metadata within the disk is enough for. Cache regions and relocated heads
begin on sectors (`RegionAssumption`: `findImsm` probes every `REGION_ALIGN`
bytes and the hint is a sector number; `HeadAssumption`: BitLocker relocates
sectors), and what a drive fails to read are whole sectors (`SectorAssumption`).

### `GuiSession` - the main window between exports

`Open` starts the worker of `runOpen` behind a modal dialog; `OpenWorker` and
`OpenThrows` are its two ends, `TimerCloses` and `EscapeCloses` the two ways
the dialog goes away, `OpenEnds` what the UI thread does after the join,
`BuildTree` included. `Expand` mounts and lists one level, `Toggle` is a tick
with its cascade down (`ApplyDown`) and up (`ApplyUp`), `Select` the preview,
`Unlock` to `UnlockEnds` the replacement of an encrypted volume in place, and
`Export` collects the roots (`Roots`) that `ExportSession` starts from.
`wanted` is a history variable: the files the user's ticks stand for. Rows of
text ("...", "(empty)") are rows of their own, because the code keeps them in
the same tree.

### `CommandLine` - the batch commands

`export` (`ExportFolder`, `ExportFile`, `LeaveDir`) is a second implementation
of the walk, with its own rules for names; `tree` and `find` (`ReportFolder`,
`ReportFile`) build the list with parent indices from which `EntryPath`, a
recursive function, reconstructs paths; `export-list` (`ListLine`, `ListEnds`)
writes files named by record number and removes what turned out empty. `Throw`
is an exception nobody catches. `ExitCode` is what the shell sees.

### `NumberLemmas` and the `*Proofs` modules

`ExportWalkProofs` (of `ExportWalk` and `ExportSession`), `RaidSourceProofs`,
`PartitionScanProofs`, `FatVolumeProofs`, `DiskLayersProofs`,
`GuiSessionProofs` and `CommandLineProofs` each extend the module they prove
about. `NumberLemmas` holds
what several of them need of the natural numbers: quotient and remainder
(`DivMod`, `DivModUnique`, `ProductBelow`) and least elements (`LeastOf`).

### `MC*` modules

Instances for TLC. Mutants, operators named `X_something` before a definition
`X`, are plausible bugs of the code; each property of a passing run is violated
when the definition is replaced by its mutant, which shows that the property
constrains the code.

## Runs

| Run | Checks | Instance |
|---|---|---|
| `ExportLoops` | `LoopFree`, `EveryRouteAccounted` | all graphs of two directories with up to two entries each, identities known, unknown or mixed, depth limit 3, and the file volumes of the next run with sidecars, under "rename" and "skip", with every fault, `close()` included; cancel at any moment |
| `SessionRuns` | destination: `CountIsOnDisk`, `NoPartialLeft`, `FolderDatesKept`, `KeepsBoth`, `CancelStopsWriting`; dialog: `SilenceMeansComplete`, `SessionEnds` | two roots that land in one folder, a loop, colliding names, unreadable files, an empty one, an empty or used destination, three policies, a disk that refuses opens and writes, exceptions |
| `GuiBrowse` | `TickedIsExported`, `RowsAreOfTheImage`, `NoCiphertextMounted`, `BusyEnds` | nine sources: plain, deleted, unreadable and encrypted volumes, an Optane pair that merges or not, RAID sets found and by hand, one that throws, one that does not open; opened one after the other in any order |
| `CommandRuns` | `ExitIsHonest`, `ReportIsTheTree`, `ListIsHonest` | listings of up to three entries whose names meet (live, deleted, sanitized, numbered, marked, folders), all small graphs for the reports with their own depth limit, lists of two and three lines with files known and unknown, empty, short and failing |
| `RaidReads` | `NeverWrongData`, `HealthyIsWhole`, `MirrorSurvivesOne`, `SickDriveIsListed`, `ImplementsDisk` | two readers, 2 or 3 drives of 2 to 6 sectors with reserves, stripes, size limits, offsets, bad sectors, every level |
| `LostVolumes` | `FoundExactlyOnce`, `GptSurvives`, `ScanEnds` | images of 20 sectors, a "MiB" of 2, windows of 8 and 12; GPT arrays of up to 3 slots, intact, partly overwritten or contradicting each other, with entries of one slot or two and headers that count fewer |
| `LayerReads` | `RightUnitRightKey`, `OneCopyIsEnough`, `AnswersInFull` | some 180 rigs: cache regions and hints, right and wrong, metadata copies good and bad, partition shorter and longer than the volume, relocated heads of several sizes, shifts of the FileVault volume, bad sectors under each view, with a merge and without; reads at every kind of boundary |
| `FatReads` | `ReadsTheChain`, `StaysInPlace`, `DamageIsTold`, `LiveEntriesAreLive`, `ListsEverything` | two readers, 605 volumes, most of 4 clusters of 2 slots: every FAT over them, live and deleted files and folders, long names across clusters, special values, failing and truncated images, a half-read FAT12 entry; any interleaving of calls |
| `ExfatReads` | `NothingSwallowed`, `IntactMeansIntact`, `ReadsAsListed`, `WalkAdvances` | 681 volumes of up to 7 clusters of 4 entries, two threads: chained and contiguous files and folders, stale FAT values, sets across clusters, broken sets, debris behind the end, folders that contain each other, deleted files in the clusters of other files, of folders and of the bitmap, with sectors of the root, of a folder and of the FAT that do not read |
| `HfsReads` | `ListsEverything`, `ReadsAsListed` | 169 volumes: three leaves chained anywhere, a fourth with copies of what they hold (the same record, an older one, another of that name), circles with and without records, lost index nodes and records, lost overflow nodes, links, compressed files, a cache of one record so that it is emptied all the time; calls in any order |
| `NtfsReads` | `ReadsItsPieces`, `EveryChildOnce` | 792 volumes: an MFT in three pieces, attributes in other records in either order, a list of them that reads in part, sparse runs, index blocks in use and given back, holes between them, bad sectors |
| `LostFat32` | violates `NoneMissed` | one lost FAT32 volume |

The type invariants of `ExportWalk` and `RaidSource` are theorems
(`TypeCorrect`, `RaidTypes`) and no run repeats them.

Why the bounds are enough. The walk's behaviour depends on the shape of a loop
and on whether a collision, a failure or a cancel falls before, in or after a
file; two directories make every loop shape (self loop, mutual loop, shared
child), depth 3 lets a loop go round once more than it may, and two files make
every collision. A RAID read touches at most three members and crosses a stripe
boundary, a member boundary and the end of the disk within six sectors. The
scan windows are scaled so that a volume can begin and end on either side of
every window's edge. Four clusters give a FAT chain every shape that matters
(end, self loop, longer loop, tail into a loop, two chains crossing), and two
FAT entries to a block make a chain leave and re-enter the cached block; the
exFAT volumes have up to three clusters more, for a folder of two, its neighbour
and the bitmap. Three leaves are the fewest of which one can fall out of the middle of
a chain; a cache of one record makes every look-up one after an emptying or
one in a full cache. A tree of three levels has a row with an unrevealed child and a parent
that summarises it. In `DiskLayers` a batch is two sectors and a sector two
units, so that a read can start inside a sector, end inside one, and cross the
head's end within a batch; a bad first sector of a batch is one in front of a
good one. Threads: one worker, one UI thread, two readers of
a RAID set, of a FAT volume and of an exFAT volume (where they share a cache or
a map; the readers of a FAT or of an exFAT volume are alike, hence `SYMMETRY`), one of the others
(the dialog is modal while the worker uses the filesystem).

`CHECK_DEADLOCK FALSE` is set where the system may stop: `GuiBrowse` after an
exception ended the program, `HfsReads` and `NtfsReads` on a volume that does
not mount, and `HfsReads` in a listing that never returns.

### Violations: where the code and its own words part

* `LostFat32`. `partition.cpp` 372 reads the 32-bit sector count of a FAT32
  boot record as 64 bits, its own comment notwithstanding: no lost FAT32 volume
  below two TiB is ever reported.

### Noticed while modelling

Behaviour of the code that the models contain and no run reports as a
violation, either because a property excepts it by name (marked *) or because
no document says what should happen.

Export (`main_window.cpp`):

* Under "Rename (keep both)" a sidecar is written (1169) without the collision
  test data files get, and may replace a source file named `._x` that was
  exported and counted. `SessionRuns` has no resource forks*, and `RenameKeepsBoth`
  assumes `NoSidecars`.
* The result of the last `close()` is not looked at (1158): on a disk that
  fills up at that moment a truncated file is counted as exported. `AnyFault`
  of `ExportLoops` contains it; `CountIsOnDisk` is checked without it*.
* The catch block for unforeseen exceptions (1279) is outside the loop over the
  roots: the rest of the export does not happen and is not mentioned.
* A folder whose name is taken by a file is not renamed: every file in it
  fails, and the file gets the folder's dates (1104, 1118).
* The overwrite policy destroys the old file when the export of the new one is
  cancelled (1198); the skip policy passes over a second source file of the
  same name without counting it (1130).
* Refusals by the depth limit are reported in the words for loops (1315).

The window (`main_window.cpp`):

* The roots of an export are rebuilt from id, name and kind (908-914, 1241):
  `isDeleted` is lost, a deleted file ticked itself is read as if live.
* An exception in the producer that `runOpen` starts on a thread (533) ends the
  program; `BusyEnds` counts that as an end*.

Command line (`cli/main.cpp`):

* `exportTree` writes sidecars without claiming their names* (`SidecarNames` in
  `ExitIsHonest`), truncates files that were on the destination, and counts
  neither a directory that could not be created nor one cut by the depth limit.
* Neither `exportTree` (440) nor `export-list` (1020) asks whether the stream
  could be closed: what it still held, for a small file all of it, may be lost
  while `ok` and `got` say otherwise. A disk that fills up there leaves a short
  or an empty file under exit code 0, counted as written, against "leave no
  misleading empty file behind" (1022). `Streams` has that outcome (`cut`), and
  `ExitIsHonest` and `ListIsHonest` are about what the streams took*.
* `export-list`: a later line with the same path may remove a file counted as
  written (`NamedOnce` in `ListIsHonest`*). Only HFS+ implements `statNode`: on
  other volumes an empty file counts as failed and a short one is not noticed.
* `tree` and `find` never print the number of loops refused.
* The interactive `extract` neither renames nor counts failures.

RAID and partitions:

* `raid.cpp` 179: behind a bad sector the rest of the run is zeros, although
  the same drive or its mirror could read on; 193: a drive whose failed reads
  were all recovered from its mirror is still listed as "filled with zeros".
* `raid.h` 75 speaks of "members that returned short/failed reads"; of a mirror
  only the first is ever counted (`raid.cpp` 161-176), be it the second drive
  that left the hole. `SickDriveIsListed` states the list as it is*.
* `partition.cpp`: a volume found in one gap that reaches over a table partition
  into the next is searched again there (445); exFAT is not among the bare
  volumes (529); the search for a GPT on a 4Kn disk uses 512-byte sectors because
  a protective entry corroborates nothing (193); a corrupt GPT entry beyond the
  image opens a gap there (398).
* `partition.cpp` 143: of two copies of the GPT array that contradict each
  other the one with more entries is kept, at a tie the one at LBA 2: a stale
  backup copy with a partition more hides the current array. No checksum is
  compared (62-74), so a header with damaged fields gives the geometry.
  `GptSurvives` is about copies of which the others are what remains, and about
  headers that span the disk*.
* `raid_detect.cpp` (read, not modelled): the loop over data offsets stops
  after the first one for every set of two or more drives (965), so that the
  offsets of `dataStartCandidates`, made for reservations at the front
  (110-114), are never tried; once one volume was checked deeply, or has too
  few known files to be, later ones are not (`deepDone`).

FAT (`fat.cpp`): a file's directory entry is read again when it is exported; if
it does not read any more, or its short name is not legal although the long name
is, the stream succeeds with no bytes and no note (997; `EntryLost`*). A FAT12
entry across two sectors of which only the first read keeps its low bits, and
the cluster they name, if any, is followed, in files and folders, without a
note (600, 637-646; `Mislinked`*), against "the zeros left behind read back as
free" (594-596). A buffer whose first sector does not read is zeros as a whole,
up to 1 MiB, although the sectors behind may read (1012-1021; `HoleFrom`*). Any run of long-name
slots vouches for a deleted entry behind it (793). A directory cluster that
reads in part loses entries without a note (881). A circular directory chain
lists its entries again until the cap is reached, those before the end marker
then as deleted (880). The command line rebuilds folder nodes from an id alone,
so that a folder inside a deleted folder, or behind the end marker, is listed
through the FAT as if live (976).

exFAT (`exfat.cpp`): a contiguous file that runs off the volume is filled up
with zeros without a note (807-818)*. Where a folder does not read, the walk that
finds the clusters in use misses what lies in it and below it, and counts that as
free: a deleted file in such clusters is shown as intact (0), not as -1, which
`filesystem.h` (34-37) has for "cannot tell"*; the gap is noted, unless only the
front of a folder's cluster was read or its FAT chain broke off, which
`scanDirectory` takes for the folder's end (553-557, 608-610)*. The walk does not
mark a live file whose name it refuses, and walks one of two folders that begin
at the same cluster and differ in length (no volume of the run has these).

HFS+ (`hfsplus.cpp`): leaves chained in a circle keep a listing collecting
without end (302-325)*, and a search among empty ones does not end either
(383-404)*; behind a lost overflow record the next one is taken for it, every
block in the wrong place, without a note (560)*; an old copy of a child's record,
in a leaf that fell out of the chain, is shown beside the new one if it differs
from it in anything, a date for one, since what was seen is compared by key and
value (316-331)*, and a read gives whichever copy was cached last; where two
records of a folder have one name, a file that is no longer cached is looked up
by that name and the first is read for either, another file or none
(`childByName` does not compare numbers, 830, 843-853)*; a link to a compressed
file is listed with size 0 (731)*; a stale thread of a folder that was replaced
lists its successor twice (754-765)*; a file whose thread record is lost is not
found once the cache was emptied*; the resource fork of a link's target is found
only while it is cached (977); damage to a resource fork or in `readFork` is
noted nowhere; `index_` and `folderThreads_` are built without a lock.

NTFS (`ntfs.cpp`): a record that does not read is an empty file read
successfully (416); a bad sector moves what is behind it forward, unreported;
an index block is read at the beginning of each cluster and a cluster long, so
that of smaller blocks all but the first of a cluster are lost, and of larger
ones those filled beyond a cluster, and the fix-up of either mends other bytes
than it should (397: the model's clusters are as large as its blocks*); freed
index blocks are scanned too, against the comment that each key is in one node
(335-338): keys that moved are listed twice and files long gone as if live*; of
an entry of an attribute list that lies across the point at which the list
stopped reading, the number reads as 0, and the MFT's own pieces are taken for
pieces of the file*; the MFT's own attribute list is
not followed; a record is used whether its fix-up agrees or not.

Layers: `unlockWithRecovery` (`keys.cpp` 142) stops at the first whole recovery
protector, so that the right password of a second one is refused (`OneCopyOpens`
speaks of volumes with one*); decrypting and merging sources ignore short reads:
`RawImageSource` gives up at the first bad sector (`image_source.cpp` 52-61), so
that under a decrypting view of a drive without a merge the rest of a batch of
up to 1 MiB is lost with it as noise (`bitlocker/volume.cpp` 33,
`corestorage/source.cpp` 63; `Spoiled`*), and since these views answer in full,
the reader above notes nothing (`EndsAt`);
when the header of the first cache region is damaged, or the hint names a later
one, cache metadata is served as data (`CacheFindable`*).

## Fairness

`WF_vars(Worker)` and `WF(WorkerStep)`: a running thread is scheduled; nothing
in the worker blocks for ever. `WF(UiStep)`: the timer fires as long as the
dialog's event loop runs, and the code after `exec()` is straight-line. No
fairness is put on Cancel: nobody has to click. In `GuiSession`, `WF(Program)`
is the worker, the timer and the code after the join, and no more: what the
user does is never forced. In `RaidSource` each reader's loop is weakly fair;
in `FatVolume` each thread inside a call is (not the sink's decision to stop,
nor the start of a call); in `PartitionScan` the scan, and in `DiskLayers` the
rounds of a read, are functions that were called and run. `ExfatVolume`,
`HfsPlusVolume`, `NtfsVolume` and `CommandLine` state none: that the walk of
`ExfatVolume` ends is the action property `WalkAdvances`, every step brings a
measure down. Strong fairness is nowhere needed.

## Proofs

A theorem holds for every value of the constants the modules' named ASSUMEs
admit; TLC evaluates those in the runs. Every invariant below was checked by TLC
on the run's instance, or a part of it, before it was proved; one that ranges
over an infinite set, in an equivalent form that does not.

`ExportWalkProofs`, for every set of directories, files and names, every volume,
destination, option and depth limit:

* `TypeCorrect`: `Spec => []TypeOK`.
* `NoLoopIsFollowed`: `Spec => []LoopFree`. The invariant is inductive together
  with the types: pushing an identity that is not in `ancestors` keeps the
  known identities of the stack distinct; `Matches` says that `ancestors` is
  exactly the sequence of the known identities of the stack, which is what
  makes "not in `ancestors`" mean "not open above".
* `CancelledWritesNothing`: `Spec => CancelStopsWriting`: behind the flag at most
  one folder, file or sidecar set comes into being. `LateInv`: whatever was begun
  too late, the worker stands before a look at the flag again.
* `RenameKeepsBoth`: `Spec => KeepsBoth`, assuming that no sidecar is written
  (`NoSidecars`); the assumption is needed, see the sidecars above.
* `NothingPartialStays`: `Spec => []NoPartialLeft`, assuming that the disk never
  refuses the last flush (`"close"` not among the faults): the code does not look
  at the result of `close()`, and a run with that fault violates the invariant.
* `CountsWhatItWrote`: `Spec => []CountIsOnDisk`, with the same assumption and
  one on sidecars: either none is written, or no name that the sanitizer or the
  search for a free "(n)" gives is a sidecar's (`NamesApart`). `CountInv` says
  that `files` is the number of whole files of ours and that the one in flight is
  not whole; steps are shown to leave the files as they are (`Quiet`) or to add,
  complete or remove one.
* `FoldersKeepTheirDates`: `Spec => []FolderDatesKept`. `DatesInv` says that a
  folder with the date of the export is open: whatever dates a folder late falls
  in one that will be stamped when it is left. `DestinationAssumption` (what is
  there before is dated before the export) is what it rests on.
* `EveryFileOnce`: `Spec => []EveryRouteAccounted`. A route is the sequence of
  positions that leads from the ticked roots to an entry, each a directory the
  walk would open, none an identity that is above it on the route. The worker's
  stack is such a route (`PathOK`: each open directory is the entry before it on
  the route, and `ancestors` what the route made known), and where the worker is
  in each open directory is a cursor that cuts the routes in two: those passed
  (`DoneBy`) and those to come. `PassedAccounted` says that `files`, `fails` and
  `skipped`, with the one in flight, number the passed routes that end at a file,
  and `cycles` those refused. Entering a directory moves the cursor past no
  route; leaving one, past none either, since all its routes are behind; visiting
  a file or refusing a directory, past exactly one (`VisitDone`). Counting needs
  finitely many routes, hence finitely many directories in `SourceAssumption`
  (a volume has finitely many bytes) and the depth limit.

`ExportWalkProofs`, about the session around the worker:

* `ReportCorrect`: `SessionSpec => []ReportIsFinal`. A worker whose `pc` is in
  `Finished` has no step left (`FinishedIsOver`), and only `Join`, which waits
  for that, opens the report.
* `SessionRefinesWalk`: `SessionSpec => Init /\ [][Next]_vars`: fairness aside,
  a session is a behaviour of the worker's specification. A click and the stop
  after `exec()` are `SetCancel` or a stutter, the timer and the join leave the
  worker alone.
* `SessionKeepsPromises`: the worker's invariants in every session, from that
  refinement, under the worker's hypotheses.
* `NeverCutShort`: `SessionSpec => []SilentIsFinished`: the flag set after
  `exec()` cannot cut short an export whose report mentions no cancellation,
  because the dialog closes by itself only when the worker is done.
* `SilentExportIsComplete`: `SessionSpec => []SilenceMeansComplete`, from
  `EveryFileOnce` and `NeverCutShort`: what the box reports is what the worker
  counted (`SessionCounts`), and a walk that reached its end has passed every
  route.

`RaidSourceProofs`, for every set of drives that `assemble` accepts, any number
of members and readers, every stripe size, reserve, size limit and defect:

* `RaidNeverLies`: `Spec => []NeverWrongData`. The heart is `TargetInverts`:
  the member and position `readRun` computes are where whoever wrote the set
  stored those sectors, for the whole run and at least one sector. For stripes
  it rests on the uniqueness of quotient and remainder (`DivModUnique`), for
  concatenations on `BaseFacts`, that the recursive function of member bases
  exists and obeys its equation. The inductive invariant `RaidInv` adds to the
  types that a request was clipped to the disk (`Clipped`), so that a run
  always begins inside it.
* `RaidTypes`: `Spec => []TypeOK`, from the same invariant.
* `RaidAnswersInFull`: `Spec => []FullLength`, with `Answered`: a reader that is
  not busy has as many sectors as it wanted.
* `RaidHealthyIsWhole`: `Spec => []HealthyIsWhole`. `RunInside` shows that a run
  ends within the member's data area; on healthy drives the two failing
  branches of `readRun` are then impossible (`HealthyGivesAll`).
* `RaidMirrorSurvives`: `Spec => []MirrorSurvivesOne`: the drive that is sound
  gives the whole run (`GoodDriveGivesAll`), so that wherever another one stops
  short `readRun` has a better answer than a hole.
* `RaidSickIsListed`: `Spec => []SickDriveIsListed`: a hole in a buffer comes
  from a run read with a hole (`HoleOrigin`), which counts against its drive in
  the same step. `ErrorsStep` says what a step adds to the history `fell` of the
  drives that stopped short, none of them sound (`GoodDriveGivesAll`), and that
  it counts of these, in a mirror, the first alone; no counter goes down.
* `RaidIsADisk`: `Spec => ImplementsDisk`, the refinement of `LogicalDisk`.

`PartitionScanProofs`, for every image, table (overlapping, nested, oversized),
window and mode:

* `ScanKeepsPlace`: the invariant `ShapeInv /\ FoundInv`. The gaps left are the
  end of `unallocatedGaps`' list, the search is in one of them, at or behind the
  end of what it found there, and the findings of a gap follow one another. That
  gaps lie clear of the table comes from the sweep over sorted extents that
  computes them, a fold over a finite set (`Swept`, `SweptFacts`).
* `FoundApart`: no finding begins inside a partition of the table
  (`FoundOutsideTable`) or inside another finding of its gap
  (`NoneInsideAnother`).
* `LostComesBack`: `Spec => []FoundExactlyOnce`, assuming that the 32 bits behind
  every FAT32 sector count are zero (`CountsStandAlone`). `identifyVolume` reads
  them as part of the count; without the assumption the statement is false, and
  `LostFat32` is its counterexample. `MissedInv` says, of each boot record behind
  the search, that it was found or lies inside what was.
* `OneArrayIsEnough`: `Spec => []GptSurvives`, for every image. The candidate
  kept (`BestYield`) yields no fewer entries than the intact copy; what it keeps
  is among what the intact copy keeps (`RemainsKept`); so, counting positions
  (`PickedExact`), the two keep the same.

`FatVolumeProofs`, for every mounted volume, however damaged, any number of
threads, every size of cluster, buffer, FAT block and every cap:

* `FatReadsTheChain`, `FatStaysInPlace`, `FatDamageIsTold`,
  `FatLiveEntriesAreLive`: the four invariants of the run, from one inductive
  invariant, `SharedInv /\ ReadersInv`. `SharedInv` holds what the threads share:
  each entry of the cached block is the FAT's, or what a read that stopped short
  may leave of it, 0 or the half of a split one (`CacheRight`), which is why a block another thread put there cannot
  mislead a chain (`LookupFacts`); `NextFacts` is the agreement of `FatNext` with
  `Link`, and needs the width bounds of `Mounted`. `ReadersInv` holds of each
  call: what was sent is the plan, with holes that begin where the drive does not
  read (`SentRight`, `Sends`); a plan that is shorter than its file ends with the
  volume (`PlanReaches`, `LastCluster`); an entry a listing gave fails to be read
  again only as `EntryLost` says (`Genuine`, `ReopenLost`); the plan is a whole
  number of clusters as long as bytes remain, and its last cluster leads to the
  one the code is at (`Chained`); a walk off the volume was already a guess
  (`Told`); a walk that goes on has seen every end marker of the clusters behind
  it (`Ordered`). `ScanEntries` is a fold, evaluated by a recursive function on
  sets: `WalkExists` proves that function exists, `ScanSteps` unrolls it slot by
  slot (`SlotBySlot`), and `ScanGrows` says what n slots add to a listing.
* `FatListsEverything`: `Spec => []ListsEverything`, with a second invariant,
  `CoverInv`: on a drive that reads, a walk has behind it a set of clusters whose
  entries it lists and whose links lead back into the set or to the cluster it is
  at, and as long as it has not come back to one of them the set has as many
  members as clusters were visited. When the cap is reached the set is therefore
  the whole volume; when the chain ends or closes, no link leaves the set; either
  way it contains `Reach` (`ReachWithin`).

`DiskLayersProofs`, for every set of drives, cache regions, partition, head,
shift, and every sector, unit and batch size:

* `LayersReadRight`: `Spec => []RightUnitRightKey`. `LayersInv` follows the order
  in which layers are set up: the span is what `Merge` read off the module
  (`SpanOK`), the window what `OpenWindow` made of the table and the metadata
  (`WindowOK`), a FileVault volume is opened only where it begins and only inside
  the window (`ViewOK`), and a read in progress lies inside its view (`TaskOK`).
  From these, what one call gives (`WindowReads`) and what one round makes of it
  (`BatchRight`): each unit already read is the one asked for, or lost to one not
  further than a batch in front of it. `RegionAssumption` and `HeadAssumption` are
  needed: a region or a head that begins inside a sector would split it.
* `LayersAnswerFull`: `Spec => []AnswerIsFull`, the safety half of the run's
  `AnswersInFull`: full length, or a plain view's read up to what does not read.
* `LayersOneCopy`: `Spec => []OneCopyIsEnough`: a good copy parses whatever the
  other two are (`GoodCopyParses`), so that the window fits the volume and the
  only whole recovery protector opens it.

`GuiSessionProofs`, for every set of sources whose trees are trees
(`SourcesAssumption`), in every order of opens, expansions, ticks, previews,
unlocks and exports:

* `GuiStaysConsistent`: the invariant `GuiInv`: the volumes are those of the open
  image and each has its row (`ImageOK`, `ShapeOK`), the state of a volume's row
  tells what is behind it (`VolumesOK`), only what is readable is mounted or has
  rows below it (`MountsOK`), the row of an entry is an entry of the mount
  (`RowsOK`), and the worker has written what it was started for before it says
  that it is done (`BusyOK`), so that applying it after the join keeps the rest
  true.
* `GuiNoCiphertext`: `Spec => []NoCiphertextMounted`.
* `GuiRowsOfOneImage`: `Spec => []RowsAreOfTheImage`.
* `GuiTickedIsExported`: `Spec => []TickedIsExported`. `TickInv` adds what each
  box says of the files ticked (`BoxOK`): a ticked one stands for all the files
  below its row, revealed or not, an unticked one for none of them; a row ticked
  in part is filled, and no row of text is left below it. `Cascade` is that
  `onItemChanged` restores this after a click, down and up: below the row every
  box takes its value; each folder above is, from the row up, what its children
  make of it, and a filled folder has a child for each entry, so that together
  they stand for all its files (`FolderBox`); a row that is neither is untouched
  and shares no file with the one clicked. Paths in a filesystem and the rows
  above a row are recursive functions (`PathLaw`, `AboveLaw`, `SumLaw`), each
  shown to exist and unrolled step by step. Filling a row from its mount keeps
  the boxes right (`FillTick`), for an expansion and for an unlock alike. The
  conclusion is `TickedCovers`: on the way down to a ticked file the first row not
  ticked in part is there, and it is ticked.

`CommandLineProofs`, for every volume of finitely many entries, every
destination, list and depth limit:

* `WalkInv` is common to `export`, `tree` and `find`: the frames of the stack are
  directories each of which the entry taken last in the frame below names
  (`Nested`), the ancestors are the known identities of those frames and nothing
  else (`Idents`), the depth limit holds, and a frame has taken no more names than
  entries; there are always at most `MaxDup` entries (`DupAssumption`), so that a
  free "(n)" exists wherever one is looked for (`VariantsDiffer`, `ClaimedIs`).
  `Seen` is the set of routes the walk is done with; taking an entry adds exactly
  the one route it is on (`SeenForth`), entering a directory and leaving it add
  none (`SeenDown`, `SeenUp`), and at the end they are all of `Routes`
  (`RoutesAre`, which unrolls its recursive function and characterises a route
  by itself; `SeenFinite`).
* `ListTotalsAreHonest`: `Spec => []ListIsHonest`. `ListInv`: the lines left are
  the end of the list, those read were counted, and the totals are the numbers
  of files on the disk and of short ones among them. A line changes at one place,
  its own, what is on the disk (`LineOutcome`), and no line before it named that
  place (`LineIsNew`).
* `TheReportIsTheTree`: `Spec => []ReportIsTheTree`. Parent links lead backwards
  (`Backward`), so that the recursive function of `EntryPath` exists
  (`PathsExist`), is the only one (`PathsAgree`) and gives the old entries the
  same paths when one is added (`EntryPathGrows`); each open directory has the
  path its frame holds (`Crumbs`, `Held`), whence the parent chosen by depth is
  the right one after any way up and down (`ParentIs`). `TreeInv` and `FindInv`
  relate what was listed to `Seen`.
* `ExitCodeIsHonest`: `Spec => []ExitIsHonest`. `CopyInv`, as long as nothing
  failed and no loop was refused: each file has as many copies into which all of
  it went as routes in `Seen` lead to it. It needs `Claims` and `Owns`: the names a frame has used
  are children of its directory; each file written lies below a name used by an
  open frame, and not below the directory open there; so a new name, which is
  none of those used, is never that of a file already written nor of anything
  above one, and what is written next adds a copy and takes none away
  (`CopiesGrow`).

They assume that a directory is no file (`NodeAssumption`), that the
sanitizer makes texts of texts (`SanAssumption`), that the origin of what was on the
destination is no file of the volume (`ForeignAssumption`), that the walk may
open the root (`DepthAssumption`), and `DupAssumption`: the code counts upwards
without a bound, and `MaxDup`, which the model needs to enumerate, is out of its
reach.

Where an argument is an induction over the naturals (member bases, slots of a
cluster, links of a chain) or needs a minimum (the first unreadable sector, the
smallest member), it is made with `LeastOf`: a set of naturals that is not empty
has a least element, so that a least counterexample can be refuted.

Only model-checked:

* liveness, and everything with ENABLED, about which TLAPS does not reason here:
  `SessionEnds`, `BusyEnds`, `ScanEnds`, `AnswersInFull`;
* the listings and reads of exFAT, HFS+ and NTFS (`NothingSwallowed`,
  `IntactMeansIntact`, `ReadsAsListed`, `WalkAdvances`; `ListsEverything`,
  `ReadsAsListed`; `ReadsItsPieces`, `EveryChildOnce`). They are sums and walks
  over the data of a volume: each needs its own invariant and its own unrolling
  of recursive functions, as `FatVolumeProofs` does for FAT. They are left open;
  nothing in them is known to be out of the prover's reach.

`ReportIsFinal`, `FullLength`, `SilentIsFinished`, `AnswerIsFull` and the two
type invariants are proved and in no run.

## Not modelled, and the plan

Done: `ExportWalk`, `ExportSession`, `RaidSource`, `LogicalDisk`,
`PartitionScan`, the readers of FAT, exFAT, HFS+ and NTFS, `DiskLayers`,
`GuiSession`, `CommandLine`, and the proofs above.

Proofs left open: `WalkAdvances` of `ExfatVolume` (each step of the walk over
live folders brings its measure down), then `ReadsAsListed` of `ExfatVolume`,
whose parts (boot regions, chains, contiguous files) have the shape of those of
`FatVolume`, and `ReadsItsPieces` of `NtfsVolume`.

Models left for later: RAID detection (candidate layouts, scores and ties: a
linear search whose evidence comes from the scanner and the readers); HFS (a
smaller relative of HFS+: same trees without overflow of the catalog's kind);
APFS (checkpoint choice, object map, tree walk); filesystem detection and the
labels it gives; the block table of decmpfs; in the FAT reader the choice of the
boot sector, whose result is the assumption `Mounted`; the interactive commands
of the command line.

Not modelled for good: ciphers and hashes (OpenSSL), LZVN and zlib opcodes, the
Qt widgets, settings storage, device enumeration, text formatting, the owner of
exported files.
