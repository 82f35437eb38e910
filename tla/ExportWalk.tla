----------------------------- MODULE ExportWalk -----------------------------
(***************************************************************************)
(* The export worker of the GUI: MainWindow::exportWalk, which mirrors a   *)
(* subtree of a (possibly damaged) volume onto the destination disk, and   *)
(* the loop over the ticked roots that calls it (src/gui/main_window.cpp). *)
(*                                                                         *)
(* The recursion is an explicit stack: a frame is one activation of        *)
(* exportWalk on a directory, its `rest` the entries of the range-for the  *)
(* activation has not reached.  `ancestors` is the vector the C++ passes   *)
(* down by reference.  The destination disk is a function from the paths   *)
(* that exist to what is stored there.                                     *)
(*                                                                         *)
(* The cancel flag is an atomic another thread may set at any moment; the  *)
(* dialog that sets it is in ExportSession.                                *)
(***************************************************************************)
EXTENDS Naturals, Sequences, FiniteSets, SequencesExt

CONSTANTS
  Dirs, Files,     \* the directories and the files of the source volume
  Name,            \* names in its directory entries
  DestName,        \* path components on the destination
  San(_),          \* sanitizeName
  Suffixed(_, _),  \* the n-th "(n)" variant of a component, n >= 1
  RsrcName(_),     \* the "._" AppleDouble sidecar of a component
  HashName(_),     \* the ".md5" / ".sha256" sidecar of a component
  Volumes,         \* the volumes considered: see Volume
  Options,         \* the preferences considered: see Option
  Destinations,    \* what the destination may hold before the export
  MaxDepth,        \* kMaxWalkDepth
  MaxSuffix,       \* bound on n in the search for a free "(n)" name
  Faults,          \* which of Fault may happen in this instance
  Foreign,         \* source and date of an object the export did not write
  Now              \* the date of an object written since

Fault == {"open", "write", "close", "throw"}

Entry == [name : Name, node : Dirs \cup Files]

(* A source volume: the ticked roots, the listing and the dirIdentity of   *)
(* each directory, the chunks readFileStream hands to its sink for each    *)
(* file, the files it reports unreadable and those with a resource fork.   *)
Volume == [roots : Seq(Entry), list : [Dirs -> Seq(Entry)],
           ident : [Dirs -> Nat], size : [Files -> Nat],
           bad : SUBSET Files, rsrc : SUBSET Files]

Option == [collision : {"rename", "overwrite", "skip"},
           hash : BOOLEAN, times : BOOLEAN]

Object == [kind : {"dir", "data", "rsrc", "hash"},
           src : Files \cup {Foreign}, whole : BOOLEAN,
           mtime : Dirs \cup Files \cup {Foreign, Now}]

Path == Seq(DestName)

IsDisk(d) ==
  /\ DOMAIN d \subseteq Path
  /\ <<>> \in DOMAIN d
  /\ \A p \in DOMAIN d : d[p] \in Object

ASSUME NameAssumption ==
  /\ \A x \in Name : San(x) \in DestName
  /\ \A x \in DestName, n \in 1..MaxSuffix : Suffixed(x, n) \in DestName
  /\ \A x \in DestName : RsrcName(x) \in DestName /\ HashName(x) \in DestName

ASSUME BoundAssumption ==
  /\ MaxDepth \in Nat
  /\ MaxSuffix \in Nat
  /\ Faults \subseteq Fault

(* A volume has finitely many directories.                                 *)
ASSUME SourceAssumption ==
  /\ Volumes \subseteq Volume
  /\ Options \subseteq Option
  /\ Dirs \cap Files = {}
  /\ IsFiniteSet(Dirs)

(* What is on the destination before the export was not written by it.     *)
ASSUME DestinationAssumption ==
  /\ Foreign # Now /\ {Foreign, Now} \cap (Dirs \cup Files) = {}
  /\ \A d \in Destinations :
       IsDisk(d) /\ \A p \in DOMAIN d : d[p].src = Foreign /\ d[p].mtime # Now

VARIABLES
  vol, opt,    \* the source and the options, fixed when the export starts
  jobs,        \* ticked roots the worker has not reached
  stack,       \* open activations of exportWalk on directories, outermost first
  ancestors,   \* identities of the directories open on the recursion path
  pc,          \* where the worker is: see Control
  cur,         \* the file being streamed
  dest,        \* the destination disk
  files, fails, cycles,  \* exportFiles_, exportFails_, exportCycles_
  skipped,     \* history: files the "skip" policy passed over, uncounted in the code
  late,        \* history: folders entered, files opened and files kept since the flag is set
  cancel       \* exportCancel_

walkVars == <<jobs, stack, ancestors>>
counters == <<files, fails, cycles, skipped, late>>
vars == <<vol, opt, jobs, stack, ancestors, pc, cur, dest, files, fails,
          cycles, skipped, late, cancel>>

NoFile == [node |-> Foreign, out |-> <<>>, left |-> 0, ok |-> TRUE]
Stream == [node : Files \cup {Foreign}, out : Path, left : Nat, ok : BOOLEAN]
Frame == [dir : Dirs, path : Path, ident : Nat, rest : Seq(Entry)]

Finished == {"done", "aborted"}

(* "walk": a loop is at its head, before the call on its next entry or at  *)
(* its end; "enter": the call is past its look at the cancel flag;         *)
(* "stream": inside readFileStream; "keep": past the look behind it;       *)
(* "back": a call returned, and its loop is about to look at the flag.     *)
(* Between a look and what follows from it another thread may set it.      *)
Control == {"walk", "enter", "stream", "keep", "back"} \cup Finished

-----------------------------------------------------------------------------
(* The destination disk.                                                   *)

IsDir(d, p) == p \in DOMAIN d /\ d[p].kind = "dir"

(* std::filesystem::exists, the error_code overload.                       *)
Exists(d, p) == p \in DOMAIN d

(* An ofstream opened with trunc succeeds on p.                            *)
Writable(d, p) ==
  /\ p # <<>> /\ IsDir(d, Front(p))
  /\ ~IsDir(d, p)

(* Adding or removing a directory entry bumps the directory's own mtime;   *)
(* truncating an existing file does not.                                   *)
Touch(d, p) == IF IsDir(d, p) THEN [d EXCEPT ![p].mtime = Now] ELSE d

Put(d, p, obj) ==
  LET e == IF Exists(d, p) THEN d ELSE Touch(d, Front(p))
  IN  [q \in DOMAIN e \cup {p} |-> IF q = p THEN obj ELSE e[q]]

Removed(d, p) ==
  IF p # <<>> /\ Exists(d, p)
  THEN LET e == Touch(d, Front(p)) IN [q \in DOMAIN e \ {p} |-> e[q]]
  ELSE d

Obj(kind, node, whole) ==
  [kind |-> kind, src |-> node, whole |-> whole, mtime |-> Now]

DirObj == Obj("dir", Foreign, TRUE)

(* QDir::mkpath: does nothing when the path exists, and fails, unnoticed,  *)
(* when a file is in the way.                                              *)
MkPath(d, p) ==
  IF ~Exists(d, p) /\ IsDir(d, Front(p)) THEN Put(d, p, DirObj) ELSE d

(* applyFileTimes: utimensat on whatever is at p.                          *)
Stamp(d, p, node) ==
  IF opt.times /\ Exists(d, p) THEN [d EXCEPT ![p].mtime = node] ELSE d

(* writeAppleDouble and the hash sidecar: a truncating open, no collision  *)
(* policy, and a failure nobody hears of.                                  *)
Sidecar(d, p, kind, node) ==
  IF Writable(d, p) THEN Put(d, p, Obj(kind, node, TRUE)) ELSE d

Sibling(p, component) == Append(Front(p), component)

-----------------------------------------------------------------------------
(* The walk.                                                               *)

Pending == IF stack = <<>> THEN jobs ELSE Last(stack).rest

DestDir == IF stack = <<>> THEN <<>> ELSE Last(stack).path

OutPath == Append(DestDir, San(Head(Pending).name))

(* exportWalk is called on the next entry, and returns if the flag is set. *)
Enter ==
  /\ pc = "walk" /\ Pending # <<>>
  /\ pc' = IF cancel THEN "back" ELSE "enter"
  /\ UNCHANGED <<vol, opt, walkVars, cur, dest, counters, cancel>>

Visiting(kind) ==
  /\ pc = "enter" /\ Pending # <<>>
  /\ Head(Pending).node \in kind

(* The caller, back from a call, finds the flag clear.                     *)
Resume ==
  /\ pc = "back" /\ ~cancel
  /\ pc' = "walk"
  /\ UNCHANGED <<vol, opt, walkVars, cur, dest, counters, cancel>>

Late == IF cancel THEN late + 1 ELSE late

(* The range-for of the caller moves past the entry.                       *)
Consumed ==
  IF stack = <<>> THEN stack
  ELSE Append(Front(stack), [Last(stack) EXCEPT !.rest = Tail(@)])

Consume ==
  /\ stack' = Consumed
  /\ jobs' = IF stack = <<>> THEN Tail(jobs) ELSE jobs

Ident(d) == vol.ident[d]

(* Mutant: the ancestors are not consulted.                                *)
OnPath_never(d) == FALSE

OnPath(d) == Ident(d) # 0 /\ Ident(d) \in Range(ancestors)

(* A directory already open above, or one too many levels down.            *)
Refused(d) == OnPath(d) \/ Len(stack) >= MaxDepth

RefuseDir ==
  /\ Visiting(Dirs)
  /\ Refused(Head(Pending).node)
  /\ cycles' = cycles + 1
  /\ pc' = "back"
  /\ Consume
  /\ UNCHANGED <<vol, opt, ancestors, cur, dest, files, fails, skipped, late, cancel>>

Pushed(d) == IF Ident(d) # 0 THEN Append(ancestors, Ident(d)) ELSE ancestors

OpenDir ==
  /\ Visiting(Dirs)
  /\ LET d == Head(Pending).node IN
       /\ ~Refused(d)
       /\ dest' = MkPath(dest, OutPath)
       /\ ancestors' = Pushed(d)
       /\ stack' = Append(Consumed, [dir |-> d, path |-> OutPath,
                                     ident |-> Ident(d), rest |-> vol.list[d]])
       /\ jobs' = IF stack = <<>> THEN Tail(jobs) ELSE jobs
  /\ pc' = "walk" /\ late' = Late
  /\ UNCHANGED <<vol, opt, cur, files, fails, cycles, skipped, cancel>>

(* Mutant: the identity stays, so `ancestors` is every directory visited.  *)
Popped_never == ancestors

Popped == IF Last(stack).ident # 0 THEN Front(ancestors) ELSE ancestors

(* Mutant: the dates are left as writing the children made them.           *)
LeaveDir_unstamped ==
  /\ pc = "walk" /\ stack # <<>> /\ Pending = <<>>
  /\ ancestors' = Popped
  /\ stack' = Front(stack)
  /\ pc' = "back"
  /\ UNCHANGED <<vol, opt, jobs, cur, dest, counters, cancel>>

(* The directory's own dates are stamped after its children were written.  *)
LeaveDir ==
  /\ pc = "walk" /\ stack # <<>> /\ Pending = <<>>
  /\ dest' = Stamp(dest, Last(stack).path, Last(stack).dir)
  /\ ancestors' = Popped
  /\ stack' = Front(stack)
  /\ pc' = "back"
  /\ UNCHANGED <<vol, opt, jobs, cur, counters, cancel>>

(* The caller finds the flag set and returns as well.                      *)
Unwind ==
  /\ pc = "back" /\ cancel /\ stack # <<>>
  /\ ancestors' = Popped
  /\ stack' = Front(stack)
  /\ UNCHANGED <<vol, opt, jobs, pc, cur, dest, counters, cancel>>

(* The loop over the roots ends: all visited, or the flag is set.          *)
Finish ==
  /\ stack = <<>>
  /\ (pc = "walk" /\ jobs = <<>>) \/ (pc = "back" /\ cancel)
  /\ pc' = "done"
  /\ UNCHANGED <<vol, opt, walkVars, cur, dest, counters, cancel>>

-----------------------------------------------------------------------------
(* One file.                                                               *)

SkipFile ==
  /\ Visiting(Files)
  /\ Exists(dest, OutPath) /\ opt.collision = "skip"
  /\ skipped' = skipped + 1
  /\ pc' = "back"
  /\ Consume
  /\ UNCHANGED <<vol, opt, ancestors, cur, dest, files, fails, cycles, late, cancel>>

(* Mutant: whatever has the name is truncated, whatever the policy.        *)
Chosen_truncates(p) == p = OutPath

(* The name-collision policy's choice of a path for the file.              *)
Chosen(p) ==
  \/ p = OutPath /\ (Exists(dest, OutPath) => opt.collision = "overwrite")
  \/ /\ Exists(dest, OutPath) /\ opt.collision = "rename"
     /\ \E n \in 1..MaxSuffix :
          LET variant(i) == Sibling(OutPath, Suffixed(Last(OutPath), i)) IN
          /\ p = variant(n)
          /\ ~Exists(dest, p)
          /\ \A i \in 1..(n - 1) : Exists(dest, variant(i))

Candidates == {OutPath} \cup {Sibling(OutPath, Suffixed(Last(OutPath), i)) : i \in 1..MaxSuffix}

OpenFile ==
  /\ Visiting(Files)
  /\ \E p \in Candidates :
       /\ Chosen(p) /\ Writable(dest, p)
       /\ dest' = Put(dest, p, Obj("data", Head(Pending).node, FALSE))
       /\ cur' = [node |-> Head(Pending).node, out |-> p,
                  left |-> vol.size[Head(Pending).node], ok |-> TRUE]
  /\ pc' = "stream" /\ late' = Late
  /\ Consume
  /\ UNCHANGED <<vol, opt, ancestors, files, fails, cycles, skipped, cancel>>

(* The destination stream cannot be opened: a directory has the name, the  *)
(* parent was never made, or the disk refuses.                             *)
OpenFails ==
  /\ Visiting(Files)
  /\ \E p \in Candidates :
       Chosen(p) /\ (~Writable(dest, p) \/ "open" \in Faults)
  /\ fails' = fails + 1
  /\ pc' = "back"
  /\ Consume
  /\ UNCHANGED <<vol, opt, ancestors, cur, dest, files, cycles, skipped, late, cancel>>

(* The sink takes a chunk.  All but the last, short one go through the     *)
(* stream's buffer to the disk, which may refuse; the sink then returns    *)
(* false, as it does when it sees the cancel flag.                         *)
WriteChunk ==
  /\ pc = "stream" /\ cur.ok /\ cur.left > 0
  /\ \E refused \in BOOLEAN :
       /\ refused => "write" \in Faults /\ cur.left > 1
       /\ cur' = [cur EXCEPT !.left = @ - 1, !.ok = ~refused /\ ~cancel]
  /\ UNCHANGED <<vol, opt, walkVars, pc, dest, counters, cancel>>

(* readFileStream gives up on a damaged file.                              *)
ReadFails ==
  /\ pc = "stream" /\ cur.ok /\ cur.node \in vol.bad
  /\ cur' = [cur EXCEPT !.ok = FALSE]
  /\ UNCHANGED <<vol, opt, walkVars, pc, dest, counters, cancel>>

(* os.close() flushes the buffered tail; its result is not looked at.      *)
Flushed(full) == [dest EXCEPT ![cur.out].whole = ~full]

WithRsrc(d, n) ==
  IF n \in vol.rsrc
  THEN LET p == Sibling(cur.out, RsrcName(Last(cur.out)))
           e == Sidecar(d, p, "rsrc", n)
       IN  IF Writable(d, p) THEN Stamp(e, p, n) ELSE e
  ELSE d

WithHash(d, n) ==
  IF opt.hash
  THEN Sidecar(d, Sibling(cur.out, HashName(Last(cur.out))), "hash", n)
  ELSE d

ReadWhole == cur.ok /\ cur.left = 0 /\ cur.node \notin vol.bad

(* Mutant: the flag is not looked at again after the stream.               *)
Accept_always ==
  /\ pc = "stream" /\ ReadWhole
  /\ dest' = Flushed(FALSE)
  /\ pc' = "keep"
  /\ UNCHANGED <<vol, opt, walkVars, cur, counters, cancel>>

(* readFileStream returned true, the file is closed, and the flag is still *)
(* clear.                                                                  *)
Accept ==
  /\ pc = "stream" /\ ReadWhole /\ ~cancel
  /\ \E full \in BOOLEAN :
       /\ full => "close" \in Faults /\ vol.size[cur.node] > 0
       /\ dest' = Flushed(full)
  /\ pc' = "keep"
  /\ UNCHANGED <<vol, opt, walkVars, cur, counters, cancel>>

(* The file is counted and gets its sidecars and dates.                    *)
KeepFile ==
  /\ pc = "keep"
  /\ dest' = WithHash(Stamp(WithRsrc(dest, cur.node), cur.out, cur.node), cur.node)
  /\ files' = files + 1
  /\ pc' = "back" /\ cur' = NoFile /\ late' = Late
  /\ UNCHANGED <<vol, opt, walkVars, fails, cycles, skipped, cancel>>

(* Mutant: the partial file stays.                                         *)
DropFile_kept ==
  /\ pc = "stream"
  /\ ~cur.ok \/ (ReadWhole /\ cancel)
  /\ fails' = fails + 1
  /\ pc' = "back" /\ cur' = NoFile
  /\ UNCHANGED <<vol, opt, walkVars, dest, files, cycles, skipped, late, cancel>>

DropFile ==
  /\ pc = "stream"
  /\ ~cur.ok \/ (ReadWhole /\ cancel)
  /\ fails' = fails + 1
  /\ dest' = Removed(dest, cur.out)
  /\ pc' = "back" /\ cur' = NoFile
  /\ UNCHANGED <<vol, opt, walkVars, files, cycles, skipped, late, cancel>>

(* An exception leaves a call on the filesystem - dirIdentity, listDir,    *)
(* readFileStream, or readResourceFork and fileTimes behind it - and       *)
(* reaches the thread's last line of defence: one failure is counted and   *)
(* the export is over.                                                     *)
ThrowInFile ==
  \/ pc = "stream" /\ UNCHANGED <<dest, cur, files, late>>
  \/ /\ pc = "keep"
     /\ dest' \in {dest, WithRsrc(dest, cur.node)}
     /\ files' = files + 1 /\ late' = Late
     /\ cur' = NoFile

ThrowInDir ==
  \/ /\ Visiting(Dirs)
     /\ \/ UNCHANGED <<dest, late>>
        \/ ~Refused(Head(Pending).node) /\ dest' = MkPath(dest, OutPath) /\ late' = Late
  \/ /\ pc = "walk" /\ stack # <<>> /\ Pending = <<>> /\ opt.times
     /\ UNCHANGED <<dest, late>>

Throw ==
  /\ "throw" \in Faults
  /\ ThrowInFile \/ (ThrowInDir /\ UNCHANGED <<cur, files>>)
  /\ fails' = fails + 1
  /\ cancel' = TRUE
  /\ pc' = "aborted"
  /\ UNCHANGED <<vol, opt, walkVars, cycles, skipped>>

-----------------------------------------------------------------------------
Init ==
  /\ vol \in Volumes /\ opt \in Options /\ dest \in Destinations
  /\ jobs = vol.roots
  /\ stack = <<>> /\ ancestors = <<>>
  /\ pc = "walk" /\ cur = NoFile
  /\ files = 0 /\ fails = 0 /\ cycles = 0 /\ skipped = 0 /\ late = 0
  /\ cancel = FALSE

Worker ==
  \/ Enter \/ Resume
  \/ RefuseDir \/ OpenDir \/ LeaveDir \/ Unwind \/ Finish
  \/ SkipFile \/ OpenFile \/ OpenFails
  \/ WriteChunk \/ ReadFails \/ Accept \/ KeepFile \/ DropFile

(* Another thread stores into exportCancel_.                               *)
SetCancel ==
  /\ ~cancel
  /\ cancel' = TRUE
  /\ UNCHANGED <<vol, opt, walkVars, pc, cur, dest, counters>>

(* The thread function has returned; nothing is left to do.                *)
Terminated == pc \in Finished /\ UNCHANGED vars

Next == Worker \/ Throw \/ SetCancel \/ Terminated

(* The worker is a thread of its own: the system keeps scheduling it, but  *)
(* it need not throw.                                                      *)
Spec == Init /\ [][Next]_vars /\ WF_vars(Worker)

-----------------------------------------------------------------------------
(* Properties.                                                             *)

(* The worker's variables hold values of the C++ types.                    *)
TypeOK ==
  /\ vol \in Volumes /\ opt \in Options
  /\ jobs \in Seq(Entry) /\ stack \in Seq(Frame) /\ ancestors \in Seq(Nat)
  /\ pc \in Control
  /\ cur \in Stream
  /\ IsDisk(dest)
  /\ files \in Nat /\ fails \in Nat /\ cycles \in Nat
  /\ skipped \in Nat /\ late \in Nat
  /\ cancel \in BOOLEAN

(* No directory with a known identity is open twice on the recursion path, *)
(* `ancestors` holds exactly the known identities of that path, in order,  *)
(* whatever pushes, early returns and pops came before, and the recursion  *)
(* is never deeper than kMaxWalkDepth even when no identity is known.      *)
KnownOnce(s) ==
  \A i, j \in DOMAIN s : s[i].ident = s[j].ident /\ i # j => s[i].ident = 0

Matches(a, s) ==
  \E at \in [DOMAIN a -> DOMAIN s] :
    /\ \A k, l \in DOMAIN a : k < l => at[k] < at[l]
    /\ \A k \in DOMAIN a : a[k] = s[at[k]].ident
    /\ {at[k] : k \in DOMAIN a} = {i \in DOMAIN s : s[i].ident # 0}

LoopFree ==
  /\ KnownOnce(stack)
  /\ Matches(ancestors, stack)
  /\ Len(stack) <= MaxDepth

(* Reference definition of the walk: a route is the positions taken from   *)
(* the list of roots down, and it leads to the entries below.              *)
Positions == 1..(MaxDepth + 1)
RouteEntry(r) ==
  LET at[k \in 1..Len(r)] ==
        LET l == IF k = 1 THEN vol.roots ELSE vol.list[at[k - 1].node]
        IN  l[r[k]]
  IN  at

(* Step k of r stays on the tree: it picks an existing entry of what came  *)
(* before, and that was a directory whose identity was new on the route.   *)
Opens(at, k) ==
  /\ at[k].node \in Dirs
  /\ \A j \in 1..(k - 1) : Ident(at[j].node) # 0 => Ident(at[j].node) # Ident(at[k].node)

EntryCounts == {Len(vol.roots)} \cup {Len(vol.list[d]) : d \in Dirs}
Widest == CHOOSE n \in EntryCounts : \A m \in EntryCounts : m <= n

Routes ==
  LET Extend(R) == {Append(r, i) : r \in R, i \in 1..Widest}
      Real(r) == LET n == Len(r)
                     l == IF n = 1 THEN vol.roots
                          ELSE LET at == RouteEntry(Front(r)) IN
                               IF Opens(at, n - 1) THEN vol.list[at[n - 1].node] ELSE <<>>
                 IN  r[n] <= Len(l)
      upTo[n \in 0..(MaxDepth + 1)] ==
        IF n = 0 THEN {<<>>} ELSE {r \in Extend(upTo[n - 1]) : Real(r)}
  IN  UNION {upTo[n] : n \in Positions}

EndOf(r) == RouteEntry(r)[Len(r)].node
FileRoutes == {r \in Routes : EndOf(r) \in Files}
RefusedRoutes == {r \in Routes : EndOf(r) \in Dirs
                                 /\ (Len(r) > MaxDepth \/ ~Opens(RouteEntry(r), Len(r)))}

(* An export that ran to its end accounts for every file exactly once per  *)
(* loop-free route to it, and counts one refusal per route that closes a   *)
(* loop or goes too deep: a directory listed under two parents is exported *)
(* both times, and the refusal of one entry loses nothing but that entry   *)
(* ("everything reachable without going around the loop was exported").    *)
EveryRouteAccounted ==
  pc = "done" /\ ~cancel =>
    /\ files + fails + skipped = Cardinality(FileRoutes)
    /\ cycles = Cardinality(RefusedRoutes)

Written == {p \in DOMAIN dest : dest[p].kind = "data" /\ dest[p].src # Foreign}

(* Under "rename" the number of files reported is the number of complete   *)
(* files on the disk, the one in flight aside: no exported file was lost   *)
(* to a later one.                                                         *)
CountIsOnDisk ==
  opt.collision = "rename" =>
    files = Cardinality({p \in Written : dest[p].whole /\ p # cur.out})

(* At most the file in flight is incomplete; when the worker returned      *)
(* normally no partial file is left behind.                                *)
NoPartialLeft ==
  \A p \in Written : ~dest[p].whole => p = cur.out /\ pc \in {"stream", "aborted"}

(* "After the children, not before": at the end of an export every folder  *)
(* it made or merged into still carries the source folder's date, although *)
(* files, sidecars and removed partials were written into it in between.   *)
FolderDatesKept ==
  pc = "done" /\ ~cancel /\ opt.times =>
    \A p \in DOMAIN dest \ {<<>>} : dest[p].kind = "dir" => dest[p].mtime # Now

(* "Rename (keep both)": under the rename policy a step never replaces or  *)
(* removes a file that is on the destination, except the one in flight.    *)
SameFile(a, b) == a.kind = b.kind /\ a.src = b.src /\ a.whole = b.whole

KeepsBoth ==
  [][opt.collision = "rename" =>
       \A p \in DOMAIN dest : dest[p].kind # "dir" /\ p # cur.out =>
         p \in DOMAIN dest' /\ SameFile(dest'[p], dest[p])]_vars

(* The worker looks at the flag before it begins something, and I/O lies   *)
(* between: a cancel can come too late for one folder, one file to open or *)
(* one file read to its end.  It never comes too late for two, whatever    *)
(* the worker was doing: a step behind the flag that counts a file or      *)
(* creates anything on the destination is the first such step and the last.*)
CancelStopsWriting ==
  [][cancel /\ (files' # files \/ ~(DOMAIN dest' \subseteq DOMAIN dest)) =>
       late = 0 /\ late' = 1]_vars

=============================================================================
