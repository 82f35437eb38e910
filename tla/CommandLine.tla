---------------------------- MODULE CommandLine ----------------------------
(***************************************************************************)
(* The batch commands of de-cli (src/cli/main.cpp) over one mounted        *)
(* volume: `export`, which mirrors a subtree onto the destination,         *)
(* `tree` and `find`, which list it (src/report/tree_report.cpp), and      *)
(* `export-list`, which writes files named by record number.               *)
(*                                                                         *)
(* One thread runs one command.  A frame of `stack` is one activation of   *)
(* the recursion on a directory; its depth is the number of frames below   *)
(* it.  The program has no handler for exceptions around these commands.   *)
(***************************************************************************)
EXTENDS Naturals, Sequences, FiniteSets, SequencesExt

CONSTANTS
  Dirs, Files,   \* the directories and the files of the volume
  San,           \* the sanitizing of a name's text: a function
  Needles,       \* what `find` looks for
  Scenarios,     \* commands with their volume and destination: see Scenario
  MaxDepth,      \* kMaxWalkDepth
  ReportDepth,   \* Options::maxDepth of the reports
  MaxDup,        \* bound on n in the search for a free "(n)" name
  Foreign        \* the source of what was on the destination before

(* A name: its text, the marks put before the extension (a number n for    *)
(* " (n)"), and whether it carries the "._" of an AppleDouble sidecar.     *)
(* A directory of the volume may hold names that look marked, numbered or  *)
(* like a sidecar.                                                         *)
DeletedMark == 0   \* " (deleted)"
Plain(text) == [text |-> text, marks |-> <<>>, side |-> FALSE]
Name == [text : DOMAIN San, marks : Seq(Nat), side : BOOLEAN]
DirEntry == [name : Name, node : Dirs \cup Files, deleted : BOOLEAN]

(* list, ident: listDir and dirIdentity.  size: the length in the catalog, *)
(* given: the chunks the reader delivers, torn: the files whose reader     *)
(* says FALSE, known: the files statNode resolves, rsrc: resource forks,   *)
(* lines: the list given to `export-list`.                                 *)
Volume(v) ==
  /\ v.root \in Dirs
  /\ v.list \in [Dirs -> Seq(DirEntry)]
  /\ v.ident \in [Dirs -> Nat]
  /\ v.size \in [Files -> Nat] /\ v.given \in [Files -> Nat]
  /\ v.torn \cup v.known \cup v.rsrc \subseteq Files
  /\ v.lines \in Seq([node : Files, path : Seq(Name) \ {<<>>}])

Scenario(s) ==
  /\ s.cmd \in {"export", "tree", "find", "list"}
  /\ Volume(s.vol)
  /\ s.files \in BOOLEAN            \* Options::includeFiles; --resource-forks
  /\ <<>> \in DOMAIN s.dest /\ IsFiniteSet(DOMAIN s.dest) /\ DOMAIN s.dest \subseteq Seq(Name)
  /\ s.dest \in [DOMAIN s.dest -> [kind : {"dir", "data"}, node : {Foreign}, got : Nat, cut : BOOLEAN]]

ASSUME NodeAssumption == Dirs \cap Files = {}
ASSUME ScenarioAssumption == \A s \in Scenarios : Scenario(s)
ASSUME SanAssumption == San \in [DOMAIN San -> DOMAIN San]
ASSUME ForeignAssumption == Foreign \notin Files
ASSUME DepthAssumption == MaxDepth \in Nat \ {0} /\ ReportDepth \in Nat /\ MaxDup \in Nat
(* The code has no bound on n: this one is never reached, because at most  *)
(* one name per entry is taken before.                                     *)
ASSUME DupAssumption == \A s \in Scenarios : \A d \in Dirs : Len(s.vol.list[d]) <= MaxDup

VARIABLES
  s,          \* the scenario: the command and what it works on
  pc,         \* "run", "done", or "died" by an exception
  stack,      \* open activations, the innermost last
  ancestors,  \* identities of the directories open on the path
  dest,       \* the destination: from the paths that exist to what is there
  todo,       \* lines of the list not read yet
  files, failed, partial, cycles,   \* the counters of the commands
  entries,    \* collectTree's vector
  open,       \* collectTree's index of the directory open at each depth
  hits        \* the paths `find` printed

vars == <<s, pc, stack, ancestors, dest, todo, files, failed, partial, cycles,
          entries, open, hits>>
counters == <<files, failed, partial, cycles>>
report == <<entries, open, hits>>

-----------------------------------------------------------------------------
(* The destination.  got: what the stream of a file took; cut: the disk    *)
(* refused the rest of it when the stream was closed, so that less than    *)
(* `got` is in the file, or nothing.                                       *)

DirObj == [kind |-> "dir", node |-> Foreign, got |-> 0, cut |-> FALSE]
Data(f, n, c) == [kind |-> "data", node |-> f, got |-> n, cut |-> c]
IsDir(d, p) == p \in DOMAIN d /\ d[p].kind = "dir"
Put(d, p, obj) == [q \in DOMAIN d \cup {p} |-> IF q = p THEN obj ELSE d[q]]
Removed(d, p) == [q \in DOMAIN d \ {p} |-> d[q]]

(* An ofstream on p opens, truncating what is there.                       *)
Writable(d, p) == IsDir(d, Front(p)) /\ ~IsDir(d, p)

(* create_directories with an error_code: stops where a file is in the way *)
MkDirs(d, p) ==
  LET way == {n \in 1..Len(p) : \A m \in 1..n : ~(SubSeq(p, 1, m) \in DOMAIN d
                                        /\ d[SubSeq(p, 1, m)].kind # "dir")}
  IN  [q \in DOMAIN d \cup {SubSeq(p, 1, n) : n \in way} |->
         IF q \in DOMAIN d THEN d[q] ELSE DirObj]

(* appleDoublePath                                                         *)
Side(p) == Append(Front(p), [Last(p) EXCEPT !.side = TRUE])

WithSidecar(d, p, f) ==
  IF f \in s.vol.rsrc /\ Writable(d, Side(p))
  THEN Put(d, Side(p), [kind |-> "rsrc", node |-> f, got |-> 1, cut |-> FALSE]) ELSE d

(* What the reader and the disk may leave of f: all it delivers, or less   *)
(* when a write fails and the sink says so.  What the ofstream still holds *)
(* it writes when it is closed, and nobody asks whether that went well:    *)
(* `ok` and `got` are settled before.                                      *)
Streams(f) ==
  {[got |-> n, cut |-> c, ok |-> n = s.vol.given[f] /\ f \notin s.vol.torn] :
     n \in 0..s.vol.given[f], c \in BOOLEAN}

-----------------------------------------------------------------------------
(* The recursion the walkers share.                                        *)

Frame(d, p) == [dir |-> d, path |-> p, rest |-> s.vol.list[d], used |-> {}]
Depth == Len(stack) - 1
Top == stack[Len(stack)]
Entry == Head(Top.rest)
IsFolder(e) == e.node \in Dirs
Loops(d) == s.vol.ident[d] # 0 /\ s.vol.ident[d] \in ToSet(ancestors)
Known(d) == IF s.vol.ident[d] = 0 THEN <<>> ELSE <<s.vol.ident[d]>>

(* The top frame goes on behind its entry, p being taken.                  *)
Onward(p) == [stack EXCEPT ![Len(stack)].rest = Tail(@), ![Len(stack)].used = @ \cup {p}]

Walking(cmds) == pc = "run" /\ s.cmd \in cmds /\ stack # <<>>
AtEntry(cmds) == Walking(cmds) /\ Top.rest # <<>>

LeaveDir ==
  /\ Walking({"export", "tree", "find"}) /\ Top.rest = <<>>
  /\ stack' = Front(stack)
  /\ ancestors' = IF Known(Top.dir) = <<>> THEN ancestors ELSE Front(ancestors)
  /\ pc' = IF Len(stack) = 1 THEN "done" ELSE "run"
  /\ UNCHANGED <<s, dest, todo, counters, report>>

-----------------------------------------------------------------------------
(* `export`: exportTree.                                                   *)

InsertBeforeExt(name, mark) == [name EXCEPT !.marks = Append(@, mark)]
Safe(e) ==
  LET name == [e.name EXCEPT !.text = San[@]]
  IN  IF e.deleted THEN InsertBeforeExt(name, DeletedMark) ELSE name

(* The first of "name", "name (2)", "name (3)"... not claimed in this      *)
(* activation; what is on the destination does not count.                  *)
Variant(e, n) == Append(Top.path, IF n = 1 THEN Safe(e) ELSE InsertBeforeExt(Safe(e), n))
Claimed_first(e) == Variant(e, 1)
Claimed(e) ==
  Variant(e, CHOOSE n \in 1..MaxDup :
    Variant(e, n) \notin Top.used /\ \A m \in 1..(n - 1) : Variant(e, m) \in Top.used)

ExportFolder ==
  /\ AtEntry({"export"}) /\ IsFolder(Entry)
  /\ LET d == Entry.node   p == Claimed(Entry)
     IN  IF Loops(d) \/ Len(stack) >= MaxDepth
         THEN /\ cycles' = cycles + 1
              /\ stack' = Onward(p)
              /\ UNCHANGED <<ancestors, dest>>
         ELSE /\ stack' = Append(Onward(p), Frame(d, p))
              /\ ancestors' = ancestors \o Known(d)
              /\ dest' = MkDirs(dest, p)
              /\ UNCHANGED cycles
  /\ UNCHANGED <<s, pc, todo, files, failed, partial, report>>

(* A file that was not read in full is counted in both counters and stays. *)
ExportFile ==
  /\ AtEntry({"export"}) /\ ~IsFolder(Entry)
  /\ LET f == Entry.node   p == Claimed(Entry)
     IN  /\ stack' = Onward(p)
         /\ \/ /\ ~Writable(dest, p)
               /\ failed' = failed + 1
               /\ UNCHANGED <<files, dest>>
            \/ /\ Writable(dest, p)
               /\ \E r \in Streams(f) :
                    /\ failed' = IF r.ok THEN failed ELSE failed + 1
                    /\ dest' = WithSidecar(Put(dest, p, Data(f, r.got, r.cut)), p, f)
               /\ files' = files + 1
  /\ UNCHANGED <<s, pc, ancestors, todo, partial, cycles, report>>

-----------------------------------------------------------------------------
(* `tree` and `find`: walk, with collectTree's and findNames' visitors.    *)

Parent == IF Depth = 0 THEN 0 ELSE open[Depth]
Listed(e) == Append(entries, [name |-> e.name, parent |-> Parent, dir |-> IsFolder(e)])
Opened_kept(e) == IF Len(open) < Depth + 1 THEN Append(open, Len(entries) + 1) ELSE open
(* `open` is resized to the depth, and never shrinks.                      *)
Opened(e) ==
  LET o == IF Len(open) < Depth + 1 THEN Append(open, 0) ELSE open
  IN  IF IsFolder(e) THEN [o EXCEPT ![Depth + 1] = Len(entries) + 1] ELSE o

Matches(e) == e.name \in Needles

Visit(e, p) ==
  \/ /\ s.cmd = "tree"
     /\ entries' = Listed(e) /\ open' = Opened(e) /\ UNCHANGED hits
  \/ /\ s.cmd = "find"
     /\ hits' = IF Matches(e) THEN Append(hits, p) ELSE hits
     /\ UNCHANGED <<entries, open>>

(* The depth limit refuses without counting.                               *)
ReportFolder ==
  /\ AtEntry({"tree", "find"}) /\ IsFolder(Entry)
  /\ LET d == Entry.node
         p == Append(Top.path, Entry.name)
         tooDeep == Len(stack) > ReportDepth \/ Len(stack) >= MaxDepth
     IN  /\ Visit(Entry, p)
         /\ IF tooDeep \/ Loops(d)
            THEN /\ cycles' = IF tooDeep THEN cycles ELSE cycles + 1
                 /\ stack' = Onward(p)
                 /\ UNCHANGED ancestors
            ELSE /\ stack' = Append(Onward(p), Frame(d, p))
                 /\ ancestors' = ancestors \o Known(d)
                 /\ UNCHANGED cycles
  /\ UNCHANGED <<s, pc, dest, todo, files, failed, partial>>

ReportFile ==
  /\ AtEntry({"tree", "find"}) /\ ~IsFolder(Entry)
  /\ LET p == Append(Top.path, Entry.name)
     IN  /\ IF s.files THEN Visit(Entry, p) ELSE UNCHANGED report
         /\ stack' = Onward(p)
  /\ files' = files + 1
  /\ UNCHANGED <<s, pc, ancestors, dest, todo, failed, partial, cycles>>

(* entryPath                                                               *)
EntryPath(es, i) ==
  LET path[k \in 0..Len(es)] == IF k = 0 THEN <<>> ELSE Append(path[es[k].parent], es[k].name)
  IN  path[i]

-----------------------------------------------------------------------------
(* `export-list`.  Only a size the catalog tells makes an empty result a   *)
(* success; a file that came back short is kept and called partial.        *)

Sized(f) == f \in s.vol.known
Kept_always(f, r) == r.ok
Kept(f, r) == r.ok /\ (r.got > 0 \/ (Sized(f) /\ s.vol.size[f] = 0))

ListLine ==
  /\ pc = "run" /\ s.cmd = "list" /\ todo # <<>>
  /\ todo' = Tail(todo)
  /\ LET f == Head(todo).node
         p == Head(todo).path
         d == MkDirs(dest, Front(p))
     IN  \/ /\ ~Writable(d, p)
            /\ failed' = failed + 1 /\ dest' = d
            /\ UNCHANGED <<files, partial>>
         \/ /\ Writable(d, p)
            /\ \E r \in Streams(f) :
                 \/ /\ ~Kept(f, r)
                    /\ failed' = failed + 1 /\ dest' = Removed(d, p)
                    /\ UNCHANGED <<files, partial>>
                 \/ /\ Kept(f, r)
                    /\ files' = files + 1
                    /\ partial' = IF Sized(f) /\ r.got < s.vol.size[f] THEN partial + 1 ELSE partial
                    /\ LET written == Put(d, p, Data(f, r.got, r.cut))
                       IN  dest' = IF s.files THEN WithSidecar(written, p, f) ELSE written
                    /\ UNCHANGED failed
  /\ UNCHANGED <<s, pc, stack, ancestors, cycles, report>>

ListEnds ==
  /\ pc = "run" /\ s.cmd = "list" /\ todo = <<>>
  /\ pc' = "done"
  /\ UNCHANGED <<s, stack, ancestors, dest, todo, counters, report>>

-----------------------------------------------------------------------------
(* The call of the walker on the start directory, at depth 0.              *)
Start(sc) ==
  IF sc.cmd = "list" THEN <<>>
  ELSE <<[dir |-> sc.vol.root, path |-> <<>>, rest |-> sc.vol.list[sc.vol.root], used |-> {}]>>

Init ==
  /\ s \in Scenarios
  /\ pc = "run"
  /\ stack = Start(s)
  /\ ancestors = IF s.cmd = "list" THEN <<>> ELSE Known(s.vol.root)
  /\ dest = s.dest
  /\ todo = s.vol.lines
  /\ files = 0 /\ failed = 0 /\ partial = 0 /\ cycles = 0
  /\ entries = <<>> /\ open = <<>> /\ hits = <<>>

(* A reader throws, out of memory for one: main does not catch it.         *)
Throw ==
  /\ pc = "run"
  /\ pc' = "died"
  /\ UNCHANGED <<s, stack, ancestors, dest, todo, counters, report>>

Ended == pc # "run" /\ UNCHANGED vars

Next == ExportFolder \/ ExportFile \/ ReportFolder \/ ReportFile \/ LeaveDir
        \/ ListLine \/ ListEnds \/ Throw \/ Ended

Spec == Init /\ [][Next]_vars

(* What the program returns to the shell.                                  *)
ExitCode ==
  CASE pc = "died" -> 134
    [] s.cmd = "export" -> IF failed > 0 THEN 1 ELSE 0
    [] s.cmd = "list" -> IF failed > 0 /\ files = 0 THEN 1 ELSE 0
    [] s.cmd = "find" -> IF hits = <<>> THEN 1 ELSE 0
    [] OTHER -> 0

-----------------------------------------------------------------------------
(* Properties.                                                             *)

(* The routes of the volume, independent of any walk: chains of entries,   *)
(* each in the directory the one before it names, along which no known     *)
(* identity comes back and which stay within `limit` directories.          *)
NodeAt(route, k) == IF k = 1 THEN s.vol.root ELSE route[k - 1].e.node
Extended(route) ==
  LET d == NodeAt(route, Len(route) + 1)
  IN  {Append(route, [e |-> s.vol.list[d][i], at |-> i]) : i \in DOMAIN s.vol.list[d]}
MayOpen(route, limit) ==
  LET ident(k) == s.vol.ident[NodeAt(route, k)]
  IN  /\ NodeAt(route, Len(route) + 1) \in Dirs
      /\ Len(route) < limit
      /\ \A i, j \in 1..(Len(route) + 1) : i < j /\ ident(i) # 0 => ident(i) # ident(j)
Routes(limit) ==
  LET R[n \in 0..limit] ==
        IF n = 0 THEN {<<>>}
        ELSE UNION {Extended(r) : r \in {q \in R[n - 1] : MayOpen(q, limit)}}
  IN  UNION {R[n] : n \in 1..limit}

NamesAlong(route) == [i \in DOMAIN route |-> route[i].e.name]

(* When `export` returns success and reports no refused directory, every   *)
(* route that leads to a file has a file of its own on the destination     *)
(* into which its whole content went, whatever names collide: live,        *)
(* deleted, sanitized or numbered ones (cli/main.cpp, "Never let one       *)
(* export overwrite another").  Such a file is complete unless its stream  *)
(* was cut: os.close() is not tested, so that success may be returned over *)
(* a file that lost its end there, the one way this code has to do so.     *)
(* Files named like another's sidecar are excepted: see the README.        *)
CopiesOf(f) ==
  {p \in DOMAIN dest : dest[p].kind = "data" /\ dest[p].node = f /\ dest[p].got = s.vol.given[f]}
SidecarNames == \E d \in Dirs : \E i \in DOMAIN s.vol.list[d] : s.vol.list[d][i].name.side
ExitIsHonest ==
  s.cmd = "export" /\ pc = "done" /\ ExitCode = 0 /\ cycles = 0 /\ ~SidecarNames =>
    \A f \in Files :
      Cardinality(CopiesOf(f)) >= Cardinality({r \in Routes(MaxDepth + 1) : Last(r).e.node = f})

(* The report is the tree: reconstructed from its parent links, the paths  *)
(* are those of the volume's routes, each listed once per route, and what  *)
(* `find` prints is the matching ones of the same, however the walk went   *)
(* up and down between them (tree_report.cpp, collectTree and entryPath).  *)
Least(a, b) == IF a < b THEN a ELSE b
InReport(r) == s.files \/ Last(r).e.node \in Dirs
ReportIsTheTree ==
  pc = "done" =>
    LET all == {r \in Routes(Least(MaxDepth, ReportDepth + 1)) : InReport(r)}
        found == {r \in all : Last(r).e.name \in Needles}
    IN  /\ s.cmd = "tree" =>
             /\ Len(entries) = Cardinality(all)
             /\ \A r \in all : \E i \in DOMAIN entries : EntryPath(entries, i) = NamesAlong(r)
             /\ \A i \in DOMAIN entries : \E r \in all :
                  EntryPath(entries, i) = NamesAlong(r) /\ entries[i].dir = (Last(r).e.node \in Dirs)
        /\ s.cmd = "find" =>
             /\ Len(hits) = Cardinality(found)
             /\ ToSet(hits) = {NamesAlong(r) : r \in found}

(* For a list that names every destination once: the files `export-list`   *)
(* says it wrote are on the destination, none is left for which nothing    *)
(* came that is not known to be empty, and every file for which less came  *)
(* than the catalog says is counted as partial, no other.  A cut file may  *)
(* still be short or empty and counted as whole, against the comment       *)
(* "leave no misleading empty file behind" (cli/main.cpp:1022): `got` is   *)
(* what the stream took and its close is not tested.                       *)
NamedOnce ==
  \A i, j \in DOMAIN s.vol.lines :
    /\ i # j => s.vol.lines[i].path # s.vol.lines[j].path
    /\ ~Last(s.vol.lines[i].path).side
ListIsHonest ==
  s.cmd = "list" /\ NamedOnce =>
    LET written == {p \in DOMAIN dest : dest[p].kind = "data" /\ dest[p].node # Foreign}
    IN  /\ files = Cardinality(written)
        /\ \A p \in written : dest[p].got = 0 => Sized(dest[p].node) /\ s.vol.size[dest[p].node] = 0
        /\ partial = Cardinality({p \in written :
                       Sized(dest[p].node) /\ dest[p].got < s.vol.size[dest[p].node]})
        /\ pc = "done" => files + failed = Len(s.vol.lines)
=============================================================================
