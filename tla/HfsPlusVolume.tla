---------------------------- MODULE HfsPlusVolume ----------------------------
(***************************************************************************)
(* The HFS+ reader (src/fs/hfsplus/hfsplus.cpp) on a volume whose B-trees  *)
(* may be damaged: index nodes that do not read, leaves that fell out of   *)
(* the chain or are chained in a circle, folders of which only the thread  *)
(* record is left, extents in the overflow tree, hard links, compressed    *)
(* files.                                                                  *)
(*                                                                         *)
(* Data is counted in allocation blocks, and a block's content is its      *)
(* address.  A node is what a read of the tree's fork delivers: one that   *)
(* does not read is all zeros, an index node without records.  The window  *)
(* is modal while a thread works, so a call is one step; what calls leave  *)
(* to later ones is the cache of records, the id of the folder of links'   *)
(* targets, and the notes.                                                 *)
(***************************************************************************)
EXTENDS Integers, Sequences, FiniteSets, SequencesExt

CONSTANTS
  Volumes,      \* the volumes considered: see Volume
  Chunk,        \* blocks per call of the sink
  CacheMax,     \* records cached before the cache is emptied: 300000
  MaxDepth,     \* nodes from the root down, at most: 64
  Hole          \* a block of zeros

ASSUME SizeAssumption == {Chunk, MaxDepth} \subseteq Nat \ {0} /\ CacheMax \in Nat

RootId == 2           \* CNID_ROOT
PrivateName == 99     \* PRIVATE_DATA_DIR
InodeName(k) == 100 + k
Decmpfs == 1          \* the attribute's name

DataFork == 0
RsrcFork == 255

Fork == [of : Nat, size : Nat, ext : Seq(Nat \X Nat)]

(* A record of any of the trees: `ok` that it lies inside its node, `lead` *)
(* the key's first number.  `sub` and `start` are the rest of the key in   *)
(* the overflow tree, `name` in the other two.                             *)
Rec == [ok : BOOLEAN, lead : Nat, sub : Nat, start : Nat, name : Nat, child : Nat,
        type : {"index", "folder", "file", "folderThread", "fileThread", "extents", "inline", "fork", "other"},
        cnid : Nat, parent : Nat, link : Nat, data : Fork, rsrc : Fork]

Node == [kind : {"leaf", "index", "other"}, next : Nat, recs : Seq(Rec)]

Tree == [sound : BOOLEAN, root : Nat, first : Nat, count : Nat, nodes : Seq(Node)]

Volume == [header : {"H+", "HX", "BD", "none"}, sane : BOOLEAN, clean : BOOLEAN, alternate : BOOLEAN,
           catalog : Tree, extents : Tree, attributes : Tree, bad : SUBSET Nat]

ASSUME VolumeAssumption == \A v \in Volumes : v \in Volume

VARIABLES
  vol,      \* the volume, fixed
  mounted,  \* "no", "yes" or "failed"
  mem,      \* cache_, privateDirCnid_, notes_; in a call, the groups asked for
  known,    \* nodes some listing returned
  task      \* the last call's result

vars == <<vol, mounted, mem, known, task>>

Least(a, b) == IF a < b THEN a ELSE b

None == [cnid |-> 0]

-----------------------------------------------------------------------------
(* B-trees.                                                                *)

(* A node count past what the fork can address is not believed.            *)
TotalNodes(t) == IF t.count \in 1..(Len(t.nodes) + 1) THEN t.count ELSE Len(t.nodes) + 1

TreeOk(t) == t.sound /\ (t.root # 0 \/ TotalNodes(t) <= 1)

NoNode == [kind |-> "other", next |-> 0, recs |-> <<>>]

NodeAt(t, n) == IF n \in 1..(TotalNodes(t) - 1) THEN t.nodes[n] ELSE NoNode

IsLeaf(t, n) == NodeAt(t, n).kind = "leaf"

(* A key: the number all trees sort by first, and the rest of the key in   *)
(* the overflow tree.  Zeros stand for the first key with that number.     *)
Key(lead, sub, start) == [lead |-> lead, sub |-> sub, start |-> start]

SortsBefore(r, key) ==
  \/ r.lead < key.lead
  \/ r.lead = key.lead /\ (r.sub < key.sub \/ (r.sub = key.sub /\ r.start < key.start))

(* How many records sort before the key, a record that is not readable     *)
(* taken as behind it.                                                     *)
Bound(recs, key) ==
  LET Halve(s, k) ==
        LET mid == (s.lo + s.hi) \div 2 IN
        IF s.lo >= s.hi THEN s
        ELSE IF recs[mid + 1].ok /\ SortsBefore(recs[mid + 1], key) THEN [s EXCEPT !.lo = mid + 1]
        ELSE [s EXCEPT !.hi = mid]
  IN  FoldLeft(Halve, [lo |-> 0, hi |-> Len(recs)], [k \in 1..Len(recs) |-> k]).lo

(* From the root into the last child not after the key; the place in a     *)
(* leaf, or 0.                                                             *)
LowerBound(t, key) ==
  LET Down(c, k) ==
        LET b == NodeAt(t, c.node)
            lo == Bound(b.recs, key)
            i == IF lo > 0 THEN lo ELSE 1
        IN  IF c.end THEN c
            ELSE IF b.recs = <<>> \/ b.kind = "other" THEN [c EXCEPT !.end = TRUE]
            ELSE IF b.kind = "leaf" THEN [c EXCEPT !.end = TRUE, !.at = lo + 1]
            ELSE IF ~b.recs[i].ok \/ b.recs[i].child = c.node THEN [c EXCEPT !.end = TRUE]
            ELSE [c EXCEPT !.node = b.recs[i].child]
  IN  FoldLeft(Down, [node |-> t.root, at |-> 0, end |-> ~TreeOk(t)], [k \in 1..MaxDepth |-> k])

(* The leaves from n on, up to the first one met again.                    *)
LeafChain(t, n) ==
  LET Extend(c, k) ==
        LET m == NodeAt(t, Last(c)).next
        IN  IF Len(c) = k /\ IsLeaf(t, m) /\ m \notin Range(c) THEN Append(c, m) ELSE c
  IN  IF IsLeaf(t, n) THEN FoldLeft(Extend, <<n>>, [k \in 1..Len(t.nodes) |-> k]) ELSE <<>>

Circles(t, chain) ==
  chain # <<>> /\ NodeAt(t, Last(chain)).next \in Range(chain) \ {Last(chain)}

Unbroken(run) ==
  LET torn == {i \in DOMAIN run : ~run[i].ok}
  IN  IF torn = {} THEN run ELSE SubSeq(run, 1, (CHOOSE i \in torn : \A j \in torn : i <= j) - 1)

(* The leaves met once more where the chain leads back.                    *)
Again(chain, next) ==
  SubSeq(chain, CHOOSE k \in DOMAIN chain : chain[k] = next, Len(chain))

NoCursor == [chain |-> <<>>, run |-> <<>>, round |-> FALSE, endless |-> FALSE]

(* A cursor: the leaves from where it stands, the records it will pass up  *)
(* to one that is not readable, and whether they come round again.  Among  *)
(* empty leaves that are chained in a circle its load never ends.          *)
CursorIn(chain, run, round) ==
  [chain |-> chain, run |-> Unbroken(run), round |-> round /\ \A i \in DOMAIN run : run[i].ok,
   endless |-> FALSE]

CursorOver(t, leaves, left, round) ==
  LET full == {k \in DOMAIN left : left[k] # <<>>}
  IN  IF full = {} THEN [NoCursor EXCEPT !.endless = round]
      ELSE CursorIn(LeafChain(t, leaves[CHOOSE k \in full : \A j \in full : k <= j]), FlattenSeq(left), round)

CursorAlong(t, at, leaves, round) ==
  CursorOver(t, leaves,
             [k \in DOMAIN leaves |-> LET recs == NodeAt(t, leaves[k]).recs
                                      IN  IF k = 1 THEN SubSeq(recs, at, Len(recs)) ELSE recs], round)

CursorFrom(t, at, chain) ==
  IF Circles(t, chain) THEN CursorAlong(t, at, chain \o Again(chain, NodeAt(t, Last(chain)).next), TRUE)
  ELSE CursorAlong(t, at, chain, FALSE)

CursorAt(t, place) ==
  IF place.at = 0 THEN NoCursor ELSE CursorFrom(t, place.at, LeafChain(t, place.node))

Cursor(t, key) == CursorAt(t, LowerBound(t, key))

Valid(cur) == cur.run # <<>>

(* collectFrom.                                                            *)
Collected(t, n, lead) == LET Of(r) == r.ok /\ r.lead = lead IN SelectSeq(NodeAt(t, n).recs, Of)

(* buildNodeIndex: the leaves whose first and last records are readable.   *)
Spans(t) ==
  {n \in DOMAIN t.nodes :
     LET r == NodeAt(t, n).recs IN IsLeaf(t, n) /\ r # <<>> /\ r[1].ok /\ Last(r).ok}

(* Its count of the leaves chained counts one it meets again, up to a      *)
(* guard.                                                                  *)
ChainNotes(t) ==
  LET c == LeafChain(t, t.first)
  IN  IF ~Circles(t, c) /\ Len(c) < Cardinality(Spans(t)) THEN {"chain"} ELSE {}

(* The leaves group() visits for a key: along the chain up to one that     *)
(* holds a key behind it.                                                  *)
VisitFrom(t, lead, cur) ==
  LET past == {k \in DOMAIN cur.chain : LET r == NodeAt(t, cur.chain[k]).recs
                                        IN  r # <<>> /\ Last(r).ok /\ Last(r).lead > lead}
  IN  IF ~Valid(cur) THEN [leaves |-> <<>>, endless |-> cur.endless]
      ELSE IF past = {} THEN [leaves |-> cur.chain, endless |-> Circles(t, cur.chain)]
      ELSE [leaves |-> SubSeq(cur.chain, 1, CHOOSE k \in past : \A j \in past : k <= j), endless |-> FALSE]

Visit(t, lead) == VisitFrom(t, lead, Cursor(t, Key(lead, 0, 0)))


(* group: the records of a key along the chain, then those the chain did   *)
(* not yield from the other leaves that span it.                           *)
GroupBeyond(t, lead, chain) ==
  LET more == {n \in Spans(t) \ Range(chain) :
                 LET r == NodeAt(t, n).recs IN r[1].lead <= lead /\ lead <= Last(r).lead}
      Add(out, r)  == IF r \in Range(out) THEN out ELSE Append(out, r)
      Sweep(out, n) == IF n \in more THEN FoldLeft(Add, out, Collected(t, n, lead)) ELSE out
  IN  FoldLeft(Sweep, FlattenSeq([k \in DOMAIN chain |-> Collected(t, chain[k], lead)]),
               [n \in DOMAIN t.nodes |-> n])

Group(t, lead) == IF TreeOk(t) THEN GroupBeyond(t, lead, Visit(t, lead).leaves) ELSE <<>>

-----------------------------------------------------------------------------
(* Forks.                                                                  *)

Blocks(ext) == FlattenSeq([i \in DOMAIN ext |-> [k \in 1..ext[i][2] |-> ext[i][1] + k - 1]])

Have(ext) == Len(Blocks(ext))

(* The extents with those of the overflow record the search came to, if it *)
(* is one of this fork.                                                    *)
WithOverflow(ext, cnid, sub, run) ==
  IF run = <<>> THEN ext
  ELSE IF run[1].lead # cnid \/ run[1].sub # sub THEN ext
  ELSE ext \o run[1].data.ext

(* Mutant: the search always begins at the first extent.                   *)
EnsureExtents_restart(ext, cnid, sub, needed) ==
  LET Grow(e, k) ==
        IF Have(e) >= needed THEN e
        ELSE WithOverflow(e, cnid, sub, Cursor(vol.extents, Key(cnid, sub, 0)).run)
  IN  FoldLeft(Grow, ext, [k \in 1..needed |-> k])

(* ensureExtents: the overflow records, each beginning where the extents   *)
(* found so far end.                                                       *)
EnsureExtents(ext, cnid, sub, needed) ==
  LET Grow(e, k) ==
        IF Have(e) >= needed THEN e
        ELSE WithOverflow(e, cnid, sub, Cursor(vol.extents, Key(cnid, sub, Have(e))).run)
  IN  FoldLeft(Grow, ext, [k \in 1..needed |-> k])

(* What reads of n blocks at a time deliver of an extent: zeros in a read  *)
(* from the first block on that does not read.                             *)
ReadExtent(e, n) ==
  [k \in 1..e[2] |->
     LET from == e[1] + ((k - 1) \div n) * n
     IN  IF \E b \in from..(e[1] + k - 1) : b \in vol.bad THEN Hole ELSE e[1] + k - 1]

Pad(s, n) == [k \in 1..n |-> IF k \in DOMAIN s THEN s[k] ELSE Hole]

(* streamFork.                                                             *)
Streamed(ext, size) ==
  [sent |-> Pad(FlattenSeq([i \in DOMAIN ext |-> ReadExtent(ext[i], Chunk)]), size),
   notes |-> (IF \E k \in 1..Least(Have(ext), size) : Blocks(ext)[k] \in vol.bad THEN {"sectors"} ELSE {})
             \cup (IF Have(ext) < size THEN {"incomplete"} ELSE {})]

(* The places a search of the overflow tree begins at.                     *)
ExtentKeys(f, sub) ==
  {Key(f.of, sub, n) : n \in {h \in {Have(EnsureExtents(f.ext, f.of, sub, k)) : k \in 0..f.size} : h < f.size}}

StreamFork(f) == Streamed(EnsureExtents(f.ext, f.of, DataFork, f.size), f.size)

(* readFork of a whole resource fork: silent about what does not read.     *)
WholeFork(ext, size) == Pad(FlattenSeq([i \in DOMAIN ext |-> ReadExtent(ext[i], ext[i][2] + 1)]), size)

ReadFork(f) == WholeFork(EnsureExtents(f.ext, f.of, RsrcFork, f.size), f.size)

First(s) == IF s = <<>> THEN None ELSE Head(s)

(* readAttribute: the file's decmpfs attribute, among the records from its *)
(* number on.                                                              *)
AttributeAmong(run, cnid) ==
  LET other == {i \in DOMAIN run : run[i].lead # cnid}
      own   == IF other = {} THEN run ELSE SubSeq(run, 1, (CHOOSE i \in other : \A j \in other : i <= j) - 1)
      Named(r) == r.name = Decmpfs
      r     == First(SelectSeq(own, Named))
  IN  IF r = None THEN None ELSE IF r.type \in {"inline", "fork"} THEN r ELSE None

AttributesFrom(cnid) == Cursor(vol.attributes, Key(cnid, 0, 0))

Attribute(cnid) == AttributeAmong(AttributesFrom(cnid).run, cnid)

(* Attributes of one file all round a circle, decmpfs not among them.      *)
AttributeEndless(cnid) ==
  LET cur == AttributesFrom(cnid)
  IN  cur.endless \/ (cur.round /\ \A a \in Range(cur.run) : a.lead = cnid /\ a.name # Decmpfs)

-----------------------------------------------------------------------------
(* The catalog.  A search takes what the reader remembers and returns what *)
(* it remembers afterwards, and the record it found.                       *)

Entries == {"folder", "file"}

Threads == {"folderThread", "fileThread"}

Remember(m, r) == [m EXCEPT !.cache = [c \in DOMAIN @ \cup {r.cnid} |-> IF c = r.cnid THEN r ELSE @[c]]]

Asked(m, lead) == [m EXCEPT !.asked.groups = @ \cup {lead}]

AskedAttribute(m, cnid) == [m EXCEPT !.asked.attributes = @ \cup {cnid}]

AskedExtents(m, f, sub) == [m EXCEPT !.asked.extents = @ \cup ExtentKeys(f, sub)]

Found(m, r) == [rec |-> r, mem |-> IF r = None THEN m ELSE Remember(m, r)]

ChildByName(m, parent, name) ==
  LET Is(r) == r.type \in Entries /\ r.name = name
  IN  Found(Asked(m, parent), First(SelectSeq(Group(vol.catalog, parent), Is)))

NoFork == [of |-> 0, size |-> 0, ext |-> <<>>]

Folder(cnid, name) ==
  [ok |-> TRUE, lead |-> 0, sub |-> 0, start |-> 0, name |-> name, child |-> 0, type |-> "folder",
   cnid |-> cnid, parent |-> 0, link |-> 0, data |-> NoFork, rsrc |-> NoFork]

(* recordByCnid: by the thread record to the parent and the name.  A       *)
(* folder of which only the thread is left is made up from that.           *)
FromThread(cnid, t, full) ==
  IF full.rec # None THEN full
  ELSE [full EXCEPT !.rec = IF t.type = "folderThread" THEN Folder(cnid, t.name) ELSE None]

ByThread(m, cnid, t) ==
  IF t = None THEN [rec |-> None, mem |-> m]
  ELSE IF cnid = RootId THEN [rec |-> Folder(RootId, t.name), mem |-> m]
  ELSE FromThread(cnid, t, ChildByName(m, t.parent, t.name))

RecordByCnid(m, cnid) ==
  LET IsThread(r) == r.type \in Threads
  IN  IF cnid \in DOMAIN m.cache THEN [rec |-> m.cache[cnid], mem |-> m]
      ELSE ByThread(Asked(m, cnid), cnid, First(SelectSeq(Group(vol.catalog, cnid), IsThread)))

InodeIn(m, rec, dir) ==
  IF dir.rec = None THEN [rec |-> None, mem |-> [dir.mem EXCEPT !.notes = @ \cup {"links"}]]
  ELSE IF dir.rec.type # "folder" THEN [rec |-> None, mem |-> [dir.mem EXCEPT !.notes = @ \cup {"links"}]]
  ELSE ChildByName([dir.mem EXCEPT !.private = dir.rec.cnid], dir.rec.cnid, InodeName(rec.link))

ResolveHardLink(m, rec) ==
  IF m.private # 0 THEN ChildByName(m, m.private, InodeName(rec.link))
  ELSE InodeIn(m, rec, ChildByName(m, RootId, PrivateName))

(* A link's record with the forks of what it points at, where that exists. *)
Linked(rec, target) ==
  IF target.rec = None THEN [target EXCEPT !.rec = rec]
  ELSE [target EXCEPT !.rec = [rec EXCEPT !.data = target.rec.data, !.rsrc = target.rec.rsrc]]

NodeOf(rec, size) == [id |-> rec.cnid, dir |-> rec.type = "folder", size |-> size]

SizeWith(rec, attr) ==
  IF rec.type = "folder" THEN 0
  ELSE IF rec.data.size > 0 \/ attr = None THEN rec.data.size ELSE attr.data.size

SizeOf(rec) == SizeWith(rec, Attribute(rec.cnid))

(* One record of the group of a folder: listed, and cached; a cache that   *)
(* has grown past its bound is emptied first.                              *)
Cached(m, r) ==
  Remember(IF Cardinality(DOMAIN m.cache) > CacheMax THEN [m EXCEPT !.cache = <<>>] ELSE m, r)

WithEntry(out, e) ==
  [out |-> Append(out, NodeOf(e.rec, SizeOf(e.rec))),
   mem |-> Cached(IF e.rec.type = "folder" \/ e.rec.data.size > 0 THEN e.mem
                  ELSE AskedAttribute(e.mem, e.rec.cnid), e.rec)]

ListEntry(w, r) ==
  IF r.type \notin Entries THEN w
  ELSE WithEntry(w.out, IF r.link = 0 THEN [rec |-> r, mem |-> w.mem]
                        ELSE Linked(r, ResolveHardLink(w.mem, r)))

(* buildFolderThreadIndex: the folders whose thread names this parent, in  *)
(* the order of the nodes.                                                 *)
FolderThreads(parent) ==
  LET t == vol.catalog
      Of(r) == r.ok /\ r.type = "folderThread" /\ r.parent = parent
  IN  FlattenSeq([n \in DOMAIN t.nodes |-> IF IsLeaf(t, n) THEN SelectSeq(NodeAt(t, n).recs, Of) ELSE <<>>])

Ids(out) == {out[i].id : i \in DOMAIN out}

(* Folders that only a thread record still names.                          *)
WithLost(out, f) ==
  [out |-> IF f.rec = None THEN out
           ELSE IF f.rec.type # "folder" THEN out ELSE Append(out, NodeOf(f.rec, 0)),
   mem |-> f.mem]

ListLost(w, parent) ==
  LET Lost(v, t) ==
        IF t.lead = parent \/ t.lead \in Ids(w.out) THEN v
        ELSE WithLost(v.out, RecordByCnid(v.mem, t.lead))
  IN  FoldLeft(Lost, w, FolderThreads(parent))

-----------------------------------------------------------------------------
(* Calls.                                                                  *)

Root == [id |-> RootId, dir |-> TRUE, size |-> 0]

NoQuestions == [groups |-> {}, extents |-> {}, attributes |-> {}]

Empty == [cache |-> <<>>, private |-> 0, notes |-> {}, asked |-> NoQuestions]

(* A group whose leaves are chained in a circle, none with a key behind    *)
(* it, is collected for ever, and a search may not come out of a circle.   *)
Ended(m) ==
  /\ \A lead \in m.asked.groups : ~Visit(vol.catalog, lead).endless
  /\ \A key \in m.asked.extents : ~Cursor(vol.extents, key).endless
  /\ \A cnid \in m.asked.attributes : ~AttributeEndless(cnid)

Done(op, n, out, m) ==
  /\ task' = [op |-> IF Ended(m) THEN op ELSE "endless", node |-> n, out |-> out]
  /\ mem' = [m EXCEPT !.asked = NoQuestions]

MountNotes ==
  (IF ~vol.clean THEN {"unclean"} ELSE {}) \cup (IF ~vol.alternate THEN {"backup"} ELSE {})
  \cup ChainNotes(vol.catalog)

(* open, mount: the root's name is the first search of the catalog.        *)
Open ==
  /\ mounted = "no"
  /\ LET m == RecordByCnid(Empty, RootId).mem IN
     IF vol.header \in {"H+", "HX"} /\ vol.sane /\ TreeOk(vol.catalog)
     THEN /\ mounted' = "yes"
          /\ Done("mounted", Root, <<>>, [m EXCEPT !.notes = @ \cup MountNotes])
     ELSE mounted' = "failed" /\ UNCHANGED <<mem, task>>
  /\ UNCHANGED <<vol, known>>

Ready == mounted = "yes" /\ task.op # "endless"

Listed(n, w) ==
  /\ Done("listed", n, w.out, w.mem)
  /\ known' = known \cup Range(w.out)

ListDir(n) ==
  /\ Ready
  /\ Listed(n, ListLost(FoldLeft(ListEntry, [out |-> <<>>, mem |-> Asked(mem, n.id)],
                                 Group(vol.catalog, n.id)), n.id))
  /\ UNCHANGED <<vol, mounted>>

(* What decmpfsDecompress makes of a good attribute.                       *)
Unpacked(attr) == [k \in 1..attr.data.size |-> 1000 * attr.lead + k]

(* readFileStream: of a link, the target's record altogether.  An empty    *)
(* data fork may mean a compressed file.                                   *)
ContentWith(attr) == [sent |-> IF attr # None THEN Unpacked(attr) ELSE <<>>, notes |-> {}]

Sent(m, c) == [op |-> "read", sent |-> c.sent, mem |-> [m EXCEPT !.notes = @ \cup c.notes]]

Nothing(op, m) == [op |-> op, sent |-> <<>>, mem |-> m]

ReadRecord(f) ==
  IF f.rec = None THEN Nothing("unread", f.mem)
  ELSE IF f.rec.type = "folder" THEN Nothing("unread", f.mem)
  ELSE IF f.rec.data.size > 0 THEN Sent(AskedExtents(f.mem, f.rec.data, DataFork), StreamFork(f.rec.data))
  ELSE Sent(AskedAttribute(f.mem, f.rec.cnid), ContentWith(Attribute(f.rec.cnid)))

Answer(n, c) == Done(c.op, n, c.sent, c.mem)

Behind(own, target) == IF target.rec = None THEN [target EXCEPT !.rec = own] ELSE target

Followed(own) ==
  IF own.rec = None THEN own
  ELSE IF own.rec.link = 0 THEN own ELSE Behind(own.rec, ResolveHardLink(own.mem, own.rec))

ReadFile(n) ==
  /\ Ready
  /\ Answer(n, ReadRecord(Followed(RecordByCnid(mem, n.id))))
  /\ UNCHANGED <<vol, mounted, known>>

ForkAsked(m, rec, packed) ==
  IF rec.data.size > 0 THEN AskedExtents(m, rec.rsrc, RsrcFork)
  ELSE IF packed THEN AskedAttribute(m, rec.cnid)
  ELSE AskedExtents(AskedAttribute(m, rec.cnid), rec.rsrc, RsrcFork)

(* readResourceFork; of a compressed file it holds the contents.           *)
ForkOf(m, rec, packed) ==
  [op |-> "fork", sent |-> IF packed THEN <<>> ELSE ReadFork(rec.rsrc), mem |-> ForkAsked(m, rec, packed)]

ForkRead(f) ==
  IF f.rec = None THEN Nothing("fork", f.mem)
  ELSE IF f.rec.type = "folder" \/ f.rec.rsrc.size = 0 THEN Nothing("fork", f.mem)
  ELSE ForkOf(f.mem, f.rec, f.rec.data.size = 0 /\ Attribute(f.rec.cnid) # None)

ReadResource(n) ==
  /\ Ready
  /\ Answer(n, ForkRead(RecordByCnid(mem, n.id)))
  /\ UNCHANGED <<vol, mounted, known>>

(* statNode and fileTimes: a search that may cache what it finds.          *)
StatNode(n) ==
  /\ Ready
  /\ Done("stat", Root, <<>>, RecordByCnid(mem, n.id).mem)
  /\ UNCHANGED <<vol, mounted, known>>

Init ==
  /\ vol \in Volumes /\ mounted = "no" /\ mem = Empty /\ known = {Root}
  /\ task = [op |-> "none", node |-> Root, out |-> <<>>]

Next ==
  \/ Open
  \/ \E n \in known : (n.dir /\ ListDir(n)) \/ StatNode(n) \/ (~n.dir /\ (ReadFile(n) \/ ReadResource(n)))

Spec == Init /\ [][Next]_vars

-----------------------------------------------------------------------------
(* Properties.                                                             *)

(* The records of the leaves that read and are in order.                   *)
Survivors(t) ==
  LET Orderly(r) == \A i \in DOMAIN r : r[i].ok /\ \A j \in 1..i : r[j].lead <= r[i].lead
  IN  UNION {Range(NodeAt(t, n).recs) : n \in {m \in 1..(TotalNodes(t) - 1) : IsLeaf(t, m) /\ Orderly(t.nodes[m].recs)}}

Circular(t) ==
  \E C \in SUBSET (DOMAIN t.nodes) \ {{}} : \A n \in C : IsLeaf(t, n) /\ NodeAt(t, n).next \in C \ {n}

Children(p) == {r \in Survivors(vol.catalog) : r.type \in Entries /\ r.lead = p}

(* Two records of the child, or one that two leaves of a chain both hold.  *)
Doubled(p, id) ==
  LET t == vol.catalog
      Holds(n, r) == IsLeaf(t, n) /\ r \in Range(NodeAt(t, n).recs)
      own == {r \in Children(p) : r.cnid = id}
  IN  \/ Cardinality(own) > 1
      \/ \E r \in own, m \in DOMAIN t.nodes :
           Holds(m, r) /\ \E n \in Range(LeafChain(t, m)) \ {m} : Holds(n, r)

(* A listing shows every child whose record survives in some leaf, though  *)
(* no index leads to it and no chain; every folder that at least a thread  *)
(* record names as a child, for all below it would go too.  It shows each  *)
(* once, though several leaves hold its record: those off the chain add    *)
(* only what differs.  (What differs may be an old copy of the record with *)
(* another date or length, which is then shown beside the new one, as is a *)
(* record that two leaves of the chain hold.  Where a leaf still holds a   *)
(* thread of a folder that was replaced by another of its name, that other *)
(* one is shown twice.)  Only leaves that are chained in a circle keep a   *)
(* call from returning.                                                    *)
ListsEverything ==
  /\ task.op = "listed" =>
       LET p     == task.node.id
           out   == task.out
           own   == Children(p)
           named == {r \in Survivors(vol.catalog) : r.type = "folderThread" /\ r.parent = p /\ r.lead # p}
           stale == {r \in named : \E c \in own : c.name = r.name /\ c.cnid # r.lead}
       IN  /\ \A r \in own : r.cnid \in Ids(out)
           /\ \A r \in named \ stale : r.lead \in Ids(out)
           /\ stale = {} =>
                \A i \in DOMAIN out : \A j \in 1..(i - 1) : out[i].id = out[j].id => Doubled(p, out[i].id)
  /\ task.op = "endless" => \E t \in {vol.catalog, vol.extents, vol.attributes} : Circular(t)

OverflowOf(f) == {r \in Survivors(vol.extents) : r.lead = f.of /\ r.sub = DataFork}

(* Where block k of a fork is, by the records that say where they begin.   *)
Place(f, k) ==
  LET over == {r \in OverflowOf(f) : k > r.start /\ k <= r.start + Have(r.data.ext)}
      r    == CHOOSE x \in over : TRUE
  IN  IF k <= Have(f.ext) THEN Blocks(f.ext)[k]
      ELSE IF over = {} THEN Hole ELSE Blocks(r.data.ext)[k - r.start]

(* An extent record of the fork is lost, and one behind it is not.         *)
Gapped(f) ==
  \E r \in OverflowOf(f) :
    r.start > Have(f.ext) /\ \A x \in OverflowOf(f) : x.start + Have(x.data.ext) # r.start

Surviving(cnid) == {r \in Survivors(vol.catalog) : r.type = "file" /\ r.cnid = cnid}

(* The records under the name that a thread of this number has.            *)
Namesakes(cnid) ==
  LET threads == {t \in Survivors(vol.catalog) : t.type \in Threads /\ t.lead = cnid}
  IN  {r \in Survivors(vol.catalog) :
         r.type \in Entries /\ \E t \in threads : t.parent = r.lead /\ t.name = r.name}

Targets(r) ==
  {x \in Survivors(vol.catalog) :
     /\ x.type = "file" /\ x.name = InodeName(r.link)
     /\ \E d \in Children(RootId) : d.type = "folder" /\ d.name = PrivateName /\ d.cnid = x.lead}

(* The blocks a fork has, in their places; a block that does not read, and *)
(* what follows it in its extent, may be zeros, and so may what is in the  *)
(* overflow tree alone; either is told of.                                 *)
InPlace(f, out) ==
  /\ Len(out) = f.size
  /\ \A k \in DOMAIN out :
       \/ out[k] = Place(f, k)
       \/ out[k] = Hole /\ "sectors" \in mem.notes /\ \E j \in 1..k : Place(f, j) \in vol.bad
       \/ out[k] = Hole /\ "incomplete" \in mem.notes /\ k > Have(f.ext)
       \/ /\ Gapped(f) \/ Circular(vol.extents)
          /\ k > Have(f.ext)
          /\ out[k] \in {Hole} \cup UNION {Range(Blocks(r.data.ext)) : r \in OverflowOf(f)}

(* What was read is what this record stands for, behind a link its target. *)
StandsFor(own, out) ==
  \E at \in IF own.link = 0 THEN {own} ELSE IF Targets(own) = {} THEN {own} ELSE Targets(own) :
    LET packed == {a \in Survivors(vol.attributes) : a.lead = at.cnid /\ a.name = Decmpfs} IN
    IF at.data.size = 0 /\ packed # {} THEN \E a \in packed : out = Unpacked(a) ELSE InPlace(at.data, out)

(* A file that was listed is read in the length listed, each block from    *)
(* where its extents put it, in the record or in the overflow tree; a link *)
(* gives what it points at.  Blocks that do not read, or whose extents are *)
(* not found, are zeros in place, and told of.  It makes no difference     *)
(* whether the record is still cached, unless leaves hold several records: *)
(* of one file that has more than one, any of them is read (the last that  *)
(* was cached, or the first that is found), and a file is taken for        *)
(* another that bears its name in its folder (recordByCnid goes by the     *)
(* name and does not look at the number it finds).  Only a file whose      *)
(* thread record is lost, or whose name a folder bears, may not be found.  *)
(* (Of a link to a compressed file the listing does not know the length.   *)
(* Where a record of the overflow tree is lost, or its leaves are chained  *)
(* in a circle, the next one of the file that is met is taken for it.)     *)
ReadsAsListed ==
  LET n == task.node
      files == Surviving(n.id) \cup {r \in Namesakes(n.id) : r.type = "file"}
      alone == Cardinality(files) = 1 /\ \A r \in files : r.link = 0 IN
  /\ task.op = "unread" =>
       \/ ~\E r \in Survivors(vol.catalog) : r.type = "fileThread" /\ r.lead = n.id
       \/ \E r \in Namesakes(n.id) : r.type = "folder"
  /\ task.op = "read" /\ Surviving(n.id) # {} =>
       /\ \E own \in files : StandsFor(own, task.out)
       /\ alone => Len(task.out) = n.size

=============================================================================
