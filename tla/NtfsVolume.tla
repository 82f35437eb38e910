------------------------------ MODULE NtfsVolume ------------------------------
(***************************************************************************)
(* The NTFS reader (src/fs/ntfs/ntfs.cpp): an MFT that lies in pieces,     *)
(* records whose attributes went on in other records, index blocks that    *)
(* are read a cluster at a time, sparse and fragmented files, sectors that *)
(* do not read.                                                            *)
(*                                                                         *)
(* The unit is an MFT record; data is counted in the same unit, and a      *)
(* unit's content is its address.  Cluster 0 is units 1..CS.  The reader   *)
(* keeps nothing but the map of the MFT, and a call is one step.  An index *)
(* block is as large as a cluster: the code reads and mends a cluster at a *)
(* time, and what it makes of smaller or larger blocks, or of one whose    *)
(* fix-up does not agree, is not modelled.                                 *)
(***************************************************************************)
EXTENDS Integers, Sequences, FiniteSets, SequencesExt

CONSTANTS
  Volumes,   \* the volumes considered: see Volume
  CS,        \* units per cluster, and per index block
  Hole       \* a unit of zeros

ASSUME SizeAssumption == CS \in Nat \ {0}

RootNo == 5      \* ROOT_RECNO

Entry == [id : Nat, dir : BOOLEAN, alias : BOOLEAN, size : Nat]

(* An entry of an attribute list: the record it names, and the units of    *)
(* the list in which it begins and in which it has that number.            *)
Ref == [no : Nat, head : Nat, tail : Nat]

(* An attribute.  A run begins at a cluster, or is a hole (-1); `value` is *)
(* the data that a resident one holds, `refs` what a list does.            *)
Attr == [type : {"list", "data", "root", "alloc", "other"}, named : BOOLEAN, resident : BOOLEAN, vcn : Nat,
         runs : Seq((Nat \cup {-1}) \X Nat), alloc : Nat, size : Nat, value : Seq(Nat), refs : Seq(Ref), entries : Seq(Entry)]

(* `whole` that a record's fix-up agrees; `used` the units the entries of  *)
(* an index block take, each with its own; `live` that the index's bitmap  *)
(* has the block, which nothing here reads.                                *)
Unit == [tag : {"FILE", "INDX", "data"}, whole : BOOLEAN, attrs : Seq(Attr), entries : Seq(Entry),
         used : Nat, live : BOOLEAN]

Volume == [boot : {"NTFS", "other", "broken"}, mft : Nat, unit : Seq(Unit), bad : SUBSET Nat]

ASSUME VolumeAssumption == \A v \in Volumes : v \in Volume

VARIABLES
  vol,      \* the volume, fixed
  mft,      \* mftExtents_, as units; <<>> before the volume is mounted
  known,    \* nodes some listing returned
  task      \* the last call's result

vars == <<vol, mft, known, task>>

Least(a, b) == IF a < b THEN a ELSE b

-----------------------------------------------------------------------------
(* Records and attributes.                                                 *)

Readable(u) == u \in DOMAIN vol.unit /\ u \notin vol.bad

(* decodeRuns: the runs, up to the allocated size where there is one.      *)
DecodeRuns(runs, alloc) ==
  LET Take(s, r) ==
        IF alloc > 0 /\ s.produced >= alloc THEN s
        ELSE [produced |-> s.produced + r[2], out |-> Append(s.out, r)]
  IN  FoldLeft(Take, [produced |-> 0, out |-> <<>>], runs).out

(* The units of a list of runs, one after the other.                       *)
UnitsOf(runs) ==
  FlattenSeq([i \in DOMAIN runs |->
    [k \in 1..(runs[i][2] * CS) |-> IF runs[i][1] = -1 THEN Hole ELSE runs[i][1] * CS + k]])

NoRecord == <<>>

(* readMftRecord, through the map of the MFT.                              *)
ReadMftRecord(map, no) ==
  IF no + 1 \notin DOMAIN map THEN NoRecord
  ELSE IF map[no + 1] = Hole THEN NoRecord
  ELSE IF ~Readable(map[no + 1]) THEN NoRecord
  ELSE LET u == vol.unit[map[no + 1]] IN IF u.tag = "FILE" /\ u.whole THEN u.attrs ELSE NoRecord

(* The records that the value of an attribute list names (attrValue); what *)
(* does not read is zeros, at which the list ends.  Of an entry that lies  *)
(* across, the number is then zero.                                        *)
ListOf(a) ==
  LET us   == UnitsOf(DecodeRuns(a.runs, a.alloc))
      lost == {i \in DOMAIN us : us[i] = Hole \/ ~Readable(us[i])}
      Came(i) == a.resident \/ (i \in DOMAIN us /\ \A k \in lost : i < k)
  IN  {IF Came(r.tail) THEN r.no ELSE 0 : r \in {x \in Range(a.refs) : Came(x.head)}}

IsList(a) == a.type = "list"

NotList(a) == ~IsList(a)

(* Mutant: only the record's own attributes.                               *)
CollectAttributes_own(rec, no) == SelectSeq(rec, NotList)

(* collectAttributes: the record's own, then those of the records its list *)
(* names, by their numbers.                                                *)
CollectAttributes(rec, no) ==
  LET lists == SelectSeq(rec, IsList)
      refs  == IF lists = <<>> THEN {} ELSE ListOf(Last(lists)) \ {no}
      Pull(out, r) == out \o SelectSeq(ReadMftRecord(mft, r), NotList)
  IN  FoldLeft(Pull, SelectSeq(rec, NotList), SetToSortSeq(refs, <))

-----------------------------------------------------------------------------
(* Calls.                                                                  *)

Root == [id |-> RootNo, dir |-> TRUE, size |-> 0]

(* open: the MFT is where the boot sector says, and then where its own     *)
(* first record says.                                                      *)
Open ==
  /\ mft = <<>> /\ task.op = "none" /\ vol.boot = "NTFS"
  /\ LET start == [k \in 1..(Len(vol.unit) - vol.mft * CS) |-> vol.mft * CS + k]
         Stream(a) == a.type = "data" /\ ~a.named /\ ~a.resident
         data  == SelectSeq(ReadMftRecord(start, 0), Stream)
         own   == IF data = <<>> THEN <<>> ELSE UnitsOf(DecodeRuns(data[1].runs, data[1].alloc))
     IN  mft' = IF own = <<>> THEN start ELSE own
  /\ task' = [task EXCEPT !.op = "mounted"]
  /\ UNCHANGED <<vol, known>>

Mounted == task.op # "none"

(* A name in the 8.3 name space is not listed.                             *)
Listable(e) == ~e.alias

(* The entries of the index block at u, read with the rest of its cluster: *)
(* none when they do not all lie in there, and up to what does not read.   *)
BlockEntries(u) ==
  LET b == vol.unit[u]
      torn == {k \in 0..(b.used - 1) : ~Readable(u + k)}
      n == IF torn = {} THEN b.used ELSE CHOOSE k \in torn : \A j \in torn : k <= j
  IN  IF ~Readable(u) \/ b.tag # "INDX" \/ b.used > CS THEN <<>>
      ELSE FlattenSeq([k \in 1..n |-> vol.unit[u + k - 1].entries])

(* Every key is in one node of the index, so all nodes are scanned: the    *)
(* root, and a block at the beginning of each cluster.                     *)
Children(attrs) ==
  LET Of(a, type) ==
        IF a.type # type THEN <<>>
        ELSE IF type = "root" THEN a.entries
        ELSE IF a.resident THEN <<>>
        ELSE LET rs == DecodeRuns(a.runs, a.alloc) IN
             FlattenSeq([i \in DOMAIN rs |-> IF rs[i][1] = -1 THEN <<>>
               ELSE FlattenSeq([c \in 1..rs[i][2] |-> BlockEntries((rs[i][1] + c - 1) * CS + 1)])])
      All(type) == FlattenSeq([i \in DOMAIN attrs |-> Of(attrs[i], type)])
  IN  SelectSeq(All("root") \o All("alloc"), Listable)

ListDir(n) ==
  /\ Mounted
  /\ LET rec == ReadMftRecord(mft, n.id)
         out == IF rec = NoRecord THEN <<>> ELSE Children(CollectAttributes(rec, n.id))
         nodes == [i \in DOMAIN out |-> [id |-> out[i].id, dir |-> out[i].dir, size |-> out[i].size]]
     IN  /\ task' = [op |-> "listed", node |-> n, out |-> nodes]
         /\ known' = known \cup Range(nodes)
  /\ UNCHANGED <<vol, mft>>

IsStream(a) == a.type = "data" /\ ~a.named

(* Mutant: the pieces are taken in the order of the records they are in.   *)
Pieces_asFound(attrs) ==
  LET Away(a) == IsStream(a) /\ ~a.resident IN SelectSeq(attrs, Away)

(* The pieces of the stream, by where in the file they begin.              *)
Pieces(attrs) ==
  LET Away(a) == IsStream(a) /\ ~a.resident
      Before(a, b) == a.vcn < b.vcn
  IN  SortSeq(SelectSeq(attrs, Away), Before)

(* One run: holes whole, the rest up to what does not read.                *)
StreamRun(sent, size, r) ==
  LET us   == UnitsOf(<<r>>)
      want == IF size > 0 THEN Least(Len(us), size - Len(sent)) ELSE Len(us)
      torn == {k \in 1..want : us[k] # Hole /\ ~Readable(us[k])}
      n    == IF torn = {} THEN want ELSE (CHOOSE k \in torn : \A j \in torn : k <= j) - 1
  IN  IF size > 0 /\ Len(sent) >= size THEN sent ELSE sent \o SubSeq(us, 1, n)

Content(attrs) ==
  LET Inline(a) == IsStream(a) /\ a.resident
      inl  == SelectSeq(attrs, Inline)
      ps   == Pieces(attrs)
      head == {i \in DOMAIN ps : ps[i].vcn = 0}
      size == IF head = {} THEN 0 ELSE ps[CHOOSE i \in head : \A j \in head : j <= i].size
      Piece(sent, p) ==
        LET Run(s, r) == StreamRun(s, size, r) IN FoldLeft(Run, sent, DecodeRuns(p.runs, p.alloc))
  IN  IF inl # <<>> THEN inl[1].value ELSE FoldLeft(Piece, <<>>, ps)

(* readFileStream: a record that is not found is an empty file.            *)
ReadFileStream(n) ==
  /\ Mounted
  /\ LET rec == ReadMftRecord(mft, n.id)
     IN  task' = [op |-> "read", node |-> n,
                  out |-> IF rec = NoRecord THEN <<>> ELSE Content(CollectAttributes(rec, n.id))]
  /\ UNCHANGED <<vol, mft, known>>

Init ==
  /\ vol \in Volumes /\ mft = <<>> /\ known = {Root}
  /\ task = [op |-> "none", node |-> Root, out |-> <<>>]

Next == Open \/ \E n \in known : (n.dir /\ ListDir(n)) \/ (~n.dir /\ ReadFileStream(n))

Spec == Init /\ [][Next]_vars

-----------------------------------------------------------------------------
(* Properties.                                                             *)

(* Record `no`, as the MFT's own runs place it.                            *)
Placed(no) ==
  LET zero == vol.unit[vol.mft * CS + 1].attrs
      us   == UnitsOf(zero[CHOOSE i \in DOMAIN zero : zero[i].type = "data"].runs)
  IN  us[no + 1]

(* All attributes of a record: its own, and those of the records its list  *)
(* names.                                                                  *)
AllAttrs(no) ==
  LET own  == vol.unit[Placed(no)].attrs
      more == {r.no : r \in UNION {Range(own[i].refs) : i \in DOMAIN own}}
  IN  UNION {Range(vol.unit[Placed(r)].attrs) : r \in more \cup {no}}

(* The units of a file by their place in it: those of run i of a piece     *)
(* begin where the piece begins and the runs in front of it end.           *)
UnitAt(no, k) ==
  LET ps == {a \in AllAttrs(no) : a.type = "data" /\ ~a.named}
      p  == CHOOSE a \in ps : a.vcn * CS < k /\ \A b \in ps : b.vcn * CS < k => b.vcn <= a.vcn
      us == UnitsOf(p.runs)
  IN  us[k - p.vcn * CS]

Intact ==
  /\ vol.bad = {} /\ vol.unit[vol.mft * CS + 1].tag = "FILE"
  /\ \A u \in DOMAIN vol.unit : vol.unit[u].tag = "FILE" => vol.unit[u].whole

(* An entry of the record's list lies across two units of which the second *)
(* does not read.                                                          *)
Halved(no) ==
  \E a \in Range(vol.unit[Placed(no)].attrs) : \E r \in Range(a.refs) :
    a.runs # <<>> /\ r.head < r.tail /\ UnitsOf(a.runs)[r.tail] \in vol.bad

(* A file is delivered as its pieces say: each at its place in the file,   *)
(* whatever records they are described in and in whatever order, in the    *)
(* length of the first piece, holes as zeros.  Of a damaged one, nothing   *)
(* that is not in its own clusters is delivered.  (Where an entry of its   *)
(* attribute list lies across the point at which the list stopped reading, *)
(* its number reads as 0: the pieces of the MFT are then taken for pieces  *)
(* of the file.)                                                           *)
ReadsItsPieces ==
  task.op = "read" =>
    LET ps == {a \in AllAttrs(task.node.id) : a.type = "data" /\ ~a.named}
        in == {a \in ps : a.resident}
    IN  IF in # {} THEN Intact => \E a \in in : task.out = a.value
        ELSE /\ Intact => /\ \A a \in ps : a.vcn = 0 => Len(task.out) = a.size
                          /\ \A k \in DOMAIN task.out : task.out[k] = UnitAt(task.node.id, k)
             /\ \A k \in DOMAIN task.out :
                  \E a \in ps \cup (IF Halved(task.node.id) THEN AllAttrs(0) ELSE {}) :
                    task.out[k] \in Range(UnitsOf(a.runs))

(* The keys of a directory, in the root and in the blocks of the index     *)
(* that its bitmap has; and what the blocks it has not still hold.         *)
BlocksOf(no, live) ==
  LET us == UNION {Range(UnitsOf(a.runs)) : a \in {x \in AllAttrs(no) : x.type = "alloc"}}
  IN  {u \in us \ {Hole} : vol.unit[u].tag = "INDX" /\ vol.unit[u].live = live}

EntriesIn(blocks) ==
  UNION {UNION {Range(vol.unit[u + k].entries) : k \in 0..(Least(vol.unit[u].used, CS) - 1)} : u \in blocks}

Keys(no) == EntriesIn(BlocksOf(no, TRUE)) \cup UNION {Range(a.entries) : a \in AllAttrs(no)}

Names(entries) == {e.id : e \in {x \in entries : ~x.alias}}

(* "Each directory key lives in exactly one node across the whole B-tree,  *)
(* so scanning them all and taking the real entries yields every child     *)
(* once": of an intact directory all entries but the aliases are listed,   *)
(* each once, and nothing else is, as far as its blocks are in use.  The   *)
(* code does not look at the index's bitmap and scans the blocks that were *)
(* given back too: what they still hold, be it files long gone or keys     *)
(* that moved to another node, is listed beside the rest, and only that.   *)
EveryChildOnce ==
  task.op = "listed" /\ Intact =>
    LET out   == task.out
        keys  == Names(Keys(task.node.id))
        freed == Names(EntriesIn(BlocksOf(task.node.id, FALSE)))
        ids   == {out[i].id : i \in DOMAIN out}
    IN  /\ keys \subseteq ids /\ ids \subseteq keys \cup freed
        /\ \A i \in DOMAIN out : \A j \in 1..(i - 1) : out[i].id = out[j].id => out[i].id \in freed
=============================================================================
