-------------------------- MODULE MCHfsPlusVolume --------------------------
(* Small damaged HFS+ volumes for TLC.                                     *)
EXTENDS HfsPlusVolume

Blank ==
  [ok |-> TRUE, lead |-> 0, sub |-> 0, start |-> 0, name |-> 0, child |-> 0, type |-> "other",
   cnid |-> 0, parent |-> 0, link |-> 0, data |-> NoFork, rsrc |-> NoFork]
Bad(r) == [r EXCEPT !.ok = FALSE]
Idx(lead, child) == [Blank EXCEPT !.type = "index", !.lead = lead, !.child = child]
DirRec(p, name, c) == [Blank EXCEPT !.type = "folder", !.lead = p, !.name = name, !.cnid = c]
FileRec(p, name, c, size, ext) ==
  [Blank EXCEPT !.type = "file", !.lead = p, !.name = name, !.cnid = c,
     !.data = [of |-> c, size |-> size, ext |-> ext], !.rsrc = [of |-> c, size |-> 1, ext |-> << <<c, 1>> >>]]
LinkRec(p, name, c, k) == [FileRec(p, name, c, 0, <<>>) EXCEPT !.link = k, !.rsrc = [NoFork EXCEPT !.of = c]]
DirThread(c, p, name) == [Blank EXCEPT !.type = "folderThread", !.lead = c, !.parent = p, !.name = name]
FileThread(c, p, name) == [DirThread(c, p, name) EXCEPT !.type = "fileThread"]
Over(c, sub, start, ext) ==
  [Blank EXCEPT !.type = "extents", !.lead = c, !.sub = sub, !.start = start, !.data.ext = ext]
Attr(c, name, size) == [Blank EXCEPT !.type = "inline", !.lead = c, !.name = name, !.data.size = size]

Leaf(next, recs) == [kind |-> "leaf", next |-> next, recs |-> recs]
Index(recs) == [kind |-> "index", next |-> 0, recs |-> recs]
Zeros == Index(<<>>)
Alien == [kind |-> "other", next |-> 3, recs |-> <<Blank>>]

T(root, first, nodes) == [sound |-> TRUE, root |-> root, first |-> first, count |-> Len(nodes) + 1, nodes |-> nodes]
Bare == T(1, 1, <<Leaf(0, <<>>)>>)
Vol(c, e, a) ==
  [header |-> "H+", sane |-> TRUE, clean |-> TRUE, alternate |-> TRUE, catalog |-> c, extents |-> e,
   attributes |-> a, bad |-> {}]

(* Root (2): folder 16, file 17; 16: folder 18; 18: file 20.               *)
Leaf2 == <<DirRec(1, 5, 2), DirThread(2, 1, 5), DirRec(2, 6, 16), FileRec(2, 7, 17, 2, << <<40, 2>> >>)>>
Leaf3 == <<DirThread(16, 2, 6), DirRec(16, 6, 18), FileThread(17, 2, 7)>>
Leaf4 == <<DirThread(18, 16, 6), FileRec(18, 7, 20, 1, << <<60, 1>> >>), FileThread(20, 18, 7)>>
Indexed == Index(<<Idx(1, 2), Idx(16, 3), Idx(18, 4)>>)

(* Each leaf chained anywhere but in a circle, and any node lost.          *)
Chains == {n \in [2..4 -> {0, 2, 3, 4}] : LET Leads(m) == IF m < 2 THEN 0 ELSE n[m]
                                  IN \A m \in 2..4 : Leads(m) # m => Leads(Leads(Leads(m))) \in {0, Leads(Leads(m))}}
TreeVolumes ==
  {Vol(T(1, 2, <<i, Leaf(n[2], Leaf2), IF x = 3 THEN Alien ELSE Leaf(n[3], Leaf3),
                 Leaf(n[4], Leaf4)>>), Bare, Bare) :
     i \in {Indexed}, n \in Chains, x \in {0, 3}}
  \cup {Vol(T(r, 2, <<Index(<<Idx(1, 1)>>), Leaf(3, Leaf2), Leaf(n, Leaf3), Leaf(0, Leaf4)>>), Bare, Bare) :
          r \in {1, 3}, n \in {0, 4}}
  \cup {Vol(T(1, 2, <<Index(<<Idx(1, 2), Bad(Idx(16, 3)), Idx(18, 2)>>), Leaf(3, Leaf2), Zeros, Leaf(n, Leaf4)>>), Bare, Bare) :
          n \in {0, 2}}

(* Two records damaged: unreadable, or something else.                     *)
Damaged(r, k) == IF k = 1 THEN Bad(r) ELSE [Blank EXCEPT !.lead = r.lead]
LostRecords ==
  {Vol(T(1, 2, <<Indexed, Leaf(3, [Leaf2 EXCEPT ![i] = Damaged(@, k)]), Leaf(4, [Leaf3 EXCEPT ![j] = Damaged(@, k)]),
                 Leaf(0, Leaf4)>>), Bare, Bare) : i \in 1..4, j \in 1..3, k \in 1..2}

(* A fragmented file, a resource fork, a link and its target, a compressed *)
(* file; overflow trees with lost nodes; sectors that do not read.         *)
Files(l, k) ==
  T(1, 1, <<Leaf(2, <<DirThread(2, 1, 5), FileRec(2, 7, 17, 4, << <<40, 2>> >>), FileRec(2, 9, 22, 0, <<>>),
                      DirRec(2, PrivateName, 30), LinkRec(2, 8, 21, k)>>),
            Leaf(3, <<FileThread(17, 2, 7), FileThread(21, 2, 8), FileThread(22, 2, 9), DirThread(30, 2, PrivateName)>>),
            Leaf(0, <<l, FileThread(31, 30, InodeName(1))>>)>>)
Inode == FileRec(30, InodeName(1), 31, 3, << <<70, 1>> >>)
Packed == FileRec(30, InodeName(1), 31, 0, <<>>)
OverflowTrees ==
  {T(1, 2, <<Index(<<Idx(1, a), Idx(18, 3)>>), Leaf(3, x), y>>) :
     a \in {2, 3},
     x \in {<<Over(17, DataFork, 2, << <<44, 1>> >>), Over(17, DataFork, 3, << <<42, 1>> >>)>>,
            <<Over(17, DataFork, 3, << <<42, 1>> >>)>>, <<Over(17, RsrcFork, 2, << <<42, 2>> >>)>>},
     y \in {Leaf(0, <<Over(31, DataFork, 1, << <<72, 2>> >>)>>), Zeros}}
Attrs == T(1, 1, <<Leaf(0, <<Attr(17, 2, 9), Attr(22, 2, 9), Attr(22, Decmpfs, 2), Attr(31, Decmpfs, 2)>>)>>)
FileVolumes ==
  {[Vol(Files(Inode, 1), e, Attrs) EXCEPT !.bad = {41, 72}] : e \in OverflowTrees} \cup
  {[Vol(Files(Inode, 1), e, Attrs) EXCEPT !.bad = {44}] :
     e \in {t \in OverflowTrees : Len(t.nodes[2].recs) = 2 /\ t.nodes[3].kind = "leaf"}} \cup
  {Vol(Files(f[1], f[2]), e, f[3]) :
     f \in {<<Inode, 1, Attrs>>, <<Inode, 2, Attrs>>, <<Packed, 1, Attrs>>, <<Packed, 1, Bare>>, <<Bad(Inode), 1, Attrs>>},
     e \in {t \in OverflowTrees : t.nodes[1].recs[1].child = 2 /\ t.nodes[3].kind = "leaf" /\ Len(t.nodes[2].recs) = 2}}

Unmountable ==
  {[Vol([Bare EXCEPT !.sound = s, !.root = r], Bare, Bare) EXCEPT !.header = h, !.clean = c, !.alternate = c] :
     s \in BOOLEAN, r \in {0, 1}, h \in {"H+", "HX", "BD"}, c \in BOOLEAN}

(* Leaves chained in circles.                                              *)
CircularVolumes ==
  {Vol(T(1, 2, <<Indexed, Leaf(3, Leaf2), Leaf(a, Leaf3), Leaf(b, Leaf4)>>), Bare, Bare) : a \in {2, 4}, b \in {0, 2, 3}}

(* Empty leaves in a circle, in each of the trees.                         *)
Looped(root, recs, a, b) == T(1, 2, <<root, Leaf(a, recs), Leaf(4, <<>>), Leaf(b, <<>>)>>)
Two == T(1, 1, <<Leaf(0, <<DirThread(2, 1, 5), FileRec(2, 7, 17, 4, << <<40, 2>> >>), FileRec(2, 9, 22, 0, <<>>),
                         FileThread(17, 2, 7), FileThread(22, 2, 9)>>)>>)
EmptyCircles ==
  {Vol(Looped(Index(<<Idx(1, 2)>>), Leaf2, a, b), Bare, Bare) : a \in {0, 3}, b \in {0, 2, 3}} \cup
  {Vol(Two, Looped(Index(<<Idx(17, 2)>>), <<Over(17, DataFork, 2, << <<44, 1>> >>)>>, 3, b), Attrs) :
     b \in {0, 2, 3}} \cup
  {Vol(Two, Bare, Looped(Index(<<Idx(22, 2)>>), <<Attr(22, 2, 9), Attr(22, k, 9)>>, 3, b)) :
     k \in {Decmpfs, 3}, b \in {0, 2, 3}}

(* A leaf, on the chain or off it, with what others have: the record of a  *)
(* file, an older one of it, or one of a file or a folder of its name.     *)
Copies ==
  {Vol(T(1, 2, <<Indexed, Leaf(a, Leaf2), Leaf(4, Leaf3), Leaf(0, Leaf4), Leaf(3, x)>>), Bare, Bare) :
     a \in {3, 5},
     x \in {<<FileRec(2, 7, 17, 2, << <<40, 2>> >>)>>, <<FileRec(2, 7, 17, 1, << <<42, 1>> >>)>>,
            <<FileRec(2, 7, 19, 1, << <<50, 1>> >>), FileThread(19, 2, 7)>>, <<DirRec(2, 7, 19), DirThread(19, 2, 7)>>,
            <<DirRec(2, 6, 16), DirRec(16, 6, 18), DirRec(16, 8, 18)>>}}
  \cup {Vol(T(1, 1, <<Leaf(2, <<DirThread(2, 1, 5), DirRec(2, 7, 19), FileRec(2, 7, 17, 2, << <<40, 2>> >>),
                               FileRec(2, 8, 18, 1, << <<60, 1>> >>)>>),
                     Leaf(0, <<FileThread(17, 2, 7), FileThread(18, 2, 8), DirThread(19, 2, 7)>>)>>), Bare, Bare)}

AllVolumes ==
  TreeVolumes \cup LostRecords \cup FileVolumes \cup Unmountable \cup CircularVolumes \cup EmptyCircles \cup Copies
=============================================================================
