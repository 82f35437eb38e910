--------------------------- MODULE MCCommandLine ---------------------------
(* Small instances of CommandLine: two directories, two files.             *)
EXTENDS CommandLine, TLC

CONSTANTS d1, d2, f1, f2

MCDirs == {d1, d2}
MCFiles == {f1, f2}
(* "x?" is a text the sanitizer turns into "x".                            *)
MCSan == "x" :> "x" @@ "x?" :> "x" @@ "y" :> "y"
X == Plain("x")
Y == Plain("y")
MCNeedles == {Y}

E(name, node) == [name |-> name, node |-> node, deleted |-> FALSE]
Gone(name, node) == [E(name, node) EXCEPT !.deleted = TRUE]
Sidecar(name) == [name EXCEPT !.side = TRUE]

Vol(l1, l2, ids, size, given) ==
  [root |-> d1, list |-> (d1 :> l1 @@ d2 :> l2), ident |-> ids,
   size |-> (f1 :> size[1] @@ f2 :> size[2]), given |-> (f1 :> given[1] @@ f2 :> given[2]),
   torn |-> {}, known |-> {}, rsrc |-> {}, lines |-> <<>>]

Numbers == (d1 :> 1 @@ d2 :> 2)
HalfKnown == (d1 :> 0 @@ d2 :> 2)

SeqsTo3(S) == {<<>>} \cup {<<a>> : a \in S} \cup (S \X S) \cup (S \X S \X S)

Empty == <<>> :> DirObj
InUse == Empty @@ (<<X>> :> Data(Foreign, 1, FALSE)) @@ (<<Y>> :> DirObj)

(* Names that meet: two live ones, a deleted and a live one, one that      *)
(* already looks numbered or marked, a folder and a file, a sidecar.       *)
Colliding == {E(X, f1), E(Plain("x?"), f2), Gone(X, f2), E(X, d2),
              E(InsertBeforeExt(X, 2), f1), E(InsertBeforeExt(X, DeletedMark), f2)}
Second == {<<>>, <<E(X, f1), E(X, f2)>>, <<E(Y, d1)>>, <<E(Sidecar(X), f2), E(X, f1)>>}
Exports ==
  {[cmd |-> "export", files |-> TRUE, dest |-> d,
    vol |-> [Vol(l1, l2, Numbers, <<1, 1>>, <<1, 1>>) EXCEPT !.torn = t, !.rsrc = {f1}]] :
     l1 \in SeqsTo3(Colliding), l2 \in Second, t \in {{}, {f2}}, d \in {Empty, InUse}}

(* Every graph of the two directories with up to three entries in the      *)
(* first, loops with and without identities included.                      *)
Graph == {E(X, d1), E(X, d2), E(Y, d2), E(X, f1), E(Y, f1)}
Reports ==
  {[cmd |-> c, files |-> w, dest |-> Empty, vol |-> Vol(l1, l2, ids, <<1, 1>>, <<1, 1>>)] :
     c \in {"tree", "find"}, w \in BOOLEAN, l1 \in SeqsTo3(Graph),
     l2 \in {<<>>, <<E(Y, f2)>>, <<E(Y, d1), E(X, f1)>>}, ids \in {Numbers, HalfKnown}}

(* Lists of two or three lines; f1 has `size` in the catalog and gives     *)
(* `given`, f2 is not resolved by statNode.                                *)
Paths == {<<X>>, <<Y>>, <<X, Y>>, <<Y, X>>, <<Sidecar(X)>>}
Line(f, p) == [node |-> f, path |-> p]
ListsOf(f) == {<<Line(f1, p), Line(f, q)>> : p \in Paths, q \in Paths}
                \cup {<<Line(f1, p), Line(f, q), Line(f1, r)>> : p \in Paths, q \in Paths, r \in Paths}
Lists ==
  {[cmd |-> "list", files |-> w, dest |-> d,
    vol |-> [Vol(<<>>, <<>>, Numbers, <<n, 2>>, <<m, k>>) EXCEPT
               !.known = {f1}, !.rsrc = {f1}, !.torn = t, !.lines = l]] :
     w \in BOOLEAN, d \in {InUse}, n \in {0, 2}, m \in 0..2, k \in {0, 1},
     t \in {{}, {f2}}, l \in ListsOf(f2)}

AllScenarios == Exports \cup Reports \cup Lists
=============================================================================
