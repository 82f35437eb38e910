---------------------------- MODULE MCExportWalk ----------------------------
(* Small instances of ExportWalk for TLC.                                  *)
EXTENDS ExportWalk, TLC

CONSTANTS d1, d2, f1, f2

MCDirs == {d1, d2}
MCFiles == {f1, f2}

(* A destination component is <<base, n, kind>>: "x", "x (2)", "._x", ...  *)
(* "x" and "x?" are names of the source that sanitizeName maps to the same *)
(* component; "._x" is a source file named like the sidecar of "x".        *)
MCName == {"A", "B", "x", "x?", "._x"}
MCDestName == {"A", "B", "x"} \X (0..3) \X {"data", "rsrc", "hash"}
MCSan(s) == CASE s = "x?" -> <<"x", 0, "data">>
              [] s = "._x" -> <<"x", 0, "rsrc">>
              [] OTHER -> <<s, 0, "data">>
MCSuffixed(c, n) == <<c[1], n, c[3]>>
MCRsrcName(c) == <<c[1], c[2], "rsrc">>
MCHashName(c) == <<c[1], c[2], "hash">>

E(name, node) == [name |-> name, node |-> node]

Vol(roots, l1, l2, ids, size, bad, rsrc) ==
  [roots |-> roots, list |-> (d1 :> l1 @@ d2 :> l2), ident |-> ids,
   size |-> (f1 :> size[1] @@ f2 :> size[2]), bad |-> bad, rsrc |-> rsrc]

Known == (d1 :> 1 @@ d2 :> 2)
Unknown == (d1 :> 0 @@ d2 :> 0)
HalfKnown == (d1 :> 0 @@ d2 :> 2)

(* Every directory graph of two directories with up to two entries each,   *)
(* loops and shared directories included, with identities that are known,  *)
(* unknown (0) or known for one of the two.                                *)
Entries == {E("A", d1), E("B", d2), E("x", f1)}
Listings == {<<>>} \cup {<<e>> : e \in Entries} \cup (Entries \X Entries)
LoopVolumes ==
  {Vol(<<E("A", d1)>>, l1, l2, ids, <<0, 1>>, {}, {}) :
     l1 \in Listings, l2 \in Listings, ids \in {Known, Unknown, HalfKnown}}

(* Two roots that land in the same destination folder, entries that meet   *)
(* on one name (two files, or a file and a folder as when one of them was  *)
(* deleted), unreadable files.                                             *)
FileVolumes(rsrcs) ==
  {Vol(<<E("A", d1), E("A", d2)>>, l1, l2, Known, <<2, 1>>, bad, rsrc) :
     l1 \in {<<E("x", f1), E("x?", f2)>>, <<E("x", f1), E("B", d2)>>,
             <<E("B", f1), E("B", d2)>>},
     l2 \in {<<E("x", f1)>>, <<E("._x", f2), E("x", f1)>>, <<E("x", f1), E("._x", f2)>>},
     bad \in {{}, {f1}}, rsrc \in rsrcs}
PlainVolumes == FileVolumes({{}})
MacVolumes == FileVolumes({{f1}})
WalkVolumes == LoopVolumes \cup PlainVolumes \cup MacVolumes

EmptyDestination == <<>> :> [DirObj EXCEPT !.mtime = Foreign]
ForeignFile == [Obj("data", Foreign, TRUE) EXCEPT !.mtime = Foreign]
InUse == EmptyDestination @@ (<<<<"A", 0, "data">>>> :> [DirObj EXCEPT !.mtime = Foreign])
           @@ (<<<<"A", 0, "data">>, <<"x", 0, "data">>>> :> ForeignFile)
NewDestination == {EmptyDestination}
BothDestinations == {EmptyDestination, InUse}

Opt(c, h, t) == [collision |-> c, hash |-> h, times |-> t]
RenameOrSkip == {Opt(c, FALSE, TRUE) : c \in {"rename", "skip"}}
AllPolicies == {Opt(c, FALSE, TRUE) : c \in {"rename", "overwrite", "skip"}}

DiskAndThrow == {"open", "write", "throw"}
AnyFault == {"open", "write", "close", "throw"}
=============================================================================
