--------------------------- MODULE MCExportSession ---------------------------
(* Small instances of ExportSession: the volumes of MCExportWalk.          *)
EXTENDS MCExportWalk, ExportSession

(* A loop, a shared folder, an unreadable file, an empty one and two roots.*)
SessionVolumes ==
  {Vol(<<E("A", d1), E("B", d2)>>, <<E("B", d2), E("x", f1)>>, l2, Known, <<2, size>>, bad, {}) :
     l2 \in {<<>>, <<E("A", d1)>>, <<E("x", f1), E("x?", f2)>>}, bad \in {{}, {f2}}, size \in 0..1}
AllVolumes == SessionVolumes \cup PlainVolumes

=============================================================================
