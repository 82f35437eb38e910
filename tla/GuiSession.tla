----------------------------- MODULE GuiSession -----------------------------
(***************************************************************************)
(* The main window between two exports (src/gui/main_window.cpp): opening a*)
(* source on a worker thread behind a modal dialog, unlocking an encrypted *)
(* volume in place, the tree that is filled when a row is expanded, its    *)
(* check boxes, and what is handed to the export.                          *)
(*                                                                         *)
(* A row is <<volume, node, kind>>: node 0 is the row of the volume, kind  *)
(* "stub" the row of text ("...", "(empty)") below a node.  The ids of the *)
(* nodes of a filesystem are its positions, parents before children.       *)
(***************************************************************************)
EXTENDS Integers, Sequences, FiniteSets, SequencesExt

CONSTANTS
  Sources,   \* what the user may open: see Source
  NoFs,      \* no reader of detectFilesystem accepts the volume
  NoSource   \* nothing is open

(* A directory entry; `gone` when its own in-use mark is cleared.          *)
FileEntry == [up : Nat, dir : BOOLEAN, gone : BOOLEAN]

(* A volume of scanPartitions: the label detectFilesystemName gives it, the *)
(* filesystem found in it, and for an encrypted one the filesystem inside  *)
(* and whether the cipher is among the supported.                          *)
Volume == [label : {"fs", "stub", "unknown", "bitlocker", "filevault", "coreplain"},
           fs : Seq(FileEntry) \cup {NoFs}, inner : Seq(FileEntry) \cup {NoFs},
           cipher : BOOLEAN]

(* `opens`: the files or drives can be opened.  `sound`: the cache could   *)
(* be merged, the drives assembled, the chosen geometry verified.  `alone` *)
(* is what a set shows when it is not.                                     *)
Source == [kind : {"image", "optane", "raid", "raidByHand"}, opens : BOOLEAN,
           sound : BOOLEAN, throws : BOOLEAN,
           vols : Seq(Volume), alone : Seq(Volume)]

ASSUME SourcesAssumption ==
  \A s \in Sources : s \in Source /\ \A v \in Range(s.vols) \cup Range(s.alone) :
    \A f \in {v.fs, v.inner} \ {NoFs} :
      \A n \in DOMAIN f : f[n].up < n /\ (f[n].up > 0 => f[f[n].up].dir)

VARIABLES
  busy,      \* the worker thread, what it has written, the modal dialog before it
  image,     \* image_: the source whose volumes are shown
  volumes,   \* volumes_: the source behind each volume row
  mounts,    \* mounts_: filesystems mounted so far
  rows,      \* the rows of the tree
  check,     \* their check boxes
  preview,   \* the file in the hex view
  wanted     \* history: the files the user has ticked, in rows shown or not

vars == <<busy, image, volumes, mounts, rows, check, preview, wanted>>

tree == <<volumes, mounts, rows, check, preview>>

Idle == [op |-> "idle", dialog |-> FALSE, done |-> FALSE]
NoResult == [error |-> FALSE, source |-> NoSource, vols |-> <<>>]

-----------------------------------------------------------------------------
(* Opening.                                                                *)

(* prepareVolumes: what each volume row will be.  With a key (the Optane   *)
(* dialog asks for one) a BitLocker volume is unlocked on the way.         *)
Prepared(vols, key) ==
  [i \in DOMAIN vols |->
    LET v == vols[i] IN
    CASE v.label # "bitlocker" \/ key = "none" -> [state |-> v.label, fs |-> v.fs]
      [] v.label = "bitlocker" /\ key # "none" /\ ~v.cipher -> [state |-> "nocipher", fs |-> v.fs]
      [] v.label = "bitlocker" /\ key = "right" /\ v.cipher -> [state |-> "unlocked", fs |-> v.inner]
      [] OTHER -> [state |-> "bitlocker", fs |-> v.fs]]

(* An Optane pair that cannot be merged is the QLC image alone; drives that *)
(* cannot be assembled are an error; a geometry that does not verify is    *)
(* opened all the same.                                                    *)
Produced(s, key) ==
  IF s.kind = "raid" /\ ~s.sound THEN [NoResult EXCEPT !.error = TRUE]
  ELSE [error |-> FALSE, source |-> s,
        vols |-> Prepared(IF s.sound THEN s.vols ELSE s.alone, key)]

(* loadImage, loadOptaneSet, openRaidDevices, then runOpen.                *)
Open(s, key) ==
  /\ busy.op = "idle" /\ s.opens
  /\ key # "none" => s.kind = "optane"
  /\ busy' = [op |-> "open", dialog |-> TRUE, done |-> FALSE, source |-> s, key |-> key,
              opened |-> NoResult]
  /\ UNCHANGED <<image, tree, wanted>>

(* Mutant: the producer says itself that it is done, and leaves early when *)
(* it fails.                                                               *)
ProducedAndDone_early ==
  LET r == Produced(busy.source, busy.key)
  IN  [busy EXCEPT !.opened = r, !.done = ~r.error]

(* openedSource_, openedVols_, openError_ and then openDone_.              *)
ProducedAndDone ==
  [busy EXCEPT !.opened = Produced(busy.source, busy.key), !.done = TRUE]

OpenWorker ==
  /\ busy.op = "open" /\ ~busy.done /\ ~busy.source.throws
  /\ busy' = ProducedAndDone
  /\ UNCHANGED <<image, tree, wanted>>

(* Nothing catches an exception of the producer: std::terminate.           *)
OpenThrows ==
  /\ busy.op = "open" /\ ~busy.done /\ busy.source.throws
  /\ busy' = [Idle EXCEPT !.op = "terminated"]
  /\ UNCHANGED <<image, tree, wanted>>

(* The timer closes the dialog once the worker is done; Escape closes it   *)
(* at any time.                                                            *)
TimerCloses ==
  /\ busy.op # "export" /\ busy.dialog /\ busy.done
  /\ busy' = [busy EXCEPT !.dialog = FALSE]
  /\ UNCHANGED <<image, tree, wanted>>

EscapeCloses ==
  /\ busy.op # "export" /\ busy.dialog
  /\ busy' = [busy EXCEPT !.dialog = FALSE]
  /\ UNCHANGED <<image, tree, wanted>>

Row(up, stub, loaded, deleted, state) ==
  [up |-> up, stub |-> stub, loaded |-> loaded, deleted |-> deleted, state |-> state]

Stub(text, n) == Row(n, text, FALSE, FALSE, "")

VolumeRow(p) == <<p, 0, "node">>
StubRow(p, n) == <<p, n, "stub">>

(* Mutant: any label but the unreadable ones gets its arrow.               *)
Browsable_anyLabel(state) == state \notin {"stub", "unknown"}

(* A row gets its arrow only if detectFilesystem can mount it.             *)
Browsable(state) == state \in {"fs", "unlocked"}

(* Mutant: mounts of the image before stay.                                *)
KeptMounts_stale == mounts

KeptMounts == <<>>

Fresh(vs) ==
  LET parts == DOMAIN vs
      keys  == {VolumeRow(p) : p \in parts} \cup
               {StubRow(p, 0) : p \in {q \in parts : Browsable(vs[q].state)}}
  IN  [k \in keys |-> IF k[3] = "stub" THEN Stub("...", 0)
                      ELSE Row(-1, "", FALSE, FALSE, vs[k[1]].state)]

(* buildTree.                                                              *)
BuildTree(r) ==
  /\ image' = r.source
  /\ volumes' = [p \in DOMAIN r.vols |-> r.vols[p].fs]
  /\ mounts' = KeptMounts
  /\ rows' = Fresh(r.vols)
  /\ check' = [k \in DOMAIN rows' |-> "none"]
  /\ preview' = <<>>
  /\ wanted' = {}

(* exec() has returned and worker.join() too.                              *)
Joined == ~busy.dialog /\ busy.done

(* After an error the tree of before stays.                                *)
OpenEnds ==
  /\ busy.op = "open" /\ Joined
  /\ busy' = Idle
  /\ IF busy.opened.error THEN UNCHANGED <<image, tree, wanted>> ELSE BuildTree(busy.opened)

-----------------------------------------------------------------------------
(* The tree and its check boxes.                                           *)

(* The nodes above each node of volume p.                                  *)
Above(rs, p) ==
  LET up[n \in {k[2] : k \in {j \in DOMAIN rs : j[1] = p}}] ==
        IF n = 0 THEN {} ELSE LET u == rs[<<p, n, "node">>].up IN {u} \cup up[u]
  IN  up

(* The nodes above row k, a stub's own among them.                         *)
Parents(rs, k) ==
  Above(rs, k[1])[k[2]] \cup (IF k[3] = "stub" THEN {k[2]} ELSE {})

Children(rs, k) == {j \in DOMAIN rs : j[1] = k[1] /\ j # k /\ k[3] = "node" /\ rs[j].up = k[2]}

Tick(state) == IF state = "checked" THEN "checked" ELSE IF state = "partly" THEN "partly" ELSE "unchecked"

(* What the check boxes of its children make of a folder's.                *)
Summary(states) ==
  IF states = {"checked"} THEN "checked"
  ELSE IF states = {"unchecked"} THEN "unchecked" ELSE "partly"

(* Qt makes every row checkable unless told otherwise, stubs and volumes   *)
(* too: onItemChanged spares none of them.                                 *)
ApplyDown(chk, rs, k) ==
  [j \in DOMAIN chk |->
     IF j[1] = k[1] /\ k[3] = "node" /\ k[2] \in Parents(rs, j) THEN Tick(chk[k]) ELSE chk[j]]

(* From the row up, each folder is what its children make of it.           *)
ApplyUp(chk, rs, k) ==
  LET above == Parents(rs, k)
      Passed(j) == j[1] = k[1] /\ j[3] = "node" /\ j[2] \in above
      sum[n \in above] ==
        Summary({Tick(IF Passed(j) THEN sum[j[2]] ELSE chk[j]) : j \in Children(rs, <<k[1], n, "node">>)})
  IN  [j \in DOMAIN chk |-> IF Passed(j) THEN sum[j[2]] ELSE chk[j]]

(* onItemChanged: also called when anything else of the row changes.       *)
ItemChanged(chk, rs, k) ==
  IF chk[k] = "partly" THEN chk ELSE ApplyUp(ApplyDown(chk, rs, k), rs, k)

FilesBelow(fs, n) ==
  LET path[m \in 0..Len(fs)] == {m} \cup (IF m = 0 THEN {} ELSE path[fs[m].up])
  IN  {m \in DOMAIN fs : ~fs[m].dir /\ n \in path[m]}

(* A click on a check box that is there.                                   *)
Toggle(k) ==
  LET on == check[k] # "checked" IN
  /\ busy.op = "idle" /\ check[k] # "none" /\ rows[k].stub # "..."
  /\ check' = ItemChanged([check EXCEPT ![k] = IF on THEN "checked" ELSE "unchecked"], rows, k)
  /\ LET files == {<<k[1], m>> : m \in FilesBelow(mounts[k[1]], k[2])}
     IN  wanted' = IF on THEN wanted \cup files ELSE wanted \ files
  /\ UNCHANGED <<busy, image, volumes, mounts, rows, preview>>

(* A function of one point, and one function extended by another.          *)
Only(x, value) == [y \in {x} |-> value]
Joint(f, g) == [x \in DOMAIN f \cup DOMAIN g |-> IF x \in DOMAIN f THEN f[x] ELSE g[x]]

(* mountFor: mounted once, from the source the volume has then; NoFs is    *)
(* kept too.                                                               *)
Mounted(p) == IF p \in DOMAIN mounts THEN mounts ELSE Joint(mounts, Only(p, volumes[p]))

(* listDir as FAT and exFAT answer it: what is below a deleted folder is   *)
(* deleted, and a folder is deleted if its own entry or the caller says so. *)
ListDir(fs, n, isDeleted) ==
  LET gone == isDeleted \/ (n > 0 /\ fs[n].gone)
  IN  [m \in {i \in DOMAIN fs : fs[i].up = n} |-> fs[m].gone \/ gone]

(* Mutant: what is revealed below a ticked folder comes unticked.          *)
Inherited_none(state) == "unchecked"

Inherited(state) == IF state = "checked" THEN "checked" ELSE "unchecked"

(* The rows below row k once filled: makeNode for each entry, a stub "..." *)
(* below each folder.  The FsNode that is listed is rebuilt from the id.   *)
Filled(fs, p, n) ==
  LET found   == ListDir(fs, n, FALSE)
      folders == {m \in DOMAIN found : fs[m].dir}
  IN  IF found = <<>> THEN Only(StubRow(p, n), Stub("(empty)", n))
      ELSE Joint([k \in {<<p, m, "node">> : m \in DOMAIN found} |->
                    Row(n, "", FALSE, found[k[2]], IF fs[k[2]].dir THEN "dir" ELSE "file")],
                 [k \in {StubRow(p, m) : m \in folders} |-> Stub("...", k[2])])

(* onItemExpanded, populateChildren.  Setting the "loaded" mark is itself a *)
(* change of the row, with the stub still there.                           *)
Expand(k) ==
  LET p == k[1]
      n == k[2]
      touched == ItemChanged(check, rows, k)
      kept == [j \in DOMAIN rows \ {StubRow(p, n)} |-> rows[j]]
      new == IF Mounted(p)[p] = NoFs THEN Only(StubRow(p, n), Stub("(no readable filesystem)", n))
             ELSE Filled(Mounted(p)[p], p, n) IN
  /\ busy.op = "idle" /\ Children(rows, k) # {} /\ ~rows[k].loaded
  /\ mounts' = Mounted(p)
  /\ rows' = Joint([kept EXCEPT ![k].loaded = TRUE], new)
  /\ check' = [j \in DOMAIN rows' |->
                IF j \in DOMAIN kept THEN touched[j]
                ELSE IF j[3] = "stub" THEN "none" ELSE Inherited(touched[k])]
  /\ UNCHANGED <<busy, image, volumes, preview, wanted>>

(* onItemSelected: a file is previewed.                                    *)
Select(k) ==
  /\ busy.op = "idle" /\ k[3] = "node"
  /\ preview' = IF rows[k].state = "file" THEN k ELSE <<>>
  /\ mounts' = IF rows[k].state = "file" THEN Mounted(k[1]) ELSE mounts
  /\ UNCHANGED <<busy, image, volumes, rows, check, wanted>>

(* collectExportRoots: a ticked row is a root, a row ticked in part is     *)
(* searched; the row of a volume is searched whatever its own box says.    *)
Roots ==
  {k \in DOMAIN rows : k[2] # 0 \/ k[3] = "stub"} \cap
  {k \in DOMAIN rows :
     /\ check[k] = "checked"
     /\ \A n \in Parents(rows, k) \ {0} : check[<<k[1], n, "node">>] = "partly"}

(* exportSelected: the nodes are rebuilt from the rows, and the worker of  *)
(* ExportSession has the window until it is done.                          *)
Export ==
  /\ busy.op = "idle" /\ Roots # {}
  /\ busy' = [op |-> "export", dialog |-> TRUE, done |-> FALSE,
              jobs |-> {[part |-> k[1], id |-> k[2], dir |-> rows[k].state = "dir"] :
                          k \in {r \in Roots : Mounted(r[1])[r[1]] # NoFs}}]
  /\ UNCHANGED <<image, tree, wanted>>

ExportEnds ==
  /\ busy.op = "export"
  /\ busy' = Idle
  /\ UNCHANGED <<image, tree, wanted>>

-----------------------------------------------------------------------------
(* Unlocking a volume in place.                                            *)

(* showTreeMenu offers it on a row that is still locked; the secret the    *)
(* user types is the right one or not.                                     *)
Unlock(p, key) ==
  /\ busy.op = "idle" /\ VolumeRow(p) \in DOMAIN rows
  /\ rows[VolumeRow(p)].state \in {"bitlocker", "filevault"}
  /\ busy' = [op |-> "unlock", dialog |-> TRUE, done |-> FALSE, part |-> p, key |-> key]
  /\ UNCHANGED <<image, tree, wanted>>

UnlockWorker ==
  /\ busy.op = "unlock" /\ ~busy.done
  /\ busy' = [busy EXCEPT !.done = TRUE]
  /\ UNCHANGED <<image, tree, wanted>>

(* The volume as scanPartitions found it.                                  *)
Behind(p) == (IF image.sound THEN image.vols ELSE image.alone)[p]

Swapped(p) == [volumes EXCEPT ![p] = Behind(p).inner]

(* The decrypted source takes the place of the encrypted one, and the row  *)
(* is expanded at once, which mounts and lists it.                         *)
SwapIn(p) ==
  LET k == VolumeRow(p)
      fs == Swapped(p)[p]
      new == IF fs = NoFs THEN Only(StubRow(p, 0), Stub("(no readable filesystem)", 0))
             ELSE Filled(fs, p, 0) IN
  /\ volumes' = Swapped(p)
  /\ mounts' = Joint(Only(p, fs), mounts)
  /\ rows' = Joint([rows EXCEPT ![k].state = "unlocked", ![k].loaded = TRUE], new)
  /\ check' = Joint(check, [j \in DOMAIN new |-> IF j[3] = "stub" THEN "none" ELSE "unchecked"])

UnlockEnds ==
  LET p == busy.part IN
  /\ busy.op = "unlock" /\ Joined
  /\ busy' = Idle
  /\ IF busy.key # "right" THEN UNCHANGED <<volumes, mounts, rows, check>>
     ELSE IF ~Behind(p).cipher
     THEN /\ rows' = [rows EXCEPT ![VolumeRow(p)].state = "nocipher"]
          /\ UNCHANGED <<volumes, mounts, check>>
     ELSE SwapIn(p)
  /\ UNCHANGED <<image, preview, wanted>>

-----------------------------------------------------------------------------
Init ==
  /\ busy = Idle /\ image = NoSource
  /\ volumes = <<>> /\ mounts = <<>> /\ rows = <<>> /\ check = <<>>
  /\ preview = <<>> /\ wanted = {}

Keys == {"none", "right", "wrong"}

User ==
  \/ \E s \in Sources, key \in Keys : Open(s, key)
  \/ \E k \in DOMAIN rows : Toggle(k) \/ Expand(k) \/ Select(k)
  \/ \E p \in DOMAIN volumes, key \in Keys \ {"none"} : Unlock(p, key)
  \/ EscapeCloses
  \/ Export

Program ==
  \/ OpenWorker \/ OpenThrows \/ UnlockWorker
  \/ TimerCloses
  \/ OpenEnds \/ UnlockEnds \/ ExportEnds

Next == User \/ Program

(* The worker computes without waiting for anyone, the timer ticks.        *)
Fairness == WF_vars(Program)

Spec == Init /\ [][Next]_vars /\ Fairness

-----------------------------------------------------------------------------
(* Properties.                                                             *)

(* The files the rows collected for an export stand for.                   *)
Covered == UNION {{<<k[1], m>> : m \in FilesBelow(mounts[k[1]], k[2])} : k \in Roots}

(* Whatever the user ticked, unticked, expanded before or after, the roots *)
(* collected cover exactly the files ticked, those in rows never revealed  *)
(* among them, each once, and no row of text is taken for a file           *)
(* (onItemChanged, populateChildren and collectExportRoots agree).         *)
TickedIsExported ==
  /\ Covered = wanted
  /\ \A k \in Roots : k[3] = "node"
  /\ \A k, j \in Roots : j[1] = k[1] => k[2] \notin Parents(rows, j)

(* What is on screen is of one image: the mounted filesystems are those of *)
(* the sources behind the rows, each row below is an entry of the mount,   *)
(* a filled folder shows all its entries, and the hex view a file of them. *)
RowsAreOfTheImage ==
  image # NoSource =>
    /\ DOMAIN volumes = DOMAIN (IF image.sound THEN image.vols ELSE image.alone)
    /\ {k[1] : k \in DOMAIN rows} = DOMAIN volumes
    /\ \A p \in DOMAIN mounts : p \in DOMAIN volumes /\ mounts[p] = volumes[p]
    /\ \A k \in DOMAIN rows : k[3] = "node" =>
         /\ k[2] > 0 => k[1] \in DOMAIN mounts /\ mounts[k[1]][k[2]].up = rows[k].up
         /\ rows[k].loaded /\ mounts[k[1]] # NoFs =>
              \A m \in DOMAIN mounts[k[1]] :
                mounts[k[1]][m].up = k[2] => <<k[1], m, "node">> \in DOMAIN rows
    /\ preview # <<>> => preview \in DOMAIN rows /\ rows[preview].state = "file"

(* No filesystem is looked for in ciphertext: an encrypted volume is       *)
(* mounted only once it is unlocked, and then from what it decrypts to     *)
(* ("present an empty/unreadable filesystem" is what unlockBitLockerItem   *)
(* avoids), and one whose cipher is unknown never is.                      *)
NoCiphertextMounted ==
  \A p \in DOMAIN mounts :
    Behind(p).label \in {"bitlocker", "filevault"} =>
      /\ rows[VolumeRow(p)].state = "unlocked"
      /\ mounts[p] = Behind(p).inner
      /\ Behind(p).cipher

(* The window comes back: no open and no unlock leaves the dialog waiting, *)
(* failed ones included; only an exception in the producer ends it all.    *)
BusyEnds == busy.op \in {"open", "unlock"} ~> busy.op \in {"idle", "terminated"}
=============================================================================
