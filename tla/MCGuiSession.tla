---------------------------- MODULE MCGuiSession ----------------------------
(* Two images, an Optane pair and a RAID set for TLC, with encrypted,      *)
(* unreadable and deleted contents.                                        *)
EXTENDS GuiSession

Dir(up) == [up |-> up, dir |-> TRUE, gone |-> FALSE]
File(up) == [Dir(up) EXCEPT !.dir = FALSE]
Gone(e) == [e EXCEPT !.gone = TRUE]

Deep == <<Gone(Dir(0)), File(1), Dir(1), File(3)>>
Flat == <<Dir(0), Dir(0), File(0)>>
Small == <<Dir(0), File(1)>>

Plain(fs) == [label |-> "fs", fs |-> fs, inner |-> NoFs, cipher |-> FALSE]
Locked(label, inner, cipher) == [label |-> label, fs |-> NoFs, inner |-> inner, cipher |-> cipher]

Image(vols) ==
  [kind |-> "image", opens |-> TRUE, sound |-> TRUE, throws |-> FALSE, vols |-> vols, alone |-> <<>>]

Disk == Image(<<Plain(Deep), [Plain(NoFs) EXCEPT !.label = "unknown"]>>)
Vault == Image(<<Plain(NoFs), Locked("filevault", Flat, TRUE)>>)
Crypt == Image(<<Locked("bitlocker", Small, TRUE), Locked("bitlocker", NoFs, FALSE)>>)
Pair == [Image(<<Locked("bitlocker", Flat, TRUE)>>) EXCEPT
           !.kind = "optane", !.sound = FALSE, !.alone = <<Locked("bitlocker", NoFs, TRUE)>>]
Merged == [Pair EXCEPT !.sound = TRUE]
Drives == [Image(<<>>) EXCEPT !.kind = "raid", !.sound = FALSE]
ByHand == [Image(<<Plain(NoFs)>>) EXCEPT !.kind = "raidByHand"]
Hostile == [Image(<<>>) EXCEPT !.throws = TRUE]
Missing == [Image(<<>>) EXCEPT !.opens = FALSE]

AllSources == {Disk, Vault, Crypt, Pair, Merged, Drives, ByHand, Hostile, Missing}
=============================================================================
