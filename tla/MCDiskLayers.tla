---------------------------- MODULE MCDiskLayers ----------------------------
(* Small sets of drives for TLC: sectors of two units.                     *)
EXTENDS DiskLayers

NoCopy == [at |-> 0, good |-> FALSE]
Copy(at, good) == [at |-> at, good |-> good]

Plain ==
  [disk |-> 24, cache |-> <<>>, base |-> 2, length |-> 14, crypto |-> "none",
   copies |-> <<NoCopy, NoCopy, NoCopy>>, declared |-> 0, headAt |-> 0, headSize |-> 0,
   protectors |-> <<>>, secret |-> 7, shift |-> 0, bad |-> {}]

(* The span is disk sectors 1 and up to three of them; the driver's copy of *)
(* the signature lies in front of the region; a hint may be wrong.         *)
Module(start, region, hint) ==
  [boot |-> TRUE, start |-> start, headers |-> {2, region, region + 8},
   supers |-> {region, region + 8}, hint |-> hint]
Modules == {Module(s, r, h) : s \in {1, 3}, r \in {4, 6}, h \in {-1, 2}} \cup
  {[Module(1, 6, 6) EXCEPT !.headers = {}], [Module(1, 6, -1) EXCEPT !.headers = {}],
   [Module(1, 6, -1) EXCEPT !.boot = FALSE]}

Sector(drive, n) == {<<drive, n * S + k>> : k \in 0..(S - 1)}

Password(n) == [recovery |-> TRUE, whole |-> TRUE, opens |-> n]
Tpm == [Password(3) EXCEPT !.recovery = FALSE]
Torn == [Password(4) EXCEPT !.whole = FALSE]

BitLocker ==
  [Plain EXCEPT !.crypto = "bitlocker", !.declared = 16, !.headAt = 10, !.headSize = 4,
                !.copies = <<Copy(6, TRUE), NoCopy, NoCopy>>, !.protectors = <<Tpm, Password(5)>>]
Copies3 ==
  {<<Copy(6, FALSE), Copy(8, TRUE), NoCopy>>, <<Copy(90, TRUE), NoCopy, Copy(13, TRUE)>>,
   <<Copy(14, TRUE), NoCopy, Copy(6, FALSE)>>, <<Copy(6, TRUE), Copy(8, TRUE), Copy(9, TRUE)>>}
BitLockers ==
  {[BitLocker EXCEPT !.copies = c, !.declared = d, !.protectors = p] :
     c \in Copies3, d \in {0, 12, 16, 98}, p \in {<<Tpm, Password(5)>>, <<Torn, Password(5), Password(6)>>}}
Heads ==
  {[BitLocker EXCEPT !.headSize = h, !.cache = c, !.bad = b] :
     h \in {0, 2, 4, 6}, c \in {<<>>} \cup {<<m>> : m \in Modules}, b \in {{}, Sector("qlc", 3) \cup Sector("optane", 1)}}

FileVault == [Plain EXCEPT !.crypto = "filevault", !.shift = 4]
FileVaults ==
  {[FileVault EXCEPT !.shift = s, !.bad = b] : s \in {0, 3, 4, 8, 12}, b \in {{}, Sector("qlc", 5)}}

(* Table entries that reach over the end of the drive.                     *)
Overlong ==
  {[BitLocker EXCEPT !.disk = 14, !.copies = c, !.declared = d] : c \in Copies3, d \in {0, 12, 16}}
    \cup {[Plain EXCEPT !.length = 30]}

AllRigs ==
  BitLockers \cup Overlong \cup Heads \cup FileVaults \cup
  {[Plain EXCEPT !.cache = <<m>>, !.bad = b] : m \in Modules, b \in {{}, Sector("qlc", 4)}}
AllReads == {<<o, n>> : o \in {0, 1, 3, 5, 13}, n \in {1, 4, 9, 16}}
=============================================================================
