----------------------------- MODULE LogicalDisk -----------------------------
(***************************************************************************)
(* What ImageSource promises the layers above it (src/core/image_source.h): *)
(* one disk of `size` sectors that any number of threads may read at any   *)
(* offset.  A read is clipped at the end of the disk, and every sector of  *)
(* the answer is either the sector asked for or a hole of zeros; data of   *)
(* another sector, or of another disk, is never returned in its place.     *)
(***************************************************************************)
EXTENDS Naturals, Sequences

CONSTANTS Readers, Offsets, Counts, Hole

VARIABLES
  size,     \* size(), fixed when the source is assembled
  request,  \* per reader: what readAt was called with
  answer    \* per reader: the buffer readAt returned, or Busy

vars == <<size, request, answer>>

Idle == [off |-> 0, len |-> 0, busy |-> FALSE]

Clipped(off, len) ==
  IF off >= size THEN 0 ELSE IF off + len > size THEN size - off ELSE len

IsAnswer(out, off, len) ==
  /\ DOMAIN out = 1..Clipped(off, len)
  /\ \A k \in DOMAIN out : out[k] \in {off + k - 1, Hole}

Init ==
  /\ size \in Nat
  /\ request = [r \in Readers |-> Idle]
  /\ answer = [r \in Readers |-> <<>>]

Ask(r) ==
  /\ ~request[r].busy
  /\ \E off \in Offsets, len \in Counts :
       request' = [request EXCEPT ![r] = [off |-> off, len |-> len, busy |-> TRUE]]
  /\ answer' = [answer EXCEPT ![r] = <<>>]
  /\ UNCHANGED size

Answer(r) ==
  /\ request[r].busy
  /\ answer' = [answer EXCEPT ![r] = answer'[r]]
  /\ IsAnswer(answer'[r], request[r].off, request[r].len)
  /\ request' = [request EXCEPT ![r].busy = FALSE]
  /\ UNCHANGED size

Next == \E r \in Readers : Ask(r) \/ Answer(r)

Spec == Init /\ [][Next]_vars
=============================================================================
