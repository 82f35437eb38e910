---------------------------- MODULE MCRaidSource ----------------------------
(* Small sets of drives for TLC: a drive has at most six sectors.          *)
EXTENDS RaidSource

CONSTANTS r1, r2

Drive(size, offset, length, bad) ==
  [size |-> size, offset |-> offset, length |-> length, bad |-> bad]
Set(level, stripe, members, limit) ==
  [level |-> level, stripe |-> stripe, members |-> members, limit |-> limit]

(* Drives of different sizes, one with a reserve at the front, one with    *)
(* its data area bounded, one that is all reserve.                         *)
Reserved == Drive(6, 1, 0, {})
Bounded == Drive(5, 0, 3, {})
Plain == Drive(4, 0, 0, {})
Empty == Drive(2, 2, 0, {})

(* Healthy sets: unequal members, a member that offers nothing, stripes    *)
(* that do and do not divide the members, a size limit inside a stripe.    *)
Pairs == {<<Reserved, Plain>>, <<Bounded, Reserved>>}
Geometries ==
  {Set("concat", 0, p, 0) : p \in Pairs \cup {<<Plain, Empty>>}} \cup
  {Set("concat", 0, <<Bounded, Empty, Reserved>>, 7)} \cup
  {Set("stripe", s, p, lim) : s \in {1, 2, 4}, p \in Pairs, lim \in {0, 5}} \cup
  {Set("stripe", 2, <<Reserved, Plain, Bounded>>, 0)} \cup
  {Set("mirror", 0, p, 0) : p \in Pairs}

Hurt(m, bad) == [m EXCEPT !.bad = bad]
Damage == {{}, {2}, {1, 3}}
Damaged ==
  {Set(lv, 2, <<Hurt(Drive(5, 1, 0, {}), x), Hurt(Drive(4, 0, 0, {}), y)>>, 0) :
     lv \in Level, x \in Damage, y \in Damage}
Contended == {L \in Damaged : L.members[2].bad # {2}}
AllSets == Geometries \cup Contended
TwoReaders == {r1, r2}
=============================================================================
