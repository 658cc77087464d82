----------------------------- MODULE MCSnapshot -----------------------------
(***************************************************************************)
(* A follower whose log ends in two entries that the group has replaced,   *)
(* and two leaders, one after the other, that have compacted theirs.       *)
(***************************************************************************)
EXTENDS Snapshot

ThreeEntries == <<1, 2, 2>>
LostSuffix == <<1, 1, 1>>
TwoTerms == {2, 3}

\* Bound: a late message and a crash meet only under the first of the leaders.
Bound == late' # {} /\ crashes' > 0 => current' = FirstTerm

MCSpec == Init /\ [][Next /\ Bound]_vars /\ Fairness
=============================================================================
