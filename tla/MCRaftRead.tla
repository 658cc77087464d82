----------------------------- MODULE MCRaftRead -----------------------------
(***************************************************************************)
(* Membership changes and reads in a group of two voters that a third      *)
(* replica may join.                                                       *)
(***************************************************************************)
EXTENDS RaftRead, TLC

CONSTANTS n1, n2, n3

ThreeNodes == {n1, n2, n3}

TwoNodes == {n1, n2}

ThirdNode == {n3}

PairSymmetry == Permutations(TwoNodes)

\* Either members come and go over three terms, or the group grows while it is
\* read from, over two terms and a restart.
Within ==
    \/ readSeq' = 0 /\ restarts' = 0
    \/ \A n \in Node :
          /\ currentTerm'[n] <= 2
          /\ role'[n] = "PRE_CANDIDATE" => currentTerm'[n] < 2
          /\ \A i \in 1..Len(log'[n]) : log'[n][i].kind # "REMOVE_MEMBER"

BoundedSpec == ReadInit /\ [][ReadNext /\ Within]_<<vars, readVars>>
=============================================================================
