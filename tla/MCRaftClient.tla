----------------------------- MODULE MCRaftClient ---------------------------
(***************************************************************************)
(* A client write and its retries in a group of three replicas.            *)
(***************************************************************************)
EXTENDS RaftClient, RaftFormed, TLC

CONSTANTS n1, n2, n3, p1, c1

ThreeNodes == {n1, n2, n3}

OnePut == {p1}

PutAndCas == {p1, c1}

OneCas == {c1}

Symmetry == Permutations(ThreeNodes)

VARIABLE shape   \* which of the two requests the client sends

\* n turns a write away because it does not lead.
Refused == \E a \in answers' \ answers : a.status = "NOT_LEADER"

\* A PUT, proposed on a log of at most one entry, over three terms.
PutNext ==
    \/ RaftStep /\ \A n \in Node : Len(log'[n]) <= 3
    \/ \E n \in Node : Submit(n, p1) /\ (log' # log => Len(log[n]) < 2) /\ ~Refused

\* A CAS, over two terms and a restart.
CasNext ==
    /\ \/ RaftStep
       \/ \E n \in Node : CrashStep(n)
       \/ \E n \in Node : Submit(n, c1) /\ (Refused => answers = {})
    /\ \A n \in Node : /\ currentTerm'[n] <= 2
                       /\ role'[n] = "PRE_CANDIDATE" => currentTerm'[n] < 2

ShapedNext ==
    /\ \/ shape = "put" /\ PutNext
       \/ shape = "cas" /\ CasNext
    /\ UNCHANGED shape

ShapedInit == shape \in {"put", "cas"} /\ InitLed /\ ClientInit

ShapedSpec == ShapedInit /\ [][ShapedNext]_<<vars, clientVars, shape>>

DeposedSpec ==
    shape = "put" /\ InitLed /\ ClientInit /\ [][ClientNext /\ UNCHANGED shape]_<<vars, clientVars, shape>>
=============================================================================
