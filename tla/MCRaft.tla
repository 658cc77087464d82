------------------------------- MODULE MCRaft -------------------------------
(***************************************************************************)
(* Small groups for TLC: three replicas, all of them initial members, and  *)
(* one client write.                                                       *)
(***************************************************************************)
EXTENDS Raft, RaftFormed, TLC

CONSTANTS n1, n2, n3, v1

ThreeNodes == {n1, n2, n3}

OneRequest == {v1}

Symmetry == Permutations(ThreeNodes)

VARIABLE shape   \* how this behaviour starts

\* What a behaviour of each shape is bounded by; a write is proposed while the
\* log, with it, is at most as long as writes says.
Bounds ==
    [fresh |-> [term |-> 2, writes |-> 2, log |-> 3, net |-> 1, restarts |-> 1],
     led   |-> [term |-> 2, writes |-> 2, log |-> 3, net |-> 2, restarts |-> 0],
     split |-> [term |-> 4, writes |-> 0, log |-> 3, net |-> 1, restarts |-> 0]]

\* n proposed a client write in this step
Proposed(n) ==
    /\ role'[n] = "LEADER" /\ Len(log'[n]) > Len(log[n])
    /\ log'[n][Len(log'[n])].kind = "WRITE"

Within(b) ==
    /\ \A n \in Node : /\ currentTerm'[n] <= b.term
                       /\ role'[n] = "PRE_CANDIDATE" => currentTerm'[n] < b.term
                       /\ Proposed(n) => Len(log'[n]) <= b.writes
                       /\ Len(log'[n]) <= b.log
    /\ Cardinality(msgs') <= b.net
    /\ Cardinality(msgs') < 2 \/ \E m \in msgs' : m.type \in {"AppendEntries", "AppendReply"}
    /\ restarts' <= b.restarts

ShapedNext == Next /\ Within(Bounds[shape]) /\ UNCHANGED shape

\* A group that starts, one that has a leader, one whose leader was replaced.
ShapedSpec ==
    /\ \/ shape = "fresh" /\ Init
       \/ shape = "led" /\ InitLed
       \/ shape = "split" /\ InitSplit
    /\ [][ShapedNext]_<<vars, shape>>

LedSpec == shape = "led" /\ InitLed /\ [][Next /\ UNCHANGED shape]_<<vars, shape>>
=============================================================================
