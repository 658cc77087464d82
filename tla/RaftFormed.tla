----------------------------- MODULE RaftFormed -----------------------------
(***************************************************************************)
(* Groups that have been running: the initial states of the runs that start*)
(* from a leader.                                                          *)
(***************************************************************************)
EXTENDS RaftState

\* What the initial states below share: the voters hold the no-op of the first
\* leader and have applied it.
Formed ==
    /\ votes = [n \in Node |-> {}]
    /\ commitIndex = [n \in Node |-> IF n \in InitVoters THEN 1 ELSE 0]
    /\ applied = {<<1, Entry(1, "NOOP", NONE), 1>>}
    /\ voters = [n \in Node |-> InitVoters]
    /\ learners = [n \in Node |-> {}]
    /\ recovering = [n \in Node |-> FALSE]
    /\ msgs = {}
    /\ restarts = 0

FirstLog(n) == IF n \in InitVoters THEN <<Entry(1, "NOOP", NONE)>> ELSE <<>>

Progress(leaders, index) ==
    [n \in Node |-> [p \in Node |-> IF n \in leaders /\ p \in InitVoters \ {n} THEN index[n] ELSE 0]]

\* A group that has just been formed: l won the first election, with every
\* vote, and every voter has answered.
InitLed ==
    \E l \in InitVoters :
        /\ Formed
        /\ role = [n \in Node |-> IF n = l THEN "LEADER" ELSE "FOLLOWER"]
        /\ currentTerm = [n \in Node |-> IF n \in InitVoters THEN 1 ELSE 0]
        /\ votedFor = [n \in Node |-> IF n \in InitVoters THEN l ELSE NONE]
        /\ recentLeader = [n \in Node |-> n \in InitVoters \ {l}]
        /\ elected = {<<1, l>>}
        /\ log = [n \in Node |-> FirstLog(n)]
        /\ nextIndex = Progress({l}, [n \in Node |-> 2])
        /\ matchIndex = Progress({l}, [n \in Node |-> 1])

\* The same group later: l, cut off, still leads the first term with a write
\* it could not replicate; k won the second term with the votes of the others
\* and could not replicate its no-op.
InitSplit ==
    \E l, k \in InitVoters, v \in Request :
        /\ l # k
        /\ Formed
        /\ role = [n \in Node |-> IF n \in {l, k} THEN "LEADER" ELSE "FOLLOWER"]
        /\ currentTerm = [n \in Node |-> IF n = l THEN 1 ELSE IF n \in InitVoters THEN 2 ELSE 0]
        /\ votedFor = [n \in Node |-> IF n = l THEN l ELSE IF n \in InitVoters THEN k ELSE NONE]
        /\ recentLeader = [n \in Node |-> FALSE]
        /\ elected = {<<1, l>>, <<2, k>>}
        /\ log = [n \in Node |-> IF n = l THEN Append(FirstLog(n), Entry(1, "WRITE", v))
                               ELSE IF n = k THEN Append(FirstLog(n), Entry(2, "NOOP", NONE))
                               ELSE FirstLog(n)]
        /\ nextIndex = Progress({l, k}, [n \in Node |-> 2])
        /\ matchIndex = Progress({l, k}, [n \in Node |-> IF n = l THEN 1 ELSE 0])
=============================================================================
