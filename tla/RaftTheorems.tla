---------------------------- MODULE RaftTheorems ----------------------------
(***************************************************************************)
(* The theorems about the Raft group, for every set of replicas and every  *)
(* bound: type correctness and votes that are kept, with any members; one  *)
(* leader per term, matching logs, true progress, complete leaders and     *)
(* state machine safety, in a group whose members do not change.           *)
(* The same for the writes of clients: logged once, and acknowledged only  *)
(* when they are applied.  The work is in RaftSteps, RaftLogSteps,         *)
(* RaftHistory and RaftCommit; this module adds what they use of the       *)
(* library of finite sets, and draws the conclusions.                      *)
(***************************************************************************)
EXTENDS RaftSteps, RaftLogSteps, RaftCommit, FiniteSetTheorems

\* Every step of a group of fixed members is both a BallotStep and a LogStep of
\* the replica that takes it.
LEMMA EveryStaticStep ==
    ASSUME NatWellOrdered, SingletonSize, Static, TypeInv, RequestsPlain, Next
    PROVE  \E n \in Node : BallotStep(n) /\ LogStep(n)
<1>0. NoVotes({}) /\ \A m \in msgs : m.to \in Node BY MessageTyped DEF NoVotes
<1>1. CASE \E n \in Node, v \in Request : Propose(n, v)
    <2>1. PICK n \in Node, v \in Request : Propose(n, v) BY <1>1
    <2>2. BallotStep(n) BY <1>0, <2>1, ProposeStep DEF Propose
    <2> QED BY <2>1, <2>2, ProposeLog
<1>2. CASE \E n \in Node : TickLeader(n) BY <1>2, TickLeaderStep, TickLeaderLog
<1>3. CASE \E n \in Node : TickElection(n) BY <1>3, TickElectionStep, TickElectionLog
<1>4. CASE \E n \in Node, p \in AddTargets : EnsureAddLearner(n, p) BY <1>4 DEF Static
<1>5. CASE \E n \in Node, p \in RemoveTargets : EnsureRemoveMember(n, p) BY <1>5 DEF Static
<1>6. CASE \E m \in msgs : HandlePreVote(m) BY <1>0, <1>6, HandlePreVoteStep, HandlePreVoteLog
<1>7. CASE \E m \in msgs : HandlePreVoteResponse(m)
    BY <1>0, <1>7, HandlePreVoteResponseStep, HandlePreVoteResponseLog
<1>8. CASE \E m \in msgs : HandleRequestVote(m) BY <1>0, <1>8, HandleRequestVoteStep, HandleRequestVoteLog
<1>9. CASE \E m \in msgs : HandleVoteResponse(m) BY <1>0, <1>9, HandleVoteResponseStep, HandleVoteResponseLog
<1>10. CASE \E m \in msgs : HandleAppendEntries(m)
    BY <1>0, <1>10, HandleAppendEntriesStep, HandleAppendEntriesLog
<1>11. CASE \E m \in msgs : HandleAppendResponse(m)
    BY <1>0, <1>11, HandleAppendResponseStep, HandleAppendResponseLog
<1>12. CASE \E n \in Node : Restart(n) BY <1>12, RestartStep, RestartLog
<1>13. CASE \E m \in msgs : CrashInAppend(m) BY <1>0, <1>13, CrashInAppendStep, CrashInAppendLog
<1> QED
    BY <1>1, <1>2, <1>3, <1>4, <1>5, <1>6, <1>7, <1>8, <1>9, <1>10, <1>11, <1>12, <1>13
    DEF Next, Dispatch, Crash

\* A non-empty set of natural numbers has a least element.
LEMMA LeastNat == NatWellOrdered
<1> SUFFICES ASSUME NEW S \in SUBSET Nat, S # {}
             PROVE  \E x \in S : \A y \in S : x <= y
    BY DEF NatWellOrdered
<1> DEFINE F == {0..x : x \in S}
<1>1. F \subseteq FiniteSubsetsOf(Nat) /\ F # {}
    <2>1. \A x \in S : 0..x \in SUBSET Nat /\ IsFiniteSet(0..x) BY FS_Interval
    <2> QED BY Zenon, <2>1 DEF FiniteSubsetsOf
<1> HIDE DEF F
<1>2. PICK A \in F : \A B \in F : ~ (<<B, A>> \in StrictSubsetOrdering(Nat))
    BY <1>1, FS_StrictSubsetOrderingWellFounded, WFMin
<1>3. PICK x \in S : A = 0..x BY DEF F
<1>4. ASSUME NEW y \in S, ~(x <= y) PROVE FALSE
    <2>1. 0..y \in F BY DEF F
    <2>2. <<0..y, 0..x>> \in StrictSubsetOrdering(Nat)
        <3>1. 0..y \subseteq 0..x /\ x \in 0..x /\ x \notin 0..y BY <1>4
        <3> QED BY <3>1 DEF StrictSubsetOrdering
    <2> QED BY <1>2, <1>3, <2>1, <2>2
<1> QED BY <1>3, <1>4

\* Two majorities of the voters share a voter.
LEMMA MajoritiesIntersect == MajoritiesMeet
<1> SUFFICES ASSUME NEW Q \in SUBSET InitVoters, NEW R \in SUBSET InitVoters, Majority(Q), Majority(R)
             PROVE  \E v \in Node : v \in Q /\ v \in R
    BY DEF MajoritiesMeet
<1>1. IsFiniteSet(InitVoters) BY NodeAssumption, FS_Subset
<1>2. IsFiniteSet(Q) /\ IsFiniteSet(R) BY <1>1, FS_Subset
<1>3. /\ Cardinality(InitVoters) \in Nat /\ Cardinality(Q) \in Nat /\ Cardinality(R) \in Nat
    BY <1>1, <1>2, FS_CardinalityType
<1>4. Cardinality(Q) + Cardinality(R) > Cardinality(InitVoters) BY <1>3 DEF Majority
<1>5. Q \cap R # {} BY <1>1, <1>4, FS_MajoritiesIntersect
<1> QED BY <1>5, NodeAssumption

\* A set of one replica has one element.
LEMMA OneReplica == SingletonSize
BY Zenon, FS_Singleton DEF SingletonSize

\* A replica more is one more.
LEMMA OneMore == AddsOne
<1> SUFFICES ASSUME NEW S \in SUBSET Node, NEW n \in Node, n \notin S
             PROVE  Cardinality(S \cup {n}) = 1 + Cardinality(S)
    BY DEF AddsOne
<1>1. IsFiniteSet(S) BY NodeAssumption, FS_Subset
<1>2. Cardinality(S) \in Nat /\ Cardinality(S \cup {n}) = Cardinality(S) + 1
    BY <1>1, FS_CardinalityType, FS_AddElement
<1> QED BY <1>2

-----------------------------------------------------------------------------
(* The theorems.                                                           *)

\* The inductive invariant holds in every reachable state.
THEOREM TypeInvariance == Spec => []TypeInv
<1>1. TypeInv /\ [Next]_vars => TypeInv' BY LeastNat, TypeStep
<1> QED BY <1>1, TypeInit, PTL DEF Spec

\* Type correctness of the group, and the bound handle_append_ok and
\* build_append_entries_message rely on: whatever is lost, delayed or
\* restarted, a leader's progress of a follower stays inside its own log.
THEOREM TypeCorrect == Spec => []TypeOK
<1>1. TypeInv => TypeOK BY DEF TypeInv
<1> QED BY <1>1, TypeInvariance, PTL

\* save(hard_state): with any members, whatever is lost, delayed, reordered or
\* restarted, no replica lowers its term or changes its vote within a term.
THEOREM VotesAreKept == Spec => VoteKept
<1>1. TypeInv /\ [Next]_vars => [\A n \in Node : KeepsVote(n)]_vars
    <2> SUFFICES ASSUME TypeInv, Next PROVE \A k \in Node : KeepsVote(k) OBVIOUS
    <2>1. PICK n \in Node : BallotStep(n) BY Zenon, OneReplica, EveryStep
    <2>2. \A k \in Node : currentTerm[k] \in Nat BY DEF TypeInv, TypeOK
    <2> QED BY <2>1, <2>2 DEF BallotStep, KeepsVote
<1> QED BY <1>1, TypeInvariance, PTL DEF Spec, VoteKept

\* The votes of a group whose members do not change.
THEOREM BallotInvariance == ASSUME Static PROVE Spec => []BallotInv
<1>1. TypeInv /\ TypeInv' /\ BallotInv /\ [Next]_vars => BallotInv'
    <2> SUFFICES ASSUME TypeInv, TypeInv', BallotInv, [Next]_vars PROVE BallotInv' OBVIOUS
    <2>1. CASE Next BY Zenon, <2>1, OneReplica, MajoritiesIntersect, EveryStep, BallotInvKept
    <2>2. CASE UNCHANGED vars BY Zenon, <2>2, BallotStutters
    <2> QED BY <2>1, <2>2
<1> QED BY <1>1, BallotInit, TypeInvariance, PTL DEF Spec

\* become_leader: in a group whose members do not change, of any size, no two
\* replicas lead the same term, although votes are lost, delayed, duplicated by
\* a second candidacy, or given before a restart.
THEOREM OneLeaderPerTerm == ASSUME Static PROVE Spec => []ElectionSafety
<1>1. BallotInv => ElectionSafety BY DEF BallotInv
<1> QED BY <1>1, BallotInvariance, PTL

\* What a step of a group of fixed members does to the histories.
LEMMA ExplainedStep ==
    ASSUME Static, TypeInv, TypeInv', BallotInv, BallotInv', Explained, Next
    PROVE  /\ Explained'
           /\ \A k \in Node : \A i \in 1..commitIndex[k] : i <= Len(log'[k]) /\ log'[k][i] = log[k][i]
<1>1. RequestsPlain BY Zenon, MajoritiesIntersect, ExplainedTells
<1>2. PICK n \in Node : BallotStep(n) /\ LogStep(n) BY Zenon, <1>1, LeastNat, OneReplica, EveryStaticStep
<1> QED BY Zenon, <1>2, LeastNat, MajoritiesIntersect, OneMore, ExplainedKept

\* In a group whose members do not change the histories behind a state, the
\* logs of the leaders of all terms and how far each replica followed them,
\* exist in every reachable state.
THEOREM HistoryInvariance == ASSUME Static PROVE Spec => []Explained
<1>1. TypeInv /\ TypeInv' /\ BallotInv /\ BallotInv' /\ Explained /\ [Next]_vars => Explained'
    BY Zenon, ExplainedStep, ExplainedStutters
<1> QED BY <1>1, ExplainedInit, TypeInvariance, BallotInvariance, PTL DEF Spec

\* append_entries_from_leader: in a group whose members do not change, of any
\* size and with logs of any length, two logs that hold an entry of the same
\* term at an index are equal up to it, whatever requests are lost, delayed,
\* reordered, or cut short by a crash.
THEOREM LogsMatchEverywhere == ASSUME Static PROVE Spec => []LogMatching
<1>1. TypeInv /\ Explained => LogMatching BY Zenon, MajoritiesIntersect, ExplainedTells
<1> QED BY <1>1, TypeInvariance, HistoryInvariance, PTL

\* handle_append_ok: what a leader counts as replicated on a follower is in the
\* follower's log, entry for entry, however late the answers come and although
\* the follower restarts.
THEOREM ProgressIsTrue == ASSUME Static PROVE Spec => []MatchIndexTrue
<1>1. TypeInv /\ Explained => MatchIndexTrue BY Zenon, MajoritiesIntersect, ExplainedTells
<1> QED BY <1>1, TypeInvariance, HistoryInvariance, PTL

\* later_than_other with try_advance_commit_index: in a group whose members do
\* not change, a leader's log holds every entry that any replica applied in an
\* earlier term.
THEOREM LeadersAreComplete == ASSUME Static PROVE Spec => []LeaderCompleteness
<1>1. TypeInv /\ Explained => LeaderCompleteness BY Zenon, MajoritiesIntersect, ExplainedTells
<1> QED BY <1>1, TypeInvariance, HistoryInvariance, PTL

\* apply_committed_entries_inline: in a group whose members do not change no two
\* replicas, nor one replica before and after a restart, apply different
\* entries at an index.
THEOREM StateMachinesAgree == ASSUME Static PROVE Spec => []StateMachineSafety
<1>1. TypeInv /\ Explained => StateMachineSafety BY Zenon, MajoritiesIntersect, ExplainedTells
<1> QED BY <1>1, TypeInvariance, HistoryInvariance, PTL

\* append_entries_from_leader cuts a conflicting log, a crash may interrupt it,
\* and yet in a group whose members do not change no replica loses or replaces
\* an entry it has committed.
THEOREM CommittedIsKept == ASSUME Static PROVE Spec => AppliedPrefixKept
<1>1. TypeInv /\ TypeInv' /\ BallotInv /\ BallotInv' /\ Explained /\ [Next]_vars =>
          [\A n \in Node : \A i \in 1..commitIndex[n] : i <= Len(log'[n]) /\ log'[n][i] = log[n][i]]_vars
    BY Zenon, ExplainedStep
<1> QED BY <1>1, TypeInvariance, BallotInvariance, HistoryInvariance, PTL DEF Spec, AppliedPrefixKept

-----------------------------------------------------------------------------
(* The writes of clients.                                                  *)

\* ProposalTracker adds no behaviour to the group: with its clients, the group
\* takes the steps of Raft.
THEOREM ClientsUseRaft == ClientSpec => Spec
<1>1. [ClientNext]_<<vars, clientVars>> => [Next]_vars BY Zenon, ClientIsGroup
<1> QED BY <1>1, PTL DEF ClientSpec, Spec

\* In a group whose members do not change, a request waits only on a leader,
\* where its log holds it.
THEOREM ClientInvariance == ASSUME Static PROVE ClientSpec => []ClientInv
<1>1. TypeInv /\ TypeInv' /\ Explained /\ Explained' /\ ClientInv /\ [ClientNext]_<<vars, clientVars>> => ClientInv'
    <2> SUFFICES ASSUME TypeInv, TypeInv', Explained, Explained', ClientInv, [ClientNext]_<<vars, clientVars>>
                 PROVE  ClientInv'
        OBVIOUS
    <2>1. CASE ClientNext
        <3>1. RequestsPlain BY Zenon, MajoritiesIntersect, ExplainedTells
        <3>2. UNCHANGED vars \/ \E k \in Node : LogStep(k)
            BY Zenon, <2>1, <3>1, ClientIsGroup, LeastNat, OneReplica, EveryStaticStep
        <3>3. AppliedInv /\ AppliedInv' BY Zenon DEF Explained
        <3> QED BY Zenon, <2>1, <3>2, <3>3, ClientStep
    <2>2. CASE UNCHANGED <<vars, clientVars>> BY Zenon, <2>2, ClientStutters
    <2> QED BY <2>1, <2>2
<1> QED BY <1>1, ClientStarts, TypeInvariance, HistoryInvariance, ClientsUseRaft, PTL DEF ClientSpec

\* submit_batch with find_request: in a group whose members do not change no log
\* holds a request twice, however often it is retried, at whichever leader, and
\* although it was proposed in an earlier term.
THEOREM WritesAreLoggedOnce == ASSUME Static PROVE ClientSpec => []RequestLoggedOnce
<1>1. TypeInv /\ Explained => RequestLoggedOnce
    BY Zenon, MajoritiesIntersect, ExplainedTells DEF RequestLoggedOnce, Once
<1> QED BY <1>1, TypeInvariance, HistoryInvariance, ClientsUseRaft, PTL

\* advance() with the record of requests: in a group whose members do not change
\* a CAS is answered with OK, by a leader or by a replica that no longer leads,
\* only when it has been applied.
THEOREM CasAnswersAreTrue == ASSUME Static PROVE ClientSpec => []AckedCasIsApplied
<1>1. ClientInv => AckedCasIsApplied BY DEF ClientInv
<1> QED BY <1>1, ClientInvariance, PTL

\* advance(): in a group whose members do not change a replica that leads answers
\* a write with OK only when it has been applied.
THEOREM LeaderAnswersAreTrue == ASSUME Static PROVE ClientSpec => []AckedByLeaderIsApplied
<1>1. ClientInv => AckedByLeaderIsApplied BY DEF ClientInv
<1> QED BY <1>1, ClientInvariance, PTL
=============================================================================
