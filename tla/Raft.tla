-------------------------------- MODULE Raft --------------------------------
(***************************************************************************)
(* The handlers of the Raft group of one shard: RaftCore (src/storage/raft)*)
(* driven by the single-threaded ReplicaLoop (src/storage/replica). Every  *)
(* action below is one dispatch of the loop: the RaftCore handler, the     *)
(* persistence of its effects, the messages it sends, and the inline       *)
(* application of the entries it committed.                                *)
(***************************************************************************)
EXTENDS RaftState

-----------------------------------------------------------------------------
(* Requests.                                                               *)

WritableLeader(n) == ~recovering[n] /\ role[n] = "LEADER" /\ n \in voters[n]

VoteRequests(n, kind, term) ==
    {[type |-> kind, from |-> n, to |-> p, term |-> term,
      lastTerm |-> LastTerm(log[n]), lastIndex |-> Len(log[n])] : p \in voters[n] \ {n}}

\* build_append_entries_message with the term t, the log lg, the commit index
\* ci and the progress next that the leader n has when it builds it
AppendRequest(n, p, t, lg, ci, next) ==
    LET prev == next[p] - 1 IN
    [type |-> "AppendEntries", from |-> n, to |-> p, term |-> t,
     prevIndex |-> prev, prevTerm |-> TermAt(lg, prev),
     entries |-> SubSeq(lg, next[p], MinOf(Len(lg), prev + MaxBatch)), commit |-> ci]

Broadcast(n, t, lg, ci, next) ==
    {AppendRequest(n, p, t, lg, ci, BroadcastNext(n, lg, next)) : p \in Members(n) \ {n}}

-----------------------------------------------------------------------------
(* apply_committed_entries_inline: the end of every dispatch.              *)

\* none of the entries first..last of lg removes x
Keeps(lg, x, first, last) == \A q \in first..last : ~Is(lg[q], "REMOVE_MEMBER", x)

\* x is a voter of n once n has applied lg up to i
VoterAfter(n, lg, x, i) ==
    \/ x \in voters[n] /\ Keeps(lg, x, commitIndex[n] + 1, i)
    \/ \E p \in commitIndex[n]+1..i : Is(lg[p], "PROMOTE_VOTER", x) /\ Keeps(lg, x, p + 1, i)

MemberAfter(n, lg, x, i) ==
    \/ x \in Members(n) /\ Keeps(lg, x, commitIndex[n] + 1, i)
    \/ \E p \in commitIndex[n]+1..i :
          /\ Is(lg[p], "ADD_LEARNER", x) \/ Is(lg[p], "PROMOTE_VOTER", x)
          /\ Keeps(lg, x, p + 1, i)

\* step_down_if_become_non_member fires while n applies lg up to ci
StepsDown(n, lg, ci) ==
    \E i \in commitIndex[n]+1..ci : lg[i].kind \in ConfigKinds /\ ~MemberAfter(n, lg, n, i)

\* n, in term t, applies its log lg up to ci; r and recent are the role and
\* the recent-leader flag the handler left
ApplyCommitted(n, t, lg, ci, r, recent) ==
    LET down == StepsDown(n, lg, ci)
        vs   == {x \in Node : VoterAfter(n, lg, x, ci)}
    IN  /\ commitIndex' = [commitIndex EXCEPT ![n] = ci]
        /\ applied' = applied \cup {<<i, lg[i], t>> : i \in commitIndex[n]+1..ci}
        /\ voters' = [voters EXCEPT ![n] = vs]
        /\ learners' = [learners EXCEPT ![n] = {x \in Node : MemberAfter(n, lg, x, ci)} \ vs]
        /\ role' = [role EXCEPT ![n] = IF down THEN "FOLLOWER" ELSE r]
        /\ recentLeader' = [recentLeader EXCEPT ![n] = recent /\ ~down]

-----------------------------------------------------------------------------
(* Leader side: committing and proposing.                                  *)

\* try_update_commit_index broadcasts again when it commits a removal
CommitBroadcast(n, t, lg, old, new, next) ==
    IF \E i \in old+1..new : lg[i].kind = "REMOVE_MEMBER"
    THEN Broadcast(n, t, lg, new, next) ELSE {}

\* mutant: a second configuration change may start
HasUnappliedConfigNever(n) == FALSE

HasUnappliedConfig(n) ==
    \E i \in commitIndex[n]+1..Len(log[n]) : log[n][i].kind \in ConfigKinds

\* propose: append, broadcast, and commit at once in a group of one voter.
\* got is the message the dispatch handles and t the leader's term; ci, next,
\* match and out are what the dispatch did before it.
LeaderAppend(got, n, t, e, ci, next, match, out) ==
    LET lg    == Append(log[n], e)
        nxt   == BroadcastNext(n, lg, next)
        newCi == IF HasQuorum(n, 1) THEN NewCommit(n, t, lg, ci, match) ELSE ci
    IN  /\ log' = [log EXCEPT ![n] = lg]
        /\ nextIndex' = [nextIndex EXCEPT ![n] = nxt]
        /\ matchIndex' = [matchIndex EXCEPT ![n] = match]
        /\ Exchange(got, out \cup Broadcast(n, t, lg, ci, nxt)
                              \cup CommitBroadcast(n, t, lg, ci, newCi, nxt))
        /\ ApplyCommitted(n, t, lg, newCi, "LEADER", FALSE)

\* mutant: the log is not searched for the request id
LoggedNever(n, v) == {}

\* find_request of RaftLog: where the log of n holds request v
Logged(n, v) == {i \in 1..Len(log[n]) : Is(log[n][i], "WRITE", v)}

\* submit_batch proposes only requests that are not in the log
Propose(n, v) ==
    /\ WritableLeader(n)
    /\ Len(log[n]) < MaxLog
    /\ Logged(n, v) = {}
    /\ LeaderAppend({}, n, currentTerm[n], Entry(currentTerm[n], "WRITE", v),
                    commitIndex[n], nextIndex[n], matchIndex[n], {})
    /\ UNCHANGED <<currentTerm, votedFor, votes, elected, recovering, restarts>>

ProposeConfig(n, kind, p) ==
    /\ WritableLeader(n)
    /\ Len(log[n]) < MaxLog
    /\ ~HasUnappliedConfig(n)
    /\ LeaderAppend({}, n, currentTerm[n], Entry(currentTerm[n], kind, p),
                    commitIndex[n], nextIndex[n], matchIndex[n], {})
    /\ UNCHANGED <<currentTerm, votedFor, votes, elected, recovering, restarts>>

EnsureAddLearner(n, p) == p \notin Members(n) /\ ProposeConfig(n, "ADD_LEARNER", p)

EnsureRemoveMember(n, p) == p \in Members(n) /\ ProposeConfig(n, "REMOVE_MEMBER", p)

\* maybe_promote_ready_learner: the learners that caught up with the log
ReadyLearners(n, match) ==
    IF HasUnappliedConfig(n) \/ ~WritableLeader(n) \/ Len(log[n]) >= MaxLog THEN {}
    ELSE {p \in learners[n] : match[p] >= Len(log[n])}

\* tick of a leader: the heartbeat trigger may fire, a ready learner is promoted
TickLeader(n) ==
    /\ ~recovering[n] /\ role[n] = "LEADER"
    /\ LET nxt  == BroadcastNext(n, log[n], nextIndex[n])
           beat == Broadcast(n, currentTerm[n], log[n], commitIndex[n], nxt)
       IN  IF ReadyLearners(n, matchIndex[n]) = {}
           THEN /\ nextIndex' = [nextIndex EXCEPT ![n] = nxt]
                /\ Exchange({}, beat)
                /\ UNCHANGED <<role, recentLeader, logVars, memberVars, matchIndex>>
           ELSE \E p \in ReadyLearners(n, matchIndex[n]), fired \in BOOLEAN :
                    LeaderAppend({}, n, currentTerm[n], Entry(currentTerm[n], "PROMOTE_VOTER", p),
                                 commitIndex[n], nextIndex[n], matchIndex[n], IF fired THEN beat ELSE {})
    /\ UNCHANGED <<currentTerm, votedFor, votes, elected, recovering, restarts>>

-----------------------------------------------------------------------------
(* Elections.                                                              *)

\* become_follower(t): a newer term forgets the vote
BecomeFollower(n, t) ==
    /\ role' = [role EXCEPT ![n] = "FOLLOWER"]
    /\ currentTerm' = [currentTerm EXCEPT ![n] = t]
    /\ votedFor' = [votedFor EXCEPT ![n] = IF t > currentTerm[n] THEN NONE ELSE @]
    /\ votes' = [votes EXCEPT ![n] = {}]
    /\ recentLeader' = [recentLeader EXCEPT ![n] = FALSE]

\* become_leader: fresh progress, the no-op of the term, a broadcast
BecomeLeader(got, n, t) ==
    /\ elected' = elected \cup {<<t, n>>}
    /\ votes' = [votes EXCEPT ![n] = {}]
    /\ LeaderAppend(got, n, t, Entry(t, "NOOP", NONE), commitIndex[n],
           [p \in Node |-> IF p \in Members(n) \ {n} THEN Len(log[n]) + 1 ELSE 0],
           [p \in Node |-> 0], {})

BecomeCandidate(got, n) ==
    LET t == currentTerm[n] + 1 IN
    /\ currentTerm' = [currentTerm EXCEPT ![n] = t]
    /\ votedFor' = [votedFor EXCEPT ![n] = n]
    /\ IF HasQuorum(n, 1)
       THEN BecomeLeader(got, n, t)
       ELSE /\ role' = [role EXCEPT ![n] = "CANDIDATE"]
            /\ votes' = [votes EXCEPT ![n] = {n}]
            /\ recentLeader' = [recentLeader EXCEPT ![n] = FALSE]
            /\ Exchange(got, VoteRequests(n, "RequestVote", t))
            /\ UNCHANGED <<elected, logVars, memberVars, progressVars>>

\* tick of a replica that does not lead: the election timeout fires
TickElection(n) ==
    /\ ~recovering[n] /\ role[n] # "LEADER" /\ n \in voters[n]
    /\ currentTerm[n] < MaxTerm
    /\ IF HasQuorum(n, 1)
       THEN BecomeCandidate({}, n)
       ELSE /\ role' = [role EXCEPT ![n] = "PRE_CANDIDATE"]
            /\ votes' = [votes EXCEPT ![n] = {n}]
            /\ recentLeader' = [recentLeader EXCEPT ![n] = FALSE]
            /\ Exchange({}, VoteRequests(n, "PreVote", currentTerm[n] + 1))
            /\ UNCHANGED <<currentTerm, votedFor, elected, logVars, memberVars, progressVars>>
    /\ UNCHANGED <<recovering, restarts>>

VoteReply(m, kind, t, granted) ==
    [type |-> kind, from |-> m.to, to |-> m.from, term |-> t, granted |-> granted]

VotePreconditions(m) == m.to \in voters[m.to] /\ m.from \in voters[m.to] /\ ~recovering[m.to]

\* handle_pre_vote changes nothing at the replica that answers
HandlePreVote(m) ==
    LET n == m.to
        granted == /\ m.term >= currentTerm[n] + 1
                   /\ VotePreconditions(m)
                   /\ role[n] # "LEADER"
                   /\ ~recentLeader[n]
                   /\ ~LaterThanOther(n, m.lastTerm, m.lastIndex)
    IN  /\ m.type = "PreVote"
        /\ Exchange({m}, {VoteReply(m, "PreVoteReply", currentTerm[n], granted)})
        /\ UNCHANGED <<electionVars, logVars, memberVars, progressVars, recovering, restarts>>

\* a grant of the current term from a voter that has not granted yet
CountsVote(m) == m.term = currentTerm[m.to] /\ m.granted /\ m.from \in voters[m.to] \ votes[m.to]

WinsWith(n, granted) == HasQuorum(n, Cardinality(granted)) /\ n \in voters[n]

HandlePreVoteResponse(m) ==
    LET n       == m.to
        waits   == ~recovering[n] /\ role[n] = "PRE_CANDIDATE"
        granted == votes[n] \cup {m.from}
    IN
    /\ m.type = "PreVoteReply"
    /\ \/ /\ ~waits \/ (m.term <= currentTerm[n] /\ ~CountsVote(m))
          /\ Exchange({m}, {})
          /\ UNCHANGED <<electionVars, logVars, memberVars, progressVars>>
       \/ /\ waits /\ m.term > currentTerm[n]
          /\ BecomeFollower(n, m.term)
          /\ Exchange({m}, {})
          /\ UNCHANGED <<elected, logVars, memberVars, progressVars>>
       \/ /\ waits /\ CountsVote(m)
          /\ IF WinsWith(n, granted)
             THEN BecomeCandidate({m}, n)
             ELSE /\ votes' = [votes EXCEPT ![n] = granted]
                  /\ Exchange({m}, {})
                  /\ UNCHANGED <<role, currentTerm, votedFor, recentLeader, elected,
                                 logVars, memberVars, progressVars>>
    /\ UNCHANGED <<recovering, restarts>>

\* grant_vote_to after become_follower: no vote yet in the term, or this one
CanGrant(m) == m.term > currentTerm[m.to] \/ votedFor[m.to] \in {NONE, m.from}

\* handle_request_vote: the preconditions come before the terms are compared
HandleRequestVote(m) ==
    LET n       == m.to
        newer   == m.term > currentTerm[n]
        granted == ~LaterThanOther(n, m.lastTerm, m.lastIndex) /\ CanGrant(m)
    IN  /\ m.type = "RequestVote"
        /\ IF VotePreconditions(m) /\ m.term >= currentTerm[n]
           THEN /\ currentTerm' = [currentTerm EXCEPT ![n] = m.term]
                /\ votedFor' = [votedFor EXCEPT ![n] =
                                   IF granted THEN m.from ELSE IF newer THEN NONE ELSE @]
                /\ role' = [role EXCEPT ![n] = IF newer THEN "FOLLOWER" ELSE @]
                /\ votes' = [votes EXCEPT ![n] = IF newer THEN {} ELSE @]
                /\ recentLeader' = [recentLeader EXCEPT ![n] = ~newer /\ @]
                /\ Exchange({m}, {VoteReply(m, "VoteReply", m.term, granted)})
           ELSE /\ Exchange({m}, {VoteReply(m, "VoteReply", currentTerm[n], FALSE)})
                /\ UNCHANGED <<currentTerm, votedFor, role, votes, recentLeader>>
        /\ UNCHANGED <<elected, logVars, memberVars, progressVars, recovering, restarts>>

HandleVoteResponse(m) ==
    LET n       == m.to
        waits   == ~recovering[n] /\ role[n] = "CANDIDATE"
        granted == votes[n] \cup {m.from}
    IN
    /\ m.type = "VoteReply"
    /\ \/ /\ ~waits \/ (m.term <= currentTerm[n] /\ ~CountsVote(m))
          /\ Exchange({m}, {})
          /\ UNCHANGED <<electionVars, logVars, memberVars, progressVars>>
       \/ /\ waits /\ m.term > currentTerm[n]
          /\ BecomeFollower(n, m.term)
          /\ Exchange({m}, {})
          /\ UNCHANGED <<elected, logVars, memberVars, progressVars>>
       \/ /\ waits /\ CountsVote(m)
          /\ IF WinsWith(n, granted)
             THEN BecomeLeader({m}, n, currentTerm[n])
             ELSE /\ votes' = [votes EXCEPT ![n] = granted]
                  /\ Exchange({m}, {})
                  /\ UNCHANGED <<role, recentLeader, elected, logVars, memberVars, progressVars>>
          /\ UNCHANGED <<currentTerm, votedFor>>
    /\ UNCHANGED <<recovering, restarts>>

-----------------------------------------------------------------------------
(* Log replication.                                                        *)

\* The answer to an AppendEntries call.  index is what the leader reads of it:
\* the last entry sent after a success, the follower's last entry (before the
\* request) after a failure.  The dispatcher hands only the term of the answer
\* to a read-quorum check to the ReadTracker.
AppendReply(m, t, success) ==
    IF m.type = "ReadQuorum"
    THEN [type |-> "ReadQuorumReply", from |-> m.to, to |-> m.from, seq |-> m.seq, term |-> t]
    ELSE [type |-> "AppendReply", from |-> m.to, to |-> m.from, sentTerm |-> m.term,
          prevIndex |-> m.prevIndex, term |-> t, success |-> success,
          index |-> IF success THEN m.prevIndex + Len(m.entries) ELSE Len(log[m.to])]

\* the request comes from a member and is not of an older term
AcceptsLeader(m) == m.from \in Members(m.to) /\ m.term >= currentTerm[m.to]

\* advance_commit_index_from_leader
FollowerCommit(n, lg, commit) ==
    IF commit > commitIndex[n] THEN MinOf(commit, Len(lg)) ELSE commitIndex[n]

HandleAppendEntries(m) ==
    LET n  == m.to
        lg == MergeEntries(log[n], m.prevIndex, m.entries)
        ci == FollowerCommit(n, lg, m.commit)
    IN  /\ m.type \in {"AppendEntries", "ReadQuorum"}
        /\ \/ /\ ~AcceptsLeader(m)
              /\ Exchange({m}, {AppendReply(m, currentTerm[n], FALSE)})
              /\ UNCHANGED <<electionVars, logVars, memberVars, recovering>>
           \/ /\ AcceptsLeader(m)
              /\ currentTerm' = [currentTerm EXCEPT ![n] = m.term]
              /\ votedFor' = [votedFor EXCEPT ![n] = IF m.term > currentTerm[n] THEN NONE ELSE @]
              /\ votes' = [votes EXCEPT ![n] = {}]
              /\ Exchange({m}, {AppendReply(m, m.term, PrevMatches(m))})
              /\ IF PrevMatches(m)
                 THEN /\ log' = [log EXCEPT ![n] = lg]
                      /\ recovering' = [recovering EXCEPT ![n] = FALSE]
                      /\ ApplyCommitted(n, m.term, lg, ci, "FOLLOWER", TRUE)
                 ELSE /\ role' = [role EXCEPT ![n] = "FOLLOWER"]
                      /\ recentLeader' = [recentLeader EXCEPT ![n] = TRUE]
                      /\ UNCHANGED <<logVars, memberVars, recovering>>
              /\ UNCHANGED elected
        /\ UNCHANGED <<progressVars, restarts>>

\* mutant: the index after the last entry sent
NextAfterOkPlusOne(n, m) == MaxOf(matchIndex[n][m.from], m.index + 1)

\* handle_append_ok and handle_append_failed
NextAfterOk(n, m) == MaxOf(matchIndex[n][m.from], m.index)

NextAfterFailure(n, m) ==
    LET cur  == nextIndex[n][m.from]
        hint == MinOf(m.index, Len(log[n])) + 1
    IN  MaxOf(IF hint >= cur /\ cur > 1 THEN cur - 1 ELSE hint, matchIndex[n][m.from] + 1)

\* the answer to this leadership's request at the current next index
AnswersCurrent(m) ==
    /\ m.term <= currentTerm[m.to] /\ m.sentTerm = currentTerm[m.to]
    /\ role[m.to] = "LEADER"
    /\ m.prevIndex + 1 = nextIndex[m.to][m.from]

HandleAppendResponse(m) ==
    LET n     == m.to
        p     == m.from
        match == [matchIndex[n] EXCEPT ![p] = NextAfterOk(n, m)]
        next  == [nextIndex[n] EXCEPT ![p] = NextAfterOk(n, m) + 1]
        ci    == NewCommit(n, currentTerm[n], log[n], commitIndex[n], match)
        out   == CommitBroadcast(n, currentTerm[n], log[n], commitIndex[n], ci, next)
    IN
    /\ m.type = "AppendReply"
    /\ \/ /\ recovering[n] \/ (m.term <= currentTerm[n] /\ ~AnswersCurrent(m))
          /\ Exchange({m}, {})
          /\ UNCHANGED <<electionVars, logVars, memberVars, progressVars>>
       \/ /\ ~recovering[n] /\ m.term > currentTerm[n]
          /\ BecomeFollower(n, m.term)
          /\ Exchange({m}, {})
          /\ UNCHANGED <<elected, logVars, memberVars, progressVars>>
       \/ /\ ~recovering[n] /\ AnswersCurrent(m) /\ m.success
          /\ IF ReadyLearners(n, match) = {}
             THEN /\ nextIndex' = [nextIndex EXCEPT ![n] =
                                     IF out = {} THEN next ELSE BroadcastNext(n, log[n], next)]
                  /\ matchIndex' = [matchIndex EXCEPT ![n] = match]
                  /\ Exchange({m}, out)
                  /\ ApplyCommitted(n, currentTerm[n], log[n], ci, "LEADER", FALSE)
                  /\ UNCHANGED log
             ELSE \E q \in ReadyLearners(n, match) :
                     LeaderAppend({m}, n, currentTerm[n],
                         Entry(currentTerm[n], "PROMOTE_VOTER", q), ci, next, match, {})
          /\ UNCHANGED <<currentTerm, votedFor, votes, elected>>
       \/ /\ ~recovering[n] /\ AnswersCurrent(m) /\ ~m.success
          /\ nextIndex' = [nextIndex EXCEPT ![n][p] = NextAfterFailure(n, m)]
          /\ Exchange({m}, {})
          /\ UNCHANGED <<electionVars, logVars, memberVars, matchIndex>>
    /\ UNCHANGED <<recovering, restarts>>

-----------------------------------------------------------------------------
(* Crash and recovery.                                                     *)

Replies == {"PreVoteReply", "VoteReply", "AppendReply", "ReadQuorumReply"}

\* RecoverCall without a snapshot: hard state lg, t and vote come from disk,
\* everything else is as in a new replica.  torn is need_recover: the WAL
\* ended in an incomplete record.  The calls the process waited for are gone.
Recover(n, lg, t, vote, torn) ==
    /\ restarts < MaxRestart
    /\ restarts' = restarts + 1
    /\ log' = [log EXCEPT ![n] = lg]
    /\ currentTerm' = [currentTerm EXCEPT ![n] = t]
    /\ votedFor' = [votedFor EXCEPT ![n] = vote]
    /\ role' = [role EXCEPT ![n] = "FOLLOWER"]
    /\ votes' = [votes EXCEPT ![n] = {}]
    /\ recentLeader' = [recentLeader EXCEPT ![n] = FALSE]
    /\ commitIndex' = [commitIndex EXCEPT ![n] = 0]
    /\ voters' = [voters EXCEPT ![n] = InitVoters]
    /\ learners' = [learners EXCEPT ![n] = {}]
    /\ nextIndex' = [nextIndex EXCEPT ![n] = [p \in Node |-> 0]]
    /\ matchIndex' = [matchIndex EXCEPT ![n] = [p \in Node |-> 0]]
    /\ recovering' = [recovering EXCEPT ![n] = torn]
    /\ msgs' = {m \in msgs : ~(m.to = n /\ m.type \in Replies)}
    /\ UNCHANGED <<elected, applied>>

\* mutants: the vote is not saved; the last WAL record is not synced
RestartForgetsVote(n) == Recover(n, log[n], currentTerm[n], NONE, FALSE)

RestartLosesTail(n) ==
    Recover(n, SubSeq(log[n], 1, Len(log[n]) - 1), currentTerm[n], votedFor[n], FALSE)

Restart(n) == \E torn \in BOOLEAN : Recover(n, log[n], currentTerm[n], votedFor[n], torn)

\* A crash inside handle_append_entries, after the hard state is saved and
\* before the WAL holds all new entries.  A rewrite replaces the file at once;
\* an append may leave some of the new entries.
CrashInAppend(m) ==
    LET n  == m.to
        lg == MergeEntries(log[n], m.prevIndex, m.entries)
    IN  /\ m.type = "AppendEntries"
        /\ AcceptsLeader(m) /\ PrevMatches(m) /\ lg # log[n]
        /\ \E len \in Len(log[n])..MaxOf(Len(log[n]), Len(lg) - 1), torn \in BOOLEAN :
              /\ (torn \/ len > Len(log[n])) => Extends(lg, log[n])
              /\ Recover(n, IF len = Len(log[n]) THEN log[n] ELSE SubSeq(lg, 1, len), m.term,
                         IF m.term > currentTerm[n] THEN NONE ELSE votedFor[n], torn)

-----------------------------------------------------------------------------
\* the dispatches other than client writes
Dispatch ==
    \/ \E n \in Node : TickLeader(n)
    \/ \E n \in Node : TickElection(n)
    \/ \E n \in Node, p \in AddTargets : EnsureAddLearner(n, p)
    \/ \E n \in Node, p \in RemoveTargets : EnsureRemoveMember(n, p)
    \/ \E m \in msgs : HandlePreVote(m)
    \/ \E m \in msgs : HandlePreVoteResponse(m)
    \/ \E m \in msgs : HandleRequestVote(m)
    \/ \E m \in msgs : HandleVoteResponse(m)
    \/ \E m \in msgs : HandleAppendEntries(m)
    \/ \E m \in msgs : HandleAppendResponse(m)

Crash(n) == Restart(n) \/ \E m \in msgs : m.to = n /\ CrashInAppend(m)

Next ==
    \/ \E n \in Node, v \in Request : Propose(n, v)
    \/ Dispatch
    \/ \E n \in Node : Crash(n)

Spec == Init /\ [][Next]_vars

-----------------------------------------------------------------------------
(* Properties.                                                             *)

\* append_entries_from_leader and the WAL rewrite: no step, a delayed request
\* or a crash included, removes or replaces an entry the replica has applied.
AppliedPrefixKept ==
    [][\A n \in Node : \A i \in 1..commitIndex[n] :
          i <= Len(log'[n]) /\ log'[n][i] = log[n][i]]_vars

\* hard_state: a term never decreases and a vote is never changed within its
\* term, across restarts and crashes between the two saves of one dispatch.
VoteKept == [][\A n \in Node : KeepsVote(n)]_vars

\* first_unapplied_config_entry guards every configuration proposal: of the
\* configuration entries in a leader's log, at most one is not applied by any
\* replica yet.
OnePendingConfig ==
    \A n \in Node : role[n] = "LEADER" =>
        Cardinality({i \in 1..Len(log[n]) :
            log[n][i].kind \in ConfigKinds /\ \A x \in applied : x[1] < i}) <= 1

\* promote_voter fails, and the replica faults for good, when the member is
\* unknown: no replica ever applies such an entry.
PromotionFindsMember ==
    [][\A n \in Node : \A i \in commitIndex[n]+1..commitIndex'[n] :
          \A x \in Node : Is(log'[n][i], "PROMOTE_VOTER", x) => MemberAfter(n, log'[n], x, i - 1)]_vars
=============================================================================
