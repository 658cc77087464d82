----------------------------- MODULE RaftState ------------------------------
(***************************************************************************)
(* The state of the Raft group of one shard, and what its replicas compute *)
(* of it: RaftCore (src/storage/raft) as the ReplicaLoop                   *)
(* (src/storage/replica) drives it. Module Raft has the handlers.          *)
(*                                                                         *)
(* Logs stay below the snapshot threshold (1000 entries) and the apply     *)
(* budget (256 entries), so no snapshot exists and last_applied equals     *)
(* commit_index between two dispatches.                                    *)
(***************************************************************************)
EXTENDS Integers, Sequences, FiniteSets

CONSTANTS
    Node,        \* the replicas that exist
    InitVoters,  \* the members every replica is created with
    Request,     \* client writes, each identified by its request id
    AddTargets,  \* replicas Meta may ask the leader to add
    RemoveTargets, \* replicas Meta may ask the leader to remove
    MaxBatch,    \* K_RAFT_MAX_APPEND_ENTRIES_PER_MESSAGE
    MaxTerm,     \* bound: no candidacy beyond this term
    MaxLog,      \* bound: nothing but no-ops is proposed on a longer log
    MaxNet,      \* bound: messages in flight
    MaxRestart,  \* bound: number of process restarts
    NONE         \* no vote, no payload

ASSUME NodeAssumption ==
    /\ IsFiniteSet(Node)
    /\ InitVoters \subseteq Node
    /\ NONE \notin Node
    /\ AddTargets \subseteq Node
    /\ RemoveTargets \subseteq Node
ASSUME BoundAssumption ==
    /\ MaxBatch \in Nat \ {0}
    /\ MaxTerm \in Nat
    /\ MaxLog \in Nat
    /\ MaxNet \in Nat
    /\ MaxRestart \in Nat

VARIABLES
    role, currentTerm, votedFor,   \* RaftElection
    votes,                         \* granted (pre-)votes of the current candidacy
    log, commitIndex,              \* RaftLog, RaftApply
    voters, learners,              \* RaftMembership
    nextIndex, matchIndex,         \* RaftReplication; 0 is "no entry in the map"
    recentLeader, recovering,      \* RaftCore flags
    msgs,                          \* RPC requests and responses in flight
    elected,                       \* history: <<term, node>> of every leadership
    applied,                       \* history: <<index, entry, term of the replica>> applied
    restarts                       \* restarts so far

electionVars == <<role, currentTerm, votedFor, votes, recentLeader, elected>>
logVars == <<log, commitIndex, applied>>
memberVars == <<voters, learners>>
progressVars == <<nextIndex, matchIndex>>
vars == <<electionVars, logVars, memberVars, progressVars, recovering, msgs, restarts>>

-----------------------------------------------------------------------------
(* Log entries.  kind is the WriteOpType: a client write, the no-op of a   *)
(* new leader, or a configuration change; arg is its request or replica.   *)

ConfigKinds == {"ADD_LEARNER", "PROMOTE_VOTER", "REMOVE_MEMBER"}

Entry(term, kind, arg) == [term |-> term, kind |-> kind, arg |-> arg]

Is(e, kind, arg) == e.kind = kind /\ e.arg = arg

LastTerm(lg) == IF lg = <<>> THEN 0 ELSE lg[Len(lg)].term

TermAt(lg, i) == IF i \in 1..Len(lg) THEN lg[i].term ELSE 0

\* mutant: the up-to-date check is missing
LaterThanOtherNever(n, term, index) == FALSE

\* later_than_other: n's log is strictly newer than <<term, index>>
LaterThanOther(n, term, index) ==
    IF LastTerm(log[n]) # term THEN LastTerm(log[n]) > term ELSE Len(log[n]) > index

\* mutant: half of an even group is a quorum
QuorumSizeHalf(n) == (Cardinality(voters[n]) + 1) \div 2

QuorumSize(n) == Cardinality(voters[n]) \div 2 + 1

HasQuorum(n, count) == count >= QuorumSize(n)

Members(n) == voters[n] \cup learners[n]

-----------------------------------------------------------------------------
(* Logs that are compared and merged.                                      *)

MinOf(a, b) == IF a <= b THEN a ELSE b

MaxOf(a, b) == IF a >= b THEN a ELSE b

\* mutant: the log is always cut at the request's previous index
MergeEntriesCut(lg, prev, entries) == SubSeq(lg, 1, prev) \o entries

\* append_entries_from_leader: entries already present with the same term are
\* kept; the first missing or different one cuts the log there
MergeEntries(lg, prev, entries) ==
    LET fresh == {j \in 1..Len(entries) :
                     prev + j > Len(lg) \/ lg[prev + j].term # entries[j].term}
        first == CHOOSE j \in fresh : \A k \in fresh : j <= k
    IN  IF fresh = {} THEN lg
        ELSE SubSeq(lg, 1, prev + first - 1) \o SubSeq(entries, first, Len(entries))

\* mutant: the previous entry must exist, whatever its term
PrevMatchesIndex(m) == m.prevIndex <= Len(log[m.to])

PrevMatches(m) == m.prevIndex > 0 => TermAt(log[m.to], m.prevIndex) = m.prevTerm

Extends(lg, base) == Len(lg) >= Len(base) /\ SubSeq(lg, 1, Len(base)) = base

-----------------------------------------------------------------------------
(* What a leader computes of the progress of its followers.                *)

\* broadcast_append_entries first gives a member it has no progress for the
\* index after its last entry
BroadcastNext(n, lg, next) ==
    [p \in Node |-> IF p \in Members(n) \ {n} /\ next[p] = 0 THEN Len(lg) + 1 ELSE next[p]]

\* mutant: entries of earlier terms are committed by counting replicas
CommittableAnyTerm(n, t, lg, ci, match) ==
    {i \in ci+1..Len(lg) :
        HasQuorum(n, 1 + Cardinality({p \in voters[n] \ {n} : match[p] >= i}))}

\* try_advance_commit_index: the leader counts itself and the voters whose
\* match index reached i, for entries of its own term
Committable(n, t, lg, ci, match) ==
    {i \in ci+1..Len(lg) :
        /\ lg[i].term = t
        /\ HasQuorum(n, 1 + Cardinality({p \in voters[n] \ {n} : match[p] >= i}))}

NewCommit(n, t, lg, ci, match) ==
    LET S == Committable(n, t, lg, ci, match)
    IN  IF S = {} THEN ci ELSE CHOOSE i \in S : \A j \in S : j <= i

-----------------------------------------------------------------------------
(* Messages.  The eight RPC workers of the dispatcher reorder messages; a  *)
(* failed call loses its request or its response, and send_failed changes  *)
(* nothing for the three calls below.                                      *)

\* a dispatch takes the messages got, none or one, and sends out
Exchange(got, out) ==
    \E delivered \in SUBSET out :
        /\ Cardinality((msgs \ got) \cup delivered) <= MaxNet
        /\ msgs' = (msgs \ got) \cup delivered

-----------------------------------------------------------------------------
Init ==
    /\ role = [n \in Node |-> "FOLLOWER"]
    /\ currentTerm = [n \in Node |-> 0]
    /\ votedFor = [n \in Node |-> NONE]
    /\ votes = [n \in Node |-> {}]
    /\ recentLeader = [n \in Node |-> FALSE]
    /\ elected = {}
    /\ log = [n \in Node |-> <<>>]
    /\ commitIndex = [n \in Node |-> 0]
    /\ applied = {}
    /\ voters = [n \in Node |-> InitVoters]
    /\ learners = [n \in Node |-> {}]
    /\ nextIndex = [n \in Node |-> [p \in Node |-> 0]]
    /\ matchIndex = [n \in Node |-> [p \in Node |-> 0]]
    /\ recovering = [n \in Node |-> FALSE]
    /\ msgs = {}
    /\ restarts = 0

-----------------------------------------------------------------------------
(* Properties.                                                             *)

Roles == {"FOLLOWER", "PRE_CANDIDATE", "CANDIDATE", "LEADER"}

EntrySet ==
    LET Of(kinds, args) == [term : Nat \ {0}, kind : kinds, arg : args]
    IN  Of({"WRITE"}, Request) \cup Of({"NOOP"}, {NONE})
          \cup Of({"ADD_LEARNER", "PROMOTE_VOTER"}, AddTargets) \cup Of({"REMOVE_MEMBER"}, RemoveTargets)

\* the voters the requested changes can lead to
VoterSets == {s \in SUBSET (InitVoters \cup AddTargets) : InitVoters \ s \subseteq RemoveTargets}

\* Types, and the bound handle_append_ok and build_append_entries_message rely
\* on: what a leader believes of a follower stays inside the leader's own log.
TypeOK ==
    /\ role \in [Node -> Roles]
    /\ currentTerm \in [Node -> Nat]
    /\ votedFor \in [Node -> Node \cup {NONE}]
    /\ votes \in [Node -> SUBSET Node]
    /\ log \in [Node -> Seq(EntrySet)]
    /\ commitIndex \in [Node -> Nat]
    /\ voters \in [Node -> VoterSets]
    /\ learners \in [Node -> SUBSET AddTargets]
    /\ nextIndex \in [Node -> [Node -> Nat]]
    /\ matchIndex \in [Node -> [Node -> Nat]]
    /\ recentLeader \in [Node -> BOOLEAN]
    /\ recovering \in [Node -> BOOLEAN]
    /\ elected \subseteq Nat \X Node
    /\ restarts \in Nat
    /\ \A n, p \in Node : role[n] = "LEADER" =>
          matchIndex[n][p] <= Len(log[n]) /\ nextIndex[n][p] <= Len(log[n]) + 1

\* One leader per term (become_leader): the votes saved by save(hard_state)
\* before an answer, the quorum of the voters and the vote that survives a
\* restart exclude a second winner, in whatever order answers arrive.
ElectionSafety == \A e, f \in elected : e[1] = f[1] => e[2] = f[2]

\* handle_append_entries: two logs that hold an entry of the same term at an
\* index agree up to that index.
LogMatching ==
    \A a, b \in Node : \A i \in 1..MinOf(Len(log[a]), Len(log[b])) :
        log[a][i].term = log[b][i].term => SubSeq(log[a], 1, i) = SubSeq(log[b], 1, i)

\* apply_committed_entries_inline: no two replicas, nor one replica before and
\* after a restart, ever apply different entries at an index.
StateMachineSafety == \A x, y \in applied : x[1] = y[1] => x[2] = y[2]

\* later_than_other and try_advance_commit_index together: the log of a leader
\* holds every entry that was applied in an earlier term.
LeaderCompleteness ==
    \A n \in Node : role[n] = "LEADER" =>
        \A x \in applied : x[3] < currentTerm[n] =>
            x[1] <= Len(log[n]) /\ log[n][x[1]] = x[2]

\* handle_append_ok: what a leader counts as replicated really is in the log
\* of every follower that has not moved to a later term, although answers are
\* delayed and reordered and followers restart with a torn WAL.
MatchIndexTrue ==
    \A n, p \in Node :
        (role[n] = "LEADER" /\ currentTerm[p] <= currentTerm[n]) =>
            LET i == matchIndex[n][p]
            IN  Len(log[p]) >= i /\ SubSeq(log[p], 1, i) = SubSeq(log[n], 1, i)

KeepsVote(n) ==
    /\ currentTerm'[n] >= currentTerm[n]
    /\ currentTerm'[n] = currentTerm[n] /\ votedFor[n] # NONE => votedFor'[n] = votedFor[n]
=============================================================================
