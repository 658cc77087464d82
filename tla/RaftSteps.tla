----------------------------- MODULE RaftSteps ------------------------------
(***************************************************************************)
(* What every action of the group does to types and votes, whatever the    *)
(* members of the group are.  First, it keeps TypeInv.  Then, it is a      *)
(* BallotStep, so that VoteKept holds; and a group whose membership does   *)
(* not change keeps BallotInv: it is the vote of every member, saved before*)
(* it is sent, that excludes a second leader of a term.                    *)
(***************************************************************************)
EXTENDS Raft, RaftInvariant

-----------------------------------------------------------------------------
(* What the messages of the handlers say.                                  *)

NoVotes(out) == \A m \in out : m.type \notin {"RequestVote", "VoteReply"}

\* build_append_entries_message asks for no vote and gives none.
LEMMA AppendsCarryNoVotes ==
    ASSUME NEW n, NEW t, NEW lg, NEW ci, NEW next
    PROVE  NoVotes(Broadcast(n, t, lg, ci, next))
BY DEF NoVotes, Broadcast, AppendRequest

\* What send_pre_vote_to and send_request_vote_to say of the candidate.
LEMMA VoteRequestsSay ==
    ASSUME NEW n, NEW t
    PROVE  /\ \A m \in VoteRequests(n, "RequestVote", t) :
                  /\ m.type = "RequestVote" /\ m.from = n /\ m.term = t
                  /\ m.lastTerm = LastTerm(log[n]) /\ m.lastIndex = Len(log[n])
           /\ \A m \in VoteRequests(n, "PreVote", t) : m.type = "PreVote"
BY DEF VoteRequests

\* handle_append_entries answers with neither.
LEMMA AppendReplyCarriesNoVote ==
    ASSUME NEW m, NEW t, NEW ok
    PROVE  NoVotes({AppendReply(m, t, ok)})
BY DEF NoVotes, AppendReply

\* A term is later than another one, or the same.
LEMMA TermOrder ==
    ASSUME NEW a \in Nat, NEW b \in Nat, a >= b
    PROVE  (a > b /\ a # b) \/ (~(a > b) /\ a = b)
BY SMT

-----------------------------------------------------------------------------
(* Types: what the parts that actions share do to them, then the actions.  *)

\* a request of leader n in term t that stays inside a log of length len
AppendOf(m, n, t, len) ==
    /\ m.type = "AppendEntries" /\ m.from = n /\ m.to \in Node /\ m.term = t
    /\ m.prevIndex \in Nat /\ m.entries \in Seq(EntrySet) /\ m.commit \in Nat
    /\ m.prevIndex > 0 => m.prevTerm \in Nat \ {0}
    /\ m.prevIndex + Len(m.entries) <= len

\* A request that lies inside a log lies inside a longer one.
LEMMA AppendOfLonger ==
    ASSUME NEW m, NEW n, NEW t, NEW a \in Nat, NEW b \in Nat, a <= b, AppendOf(m, n, t, a)
    PROVE  AppendOf(m, n, t, b)
<1>1. PICK x \in Nat : x = m.prevIndex + Len(m.entries) BY DEF AppendOf
<1>2. x <= a BY Zenon, <1>1 DEF AppendOf
<1>3. x <= b BY <1>2
<1> QED BY Zenon, <1>1, <1>3 DEF AppendOf

\* build_append_entries_message: every request of a broadcast lies inside the
\* leader's log.
LEMMA BroadcastType ==
    ASSUME TypeOK, NEW n \in Node, NEW t, NEW lg \in Seq(EntrySet), NEW ci \in Nat,
           NEW next \in [Node -> Nat], \A p \in Node : next[p] <= Len(lg) + 1
    PROVE  \A m \in Broadcast(n, t, lg, ci, next) : AppendOf(m, n, t, Len(lg))
<1> DEFINE nxt == BroadcastNext(n, lg, next)
<1>1. /\ nxt \in [Node -> Nat]
      /\ \A p \in Members(n) \ {n} : p \in Node /\ nxt[p] \in 1..Len(lg) + 1
    BY BroadcastNextType
<1> SUFFICES ASSUME NEW p \in Members(n) \ {n}
             PROVE  AppendOf(AppendRequest(n, p, t, lg, ci, nxt), n, t, Len(lg))
    BY Zenon DEF Broadcast
<1> DEFINE prev == nxt[p] - 1
           last == MinOf(Len(lg), prev + MaxBatch)
           es   == SubSeq(lg, nxt[p], last)
<1> HIDE DEF nxt
<1>2. /\ prev \in 0..Len(lg) /\ last \in prev..Len(lg) /\ last \in Int /\ nxt[p] \in 1..Len(lg) + 1
      /\ Len(lg) \in Nat
    BY <1>1, BoundAssumption DEF MinOf
<1>3. es \in Seq(EntrySet) /\ prev + Len(es) <= Len(lg)
    <2>1. \A i \in nxt[p]..last : lg[i] \in EntrySet BY <1>2
    <2>2. es \in Seq(EntrySet) /\ Len(es) = IF nxt[p] <= last THEN last - nxt[p] + 1 ELSE 0
        <3> HIDE DEF last
        <3> QED BY <1>2, <2>1
    <2> QED BY <1>2, <2>2
<1>4. ASSUME prev > 0 PROVE TermAt(lg, prev) \in Nat \ {0}
    <2>1. prev \in 1..Len(lg) BY <1>2, <1>4
    <2> HIDE DEF prev
    <2>2. lg[prev] \in EntrySet BY <2>1
    <2>3. lg[prev].term \in Nat \ {0} BY Zenon, <2>2 DEF EntrySet
    <2> QED BY Zenon, <2>1, <2>3 DEF TermAt
<1> QED BY <1>1, <1>2, <1>3, <1>4 DEF AppendRequest, AppendOf

-----------------------------------------------------------------------------
(* Parts of steps.                                                         *)

\* apply_committed_entries_inline leaves well-typed commit indices and
\* members, and changes the role of n to follower if at all.
LEMMA ApplyCommittedType ==
    ASSUME TypeOK, NEW n \in Node, NEW t, NEW lg \in Seq(EntrySet), NEW ci \in Nat, NEW r \in Roles,
           ci > commitIndex[n] => ci <= Len(lg),
           NEW recent \in BOOLEAN, ApplyCommitted(n, t, lg, ci, r, recent)
    PROVE  /\ commitIndex' \in [Node -> Nat]
           /\ voters' \in [Node -> VoterSets] /\ learners' \in [Node -> SUBSET AddTargets]
           /\ role' \in [Node -> Roles] /\ role'[n] \in {r, "FOLLOWER"}
           /\ \A k \in Node \ {n} : role'[k] = role[k]
           /\ recentLeader' \in [Node -> BOOLEAN]
<1> DEFINE down == StepsDown(n, lg, ci)
           vs   == {x \in Node : VoterAfter(n, lg, x, ci)}
           ls   == {x \in Node : MemberAfter(n, lg, x, ci)} \ vs
<1>1. /\ commitIndex' = [commitIndex EXCEPT ![n] = ci]
      /\ voters' = [voters EXCEPT ![n] = vs]
      /\ learners' = [learners EXCEPT ![n] = ls]
      /\ role' = [role EXCEPT ![n] = IF down THEN "FOLLOWER" ELSE r]
      /\ recentLeader' = [recentLeader EXCEPT ![n] = recent /\ ~down]
    BY Zenon DEF ApplyCommitted
<1>a. \A q \in commitIndex[n]+1..ci : lg[q] \in EntrySet
    BY DEF TypeOK
<1>b. \A q \in commitIndex[n]+1..ci, x \in Node :
         /\ Is(lg[q], "PROMOTE_VOTER", x) => x \in AddTargets
         /\ Is(lg[q], "ADD_LEARNER", x) => x \in AddTargets
         /\ Is(lg[q], "REMOVE_MEMBER", x) => x \in RemoveTargets
    BY Zenon, <1>a DEF Is, EntrySet
<1>c. voters[n] \in VoterSets /\ learners[n] \in SUBSET AddTargets BY Zenon DEF TypeOK
<1>2. vs \in VoterSets /\ ls \in SUBSET AddTargets
    <2>1. \A x \in Node : VoterAfter(n, lg, x, ci) => x \in voters[n] \cup AddTargets
        BY Zenon, <1>b DEF VoterAfter
    <2>2. \A x \in voters[n] : VoterAfter(n, lg, x, ci) \/ x \in RemoveTargets
        BY Zenon, <1>b, <1>c, NodeAssumption DEF VoterAfter, Keeps, VoterSets
    <2>3. \A x \in Node : MemberAfter(n, lg, x, ci) => VoterAfter(n, lg, x, ci) \/ x \in AddTargets
        BY Zenon, <1>b, <1>c DEF MemberAfter, Members, VoterAfter
    <2>4. vs \in SUBSET (InitVoters \cup AddTargets) BY Zenon, <1>c, <2>1 DEF VoterSets
    <2>5. InitVoters \ vs \subseteq RemoveTargets BY Zenon, <1>c, <2>2, NodeAssumption DEF VoterSets
    <2> QED BY Zenon, <2>3, <2>4, <2>5 DEF VoterSets
<1> HIDE DEF down, vs, ls
<1>3. "FOLLOWER" \in Roles BY Zenon DEF Roles
<1>4. recentLeader' \in [Node -> BOOLEAN] BY Zenon, <1>1 DEF TypeOK
<1> QED BY Zenon, <1>1, <1>2, <1>3, <1>4 DEF TypeOK

\* the parts of the state that propose changes stay well typed, and n still
\* leads or has left
LeaderAppended(n, t) ==
    /\ log' \in [Node -> Seq(EntrySet)] /\ commitIndex' \in [Node -> Nat]
    /\ voters' \in [Node -> VoterSets] /\ learners' \in [Node -> SUBSET AddTargets]
    /\ nextIndex' \in [Node -> [Node -> Nat]] /\ matchIndex' \in [Node -> [Node -> Nat]]
    /\ role' \in [Node -> Roles] /\ role'[n] \in {"LEADER", "FOLLOWER"}
    /\ recentLeader' \in [Node -> BOOLEAN]
    /\ Len(log'[n]) >= Len(log[n])
    /\ \A p \in Node : matchIndex'[n][p] <= Len(log'[n]) /\ nextIndex'[n][p] <= Len(log'[n]) + 1
    /\ \A k \in Node \ {n} :
          /\ role'[k] = role[k] /\ log'[k] = log[k]
          /\ nextIndex'[k] = nextIndex[k] /\ matchIndex'[k] = matchIndex[k]
    /\ \A m \in msgs' : m \in msgs \/ AppendOf(m, n, t, Len(log'[n]))

\* propose keeps the leader's progress inside its longer log and sends only
\* requests inside it.
LEMMA LeaderAppendStep ==
    ASSUME NatWellOrdered, TypeOK, NEW n \in Node, NEW t, NEW e \in EntrySet, NEW ci \in Nat,
           NEW next \in [Node -> Nat], NEW match \in [Node -> Nat], NEW got, NEW out,
           \A p \in Node : match[p] <= Len(log[n]) /\ next[p] <= Len(log[n]) + 1,
           \A m \in out : AppendOf(m, n, t, Len(log[n])),
           ci > commitIndex[n] => ci <= Len(log[n]),
           LeaderAppend(got, n, t, e, ci, next, match, out)
    PROVE  LeaderAppended(n, t)
<1> DEFINE lg    == Append(log[n], e)
           nxt   == BroadcastNext(n, lg, next)
           newCi == IF HasQuorum(n, 1) THEN NewCommit(n, t, lg, ci, match) ELSE ci
           sent  == out \cup Broadcast(n, t, lg, ci, nxt) \cup CommitBroadcast(n, t, lg, ci, newCi, nxt)
<1>1. /\ log' = [log EXCEPT ![n] = lg]
      /\ nextIndex' = [nextIndex EXCEPT ![n] = nxt]
      /\ matchIndex' = [matchIndex EXCEPT ![n] = match]
      /\ Exchange(got, sent)
      /\ ApplyCommitted(n, t, lg, newCi, "LEADER", FALSE)
    BY Zenon DEF LeaderAppend
<1>2. /\ log[n] \in Seq(EntrySet) /\ Len(log[n]) \in Nat
      /\ lg \in Seq(EntrySet) /\ Len(lg) = Len(log[n]) + 1
    BY DEF TypeOK
<1> HIDE DEF lg
<1>3. /\ nxt \in [Node -> Nat]
      /\ \A p \in Node : nxt[p] <= Len(lg) + 1
    <2>1. \A p \in Node : next[p] <= Len(lg) + 1 BY <1>2
    <2> QED BY Zenon, <1>2, <2>1, BroadcastNextType
<1> HIDE DEF nxt
<1>4. newCi \in Nat /\ (newCi > commitIndex[n] => newCi <= Len(lg))
    BY <1>2, NewCommitType DEF TypeOK
<1> HIDE DEF newCi
<1>5. \A m \in sent : AppendOf(m, n, t, Len(lg))
    <2>1. \A m \in Broadcast(n, t, lg, ci, nxt) : AppendOf(m, n, t, Len(lg))
        BY Zenon, <1>2, <1>3, BroadcastType
    <2>2. \A m \in Broadcast(n, t, lg, newCi, nxt) : AppendOf(m, n, t, Len(lg))
        BY Zenon, <1>2, <1>3, <1>4, BroadcastType
    <2>3. \A m \in out : AppendOf(m, n, t, Len(lg))
        <3>1. Len(lg) \in Nat /\ Len(log[n]) <= Len(lg) BY <1>2
        <3> QED BY Zenon, <1>2, <3>1, AppendOfLonger
    <2> QED BY Zenon, <2>1, <2>2, <2>3 DEF CommitBroadcast
<1> HIDE DEF sent
<1>6. \A m \in msgs' : m \in msgs \/ AppendOf(m, n, t, Len(lg)) BY Zenon, <1>1, <1>5, ExchangeSends
<1>7. "LEADER" \in Roles /\ FALSE \in BOOLEAN BY Zenon DEF Roles
<1>8. /\ commitIndex' \in [Node -> Nat]
      /\ voters' \in [Node -> VoterSets] /\ learners' \in [Node -> SUBSET AddTargets]
      /\ role' \in [Node -> Roles] /\ role'[n] \in {"LEADER", "FOLLOWER"}
      /\ \A k \in Node \ {n} : role'[k] = role[k]
      /\ recentLeader' \in [Node -> BOOLEAN]
    BY Zenon, <1>1, <1>2, <1>4, <1>7, ApplyCommittedType
<1>9. log'[n] = lg /\ nextIndex'[n] = nxt /\ matchIndex'[n] = match BY Zenon, <1>1 DEF TypeOK
<1>10. /\ log' \in [Node -> Seq(EntrySet)]
       /\ nextIndex' \in [Node -> [Node -> Nat]] /\ matchIndex' \in [Node -> [Node -> Nat]]
       /\ \A k \in Node \ {n} :
             log'[k] = log[k] /\ nextIndex'[k] = nextIndex[k] /\ matchIndex'[k] = matchIndex[k]
    BY Zenon, <1>1, <1>2, <1>3 DEF TypeOK
<1>11. \A p \in Node : matchIndex'[n][p] <= Len(log'[n]) /\ nextIndex'[n][p] <= Len(log'[n]) + 1
    BY <1>2, <1>3, <1>9
<1>12. Len(log'[n]) >= Len(log[n]) /\ \A m \in msgs' : m \in msgs \/ AppendOf(m, n, t, Len(log'[n]))
    <2>1. Len(log'[n]) >= Len(log[n]) BY <1>2, <1>9
    <2> QED BY Zenon, <1>6, <1>9, <2>1
<1> QED BY Zenon, <1>8, <1>10, <1>11, <1>12 DEF LeaderAppended

-----------------------------------------------------------------------------
(* Steps.                                                                  *)

\* what a step may do to a replica k without breaking SentBy: enter a later
\* term, stop leading, keep its role and a log as long, or end a candidacy
Advances(k) ==
    \/ currentTerm'[k] > currentTerm[k]
    \/ /\ currentTerm'[k] = currentTerm[k]
       /\ \/ role'[k] \notin {"CANDIDATE", "LEADER"}
          \/ role'[k] = role[k] /\ Len(log'[k]) >= Len(log[k])
          \/ role[k] = "CANDIDATE" /\ role'[k] = "LEADER"

\* A replica that a step leaves alone.
LEMMA RestAdvances ==
    ASSUME NEW k, Len(log[k]) \in Nat, currentTerm'[k] = currentTerm[k], role'[k] = role[k], log'[k] = log[k]
    PROVE  Advances(k)
<1>1. PICK len \in Nat : len = Len(log[k]) BY Zenon
<1>2. len >= len BY SMT
<1> QED BY Zenon, <1>1, <1>2 DEF Advances

\* A request sent earlier stays inside the log of a leader that advances.
LEMMA SentByKept ==
    ASSUME TypeOK, TypeOK', NEW k \in Node, Advances(k), NEW t \in Nat, NEW i \in Nat, SentBy(k, t, i)
    PROVE  SentBy(k, t, i)'
<1>1. /\ currentTerm[k] \in Nat /\ currentTerm'[k] \in Nat
      /\ Len(log[k]) \in Nat /\ Len(log'[k]) \in Nat
    BY DEF TypeOK
<1> QED BY <1>1 DEF Advances, SentBy

\* TypeInv is kept by a step that keeps the types, lets every replica advance
\* and sends only messages that satisfy it.
LEMMA TypeInvKept ==
    ASSUME TypeInv, TypeOK', \A k \in Node : Advances(k),
           \A m \in msgs' : m \in msgs \/ (MsgOK(m) /\ LeaderSent(m)')
    PROVE  TypeInv'
<1>0. TermPositive'
    <2> SUFFICES ASSUME NEW k \in Node, role'[k] \in {"CANDIDATE", "LEADER"}
                 PROVE  currentTerm'[k] # 0
        BY Zenon DEF TermPositive
    <2>1. currentTerm[k] \in Nat /\ currentTerm'[k] \in Nat BY Zenon DEF TypeInv, TypeOK
    <2>2. Advances(k) BY Zenon
    <2> QED BY <2>1, <2>2 DEF TypeInv, TermPositive, Advances
<1> SUFFICES ASSUME NEW m \in msgs, MsgOK(m), LeaderSent(m)
             PROVE  LeaderSent(m)'
    BY Zenon, <1>0 DEF TypeInv
<1>1. CASE m.type = "AppendEntries"
    <2>1. m.from \in Node /\ m.term \in Nat /\ m.prevIndex + Len(m.entries) \in Nat
        BY <1>1 DEF MsgOK
    <2>2. SentBy(m.from, m.term, m.prevIndex + Len(m.entries)) BY Zenon, <1>1 DEF LeaderSent
    <2>3. SentBy(m.from, m.term, m.prevIndex + Len(m.entries))'
        BY Zenon, <2>1, <2>2, SentByKept DEF TypeInv
    <2> QED BY Zenon, <1>1, <2>3 DEF LeaderSent
<1>2. CASE m.type = "AppendReply" /\ m.success
    <2>1. m.to \in Node /\ m.sentTerm \in Nat /\ m.index \in Nat BY Zenon, <1>2 DEF MsgOK
    <2>2. SentBy(m.to, m.sentTerm, m.index) BY Zenon, <1>2 DEF LeaderSent
    <2>3. SentBy(m.to, m.sentTerm, m.index)' BY Zenon, <2>1, <2>2, SentByKept DEF TypeInv
    <2> QED BY Zenon, <1>2, <2>3 DEF LeaderSent
<1> QED BY Zenon, <1>1, <1>2 DEF LeaderSent

\* the rest of the state is well typed, and only n changes its term
RestTyped(n, t) ==
    /\ currentTerm' = [currentTerm EXCEPT ![n] = t]
    /\ votedFor' \in [Node -> Node \cup {NONE}] /\ votes' \in [Node -> SUBSET Node]
    /\ recovering' \in [Node -> BOOLEAN] /\ elected' \subseteq Nat \X Node /\ restarts' \in Nat

\* A step in which a leader, or a candidate that wins, proposes keeps TypeInv.
LEMMA LeaderAppendedKeeps ==
    ASSUME TypeInv, NEW n \in Node, NEW t \in Nat, LeaderAppended(n, t), RestTyped(n, t),
           \/ t > currentTerm[n]
           \/ t = currentTerm[n] /\ role[n] \in {"CANDIDATE", "LEADER"}
    PROVE  TypeInv'
<1>1. /\ currentTerm'[n] = t /\ \A k \in Node \ {n} : currentTerm'[k] = currentTerm[k]
      /\ currentTerm' \in [Node -> Nat] /\ currentTerm \in [Node -> Nat]
    BY Zenon DEF RestTyped, TypeInv, TypeOK
<1>2. TypeOK'
    <2>1. \A k, p \in Node : role'[k] = "LEADER" =>
              matchIndex'[k][p] <= Len(log'[k]) /\ nextIndex'[k][p] <= Len(log'[k]) + 1
        BY Zenon DEF LeaderAppended, TypeInv, TypeOK
    <2> QED BY Zenon, <1>1, <2>1 DEF LeaderAppended, RestTyped, TypeOK
<1>3. \A k \in Node : Advances(k)
    <2>1. Advances(n)
        BY Zenon, <1>1 DEF Advances, LeaderAppended
    <2>2. \A k \in Node \ {n} : Advances(k)
        BY <1>1 DEF Advances, LeaderAppended, TypeInv, TypeOK
    <2> QED BY Zenon, <2>1, <2>2
<1>4. ASSUME NEW m \in msgs', m \notin msgs PROVE MsgOK(m) /\ LeaderSent(m)'
    <2>1. AppendOf(m, n, t, Len(log'[n])) BY Zenon, <1>4 DEF LeaderAppended
    <2>2. role'[n] # "CANDIDATE" BY Zenon DEF LeaderAppended
    <2> QED BY <1>1, <2>1, <2>2 DEF AppendOf, MsgOK, LeaderSent, SentBy
<1> QED BY Zenon, <1>2, <1>3, <1>4, TypeInvKept

\* propose for a client write or a configuration change keeps TypeInv.
LEMMA ProposeKeeps ==
    ASSUME NatWellOrdered, TypeInv, NEW n \in Node, NEW e \in EntrySet, NEW ci \in Nat, NEW got, NEW out,
           NEW next \in [Node -> Nat], NEW match \in [Node -> Nat],
           \A p \in Node : match[p] <= Len(log[n]) /\ next[p] <= Len(log[n]) + 1,
           \A m \in out : AppendOf(m, n, currentTerm[n], Len(log[n])),
           ci > commitIndex[n] => ci <= Len(log[n]),
           role[n] = "LEADER",
           LeaderAppend(got, n, currentTerm[n], e, ci, next, match, out),
           UNCHANGED <<currentTerm, votedFor, votes, elected, recovering, restarts>>
    PROVE  TypeInv'
<1>1. LeaderAppended(n, currentTerm[n]) BY Zenon, LeaderAppendStep DEF TypeInv
<1>2. currentTerm[n] \in Nat /\ RestTyped(n, currentTerm[n]) BY Zenon DEF RestTyped, TypeInv, TypeOK
<1> QED BY Zenon, <1>1, <1>2, LeaderAppendedKeeps

\* become_leader keeps TypeInv: the new leader starts from its own log.
LEMMA BecomeLeaderKeeps ==
    ASSUME NatWellOrdered, TypeInv, NEW n \in Node, NEW t \in Nat \ {0}, NEW got, BecomeLeader(got, n, t),
           currentTerm' = [currentTerm EXCEPT ![n] = t], votedFor' \in [Node -> Node \cup {NONE}],
           UNCHANGED <<recovering, restarts>>,
           \/ t > currentTerm[n]
           \/ t = currentTerm[n] /\ role[n] \in {"CANDIDATE", "LEADER"}
    PROVE  TypeInv'
<1> DEFINE next  == [p \in Node |-> IF p \in Members(n) \ {n} THEN Len(log[n]) + 1 ELSE 0]
           match == [p \in Node |-> 0]
           e     == Entry(t, "NOOP", NONE)
           out   == {}
<1>1. Len(log[n]) \in Nat BY DEF TypeInv, TypeOK
<1>2. /\ next \in [Node -> Nat] /\ match \in [Node -> Nat]
      /\ \A p \in Node : match[p] <= Len(log[n]) /\ next[p] <= Len(log[n]) + 1
    BY <1>1
<1>3. e \in EntrySet BY Zenon DEF Entry, EntrySet
<1>4. LeaderAppend(got, n, t, e, commitIndex[n], next, match, out) BY Zenon DEF BecomeLeader
<1>5. /\ commitIndex[n] \in Nat /\ TypeOK
      /\ commitIndex[n] > commitIndex[n] => commitIndex[n] <= Len(log[n])
    <2>1. TypeOK /\ commitIndex[n] \in Nat BY Zenon DEF TypeInv, TypeOK
    <2> QED BY <2>1
<1>6. \A m \in out : AppendOf(m, n, t, Len(log[n])) BY Zenon
<1> HIDE DEF next, match, e, out
<1>8. LeaderAppended(n, t) BY Zenon, <1>2, <1>3, <1>4, <1>5, <1>6, LeaderAppendStep
<1>7. RestTyped(n, t)
    <2>1. elected' \subseteq Nat \X Node
        <3>1. elected' = elected \cup {<<t, n>>} /\ elected \subseteq Nat \X Node
            BY Zenon DEF BecomeLeader, TypeInv, TypeOK
        <3> QED BY <3>1
    <2>2. votes' \in [Node -> SUBSET Node] BY Zenon DEF BecomeLeader, TypeInv, TypeOK
    <2> QED BY Zenon, <2>1, <2>2 DEF RestTyped, TypeInv, TypeOK
<1> QED BY Zenon, <1>7, <1>8, LeaderAppendedKeeps

\* no message of the set is an append request or its answer
PlainMessages(out) ==
    \A m \in out : /\ m.from \in Node /\ m.to \in Node /\ m.term \in Nat
                   /\ m.type \notin {"AppendEntries", "ReadQuorum", "AppendReply"}

\* send_pre_vote_to and send_request_vote_to address voters of the group.
LEMMA VoteRequestsPlain ==
    ASSUME TypeInv, NEW n \in Node, NEW t \in Nat, NEW kind \in {"PreVote", "RequestVote"}
    PROVE  PlainMessages(VoteRequests(n, kind, t))
<1>1. voters[n] \in VoterSets BY Zenon DEF TypeInv, TypeOK
<1>2. voters[n] \subseteq Node BY Zenon, <1>1, NodeAssumption DEF VoterSets
<1> QED BY <1>2 DEF PlainMessages, VoteRequests

\* A step that changes terms, votes and roles of n alone, and sends no append
\* request, keeps TypeInv: this covers pre-votes, votes and stepping down.
LEMMA ElectionStepKeeps ==
    ASSUME TypeInv, NEW n \in Node, NEW t \in Nat, NEW got, NEW out,
           Exchange(got, out), PlainMessages(out),
           RestTyped(n, t), role' \in [Node -> Roles], recentLeader' \in [Node -> BOOLEAN],
           \A k \in Node \ {n} : role'[k] = role[k],
           \/ t > currentTerm[n] /\ role'[n] # "LEADER"
           \/ t = currentTerm[n] /\ role'[n] \notin {"CANDIDATE", "LEADER"}
           \/ t = currentTerm[n] /\ role'[n] = role[n],
           UNCHANGED <<logVars, memberVars, progressVars>>
    PROVE  TypeInv'
<1>1. /\ currentTerm'[n] = t /\ \A k \in Node \ {n} : currentTerm'[k] = currentTerm[k]
      /\ currentTerm' \in [Node -> Nat] /\ \A k \in Node : Len(log[k]) \in Nat
    BY DEF RestTyped, TypeInv, TypeOK
<1>2. log' = log /\ commitIndex' = commitIndex /\ voters' = voters /\ learners' = learners
      /\ nextIndex' = nextIndex /\ matchIndex' = matchIndex
    BY Zenon DEF logVars, memberVars, progressVars
<1>3. TypeOK'
    <2>1. \A k \in Node : role'[k] = "LEADER" => role[k] = "LEADER" BY Zenon
    <2> QED BY Zenon, <1>1, <1>2, <2>1 DEF RestTyped, TypeInv, TypeOK
<1>4. \A k \in Node : Advances(k) BY <1>1, <1>2 DEF Advances
<1>5. ASSUME NEW m \in msgs', m \notin msgs PROVE MsgOK(m) /\ LeaderSent(m)'
    <2>1. m \in out BY Zenon, <1>5, ExchangeSends
    <2> QED BY Zenon, <2>1 DEF PlainMessages, MsgOK, LeaderSent
<1> QED BY Zenon, <1>3, <1>4, <1>5, TypeInvKept

\* become_candidate keeps TypeInv.
LEMMA BecomeCandidateKeeps ==
    ASSUME NatWellOrdered, TypeInv, NEW n \in Node, NEW got, BecomeCandidate(got, n), UNCHANGED <<recovering, restarts>>
    PROVE  TypeInv'
<1> DEFINE t == currentTerm[n] + 1
<1>1. t \in Nat \ {0} /\ t > currentTerm[n] BY DEF TypeInv, TypeOK
<1>2. currentTerm' = [currentTerm EXCEPT ![n] = t] /\ votedFor' = [votedFor EXCEPT ![n] = n]
    BY Zenon DEF BecomeCandidate
<1>3. votedFor' \in [Node -> Node \cup {NONE}] BY Zenon, <1>2 DEF TypeInv, TypeOK
<1>4. CASE HasQuorum(n, 1)
    <2>1. BecomeLeader(got, n, t) BY Zenon, <1>4 DEF BecomeCandidate
    <2> HIDE DEF t
    <2> QED BY Zenon, <1>1, <1>2, <1>3, <2>1, BecomeLeaderKeeps
<1>5. CASE ~HasQuorum(n, 1)
    <2> DEFINE out == VoteRequests(n, "RequestVote", t)
    <2>1. /\ role' = [role EXCEPT ![n] = "CANDIDATE"]
          /\ votes' = [votes EXCEPT ![n] = {n}]
          /\ recentLeader' = [recentLeader EXCEPT ![n] = FALSE]
          /\ Exchange(got, out) /\ elected' = elected
          /\ UNCHANGED <<logVars, memberVars, progressVars>>
        BY Zenon, <1>5 DEF BecomeCandidate
    <2>2. PlainMessages(out) BY Zenon, <1>1, VoteRequestsPlain
    <2> HIDE DEF t, out
    <2>3. RestTyped(n, t)
        <3>1. votes' \in [Node -> SUBSET Node] BY Zenon, <2>1 DEF TypeInv, TypeOK
        <3> QED BY Zenon, <1>2, <1>3, <2>1, <3>1 DEF RestTyped, TypeInv, TypeOK
    <2>4. /\ role' \in [Node -> Roles] /\ recentLeader' \in [Node -> BOOLEAN]
          /\ \A k \in Node \ {n} : role'[k] = role[k]
          /\ role'[n] # "LEADER"
        BY Zenon, <2>1 DEF TypeInv, TypeOK, Roles
    <2> QED BY Zenon, <1>1, <2>1, <2>2, <2>3, <2>4, ElectionStepKeeps
<1> QED BY Zenon, <1>4, <1>5

\* become_follower in a later term keeps TypeInv.
LEMMA BecomeFollowerKeeps ==
    ASSUME TypeInv, NEW n \in Node, NEW t \in Nat, t > currentTerm[n], NEW got,
           BecomeFollower(n, t), Exchange(got, {}),
           UNCHANGED <<elected, logVars, memberVars, progressVars, recovering, restarts>>
    PROVE  TypeInv'
<1> DEFINE out == {}
<1>1. Exchange(got, out) /\ PlainMessages(out) BY Zenon DEF PlainMessages
<1> HIDE DEF out
<1>2. RestTyped(n, t)
    <2>1. votedFor' \in [Node -> Node \cup {NONE}] /\ votes' \in [Node -> SUBSET Node]
        BY Zenon DEF BecomeFollower, TypeInv, TypeOK
    <2> QED BY Zenon, <2>1 DEF RestTyped, BecomeFollower, TypeInv, TypeOK
<1>3. /\ role' \in [Node -> Roles] /\ recentLeader' \in [Node -> BOOLEAN]
      /\ \A k \in Node \ {n} : role'[k] = role[k]
      /\ role'[n] # "LEADER"
    BY Zenon DEF BecomeFollower, TypeInv, TypeOK, Roles
<1> QED BY Zenon, <1>1, <1>2, <1>3, ElectionStepKeeps

\* A dispatch that only consumes a message keeps TypeInv.
LEMMA IgnoredKeeps ==
    ASSUME TypeInv, NEW got, NEW out, Exchange(got, out), PlainMessages(out),
           UNCHANGED <<electionVars, logVars, memberVars, progressVars, recovering, restarts>>
    PROVE  TypeInv'
<1>1. TypeOK' BY Zenon DEF TypeInv, TypeOK, electionVars, logVars, memberVars, progressVars
<1>2. \A k \in Node : Len(log[k]) \in Nat BY DEF TypeInv, TypeOK
<1>3. \A k \in Node : Advances(k) BY <1>2 DEF Advances, electionVars, logVars
<1>4. ASSUME NEW m \in msgs', m \notin msgs PROVE MsgOK(m) /\ LeaderSent(m)'
    <2>1. m \in out BY Zenon, <1>4, ExchangeSends
    <2> QED BY Zenon, <2>1 DEF PlainMessages, MsgOK, LeaderSent
<1> QED BY Zenon, <1>1, <1>3, <1>4, TypeInvKept

\* Moving the index a leader keeps for one peer keeps the indices numbers within
\* a bound (on_append_response assigns match_index and next_index).
LEMMA IndexMoved ==
    ASSUME NEW f \in [Node -> Nat], NEW p \in Node, NEW i \in Nat, NEW b, i <= b,
           \A x \in Node : f[x] <= b
    PROVE  /\ [f EXCEPT ![p] = i] \in [Node -> Nat]
           /\ \A x \in Node : [f EXCEPT ![p] = i][x] <= b
<1>1. [f EXCEPT ![p] = i] \in [Node -> Nat] BY Zenon
<1>2. \A x \in Node : [f EXCEPT ![p] = i][x] <= b BY Zenon
<1> QED BY Zenon, <1>1, <1>2

\* submit_batch of a write keeps TypeInv.
LEMMA ProposeType ==
    ASSUME NatWellOrdered, TypeInv, NEW n \in Node, NEW v \in Request, Propose(n, v)
    PROVE  TypeInv'
<1> DEFINE e   == Entry(currentTerm[n], "WRITE", v)
           out == {}
<1>1. role[n] = "LEADER" BY Zenon DEF Propose, WritableLeader
<1>2. e \in EntrySet BY Zenon, <1>1, LeaderProgress DEF Entry, EntrySet
<1>3. /\ LeaderAppend({}, n, currentTerm[n], e, commitIndex[n], nextIndex[n], matchIndex[n], out)
      /\ UNCHANGED <<currentTerm, votedFor, votes, elected, recovering, restarts>>
    BY Zenon DEF Propose
<1>4. \A m \in out : AppendOf(m, n, currentTerm[n], Len(log[n])) BY Zenon
<1> HIDE DEF e, out
<1> QED BY Zenon, <1>1, <1>2, <1>3, <1>4, LeaderProgress, ProposeKeeps

\* A proposed configuration change keeps TypeInv.
LEMMA ProposeConfigType ==
    ASSUME NatWellOrdered, TypeInv, NEW n \in Node, NEW kind, NEW p,
           \/ kind = "ADD_LEARNER" /\ p \in AddTargets
           \/ kind = "REMOVE_MEMBER" /\ p \in RemoveTargets,
           ProposeConfig(n, kind, p)
    PROVE  TypeInv'
<1> DEFINE e   == Entry(currentTerm[n], kind, p)
           out == {}
<1>1. role[n] = "LEADER" BY Zenon DEF ProposeConfig, WritableLeader
<1>2. e \in EntrySet BY Zenon, <1>1, LeaderProgress DEF Entry, EntrySet
<1>3. /\ LeaderAppend({}, n, currentTerm[n], e, commitIndex[n], nextIndex[n], matchIndex[n], out)
      /\ UNCHANGED <<currentTerm, votedFor, votes, elected, recovering, restarts>>
    BY Zenon DEF ProposeConfig
<1>4. \A m \in out : AppendOf(m, n, currentTerm[n], Len(log[n])) BY Zenon
<1> HIDE DEF e, out
<1> QED BY Zenon, <1>1, <1>2, <1>3, <1>4, LeaderProgress, ProposeKeeps

\* tick of a leader keeps TypeInv.
LEMMA TickLeaderType ==
    ASSUME NatWellOrdered, TypeInv, NEW n \in Node, TickLeader(n)
    PROVE  TypeInv'
<1> DEFINE nxt  == BroadcastNext(n, log[n], nextIndex[n])
           beat == Broadcast(n, currentTerm[n], log[n], commitIndex[n], nxt)
<1>1. role[n] = "LEADER" /\ TypeOK BY Zenon DEF TickLeader, TypeInv
<1>2. /\ nxt \in [Node -> Nat]
      /\ \A p \in Node : nxt[p] <= Len(log[n]) + 1
    BY Zenon, <1>1, LeaderProgress, BroadcastNextType
<1> HIDE DEF nxt
<1>3. \A m \in beat : AppendOf(m, n, currentTerm[n], Len(log[n]))
    BY ZenonT(40), <1>1, <1>2, LeaderProgress, BroadcastType
<1> HIDE DEF beat
<1>4. UNCHANGED <<currentTerm, votedFor, votes, elected, recovering, restarts>> BY Zenon DEF TickLeader
<1>5. CASE ReadyLearners(n, matchIndex[n]) = {}
    <2>1. /\ nextIndex' = [nextIndex EXCEPT ![n] = nxt] /\ Exchange({}, beat)
          /\ role' = role /\ recentLeader' = recentLeader /\ log' = log /\ commitIndex' = commitIndex
          /\ voters' = voters /\ learners' = learners /\ matchIndex' = matchIndex
        BY Zenon, <1>5 DEF TickLeader, nxt, beat, logVars, memberVars
    <2>2. /\ nextIndex'[n] = nxt /\ \A k \in Node \ {n} : nextIndex'[k] = nextIndex[k]
          /\ nextIndex' \in [Node -> [Node -> Nat]]
        BY Zenon, <1>1, <1>2, <2>1 DEF TypeOK
    <2>3. \A m \in msgs' : m \in msgs \/ AppendOf(m, n, currentTerm[n], Len(log'[n]))
        BY Zenon, <1>3, <2>1, ExchangeSends
    <2>4. \A p \in Node : matchIndex'[n][p] <= Len(log'[n]) /\ nextIndex'[n][p] <= Len(log'[n]) + 1
        BY Zenon, <1>1, <1>2, <2>1, <2>2, LeaderProgress
    <2>5. LeaderAppended(n, currentTerm[n])
        BY <1>1, <2>1, <2>2, <2>3, <2>4, LeaderProgress DEF LeaderAppended, TypeOK
    <2>6. RestTyped(n, currentTerm[n]) BY Zenon, <1>1, <1>4 DEF RestTyped, TypeOK
    <2> QED BY Zenon, <1>1, <2>5, <2>6, LeaderProgress, LeaderAppendedKeeps
<1>6. CASE ReadyLearners(n, matchIndex[n]) # {}
    <2>1. PICK p \in ReadyLearners(n, matchIndex[n]), fired \in BOOLEAN :
             LeaderAppend({}, n, currentTerm[n], Entry(currentTerm[n], "PROMOTE_VOTER", p),
                          commitIndex[n], nextIndex[n], matchIndex[n], IF fired THEN beat ELSE {})
        BY Zenon, <1>6 DEF TickLeader, nxt, beat
    <2> DEFINE e   == Entry(currentTerm[n], "PROMOTE_VOTER", p)
               out == IF fired THEN beat ELSE {}
    <2>2. p \in AddTargets BY Zenon, <1>1 DEF ReadyLearners, TypeOK
    <2>3. e \in EntrySet BY Zenon, <1>1, <2>2, LeaderProgress DEF Entry, EntrySet
    <2>4. \A m \in out : AppendOf(m, n, currentTerm[n], Len(log[n])) BY Zenon, <1>3
    <2>5. LeaderAppend({}, n, currentTerm[n], e, commitIndex[n], nextIndex[n], matchIndex[n], out)
        BY Zenon, <2>1
    <2> HIDE DEF e, out
    <2> QED BY Zenon, <1>1, <1>4, <2>3, <2>4, <2>5, LeaderProgress, ProposeKeeps
<1> QED BY Zenon, <1>5, <1>6

\* The election time-out keeps TypeInv.
LEMMA TickElectionType ==
    ASSUME NatWellOrdered, TypeInv, NEW n \in Node, TickElection(n)
    PROVE  TypeInv'
<1>1. UNCHANGED <<recovering, restarts>> BY Zenon DEF TickElection
<1>2. CASE HasQuorum(n, 1)
    <2>1. BecomeCandidate({}, n) BY Zenon, <1>2 DEF TickElection
    <2> QED BY Zenon, <1>1, <2>1, BecomeCandidateKeeps
<1>3. CASE ~HasQuorum(n, 1)
    <2> DEFINE t   == currentTerm[n]
               out == VoteRequests(n, "PreVote", currentTerm[n] + 1)
    <2>1. /\ role' = [role EXCEPT ![n] = "PRE_CANDIDATE"]
          /\ votes' = [votes EXCEPT ![n] = {n}]
          /\ recentLeader' = [recentLeader EXCEPT ![n] = FALSE]
          /\ Exchange({}, out)
          /\ UNCHANGED <<currentTerm, votedFor, elected>>
          /\ UNCHANGED <<logVars, memberVars, progressVars>>
        BY Zenon, <1>3 DEF TickElection
    <2>2. t \in Nat /\ PlainMessages(out)
        <3>1. t \in Nat BY Zenon, ElectionTyped
        <3> QED BY <3>1, VoteRequestsPlain
    <2> HIDE DEF out
    <2>3. RestTyped(n, t) BY Zenon, <1>1, <2>1 DEF RestTyped, TypeInv, TypeOK
    <2>4. /\ role' \in [Node -> Roles] /\ recentLeader' \in [Node -> BOOLEAN]
          /\ \A k \in Node \ {n} : role'[k] = role[k]
          /\ role'[n] \notin {"CANDIDATE", "LEADER"}
        BY Zenon, <2>1 DEF TypeInv, TypeOK, Roles
    <2> HIDE DEF t
    <2>5. t = currentTerm[n] BY Zenon DEF t
    <2> QED BY Zenon, <2>1, <2>2, <2>3, <2>4, <2>5, ElectionStepKeeps
<1> QED BY Zenon, <1>2, <1>3

\* The answers of handle_pre_vote and handle_request_vote are no append answers.
LEMMA VoteReplyPlain ==
    ASSUME NEW m, m.from \in Node, m.to \in Node, NEW t \in Nat,
           NEW kind \in {"PreVoteReply", "VoteReply"}, NEW granted
    PROVE  PlainMessages({VoteReply(m, kind, t, granted)})
<1> DEFINE r == VoteReply(m, kind, t, granted)
<1>1. r.type = kind /\ r.from = m.to /\ r.to = m.from /\ r.term = t BY Zenon DEF VoteReply
<1>2. PlainMessages({r})
    <2> HIDE DEF r
    <2> QED BY Zenon, <1>1 DEF PlainMessages
<1> QED BY Zenon, <1>2

\* handle_pre_vote keeps TypeInv.
LEMMA HandlePreVoteType ==
    ASSUME TypeInv, NEW m \in msgs, HandlePreVote(m)
    PROVE  TypeInv'
<1>1. PICK granted \in BOOLEAN :
         Exchange({m}, {VoteReply(m, "PreVoteReply", currentTerm[m.to], granted)})
    BY Zenon DEF HandlePreVote
<1>2. m.from \in Node /\ m.to \in Node BY Zenon DEF TypeInv, MsgOK
<1>3. currentTerm[m.to] \in Nat BY Zenon, <1>2 DEF TypeInv, TypeOK
<1>4. PlainMessages({VoteReply(m, "PreVoteReply", currentTerm[m.to], granted)})
    BY Zenon, <1>2, <1>3, VoteReplyPlain
<1> QED BY Zenon, <1>1, <1>4, IgnoredKeeps DEF HandlePreVote

\* counting a granted vote keeps TypeInv
LEMMA VoteCountedKeeps ==
    ASSUME TypeInv, NEW n \in Node, NEW x \in Node, NEW got, Exchange(got, {}),
           votes' = [votes EXCEPT ![n] = votes[n] \cup {x}],
           UNCHANGED <<role, currentTerm, votedFor, recentLeader, elected, logVars, memberVars,
                       progressVars, recovering, restarts>>
    PROVE  TypeInv'
<1> DEFINE t == currentTerm[n]
           out == {}
<1>1. Exchange(got, out) /\ PlainMessages(out) /\ t = currentTerm[n] /\ t \in Nat
    BY Zenon DEF PlainMessages, TypeInv, TypeOK
<1>2. RestTyped(n, t) BY Zenon DEF RestTyped, TypeInv, TypeOK
<1>3. /\ role' \in [Node -> Roles] /\ recentLeader' \in [Node -> BOOLEAN]
      /\ \A k \in Node \ {n} : role'[k] = role[k]
      /\ role'[n] = role[n]
    BY Zenon DEF TypeInv, TypeOK
<1> HIDE DEF t, out
<1> QED BY Zenon, <1>1, <1>2, <1>3, ElectionStepKeeps

\* handle_pre_vote_response keeps TypeInv.
LEMMA HandlePreVoteResponseType ==
    ASSUME NatWellOrdered, TypeInv, NEW m \in msgs, HandlePreVoteResponse(m)
    PROVE  TypeInv'
<1> DEFINE n == m.to
<1>1. n \in Node /\ m.from \in Node /\ m.term \in Nat BY Zenon, MessageTyped
<1>2. UNCHANGED <<recovering, restarts>> BY Zenon DEF HandlePreVoteResponse
<1>3. PlainMessages({}) BY Zenon DEF PlainMessages
<1>4. CASE /\ Exchange({m}, {})
           /\ UNCHANGED <<electionVars, logVars, memberVars, progressVars>>
    BY Zenon, <1>2, <1>3, <1>4, IgnoredKeeps
<1>5. CASE /\ m.term > currentTerm[n] /\ BecomeFollower(n, m.term) /\ Exchange({m}, {})
           /\ UNCHANGED <<elected, logVars, memberVars, progressVars>>
    BY Zenon, <1>1, <1>2, <1>5, BecomeFollowerKeeps
<1>6. CASE BecomeCandidate({m}, n) BY Zenon, <1>1, <1>2, <1>6, BecomeCandidateKeeps
<1>7. CASE /\ votes' = [votes EXCEPT ![n] = votes[n] \cup {m.from}] /\ Exchange({m}, {})
           /\ UNCHANGED <<role, currentTerm, votedFor, recentLeader, elected,
                          logVars, memberVars, progressVars>>
    BY ZenonT(40), <1>1, <1>2, <1>7, VoteCountedKeeps
<1> QED BY Zenon, <1>4, <1>5, <1>6, <1>7 DEF HandlePreVoteResponse

\* handle_vote_response keeps TypeInv: the winner is a candidate of its term.
LEMMA HandleVoteResponseType ==
    ASSUME NatWellOrdered, TypeInv, NEW m \in msgs, HandleVoteResponse(m)
    PROVE  TypeInv'
<1> DEFINE n == m.to
<1>1. n \in Node /\ m.from \in Node /\ m.term \in Nat BY Zenon, MessageTyped
<1>2. UNCHANGED <<recovering, restarts>> BY Zenon DEF HandleVoteResponse
<1>3. PlainMessages({}) BY Zenon DEF PlainMessages
<1>4. CASE /\ Exchange({m}, {})
           /\ UNCHANGED <<electionVars, logVars, memberVars, progressVars>>
    BY Zenon, <1>2, <1>3, <1>4, IgnoredKeeps
<1>5. CASE /\ m.term > currentTerm[n] /\ BecomeFollower(n, m.term) /\ Exchange({m}, {})
           /\ UNCHANGED <<elected, logVars, memberVars, progressVars>>
    BY Zenon, <1>1, <1>2, <1>5, BecomeFollowerKeeps
<1>6. CASE /\ role[n] = "CANDIDATE" /\ BecomeLeader({m}, n, currentTerm[n])
           /\ UNCHANGED <<currentTerm, votedFor>>
    <2> DEFINE t == currentTerm[n]
    <2>1. /\ t \in Nat \ {0} /\ t = currentTerm[n] /\ currentTerm' = [currentTerm EXCEPT ![n] = t]
          /\ votedFor' \in [Node -> Node \cup {NONE}]
        BY Zenon, <1>1, <1>6 DEF TypeInv, TypeOK, TermPositive
    <2>2. BecomeLeader({m}, n, t) BY Zenon, <1>6
    <2> HIDE DEF t
    <2> QED BY Zenon, <1>1, <1>2, <1>6, <2>1, <2>2, BecomeLeaderKeeps
<1>7. CASE /\ votes' = [votes EXCEPT ![n] = votes[n] \cup {m.from}] /\ Exchange({m}, {})
           /\ UNCHANGED <<role, currentTerm, votedFor, recentLeader, elected,
                          logVars, memberVars, progressVars>>
    BY Zenon, <1>1, <1>2, <1>7, VoteCountedKeeps
<1> QED BY Zenon, <1>4, <1>5, <1>6, <1>7 DEF HandleVoteResponse

\* handle_request_vote keeps TypeInv.
LEMMA HandleRequestVoteType ==
    ASSUME TypeInv, NEW m \in msgs, HandleRequestVote(m)
    PROVE  TypeInv'
<1> DEFINE n == m.to
           newer   == m.term > currentTerm[n]
           granted == ~LaterThanOther(n, m.lastTerm, m.lastIndex) /\ CanGrant(m)
<1>1. n \in Node /\ m.from \in Node /\ m.term \in Nat /\ currentTerm[n] \in Nat
    BY Zenon DEF TypeInv, MsgOK, TypeOK
<1>2. UNCHANGED <<elected, recovering, restarts>> /\ UNCHANGED <<logVars, memberVars, progressVars>>
    BY Zenon DEF HandleRequestVote
<1>3. CASE VotePreconditions(m) /\ m.term >= currentTerm[n]
    <2> DEFINE out == {VoteReply(m, "VoteReply", m.term, granted)}
    <2>1. /\ currentTerm' = [currentTerm EXCEPT ![n] = m.term]
          /\ votedFor' = [votedFor EXCEPT ![n] = IF granted THEN m.from ELSE IF newer THEN NONE ELSE @]
          /\ role' = [role EXCEPT ![n] = IF newer THEN "FOLLOWER" ELSE @]
          /\ votes' = [votes EXCEPT ![n] = IF newer THEN {} ELSE @]
          /\ recentLeader' = [recentLeader EXCEPT ![n] = ~newer /\ @]
          /\ Exchange({m}, out)
        BY Zenon, <1>3 DEF HandleRequestVote
    <2>2. PlainMessages(out) BY Zenon, <1>1, VoteReplyPlain
    <2> HIDE DEF granted, out
    <2>3. RestTyped(n, m.term)
        <3>1. votedFor' \in [Node -> Node \cup {NONE}] /\ votes' \in [Node -> SUBSET Node]
            BY Zenon, <1>1, <2>1 DEF TypeInv, TypeOK
        <3> QED BY Zenon, <1>2, <2>1, <3>1 DEF RestTyped, TypeInv, TypeOK
    <2>4. role' \in [Node -> Roles] /\ \A k \in Node \ {n} : role'[k] = role[k]
        BY Zenon, <1>1, <2>1 DEF TypeInv, TypeOK, Roles
    <2>5. recentLeader' \in [Node -> BOOLEAN]
        <3> HIDE DEF newer
        <3> QED BY Zenon, <2>1 DEF TypeInv, TypeOK
    <2>6. \/ m.term > currentTerm[n] /\ role'[n] # "LEADER"
          \/ m.term = currentTerm[n] /\ role'[n] = role[n]
        <3>1. newer \/ (~newer /\ m.term = currentTerm[n]) BY Zenon, <1>1, <1>3, TermOrder
        <3>2. role'[n] = IF newer THEN "FOLLOWER" ELSE role[n] BY Zenon, <1>1, <2>1 DEF TypeInv, TypeOK
        <3> QED BY Zenon, <3>1, <3>2
    <2> QED BY Zenon, <1>1, <1>2, <2>1, <2>2, <2>3, <2>4, <2>5, <2>6, ElectionStepKeeps
<1>4. CASE ~(VotePreconditions(m) /\ m.term >= currentTerm[n])
    <2>1. /\ Exchange({m}, {VoteReply(m, "VoteReply", currentTerm[n], FALSE)})
          /\ UNCHANGED electionVars
        BY Zenon, <1>2, <1>4 DEF HandleRequestVote, electionVars
    <2>2. PlainMessages({VoteReply(m, "VoteReply", currentTerm[n], FALSE)}) BY Zenon, <1>1, VoteReplyPlain
    <2> QED BY Zenon, <1>2, <2>1, <2>2, IgnoredKeeps
<1> QED BY Zenon, <1>3, <1>4

\* The answer to an append request is well typed, and its last index is the
\* one the request was built for.
LEMMA AppendReplyOK ==
    ASSUME TypeInv, TypeOK', NEW m \in msgs, m.type \in {"AppendEntries", "ReadQuorum"},
           NEW t \in Nat, NEW success \in BOOLEAN, \A k \in Node : Advances(k),
           NEW r, r = AppendReply(m, t, success)
    PROVE  MsgOK(r) /\ LeaderSent(r)'
<1>1. /\ m.from \in Node /\ m.to \in Node /\ m.term \in Nat
      /\ m.prevIndex \in Nat /\ m.entries \in Seq(EntrySet) /\ Len(m.entries) \in Nat
      /\ Len(log[m.to]) \in Nat /\ TypeOK
    BY Zenon, LogLength DEF TypeInv, MsgOK, TypeOK
<1>2. CASE m.type = "ReadQuorum"
    <2>1. r.type = "ReadQuorumReply" /\ r.from = m.to /\ r.to = m.from /\ r.term = t
        BY Zenon, <1>2 DEF AppendReply
    <2> QED BY Zenon, <1>1, <2>1 DEF MsgOK, LeaderSent
<1>3. CASE m.type = "AppendEntries"
    <2>1. /\ r.type = "AppendReply" /\ r.from = m.to /\ r.to = m.from /\ r.term = t
          /\ r.sentTerm = m.term /\ r.prevIndex = m.prevIndex /\ r.success = success
          /\ r.index = IF success THEN m.prevIndex + Len(m.entries) ELSE Len(log[m.to])
        BY Zenon, <1>3 DEF AppendReply
    <2>2. SentBy(m.from, m.term, m.prevIndex + Len(m.entries))
        BY Zenon, <1>3 DEF TypeInv, LeaderSent
    <2>3. SentBy(m.from, m.term, m.prevIndex + Len(m.entries))'
        <3>1. m.prevIndex + Len(m.entries) \in Nat BY <1>1
        <3> QED BY Zenon, <1>1, <2>2, <3>1, SentByKept
    <2> QED BY <1>1, <2>1, <2>3 DEF MsgOK, LeaderSent
<1> QED BY Zenon, <1>2, <1>3

\* A request whose previous entry matches starts inside the follower's log,
\* because no entry has term 0.
LEMMA PrevMatchesInside ==
    ASSUME TypeInv, NEW m \in msgs, m.type \in {"AppendEntries", "ReadQuorum"}, PrevMatches(m)
    PROVE  m.prevIndex <= Len(log[m.to])
<1>1. /\ m.to \in Node /\ m.prevIndex \in Nat
      /\ m.prevIndex > 0 => m.prevTerm \in Nat \ {0}
    BY Zenon DEF TypeInv, MsgOK
<1>2. Len(log[m.to]) \in Nat BY <1>1 DEF TypeInv, TypeOK
<1> QED BY <1>1, <1>2 DEF PrevMatches, TermAt

\* handle_append_entries keeps TypeInv.
LEMMA HandleAppendEntriesType ==
    ASSUME NatWellOrdered, TypeInv, NEW m \in msgs, HandleAppendEntries(m)
    PROVE  TypeInv'
<1> DEFINE n  == m.to
           lg == MergeEntries(log[n], m.prevIndex, m.entries)
           ci == FollowerCommit(n, lg, m.commit)
<1>1. m.type \in {"AppendEntries", "ReadQuorum"} BY Zenon DEF HandleAppendEntries
<1>2. /\ n \in Node /\ m.from \in Node /\ m.term \in Nat /\ m.prevIndex \in Nat
      /\ m.entries \in Seq(EntrySet) /\ m.commit \in Nat
      /\ currentTerm[n] \in Nat /\ commitIndex[n] \in Nat /\ log[n] \in Seq(EntrySet) /\ TypeOK
      /\ \A k \in Node : Len(log[k]) \in Nat
    BY Zenon, <1>1, LogLength DEF TypeInv, MsgOK, TypeOK
<1>3. nextIndex' = nextIndex /\ matchIndex' = matchIndex /\ restarts' = restarts
    BY Zenon DEF HandleAppendEntries, progressVars
<1>4. CASE ~AcceptsLeader(m)
    <2>1. /\ Exchange({m}, {AppendReply(m, currentTerm[n], FALSE)})
          /\ UNCHANGED <<electionVars, logVars, memberVars, recovering>>
        BY Zenon, <1>4 DEF HandleAppendEntries
    <2>2. TypeOK' BY Zenon, <1>2, <1>3, <2>1 DEF TypeOK, electionVars, logVars, memberVars
    <2>3. \A k \in Node : Advances(k) BY <1>2, <2>1 DEF Advances, electionVars, logVars
    <2>4. ASSUME NEW x \in msgs', x \notin msgs PROVE MsgOK(x) /\ LeaderSent(x)'
        <3> DEFINE out == {AppendReply(m, currentTerm[n], FALSE)}
        <3>1. x = AppendReply(m, currentTerm[n], FALSE)
            <4>1. Exchange({m}, out) BY Zenon, <2>1
            <4> HIDE DEF out
            <4>2. x \in out BY Zenon, <2>4, <4>1, ExchangeSends
            <4> QED BY Zenon, <4>2 DEF out
        <3> QED BY Zenon, <1>1, <1>2, <2>2, <2>3, <3>1, AppendReplyOK
    <2> QED BY Zenon, <2>2, <2>3, <2>4, TypeInvKept
<1>5. CASE AcceptsLeader(m)
    <2>1. /\ currentTerm' = [currentTerm EXCEPT ![n] = m.term]
          /\ votedFor' = [votedFor EXCEPT ![n] = IF m.term > currentTerm[n] THEN NONE ELSE @]
          /\ votes' = [votes EXCEPT ![n] = {}]
          /\ Exchange({m}, {AppendReply(m, m.term, PrevMatches(m))}) /\ elected' = elected
        BY Zenon, <1>5 DEF HandleAppendEntries
    <2>2. m.term >= currentTerm[n] BY Zenon, <1>5 DEF AcceptsLeader
    <2>3. /\ log' \in [Node -> Seq(EntrySet)] /\ commitIndex' \in [Node -> Nat]
          /\ voters' \in [Node -> VoterSets] /\ learners' \in [Node -> SUBSET AddTargets]
          /\ role' \in [Node -> Roles] /\ role'[n] = "FOLLOWER"
          /\ \A k \in Node \ {n} : role'[k] = role[k] /\ log'[k] = log[k]
          /\ recentLeader' \in [Node -> BOOLEAN] /\ recovering' \in [Node -> BOOLEAN]
        <3>1. CASE PrevMatches(m)
            <4>1. /\ log' = [log EXCEPT ![n] = lg]
                  /\ recovering' = [recovering EXCEPT ![n] = FALSE]
                  /\ ApplyCommitted(n, m.term, lg, ci, "FOLLOWER", TRUE)
                BY Zenon, <1>5, <3>1 DEF HandleAppendEntries
            <4>2. lg \in Seq(EntrySet) BY Zenon, <1>1, <1>2, <3>1, PrevMatchesInside, MergeEntriesType
            <4> HIDE DEF lg
            <4>3. ci \in Nat /\ (ci > commitIndex[n] => ci <= Len(lg))
                BY <1>2, <4>2 DEF FollowerCommit, MinOf
            <4> HIDE DEF ci
            <4>4. "FOLLOWER" \in Roles /\ TRUE \in BOOLEAN BY Zenon DEF Roles
            <4>5. /\ commitIndex' \in [Node -> Nat]
                  /\ voters' \in [Node -> VoterSets] /\ learners' \in [Node -> SUBSET AddTargets]
                  /\ role' \in [Node -> Roles] /\ role'[n] \in {"FOLLOWER", "FOLLOWER"}
                  /\ \A k \in Node \ {n} : role'[k] = role[k]
                  /\ recentLeader' \in [Node -> BOOLEAN]
                BY Zenon, <1>2, <4>1, <4>2, <4>3, <4>4, ApplyCommittedType
            <4>6. log' \in [Node -> Seq(EntrySet)] /\ \A k \in Node \ {n} : log'[k] = log[k]
                BY Zenon, <1>2, <4>1, <4>2 DEF TypeOK
            <4>7. recovering' \in [Node -> BOOLEAN] BY Zenon, <1>2, <4>1 DEF TypeOK
            <4> QED BY Zenon, <4>5, <4>6, <4>7
        <3>2. CASE ~PrevMatches(m)
            <4>1. /\ role' = [role EXCEPT ![n] = "FOLLOWER"]
                  /\ recentLeader' = [recentLeader EXCEPT ![n] = TRUE]
                  /\ UNCHANGED <<log, commitIndex, voters, learners, recovering>>
                BY Zenon, <1>5, <3>2 DEF HandleAppendEntries, logVars, memberVars
            <4> QED BY Zenon, <1>2, <4>1 DEF TypeOK, Roles
        <3> QED BY Zenon, <3>1, <3>2
    <2>4. /\ currentTerm'[n] = m.term /\ currentTerm' \in [Node -> Nat]
          /\ \A k \in Node \ {n} : currentTerm'[k] = currentTerm[k]
          /\ votedFor' \in [Node -> Node \cup {NONE}] /\ votes' \in [Node -> SUBSET Node]
        BY Zenon, <1>2, <2>1 DEF TypeOK
    <2>5. TypeOK'
        <3>1. \A k, p \in Node : role'[k] = "LEADER" =>
                 matchIndex'[k][p] <= Len(log'[k]) /\ nextIndex'[k][p] <= Len(log'[k]) + 1
            BY Zenon, <1>2, <1>3, <2>3 DEF TypeOK
        <3> QED BY Zenon, <1>2, <1>3, <2>1, <2>3, <2>4, <3>1 DEF TypeOK
    <2>6. \A k \in Node : Advances(k)
        <3>1. Advances(n)
            <4>1. role'[n] = "FOLLOWER" /\ currentTerm'[n] = m.term BY Zenon, <2>3, <2>4
            <4> QED BY <1>2, <2>2, <4>1 DEF Advances
        <3>2. \A k \in Node \ {n} : Advances(k)
            <4>1. \A k \in Node : Len(log[k]) \in Nat BY <1>2 DEF TypeOK
            <4> QED BY Zenon, <2>3, <2>4, <4>1, RestAdvances
        <3> QED BY Zenon, <3>1, <3>2
    <2>7. ASSUME NEW x \in msgs', x \notin msgs PROVE MsgOK(x) /\ LeaderSent(x)'
        <3>1. PrevMatches(m) \in BOOLEAN BY Zenon DEF PrevMatches
        <3>2. x = AppendReply(m, m.term, PrevMatches(m)) BY <2>1, <2>7, ExchangeSends
        <3> QED BY Zenon, <1>1, <1>2, <2>5, <2>6, <3>1, <3>2, AppendReplyOK
    <2> QED BY Zenon, <2>5, <2>6, <2>7, TypeInvKept
<1> QED BY Zenon, <1>4, <1>5

\* handle_append_ok and handle_append_failed keep the progress of a follower
\* inside the leader's log.
LEMMA ProgressAfterReply ==
    ASSUME TypeInv, NEW m \in msgs, m.type = "AppendReply", AnswersCurrent(m)
    PROVE  /\ m.to \in Node /\ m.from \in Node /\ role[m.to] = "LEADER"
           /\ m.success => NextAfterOk(m.to, m) \in 0..Len(log[m.to])
           /\ NextAfterFailure(m.to, m) \in 0..Len(log[m.to]) + 1
<1> DEFINE n == m.to
           p == m.from
<1>1. /\ n \in Node /\ p \in Node /\ m.index \in Nat /\ m.sentTerm = currentTerm[n]
      /\ role[n] = "LEADER"
    BY Zenon DEF TypeInv, MsgOK, AnswersCurrent
<1>2. /\ matchIndex[n][p] \in Nat /\ matchIndex[n][p] <= Len(log[n])
      /\ nextIndex[n][p] \in Nat /\ nextIndex[n][p] <= Len(log[n]) + 1 /\ Len(log[n]) \in Nat
    BY Zenon, <1>1, LeaderProgress
<1>3. m.success => m.index <= Len(log[n]) BY Zenon, <1>1 DEF TypeInv, LeaderSent, SentBy
<1>4. m.success => NextAfterOk(n, m) \in 0..Len(log[n])
    BY <1>1, <1>2, <1>3 DEF NextAfterOk, MaxOf
<1>5. NextAfterFailure(n, m) \in 0..Len(log[n]) + 1
    <2> DEFINE cur  == nextIndex[n][p]
               hint == MinOf(m.index, Len(log[n])) + 1
               back == IF hint >= cur /\ cur > 1 THEN cur - 1 ELSE hint
    <2>1. hint \in 0..Len(log[n]) + 1 BY <1>1, <1>2 DEF MinOf
    <2> HIDE DEF hint
    <2>2. back \in 0..Len(log[n]) + 1 BY <1>2, <2>1
    <2> HIDE DEF back, cur
    <2>3. MaxOf(back, matchIndex[n][p] + 1) \in 0..Len(log[n]) + 1 BY <1>2, <2>2 DEF MaxOf
    <2> QED BY Zenon, <2>3 DEF NextAfterFailure, back, hint, cur
<1> QED BY Zenon, <1>1, <1>4, <1>5

\* handle_append_response keeps TypeInv.
LEMMA HandleAppendResponseType ==
    ASSUME NatWellOrdered, TypeInv, NEW m \in msgs, HandleAppendResponse(m)
    PROVE  TypeInv'
<1> DEFINE n     == m.to
           p     == m.from
           match == [matchIndex[n] EXCEPT ![p] = NextAfterOk(n, m)]
           next  == [nextIndex[n] EXCEPT ![p] = NextAfterOk(n, m) + 1]
           ci    == NewCommit(n, currentTerm[n], log[n], commitIndex[n], match)
           out   == CommitBroadcast(n, currentTerm[n], log[n], commitIndex[n], ci, next)
<1>1. /\ n \in Node /\ p \in Node /\ m.term \in Nat /\ m.type = "AppendReply"
      /\ UNCHANGED <<recovering, restarts>> /\ TypeOK
    BY Zenon DEF TypeInv, MsgOK, HandleAppendResponse
<1>2. PlainMessages({}) BY Zenon DEF PlainMessages
<1>3. CASE /\ Exchange({m}, {})
           /\ UNCHANGED <<electionVars, logVars, memberVars, progressVars>>
    BY Zenon, <1>1, <1>2, <1>3, IgnoredKeeps
<1>4. CASE /\ m.term > currentTerm[n] /\ BecomeFollower(n, m.term) /\ Exchange({m}, {})
           /\ UNCHANGED <<elected, logVars, memberVars, progressVars>>
    BY Zenon, <1>1, <1>4, BecomeFollowerKeeps
<1>5. CASE /\ AnswersCurrent(m) /\ m.success
           /\ IF ReadyLearners(n, match) = {}
              THEN /\ nextIndex' = [nextIndex EXCEPT ![n] =
                                      IF out = {} THEN next ELSE BroadcastNext(n, log[n], next)]
                   /\ matchIndex' = [matchIndex EXCEPT ![n] = match]
                   /\ Exchange({m}, out)
                   /\ ApplyCommitted(n, currentTerm[n], log[n], ci, "LEADER", FALSE)
                   /\ UNCHANGED log
              ELSE \E q \in ReadyLearners(n, match) :
                      LeaderAppend({m}, n, currentTerm[n],
                          Entry(currentTerm[n], "PROMOTE_VOTER", q), ci, next, match, {})
           /\ UNCHANGED <<currentTerm, votedFor, votes, elected>>
    <2>1. role[n] = "LEADER" /\ NextAfterOk(n, m) \in 0..Len(log[n])
        BY Zenon, <1>1, <1>5, ProgressAfterReply
    <2>2. /\ match \in [Node -> Nat] /\ next \in [Node -> Nat]
          /\ \A x \in Node : match[x] <= Len(log[n]) /\ next[x] <= Len(log[n]) + 1
        <3>1. /\ matchIndex[n] \in [Node -> Nat] /\ nextIndex[n] \in [Node -> Nat] /\ Len(log[n]) \in Nat
              /\ \A x \in Node : matchIndex[n][x] <= Len(log[n]) /\ nextIndex[n][x] <= Len(log[n]) + 1
            BY Zenon, <1>1, <2>1, LeaderProgress
        <3>2. NextAfterOk(n, m) \in Nat /\ NextAfterOk(n, m) + 1 \in Nat
              /\ NextAfterOk(n, m) <= Len(log[n]) /\ NextAfterOk(n, m) + 1 <= Len(log[n]) + 1
            BY <2>1, <3>1
        <3>3. match \in [Node -> Nat] /\ \A x \in Node : match[x] <= Len(log[n])
            BY Zenon, <1>1, <3>1, <3>2, IndexMoved
        <3>4. next \in [Node -> Nat] /\ \A x \in Node : next[x] <= Len(log[n]) + 1
            BY Zenon, <1>1, <3>1, <3>2, IndexMoved
        <3> QED BY Zenon, <3>3, <3>4
    <2>3. ci \in Nat /\ (ci > commitIndex[n] => ci <= Len(log[n]))
        BY Zenon, <1>1, <2>1, LeaderProgress, NewCommitType
    <2> HIDE DEF match, next, ci
    <2>4. CASE ReadyLearners(n, match) = {}
        <3> DEFINE nxt == IF out = {} THEN next ELSE BroadcastNext(n, log[n], next)
        <3>1. /\ nxt \in [Node -> Nat] /\ \A x \in Node : nxt[x] <= Len(log[n]) + 1
            BY Zenon, <1>1, <2>1, <2>2, LeaderProgress, BroadcastNextType
        <3>2. \A x \in out : AppendOf(x, n, currentTerm[n], Len(log[n]))
            BY Zenon, <1>1, <2>1, <2>2, <2>3, LeaderProgress, BroadcastType DEF CommitBroadcast
        <3>3. /\ nextIndex' = [nextIndex EXCEPT ![n] = nxt]
              /\ matchIndex' = [matchIndex EXCEPT ![n] = match]
              /\ Exchange({m}, out) /\ log' = log
              /\ ApplyCommitted(n, currentTerm[n], log[n], ci, "LEADER", FALSE)
            BY Zenon, <1>5, <2>4
        <3> HIDE DEF nxt, out
        <3>4. "LEADER" \in Roles /\ FALSE \in BOOLEAN BY Zenon DEF Roles
        <3>5. /\ commitIndex' \in [Node -> Nat]
              /\ voters' \in [Node -> VoterSets] /\ learners' \in [Node -> SUBSET AddTargets]
              /\ role' \in [Node -> Roles] /\ role'[n] \in {"LEADER", "FOLLOWER"}
              /\ \A k \in Node \ {n} : role'[k] = role[k]
              /\ recentLeader' \in [Node -> BOOLEAN]
            BY Zenon, <1>1, <2>1, <2>3, <3>3, <3>4, LeaderProgress, ApplyCommittedType
        <3>6. /\ nextIndex' \in [Node -> [Node -> Nat]] /\ matchIndex' \in [Node -> [Node -> Nat]]
              /\ nextIndex'[n] = nxt /\ matchIndex'[n] = match
              /\ \A k \in Node \ {n} : nextIndex'[k] = nextIndex[k] /\ matchIndex'[k] = matchIndex[k]
            BY Zenon, <1>1, <2>2, <3>1, <3>3 DEF TypeOK
        <3>7. \A x \in msgs' : x \in msgs \/ AppendOf(x, n, currentTerm[n], Len(log'[n]))
            BY Zenon, <3>2, <3>3, ExchangeSends
        <3>8. \A x \in Node : matchIndex'[n][x] <= Len(log'[n]) /\ nextIndex'[n][x] <= Len(log'[n]) + 1
            BY Zenon, <2>2, <3>1, <3>3, <3>6
        <3>9. log' \in [Node -> Seq(EntrySet)] /\ Len(log'[n]) >= Len(log[n])
            BY <1>1, <2>1, <3>3, LeaderProgress DEF TypeOK
        <3>10. LeaderAppended(n, currentTerm[n])
            BY Zenon, <3>3, <3>5, <3>6, <3>7, <3>8, <3>9 DEF LeaderAppended
        <3>11. RestTyped(n, currentTerm[n]) BY Zenon, <1>1, <1>5 DEF RestTyped, TypeOK
        <3> QED BY Zenon, <1>1, <2>1, <3>10, <3>11, LeaderProgress, LeaderAppendedKeeps
    <2>5. CASE ReadyLearners(n, match) # {}
        <3>1. PICK q \in ReadyLearners(n, match) :
                 LeaderAppend({m}, n, currentTerm[n],
                     Entry(currentTerm[n], "PROMOTE_VOTER", q), ci, next, match, {})
            BY Zenon, <1>5, <2>5
        <3> DEFINE e   == Entry(currentTerm[n], "PROMOTE_VOTER", q)
                   sent == {}
        <3>2. q \in AddTargets BY Zenon, <1>1 DEF ReadyLearners, TypeOK
        <3>3. e \in EntrySet BY Zenon, <1>1, <2>1, <3>2, LeaderProgress DEF Entry, EntrySet
        <3>4. \A x \in sent : AppendOf(x, n, currentTerm[n], Len(log[n])) BY Zenon
        <3>5. LeaderAppend({m}, n, currentTerm[n], e, ci, next, match, sent) BY Zenon, <3>1
        <3>6. UNCHANGED <<currentTerm, votedFor, votes, elected, recovering, restarts>> BY Zenon, <1>1, <1>5
        <3> HIDE DEF e, sent
        <3> QED BY Zenon, <1>1, <2>1, <2>2, <2>3, <3>3, <3>4, <3>5, <3>6, ProposeKeeps
    <2> QED BY Zenon, <2>4, <2>5
<1>6. CASE /\ AnswersCurrent(m)
           /\ nextIndex' = [nextIndex EXCEPT ![n][p] = NextAfterFailure(n, m)]
           /\ Exchange({m}, {})
           /\ UNCHANGED <<electionVars, logVars, memberVars, matchIndex>>
    <2>1. role[n] = "LEADER" /\ NextAfterFailure(n, m) \in 0..Len(log[n]) + 1
        BY Zenon, <1>1, ProgressAfterReply, <1>6
    <2>2. UNCHANGED <<role, currentTerm, votedFor, votes, recentLeader, elected, log, commitIndex,
                      voters, learners, matchIndex, recovering, restarts>>
        BY Zenon, <1>1, <1>6 DEF electionVars, logVars, memberVars
    <2>3. /\ nextIndex' \in [Node -> [Node -> Nat]]
          /\ \A k, x \in Node : role[k] = "LEADER" => nextIndex'[k][x] <= Len(log[k]) + 1
        <3> DEFINE i == NextAfterFailure(n, m)
        <3>1. i \in Nat /\ i <= Len(log[n]) + 1 BY <1>1, <2>1, LeaderProgress
        <3>2. nextIndex' = [nextIndex EXCEPT ![n][p] = i] BY Zenon, <1>6
        <3> HIDE DEF i
        <3>3. nextIndex' \in [Node -> [Node -> Nat]] BY Zenon, <1>1, <3>1, <3>2 DEF TypeOK
        <3>4. \A k, x \in Node : nextIndex'[k][x] = IF k = n /\ x = p THEN i ELSE nextIndex[k][x]
            BY ZenonT(40), <1>1, <3>2 DEF TypeOK
        <3> QED BY ZenonT(40), <1>1, <3>1, <3>3, <3>4 DEF TypeOK
    <2>4. TypeOK' BY Zenon, <1>1, <2>2, <2>3 DEF TypeOK
    <2>5. \A k \in Node : Advances(k) BY <1>1, <2>2 DEF Advances, TypeOK
    <2>6. \A x \in msgs' : x \in msgs BY Zenon, <1>6 DEF Exchange
    <2> QED BY Zenon, <2>4, <2>5, <2>6, TypeInvKept
<1> QED BY Zenon, <1>3, <1>4, <1>5, <1>6 DEF HandleAppendResponse

\* RecoverCall keeps TypeInv: the restarted replica follows, in the term it saved.
LEMMA RecoverType ==
    ASSUME TypeInv, NEW n \in Node, NEW lg \in Seq(EntrySet), NEW t \in Nat, t >= currentTerm[n],
           NEW vote \in Node \cup {NONE}, NEW torn \in BOOLEAN, Recover(n, lg, t, vote, torn)
    PROVE  TypeInv'
<1>1. /\ TypeOK /\ currentTerm[n] \in Nat /\ \A k \in Node : Len(log[k]) \in Nat
    BY Zenon, LogLength DEF TypeInv, TypeOK
<1>2. /\ role' = [role EXCEPT ![n] = "FOLLOWER"] /\ log' = [log EXCEPT ![n] = lg]
      /\ currentTerm' = [currentTerm EXCEPT ![n] = t]
      /\ nextIndex' = [nextIndex EXCEPT ![n] = [p \in Node |-> 0]]
      /\ matchIndex' = [matchIndex EXCEPT ![n] = [p \in Node |-> 0]]
    BY Zenon DEF Recover
<1>3. TypeOK'
    <2>1. /\ role' \in [Node -> Roles] /\ currentTerm' \in [Node -> Nat]
          /\ log' \in [Node -> Seq(EntrySet)]
          /\ nextIndex' \in [Node -> [Node -> Nat]] /\ matchIndex' \in [Node -> [Node -> Nat]]
        BY Zenon, <1>1, <1>2 DEF TypeOK, Roles
    <2>2. /\ votedFor' \in [Node -> Node \cup {NONE}] /\ votes' \in [Node -> SUBSET Node]
          /\ voters' \in [Node -> VoterSets] /\ learners' \in [Node -> SUBSET AddTargets]
        BY Zenon, <1>1, NodeAssumption DEF Recover, TypeOK, VoterSets
    <2>3. recentLeader' \in [Node -> BOOLEAN] /\ recovering' \in [Node -> BOOLEAN]
        BY Zenon, <1>1 DEF Recover, TypeOK
    <2>4. commitIndex' \in [Node -> Nat] /\ elected' \subseteq Nat \X Node /\ restarts' \in Nat
        <3>1. commitIndex' = [commitIndex EXCEPT ![n] = 0] /\ elected' = elected
              /\ restarts' = restarts + 1
            BY Zenon DEF Recover
        <3>2. commitIndex \in [Node -> Nat] /\ elected \subseteq Nat \X Node /\ restarts \in Nat
            BY Zenon, <1>1 DEF TypeOK
        <3> QED BY <3>1, <3>2
    <2>5. \A k, p \in Node : role'[k] = "LEADER" =>
              matchIndex'[k][p] <= Len(log'[k]) /\ nextIndex'[k][p] <= Len(log'[k]) + 1
        BY Zenon, <1>1, <1>2 DEF TypeOK
    <2> QED BY Zenon, <2>1, <2>2, <2>3, <2>4, <2>5 DEF TypeOK
<1>4. \A k \in Node : Advances(k)
    <2>1. Advances(n) BY <1>1, <1>2 DEF Advances, TypeOK
    <2>2. \A k \in Node \ {n} : Advances(k) BY <1>1, <1>2 DEF Advances, TypeOK
    <2> QED BY Zenon, <2>1, <2>2
<1>5. \A m \in msgs' : m \in msgs BY Zenon DEF Recover
<1> QED BY Zenon, <1>3, <1>4, <1>5, TypeInvKept

\* what a crash inside handle_append_entries leaves: a log of entries, a term
\* and a vote as of a step that took the new term
LEMMA CrashOutcome ==
    ASSUME NatWellOrdered, TypeInv, NEW m \in msgs, CrashInAppend(m)
    PROVE  /\ m.to \in Node
           /\ \E lg \in Seq(EntrySet), torn \in BOOLEAN :
                 Recover(m.to, lg, m.term, IF m.term > currentTerm[m.to] THEN NONE ELSE votedFor[m.to], torn)
           /\ m.term \in Nat /\ m.term >= currentTerm[m.to]
<1> DEFINE n    == m.to
           lg   == MergeEntries(log[n], m.prevIndex, m.entries)
           vote == IF m.term > currentTerm[n] THEN NONE ELSE votedFor[n]
<1>1. /\ n \in Node /\ m.term \in Nat /\ log[n] \in Seq(EntrySet) /\ Len(log[n]) \in Nat
      /\ m.prevIndex \in Nat /\ m.entries \in Seq(EntrySet) /\ m.type = "AppendEntries"
    <2>1. m.type = "AppendEntries" BY Zenon DEF CrashInAppend
    <2>2. MsgOK(m) /\ TypeOK BY Zenon DEF TypeInv
    <2>3. /\ n \in Node /\ m.term \in Nat /\ m.prevIndex \in Nat /\ m.entries \in Seq(EntrySet)
        BY Zenon, <2>1, <2>2 DEF MsgOK
    <2>4. log[n] \in Seq(EntrySet) BY Zenon, <2>2, <2>3 DEF TypeOK
    <2> QED BY Zenon, <2>1, <2>3, <2>4, LogLength
<1>2. lg \in Seq(EntrySet)
    <2>1. m.prevIndex <= Len(log[n]) BY Zenon, <1>1, PrevMatchesInside DEF CrashInAppend
    <2> QED BY Zenon, <1>1, <2>1, MergeEntriesType
<1>3. PICK len \in Len(log[n])..MaxOf(Len(log[n]), Len(lg) - 1), torn \in BOOLEAN :
         Recover(n, IF len = Len(log[n]) THEN log[n] ELSE SubSeq(lg, 1, len), m.term, vote, torn)
    BY Zenon DEF CrashInAppend
<1> HIDE DEF lg, vote
<1>4. len # Len(log[n]) => SubSeq(lg, 1, len) \in Seq(EntrySet)
    <2>1. len # Len(log[n]) => len \in Int /\ len <= Len(lg)
        BY <1>1, <1>2 DEF MaxOf
    <2> QED BY <1>2, <2>1
<1>5. (IF len = Len(log[n]) THEN log[n] ELSE SubSeq(lg, 1, len)) \in Seq(EntrySet) BY Zenon, <1>1, <1>4
<1>6. m.term >= currentTerm[n] BY Zenon DEF CrashInAppend, AcceptsLeader
<1> QED BY Zenon, <1>1, <1>3, <1>5, <1>6 DEF vote
\* Every step of the group keeps the inductive invariant.
LEMMA TypeStep ==
    ASSUME NatWellOrdered
    PROVE  TypeInv /\ [Next]_vars => TypeInv'
<1> SUFFICES ASSUME TypeInv, [Next]_vars PROVE TypeInv' BY Zenon
<1>1. CASE UNCHANGED vars
    BY Zenon, <1>1 DEF vars, electionVars, logVars, memberVars, progressVars, TypeInv, TypeOK,
                TermPositive, LeaderSent, SentBy
<1>2. CASE \E n \in Node, v \in Request : Propose(n, v) BY Zenon, <1>2, ProposeType
<1>3. CASE \E n \in Node : TickLeader(n) BY Zenon, <1>3, TickLeaderType
<1>4. CASE \E n \in Node : TickElection(n) BY Zenon, <1>4, TickElectionType
<1>5. CASE \E n \in Node, p \in AddTargets : EnsureAddLearner(n, p)
    BY Zenon, <1>5, ProposeConfigType DEF EnsureAddLearner
<1>6. CASE \E n \in Node, p \in RemoveTargets : EnsureRemoveMember(n, p)
    BY Zenon, <1>6, ProposeConfigType DEF EnsureRemoveMember
<1>7. CASE \E m \in msgs : HandlePreVote(m) BY Zenon, <1>7, HandlePreVoteType
<1>8. CASE \E m \in msgs : HandlePreVoteResponse(m) BY Zenon, <1>8, HandlePreVoteResponseType
<1>9. CASE \E m \in msgs : HandleRequestVote(m) BY Zenon, <1>9, HandleRequestVoteType
<1>10. CASE \E m \in msgs : HandleVoteResponse(m) BY Zenon, <1>10, HandleVoteResponseType
<1>11. CASE \E m \in msgs : HandleAppendEntries(m) BY Zenon, <1>11, HandleAppendEntriesType
<1>12. CASE \E m \in msgs : HandleAppendResponse(m) BY Zenon, <1>12, HandleAppendResponseType
<1>13. CASE \E n \in Node : Restart(n)
    <2>1. PICK n \in Node, torn \in BOOLEAN : Recover(n, log[n], currentTerm[n], votedFor[n], torn)
        BY Zenon, <1>13 DEF Restart
    <2>2. /\ log[n] \in Seq(EntrySet) /\ currentTerm[n] \in Nat /\ currentTerm[n] >= currentTerm[n]
          /\ votedFor[n] \in Node \cup {NONE}
        BY DEF TypeInv, TypeOK
    <2> QED BY Zenon, <2>1, <2>2, RecoverType
<1>14. CASE \E m \in msgs : CrashInAppend(m)
    <2>1. PICK m \in msgs : CrashInAppend(m) BY Zenon, <1>14
    <2> DEFINE vote == IF m.term > currentTerm[m.to] THEN NONE ELSE votedFor[m.to]
    <2>2. PICK lg \in Seq(EntrySet), torn \in BOOLEAN : Recover(m.to, lg, m.term, vote, torn)
        BY Zenon, <2>1, CrashOutcome
    <2>3. m.to \in Node /\ m.term \in Nat /\ m.term >= currentTerm[m.to] BY Zenon, <2>1, CrashOutcome
    <2>4. vote \in Node \cup {NONE} BY Zenon, <2>3 DEF TypeInv, TypeOK
    <2> HIDE DEF vote
    <2> QED BY Zenon, <2>2, <2>3, <2>4, RecoverType
<1> QED
    BY Zenon, <1>1, <1>2, <1>3, <1>4, <1>5, <1>6, <1>7, <1>8, <1>9, <1>10, <1>11, <1>12, <1>13, <1>14
    DEF Next, Dispatch, Crash

-----------------------------------------------------------------------------
(* Votes and leaders.                                                      *)

\* A binding vote stays binding: KeepsVote.
LEMMA BoundKept ==
    ASSUME TypeInv, TypeInv', NEW n \in Node, BallotStep(n),
           NEW v \in Node, NEW c \in Node, NEW t \in Nat, Bound(v, c, t)
    PROVE  Bound(v, c, t)'
<1>1. currentTerm[v] \in Nat /\ currentTerm'[v] \in Nat BY Zenon DEF TypeInv, TypeOK
<1>2. c # NONE BY Zenon, NodeAssumption
<1>3. CASE currentTerm'[v] = currentTerm[v] /\ votedFor'[v] = votedFor[v] BY Zenon, <1>3 DEF Bound
<1>4. CASE KeepsVote(v)
    <2>1. t <= currentTerm'[v] /\ (t = currentTerm'[v] => currentTerm'[v] = currentTerm[v])
        BY <1>1, <1>4 DEF KeepsVote, Bound
    <2> QED BY Zenon, <1>2, <1>4, <2>1 DEF KeepsVote, Bound
<1> QED BY Zenon, <1>3, <1>4 DEF BallotStep

\* The vote the stepping replica holds now agrees with every trace of an
\* earlier vote of its in the same term.
LEMMA NewVoteAgrees ==
    ASSUME TypeInv, TypeInv', VotesBind, NEW n \in Node, BallotStep(n), NEW d \in Node,
           Voted(n, d, currentTerm'[n])
    PROVE  votedFor'[n] = d
<1>1. currentTerm[n] \in Nat /\ currentTerm'[n] \in Nat BY Zenon DEF TypeInv, TypeOK
<1>2. Bound(n, d, currentTerm'[n]) BY Zenon, <1>1 DEF VotesBind
<1>3. d # NONE BY Zenon, NodeAssumption
<1>4. KeepsVote(n) BY Zenon DEF BallotStep
<1>5. currentTerm'[n] = currentTerm[n] BY <1>1, <1>2, <1>4 DEF KeepsVote, Bound
<1> QED BY Zenon, <1>2, <1>3, <1>4, <1>5 DEF KeepsVote, Bound

\* A step keeps the majority behind a leader of an earlier step.
LEMMA BacksKept ==
    ASSUME TypeInv, TypeInv', VotesBind, NEW n \in Node, BallotStep(n),
           NEW v \in Node, NEW c \in Node, NEW t \in Nat, Backs(v, c, t)
    PROVE  Backs(v, c, t)'
<1>1. Bound(v, c, t)' BY Zenon, BoundKept DEF Backs
<1>2. ASSUME NEW d \in Node, Voted(v, d, t)' PROVE d = c
    <2>1. CASE Voted(v, d, t) BY Zenon, <2>1 DEF Backs
    <2>2. CASE v = n /\ d = votedFor'[n] /\ t = currentTerm'[n] BY Zenon, <1>1, <2>2 DEF Bound
    <2> QED BY Zenon, <1>2, <2>1, <2>2, TracesOfVotes
<1> QED BY Zenon, <1>1, <1>2 DEF Backs

\* A step that treats votes as BallotStep says keeps BallotInv.
LEMMA BallotInvKept ==
    ASSUME MajoritiesMeet, Static, TypeInv, TypeInv', BallotInv, NEW n \in Node, BallotStep(n)
    PROVE  BallotInv'
<1>0. /\ VotesBind /\ OneVote /\ VotersCounted /\ LeadersBacked /\ ElectionSafety BY Zenon DEF BallotInv
<1>p. PICK T \in Nat : T = currentTerm'[n] BY Zenon DEF TypeInv, TypeOK
<1>t. /\ T \in Nat /\ T = currentTerm'[n] /\ currentTerm[n] \in Nat /\ voters[n] = InitVoters
      /\ elected \subseteq Nat \X Node /\ elected' \subseteq Nat \X Node
    BY Zenon, <1>p, StaticVoters DEF TypeInv, TypeOK
<1>1. VotesBind'
    <2> SUFFICES ASSUME NEW v \in Node, NEW c \in Node, NEW t \in Nat, Voted(v, c, t)'
                 PROVE  Bound(v, c, t)'
        BY Zenon DEF VotesBind
    <2>1. CASE Voted(v, c, t) BY Zenon, <1>0, <2>1, BoundKept DEF VotesBind
    <2>2. CASE v = n /\ c = votedFor'[n] /\ t = T BY <1>t, <2>2 DEF Bound
    <2> QED BY Zenon, <1>t, <2>1, <2>2, TracesOfVotes
<1>2. OneVote'
    <2> SUFFICES ASSUME NEW v \in Node, NEW c \in Node, NEW d \in Node, NEW t \in Nat,
                        Voted(v, c, t)', Voted(v, d, t)'
                 PROVE  c = d
        BY Zenon DEF OneVote
    <2>1. Voted(v, c, t) \/ (v = n /\ c = votedFor'[n] /\ t = T) BY Zenon, <1>t, TracesOfVotes
    <2>2. Voted(v, d, t) \/ (v = n /\ d = votedFor'[n] /\ t = T) BY Zenon, <1>t, TracesOfVotes
    <2>3. CASE Voted(v, c, t) /\ Voted(v, d, t) BY Zenon, <1>0, <2>3 DEF OneVote
    <2>4. CASE v = n /\ t = T
        <3>1. Voted(v, c, t) => c = votedFor'[n] BY Zenon, <1>0, <1>t, <2>4, NewVoteAgrees
        <3>2. Voted(v, d, t) => d = votedFor'[n] BY Zenon, <1>0, <1>t, <2>4, NewVoteAgrees
        <3> QED BY Zenon, <2>1, <2>2, <3>1, <3>2
    <2> QED BY Zenon, <2>1, <2>2, <2>3, <2>4
<1>3. \A v \in Node : Supports(n, v) => v \in InitVoters BY Zenon, <1>0, <1>t DEF Supports, VotersCounted
<1>4. VotersCounted'
    <2> SUFFICES ASSUME NEW c \in Node, role'[c] = "CANDIDATE" PROVE votes'[c] \subseteq InitVoters
        BY Zenon DEF VotersCounted
    <2>1. votes'[c] \subseteq Node BY Zenon DEF TypeInv, TypeOK
    <2>2. CASE c = n BY Zenon, <1>3, <2>1, <2>2 DEF BallotStep
    <2>3. CASE c # n BY Zenon, <1>0, <2>3 DEF BallotStep, VotersCounted
    <2> QED BY Zenon, <2>2, <2>3
<1>5. ASSUME NEW v \in Node, Supports(n, v) PROVE Voted(v, n, T) \/ (v = n /\ votedFor'[n] = n)
    BY Zenon, <1>t, <1>5 DEF Supports
<1>6. ASSUME NEW v \in Node, Supports(n, v) PROVE Backs(v, n, T)'
    <2>1. Bound(v, n, T)'
        <3>1. CASE Voted(v, n, T) BY Zenon, <1>0, <1>t, <3>1, BoundKept DEF VotesBind
        <3>2. CASE v = n /\ votedFor'[n] = n BY <1>t, <3>2 DEF Bound
        <3> QED BY Zenon, <1>5, <1>6, <3>1, <3>2
    <2>2. ASSUME NEW d \in Node, Voted(v, d, T)' PROVE d = n
        <3>1. Voted(v, d, T) \/ (v = n /\ d = votedFor'[n]) BY Zenon, <1>t, <2>2, TracesOfVotes
        <3>2. CASE Voted(v, n, T)
            <4>1. CASE Voted(v, d, T) BY Zenon, <1>0, <1>t, <3>2, <4>1 DEF OneVote
            <4>2. CASE v = n /\ d = votedFor'[n] BY Zenon, <1>0, <1>t, <3>2, <4>2, NewVoteAgrees
            <4> QED BY Zenon, <3>1, <4>1, <4>2
        <3>3. CASE v = n /\ votedFor'[n] = n
            <4>1. CASE Voted(v, d, T) BY Zenon, <1>0, <1>t, <3>3, <4>1, NewVoteAgrees
            <4> QED BY Zenon, <3>1, <3>3, <4>1
        <3> QED BY Zenon, <1>5, <1>6, <3>2, <3>3
    <2> QED BY Zenon, <2>1, <2>2 DEF Backs
<1>7. ASSUME NEW t \in Nat, NEW c \in Node, <<t, c>> \in elected
      PROVE  \E Q \in SUBSET InitVoters : Majority(Q) /\ \A v \in Q : Backs(v, c, t)'
    <2>1. PICK Q \in SUBSET InitVoters : Majority(Q) /\ \A v \in Q : Backs(v, c, t)
        BY Zenon, <1>0, <1>7 DEF LeadersBacked
    <2>2. \A v \in Q : Backs(v, c, t)' BY Zenon, <1>0, <2>1, BacksKept, NodeAssumption
    <2> QED BY Zenon, <2>1, <2>2
<1>8. CASE elected' = elected
    <2>1. LeadersBacked' BY Zenon, <1>7, <1>8 DEF LeadersBacked, Majority
    <2>2. ElectionSafety' BY Zenon, <1>0, <1>8 DEF ElectionSafety
    <2> QED BY Zenon, <1>1, <1>2, <1>4, <2>1, <2>2 DEF BallotInv
<1>9. ASSUME elected' = elected \cup {<<T, n>>},
             NEW Q \in SUBSET Node, HasQuorum(n, Cardinality(Q)), \A v \in Q : Supports(n, v)
      PROVE  BallotInv'
    <2>1. Q \in SUBSET InitVoters BY Zenon, <1>3, <1>9
    <2>2. Majority(Q) BY Zenon, <1>t, <1>9 DEF HasQuorum, QuorumSize, Majority
    <2>3. \A v \in Q : Backs(v, n, T)' BY Zenon, <1>6, <1>9
    <2>4. LeadersBacked'
        <3> SUFFICES ASSUME NEW t \in Nat, NEW c \in Node, <<t, c>> \in elected'
                     PROVE  \E R \in SUBSET InitVoters : Majority(R) /\ \A v \in R : Backs(v, c, t)'
            BY Zenon DEF LeadersBacked, Majority
        <3>1. CASE <<t, c>> \in elected BY Zenon, <1>7, <3>1
        <3>2. CASE t = T /\ c = n BY Zenon, <2>1, <2>2, <2>3, <3>2
        <3> QED BY Zenon, <1>9, <3>1, <3>2
    <2>5. ASSUME NEW c \in Node, <<T, c>> \in elected PROVE c = n
        <3>1. PICK R \in SUBSET InitVoters : Majority(R) /\ \A u \in R : Backs(u, c, T)
            BY Zenon, <1>0, <1>t, <2>5 DEF LeadersBacked
        <3>2. PICK v \in Node : v \in Q /\ v \in R BY Zenon, <2>1, <2>2, <3>1 DEF MajoritiesMeet
        <3>3. Supports(n, v) /\ Backs(v, c, T) BY Zenon, <1>9, <3>1, <3>2
        <3>4. CASE Voted(v, n, T) BY Zenon, <3>3, <3>4 DEF Backs
        <3>5. CASE v = n /\ votedFor'[n] = n
            <4>1. Backs(v, c, T)' BY Zenon, <1>0, <1>t, <3>2, <3>3, BacksKept
            <4> QED BY Zenon, <1>t, <3>5, <4>1 DEF Backs, Bound
        <3> QED BY Zenon, <1>5, <3>2, <3>3, <3>4, <3>5
    <2>6. ElectionSafety'
        <3> SUFFICES ASSUME NEW e \in elected', NEW f \in elected', e[1] = f[1] PROVE e[2] = f[2]
            BY Zenon DEF ElectionSafety
        <3>1. \A g \in elected' : g \in elected \/ (g[1] = T /\ g[2] = n) BY <1>9
        <3>2. \A g \in elected : g[1] = T => g[2] = n
            <4>1. \A g \in elected : g[2] \in Node /\ g = <<g[1], g[2]>> BY <1>t
            <4> QED BY Zenon, <2>5, <4>1
        <3> QED BY <1>0, <3>1, <3>2 DEF ElectionSafety
    <2> QED BY Zenon, <1>1, <1>2, <1>4, <2>4, <2>6 DEF BallotInv
<1> QED BY Zenon, <1>t, <1>8, <1>9 DEF BallotStep

-----------------------------------------------------------------------------
(* Every step is a BallotStep of the replica that takes it.                *)

\* no vote is asked for or given
NoneSent == \A m \in msgs' : m.type \in {"RequestVote", "VoteReply"} => m \in msgs

\* A replica that keeps its term and vote.
LEMMA SameVoteIsKept ==
    ASSUME TypeInv, NEW n \in Node, currentTerm'[n] = currentTerm[n], votedFor'[n] = votedFor[n]
    PROVE  KeepsVote(n) /\ GivesVote(n)
<1>1. PICK t \in Nat : t = currentTerm[n] BY Zenon, ElectionTyped
<1>2. t >= t BY SMT
<1> QED BY Zenon, <1>1, <1>2 DEF KeepsVote, GivesVote

\* A step that leaves terms and votes alone and starts no candidacy.
LEMMA QuietStep ==
    ASSUME TypeInv, NEW n \in Node, NEW got, NEW out, Exchange(got, out), NoVotes(out),
           UNCHANGED <<currentTerm, votedFor, votes, elected>>,
           \A k \in Node \ {n} : role'[k] = role[k],
           role'[n] = "CANDIDATE" => role[n] = "CANDIDATE"
    PROVE  BallotStep(n)
<1>2. KeepsVote(n) /\ GivesVote(n) BY Zenon, SameVoteIsKept
<1>3. NoneSent BY Zenon, ExchangeSends DEF NoVotes, NoneSent
<1>4. role[n] = "CANDIDATE" => \A v \in votes[n] : Supports(n, v) BY Zenon DEF Supports, Voted
<1> QED BY Zenon, <1>2, <1>3, <1>4 DEF BallotStep, NoneSent

\* A step of a replica that follows, in the same term with its vote or in a
\* later one: answers of a later term, append requests, restarts.
LEMMA FollowStep ==
    ASSUME TypeInv, NEW n \in Node, NEW t \in Nat, NEW vote, t >= currentTerm[n],
           t = currentTerm[n] => vote = votedFor[n], t # currentTerm[n] => vote = NONE, NoneSent,
           currentTerm' = [currentTerm EXCEPT ![n] = t],
           votedFor' = [votedFor EXCEPT ![n] = vote],
           votes' = [votes EXCEPT ![n] = {}],
           \A k \in Node \ {n} : role'[k] = role[k], elected' = elected
    PROVE  BallotStep(n)
<1>1. /\ currentTerm'[n] = t /\ votedFor'[n] = vote /\ votes'[n] = {}
      /\ \A k \in Node \ {n} : /\ currentTerm'[k] = currentTerm[k] /\ votedFor'[k] = votedFor[k]
                               /\ votes'[k] = votes[k]
    BY Zenon, ElectionTyped
<1>2. KeepsVote(n) /\ GivesVote(n) BY Zenon, <1>1 DEF KeepsVote, GivesVote
<1> QED BY Zenon, <1>1, <1>2 DEF BallotStep, NoneSent

\* propose sends append requests only, and ends as a leader or a follower.
LEMMA LeaderAppendQuiet ==
    ASSUME TypeInv, NEW n \in Node, NEW got, NEW t, NEW e, NEW ci, NEW next, NEW match, NEW out,
           NoVotes(out), LeaderAppend(got, n, t, e, ci, next, match, out)
    PROVE  /\ role'[n] # "CANDIDATE" /\ \A k \in Node \ {n} : role'[k] = role[k]
           /\ \E sent : Exchange(got, sent) /\ NoVotes(sent)
<1> DEFINE lg    == Append(log[n], e)
           nxt   == BroadcastNext(n, lg, next)
           newCi == IF HasQuorum(n, 1) THEN NewCommit(n, t, lg, ci, match) ELSE ci
           sent  == out \cup Broadcast(n, t, lg, ci, nxt) \cup CommitBroadcast(n, t, lg, ci, newCi, nxt)
<1>1. Exchange(got, sent) /\ ApplyCommitted(n, t, lg, newCi, "LEADER", FALSE) BY ZenonT(40) DEF LeaderAppend
<1> HIDE DEF lg, nxt, newCi
<1>2. NoVotes(sent)
    <2>1. \A c : NoVotes(Broadcast(n, t, lg, c, nxt)) BY Zenon, AppendsCarryNoVotes
    <2> QED BY Zenon, <2>1 DEF NoVotes, CommitBroadcast
<1>3. role' = [role EXCEPT ![n] = IF StepsDown(n, lg, newCi) THEN "FOLLOWER" ELSE "LEADER"]
    BY Zenon, <1>1 DEF ApplyCommitted
<1> QED BY Zenon, <1>1, <1>2, <1>3, ElectionTyped

\* The steps of a leader that propose.
LEMMA ProposeStep ==
    ASSUME TypeInv, NEW n \in Node, NEW got, NEW t, NEW e, NEW ci, NEW next, NEW match, NEW out,
           NoVotes(out), LeaderAppend(got, n, t, e, ci, next, match, out),
           UNCHANGED <<currentTerm, votedFor, votes, elected>>
    PROVE  BallotStep(n)
<1>1. PICK sent : Exchange(got, sent) /\ NoVotes(sent) BY Zenon, LeaderAppendQuiet
<1>2. role'[n] # "CANDIDATE" /\ \A k \in Node \ {n} : role'[k] = role[k] BY Zenon, LeaderAppendQuiet
<1> QED BY Zenon, <1>1, <1>2, QuietStep

\* become_leader with the votes of Q.
LEMMA BecomeLeaderStep ==
    ASSUME TypeInv, NEW n \in Node, NEW got, NEW t, BecomeLeader(got, n, t),
           KeepsVote(n), GivesVote(n), currentTerm'[n] = t,
           \A k \in Node \ {n} : currentTerm'[k] = currentTerm[k] /\ votedFor'[k] = votedFor[k],
           NEW Q \in SUBSET Node, HasQuorum(n, Cardinality(Q)), \A v \in Q : Supports(n, v)
    PROVE  BallotStep(n)
<1> DEFINE next  == [p \in Node |-> IF p \in Members(n) \ {n} THEN Len(log[n]) + 1 ELSE 0]
           match == [p \in Node |-> 0]
           e     == Entry(t, "NOOP", NONE)
           out   == {}
<1>1. LeaderAppend(got, n, t, e, commitIndex[n], next, match, out) /\ NoVotes(out)
    BY Zenon DEF BecomeLeader, NoVotes
<1> HIDE DEF next, match, e, out
<1>2. role'[n] # "CANDIDATE" /\ \A k \in Node \ {n} : role'[k] = role[k] BY Zenon, <1>1, LeaderAppendQuiet
<1>3. PICK sent : Exchange(got, sent) /\ NoVotes(sent) BY Zenon, <1>1, LeaderAppendQuiet
<1>4. NoneSent BY Zenon, <1>3, ExchangeSends DEF NoVotes, NoneSent
<1>5. elected' = elected \cup {<<t, n>>} /\ \A k \in Node \ {n} : votes'[k] = votes[k]
    BY Zenon, ElectionTyped DEF BecomeLeader
<1> QED BY Zenon, <1>2, <1>4, <1>5 DEF BallotStep, NoneSent

\* become_candidate: the candidate votes for itself in a new term.
LEMMA BecomeCandidateStep ==
    ASSUME SingletonSize, TypeInv, NEW n \in Node, n \in voters[n], NEW got, BecomeCandidate(got, n)
    PROVE  BallotStep(n)
<1> DEFINE t == currentTerm[n] + 1
<1>1. /\ currentTerm'[n] = t /\ votedFor'[n] = n /\ t > currentTerm[n]
      /\ \A k \in Node \ {n} : currentTerm'[k] = currentTerm[k] /\ votedFor'[k] = votedFor[k]
    <2>1. currentTerm[n] \in Nat BY Zenon, ElectionTyped
    <2>2. t > currentTerm[n] BY <2>1
    <2> HIDE DEF t
    <2>3. currentTerm' = [currentTerm EXCEPT ![n] = t] /\ votedFor' = [votedFor EXCEPT ![n] = n]
        BY Zenon DEF BecomeCandidate, t
    <2> QED BY Zenon, <2>2, <2>3, ElectionTyped
<1>2. KeepsVote(n) /\ GivesVote(n)
    <2>1. currentTerm[n] \in Nat BY Zenon, ElectionTyped
    <2>2. t >= currentTerm[n] /\ t # currentTerm[n] BY <2>1
    <2> HIDE DEF t
    <2> QED BY Zenon, <1>1, <2>2 DEF KeepsVote, GivesVote
<1>3. Supports(n, n) BY Zenon, <1>1 DEF Supports
<1>4. CASE HasQuorum(n, 1)
    <2>1. BecomeLeader(got, n, t) BY Zenon, <1>4 DEF BecomeCandidate
    <2>2. HasQuorum(n, Cardinality({n})) BY Zenon, <1>4 DEF SingletonSize
    <2> HIDE DEF t
    <2>3. \A v \in {n} : Supports(n, v) BY Zenon, <1>3
    <2> DEFINE Q == {n}
    <2>4. Q \in SUBSET Node /\ HasQuorum(n, Cardinality(Q)) /\ \A v \in Q : Supports(n, v) BY Zenon, <2>2, <2>3
    <2> HIDE DEF Q
    <2> QED BY Zenon, <1>1, <1>2, <2>1, <2>4, BecomeLeaderStep
<1>5. CASE ~HasQuorum(n, 1)
    <2>1. /\ role' = [role EXCEPT ![n] = "CANDIDATE"] /\ votes' = [votes EXCEPT ![n] = {n}]
          /\ Exchange(got, VoteRequests(n, "RequestVote", t)) /\ elected' = elected
        BY Zenon, <1>5 DEF BecomeCandidate
    <2>2. /\ votes'[n] = {n} /\ role'[n] = "CANDIDATE"
          /\ \A k \in Node \ {n} : role'[k] = role[k] /\ votes'[k] = votes[k]
        BY ZenonT(40), <2>1, ElectionTyped
    <2>3. \A m \in VoteRequests(n, "RequestVote", t) : m.type = "RequestVote" /\ Asks(n, m)
        <3> HIDE DEF t
        <3> TAKE m \in VoteRequests(n, "RequestVote", t)
        <3>1. /\ m.type = "RequestVote" /\ m.from = n /\ m.term = t
              /\ m.lastTerm = LastTerm(log[n]) /\ m.lastIndex = Len(log[n])
            BY Zenon, VoteRequestsSay
        <3>2. t = currentTerm'[n] /\ role'[n] = "CANDIDATE" BY Zenon, <1>1, <2>2
        <3> QED BY Zenon, <3>1, <3>2 DEF Asks
    <2>4. \A m \in msgs' : /\ m.type = "VoteReply" => m \in msgs
                           /\ m.type = "RequestVote" => m \in msgs \/ Asks(n, m)
        BY Zenon, <2>1, <2>3, ExchangeSends
    <2> QED BY Zenon, <1>1, <1>2, <1>3, <2>1, <2>2, <2>4 DEF BallotStep
<1> QED BY Zenon, <1>4, <1>5

\* The tick of a leader.
LEMMA TickLeaderStep ==
    ASSUME TypeInv, NEW n \in Node, TickLeader(n)
    PROVE  BallotStep(n)
<1> DEFINE nxt  == BroadcastNext(n, log[n], nextIndex[n])
           beat == Broadcast(n, currentTerm[n], log[n], commitIndex[n], nxt)
<1>1. UNCHANGED <<currentTerm, votedFor, votes, elected>> BY Zenon DEF TickLeader
<1>2. NoVotes(beat) /\ NoVotes({})
    <2>1. NoVotes(beat) BY Zenon, AppendsCarryNoVotes
    <2> QED BY Zenon, <2>1 DEF NoVotes
<1> HIDE DEF beat
<1>3. CASE ReadyLearners(n, matchIndex[n]) = {}
    <2>1. Exchange({}, beat) /\ role' = role BY Zenon, <1>3 DEF TickLeader, nxt, beat
    <2> QED BY Zenon, <1>1, <1>2, <2>1, QuietStep
<1>4. CASE ReadyLearners(n, matchIndex[n]) # {}
    <2>1. PICK p \in ReadyLearners(n, matchIndex[n]), fired \in BOOLEAN :
             LeaderAppend({}, n, currentTerm[n], Entry(currentTerm[n], "PROMOTE_VOTER", p),
                          commitIndex[n], nextIndex[n], matchIndex[n], IF fired THEN beat ELSE {})
        BY Zenon, <1>4 DEF TickLeader, nxt, beat
    <2>2. NoVotes(IF fired THEN beat ELSE {}) BY Zenon, <1>2
    <2> QED BY ZenonT(40), <1>1, <2>1, <2>2, ProposeStep
<1> QED BY Zenon, <1>3, <1>4

\* The election time-out: a pre-vote, or a candidacy in a group of one voter.
LEMMA TickElectionStep ==
    ASSUME SingletonSize, TypeInv, NEW n \in Node, TickElection(n)
    PROVE  BallotStep(n)
<1>1. n \in voters[n] BY Zenon DEF TickElection
<1>2. CASE HasQuorum(n, 1) BY Zenon, <1>1, <1>2, BecomeCandidateStep DEF TickElection
<1>3. CASE ~HasQuorum(n, 1)
    <2>1. /\ role' = [role EXCEPT ![n] = "PRE_CANDIDATE"] /\ votes' = [votes EXCEPT ![n] = {n}]
          /\ Exchange({}, VoteRequests(n, "PreVote", currentTerm[n] + 1))
          /\ UNCHANGED <<currentTerm, votedFor, elected>>
        BY Zenon, <1>3 DEF TickElection
    <2>2. NoVotes(VoteRequests(n, "PreVote", currentTerm[n] + 1))
        <3>1. \A t : \A m \in VoteRequests(n, "PreVote", t) : m.type = "PreVote" BY Zenon, VoteRequestsSay
        <3>2. \A t : NoVotes(VoteRequests(n, "PreVote", t)) BY Zenon, <3>1 DEF NoVotes
        <3> QED BY Zenon, <3>2
    <2>3. NoneSent BY Zenon, <2>1, <2>2, ExchangeSends DEF NoVotes, NoneSent
    <2>4. /\ role'[n] # "CANDIDATE"
          /\ \A k \in Node \ {n} : role'[k] = role[k] /\ votes'[k] = votes[k]
        BY Zenon, <2>1, ElectionTyped
    <2>5. KeepsVote(n) /\ GivesVote(n) BY Zenon, <2>1, SameVoteIsKept
    <2> QED BY Zenon, <2>1, <2>3, <2>4, <2>5 DEF BallotStep, NoneSent
<1> QED BY Zenon, <1>2, <1>3

\* become_follower on an answer of a later term.
LEMMA BecomeFollowerStep ==
    ASSUME TypeInv, NEW n \in Node, NEW t \in Nat, t > currentTerm[n], NEW got,
           BecomeFollower(n, t), Exchange(got, {}), elected' = elected
    PROVE  BallotStep(n)
<1>1. /\ role' = [role EXCEPT ![n] = "FOLLOWER"] /\ currentTerm' = [currentTerm EXCEPT ![n] = t]
      /\ votedFor' = [votedFor EXCEPT ![n] = NONE] /\ votes' = [votes EXCEPT ![n] = {}]
    BY Zenon DEF BecomeFollower
<1>2. NoneSent BY Zenon DEF Exchange, NoneSent
<1>3. currentTerm[n] \in Nat /\ \A k \in Node \ {n} : role'[k] = role[k] BY Zenon, <1>1, ElectionTyped
<1>4. t >= currentTerm[n] /\ ~(t = currentTerm[n]) BY <1>3
<1>5. t = currentTerm[n] => NONE = votedFor[n] BY Zenon, <1>4
<1> QED BY Zenon, <1>1, <1>2, <1>3, <1>4, <1>5, FollowStep

\* handle_pre_vote grants no vote.
LEMMA HandlePreVoteStep ==
    ASSUME TypeInv, NEW m \in msgs, HandlePreVote(m)
    PROVE  BallotStep(m.to)
<1>1. PICK granted \in BOOLEAN :
         Exchange({m}, {VoteReply(m, "PreVoteReply", currentTerm[m.to], granted)})
    BY ZenonT(40) DEF HandlePreVote
<1>2. NoVotes({VoteReply(m, "PreVoteReply", currentTerm[m.to], granted)})
    BY DEF NoVotes, VoteReply
<1>3. m.to \in Node BY Zenon, MessageTyped
<1>4. UNCHANGED <<role, currentTerm, votedFor, votes, elected>> BY Zenon DEF HandlePreVote, electionVars
<1> QED BY Zenon, <1>1, <1>2, <1>3, <1>4, QuietStep

\* handle_pre_vote_response counts pre-votes, which are not votes.
LEMMA HandlePreVoteResponseStep ==
    ASSUME SingletonSize, TypeInv, NEW m \in msgs, HandlePreVoteResponse(m)
    PROVE  BallotStep(m.to)
<1> DEFINE n == m.to
<1>1. n \in Node /\ m.term \in Nat /\ NoVotes({}) BY Zenon, MessageTyped DEF NoVotes
<1>2. CASE Exchange({m}, {}) /\ UNCHANGED electionVars
    BY Zenon, <1>1, <1>2, QuietStep DEF electionVars
<1>3. CASE m.term > currentTerm[n] /\ BecomeFollower(n, m.term) /\ Exchange({m}, {}) /\ elected' = elected
    BY Zenon, <1>1, <1>3, BecomeFollowerStep
<1>4. CASE n \in voters[n] /\ BecomeCandidate({m}, n) BY Zenon, <1>1, <1>4, BecomeCandidateStep
<1>5. CASE /\ role[n] = "PRE_CANDIDATE" /\ votes' = [votes EXCEPT ![n] = votes[n] \cup {m.from}]
           /\ Exchange({m}, {}) /\ UNCHANGED <<role, currentTerm, votedFor, elected>>
    <2>1. \A x \in msgs' : x \in msgs BY Zenon, <1>5 DEF Exchange
    <2>2. \A k \in Node \ {n} : votes'[k] = votes[k] BY Zenon, <1>1, <1>5, ElectionTyped
    <2>3. KeepsVote(n) /\ GivesVote(n) BY Zenon, <1>1, <1>5, SameVoteIsKept
    <2> QED BY Zenon, <1>1, <1>5, <2>1, <2>2, <2>3 DEF BallotStep
<1> QED BY Zenon, <1>2, <1>3, <1>4, <1>5 DEF HandlePreVoteResponse, WinsWith

\* handle_request_vote grants at most the one vote it saves.
LEMMA HandleRequestVoteStep ==
    ASSUME TypeInv, NEW m \in msgs, HandleRequestVote(m)
    PROVE  BallotStep(m.to)
<1> DEFINE n       == m.to
           newer   == m.term > currentTerm[n]
           granted == ~LaterThanOther(n, m.lastTerm, m.lastIndex) /\ CanGrant(m)
<1>1. n \in Node /\ m.from \in Node /\ m.term \in Nat /\ currentTerm[n] \in Nat
    BY Zenon, MessageTyped, ElectionTyped
<1>2. elected' = elected BY Zenon DEF HandleRequestVote
<1>3. CASE VotePreconditions(m) /\ m.term >= currentTerm[n]
    <2>1. /\ currentTerm' = [currentTerm EXCEPT ![n] = m.term]
          /\ votedFor' = [votedFor EXCEPT ![n] = IF granted THEN m.from ELSE IF newer THEN NONE ELSE @]
          /\ role' = [role EXCEPT ![n] = IF newer THEN "FOLLOWER" ELSE @]
          /\ votes' = [votes EXCEPT ![n] = IF newer THEN {} ELSE @]
          /\ Exchange({m}, {VoteReply(m, "VoteReply", m.term, granted)})
        BY Zenon, <1>3 DEF HandleRequestVote
    <2>2. granted => newer \/ votedFor[n] \in {NONE, m.from} BY Zenon DEF CanGrant
    <2> HIDE DEF granted
    <2>3. /\ currentTerm'[n] = m.term
          /\ votedFor'[n] = IF granted THEN m.from ELSE IF newer THEN NONE ELSE votedFor[n]
          /\ role'[n] = (IF newer THEN "FOLLOWER" ELSE role[n])
          /\ ~newer => votes'[n] = votes[n]
          /\ \A k \in Node \ {n} : /\ role'[k] = role[k] /\ currentTerm'[k] = currentTerm[k]
                                   /\ votedFor'[k] = votedFor[k] /\ votes'[k] = votes[k]
        BY Zenon, <1>1, <2>1, ElectionTyped
    <2>a. (newer /\ m.term # currentTerm[n]) \/ (~newer /\ m.term = currentTerm[n])
        BY Zenon, <1>1, <1>3, TermOrder
    <2>4. KeepsVote(n)
        <3>1. CASE newer BY Zenon, <1>3, <2>a, <2>3, <3>1 DEF KeepsVote
        <3>2. CASE ~newer
            <4>1. granted => votedFor[n] \in {NONE, m.from} BY Zenon, <2>2, <3>2
            <4>2. currentTerm'[n] = currentTerm[n] BY Zenon, <2>a, <2>3, <3>2
            <4>3. votedFor'[n] = IF granted THEN m.from ELSE votedFor[n] BY Zenon, <2>3, <3>2
            <4> QED BY Zenon, <1>3, <2>3, <4>1, <4>2, <4>3 DEF KeepsVote
        <3> QED BY Zenon, <3>1, <3>2
    <2>5. \A x \in msgs' : x.type = "VoteReply" /\ x.granted =>
              x \in msgs \/ (x.from = n /\ x.to = votedFor'[n] /\ x.term = currentTerm'[n])
        <3> SUFFICES ASSUME NEW x \in msgs', x \notin msgs, x.granted
                     PROVE  x.from = n /\ x.to = votedFor'[n] /\ x.term = currentTerm'[n]
            BY Zenon
        <3>1. x = VoteReply(m, "VoteReply", m.term, granted) BY Zenon, <2>1 DEF Exchange
        <3> QED BY Zenon, <2>3, <3>1 DEF VoteReply
    <2>6. role'[n] = "CANDIDATE" => \A v \in votes'[n] : Supports(n, v)
        <3> SUFFICES ASSUME role'[n] = "CANDIDATE", NEW v \in votes'[n] PROVE Supports(n, v)
            BY Zenon
        <3>1. ~newer BY Zenon, <2>3
        <3>2. currentTerm'[n] = currentTerm[n] /\ role[n] = "CANDIDATE" /\ v \in votes[n]
            BY Zenon, <2>a, <2>3, <3>1
        <3> QED BY Zenon, <3>2 DEF Supports, Voted
    <2>7. \A x \in msgs' : x.type = "RequestVote" => x \in msgs
        <3>1. \A x \in msgs' : x \in msgs \/ x = VoteReply(m, "VoteReply", m.term, granted)
            BY Zenon, <2>1 DEF Exchange
        <3>2. VoteReply(m, "VoteReply", m.term, granted).type = "VoteReply" BY Zenon DEF VoteReply
        <3> QED BY Zenon, <3>1, <3>2
    <2>8. GivesVote(n)
        <3>1. CASE granted
            <4>1. ~LaterThanOther(n, m.lastTerm, m.lastIndex) BY Zenon, <3>1 DEF granted
            <4>2. m.type = "RequestVote" BY Zenon DEF HandleRequestVote
            <4> QED BY Zenon, <2>3, <3>1, <4>1, <4>2 DEF GivesVote
        <3>2. CASE ~granted /\ newer BY Zenon, <2>3, <3>2 DEF GivesVote
        <3>3. CASE ~granted /\ ~newer
            <4>1. currentTerm'[n] = currentTerm[n] BY Zenon, <2>a, <2>3, <3>3
            <4>2. votedFor'[n] = votedFor[n] BY Zenon, <2>3, <3>3
            <4> QED BY Zenon, <4>1, <4>2 DEF GivesVote
        <3> QED BY Zenon, <3>1, <3>2, <3>3
    <2> QED BY Zenon, <1>2, <2>3, <2>4, <2>5, <2>6, <2>7, <2>8 DEF BallotStep
<1>4. CASE ~(VotePreconditions(m) /\ m.term >= currentTerm[n])
    <2>1. /\ Exchange({m}, {VoteReply(m, "VoteReply", currentTerm[n], FALSE)})
          /\ UNCHANGED <<currentTerm, votedFor, role, votes>>
        BY Zenon, <1>4 DEF HandleRequestVote
    <2>2. \A x \in msgs' : x.type = "RequestVote" \/ (x.type = "VoteReply" /\ x.granted) => x \in msgs
        BY <2>1 DEF Exchange, VoteReply
    <2>3. KeepsVote(n) /\ GivesVote(n) BY Zenon, <1>1, <2>1, SameVoteIsKept
    <2>4. role[n] = "CANDIDATE" => \A v \in votes[n] : Supports(n, v)
        BY Zenon, <2>1 DEF Supports, Voted
    <2> QED BY ZenonT(40), <1>2, <2>1, <2>2, <2>3, <2>4 DEF BallotStep
<1> QED BY Zenon, <1>3, <1>4

\* handle_vote_response counts each granted vote of its candidacy once, and a
\* winner has a quorum of them.
LEMMA HandleVoteResponseStep ==
    ASSUME TypeInv, NEW m \in msgs, HandleVoteResponse(m)
    PROVE  BallotStep(m.to)
<1> DEFINE n == m.to
           Q == votes[n] \cup {m.from}
<1>1. /\ n \in Node /\ m.from \in Node /\ m.term \in Nat /\ currentTerm[n] \in Nat
      /\ votes[n] \in SUBSET Node /\ NoVotes({}) /\ m.type = "VoteReply"
    BY Zenon, MessageTyped, ElectionTyped DEF NoVotes, HandleVoteResponse
<1>2. CASE Exchange({m}, {}) /\ UNCHANGED electionVars
    BY ZenonT(40), <1>1, <1>2, QuietStep DEF electionVars
<1>3. CASE m.term > currentTerm[n] /\ BecomeFollower(n, m.term) /\ Exchange({m}, {}) /\ elected' = elected
    BY Zenon, <1>1, <1>3, BecomeFollowerStep
<1>4. CASE /\ role[n] = "CANDIDATE" /\ CountsVote(m) /\ UNCHANGED <<currentTerm, votedFor>>
           /\ IF WinsWith(n, Q)
              THEN BecomeLeader({m}, n, currentTerm[n])
              ELSE /\ votes' = [votes EXCEPT ![n] = Q] /\ Exchange({m}, {}) /\ UNCHANGED <<role, elected>>
    <2>1. /\ m.granted /\ m.from \in voters[n] /\ m.term = currentTerm'[n]
          /\ currentTerm'[n] = currentTerm[n] /\ KeepsVote(n) /\ GivesVote(n)
        <3>1. /\ m.granted /\ m.from \in voters[n] /\ m.term = currentTerm[n]
              /\ currentTerm' = currentTerm /\ votedFor' = votedFor
            BY Zenon, <1>4 DEF CountsVote
        <3> QED BY Zenon, <1>1, <3>1, SameVoteIsKept
    <2>2. \A v \in Q : Supports(n, v)
        <3>1. Supports(n, m.from) BY Zenon, <1>1, <2>1 DEF Supports, Voted
        <3>2. \A v \in votes[n] : Supports(n, v) BY Zenon, <1>4, <2>1 DEF Supports, Voted
        <3> QED BY Zenon, <3>1, <3>2
    <2>3. Q \in SUBSET Node BY Zenon, <1>1
    <2> HIDE DEF Q
    <2>4. CASE WinsWith(n, Q)
        <3>1. BecomeLeader({m}, n, currentTerm[n]) /\ HasQuorum(n, Cardinality(Q))
            BY Zenon, <1>4, <2>4 DEF WinsWith
        <3> QED BY ZenonT(40), <1>1, <1>4, <2>1, <2>2, <2>3, <3>1, BecomeLeaderStep
    <2>5. CASE ~WinsWith(n, Q)
        <3>1. votes' = [votes EXCEPT ![n] = Q] /\ Exchange({m}, {}) /\ UNCHANGED <<role, elected>>
            BY Zenon, <1>4, <2>5
        <3>2. \A x \in msgs' : x \in msgs BY Zenon, <3>1 DEF Exchange
        <3>3. votes'[n] = Q /\ \A k \in Node \ {n} : votes'[k] = votes[k]
            BY Zenon, <1>1, <3>1, ElectionTyped
        <3> QED BY ZenonT(40), <1>4, <2>1, <2>2, <3>1, <3>2, <3>3 DEF BallotStep
    <2> QED BY Zenon, <2>4, <2>5
<1> QED BY ZenonT(40), <1>2, <1>3, <1>4 DEF HandleVoteResponse

\* handle_append_entries follows the sender, in its term.
LEMMA HandleAppendEntriesStep ==
    ASSUME TypeInv, NEW m \in msgs, HandleAppendEntries(m)
    PROVE  BallotStep(m.to)
<1> DEFINE n    == m.to
           vote == IF m.term > currentTerm[n] THEN NONE ELSE votedFor[n]
<1>1. n \in Node /\ m.term \in Nat /\ currentTerm[n] \in Nat BY Zenon, MessageTyped, ElectionTyped
<1>2. \A t, ok : NoVotes({AppendReply(m, t, ok)}) BY Zenon, AppendReplyCarriesNoVote
<1>3. CASE ~AcceptsLeader(m)
    <2>1. Exchange({m}, {AppendReply(m, currentTerm[n], FALSE)}) /\ UNCHANGED electionVars
        BY ZenonT(40), <1>3 DEF HandleAppendEntries
    <2> QED BY Zenon, <1>1, <1>2, <2>1, QuietStep DEF electionVars
<1>4. CASE AcceptsLeader(m)
    <2>1. /\ currentTerm' = [currentTerm EXCEPT ![n] = m.term]
          /\ votedFor' = [votedFor EXCEPT ![n] = vote] /\ votes' = [votes EXCEPT ![n] = {}]
          /\ Exchange({m}, {AppendReply(m, m.term, PrevMatches(m))}) /\ elected' = elected
        BY Zenon, <1>4 DEF HandleAppendEntries
    <2>2. NoneSent BY <1>2, <2>1, ExchangeSends DEF NoVotes, NoneSent
    <2>3. \A k \in Node \ {n} : role'[k] = role[k]
        <3>1. CASE PrevMatches(m)
            <4>1. PICK lg, ci : ApplyCommitted(n, m.term, lg, ci, "FOLLOWER", TRUE)
                BY Zenon, <1>4, <3>1 DEF HandleAppendEntries
            <4> QED BY Zenon, <1>1, <4>1, ElectionTyped DEF ApplyCommitted
        <3>2. CASE ~PrevMatches(m)
            <4>1. role' = [role EXCEPT ![n] = "FOLLOWER"] BY Zenon, <1>4, <3>2 DEF HandleAppendEntries
            <4> QED BY Zenon, <1>1, <4>1, ElectionTyped
        <3> QED BY Zenon, <3>1, <3>2
    <2>4. /\ m.term >= currentTerm[n] /\ (m.term = currentTerm[n] => vote = votedFor[n])
          /\ m.term # currentTerm[n] => vote = NONE
        BY <1>1, <1>4 DEF AcceptsLeader
    <2> HIDE DEF vote
    <2> QED BY Zenon, <1>1, <2>1, <2>2, <2>3, <2>4, FollowStep
<1> QED BY Zenon, <1>3, <1>4

\* handle_append_response changes no vote.
LEMMA HandleAppendResponseStep ==
    ASSUME TypeInv, NEW m \in msgs, HandleAppendResponse(m)
    PROVE  BallotStep(m.to)
<1> DEFINE n     == m.to
           p     == m.from
           match == [matchIndex[n] EXCEPT ![p] = NextAfterOk(n, m)]
           next  == [nextIndex[n] EXCEPT ![p] = NextAfterOk(n, m) + 1]
           ci    == NewCommit(n, currentTerm[n], log[n], commitIndex[n], match)
           out   == CommitBroadcast(n, currentTerm[n], log[n], commitIndex[n], ci, next)
<1>1. n \in Node /\ m.term \in Nat /\ NoVotes({})
    <2>1. NoVotes({}) BY Zenon DEF NoVotes
    <2> QED BY Zenon, <2>1, MessageTyped
<1>2. CASE Exchange({m}, {}) /\ UNCHANGED electionVars
    BY Zenon, <1>1, <1>2, QuietStep DEF electionVars
<1>3. CASE m.term > currentTerm[n] /\ BecomeFollower(n, m.term) /\ Exchange({m}, {}) /\ elected' = elected
    BY Zenon, <1>1, <1>3, BecomeFollowerStep
<1>4. CASE /\ IF ReadyLearners(n, match) = {}
              THEN Exchange({m}, out) /\ ApplyCommitted(n, currentTerm[n], log[n], ci, "LEADER", FALSE)
              ELSE \E q \in ReadyLearners(n, match) :
                      LeaderAppend({m}, n, currentTerm[n],
                          Entry(currentTerm[n], "PROMOTE_VOTER", q), ci, next, match, {})
           /\ UNCHANGED <<currentTerm, votedFor, votes, elected>>
    <2> HIDE DEF match, next, ci
    <2>1. CASE ReadyLearners(n, match) = {}
        <3>1. Exchange({m}, out) /\ ApplyCommitted(n, currentTerm[n], log[n], ci, "LEADER", FALSE)
            BY ZenonT(40), <1>4, <2>1
        <3>2. NoVotes(out)
            <4>1. NoVotes(Broadcast(n, currentTerm[n], log[n], ci, next)) BY Zenon, AppendsCarryNoVotes
            <4> QED BY Zenon, <1>1, <4>1 DEF CommitBroadcast
        <3>3. role' = [role EXCEPT ![n] = IF StepsDown(n, log[n], ci) THEN "FOLLOWER" ELSE "LEADER"]
            BY Zenon, <3>1 DEF ApplyCommitted
        <3>4. role'[n] # "CANDIDATE" /\ \A k \in Node \ {n} : role'[k] = role[k]
            BY Zenon, <1>1, <3>3, ElectionTyped
        <3> HIDE DEF out
        <3> QED BY Zenon, <1>1, <1>4, <3>1, <3>2, <3>4, QuietStep
    <2>2. CASE ReadyLearners(n, match) # {}
        <3>1. PICK q : LeaderAppend({m}, n, currentTerm[n],
                           Entry(currentTerm[n], "PROMOTE_VOTER", q), ci, next, match, {})
            BY Zenon, <1>4, <2>2
        <3> QED BY ZenonT(40), <1>1, <1>4, <3>1, ProposeStep
    <2> QED BY Zenon, <2>1, <2>2
<1> QED BY ZenonT(40), <1>2, <1>3, <1>4 DEF HandleAppendResponse

\* RecoverCall follows with the saved vote.
LEMMA RecoverStep ==
    ASSUME TypeInv, NEW n \in Node, NEW lg, NEW t \in Nat, t >= currentTerm[n], NEW vote,
           t = currentTerm[n] => vote = votedFor[n], t # currentTerm[n] => vote = NONE,
           NEW torn, Recover(n, lg, t, vote, torn)
    PROVE  BallotStep(n)
<1>1. /\ role' = [role EXCEPT ![n] = "FOLLOWER"] /\ currentTerm' = [currentTerm EXCEPT ![n] = t]
      /\ votedFor' = [votedFor EXCEPT ![n] = vote] /\ votes' = [votes EXCEPT ![n] = {}]
      /\ elected' = elected /\ NoneSent
    BY Zenon DEF Recover, NoneSent
<1>2. \A k \in Node \ {n} : role'[k] = role[k] BY Zenon, <1>1, ElectionTyped
<1> QED BY Zenon, <1>1, <1>2, FollowStep

\* A restart.
LEMMA RestartStep ==
    ASSUME TypeInv, NEW n \in Node, Restart(n)
    PROVE  BallotStep(n)
<1>1. PICK torn \in BOOLEAN : Recover(n, log[n], currentTerm[n], votedFor[n], torn) BY Zenon DEF Restart
<1>2. currentTerm[n] \in Nat /\ currentTerm[n] >= currentTerm[n] BY ElectionTyped
<1> QED BY Zenon, <1>1, <1>2, RecoverStep

\* A crash while the entries of a request are saved: the term is saved before.
LEMMA CrashInAppendStep ==
    ASSUME TypeInv, NEW m \in msgs, CrashInAppend(m)
    PROVE  BallotStep(m.to)
<1> DEFINE n    == m.to
           vote == IF m.term > currentTerm[n] THEN NONE ELSE votedFor[n]
<1>1. PICK lg, torn : Recover(n, lg, m.term, vote, torn) BY Zenon DEF CrashInAppend
<1>2. n \in Node /\ m.term \in Nat /\ m.term >= currentTerm[n] BY Zenon, MessageTyped DEF CrashInAppend, AcceptsLeader
<1>3. currentTerm[n] \in Nat BY Zenon, <1>2, ElectionTyped
<1>4. (m.term = currentTerm[n] => vote = votedFor[n]) /\ (m.term # currentTerm[n] => vote = NONE) BY <1>2, <1>3
<1> HIDE DEF vote
<1> QED BY Zenon, <1>1, <1>2, <1>4, RecoverStep

\* Every step of the group is a BallotStep of some replica.
LEMMA EveryStep ==
    ASSUME SingletonSize, TypeInv, Next
    PROVE  \E n \in Node : BallotStep(n)
<1>0. NoVotes({}) /\ \A m \in msgs : m.to \in Node BY Zenon, MessageTyped DEF NoVotes
<1>1. CASE \E n \in Node, v \in Request : Propose(n, v) BY Zenon, <1>0, <1>1, ProposeStep DEF Propose
<1>2. CASE \E n \in Node : TickLeader(n) BY Zenon, <1>2, TickLeaderStep
<1>3. CASE \E n \in Node : TickElection(n) BY Zenon, <1>3, TickElectionStep
<1>4. CASE \E n \in Node, p \in AddTargets : EnsureAddLearner(n, p)
    BY Zenon, <1>0, <1>4, ProposeStep DEF EnsureAddLearner, ProposeConfig
<1>5. CASE \E n \in Node, p \in RemoveTargets : EnsureRemoveMember(n, p)
    BY Zenon, <1>0, <1>5, ProposeStep DEF EnsureRemoveMember, ProposeConfig
<1>6. CASE \E m \in msgs : HandlePreVote(m) BY Zenon, <1>0, <1>6, HandlePreVoteStep
<1>7. CASE \E m \in msgs : HandlePreVoteResponse(m) BY <1>0, <1>7, HandlePreVoteResponseStep
<1>8. CASE \E m \in msgs : HandleRequestVote(m) BY Zenon, <1>0, <1>8, HandleRequestVoteStep
<1>9. CASE \E m \in msgs : HandleVoteResponse(m) BY Zenon, <1>0, <1>9, HandleVoteResponseStep
<1>10. CASE \E m \in msgs : HandleAppendEntries(m) BY Zenon, <1>0, <1>10, HandleAppendEntriesStep
<1>11. CASE \E m \in msgs : HandleAppendResponse(m) BY Zenon, <1>0, <1>11, HandleAppendResponseStep
<1>12. CASE \E n \in Node : Restart(n) BY Zenon, <1>12, RestartStep
<1>13. CASE \E m \in msgs : CrashInAppend(m) BY Zenon, <1>0, <1>13, CrashInAppendStep
<1> QED
    BY Zenon, <1>1, <1>2, <1>3, <1>4, <1>5, <1>6, <1>7, <1>8, <1>9, <1>10, <1>11, <1>12, <1>13
    DEF Next, Dispatch, Crash

\* No replica of a new group has voted or leads.
LEMMA BallotInit == Init => BallotInv
<1> SUFFICES ASSUME Init PROVE BallotInv BY Zenon
<1>1. \A v, c \in Node, t \in Nat : ~Voted(v, c, t) BY Zenon, NodeAssumption DEF Init, Voted
<1> QED BY Zenon, <1>1 DEF Init, BallotInv, VotesBind, OneVote, VotersCounted, LeadersBacked, ElectionSafety
=============================================================================
