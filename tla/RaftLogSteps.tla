---------------------------- MODULE RaftLogSteps ----------------------------
(***************************************************************************)
(* Every action of a group whose membership does not change is a LogStep: a*)
(* replica keeps its log, appends to it as the leader of a term, or merges *)
(* a request into it; what it sends, what it concludes from answers and    *)
(* what it commits are tied to that log.                                   *)
(*                                                                         *)
(* From this follows what the proposal tracker tells its clients: a request*)
(* waits only on a leader, at an index where the log of that leader holds  *)
(* it, so an answer of OK rests on an entry that is committed (ClientInv). *)
(***************************************************************************)
EXTENDS RaftClient, RaftInvariant

-----------------------------------------------------------------------------
(* A group of fixed members.                                               *)

\* It logs writes and no-ops only.
LEMMA StaticKinds ==
    ASSUME Static, NEW lg \in Seq(EntrySet), NEW i \in 1..Len(lg)
    PROVE  lg[i].kind \notin ConfigKinds
<1>1. lg[i] \in EntrySet OBVIOUS
<1> QED BY Zenon, <1>1 DEF EntrySet, Static, ConfigKinds

\* It has no learners, so no tick and no answer promotes one.
LEMMA StaticMembers ==
    ASSUME TypeInv, Static, NEW n \in Node
    PROVE  Members(n) = InitVoters /\ \A match : ReadyLearners(n, match) = {}
<1>1. voters[n] = InitVoters BY Zenon, StaticVoters
<1>2. learners[n] = {} BY Zenon DEF TypeInv, TypeOK, Static
<1> QED BY Zenon, <1>1, <1>2 DEF Members, ReadyLearners

\* Applying entries leaves the role the handler chose.
LEMMA StaticApply ==
    ASSUME TypeInv, Static, NEW n \in Node, NEW t, NEW lg \in Seq(EntrySet), NEW ci \in Nat, NEW r, NEW recent,
           ci > commitIndex[n] => ci <= Len(lg), ApplyCommitted(n, t, lg, ci, r, recent)
    PROVE  role'[n] = r /\ \A k \in Node \ {n} : role'[k] = role[k]
<1>1. commitIndex[n] \in Nat /\ Len(lg) \in Nat /\ role \in [Node -> Roles] BY DEF TypeInv, TypeOK
<1>2. ~StepsDown(n, lg, ci)
    <2>1. \A i \in commitIndex[n]+1..ci : i \in 1..Len(lg) BY <1>1
    <2> QED BY Zenon, <2>1, StaticKinds DEF StepsDown
<1>3. role' = [role EXCEPT ![n] = IF StepsDown(n, lg, ci) THEN "FOLLOWER" ELSE r] BY Zenon DEF ApplyCommitted
<1> QED BY Zenon, <1>1, <1>2, <1>3

\* No committed entry removes a member, so none is broadcast at once.
LEMMA StaticBroadcast ==
    ASSUME Static, NEW n, NEW t, NEW lg \in Seq(EntrySet), NEW old \in Nat, NEW new \in Nat, NEW next,
           new > old => new <= Len(lg)
    PROVE  CommitBroadcast(n, t, lg, old, new, next) = {}
<1>1. Len(lg) \in Nat OBVIOUS
<1>2. \A i \in old+1..new : i \in 1..Len(lg) BY <1>1
<1>3. \A i \in old+1..new : lg[i].kind # "REMOVE_MEMBER" BY Zenon, <1>2, StaticKinds DEF ConfigKinds
<1> QED BY Zenon, <1>3 DEF CommitBroadcast

\* broadcast_append_entries: the next index it uses for a member.
LEMMA BroadcastNextOf ==
    ASSUME NEW n, NEW lg, NEW next, Members(n) \subseteq Node
    PROVE  \A p \in Members(n) \ {n} :
               BroadcastNext(n, lg, next)[p] = IF next[p] = 0 THEN Len(lg) + 1 ELSE next[p]
<1> TAKE p \in Members(n) \ {n}
<1>1. p \in Node BY Zenon
<1>2. BroadcastNext(n, lg, next)[p] = IF p \in Members(n) \ {n} /\ next[p] = 0 THEN Len(lg) + 1 ELSE next[p]
    BY Zenon, <1>1 DEF BroadcastNext
<1> QED BY Zenon, <1>2

\* a request of leader n that carries a piece of its log lg from next on
RequestOf(m, n, t, lg, ci, next) ==
    /\ m.type = "AppendEntries" /\ m.from = n /\ m.to \in Members(n) \ {n} /\ m.term = t /\ m.commit = ci
    /\ Segment(m, lg) /\ m.prevIndex + 1 = next[m.to]
    /\ m.entries = <<>> => m.prevIndex = Len(lg)

\* build_append_entries_message: every request of a broadcast carries a piece
\* of the leader's log.
LEMMA BroadcastSegment ==
    ASSUME TypeInv, NEW n \in Node, NEW t, NEW lg \in Seq(EntrySet), NEW ci, NEW next \in [Node -> Nat],
           \A p \in Node : next[p] <= Len(lg) + 1
    PROVE  \A m \in Broadcast(n, t, lg, ci, BroadcastNext(n, lg, next)) :
               RequestOf(m, n, t, lg, ci, BroadcastNext(n, lg, next))
<1> DEFINE nxt == BroadcastNext(n, lg, next)
           nx2 == BroadcastNext(n, lg, nxt)
<1>1. \A p \in Members(n) \ {n} : p \in Node /\ nxt[p] \in 1..Len(lg) + 1 /\ nx2[p] = nxt[p]
    <2>1. TypeOK /\ Len(lg) \in Nat BY DEF TypeInv
    <2>2. /\ nxt \in [Node -> Nat] /\ \A p \in Node : nxt[p] <= Len(lg) + 1
          /\ \A p \in Members(n) \ {n} : nxt[p] >= 1
          /\ Members(n) \subseteq Node
        BY Zenon, <2>1, BroadcastNextType
    <2> HIDE DEF nxt
    <2>3. \A p \in Members(n) \ {n} : nx2[p] = IF nxt[p] = 0 THEN Len(lg) + 1 ELSE nxt[p]
        BY <2>2, BroadcastNextOf
    <2> HIDE DEF nx2
    <2> QED BY <2>1, <2>2, <2>3
<1> HIDE DEF nxt, nx2
<1> SUFFICES ASSUME NEW p \in Members(n) \ {n}
             PROVE  RequestOf(AppendRequest(n, p, t, lg, ci, nx2), n, t, lg, ci, nxt)
    BY Zenon DEF Broadcast, nxt, nx2
<1> DEFINE m    == AppendRequest(n, p, t, lg, ci, nx2)
           prev == nx2[p] - 1
           hi   == MinOf(Len(lg), prev + MaxBatch)
           es   == SubSeq(lg, nx2[p], hi)
<1>2. Len(lg) \in Nat /\ nx2[p] \in 1..Len(lg) + 1 BY <1>1
<1>3. /\ prev \in Nat /\ hi \in prev..Len(lg) /\ nx2[p] = prev + 1
      /\ hi = prev => prev = Len(lg)
    BY <1>2, BoundAssumption DEF MinOf
<1>4. /\ m.type = "AppendEntries" /\ m.from = n /\ m.term = t /\ m.to = p /\ m.commit = ci
      /\ m.prevIndex = prev /\ m.prevTerm = TermAt(lg, prev) /\ m.entries = es
    BY Zenon DEF AppendRequest
<1> HIDE DEF m, hi, prev
<1>5. Len(es) = hi - prev /\ \A j \in 1..hi - prev : es[j] = lg[prev + j]
    <2>1. es = SubSeq(lg, prev + 1, hi) BY Zenon, <1>3
    <2> HIDE DEF es
    <2>2. Len(es) = hi - prev BY <1>2, <1>3, <2>1
    <2>3. ASSUME NEW j \in 1..hi - prev PROVE es[j] = lg[prev + j]
        <3>1. es[j] = lg[(prev + 1) + j - 1] BY <1>2, <1>3, <2>1
        <3> QED BY <1>3, <3>1
    <2> QED BY Zenon, <2>2, <2>3
<1> HIDE DEF es
<1>6. prev + Len(es) <= Len(lg) /\ (es = <<>> => prev = Len(lg))
    <2>1. prev + Len(es) <= Len(lg) BY <1>2, <1>3, <1>5
    <2>2. es = <<>> => Len(es) = 0 OBVIOUS
    <2> QED BY <1>2, <1>3, <1>5, <2>1, <2>2
<1>7. Segment(m, lg) BY Zenon, <1>4, <1>5, <1>6 DEF Segment
<1>8. m.prevIndex + 1 = nxt[m.to] BY Zenon, <1>1, <1>3, <1>4
<1> QED BY Zenon, <1>4, <1>6, <1>7, <1>8 DEF m, RequestOf

-----------------------------------------------------------------------------
(* Every step of a group of fixed members is a LogStep of some replica.    *)

\* no message of the set is an append request or its answer
NoEntries(out) == \A m \in out : m.type \notin {"AppendEntries", "ReadQuorum", "AppendReply"}

\* A step that keeps logs and progress: votes, refusals and stepping down.
LEMMA QuietLog ==
    ASSUME NEW n \in Node, SendsTruth(n), UNCHANGED <<elected, logVars, progressVars>>,
           \A k \in Node \ {n} : role'[k] = role[k] /\ currentTerm'[k] = currentTerm[k],
           currentTerm'[n] >= currentTerm[n],
           role'[n] = "CANDIDATE" => currentTerm'[n] > currentTerm[n] \/ role[n] = "CANDIDATE",
           role'[n] = "LEADER" => role[n] = "LEADER" /\ currentTerm'[n] = currentTerm[n]
    PROVE  LogStep(n)
<1>0. /\ log' = log /\ commitIndex' = commitIndex /\ applied' = applied
      /\ nextIndex' = nextIndex /\ matchIndex' = matchIndex /\ elected' = elected
    BY Zenon DEF logVars, progressVars
<1>1. KeepsLog(n) /\ CountsAnswers(n) /\ MovesNext(n) BY Zenon, <1>0 DEF KeepsLog, CountsAnswers, MovesNext
<1>2. Commits(n) BY Zenon, <1>0 DEF Commits, AppliesOwn
<1> QED BY Zenon, <1>0, <1>1, <1>2 DEF LogStep

\* What Exchange adds.
LEMMA ExchangeQuiet ==
    ASSUME NEW got, NEW out, Exchange(got, out), NoEntries(out), NEW n
    PROVE  SendsTruth(n)
BY Zenon, ExchangeSends DEF NoEntries, SendsTruth

\* become_follower in a later term.
LEMMA BecomeFollowerLog ==
    ASSUME TypeInv, NEW n \in Node, NEW t \in Nat, t > currentTerm[n], NEW got,
           BecomeFollower(n, t), Exchange(got, {}), UNCHANGED <<elected, logVars, progressVars>>
    PROVE  LogStep(n)
<1>1. role' = [role EXCEPT ![n] = "FOLLOWER"] /\ currentTerm' = [currentTerm EXCEPT ![n] = t]
    BY Zenon DEF BecomeFollower
<1>2. /\ role'[n] = "FOLLOWER" /\ currentTerm'[n] = t /\ currentTerm'[n] >= currentTerm[n]
      /\ \A k \in Node \ {n} : role'[k] = role[k] /\ currentTerm'[k] = currentTerm[k]
    BY <1>1, ElectionTyped
<1>3. SendsTruth(n)
    <2>1. NoEntries({}) BY Zenon DEF NoEntries
    <2> QED BY Zenon, <2>1, ExchangeQuiet
<1> QED BY Zenon, <1>2, <1>3, QuietLog

\* The end of every dispatch: n applies what it has committed.
LEMMA ApplyLog ==
    ASSUME TypeInv, NEW n \in Node, NEW t, NEW lg, NEW ci, NEW r, NEW recent,
           ApplyCommitted(n, t, lg, ci, r, recent), log'[n] = lg, currentTerm'[n] = t
    PROVE  /\ commitIndex'[n] = ci /\ \A k \in Node \ {n} : commitIndex'[k] = commitIndex[k]
           /\ AppliesOwn(n)
<1>1. /\ commitIndex' = [commitIndex EXCEPT ![n] = ci]
      /\ applied' = applied \cup {<<i, lg[i], t>> : i \in commitIndex[n]+1..ci}
    BY Zenon DEF ApplyCommitted
<1>2. commitIndex \in [Node -> Nat] BY Zenon DEF TypeInv, TypeOK
<1>3. commitIndex'[n] = ci /\ \A k \in Node \ {n} : commitIndex'[k] = commitIndex[k] BY Zenon, <1>1, <1>2
<1>4. AppliesOwn(n) BY Zenon, <1>1, <1>3 DEF AppliesOwn
<1> QED BY Zenon, <1>3, <1>4

\* try_advance_commit_index commits an entry of the leader's term that a quorum
\* holds, or nothing.
LEMMA CommitLog ==
    ASSUME NatWellOrdered, NEW n, NEW t, NEW lg \in Seq(EntrySet), commitIndex[n] \in Nat, NEW match,
           role'[n] = "LEADER", currentTerm'[n] = t, log'[n] = lg, matchIndex'[n] = match,
           commitIndex'[n] \in {commitIndex[n], NewCommit(n, t, lg, commitIndex[n], match)}
    PROVE  commitIndex'[n] = commitIndex[n] \/ LeaderCommits(n)
<1> DEFINE c == NewCommit(n, t, lg, commitIndex[n], match)
<1>1. CASE c = commitIndex[n] BY Zenon, <1>1
<1>2. CASE c # commitIndex[n]
    <2>1. c \in Committable(n, t, lg, commitIndex[n], match) BY Zenon, <1>2, NewCommitType
    <2> HIDE DEF c
    <2>2. /\ c \in commitIndex[n]+1..Len(lg) /\ lg[c].term = t
          /\ HasQuorum(n, 1 + Cardinality({p \in voters[n] \ {n} : match[p] >= c}))
        BY Zenon, <2>1 DEF Committable
    <2>3. c \in 1..Len(lg) BY <2>2
    <2> QED BY Zenon, <2>2, <2>3 DEF LeaderCommits, c
<1> QED BY Zenon, <1>1, <1>2

\* propose in a group of fixed members: the leader's longer log, its progress,
\* the requests it sends and what it commits.
LEMMA StaticAppend ==
    ASSUME NatWellOrdered, TypeInv, Static, NEW n \in Node, NEW got, NEW t, NEW e \in EntrySet,
           NEW next \in [Node -> Nat], NEW match, \A p \in Node : next[p] <= Len(log[n]) + 1,
           currentTerm'[n] = t, LeaderAppend(got, n, t, e, commitIndex[n], next, match, {})
    PROVE  /\ role'[n] = "LEADER" /\ log'[n] = Append(log[n], e) /\ matchIndex'[n] = match
           /\ \A p \in InitVoters \ {n} :
                 nextIndex'[n][p] = IF next[p] = 0 THEN Len(log'[n]) + 1 ELSE next[p]
           /\ \A k \in Node \ {n} : /\ role'[k] = role[k] /\ log'[k] = log[k] /\ nextIndex'[k] = nextIndex[k]
                                    /\ matchIndex'[k] = matchIndex[k] /\ commitIndex'[k] = commitIndex[k]
           /\ SendsTruth(n) /\ Commits(n)
<1> DEFINE ci    == commitIndex[n]
           lg    == Append(log[n], e)
           nxt   == BroadcastNext(n, lg, next)
           newCi == IF HasQuorum(n, 1) THEN NewCommit(n, t, lg, ci, match) ELSE ci
           sent  == Broadcast(n, t, lg, ci, nxt)
           more  == CommitBroadcast(n, t, lg, ci, newCi, nxt)
<1>1. /\ log' = [log EXCEPT ![n] = lg] /\ matchIndex' = [matchIndex EXCEPT ![n] = match]
      /\ nextIndex' = [nextIndex EXCEPT ![n] = nxt]
      /\ Exchange(got, {} \cup sent \cup more)
      /\ ApplyCommitted(n, t, lg, newCi, "LEADER", FALSE)
    BY Zenon DEF LeaderAppend
<1>2. /\ lg \in Seq(EntrySet) /\ Len(lg) = Len(log[n]) + 1 /\ Len(log[n]) \in Nat
      /\ log \in [Node -> Seq(EntrySet)] /\ matchIndex \in [Node -> [Node -> Nat]]
      /\ nextIndex \in [Node -> [Node -> Nat]] /\ ci \in Nat
    <2>1. /\ log \in [Node -> Seq(EntrySet)] /\ matchIndex \in [Node -> [Node -> Nat]]
          /\ nextIndex \in [Node -> [Node -> Nat]] /\ ci \in Nat
        BY Zenon DEF TypeInv, TypeOK
    <2>2. log[n] \in Seq(EntrySet) BY Zenon, <2>1
    <2> QED BY <2>1, <2>2
<1> HIDE DEF lg, ci
<1>3. newCi \in Nat /\ (newCi > ci => newCi <= Len(lg)) /\ newCi >= ci
    <2> DEFINE c == NewCommit(n, t, lg, ci, match)
    <2>1. \A x \in Committable(n, t, lg, ci, match) : x \in ci+1..Len(lg) BY Zenon DEF Committable
    <2>2. Len(lg) \in Nat BY <1>2
    <2>3. c \in Nat /\ (c > ci => c <= Len(lg)) /\ (c # ci => c \in Committable(n, t, lg, ci, match))
        BY Zenon, <1>2, NewCommitType
    <2>4. newCi = c \/ newCi = ci BY Zenon
    <2> HIDE DEF c, newCi
    <2>5. c >= ci BY <1>2, <2>1, <2>2, <2>3
    <2> QED BY <1>2, <2>3, <2>4, <2>5
<1>4. more = {}
    <2> HIDE DEF newCi, nxt
    <2> QED BY Zenon, <1>2, <1>3, StaticBroadcast
<1>5. Members(n) = InitVoters /\ InitVoters \subseteq Node BY Zenon, StaticMembers, NodeAssumption
<1>6. role'[n] = "LEADER" /\ \A k \in Node \ {n} : role'[k] = role[k]
    <2> HIDE DEF newCi
    <2> QED BY Zenon, <1>1, <1>2, <1>3, StaticApply DEF ci
<1>7. \A m \in sent : RequestOf(m, n, t, lg, ci, nxt)
    <2>1. \A p \in Node : next[p] <= Len(lg) + 1 BY <1>2
    <2> HIDE DEF newCi
    <2> QED BY Zenon, <1>2, <2>1, BroadcastSegment
<1>a. \A p \in InitVoters \ {n} : nxt[p] = IF next[p] = 0 THEN Len(lg) + 1 ELSE next[p]
    <2>1. \A p \in Members(n) \ {n} : nxt[p] = IF next[p] = 0 THEN Len(lg) + 1 ELSE next[p]
        BY <1>5, BroadcastNextOf
    <2> HIDE DEF nxt, sent, more, newCi
    <2> QED BY Zenon, <1>5, <2>1
<1> HIDE DEF nxt, sent, more
<1>8. \A m \in msgs' \ msgs : m \in sent
    <2>1. Exchange(got, sent) BY Zenon, <1>1, <1>4
    <2> QED BY Zenon, <2>1, ExchangeSends
<1>9. /\ log'[n] = lg /\ matchIndex'[n] = match /\ nextIndex'[n] = nxt
      /\ \A k \in Node \ {n} : /\ log'[k] = log[k] /\ matchIndex'[k] = matchIndex[k]
                               /\ nextIndex'[k] = nextIndex[k]
    BY Zenon, <1>1, <1>2
<1>10. /\ commitIndex'[n] = newCi /\ \A k \in Node \ {n} : commitIndex'[k] = commitIndex[k]
       /\ AppliesOwn(n)
    <2> HIDE DEF newCi
    <2> QED BY Zenon, <1>1, <1>9, ApplyLog
<1>11. Commits(n)
    <2>1. commitIndex'[n] \in {commitIndex[n], NewCommit(n, t, lg, commitIndex[n], match)} BY Zenon, <1>10 DEF ci
    <2>2. commitIndex[n] \in Nat BY Zenon, <1>2 DEF ci
    <2>3. commitIndex'[n] = commitIndex[n] \/ LeaderCommits(n) BY Zenon, <1>2, <1>6, <1>9, <2>1, <2>2, CommitLog
    <2> QED BY Zenon, <1>10, <2>3 DEF Commits
<1>12. SendsTruth(n)
    <2> HIDE DEF newCi
    <2> SUFFICES ASSUME NEW m \in msgs' \ msgs PROVE m.type = "AppendEntries" /\ Sends(n, m)
        BY Zenon DEF SendsTruth
    <2>1. RequestOf(m, n, t, lg, ci, nxt) BY Zenon, <1>7, <1>8
    <2>2. m.type = "AppendEntries" /\ m.commit = ci /\ m.to \in InitVoters \ {n} BY Zenon, <1>5, <2>1 DEF RequestOf
    <2>3. m.commit <= commitIndex'[n] BY Zenon, <1>2, <1>3, <1>10, <2>2
    <2> QED BY Zenon, <1>6, <1>9, <2>1, <2>2, <2>3 DEF RequestOf, Sends
<1> QED BY Zenon, <1>6, <1>9, <1>10, <1>11, <1>12, <1>a DEF lg

\* A leader that proposes, or a new one, takes a LogStep.
LEMMA AppendLog ==
    ASSUME NatWellOrdered, TypeInv, Static, NEW n \in Node, NEW got, NEW e \in EntrySet,
           NEW next \in [Node -> Nat], NEW match, \A p \in Node : next[p] <= Len(log[n]) + 1,
           LeaderAppend(got, n, e.term, e, commitIndex[n], next, match, {}),
           currentTerm'[n] = e.term, currentTerm'[n] >= currentTerm[n], NewWrite(log[n], e),
           \A k \in Node \ {n} : currentTerm'[k] = currentTerm[k],
           \/ /\ role[n] = "LEADER" /\ currentTerm'[n] = currentTerm[n] /\ elected' = elected
              /\ match = matchIndex[n] /\ next = nextIndex[n]
           \/ NewLeader(n) /\ \A p \in InitVoters \ {n} : next[p] = Len(log[n]) + 1
    PROVE  LogStep(n)
<1>1. /\ role'[n] = "LEADER" /\ log'[n] = Append(log[n], e) /\ matchIndex'[n] = match
      /\ \A p \in InitVoters \ {n} :
            nextIndex'[n][p] = IF next[p] = 0 THEN Len(log'[n]) + 1 ELSE next[p]
      /\ \A k \in Node \ {n} : /\ role'[k] = role[k] /\ log'[k] = log[k] /\ nextIndex'[k] = nextIndex[k]
                               /\ matchIndex'[k] = matchIndex[k] /\ commitIndex'[k] = commitIndex[k]
      /\ SendsTruth(n) /\ Commits(n)
    BY Zenon, StaticAppend
<1>2. Proposes(n, e) BY Zenon, <1>1 DEF Proposes
<1>3. CountsAnswers(n) BY Zenon, <1>1 DEF CountsAnswers, NewLeader
<1>4. MovesNext(n)
    <2>1. CASE role[n] = "LEADER" /\ next = nextIndex[n] BY Zenon, <1>1, <2>1 DEF MovesNext
    <2>2. CASE NewLeader(n) /\ \A p \in InitVoters \ {n} : next[p] = Len(log[n]) + 1
        <3>1. Len(log[n]) \in Nat /\ log[n] \in Seq(EntrySet) BY Zenon, LogTyped
        <3>2. Len(log'[n]) = Len(log[n]) + 1
            <4>1. log'[n] = Append(log[n], e) BY Zenon, <1>1
            <4> QED BY Zenon, <3>1, <4>1, AppendGrows
        <3>3. \A p \in InitVoters \ {n} : nextIndex'[n][p] = Len(log'[n])
            <4>1. Len(log[n]) + 1 # 0 BY <3>1
            <4> QED BY Zenon, <1>1, <2>2, <3>2, <4>1
        <3> QED BY Zenon, <2>2, <3>3 DEF MovesNext
    <2> QED BY Zenon, <2>1, <2>2
<1> QED BY Zenon, <1>1, <1>2, <1>3, <1>4 DEF LogStep

\* A client write.
LEMMA ProposeLog ==
    ASSUME NatWellOrdered, TypeInv, Static, NEW n \in Node, NEW v \in Request, Propose(n, v)
    PROVE  LogStep(n)
<1> DEFINE e == Entry(currentTerm[n], "WRITE", v)
<1>1. /\ role[n] = "LEADER" /\ UNCHANGED <<currentTerm, elected>>
      /\ LeaderAppend({}, n, currentTerm[n], e, commitIndex[n], nextIndex[n], matchIndex[n], {})
      /\ Logged(n, v) = {}
    BY Zenon DEF Propose, WritableLeader
<1>2. /\ nextIndex[n] \in [Node -> Nat] /\ \A p \in Node : nextIndex[n][p] <= Len(log[n]) + 1
      /\ currentTerm[n] \in Nat \ {0}
    BY Zenon, <1>1, LeaderProgress
<1>3. e \in EntrySet /\ e.term = currentTerm[n] BY Zenon, <1>2 DEF Entry, EntrySet
<1>6. NewWrite(log[n], e) BY Zenon, <1>1 DEF NewWrite, Logged, Entry
<1>4. /\ currentTerm'[n] = e.term /\ currentTerm'[n] >= currentTerm[n] /\ currentTerm'[n] = currentTerm[n]
      /\ elected' = elected /\ \A k \in Node \ {n} : currentTerm'[k] = currentTerm[k]
    BY <1>1, <1>2, <1>3
<1> HIDE DEF e
<1>5. LeaderAppend({}, n, e.term, e, commitIndex[n], nextIndex[n], matchIndex[n], {}) BY Zenon, <1>1, <1>3
<1> QED BY Zenon, <1>1, <1>2, <1>3, <1>4, <1>5, <1>6, AppendLog

\* become_leader.
LEMMA BecomeLeaderLog ==
    ASSUME NatWellOrdered, TypeInv, Static, NEW n \in Node, n \in voters[n], NEW t \in Nat \ {0}, NEW got,
           BecomeLeader(got, n, t), currentTerm' = [currentTerm EXCEPT ![n] = t], role[n] # "LEADER",
           t > currentTerm[n] \/ (t = currentTerm[n] /\ role[n] = "CANDIDATE")
    PROVE  LogStep(n)
<1> DEFINE next  == [p \in Node |-> IF p \in Members(n) \ {n} THEN Len(log[n]) + 1 ELSE 0]
           match == [p \in Node |-> 0]
           e     == Entry(t, "NOOP", NONE)
<1>1. LeaderAppend(got, n, t, e, commitIndex[n], next, match, {}) /\ elected' = elected \cup {<<t, n>>}
    BY Zenon DEF BecomeLeader
<1>2. /\ currentTerm'[n] = t /\ currentTerm'[n] >= currentTerm[n]
      /\ \A k \in Node \ {n} : currentTerm'[k] = currentTerm[k]
    BY ElectionTyped
<1>3. e \in EntrySet /\ e.term = t /\ NewWrite(log[n], e) BY Zenon DEF Entry, EntrySet, NewWrite
<1>4. /\ next \in [Node -> Nat] /\ \A p \in Node : next[p] <= Len(log[n]) + 1
      /\ \A p \in InitVoters \ {n} : next[p] = Len(log[n]) + 1
    <2>1. Len(log[n]) \in Nat BY Zenon, LogTyped
    <2>2. Members(n) = InitVoters /\ InitVoters \subseteq Node BY Zenon, StaticMembers, NodeAssumption
    <2> QED BY <2>1, <2>2
<1> HIDE DEF next, e
<1>5. \A p \in Node : matchIndex'[n][p] = 0
    <2> HIDE DEF match
    <2>1. matchIndex' = [matchIndex EXCEPT ![n] = match] BY Zenon, <1>1 DEF LeaderAppend
    <2>2. matchIndex \in [Node -> [Node -> Nat]] BY Zenon DEF TypeInv, TypeOK
    <2> QED BY Zenon, <2>1, <2>2 DEF match
<1>6. NewLeader(n) BY Zenon, <1>1, <1>2, <1>5, StaticVoters DEF NewLeader
<1> HIDE DEF match
<1>7. LeaderAppend(got, n, e.term, e, commitIndex[n], next, match, {}) /\ currentTerm'[n] = e.term
    BY Zenon, <1>1, <1>2, <1>3
<1> QED BY Zenon, <1>2, <1>3, <1>4, <1>6, <1>7, AppendLog

\* become_candidate.
LEMMA BecomeCandidateLog ==
    ASSUME NatWellOrdered, TypeInv, Static, NEW n \in Node, n \in voters[n], NEW got, BecomeCandidate(got, n),
           role[n] # "LEADER"
    PROVE  LogStep(n)
<1> DEFINE t == currentTerm[n] + 1
<1>1. currentTerm' = [currentTerm EXCEPT ![n] = t] BY Zenon DEF BecomeCandidate
<1>2. currentTerm[n] \in Nat /\ t \in Nat \ {0} /\ t > currentTerm[n] BY ElectionTyped
<1>3. CASE HasQuorum(n, 1)
    <2>1. BecomeLeader(got, n, t) BY Zenon, <1>3 DEF BecomeCandidate
    <2> HIDE DEF t
    <2> QED BY Zenon, <1>1, <1>2, <2>1, BecomeLeaderLog
<1>4. CASE ~HasQuorum(n, 1)
    <2>1. /\ role' = [role EXCEPT ![n] = "CANDIDATE"]
          /\ Exchange(got, VoteRequests(n, "RequestVote", t)) /\ UNCHANGED <<elected, logVars, progressVars>>
        BY Zenon, <1>4 DEF BecomeCandidate
    <2>2. NoEntries(VoteRequests(n, "RequestVote", t)) BY DEF NoEntries, VoteRequests
    <2>3. SendsTruth(n) BY Zenon, <2>1, <2>2, ExchangeQuiet
    <2>4. /\ role'[n] = "CANDIDATE" /\ currentTerm'[n] = t
          /\ \A k \in Node \ {n} : role'[k] = role[k] /\ currentTerm'[k] = currentTerm[k]
        BY Zenon, <1>1, <2>1, ElectionTyped
    <2>5. currentTerm'[n] >= currentTerm[n] /\ currentTerm'[n] > currentTerm[n] BY <1>2, <2>4
    <2> QED BY Zenon, <2>1, <2>3, <2>4, <2>5, QuietLog
<1> QED BY Zenon, <1>3, <1>4

\* The tick of a leader: a heartbeat.
LEMMA TickLeaderLog ==
    ASSUME TypeInv, Static, NEW n \in Node, TickLeader(n)
    PROVE  LogStep(n)
<1> DEFINE nxt  == BroadcastNext(n, log[n], nextIndex[n])
           beat == Broadcast(n, currentTerm[n], log[n], commitIndex[n], nxt)
<1>1. role[n] = "LEADER" /\ UNCHANGED <<currentTerm, elected>> BY Zenon DEF TickLeader
<1>2. ReadyLearners(n, matchIndex[n]) = {} BY Zenon, StaticMembers
<1>3. /\ Exchange({}, beat) /\ UNCHANGED <<role, logVars, matchIndex>> /\ nextIndex' = [nextIndex EXCEPT ![n] = nxt]
    BY Zenon, <1>2 DEF TickLeader
<1>4. \A m \in beat : RequestOf(m, n, currentTerm[n], log[n], commitIndex[n], nxt)
    BY Zenon, <1>1, LeaderProgress, BroadcastSegment
<1>5. /\ Members(n) = InitVoters /\ InitVoters \subseteq Node /\ nextIndex \in [Node -> [Node -> Nat]]
      /\ commitIndex[n] \in Nat /\ currentTerm[n] \in Nat
    BY Zenon, StaticMembers, NodeAssumption DEF TypeInv, TypeOK
<1>6. \A p \in InitVoters \ {n} : nxt[p] = IF nextIndex[n][p] = 0 THEN Len(log[n]) + 1 ELSE nextIndex[n][p]
    <2> TAKE p \in InitVoters \ {n}
    <2>1. p \in Node /\ p \in Members(n) \ {n} BY Zenon, <1>5
    <2>2. nxt[p] = IF p \in Members(n) \ {n} /\ nextIndex[n][p] = 0 THEN Len(log[n]) + 1 ELSE nextIndex[n][p]
        BY Zenon, <2>1 DEF BroadcastNext
    <2> HIDE DEF nxt, beat
    <2> QED BY Zenon, <2>1, <2>2
<1> HIDE DEF beat, nxt
<1>7. \A m \in msgs' \ msgs : m \in beat BY Zenon, <1>3, ExchangeSends
<1>8. /\ log' = log /\ matchIndex' = matchIndex /\ role' = role /\ commitIndex' = commitIndex /\ applied' = applied
      /\ nextIndex'[n] = nxt /\ \A k \in Node \ {n} : nextIndex'[k] = nextIndex[k]
    BY Zenon, <1>3, <1>5 DEF logVars
<1>9. KeepsLog(n) /\ CountsAnswers(n) BY Zenon, <1>1, <1>8 DEF KeepsLog, CountsAnswers
<1>10. MovesNext(n) BY Zenon, <1>1, <1>6, <1>8 DEF MovesNext
<1>11. Commits(n) BY Zenon, <1>8 DEF Commits, AppliesOwn
<1>12. SendsTruth(n)
    <2> SUFFICES ASSUME NEW m \in msgs' \ msgs PROVE m.type = "AppendEntries" /\ Sends(n, m)
        BY Zenon DEF SendsTruth
    <2>1. RequestOf(m, n, currentTerm[n], log[n], commitIndex[n], nxt) BY Zenon, <1>4, <1>7
    <2>2. m.type = "AppendEntries" /\ m.commit = commitIndex[n] /\ m.to \in InitVoters \ {n} BY Zenon, <1>5, <2>1 DEF RequestOf
    <2>3. m.commit <= commitIndex'[n] BY Zenon, <1>5, <1>8, <2>2, SameIsAtLeast
    <2> QED BY Zenon, <1>1, <1>8, <2>1, <2>2, <2>3 DEF RequestOf, Sends
<1> QED BY <1>1, <1>5, <1>8, <1>9, <1>10, <1>11, <1>12 DEF LogStep

\* The election time-out.
LEMMA TickElectionLog ==
    ASSUME NatWellOrdered, TypeInv, Static, NEW n \in Node, TickElection(n)
    PROVE  LogStep(n)
<1>1. role[n] # "LEADER" /\ n \in voters[n] BY Zenon DEF TickElection
<1>2. CASE HasQuorum(n, 1)
    <2>1. BecomeCandidate({}, n) BY Zenon, <1>2 DEF TickElection
    <2> QED BY Zenon, <1>1, <2>1, BecomeCandidateLog
<1>3. CASE ~HasQuorum(n, 1)
    <2>1. /\ role' = [role EXCEPT ![n] = "PRE_CANDIDATE"]
          /\ Exchange({}, VoteRequests(n, "PreVote", currentTerm[n] + 1))
          /\ UNCHANGED <<currentTerm, elected, logVars, progressVars>>
        BY Zenon, <1>3 DEF TickElection
    <2>2. NoEntries(VoteRequests(n, "PreVote", currentTerm[n] + 1)) BY DEF NoEntries, VoteRequests
    <2>3. SendsTruth(n) BY Zenon, <2>1, <2>2, ExchangeQuiet
    <2>4. /\ role'[n] = "PRE_CANDIDATE" /\ currentTerm'[n] >= currentTerm[n]
          /\ \A k \in Node \ {n} : role'[k] = role[k] /\ currentTerm'[k] = currentTerm[k]
        BY <2>1, ElectionTyped
    <2> QED BY Zenon, <2>1, <2>3, <2>4, QuietLog
<1> QED BY Zenon, <1>2, <1>3

\* A step that leaves roles, terms, logs and progress alone.
LEMMA IgnoredLog ==
    ASSUME TypeInv, NEW n \in Node, NEW got, NEW out, Exchange(got, out), NoEntries(out),
           UNCHANGED <<role, currentTerm, elected, logVars, progressVars>>
    PROVE  LogStep(n)
<1>1. SendsTruth(n) BY Zenon, ExchangeQuiet
<1>2. currentTerm'[n] >= currentTerm[n] BY ElectionTyped
<1> QED BY Zenon, <1>1, <1>2, QuietLog

\* The answers to votes carry no entries.
LEMMA VoteReplyQuiet ==
    ASSUME NEW m, NEW kind \in {"PreVoteReply", "VoteReply"}, NEW t, NEW granted
    PROVE  NoEntries({VoteReply(m, kind, t, granted)})
BY DEF NoEntries, VoteReply

\* handle_pre_vote.
LEMMA HandlePreVoteLog ==
    ASSUME TypeInv, NEW m \in msgs, HandlePreVote(m)
    PROVE  LogStep(m.to)
<1>1. PICK granted \in BOOLEAN :
         Exchange({m}, {VoteReply(m, "PreVoteReply", currentTerm[m.to], granted)})
    BY ZenonT(40) DEF HandlePreVote
<1>2. UNCHANGED <<role, currentTerm, elected, logVars, progressVars>> BY Zenon DEF HandlePreVote, electionVars
<1>3. m.to \in Node BY Zenon, MessageTyped
<1>4. NoEntries({VoteReply(m, "PreVoteReply", currentTerm[m.to], granted)}) BY Zenon, VoteReplyQuiet
<1> QED BY Zenon, <1>1, <1>2, <1>3, <1>4, IgnoredLog

\* handle_pre_vote_response.
LEMMA HandlePreVoteResponseLog ==
    ASSUME NatWellOrdered, TypeInv, Static, NEW m \in msgs, HandlePreVoteResponse(m)
    PROVE  LogStep(m.to)
<1> DEFINE n == m.to
<1>1. n \in Node /\ m.term \in Nat /\ NoEntries({}) BY Zenon, MessageTyped DEF NoEntries
<1>2. CASE Exchange({m}, {}) /\ UNCHANGED <<role, currentTerm, elected, logVars, progressVars>>
    BY Zenon, <1>1, <1>2, IgnoredLog
<1>3. CASE /\ m.term > currentTerm[n] /\ BecomeFollower(n, m.term) /\ Exchange({m}, {})
           /\ UNCHANGED <<elected, logVars, progressVars>>
    BY Zenon, <1>1, <1>3, BecomeFollowerLog
<1>4. CASE role[n] = "PRE_CANDIDATE" /\ n \in voters[n] /\ BecomeCandidate({m}, n)
    BY Zenon, <1>1, <1>4, BecomeCandidateLog
<1> QED BY ZenonT(40), <1>2, <1>3, <1>4 DEF HandlePreVoteResponse, electionVars, WinsWith

\* handle_request_vote.
LEMMA HandleRequestVoteLog ==
    ASSUME TypeInv, NEW m \in msgs, HandleRequestVote(m)
    PROVE  LogStep(m.to)
<1> DEFINE n       == m.to
           newer   == m.term > currentTerm[n]
           granted == ~LaterThanOther(n, m.lastTerm, m.lastIndex) /\ CanGrant(m)
<1>1. n \in Node /\ m.term \in Nat /\ currentTerm[n] \in Nat BY Zenon, MessageTyped, ElectionTyped
<1>2. UNCHANGED <<elected, logVars, progressVars>> BY Zenon DEF HandleRequestVote
<1>3. CASE VotePreconditions(m) /\ m.term >= currentTerm[n]
    <2>1. /\ currentTerm' = [currentTerm EXCEPT ![n] = m.term]
          /\ role' = [role EXCEPT ![n] = IF newer THEN "FOLLOWER" ELSE @]
          /\ Exchange({m}, {VoteReply(m, "VoteReply", m.term, granted)})
        BY Zenon, <1>3 DEF HandleRequestVote
    <2>2. NoEntries({VoteReply(m, "VoteReply", m.term, granted)}) BY Zenon, VoteReplyQuiet
    <2>3. SendsTruth(n) BY Zenon, <2>1, <2>2, ExchangeQuiet
    <2>5. /\ currentTerm'[n] = m.term /\ role'[n] = IF newer THEN "FOLLOWER" ELSE role[n]
          /\ \A k \in Node \ {n} : role'[k] = role[k] /\ currentTerm'[k] = currentTerm[k]
        BY Zenon, <1>1, <2>1, ElectionTyped
    <2>6. /\ currentTerm'[n] >= currentTerm[n]
          /\ role'[n] = "CANDIDATE" => role[n] = "CANDIDATE"
          /\ role'[n] = "LEADER" => role[n] = "LEADER" /\ currentTerm'[n] = currentTerm[n]
        BY <1>1, <1>3, <2>5
    <2> QED BY Zenon, <1>1, <1>2, <2>3, <2>5, <2>6, QuietLog
<1>4. CASE ~(VotePreconditions(m) /\ m.term >= currentTerm[n])
    <2>1. /\ Exchange({m}, {VoteReply(m, "VoteReply", currentTerm[n], FALSE)})
          /\ UNCHANGED <<currentTerm, role>>
        BY Zenon, <1>4 DEF HandleRequestVote
    <2>2. NoEntries({VoteReply(m, "VoteReply", currentTerm[n], FALSE)}) BY Zenon, VoteReplyQuiet
    <2> QED BY Zenon, <1>1, <1>2, <2>1, <2>2, IgnoredLog
<1> QED BY Zenon, <1>3, <1>4

\* handle_vote_response.
LEMMA HandleVoteResponseLog ==
    ASSUME NatWellOrdered, TypeInv, Static, NEW m \in msgs, HandleVoteResponse(m)
    PROVE  LogStep(m.to)
<1> DEFINE n == m.to
<1>1. n \in Node /\ m.term \in Nat /\ NoEntries({}) BY Zenon, MessageTyped DEF NoEntries
<1>2. CASE Exchange({m}, {}) /\ UNCHANGED <<role, currentTerm, elected, logVars, progressVars>>
    BY Zenon, <1>1, <1>2, IgnoredLog
<1>3. CASE /\ m.term > currentTerm[n] /\ BecomeFollower(n, m.term) /\ Exchange({m}, {})
           /\ UNCHANGED <<elected, logVars, progressVars>>
    BY Zenon, <1>1, <1>3, BecomeFollowerLog
<1>4. CASE /\ role[n] = "CANDIDATE" /\ n \in voters[n] /\ BecomeLeader({m}, n, currentTerm[n])
           /\ currentTerm' = currentTerm
    <2>1. currentTerm[n] \in Nat \ {0} BY Zenon, <1>1, <1>4, ElectionTyped DEF TypeInv, TermPositive
    <2>2. currentTerm' = [currentTerm EXCEPT ![n] = currentTerm[n]] BY Zenon, <1>1, <1>4, ElectionTyped
    <2> QED BY Zenon, <1>1, <1>4, <2>1, <2>2, BecomeLeaderLog
<1> QED BY ZenonT(40), <1>2, <1>3, <1>4 DEF HandleVoteResponse, electionVars, WinsWith

\* The requests of a group without reads are AppendEntries calls.
LEMMA RequestKind ==
    ASSUME RequestsPlain, NEW m \in msgs, m.type \in {"AppendEntries", "ReadQuorum"}
    PROVE  m.type = "AppendEntries" /\ m \in Requests
BY Zenon DEF RequestsPlain, Requests

\* A step that refuses a request.
LEMMA RefusalLog ==
    ASSUME NEW m \in Requests, Exchange({m}, {AppendReply(m, currentTerm'[m.to], FALSE)}),
           log'[m.to] = log[m.to], m.term \in Nat, currentTerm'[m.to] \in Nat,
           currentTerm'[m.to] > m.term \/ m.from \notin InitVoters \/ (currentTerm'[m.to] = m.term /\ ~PrevMatches(m))
    PROVE  SendsTruth(m.to)
<1> SUFFICES ASSUME NEW x \in msgs' \ msgs
             PROVE  x.type = "AppendReply" /\ x.success = FALSE /\ Refuses(m.to, x)
    BY Zenon DEF SendsTruth
<1>1. m.type = "AppendEntries" BY Zenon DEF Requests
<1>2. x = AppendReply(m, currentTerm'[m.to], FALSE)
    <2> DEFINE y == AppendReply(m, currentTerm'[m.to], FALSE)
    <2>1. Exchange({m}, {y}) BY Zenon
    <2> HIDE DEF y
    <2>2. x \in {y} BY Zenon, <2>1, ExchangeSends
    <2> QED BY Zenon, <2>2 DEF y
<1>3. /\ x.type = "AppendReply" /\ x.from = m.to /\ x.to = m.from /\ x.sentTerm = m.term
      /\ x.prevIndex = m.prevIndex /\ x.term = currentTerm'[m.to] /\ x.success = FALSE
      /\ x.index = Len(log[m.to])
    BY Zenon, <1>1, <1>2 DEF AppendReply
<1>4. Answers(m.to, x, m) BY Zenon, <1>3 DEF Answers
<1> QED BY Zenon, <1>3, <1>4 DEF Refuses

\* handle_append_entries.
LEMMA HandleAppendEntriesLog ==
    ASSUME NatWellOrdered, TypeInv, Static, RequestsPlain, NEW m \in msgs, HandleAppendEntries(m)
    PROVE  LogStep(m.to)
<1> DEFINE n  == m.to
           lg == MergeEntries(log[n], m.prevIndex, m.entries)
           ci == FollowerCommit(n, lg, m.commit)
<1>1. m.type = "AppendEntries" /\ m \in Requests
    <2>1. m.type \in {"AppendEntries", "ReadQuorum"} BY Zenon DEF HandleAppendEntries
    <2> QED BY Zenon, <2>1, RequestKind
<1>2. n \in Node /\ m.term \in Nat /\ currentTerm[n] \in Nat BY Zenon, MessageTyped, ElectionTyped
<1>3. UNCHANGED progressVars BY Zenon DEF HandleAppendEntries
<1>4. CASE ~AcceptsLeader(m)
    <2>1. /\ Exchange({m}, {AppendReply(m, currentTerm[n], FALSE)})
          /\ UNCHANGED <<role, currentTerm, elected, logVars>>
        BY Zenon, <1>4 DEF HandleAppendEntries, electionVars
    <2>2. currentTerm'[n] = currentTerm[n] /\ log'[n] = log[n] BY Zenon, <2>1 DEF logVars
    <2>3. currentTerm'[n] > m.term \/ m.from \notin InitVoters
        BY <1>2, <1>4, <2>2, StaticMembers DEF AcceptsLeader
    <2>4. SendsTruth(n) BY Zenon, <1>1, <1>2, <2>1, <2>2, <2>3, RefusalLog
    <2>5. currentTerm'[n] >= currentTerm[n] BY <1>2, <2>2
    <2>6. LogStep(n)
        <3> HIDE DEF n
        <3> QED BY Zenon, <1>2, <1>3, <2>1, <2>4, <2>5, QuietLog
    <2> QED BY Zenon, <2>6
<1>5. CASE AcceptsLeader(m)
    <2>1. /\ currentTerm' = [currentTerm EXCEPT ![n] = m.term] /\ elected' = elected
          /\ Exchange({m}, {AppendReply(m, m.term, PrevMatches(m))})
        BY Zenon, <1>5 DEF HandleAppendEntries
    <2>2. /\ currentTerm'[n] = m.term /\ m.term >= currentTerm[n]
          /\ \A k \in Node \ {n} : currentTerm'[k] = currentTerm[k]
        BY Zenon, <1>2, <1>5, <2>1, ElectionTyped DEF AcceptsLeader
    <2>4. CASE ~PrevMatches(m)
        <3>1. role' = [role EXCEPT ![n] = "FOLLOWER"] /\ UNCHANGED logVars
            BY Zenon, <1>5, <2>4 DEF HandleAppendEntries
        <3>2. /\ role'[n] = "FOLLOWER" /\ \A k \in Node \ {n} : role'[k] = role[k]
              /\ log'[n] = log[n]
            BY Zenon, <1>2, <3>1, ElectionTyped DEF logVars
        <3>3. SendsTruth(n)
            <4>1. PrevMatches(m) = FALSE BY Zenon, <2>4 DEF PrevMatches
            <4>2. Exchange({m}, {AppendReply(m, currentTerm'[n], FALSE)}) BY Zenon, <2>1, <2>2, <4>1
            <4> QED BY Zenon, <1>1, <1>2, <2>2, <2>4, <3>2, <4>2, RefusalLog
        <3>4. LogStep(n)
            <4> HIDE DEF n
            <4> QED BY Zenon, <1>2, <1>3, <2>1, <2>2, <3>1, <3>2, <3>3, QuietLog
        <3> QED BY Zenon, <3>4
    <2>5. CASE PrevMatches(m)
        <3>1. log' = [log EXCEPT ![n] = lg] /\ ApplyCommitted(n, m.term, lg, ci, "FOLLOWER", TRUE)
            BY Zenon, <1>5, <2>5 DEF HandleAppendEntries
        <3>2. log \in [Node -> Seq(EntrySet)] BY Zenon DEF TypeInv, TypeOK
        <3>3. log'[n] = lg /\ \A k \in Node \ {n} : log'[k] = log[k] BY Zenon, <1>2, <3>1, <3>2
        <3>4. role'[n] = "FOLLOWER" /\ \A k \in Node \ {n} : role'[k] = role[k]
            <4>1. role' = [role EXCEPT ![n] = IF StepsDown(n, lg, ci) THEN "FOLLOWER" ELSE "FOLLOWER"]
                BY Zenon, <3>1 DEF ApplyCommitted
            <4> HIDE DEF lg, ci
            <4> QED BY Zenon, <1>2, <4>1, ElectionTyped
        <3>5. Takes(n, m) BY Zenon, <1>1, <2>1, <2>2, <2>5, <3>3, <3>4 DEF Takes, Accepts
        <3>6. SendsTruth(n)
            <4>1. PrevMatches(m) = TRUE BY Zenon, <2>5 DEF PrevMatches
            <4>2. Exchange({m}, {AppendReply(m, m.term, TRUE)}) BY Zenon, <2>1, <4>1
            <4> SUFFICES ASSUME NEW x \in msgs' \ msgs
                         PROVE  x.type = "AppendReply" /\ x.success = TRUE /\ Confirms(n, x)
                BY Zenon DEF SendsTruth
            <4>3. x = AppendReply(m, m.term, TRUE)
                <5> DEFINE y == AppendReply(m, m.term, TRUE)
                <5>1. Exchange({m}, {y}) BY Zenon, <4>2
                <5> HIDE DEF y
                <5>2. x \in {y} BY Zenon, <5>1, ExchangeSends
                <5> QED BY Zenon, <5>2 DEF y
            <4>4. /\ x.type = "AppendReply" /\ x.from = n /\ x.to = m.from /\ x.sentTerm = m.term
                  /\ x.prevIndex = m.prevIndex /\ x.term = m.term /\ x.success = TRUE
                  /\ x.index = m.prevIndex + Len(m.entries)
                BY Zenon, <1>1, <4>3 DEF AppendReply
            <4> HIDE DEF lg, ci
            <4>5. Answers(n, x, m) BY Zenon, <1>1, <2>2, <4>4 DEF Answers
            <4> QED BY Zenon, <3>5, <4>4, <4>5 DEF Confirms
        <3>7. /\ commitIndex'[n] = ci /\ \A k \in Node \ {n} : commitIndex'[k] = commitIndex[k]
              /\ AppliesOwn(n)
            <4> HIDE DEF lg, ci
            <4> QED BY Zenon, <1>2, <2>2, <3>1, <3>3, ApplyLog
        <3>8. Commits(n)
            <4>1. Len(lg) \in Nat /\ commitIndex[n] \in Nat /\ m.commit \in Nat
                <5>1. lg \in Seq(EntrySet) BY Zenon, <1>1, <2>5, CopiedShape, MergeEntriesType
                <5>2. m.commit \in Nat BY Zenon, <1>1, LogTyped
                <5> QED BY <1>2, <5>1, <5>2 DEF TypeInv, TypeOK
            <4> HIDE DEF lg
            <4>2. ci = commitIndex[n] \/ (ci <= m.commit /\ ci <= Len(lg)) BY <4>1 DEF FollowerCommit, MinOf
            <4> HIDE DEF ci
            <4>3. CASE ci = commitIndex[n] BY Zenon, <3>7, <4>3 DEF Commits
            <4>4. CASE ci <= m.commit /\ ci <= Len(lg)
                <5>1. FollowerCommits(n, m) BY Zenon, <3>3, <3>5, <3>7, <4>4 DEF FollowerCommits
                <5> QED BY Zenon, <3>7, <5>1 DEF Commits
            <4> QED BY Zenon, <4>2, <4>3, <4>4
        <3>9. CountsAnswers(n) /\ MovesNext(n) BY Zenon, <3>4 DEF CountsAnswers, MovesNext
        <3>10. matchIndex' = matchIndex /\ nextIndex' = nextIndex BY Zenon, <1>3 DEF progressVars
        <3>11. LogStep(n)
            <4> HIDE DEF n, lg, ci
            <4> QED BY Zenon, <1>2, <2>2, <3>3, <3>4, <3>5, <3>6, <3>7, <3>8, <3>9, <3>10 DEF LogStep
        <3> QED BY Zenon, <3>11
    <2> QED BY Zenon, <2>4, <2>5
<1> QED BY Zenon, <1>4, <1>5

\* handle_append_response.
LEMMA HandleAppendResponseLog ==
    ASSUME NatWellOrdered, TypeInv, Static, NEW m \in msgs, HandleAppendResponse(m)
    PROVE  LogStep(m.to)
<1> DEFINE n     == m.to
           p     == m.from
           match == [matchIndex[n] EXCEPT ![p] = NextAfterOk(n, m)]
           next  == [nextIndex[n] EXCEPT ![p] = NextAfterOk(n, m) + 1]
           ci    == NewCommit(n, currentTerm[n], log[n], commitIndex[n], match)
           out   == CommitBroadcast(n, currentTerm[n], log[n], commitIndex[n], ci, next)
<1>1. n \in Node /\ p \in Node /\ m.term \in Nat /\ NoEntries({}) BY Zenon, MessageTyped DEF NoEntries
<1>2. CASE Exchange({m}, {}) /\ UNCHANGED <<electionVars, logVars, progressVars>>
    <2>1. UNCHANGED <<role, currentTerm, elected, logVars, progressVars>> BY Zenon, <1>2 DEF electionVars
    <2> QED BY Zenon, <1>1, <1>2, <2>1, IgnoredLog
<1>3. CASE /\ m.term > currentTerm[n] /\ BecomeFollower(n, m.term) /\ Exchange({m}, {})
           /\ UNCHANGED <<elected, logVars, progressVars>>
    BY Zenon, <1>1, <1>3, BecomeFollowerLog
<1>4. CASE /\ m.type = "AppendReply" /\ AnswersCurrent(m) /\ m.success
           /\ IF ReadyLearners(n, match) = {}
              THEN /\ nextIndex' = [nextIndex EXCEPT ![n] =
                                      IF out = {} THEN next ELSE BroadcastNext(n, log[n], next)]
                   /\ matchIndex' = [matchIndex EXCEPT ![n] = match] /\ Exchange({m}, out)
                   /\ ApplyCommitted(n, currentTerm[n], log[n], ci, "LEADER", FALSE) /\ UNCHANGED log
              ELSE \E q \in ReadyLearners(n, match) :
                      LeaderAppend({m}, n, currentTerm[n],
                          Entry(currentTerm[n], "PROMOTE_VOTER", q), ci, next, match, {})
           /\ UNCHANGED <<currentTerm, elected>>
    <2>1. ReadyLearners(n, match) = {} BY Zenon, <1>1, StaticMembers
    <2>2. /\ matchIndex' = [matchIndex EXCEPT ![n] = match] /\ Exchange({m}, out)
          /\ nextIndex' = [nextIndex EXCEPT ![n] = IF out = {} THEN next ELSE BroadcastNext(n, log[n], next)]
          /\ ApplyCommitted(n, currentTerm[n], log[n], ci, "LEADER", FALSE) /\ log' = log
        BY Zenon, <1>4, <2>1
    <2>3. role[n] = "LEADER" /\ m.sentTerm = currentTerm[n] BY Zenon, <1>4 DEF AnswersCurrent
    <2>4. /\ matchIndex \in [Node -> [Node -> Nat]] /\ nextIndex \in [Node -> [Node -> Nat]]
          /\ commitIndex[n] \in Nat /\ log[n] \in Seq(EntrySet) /\ m.index \in Nat /\ currentTerm[n] \in Nat
        <3>1. matchIndex \in [Node -> [Node -> Nat]] /\ nextIndex \in [Node -> [Node -> Nat]]
            BY Zenon DEF TypeInv, TypeOK
        <3>2. m.index \in Nat BY Zenon, <1>4 DEF TypeInv, MsgOK
        <3> QED BY Zenon, <1>1, <2>3, <3>1, <3>2, LeaderProgress
    <2>5. ci \in Nat /\ (ci > commitIndex[n] => ci <= Len(log[n]))
        <3> HIDE DEF match
        <3> QED BY Zenon, <2>4, NewCommitType
    <2>6. \A k \in Node : /\ \/ match[k] = matchIndex[n][k]
                             \/ k = p /\ match[k] = m.index
                          /\ \/ next[k] = nextIndex[n][k]
                             \/ k = p /\ next[k] > 0
        <3> DEFINE new == NextAfterOk(n, m)
        <3>1. new \in Nat /\ (new = matchIndex[n][p] \/ new = m.index)
            BY Zenon, <1>1, <2>4 DEF NextAfterOk, MaxOf
        <3>2. match = [matchIndex[n] EXCEPT ![p] = new] /\ next = [nextIndex[n] EXCEPT ![p] = new + 1] BY Zenon
        <3>3. matchIndex[n] \in [Node -> Nat] /\ nextIndex[n] \in [Node -> Nat] BY Zenon, <1>1, <2>4
        <3> HIDE DEF new, match, next
        <3> QED BY <1>1, <3>1, <3>2, <3>3
    <2>a. AnswerOf(n, p, m) BY Zenon, <1>4, <2>3 DEF AnswerOf
    <2> HIDE DEF match, next
    <2>b. commitIndex'[n] = ci /\ (\A k \in Node \ {n} : commitIndex'[k] = commitIndex[k]) /\ AppliesOwn(n)
        <3> HIDE DEF ci
        <3>1. log'[n] = log[n] /\ currentTerm'[n] = currentTerm[n] BY Zenon, <1>4, <2>2
        <3> QED BY Zenon, <1>1, <2>2, <3>1, ApplyLog
    <2>7. out = {}
        <3> HIDE DEF ci
        <3> QED BY Zenon, <2>4, <2>5, StaticBroadcast
    <2>8. \A x \in msgs' : x \in msgs BY Zenon, <2>2, <2>7, ExchangeSends
    <2>9. role'[n] = "LEADER" /\ \A k \in Node \ {n} : role'[k] = role[k]
        <3> HIDE DEF ci
        <3> QED BY Zenon, <1>1, <2>2, <2>4, <2>5, StaticApply
    <2>10. /\ matchIndex'[n] = match /\ nextIndex'[n] = next
           /\ \A k \in Node \ {n} : matchIndex'[k] = matchIndex[k] /\ nextIndex'[k] = nextIndex[k]
        BY Zenon, <1>1, <2>2, <2>4, <2>7
    <2>11. CountsAnswers(n) BY Zenon, <1>4, <2>6, <2>10, <2>a DEF CountsAnswers
    <2>c. MovesNext(n)
        <3>1. InitVoters \subseteq Node BY Zenon, NodeAssumption
        <3> QED BY Zenon, <1>4, <2>3, <2>6, <2>10, <2>a, <3>1 DEF MovesNext
    <2>12. SendsTruth(n) BY Zenon, <2>8 DEF SendsTruth
    <2>13. log' = log /\ elected' = elected /\ currentTerm' = currentTerm BY Zenon, <1>4, <2>2
    <2>14. KeepsLog(n) BY Zenon, <2>3, <2>13 DEF KeepsLog
    <2>d. Commits(n)
        <3>1. /\ commitIndex'[n] \in {commitIndex[n], NewCommit(n, currentTerm[n], log[n], commitIndex[n], match)}
              /\ log'[n] = log[n] /\ currentTerm'[n] = currentTerm[n]
            BY Zenon, <2>13, <2>b
        <3>2. commitIndex'[n] = commitIndex[n] \/ LeaderCommits(n) BY Zenon, <2>4, <2>9, <2>10, <3>1, CommitLog
        <3> QED BY Zenon, <2>b, <3>2 DEF Commits
    <2>15. LogStep(n)
        <3>1. currentTerm'[n] >= currentTerm[n] /\ role'[n] # "CANDIDATE" BY <2>4, <2>9, <2>13
        <3>2. \A k \in Node \ {n} : currentTerm'[k] = currentTerm[k] /\ log'[k] = log[k] BY Zenon, <2>13
        <3> HIDE DEF n, ci
        <3> QED BY Zenon, <2>9, <2>10, <2>11, <2>12, <2>14, <2>b, <2>c, <2>d, <3>1, <3>2 DEF LogStep
    <2> QED BY Zenon, <2>15
<1>5. CASE /\ m.type = "AppendReply" /\ AnswersCurrent(m) /\ ~m.success /\ Exchange({m}, {})
           /\ nextIndex' = [nextIndex EXCEPT ![n][p] = NextAfterFailure(n, m)]
           /\ UNCHANGED <<electionVars, logVars, matchIndex>>
    <2>1. /\ log' = log /\ commitIndex' = commitIndex /\ applied' = applied /\ matchIndex' = matchIndex
          /\ role' = role /\ currentTerm' = currentTerm /\ elected' = elected
        BY Zenon, <1>5 DEF electionVars, logVars
    <2>2. /\ role[n] = "LEADER" /\ m.term <= m.sentTerm /\ m.sentTerm = currentTerm[n]
          /\ m.prevIndex + 1 = nextIndex[n][p]
        BY Zenon, <1>5 DEF AnswersCurrent
    <2>3. /\ nextIndex \in [Node -> [Node -> Nat]] /\ matchIndex \in [Node -> [Node -> Nat]]
          /\ Len(log[n]) \in Nat /\ m.index \in Nat /\ m.prevIndex \in Nat /\ currentTerm[n] \in Nat
        <3>1. matchIndex \in [Node -> [Node -> Nat]] /\ nextIndex \in [Node -> [Node -> Nat]]
            BY Zenon DEF TypeInv, TypeOK
        <3>2. m.index \in Nat /\ m.prevIndex \in Nat BY Zenon, <1>5 DEF TypeInv, MsgOK
        <3> QED BY Zenon, <1>1, <2>2, <3>1, <3>2, LeaderProgress
    <2>4. /\ nextIndex'[n][p] = NextAfterFailure(n, m)
          /\ \A k \in Node \ {p} : nextIndex'[n][k] = nextIndex[n][k]
          /\ \A k \in Node \ {n} : nextIndex'[k] = nextIndex[k]
        BY Zenon, <1>1, <1>5, <2>3
    <2>5. /\ NextAfterFailure(n, m) > 0
          /\ \A f \in 1..Len(log[n]) : f <= m.prevIndex /\ f <= m.index => f <= NextAfterFailure(n, m)
        <3> DEFINE cur  == nextIndex[n][p]
                   low  == matchIndex[n][p] + 1
                   hint == MinOf(m.index, Len(log[n])) + 1
        <3>1. NextAfterFailure(n, m) = MaxOf(IF hint >= cur /\ cur > 1 THEN cur - 1 ELSE hint, low)
            BY Zenon DEF NextAfterFailure
        <3>a. matchIndex[n][p] \in Nat /\ nextIndex[n][p] \in Nat BY Zenon, <1>1, <2>3
        <3>b. hint \in Nat BY <2>3 DEF MinOf
        <3>2. cur \in Nat /\ low \in Nat \ {0} /\ hint \in Nat /\ cur = m.prevIndex + 1
            <4> HIDE DEF hint, n, p
            <4> QED BY <2>2, <3>a, <3>b
        <3>3. \A f \in 1..Len(log[n]) : f <= m.prevIndex /\ f <= m.index => f <= hint BY <2>3 DEF MinOf
        <3> HIDE DEF cur, low, hint
        <3> QED BY <2>3, <3>1, <3>2, <3>3 DEF MaxOf
    <2>6. GoesBack(n, p, m) /\ AnswerOf(n, p, m) BY Zenon, <1>5, <2>2, <2>4, <2>5 DEF GoesBack, AnswerOf
    <2>7. MovesNext(n)
        <3>1. InitVoters \subseteq Node BY Zenon, NodeAssumption
        <3> HIDE DEF n, p
        <3> QED BY Zenon, <2>2, <2>4, <2>5, <2>6, <3>1 DEF MovesNext
    <2>8. SendsTruth(n) BY Zenon, <1>1, <1>5, ExchangeQuiet
    <2>9. KeepsLog(n) /\ CountsAnswers(n) /\ Commits(n)
        BY Zenon, <2>1, <2>2 DEF KeepsLog, CountsAnswers, Commits, AppliesOwn
    <2>10. LogStep(n)
        <3>1. currentTerm'[n] >= currentTerm[n] /\ role'[n] # "CANDIDATE" BY <2>1, <2>2, <2>3
        <3> HIDE DEF n, p
        <3> QED BY Zenon, <2>1, <2>4, <2>7, <2>8, <2>9, <3>1 DEF LogStep
    <2> QED BY Zenon, <2>10
<1> QED BY ZenonT(40), <1>2, <1>3, <1>4, <1>5 DEF HandleAppendResponse

\* A restart: the replica follows, and what it has sent stays on its way.
LEMMA RecoverLog ==
    ASSUME TypeInv, NEW n \in Node, NEW lg, NEW t \in Nat, t >= currentTerm[n], NEW vote, NEW torn,
           Recover(n, lg, t, vote, torn)
    PROVE  /\ log'[n] = lg /\ role'[n] = "FOLLOWER" /\ currentTerm'[n] = t /\ elected' = elected
           /\ KeepsLog(n) \/ (\E m : TakesPart(n, m)) => LogStep(n)
<1>1. /\ role' = [role EXCEPT ![n] = "FOLLOWER"] /\ currentTerm' = [currentTerm EXCEPT ![n] = t]
      /\ log' = [log EXCEPT ![n] = lg] /\ matchIndex' = [matchIndex EXCEPT ![n] = [p \in Node |-> 0]]
      /\ commitIndex' = [commitIndex EXCEPT ![n] = 0] /\ nextIndex' = [nextIndex EXCEPT ![n] = [p \in Node |-> 0]]
      /\ elected' = elected /\ applied' = applied /\ \A m \in msgs' : m \in msgs
    BY Zenon DEF Recover
<1>2. /\ log \in [Node -> Seq(EntrySet)] /\ matchIndex \in [Node -> [Node -> Nat]]
      /\ commitIndex \in [Node -> Nat] /\ nextIndex \in [Node -> [Node -> Nat]]
    BY Zenon DEF TypeInv, TypeOK
<1>3. /\ log'[n] = lg /\ role'[n] = "FOLLOWER" /\ currentTerm'[n] = t
      /\ \A k \in Node \ {n} : /\ role'[k] = role[k] /\ currentTerm'[k] = currentTerm[k]
                               /\ log'[k] = log[k] /\ matchIndex'[k] = matchIndex[k]
                               /\ nextIndex'[k] = nextIndex[k] /\ commitIndex'[k] = commitIndex[k]
    BY Zenon, <1>1, <1>2, ElectionTyped
<1>4. SendsTruth(n) /\ CountsAnswers(n) /\ MovesNext(n) BY Zenon, <1>1, <1>3 DEF SendsTruth, CountsAnswers, MovesNext
<1>5. commitIndex'[n] = 0 BY Zenon, <1>1, <1>2
<1>6. Commits(n) BY Zenon, <1>1, <1>5 DEF Commits, AppliesOwn
<1> QED BY Zenon, <1>1, <1>3, <1>4, <1>6 DEF LogStep

\* A crash while the entries of a request are saved.
LEMMA CrashInAppendLog ==
    ASSUME NatWellOrdered, TypeInv, RequestsPlain, NEW m \in msgs, CrashInAppend(m)
    PROVE  LogStep(m.to)
<1> DEFINE n    == m.to
           lg   == MergeEntries(log[n], m.prevIndex, m.entries)
           vote == IF m.term > currentTerm[n] THEN NONE ELSE votedFor[n]
<1>1. /\ m.type = "AppendEntries" /\ AcceptsLeader(m) /\ PrevMatches(m)
      /\ \E len \in Len(log[n])..MaxOf(Len(log[n]), Len(lg) - 1), torn \in BOOLEAN :
            /\ (torn \/ len > Len(log[n])) => Extends(lg, log[n])
            /\ Recover(n, IF len = Len(log[n]) THEN log[n] ELSE SubSeq(lg, 1, len), m.term, vote, torn)
    BY Zenon DEF CrashInAppend
<1>2. PICK len \in Len(log[n])..MaxOf(Len(log[n]), Len(lg) - 1), torn \in BOOLEAN :
            /\ (torn \/ len > Len(log[n])) => Extends(lg, log[n])
            /\ Recover(n, IF len = Len(log[n]) THEN log[n] ELSE SubSeq(lg, 1, len), m.term, vote, torn)
    BY Zenon, <1>1
<1>3. m \in Requests BY Zenon, <1>1, RequestKind
<1>4. n \in Node /\ m.term \in Nat /\ currentTerm[n] \in Nat /\ m.term >= currentTerm[n]
    BY Zenon, <1>1, MessageTyped, ElectionTyped DEF AcceptsLeader
<1>5. Len(log[n]) \in Nat /\ Len(lg) \in Nat
    <2>1. log[n] \in Seq(EntrySet) /\ m.prevIndex \in Nat /\ m.prevIndex <= Len(log[n]) /\ m.entries \in Seq(EntrySet)
        BY Zenon, <1>1, <1>3, CopiedShape
    <2>2. lg \in Seq(EntrySet) BY Zenon, <2>1, MergeEntriesType
    <2> QED BY <2>1, <2>2
<1> HIDE DEF vote, lg
<1>6. CASE len = Len(log[n])
    <2>1. Recover(n, log[n], m.term, vote, torn) BY Zenon, <1>2, <1>6
    <2>2. /\ log'[n] = log[n] /\ role'[n] = "FOLLOWER" /\ elected' = elected
          /\ KeepsLog(n) => LogStep(n)
        BY Zenon, <1>4, <2>1, RecoverLog
    <2> QED BY Zenon, <2>2 DEF KeepsLog
<1>7. CASE len # Len(log[n])
    <2>1. len \in Nat /\ len > Len(log[n]) /\ len <= Len(lg) BY <1>2, <1>5, <1>7 DEF MaxOf
    <2> DEFINE saved == SubSeq(lg, 1, len)
    <2>2. Extends(lg, log[n]) /\ Recover(n, saved, m.term, vote, torn) BY Zenon, <1>2, <1>7, <2>1
    <2>3. /\ log'[n] = saved /\ role'[n] = "FOLLOWER" /\ elected' = elected /\ currentTerm'[n] = m.term
          /\ KeepsLog(n) \/ (\E q : TakesPart(n, q)) => LogStep(n)
        <3> HIDE DEF saved, n
        <3> QED BY Zenon, <1>4, <2>2, RecoverLog
    <2>4. Len(log[n]) <= len BY <1>5, <2>1
    <2>5. TakesPart(n, m) BY Zenon, <1>1, <1>3, <2>1, <2>2, <2>3, <2>4 DEF TakesPart, Accepts, lg
    <2> QED BY Zenon, <2>3, <2>5
<1> QED BY Zenon, <1>6, <1>7

\* A restart.
LEMMA RestartLog ==
    ASSUME TypeInv, NEW n \in Node, Restart(n)
    PROVE  LogStep(n)
<1>1. PICK torn \in BOOLEAN : Recover(n, log[n], currentTerm[n], votedFor[n], torn) BY Zenon DEF Restart
<1>2. currentTerm[n] \in Nat /\ currentTerm[n] >= currentTerm[n] BY ElectionTyped
<1>3. /\ log'[n] = log[n] /\ role'[n] = "FOLLOWER" /\ elected' = elected
      /\ KeepsLog(n) => LogStep(n)
    BY Zenon, <1>1, <1>2, RecoverLog
<1> QED BY Zenon, <1>3 DEF KeepsLog

-----------------------------------------------------------------------------
(* What the clients of the group are told.                                 *)

Waiting == [req : Request, index : Nat]

\* with the roles r and the logs lg, the log of a leader holds the requests of
\* pending where they wait
Placed(r, lg, pending) ==
    /\ pending \in [Node -> SUBSET Waiting]
    /\ \A n \in Node : r[n] = "LEADER" =>
          \A w \in pending[n] : w.index \in 1..Len(lg[n]) /\ Is(lg[n][w.index], "WRITE", w.req)

\* the inductive invariant of the tracker
ClientInv ==
    /\ Placed(role, log, tracked)
    /\ \A n \in Node : role[n] # "LEADER" => tracked[n] = {}
    /\ AckedCasIsApplied /\ AckedByLeaderIsApplied

\* Nobody waits in a new group.
LEMMA ClientStarts ==
    ASSUME ClientInit
    PROVE  ClientInv
<1>1. tracked \in [Node -> SUBSET Waiting] /\ \A n \in Node : tracked[n] = {} BY DEF ClientInit
<1> QED BY Zenon, <1>1 DEF ClientInit, ClientInv, Placed, AckedCasIsApplied, AckedByLeaderIsApplied

\* advance() tells the truth about the requests that wait in the log.
LEMMA AdvanceTells ==
    ASSUME TypeInv', AppliedInv', applied \subseteq applied', ClientInv, NEW pending, Placed(role', log', pending), Advance(pending)
    PROVE  ClientInv'
<1>1. /\ \A n \in Node : tracked'[n] \in SUBSET pending[n] /\ (role'[n] # "LEADER" => tracked'[n] = {})
      /\ tracked' \in [Node -> SUBSET Waiting]
    <2>1. pending \in [Node -> SUBSET Waiting] BY Zenon DEF Placed
    <2> QED BY Zenon, <2>1 DEF Advance
<1>2. Placed(role', log', tracked') BY Zenon, <1>1 DEF Placed
<1>3. ASSUME NEW n \in Node, NEW i \in 1..commitIndex'[n], NEW v, Is(log'[n][i], "WRITE", v)
      PROVE  AppliedWrite(v)'
    BY Zenon, <1>3 DEF AppliedInv, AppliedWrite
<1>4. \A v : AppliedWrite(v) => AppliedWrite(v)' BY Zenon DEF AppliedWrite
<1>5. ASSUME NEW a \in answers', a \notin answers, a.status = "OK", a.req \in CasRequest \/ a.leads
      PROVE  AppliedWrite(a.req)'
    <2>1. \/ \E n \in Node : \E w \in Committed(n, pending) :
                a = Answer(w.req, Outcome(n, w.req), role'[n] = "LEADER")
          \/ \E n \in Node : \E w \in pending[n] : a = Answer(w.req, "NOT_LEADER", FALSE)
        <3> DEFINE rest(n) == IF role'[n] = "LEADER" THEN {} ELSE pending[n] \ Committed(n, pending)
                   told(n) == {Answer(w.req, Outcome(n, w.req), role'[n] = "LEADER") : w \in Committed(n, pending)}
                                \cup {Answer(w.req, "NOT_LEADER", FALSE) : w \in rest(n)}
        <3>1. answers' = answers \cup UNION {told(n) : n \in Node} BY Zenon DEF Advance
        <3>2. \A n \in Node : rest(n) \subseteq pending[n] BY Zenon
        <3> HIDE DEF rest
        <3>3. \E n \in Node : a \in told(n)
            <4> HIDE DEF told
            <4> QED BY Zenon, <1>5, <3>1
        <3> QED BY Zenon, <3>2, <3>3
    <2>2. ASSUME NEW n \in Node, NEW w \in pending[n], a = Answer(w.req, "NOT_LEADER", FALSE) PROVE FALSE
        <3>1. a.status = "NOT_LEADER" BY Zenon, <2>2 DEF Answer
        <3> QED BY <1>5, <3>1
    <2>3. ASSUME NEW n \in Node, NEW w \in Committed(n, pending),
                 a = Answer(w.req, Outcome(n, w.req), role'[n] = "LEADER")
          PROVE  AppliedWrite(a.req)'
        <3>1. a.req = w.req /\ Outcome(n, w.req) = "OK" /\ a.leads = (role'[n] = "LEADER")
            BY Zenon, <1>5, <2>3 DEF Answer
        <3>2. CASE a.req \in CasRequest
            <4>1. Recorded(log', commitIndex', n, w.req) BY <3>1, <3>2 DEF Outcome
            <4> QED BY Zenon, <1>3, <3>1, <4>1 DEF Recorded
        <3>3. CASE a.leads
            <4>1. role'[n] = "LEADER" BY Zenon, <3>1, <3>3
            <4>2. w \in pending[n] /\ w.index <= commitIndex'[n] BY Zenon DEF Committed
            <4>3. w.index \in 1..Len(log'[n]) /\ Is(log'[n][w.index], "WRITE", w.req) BY Zenon, <4>1, <4>2 DEF Placed
            <4>4. commitIndex'[n] \in Nat /\ Len(log'[n]) \in Nat BY Zenon, LogTypedAfter DEF TypeInv, TypeOK
            <4>5. w.index \in 1..commitIndex'[n] BY <4>2, <4>3, <4>4
            <4> QED BY Zenon, <1>3, <3>1, <4>3, <4>5
        <3> QED BY Zenon, <1>5, <3>2, <3>3
    <2> QED BY Zenon, <2>1, <2>2, <2>3
<1>6. AckedCasIsApplied' /\ AckedByLeaderIsApplied'
    BY Zenon, <1>4, <1>5 DEF ClientInv, AckedCasIsApplied, AckedByLeaderIsApplied
<1> QED BY Zenon, <1>1, <1>2, <1>6 DEF ClientInv

\* A leader that stays one keeps its log and adds to it.
LEMMA LeaderLogGrows ==
    ASSUME TypeInv, NEW k \in Node, LogStep(k), NEW n \in Node, role[n] = "LEADER", role'[n] = "LEADER"
    PROVE  Prefix(log[n], log'[n])
<1>1. PICK lg \in Seq(EntrySet) : lg = log[n] BY Zenon, LogTyped
<1>2. Prefix(lg, lg) BY <1>1 DEF Prefix, SameUpTo
<1>3. \A e \in EntrySet : Prefix(lg, Append(lg, e)) BY Zenon, AppendGrows
<1>4. log'[n] = log[n] \/ \E e \in EntrySet : log'[n] = Append(log[n], e)
    BY Zenon DEF LogStep, KeepsLog, Proposes, Takes, TakesPart, Accepts
<1> QED BY Zenon, <1>1, <1>2, <1>3, <1>4

\* What waits on a leader stays in its log.
LEMMA WaitingStays ==
    ASSUME TypeInv, TypeInv', ClientInv, NEW k \in Node, LogStep(k)
    PROVE  Placed(role', log', tracked)
<1>1. Placed(role, log, tracked) BY Zenon DEF ClientInv
<1> SUFFICES ASSUME NEW n \in Node, role'[n] = "LEADER", NEW w \in tracked[n]
             PROVE  w.index \in 1..Len(log'[n]) /\ Is(log'[n][w.index], "WRITE", w.req)
    BY Zenon, <1>1 DEF Placed
<1>2. role[n] = "LEADER" BY Zenon DEF ClientInv
<1>3. w.index \in 1..Len(log[n]) /\ Is(log[n][w.index], "WRITE", w.req) BY Zenon, <1>1, <1>2 DEF Placed
<1>4. Len(log[n]) \in Nat /\ Len(log'[n]) \in Nat BY Zenon, LogTyped, LogTypedAfter
<1>5. Prefix(log[n], log'[n]) BY Zenon, <1>2, LeaderLogGrows
<1>6. Len(log[n]) <= Len(log'[n]) /\ \A i \in 1..Len(log[n]) : log[n][i] = log'[n][i] BY Zenon, <1>5 DEF Prefix, SameUpTo
<1>7. w.index \in 1..Len(log'[n]) BY <1>3, <1>4, <1>6
<1> QED BY Zenon, <1>3, <1>6, <1>7

\* submit_batch: a write that is already in the log, or is appended to it, waits
\* where it is.
LEMMA TrackedAt ==
    ASSUME Placed(role', log', tracked), NEW n \in Node, NEW v \in Request, NEW i \in Nat,
           i \in 1..Len(log'[n]), Is(log'[n][i], "WRITE", v)
    PROVE  Placed(role', log', TrackAt(n, v, i))
<1> DEFINE new == [req |-> v, index |-> i]
<1>1. new \in Waiting /\ new.req = v /\ new.index = i BY Zenon DEF Waiting
<1> HIDE DEF new
<1>2. tracked \in [Node -> SUBSET Waiting] BY Zenon DEF Placed
<1>3. TrackAt(n, v, i) = [tracked EXCEPT ![n] = @ \cup {new}] BY Zenon DEF TrackAt, new
<1>4. /\ TrackAt(n, v, i) \in [Node -> SUBSET Waiting]
      /\ \A k \in Node : \A w \in TrackAt(n, v, i)[k] : w \in tracked[k] \/ (k = n /\ w = new)
    BY <1>1, <1>2, <1>3
<1> QED BY Zenon, <1>1, <1>4 DEF Placed

\* Every step of the group with its clients.
LEMMA ClientStep ==
    ASSUME TypeInv, TypeInv', ClientInv, AppliedInv, AppliedInv', ClientNext,
           UNCHANGED vars \/ \E k \in Node : LogStep(k)
    PROVE  ClientInv'
<1>1. Placed(role', log', tracked) /\ applied \subseteq applied'
    <2>1. CASE UNCHANGED vars
        <3>1. role' = role /\ log' = log /\ applied' = applied BY Zenon, <2>1 DEF vars, electionVars, logVars
        <3> QED BY Zenon, <3>1 DEF ClientInv
    <2>2. CASE \E k \in Node : LogStep(k) BY Zenon, <2>2, WaitingStays DEF LogStep, Commits, AppliesOwn
    <2> QED BY Zenon, <2>1, <2>2
<1>2. CASE RaftStep BY Zenon, <1>1, <1>2, AdvanceTells DEF RaftStep
<1>3. ASSUME NEW n \in Node, CrashStep(n) PROVE ClientInv'
    <2>1. PICK pending : pending = [tracked EXCEPT ![n] = {}] BY Zenon
    <2>2. Placed(role', log', pending)
        <3>1. tracked \in [Node -> SUBSET Waiting] BY Zenon, <1>1 DEF Placed
        <3>2. pending \in [Node -> SUBSET Waiting] /\ \A k \in Node : pending[k] \subseteq tracked[k] BY <2>1, <3>1
        <3> QED BY Zenon, <1>1, <3>2 DEF Placed
    <2> QED BY Zenon, <1>1, <1>3, <2>1, <2>2, AdvanceTells DEF CrashStep
<1>4. ASSUME NEW n \in Node, NEW v \in Request, Submit(n, v) PROVE ClientInv'
    <2>1. ASSUME NEW i \in Nat, i \in 1..Len(log'[n]), Is(log'[n][i], "WRITE", v), Advance(TrackAt(n, v, i))
          PROVE  ClientInv'
        BY Zenon, <1>1, <2>1, TrackedAt, AdvanceTells
    <2>2. ASSUME NEW a, a.status = "OK" => AppliedWrite(a.req), answers' = answers \cup {a}, UNCHANGED <<vars, tracked>>
          PROVE  ClientInv'
        <3>1. role' = role /\ log' = log /\ applied' = applied /\ tracked' = tracked
            BY Zenon, <2>2 DEF vars, electionVars, logVars
        <3>2. AckedCasIsApplied' /\ AckedByLeaderIsApplied'
            BY Zenon, <2>2, <3>1 DEF ClientInv, AckedCasIsApplied, AckedByLeaderIsApplied, AppliedWrite
        <3> QED BY Zenon, <3>1, <3>2 DEF ClientInv
    <2>3. CASE /\ Recorded(log, commitIndex, n, v)
               /\ answers' = answers \cup {Answer(v, "OK", role[n] = "LEADER")} /\ UNCHANGED <<vars, tracked>>
        <3>1. AppliedWrite(v) BY Zenon, <2>3 DEF Recorded, AppliedInv, AppliedWrite
        <3>2. Answer(v, "OK", role[n] = "LEADER").req = v BY Zenon DEF Answer
        <3> QED BY Zenon, <2>2, <2>3, <3>1, <3>2
    <2>4. CASE answers' = answers \cup {Answer(v, "NOT_LEADER", FALSE)} /\ UNCHANGED <<vars, tracked>>
        <3>1. Answer(v, "NOT_LEADER", FALSE).status # "OK" BY DEF Answer
        <3> QED BY Zenon, <2>2, <2>4, <3>1
    <2>5. ASSUME NEW i \in Logged(n, v), UNCHANGED vars, Advance(TrackAt(n, v, i)) PROVE ClientInv'
        <3>1. log' = log BY Zenon, <2>5 DEF vars, logVars
        <3>2. i \in 1..Len(log'[n]) /\ Is(log'[n][i], "WRITE", v) BY Zenon, <2>5, <3>1 DEF Logged
        <3>3. i \in Nat BY <3>2
        <3> QED BY Zenon, <2>1, <2>5, <3>2, <3>3
    <2>6. CASE Propose(n, v) /\ Advance(TrackAt(n, v, Len(log[n]) + 1))
        <3> DEFINE e == Entry(currentTerm[n], "WRITE", v)
        <3>1. log' = [log EXCEPT ![n] = Append(log[n], e)] BY Zenon, <2>6 DEF Propose, LeaderAppend
        <3>2. log'[n] = Append(log[n], e) BY Zenon, <3>1 DEF TypeInv, TypeOK
        <3>3. log[n] \in Seq(EntrySet) /\ Len(log[n]) \in Nat BY Zenon, LogTyped
        <3>4. Is(e, "WRITE", v) /\ e \in EntrySet
            <4>1. currentTerm[n] \in Nat \ {0} BY Zenon, <2>6, LeaderProgress DEF Propose, WritableLeader
            <4> QED BY Zenon, <4>1 DEF Is, Entry, EntrySet
        <3> HIDE DEF e
        <3>5. Len(log'[n]) = Len(log[n]) + 1 /\ log'[n][Len(log[n]) + 1] = e
            <4>1. Len(Append(log[n], e)) = Len(log[n]) + 1 /\ Append(log[n], e)[Len(log[n]) + 1] = e
                BY Zenon, <3>3, <3>4, AppendGrows
            <4> QED BY Zenon, <3>2, <4>1
        <3>6. Len(log[n]) + 1 \in Nat /\ Len(log[n]) + 1 \in 1..Len(log'[n]) BY <3>3, <3>5
        <3> QED BY Zenon, <2>1, <2>6, <3>4, <3>5, <3>6
    <2> QED BY Zenon, <1>4, <2>3, <2>4, <2>5, <2>6 DEF Submit
<1> QED BY Zenon, <1>2, <1>3, <1>4 DEF ClientNext

\* A step of the group with its clients is a step of the group, or none.
LEMMA ClientIsGroup ==
    ASSUME ClientNext
    PROVE  Next \/ UNCHANGED vars
BY Zenon DEF ClientNext, RaftStep, CrashStep, Submit, Next

\* Nothing changes when nobody steps.
LEMMA ClientStutters ==
    ASSUME ClientInv, UNCHANGED <<vars, clientVars>>
    PROVE  ClientInv'
<1>1. role' = role /\ log' = log /\ applied' = applied /\ tracked' = tracked /\ answers' = answers
    BY Zenon DEF vars, electionVars, logVars, clientVars
<1> QED BY Zenon, <1>1 DEF ClientInv, AckedCasIsApplied, AckedByLeaderIsApplied, AppliedWrite
=============================================================================
