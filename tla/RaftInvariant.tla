--------------------------- MODULE RaftInvariant ----------------------------
(***************************************************************************)
(* The invariants behind the proofs about the Raft group, the relations    *)
(* that its steps are shown to satisfy, and the facts that the proofs      *)
(* share. Nothing here depends on the handlers: RaftSteps and RaftLogSteps *)
(* show of every handler that it keeps the types, is a BallotStep and is a *)
(* LogStep; RaftHistory and RaftCommit argue from these relations alone.   *)
(*                                                                         *)
(* TypeOK bounds the progress a leader keeps of its followers by its own   *)
(* log, which no single step preserves on its own: an answer is counted    *)
(* long after its request was built. TypeInv adds that a request, or a     *)
(* positive answer to it, of the term n leads speaks only of entries that n*)
(* still holds (LeaderSent).                                               *)
(*                                                                         *)
(* Voted(v, c, t) says that some part of the state still shows a vote of v *)
(* for c in term t: the vote of v itself, an answer on its way, or the     *)
(* count of the candidate. BallotInv says that all such traces of one voter*)
(* in one term agree, and that a majority stands behind every leader and   *)
(* shows no vote for anyone else.                                          *)
(***************************************************************************)
EXTENDS RaftState, TLAPS

\* the fields the handlers read have their types
MsgOK(m) ==
    /\ m.from \in Node /\ m.to \in Node /\ m.term \in Nat
    /\ m.type \in {"AppendEntries", "ReadQuorum"} =>
          /\ m.prevIndex \in Nat /\ m.entries \in Seq(EntrySet) /\ m.commit \in Nat
          /\ m.prevIndex > 0 => m.prevTerm \in Nat \ {0}
    /\ m.type = "AppendReply" => m.sentTerm \in Nat /\ m.prevIndex \in Nat /\ m.index \in Nat

\* n built a request of term t that ends at index i: it has not become a
\* candidate of that term since, and holds i entries if it still leads
SentBy(n, t, i) ==
    /\ t <= currentTerm[n]
    /\ t = currentTerm[n] => role[n] # "CANDIDATE"
    /\ t = currentTerm[n] /\ role[n] = "LEADER" => i <= Len(log[n])

LeaderSent(m) ==
    /\ m.type = "AppendEntries" => SentBy(m.from, m.term, m.prevIndex + Len(m.entries))
    /\ m.type = "AppendReply" /\ m.success => SentBy(m.to, m.sentTerm, m.index)

\* candidates and leaders have left term 0
TermPositive == \A n \in Node : role[n] \in {"CANDIDATE", "LEADER"} => currentTerm[n] # 0

TypeInv == TypeOK /\ TermPositive /\ \A m \in msgs : MsgOK(m) /\ LeaderSent(m)

-----------------------------------------------------------------------------
(* Shared facts.                                                           *)

\* what the proofs about steps use of natural numbers and finite sets; the
\* module RaftTheorems proves both from the library
NatWellOrdered == \A S \in SUBSET Nat : S # {} => \E x \in S : \A y \in S : x <= y

SingletonSize == \A n \in Node : Cardinality({n}) = 1

\* A log has a length.
LEMMA LogLength == \A lg \in Seq(EntrySet) : Len(lg) \in Nat
OBVIOUS

\* What TypeInv says of the variables of an election.
LEMMA ElectionTyped ==
    ASSUME TypeInv
    PROVE  /\ role \in [Node -> Roles] /\ currentTerm \in [Node -> Nat]
           /\ votedFor \in [Node -> Node \cup {NONE}] /\ votes \in [Node -> SUBSET Node]
BY Zenon DEF TypeInv, TypeOK

\* What TypeInv says of every message.
LEMMA MessageTyped ==
    ASSUME TypeInv
    PROVE  \A m \in msgs : m.from \in Node /\ m.to \in Node /\ m.term \in Nat
BY Zenon DEF TypeInv, MsgOK

\* Exchange only adds the messages it is given.
LEMMA ExchangeSends ==
    ASSUME NEW got, NEW out, Exchange(got, out)
    PROVE  \A m \in msgs' : m \in msgs \/ m \in out
BY Zenon DEF Exchange

\* A non-empty bounded set of natural numbers has a greatest element.
LEMMA GreatestNat ==
    ASSUME NatWellOrdered, NEW b \in Nat, NEW S \in SUBSET (0..b), S # {}
    PROVE  \E x \in S : \A y \in S : y <= x
<1> DEFINE T == {b - x : x \in S}
<1>1. T \in SUBSET Nat /\ T # {}
    <2>1. \A x \in S : b - x \in Nat OBVIOUS
    <2> QED BY Zenon, <2>1
<1> HIDE DEF T
<1>2. PICK t \in T : \A u \in T : t <= u BY Zenon, <1>1 DEF NatWellOrdered
<1>3. PICK x \in S : t = b - x BY Zenon, <1>2 DEF T
<1>4. ASSUME NEW y \in S PROVE y <= x
    <2>1. b - y \in T BY Zenon DEF T
    <2>2. b - x <= b - y BY Zenon, <1>2, <1>3, <2>1
    <2> QED BY <2>2
<1> QED BY Zenon, <1>4

\* append_entries_from_leader leaves a log of entries.
LEMMA MergeEntriesType ==
    ASSUME NatWellOrdered, NEW lg \in Seq(EntrySet), NEW prev \in Nat, NEW entries \in Seq(EntrySet),
           prev <= Len(lg)
    PROVE  MergeEntries(lg, prev, entries) \in Seq(EntrySet)
<1> DEFINE fresh == {j \in 1..Len(entries) :
                        prev + j > Len(lg) \/ lg[prev + j].term # entries[j].term}
           first == CHOOSE j \in fresh : \A k \in fresh : j <= k
<1>1. CASE fresh = {} BY Zenon, <1>1 DEF MergeEntries
<1>2. CASE fresh # {}
    <2>0. Len(entries) \in Nat /\ Len(lg) \in Nat /\ fresh \in SUBSET Nat OBVIOUS
    <2>1. \E j \in fresh : \A k \in fresh : j <= k
        <3> HIDE DEF fresh
        <3> QED BY Zenon, <1>2, <2>0 DEF NatWellOrdered
    <2>2. first \in fresh /\ \A k \in fresh : first <= k BY Zenon, <2>1
    <2>a. first \in 1..Len(entries) BY Zenon, <2>2
    <2>3. first = 1 \/ (first - 1 \in 1..Len(entries) /\ first - 1 \notin fresh)
        <3> HIDE DEF fresh, first
        <3> QED BY <2>0, <2>2, <2>a
    <2>b. \A j \in 1..Len(entries) : j \notin fresh => prev + j <= Len(lg) BY <2>0
    <2> HIDE DEF fresh, first
    <2>4. prev + first - 1 <= Len(lg) BY <2>0, <2>3, <2>a, <2>b
    <2>6. SubSeq(lg, 1, prev + first - 1) \in Seq(EntrySet)
        BY <2>4, <2>a
    <2>7. SubSeq(entries, first, Len(entries)) \in Seq(EntrySet)
        BY <2>a
    <2>8. SubSeq(lg, 1, prev + first - 1) \o SubSeq(entries, first, Len(entries)) \in Seq(EntrySet)
        BY <2>6, <2>7
    <2> QED BY Zenon, <1>2, <2>8 DEF MergeEntries, fresh, first
<1> QED BY Zenon, <1>1, <1>2

\* try_advance_commit_index moves the commit index to an entry of the log that
\* a quorum holds, or leaves it alone.
LEMMA NewCommitType ==
    ASSUME NatWellOrdered, NEW n, NEW t, NEW lg \in Seq(EntrySet), NEW ci \in Nat, NEW match
    PROVE  /\ NewCommit(n, t, lg, ci, match) \in Nat
           /\ NewCommit(n, t, lg, ci, match) > ci => NewCommit(n, t, lg, ci, match) <= Len(lg)
           /\ NewCommit(n, t, lg, ci, match) # ci =>
                 NewCommit(n, t, lg, ci, match) \in Committable(n, t, lg, ci, match)
<1> DEFINE S == Committable(n, t, lg, ci, match)
<1>1. S \in SUBSET (0..Len(lg)) /\ Len(lg) \in Nat
    <2>1. Len(lg) \in Nat OBVIOUS
    <2>2. \A i \in ci+1..Len(lg) : i \in 0..Len(lg) BY <2>1
    <2> QED BY Zenon, <2>1, <2>2 DEF Committable
<1>2. CASE S = {} BY <1>2 DEF NewCommit
<1>3. CASE S # {}
    <2>1. \E x \in S : \A y \in S : y <= x
        <3> HIDE DEF S
        <3> QED BY Zenon, <1>1, <1>3, GreatestNat
    <2> QED BY <2>1, <1>1, <1>3 DEF NewCommit
<1> QED BY Zenon, <1>2, <1>3

\* broadcast_append_entries: a member without progress gets the index after
\* the last entry, so no next index passes it.
LEMMA BroadcastNextType ==
    ASSUME TypeOK, NEW n \in Node, NEW lg \in Seq(EntrySet), NEW next \in [Node -> Nat],
           \A p \in Node : next[p] <= Len(lg) + 1
    PROVE  /\ BroadcastNext(n, lg, next) \in [Node -> Nat]
           /\ \A p \in Node : BroadcastNext(n, lg, next)[p] <= Len(lg) + 1
           /\ \A p \in Members(n) \ {n} : BroadcastNext(n, lg, next)[p] >= 1
           /\ Members(n) \subseteq Node
<1>1. Len(lg) \in Nat OBVIOUS
<1>2. Members(n) \subseteq Node BY Zenon, NodeAssumption DEF Members, TypeOK, VoterSets
<1> QED BY <1>1, <1>2 DEF BroadcastNext

\* What a leader knows of its followers lies inside its log.
LEMMA LeaderProgress ==
    ASSUME TypeInv, NEW n \in Node, role[n] = "LEADER"
    PROVE  /\ nextIndex[n] \in [Node -> Nat] /\ matchIndex[n] \in [Node -> Nat]
           /\ commitIndex[n] \in Nat /\ log[n] \in Seq(EntrySet) /\ Len(log[n]) \in Nat
           /\ currentTerm[n] \in Nat \ {0}
           /\ commitIndex[n] > commitIndex[n] => commitIndex[n] <= Len(log[n])
           /\ \A p \in Node : matchIndex[n][p] <= Len(log[n]) /\ nextIndex[n][p] <= Len(log[n]) + 1
BY DEF TypeInv, TypeOK, TermPositive

\* the group's membership does not change
Static == AddTargets = {} /\ RemoveTargets = {}

\* In a group of fixed members a replica's voters are the initial ones.
LEMMA StaticVoters ==
    ASSUME TypeInv, Static, NEW n \in Node
    PROVE  voters[n] = InitVoters
<1>1. voters[n] \in VoterSets BY Zenon DEF TypeInv, TypeOK
<1> QED BY Zenon, <1>1 DEF VoterSets, Static

\* Every initial state of a new group satisfies the inductive invariant.
LEMMA TypeInit == Init => TypeInv
<1> SUFFICES ASSUME Init PROVE TypeInv BY Zenon
<1>1. \A n \in Node : log[n] = <<>> /\ role[n] = "FOLLOWER" BY Zenon DEF Init
<1>2. TypeOK BY <1>1, NodeAssumption DEF Init, TypeOK, Roles, VoterSets
<1> QED BY Zenon, <1>1, <1>2 DEF Init, TypeInv, TermPositive

-----------------------------------------------------------------------------
(* A log beside another one.                                               *)

\* a and b hold the same entries up to i
SameUpTo(a, b, i) == i <= Len(a) /\ i <= Len(b) /\ \A k \in 1..i : a[k] = b[k]

Prefix(a, b) == SameUpTo(a, b, Len(a))

\* m carries a piece of lg
Segment(m, lg) ==
    /\ m.prevIndex + Len(m.entries) <= Len(lg)
    /\ m.prevTerm = TermAt(lg, m.prevIndex)
    /\ \A j \in 1..Len(m.entries) : m.entries[j] = lg[m.prevIndex + j]

\* An entry appended to a log.
LEMMA AppendGrows ==
    ASSUME NEW lg \in Seq(EntrySet), NEW e \in EntrySet
    PROVE  /\ Append(lg, e) \in Seq(EntrySet) /\ Len(Append(lg, e)) = Len(lg) + 1
           /\ \A k \in 1..Len(lg) : Append(lg, e)[k] = lg[k]
           /\ Append(lg, e)[Len(lg) + 1] = e /\ Prefix(lg, Append(lg, e)) /\ Append(lg, e) # <<>>
<1>1. /\ Append(lg, e) \in Seq(EntrySet) /\ Len(Append(lg, e)) = Len(lg) + 1 /\ Len(lg) \in Nat
      /\ \A k \in 1..Len(lg) : Append(lg, e)[k] = lg[k]
      /\ Append(lg, e)[Len(lg) + 1] = e
    OBVIOUS
<1>2. Prefix(lg, Append(lg, e)) BY <1>1 DEF Prefix, SameUpTo
<1>3. Append(lg, e) # <<>> BY <1>1
<1> QED BY Zenon, <1>1, <1>2, <1>3

\* what append_entries_from_leader makes of lg: it keeps lg up to c, where the
\* entries have the terms lg has, and either all of them are there already or
\* the rest of them replaces the rest of lg
Merged(lg, prev, entries, r, c) ==
    /\ c \in prev..prev + Len(entries) /\ c <= Len(lg)
    /\ \A i \in prev + 1..c : lg[i].term = entries[i - prev].term
    /\ \/ r = lg /\ c = prev + Len(entries)
       \/ /\ c < prev + Len(entries)
          /\ c + 1 > Len(lg) \/ lg[c + 1].term # entries[c + 1 - prev].term
          /\ Len(r) = prev + Len(entries)
          /\ \A i \in 1..c : r[i] = lg[i]
          /\ \A i \in c + 1..prev + Len(entries) : r[i] = entries[i - prev]

\* The entries of two logs put together.
LEMMA Concatenation ==
    ASSUME NEW x \in Seq(EntrySet), NEW y \in Seq(EntrySet)
    PROVE  /\ Len(x \o y) = Len(x) + Len(y)
           /\ \A i \in 1..Len(x) : (x \o y)[i] = x[i]
           /\ \A i \in Len(x) + 1..Len(x) + Len(y) : (x \o y)[i] = y[i - Len(x)]
<1>1. Len(x) \in Nat /\ Len(y) \in Nat OBVIOUS
<1>2. Len(x \o y) = Len(x) + Len(y) OBVIOUS
<1>3. \A i \in 1..Len(x) + Len(y) : (x \o y)[i] = IF i <= Len(x) THEN x[i] ELSE y[i - Len(x)] OBVIOUS
<1> QED BY <1>1, <1>2, <1>3

\* MergeEntries has that shape.
LEMMA MergeShape ==
    ASSUME NatWellOrdered, NEW lg \in Seq(EntrySet), NEW prev \in Nat, NEW entries \in Seq(EntrySet),
           prev <= Len(lg)
    PROVE  \E c \in Nat : Merged(lg, prev, entries, MergeEntries(lg, prev, entries), c)
<1> DEFINE fresh == {j \in 1..Len(entries) :
                        prev + j > Len(lg) \/ lg[prev + j].term # entries[j].term}
           first == CHOOSE j \in fresh : \A k \in fresh : j <= k
           r     == MergeEntries(lg, prev, entries)
<1>0. Len(entries) \in Nat /\ Len(lg) \in Nat OBVIOUS
<1>1. \A j \in 1..Len(entries) : j \notin fresh => prev + j <= Len(lg) /\ lg[prev + j].term = entries[j].term
    BY <1>0
<1>2. CASE fresh = {}
    <2> DEFINE c == prev + Len(entries)
    <2>1. r = lg BY Zenon, <1>2 DEF MergeEntries
    <2>2. \A j \in 1..Len(entries) : prev + j <= Len(lg) /\ lg[prev + j].term = entries[j].term BY Zenon, <1>1, <1>2
    <2> HIDE DEF fresh, first, r
    <2>3. c <= Len(lg)
        <3>1. CASE Len(entries) = 0 BY <3>1
        <3>2. CASE Len(entries) # 0
            <4>1. Len(entries) \in 1..Len(entries) BY <1>0, <3>2
            <4> QED BY Zenon, <2>2, <4>1
        <3> QED BY Zenon, <3>1, <3>2
    <2>4. \A i \in prev + 1..c : lg[i].term = entries[i - prev].term
        <3> TAKE i \in prev + 1..c
        <3>1. i - prev \in 1..Len(entries) /\ prev + (i - prev) = i BY <1>0
        <3> QED BY Zenon, <2>2, <3>1
    <2>5. c \in Nat /\ c \in prev..prev + Len(entries) BY <1>0
    <2>6. Merged(lg, prev, entries, r, c) BY Zenon, <2>1, <2>3, <2>4, <2>5 DEF Merged
    <2> QED BY Zenon, <2>5, <2>6 DEF r
<1>3. CASE fresh # {}
    <2>0. fresh \in SUBSET Nat BY <1>0
    <2>1. \E j \in fresh : \A k \in fresh : j <= k
        <3> HIDE DEF fresh
        <3> QED BY Zenon, <1>3, <2>0 DEF NatWellOrdered
    <2>2. first \in fresh /\ \A k \in fresh : first <= k BY Zenon, <2>1
    <2>3. first \in 1..Len(entries) /\ (prev + first > Len(lg) \/ lg[prev + first].term # entries[first].term)
        BY Zenon, <2>2
    <2>4. r = SubSeq(lg, 1, prev + first - 1) \o SubSeq(entries, first, Len(entries))
        BY Zenon, <1>3 DEF MergeEntries
    <2> HIDE DEF fresh, first, r
    <2>5. \A j \in 1..first - 1 : prev + j <= Len(lg) /\ lg[prev + j].term = entries[j].term
        <3> TAKE j \in 1..first - 1
        <3>1. j \in 1..Len(entries) /\ ~(first <= j) BY <1>0, <2>3
        <3> QED BY Zenon, <1>1, <2>2, <3>1
    <2> DEFINE c == prev + first - 1
    <2>6. c \in Nat /\ c \in prev..prev + Len(entries) /\ c < prev + Len(entries) /\ c + 1 = prev + first
          /\ c + 1 - prev = first
        BY <1>0, <2>3
    <2>7. c <= Len(lg)
        <3>1. CASE first = 1 BY <3>1
        <3>2. CASE first # 1
            <4>1. first - 1 \in 1..first - 1 BY <2>3, <3>2
            <4> QED BY Zenon, <2>3, <2>5, <4>1
        <3> QED BY Zenon, <3>1, <3>2
    <2>8. \A i \in prev + 1..c : lg[i].term = entries[i - prev].term
        <3> TAKE i \in prev + 1..c
        <3>1. i - prev \in 1..first - 1 /\ prev + (i - prev) = i BY <2>3
        <3> QED BY Zenon, <2>5, <3>1
    <2>8a. c + (Len(entries) - first + 1) = prev + Len(entries)
        <3>1. first \in Nat /\ Len(entries) \in Nat BY <1>0, <2>3
        <3> QED BY <3>1
    <2> HIDE DEF c
    <2>9. r = SubSeq(lg, 1, c) \o SubSeq(entries, first, Len(entries)) BY Zenon, <2>4 DEF c
    <2>a. /\ SubSeq(lg, 1, c) \in Seq(EntrySet) /\ Len(SubSeq(lg, 1, c)) = c
          /\ \A i \in 1..c : SubSeq(lg, 1, c)[i] = lg[i]
        BY <1>0, <2>6, <2>7
    <2>b. /\ SubSeq(entries, first, Len(entries)) \in Seq(EntrySet)
          /\ Len(SubSeq(entries, first, Len(entries))) = Len(entries) - first + 1
          /\ \A i \in 1..Len(entries) - first + 1 :
                SubSeq(entries, first, Len(entries))[i] = entries[first + i - 1]
        BY <1>0, <2>3
    <2>c. /\ Len(r) = prev + Len(entries) /\ \A i \in 1..c : r[i] = lg[i]
          /\ \A i \in c + 1..prev + Len(entries) : r[i] = entries[i - prev]
        <3> DEFINE x == SubSeq(lg, 1, c)
                   y == SubSeq(entries, first, Len(entries))
        <3>1. x \in Seq(EntrySet) /\ y \in Seq(EntrySet) /\ r = x \o y BY Zenon, <2>9, <2>a, <2>b
        <3>2. Len(x) = c /\ Len(y) = Len(entries) - first + 1 BY Zenon, <2>a, <2>b
        <3>3. \A i \in 1..c : x[i] = lg[i] BY Zenon, <2>a
        <3>4. \A i \in 1..Len(entries) - first + 1 : y[i] = entries[first + i - 1] BY Zenon, <2>b
        <3> HIDE DEF x, y
        <3>5. /\ Len(r) = c + (Len(entries) - first + 1) /\ \A i \in 1..c : r[i] = x[i]
              /\ \A i \in c + 1..c + (Len(entries) - first + 1) : r[i] = y[i - c]
            <4>1. /\ Len(r) = Len(x) + Len(y) /\ \A i \in 1..Len(x) : r[i] = x[i]
                  /\ \A i \in Len(x) + 1..Len(x) + Len(y) : r[i] = y[i - Len(x)]
                BY Zenon, <3>1, Concatenation
            <4> QED BY Zenon, <3>2, <4>1
        <3>7. \A i \in c + 1..prev + Len(entries) : r[i] = entries[i - prev]
            <4> TAKE i \in c + 1..prev + Len(entries)
            <4>1. /\ i \in c + 1..c + (Len(entries) - first + 1) /\ i - c \in 1..Len(entries) - first + 1
                  /\ first + (i - c) - 1 = i - prev
                BY <1>0, <2>3, <2>6
            <4> QED BY Zenon, <3>4, <3>5, <4>1
        <3> QED BY Zenon, <3>3, <2>8a, <3>5, <3>7
    <2>d. Merged(lg, prev, entries, r, c) BY Zenon, <2>3, <2>6, <2>7, <2>8, <2>c DEF Merged
    <2> QED BY Zenon, <2>6, <2>d DEF r
<1> QED BY Zenon, <1>2, <1>3

-----------------------------------------------------------------------------
(* Ballots: the inductive invariant, and what a step of replica n does to  *)
(* votes.                                                                  *)

Voted(v, c, t) ==
    \/ votedFor[v] = c /\ currentTerm[v] = t
    \/ \E m \in msgs : /\ m.type = "VoteReply" /\ m.granted
                       /\ m.from = v /\ m.to = c /\ m.term = t
    \/ role[c] = "CANDIDATE" /\ v \in votes[c] /\ currentTerm[c] = t

\* v cannot vote for another candidate than c in term t any more
Bound(v, c, t) == t <= currentTerm[v] /\ (t = currentTerm[v] => votedFor[v] = c)

\* a vote binds the voter
VotesBind == \A v, c \in Node, t \in Nat : Voted(v, c, t) => Bound(v, c, t)

OneVote == \A v, c, d \in Node, t \in Nat : Voted(v, c, t) /\ Voted(v, d, t) => c = d

\* candidates count votes of voters only
VotersCounted == \A c \in Node : role[c] = "CANDIDATE" => votes[c] \subseteq InitVoters

Majority(Q) == Cardinality(Q) >= Cardinality(InitVoters) \div 2 + 1

\* two majorities share a voter: proved in RaftTheorems
MajoritiesMeet ==
    \A Q, R \in SUBSET InitVoters : Majority(Q) /\ Majority(R) => \E v \in Node : v \in Q /\ v \in R

Backs(v, c, t) == Bound(v, c, t) /\ \A d \in Node : Voted(v, d, t) => d = c

LeadersBacked ==
    \A t \in Nat, c \in Node : <<t, c>> \in elected =>
        \E Q \in SUBSET InitVoters : Majority(Q) /\ \A v \in Q : Backs(v, c, t)

BallotInv == VotesBind /\ OneVote /\ VotersCounted /\ LeadersBacked /\ ElectionSafety

\* n counts a vote of v: its own, one counted before, or an answer of a voter
Supports(n, v) ==
    \/ v = n /\ n \in voters[n] /\ votedFor'[n] = n
    \/ /\ Voted(v, n, currentTerm'[n])
       /\ v \in voters[n] \/ (role[n] = "CANDIDATE" /\ v \in votes[n])

\* n votes for itself or for a candidate that asked it, and whose log is not
\* older than that of n
GivesVote(n) ==
    \/ votedFor'[n] \in {NONE, n}
    \/ votedFor'[n] = votedFor[n] /\ currentTerm'[n] = currentTerm[n]
    \/ \E q \in msgs : /\ q.type = "RequestVote" /\ q.to = n
                       /\ q.from = votedFor'[n] /\ q.term = currentTerm'[n]
                       /\ ~LaterThanOther(n, q.lastTerm, q.lastIndex)

\* n asks for votes as the candidate of its term, with the end of its log
Asks(n, m) == /\ m.from = n /\ m.term = currentTerm'[n] /\ role'[n] = "CANDIDATE"
              /\ m.lastTerm = LastTerm(log[n]) /\ m.lastIndex = Len(log[n])

\* a step of n: only n changes its election state, it keeps its vote, it sends
\* no vote but its own, and the votes it counts were given
BallotStep(n) ==
    /\ \A k \in Node \ {n} : /\ role'[k] = role[k] /\ currentTerm'[k] = currentTerm[k]
                             /\ votedFor'[k] = votedFor[k] /\ votes'[k] = votes[k]
    /\ KeepsVote(n) /\ GivesVote(n)
    /\ \A m \in msgs' : m.type = "RequestVote" => m \in msgs \/ Asks(n, m)
    /\ \A m \in msgs' : m.type = "VoteReply" /\ m.granted =>
          \/ m \in msgs
          \/ m.from = n /\ m.to = votedFor'[n] /\ m.term = currentTerm'[n]
    /\ role'[n] = "CANDIDATE" => \A v \in votes'[n] : Supports(n, v)
    /\ \/ elected' = elected
       \/ /\ elected' = elected \cup {<<currentTerm'[n], n>>}
          /\ \E Q \in SUBSET Node :
                HasQuorum(n, Cardinality(Q)) /\ \A v \in Q : Supports(n, v)

\* A step in which nothing changes keeps the invariant of the ballots.
LEMMA BallotStutters ==
    ASSUME BallotInv, UNCHANGED vars
    PROVE  BallotInv'
<1>1. /\ role' = role /\ currentTerm' = currentTerm /\ votedFor' = votedFor /\ votes' = votes
      /\ msgs' = msgs /\ elected' = elected
    BY Zenon DEF vars, electionVars
<1>2. VotesBind' /\ OneVote' BY <1>1 DEF BallotInv, VotesBind, OneVote, Bound, Voted
<1>3. VotersCounted' /\ ElectionSafety' BY <1>1 DEF BallotInv, VotersCounted, ElectionSafety
<1>4. LeadersBacked'
    <2>1. ASSUME NEW v, NEW c, NEW t, Backs(v, c, t) PROVE Backs(v, c, t)'
        BY <1>1, <2>1 DEF Backs, Bound, Voted
    <2> QED BY Zenon, <1>1, <2>1 DEF BallotInv, LeadersBacked, Majority
<1> QED BY Zenon, <1>2, <1>3, <1>4 DEF BallotInv

\* Every trace of a vote after a step was there before it, or is the vote the
\* stepping replica holds now.
LEMMA TracesOfVotes ==
    ASSUME TypeInv, TypeInv', NEW n \in Node, BallotStep(n),
           NEW v \in Node, NEW c \in Node, NEW t \in Nat, Voted(v, c, t)'
    PROVE  Voted(v, c, t) \/ (v = n /\ c = votedFor'[n] /\ t = currentTerm'[n])
<1>1. CASE votedFor'[v] = c /\ currentTerm'[v] = t BY Zenon, <1>1 DEF BallotStep, Voted
<1>2. CASE \E m \in msgs' : /\ m.type = "VoteReply" /\ m.granted
                            /\ m.from = v /\ m.to = c /\ m.term = t
    BY Zenon, <1>2 DEF BallotStep, Voted
<1>3. CASE role'[c] = "CANDIDATE" /\ v \in votes'[c] /\ currentTerm'[c] = t
    <2>1. CASE c = n BY Zenon, <1>3, <2>1 DEF BallotStep, Supports
    <2>2. CASE c # n BY Zenon, <1>3, <2>2 DEF BallotStep, Voted
    <2> QED BY Zenon, <2>1, <2>2
<1> QED BY Zenon, <1>1, <1>2, <1>3 DEF Voted

-----------------------------------------------------------------------------
(* What a step of replica n does to logs.                                  *)

Requests == {m \in msgs : m.type = "AppendEntries"}

\* there are no reads, and nothing comes before the first entry of a log
RequestsPlain ==
    /\ \A m \in msgs : m.type # "ReadQuorum"
    /\ \A m \in Requests : m.prevIndex = 0 => m.prevTerm = 0

\* n keeps its log, and leads only if it led this term before
KeepsLog(n) ==
    /\ log'[n] = log[n] /\ elected' = elected
    /\ role'[n] = "LEADER" => role[n] = "LEADER" /\ currentTerm'[n] = currentTerm[n]

\* n wins the election of a term
NewLeader(n) ==
    /\ n \in InitVoters
    /\ role[n] # "LEADER" /\ (currentTerm'[n] > currentTerm[n] \/ role[n] = "CANDIDATE")
    /\ elected' = elected \cup {<<currentTerm'[n], n>>}
    /\ \A p \in Node : matchIndex'[n][p] = 0

\* the log lg does not hold the write of e
NewWrite(lg, e) == e.kind = "WRITE" => \A i \in 1..Len(lg) : ~Is(lg[i], "WRITE", e.arg)

\* n, a leader after the step, proposes an entry of its term
Proposes(n, e) ==
    /\ role'[n] = "LEADER" /\ e \in EntrySet /\ e.term = currentTerm'[n] /\ NewWrite(log[n], e)
    /\ log'[n] = Append(log[n], e)
    /\ \/ role[n] = "LEADER" /\ currentTerm'[n] = currentTerm[n] /\ elected' = elected
       \/ NewLeader(n)

\* n follows the sender of request m, which fits its log
Accepts(n, m) ==
    /\ m \in Requests /\ m.to = n /\ m.term = currentTerm'[n] /\ PrevMatches(m)
    /\ role'[n] = "FOLLOWER" /\ elected' = elected

Takes(n, m) == Accepts(n, m) /\ log'[n] = MergeEntries(log[n], m.prevIndex, m.entries)

\* n has saved some of the entries of m before it crashed
TakesPart(n, m) ==
    /\ Accepts(n, m)
    /\ LET r == MergeEntries(log[n], m.prevIndex, m.entries)
       IN  /\ Extends(r, log[n])
           /\ \E len \in Nat : Len(log[n]) <= len /\ len <= Len(r) /\ log'[n] = SubSeq(r, 1, len)

\* m carries a piece of the leader's log, from where the leader believes the
\* receiver to be
Sends(n, m) ==
    /\ role'[n] = "LEADER" /\ m.from = n /\ m.to \in InitVoters \ {n} /\ m.term = currentTerm'[n]
    /\ Segment(m, log'[n]) /\ m.prevIndex + 1 = nextIndex'[n][m.to]
    /\ m.commit <= commitIndex'[n]
    /\ m.entries = <<>> => m.prevIndex = Len(log'[n])

\* m answers the request q of the step
Answers(n, m, q) == /\ m.from = n /\ q.to = n /\ m.to = q.from /\ m.sentTerm = q.term /\ q \in Requests
                    /\ m.prevIndex = q.prevIndex /\ m.term = currentTerm'[n]

Confirms(n, m) == \E q : Answers(n, m, q) /\ Takes(n, q) /\ m.index = q.prevIndex + Len(q.entries)

Refuses(n, m) ==
    /\ log'[n] = log[n] /\ m.index = Len(log[n])
    /\ \E q : /\ Answers(n, m, q)
              /\ \/ m.term > m.sentTerm
                 \/ q.from \notin InitVoters
                 \/ m.term = m.sentTerm /\ ~PrevMatches(q)

SendsTruth(n) ==
    \A m \in msgs' \ msgs :
        /\ m.type # "ReadQuorum"
        /\ m.type = "AppendEntries" => Sends(n, m)
        /\ m.type = "AppendReply" => IF m.success THEN Confirms(n, m) ELSE Refuses(n, m)

\* m answers a request of the leader n
AnswerOf(n, p, m) ==
    m \in msgs /\ m.type = "AppendReply" /\ m.from = p /\ m.to = n /\ m.sentTerm = currentTerm[n]

\* a leader learns what it counts as replicated from an answer
CountsAnswers(n) ==
    role[n] = "LEADER" /\ role'[n] = "LEADER" =>
        \A p \in Node : \/ matchIndex'[n][p] = matchIndex[n][p]
                        \/ \E m : AnswerOf(n, p, m) /\ m.success /\ matchIndex'[n][p] = m.index

\* a refused leader goes back no further than the refusal asks for
GoesBack(n, p, m) ==
    m.term <= m.sentTerm /\ \A f \in 1..Len(log[n]) : f <= m.prevIndex /\ f <= m.index => f <= nextIndex'[n][p]

\* where a leader believes a follower to be
MovesNext(n) ==
    role'[n] = "LEADER" => \A p \in InitVoters \ {n} :
        \/ NewLeader(n) /\ nextIndex'[n][p] = Len(log'[n])
        \/ /\ role[n] = "LEADER"
           /\ \/ nextIndex[n][p] = 0
              \/ nextIndex'[n][p] = nextIndex[n][p]
              \/ nextIndex'[n][p] > 0 /\ \E m : AnswerOf(n, p, m) /\ (m.success \/ GoesBack(n, p, m))

LeaderCommits(n) ==
    LET c == commitIndex'[n]
    IN  /\ role'[n] = "LEADER" /\ c \in 1..Len(log'[n]) /\ log'[n][c].term = currentTerm'[n]
        /\ HasQuorum(n, 1 + Cardinality({p \in voters[n] \ {n} : matchIndex'[n][p] >= c}))

FollowerCommits(n, m) == Takes(n, m) /\ commitIndex'[n] <= m.commit /\ commitIndex'[n] <= Len(log'[n])

\* n applies what it commits
AppliesOwn(n) ==
    LET own == {<<i, log'[n][i], currentTerm'[n]>> : i \in commitIndex[n] + 1..commitIndex'[n]}
    IN  /\ applied \subseteq applied' /\ applied' \subseteq applied \cup own
        /\ commitIndex'[n] \in {0, commitIndex[n]} \/ own \subseteq applied'

Commits(n) ==
    /\ AppliesOwn(n)
    /\ commitIndex'[n] \in {0, commitIndex[n]} \/ LeaderCommits(n) \/ \E m : FollowerCommits(n, m)

\* what a replica has committed it has applied
AppliedInv ==
    \A n \in Node : \A i \in 1..commitIndex[n] : \E x \in applied : x[1] = i /\ x[2] = log[n][i]

LogStep(n) ==
    /\ \A k \in Node \ {n} : /\ role'[k] = role[k] /\ currentTerm'[k] = currentTerm[k] /\ log'[k] = log[k]
                             /\ nextIndex'[k] = nextIndex[k] /\ matchIndex'[k] = matchIndex[k]
                             /\ commitIndex'[k] = commitIndex[k]
    /\ currentTerm'[n] >= currentTerm[n]
    /\ role'[n] = "CANDIDATE" => currentTerm'[n] > currentTerm[n] \/ role[n] = "CANDIDATE"
    /\ KeepsLog(n) \/ (\E e : Proposes(n, e)) \/ \E m : Takes(n, m) \/ TakesPart(n, m)
    /\ SendsTruth(n) /\ CountsAnswers(n) /\ MovesNext(n) /\ Commits(n)

\* What TypeInv says of logs and requests.
LEMMA LogTyped ==
    ASSUME TypeInv
    PROVE  /\ \A n \in Node : log[n] \in Seq(EntrySet) /\ Len(log[n]) \in Nat /\ currentTerm[n] \in Nat
           /\ \A m \in Requests : /\ m.prevIndex \in Nat /\ m.entries \in Seq(EntrySet) /\ Len(m.entries) \in Nat
                                  /\ m.term \in Nat /\ m.from \in Node /\ m.to \in Node
                                  /\ m.prevIndex > 0 => m.prevTerm \in Nat \ {0}
                                  /\ m.commit \in Nat
<1>1. TypeOK /\ \A m \in msgs : MsgOK(m) BY Zenon DEF TypeInv
<1>2. \A n \in Node : log[n] \in Seq(EntrySet) /\ currentTerm[n] \in Nat BY Zenon, <1>1 DEF TypeOK
<1>3. \A m \in Requests : /\ m.prevIndex \in Nat /\ m.entries \in Seq(EntrySet)
                          /\ m.term \in Nat /\ m.from \in Node /\ m.to \in Node
                          /\ m.prevIndex > 0 => m.prevTerm \in Nat \ {0}
                          /\ m.commit \in Nat
    BY Zenon, <1>1 DEF Requests, MsgOK
<1> QED BY Zenon, <1>2, <1>3, LogLength

\* The same after a step.
LEMMA LogTypedAfter ==
    ASSUME TypeInv'
    PROVE  /\ \A n \in Node : log'[n] \in Seq(EntrySet) /\ Len(log'[n]) \in Nat /\ currentTerm'[n] \in Nat
           /\ \A m \in Requests' : m.prevIndex \in Nat /\ m.entries \in Seq(EntrySet) /\ m.commit \in Nat
                                   /\ m.term \in Nat /\ m.from \in Node /\ m.to \in Node
<1>1. TypeOK' /\ \A m \in msgs' : MsgOK(m) BY Zenon DEF TypeInv
<1>2. \A n \in Node : log'[n] \in Seq(EntrySet) /\ currentTerm'[n] \in Nat BY Zenon, <1>1 DEF TypeOK
<1>3. \A m \in Requests' : m.prevIndex \in Nat /\ m.entries \in Seq(EntrySet) /\ m.commit \in Nat
                             /\ m.term \in Nat /\ m.from \in Node /\ m.to \in Node
    BY Zenon, <1>1 DEF Requests, MsgOK
<1> QED BY Zenon, <1>2, <1>3, LogLength

\* The beginning of a log.
LEMMA CutLog ==
    ASSUME NEW lg \in Seq(EntrySet), NEW len \in Nat, len <= Len(lg)
    PROVE  Len(SubSeq(lg, 1, len)) = len /\ \A i \in 1..len : SubSeq(lg, 1, len)[i] = lg[i]
OBVIOUS

\* Pieces of two logs that agree are equal.
LEMMA SamePrefix ==
    ASSUME NEW a \in Seq(EntrySet), NEW b \in Seq(EntrySet), NEW i \in Nat, SameUpTo(a, b, i)
    PROVE  SubSeq(a, 1, i) = SubSeq(b, 1, i)
<1>1. i <= Len(a) /\ i <= Len(b) /\ \A j \in 1..i : a[j] = b[j] BY Zenon DEF SameUpTo
<1> QED BY <1>1

\* Two logs always agree on no entries at all.
LEMMA SameUpToNone ==
    ASSUME NEW a, NEW b, Len(a) \in Nat, Len(b) \in Nat
    PROVE  SameUpTo(a, b, 0)
BY DEF SameUpTo

\* A log that is a piece of another one agrees with it wherever it has entries.
LEMMA PrefixUpTo ==
    ASSUME NEW a, NEW b, Len(a) \in Nat, Len(b) \in Nat, NEW i \in Nat, Prefix(a, b), i <= Len(a)
    PROVE  SameUpTo(a, b, i)
BY DEF Prefix, SameUpTo

\* An index within the shorter of two logs is within both.
LEMMA WithinBoth ==
    ASSUME NEW a \in Nat, NEW b \in Nat, NEW i \in 1..MinOf(a, b)
    PROVE  i \in 1..a /\ i <= b /\ i \in Nat
BY DEF MinOf

\* A term or an index that stays does not go back.
LEMMA SameIsAtLeast == \A a \in Nat : a >= a /\ a <= a
OBVIOUS

\* The shape of an accepted request.
LEMMA CopiedShape ==
    ASSUME NatWellOrdered, TypeInv, RequestsPlain, NEW m \in Requests, PrevMatches(m)
    PROVE  /\ m.to \in Node /\ log[m.to] \in Seq(EntrySet)
           /\ m.prevIndex \in Nat /\ m.prevIndex <= Len(log[m.to]) /\ m.entries \in Seq(EntrySet)
           /\ TermAt(log[m.to], m.prevIndex) = m.prevTerm
           /\ \E c \in Nat : Merged(log[m.to], m.prevIndex, m.entries,
                                    MergeEntries(log[m.to], m.prevIndex, m.entries), c)
<1>1. /\ m.to \in Node /\ log[m.to] \in Seq(EntrySet) /\ Len(log[m.to]) \in Nat
      /\ m.prevIndex \in Nat /\ m.entries \in Seq(EntrySet)
      /\ m.prevIndex > 0 => m.prevTerm \in Nat \ {0}
      /\ m.prevIndex = 0 => m.prevTerm = 0
    BY Zenon, LogTyped DEF RequestsPlain
<1>2. TermAt(log[m.to], m.prevIndex) = m.prevTerm BY <1>1 DEF PrevMatches, TermAt
<1>3. m.prevIndex <= Len(log[m.to]) BY <1>1, <1>2 DEF TermAt
<1> QED BY Zenon, <1>1, <1>2, <1>3, MergeShape
=============================================================================
