----------------------------- MODULE RaftCommit -----------------------------
(***************************************************************************)
(* Commitment in a group whose members do not change: what a majority has  *)
(* stored in the term of its leader stays in the log of every later        *)
(* leader, so no replica applies anything else in its place.               *)
(*                                                                         *)
(* Beside the logs L of the leaders the argument uses a second history:    *)
(* A[q][t] is how far the log of q followed the leader of term t while q   *)
(* was in that term.  An index is Stored in a term once a majority has     *)
(* reached it, and Blocked once a majority has left the term short of it;  *)
(* it cannot be both.  The heart of CommitInv is CSkips: a leader of a     *)
(* later term has the entry, or the entry is blocked for good.  CVotes     *)
(* carries that from the voters to the candidate they vote for, and the    *)
(* comparison of logs in later_than_other makes it true there.             *)
(***************************************************************************)
EXTENDS RaftHistory

-----------------------------------------------------------------------------
(* The inductive invariant.                                                *)

AckType(A) == A \in [Node -> [Nat -> Nat]]

\* lg is a piece of the log ld of the leader of term t, up to an entry of t
Joined(lg, ld, t) == Prefix(lg, ld) /\ lg # <<>> /\ lg[Len(lg)].term = t

\* lg has an entry of term t at j or later
Reaches(lg, j, t) == \E b \in 1..Len(lg) : j <= b /\ lg[b].term = t

Blocked(A, j, t) ==
    \E Q \in SUBSET InitVoters : Majority(Q) /\ \A q \in Q : t < currentTerm[q] /\ A[q][t] < j

Stored(A, j, t) == \E Q \in SUBSET InitVoters : Majority(Q) /\ \A q \in Q : j <= A[q][t]

\* p followed the leader of term t up to i, if i is an entry of that term
Counted(L, A, t, p, i) == L[t][i].term = t => i <= A[p][t]

AckLogs(L, A) ==
    \A q \in Node, t \in Nat : A[q][t] # 0 =>
        A[q][t] <= Len(L[t]) /\ L[t][A[q][t]].term = t /\ t <= currentTerm[q]

AckMatch(L, A) ==
    \A n \in Node : role[n] = "LEADER" =>
        /\ Len(log[n]) <= A[n][currentTerm[n]]
        /\ \A p \in Node : matchIndex[n][p] # 0 => Counted(L, A, currentTerm[n], p, matchIndex[n][p])

AckReply(L, A) ==
    \A m \in msgs : m.type = "AppendReply" /\ m.success /\ m.index # 0 =>
        Counted(L, A, m.sentTerm, m.from, m.index)

\* a leader of a later term has what it cannot know to be blocked
CSkips(L, A) ==
    \A T, t, j \in Nat : L[T] # <<>> /\ 0 < t /\ t < T /\ 0 < j => Reaches(L[T], j, t) \/ Blocked(A, j, t)

\* a replica keeps what it stored
CHolds(A) ==
    \A q \in Node, t, j \in Nat : 0 < j /\ j <= A[q][t] => Reaches(log[q], j, t) \/ Blocked(A, j, t)

\* a candidate has what its voters stored
CVotes(A) ==
    \A v, c \in Node, T \in Nat : role[c] = "CANDIDATE" /\ currentTerm[c] = T /\ Voted(v, c, T) =>
        \A t, j \in Nat : 0 < t /\ t < T /\ 0 < j /\ j <= A[v][t] => Reaches(log[c], j, t) \/ Blocked(A, j, t)

CPast == \A v, c \in Node, t \in Nat : Voted(v, c, t) => t <= currentTerm[c]

CAsks ==
    \A m \in msgs : m.type = "RequestVote" =>
        /\ m.term <= currentTerm[m.from]
        /\ role[m.from] = "CANDIDATE" /\ currentTerm[m.from] = m.term =>
              m.lastTerm = LastTerm(log[m.from]) /\ m.lastIndex = Len(log[m.from])

\* c entries of lg are committed by term T
Safe(L, A, lg, c, T) ==
    \E t, j \in Nat : 0 < t /\ t <= T /\ c <= j /\ Stored(A, j, t) /\ SameUpTo(lg, L[t], c)

CIndex(L, A) == \A n \in Node : commitIndex[n] # 0 => Safe(L, A, log[n], commitIndex[n], currentTerm[n])

CRequests(A) ==
    \A m \in Requests : m.commit # 0 =>
        \E t, j \in Nat : 0 < t /\ t <= m.term /\ m.commit <= j /\ Stored(A, j, t)

\* entry x, applied in term x[3], is committed
CApplied(L, A) ==
    \A x \in applied : x[3] \in Nat /\ \E t, j \in Nat :
        /\ 0 < t /\ t <= x[3] /\ x[1] <= j /\ Stored(A, j, t)
        /\ x[1] \in 1..Len(L[t]) /\ L[t][x[1]] = x[2]

CommitInv(L, A) ==
    /\ AckType(A) /\ AckLogs(L, A) /\ AckMatch(L, A) /\ AckReply(L, A)
    /\ CSkips(L, A) /\ CHolds(A) /\ CVotes(A) /\ CPast /\ CAsks
    /\ CIndex(L, A) /\ CRequests(A) /\ CApplied(L, A)

\* the history after a step of n: it may have followed the leader further
AckStep(n, M, A, B) ==
    LET T == currentTerm'[n]
    IN  B = IF Joined(log'[n], M[T], T)
            THEN [A EXCEPT ![n] = [A[n] EXCEPT ![T] = MaxOf(A[n][T], Len(log'[n]))]]
            ELSE A

-----------------------------------------------------------------------------
(* What the histories tell.                                                *)

\* What the history of followers holds.
LEMMA AckTyped ==
    ASSUME NEW A, AckType(A)
    PROVE  \A q \in Node, t \in Nat : A[q][t] \in Nat
BY Zenon DEF AckType

\* What a majority has reached no majority has left short of it.
LEMMA NotBlocked ==
    ASSUME MajoritiesMeet, NEW A, AckType(A), NEW j \in Nat, NEW t \in Nat, Stored(A, j, t), Blocked(A, j, t)
    PROVE  FALSE
<1>1. PICK Q \in SUBSET InitVoters : Majority(Q) /\ \A q \in Q : j <= A[q][t] BY Zenon DEF Stored
<1>2. PICK R \in SUBSET InitVoters : Majority(R) /\ \A q \in R : t < currentTerm[q] /\ A[q][t] < j BY Zenon DEF Blocked
<1>3. PICK v \in Node : v \in Q /\ v \in R BY Zenon, <1>1, <1>2 DEF MajoritiesMeet
<1>4. A[v][t] \in Nat /\ j <= A[v][t] /\ A[v][t] < j BY Zenon, <1>1, <1>2, <1>3, AckTyped
<1> QED BY <1>4

\* The log of a leader agrees with that of an earlier one as far as the
\* entries of the earlier one are committed.
LEMMA LaterLeader ==
    ASSUME MajoritiesMeet, NEW L, HistInv(L), NEW A, CommitInv(L, A), NEW T \in Nat, L[T] # <<>>,
           NEW t \in Nat, 0 < t, t < T, NEW j \in Nat, Stored(A, j, t)
    PROVE  \A i \in Nat : i <= j => SameUpTo(L[T], L[t], i)
<1>1. HistType(L) /\ HistLogs(L) /\ AckType(A) /\ CSkips(L, A) BY Zenon DEF HistInv, CommitInv
<1>2. PICK a \in Seq(EntrySet) : a = L[T] BY Zenon, <1>1, HistTyped
<1>3. PICK b \in Seq(EntrySet) : b = L[t] BY Zenon, <1>1, HistTyped
<1>4. Len(a) \in Nat /\ Len(b) \in Nat BY Zenon, LogLength
<1> TAKE i \in Nat
<1> HAVE i <= j
<1>5. CASE i = 0 BY <1>2, <1>3, <1>4, <1>5 DEF SameUpTo
<1>6. CASE i # 0
    <2>1. 0 < j BY <1>6
    <2>2. Reaches(a, j, t) BY Zenon, <1>1, <1>2, <2>1, NotBlocked DEF CSkips
    <2>3. PICK k \in 1..Len(a) : j <= k /\ a[k].term = t BY Zenon, <2>2 DEF Reaches
    <2>4. Made(L, a) BY Zenon, <1>1, <1>2 DEF HistLogs
    <2>5. SameUpTo(a, b, k) BY Zenon, <1>3, <2>3, <2>4 DEF Made
    <2>6. SameUpTo(a, b, i) BY <1>4, <2>3, <2>5 DEF SameUpTo
    <2> QED BY Zenon, <1>2, <1>3, <2>6
<1> QED BY Zenon, <1>5, <1>6

\* An applied entry is in the log of every later leader.
LEMMA AppliedLater ==
    ASSUME MajoritiesMeet, NEW L, HistInv(L), NEW A, CommitInv(L, A), NEW T \in Nat, L[T] # <<>>,
           NEW t \in Nat, 0 < t, t <= T, NEW j \in Nat, Stored(A, j, t), NEW i \in 1..Len(L[t]), i <= j
    PROVE  i <= Len(L[T]) /\ L[T][i] = L[t][i]
<1>1. HistType(L) BY Zenon DEF HistInv
<1>2. Len(L[t]) \in Nat BY Zenon, <1>1, HistTyped
<1>3. i \in Nat /\ i \in 1..i BY <1>2
<1>4. CASE t = T BY <1>2, <1>4
<1>5. CASE t < T
    <2>1. SameUpTo(L[T], L[t], i) BY Zenon, <1>3, <1>5, LaterLeader
    <2> QED BY Zenon, <1>3, <2>1 DEF SameUpTo
<1> QED BY <1>4, <1>5

-----------------------------------------------------------------------------
(* How far the followers are.                                              *)

\* what AckStep does to the history of followers
AckGrows(n, M, A, B) ==
    /\ AckType(B)
    /\ \A q \in Node, t \in Nat :
          /\ A[q][t] <= B[q][t]
          /\ B[q][t] # A[q][t] => /\ q = n /\ t = currentTerm'[n] /\ B[q][t] = Len(log'[n])
                                  /\ Joined(log'[n], M[t], t)
          /\ q = n /\ t = currentTerm'[n] /\ Joined(log'[n], M[t], t) => Len(log'[n]) <= B[q][t]

\* what a step has to do with both histories, in one place
CommitStep(n, L, M, A, B) ==
    /\ Static /\ BallotInv /\ BallotStep(n)
    /\ Step(n, L, M) /\ HistInv(M)' /\ CommitInv(L, A) /\ AckGrows(n, M, A, B)

\* The history of followers grows as AckStep says.
LEMMA AckStepGrows ==
    ASSUME TypeInv', NEW n \in Node, NEW M, NEW A, AckType(A), NEW B, AckStep(n, M, A, B)
    PROVE  AckGrows(n, M, A, B)
<1>1. PICK T \in Nat : T = currentTerm'[n] BY Zenon, LogTypedAfter
<1>2. PICK len \in Nat : len = Len(log'[n]) BY Zenon, LogTypedAfter
<1>3. CASE ~Joined(log'[n], M[T], T)
    <2>1. B = A BY Zenon, <1>1, <1>3 DEF AckStep
    <2> QED BY <1>1, <1>3, <2>1, AckTyped DEF AckGrows
<1>4. CASE Joined(log'[n], M[T], T)
    <2>1. A[n][T] \in Nat BY Zenon, AckTyped
    <2>2. PICK x \in Nat : x = MaxOf(A[n][T], len) BY Zenon, <2>1 DEF MaxOf
    <2>3. B = [A EXCEPT ![n] = [A[n] EXCEPT ![T] = x]] BY Zenon, <1>1, <1>2, <1>4, <2>2 DEF AckStep
    <2>4. A[n][T] <= x /\ len <= x /\ (x # A[n][T] => x = len) BY <2>1, <2>2 DEF MaxOf
    <2>5. AckType(B) BY Zenon, <2>3 DEF AckType
    <2>6. B[n][T] = x /\ \A q \in Node, t \in Nat : q # n \/ t # T => B[q][t] = A[q][t] BY Zenon, <2>3 DEF AckType
    <2> QED BY <1>1, <1>2, <1>4, <2>4, <2>5, <2>6, AckTyped DEF AckGrows
<1> QED BY Zenon, <1>3, <1>4

\* What a majority has reached it still has.
LEMMA CommittedKept ==
    ASSUME NEW n, NEW L, NEW M, NEW A, NEW B, CommitStep(n, L, M, A, B),
           NEW j \in Nat, NEW t \in Nat, Stored(A, j, t)
    PROVE  Stored(B, j, t)
<1>1. PICK Q \in SUBSET InitVoters : Majority(Q) /\ \A q \in Q : j <= A[q][t] BY Zenon DEF Stored
<1>2. InitVoters \subseteq Node BY Zenon, ProgressTyped DEF CommitStep, Step
<1>3. \A q \in Q : A[q][t] \in Nat /\ B[q][t] \in Nat /\ A[q][t] <= B[q][t]
    BY Zenon, <1>2, AckTyped DEF CommitStep, CommitInv, AckGrows
<1>4. \A q \in Q : j <= B[q][t] BY <1>1, <1>3
<1> QED BY Zenon, <1>1, <1>4 DEF Stored

\* Terms only grow.
LEMMA TermsGrow ==
    ASSUME NEW n \in Node, NEW L, NEW M, NEW A, NEW B, CommitStep(n, L, M, A, B)
    PROVE  \A q \in Node : currentTerm[q] \in Nat /\ currentTerm'[q] \in Nat /\ currentTerm[q] <= currentTerm'[q]
<1>1. TypeInv /\ TypeInv' /\ LogStep(n) BY Zenon DEF CommitStep, Step
<1> QED BY Zenon, <1>1, TermsKept

\* A majority that has left a term does not come back to it.
LEMMA BlockedKept ==
    ASSUME NEW n \in Node, NEW L, NEW M, NEW A, NEW B, CommitStep(n, L, M, A, B),
           NEW j \in Nat, NEW t \in Nat, Blocked(A, j, t)
    PROVE  Blocked(B, j, t)'
<1>1. PICK Q \in SUBSET InitVoters : Majority(Q) /\ \A q \in Q : t < currentTerm[q] /\ A[q][t] < j BY Zenon DEF Blocked
<1>2. InitVoters \subseteq Node BY Zenon, ProgressTyped DEF CommitStep, Step
<1>3. \A q \in Q : t < currentTerm'[q] BY <1>1, <1>2, TermsGrow
<1>4. \A q \in Q : B[q][t] = A[q][t] BY <1>2, <1>3 DEF CommitStep, AckGrows
<1> QED BY Zenon, <1>1, <1>3, <1>4 DEF Blocked

\* AckLogs is kept.
LEMMA AckLogsKept ==
    ASSUME NEW n \in Node, NEW L, NEW M, NEW A, NEW B, CommitStep(n, L, M, A, B)
    PROVE  AckLogs(M, B)'
<1> SUFFICES ASSUME NEW q \in Node, NEW t \in Nat, B[q][t] # 0
             PROVE  B[q][t] <= Len(M[t]) /\ M[t][B[q][t]].term = t /\ t <= currentTerm'[q]
    BY Zenon DEF AckLogs
<1>1. HistType(L) /\ HistType(M) /\ Prefix(L[t], M[t]) BY Zenon DEF CommitStep, Step, Grows, HistInv
<1>2. PICK a \in Seq(EntrySet) : a = L[t] BY Zenon, <1>1, HistTyped
<1>3. PICK b \in Seq(EntrySet) : b = M[t] BY Zenon, <1>1, HistTyped
<1>4. Len(a) \in Nat /\ Len(b) \in Nat BY Zenon, LogLength
<1>5. PICK x \in Nat : x = B[q][t] BY Zenon, AckTyped DEF CommitStep, AckGrows
<1>6. CASE B[q][t] = A[q][t]
    <2>1. x <= Len(a) /\ a[x].term = t /\ t <= currentTerm[q]
        BY <1>2, <1>5, <1>6 DEF CommitStep, CommitInv, AckLogs
    <2>2. t <= currentTerm'[q] BY <2>1, TermsGrow
    <2>3. x \in 1..Len(a) BY <1>4, <1>5, <2>1
    <2>4. x <= Len(b) /\ a[x] = b[x] BY <1>1, <1>2, <1>3, <1>4, <2>3 DEF Prefix, SameUpTo
    <2> QED BY Zenon, <1>3, <1>5, <2>1, <2>2, <2>4
<1>7. CASE B[q][t] # A[q][t]
    <2>1. q = n /\ t = currentTerm'[n] /\ B[q][t] = Len(log'[n]) /\ Joined(log'[n], M[t], t)
        BY Zenon, <1>7 DEF CommitStep, AckGrows
    <2>2. PICK lg \in Seq(EntrySet) : lg = log'[n] BY Zenon, LogTypedAfter DEF CommitStep, Step
    <2>3. x = Len(lg) /\ x \in 1..x /\ Prefix(lg, b) /\ lg[x].term = t BY <1>3, <1>5, <2>1, <2>2 DEF Joined
    <2>4. x <= Len(b) /\ lg[x] = b[x] BY Zenon, <2>3 DEF Prefix, SameUpTo
    <2> QED BY <1>3, <1>5, <2>1, <2>3, <2>4
<1> QED BY Zenon, <1>6, <1>7

\* What a leader counts on stays true when both histories grow.
LEMMA CountedKept ==
    ASSUME NEW n, NEW L, NEW M, NEW A, NEW B, CommitStep(n, L, M, A, B),
           NEW t \in Nat, NEW p \in Node, NEW i \in 1..Len(L[t]), Counted(L, A, t, p, i)
    PROVE  Counted(M, B, t, p, i)
<1>1. HistType(L) /\ Prefix(L[t], M[t]) BY Zenon DEF CommitStep, Step, Grows, HistInv
<1>2. Len(L[t]) \in Nat BY Zenon, <1>1, HistTyped
<1>3. L[t][i] = M[t][i] BY Zenon, <1>1, <1>2 DEF Prefix, SameUpTo
<1>4. A[p][t] \in Nat /\ B[p][t] \in Nat /\ A[p][t] <= B[p][t]
    BY Zenon, AckTyped DEF CommitStep, CommitInv, AckGrows
<1> QED BY <1>2, <1>3, <1>4 DEF Counted

\* handle_append_entries: a follower that confirms an entry of the leader's
\* term has followed the leader up to it.
LEMMA ConfirmedCounted ==
    ASSUME NatWellOrdered, NEW n \in Node, NEW L, NEW M, NEW A, NEW B, CommitStep(n, L, M, A, B),
           NEW m, Confirms(n, m), m.index # 0
    PROVE  Counted(M, B, m.sentTerm, n, m.index)
<1>1. PICK q : Answers(n, m, q) /\ Takes(n, q) /\ m.index = q.prevIndex + Len(q.entries) BY Zenon DEF Confirms
<1>2. PICK T \in Nat : T = currentTerm'[n] BY Zenon, LogTypedAfter DEF CommitStep, Step
<1>3. /\ q \in Requests /\ q.term = T /\ L[T] # <<>> /\ Prefix(log'[n], L[T])
      /\ q.prevIndex + Len(q.entries) <= Len(log'[n])
    BY <1>1, <1>2, Copy DEF CommitStep, Step
<1>4. M[T] = L[T] BY Zenon, <1>1, <1>2 DEF CommitStep, Step, Grows, Takes, Accepts
<1>5. PICK i \in Nat : i = m.index BY <1>1, <1>3, LogTyped DEF CommitStep, Step
<1>6. PICK lg \in Seq(EntrySet) : lg = log'[n] BY Zenon, LogTypedAfter DEF CommitStep, Step
<1>7. HistType(L) /\ HistLogs(L) BY Zenon DEF CommitStep, Step, HistInv
<1>8. PICK ld \in Seq(EntrySet) : ld = L[T] BY Zenon, <1>7, HistTyped
<1>9. PICK len \in Nat : len = Len(lg) BY Zenon, LogLength
<1>10. i # 0 /\ i <= len /\ Prefix(lg, ld) BY Zenon, <1>1, <1>3, <1>5, <1>6, <1>8, <1>9
<1>11. Len(ld) \in Nat /\ len <= Len(ld) /\ \A k \in 1..len : lg[k] = ld[k]
    BY Zenon, <1>9, <1>10, LogLength DEF Prefix, SameUpTo
<1> SUFFICES ASSUME ld[i].term = T PROVE i <= B[n][T]
    BY Zenon, <1>1, <1>3, <1>4, <1>5, <1>8 DEF Counted, Answers
<1>12. i \in 1..Len(ld) /\ len \in 1..Len(ld) /\ len \in 1..len BY <1>10, <1>11
<1>13. T <= ld[len].term BY Zenon, <1>3, <1>7, <1>8, <1>10, <1>12 DEF HistLogs, Ordered
<1>14. ld[len].term <= T BY Zenon, <1>7, <1>8, <1>12, LeaderTerms
<1>15. ld[len].term \in Nat BY Zenon, <1>12, EntryTerms
<1>16. lg[len].term = T BY <1>11, <1>12, <1>13, <1>14, <1>15
<1>17. Joined(log'[n], M[T], T) BY <1>4, <1>6, <1>8, <1>9, <1>10, <1>16 DEF Joined
<1>18. len <= B[n][T] /\ B[n][T] \in Nat BY Zenon, <1>2, <1>6, <1>9, <1>17, AckTyped DEF CommitStep, AckGrows
<1> QED BY <1>10, <1>18

\* AckReply is kept.
LEMMA AckReplyKept ==
    ASSUME NatWellOrdered, NEW n \in Node, NEW L, NEW M, NEW A, NEW B, CommitStep(n, L, M, A, B)
    PROVE  AckReply(M, B)'
<1> SUFFICES ASSUME NEW m \in msgs', m.type = "AppendReply", m.success, m.index # 0
             PROVE  Counted(M, B, m.sentTerm, m.from, m.index)
    BY Zenon DEF AckReply
<1>1. CASE m \in msgs
    <2>1. m.sentTerm \in Nat /\ m.from \in Node /\ m.index \in Nat BY Zenon, <1>1, ProgressTyped DEF CommitStep, Step
    <2>2. Told(L, m) BY Zenon, <1>1 DEF CommitStep, Step, HistInv, HistAnswers
    <2>3. m.index <= Len(L[m.sentTerm]) BY Zenon, <2>2 DEF Told, Acked
    <2>4. Len(L[m.sentTerm]) \in Nat BY Zenon, <2>1, HistTyped DEF CommitStep, Step, HistInv
    <2>5. m.index \in 1..Len(L[m.sentTerm]) BY <2>1, <2>3, <2>4
    <2>6. Counted(L, A, m.sentTerm, m.from, m.index) BY Zenon, <1>1 DEF CommitStep, CommitInv, AckReply
    <2> QED BY Zenon, <2>1, <2>5, <2>6, CountedKept
<1>2. CASE m \notin msgs
    <2>1. Confirms(n, m) BY Zenon, <1>2 DEF CommitStep, Step, LogStep, SendsTruth
    <2>2. m.from = n BY Zenon, <2>1 DEF Confirms, Answers
    <2> QED BY Zenon, <2>1, <2>2, ConfirmedCounted
<1> QED BY Zenon, <1>1, <1>2

\* handle_append_ok: what leader n counts after a step.
LEMMA OwnCounted ==
    ASSUME NEW n \in Node, NEW L, NEW M, NEW A, NEW B, CommitStep(n, L, M, A, B), role'[n] = "LEADER",
           NEW p \in Node, NEW i, i = matchIndex'[n][p], i # 0, NEW t, t = currentTerm'[n]
    PROVE  Counted(M, B, t, p, i)
<1>1. LogStep(n) /\ TypeInv /\ HistInv(L) /\ CommitInv(L, A) BY Zenon DEF CommitStep, Step
<1>2. role[n] = "LEADER"
    BY Zenon, <1>1 DEF LogStep, KeepsLog, Proposes, NewLeader, Takes, TakesPart, Accepts
<1>3. t = currentTerm[n] BY Zenon, <1>1, <1>2, SameTerm
<1>4. t \in Nat BY Zenon, <1>1, <1>3, LogTyped
<1>5. i \in Nat /\ i <= Len(L[t]) /\ Counted(L, A, t, p, i)
    <2>1. CASE i = matchIndex[n][p]
        <3>1. i \in Nat BY Zenon, <1>1, <2>1, ProgressTyped
        <3>2. Acked(L, t, p, i) BY Zenon, <1>1, <1>2, <1>3, <2>1 DEF HistInv, HistMatch
        <3>3. Counted(L, A, t, p, i) BY Zenon, <1>1, <1>2, <1>3, <2>1 DEF CommitInv, AckMatch
        <3> QED BY Zenon, <3>1, <3>2, <3>3 DEF Acked
    <2>2. CASE \E m : AnswerOf(n, p, m) /\ m.success /\ i = m.index
        <3>1. PICK m : AnswerOf(n, p, m) /\ m.success /\ i = m.index BY Zenon, <2>2
        <3>2. m \in msgs /\ m.type = "AppendReply" /\ m.from = p /\ m.sentTerm = t BY Zenon, <1>3, <3>1 DEF AnswerOf
        <3>3. i \in Nat BY Zenon, <1>1, <3>1, <3>2, ProgressTyped
        <3>4. Told(L, m) BY Zenon, <1>1, <3>2 DEF HistInv, HistAnswers
        <3>5. Counted(L, A, t, p, i) BY Zenon, <1>1, <3>1, <3>2 DEF CommitInv, AckReply
        <3> QED BY Zenon, <3>1, <3>2, <3>3, <3>4, <3>5 DEF Told, Acked
    <2> QED BY Zenon, <1>1, <1>2, <2>1, <2>2 DEF LogStep, CountsAnswers
<1>6. Len(L[t]) \in Nat BY Zenon, <1>1, <1>4, HistTyped DEF HistInv
<1>7. i \in 1..Len(L[t]) BY <1>5, <1>6
<1> QED BY Zenon, <1>4, <1>5, <1>7, CountedKept

\* AckMatch is kept.
LEMMA AckMatchKept ==
    ASSUME NEW n \in Node, NEW L, NEW M, NEW A, NEW B, CommitStep(n, L, M, A, B)
    PROVE  AckMatch(M, B)'
<1> SUFFICES ASSUME NEW k \in Node, role'[k] = "LEADER"
             PROVE  /\ Len(log'[k]) <= B[k][currentTerm'[k]]
                    /\ \A p \in Node : matchIndex'[k][p] # 0 =>
                          Counted(M, B, currentTerm'[k], p, matchIndex'[k][p])
    BY Zenon DEF AckMatch
<1>1. LogStep(n) /\ TypeInv /\ TypeInv' /\ HistInv(L) /\ CommitInv(L, A) BY Zenon DEF CommitStep, Step
<1>2. CASE k = n
    <2>1. PICK T \in Nat : T = currentTerm'[n] BY Zenon, <1>1, LogTypedAfter
    <2>2. M[T] = log'[n] /\ <<T, n>> \in elected' BY Zenon, <1>2, <2>1 DEF CommitStep, Step, Grows
    <2>3. M[T] # <<>> /\ M[T][Len(M[T])].term = T
        BY Zenon, <2>2 DEF CommitStep, HistInv, HistElected, HistLogs
    <2>4. PICK lg \in Seq(EntrySet) : lg = log'[n] BY Zenon, <1>1, LogTypedAfter
    <2>5. Prefix(lg, lg) BY LogLength DEF Prefix, SameUpTo
    <2>6. Joined(log'[n], M[T], T) BY Zenon, <2>2, <2>3, <2>4, <2>5 DEF Joined
    <2>7. Len(log'[n]) <= B[n][T] BY Zenon, <2>1, <2>6 DEF CommitStep, AckGrows
    <2> QED BY Zenon, <1>2, <2>1, <2>7, OwnCounted
<1>3. CASE k # n
    <2>1. /\ role[k] = "LEADER" /\ currentTerm'[k] = currentTerm[k] /\ log'[k] = log[k]
          /\ matchIndex'[k] = matchIndex[k]
        BY Zenon, <1>1, <1>3 DEF LogStep
    <2>2. PICK t \in Nat : t = currentTerm[k] BY Zenon, <1>1, LogTyped
    <2>3. PICK a \in Nat : a = A[k][t] BY Zenon, <1>1, AckTyped DEF CommitInv
    <2>4. PICK b \in Nat : b = B[k][t] BY Zenon, AckTyped DEF CommitStep, AckGrows
    <2>5. a <= b BY Zenon, <2>3, <2>4 DEF CommitStep, AckGrows
    <2>6. Len(log[k]) <= a /\ Len(log[k]) \in Nat BY Zenon, <1>1, <2>1, <2>2, <2>3, LogTyped DEF CommitInv, AckMatch
    <2>7. ASSUME NEW p \in Node, matchIndex[k][p] # 0 PROVE Counted(M, B, t, p, matchIndex[k][p])
        <3>1. PICK i \in Nat : i = matchIndex[k][p] BY Zenon, <1>1, ProgressTyped
        <3>2. Acked(L, t, p, i) BY Zenon, <1>1, <2>1, <2>2, <2>7, <3>1 DEF HistInv, HistMatch
        <3>3. Len(L[t]) \in Nat BY Zenon, <1>1, HistTyped DEF HistInv
        <3>4. i \in 1..Len(L[t]) BY <2>7, <3>1, <3>2, <3>3 DEF Acked
        <3>5. Counted(L, A, t, p, i) BY Zenon, <1>1, <2>1, <2>2, <2>7, <3>1 DEF CommitInv, AckMatch
        <3> QED BY Zenon, <3>1, <3>4, <3>5, CountedKept
    <2> QED BY <2>1, <2>2, <2>4, <2>5, <2>6, <2>7
<1> QED BY Zenon, <1>2, <1>3

-----------------------------------------------------------------------------
(* What replicas and candidates hold.                                      *)

\* Appending keeps what a log reaches.
LEMMA ReachesGrows ==
    ASSUME NEW a \in Seq(EntrySet), NEW b \in Seq(EntrySet), Prefix(a, b), NEW j \in Nat, NEW t, Reaches(a, j, t)
    PROVE  Reaches(b, j, t)
<1>1. PICK k \in 1..Len(a) : j <= k /\ a[k].term = t BY Zenon DEF Reaches
<1>2. Len(a) \in Nat /\ Len(b) \in Nat BY Zenon, LogLength
<1>3. k \in 1..Len(b) /\ b[k] = a[k] BY <1>2 DEF Prefix, SameUpTo
<1> QED BY Zenon, <1>1, <1>3 DEF Reaches

\* Two logs that reach an entry of one term share one.
LEMMA ReachTogether ==
    ASSUME NEW L, HistType(L), NEW a \in Seq(EntrySet), NEW b \in Seq(EntrySet), Made(L, a), Made(L, b),
           NEW j \in Nat, NEW t \in Nat, Reaches(a, j, t), Reaches(b, j, t)
    PROVE  \E k \in 1..Len(a) : j <= k /\ a[k].term = t /\ SameUpTo(a, b, k)
<1>1. PICK x \in 1..Len(a) : j <= x /\ a[x].term = t BY Zenon DEF Reaches
<1>2. PICK y \in 1..Len(b) : j <= y /\ b[y].term = t BY Zenon DEF Reaches
<1>3. PICK c \in Seq(EntrySet) : c = L[t] BY Zenon, HistTyped
<1>4. Len(a) \in Nat /\ Len(b) \in Nat /\ Len(c) \in Nat BY Zenon, LogLength
<1>5. SameUpTo(a, c, x) /\ SameUpTo(b, c, y) BY Zenon, <1>1, <1>2, <1>3 DEF Made
<1>6. PICK k \in Nat : k = IF x <= y THEN x ELSE y BY <1>4
<1>7. k \in 1..Len(a) /\ k \in 1..Len(b) /\ k \in 1..x /\ k \in 1..y /\ j <= k BY <1>1, <1>2, <1>4, <1>5, <1>6 DEF SameUpTo
<1>8. \A i \in 1..k : a[i] = b[i] BY <1>4, <1>5, <1>7 DEF SameUpTo
<1>9. SameUpTo(a, b, k) BY <1>4, <1>7, <1>8 DEF SameUpTo
<1>10. k \in 1..k BY <1>7
<1>11. a[k].term = t BY Zenon, <1>1, <1>2, <1>6, <1>8, <1>10
<1> QED BY Zenon, <1>7, <1>9, <1>11

\* append_entries_from_leader: a follower that takes entries keeps what it
\* stored in earlier terms, or it is blocked.
LEMMA TakenHolds ==
    ASSUME NatWellOrdered, NEW n \in Node, NEW L, NEW M, NEW A, NEW B, CommitStep(n, L, M, A, B),
           NEW m, Takes(n, m) \/ TakesPart(n, m), NEW t \in Nat, NEW j \in Nat, 0 < j, Reaches(log[n], j, t)
    PROVE  Reaches(log'[n], j, t) \/ Blocked(A, j, t)
<1>1. LogStep(n) /\ TypeInv /\ TypeInv' /\ HistInv(L) /\ CommitInv(L, A) BY Zenon DEF CommitStep, Step
<1>2. HistType(L) /\ HistLogs(L) /\ HistMade(L) BY Zenon, <1>1 DEF HistInv
<1>3. PICK T \in Nat : T = m.term BY Zenon, <1>1, Copy
<1>4. /\ T = currentTerm'[n] /\ L[T] # <<>>
      /\ \A i \in Nat : SameUpTo(log[n], L[T], i) => SameUpTo(log'[n], log[n], i)
    BY <1>1, <1>3, Copy
<1>5. PICK lg \in Seq(EntrySet) : lg = log[n] BY Zenon, <1>1, LogTyped
<1>6. PICK lh \in Seq(EntrySet) : lh = log'[n] BY Zenon, <1>1, LogTypedAfter
<1>7. PICK ld \in Seq(EntrySet) : ld = L[T] BY Zenon, <1>2, HistTyped
<1>8. Made(L, lg) /\ Made(L, ld) BY Zenon, <1>2, <1>4, <1>5, <1>7 DEF HistMade, HistLogs
<1>9. PICK x \in 1..Len(lg) : j <= x /\ lg[x].term = t BY Zenon, <1>5 DEF Reaches
<1>10. t <= currentTerm[n] BY Zenon, <1>2, <1>5, <1>9 DEF HistMade
<1>11. t # 0 BY Zenon, <1>9, EntryTerms
<1>12. t <= T BY <1>4, <1>10, TermsGrow
<1>13. Len(lg) \in Nat /\ Len(lh) \in Nat BY Zenon, LogLength
<1>14. ASSUME NEW k \in 1..Len(lg), j <= k, lg[k].term = t, SameUpTo(lg, ld, k) PROVE Reaches(lh, j, t)
    <2>1. k \in Nat /\ k \in 1..k BY <1>13
    <2>2. SameUpTo(lh, lg, k) BY Zenon, <1>4, <1>5, <1>6, <1>7, <1>14, <2>1
    <2>3. k \in 1..Len(lh) /\ lh[k] = lg[k] BY <1>13, <2>1, <2>2 DEF SameUpTo
    <2> QED BY Zenon, <1>14, <2>3 DEF Reaches
<1>15. CASE t = T
    <2>1. SameUpTo(lg, ld, x) BY Zenon, <1>7, <1>8, <1>9, <1>15 DEF Made
    <2> QED BY Zenon, <1>6, <1>9, <1>14, <2>1
<1>16. CASE t < T
    <2>0. CSkips(L, A) /\ L[T] # <<>> /\ 0 < t BY <1>1, <1>4, <1>11 DEF CommitInv
    <2>1. Reaches(ld, j, t) \/ Blocked(A, j, t) BY Zenon, <1>7, <1>16, <2>0 DEF CSkips
    <2>2. CASE Reaches(ld, j, t)
        <3>1. Reaches(lg, j, t) BY Zenon, <1>5
        <3>2. PICK k \in 1..Len(lg) : j <= k /\ lg[k].term = t /\ SameUpTo(lg, ld, k)
            BY Zenon, <1>2, <1>8, <2>2, <3>1, ReachTogether
        <3> QED BY Zenon, <1>6, <1>14, <3>2
    <2> QED BY Zenon, <2>1, <2>2
<1> QED BY <1>12, <1>15, <1>16

\* CHolds is kept.
LEMMA CHoldsKept ==
    ASSUME NatWellOrdered, NEW n \in Node, NEW L, NEW M, NEW A, NEW B, CommitStep(n, L, M, A, B)
    PROVE  CHolds(B)'
<1> SUFFICES ASSUME NEW q \in Node, NEW t \in Nat, NEW j \in Nat, 0 < j, j <= B[q][t]
             PROVE  Reaches(log'[q], j, t) \/ Blocked(B, j, t)'
    BY Zenon DEF CHolds
<1>1. LogStep(n) /\ TypeInv /\ TypeInv' /\ CommitInv(L, A) BY Zenon DEF CommitStep, Step
<1>2. A[q][t] \in Nat /\ B[q][t] \in Nat BY Zenon, <1>1, AckTyped DEF CommitStep, CommitInv, AckGrows
<1>3. CASE j <= A[q][t]
    <2>1. CASE Blocked(A, j, t) BY Zenon, <2>1, BlockedKept
    <2>2. CASE Reaches(log[q], j, t)
        <3>1. CASE log'[q] = log[q] BY Zenon, <2>2, <3>1
        <3>2. CASE q = n /\ \E e : Proposes(n, e)
            <4>1. PICK e \in EntrySet : log'[n] = Append(log[n], e) BY Zenon, <3>2 DEF Proposes
            <4>2. PICK lg \in Seq(EntrySet) : lg = log[n] BY Zenon, <1>1, LogTyped
            <4>3. Append(lg, e) \in Seq(EntrySet) /\ Prefix(lg, Append(lg, e)) BY Zenon, AppendGrows
            <4> QED BY Zenon, <2>2, <3>2, <4>1, <4>2, <4>3, ReachesGrows
        <3>3. CASE q = n /\ \E m : Takes(n, m) \/ TakesPart(n, m)
            <4>1. Reaches(log'[n], j, t) \/ Blocked(A, j, t) BY Zenon, <2>2, <3>3, TakenHolds
            <4> QED BY Zenon, <3>3, <4>1, BlockedKept
        <3> QED BY Zenon, <1>1, <3>1, <3>2, <3>3 DEF LogStep, KeepsLog
    <2> QED BY Zenon, <1>1, <1>3, <2>1, <2>2 DEF CommitInv, CHolds
<1>4. CASE ~(j <= A[q][t])
    <2>1. q = n /\ B[q][t] = Len(log'[n]) /\ Joined(log'[n], M[t], t) BY Zenon, <1>2, <1>4 DEF CommitStep, AckGrows
    <2>2. PICK x \in Nat : x = Len(log'[n]) BY Zenon, <1>2, <2>1
    <2>3. x \in 1..x /\ j <= x /\ log'[n][x].term = t BY <2>1, <2>2 DEF Joined
    <2> QED BY Zenon, <2>1, <2>2, <2>3 DEF Reaches
<1> QED BY Zenon, <1>3, <1>4

\* A candidate has not asked for votes in a later term.
LEMMA CPastKept ==
    ASSUME NEW n \in Node, NEW L, NEW M, NEW A, NEW B, CommitStep(n, L, M, A, B)
    PROVE  CPast'
<1> SUFFICES ASSUME NEW v \in Node, NEW c \in Node, NEW t \in Nat, Voted(v, c, t)' PROVE t <= currentTerm'[c]
    BY Zenon DEF CPast
<1>1. TypeInv /\ TypeInv' /\ CPast /\ CAsks /\ BallotStep(n) BY Zenon DEF CommitStep, Step, CommitInv
<1>2. currentTerm[c] \in Nat /\ currentTerm'[c] \in Nat /\ currentTerm[c] <= currentTerm'[c] BY Zenon, TermsGrow
<1>3. CASE Voted(v, c, t)
    <2>1. t <= currentTerm[c] BY Zenon, <1>1, <1>3 DEF CPast
    <2> QED BY <1>2, <2>1
<1>4. CASE v = n /\ c = votedFor'[n] /\ t = currentTerm'[n]
    <2>1. CASE c = n BY <1>2, <1>4, <2>1
    <2>2. CASE c = votedFor[n] /\ currentTerm[n] = t
        <3>1. Voted(n, c, t) BY Zenon, <2>2 DEF Voted
        <3>2. t <= currentTerm[c] BY Zenon, <1>1, <3>1 DEF CPast
        <3> QED BY <1>2, <3>2
    <2>3. CASE \E q \in msgs : q.type = "RequestVote" /\ q.from = c /\ q.term = t
        <3>1. t <= currentTerm[c] BY Zenon, <1>1, <2>3 DEF CAsks
        <3> QED BY <1>2, <3>1
    <2> QED BY Zenon, <1>1, <1>4, <2>1, <2>2, <2>3, NodeAssumption DEF BallotStep, GivesVote
<1> QED BY Zenon, <1>1, <1>3, <1>4, TracesOfVotes

\* A candidate does not change its log.
LEMMA CandidateLog ==
    ASSUME NEW n, LogStep(n), role'[n] = "CANDIDATE"
    PROVE  log'[n] = log[n]
BY Zenon DEF LogStep, KeepsLog, Proposes, Takes, TakesPart, Accepts

\* The requests of a candidate describe its log.
LEMMA CAsksKept ==
    ASSUME NEW n \in Node, NEW L, NEW M, NEW A, NEW B, CommitStep(n, L, M, A, B)
    PROVE  CAsks'
<1> SUFFICES ASSUME NEW m \in msgs', m.type = "RequestVote"
             PROVE  /\ m.term <= currentTerm'[m.from]
                    /\ role'[m.from] = "CANDIDATE" /\ currentTerm'[m.from] = m.term =>
                          m.lastTerm = LastTerm(log'[m.from]) /\ m.lastIndex = Len(log'[m.from])
    BY Zenon DEF CAsks, LastTerm
<1>1. TypeInv /\ TypeInv' /\ CAsks /\ BallotStep(n) /\ LogStep(n) BY Zenon DEF CommitStep, Step, CommitInv
<1>2. CASE Asks(n, m)
    <2>1. m.from = n /\ m.term = currentTerm'[n] /\ m.lastTerm = LastTerm(log[n]) /\ m.lastIndex = Len(log[n])
        BY Zenon, <1>2 DEF Asks
    <2>2. log'[n] = log[n] BY Zenon, <1>1, <1>2, CandidateLog DEF Asks
    <2> QED BY <2>1, <2>2, TermsGrow
<1>3. CASE m \in msgs
    <2>1. PICK c \in Node : c = m.from BY Zenon, <1>1, <1>3, MessageTyped
    <2>2. PICK t \in Nat : t = m.term BY Zenon, <1>1, <1>3, MessageTyped
    <2>3. t <= currentTerm[c] BY Zenon, <1>1, <1>3, <2>1, <2>2 DEF CAsks
    <2>4. currentTerm[c] \in Nat /\ currentTerm'[c] \in Nat /\ currentTerm[c] <= currentTerm'[c] BY Zenon, TermsGrow
    <2>5. ASSUME role'[c] = "CANDIDATE", currentTerm'[c] = t
          PROVE  m.lastTerm = LastTerm(log'[c]) /\ m.lastIndex = Len(log'[c])
        <3>1. currentTerm[c] = t BY <2>3, <2>4, <2>5
        <3>2. role[c] = "CANDIDATE"
            <4>1. ~(currentTerm'[c] > currentTerm[c]) BY <2>4, <2>5, <3>1
            <4> QED BY Zenon, <1>1, <2>5, <4>1 DEF LogStep
        <3>3. log'[c] = log[c] BY <1>1, <2>5, CandidateLog DEF LogStep
        <3>4. m.lastTerm = LastTerm(log[c]) /\ m.lastIndex = Len(log[c])
            BY Zenon, <1>1, <1>3, <2>1, <2>2, <3>1, <3>2 DEF CAsks
        <3> QED BY Zenon, <3>3, <3>4
    <2> QED BY <2>1, <2>2, <2>3, <2>4, <2>5
<1> QED BY Zenon, <1>1, <1>2, <1>3 DEF BallotStep

\* later_than_other: a candidate whose log is not older than that of n has what
\* n stored.
LEMMA UpToDate ==
    ASSUME TypeInv, NEW L, HistInv(L), NEW A, CommitInv(L, A), NEW n \in Node, NEW c \in Node,
           ~LaterThanOther(n, LastTerm(log[c]), Len(log[c])),
           NEW t \in Nat, NEW j \in Nat, 0 < t, 0 < j, j <= A[n][t]
    PROVE  Reaches(log[c], j, t) \/ Blocked(A, j, t)
<1>1. HistType(L) /\ HistLogs(L) /\ HistMade(L) /\ CSkips(L, A) /\ CHolds(A) BY Zenon DEF HistInv, CommitInv
<1>2. CASE Blocked(A, j, t) BY Zenon, <1>2
<1>3. CASE Reaches(log[n], j, t)
    <2>1. PICK a \in Seq(EntrySet) : a = log[n] BY Zenon, LogTyped
    <2>2. PICK b \in Seq(EntrySet) : b = log[c] BY Zenon, LogTyped
    <2>3. PICK la \in Nat : la = Len(a) BY Zenon, LogLength
    <2>4. PICK lb \in Nat : lb = Len(b) BY Zenon, LogLength
    <2>5. Made(L, a) /\ Made(L, b) BY Zenon, <1>1, <2>1, <2>2 DEF HistMade
    <2>6. PICK x \in 1..la : j <= x /\ a[x].term = t BY Zenon, <1>3, <2>1, <2>3 DEF Reaches
    <2>7. la \in 1..la BY <2>6
    <2>8. a[la].term \in Nat /\ t <= a[la].term
        <3>1. Ordered(a) BY Zenon, <1>1, <2>5, MadeOrdered
        <3> QED BY <2>3, <2>6, <2>7, <3>1, EntryTerms DEF Ordered
    <2>9. LastTerm(a) = a[la].term BY <2>3, <2>7 DEF LastTerm
    <2>10. PICK s : s = LastTerm(b) BY Zenon
    <2>11. IF a[la].term # s THEN ~(a[la].term > s) ELSE ~(la > lb)
        BY Zenon, <2>1, <2>2, <2>3, <2>4, <2>9, <2>10 DEF LaterThanOther
    <2>12. b # <<>> BY <2>8, <2>10, <2>11 DEF LastTerm
    <2>13. lb \in 1..lb /\ s = b[lb].term BY <2>4, <2>10, <2>12 DEF LastTerm
    <2>14. s \in Nat BY Zenon, <2>4, <2>13, EntryTerms
    <2>15. PICK d \in Seq(EntrySet) : d = L[s] BY Zenon, <1>1, <2>14, HistTyped
    <2>16. Len(d) \in Nat /\ SameUpTo(b, d, lb) BY Zenon, <2>4, <2>5, <2>13, <2>15, LogLength DEF Made
    <2>17. CASE a[la].term = s
        <3>1. SameUpTo(a, d, la) BY Zenon, <2>3, <2>5, <2>7, <2>15, <2>17 DEF Made
        <3>2. la <= lb BY <2>11, <2>17
        <3>3. Prefix(a, b) BY <2>3, <2>4, <2>16, <3>1, <3>2 DEF Prefix, SameUpTo
        <3> QED BY Zenon, <1>3, <2>1, <2>2, <3>3, ReachesGrows
    <2>18. CASE a[la].term # s
        <3>1. t < s BY <2>8, <2>11, <2>14, <2>18
        <3>2. d # <<>> BY <2>13, <2>16 DEF SameUpTo
        <3>3. Reaches(d, j, t) \/ Blocked(A, j, t) BY Zenon, <1>1, <2>14, <2>15, <3>1, <3>2 DEF CSkips
        <3>4. CASE Reaches(d, j, t)
            <4>1. PICK y \in 1..Len(d) : j <= y /\ d[y].term = t BY Zenon, <3>4 DEF Reaches
            <4>2. Ordered(d) BY Zenon, <1>1, <2>14, <2>15, <3>2 DEF HistLogs
            <4>3. lb \in 1..Len(d) /\ d[lb].term = s BY <2>13, <2>16 DEF SameUpTo
            <4>4. y < lb BY <2>14, <2>16, <3>1, <4>1, <4>2, <4>3 DEF Ordered
            <4>5. y \in 1..lb /\ b[y] = d[y] BY <2>4, <2>16, <4>1, <4>4 DEF SameUpTo
            <4> QED BY Zenon, <2>2, <2>4, <4>1, <4>5 DEF Reaches
        <3> QED BY Zenon, <3>3, <3>4
    <2> QED BY Zenon, <2>17, <2>18
<1> QED BY Zenon, <1>1, <1>2, <1>3 DEF CHolds

\* CVotes is kept.
LEMMA CVotesKept ==
    ASSUME NatWellOrdered, NEW n \in Node, NEW L, NEW M, NEW A, NEW B, CommitStep(n, L, M, A, B)
    PROVE  CVotes(B)'
<1> SUFFICES ASSUME NEW v \in Node, NEW c \in Node, NEW T \in Nat,
                    role'[c] = "CANDIDATE", currentTerm'[c] = T, Voted(v, c, T)',
                    NEW t \in Nat, NEW j \in Nat, 0 < t, t < T, 0 < j, j <= B[v][t]
             PROVE  Reaches(log'[c], j, t) \/ Blocked(B, j, t)'
    BY Zenon DEF CVotes
<1>1. TypeInv /\ TypeInv' /\ HistInv(L) /\ CommitInv(L, A) /\ BallotStep(n) /\ LogStep(n) /\ VotesBind
    BY Zenon DEF CommitStep, Step, BallotInv
<1>2. \A q \in Node : currentTerm[q] \in Nat /\ currentTerm'[q] \in Nat /\ currentTerm[q] <= currentTerm'[q] BY Zenon, TermsGrow
<1>3. log'[c] = log[c] BY Zenon, <1>1, CandidateLog DEF LogStep
<1>4. T = currentTerm[c] => role[c] = "CANDIDATE"
    <2>1. ~(T > T) OBVIOUS
    <2> QED BY Zenon, <1>1, <2>1 DEF LogStep
<1>5. SUFFICES B[v][t] = A[v][t] /\ (j <= A[v][t] => Reaches(log[c], j, t) \/ Blocked(A, j, t))
    BY Zenon, <1>3, BlockedKept
<1>6. CASE Voted(v, c, T)
    <2>1. T <= currentTerm[v] BY Zenon, <1>1, <1>6 DEF VotesBind, Bound
    <2>2. t # currentTerm'[v] BY <1>2, <2>1
    <2>3. B[v][t] = A[v][t] BY Zenon, <2>2 DEF CommitStep, AckGrows
    <2>4. T <= currentTerm[c] BY Zenon, <1>1, <1>6 DEF CommitInv, CPast
    <2>5. T = currentTerm[c] BY <1>2, <2>4
    <2> QED BY Zenon, <1>1, <1>4, <1>6, <2>3, <2>5 DEF CommitInv, CVotes
<1>7. CASE ~Voted(v, c, T) /\ v = n /\ c = votedFor'[n] /\ T = currentTerm'[n]
    <2>1. B[v][t] = A[v][t] BY <1>7 DEF CommitStep, AckGrows
    <2>2. CASE c = n BY Zenon, <1>1, <1>7, <2>1, <2>2 DEF CommitInv, CHolds
    <2>3. CASE c = votedFor[n] /\ currentTerm[n] = T BY Zenon, <1>7, <2>3 DEF Voted
    <2>4. CASE c # n /\ \E q \in msgs : /\ q.type = "RequestVote" /\ q.from = c /\ q.term = T
                                        /\ ~LaterThanOther(n, q.lastTerm, q.lastIndex)
        <3>1. PICK q \in msgs : /\ q.type = "RequestVote" /\ q.from = c /\ q.term = T
                                /\ ~LaterThanOther(n, q.lastTerm, q.lastIndex)
            BY Zenon, <2>4
        <3>2. T = currentTerm[c] BY Zenon, <1>1, <2>4 DEF LogStep
        <3>3. q.lastTerm = LastTerm(log[c]) /\ q.lastIndex = Len(log[c])
            BY Zenon, <1>1, <1>4, <3>1, <3>2 DEF CommitInv, CAsks
        <3> QED BY Zenon, <1>1, <1>7, <2>1, <3>1, <3>3, UpToDate
    <2> QED BY Zenon, <1>1, <1>7, <2>2, <2>3, <2>4, NodeAssumption DEF BallotStep, GivesVote
<1> QED BY Zenon, <1>1, <1>6, <1>7, TracesOfVotes

\* become_leader: the voters behind a new leader.
LEMMA NewLeaderVotes ==
    ASSUME NEW n \in Node, NEW L, NEW M, NEW A, NEW B, CommitStep(n, L, M, A, B), NewLeader(n),
           NEW T \in Nat, T = currentTerm'[n]
    PROVE  \E Q \in SUBSET InitVoters :
               Majority(Q) /\ \A v \in Q : v # n => Voted(v, n, T) /\ T = currentTerm[n] /\ role[n] = "CANDIDATE"
<1>1. TypeInv /\ TypeInv' /\ ElectionSafety' /\ HistInv(L) /\ LogStep(n) /\ BallotStep(n) /\ Static
    BY Zenon DEF CommitStep, Step
<1>2. VotersCounted /\ CPast BY Zenon DEF CommitStep, BallotInv, CommitInv
<1>3. voters[n] = InitVoters BY Zenon, <1>1, StaticVoters
<1>4. L[T] = <<>> BY Zenon, <1>1, NewTerm
<1>5. <<T, n>> \notin elected BY Zenon, <1>1, <1>4 DEF HistInv, HistElected
<1>6. elected' # elected BY Zenon, <1>5 DEF NewLeader
<1>7. PICK Q \in SUBSET Node : HasQuorum(n, Cardinality(Q)) /\ \A v \in Q : Supports(n, v)
    BY Zenon, <1>1, <1>6 DEF BallotStep
<1>8. Majority(Q) BY Zenon, <1>3, <1>7 DEF HasQuorum, QuorumSize, Majority
<1>9. Q \subseteq InitVoters BY Zenon, <1>2, <1>3, <1>7 DEF Supports, VotersCounted
<1>10. ASSUME NEW v \in Q, v # n PROVE Voted(v, n, T) /\ T = currentTerm[n] /\ role[n] = "CANDIDATE"
    <2>1. Voted(v, n, T) BY Zenon, <1>7, <1>10 DEF Supports
    <2>2. T <= currentTerm[n] BY Zenon, <1>2, <1>7, <2>1 DEF CPast
    <2>3. T = currentTerm[n] BY <2>2, TermsGrow
    <2>4. ~(T > currentTerm[n]) BY <2>3
    <2> QED BY Zenon, <2>1, <2>3, <2>4 DEF NewLeader
<1> QED BY Zenon, <1>8, <1>9, <1>10

\* A new leader has what its voters stored, and what they have not stored they
\* never will.
LEMMA NewLeaderSkips ==
    ASSUME NEW n \in Node, NEW L, NEW M, NEW A, NEW B, CommitStep(n, L, M, A, B), NewLeader(n),
           NEW T \in Nat, T = currentTerm'[n], NEW t \in Nat, NEW j \in Nat, 0 < t, t < T, 0 < j
    PROVE  Reaches(log[n], j, t) \/ Blocked(A, j, t) \/ Blocked(B, j, t)'
<1>1. CommitInv(L, A) /\ VotesBind /\ TypeInv BY Zenon DEF CommitStep, Step, BallotInv
<1>2. InitVoters \subseteq Node BY Zenon, <1>1, ProgressTyped
<1>3. PICK Q \in SUBSET InitVoters :
          Majority(Q) /\ \A v \in Q : v # n => Voted(v, n, T) /\ T = currentTerm[n] /\ role[n] = "CANDIDATE"
    BY Zenon, NewLeaderVotes
<1>4. CASE \E v \in Q : j <= A[v][t]
    <2>1. PICK v \in Q : j <= A[v][t] BY Zenon, <1>4
    <2>2. CASE v = n BY Zenon, <1>1, <2>1, <2>2 DEF CommitInv, CHolds
    <2>3. CASE v # n
        <3>1. Voted(v, n, T) /\ T = currentTerm[n] /\ role[n] = "CANDIDATE" /\ v \in Node BY Zenon, <1>2, <1>3, <2>3
        <3> QED BY Zenon, <1>1, <2>1, <3>1 DEF CommitInv, CVotes
    <2> QED BY Zenon, <2>2, <2>3
<1>5. CASE \A v \in Q : ~(j <= A[v][t])
    <2>1. ASSUME NEW v \in Q PROVE t < currentTerm'[v] /\ B[v][t] < j
        <3>1. v \in Node BY Zenon, <1>2
        <3>2. T <= currentTerm'[v]
            <4>1. CASE v = n BY <4>1
            <4>2. CASE v # n
                <5>1. T <= currentTerm[v] BY Zenon, <1>1, <1>3, <3>1, <4>2 DEF VotesBind, Bound
                <5> QED BY <3>1, <5>1, TermsGrow
            <4> QED BY Zenon, <4>1, <4>2
        <3>3. t < currentTerm'[v] BY <3>1, <3>2, TermsGrow
        <3>4. B[v][t] = A[v][t]
            <4>1. t # currentTerm'[v] BY <3>3
            <4> QED BY Zenon, <3>1, <4>1 DEF CommitStep, AckGrows
        <3>5. A[v][t] \in Nat BY Zenon, <1>1, <3>1, AckTyped DEF CommitInv
        <3> QED BY <1>5, <3>3, <3>4, <3>5
    <2> QED BY Zenon, <1>3, <2>1 DEF Blocked
<1> QED BY Zenon, <1>4, <1>5

\* CSkips is kept.
LEMMA CSkipsKept ==
    ASSUME NEW n \in Node, NEW L, NEW M, NEW A, NEW B, CommitStep(n, L, M, A, B)
    PROVE  CSkips(M, B)'
<1> SUFFICES ASSUME NEW T \in Nat, NEW t \in Nat, NEW j \in Nat, M[T] # <<>>, 0 < t, t < T, 0 < j
             PROVE  Reaches(M[T], j, t) \/ Blocked(B, j, t)'
    BY Zenon DEF CSkips
<1>1. TypeInv /\ TypeInv' /\ HistInv(L) /\ CommitInv(L, A) /\ LogStep(n) /\ HistStep(n, L, M) /\ Grows(n, L, M)
    BY Zenon DEF CommitStep, Step
<1>2. HistType(L) /\ HistType(M) /\ Prefix(L[T], M[T]) BY Zenon, <1>1 DEF HistInv, Grows
<1>3. CASE L[T] # <<>>
    <2>1. Reaches(L[T], j, t) \/ Blocked(A, j, t) BY Zenon, <1>1, <1>3 DEF CommitInv, CSkips
    <2>2. CASE Reaches(L[T], j, t)
        <3>1. L[T] \in Seq(EntrySet) /\ M[T] \in Seq(EntrySet) BY Zenon, <1>2, HistTyped
        <3> QED BY Zenon, <1>2, <2>2, <3>1, ReachesGrows
    <2> QED BY Zenon, <2>1, <2>2, BlockedKept
<1>4. CASE L[T] = <<>>
    <2>1. T = currentTerm'[n] /\ role'[n] = "LEADER" /\ M[T] = log'[n] BY Zenon, <1>1, <1>4 DEF Grows
    <2>2. PICK e : Proposes(n, e) BY Zenon, <1>1, <1>4 DEF HistStep
    <2>3. NewLeader(n)
        <3>1. CASE role[n] = "LEADER" /\ currentTerm'[n] = currentTerm[n]
            BY Zenon, <1>1, <1>4, <2>1, <3>1 DEF HistInv, HistLeader, HistElected
        <3> QED BY Zenon, <2>2, <3>1 DEF Proposes
    <2>4. CASE Reaches(log[n], j, t)
        <3>1. e \in EntrySet /\ log'[n] = Append(log[n], e) BY Zenon, <2>2 DEF Proposes
        <3>2. PICK lg \in Seq(EntrySet) : lg = log[n] BY Zenon, <1>1, LogTyped
        <3>3. Append(lg, e) \in Seq(EntrySet) /\ Prefix(lg, Append(lg, e)) BY Zenon, <3>1, AppendGrows
        <3>4. Reaches(Append(lg, e), j, t) BY Zenon, <2>4, <3>2, <3>3, ReachesGrows
        <3> QED BY Zenon, <2>1, <3>1, <3>2, <3>4
    <2> QED BY Zenon, <2>1, <2>3, <2>4, NewLeaderSkips, BlockedKept
<1> QED BY Zenon, <1>3, <1>4

-----------------------------------------------------------------------------
(* What is committed.                                                      *)

\* a set with one replica more; proved in RaftTheorems
AddsOne == \A S \in SUBSET Node, n \in Node : n \notin S => Cardinality(S \cup {n}) = 1 + Cardinality(S)

\* Commit indices are numbers.
LEMMA CommitTyped ==
    ASSUME TypeInv
    PROVE  \A n \in Node : commitIndex[n] \in Nat
BY Zenon DEF TypeInv, TypeOK

\* Agreement between logs carries over.
LEMMA SameTransfer ==
    ASSUME NEW a \in Seq(EntrySet), NEW b \in Seq(EntrySet), NEW c \in Seq(EntrySet), NEW i \in Nat,
           SameUpTo(a, b, i), SameUpTo(b, c, i)
    PROVE  SameUpTo(a, c, i)
BY Zenon DEF SameUpTo

\* append_entries_from_leader never cuts what is committed.
LEMMA CommittedStays ==
    ASSUME NatWellOrdered, MajoritiesMeet, NEW n \in Node, NEW L, NEW M, NEW A, NEW B, CommitStep(n, L, M, A, B),
           NEW k \in Node, NEW c \in Nat, c = commitIndex[k], c # 0
    PROVE  SameUpTo(log'[k], log[k], c)
<1>1. LogStep(n) /\ TypeInv /\ TypeInv' /\ HistInv(L) /\ CommitInv(L, A) BY Zenon DEF CommitStep, Step
<1>2. PICK t \in Nat, j \in Nat :
          0 < t /\ t <= currentTerm[k] /\ c <= j /\ Stored(A, j, t) /\ SameUpTo(log[k], L[t], c)
    BY Zenon, <1>1 DEF CommitInv, CIndex, Safe
<1>3. PICK lg \in Seq(EntrySet) : lg = log[k] BY Zenon, <1>1, LogTyped
<1>4. Len(lg) \in Nat /\ c <= Len(lg) BY Zenon, <1>2, <1>3, LogLength DEF SameUpTo
<1>5. CASE log'[k] = log[k] BY Zenon, <1>3, <1>4, <1>5 DEF SameUpTo
<1>6. CASE k = n /\ \E e : Proposes(n, e)
    <2>1. PICK e \in EntrySet : log'[n] = Append(log[n], e) BY Zenon, <1>6 DEF Proposes
    <2>2. Len(Append(lg, e)) = Len(lg) + 1 /\ \A i \in 1..Len(lg) : Append(lg, e)[i] = lg[i] BY Zenon, AppendGrows
    <2>3. SameUpTo(Append(lg, e), lg, c) BY <1>4, <2>2 DEF SameUpTo
    <2> QED BY Zenon, <1>3, <1>6, <2>1, <2>3
<1>7. CASE k = n /\ \E m : Takes(n, m) \/ TakesPart(n, m)
    <2>1. PICK m : Takes(n, m) \/ TakesPart(n, m) BY Zenon, <1>7
    <2>2. PICK T \in Nat : T = m.term BY Zenon, <1>1, <2>1, Copy
    <2>3. /\ T = currentTerm'[n] /\ L[T] # <<>>
          /\ \A i \in Nat : SameUpTo(log[n], L[T], i) => SameUpTo(log'[n], log[n], i)
        <3>1. /\ m.term = currentTerm'[n] /\ L[m.term] # <<>>
              /\ \A i \in Nat : SameUpTo(log[n], L[m.term], i) => SameUpTo(log'[n], log[n], i)
            BY ZenonT(40), <1>1, <2>1, Copy
        <3> QED BY Zenon, <2>2, <3>1
    <2>4. t <= T
        <3>1. PICK T0 \in Nat : T0 = currentTerm[k] /\ T0 <= T BY Zenon, <1>7, <2>3, TermsGrow
        <3>2. t <= T0 BY Zenon, <1>2, <3>1
        <3> QED BY <3>1, <3>2
    <2>5. SameUpTo(log[n], L[T], c)
        <3>1. CASE t = T BY Zenon, <1>2, <1>7, <3>1
        <3>2. CASE t < T
            <4>1. SameUpTo(L[T], L[t], c) BY Zenon, <1>1, <1>2, <2>3, <3>2, LaterLeader
            <4>2. SameUpTo(L[t], L[T], c) BY Zenon, <4>1 DEF SameUpTo
            <4>3. L[t] \in Seq(EntrySet) /\ L[T] \in Seq(EntrySet) BY Zenon, <1>1, HistTyped DEF HistInv
            <4> QED BY Zenon, <1>2, <1>3, <1>7, <4>2, <4>3, SameTransfer
        <3> QED BY <2>4, <3>1, <3>2
    <2> QED BY Zenon, <1>7, <2>3, <2>5
<1> QED BY Zenon, <1>1, <1>5, <1>6, <1>7 DEF LogStep, KeepsLog

\* What was safe in the histories before a step is safe after it.
LEMMA SafeKept ==
    ASSUME NEW n, NEW L, NEW M, NEW A, NEW B, CommitStep(n, L, M, A, B),
           NEW lg \in Seq(EntrySet), NEW c \in Nat, NEW T \in Nat, Safe(L, A, lg, c, T), NEW U \in Nat, T <= U
    PROVE  Safe(M, B, lg, c, U)
<1>1. PICK t \in Nat, j \in Nat :
          0 < t /\ t <= T /\ c <= j /\ Stored(A, j, t) /\ SameUpTo(lg, L[t], c)
    BY Zenon DEF Safe
<1>2. Stored(B, j, t) BY Zenon, <1>1, CommittedKept
<1>3. HistType(L) /\ HistType(M) /\ Prefix(L[t], M[t]) BY Zenon DEF CommitStep, Step, HistInv, Grows
<1>4. L[t] \in Seq(EntrySet) /\ M[t] \in Seq(EntrySet) BY Zenon, <1>3, HistTyped
<1>5. SameUpTo(lg, M[t], c) BY Zenon, <1>1, <1>3, <1>4, LogGrows
<1>6. t <= U BY <1>1
<1> QED BY Zenon, <1>1, <1>2, <1>5, <1>6 DEF Safe

\* try_advance_commit_index: a quorum of match indices is a majority that has
\* followed the leader.
LEMMA LeaderSafe ==
    ASSUME AddsOne, NEW n \in Node, NEW L, NEW M, NEW A, NEW B, CommitStep(n, L, M, A, B), LeaderCommits(n),
           AckMatch(M, B)', NEW c \in Nat, c = commitIndex'[n], NEW T \in Nat, T = currentTerm'[n]
    PROVE  Safe(M, B, log'[n], c, T)
<1>1. /\ role'[n] = "LEADER" /\ c \in 1..Len(log'[n]) /\ log'[n][c].term = T
      /\ HasQuorum(n, 1 + Cardinality({p \in voters[n] \ {n} : matchIndex'[n][p] >= c}))
    BY Zenon DEF LeaderCommits
<1>2. TypeInv /\ TypeInv' /\ Static /\ Grows(n, L, M) /\ HistInv(M)' BY Zenon DEF CommitStep, Step
<1>3. M[T] = log'[n] /\ <<T, n>> \in elected' BY Zenon, <1>1, <1>2 DEF Grows
<1>4. InitVoters \subseteq Node /\ voters[n] = InitVoters BY Zenon, <1>2, ProgressTyped, StaticVoters
<1>5. HistType(M) /\ M[T] # <<>> /\ n \in InitVoters BY Zenon, <1>2, <1>3 DEF HistInv, HistElected
<1>6. PICK ld \in Seq(EntrySet) : ld = M[T] BY Zenon, <1>5, HistTyped
<1>7. PICK len \in Nat : len = Len(ld) BY Zenon, LogLength
<1>8. c \in 1..len /\ ld[c].term = T BY Zenon, <1>1, <1>3, <1>6, <1>7
<1>9. T # 0 BY Zenon, <1>7, <1>8, EntryTerms
<1>10. Ordered(ld) BY Zenon, <1>2, <1>5, <1>6 DEF HistInv, HistLogs
<1>11. \A i \in 1..len : ld[i].term <= T
    <2>1. ld[len].term = T BY Zenon, <1>2, <1>5, <1>6, <1>7 DEF HistInv, HistLogs
    <2>2. len \in 1..len BY <1>8
    <2> QED BY <1>7, <1>10, <2>1, <2>2 DEF Ordered
<1>12. PICK S \in SUBSET Node : S = {p \in voters[n] \ {n} : matchIndex'[n][p] >= c} BY Zenon, <1>4
<1>13. PICK Q \in SUBSET InitVoters : Q = S \cup {n} BY Zenon, <1>4, <1>5, <1>12
<1>14. n \notin S /\ HasQuorum(n, 1 + Cardinality(S)) BY Zenon, <1>1, <1>12
<1>15. Cardinality(Q) = 1 + Cardinality(S) BY Zenon, <1>13, <1>14 DEF AddsOne
<1>16. Majority(Q) BY Zenon, <1>4, <1>14, <1>15 DEF HasQuorum, QuorumSize, Majority
<1>17. c <= B[n][T]
    <2>1. len <= B[n][T] BY Zenon, <1>1, <1>3, <1>6, <1>7 DEF AckMatch
    <2>2. B[n][T] \in Nat BY Zenon, AckTyped DEF CommitStep, AckGrows
    <2> QED BY <1>8, <2>1, <2>2
<1>18. ASSUME NEW p \in S PROVE c <= B[p][T]
    <2>1. p \in Node /\ matchIndex'[n][p] >= c BY Zenon, <1>12
    <2>2. PICK i \in Nat : i = matchIndex'[n][p]
        <3>1. \A k, q \in Node : matchIndex'[k][q] \in Nat BY Zenon, <1>2 DEF TypeInv, TypeOK
        <3> QED BY Zenon, <2>1, <3>1
    <2>3. i # 0 /\ c <= i BY <1>8, <2>1, <2>2
    <2>4. i <= len
        <3>1. HistMatch(M)' BY Zenon, <1>2 DEF HistInv
        <3> QED BY Zenon, <1>1, <1>6, <1>7, <2>1, <2>2, <2>3, <3>1 DEF HistMatch, Acked
    <2>5. i \in 1..len BY <2>3, <2>4
    <2>6. ld[i].term \in Nat BY Zenon, <1>7, <2>5, EntryTerms
    <2>7. T <= ld[i].term BY Zenon, <1>7, <1>8, <1>10, <2>3, <2>5 DEF Ordered
    <2>8. ld[i].term = T BY <1>11, <2>5, <2>6, <2>7
    <2>9. Counted(M, B, T, p, i) BY Zenon, <1>1, <2>1, <2>2, <2>3 DEF AckMatch, Counted
    <2>10. i <= B[p][T] /\ B[p][T] \in Nat BY Zenon, <1>6, <2>1, <2>8, <2>9, AckTyped DEF Counted, CommitStep, AckGrows
    <2> QED BY <2>3, <2>10
<1>19. Stored(B, c, T) BY Zenon, <1>13, <1>16, <1>17, <1>18 DEF Stored
<1>20. SameUpTo(log'[n], M[T], c) BY <1>3, <1>6, <1>7, <1>8 DEF SameUpTo
<1> QED BY <1>9, <1>19, <1>20 DEF Safe

\* handle_append_entries: what a follower commits on the leader's word.
LEMMA FollowerSafe ==
    ASSUME NatWellOrdered, MajoritiesMeet, NEW n \in Node, NEW L, NEW M, NEW A, NEW B, CommitStep(n, L, M, A, B),
           NEW m, FollowerCommits(n, m), NEW c \in Nat, c = commitIndex'[n], c # 0, NEW T \in Nat, T = currentTerm'[n]
    PROVE  Safe(L, A, log'[n], c, T)
<1>1. LogStep(n) /\ TypeInv /\ TypeInv' /\ HistInv(L) /\ CommitInv(L, A) BY Zenon DEF CommitStep, Step
<1>2. Takes(n, m) /\ c <= m.commit /\ c <= Len(log'[n]) BY Zenon DEF FollowerCommits
<1>3. m \in Requests /\ m.term = T /\ L[T] # <<>> /\ Prefix(log'[n], L[T])
    <2>1. m \in Requests /\ m.term = currentTerm'[n] /\ L[m.term] # <<>> /\ Prefix(log'[n], L[m.term])
        BY ZenonT(40), <1>1, <1>2, Copy
    <2> QED BY Zenon, <2>1
<1>4. m.commit \in Nat /\ m.commit # 0
    <2>1. PICK q \in Nat : q = m.commit BY Zenon, <1>1, <1>3, LogTyped
    <2>2. q # 0
        <3>1. c <= q BY Zenon, <1>2, <2>1
        <3> QED BY <3>1
    <2> QED BY Zenon, <2>1, <2>2
<1>5. PICK t \in Nat, j \in Nat : 0 < t /\ t <= T /\ m.commit <= j /\ Stored(A, j, t)
    BY Zenon, <1>1, <1>3, <1>4 DEF CommitInv, CRequests
<1>6. c <= j
    <2>1. PICK q \in Nat : q = m.commit BY Zenon, <1>4
    <2>2. c <= q /\ q <= j BY Zenon, <1>2, <1>5, <2>1
    <2> QED BY <1>5, <2>2
<1>7. PICK lg \in Seq(EntrySet) : lg = log'[n] BY Zenon, <1>1, LogTypedAfter
<1>8. L[t] \in Seq(EntrySet) /\ L[T] \in Seq(EntrySet) BY Zenon, <1>1, HistTyped DEF HistInv
<1>9. Len(lg) \in Nat /\ Len(L[T]) \in Nat BY Zenon, <1>8, LogLength
<1>10. SameUpTo(lg, L[T], c) BY <1>2, <1>3, <1>7, <1>9 DEF Prefix, SameUpTo
<1>11. SameUpTo(lg, L[t], c)
    <2>1. CASE t = T BY Zenon, <1>10, <2>1
    <2>2. CASE t < T
        <3>1. SameUpTo(L[T], L[t], c) BY Zenon, <1>1, <1>3, <1>5, <1>6, <2>2, LaterLeader
        <3> QED BY Zenon, <1>8, <1>10, <3>1, SameTransfer
    <2>3. t = T \/ t < T
        <3>1. t <= T BY Zenon, <1>5
        <3> QED BY <3>1
    <2> QED BY Zenon, <2>1, <2>2, <2>3
<1> QED BY Zenon, <1>5, <1>6, <1>7, <1>11 DEF Safe

\* CIndex is kept.
LEMMA CIndexKept ==
    ASSUME NatWellOrdered, MajoritiesMeet, AddsOne, NEW n \in Node, NEW L, NEW M, NEW A, NEW B,
           CommitStep(n, L, M, A, B), AckMatch(M, B)'
    PROVE  CIndex(M, B)'
<1> SUFFICES ASSUME NEW k \in Node, commitIndex'[k] # 0
             PROVE  Safe(M, B, log'[k], commitIndex'[k], currentTerm'[k])
    BY Zenon DEF CIndex
<1>1. LogStep(n) /\ TypeInv /\ TypeInv' /\ CommitInv(L, A) BY Zenon DEF CommitStep, Step
<1>2. PICK c \in Nat : c = commitIndex'[k] BY Zenon, <1>1 DEF TypeInv, TypeOK
<1>3. PICK T \in Nat : T = currentTerm'[k] BY Zenon, TermsGrow
<1>4. PICK lg \in Seq(EntrySet) : lg = log'[k] BY Zenon, <1>1, LogTypedAfter
<1>5. CASE c = commitIndex[k]
    <2>1. PICK t \in Nat, j \in Nat :
              0 < t /\ t <= currentTerm[k] /\ c <= j /\ Stored(A, j, t) /\ SameUpTo(log[k], L[t], c)
        BY Zenon, <1>1, <1>2, <1>5 DEF CommitInv, CIndex, Safe
    <2>2. SameUpTo(log'[k], log[k], c) BY Zenon, <1>2, <1>5, CommittedStays
    <2>3. log[k] \in Seq(EntrySet) /\ L[t] \in Seq(EntrySet)
        BY Zenon, <1>1, LogTyped, HistTyped DEF CommitStep, Step, HistInv
    <2>4. SameUpTo(lg, L[t], c) BY Zenon, <1>4, <2>1, <2>2, <2>3, SameTransfer
    <2>5. Safe(L, A, lg, c, currentTerm[k]) BY Zenon, <2>1, <2>4 DEF Safe
    <2>6. currentTerm[k] \in Nat /\ currentTerm[k] <= T BY Zenon, <1>3, TermsGrow
    <2> QED BY Zenon, <1>2, <1>3, <1>4, <2>5, <2>6, SafeKept
<1>6. CASE k = n /\ LeaderCommits(n) BY Zenon, <1>2, <1>3, <1>6, LeaderSafe
<1>7. CASE k = n /\ \E m : FollowerCommits(n, m)
    <2>1. Safe(L, A, lg, c, T) BY Zenon, <1>2, <1>3, <1>4, <1>7, FollowerSafe
    <2> QED BY <1>2, <1>3, <1>4, <2>1, SafeKept
<1> QED BY Zenon, <1>1, <1>2, <1>5, <1>6, <1>7 DEF LogStep, Commits

\* CRequests is kept.
LEMMA CRequestsKept ==
    ASSUME NEW n \in Node, NEW L, NEW M, NEW A, NEW B, CommitStep(n, L, M, A, B), CIndex(M, B)'
    PROVE  CRequests(B)'
<1> SUFFICES ASSUME NEW m \in Requests', m.commit # 0
             PROVE  \E t, j \in Nat : 0 < t /\ t <= m.term /\ m.commit <= j /\ Stored(B, j, t)
    BY Zenon DEF CRequests
<1>1. LogStep(n) /\ TypeInv /\ TypeInv' /\ CommitInv(L, A) BY Zenon DEF CommitStep, Step
<1>2. m \in msgs' /\ m.type = "AppendEntries" BY Zenon DEF Requests
<1>3. CASE m \in msgs
    <2>1. m \in Requests BY Zenon, <1>2, <1>3 DEF Requests
    <2>2. PICK t \in Nat, j \in Nat : 0 < t /\ t <= m.term /\ m.commit <= j /\ Stored(A, j, t)
        BY Zenon, <1>1, <2>1 DEF CommitInv, CRequests
    <2>3. Stored(B, j, t) BY Zenon, <2>2, CommittedKept
    <2> QED BY Zenon, <2>2, <2>3
<1>4. CASE m \notin msgs
    <2>1. Sends(n, m) BY Zenon, <1>1, <1>2, <1>4 DEF LogStep, SendsTruth
    <2>2. m.term = currentTerm'[n] /\ m.commit <= commitIndex'[n] BY Zenon, <2>1 DEF Sends
    <2>3. m.commit \in Nat BY Zenon, <1>1, LogTypedAfter
    <2>4. commitIndex'[n] \in Nat BY Zenon, <1>1 DEF TypeInv, TypeOK
    <2>5. PICK t \in Nat, j \in Nat : 0 < t /\ t <= m.term /\ commitIndex'[n] <= j /\ Stored(B, j, t)
        BY <2>2, <2>3, <2>4 DEF CIndex, Safe
    <2>6. m.commit <= j BY <2>2, <2>3, <2>4, <2>5
    <2> QED BY Zenon, <2>5, <2>6
<1> QED BY Zenon, <1>3, <1>4

\* CApplied is kept: apply_committed_entries_inline applies the replica's own
\* committed entries.
LEMMA CAppliedKept ==
    ASSUME NEW n \in Node, NEW L, NEW M, NEW A, NEW B, CommitStep(n, L, M, A, B), CIndex(M, B)'
    PROVE  CApplied(M, B)'
<1> SUFFICES ASSUME NEW x \in applied'
             PROVE  /\ x[3] \in Nat
                    /\ \E t, j \in Nat : /\ 0 < t /\ t <= x[3] /\ x[1] <= j /\ Stored(B, j, t)
                                         /\ x[1] \in 1..Len(M[t]) /\ M[t][x[1]] = x[2]
    BY Zenon DEF CApplied
<1>1. LogStep(n) /\ TypeInv /\ TypeInv' /\ CommitInv(L, A) BY Zenon DEF CommitStep, Step
<1>2. HistType(L) /\ HistType(M) /\ \A t \in Nat : Prefix(L[t], M[t]) BY Zenon DEF CommitStep, Step, HistInv, Grows
<1>3. CASE x \in applied
    <2>1. PICK t \in Nat, j \in Nat : /\ 0 < t /\ t <= x[3] /\ x[1] <= j /\ Stored(A, j, t)
                                      /\ x[1] \in 1..Len(L[t]) /\ L[t][x[1]] = x[2]
        BY Zenon, <1>1, <1>3 DEF CommitInv, CApplied
    <2>2. Stored(B, j, t) BY Zenon, <2>1, CommittedKept
    <2>3. Len(L[t]) \in Nat /\ Len(M[t]) \in Nat /\ Prefix(L[t], M[t]) BY Zenon, <1>2, HistTyped
    <2>4. x[1] \in 1..Len(M[t]) /\ M[t][x[1]] = x[2] BY <2>1, <2>3 DEF Prefix, SameUpTo
    <2>5. x[3] \in Nat BY Zenon, <1>1, <1>3 DEF CommitInv, CApplied
    <2> QED BY Zenon, <2>1, <2>2, <2>4, <2>5
<1>4. CASE x \notin applied
    <2>1. PICK i \in commitIndex[n] + 1..commitIndex'[n] : x = <<i, log'[n][i], currentTerm'[n]>>
        BY Zenon, <1>1, <1>4 DEF LogStep, Commits, AppliesOwn
    <2>2. PICK c \in Nat : c = commitIndex'[n] BY Zenon, <1>1 DEF TypeInv, TypeOK
    <2>3. i \in 1..c /\ c # 0
        <3>1. PICK b \in Nat : b = commitIndex[n] BY Zenon, <1>1, CommitTyped
        <3>2. i \in b + 1..c BY Zenon, <2>1, <2>2, <3>1
        <3> QED BY <3>2
    <2>4. PICK t \in Nat, j \in Nat :
              0 < t /\ t <= currentTerm'[n] /\ c <= j /\ Stored(B, j, t) /\ SameUpTo(log'[n], M[t], c)
        BY Zenon, <2>2, <2>3 DEF CIndex, Safe
    <2>5. Len(M[t]) \in Nat BY Zenon, <1>2, HistTyped
    <2>6. i <= j /\ i \in 1..Len(M[t]) /\ M[t][i] = log'[n][i]
        <3>1. c <= Len(M[t]) /\ \A k \in 1..c : log'[n][k] = M[t][k] BY Zenon, <2>4 DEF SameUpTo
        <3>2. i <= j BY <2>3, <2>4
        <3>3. i \in 1..Len(M[t]) BY <2>3, <2>5, <3>1
        <3> QED BY Zenon, <2>3, <3>1, <3>2, <3>3
    <2> QED BY Zenon, <2>1, <2>4, <2>6, TermsGrow
<1> QED BY Zenon, <1>3, <1>4

-----------------------------------------------------------------------------
(* The invariant as a whole.                                               *)

\* Nothing is stored in a new group.
LEMMA CommitInit ==
    ASSUME Init, NEW L, \A t \in Nat : L[t] = <<>>
    PROVE  \E A : CommitInv(L, A)
<1>1. PICK A : A = [q \in Node |-> [t \in Nat |-> 0]] BY Zenon
<1>2. AckType(A) /\ \A q \in Node, t \in Nat : A[q][t] = 0 BY Zenon, <1>1 DEF AckType
<1>3. \A v, c \in Node, t \in Nat : ~Voted(v, c, t) BY Zenon, NodeAssumption DEF Init, Voted
<1>4. AckLogs(L, A) /\ CSkips(L, A) /\ CHolds(A) BY <1>2 DEF AckLogs, CSkips, CHolds
<1>5. AckMatch(L, A) /\ CIndex(L, A) BY Zenon DEF Init, AckMatch, CIndex
<1>6. AckReply(L, A) /\ CAsks /\ CRequests(A) /\ CApplied(L, A)
    BY Zenon DEF Init, AckReply, CAsks, CRequests, Requests, CApplied
<1>7. CVotes(A) /\ CPast BY Zenon, <1>3 DEF CVotes, CPast
<1> QED BY Zenon, <1>2, <1>4, <1>5, <1>6, <1>7 DEF CommitInv

\* A step keeps the invariant, with the histories after the step.
LEMMA CommitKept ==
    ASSUME NatWellOrdered, MajoritiesMeet, AddsOne, Static, TypeInv, TypeInv', BallotInv, BallotInv',
           NEW L, HistInv(L), NEW A, CommitInv(L, A), NEW n \in Node, BallotStep(n), LogStep(n)
    PROVE  \E M, B : CommitStep(n, L, M, A, B) /\ HistInv(M)' /\ CommitInv(M, B)'
<1>1. ElectionSafety' BY Zenon DEF BallotInv
<1>2. PICK M : HistStep(n, L, M) BY Zenon, HistAdvances
<1>3. Step(n, L, M) /\ HistInv(M)' BY Zenon, <1>1, <1>2, HistKept
<1>4. PICK B : AckStep(n, M, A, B) BY Zenon DEF AckStep
<1>5. AckGrows(n, M, A, B) BY Zenon, <1>4, AckStepGrows DEF CommitInv
<1>6. CommitStep(n, L, M, A, B) BY Zenon, <1>3, <1>5 DEF CommitStep
<1>7. AckType(B)' BY Zenon, <1>5 DEF AckGrows, AckType
<1>8. AckLogs(M, B)' /\ AckMatch(M, B)' /\ AckReply(M, B)' BY Zenon, <1>6, AckLogsKept, AckMatchKept, AckReplyKept
<1>9. CSkips(M, B)' /\ CHolds(B)' /\ CVotes(B)' /\ CPast' /\ CAsks'
    BY Zenon, <1>6, CSkipsKept, CHoldsKept, CVotesKept, CPastKept, CAsksKept
<1>10. CIndex(M, B)' BY Zenon, <1>6, <1>8, CIndexKept
<1>11. CRequests(B)' /\ CApplied(M, B)' BY Zenon, <1>6, <1>10, CRequestsKept, CAppliedKept
<1>12. CommitInv(M, B)' BY Zenon, <1>7, <1>8, <1>9, <1>10, <1>11 DEF CommitInv
<1> QED BY Zenon, <1>3, <1>6, <1>12

\* Nothing changes when no replica steps.
LEMMA CommitStutters ==
    ASSUME NEW L, NEW A, CommitInv(L, A), UNCHANGED vars
    PROVE  CommitInv(L, A)'
<1>1. /\ log' = log /\ role' = role /\ currentTerm' = currentTerm /\ votedFor' = votedFor /\ votes' = votes
      /\ msgs' = msgs /\ matchIndex' = matchIndex /\ commitIndex' = commitIndex /\ applied' = applied
    BY Zenon DEF vars, electionVars, logVars, memberVars, progressVars
<1>2. \A v, c \in Node, t \in Nat : Voted(v, c, t)' = Voted(v, c, t) BY <1>1 DEF Voted
<1>3. \A j, t \in Nat : Blocked(A, j, t)' = Blocked(A, j, t) BY Zenon, <1>1 DEF Blocked
<1>4. AckType(A)' /\ AckLogs(L, A)' /\ AckMatch(L, A)' /\ AckReply(L, A)'
    BY Zenon, <1>1 DEF CommitInv, AckType, AckLogs, AckMatch, AckReply, Counted
<1>5. CSkips(L, A)' BY Zenon, <1>3 DEF CommitInv, CSkips
<1>6. CHolds(A)' BY Zenon, <1>1, <1>3 DEF CommitInv, CHolds
<1>7. CVotes(A)'
    <2>1. CVotes(A) BY Zenon DEF CommitInv
    <2> SUFFICES ASSUME NEW v \in Node, NEW c \in Node, NEW T \in Nat, role'[c] = "CANDIDATE", currentTerm'[c] = T,
                        Voted(v, c, T)', NEW t \in Nat, NEW j \in Nat, 0 < t, t < T, 0 < j, j <= A[v][t]
                 PROVE  Reaches(log'[c], j, t) \/ Blocked(A, j, t)'
        BY Zenon DEF CVotes
    <2>2. Voted(v, c, T) /\ role[c] = "CANDIDATE" /\ currentTerm[c] = T BY Zenon, <1>1, <1>2
    <2>3. Reaches(log[c], j, t) \/ Blocked(A, j, t) BY Zenon, <2>1, <2>2 DEF CVotes
    <2> QED BY Zenon, <1>1, <1>3, <2>3
<1>8. CPast' BY Zenon, <1>1, <1>2 DEF CommitInv, CPast
<1>9. CAsks' BY Zenon, <1>1 DEF CommitInv, CAsks, LastTerm
<1>10. CIndex(L, A)' /\ CRequests(A)' /\ CApplied(L, A)'
    BY Zenon, <1>1 DEF CommitInv, CIndex, CRequests, Requests, CApplied, Safe
<1> QED BY Zenon, <1>4, <1>5, <1>6, <1>7, <1>8, <1>9, <1>10 DEF CommitInv

\* Two entries applied at an index are the same: the later of the two leaders
\* that committed them has both.
LEMMA CommitSafety ==
    ASSUME MajoritiesMeet, NEW L, HistInv(L), NEW A, CommitInv(L, A)
    PROVE  StateMachineSafety
<1> SUFFICES ASSUME NEW x \in applied, NEW y \in applied, x[1] = y[1] PROVE x[2] = y[2]
    BY Zenon DEF StateMachineSafety
<1>1. PICK t \in Nat, j \in Nat : /\ 0 < t /\ x[1] <= j /\ Stored(A, j, t)
                                  /\ x[1] \in 1..Len(L[t]) /\ L[t][x[1]] = x[2]
    BY Zenon DEF CommitInv, CApplied
<1>2. PICK u \in Nat, k \in Nat : /\ 0 < u /\ y[1] <= k /\ Stored(A, k, u)
                                  /\ y[1] \in 1..Len(L[u]) /\ L[u][y[1]] = y[2]
    BY Zenon DEF CommitInv, CApplied
<1>3. L[t] # <<>> /\ L[u] # <<>> BY <1>1, <1>2
<1>4. CASE t <= u
    <2>1. L[u][x[1]] = L[t][x[1]] BY <1>1, <1>3, <1>4, AppliedLater
    <2> QED BY Zenon, <1>1, <1>2, <2>1
<1>5. CASE u <= t
    <2>1. L[t][y[1]] = L[u][y[1]] BY <1>2, <1>3, <1>5, AppliedLater
    <2> QED BY Zenon, <1>1, <1>2, <2>1
<1> QED BY <1>4, <1>5

\* A leader has what was applied in earlier terms.
LEMMA CommitComplete ==
    ASSUME MajoritiesMeet, TypeInv, NEW L, HistInv(L), NEW A, CommitInv(L, A)
    PROVE  LeaderCompleteness
<1> SUFFICES ASSUME NEW n \in Node, role[n] = "LEADER", NEW x \in applied, x[3] < currentTerm[n]
             PROVE  x[1] <= Len(log[n]) /\ log[n][x[1]] = x[2]
    BY Zenon DEF LeaderCompleteness
<1>1. PICK T \in Nat : T = currentTerm[n] BY Zenon, LogTyped
<1>2. L[T] = log[n] /\ L[T] # <<>> BY Zenon, <1>1 DEF HistInv, HistLeader, HistElected
<1>3. PICK t \in Nat, j \in Nat : /\ 0 < t /\ t <= x[3] /\ x[1] <= j /\ Stored(A, j, t)
                                  /\ x[1] \in 1..Len(L[t]) /\ L[t][x[1]] = x[2]
    BY Zenon DEF CommitInv, CApplied
<1>4. x[3] \in Nat BY Zenon DEF CommitInv, CApplied
<1>5. t <= T BY <1>1, <1>3, <1>4
<1>6. PICK i \in 1..Len(L[t]) : i = x[1] /\ i <= j BY Zenon, <1>3
<1>7. i <= Len(L[T]) /\ L[T][i] = L[t][i] BY <1>2, <1>3, <1>5, <1>6, AppliedLater
<1> QED BY Zenon, <1>2, <1>3, <1>6, <1>7
-----------------------------------------------------------------------------
(* The two histories behind a state, and what they tell.                   *)

\* What a replica has committed it has applied: it keeps the one and has just
\* done the other.
LEMMA AppliedKept ==
    ASSUME NatWellOrdered, MajoritiesMeet, NEW n \in Node, NEW L, NEW M, NEW A, NEW B, CommitStep(n, L, M, A, B),
           AppliedInv
    PROVE  AppliedInv'
<1> SUFFICES ASSUME NEW k \in Node, NEW i \in 1..commitIndex'[k]
             PROVE  \E x \in applied' : x[1] = i /\ x[2] = log'[k][i]
    BY Zenon DEF AppliedInv
<1>1. LogStep(n) /\ TypeInv /\ TypeInv' /\ applied \subseteq applied'
    BY Zenon DEF CommitStep, Step, LogStep, Commits, AppliesOwn
<1>2. PICK c \in Nat : c = commitIndex[k] BY Zenon, <1>1, CommitTyped
<1>3. PICK d \in Nat : d = commitIndex'[k] BY Zenon, <1>1 DEF TypeInv, TypeOK
<1>4. CASE i \in 1..c
    <2>1. c # 0 BY <1>2, <1>4
    <2>2. SameUpTo(log'[k], log[k], c) BY Zenon, <1>2, <2>1, CommittedStays
    <2>3. log'[k][i] = log[k][i] BY Zenon, <1>4, <2>2 DEF SameUpTo
    <2>4. PICK x \in applied : x[1] = i /\ x[2] = log[k][i] BY Zenon, <1>2, <1>4 DEF AppliedInv
    <2> QED BY Zenon, <1>1, <2>3, <2>4
<1>5. CASE i \notin 1..c
    <2>1. i \in 1..d BY Zenon, <1>3
    <2>2. i \in c + 1..d /\ d # 0 /\ d # c BY <1>2, <1>3, <1>5, <2>1
    <2>3. k = n BY Zenon, <1>1, <1>2, <1>3, <2>2 DEF LogStep
    <2>4. <<i, log'[n][i], currentTerm'[n]>> \in applied'
        BY Zenon, <1>1, <1>2, <1>3, <2>2, <2>3 DEF LogStep, Commits, AppliesOwn
    <2> QED BY Zenon, <2>3, <2>4
<1> QED BY Zenon, <1>4, <1>5

\* the group has a history of leaders and one of followers
Explained == AppliedInv /\ \E L, A : HistInv(L) /\ CommitInv(L, A) /\ OnceInv(L)

\* A new group has empty ones.
LEMMA ExplainedInit ==
    ASSUME Init
    PROVE  Explained
<1>1. PICK L : HistInv(L) /\ \A t \in Nat : L[t] = <<>> BY Zenon, HistInit
<1>2. PICK A : CommitInv(L, A) BY Zenon, <1>1, CommitInit
<1>3. OnceInv(L) BY Zenon, <1>1, OnceInit
<1>4. AppliedInv
    <2>1. \A n \in Node : commitIndex[n] = 0 BY Zenon DEF Init
    <2>2. 1..0 = {} OBVIOUS
    <2> QED BY Zenon, <2>1, <2>2 DEF AppliedInv
<1> QED BY Zenon, <1>1, <1>2, <1>3, <1>4 DEF Explained

\* They follow every step, and the step loses nothing that is committed.
LEMMA ExplainedKept ==
    ASSUME NatWellOrdered, MajoritiesMeet, AddsOne, Static, TypeInv, TypeInv', BallotInv, BallotInv', Explained,
           NEW n \in Node, BallotStep(n), LogStep(n)
    PROVE  /\ Explained'
           /\ \A k \in Node : \A i \in 1..commitIndex[k] : i <= Len(log'[k]) /\ log'[k][i] = log[k][i]
<1>1. PICK L, A : HistInv(L) /\ CommitInv(L, A) /\ OnceInv(L) BY Zenon DEF Explained
<1>2. PICK M, B : CommitStep(n, L, M, A, B) /\ HistInv(M)' /\ CommitInv(M, B)' BY Zenon, <1>1, CommitKept
<1>3. OnceInv(M)' BY Zenon, <1>1, <1>2, OnceKept DEF CommitStep
<1>4. AppliedInv' BY Zenon, <1>2, AppliedKept DEF Explained
<1>5. ASSUME NEW k \in Node, NEW i \in 1..commitIndex[k] PROVE i <= Len(log'[k]) /\ log'[k][i] = log[k][i]
    <2>1. PICK c \in Nat : c = commitIndex[k] BY Zenon, CommitTyped
    <2>2. i \in 1..c /\ i <= c /\ c # 0 BY <2>1
    <2>3. SameUpTo(log'[k], log[k], c) BY Zenon, <1>2, <2>1, <2>2, CommittedStays
    <2>4. Len(log'[k]) \in Nat BY Zenon, LogTypedAfter
    <2>5. c <= Len(log'[k]) /\ log'[k][i] = log[k][i] BY Zenon, <2>2, <2>3 DEF SameUpTo
    <2> QED BY <2>2, <2>4, <2>5
<1> QED BY Zenon, <1>2, <1>3, <1>4, <1>5 DEF Explained

\* Nothing changes when no replica steps.
LEMMA ExplainedStutters ==
    ASSUME Explained, UNCHANGED vars
    PROVE  Explained'
<1>1. PICK L, A : HistInv(L) /\ CommitInv(L, A) /\ OnceInv(L) BY Zenon DEF Explained
<1>2. HistInv(L)' /\ CommitInv(L, A)' /\ OnceInv(L)' BY Zenon, <1>1, HistStutters, CommitStutters, OnceStutters
<1>3. AppliedInv' BY Zenon DEF Explained, AppliedInv, vars, logVars
<1> QED BY Zenon, <1>2, <1>3 DEF Explained

\* What the group owes to its histories.
LEMMA ExplainedTells ==
    ASSUME MajoritiesMeet, TypeInv, Explained
    PROVE  /\ RequestsPlain /\ LogMatching /\ MatchIndexTrue /\ StateMachineSafety /\ LeaderCompleteness
           /\ \A n \in Node : Once(log[n])
<1>1. PICK L, A : HistInv(L) /\ CommitInv(L, A) /\ OnceInv(L) BY Zenon DEF Explained
<1>2. RequestsPlain /\ LogMatching /\ MatchIndexTrue BY Zenon, <1>1, HistPlain, HistMatching, HistProgress
<1>3. StateMachineSafety /\ LeaderCompleteness BY Zenon, <1>1, CommitSafety, CommitComplete
<1> QED BY Zenon, <1>1, <1>2, <1>3 DEF OnceInv
=============================================================================
