---------------------------- MODULE RaftHistory -----------------------------
(***************************************************************************)
(* Replication in a group whose members do not change.  The argument runs  *)
(* over a history that the program does not keep: L[t] is the log of the   *)
(* leader of term t, as it was when that leader last led, and empty if the *)
(* term has had no leader.  HistInv(L) says that every log is put together *)
(* from these logs (Made), that requests carry pieces of them, and that    *)
(* what a leader believes of a follower, or what an answer on its way will *)
(* make it believe, is true of the follower's log.                         *)
(*                                                                         *)
(* A step extends at most one of the logs L[t], the one of the term the    *)
(* stepping replica leads (HistStep); so the invariant is stated of some   *)
(* history and kept with the next one.                                     *)
(***************************************************************************)
EXTENDS RaftInvariant

-----------------------------------------------------------------------------
(* A log beside another one.                                               *)

\* a and b hold different entries at some index up to i
Differs(a, b, i) == \E f \in 1..i : f <= Len(a) /\ f <= Len(b) /\ a[f] # b[f]

\* a goes no further than b where it agrees with b up to i
InStep(a, b, i) == Prefix(a, b) \/ Differs(a, b, i)

\* the entries from i on are of term t
Fresh(lg, i, t) == \A k \in 1..Len(lg) : i <= k => lg[k].term = t

Ordered(lg) == \A i, k \in 1..Len(lg) : i <= k => lg[i].term <= lg[k].term

\* a and b hold the same entries up to every index where they have one term
TermsTell(a, b) == \A i \in 1..Len(a) : i <= Len(b) /\ a[i].term = b[i].term => SameUpTo(a, b, i)

\* What holds of a log beside a leader's holds when the leader's log grows.
LEMMA LogGrows ==
    ASSUME NEW lg \in Seq(EntrySet), NEW a \in Seq(EntrySet), NEW b \in Seq(EntrySet), Prefix(a, b)
    PROVE  /\ \A i \in Nat : SameUpTo(lg, a, i) => SameUpTo(lg, b, i)
           /\ Prefix(lg, a) => Prefix(lg, b)
           /\ \A i \in Nat : InStep(lg, a, i) => InStep(lg, b, i)
<1>1. Len(lg) \in Nat /\ Len(a) \in Nat /\ Len(b) \in Nat OBVIOUS
<1>2. Len(a) <= Len(b) /\ \A k \in 1..Len(a) : a[k] = b[k] BY Zenon DEF Prefix, SameUpTo
<1>3. \A i \in Nat : SameUpTo(lg, a, i) => SameUpTo(lg, b, i) BY <1>1, <1>2 DEF SameUpTo
<1>4. Prefix(lg, a) => Prefix(lg, b) BY Zenon, <1>1, <1>3 DEF Prefix
<1>5. ASSUME NEW i \in Nat, Differs(lg, a, i) PROVE Differs(lg, b, i)
    <2>1. PICK f \in 1..i : f <= Len(lg) /\ f <= Len(a) /\ lg[f] # a[f] BY Zenon, <1>5 DEF Differs
    <2>2. f <= Len(b) /\ a[f] = b[f] BY <1>1, <1>2, <2>1
    <2> QED BY Zenon, <2>1, <2>2 DEF Differs
<1> QED BY Zenon, <1>3, <1>4, <1>5 DEF InStep

\* A longer log still holds what a request carries.
LEMMA SegmentGrows ==
    ASSUME NEW a \in Seq(EntrySet), NEW b \in Seq(EntrySet), Prefix(a, b),
           NEW m, m.prevIndex \in Nat, m.entries \in Seq(EntrySet), Segment(m, a)
    PROVE  Segment(m, b)
<1>1. Len(a) \in Nat /\ Len(b) \in Nat /\ Len(m.entries) \in Nat OBVIOUS
<1>2. Len(a) <= Len(b) /\ \A k \in 1..Len(a) : a[k] = b[k] BY Zenon DEF Prefix, SameUpTo
<1>3. m.prevIndex + Len(m.entries) <= Len(a) /\ m.prevTerm = TermAt(a, m.prevIndex) BY Zenon DEF Segment
<1>4. TermAt(b, m.prevIndex) = TermAt(a, m.prevIndex)
    <2>1. m.prevIndex \in 1..Len(b) <=> m.prevIndex \in 1..Len(a) BY <1>1, <1>2, <1>3
    <2> QED BY Zenon, <1>2, <2>1 DEF TermAt
<1>5. ASSUME NEW j \in 1..Len(m.entries) PROVE m.entries[j] = b[m.prevIndex + j]
    <2>1. m.prevIndex + j \in 1..Len(a) BY <1>1, <1>3
    <2> QED BY Zenon, <1>2, <2>1 DEF Segment
<1> QED BY <1>1, <1>2, <1>3, <1>4, <1>5 DEF Segment

\* A log without entries of the leader's term t is in step with the leader's
\* log ld as far as ld is older than t.
LEMMA FreshInStep ==
    ASSUME NatWellOrdered, NEW lg \in Seq(EntrySet), NEW ld \in Seq(EntrySet), NEW t,
           NEW i \in Nat \ {0}, Fresh(ld, i, t), ld # <<>>, ld[Len(ld)].term = t,
           \A k \in 1..Len(lg) : lg[k].term # t
    PROVE  InStep(lg, ld, i)
<1> DEFINE D == {f \in 1..Len(lg) : f <= Len(ld) /\ lg[f] # ld[f]}
<1>0. Len(lg) \in Nat /\ Len(ld) \in Nat /\ Len(ld) # 0 OBVIOUS
<1>1. CASE D = {}
    <2>1. \A f \in 1..Len(lg) : f <= Len(ld) => lg[f] = ld[f] BY Zenon, <1>1
    <2>2. Len(lg) <= Len(ld)
        <3> SUFFICES ASSUME ~(Len(lg) <= Len(ld)) PROVE FALSE BY Zenon
        <3>1. Len(ld) \in 1..Len(lg) BY <1>0
        <3> QED BY <1>0, <2>1, <3>1
    <2> QED BY <1>0, <2>1, <2>2 DEF InStep, Prefix, SameUpTo
<1>2. CASE D # {}
    <2>1. D \in SUBSET Nat BY <1>0
    <2> HIDE DEF D
    <2>2. PICK f \in D : \A g \in D : f <= g BY Zenon, <1>2, <2>1 DEF NatWellOrdered
    <2>3. f \in 1..Len(lg) /\ f <= Len(ld) /\ lg[f] # ld[f] BY Zenon, <2>2 DEF D
    <2>4. f <= i
        <3> SUFFICES ASSUME ~(f <= i) PROVE FALSE BY Zenon
        <3>1. f - 1 \in 1..Len(lg) /\ f - 1 \in 1..Len(ld) /\ i <= f - 1 /\ ~(f <= f - 1) BY <1>0, <2>3
        <3>2. lg[f - 1] = ld[f - 1] BY <1>0, <2>2, <3>1 DEF D
        <3>3. ld[f - 1].term = t BY Zenon, <3>1 DEF Fresh
        <3> QED BY Zenon, <3>1, <3>2, <3>3
    <2>5. f \in 1..i BY <1>0, <2>3, <2>4
    <2> QED BY <2>3, <2>5 DEF InStep, Differs
<1> QED BY Zenon, <1>1, <1>2

\* What an accepted request makes of a follower's log lg, where ld is the
\* leader's and the two agree up to every index at which they have the same
\* term: the result agrees with ld as far as the request goes, no further
\* unless nothing was new, and loses nothing lg shared with ld.
LEMMA MergeFollows ==
    ASSUME NEW lg \in Seq(EntrySet), NEW ld \in Seq(EntrySet), TermsTell(lg, ld),
           NEW m, m.prevIndex \in Nat, m.entries \in Seq(EntrySet), Segment(m, ld),
           TermAt(lg, m.prevIndex) = m.prevTerm,
           NEW r \in Seq(EntrySet), NEW c \in Nat, Merged(lg, m.prevIndex, m.entries, r, c)
    PROVE  /\ SameUpTo(r, ld, m.prevIndex + Len(m.entries))
           /\ r = lg \/ Prefix(r, ld)
           /\ \A i \in Nat : SameUpTo(lg, ld, i) => SameUpTo(r, lg, i)
<1> DEFINE prev == m.prevIndex
           es   == m.entries
<1>1. /\ prev \in Nat /\ Len(es) \in Nat /\ Len(lg) \in Nat /\ Len(ld) \in Nat /\ prev + Len(es) <= Len(ld)
      /\ m.prevTerm = TermAt(ld, prev) /\ \A j \in 1..Len(es) : es[j] = ld[prev + j]
      /\ TermAt(lg, prev) = m.prevTerm /\ Len(r) \in Nat
    BY DEF Segment
<1>2. /\ c \in prev..prev + Len(es) /\ c <= Len(lg)
      /\ \A i \in prev + 1..c : lg[i].term = es[i - prev].term
      /\ \/ r = lg /\ c = prev + Len(es)
         \/ /\ c < prev + Len(es) /\ Len(r) = prev + Len(es)
            /\ c + 1 > Len(lg) \/ lg[c + 1].term # es[c + 1 - prev].term
            /\ \A i \in 1..c : r[i] = lg[i]
            /\ \A i \in c + 1..prev + Len(es) : r[i] = es[i - prev]
    BY Zenon DEF Merged
<1> HIDE DEF prev, es
<1>3. SameUpTo(lg, ld, c)
    <2>1. CASE c = 0 BY <1>1, <2>1 DEF SameUpTo
    <2>2. CASE c # 0
        <3>1. c \in 1..Len(lg) /\ c \in 1..Len(ld) BY <1>1, <1>2, <2>2
        <3>2. lg[c].term = ld[c].term
            <4>1. CASE c = prev BY Zenon, <1>1, <3>1, <4>1 DEF TermAt
            <4>2. CASE c # prev
                <5>1. c \in prev + 1..c /\ c - prev \in 1..Len(es) /\ prev + (c - prev) = c BY <1>1, <1>2, <4>2
                <5> QED BY Zenon, <1>1, <1>2, <5>1
            <4> QED BY Zenon, <4>1, <4>2
        <3> QED BY <1>1, <3>1, <3>2 DEF TermsTell
    <2> QED BY Zenon, <2>1, <2>2
<1>4. \A i \in c + 1..prev + Len(es) : es[i - prev] = ld[i]
    <2> TAKE i \in c + 1..prev + Len(es)
    <2>1. i - prev \in 1..Len(es) /\ prev + (i - prev) = i BY <1>1, <1>2
    <2> QED BY Zenon, <1>1, <2>1
<1>5. CASE r = lg /\ c = prev + Len(es)
    <2>1. SameUpTo(r, ld, prev + Len(es)) BY Zenon, <1>3, <1>5
    <2>2. \A i \in Nat : SameUpTo(lg, ld, i) => SameUpTo(r, lg, i) BY Zenon, <1>5 DEF SameUpTo
    <2> QED BY Zenon, <1>5, <2>1, <2>2 DEF prev, es
<1>6. CASE ~(r = lg /\ c = prev + Len(es))
    <2>1. \A i \in 1..prev + Len(es) : r[i] = ld[i]
        <3>1. \A i \in 1..prev + Len(es) : i \in 1..c \/ i \in c + 1..prev + Len(es) BY <1>1, <1>2
        <3>2. \A i \in 1..c : lg[i] = ld[i] BY Zenon, <1>3 DEF SameUpTo
        <3> QED BY Zenon, <1>2, <1>4, <1>6, <3>1, <3>2
    <2>2. SameUpTo(r, ld, prev + Len(es)) /\ Prefix(r, ld) BY <1>1, <1>2, <1>6, <2>1 DEF Prefix, SameUpTo
    <2>3. ASSUME NEW i \in Nat, SameUpTo(lg, ld, i) PROVE SameUpTo(r, lg, i)
        <3>1. i <= Len(lg) /\ \A k \in 1..i : lg[k] = ld[k] BY Zenon, <2>3 DEF SameUpTo
        <3>2. i <= c
            <4> SUFFICES ASSUME ~(i <= c) PROVE FALSE BY Zenon
            <4>1. c + 1 \in 1..i /\ ~(c + 1 > Len(lg)) /\ c + 1 \in c + 1..prev + Len(es) BY <1>1, <1>2, <1>6, <3>1
            <4>2. lg[c + 1] = ld[c + 1] BY Zenon, <3>1, <4>1
            <4>3. es[c + 1 - prev] = ld[c + 1]
                <5>1. c + 1 - prev \in 1..Len(es) /\ prev + (c + 1 - prev) = c + 1 BY <1>1, <1>2, <4>1
                <5> QED BY Zenon, <1>1, <5>1
            <4> QED BY Zenon, <1>2, <1>6, <4>1, <4>2, <4>3
        <3> QED BY <1>1, <1>2, <1>6, <3>1, <3>2 DEF SameUpTo
    <2> QED BY Zenon, <2>2, <2>3 DEF prev, es
<1> QED BY Zenon, <1>5, <1>6

-----------------------------------------------------------------------------
(* The inductive invariant.                                                *)

HistType(L) == L \in [Nat -> Seq(EntrySet)]

\* up to every entry, lg is what the leader of the entry's term had
Made(L, lg) == \A i \in 1..Len(lg) : SameUpTo(lg, L[lg[i].term], i)

\* p holds the first i entries of the leader of term t, and nothing else,
\* until it moves to a later term
Acked(L, t, p, i) ==
    /\ t <= currentTerm[p] /\ i <= Len(L[t])
    /\ t = currentTerm[p] => Prefix(log[p], L[t]) /\ i <= Len(log[p])

\* the leader of term t may send its entries from i on to p: where the log of
\* p goes beyond the leader's, an entry up to i gives it away
Synced(L, t, p, i) ==
    /\ currentTerm[p] < t => Fresh(L[t], i, t)
    /\ currentTerm[p] = t => InStep(log[p], L[t], i)

\* the logs of leaders
HistLogs(L) ==
    \A t \in Nat : L[t] # <<>> =>
        /\ L[t][Len(L[t])].term = t /\ Ordered(L[t]) /\ Made(L, L[t])
        /\ \E n \in Node : <<t, n>> \in elected

HistElected(L) ==
    \A t \in Nat, n \in Node : <<t, n>> \in elected =>
        /\ L[t] # <<>> /\ n \in InitVoters
        /\ t <= currentTerm[n] /\ (t = currentTerm[n] => role[n] # "CANDIDATE")

HistMade(L) ==
    \A n \in Node :
        /\ Made(L, log[n])
        /\ \A i \in 1..Len(log[n]) : /\ log[n][i].term <= currentTerm[n]
                                     /\ role[n] = "CANDIDATE" => log[n][i].term < currentTerm[n]

HistLeader(L) ==
    \A n \in Node : role[n] = "LEADER" => <<currentTerm[n], n>> \in elected /\ L[currentTerm[n]] = log[n]

HistRequests(L) ==
    /\ \A m \in msgs : m.type # "ReadQuorum"
    /\ \A m \in Requests :
          /\ <<m.term, m.from>> \in elected /\ m.to \in InitVoters \ {m.from}
          /\ Segment(m, L[m.term]) /\ (m.entries = <<>> => m.prevTerm = m.term)
          /\ Synced(L, m.term, m.to, m.prevIndex + 1)

\* what an answer on its way tells the leader of the term it was sent in
Told(L, m) ==
    /\ <<m.sentTerm, m.to>> \in elected /\ m.from # m.to /\ m.sentTerm <= currentTerm[m.from]
    /\ IF m.success THEN Acked(L, m.sentTerm, m.from, m.index)
       ELSE m.term <= m.sentTerm => Synced(L, m.sentTerm, m.from, MinOf(m.prevIndex, m.index))

HistAnswers(L) == \A m \in msgs : m.type = "AppendReply" => Told(L, m)

HistNext(L) ==
    \A n \in Node : role[n] = "LEADER" => \A p \in InitVoters \ {n} :
        nextIndex[n][p] # 0 /\ Synced(L, currentTerm[n], p, nextIndex[n][p])

HistMatch(L) ==
    \A n, p \in Node : role[n] = "LEADER" /\ matchIndex[n][p] # 0 =>
        p # n /\ Acked(L, currentTerm[n], p, matchIndex[n][p])

HistInv(L) ==
    /\ HistType(L)
    /\ HistLogs(L) /\ HistElected(L) /\ HistMade(L) /\ HistLeader(L)
    /\ HistRequests(L) /\ HistAnswers(L) /\ HistNext(L) /\ HistMatch(L)

\* the history after a step of n: a leader that proposes has a longer log
HistStep(n, L, M) ==
    \/ M = L /\ (KeepsLog(n) \/ \E m : Takes(n, m) \/ TakesPart(n, m))
    \/ (\E e : Proposes(n, e)) /\ M = [L EXCEPT ![currentTerm'[n]] = log'[n]]

-----------------------------------------------------------------------------
(* Facts about histories.                                                  *)

\* What a history holds.
LEMMA HistTyped ==
    ASSUME NEW L, HistType(L), NEW t \in Nat
    PROVE  L[t] \in Seq(EntrySet) /\ Len(L[t]) \in Nat
<1>1. L[t] \in Seq(EntrySet) BY Zenon DEF HistType
<1> QED BY Zenon, <1>1, LogLength

\* The terms of entries.
LEMMA EntryTerms ==
    ASSUME NEW lg \in Seq(EntrySet)
    PROVE  Len(lg) \in Nat /\ \A i \in 1..Len(lg) : lg[i] \in EntrySet /\ lg[i].term \in Nat \ {0}
<1>1. Len(lg) \in Nat /\ \A i \in 1..Len(lg) : lg[i] \in EntrySet OBVIOUS
<1>2. \A e \in EntrySet : e.term \in Nat \ {0} BY Zenon DEF EntrySet
<1> QED BY Zenon, <1>1, <1>2

\* Two logs made from the same history agree up to an index where they have
\* the same term.
LEMMA MadeAgree ==
    ASSUME NEW L, HistType(L), NEW a \in Seq(EntrySet), NEW b \in Seq(EntrySet),
           Made(L, a), Made(L, b), NEW i \in 1..Len(a), i <= Len(b), a[i].term = b[i].term
    PROVE  SameUpTo(a, b, i)
<1>0. Len(a) \in Nat /\ Len(b) \in Nat BY Zenon, LogLength
<1>1. i \in 1..Len(b) /\ Len(a) \in Nat /\ Len(b) \in Nat BY <1>0
<1>2. PICK ld : ld = L[a[i].term] BY Zenon
<1>3. SameUpTo(a, ld, i) /\ SameUpTo(b, ld, i) BY Zenon, <1>1, <1>2 DEF Made
<1> QED BY Zenon, <1>1, <1>3 DEF SameUpTo

\* A prefix of a log made from a history is made from it.
LEMMA PrefixMade ==
    ASSUME NEW L, HistType(L), NEW a \in Seq(EntrySet), NEW b \in Seq(EntrySet),
           Made(L, b), Prefix(a, b)
    PROVE  Made(L, a)
<1>1. Len(a) \in Nat /\ Len(b) \in Nat OBVIOUS
<1>2. Len(a) <= Len(b) /\ \A k \in 1..Len(a) : a[k] = b[k] BY Zenon DEF Prefix, SameUpTo
<1> SUFFICES ASSUME NEW i \in 1..Len(a) PROVE SameUpTo(a, L[a[i].term], i) BY Zenon DEF Made
<1>3. i \in 1..Len(b) /\ a[i] = b[i]
    <2>1. i \in Nat /\ 1 <= i /\ i <= Len(b) BY <1>1, <1>2
    <2> QED BY <1>2, <2>1
<1>4. PICK ld : ld = L[b[i].term] BY Zenon
<1>5. SameUpTo(b, ld, i) BY Zenon, <1>3, <1>4 DEF Made
<1>6. SameUpTo(a, ld, i) BY <1>1, <1>2, <1>5 DEF SameUpTo
<1> QED BY Zenon, <1>3, <1>4, <1>6

\* A log made from a history is made from one that has grown.
LEMMA MadeGrows ==
    ASSUME NEW L, HistType(L), NEW M, HistType(M),
           \A t \in Nat : Prefix(L[t], M[t]), NEW lg \in Seq(EntrySet), Made(L, lg)
    PROVE  Made(M, lg)
<1> SUFFICES ASSUME NEW i \in 1..Len(lg) PROVE SameUpTo(lg, M[lg[i].term], i) BY Zenon DEF Made
<1>1. PICK t : t = lg[i].term BY Zenon
<1>0. Len(lg) \in Nat /\ lg[i].term \in Nat \ {0} BY Zenon, EntryTerms
<1>2. t \in Nat /\ i \in Nat BY <1>0, <1>1
<1>3. L[t] \in Seq(EntrySet) /\ M[t] \in Seq(EntrySet) /\ Prefix(L[t], M[t]) /\ SameUpTo(lg, L[t], i)
    BY Zenon, <1>1, <1>2, HistTyped DEF Made
<1>4. SameUpTo(lg, M[t], i) BY Zenon, <1>2, <1>3, LogGrows
<1> QED BY Zenon, <1>1, <1>4

\* The terms of a log made from ordered logs never decrease.
LEMMA MadeOrdered ==
    ASSUME NEW L, HistType(L), HistLogs(L), NEW lg \in Seq(EntrySet), Made(L, lg)
    PROVE  Ordered(lg)
<1> SUFFICES ASSUME NEW i \in 1..Len(lg), NEW k \in 1..Len(lg), i <= k PROVE lg[i].term <= lg[k].term
    BY Zenon DEF Ordered
<1>1. PICK t : t = lg[k].term BY Zenon
<1>2. t \in Nat BY Zenon, <1>1, EntryTerms
<1>3. PICK ld \in Seq(EntrySet) : ld = L[t] BY Zenon, <1>2, HistTyped
<1>4. k <= Len(ld) /\ \A x \in 1..k : lg[x] = ld[x] BY Zenon, <1>1, <1>3 DEF Made, SameUpTo
<1>5. Len(ld) \in Nat /\ Len(lg) \in Nat BY Zenon, LogLength
<1>6. i \in 1..k /\ k \in 1..k /\ i \in 1..Len(ld) /\ k \in 1..Len(ld) BY <1>4, <1>5
<1>7. ld # <<>> BY <1>5, <1>6
<1>8. Ordered(ld) BY Zenon, <1>2, <1>3, <1>7 DEF HistLogs
<1>9. ld[i].term <= ld[k].term BY Zenon, <1>6, <1>8 DEF Ordered
<1> QED BY Zenon, <1>4, <1>6, <1>9

\* become_follower and handle_append_entries: no step takes a replica back to
\* an earlier term.
LEMMA TermsKept ==
    ASSUME TypeInv, TypeInv', NEW n \in Node, LogStep(n)
    PROVE  \A q \in Node : currentTerm[q] \in Nat /\ currentTerm'[q] \in Nat /\ currentTerm[q] <= currentTerm'[q]
<1> SUFFICES ASSUME NEW q \in Node PROVE currentTerm[q] \in Nat /\ currentTerm'[q] \in Nat /\ currentTerm[q] <= currentTerm'[q]
    BY Zenon
<1>1. PICK a \in Nat : a = currentTerm[q] BY Zenon, LogTyped
<1>2. PICK b \in Nat : b = currentTerm'[q] BY Zenon, LogTypedAfter
<1>3. b = a \/ b >= a BY Zenon, <1>1, <1>2 DEF LogStep
<1>4. a <= b BY <1>3
<1> QED BY Zenon, <1>1, <1>2, <1>4

-----------------------------------------------------------------------------
(* What a step does to the history.                                        *)

Grows(n, L, M) ==
    /\ HistType(M) /\ elected \subseteq elected'
    /\ \A t \in Nat : /\ Prefix(L[t], M[t])
                      /\ L[t] # <<>> => \A k \in 1..Len(M[t]) : k > Len(L[t]) => M[t][k].term = t
                      /\ M[t] # L[t] => t = currentTerm'[n] /\ role'[n] = "LEADER"
    /\ role'[n] = "LEADER" => M[currentTerm'[n]] = log'[n] /\ <<currentTerm'[n], n>> \in elected'

\* become_leader: the term of a new leader had no leader before.
LEMMA NewTerm ==
    ASSUME TypeInv, TypeInv', ElectionSafety', NEW L, HistInv(L), NEW n \in Node, LogStep(n), NewLeader(n)
    PROVE  L[currentTerm'[n]] = <<>>
<1> DEFINE T == currentTerm'[n]
<1>1. T \in Nat /\ currentTerm[n] \in Nat BY Zenon, LogTyped, LogTypedAfter
<1>2. elected' = elected \cup {<<T, n>>} /\ (T > currentTerm[n] \/ role[n] = "CANDIDATE") /\ T >= currentTerm[n]
    BY Zenon DEF NewLeader, LogStep
<1> HIDE DEF T
<1> SUFFICES ASSUME L[T] # <<>> PROVE FALSE BY Zenon DEF T
<1>3. PICK k \in Node : <<T, k>> \in elected BY Zenon, <1>1 DEF HistInv, HistLogs
<1>4. k = n
    <2>1. <<T, k>> \in elected' /\ <<T, n>> \in elected' BY Zenon, <1>2, <1>3
    <2>2. <<T, k>>[1] = <<T, n>>[1] => <<T, k>>[2] = <<T, n>>[2] BY Zenon, <2>1 DEF ElectionSafety
    <2> QED BY Zenon, <2>2
<1>5. T <= currentTerm[n] /\ (T = currentTerm[n] => role[n] # "CANDIDATE") BY Zenon, <1>1, <1>3, <1>4 DEF HistInv, HistElected
<1> QED BY <1>1, <1>2, <1>5

\* The history grows as HistStep says.
LEMMA HistGrows ==
    ASSUME TypeInv, TypeInv', ElectionSafety', NEW L, HistInv(L), NEW M, NEW n \in Node,
           LogStep(n), HistStep(n, L, M)
    PROVE  Grows(n, L, M)
<1> DEFINE T == currentTerm'[n]
<1>0. HistType(L) /\ HistLeader(L) BY Zenon DEF HistInv
<1>1. /\ T \in Nat /\ log[n] \in Seq(EntrySet) /\ Len(log[n]) \in Nat
      /\ log'[n] \in Seq(EntrySet) /\ Len(log'[n]) \in Nat
    BY Zenon, LogTyped, LogTypedAfter
<1>2. \A t \in Nat : L[t] \in Seq(EntrySet) /\ Len(L[t]) \in Nat BY Zenon, <1>0, HistTyped
<1>a. \A t \in Nat : Prefix(L[t], L[t]) BY <1>2 DEF Prefix, SameUpTo
<1>3. CASE M = L /\ (KeepsLog(n) \/ \E m : Takes(n, m) \/ TakesPart(n, m))
    <2>1. elected' = elected /\ (role'[n] = "LEADER" => KeepsLog(n))
        BY Zenon, <1>3 DEF KeepsLog, Takes, TakesPart, Accepts
    <2>2. role'[n] = "LEADER" => L[T] = log'[n] /\ <<T, n>> \in elected'
        BY Zenon, <1>0, <2>1 DEF KeepsLog, HistLeader
    <2> HIDE DEF T
    <2>3. \A t \in Nat : \A k \in 1..Len(L[t]) : k > Len(L[t]) => L[t][k].term = t BY <1>2
    <2> QED BY Zenon, <1>0, <1>3, <1>a, <2>1, <2>2, <2>3 DEF Grows, T
<1>4. CASE (\E e : Proposes(n, e)) /\ M = [L EXCEPT ![T] = log'[n]]
    <2>1. PICK e : Proposes(n, e) BY Zenon, <1>4
    <2>2. /\ role'[n] = "LEADER" /\ e \in EntrySet /\ e.term = T /\ log'[n] = Append(log[n], e)
          /\ \/ role[n] = "LEADER" /\ T = currentTerm[n] /\ elected' = elected
             \/ NewLeader(n)
        BY Zenon, <2>1 DEF Proposes
    <2>3. elected \subseteq elected' /\ <<T, n>> \in elected' BY Zenon, <1>0, <2>2 DEF NewLeader, HistLeader
    <2>4. L[T] = <<>> \/ L[T] = log[n] BY Zenon, <1>0, <2>2, NewTerm DEF HistLeader
    <2> HIDE DEF T
    <2>5. HistType(M) /\ M[T] = log'[n] /\ \A t \in Nat \ {T} : M[t] = L[t] BY Zenon, <1>0, <1>1, <1>4 DEF HistType
    <2>6. /\ Len(log'[n]) = Len(log[n]) + 1 /\ Prefix(log[n], log'[n]) /\ log'[n][Len(log[n]) + 1] = e
        BY <1>1, <2>2, AppendGrows
    <2>7. Prefix(L[T], log'[n])
        <3>1. CASE L[T] = <<>> BY <1>1, <3>1 DEF Prefix, SameUpTo
        <3>2. CASE L[T] = log[n] BY Zenon, <2>6, <3>2
        <3> QED BY Zenon, <2>4, <3>1, <3>2
    <2>8. L[T] # <<>> => \A k \in 1..Len(log'[n]) : k > Len(L[T]) => log'[n][k].term = T
        <3> SUFFICES ASSUME L[T] = log[n], NEW k \in 1..Len(log'[n]), k > Len(log[n]) PROVE log'[n][k].term = T
            BY Zenon, <2>4
        <3>1. k = Len(log[n]) + 1 BY <1>1, <2>6
        <3> QED BY Zenon, <2>2, <2>6, <3>1
    <2>9. \A t \in Nat : /\ Prefix(L[t], M[t])
                         /\ L[t] # <<>> => \A k \in 1..Len(M[t]) : k > Len(L[t]) => M[t][k].term = t
                         /\ M[t] # L[t] => t = T
        <3> TAKE t \in Nat
        <3>1. CASE t = T BY Zenon, <2>5, <2>7, <2>8, <3>1
        <3>2. CASE t # T
            <4>1. M[t] = L[t] /\ Len(L[t]) \in Nat BY Zenon, <1>2, <2>5, <3>2
            <4> QED BY <1>a, <3>2, <4>1
        <3> QED BY Zenon, <3>1, <3>2
    <2> QED BY Zenon, <2>2, <2>3, <2>5, <2>9 DEF Grows, T
<1> QED BY Zenon, <1>3, <1>4 DEF HistStep

\* Nothing comes before the first entry of a leader's log.
LEMMA HistPlain ==
    ASSUME TypeInv, NEW L, HistInv(L)
    PROVE  RequestsPlain
<1>1. HistRequests(L) BY Zenon DEF HistInv
<1>2. ASSUME NEW m \in Requests, m.prevIndex = 0 PROVE m.prevTerm = 0
    <2>1. m.prevTerm = TermAt(L[m.term], 0) BY Zenon, <1>1, <1>2 DEF HistRequests, Segment
    <2>2. 0 \notin 1..Len(L[m.term]) OBVIOUS
    <2> QED BY Zenon, <2>1, <2>2 DEF TermAt
<1> QED BY Zenon, <1>1, <1>2 DEF RequestsPlain, HistRequests

\* A replica that takes a request holds what the leader holds up to the end of
\* it, and loses nothing it had in common with the leader.
LEMMA MergeHistory ==
    ASSUME NatWellOrdered, TypeInv, TypeInv', NEW L, HistInv(L), NEW n \in Node, LogStep(n),
           NEW m, Accepts(n, m), NEW r, r = MergeEntries(log[n], m.prevIndex, m.entries)
    PROVE  /\ m \in Requests /\ m.term \in Nat \ {0} /\ L[m.term] # <<>> /\ r \in Seq(EntrySet)
           /\ SameUpTo(r, L[m.term], m.prevIndex + Len(m.entries))
           /\ Prefix(r, L[m.term])
           /\ \A i \in Nat : SameUpTo(log[n], L[m.term], i) => SameUpTo(r, log[n], i)
<1>1. m \in Requests /\ m.to = n /\ m.term = currentTerm'[n] /\ PrevMatches(m) BY Zenon DEF Accepts
<1>2. /\ HistType(L) /\ HistLogs(L) /\ HistElected(L) /\ HistMade(L) /\ HistRequests(L)
    BY Zenon DEF HistInv
<1>3. PICK T : T = m.term BY Zenon
<1>4. PICK lg : lg = log[n] BY Zenon
<1>5. /\ T \in Nat /\ m.from \in Node /\ m.prevIndex \in Nat /\ m.entries \in Seq(EntrySet) /\ Len(m.entries) \in Nat
      /\ lg \in Seq(EntrySet) /\ Len(lg) \in Nat /\ currentTerm[n] \in Nat
    BY Zenon, <1>1, <1>3, <1>4, LogTyped
<1>6. PICK ld \in Seq(EntrySet) : ld = L[T] /\ Len(ld) \in Nat BY Zenon, <1>2, <1>5, HistTyped
<1>7. /\ <<T, m.from>> \in elected /\ Segment(m, ld) /\ (m.entries = <<>> => m.prevTerm = T)
      /\ Synced(L, T, n, m.prevIndex + 1)
    BY Zenon, <1>1, <1>2, <1>3, <1>6 DEF HistRequests
<1>8. ld # <<>> BY Zenon, <1>2, <1>5, <1>6, <1>7 DEF HistElected
<1>9. ld[Len(ld)].term = T /\ Ordered(ld) /\ Made(L, ld) BY Zenon, <1>2, <1>5, <1>6, <1>8 DEF HistLogs
<1>10. Len(ld) \in 1..Len(ld) BY <1>6, <1>8
<1>11. T \in Nat \ {0} BY Zenon, <1>9, <1>10, EntryTerms
<1>12. Made(L, lg) /\ \A i \in 1..Len(lg) : lg[i].term <= currentTerm[n] BY Zenon, <1>2, <1>4 DEF HistMade
<1>13. TermsTell(lg, ld) BY Zenon, <1>2, <1>6, <1>9, <1>12, <1>5, MadeAgree DEF TermsTell
<1>14. /\ TermAt(lg, m.prevIndex) = m.prevTerm
       /\ \E c \in Nat : Merged(lg, m.prevIndex, m.entries, r, c)
       /\ r \in Seq(EntrySet)
    <2>1. RequestsPlain BY Zenon, HistPlain
    <2>2. /\ TermAt(lg, m.prevIndex) = m.prevTerm /\ m.prevIndex <= Len(lg)
          /\ \E c \in Nat : Merged(lg, m.prevIndex, m.entries, r, c)
        BY Zenon, <1>1, <1>4, <2>1, CopiedShape
    <2> QED BY Zenon, <1>4, <1>5, <2>2, MergeEntriesType
<1>15. /\ SameUpTo(r, ld, m.prevIndex + Len(m.entries))
       /\ r = lg \/ Prefix(r, ld)
       /\ \A i \in Nat : SameUpTo(lg, ld, i) => SameUpTo(r, lg, i)
    <2>1. PICK c \in Nat : Merged(lg, m.prevIndex, m.entries, r, c) BY Zenon, <1>14
    <2>2. TermAt(lg, m.prevIndex) = m.prevTerm /\ r \in Seq(EntrySet) BY Zenon, <1>14
    <2>3. lg \in Seq(EntrySet) /\ m.prevIndex \in Nat /\ m.entries \in Seq(EntrySet) /\ Segment(m, ld) BY Zenon, <1>5, <1>7
    <2> QED BY <1>6, <1>13, <2>1, <2>2, <2>3, MergeFollows
<1>16. currentTerm[n] <= T BY Zenon, <1>1, <1>3 DEF LogStep
<1>17. InStep(lg, ld, m.prevIndex + 1)
    <2>1. CASE currentTerm[n] = T BY Zenon, <1>4, <1>6, <1>7, <2>1 DEF Synced
    <2>2. CASE currentTerm[n] < T
        <3>1. Fresh(ld, m.prevIndex + 1, T) BY Zenon, <1>6, <1>7, <2>2 DEF Synced
        <3>2. \A k \in 1..Len(lg) : lg[k].term # T
            <4> TAKE k \in 1..Len(lg)
            <4>1. lg[k].term \in Nat /\ lg[k].term <= currentTerm[n] BY Zenon, <1>5, <1>12, EntryTerms
            <4> QED BY <1>5, <2>2, <4>1
        <3>3. m.prevIndex + 1 \in Nat \ {0} BY <1>5
        <3> QED BY Zenon, <1>5, <1>6, <1>8, <1>9, <3>1, <3>2, <3>3, FreshInStep
    <2> QED BY <1>5, <1>16, <2>1, <2>2
<1>18. ASSUME r = lg, Differs(lg, ld, m.prevIndex + 1) PROVE FALSE
    <2>1. PICK f \in 1..m.prevIndex + 1 : f <= Len(lg) /\ f <= Len(ld) /\ lg[f] # ld[f] BY Zenon, <1>18 DEF Differs
    <2>2. ~(f <= m.prevIndex + Len(m.entries)) BY <1>5, <1>15, <1>18, <2>1 DEF SameUpTo
    <2>3. f = m.prevIndex + 1 /\ Len(m.entries) = 0 BY <1>5, <2>1, <2>2
    <2>4. m.entries = <<>> BY <1>5, <2>3
    <2>5. TermAt(lg, m.prevIndex) = T /\ TermAt(ld, m.prevIndex) = T BY Zenon, <1>7, <1>14, <2>4 DEF Segment
    <2>6. /\ m.prevIndex \in 1..Len(lg) /\ lg[m.prevIndex].term = T
          /\ m.prevIndex \in 1..Len(ld) /\ ld[m.prevIndex].term = T
        BY Zenon, <1>11, <2>5 DEF TermAt
    <2>7. f \in 1..Len(lg) /\ f \in 1..Len(ld) /\ m.prevIndex <= f BY <1>5, <1>6, <2>1, <2>3
    <2>8. Ordered(lg) BY Zenon, <1>2, <1>5, <1>12, MadeOrdered
    <2>9. lg[f].term >= T /\ ld[f].term >= T BY Zenon, <1>9, <2>6, <2>7, <2>8 DEF Ordered
    <2>10. lg[f].term <= currentTerm[n] /\ ld[f].term <= T
        <3>1. ld[f].term <= ld[Len(ld)].term BY <1>6, <1>9, <1>10, <2>7 DEF Ordered
        <3> QED BY Zenon, <1>9, <1>12, <2>7, <3>1
    <2>11. lg[f].term \in Nat /\ ld[f].term \in Nat BY Zenon, <1>5, <1>6, <2>7, EntryTerms
    <2>12. lg[f].term = ld[f].term
        <3>1. PICK a \in Nat : a = lg[f].term BY Zenon, <2>11
        <3>2. PICK b \in Nat : b = ld[f].term BY Zenon, <2>11
        <3>3. PICK T0 \in Nat : T0 = currentTerm[n] BY Zenon, <1>5
        <3>4. a >= T /\ b >= T /\ b <= T /\ a <= T0 /\ T0 <= T BY Zenon, <1>16, <2>9, <2>10, <3>1, <3>2, <3>3
        <3>5. a = b BY <1>5, <3>4
        <3> QED BY Zenon, <3>1, <3>2, <3>5
    <2>13. SameUpTo(lg, ld, f) BY Zenon, <1>13, <2>1, <2>7, <2>12 DEF TermsTell
    <2>14. f \in 1..f BY <2>1
    <2> QED BY Zenon, <2>1, <2>13, <2>14 DEF SameUpTo
<1>19. Prefix(r, ld) BY Zenon, <1>15, <1>17, <1>18 DEF InStep
<1> QED BY Zenon, <1>1, <1>3, <1>4, <1>6, <1>8, <1>11, <1>14, <1>15, <1>19

\* What a replica holds after it has taken a request, or part of one.
LEMMA Copy ==
    ASSUME NatWellOrdered, TypeInv, TypeInv', NEW L, HistInv(L), NEW n \in Node, LogStep(n),
           NEW m, Takes(n, m) \/ TakesPart(n, m)
    PROVE  /\ m \in Requests /\ m.term = currentTerm'[n] /\ m.term \in Nat \ {0} /\ L[m.term] # <<>>
           /\ Prefix(log'[n], L[m.term])
           /\ Takes(n, m) => m.prevIndex + Len(m.entries) <= Len(log'[n])
           /\ \A i \in Nat : SameUpTo(log[n], L[m.term], i) => SameUpTo(log'[n], log[n], i)
<1>1. PICK r : r = MergeEntries(log[n], m.prevIndex, m.entries) BY Zenon
<1>2. Accepts(n, m) BY Zenon DEF Takes, TakesPart
<1>3. PICK ld : ld = L[m.term] BY Zenon
<1>4. /\ m \in Requests /\ m.term \in Nat \ {0} /\ ld # <<>> /\ r \in Seq(EntrySet)
      /\ SameUpTo(r, ld, m.prevIndex + Len(m.entries)) /\ Prefix(r, ld)
      /\ \A i \in Nat : SameUpTo(log[n], ld, i) => SameUpTo(r, log[n], i)
    BY <1>1, <1>2, <1>3, MergeHistory
<1>5. m.term = currentTerm'[n] BY Zenon, <1>2 DEF Accepts
<1>6. CASE Takes(n, m)
    <2>1. log'[n] = r BY Zenon, <1>1, <1>6 DEF Takes
    <2>2. m.prevIndex + Len(m.entries) <= Len(r) BY Zenon, <1>4 DEF SameUpTo
    <2> QED BY Zenon, <1>3, <1>4, <1>5, <2>1, <2>2
<1>7. CASE TakesPart(n, m) /\ ~Takes(n, m)
    <2>1. PICK len \in Nat : Len(log[n]) <= len /\ len <= Len(r) /\ log'[n] = SubSeq(r, 1, len)
        BY Zenon, <1>1, <1>7 DEF TakesPart
    <2>2. PICK lg : lg = log[n] BY Zenon
    <2>3. PICK nw : nw = log'[n] BY Zenon
    <2>4. Len(lg) \in Nat /\ Len(r) \in Nat BY Zenon, <1>4, <2>2, LogTyped, LogLength
    <2>5. Len(nw) = len /\ \A i \in 1..len : nw[i] = r[i] BY ZenonT(40), <1>4, <2>1, <2>3, CutLog
    <2>6. Prefix(nw, ld) BY <1>4, <2>1, <2>4, <2>5 DEF Prefix, SameUpTo
    <2>7. ASSUME NEW i \in Nat, SameUpTo(lg, ld, i) PROVE SameUpTo(nw, lg, i)
        <3>1. SameUpTo(r, lg, i) BY Zenon, <1>4, <2>2, <2>7
        <3> QED BY <2>1, <2>2, <2>4, <2>5, <3>1 DEF SameUpTo
    <2> QED BY Zenon, <1>3, <1>4, <1>5, <1>7, <2>2, <2>3, <2>6, <2>7
<1> QED BY Zenon, <1>6, <1>7

-----------------------------------------------------------------------------
(* The history after a step.                                               *)

\* A leader's log holds no entry of a later term.
LEMMA LeaderTerms ==
    ASSUME NEW L, HistType(L), HistLogs(L), NEW t \in Nat
    PROVE  \A i \in 1..Len(L[t]) : L[t][i].term <= t
<1> TAKE i \in 1..Len(L[t])
<1>1. PICK ld \in Seq(EntrySet) : ld = L[t] BY Zenon, HistTyped
<1>2. Len(ld) \in Nat BY Zenon, LogLength
<1>3. i \in 1..Len(ld) /\ Len(ld) \in 1..Len(ld) /\ i <= Len(ld) /\ ld # <<>> BY <1>1, <1>2
<1>4. ld[Len(ld)].term = t /\ Ordered(ld) BY Zenon, <1>1, <1>3 DEF HistLogs
<1>5. ld[i].term <= ld[Len(ld)].term BY Zenon, <1>3, <1>4 DEF Ordered
<1> QED BY Zenon, <1>1, <1>4, <1>5

\* What a step has to do with the history, in one place.
Step(n, L, M) ==
    /\ TypeInv /\ TypeInv' /\ ElectionSafety' /\ HistInv(L) /\ LogStep(n) /\ HistStep(n, L, M) /\ Grows(n, L, M)

\* The log of a leader that proposes is ordered and made from the history.
LEMMA ProposedMade ==
    ASSUME NEW n \in Node, NEW L, NEW M, Step(n, L, M), NEW e, Proposes(n, e)
    PROVE  /\ log'[n] # <<>> /\ log'[n][Len(log'[n])].term = currentTerm'[n] /\ Ordered(log'[n])
           /\ Made(M, log'[n]) /\ \A i \in 1..Len(log'[n]) : log'[n][i].term <= currentTerm'[n]
<1>1. /\ TypeInv /\ TypeInv' /\ HistType(L) /\ HistLogs(L) /\ HistMade(L) /\ HistType(M)
      /\ \A t \in Nat : Prefix(L[t], M[t])
    BY Zenon DEF Step, HistInv, Grows
<1>2. PICK T : T = currentTerm'[n] BY Zenon
<1>3. PICK lg : lg = log[n] BY Zenon
<1>4. PICK nw : nw = log'[n] BY Zenon
<1>5. /\ T \in Nat /\ lg \in Seq(EntrySet) /\ Len(lg) \in Nat /\ nw \in Seq(EntrySet) /\ Len(nw) \in Nat
      /\ currentTerm[n] \in Nat
    BY Zenon, <1>1, <1>2, <1>3, <1>4, LogTyped, LogTypedAfter
<1>6. role'[n] = "LEADER" /\ e \in EntrySet /\ e.term = T /\ nw = Append(lg, e)
    BY Zenon, <1>2, <1>3, <1>4 DEF Proposes
<1>7. /\ Len(nw) = Len(lg) + 1 /\ nw[Len(lg) + 1] = e /\ nw # <<>> /\ \A k \in 1..Len(lg) : nw[k] = lg[k]
    BY Zenon, <1>5, <1>6, AppendGrows
<1>8. currentTerm[n] <= T BY Zenon, <1>2 DEF Step, LogStep
<1>9. Made(L, lg) /\ \A i \in 1..Len(lg) : lg[i].term <= currentTerm[n] BY Zenon, <1>1, <1>3 DEF HistMade
<1>10. Ordered(lg) /\ Made(M, lg) BY Zenon, <1>1, <1>5, <1>9, MadeOrdered, MadeGrows
<1>11. \A i \in 1..Len(nw) : i \in 1..Len(lg) \/ i = Len(lg) + 1 BY <1>5, <1>7
<1>12. \A i \in 1..Len(nw) : nw[i].term \in Nat /\ nw[i].term <= T
    <2> TAKE i \in 1..Len(nw)
    <2>1. nw[i].term \in Nat BY Zenon, <1>5, EntryTerms
    <2>2. CASE i \in 1..Len(lg)
        <3>1. nw[i] = lg[i] /\ lg[i].term <= currentTerm[n] BY Zenon, <1>7, <1>9, <2>2
        <3> QED BY <1>5, <1>8, <2>1, <3>1
    <2>3. CASE i = Len(lg) + 1 BY <1>5, <1>6, <1>7, <2>1, <2>3
    <2> QED BY Zenon, <1>11, <2>2, <2>3
<1>13. Ordered(nw)
    <2> SUFFICES ASSUME NEW i \in 1..Len(nw), NEW k \in 1..Len(nw), i <= k PROVE nw[i].term <= nw[k].term
        BY Zenon DEF Ordered
    <2>1. CASE k \in 1..Len(lg)
        <3>1. i \in 1..Len(lg) BY <1>5, <2>1
        <3> QED BY Zenon, <1>7, <1>10, <2>1, <3>1 DEF Ordered
    <2>2. CASE k = Len(lg) + 1 BY Zenon, <1>6, <1>7, <1>12, <2>2
    <2> QED BY Zenon, <1>11, <2>1, <2>2
<1>14. Made(M, nw)
    <2> SUFFICES ASSUME NEW i \in 1..Len(nw) PROVE SameUpTo(nw, M[nw[i].term], i) BY Zenon DEF Made
    <2>1. CASE i \in 1..Len(lg)
        <3>1. PICK ld : ld = M[lg[i].term] BY Zenon
        <3>2. SameUpTo(lg, ld, i) /\ nw[i] = lg[i] BY Zenon, <1>7, <1>10, <2>1, <3>1 DEF Made
        <3>3. SameUpTo(nw, ld, i) BY <1>5, <1>7, <2>1, <3>2 DEF SameUpTo
        <3> QED BY Zenon, <3>1, <3>2, <3>3
    <2>2. CASE i = Len(lg) + 1
        <3>1. nw[i].term = T /\ M[T] = nw BY Zenon, <1>2, <1>4, <1>6, <1>7, <2>2 DEF Step, Grows
        <3>2. SameUpTo(nw, nw, i) BY <1>5, <1>7, <2>2 DEF SameUpTo
        <3> QED BY Zenon, <3>1, <3>2
    <2> QED BY Zenon, <1>11, <2>1, <2>2
<1> QED BY Zenon, <1>2, <1>4, <1>6, <1>7, <1>12, <1>13, <1>14

\* HistLogs is kept.
LEMMA HistLogsKept ==
    ASSUME NEW n \in Node, NEW L, NEW M, Step(n, L, M)
    PROVE  HistLogs(M)'
<1>1. /\ HistType(L) /\ HistLogs(L) /\ HistType(M) /\ \A t \in Nat : Prefix(L[t], M[t])
      /\ elected \subseteq elected' /\ HistStep(n, L, M)
      /\ \A t \in Nat : M[t] # L[t] => t = currentTerm'[n] /\ role'[n] = "LEADER"
      /\ role'[n] = "LEADER" => M[currentTerm'[n]] = log'[n] /\ <<currentTerm'[n], n>> \in elected'
    BY Zenon DEF Step, HistInv, Grows
<1> SUFFICES ASSUME NEW t \in Nat, M[t] # <<>>
             PROVE  /\ M[t][Len(M[t])].term = t /\ Ordered(M[t]) /\ Made(M, M[t])
                    /\ \E k \in Node : <<t, k>> \in elected'
    BY Zenon DEF HistLogs, Made
<1>2. CASE M[t] = L[t]
    <2>1. L[t] \in Seq(EntrySet) BY Zenon, <1>1, HistTyped
    <2>2. /\ L[t][Len(L[t])].term = t /\ Ordered(L[t]) /\ Made(L, L[t])
          /\ \E k \in Node : <<t, k>> \in elected
        BY Zenon, <1>1, <1>2 DEF HistLogs
    <2>3. Made(M, L[t]) BY Zenon, <1>1, <2>1, <2>2, MadeGrows
    <2> QED BY Zenon, <1>1, <1>2, <2>2, <2>3
<1>3. CASE M[t] # L[t]
    <2>1. PICK e : Proposes(n, e) BY Zenon, <1>1, <1>3 DEF HistStep
    <2>2. t = currentTerm'[n] /\ M[t] = log'[n] /\ <<t, n>> \in elected' BY Zenon, <1>1, <1>3
    <2> QED BY Zenon, <2>1, <2>2, ProposedMade
<1> QED BY Zenon, <1>2, <1>3

\* HistMade is kept.
LEMMA HistMadeKept ==
    ASSUME NatWellOrdered, NEW n \in Node, NEW L, NEW M, Step(n, L, M)
    PROVE  HistMade(M)'
<1>1. /\ TypeInv /\ TypeInv' /\ HistType(L) /\ HistLogs(L) /\ HistMade(L) /\ HistInv(L) /\ HistType(M)
      /\ \A t \in Nat : Prefix(L[t], M[t])
      /\ LogStep(n) /\ HistStep(n, L, M)
    BY Zenon DEF Step, HistInv, Grows
<1>2. \A k \in Node : /\ log[k] \in Seq(EntrySet) /\ log'[k] \in Seq(EntrySet)
                      /\ currentTerm[k] \in Nat /\ currentTerm'[k] \in Nat
                      /\ Made(M, log[k])
    <2> TAKE k \in Node
    <2>1. log[k] \in Seq(EntrySet) /\ log'[k] \in Seq(EntrySet) /\ currentTerm[k] \in Nat /\ currentTerm'[k] \in Nat
        BY Zenon, <1>1, LogTyped, LogTypedAfter
    <2>2. Made(L, log[k]) BY Zenon, <1>1 DEF HistMade
    <2> QED BY Zenon, <1>1, <2>1, <2>2, MadeGrows
<1> SUFFICES ASSUME NEW k \in Node
             PROVE  /\ Made(M, log'[k])
                    /\ \A i \in 1..Len(log'[k]) :
                          /\ log'[k][i].term <= currentTerm'[k]
                          /\ role'[k] = "CANDIDATE" => log'[k][i].term < currentTerm'[k]
    BY Zenon DEF HistMade, Made
<1>3. \A i \in 1..Len(log[k]) : /\ log[k][i].term \in Nat /\ log[k][i].term <= currentTerm[k]
                                /\ role[k] = "CANDIDATE" => log[k][i].term < currentTerm[k]
    BY Zenon, <1>1, <1>2, EntryTerms DEF HistMade
<1>4. CASE k # n
    <2>1. log'[k] = log[k] /\ currentTerm'[k] = currentTerm[k] /\ role'[k] = role[k] BY Zenon, <1>1, <1>4 DEF LogStep
    <2> QED BY Zenon, <1>2, <1>3, <2>1
<1>5. CASE k = n /\ KeepsLog(n)
    <2>1. /\ log'[k] = log[k] /\ currentTerm'[k] >= currentTerm[k]
          /\ role'[k] = "CANDIDATE" => currentTerm'[k] > currentTerm[k] \/ role[k] = "CANDIDATE"
        BY Zenon, <1>1, <1>5 DEF LogStep, KeepsLog
    <2> QED BY <1>2, <1>3, <2>1
<1>6. CASE k = n /\ \E e : Proposes(n, e)
    <2>1. role'[k] # "CANDIDATE" BY Zenon, <1>6 DEF Proposes
    <2> QED BY Zenon, <1>6, <2>1, ProposedMade
<1>7. CASE k = n /\ M = L /\ \E m : Takes(n, m) \/ TakesPart(n, m)
    <2>1. PICK m : Takes(n, m) \/ TakesPart(n, m) BY Zenon, <1>7
    <2>2. m.term = currentTerm'[k] /\ L[m.term] # <<>> /\ Prefix(log'[k], L[m.term])
        <3>1. m.term = currentTerm'[n] /\ L[m.term] # <<>> /\ Prefix(log'[n], L[m.term]) BY ZenonT(40), <1>1, <2>1, Copy
        <3> QED BY Zenon, <1>7, <3>1
    <2>3. PICK ld \in Seq(EntrySet) : ld = L[m.term] BY Zenon, <1>1, <1>2, <2>2, HistTyped
    <2>4. Made(L, ld) /\ \A i \in 1..Len(ld) : ld[i].term <= m.term
        BY Zenon, <1>1, <1>2, <2>2, <2>3, LeaderTerms DEF HistLogs
    <2>5. Made(L, log'[k]) BY Zenon, <1>1, <1>2, <2>2, <2>3, <2>4, PrefixMade
    <2>6. Len(ld) \in Nat /\ Len(log'[k]) \in Nat BY Zenon, <1>2, LogLength
    <2>7. Len(log'[k]) <= Len(ld) /\ \A i \in 1..Len(log'[k]) : log'[k][i] = ld[i]
        BY Zenon, <2>2, <2>3 DEF Prefix, SameUpTo
    <2>8. \A i \in 1..Len(log'[k]) : log'[k][i].term <= currentTerm'[k] BY <2>2, <2>4, <2>6, <2>7
    <2>9. role'[k] # "CANDIDATE" BY Zenon, <1>7, <2>1 DEF Takes, TakesPart, Accepts
    <2> QED BY Zenon, <1>7, <2>5, <2>8, <2>9
<1> QED BY Zenon, <1>1, <1>4, <1>5, <1>6, <1>7 DEF HistStep

\* A term has one leader, so its log is its own.
LEMMA OneLeader ==
    ASSUME NEW n \in Node, NEW L, NEW M, Step(n, L, M), NEW t \in Nat, NEW k \in Node, <<t, k>> \in elected'
    PROVE  /\ k # n => M[t] = L[t]
           /\ t = currentTerm'[n] /\ role'[n] = "LEADER" => k = n
<1>1. ASSUME t = currentTerm'[n] /\ role'[n] = "LEADER" PROVE k = n
    <2>1. <<t, n>> \in elected' BY Zenon, <1>1 DEF Step, Grows
    <2>2. <<t, k>>[1] = <<t, n>>[1] => <<t, k>>[2] = <<t, n>>[2] BY Zenon, <2>1 DEF Step, ElectionSafety
    <2> QED BY Zenon, <2>2
<1>2. M[t] # L[t] => t = currentTerm'[n] /\ role'[n] = "LEADER" BY Zenon DEF Step, Grows
<1> QED BY Zenon, <1>1, <1>2

\* HistElected is kept.
LEMMA HistElectedKept ==
    ASSUME NEW n \in Node, NEW L, NEW M, Step(n, L, M)
    PROVE  HistElected(M)'
<1>1. /\ TypeInv /\ TypeInv' /\ HistType(L) /\ HistElected(L) /\ HistType(M)
      /\ \A t \in Nat : Prefix(L[t], M[t])
      /\ LogStep(n) /\ HistStep(n, L, M)
      /\ role'[n] = "LEADER" => M[currentTerm'[n]] = log'[n]
    BY Zenon DEF Step, HistInv, Grows
<1> SUFFICES ASSUME NEW t \in Nat, NEW k \in Node, <<t, k>> \in elected'
             PROVE  /\ M[t] # <<>> /\ k \in InitVoters
                    /\ t <= currentTerm'[k] /\ (t = currentTerm'[k] => role'[k] # "CANDIDATE")
    BY Zenon DEF HistElected
<1>2. currentTerm[k] \in Nat /\ currentTerm'[k] \in Nat BY Zenon, <1>1, LogTyped, LogTypedAfter
<1>3. CASE <<t, k>> \in elected
    <2>1. /\ L[t] # <<>> /\ k \in InitVoters /\ t <= currentTerm[k]
          /\ t = currentTerm[k] => role[k] # "CANDIDATE"
        BY Zenon, <1>1, <1>3 DEF HistElected
    <2>2. M[t] # <<>>
        <3>1. L[t] \in Seq(EntrySet) /\ Len(L[t]) \in Nat BY Zenon, <1>1, HistTyped
        <3>2. Len(L[t]) # 0 BY <2>1, <3>1
        <3>3. Len(L[t]) <= Len(M[t]) BY Zenon, <1>1 DEF Prefix, SameUpTo
        <3> QED BY <3>1, <3>2, <3>3
    <2>3. /\ currentTerm'[k] >= currentTerm[k]
          /\ role'[k] = "CANDIDATE" => currentTerm'[k] > currentTerm[k] \/ role[k] = "CANDIDATE"
        <3>1. CASE k = n BY Zenon, <1>1, <3>1 DEF LogStep
        <3>2. CASE k # n
            <4>1. currentTerm'[k] = currentTerm[k] /\ role'[k] = role[k] BY Zenon, <1>1, <3>2 DEF LogStep
            <4> QED BY Zenon, <1>2, <4>1, SameIsAtLeast
        <3> QED BY Zenon, <3>1, <3>2
    <2> QED BY <1>2, <2>1, <2>2, <2>3
<1>4. CASE <<t, k>> \notin elected
    <2>1. PICK e : Proposes(n, e) BY Zenon, <1>1, <1>4 DEF HistStep, KeepsLog, Takes, TakesPart, Accepts
    <2>2. role'[n] = "LEADER" /\ NewLeader(n) BY Zenon, <1>4, <2>1 DEF Proposes
    <2>3. n \in InitVoters /\ elected' = elected \cup {<<currentTerm'[n], n>>} BY Zenon, <2>2 DEF NewLeader
    <2>4. t = currentTerm'[n] /\ k = n BY Zenon, <1>4, <2>3
    <2>5. log'[n] # <<>> BY Zenon, <2>1, ProposedMade
    <2> QED BY <1>1, <1>2, <2>2, <2>3, <2>4, <2>5
<1> QED BY Zenon, <1>3, <1>4

\* HistLeader is kept.
LEMMA HistLeaderKept ==
    ASSUME NEW n \in Node, NEW L, NEW M, Step(n, L, M)
    PROVE  HistLeader(M)'
<1>1. /\ TypeInv /\ HistLeader(L) /\ LogStep(n) /\ elected \subseteq elected'
      /\ role'[n] = "LEADER" => M[currentTerm'[n]] = log'[n] /\ <<currentTerm'[n], n>> \in elected'
    BY Zenon DEF Step, HistInv, Grows
<1> SUFFICES ASSUME NEW k \in Node, role'[k] = "LEADER"
             PROVE  <<currentTerm'[k], k>> \in elected' /\ M[currentTerm'[k]] = log'[k]
    BY Zenon DEF HistLeader
<1>2. CASE k # n
    <2>1. role[k] = "LEADER" /\ log'[k] = log[k] /\ currentTerm'[k] = currentTerm[k] BY Zenon, <1>1, <1>2 DEF LogStep
    <2>2. PICK t : t = currentTerm[k] BY Zenon
    <2>3. t \in Nat BY Zenon, <1>1, <2>2, LogTyped
    <2>4. <<t, k>> \in elected' /\ L[t] = log[k] BY Zenon, <1>1, <2>1, <2>2 DEF HistLeader
    <2>5. M[t] = L[t] BY <1>2, <2>3, <2>4, OneLeader
    <2> QED BY Zenon, <2>1, <2>2, <2>4, <2>5
<1> QED BY Zenon, <1>1, <1>2

\* A follower that has reached the leader's term in this step, or is in it.
LEMMA FollowerStep ==
    ASSUME NatWellOrdered, NEW n \in Node, NEW L, NEW M, Step(n, L, M),
           NEW k \in Node \ {n}, NEW t \in Nat, <<t, k>> \in elected', currentTerm'[n] = t
    PROVE  \/ log'[n] = log[n]
           \/ /\ Prefix(log'[n], L[t])
              /\ \A i \in Nat : SameUpTo(log[n], L[t], i) => SameUpTo(log'[n], log[n], i)
<1>1. TypeInv /\ TypeInv' /\ HistInv(L) /\ LogStep(n) /\ HistStep(n, L, M) BY Zenon DEF Step
<1>2. role'[n] # "LEADER" BY Zenon, OneLeader
<1>3. KeepsLog(n) \/ \E m : Takes(n, m) \/ TakesPart(n, m) BY Zenon, <1>1, <1>2 DEF HistStep, Proposes
<1>4. CASE KeepsLog(n) BY Zenon, <1>4 DEF KeepsLog
<1>5. CASE \E m : Takes(n, m) \/ TakesPart(n, m)
    <2>1. PICK m : Takes(n, m) \/ TakesPart(n, m) BY Zenon, <1>5
    <2>2. /\ m.term = t /\ Prefix(log'[n], L[m.term])
          /\ \A i \in Nat : SameUpTo(log[n], L[m.term], i) => SameUpTo(log'[n], log[n], i)
        BY Zenon, <1>1, <2>1, Copy
    <2> QED BY Zenon, <2>2
<1> QED BY Zenon, <1>3, <1>4, <1>5

\* What a leader believes of a follower stays true.
LEMMA SyncedKept ==
    ASSUME NatWellOrdered, NEW n \in Node, NEW L, NEW M, Step(n, L, M),
           NEW t \in Nat, NEW k \in Node, NEW p \in Node, k # p, <<t, k>> \in elected, NEW i \in Nat,
           i # 0 \/ t <= currentTerm[p], Synced(L, t, p, i)
    PROVE  Synced(M, t, p, i)'
<1>1. /\ TypeInv /\ TypeInv' /\ HistType(L) /\ HistLogs(L) /\ HistElected(L) /\ HistMade(L) /\ HistType(M)
      /\ Prefix(L[t], M[t]) /\ LogStep(n) /\ <<t, k>> \in elected'
    BY Zenon DEF Step, HistInv, Grows
<1>2. PICK ld \in Seq(EntrySet) : ld = L[t] BY Zenon, <1>1, HistTyped
<1>3. PICK md \in Seq(EntrySet) : md = M[t] BY Zenon, <1>1, HistTyped
<1>4. ld # <<>> /\ ld[Len(ld)].term = t BY Zenon, <1>1, <1>2 DEF HistElected, HistLogs
<1>5. /\ Prefix(ld, md) /\ Len(ld) \in Nat /\ Len(md) \in Nat
      /\ \A x \in 1..Len(md) : x > Len(ld) => md[x].term = t
    BY Zenon, <1>1, <1>2, <1>3, <1>4, LogLength DEF Step, Grows
<1>6. PICK lg \in Seq(EntrySet) : lg = log[p] BY Zenon, <1>1, LogTyped
<1>7. currentTerm[p] \in Nat /\ currentTerm'[p] \in Nat /\ currentTerm[p] <= currentTerm'[p] /\ log'[p] \in Seq(EntrySet)
    BY Zenon, <1>1, LogTypedAfter, TermsKept
<1>8. ASSUME currentTerm'[p] < t PROVE Fresh(md, i, t)
    <2>1. Fresh(ld, i, t) BY <1>2, <1>7, <1>8 DEF Synced
    <2>2. Len(ld) <= Len(md) /\ \A x \in 1..Len(ld) : ld[x] = md[x] BY Zenon, <1>5 DEF Prefix, SameUpTo
    <2>3. \A x \in 1..Len(md) : x \in 1..Len(ld) \/ x > Len(ld) BY <1>5
    <2> QED BY Zenon, <1>5, <2>1, <2>2, <2>3 DEF Fresh
<1>9. ASSUME currentTerm'[p] = t PROVE InStep(log'[p], md, i)
    <2>1. InStep(lg, ld, i)
        <3>1. CASE currentTerm[p] = t BY Zenon, <1>2, <1>6, <3>1 DEF Synced
        <3>2. CASE currentTerm[p] < t
            <4>1. Fresh(ld, i, t) /\ i \in Nat \ {0} BY <1>2, <1>7, <3>2 DEF Synced
            <4>2. \A x \in 1..Len(lg) : lg[x].term # t
                <5> TAKE x \in 1..Len(lg)
                <5>1. lg[x].term \in Nat /\ lg[x].term <= currentTerm[p] BY Zenon, <1>1, <1>6, EntryTerms DEF HistMade
                <5> QED BY <1>7, <3>2, <5>1
            <4> QED BY Zenon, <1>4, <4>1, <4>2, FreshInStep
        <3> QED BY <1>7, <1>9, <3>1, <3>2
    <2>2. CASE p # n
        <3>1. log'[p] = lg BY Zenon, <1>1, <1>6, <2>2 DEF LogStep
        <3> QED BY Zenon, <1>5, <2>1, <3>1, LogGrows
    <2>3. CASE p = n
        <3>1. md = ld
            <4>1. k # n /\ <<t, k>> \in elected' BY Zenon, <1>1, <2>3
            <4>2. M[t] = L[t] BY <4>1, OneLeader
            <4> QED BY Zenon, <1>2, <1>3, <4>2
        <3>2. log'[n] = lg \/ Prefix(log'[n], ld) BY Zenon, <1>1, <1>2, <1>6, <1>9, <2>3, FollowerStep
        <3> QED BY Zenon, <2>1, <2>3, <3>1, <3>2 DEF InStep
    <2> QED BY Zenon, <2>2, <2>3
<1> QED BY Zenon, <1>3, <1>8, <1>9 DEF Synced

\* What a follower has confirmed stays in its log.
LEMMA AckedKept ==
    ASSUME NatWellOrdered, NEW n \in Node, NEW L, NEW M, Step(n, L, M),
           NEW t \in Nat, NEW k \in Node, NEW p \in Node, k # p, <<t, k>> \in elected, NEW i \in Nat,
           Acked(L, t, p, i)
    PROVE  Acked(M, t, p, i)'
<1>1. /\ TypeInv /\ TypeInv' /\ HistType(L) /\ HistType(M)
      /\ Prefix(L[t], M[t]) /\ LogStep(n) /\ <<t, k>> \in elected'
    BY Zenon DEF Step, HistInv, Grows
<1>2. PICK ld \in Seq(EntrySet) : ld = L[t] BY Zenon, <1>1, HistTyped
<1>3. PICK md \in Seq(EntrySet) : md = M[t] BY Zenon, <1>1, HistTyped
<1>5. Prefix(ld, md) /\ Len(ld) \in Nat /\ Len(md) \in Nat BY Zenon, <1>1, <1>2, <1>3, LogLength
<1>6. PICK lg \in Seq(EntrySet) : lg = log[p] BY Zenon, <1>1, LogTyped
<1>7. /\ currentTerm[p] \in Nat /\ currentTerm'[p] \in Nat /\ currentTerm[p] <= currentTerm'[p]
      /\ log'[p] \in Seq(EntrySet) /\ Len(log'[p]) \in Nat /\ Len(lg) \in Nat
    BY Zenon, <1>1, LogTypedAfter, LogLength, TermsKept
<1>8. /\ t <= currentTerm[p] /\ i <= Len(ld)
      /\ t = currentTerm[p] => Prefix(lg, ld) /\ i <= Len(lg)
    BY Zenon, <1>2, <1>6 DEF Acked
<1>9. t <= currentTerm'[p] /\ i <= Len(md)
    <2>1. Len(ld) <= Len(md) BY Zenon, <1>5 DEF Prefix, SameUpTo
    <2> QED BY <1>5, <1>7, <1>8, <2>1
<1>10. ASSUME t = currentTerm'[p] PROVE Prefix(log'[p], md) /\ i <= Len(log'[p])
    <2>1. Prefix(lg, ld) /\ i <= Len(lg) BY <1>7, <1>8, <1>10
    <2>2. CASE p # n
        <3>1. log'[p] = lg BY Zenon, <1>1, <1>6, <2>2 DEF LogStep
        <3> QED BY Zenon, <1>5, <2>1, <3>1, LogGrows
    <2>3. CASE p = n
        <3>1. md = ld BY <1>1, <1>2, <1>3, <2>3, OneLeader
        <3>2. \/ log'[n] = lg
              \/ Prefix(log'[n], ld) /\ \A x \in Nat : SameUpTo(lg, ld, x) => SameUpTo(log'[n], lg, x)
            BY Zenon, <1>1, <1>2, <1>6, <1>10, <2>3, FollowerStep
        <3>3. CASE log'[n] = lg BY Zenon, <2>1, <2>3, <3>1, <3>3
        <3>4. CASE Prefix(log'[n], ld) /\ \A x \in Nat : SameUpTo(lg, ld, x) => SameUpTo(log'[n], lg, x)
            <4>1. SameUpTo(log'[n], lg, Len(lg)) BY Zenon, <1>7, <2>1, <3>4 DEF Prefix
            <4>2. Len(lg) <= Len(log'[n]) BY Zenon, <4>1 DEF SameUpTo
            <4> QED BY <1>7, <2>1, <2>3, <3>1, <3>4, <4>2
        <3> QED BY Zenon, <3>2, <3>3, <3>4
    <2> QED BY Zenon, <2>2, <2>3
<1> QED BY Zenon, <1>3, <1>9, <1>10 DEF Acked

-----------------------------------------------------------------------------
(* What leaders believe after a step.                                      *)

\* The fields of answers, and the indices leaders keep.
LEMMA ProgressTyped ==
    ASSUME TypeInv
    PROVE  /\ InitVoters \subseteq Node
           /\ \A m \in msgs : m.type = "AppendReply" =>
                 m.sentTerm \in Nat /\ m.prevIndex \in Nat /\ m.index \in Nat /\ m.from \in Node /\ m.to \in Node
           /\ \A k, p \in Node : nextIndex[k][p] \in Nat /\ matchIndex[k][p] \in Nat
<1>1. TypeOK /\ \A m \in msgs : MsgOK(m) BY Zenon DEF TypeInv
<1>2. \A k, p \in Node : nextIndex[k][p] \in Nat /\ matchIndex[k][p] \in Nat BY Zenon, <1>1 DEF TypeOK
<1> QED BY Zenon, <1>1, <1>2, NodeAssumption DEF MsgOK

\* A leader that led before leads the same term.
LEMMA SameTerm ==
    ASSUME NEW n \in Node, LogStep(n), role[n] = "LEADER", role'[n] = "LEADER"
    PROVE  currentTerm'[n] = currentTerm[n]
BY Zenon DEF LogStep, KeepsLog, Proposes, NewLeader, Takes, TakesPart, Accepts

\* become_leader: the next index of a new leader, which is that of its no-op,
\* is right for every follower.
LEMMA NewLeaderNext ==
    ASSUME NatWellOrdered, NEW n \in Node, NEW L, NEW M, Step(n, L, M), NewLeader(n), role'[n] = "LEADER",
           NEW p \in Node \ {n}, NEW i, i = Len(log'[n]), NEW T, T = currentTerm'[n]
    PROVE  i # 0 /\ Synced(M, T, p, i)'
<1>1. /\ TypeInv /\ TypeInv' /\ ElectionSafety' /\ HistInv(L) /\ HistType(L) /\ HistMade(L) /\ HistType(M)
      /\ LogStep(n) /\ HistStep(n, L, M) /\ M[currentTerm'[n]] = log'[n]
    BY Zenon DEF Step, HistInv, Grows
<1>3. PICK nw \in Seq(EntrySet) : nw = log'[n] BY Zenon, <1>1, LogTypedAfter
<1>4. PICK lg \in Seq(EntrySet) : lg = log[p] BY Zenon, <1>1, LogTyped
<1>5. T \in Nat /\ Len(nw) \in Nat /\ M[T] = nw /\ log'[p] = lg
    BY Zenon, <1>1, <1>3, <1>4, LogTypedAfter DEF LogStep
<1>6. PICK e : Proposes(n, e) BY Zenon, <1>1 DEF HistStep, KeepsLog, NewLeader, Takes, TakesPart, Accepts
<1>7. nw # <<>> /\ nw[Len(nw)].term = T BY Zenon, <1>3, <1>6, ProposedMade
<1>8. i = Len(nw) /\ i \in Nat \ {0} BY <1>3, <1>5, <1>7
<1>9. Fresh(nw, i, T)
    <2>1. \A k \in 1..Len(nw) : i <= k => k = Len(nw) BY <1>5, <1>8
    <2> QED BY Zenon, <1>7, <2>1 DEF Fresh
<1>10. \A k \in 1..Len(lg) : lg[k].term # T
    <2> SUFFICES ASSUME NEW k \in 1..Len(lg), lg[k].term = T PROVE FALSE BY Zenon
    <2>1. L[T] = <<>> BY Zenon, <1>1, NewTerm
    <2>2. k <= Len(L[T])
        <3>1. Made(L, lg) BY Zenon, <1>1, <1>4 DEF HistMade
        <3> QED BY Zenon, <3>1 DEF Made, SameUpTo
    <2>3. Len(lg) \in Nat BY Zenon, LogLength
    <2> QED BY <2>1, <2>2, <2>3
<1>11. InStep(lg, nw, i) BY Zenon, <1>7, <1>8, <1>9, <1>10, FreshInStep
<1>12. Synced(M, T, p, i)' BY Zenon, <1>5, <1>9, <1>11 DEF Synced
<1> QED BY Zenon, <1>8, <1>12

\* What an answer tells a leader of the follower.
LEMMA AnswerNext ==
    ASSUME TypeInv, NEW L, HistInv(L), NEW n \in Node, role[n] = "LEADER", NEW p \in Node, NEW m, AnswerOf(n, p, m),
           NEW i \in Nat, i = nextIndex'[n][p], m.success \/ GoesBack(n, p, m)
    PROVE  Synced(L, currentTerm[n], p, i)
<1>1. PICK T : T = currentTerm[n] BY Zenon
<1>2. Told(L, m) /\ m.from = p /\ m.to = n /\ m.sentTerm = T /\ m.index \in Nat /\ m.prevIndex \in Nat
    BY Zenon, <1>1, ProgressTyped DEF HistInv, HistAnswers, AnswerOf
<1>3. T \in Nat /\ currentTerm[p] \in Nat /\ T <= currentTerm[p] /\ Len(log[n]) \in Nat
    BY Zenon, <1>1, <1>2, LogTyped DEF Told
<1>4. CASE m.success
    <2>1. Acked(L, T, p, m.index) BY Zenon, <1>2, <1>4 DEF Told
    <2>2. currentTerm[p] = T => InStep(log[p], L[T], i) BY Zenon, <2>1 DEF Acked, InStep
    <2> QED BY <1>1, <1>3, <2>2 DEF Synced
<1>5. CASE ~m.success
    <2>1. GoesBack(n, p, m) BY Zenon, <1>5
    <2>2. Synced(L, T, p, MinOf(m.prevIndex, m.index)) BY Zenon, <1>2, <1>5, <2>1 DEF Told, GoesBack
    <2>3. L[T] = log[n] BY Zenon, <1>1 DEF HistInv, HistLeader
    <2>4. ASSUME currentTerm[p] = T, Differs(log[p], log[n], MinOf(m.prevIndex, m.index))
          PROVE  Differs(log[p], log[n], i)
        <3>1. PICK f \in 1..MinOf(m.prevIndex, m.index) : f <= Len(log[p]) /\ f <= Len(log[n]) /\ log[p][f] # log[n][f]
            BY Zenon, <2>4 DEF Differs
        <3>2. f \in 1..Len(log[n]) /\ f <= m.prevIndex /\ f <= m.index BY <1>2, <1>3, <3>1 DEF MinOf
        <3>3. f <= i BY Zenon, <2>1, <3>2 DEF GoesBack
        <3>4. f \in 1..i BY <3>2, <3>3
        <3> QED BY Zenon, <3>1, <3>4 DEF Differs
    <2>5. currentTerm[p] = T => InStep(log[p], log[n], MinOf(m.prevIndex, m.index)) BY Zenon, <2>2, <2>3 DEF Synced
    <2>6. currentTerm[p] = T => InStep(log[p], log[n], i) BY Zenon, <2>4, <2>5 DEF InStep
    <2> QED BY <1>1, <1>3, <2>3, <2>6 DEF Synced
<1> QED BY Zenon, <1>4, <1>5

\* HistNext is kept.
LEMMA HistNextKept ==
    ASSUME NatWellOrdered, NEW n \in Node, NEW L, NEW M, Step(n, L, M)
    PROVE  HistNext(M)'
<1>1. /\ TypeInv /\ TypeInv' /\ HistInv(L) /\ HistNext(L) /\ HistLeader(L) /\ LogStep(n)
    BY Zenon DEF Step, HistInv
<1> SUFFICES ASSUME NEW k \in Node, role'[k] = "LEADER", NEW p \in InitVoters \ {k},
                    NEW i, i = nextIndex'[k][p], NEW t, t = currentTerm'[k]
             PROVE  i # 0 /\ Synced(M, t, p, i)'
    BY Zenon DEF HistNext, Synced
<1>2. i = nextIndex'[k][p] BY Zenon
<1>3. t = currentTerm'[k] BY Zenon
<1>4. /\ p \in Node /\ t \in Nat /\ i \in Nat /\ currentTerm[k] \in Nat
    <2>1. p \in Node BY Zenon, <1>1, ProgressTyped
    <2>2. i \in Nat
        <3>1. nextIndex' \in [Node -> [Node -> Nat]] BY Zenon, <1>1 DEF TypeInv, TypeOK
        <3>2. nextIndex'[k] \in [Node -> Nat] BY Zenon, <3>1
        <3> QED BY Zenon, <1>2, <2>1, <3>2
    <2> QED BY Zenon, <1>1, <1>3, <2>1, <2>2, LogTyped, LogTypedAfter
<1>5. ASSUME role[k] = "LEADER", currentTerm[k] = t, i # 0, Synced(L, t, p, i) PROVE Synced(M, t, p, i)'
    <2>1. <<t, k>> \in elected BY Zenon, <1>1, <1>5 DEF HistLeader
    <2> QED BY Zenon, <1>4, <1>5, <2>1, SyncedKept
<1>6. ASSUME role[k] = "LEADER" PROVE nextIndex[k][p] # 0 /\ Synced(L, currentTerm[k], p, nextIndex[k][p])
    BY Zenon, <1>1, <1>6 DEF HistNext
<1>7. CASE k # n
    <2>1. role[k] = "LEADER" /\ currentTerm[k] = t /\ nextIndex[k][p] = i BY Zenon, <1>1, <1>2, <1>3, <1>7 DEF LogStep
    <2> QED BY Zenon, <1>5, <1>6, <2>1
<1>8. CASE k = n /\ role[n] = "LEADER"
    <2>1. currentTerm[n] = t BY Zenon, <1>1, <1>3, <1>8, SameTerm
    <2>2. \/ nextIndex[n][p] = 0
          \/ nextIndex'[n][p] = nextIndex[n][p]
          \/ nextIndex'[n][p] > 0 /\ \E m : AnswerOf(n, p, m) /\ (m.success \/ GoesBack(n, p, m))
        BY Zenon, <1>1, <1>8 DEF LogStep, MovesNext, NewLeader
    <2>3. i # 0 /\ Synced(L, t, p, i)
        <3>1. CASE nextIndex'[n][p] = nextIndex[n][p] BY Zenon, <1>2, <1>6, <1>8, <2>1, <3>1
        <3>2. CASE nextIndex'[n][p] > 0 /\ \E m : AnswerOf(n, p, m) /\ (m.success \/ GoesBack(n, p, m))
            <4>1. PICK m : AnswerOf(n, p, m) /\ (m.success \/ GoesBack(n, p, m)) BY Zenon, <3>2
            <4>2. Synced(L, t, p, i) BY Zenon, <1>1, <1>2, <1>4, <1>8, <2>1, <4>1, AnswerNext
            <4>3. i > 0 BY Zenon, <1>2, <1>8, <3>2
            <4>4. i # 0 BY <1>4, <4>3
            <4> QED BY Zenon, <4>2, <4>4
        <3> QED BY Zenon, <1>6, <1>8, <2>2, <3>1, <3>2
    <2> QED BY Zenon, <1>5, <1>8, <2>1, <2>3
<1>9. CASE k = n /\ role[n] # "LEADER"
    <2>1. NewLeader(n) /\ i = Len(log'[n]) BY Zenon, <1>1, <1>2, <1>9 DEF LogStep, MovesNext
    <2> QED BY Zenon, <1>3, <1>4, <1>9, <2>1, NewLeaderNext
<1> QED BY Zenon, <1>7, <1>8, <1>9

\* HistRequests is kept.
LEMMA HistRequestsKept ==
    ASSUME NatWellOrdered, NEW n \in Node, NEW L, NEW M, Step(n, L, M),
           HistLogs(M)', HistElected(M)', HistNext(M)'
    PROVE  HistRequests(M)'
<1>1. /\ TypeInv /\ TypeInv' /\ HistType(L) /\ HistRequests(L) /\ LogStep(n) /\ HistType(M) /\ SendsTruth(n)
      /\ elected \subseteq elected' /\ \A t \in Nat : Prefix(L[t], M[t])
      /\ role'[n] = "LEADER" => M[currentTerm'[n]] = log'[n] /\ <<currentTerm'[n], n>> \in elected'
    BY Zenon DEF Step, HistInv, Grows, LogStep
<1>2. \A m \in msgs' : m.type # "ReadQuorum" BY Zenon, <1>1 DEF HistRequests, SendsTruth
<1> SUFFICES ASSUME NEW m \in Requests'
             PROVE  /\ <<m.term, m.from>> \in elected' /\ m.to \in InitVoters \ {m.from}
                    /\ Segment(m, M[m.term]) /\ (m.entries = <<>> => m.prevTerm = m.term)
                    /\ Synced(M, m.term, m.to, m.prevIndex + 1)'
    BY Zenon, <1>2 DEF HistRequests, Segment
<1>3. m.prevIndex \in Nat /\ m.entries \in Seq(EntrySet) /\ m.term \in Nat /\ m.from \in Node /\ m.to \in Node
    BY Zenon, <1>1, LogTypedAfter
<1>4. CASE m \in msgs
    <2>1. m \in Requests BY Zenon, <1>4 DEF Requests
    <2>2. /\ <<m.term, m.from>> \in elected /\ m.to \in InitVoters \ {m.from}
          /\ Segment(m, L[m.term]) /\ (m.entries = <<>> => m.prevTerm = m.term)
          /\ Synced(L, m.term, m.to, m.prevIndex + 1)
        BY Zenon, <1>1, <2>1 DEF HistRequests
    <2>3. L[m.term] \in Seq(EntrySet) /\ M[m.term] \in Seq(EntrySet) BY Zenon, <1>1, <1>3, HistTyped
    <2>4. Segment(m, M[m.term]) BY Zenon, <1>1, <1>3, <2>2, <2>3, SegmentGrows
    <2>5. m.prevIndex + 1 \in Nat /\ m.prevIndex + 1 # 0 /\ m.from # m.to
        <3>1. m.prevIndex \in Nat BY Zenon, <1>3
        <3>2. m.prevIndex + 1 \in Nat /\ m.prevIndex + 1 # 0 BY <3>1
        <3> QED BY Zenon, <2>2, <3>2
    <2>6. Synced(M, m.term, m.to, m.prevIndex + 1)' BY Zenon, <1>3, <2>2, <2>5, SyncedKept
    <2> QED BY Zenon, <1>1, <2>2, <2>4, <2>6
<1>5. CASE m \notin msgs
    <2>1. Sends(n, m) BY Zenon, <1>1, <1>5 DEF SendsTruth, Requests
    <2>2. /\ role'[n] = "LEADER" /\ m.from = n /\ m.to \in InitVoters \ {n} /\ m.term = currentTerm'[n]
          /\ Segment(m, log'[n]) /\ m.prevIndex + 1 = nextIndex'[n][m.to]
          /\ m.entries = <<>> => m.prevIndex = Len(log'[n])
        BY Zenon, <2>1 DEF Sends
    <2>3. M[m.term] = log'[n] /\ <<m.term, n>> \in elected' BY Zenon, <1>1, <2>2
    <2>4. PICK nw \in Seq(EntrySet) : nw = log'[n] BY Zenon, <1>1, LogTypedAfter
    <2>5. nw # <<>> /\ nw[Len(nw)].term = m.term BY Zenon, <1>3, <2>3, <2>4 DEF HistElected, HistLogs
    <2>6. m.entries = <<>> => m.prevTerm = m.term
        <3>1. Len(nw) \in 1..Len(nw) BY <2>5
        <3>2. TermAt(nw, Len(nw)) = m.term BY Zenon, <2>5, <3>1 DEF TermAt
        <3> QED BY Zenon, <2>2, <2>4, <3>2 DEF Segment
    <2>7. Synced(M, m.term, m.to, m.prevIndex + 1)' BY Zenon, <2>2 DEF HistNext, Synced
    <2> QED BY Zenon, <2>2, <2>3, <2>6, <2>7
<1> QED BY Zenon, <1>4, <1>5

\* handle_append_entries: a follower refuses what does not fit its log, and
\* the index it names, with the one it was asked about, is far enough back.
LEMMA RefusalInStep ==
    ASSUME NEW lg \in Seq(EntrySet), NEW ld \in Seq(EntrySet), NEW prev \in Nat,
           InStep(lg, ld, prev + 1), prev > 0, prev <= Len(ld), TermAt(lg, prev) # TermAt(ld, prev)
    PROVE  InStep(lg, ld, MinOf(prev, Len(lg)))
<1>1. Len(lg) \in Nat /\ Len(ld) \in Nat BY Zenon, LogLength
<1> SUFFICES ASSUME Differs(lg, ld, prev + 1) PROVE Differs(lg, ld, MinOf(prev, Len(lg))) BY Zenon DEF InStep
<1>2. PICK f \in 1..prev + 1 : f <= Len(lg) /\ f <= Len(ld) /\ lg[f] # ld[f] BY Zenon DEF Differs
<1>3. CASE f <= prev
    <2>1. f \in 1..MinOf(prev, Len(lg)) BY <1>1, <1>2, <1>3 DEF MinOf
    <2> QED BY Zenon, <1>2, <2>1 DEF Differs
<1>4. CASE ~(f <= prev)
    <2>1. prev \in 1..Len(lg) /\ prev \in 1..Len(ld) BY <1>1, <1>2, <1>4
    <2>2. lg[prev] # ld[prev] BY Zenon, <2>1 DEF TermAt
    <2>3. prev \in 1..MinOf(prev, Len(lg)) BY <1>1, <2>1 DEF MinOf
    <2> QED BY <2>1, <2>2, <2>3 DEF Differs
<1> QED BY Zenon, <1>3, <1>4

\* A refusal tells the truth.
LEMMA RefusalTold ==
    ASSUME NatWellOrdered, NEW n \in Node, NEW L, NEW M, Step(n, L, M), NEW m, ~m.success, Refuses(n, m)
    PROVE  Told(M, m)'
<1>1. /\ TypeInv /\ TypeInv' /\ HistType(L) /\ HistRequests(L) /\ HistElected(L) /\ HistType(M)
      /\ elected \subseteq elected' /\ \A t \in Nat : Prefix(L[t], M[t])
    BY Zenon DEF Step, HistInv, Grows
<1>2. PICK q : /\ Answers(n, m, q)
               /\ \/ m.term > m.sentTerm
                  \/ q.from \notin InitVoters
                  \/ m.term = m.sentTerm /\ ~PrevMatches(q)
    BY Zenon DEF Refuses
<1>3. PICK T : T = q.term BY Zenon
<1>4. /\ m.from = n /\ q.to = n /\ m.to = q.from /\ m.sentTerm = T /\ q \in Requests
      /\ m.prevIndex = q.prevIndex /\ m.term = currentTerm'[n] /\ log'[n] = log[n] /\ m.index = Len(log[n])
    BY Zenon, <1>2, <1>3 DEF Answers, Refuses
<1>5. q.prevIndex \in Nat /\ q.entries \in Seq(EntrySet) /\ T \in Nat /\ q.from \in Node /\ Len(q.entries) \in Nat
    BY Zenon, <1>1, <1>3, <1>4, LogTyped
<1>6. /\ <<T, q.from>> \in elected /\ q.from # n /\ Segment(q, L[T]) /\ Synced(L, T, n, q.prevIndex + 1)
    BY Zenon, <1>1, <1>3, <1>4 DEF HistRequests
<1>7. q.from \in InitVoters BY Zenon, <1>1, <1>5, <1>6 DEF HistElected
<1>8. currentTerm'[n] \in Nat BY Zenon, <1>1, LogTypedAfter
<1>9. T <= currentTerm'[n] BY <1>2, <1>4, <1>5, <1>7, <1>8
<1>10. ASSUME m.term <= m.sentTerm PROVE Synced(M, T, n, MinOf(m.prevIndex, m.index))'
    <2>1. ~PrevMatches(q) /\ currentTerm'[n] = T BY <1>2, <1>4, <1>5, <1>7, <1>8, <1>10
    <2>2. PICK lg \in Seq(EntrySet) : lg = log[n] BY Zenon, <1>1, LogTyped
    <2>3. PICK md \in Seq(EntrySet) : md = M[T] BY Zenon, <1>1, <1>5, HistTyped
    <2>4. Segment(q, md)
        <3>1. L[T] \in Seq(EntrySet) BY Zenon, <1>1, <1>5, HistTyped
        <3> QED BY Zenon, <1>1, <1>5, <1>6, <2>3, <3>1, SegmentGrows
    <2>5. q.prevIndex > 0 /\ TermAt(lg, q.prevIndex) # TermAt(md, q.prevIndex)
        BY Zenon, <1>4, <2>1, <2>2, <2>4 DEF PrevMatches, Segment
    <2>6. q.prevIndex <= Len(md)
        <3>1. q.prevIndex + Len(q.entries) <= Len(md) /\ Len(md) \in Nat BY Zenon, <2>4, LogLength DEF Segment
        <3> QED BY <1>5, <3>1
    <2>7. Synced(M, T, n, q.prevIndex + 1)'
        <3>1. q.prevIndex + 1 \in Nat /\ q.prevIndex + 1 # 0 BY <1>5
        <3> QED BY Zenon, <1>5, <1>6, <3>1, SyncedKept
    <2>8. InStep(lg, md, q.prevIndex + 1) BY Zenon, <1>4, <2>1, <2>2, <2>3, <2>7 DEF Synced
    <2>9. InStep(lg, md, MinOf(q.prevIndex, Len(lg))) BY Zenon, <1>5, <2>5, <2>6, <2>8, RefusalInStep
    <2>10. ~(currentTerm'[n] < T) BY <1>8, <2>1
    <2> QED BY Zenon, <1>4, <2>1, <2>2, <2>3, <2>9, <2>10 DEF Synced
<1> QED BY Zenon, <1>1, <1>4, <1>6, <1>9, <1>10 DEF Told

\* A confirmation tells the truth.
LEMMA ConfirmationTold ==
    ASSUME NatWellOrdered, NEW n \in Node, NEW L, NEW M, Step(n, L, M), NEW m, m.success, Confirms(n, m)
    PROVE  Told(M, m)'
<1>1. /\ TypeInv /\ TypeInv' /\ HistInv(L) /\ HistType(L) /\ HistRequests(L) /\ LogStep(n)
      /\ elected \subseteq elected'
    BY Zenon DEF Step, HistInv, Grows
<1>2. PICK q : Answers(n, m, q) /\ Takes(n, q) /\ m.index = q.prevIndex + Len(q.entries) BY Zenon DEF Confirms
<1>3. PICK T : T = q.term BY Zenon
<1>4. /\ m.from = n /\ q.to = n /\ m.to = q.from /\ m.sentTerm = T /\ q \in Requests
    BY Zenon, <1>2, <1>3 DEF Answers
<1>5. q.prevIndex \in Nat /\ Len(q.entries) \in Nat /\ T \in Nat /\ q.from \in Node
    BY Zenon, <1>1, <1>3, <1>4, LogTyped
<1>6. <<T, q.from>> \in elected /\ q.from # n BY Zenon, <1>1, <1>3, <1>4 DEF HistRequests
<1>7. T = currentTerm'[n] /\ Prefix(log'[n], L[T]) /\ m.index <= Len(log'[n]) BY Zenon, <1>1, <1>2, <1>3, Copy
<1>8. M[T] = L[T] BY <1>1, <1>5, <1>6, OneLeader
<1>9. PICK ld : ld = L[T] BY Zenon
<1>10. Len(log'[n]) <= Len(ld) /\ Len(log'[n]) \in Nat /\ Len(ld) \in Nat /\ m.index \in Nat
    <2>1. Len(log'[n]) \in Nat BY Zenon, <1>1, LogTypedAfter
    <2>2. Len(ld) \in Nat BY Zenon, <1>1, <1>5, <1>9, HistTyped, LogLength
    <2>3. m.index \in Nat
        <3>1. m.index = q.prevIndex + Len(q.entries) BY Zenon, <1>2
        <3> QED BY <1>5, <3>1
    <2>4. Len(log'[n]) <= Len(ld) BY Zenon, <1>7, <1>9 DEF Prefix, SameUpTo
    <2> QED BY Zenon, <2>1, <2>2, <2>3, <2>4
<1>11. m.index <= Len(ld) BY <1>7, <1>10
<1>12. Acked(M, T, n, m.index)'
    <2>1. T <= currentTerm'[n] BY Zenon, <1>5, <1>7, SameIsAtLeast
    <2> QED BY Zenon, <1>7, <1>8, <1>9, <1>11, <2>1 DEF Acked
<1>13. T <= currentTerm'[n]
    <2>1. T <= T BY <1>5
    <2> QED BY Zenon, <1>7, <2>1
<1> QED BY Zenon, <1>1, <1>4, <1>6, <1>12, <1>13 DEF Told

\* HistAnswers is kept.
LEMMA HistAnswersKept ==
    ASSUME NatWellOrdered, NEW n \in Node, NEW L, NEW M, Step(n, L, M)
    PROVE  HistAnswers(M)'
<1>1. /\ TypeInv /\ TypeInv' /\ HistAnswers(L) /\ LogStep(n) /\ SendsTruth(n) /\ elected \subseteq elected'
    BY Zenon DEF Step, HistInv, Grows, LogStep
<1> SUFFICES ASSUME NEW m \in msgs', m.type = "AppendReply" PROVE Told(M, m)' BY Zenon DEF HistAnswers
<1>2. CASE m \in msgs
    <2>1. m.sentTerm \in Nat /\ m.prevIndex \in Nat /\ m.index \in Nat /\ m.from \in Node /\ m.to \in Node
        BY Zenon, <1>1, <1>2, ProgressTyped
    <2>2. Told(L, m) BY Zenon, <1>1, <1>2 DEF HistAnswers
    <2>3. <<m.sentTerm, m.to>> \in elected /\ m.from # m.to /\ m.sentTerm <= currentTerm[m.from] BY Zenon, <2>2 DEF Told
    <2>4. m.sentTerm <= currentTerm'[m.from]
        <3>1. PICK a \in Nat : a = currentTerm[m.from] BY Zenon, <1>1, <2>1, TermsKept
        <3>2. PICK b \in Nat : b = currentTerm'[m.from] /\ a <= b BY Zenon, <1>1, <2>1, <3>1, TermsKept
        <3>3. PICK t \in Nat : t = m.sentTerm /\ t <= a BY Zenon, <2>1, <2>3, <3>1
        <3>4. t <= b BY <3>2, <3>3
        <3> QED BY Zenon, <3>2, <3>3, <3>4
    <2>5. CASE m.success
        <3>1. Acked(L, m.sentTerm, m.from, m.index) BY Zenon, <2>2, <2>5 DEF Told
        <3>2. Acked(M, m.sentTerm, m.from, m.index)' BY Zenon, <2>1, <2>3, <3>1, AckedKept
        <3> QED BY Zenon, <1>1, <2>3, <2>4, <2>5, <3>2 DEF Told
    <2>6. CASE ~m.success
        <3>1. ASSUME m.term <= m.sentTerm PROVE Synced(M, m.sentTerm, m.from, MinOf(m.prevIndex, m.index))'
            <4>1. Synced(L, m.sentTerm, m.from, MinOf(m.prevIndex, m.index)) BY Zenon, <2>2, <2>6, <3>1 DEF Told
            <4>2. MinOf(m.prevIndex, m.index) \in Nat BY Zenon, <2>1 DEF MinOf
            <4> QED BY Zenon, <2>1, <2>3, <4>1, <4>2, SyncedKept
        <3> QED BY Zenon, <1>1, <2>3, <2>4, <2>6, <3>1 DEF Told
    <2> QED BY Zenon, <2>5, <2>6
<1>3. CASE m \notin msgs
    <2>1. CASE m.success
        <3>1. Confirms(n, m) BY Zenon, <1>1, <1>3, <2>1 DEF SendsTruth
        <3> QED BY Zenon, <2>1, <3>1, ConfirmationTold
    <2>2. CASE ~m.success
        <3>1. Refuses(n, m) BY Zenon, <1>1, <1>3, <2>2 DEF SendsTruth
        <3> QED BY Zenon, <2>2, <3>1, RefusalTold
    <2> QED BY Zenon, <2>1, <2>2
<1> QED BY Zenon, <1>2, <1>3

\* HistMatch is kept.
LEMMA HistMatchKept ==
    ASSUME NatWellOrdered, NEW n \in Node, NEW L, NEW M, Step(n, L, M)
    PROVE  HistMatch(M)'
<1>1. /\ TypeInv /\ TypeInv' /\ HistMatch(L) /\ HistAnswers(L) /\ HistLeader(L) /\ LogStep(n) /\ HistStep(n, L, M)
    BY Zenon DEF Step, HistInv
<1> SUFFICES ASSUME NEW k \in Node, NEW p \in Node, role'[k] = "LEADER", matchIndex'[k][p] # 0,
                    NEW i, i = matchIndex'[k][p], NEW t, t = currentTerm'[k]
             PROVE  p # k /\ Acked(M, t, p, i)'
    BY Zenon DEF HistMatch, Acked
<1>2. t \in Nat /\ i \in Nat
    <2>1. i \in Nat BY <1>1 DEF TypeInv, TypeOK
    <2> QED BY Zenon, <1>1, <2>1, LogTypedAfter
<1>3. ASSUME role[k] = "LEADER", currentTerm[k] = t, p # k /\ Acked(L, t, p, i) PROVE Acked(M, t, p, i)'
    <2>1. <<t, k>> \in elected BY Zenon, <1>1, <1>3 DEF HistLeader
    <2> QED BY Zenon, <1>2, <1>3, <2>1, AckedKept
<1>4. CASE k # n
    <2>1. role[k] = "LEADER" /\ currentTerm[k] = t /\ matchIndex[k][p] = i BY Zenon, <1>1, <1>4 DEF LogStep
    <2>2. p # k /\ Acked(L, t, p, i) BY Zenon, <1>1, <2>1 DEF HistMatch
    <2> QED BY Zenon, <1>3, <2>1, <2>2
<1>5. CASE k = n /\ role[n] = "LEADER"
    <2>1. currentTerm[n] = t BY Zenon, <1>1, <1>5, SameTerm
    <2>2. \/ matchIndex[n][p] = i
          \/ \E m : AnswerOf(n, p, m) /\ m.success /\ i = m.index
        BY Zenon, <1>1, <1>5 DEF LogStep, CountsAnswers
    <2>3. p # n /\ Acked(L, t, p, i)
        <3>1. CASE matchIndex[n][p] = i BY Zenon, <1>1, <1>5, <2>1, <3>1 DEF HistMatch
        <3>2. CASE \E m : AnswerOf(n, p, m) /\ m.success /\ i = m.index
            <4>1. PICK m : AnswerOf(n, p, m) /\ m.success /\ i = m.index BY Zenon, <3>2
            <4>2. Told(L, m) /\ m.from = p /\ m.to = n /\ m.sentTerm = t BY Zenon, <1>1, <2>1, <4>1 DEF HistAnswers, AnswerOf
            <4> QED BY Zenon, <4>1, <4>2 DEF Told
        <3> QED BY Zenon, <2>2, <3>1, <3>2
    <2> QED BY Zenon, <1>3, <1>5, <2>1, <2>3
<1>6. CASE k = n /\ role[n] # "LEADER"
    <2>1. NewLeader(n) BY Zenon, <1>1, <1>6 DEF HistStep, KeepsLog, Proposes, Takes, TakesPart, Accepts
    <2> QED BY Zenon, <1>6, <2>1 DEF NewLeader
<1> QED BY Zenon, <1>4, <1>5, <1>6

-----------------------------------------------------------------------------
(* The invariant is inductive, and what follows from it.                   *)

\* No log, no leader and no message.
LEMMA HistInit ==
    ASSUME Init
    PROVE  \E L : HistInv(L) /\ \A t \in Nat : L[t] = <<>>
<1> DEFINE L == [t \in Nat |-> <<>>]
<1>1. /\ \A n \in Node : log[n] = <<>> /\ role[n] = "FOLLOWER"
      /\ elected = {} /\ msgs = {}
    BY Zenon DEF Init
<1>2. HistType(L) /\ \A t \in Nat : L[t] = <<>> BY DEF HistType
<1> HIDE DEF L
<1>3. HistLogs(L) BY Zenon, <1>2 DEF HistLogs
<1>4. HistElected(L) BY Zenon, <1>1 DEF HistElected
<1>5. HistMade(L) BY <1>1 DEF HistMade, Made
<1>6. HistLeader(L) /\ HistNext(L) /\ HistMatch(L) BY Zenon, <1>1 DEF HistLeader, HistNext, HistMatch
<1>7. HistRequests(L) /\ HistAnswers(L) BY Zenon, <1>1 DEF HistRequests, HistAnswers, Requests
<1>8. HistInv(L) BY Zenon, <1>2, <1>3, <1>4, <1>5, <1>6, <1>7 DEF HistInv
<1> QED BY Zenon, <1>2, <1>8

\* Every step has its history.
LEMMA HistAdvances ==
    ASSUME NEW n \in Node, LogStep(n), NEW L
    PROVE  \E M : HistStep(n, L, M)
<1>1. PICK M : M = [L EXCEPT ![currentTerm'[n]] = log'[n]] BY Zenon
<1> QED BY Zenon, <1>1 DEF LogStep, HistStep

\* A step keeps the invariant, with the history after the step.
LEMMA HistKept ==
    ASSUME NatWellOrdered, TypeInv, TypeInv', ElectionSafety', NEW L, HistInv(L), NEW n \in Node, LogStep(n),
           NEW M, HistStep(n, L, M)
    PROVE  Step(n, L, M) /\ HistInv(M)'
<1>1. Grows(n, L, M) BY Zenon, HistGrows
<1>2. Step(n, L, M) BY Zenon, <1>1 DEF Step
<1>3. HistType(M)' BY Zenon, <1>1 DEF Grows, HistType
<1>4. HistLogs(M)' /\ HistElected(M)' /\ HistLeader(M)' BY Zenon, <1>2, HistLogsKept, HistElectedKept, HistLeaderKept
<1>5. HistMade(M)' /\ HistNext(M)' /\ HistAnswers(M)' /\ HistMatch(M)'
    BY Zenon, <1>2, HistMadeKept, HistNextKept, HistAnswersKept, HistMatchKept
<1>6. HistRequests(M)' BY Zenon, <1>2, <1>4, <1>5, HistRequestsKept
<1> QED BY Zenon, <1>2, <1>3, <1>4, <1>5, <1>6 DEF HistInv

\* Nothing changes when no replica steps.
LEMMA HistStutters ==
    ASSUME NEW L, HistInv(L), UNCHANGED vars
    PROVE  HistInv(L)'
<1>1. /\ log' = log /\ role' = role /\ currentTerm' = currentTerm /\ elected' = elected /\ msgs' = msgs
      /\ nextIndex' = nextIndex /\ matchIndex' = matchIndex
    BY Zenon DEF vars, electionVars, logVars, memberVars, progressVars
<1>2. HistType(L)' /\ HistLogs(L)' /\ HistElected(L)' /\ HistMade(L)' /\ HistLeader(L)'
    BY Zenon, <1>1 DEF HistInv, HistType, HistLogs, HistElected, HistMade, HistLeader, Made
<1>3. HistRequests(L)' BY Zenon, <1>1 DEF HistInv, HistRequests, Requests, Synced
<1>4. HistAnswers(L)' BY Zenon, <1>1 DEF HistInv, HistAnswers, Told, Acked, Synced
<1>5. HistNext(L)' /\ HistMatch(L)' BY Zenon, <1>1 DEF HistInv, HistNext, HistMatch, Acked, Synced
<1> QED BY Zenon, <1>2, <1>3, <1>4, <1>5 DEF HistInv

\* Logs made from one history match.
LEMMA HistMatching ==
    ASSUME TypeInv, NEW L, HistInv(L)
    PROVE  LogMatching
<1> SUFFICES ASSUME NEW a \in Node, NEW b \in Node, NEW i \in 1..MinOf(Len(log[a]), Len(log[b])),
                    log[a][i].term = log[b][i].term
             PROVE  SubSeq(log[a], 1, i) = SubSeq(log[b], 1, i)
    BY Zenon DEF LogMatching
<1>1. log[a] \in Seq(EntrySet) /\ log[b] \in Seq(EntrySet) /\ Len(log[a]) \in Nat /\ Len(log[b]) \in Nat BY Zenon, LogTyped
<1>2. i \in 1..Len(log[a]) /\ i <= Len(log[b]) /\ i \in Nat BY Zenon, <1>1, WithinBoth
<1>3. HistType(L) /\ Made(L, log[a]) /\ Made(L, log[b]) BY Zenon DEF HistInv, HistMade
<1>4. SameUpTo(log[a], log[b], i) BY Zenon, <1>1, <1>2, <1>3, MadeAgree
<1> QED BY Zenon, <1>1, <1>2, <1>4, SamePrefix

\* What a leader counts as replicated is.
LEMMA HistProgress ==
    ASSUME TypeInv, NEW L, HistInv(L)
    PROVE  MatchIndexTrue
<1> SUFFICES ASSUME NEW n \in Node, NEW p \in Node, role[n] = "LEADER", currentTerm[p] <= currentTerm[n],
                    NEW i, i = matchIndex[n][p]
             PROVE  Len(log[p]) >= i /\ SubSeq(log[p], 1, i) = SubSeq(log[n], 1, i)
    BY Zenon DEF MatchIndexTrue
<1>1. /\ log[n] \in Seq(EntrySet) /\ log[p] \in Seq(EntrySet) /\ Len(log[n]) \in Nat /\ Len(log[p]) \in Nat
      /\ currentTerm[n] \in Nat /\ currentTerm[p] \in Nat /\ i \in Nat
    BY Zenon, LogTyped, ProgressTyped
<1>2. SameUpTo(log[p], log[n], i)
    <2>1. CASE i = 0 BY Zenon, <1>1, <2>1, SameUpToNone
    <2>2. CASE i # 0
        <3>1. Acked(L, currentTerm[n], p, i) /\ L[currentTerm[n]] = log[n] BY Zenon, <2>2 DEF HistInv, HistMatch, HistLeader
        <3>2. Prefix(log[p], log[n]) /\ i <= Len(log[p]) BY <1>1, <3>1 DEF Acked
        <3> QED BY Zenon, <1>1, <3>2, PrefixUpTo
    <2> QED BY Zenon, <2>1, <2>2
<1>3. Len(log[p]) >= i BY Zenon, <1>1, <1>2 DEF SameUpTo
<1> QED BY Zenon, <1>1, <1>2, <1>3, SamePrefix
-----------------------------------------------------------------------------
(* A request is logged once.                                               *)

\* lg does not hold a request twice
Once(lg) ==
    \A v \in Request : \A i, j \in 1..Len(lg) : Is(lg[i], "WRITE", v) /\ Is(lg[j], "WRITE", v) => i = j

\* neither does a log, nor one that a leader had
OnceInv(L) ==
    /\ \A n \in Node : Once(log[n])
    /\ \A t \in Nat : Once(L[t])

\* A log that is copied in part.
LEMMA OncePrefix ==
    ASSUME NEW a \in Seq(EntrySet), NEW b \in Seq(EntrySet), Prefix(a, b), Once(b)
    PROVE  Once(a)
<1>1. Len(a) \in Nat /\ Len(b) \in Nat BY Zenon, LogLength
<1>2. Len(a) <= Len(b) /\ \A k \in 1..Len(a) : a[k] = b[k] BY Zenon DEF Prefix, SameUpTo
<1>3. \A k \in 1..Len(a) : k \in 1..Len(b) BY <1>1, <1>2
<1> QED BY Zenon, <1>2, <1>3 DEF Once

\* submit_batch searches the log for the request before it proposes it.
LEMMA OnceAppend ==
    ASSUME NEW lg \in Seq(EntrySet), NEW e \in EntrySet, Once(lg), NewWrite(lg, e)
    PROVE  Once(Append(lg, e))
<1>1. PICK r : r = Append(lg, e) BY Zenon
<1>2. /\ Len(lg) \in Nat /\ Len(r) = Len(lg) + 1 /\ r[Len(r)] = e
      /\ \A i \in 1..Len(lg) : r[i] = lg[i]
    BY <1>1
<1>3. \A i \in 1..Len(r) : i \in 1..Len(lg) \/ i = Len(r) BY <1>2
<1>4. ASSUME NEW v \in Request, NEW i \in 1..Len(r), NEW j \in 1..Len(r), Is(r[i], "WRITE", v), Is(r[j], "WRITE", v)
      PROVE  i = j
    <2>1. CASE i \in 1..Len(lg) /\ j \in 1..Len(lg) BY Zenon, <1>2, <1>4, <2>1 DEF Once
    <2>2. ASSUME r[Len(r)].kind = "WRITE", r[Len(r)].arg = v, NEW k \in 1..Len(lg), Is(r[k], "WRITE", v) PROVE FALSE
        BY Zenon, <1>2, <2>2 DEF NewWrite
    <2> QED BY Zenon, <1>3, <1>4, <2>1, <2>2 DEF Is
<1> QED BY Zenon, <1>1, <1>4 DEF Once

\* Before the first election.
LEMMA OnceInit ==
    ASSUME Init, NEW L, \A t \in Nat : L[t] = <<>>
    PROVE  OnceInv(L)
<1>1. Once(<<>>) BY DEF Once
<1>2. \A n \in Node : log[n] = <<>> BY Zenon DEF Init
<1> QED BY Zenon, <1>1, <1>2 DEF OnceInv

\* A step keeps it: a leader proposes what its log does not hold, and a follower
\* copies from a log of the history.
LEMMA OnceKept ==
    ASSUME NatWellOrdered, NEW n \in Node, NEW L, NEW M, Step(n, L, M), OnceInv(L)
    PROVE  OnceInv(M)'
<1>1. TypeInv /\ TypeInv' /\ HistInv(L) /\ HistType(L) /\ LogStep(n) BY Zenon DEF Step, HistInv
<1>2. Once(log'[n])
    <2>1. log[n] \in Seq(EntrySet) /\ log'[n] \in Seq(EntrySet) BY Zenon, <1>1, LogTyped, LogTypedAfter
    <2>2. CASE KeepsLog(n) BY Zenon, <2>2 DEF KeepsLog, OnceInv
    <2>3. ASSUME NEW e, Proposes(n, e) PROVE Once(log'[n])
        <3>1. e \in EntrySet /\ NewWrite(log[n], e) /\ log'[n] = Append(log[n], e) BY Zenon, <2>3 DEF Proposes
        <3>2. Once(log[n]) BY Zenon DEF OnceInv
        <3> QED BY Zenon, <2>1, <3>1, <3>2, OnceAppend
    <2>4. ASSUME NEW m, Takes(n, m) \/ TakesPart(n, m) PROVE Once(log'[n])
        <3>1. m.term \in Nat /\ Prefix(log'[n], L[m.term]) BY Zenon, <1>1, <2>4, Copy
        <3>2. L[m.term] \in Seq(EntrySet) /\ Once(L[m.term]) BY Zenon, <1>1, <3>1, HistTyped DEF OnceInv
        <3> QED BY Zenon, <2>1, <3>1, <3>2, OncePrefix
    <2> QED BY Zenon, <1>1, <2>2, <2>3, <2>4 DEF LogStep
<1>3. \A k \in Node : Once(log'[k]) BY Zenon, <1>1, <1>2 DEF LogStep, OnceInv
<1>4. \A t \in Nat : M[t] = L[t] \/ M[t] = log'[n] BY Zenon DEF Step, Grows
<1>5. \A t \in Nat : Once(M[t]) BY Zenon, <1>2, <1>4 DEF OnceInv
<1> QED BY Zenon, <1>3, <1>5 DEF OnceInv, Once

\* Nothing changes when no replica steps.
LEMMA OnceStutters ==
    ASSUME NEW L, OnceInv(L), UNCHANGED vars
    PROVE  OnceInv(L)'
<1>1. log' = log BY Zenon DEF vars, logVars
<1> QED BY Zenon, <1>1 DEF OnceInv, Once
=============================================================================
