----------------------------- MODULE RaftClient -----------------------------
(***************************************************************************)
(* Client writes: ProposalTracker (src/storage/replica/proposal_tracker    *)
(* .cpp) on top of the group of module Raft.  A write carries a request    *)
(* id; the tracker remembers at which log index it waits and answers it    *)
(* from advance(), which ends every dispatch of the replica's loop.        *)
(***************************************************************************)
EXTENDS Raft

CONSTANT CasRequest   \* the requests that are CAS; the others are PUT or DEL

ASSUME CasAssumption == CasRequest \subseteq Request

VARIABLES
    tracked,   \* entries_ of each replica: requests waiting at a log index
    answers    \* history: the answers sent, and whether the replica led then

clientVars == <<tracked, answers>>

\* find_request of the state machine: n has applied request v
Recorded(lg, ci, n, v) == \E i \in 1..ci[n] : Is(lg[n][i], "WRITE", v)

Answer(v, status, leads) == [req |-> v, status |-> status, leads |-> leads]

\* mutant: a CAS is answered like a PUT
OutcomeOfIndex(n, v) == "OK"

\* the answer once the index is committed: a CAS is answered from the record
\* of its request, a PUT or DEL with OK
Outcome(n, v) ==
    IF v \notin CasRequest \/ Recorded(log', commitIndex', n, v) THEN "OK" ELSE "KEY_NOT_FOUND"

Committed(n, pending) == {w \in pending[n] : w.index <= commitIndex'[n]}

\* mutant: a replica that lost its leadership keeps its waiting requests
AdvanceKeeps(pending) ==
    /\ tracked' = [n \in Node |-> pending[n] \ Committed(n, pending)]
    /\ answers' = answers \cup UNION {{Answer(w.req, Outcome(n, w.req), role'[n] = "LEADER") :
                       w \in Committed(n, pending)} : n \in Node}

\* advance(): answers what is committed, then, on a replica that does not lead,
\* fails the rest.  pending is what waits after the handler; nothing changes
\* at the replicas that did not dispatch.
Advance(pending) ==
    LET failed(n) == IF role'[n] = "LEADER" THEN {} ELSE pending[n] \ Committed(n, pending)
        told(n)   == {Answer(w.req, Outcome(n, w.req), role'[n] = "LEADER") : w \in Committed(n, pending)}
                       \cup {Answer(w.req, "NOT_LEADER", FALSE) : w \in failed(n)}
    IN  /\ tracked' = [n \in Node |-> pending[n] \ (Committed(n, pending) \cup failed(n))]
        /\ answers' = answers \cup UNION {told(n) : n \in Node}

TrackAt(n, v, i) == [tracked EXCEPT ![n] = @ \cup {[req |-> v, index |-> i]}]

\* submit_batch with one call.  The same request joins a waiting one without
\* any effect.
Submit(n, v) ==
    /\ \A w \in tracked[n] : w.req # v
    /\ \/ /\ Recorded(log, commitIndex, n, v)
          /\ answers' = answers \cup {Answer(v, "OK", role[n] = "LEADER")}
          /\ UNCHANGED <<vars, tracked>>
       \/ /\ ~Recorded(log, commitIndex, n, v)
          /\ \E i \in Logged(n, v) : UNCHANGED vars /\ Advance(TrackAt(n, v, i))
       \/ /\ ~Recorded(log, commitIndex, n, v) /\ Logged(n, v) = {}
          /\ Propose(n, v)
          /\ Advance(TrackAt(n, v, Len(log[n]) + 1))
       \/ /\ ~Recorded(log, commitIndex, n, v) /\ Logged(n, v) = {} /\ ~WritableLeader(n)
          /\ answers' = answers \cup {Answer(v, "NOT_LEADER", FALSE)}
          /\ UNCHANGED <<vars, tracked>>

RaftStep == Dispatch /\ Advance(tracked)

\* the waiting calls die with the process
CrashStep(n) == Crash(n) /\ Advance([tracked EXCEPT ![n] = {}])

ClientNext ==
    \/ RaftStep
    \/ \E n \in Node : CrashStep(n)
    \/ \E n \in Node, v \in Request : Submit(n, v)

ClientInit == tracked = [n \in Node |-> {}] /\ answers = {}

ClientSpec == Init /\ ClientInit /\ [][ClientNext]_<<vars, clientVars>>

-----------------------------------------------------------------------------
AppliedWrite(v) == \E x \in applied : Is(x[2], "WRITE", v)

\* advance(): a write that is answered with OK has been applied.
AckedIsApplied == \A a \in answers : a.status = "OK" => AppliedWrite(a.req)

\* advance(): a CAS answered with OK has been applied, whoever answers it, since
\* its answer comes from the request record and not from the index alone.
AckedCasIsApplied == \A a \in answers : a.status = "OK" /\ a.req \in CasRequest => AppliedWrite(a.req)

\* advance(): a PUT answered with OK by a replica that leads has been applied,
\* since the tracker of a deposed leader is emptied before it can lead again.
AckedByLeaderIsApplied == \A a \in answers : a.status = "OK" /\ a.leads => AppliedWrite(a.req)

\* submit_batch: however often a request is retried, at whichever leader, a log
\* holds it at most once.
RequestLoggedOnce ==
    \A n \in Node, v \in Request : \A i, j \in 1..Len(log[n]) :
        Is(log[n][i], "WRITE", v) /\ Is(log[n][j], "WRITE", v) => i = j
=============================================================================
