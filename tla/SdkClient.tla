------------------------------ MODULE SdkClient ------------------------------
(***************************************************************************)
(* One cas or get of the SDK: the route cache with its background          *)
(* refresh, the retry loop, and the verdict the caller gets.  A call that  *)
(* the SDK gives up on stays alive: it may reach its replica and take      *)
(* effect later.  The Raft group is what modules Raft and RaftClient       *)
(* establish of it, seen from one request: it is in a log at most once,    *)
(* and a leader has every committed entry.                                 *)
(***************************************************************************)
EXTENDS Integers, FiniteSets

CONSTANTS
    Node,             \* replicas of the shard
    MaxRetries,       \* KVClientConf::max_retries
    RouteMaxRetries,  \* KVClientConf::route_max_retries
    MaxElection,      \* bound: changes of the leader
    NONE

ASSUME SdkAssumption == MaxRetries \in Nat /\ RouteMaxRetries \in Nat /\ MaxElection \in Nat

ASSUME NoneAssumption == NONE \notin Node \cup {"asked", "OK", "CONDITION_NOT_MET"}

Attempt == 1 .. MaxRetries + 1

VARIABLES
    leader, elections,   \* the leader of the group, and how often it changed
    logs,                \* replicas with the request in their log
    record,              \* its committed RequestRecord, NONE before it is committed
    applied,             \* replicas that have applied it
    op,                  \* the operation, "cas" or "get"
    calls,               \* calls at work in the network or at a replica
    metaRoute,           \* the leader Meta knows, NONE when it has no writable route
    cache,               \* the leader in RouteCache::snapshot_, NONE when it is empty
    foreground, background,   \* refreshes: NONE, "asked", or the leader in Meta's answer
    pc,                  \* where run_kv_request is
    route, attempts, refreshes, uncertain, status,   \* its locals
    expired              \* the deadline has passed

groupVars == <<leader, elections, logs, record, applied>>
routeVars == <<metaRoute, cache, background>>
loopVars == <<op, pc, route, attempts, refreshes, uncertain, status>>
vars == <<groupVars, calls, routeVars, foreground, loopVars, expired>>

\* IS_FAULTED stands for IS_RECOVERING and NOT_INIT too, which are treated alike
Refreshing == {"NOT_LEADER", "REPLICA_NOT_FOUND", "IS_FAULTED", "RPC_ERROR"}

\* classify_error and is_uncertain_write_error
IsRetryable(s) == s \in Refreshing \cup {"NOT_YET_COMMIT", "READ_INDEX_NOT_READY"}
RefreshesRoute(s) == s \in Refreshing
IsUncertain(s) == op = "cas" /\ s \in {"RPC_ERROR", "NOT_YET_COMMIT"}

\* finalize_status; no read is ever uncertain
Finalized(s, unsure) ==
    CASE unsure /\ s \notin {"OK", "CONDITION_NOT_MET", "KEY_NOT_FOUND"} -> "UNKNOWN"
      [] s = "READ_INDEX_NOT_READY" -> "SDK_TRY_AGAIN"
      [] OTHER -> s

\* the request ends
Finish(s, unsure) ==
    /\ pc' = "done"
    /\ status' = Finalized(s, unsure)
    /\ uncertain' = unsure
    /\ UNCHANGED <<op, route, attempts, refreshes>>

-----------------------------------------------------------------------------
(* The group, from the request's point of view.                            *)

\* A new leader has the request if it is committed.
Elect(n) ==
    /\ elections < MaxElection /\ n # leader
    /\ record # NONE => n \in logs
    /\ leader' = n
    /\ elections' = elections + 1
    /\ UNCHANGED <<logs, record, applied, calls, routeVars, foreground, loopVars, expired>>

\* A follower's log becomes the leader's: the request arrives or is overwritten.
Replicate(n) ==
    /\ n # leader
    /\ logs' = IF leader \in logs THEN logs \cup {n} ELSE logs \ {n}
    /\ UNCHANGED <<leader, elections, record, applied, calls, routeVars, foreground, loopVars, expired>>

\* The entry is committed and applied by the leader; what the key holds decides.
Commit ==
    /\ leader \in logs /\ record = NONE
    /\ record' \in {"OK", "CONDITION_NOT_MET", "KEY_NOT_FOUND"}
    /\ applied' = {leader}
    /\ UNCHANGED <<leader, elections, logs, calls, routeVars, foreground, loopVars, expired>>

Apply(n) ==
    /\ record # NONE /\ n \in logs
    /\ applied' = applied \cup {n}
    /\ UNCHANGED <<leader, elections, logs, record, calls, routeVars, foreground, loopVars, expired>>

-----------------------------------------------------------------------------
(* execute_with_retry                                                      *)

\* the head of the retry loop, and select_leader_replica and call_leader
Send ==
    /\ pc = "loop"
    /\ IF attempts > MaxRetries \/ expired
       THEN Finish(status, uncertain) /\ UNCHANGED calls
       ELSE /\ pc' = "sending"
            /\ attempts' = attempts + 1
            /\ calls' = calls \cup {[attempt |-> attempts + 1, node |-> route, tracked |-> FALSE]}
            /\ UNCHANGED <<op, route, refreshes, uncertain, status>>
    /\ UNCHANGED <<groupVars, routeVars, foreground, expired>>

\* the body of the loop once send() has returned s
Returned(s) ==
    LET unsure == uncertain \/ IsUncertain(s) IN
    IF \/ s = "OK" \/ ~IsRetryable(s) \/ attempts > MaxRetries \/ expired
       \/ RefreshesRoute(s) /\ refreshes >= RouteMaxRetries
    THEN Finish(s, unsure) /\ UNCHANGED foreground
    ELSE /\ status' = s
         /\ uncertain' = unsure
         /\ IF RefreshesRoute(s)
            THEN pc' = "refresh" /\ refreshes' = refreshes + 1 /\ foreground' = "asked"
            ELSE pc' = "loop" /\ UNCHANGED <<refreshes, foreground>>
         /\ UNCHANGED <<op, route, attempts>>

\* mutant: a call without a deadline
RpcNeverFails == FALSE /\ UNCHANGED vars

\* the deadline of the RPC passes, or the connection breaks; the call lives on
RpcFails ==
    /\ pc = "sending"
    /\ Returned("RPC_ERROR")
    /\ UNCHANGED <<groupVars, calls, routeVars, expired>>

\* write_timeout_ms has passed
Expire ==
    /\ pc \notin {"init", "done"} /\ ~expired
    /\ expired' = TRUE
    /\ UNCHANGED <<groupVars, calls, routeVars, foreground, loopVars>>

-----------------------------------------------------------------------------
(* A call at its replica.                                                  *)

\* The answer s reaches the SDK, or nobody: the SDK may have given up.
Answer(c, s) ==
    /\ calls' = calls \ {c}
    /\ IF pc = "sending" /\ c.attempt = attempts THEN Returned(s)
       ELSE UNCHANGED <<foreground, loopVars>>
    /\ UNCHANGED <<routeVars, expired>>

\* the call is handed to the proposal tracker or to the read tracker
Track(c) ==
    /\ calls' = (calls \ {c}) \cup {[c EXCEPT !.tracked = TRUE]}
    /\ UNCHANGED <<routeVars, foreground, loopVars, expired>>

\* resolve_replica, OperGate and ensure_serving refuse the call
Refuse(c) ==
    /\ ~c.tracked
    /\ \E s \in {"REPLICA_NOT_FOUND", "IS_FAULTED"} : Answer(c, s)
    /\ UNCHANGED groupVars

\* mutant: an entry in the log counts as applied
LookupInLog(n) == IF n \in logs THEN "OK" ELSE NONE

\* state_machine_.find_request
Lookup(n) == IF n \in applied THEN record ELSE NONE

\* mutant: the record is not looked up; a committed CAS is evaluated once more,
\* and what it wrote fails its own condition
HandleCasAgain(c) ==
    /\ op = "cas" /\ ~c.tracked
    /\ IF c.node \in logs \cup {leader}
       THEN IF record = "OK" THEN Answer(c, "CONDITION_NOT_MET") /\ UNCHANGED logs
            ELSE Track(c) /\ logs' = logs \cup {c.node}
       ELSE Answer(c, "NOT_LEADER") /\ UNCHANGED logs
    /\ UNCHANGED <<leader, elections, record, applied>>

\* Cas, Replica::cas and ProposalTracker::submit_batch: the record answers; an
\* entry in the log is joined; a leader appends a new one.
HandleCas(c) ==
    /\ op = "cas" /\ ~c.tracked
    /\ IF Lookup(c.node) # NONE THEN Answer(c, Lookup(c.node)) /\ UNCHANGED logs
       ELSE IF c.node \in logs \cup {leader} THEN Track(c) /\ logs' = logs \cup {c.node}
       ELSE Answer(c, "NOT_LEADER") /\ UNCHANGED logs
    /\ UNCHANGED <<leader, elections, record, applied>>

\* Get, Replica::get and ReadTracker::establish
HandleGet(c) ==
    /\ op = "get" /\ ~c.tracked
    /\ \/ c.node = leader /\ Track(c)
       \/ Answer(c, IF c.node = leader THEN "READ_INDEX_NOT_READY" ELSE "NOT_LEADER")
    /\ UNCHANGED groupVars

\* ProposalTracker::advance, the time-out of WaitPolicy, a fault or a shutdown.
\* The index of an overwritten entry is committed without a record: find_request
\* says KEY_NOT_FOUND.
ResolveCas(c) ==
    /\ op = "cas" /\ c.tracked
    /\ \/ Lookup(c.node) # NONE /\ Answer(c, Lookup(c.node))
       \/ c.node \notin logs /\ Answer(c, "KEY_NOT_FOUND")
       \/ c.node # leader /\ Answer(c, "NOT_LEADER")
       \/ \E s \in {"NOT_YET_COMMIT", "IS_FAULTED", "ERROR"} : Answer(c, s)
    /\ UNCHANGED groupVars

\* ReadTracker::advance, the time-out of WaitPolicy, a fault or a shutdown
ResolveGet(c) ==
    /\ op = "get" /\ c.tracked
    /\ \/ c.node = leader /\ \E s \in {"OK", "KEY_NOT_FOUND"} : Answer(c, s)
       \/ \E s \in {"NOT_LEADER", "IS_FAULTED", "ERROR"} : Answer(c, s)
    /\ UNCHANGED groupVars

-----------------------------------------------------------------------------
(* Routes: RouteService, MetaRouteClient and RouteCache.                   *)

\* A heartbeat of the leader reaches Meta, and its route follows.
MetaLearns ==
    /\ metaRoute # leader
    /\ metaRoute' = leader
    /\ UNCHANGED <<groupVars, calls, cache, background, foreground, loopVars, expired>>

\* resolve_route: a cache miss makes the request refresh the routes itself
ResolveRoute ==
    /\ pc = "init"
    /\ IF cache # NONE
       THEN pc' = "loop" /\ route' = cache /\ UNCHANGED foreground
       ELSE pc' = "resolve" /\ foreground' = "asked" /\ UNCHANGED route
    /\ UNCHANGED <<groupVars, calls, routeVars, op, attempts, refreshes, uncertain, status, expired>>

\* Meta answers with the route it has
MetaAnswersForeground ==
    /\ foreground = "asked" /\ metaRoute # NONE
    /\ foreground' = metaRoute
    /\ UNCHANGED <<groupVars, calls, routeVars, loopVars, expired>>

\* publish_table_routes
Refreshed ==
    /\ foreground \in Node
    /\ cache' = foreground
    /\ foreground' = NONE
    /\ pc' = "lookup"
    /\ UNCHANGED <<groupVars, calls, metaRoute, background, op, route, attempts, refreshes, uncertain, status, expired>>

\* lookup_cached_route: another refresh may have been published by now
LookupRoute ==
    /\ pc = "lookup"
    /\ route' = cache
    /\ pc' = "loop"
    /\ UNCHANGED <<groupVars, calls, routeVars, foreground, op, attempts, refreshes, uncertain, status, expired>>

\* no route, no answer, or no time left
RefreshFails ==
    /\ foreground # NONE
    /\ foreground' = NONE
    /\ \E s \in {"RPC_ERROR", "ROUTE_NOT_FOUND", "RESOURCE_EXHAUSTED"} : Finish(s, uncertain)
    /\ UNCHANGED <<groupVars, calls, routeVars, expired>>

\* RefreshTask: one refresh after the other, whatever came of the last one
BackgroundAsks ==
    /\ background = NONE
    /\ background' = "asked"
    /\ UNCHANGED <<groupVars, calls, metaRoute, cache, foreground, loopVars, expired>>

MetaAnswersBackground ==
    /\ background = "asked" /\ metaRoute # NONE
    /\ background' = metaRoute
    /\ UNCHANGED <<groupVars, calls, metaRoute, cache, foreground, loopVars, expired>>

\* mutant: an answer never replaces a route that the cache has
BackgroundFillsOnly ==
    /\ background \in Node
    /\ cache' = IF cache = NONE THEN background ELSE cache
    /\ background' = NONE
    /\ UNCHANGED <<groupVars, calls, metaRoute, foreground, loopVars, expired>>

BackgroundRefreshed ==
    /\ background \in Node
    /\ cache' = background
    /\ background' = NONE
    /\ UNCHANGED <<groupVars, calls, metaRoute, foreground, loopVars, expired>>

BackgroundFails ==
    /\ background = "asked"
    /\ background' = NONE
    /\ UNCHANGED <<groupVars, calls, metaRoute, cache, foreground, loopVars, expired>>

-----------------------------------------------------------------------------
Init ==
    /\ leader \in Node /\ elections = 0
    /\ logs = {} /\ record = NONE /\ applied = {}
    /\ calls = {}
    /\ metaRoute = NONE /\ cache = NONE /\ foreground = NONE /\ background = NONE
    /\ op \in {"cas", "get"}
    /\ pc = "init" /\ route = NONE /\ attempts = 0 /\ refreshes = 0
    /\ uncertain = FALSE /\ status = "RESOURCE_EXHAUSTED" /\ expired = FALSE

RequestStep == ResolveRoute \/ Send \/ RpcFails \/ Refreshed \/ LookupRoute \/ RefreshFails

BackgroundStep == BackgroundAsks \/ BackgroundRefreshed \/ BackgroundFails

Next ==
    \/ \E n \in Node : Elect(n) \/ Replicate(n) \/ Apply(n)
    \/ Commit \/ Expire \/ MetaLearns \/ MetaAnswersForeground \/ MetaAnswersBackground
    \/ \E c \in calls : Refuse(c) \/ HandleCas(c) \/ HandleGet(c) \/ ResolveCas(c) \/ ResolveGet(c)
    \/ RequestStep \/ BackgroundStep

\* Every RPC has a deadline, so the threads of the request and of the refresh
\* always go on.  Of the refreshes that are sent again and again, some are
\* answered; Meta hears of the leader with the heartbeats.
Spec ==
    /\ Init /\ [][Next]_vars
    /\ WF_vars(RequestStep)
    /\ WF_vars(BackgroundStep)
    /\ SF_vars(MetaAnswersBackground)
    /\ WF_vars(MetaLearns)

-----------------------------------------------------------------------------
Verdict == IF pc = "done" THEN status ELSE NONE

\* KVClient::cas: OK means that the write has taken effect, whichever of the
\* attempts, on whichever replica, the answer came from.
OkIsApplied == op = "cas" /\ Verdict = "OK" => record = "OK"

\* finalize_status returns CONDITION_NOT_MET as it is although earlier attempts
\* were uncertain: none of them has taken or will take effect.
RefusalIsFinal == Verdict = "CONDITION_NOT_MET" => record = "CONDITION_NOT_MET"

\* execute_with_retry ends: attempts, refreshes and RPC deadlines are bounded.
RequestReturns == <>(pc = "done")

\* RouteCache: publish_table_routes does not compare versions, so a late answer
\* can replace a newer one; the cache still ends up with the leader of the group.
CacheFollowsLeader == <>[](cache = leader)
==============================================================================
