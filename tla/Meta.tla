-------------------------------- MODULE Meta --------------------------------
(***************************************************************************)
(* The control plane: the metadata store, the DDL and node services and    *)
(* the reconcilers of src/src/meta, for one table of one shard.  Every     *)
(* write transaction (MetaStore::write_with) is one step; the tick thread  *)
(* runs its transactions in the order of ServiceManager::tick, so that a   *)
(* heartbeat or a DDL call falls between any two of them.                  *)
(*                                                                         *)
(* Replica ids are the sequence numbers of the shard (1, 2, ...), handed   *)
(* out in order, so that desired_members, which only ever grows at its     *)
(* end, is the set of its ids.  The nodes are numbers too: the selector    *)
(* compares node ids.  There is one resource pool and one data centre.     *)
(***************************************************************************)
EXTENDS Integers, FiniteSets, FiniteSetsExt

CONSTANTS Node, MaxId, NONE, CreateTarget, AlterTargets, MaxDdl, Faults, MaxFault

ASSUME MetaAssumption ==
  /\ Node \subseteq Nat /\ IsFiniteSet(Node)
  /\ MaxId \in Nat \ {0} /\ MaxDdl \in Nat /\ MaxFault \in Nat
  /\ CreateTarget \in Nat /\ AlterTargets \subseteq Nat
  /\ NONE \notin Nat

VARIABLES
  table,        \* [phase, target], the published copy
  group,        \* the shard's ReplicaGroup, or NONE
  replicas,     \* replica id -> [node, phase], or NONE
  disk,         \* meta.json: table, group and replicas as last saved
  nodeStatus,   \* node -> ONLINE, SUSPECT, OFFLINE, or NONE (unknown)
  observed,     \* replica id -> ReplicaObserved, or NONE
  membership,   \* MembershipObserved [term, leader], or NONE
  route,        \* the leader of the shard's route, or NONE
  step,         \* the next transaction of the tick thread
  plan,         \* what reconcile_group decided, from reads, to write next
  ddl,          \* DDL calls so far
  faults        \* faults so far

metaVars == <<table, group, replicas, disk, nodeStatus, observed, membership, route, step, plan, ddl, faults>>

Id == 1 .. MaxId

\* The environment's next fault, of one of the kinds of this instance.
Fault(kind) == kind \in Faults /\ faults < MaxFault /\ faults' = faults + 1

(***************************************************************************)
(* The store                                                               *)
(***************************************************************************)
Known == {r \in Id : replicas[r] # NONE}

Phase(r) == replicas[r].phase

IsAbsent(phase) == phase \in {"DELETING", "DELETED"}

\* mutant: a write of the group is not marked durable
PublishUnsavedGroup(t, g, rs, obs) ==
  /\ disk' = [table |-> t, group |-> disk.group, replicas |-> rs]
  /\ table' = t /\ group' = g /\ replicas' = rs /\ observed' = obs
  /\ UNCHANGED faults

\* write_with: save the durable data, then publish the copy.
Publish(t, g, rs, obs) ==
  /\ disk' = [table |-> t, group |-> g, replicas |-> rs]
  /\ table' = t /\ group' = g /\ replicas' = rs /\ observed' = obs
  /\ UNCHANGED faults

\* A failed save publishes nothing: the transaction is rolled back.
SaveFails ==
  /\ Fault("SAVE")
  /\ UNCHANGED <<table, group, replicas, disk, observed>>

Write(t, g, rs, obs) ==
  IF <<t, g, rs>> = <<table, group, replicas>>
  THEN observed' = obs /\ UNCHANGED <<table, group, replicas, disk, faults>>
  ELSE Publish(t, g, rs, obs) \/ SaveFails

(***************************************************************************)
(* DDL                                                                     *)
(***************************************************************************)
DdlCall(t) ==
  /\ ddl < MaxDdl
  /\ ddl' = ddl + 1
  /\ Write(t, group, replicas, observed)
  /\ UNCHANGED <<nodeStatus, membership, route, step, plan>>

CreateTable ==
  /\ table = NONE
  /\ DdlCall([phase |-> "CREATING", target |-> CreateTarget])

DropTable ==
  /\ table # NONE
  /\ ~IsAbsent(table.phase)
  /\ DdlCall([table EXCEPT !.phase = "DELETING"])

AlterTable(target) ==
  /\ table # NONE
  /\ table.phase = "READY"
  /\ table.target # target
  /\ DdlCall([phase |-> "RESIZING", target |-> target])

(***************************************************************************)
(* Nodes: registration, heartbeats                                         *)
(***************************************************************************)
RegisterNode(n) == nodeStatus' = [nodeStatus EXCEPT ![n] = "ONLINE"]

\* A ReplicaObserved with every field at its default; of the endpoint only
\* whether it is there.
Unobserved == [role |-> "FOLLOWER", type |-> "NON_MEMBER", status |-> "INITIALIZING",
               endpoint |-> FALSE, noExist |-> FALSE, term |-> 0]

Observed(obs, r) == IF obs[r] = NONE THEN Unobserved ELSE obs[r]


ShouldAcceptMembershipReport(info) ==
  \/ membership = NONE
  \/ info.term > membership.term
  \/ info.term = membership.term /\ info.id = membership.leader

\* The leader's report sets the member type of every desired member.
ProjectLeaderMembership(obs, info) ==
  [r \in Id |-> IF r \in group.desired /\ r \in Known
                THEN [Observed(obs, r) EXCEPT !.type = info.members[r]]
                ELSE obs[r]]

Projects(info) ==
  /\ info.role = "LEADER"
  /\ group # NONE
  /\ info.id \in group.desired
  /\ ShouldAcceptMembershipReport(info)

\* apply_reported_replicas skips a replica it does not know on this node and a
\* report of an older term.
Accepts(n, info) ==
  /\ info # NONE
  /\ info.id \in Known
  /\ replicas[info.id].node = n
  /\ observed[info.id] # NONE => info.term >= observed[info.id].term

ApplyReported(n, info) ==
  IF ~Accepts(n, info) THEN observed
  ELSE LET obs == [observed EXCEPT ![info.id] =
                     [role |-> info.role, type |-> Observed(observed, info.id).type,
                      status |-> info.status, endpoint |-> TRUE, noExist |-> FALSE, term |-> info.term]]
       IN  IF Projects(info) THEN ProjectLeaderMembership(obs, info) ELSE obs

\* A replica being deleted that its node no longer reports is gone.
MarkNoExist(n, info, obs) ==
  [r \in Id |-> IF /\ r \in Known
                   /\ replicas[r].node = n /\ Phase(r) = "DELETING"
                   /\ (info # NONE => info.id # r)
                THEN [Observed(obs, r) EXCEPT !.noExist = TRUE]
                ELSE obs[r]]

\* NodeService::heartbeat.  info is the node's replica of the shard, or NONE.
Heartbeat(n, info) ==
  /\ nodeStatus[n] # NONE
  /\ observed' = MarkNoExist(n, info, ApplyReported(n, info))
  /\ membership' = IF Accepts(n, info) /\ Projects(info)
                   THEN [term |-> info.term, leader |-> info.id] ELSE membership

(***************************************************************************)
(* What a heartbeat's answer asks of the node                              *)
(***************************************************************************)
Desired == IF group = NONE THEN {} ELSE group.desired

IsHealthy(r) == replicas[r] # NONE /\ ~IsAbsent(Phase(r)) /\ Phase(r) \notin {"LOST", "ERROR"}

IsBad(r) == replicas[r] # NONE /\ Phase(r) \in {"LOST", "ERROR"}

\* RemoveVictimClass: BAD, NON_MEMBER, NON_LEADER, LEADER.
VictimClass(r) ==
  CASE replicas[r] = NONE \/ IsBad(r) -> 0
    [] OTHER -> LET o == Observed(observed, r)
                IN  IF o.type = "NON_MEMBER" THEN 1 ELSE IF o.role = "LEADER" THEN 3 ELSE 2

GoesBefore(q, r) ==
  \/ VictimClass(q) < VictimClass(r)
  \/ VictimClass(q) = VictimClass(r) /\ q > r

\* The first count of the candidates, the worst class first and in it the newest.
SelectVictims(count, candidates) ==
  {r \in candidates : Cardinality({q \in candidates : GoesBefore(q, r)}) < count}

\* mutant: healthy members are candidates whatever their number
SingleVictimAnyway == SelectVictims(1, group.desired)

\* select_single_remove_victim, as a set of at most one replica.
SingleVictim ==
  IF Cardinality(group.desired) > group.target
  THEN SelectVictims(1, group.desired)
  ELSE SelectVictims(1, {r \in group.desired : VictimClass(r) = 0})

ShardMembers(voterOnly) ==
  {r \in Desired : /\ replicas[r] # NONE /\ observed[r] # NONE
                   /\ voterOnly => observed[r].type = "VOTER"}

\* The member to add or to remove next, for the node of the leader.
ReconfigCommand(n) ==
  LET members == {r \in group.desired : replicas[r] # NONE}
      isLeader == \E r \in members : replicas[r].node = n /\ Observed(observed, r).role = "LEADER"
      voters == {r \in members : IsHealthy(r) /\ Observed(observed, r).type = "VOTER"}
      fresh == {r \in members : Phase(r) = "READY" /\ Observed(observed, r).type = "NON_MEMBER"}
      adds == (IF fresh = {} THEN {} ELSE {Min(fresh)}) \ SingleVictim
  IN  CASE ~isLeader -> NONE
        [] isLeader /\ adds # {} -> [op |-> "ADD_MEMBER", id |-> Min(adds)]
        [] isLeader /\ adds = {} /\ Cardinality(voters) >= group.target /\ SingleVictim # {} ->
             [op |-> "REMOVE_MEMBER", id |-> Min(SingleVictim)]
        [] OTHER -> NONE

\* build_heartbeat_result: reported is the replica the heartbeat named, or NONE.
\* A PRESENT order carries members, an ADD_MEMBER order listed; known are those
\* of either that carry an endpoint.
HeartbeatResult(n, reported) ==
  [present |-> {r \in Desired \cap Known : replicas[r].node = n /\ r # reported},
   members |-> ShardMembers(group # NONE /\ group.mode = "RAFT_RECONFIG"),
   listed  |-> ShardMembers(FALSE),
   known   |-> {r \in ShardMembers(FALSE) : observed[r].endpoint},
   absent  |-> IF \/ reported = NONE
                  \/ reported \in Desired
                  \/ group = NONE /\ table # NONE /\ ~IsAbsent(table.phase)
               THEN NONE ELSE reported,
   change  |-> IF group # NONE /\ group.mode = "RAFT_RECONFIG" /\ group.target > 0
               THEN ReconfigCommand(n) ELSE NONE]

\* An empty Meta refuses to answer a node that reports replicas.
RefusesEmpty(n, reported) ==
  /\ {r \in Known : replicas[r].node = n} = {}
  /\ reported # NONE
  /\ table = NONE /\ group = NONE

(***************************************************************************)
(* The tick                                                                *)
(***************************************************************************)
\* NodeReconciler: a node that is heard of is ONLINE; a silent one is left as
\* it is (not silent for long, or the startup grace), suspected, or OFFLINE.
CheckNode(n, silent) ==
  CASE nodeStatus[n] = NONE -> {NONE}
    [] nodeStatus[n] # NONE /\ n \notin silent -> {"ONLINE"}
    [] OTHER -> {nodeStatus[n], "OFFLINE"} \cup (IF nodeStatus[n] = "ONLINE" THEN {"SUSPECT"} ELSE {})

CheckNodes(silent) ==
  /\ step = "nodes"
  /\ nodeStatus' \in {next \in [Node -> UNION {CheckNode(n, silent) : n \in Node}] :
                       \A n \in Node : next[n] \in CheckNode(n, silent)}
  /\ step' = "plan"
  /\ UNCHANGED <<table, group, replicas, disk, observed, membership, route, plan, ddl, faults>>

EnsureGroup ==
  IF group = NONE
  THEN [mode |-> "BOOTSTRAP", target |-> table.target, desired |-> {}, next |-> 1]
  ELSE [group EXCEPT !.target = table.target]

\* mutant: the group goes before its replicas are gone
ReconcileAbsentEarly ==
  CASE group = NONE -> NONE
    [] group # NONE /\ group.target # 0 -> [group EXCEPT !.target = 0]
    [] group # NONE /\ group.target = 0 /\ group.desired = {} -> NONE
    [] OTHER -> group

ReconcileAbsent ==
  CASE group = NONE -> NONE
    [] group # NONE /\ group.target # 0 -> [group EXCEPT !.target = 0]
    [] group # NONE /\ group.target = 0 /\ group.desired = {} /\ Known = {} -> NONE
    [] OTHER -> group

\* ReplicaGroupPlanReconciler, before and after the membership is reconciled.
PlanGroup ==
  /\ step \in {"plan", "replan"}
  /\ Write(table,
           CASE table = NONE -> group
             [] table # NONE /\ table.phase = "DELETED" -> group
             [] table # NONE /\ table.phase = "DELETING" -> ReconcileAbsent
             [] OTHER -> EnsureGroup,
           replicas, observed)
  /\ step' = IF step = "plan" THEN "phase" ELSE "route"
  /\ UNCHANGED <<nodeStatus, membership, route, plan, ddl>>

ProjectPhase(r) ==
  LET phase == Phase(r)  status == nodeStatus[replicas[r].node]  o == observed[r]
  IN  CASE phase = "DELETED" -> "DELETED"
        [] phase = "DELETING" -> IF o # NONE /\ o.noExist THEN "DELETED" ELSE "DELETING"
        [] phase = "ERROR" -> "ERROR"
        [] OTHER -> CASE status = NONE -> phase
                      [] status = "OFFLINE" -> "LOST"
                      [] status \in {"ONLINE", "SUSPECT"} /\ phase = "LOST" -> "CREATING"
                      [] OTHER -> CASE o = NONE -> phase
                                    [] o # NONE /\ o.status = "INITIALIZING" -> "CREATING"
                                    [] o # NONE /\ o.status = "READY" -> "READY"
                                    [] OTHER -> "ERROR"

ProjectPhases ==
  /\ step = "phase"
  /\ Write(table, group,
           [r \in Id |-> IF r \in Known THEN [replicas[r] EXCEPT !.phase = ProjectPhase(r)] ELSE NONE],
           observed)
  /\ step' = "members"
  /\ UNCHANGED <<nodeStatus, membership, route, plan, ddl>>

\* The nodes DefaultNodeSelector may take: ONLINE, without a desired member.
Candidates ==
  {n \in Node : nodeStatus[n] = "ONLINE"} \ {replicas[r].node : r \in Desired \cap Known}

\* Of nodes that hold no other replica the selector takes the smallest ids.
SelectNodes(count) ==
  {n \in Candidates : Cardinality({m \in Candidates : m < n}) < count}

\* reconcile_group, from one snapshot of the store: what is to be written.
Decision ==
  LET members == group.desired
      healthy == {r \in members : IsHealthy(r)}
      bad     == {r \in members : IsBad(r)}
      missing == group.target - Cardinality(healthy)
      excess  == Cardinality(members) - group.target
      left    == {r \in SingleVictim : observed[r] # NONE /\ observed[r].type = "NON_MEMBER"}
  IN  CASE group.target = 0 -> IF members # {} THEN [op |-> "SHRINK", count |-> excess] ELSE [op |-> "CLEANUP"]
        [] group.target > 0 /\ missing > 0 ->
             IF table = NONE \/ Cardinality(Candidates) < missing
             THEN NONE
             ELSE [op |-> "ADD", count |-> missing, nodes |-> SelectNodes(missing)]
        [] group.target > 0 /\ missing <= 0 /\ group.mode = "RAFT_RECONFIG" ->
             IF SingleVictim = {} THEN [op |-> "CLEANUP"]
             ELSE IF left = {} THEN NONE ELSE [op |-> "RETIRE", victims |-> left]
        [] OTHER -> IF bad # {} THEN [op |-> "RETIRE", victims |-> bad]
                    ELSE IF excess > 0 THEN [op |-> "SHRINK", count |-> excess]
                    ELSE [op |-> "CLEANUP"]

DecideMembers ==
  /\ step = "members"
  /\ plan' = IF group = NONE THEN NONE ELSE Decision
  /\ step' = IF plan' = NONE THEN "replan" ELSE "commit"
  /\ UNCHANGED <<table, group, replicas, disk, nodeStatus, observed, membership, route, ddl, faults>>

\* retire_members: out of the desired members, and to be deleted.
RetireMembers(victims) ==
  Write(table, [group EXCEPT !.desired = @ \ victims],
        [r \in Id |-> IF r \in victims \cap group.desired \cap Known /\ ~IsAbsent(Phase(r))
                      THEN [replicas[r] EXCEPT !.phase = "DELETING"] ELSE replicas[r]],
        observed)

RemoveMembers(count) ==
  LET excess == Cardinality(group.desired) - group.target
  IN  RetireMembers(SelectVictims(Min({count, excess}), group.desired))

\* add_members, its write: only the group and its target are read again.
AddMembers(count, nodes) ==
  LET ids == group.next .. group.next + count - 1
      place == [r \in ids |-> CHOOSE n \in nodes : Cardinality({m \in nodes : m < n}) = r - group.next]
  IN  IF group.target = 0 THEN Write(table, group, replicas, observed)
      ELSE /\ ids \subseteq Id
           /\ Write(table,
                    [group EXCEPT !.desired = @ \cup ids, !.next = @ + count],
                    [r \in Id |-> IF r \in ids THEN [node |-> place[r], phase |-> "CREATING"] ELSE replicas[r]],
                    [r \in Id |-> IF r \in ids THEN [Unobserved EXCEPT !.endpoint = TRUE] ELSE observed[r]])

AllMembersReady ==
  /\ group.desired # {}
  /\ \A r \in group.desired :
       /\ replicas[r] # NONE /\ Phase(r) = "READY"
       /\ observed[r] # NONE /\ observed[r].type = "VOTER"

CleanupGroup ==
  LET gone == {r \in Known : Phase(r) = "DELETED"}
      mode == CASE group.mode = "RAFT_RECONFIG" /\ group.target = 0 -> "BOOTSTRAP"
                [] /\ group.mode = "BOOTSTRAP"
                   /\ Cardinality(group.desired) = group.target /\ AllMembersReady -> "RAFT_RECONFIG"
                [] OTHER -> group.mode
  IN  Write(table, [group EXCEPT !.mode = mode],
            [r \in Id |-> IF r \in gone THEN NONE ELSE replicas[r]],
            [r \in Id |-> IF r \in gone THEN NONE ELSE observed[r]])

CommitMembers ==
  /\ step = "commit"
  /\ CASE plan.op = "ADD" -> AddMembers(plan.count, plan.nodes)
       [] plan.op = "RETIRE" -> RetireMembers(plan.victims)
       [] plan.op = "SHRINK" -> RemoveMembers(plan.count)
       [] plan.op = "CLEANUP" -> CleanupGroup
  /\ plan' = NONE
  /\ step' = "replan"
  /\ UNCHANGED <<nodeStatus, membership, route, ddl>>

\* RouteReconciler: the replicas fit to serve, and the leader of the highest term.
Routable ==
  {r \in Known : /\ Phase(r) = "READY"
                 /\ nodeStatus[replicas[r].node] = "ONLINE"
                 /\ observed[r] # NONE /\ observed[r].type = "VOTER"}

RouteLeaders ==
  LET leaders == {r \in Routable : observed[r].role = "LEADER"}
  IN  {r \in leaders : \A q \in leaders : observed[q].term <= observed[r].term}

CheckRoute ==
  /\ step = "route"
  /\ route' = IF /\ table # NONE /\ table.phase \in {"CREATING", "RESIZING", "READY"}
                 /\ Cardinality(RouteLeaders) = 1
              THEN Min(RouteLeaders) ELSE NONE
  /\ step' = "table"
  /\ UNCHANGED <<table, group, replicas, disk, nodeStatus, observed, membership, plan, ddl, faults>>

\* mutant: the member type the leader reported is not looked at
ShardOkPhasesOnly ==
  /\ Cardinality(Known) = table.target
  /\ \A r \in Known : Phase(r) = "READY"
  /\ group # NONE
  /\ group.target = table.target
  /\ Cardinality(group.desired) = table.target
  /\ group.desired \subseteq Known
  /\ table.target > 0 => route # NONE

\* ensure_all_shards_ok
ShardOk ==
  /\ Cardinality(Known) = table.target
  /\ \A r \in Known : Phase(r) = "READY" /\ Observed(observed, r).type = "VOTER"
  /\ group # NONE
  /\ group.target = table.target
  /\ Cardinality(group.desired) = table.target
  /\ group.desired \subseteq Known
  /\ table.target > 0 => route # NONE

\* ensure_all_shards_deleted
ShardDeleted == Known = {} /\ group = NONE

ReconcileTable ==
  /\ step = "table"
  /\ Write(CASE table = NONE -> NONE
             [] table # NONE /\ table.phase \in {"CREATING", "RESIZING"} ->
                  IF ShardOk THEN [table EXCEPT !.phase = "READY"] ELSE table
             [] table # NONE /\ table.phase = "DELETING" ->
                  IF ShardDeleted THEN [table EXCEPT !.phase = "DELETED"] ELSE table
             [] OTHER -> table,
           group, replicas, observed)
  /\ step' = "nodes"
  /\ UNCHANGED <<nodeStatus, membership, route, plan, ddl>>

\* A crash of Meta and its restart: what is on disk is loaded, the rest is lost.
RestartMeta ==
  /\ Fault("META")
  /\ table' = disk.table /\ group' = disk.group /\ replicas' = disk.replicas
  /\ nodeStatus' = [n \in Node |-> NONE]
  /\ observed' = [r \in Id |-> NONE]
  /\ membership' = NONE /\ route' = NONE
  /\ step' = "nodes" /\ plan' = NONE
  /\ UNCHANGED <<disk, ddl>>

Tick(silent) ==
  \/ CheckNodes(silent) \/ PlanGroup \/ ProjectPhases \/ DecideMembers
  \/ CommitMembers \/ CheckRoute \/ ReconcileTable

MetaInit ==
  /\ table = NONE /\ group = NONE /\ replicas = [r \in Id |-> NONE]
  /\ disk = [table |-> NONE, group |-> NONE, replicas |-> [r \in Id |-> NONE]]
  /\ nodeStatus = [n \in Node |-> "ONLINE"]
  /\ observed = [r \in Id |-> NONE]
  /\ membership = NONE /\ route = NONE
  /\ step = "nodes" /\ plan = NONE
  /\ ddl = 0 /\ faults = 0

=============================================================================
