---------------------------- MODULE MetaCluster ----------------------------
(***************************************************************************)
(* Meta with the storage nodes it directs: each node's agent (node_agent)  *)
(* reports its replica of the shard, gets orders back and has its replica  *)
(* manager carry them out.  The Raft group is what Raft.tla promises of    *)
(* it, no more: a leader elected by a quorum of voters that know each      *)
(* other, one membership change at a time, committed by a quorum.          *)
(***************************************************************************)
EXTENDS Meta

VARIABLES
  local,        \* node -> its replica of the shard, or NONE
  up,           \* the nodes that run and are connected
  beat,         \* node -> the heartbeat of its agent in progress, or NONE
  late,         \* a report its agent gave up on, still on its way to Meta
  debris        \* node -> a replica whose files are there without its metadata

vars == <<table, group, replicas, disk, nodeStatus, observed, membership, route, step, plan, ddl, faults,
          local, up, beat, late, debris>>

MetaIdle == UNCHANGED <<table, group, replicas, disk, nodeStatus, observed, membership, route, step, plan, ddl>>

(***************************************************************************)
(* The agent and the replica manager                                       *)
(***************************************************************************)
\* make_heartbeat_request
Info(n) ==
  IF local[n] = NONE THEN NONE
  ELSE [id |-> local[n].id, status |-> local[n].status, role |-> local[n].role,
        term |-> local[n].term, members |-> local[n].members]

\* ReplicaManager::add_replica: one replica of a shard on a node.  Files that
\* are already there must be recovered, which only a restart of the node does.
Created(n, orders) ==
  LET id == Min(orders.present)
  IN  [id |-> id, role |-> "FOLLOWER", term |-> 0, version |-> 0, change |-> NONE,
       status  |-> IF debris[n] = id THEN "INITIALIZING" ELSE "READY",
       members |-> [r \in Id |-> IF r \in orders.members THEN "VOTER" ELSE "NON_MEMBER"],
       lost    |-> orders.members \ orders.known]

Settled(replica) == replica.status = "READY" /\ replica.role = "LEADER" /\ replica.change = NONE

\* add_member and remove_member at the local leader; a change already made, or
\* one in progress, leaves the membership alone.
Changed(replica, orders) ==
  IF /\ orders.change # NONE /\ Settled(replica)
     /\ orders.change.op = "ADD_MEMBER" =>
          replica.members[orders.change.id] = "NON_MEMBER" /\ orders.change.id \in orders.listed
     /\ orders.change.op = "REMOVE_MEMBER" => replica.members[orders.change.id] # "NON_MEMBER"
  THEN [replica EXCEPT !.change = [op |-> orders.change.op, id |-> orders.change.id,
                                   endpoint |-> orders.change.id \in orders.known]]
  ELSE replica

\* apply_expected_replica, for each order of the answer.
Obeyed(n, orders) ==
  LET made == IF local[n] = NONE /\ orders.present # {} THEN Created(n, orders) ELSE local[n]
  IN  CASE made = NONE -> NONE
        [] made # NONE /\ made.id = orders.absent -> NONE
        [] OTHER -> Changed(made, orders)

Swept(n, orders) == IF debris[n] \in orders.present \cup {orders.absent} THEN NONE ELSE debris[n]

NoOrders == [present |-> {}, members |-> {}, listed |-> {}, known |-> {}, absent |-> NONE, change |-> NONE]

Reported(n) == IF local[n] = NONE THEN NONE ELSE local[n].id

\* The answer to a heartbeat that named replica id.
Orders(n, id) == IF RefusesEmpty(n, id) THEN NoOrders ELSE HeartbeatResult(n, id)

\* Meta writes what the agent reports; the orders are then read from it.
Report(n) ==
  /\ n \in up /\ beat[n] = NONE
  /\ Heartbeat(n, Info(n))
  /\ UNCHANGED <<table, group, replicas, disk, nodeStatus, route, step, plan, ddl, late>>

\* heartbeat_once
HeartbeatOnce(n) ==
  /\ Report(n)
  /\ \E id \in {Reported(n)} : \E orders \in {Orders(n, id)'} :
       /\ local' = [local EXCEPT ![n] = Obeyed(n, orders)]
       /\ debris' = [debris EXCEPT ![n] = Swept(n, orders)]
  /\ UNCHANGED <<faults, up, beat>>

\* The same, with the orders carried out only after others have moved on.
HeartbeatSlowly(n) ==
  /\ Fault("SLOW")
  /\ Report(n)
  /\ \E id \in {Reported(n)} : beat' = [beat EXCEPT ![n] = Orders(n, id)']
  /\ UNCHANGED <<local, up, debris>>

Obey(n) ==
  /\ n \in up /\ beat[n] # NONE
  /\ local' = [local EXCEPT ![n] = Obeyed(n, beat[n])]
  /\ debris' = [debris EXCEPT ![n] = Swept(n, beat[n])]
  /\ beat' = [beat EXCEPT ![n] = NONE]
  /\ MetaIdle /\ UNCHANGED <<faults, up, late>>

Register(n) ==
  /\ n \in up /\ nodeStatus[n] # "ONLINE"
  /\ RegisterNode(n)
  /\ UNCHANGED <<table, group, replicas, disk, observed, membership, route, step, plan, ddl, faults,
                 local, up, beat, late, debris>>

(***************************************************************************)
(* The Raft group                                                          *)
(***************************************************************************)
Runs(n) == n \in up /\ local[n] # NONE /\ local[n].status = "READY"

Voters(n) == {r \in Id : local[n].members[r] = "VOTER"}

\* n can send to m, whose replica is a member of n's group.
Reaches(n, m) ==
  /\ Runs(n) /\ Runs(m)
  /\ local[n].members[local[m].id] # "NON_MEMBER"
  /\ local[m].id \notin local[n].lost

Leads(n, m) == n # m /\ Reaches(n, m) /\ local[n].role = "LEADER" /\ local[n].term >= local[m].term

\* A voter grants its vote to a voter it knows, unless it leads or hears from a leader.
Grants(m, n) ==
  /\ m # n => /\ Reaches(n, m)
              /\ local[m].members[local[n].id] = "VOTER"
  /\ local[m].id \in Voters(n) /\ local[m].id \in Voters(m)
  /\ local[m].role # "LEADER"
  /\ ~ \E l \in Node : Leads(l, m)
  /\ local[m].version <= local[n].version

IsQuorum(votes, voters) == 2 * Cardinality(votes) > Cardinality(voters)

Elect(n) ==
  /\ Runs(n)
  /\ LET votes == {m \in Node : Runs(m) /\ Grants(m, n)}
     IN  /\ n \in votes
         /\ IsQuorum(votes, Voters(n))
         /\ local' = [m \in Node |->
                        IF m \notin votes THEN local[m]
                        ELSE [local[m] EXCEPT !.term = Max({local[v].term : v \in votes}) + 1,
                                              !.role = IF m = n THEN "LEADER" ELSE "FOLLOWER"]]
  /\ MetaIdle /\ UNCHANGED <<faults, up, beat, late, debris>>

\* What a member takes over from its leader's log.
Follows(m, leader) ==
  [local[m] EXCEPT !.term = leader.term, !.role = "FOLLOWER", !.change = NONE,
                   !.version = leader.version, !.members = leader.members,
                   !.lost = {r \in Id : /\ leader.members[r] # "NON_MEMBER"
                                        /\ IF local[m].members[r] # "NON_MEMBER"
                                           THEN r \in local[m].lost ELSE r \in leader.lost}]

Sync(n, m) ==
  /\ Leads(n, m)
  /\ local[m] # Follows(m, local[n])
  /\ local' = [local EXCEPT ![m] = Follows(m, local[n])]
  /\ MetaIdle /\ UNCHANGED <<faults, up, beat, late, debris>>

\* maybe_promote_ready_learner
Promote(n, m) ==
  /\ Leads(n, m) /\ Settled(local[n])
  /\ local[n].members[local[m].id] = "LEARNER"
  /\ local[m] = Follows(m, local[n])
  /\ local' = [local EXCEPT ![n].change = [op |-> "PROMOTE", id |-> local[m].id, endpoint |-> TRUE]]
  /\ MetaIdle /\ UNCHANGED <<faults, up, beat, late, debris>>

\* A quorum has the entry: the leader applies it, and so do those it reaches.
CommitChange(n) ==
  LET change == local[n].change
      type == CASE change.op = "ADD_MEMBER" -> "LEARNER"
                [] change.op = "PROMOTE" -> "VOTER"
                [] OTHER -> "NON_MEMBER"
      leader == [local[n] EXCEPT
                   !.change = NONE, !.version = @ + 1,
                   !.members = [@ EXCEPT ![change.id] = type],
                   !.lost = IF change.op = "ADD_MEMBER" /\ ~change.endpoint THEN @ \cup {change.id} ELSE @,
                   !.role = IF change.op = "REMOVE_MEMBER" /\ change.id = local[n].id THEN "FOLLOWER" ELSE @]
  IN  /\ Runs(n) /\ local[n].role = "LEADER" /\ change # NONE
      /\ IsQuorum({m \in Node : (m = n \/ Leads(n, m)) /\ local[m].id \in Voters(n)}, Voters(n))
      /\ local' = [m \in Node |-> IF m = n THEN leader
                                  ELSE IF Leads(n, m) THEN Follows(m, leader) ELSE local[m]]
      /\ MetaIdle /\ UNCHANGED <<faults, up, beat, late, debris>>

RaftStep ==
  \/ \E n \in Node : Elect(n) \/ CommitChange(n)
  \/ \E n, m \in Node : Sync(n, m) \/ Promote(n, m)

(***************************************************************************)
(* Faults                                                                  *)
(***************************************************************************)
Cut(n) ==
  /\ n \in up /\ Fault("CUT")
  /\ up' = up \ {n}
  /\ beat' = [beat EXCEPT ![n] = NONE]
  /\ MetaIdle /\ UNCHANGED <<local, late, debris>>

Reconnect(n) ==
  /\ n \in Node \ up
  /\ up' = up \cup {n}
  /\ MetaIdle /\ UNCHANGED <<faults, local, beat, late, debris>>

\* ReplicaManager::recover: the replicas whose metadata was saved.
RestartNode(n) ==
  /\ n \in Node \ up
  /\ up' = up \cup {n}
  /\ local' = [local EXCEPT ![n] = IF @ = NONE THEN NONE
                                   ELSE [@ EXCEPT !.role = "FOLLOWER", !.change = NONE, !.status = "READY"]]
  /\ MetaIdle /\ UNCHANGED <<faults, beat, late, debris>>

\* The node dies in add_replica, after init made the files, before the metadata is saved.
DieInAddReplica(n) ==
  /\ Fault("DIE")
  /\ local[n] = NONE
  /\ Report(n)
  /\ \E orders \in {Orders(n, NONE)'} :
       /\ orders.present # {}
       /\ debris' = [debris EXCEPT ![n] = Min(orders.present)]
  /\ up' = up \ {n}
  /\ UNCHANGED <<local, beat>>

FaultReplica(n) ==
  /\ Runs(n) /\ Fault("FAULT")
  /\ local' = [local EXCEPT ![n].status = "FAULTED"]
  /\ MetaIdle /\ UNCHANGED <<up, beat, late, debris>>

\* The agent's deadline passes; Meta handles the report later all the same.
DelayReport(n) ==
  /\ n \in up /\ beat[n] = NONE /\ late = NONE
  /\ Fault("DELAY")
  /\ late' = [node |-> n, info |-> Info(n)]
  /\ MetaIdle /\ UNCHANGED <<local, up, beat, debris>>

LateReport ==
  /\ late # NONE
  /\ IF nodeStatus[late.node] = NONE THEN UNCHANGED <<observed, membership>> ELSE Heartbeat(late.node, late.info)
  /\ late' = NONE
  /\ UNCHANGED <<table, group, replicas, disk, nodeStatus, route, step, plan, ddl, faults, local, up, beat, debris>>

CrashMeta ==
  /\ RestartMeta
  /\ beat' = [n \in Node |-> NONE] /\ late' = NONE
  /\ UNCHANGED <<local, up, debris>>

StorageIdle == UNCHANGED <<local, up, beat, late, debris>>

Init ==
  /\ MetaInit
  /\ local = [n \in Node |-> NONE] /\ up = Node
  /\ beat = [n \in Node |-> NONE] /\ late = NONE
  /\ debris = [n \in Node |-> NONE]

Ddl == CreateTable \/ DropTable \/ \E target \in AlterTargets : AlterTable(target)

AgentStep(n) == HeartbeatOnce(n) \/ Obey(n) \/ Register(n)

\* What keeps running without being asked: the agents, the Raft groups, the
\* network, and whoever restarts a node.
Background ==
  /\ UNCHANGED <<step, ddl, faults>>
  /\ \/ \E n \in Node : AgentStep(n) \/ Reconnect(n) \/ RestartNode(n)
     \/ RaftStep
     \/ LateReport

TickStep == Tick(Node \ up) /\ StorageIdle

Next ==
  \/ Ddl /\ StorageIdle
  \/ TickStep
  \/ Background
  \/ \E n \in Node : Cut(n) \/ DieInAddReplica(n) \/ FaultReplica(n) \/ DelayReport(n) \/ HeartbeatSlowly(n)
  \/ CrashMeta

Spec == Init /\ [][Next]_vars

(***************************************************************************)
(* Properties                                                              *)
(***************************************************************************)
\* n leads the group: no replica has seen a later term.
Leading(n) ==
  /\ local[n] # NONE
  /\ local[n].role = "LEADER" /\ local[n].status = "READY"
  /\ \A m \in Node : local[m] # NONE => local[m].term <= local[n].term

\* The sequence number of a new member (next_replica_seq, saved with the group)
\* names no replica that a node still holds and none that a Raft group knows,
\* although Meta may fail to save, restart, or retire members in between.
IdsNeverReused ==
  [][\A r \in Desired' \ Desired : \A n \in Node :
       local[n] # NONE => local[n].id # r /\ local[n].members[r] = "NON_MEMBER"]_vars

\* reconcile_group retires a healthy member of a table that is kept only while
\* the healthy members that stay are as many as the table wants.
RetireKeepsTarget ==
  [][(/\ group # NONE /\ group' # NONE /\ group.target > 0
      /\ \E r \in Desired \ Desired' : IsHealthy(r))
     => Cardinality({r \in Desired' : IsHealthy(r)}) >= group.target]_vars

\* ensure_all_shards_ok goes by what Meta last observed: when it declares the
\* table READY, the leader of the Raft group counts every member as a voter.
ReadyMembersVote ==
  [][(table # NONE /\ table.phase # "READY" /\ table'.phase = "READY")
     => \A n \in Node : Leading(n) => Desired \subseteq Voters(n)]_vars

\* The comment in reconcile_group: a member of a Raft group is retired only
\* after its leader reported that it is no longer a member.
RetiredLeftRaft ==
  [][(group # NONE /\ group' # NONE /\ group.target > 0 /\ group.mode = "RAFT_RECONFIG")
     => \A r \in Desired \ Desired', n \in Node : Leading(n) => r \notin Voters(n)]_vars

\* A quorum of n's voters runs and would vote for it.
Electable(n) ==
  /\ Runs(n) /\ local[n].id \in Voters(n)
  /\ IsQuorum({m \in Node : /\ Runs(m) /\ local[m].id \in Voters(m) \cap Voters(n)
                            /\ m # n => Reaches(n, m) /\ local[n].id \in Voters(m)}, Voters(n))

Serving ==
  /\ table.phase = "READY" /\ ShardOk
  /\ table.target > 0 => \E n \in Node : Leading(n) /\ local[n].id = route

\* Meta remembers a leader that was retired with all its group, and the leader
\* of the group that took its place has no later term: its reports are refused.
Outranked(n) ==
  /\ Leading(n) /\ membership # NONE
  /\ membership.leader \notin Desired /\ local[n].term <= membership.term

\* What reconciliation cannot repair: no replica that can be elected, a member
\* without an address, a replica left half created, no node for a new member,
\* a leader that is not believed.
Blocked ==
  \/ Desired # {} /\ \A n \in Node : ~Electable(n)
  \/ \E n \in Node : local[n] # NONE /\ (local[n].lost # {} \/ local[n].status = "INITIALIZING")
  \/ group # NONE /\ group.target > Cardinality({r \in Desired : IsHealthy(r)}) + Cardinality(Candidates)
  \/ \E n \in Node : Outranked(n)


\* Every replica Meta does not want is deleted from its node in the end, late
\* orders notwithstanding, and a dropped table becomes DELETED.
CleansUp ==
  []<>(/\ \A n \in Node : local[n] # NONE => local[n].id \in Desired
       /\ table # NONE => table.phase # "DELETING")

=============================================================================
