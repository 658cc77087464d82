------------------------------- MODULE MCMeta -------------------------------
(***************************************************************************)
(* Meta and three storage nodes, for TLC.  The behaviours start with a     *)
(* table to be created, or with one of two replicas that serves.           *)
(***************************************************************************)
EXTENDS MetaCluster

VARIABLE shape   \* which of the two starts this behaviour has

ThreeNodes == 1 .. 3

\* The replica of node n in the table that serves; node 1 leads.
Member(n) ==
  [id |-> n, status |-> "READY", role |-> IF n = 1 THEN "LEADER" ELSE "FOLLOWER", term |-> 1,
   members |-> [r \in Id |-> IF r <= CreateTarget THEN "VOTER" ELSE "NON_MEMBER"],
   version |-> 0, change |-> NONE, lost |-> {}]

\* What creating the table leads to when nothing fails.
InitServing ==
  /\ table = [phase |-> "READY", target |-> CreateTarget]
  /\ group = [mode |-> "RAFT_RECONFIG", target |-> CreateTarget,
              desired |-> 1 .. CreateTarget, next |-> CreateTarget + 1]
  /\ replicas = [r \in Id |-> IF r <= CreateTarget THEN [node |-> r, phase |-> "READY"] ELSE NONE]
  /\ disk = [table |-> table, group |-> group, replicas |-> replicas]
  /\ nodeStatus = [n \in Node |-> "ONLINE"]
  /\ observed = [r \in Id |-> IF r <= CreateTarget
                              THEN [role |-> Member(r).role, type |-> "VOTER", status |-> "READY",
                                    endpoint |-> TRUE, noExist |-> FALSE, term |-> 1]
                              ELSE NONE]
  /\ membership = [term |-> 1, leader |-> 1] /\ route = 1
  /\ step = "nodes" /\ plan = NONE
  /\ ddl = 1 /\ faults = 0
  /\ local = [n \in Node |-> IF n <= CreateTarget THEN Member(n) ELSE NONE] /\ up = Node
  /\ beat = [n \in Node |-> NONE] /\ late = NONE
  /\ debris = [n \in Node |-> NONE]

MCInit ==
  \/ shape = "create" /\ Init
  \/ shape = "serve" /\ InitServing

\* Bound: DDL calls come before the fault.  The table that is created is then
\* dropped or sees one fault, which is not that of a node or a replica.  The
\* one that serves is changed once and then sees one fault; or it is left
\* without replicas, and then dropped or given one again, without a fault.  A
\* node dies or is cut off only while the table has a node to spare.
Bound ==
  /\ up' # up /\ table # NONE => table.target < Cardinality(Node)
  /\ ddl' # ddl => faults = 0
  /\ shape = "create" =>
       /\ ddl' + faults' <= 2
       /\ table' # NONE => table'.phase # "RESIZING"
       /\ up' = up
       /\ \A n \in Node : local'[n] # NONE => local'[n].status # "FAULTED"
  /\ ddl' = 3 \/ (table' # NONE /\ table'.target = 0) => faults' = 0
  /\ ddl' = 3 /\ ddl = 2 => table = [phase |-> "READY", target |-> 0] /\ table'.target < 2

MCNext == Next /\ Bound /\ vars' # vars /\ UNCHANGED shape

\* The tick thread of Meta runs again and again, and so does everything in the
\* background (Background_task loops, the Raft ticks, the retries).
MCSpec == MCInit /\ [][MCNext]_<<vars, shape>> /\ WF_vars(TickStep) /\ WF_vars(Background)

ServeSpec == shape = "serve" /\ InitServing /\ [][MCNext]_<<vars, shape>>
=============================================================================
