------------------------------ MODULE RaftRead ------------------------------
(***************************************************************************)
(* Linearizable reads: ReadTracker (src/storage/replica/read_tracker.cpp)  *)
(* and RaftCore's read-index check on top of the group of module Raft.  A  *)
(* read records the commit index, asks the voters with an empty            *)
(* AppendEntries call that carries its sequence number, and is answered    *)
(* from the state machine by the advance() that ends a later dispatch.     *)
(***************************************************************************)
EXTENDS Raft, RaftFormed

CONSTANT MaxRead   \* bound: number of reads submitted

ASSUME ReadAssumption == MaxRead \in Nat

VARIABLES
    reads,      \* pending_reads_ of all replicas; floor is history
    answered,   \* history: floor and served index of every read that returned a value
    readSeq     \* reads submitted so far; numbers them

readVars == <<reads, answered, readSeq>>

\* history: the last index any replica has applied, hence the last one of a
\* write a client can have seen
LastApplied == IF applied = {} THEN 0 ELSE CHOOSE i \in {x[1] : x \in applied} : \A x \in applied : x[1] <= i

\* ensure_readable_leader: a leader that has committed an entry of its term
Readable(n) ==
    /\ ~recovering[n] /\ role[n] = "LEADER"
    /\ \E i \in 1..commitIndex[n] : log[n][i].term = currentTerm[n]

\* build_read_quorum_check: an empty AppendEntries at the end of the log
ReadQuorumRequests(n, seq) ==
    {[type |-> "ReadQuorum", from |-> n, to |-> p, term |-> currentTerm[n],
      prevIndex |-> Len(log[n]), prevTerm |-> LastTerm(log[n]), entries |-> <<>>,
      commit |-> commitIndex[n], seq |-> seq] : p \in voters[n] \ {n}}

NewRead(n, seq) ==
    [node |-> n, seq |-> seq, term |-> currentTerm[n], index |-> commitIndex[n],
     voters |-> voters[n], confirmed |-> voters[n] \cap {n}, floor |-> LastApplied]

\* mutant: one confirmation of another voter less is enough
ConfirmedOneShort(r) == Cardinality(r.confirmed) >= Cardinality(r.voters) \div 2

Confirmed(r) == Cardinality(r.confirmed) >= Cardinality(r.voters) \div 2 + 1

SameLeadership(r) == role'[r.node] = "LEADER" /\ currentTerm'[r.node] = r.term

\* confirm_read_index passes when last_applied reached the read index
Servable(r) == Confirmed(r) /\ commitIndex'[r.node] >= r.index

\* advance() of the dispatching replica's ReadTracker; pending are its reads
\* after the handler.  Reads of a changed leadership fail with NOT_LEADER.
Advance(pending) ==
    /\ reads' = {r \in pending : SameLeadership(r) /\ ~Servable(r)}
    /\ answered' = answered \cup {[floor |-> r.floor, served |-> commitIndex'[r.node]] :
                       r \in {q \in pending : SameLeadership(q) /\ Servable(q)}}

\* establish: the read waits, or fails at once on a replica that cannot serve it
Establish(n) ==
    /\ readSeq < MaxRead
    /\ Readable(n)
    /\ readSeq' = readSeq + 1
    /\ Exchange({}, ReadQuorumRequests(n, readSeq'))
    /\ UNCHANGED <<electionVars, logVars, memberVars, progressVars, recovering, restarts>>
    /\ Advance(reads \cup {NewRead(n, readSeq')})

\* on_read_quorum_response: success does not matter, the term does; a newer
\* term in the answer does not make the leader step down
OnReadQuorumResponse(m) ==
    /\ m.type = "ReadQuorumReply"
    /\ Exchange({m}, {})
    /\ UNCHANGED <<electionVars, logVars, memberVars, progressVars, recovering, restarts, readSeq>>
    /\ Advance({IF r.seq = m.seq /\ m.term = r.term /\ m.from \in r.voters
                THEN [r EXCEPT !.confirmed = @ \cup {m.from}] ELSE r : r \in reads})

\* a dispatch that is not about reads; a restart takes its replica's reads along
RaftStep ==
    /\ Next
    /\ UNCHANGED readSeq
    /\ Advance(reads)

ReadNext ==
    \/ RaftStep
    \/ \E n \in Node : Establish(n)
    \/ \E m \in msgs : OnReadQuorumResponse(m)

ReadInit == InitLed /\ reads = {} /\ answered = {} /\ readSeq = 0

ReadSpec == ReadInit /\ [][ReadNext]_<<vars, readVars>>

-----------------------------------------------------------------------------
\* "Linearizable reads based on ReadIndex": the value a read returns reflects
\* every entry that any replica had applied when the read was submitted,
\* although the answering leader may have been replaced in the meantime.
ReadLinearizable == \A a \in answered : a.served >= a.floor
=============================================================================
