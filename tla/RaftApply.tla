------------------------------ MODULE RaftApply ------------------------------
(***************************************************************************)
(* Applying committed entries: RaftApply::extract_committed_entries and    *)
(* the loop of ReplicaLoop::apply_committed_entries_inline that calls it   *)
(* with a budget of key-value entries until nothing is left.  Module Raft  *)
(* keeps backlogs below the budget; this one goes beyond it, as the first  *)
(* commit after a restart does.                                            *)
(***************************************************************************)
EXTENDS Integers, Sequences, FiniteSets, Functions

CONSTANTS
    Budget,   \* K_REPLICA_INLINE_APPLY_BATCH_SIZE
    MaxLog    \* bound: length of the log

ASSUME ApplyAssumption == Budget \in Nat \ {0} /\ MaxLog \in Nat

VARIABLES
    log,           \* the kind of each entry: "KV" (no-ops included) or "CONFIG"
    commitIndex,
    lastApplied,
    applying,      \* inside the loop of apply_committed_entries_inline
    faulted,
    appliedSeq     \* history: the indices handed to the state machine

vars == <<log, commitIndex, lastApplied, applying, faulted, appliedSeq>>

-----------------------------------------------------------------------------
(* One call of extract_committed_entries.                                  *)

Backlog == lastApplied + 1 .. commitIndex

KvBelow(i) == {j \in Backlog : j < i /\ log[j] = "KV"}

\* mutant: the scan does not stop at the second entry beyond the budget
ExtractedNoStop ==
    {i \in Backlog : log[i] = "CONFIG" \/ Cardinality(KvBelow(i)) < Budget}

\* Key-value entries up to the budget.  The first one beyond it is passed over
\* and the scan goes on, taking configuration entries, until the second one.
Extracted ==
    {i \in Backlog : IF log[i] = "CONFIG" THEN Cardinality(KvBelow(i)) <= Budget + 1
                     ELSE Cardinality(KvBelow(i)) < Budget}

\* mutant: only the stop of the scan reports that more is left
HasMoreAtStop == Cardinality(KvBelow(commitIndex + 1)) > Budget + 1

HasMore == Cardinality(KvBelow(commitIndex + 1)) > Budget

InOrder(S) == SelectSeq([i \in 1..commitIndex |-> i], LAMBDA i : i \in S)

\* mutant: a configuration entry does not move last_applied
AppliedUpToKv(S) ==
    LET kv == {i \in S : log[i] = "KV"}
    IN  IF kv = {} THEN lastApplied ELSE CHOOSE i \in kv : \A j \in kv : j <= i

\* advance_last_applied, called for each entry of S
AppliedUpTo(S) == IF S = {} THEN lastApplied ELSE CHOOSE i \in S : \A j \in S : j <= i

-----------------------------------------------------------------------------
\* a dispatch appends entries of the given kinds, moves the commit index to i
\* and then applies
Dispatch(kinds, i) ==
    /\ ~applying /\ ~faulted
    /\ Len(log) + Len(kinds) <= MaxLog
    /\ log' = log \o kinds
    /\ i \in commitIndex .. Len(log')
    /\ commitIndex' = i
    /\ applying' = TRUE
    /\ UNCHANGED <<lastApplied, faulted, appliedSeq>>

\* one iteration of the loop
ApplyRound ==
    /\ applying
    /\ appliedSeq' = appliedSeq \o InOrder(Extracted)
    /\ lastApplied' = AppliedUpTo(Extracted)
    /\ applying' = (Extracted # {} /\ HasMore)
    /\ UNCHANGED <<log, commitIndex, faulted>>

\* the state machine refuses entry i: the replica faults and applies no more
ApplyFails(i) ==
    LET done == {j \in Extracted : j < i} IN
    /\ applying
    /\ appliedSeq' = appliedSeq \o InOrder(done)
    /\ lastApplied' = AppliedUpTo(done)
    /\ applying' = FALSE
    /\ faulted' = TRUE
    /\ UNCHANGED <<log, commitIndex>>

Init ==
    /\ log = <<>>
    /\ commitIndex = 0
    /\ lastApplied = 0
    /\ applying = FALSE
    /\ faulted = FALSE
    /\ appliedSeq = <<>>

Next ==
    \/ \E kinds \in {<<>>, <<"KV">>, <<"CONFIG">>}, i \in commitIndex .. MaxLog : Dispatch(kinds, i)
    \/ ApplyRound
    \/ \E i \in Extracted : ApplyFails(i)

Spec == Init /\ [][Next]_vars

-----------------------------------------------------------------------------
\* The loop runs until has_more is false: when a dispatch ends on a healthy
\* replica, last_applied has reached commit_index, which the trackers and the
\* other handlers count on.
BacklogDrained == ~applying /\ ~faulted => lastApplied = commitIndex

\* apply_one_entry: no entry is applied twice and none after a later one.
AppliedOnceInOrder == \A i, j \in 1..Len(appliedSeq) : i < j => appliedSeq[i] < appliedSeq[j]

\* The passed-over entry of extract_committed_entries: last_applied only moves
\* past an unapplied entry that is a key-value entry with a configuration
\* entry right behind it.
SkipsOnlyBeforeConfig ==
    \A i \in 1..lastApplied \ Range(appliedSeq) :
        /\ log[i] = "KV"
        /\ i + 1 <= lastApplied /\ log[i + 1] = "CONFIG"

\* "Extraction in rounds consumes the whole log in the end; a configuration
\* entry is not blocked by the key-value budget": every entry up to
\* last_applied has been applied.
EveryEntryApplied == 1..lastApplied \subseteq Range(appliedSeq)
===========================================================================
