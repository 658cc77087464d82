----------------------------- MODULE DurableLog -----------------------------
(* What the storage of one follower promises to the leaders it answers and *)
(* to the readers of its state machine: a committed entry that was         *)
(* acknowledged, or applied, stays on its disk whatever happens next.      *)
EXTENDS Integers

CONSTANT LastIndex     \* the committed log has the entries 1 .. LastIndex

VARIABLES
    kept,      \* the committed prefix a restart would find on the disk
    acked,     \* the highest index a leader counts as replicated here
    applied    \* the highest index in the state machine

Index == 0 .. LastIndex

Init ==
    /\ kept \in Index
    /\ acked = 0
    /\ applied = 0

\* entries reach the disk before they are acknowledged or applied
Store ==
    /\ kept' \in kept .. LastIndex
    /\ acked' \in acked .. kept'
    /\ applied' \in applied .. kept'

\* a crash loses the state machine and nothing of the committed prefix; a
\* write may have reached the disk without its acknowledgement
Crash ==
    /\ kept' \in kept .. LastIndex
    /\ applied' = 0
    /\ acked' = acked

Next == Store \/ Crash

Spec == Init /\ [][Next]_<<kept, acked, applied>>
=============================================================================
