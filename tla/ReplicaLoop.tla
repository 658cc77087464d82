----------------------------- MODULE ReplicaLoop -----------------------------
(***************************************************************************)
(* The life of a call to a replica: the operation gate, the completion and *)
(* its registry, the mailbox of the loop thread, the trackers, and the     *)
(* ways a call can end: answered by the loop, timed out, or failed because *)
(* the replica faults or is shut down.  Callers, the loop thread and the   *)
(* owner that starts and shuts the replica down interleave between any two *)
(* accesses to shared state.  What a dispatch does to the Raft state is    *)
(* module Raft's subject: here it commits some of the tracked proposals    *)
(* and may change the leadership.                                          *)
(***************************************************************************)
EXTENDS Integers, Sequences, FiniteSets, Functions

CONSTANTS
    Put,        \* calls of put, del and cas: they wait for commitment, with a time-out
    Get,        \* calls of get: they wait for the read index, with a time-out
    Direct,     \* Raft and membership calls: answered by their own dispatch, no time-out
    MaxBatch,   \* K_REPLICA_MAX_PROPOSAL_BATCH_SIZE
    MaxEvent,   \* bound: events waiting in the mailbox
    MaxCall,    \* bound: calls that ever begin
    NONE

Call == Put \cup Get \cup Direct

ASSUME LoopAssumption == MaxBatch \in Nat \ {0} /\ MaxEvent \in Nat /\ MaxCall \in Nat

\* a task is a call or one of these
ASSUME TaskAssumption == "event" \notin Call /\ "fault" \notin Call /\ NONE \notin Call

VARIABLES
    pc,           \* where the thread of each call is
    answer,       \* the state of its Completion, "pending" or "completed"; NONE outside the wait
    registry,     \* CompletionRegistry::pending_
    registryClosed,
    gateClosed,   \* OperGate::closed_
    localState,   \* Replica::local_state_
    active,       \* ReplicaLoop::active_
    faulted,      \* ReplicaLoop::faulted_
    queue,        \* ReplicaLoop::queue_: calls, "event" and "fault"
    queueClosed,
    loopPc,       \* where the loop thread is
    batch,        \* the task, or the proposals, being dispatched
    nextTask,     \* next_task_
    leader,       \* raft_core_.is_leader()
    tracked,      \* calls in the proposal tracker and in the read tracker
    owner         \* where the thread that shuts the replica down is

completionVars == <<answer, registry, registryClosed>>
mailboxVars == <<active, queue, queueClosed>>
loopVars == <<loopPc, batch, nextTask, leader, tracked, faulted>>
ownerVars == <<owner, gateClosed, localState>>
vars == <<pc, completionVars, mailboxVars, loopVars, ownerVars>>

Inside == {"ensure", "active", "add", "post", "wait"}   \* holding the gate

\* Completion::complete for the calls of S, with an answer or an error: nothing
\* here tells the statuses apart.  A call whose wait has timed out stays as it is.
Completed(S) ==
    [c \in Call |-> IF c \in S /\ answer[c] = "pending" THEN "completed" ELSE answer[c]]

\* the call returns: the completion leaves the registry, the gate is released
Return(c) ==
    /\ pc' = [pc EXCEPT ![c] = "returned"]
    /\ answer' = [answer EXCEPT ![c] = NONE]
    /\ registry' = registry \ {c}

Goto(c, place) == pc' = [pc EXCEPT ![c] = place]

-----------------------------------------------------------------------------
(* The thread of a call: OperGate::acquire, Replica::ensure_serving and    *)
(* ReplicaLoop::submit_and_wait.                                           *)

CallBegins(c) ==
    /\ pc[c] = "idle"
    /\ Cardinality({d \in Call : pc[d] # "idle"}) < MaxCall
    /\ IF gateClosed THEN Return(c)
       ELSE Goto(c, "lock") /\ UNCHANGED <<answer, registry>>
    /\ UNCHANGED <<registryClosed, mailboxVars, loopVars, ownerVars>>

\* mutant: the gate is not checked again once the shared lock is held
TakeGateUnchecked(c) ==
    /\ pc[c] = "lock"
    /\ Goto(c, "ensure")
    /\ UNCHANGED <<answer, registry>>

\* the shared lock is free: OperGate::wait releases the exclusive one at once
TakeGate(c) ==
    /\ pc[c] = "lock"
    /\ IF gateClosed THEN Return(c)
       ELSE Goto(c, "ensure") /\ UNCHANGED <<answer, registry>>

\* only a replica that runs, and is not recovering, serves
EnsureServing(c) ==
    /\ pc[c] = "ensure"
    /\ \/ localState = "RUNNING" /\ Goto(c, "active") /\ UNCHANGED <<answer, registry>>
       \/ Return(c)

CheckActive(c) ==
    /\ pc[c] = "active"
    /\ IF active THEN Goto(c, "add") /\ UNCHANGED <<answer, registry>>
       ELSE Return(c)

\* mutant: a closed registry lets the call go on
RegisterUnchecked(c) ==
    /\ pc[c] = "add"
    /\ Goto(c, "post")
    /\ registry' = IF registryClosed THEN registry ELSE registry \cup {c}
    /\ answer' = [answer EXCEPT ![c] = "pending"]

Register(c) ==
    /\ pc[c] = "add"
    /\ IF registryClosed THEN Return(c)
       ELSE /\ Goto(c, "post")
            /\ registry' = registry \cup {c}
            /\ answer' = [answer EXCEPT ![c] = "pending"]

\* post: a mailbox that refuses the task fails the call
Post(c) ==
    /\ pc[c] = "post"
    /\ Goto(c, "wait")
    /\ IF active /\ ~queueClosed
       THEN queue' = Append(queue, c) /\ UNCHANGED answer
       ELSE answer' = Completed({c}) /\ UNCHANGED queue
    /\ UNCHANGED registry

\* Completion::wait
Awake(c) ==
    /\ pc[c] = "wait" /\ answer[c] # "pending"
    /\ Return(c)

\* Completion::wait_for: WaitPolicy::proposal and WaitPolicy::read
TimeOut(c) ==
    /\ pc[c] = "wait" /\ answer[c] = "pending" /\ c \notin Direct
    /\ Return(c)

CallStep(c) ==
    /\ \/ Post(c)
       \/ /\ \/ TakeGate(c) \/ EnsureServing(c) \/ CheckActive(c)
             \/ Register(c) \/ Awake(c) \/ TimeOut(c)
          /\ UNCHANGED queue
    /\ UNCHANGED <<registryClosed, active, queueClosed, loopVars, ownerVars>>

-----------------------------------------------------------------------------
(* The loop thread.                                                        *)

LoopMoves(from, to) == loopPc = from /\ loopPc' = to

\* the head of the loop
NextTask ==
    /\ \/ ~active /\ LoopMoves("top", "cleanup") /\ UNCHANGED <<batch, nextTask>>
       \/ active /\ nextTask = NONE /\ LoopMoves("top", "pop") /\ UNCHANGED <<batch, nextTask>>
       \/ /\ active /\ nextTask # NONE /\ LoopMoves("top", "popped")
          /\ batch' = <<nextTask>>
          /\ nextTask' = NONE
    /\ UNCHANGED <<pc, completionVars, mailboxVars, leader, tracked, faulted, ownerVars>>

\* BlockingQueue::pop: only a task or the closing of the queue ends the wait
Pop ==
    /\ \/ /\ queue # <<>> /\ LoopMoves("pop", "popped")
          /\ batch' = <<Head(queue)>>
          /\ queue' = Tail(queue)
       \/ queue = <<>> /\ queueClosed /\ LoopMoves("pop", "cleanup") /\ UNCHANGED <<batch, queue>>
    /\ UNCHANGED <<pc, completionVars, active, queueClosed, nextTask, leader, tracked, faulted, ownerVars>>

\* the number of proposals collect_write_batch takes from the mailbox
Collected ==
    CHOOSE n \in 0 .. Len(queue) :
        /\ n < MaxBatch
        /\ \A i \in 1..n : queue[i] \in Put
        /\ n + 1 = MaxBatch \/ n = Len(queue) \/ queue[n + 1] \notin Put

\* mutant: the task that ends the batch is popped and dropped
CollectWriteBatchDrops ==
    LET stopper == Collected < Len(queue) /\ Collected + 1 < MaxBatch IN
    /\ active /\ LoopMoves("popped", "collected")
    /\ Head(batch) \in Put
    /\ batch' = batch \o SubSeq(queue, 1, Collected)
    /\ nextTask' = NONE
    /\ queue' = SubSeq(queue, IF stopper THEN Collected + 2 ELSE Collected + 1, Len(queue))
    /\ UNCHANGED <<pc, completionVars, active, queueClosed, leader, tracked, faulted, ownerVars>>

\* collect_write_batch: the first task that is no proposal becomes next_task_
CollectWriteBatch ==
    LET stopper == Collected < Len(queue) /\ Collected + 1 < MaxBatch IN
    /\ active /\ LoopMoves("popped", "collected")
    /\ Head(batch) \in Put
    /\ batch' = batch \o SubSeq(queue, 1, Collected)
    /\ nextTask' = IF stopper THEN queue[Collected + 1] ELSE NONE
    /\ queue' = SubSeq(queue, IF stopper THEN Collected + 2 ELSE Collected + 1, Len(queue))
    /\ UNCHANGED <<pc, completionVars, active, queueClosed, leader, tracked, faulted, ownerVars>>

\* a loop that finds itself stopped drops its task
DropTask ==
    /\ ~active
    /\ \E place \in {"popped", "collected", "advance"} : LoopMoves(place, "cleanup")
    /\ UNCHANGED <<pc, completionVars, mailboxVars, batch, nextTask, leader, tracked, faulted, ownerVars>>

\* report_fault on the loop thread and ReplicaLoop::enter_fault; a replica that
\* is already FAULTED, because it is being shut down, takes no notice
ReportFault ==
    IF localState = "FAULTED" THEN UNCHANGED <<localState, faulted, mailboxVars>>
    ELSE /\ localState' = "FAULTED"
         /\ faulted' = TRUE
         /\ active' = FALSE
         /\ queueClosed' = TRUE
         /\ queue' = <<>>

\* A dispatch is sound when its effects are saved and what is committed by then
\* is applied; otherwise the replica faults.
Dispatched(sound) ==
    IF sound THEN UNCHANGED <<localState, faulted, mailboxVars>> ELSE ReportFault

\* the proposals of a batch: ProposalTracker::submit_batch and propose_new.  Their
\* entry may be saved although a committed one cannot be applied.
SubmitBatch(sound) ==
    /\ active /\ LoopMoves("collected", "advance")
    /\ Dispatched(sound)
    /\ \/ leader /\ tracked' = tracked \cup Range(batch) /\ UNCHANGED answer
       \/ /\ ~leader \/ ~sound
          /\ answer' = Completed(Range(batch))
          /\ UNCHANGED tracked
    /\ UNCHANGED <<pc, registry, registryClosed, batch, nextTask, leader, owner, gateClosed>>

\* ReadTracker::establish: forgotten when its caller is gone, refused by a
\* follower or by a leader without a committed entry of its term, or tracked
EstablishRead(sound) ==
    LET waiting == {c \in Range(batch) : answer[c] = "pending"} IN
    /\ active /\ LoopMoves("popped", "advance")
    /\ Head(batch) \in Get
    /\ Dispatched(sound)
    /\ \/ /\ leader
          /\ tracked' = tracked \cup waiting
          /\ answer' = IF sound THEN answer ELSE Completed(waiting)
       \/ /\ answer' = Completed(waiting)
          /\ UNCHANGED tracked
    /\ UNCHANGED <<pc, registry, registryClosed, batch, nextTask, leader, owner, gateClosed>>

\* a Raft call or an event: it may change the leadership; a call is answered
\* when its dispatch is finished
HandleRaft(sound) ==
    /\ active /\ LoopMoves("popped", "advance")
    /\ Head(batch) \in Direct \cup {"event"}
    /\ leader' \in BOOLEAN
    /\ Dispatched(sound)
    /\ answer' = Completed(Range(batch) \cap Direct)
    /\ UNCHANGED <<pc, registry, registryClosed, batch, nextTask, tracked, owner, gateClosed>>

\* the event that report_fault posts from another thread: enter_fault
HandleFault ==
    /\ active /\ LoopMoves("popped", "advance")
    /\ Head(batch) = "fault"
    /\ faulted' = TRUE /\ active' = FALSE /\ queueClosed' = TRUE /\ queue' = <<>>
    /\ UNCHANGED <<pc, completionVars, batch, nextTask, leader, tracked, ownerVars>>

\* advance_trackers: some proposals are committed and some reads confirmed by
\* now; a replica that does not lead fails the others.  Reading the state machine
\* or capturing it for a snapshot may fail.
AdvanceTrackers(sound) ==
    /\ active /\ LoopMoves("advance", "top")
    /\ Dispatched(sound)
    /\ \E done \in SUBSET tracked :
          /\ answer' = Completed(IF leader THEN done ELSE tracked)
          /\ tracked' = IF leader THEN tracked \ done ELSE {}
    /\ batch' = <<>>
    /\ UNCHANGED <<pc, registry, registryClosed, nextTask, leader, owner, gateClosed>>

\* mutant: the loop fails what its trackers hold and leaves the registry open
FailTrackedOnly ==
    /\ answer' = Completed(tracked)
    /\ tracked' = {}
    /\ UNCHANGED <<registry, registryClosed>>

\* fail_all_pending: the trackers, then CompletionRegistry::close
FailAllPending ==
    /\ answer' = Completed(tracked \cup registry)
    /\ tracked' = {}
    /\ registry' = {}
    /\ registryClosed' = TRUE

\* the clean-up of run()
LoopExits ==
    /\ LoopMoves("cleanup", "exited")
    /\ FailAllPending
    /\ nextTask' = NONE
    /\ batch' = <<>>
    /\ UNCHANGED <<pc, mailboxVars, leader, faulted, ownerVars>>

LoopStep ==
    \/ NextTask \/ Pop \/ CollectWriteBatch \/ DropTask \/ HandleFault \/ LoopExits
    \/ \E sound \in BOOLEAN :
          SubmitBatch(sound) \/ EstablishRead(sound) \/ HandleRaft(sound) \/ AdvanceTrackers(sound)

-----------------------------------------------------------------------------
(* The owner: Replica::recover, start and shutdown, one caller at a time   *)
(* under ReplicaManager's lock; and the sources of events.                 *)

\* Recovery goes through the loop, which has no other work before start.
Recover ==
    /\ owner = "idle" /\ localState = "AWAITING_RECOVER"
    /\ \/ localState' = "RECOVERING" /\ UNCHANGED <<faulted, mailboxVars>>
       \/ ReportFault                                    \* the state machine cannot be restored
       \/ /\ localState' = "FAULTED"                     \* the files cannot be read
          /\ queue' = Append(queue, "fault")
          /\ UNCHANGED <<faulted, active, queueClosed>>
    /\ UNCHANGED <<pc, completionVars, loopPc, batch, nextTask, leader, tracked, owner, gateClosed>>

Start ==
    /\ owner = "idle" /\ localState \in {"CREATED", "RECOVERING"}
    /\ localState' = "RUNNING"
    /\ UNCHANGED <<pc, completionVars, mailboxVars, loopVars, owner, gateClosed>>

\* ticks, answers of other replicas, the snapshot writer
PostEvent ==
    /\ localState \in {"RUNNING", "FAULTED"} /\ active /\ ~queueClosed
    /\ Cardinality({i \in DOMAIN queue : queue[i] = "event"}) < MaxEvent
    /\ queue' = Append(queue, "event")
    /\ UNCHANGED <<pc, completionVars, active, queueClosed, loopVars, ownerVars>>

OwnerMoves(from, to) == owner = from /\ owner' = to

ShutdownBegins ==
    /\ OwnerMoves("idle", "close_gate")
    /\ localState' = "FAULTED"
    /\ UNCHANGED <<pc, completionVars, mailboxVars, loopVars, gateClosed>>

\* mutant: a closed mailbox does not wake the loop thread up
CloseQueueSilently ==
    /\ OwnerMoves("close_queue", "close_registry")
    /\ queue' = <<>>
    /\ UNCHANGED queueClosed

CloseQueue ==
    /\ OwnerMoves("close_queue", "close_registry")
    /\ queue' = <<>>
    /\ queueClosed' = TRUE

\* The steps of shutdown: the gate, ReplicaLoop::close, OperGate::wait, and
\* ReplicaLoop::stop, which joins the loop thread.
ShutdownStep ==
    /\ \/ /\ OwnerMoves("close_gate", "deactivate")
          /\ gateClosed' = TRUE
          /\ UNCHANGED <<completionVars, mailboxVars>>
       \/ /\ OwnerMoves("deactivate", "close_queue")
          /\ active' = FALSE
          /\ UNCHANGED <<completionVars, queue, queueClosed, gateClosed>>
       \/ CloseQueue /\ UNCHANGED <<completionVars, active, gateClosed>>
       \/ /\ OwnerMoves("close_registry", "drain")
          /\ answer' = Completed(registry)
          /\ registry' = {}
          /\ registryClosed' = TRUE
          /\ UNCHANGED <<mailboxVars, gateClosed>>
       \/ /\ OwnerMoves("drain", "join") /\ \A c \in Call : pc[c] \notin Inside
          /\ UNCHANGED <<completionVars, mailboxVars, gateClosed>>
       \/ /\ OwnerMoves("join", "done") /\ loopPc = "exited"
          /\ UNCHANGED <<completionVars, mailboxVars, gateClosed>>
    /\ UNCHANGED <<pc, loopVars, localState>>

-----------------------------------------------------------------------------
Init ==
    /\ pc = [c \in Call |-> "idle"]
    /\ answer = [c \in Call |-> NONE]
    /\ registry = {} /\ registryClosed = FALSE
    /\ active = TRUE
    /\ queue = <<>> /\ queueClosed = FALSE
    /\ loopPc = "top" /\ batch = <<>> /\ nextTask = NONE
    /\ leader = FALSE /\ tracked = {} /\ faulted = FALSE
    /\ owner = "idle" /\ gateClosed = FALSE
    /\ localState \in {"CREATED", "AWAITING_RECOVER"}

Next ==
    \/ \E c \in Call : CallBegins(c) \/ CallStep(c)
    \/ LoopStep
    \/ Recover \/ Start \/ PostEvent \/ ShutdownBegins \/ ShutdownStep

\* Threads that can run do: a call once begun, the loop, a shutdown once begun.
\* Nothing makes calls, events or shutdowns happen.
Spec ==
    /\ Init /\ [][Next]_vars
    /\ \A c \in Call : WF_vars(CallStep(c))
    /\ WF_vars(LoopStep)
    /\ WF_vars(ShutdownStep)

-----------------------------------------------------------------------------
\* submit_and_wait: a call that has begun returns, whatever becomes of the
\* replica meanwhile.  Raft and membership calls have no time-out, so for them
\* it rests on the mailbox, the clean-up of the loop and the registry.
EveryCallReturns == []<>(\A c \in Call : pc[c] \in {"idle", "returned"})

\* Replica::shutdown comes to its end: the gate drains and the loop thread can
\* be joined, with calls waiting without a time-out and the loop at any point.
ShutdownCompletes == owner = "close_gate" ~> owner = "done"

\* OperGate: once shutdown has waited for the gate, no thread is inside the
\* replica, so its loop may be stopped and the replica destroyed.
NobodyInsideAfterDrain == owner \in {"join", "done"} => \A c \in Call : pc[c] \notin Inside

\* CompletionRegistry: the loop and close() can reach every completion that a
\* thread may still block on.
WaiterRegistered ==
    \A c \in Call : pc[c] \in {"post", "wait"} /\ answer[c] = "pending" => c \in registry

\* the loop still has to do with c: c is in the mailbox, put aside, in the batch
\* at work, or tracked
Held(c) ==
    \/ c \in Range(queue) \/ c = nextTask \/ c \in tracked
    \/ loopPc \in {"popped", "collected"} /\ c \in Range(batch)

\* ReplicaLoop::run: no call that waits is forgotten.  While the loop is active it
\* holds the call somewhere; afterwards its clean-up, which fails every waiting
\* call, is still to come.  What is not held would wait for its time-out, or for ever.
WaiterHeld ==
    \A c \in Call : pc[c] = "wait" /\ answer[c] = "pending" =>
        loopPc # "exited" /\ (active => Held(c))
==============================================================================
