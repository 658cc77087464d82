------------------------------ MODULE Snapshot ------------------------------
(***************************************************************************)
(* The durable state of one follower: its WAL, its published snapshot, the *)
(* candidate its own snapshot writer fills and the files it receives from  *)
(* a leader in chunks.  The rest of the group is the leaders that bring it *)
(* up to date, each with its progress record for this follower and at most *)
(* one transfer; the log they hold is committed.  The follower may crash   *)
(* between any two writes to its disk.                                     *)
(***************************************************************************)
EXTENDS Integers, Sequences, FiniteSets

CONSTANTS
    Truth,        \* the terms of the committed entries, in log order
    StaleLog,     \* the terms of the entries the follower starts with
    Terms,        \* the terms of the successive leaders, an interval
    Compactions,  \* the indices at which leaders take their snapshots
    Chunks,       \* chunks per snapshot file
    SnapshotLimit,\* raft_do_snapshot_limit
    MaxBatch,     \* K_RAFT_MAX_APPEND_ENTRIES_PER_MESSAGE
    MaxLate,      \* chunks that outlive the call that sent them
    MaxCrash,     \* crashes of the follower
    Recapture,    \* FALSE leaves out one case: a second capture at an index
                  \* whose SnapshotDoneEvent is still in the mailbox
    NONE

ASSUME SnapshotAssumption ==
    /\ Terms \subseteq Nat /\ Terms # {}
    /\ Compactions \subseteq 0 .. Len(Truth)
    /\ Truth \in Seq(Nat) /\ StaleLog \in Seq(Nat)
    /\ {Chunks, SnapshotLimit, MaxBatch} \subseteq Nat \ {0}
    /\ {MaxLate, MaxCrash} \subseteq Nat
    /\ Recapture \in BOOLEAN

VARIABLES
    follower,   \* the replica in memory
    disk,       \* its directory
    current,    \* the term of the newest leader
    lead,       \* per leader: its snapshot and its progress record for the follower
    transfer,   \* per leader: the snapshot it is sending, or NONE
    late,       \* chunks whose sender has given up on them
    crashes

vars == <<follower, disk, current, lead, transfer, late, crashes>>

Last == Len(Truth)
Index == 0 .. Last
TruthAt(i) == IF i = 0 THEN 0 ELSE Truth[i]
FirstTerm == CHOOSE t \in Terms : \A u \in Terms : t <= u
LastTerm == CHOOSE t \in Terms : \A u \in Terms : u <= t

-----------------------------------------------------------------------------
(* RaftLog: log holds the terms of the entries after the snapshot.         *)

LastLog(f) == f.snap + Len(f.log)

\* term_at: 0 below the snapshot and past the end
TermAt(f, i) ==
    IF i = f.snap THEN TruthAt(i)
    ELSE IF i \in f.snap + 1 .. LastLog(f) THEN f.log[i - f.snap] ELSE 0

\* retained_entries_after_snapshot
Retained(f, i) ==
    IF i < LastLog(f) /\ TermAt(f, i) = TruthAt(i)
    THEN SubSeq(f.log, i - f.snap + 1, Len(f.log)) ELSE <<>>

\* RaftCore::install_snapshot: log, watermarks, and the end of recovery; the
\* retained entries replace the WAL
Installed(r, i) ==
    LET kept == Retained(r.f, i) IN
    [r EXCEPT !.f.log = kept, !.f.snap = i, !.f.commit = IF i > @ THEN i ELSE @,
              !.f.recovering = FALSE,
              !.d.wal = [base |-> i, terms |-> kept], !.d.torn = FALSE]

-----------------------------------------------------------------------------
(* SnapshotTracker and SnapshotWriter: the follower's own snapshots.       *)

\* advance(), at the end of every dispatch; the worker truncates its candidate
Advanced(r) ==
    IF /\ r.f.commit - r.f.snap >= SnapshotLimit /\ r.f.writer = NONE
       /\ Recapture \/ \A k \in DOMAIN r.f.done : r.f.done[k] # r.f.commit
    THEN [r EXCEPT !.f.writer = [index |-> r.f.commit, posted |-> FALSE],
                   !.d.cand[r.f.commit] = "partial"]
    ELSE r

Here == [f |-> follower, d |-> disk]

Keep(r) == follower' = r.f /\ disk' = r.d

\* the loop thread takes the next event
LoopFree == follower.up = "up"

\* run_worker: the candidate is complete and the done event is posted; a
\* candidate that was renamed meanwhile is completed where it now is
WriteCandidate ==
    LET w == follower.writer IN
    /\ follower.up = "up" /\ w # NONE /\ ~w.posted
    /\ follower' = [follower EXCEPT !.writer.posted = TRUE, !.done = Append(@, w.index)]
    /\ disk' = IF disk.cand[w.index] = "partial"
               THEN [disk EXCEPT !.cand[w.index] = "whole"]
               ELSE [disk EXCEPT !.snap.whole = @ \/ disk.snap.index = w.index]
    /\ UNCHANGED <<current, lead, transfer, late, crashes>>

\* run_worker returns: worker_busy_ = false
WorkerIdle ==
    /\ follower.up = "up" /\ follower.writer # NONE /\ follower.writer.posted
    /\ follower' = [follower EXCEPT !.writer = NONE]
    /\ UNCHANGED <<disk, current, lead, transfer, late, crashes>>

\* publish_local_snapshot: an unreadable current snapshot counts as index 0
PublishedLocal(d, i) ==
    IF d.snap.whole /\ i <= d.snap.index
    THEN [d EXCEPT !.cand[i] = "none"]
    ELSE [d EXCEPT !.cand[i] = "none", !.snap = [index |-> i, whole |-> d.cand[i] = "whole"]]

\* on_snapshot_done
SnapshotDone ==
    /\ follower.up = "up" /\ follower.done # <<>>
    /\ LET i == Head(follower.done)
           r == [f |-> [follower EXCEPT !.done = Tail(@)], d |-> PublishedLocal(disk, i)]
       IN  Keep(Advanced(IF i <= follower.snap THEN r ELSE Installed(r, i)))
    /\ UNCHANGED <<current, lead, transfer, late, crashes>>

\* any other event, such as a tick
OtherEvent ==
    /\ LoopFree
    /\ Keep(Advanced(Here))
    /\ UNCHANGED <<current, lead, transfer, late, crashes>>

-----------------------------------------------------------------------------
(* handle_append_entries at the follower.                                  *)

\* the entries a leader sends after prev
Batch(prev) == SubSeq(Truth, prev + 1, IF prev + MaxBatch < Last THEN prev + MaxBatch ELSE Last)

\* mutant: the previous entry need only exist
MatchesIndexOnly(f, t, prev) ==
    /\ t >= f.term
    /\ prev > 0 => prev >= f.snap /\ prev <= LastLog(f)

\* the message passes the checks on the term and on the previous entry
Matches(f, t, prev) ==
    /\ t >= f.term
    /\ prev > 0 => prev >= f.snap /\ TermAt(f, prev) = TruthAt(prev)

\* append_entries_from_leader: the first conflict replaces the rest of the log
Conflicts(f, prev) ==
    { i \in prev + 1 .. prev + Len(Batch(prev)) :
        i \in f.snap + 1 .. LastLog(f) /\ TermAt(f, i) # Truth[i] }

Merged(f, prev) ==
    LET end == prev + Len(Batch(prev)) IN
    IF Conflicts(f, prev) # {} \/ end > LastLog(f)
    THEN [i \in 1 .. end - f.snap |->
            IF f.snap + i <= prev THEN f.log[i] ELSE Truth[f.snap + i]]
    ELSE f.log

\* advance_commit_index_from_leader; the leader has committed all of Truth
CommitFrom(f, log) ==
    LET c == IF Last < f.snap + Len(log) THEN Last ELSE f.snap + Len(log)
    IN  IF c > f.commit THEN c ELSE f.commit

\* the WAL is rewritten on a conflict and extended otherwise
Appended(r, t, prev) ==
    IF ~Matches(r.f, t, prev)
    THEN [r EXCEPT !.f.term = IF t > @ THEN t ELSE @]
    ELSE LET log == Merged(r.f, prev)
             new == SubSeq(log, Len(r.f.log) + 1, Len(log))
         IN  [r EXCEPT !.f.term = t, !.f.log = log, !.f.commit = CommitFrom(r.f, log),
                       !.f.recovering = FALSE,
                       !.d.wal = IF Conflicts(r.f, prev) # {}
                                 THEN [base |-> r.f.snap, terms |-> log]
                                 ELSE [@ EXCEPT !.terms = @ \o new],
                       !.d.torn = IF Conflicts(r.f, prev) # {} THEN FALSE ELSE @]

-----------------------------------------------------------------------------
(* on_install_snapshot_chunk at the follower.                              *)


\* prepare_install_snapshot finds that the snapshot brings nothing new
HasSnapshot(f, m) ==
    \/ m.index <= f.commit
    \/ ~f.recovering /\ m.index <= LastLog(f) /\ TermAt(f, m.index) = TruthAt(m.index)

\* check_receiving_session
SessionFits(f, m) ==
    f.session = [from |-> m.term, index |-> m.index, next |-> m.offset]


\* append_snapshot_chunk: the first chunk truncates the file; a chunk is
\* known by the leader whose snapshot file it is a part of
Received(d, m) == IF m.offset = 0 THEN <<m.term>> ELSE Append(d.recv[m.index], m.term)

\* SnapshotFileReader::initialize verifies the whole file
IsWhole(file) == Len(file) = Chunks /\ \A i \in 1 .. Chunks : file[i] = file[1]

\* finish_snapshot_receive, up to the rename
PublishedRemote(d, m) ==
    [d EXCEPT !.recv[m.index] = <<>>, !.snap = [index |-> m.index, whole |-> TRUE]]

ChunkRefused(f, m) ==
    \/ m.term < f.term
    \/ ~HasSnapshot(f, m) /\ m.offset > 0 /\ ~SessionFits(f, m)

Chunked(r, m) ==
    LET heard == [r EXCEPT !.f.term = IF m.term > @ THEN m.term ELSE @]
        stored == [heard EXCEPT !.d.recv[m.index] = Received(r.d, m),
                                !.f.session = [from |-> m.term, index |-> m.index,
                                               next |-> m.offset + 1]]
        over == [stored EXCEPT !.f.session = NONE]
    IN  CASE ChunkRefused(r.f, m) -> heard
          [] ~ChunkRefused(r.f, m) /\ HasSnapshot(r.f, m) ->
               [heard EXCEPT !.f.session = NONE]
          [] ~ChunkRefused(r.f, m) /\ ~HasSnapshot(r.f, m) /\ m.offset < Chunks - 1 -> stored
          [] ~ChunkRefused(r.f, m) /\ ~HasSnapshot(r.f, m) /\ m.offset >= Chunks - 1 ->
               IF IsWhole(stored.d.recv[m.index])
               THEN Installed([over EXCEPT !.d = PublishedRemote(@, m)], m.index)
               ELSE [over EXCEPT !.f.up = "faulted"]

-----------------------------------------------------------------------------
(* The leaders.  A leader of a later term is another replica.              *)

Leads(t) == lead[t].leads

\* become_leader: reset_for_leader
FreshProgress(i) ==
    [leads |-> TRUE, snap |-> i, next |-> Last + 1, match |-> 0, inflight |-> 0]

Elect ==
    /\ current < LastTerm
    /\ current' = current + 1
    /\ \E i \in Compactions : lead' = [lead EXCEPT ![current + 1] = FreshProgress(i)]
    /\ UNCHANGED <<follower, disk, transfer, late, crashes>>

LeaderCompacts(t) ==
    /\ Leads(t)
    /\ \E i \in Compactions : i > lead[t].snap /\ lead' = [lead EXCEPT ![t].snap = i]
    /\ UNCHANGED <<follower, disk, current, transfer, late, crashes>>

\* become_follower: replies of a newer term depose the leader
Answered(t, r, progress) ==
    lead' = IF r.f.term > t THEN [lead EXCEPT ![t].leads = FALSE]
                            ELSE [lead EXCEPT ![t] = progress]


\* handle_peer_append_ok / handle_peer_append_failed
AppendProgress(t, ok, end, last) ==
    LET p == lead[t]
        match == IF end > p.match THEN end ELSE p.match
        back == IF last + 1 >= p.next /\ p.next > 1 THEN p.next - 1 ELSE last + 1
    IN  IF ok THEN [p EXCEPT !.match = match, !.next = match + 1]
        ELSE [p EXCEPT !.next = IF back > p.match + 1 THEN back ELSE p.match + 1]

\* build_append_entries_message, the RPC and handle_append_response; the
\* answer may be lost
AppendEntries(t, answered) ==
    LET prev == lead[t].next - 1
        r == Appended(Here, t, prev)
        last == IF LastLog(follower) < Last THEN LastLog(follower) ELSE Last
    IN  /\ Leads(t) /\ prev >= lead[t].snap
        /\ LoopFree
        /\ Keep(Advanced(r))
        /\ IF answered
           THEN Answered(t, r, AppendProgress(t, Matches(follower, t, prev),
                                              prev + Len(Batch(prev)), last))
           ELSE lead' = lead
        /\ UNCHANGED <<current, transfer, late, crashes>>

\* build_append_entries_message: the follower needs what was compacted;
\* mark_snapshot_inflight lets one transfer through
StartTransfer(t) ==
    /\ Leads(t) /\ lead[t].next - 1 < lead[t].snap
    /\ lead[t].inflight = 0
    /\ lead' = [lead EXCEPT ![t].inflight = lead[t].snap]
    /\ transfer' = [transfer EXCEPT ![t] = [index |-> lead[t].snap, offset |-> NONE]]
    /\ UNCHANGED <<follower, disk, current, late, crashes>>

\* clear_snapshot_inflight
Cleared(t) ==
    [lead[t] EXCEPT !.inflight = IF @ = transfer[t].index THEN 0 ELSE @]

\* mutant: only an answer gives the mark back
SendFailedKeepsMark(t) ==
    /\ lead' = lead
    /\ transfer' = [transfer EXCEPT ![t] = NONE]

\* handle_install_snapshot_send_failed
SendFailed(t) ==
    /\ lead' = IF Leads(t) THEN [lead EXCEPT ![t] = Cleared(t)] ELSE lead
    /\ transfer' = [transfer EXCEPT ![t] = NONE]

\* open_reader and verify_header: the file may be newer than the message
OpenReader(t) ==
    /\ transfer[t] # NONE /\ transfer[t].offset = NONE
    /\ IF lead[t].snap = transfer[t].index
       THEN transfer' = [transfer EXCEPT ![t].offset = 0] /\ lead' = lead
       ELSE SendFailed(t)
    /\ UNCHANGED <<follower, disk, current, late, crashes>>

Sending(t) == transfer[t] # NONE /\ transfer[t].offset # NONE

Chunk(t) == [term |-> t, index |-> transfer[t].index, offset |-> transfer[t].offset]

\* update_snapshot_watermark
Watermarked(p, i) ==
    [p EXCEPT !.match = IF i > @ THEN i ELSE @, !.next = IF i >= @ THEN i + 1 ELSE @]

\* install_snapshot_chunk and its answer: the loop of send_install_snapshot
\* goes on, or handle_install_snapshot_response takes the result
ChunkAnswered(t) ==
    LET m == Chunk(t)
        r == Chunked(Here, m)
        ok == ~ChunkRefused(follower, m)
        mark == IF r.f.snap > m.index THEN r.f.snap ELSE m.index
    IN  /\ Sending(t) /\ LoopFree
        /\ r.f.up = "up"
        /\ Keep(Advanced(r))
        /\ IF ok /\ m.offset < Chunks - 1
           THEN transfer' = [transfer EXCEPT ![t].offset = @ + 1] /\ lead' = lead
           ELSE /\ transfer' = [transfer EXCEPT ![t] = NONE]
                /\ IF Leads(t)
                   THEN Answered(t, r, IF ok THEN Watermarked(Cleared(t), mark) ELSE Cleared(t))
                   ELSE lead' = lead
        /\ UNCHANGED <<current, late, crashes>>

\* the call fails although the follower has handled the chunk
ChunkAnswerLost(t) ==
    LET r == Chunked(Here, Chunk(t)) IN
    /\ Sending(t) /\ LoopFree
    /\ Keep(IF r.f.up = "up" THEN Advanced(r) ELSE r)
    /\ SendFailed(t)
    /\ UNCHANGED <<current, late, crashes>>

\* the call times out before the chunk is handled: it is lost, or late
ChunkTimesOut(t) ==
    /\ Sending(t)
    /\ SendFailed(t)
    /\ \/ late' = late
       \/ Cardinality(late) < MaxLate /\ late' = late \cup {Chunk(t)}
    /\ UNCHANGED <<follower, disk, current, crashes>>

LateChunk(m) ==
    LET r == Chunked(Here, m) IN
    /\ LoopFree
    /\ Keep(IF r.f.up = "up" THEN Advanced(r) ELSE r)
    /\ late' = late \ {m}
    /\ UNCHANGED <<current, lead, transfer, crashes>>

-----------------------------------------------------------------------------
(* Crash and recovery.                                                     *)

Down == [follower EXCEPT !.up = "down", !.session = NONE, !.writer = NONE, !.done = <<>>]

\* the process dies and leaves d behind
CrashWith(d) ==
    /\ follower.up = "up" /\ crashes < MaxCrash
    /\ crashes' = crashes + 1
    /\ follower' = Down
    /\ disk' = d

Crash ==
    /\ CrashWith(disk)
    /\ UNCHANGED <<current, lead, transfer, late>>

\* between the rename of the received snapshot and the rewrite of the WAL
CrashAfterRemotePublish(t) ==
    /\ Sending(t) /\ LoopFree
    /\ LET m == Chunk(t) IN
       /\ m.offset = Chunks - 1 /\ ~ChunkRefused(follower, m) /\ ~HasSnapshot(follower, m)
       /\ IsWhole(Received(disk, m))
       /\ CrashWith(PublishedRemote(disk, m))
    /\ SendFailed(t)
    /\ UNCHANGED <<current, late>>

\* between the rename of the candidate and the rewrite of the WAL
CrashAfterLocalPublish ==
    /\ follower.done # <<>> /\ Head(follower.done) > follower.snap
    /\ CrashWith(PublishedLocal(disk, Head(follower.done)))
    /\ UNCHANGED <<current, lead, transfer, late>>

\* inside append_batch: some records are written, the next one is torn
CrashInAppend(t) ==
    LET prev == lead[t].next - 1
        new == IF prev >= lead[t].snap /\ Matches(follower, t, prev)
                  /\ Conflicts(follower, prev) = {}
               THEN LastLog(follower) + 1 .. prev + Len(Batch(prev)) ELSE {}
    IN  /\ Leads(t) /\ LoopFree
        /\ \E i \in new :
             CrashWith([disk EXCEPT
                 !.wal.terms = @ \o SubSeq(Truth, LastLog(follower) + 1, i - 1),
                 !.torn = TRUE])
        /\ UNCHANGED <<current, lead, transfer, late>>

\* WalStore::recover: what is left of the WAL after the snapshot
Recovered(d) ==
    LET end == d.wal.base + Len(d.wal.terms)
        gap == d.wal.base > d.snap.index /\ d.wal.terms # <<>>
    IN  [log |-> IF gap \/ end <= d.snap.index THEN <<>>
                 ELSE SubSeq(d.wal.terms, d.snap.index - d.wal.base + 1, Len(d.wal.terms)),
         needRecover |-> gap \/ d.torn]

\* PersistEngine::recover and RecoverCall; an unreadable snapshot fails it
Restart ==
    /\ follower.up = "down"
    /\ IF disk.snap.whole
       THEN LET rec == Recovered(disk) IN
            /\ follower' = [follower EXCEPT !.up = "up", !.snap = disk.snap.index,
                                !.log = rec.log, !.commit = disk.snap.index,
                                !.recovering = rec.needRecover]
            /\ disk' = [disk EXCEPT !.wal = [base |-> disk.snap.index, terms |-> rec.log],
                                    !.torn = FALSE]
       ELSE follower' = [follower EXCEPT !.up = "faulted"] /\ disk' = disk
    /\ UNCHANGED <<current, lead, transfer, late, crashes>>

-----------------------------------------------------------------------------
Init ==
    /\ follower = [up |-> "up", term |-> FirstTerm - 1, snap |-> 0, log |-> StaleLog, commit |-> 0,
                   recovering |-> FALSE, session |-> NONE, writer |-> NONE, done |-> <<>>]
    /\ disk = [wal |-> [base |-> 0, terms |-> StaleLog], torn |-> FALSE,
               snap |-> [index |-> 0, whole |-> TRUE],
               recv |-> [i \in 1 .. Last |-> <<>>], cand |-> [i \in 1 .. Last |-> "none"]]
    /\ current = FirstTerm
    /\ \E i \in Compactions :
         lead = [t \in Terms |-> [FreshProgress(IF t = FirstTerm THEN i ELSE 0)
                                    EXCEPT !.leads = (t = FirstTerm)]]
    /\ transfer = [t \in Terms |-> NONE]
    /\ late = {}
    /\ crashes = 0

LeaderStep(t) ==
    \/ \E answered \in BOOLEAN : AppendEntries(t, answered)
    \/ StartTransfer(t)
    \/ OpenReader(t)
    \/ ChunkAnswered(t)
    \/ ChunkAnswerLost(t)
    \/ ChunkTimesOut(t)
    \/ LeaderCompacts(t)

CrashStep ==
    \/ Crash
    \/ CrashAfterLocalPublish
    \/ \E t \in Terms : CrashAfterRemotePublish(t) \/ CrashInAppend(t)

Next ==
    \/ Elect
    \/ \E t \in Terms : LeaderStep(t)
    \/ \E m \in late : LateChunk(m)
    \/ WriteCandidate \/ WorkerIdle \/ SnapshotDone \/ OtherEvent
    \/ CrashStep
    \/ Restart

\* The loop thread and the snapshot worker run; a leader keeps ticking, so it
\* retries; an RPC that is tried again and again is answered in the end
Fairness ==
    /\ WF_vars(Restart \/ WriteCandidate \/ WorkerIdle \/ SnapshotDone)
    /\ WF_vars(\E t \in Terms : StartTransfer(t) \/ OpenReader(t))
    /\ SF_vars(\E t \in Terms : AppendEntries(t, TRUE))
    /\ \A k \in 0 .. Chunks - 1 :
         SF_vars(\E t \in Terms : ChunkAnswered(t) /\ Chunk(t).offset = k)

Spec == Init /\ [][Next]_vars /\ Fairness

-----------------------------------------------------------------------------
(* Properties.                                                             *)

\* the committed prefix that PersistEngine::recover would find in d
KeptIn(d) ==
    LET log == Recovered(d).log
        ok(n) == \A i \in 1 .. n : d.snap.index + i <= Last /\ log[i] = Truth[d.snap.index + i]
    IN  IF ~d.snap.whole THEN 0
        ELSE d.snap.index + CHOOSE n \in 0 .. Len(log) :
                                ok(n) /\ \A k \in n + 1 .. Len(log) : ~ok(k)

Acked == CHOOSE i \in Index : /\ \E t \in Terms : lead[t].match = i
                              /\ \A t \in Terms : lead[t].match <= i

Durable == INSTANCE DurableLog WITH
    LastIndex <- Last,
    kept <- KeptIn(disk),
    acked <- Acked,
    applied <- IF follower.up = "up" THEN follower.commit ELSE 0


\* Entries left in the WAL behind an installed snapshot of another term never
\* reach the state machine: all that the follower has committed is what the
\* group has committed (retained_entries_after_snapshot, WalStore::recover,
\* advance_commit_index_from_leader).
CommittedIsTruth ==
    follower.up = "up" => \A i \in follower.snap + 1 .. follower.commit :
                              TermAt(follower, i) = TruthAt(i)


\* A transfer that was started ends and gives its in-flight mark back, whatever
\* becomes of its chunks: no leader waits for ever on a mark nobody will clear
\* (mark_snapshot_inflight, clear_snapshot_inflight).
MarkGivenBack == \A t \in Terms : []<>(Leads(t) => lead[t].inflight = 0)

\* The leader's record says that the next entry to send follows prev, which
\* the follower's own snapshot covers and the leader's does not: the follower
\* refuses, and handle_peer_append_failed cannot go back below match_index_
Ahead(t) ==
    lead[t].match = lead[t].next - 1 /\ lead[t].next - 1 \in lead[t].snap .. follower.snap - 1

=============================================================================
