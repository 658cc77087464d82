------------------------- MODULE ReplicaLoopTheorems -------------------------
(***************************************************************************)
(* No call to a replica is forgotten and no thread is left inside a        *)
(* replica that is torn down, for any number of calls, any batch size and  *)
(* any number of events.                                                   *)
(***************************************************************************)
EXTENDS ReplicaLoop, FiniteSetTheorems, TLAPS

Task == Call \cup {"event", "fault"}

LoopPcs == {"top", "pop", "popped", "collected", "advance", "cleanup", "exited"}

\* the places of a shutdown at which ReplicaLoop::close has begun
Deactivated == {"close_queue", "close_registry", "drain", "join", "done"}

LoopTypeOK ==
    /\ pc \in [Call -> {"idle", "lock", "returned"} \cup Inside]
    /\ answer \in [Call -> {"pending", "completed", NONE}]
    /\ queue \in Seq(Task) /\ batch \in Seq(Task) /\ nextTask \in Task \cup {NONE}
    /\ loopPc \in LoopPcs
    /\ owner \in {"idle", "close_gate", "deactivate"} \cup Deactivated

\* the gate is closed before anything else is
GateFirst == owner \notin {"idle", "close_gate"} => gateClosed

\* what stops the loop also stops the mailbox, and only a stopped loop cleans up
StopsOnce ==
    /\ queueClosed \/ owner \in Deactivated \/ loopPc \in {"cleanup", "exited"} => ~active
    /\ loopPc = "exited" => registryClosed
    /\ registryClosed => registry = {}

\* at most one task is at work before a batch is collected, and none is aside
OneTask ==
    /\ loopPc \in {"pop", "popped"} => nextTask = NONE
    /\ loopPc = "popped" => Len(batch) = 1

CallsHeld == \A c \in Call : active /\ pc[c] = "wait" /\ answer[c] = "pending" => Held(c)

LoopInv ==
    /\ LoopTypeOK /\ GateFirst /\ StopsOnce /\ OneTask
    /\ NobodyInsideAfterDrain /\ WaiterRegistered /\ CallsHeld

-----------------------------------------------------------------------------
(* What the operators of the model do.                                     *)

\* Completion::complete decides every pending completion it is called for, and
\* no other one.
LEMMA CompletedIs ==
    ASSUME LoopTypeOK, NEW S
    PROVE  /\ Completed(S) \in [Call -> {"pending", "completed", NONE}]
           /\ \A c \in Call : Completed(S)[c] = "pending" => answer[c] = "pending" /\ c \notin S
BY DEF LoopTypeOK, Completed

\* what no step of a call's thread changes
othersUnchanged ==
    UNCHANGED <<registryClosed, active, queueClosed, loopPc, batch, nextTask, tracked, owner, gateClosed>>

\* submit_and_wait leaves, or goes on before it has a completion: the loop holds
\* what it held, and a thread enters only through an open gate.
LEMMA ThreadMoves ==
    ASSUME LoopInv, NEW c \in Call, othersUnchanged, queue' = queue,
           \/ Return(c)
           \/ \E place \in {"lock", "ensure", "active", "add"} :
                 /\ Goto(c, place) /\ UNCHANGED <<answer, registry>>
                 /\ pc[c] \in Inside \/ place = "lock" \/ ~gateClosed
    PROVE  LoopInv'
<1> USE DEF LoopInv, othersUnchanged
<1>1. \/ pc' = [pc EXCEPT ![c] = "returned"] /\ answer' = [answer EXCEPT ![c] = NONE] /\ registry' = registry \ {c}
      \/ \E place \in {"lock", "ensure", "active", "add"} :
            /\ pc' = [pc EXCEPT ![c] = place] /\ UNCHANGED <<answer, registry>>
            /\ pc[c] \in Inside \/ place = "lock" \/ ~gateClosed
    BY DEF Return, Goto
<1>2. LoopTypeOK' BY <1>1 DEF LoopTypeOK, Inside
<1>3. GateFirst' /\ StopsOnce' /\ OneTask' BY <1>1 DEF GateFirst, StopsOnce, OneTask
<1>4. NobodyInsideAfterDrain' BY <1>1 DEF NobodyInsideAfterDrain, GateFirst, LoopTypeOK, Inside
<1>5. WaiterRegistered' BY <1>1 DEF WaiterRegistered, LoopTypeOK
<1>6. CallsHeld' BY <1>1 DEF CallsHeld, Held, LoopTypeOK
<1> QED BY <1>2, <1>3, <1>4, <1>5, <1>6

\* CompletionRegistry::add: the completion is registered before anything waits.
LEMMA RegisterKeeps ==
    ASSUME LoopInv, NEW c \in Call, othersUnchanged, queue' = queue, Register(c)
    PROVE  LoopInv'
<1> USE DEF LoopInv, othersUnchanged
<1>1. CASE registryClosed BY <1>1, ThreadMoves DEF Register
<1>2. CASE ~registryClosed
    <2>1. /\ pc[c] = "add" /\ pc' = [pc EXCEPT ![c] = "post"]
          /\ registry' = registry \cup {c} /\ answer' = [answer EXCEPT ![c] = "pending"]
        BY <1>2 DEF Register, Goto
    <2>2. LoopTypeOK' BY <2>1 DEF LoopTypeOK, Inside
    <2>3. GateFirst' /\ StopsOnce' /\ OneTask' BY <1>2, <2>1 DEF GateFirst, StopsOnce, OneTask
    <2>4. NobodyInsideAfterDrain' BY <2>1 DEF NobodyInsideAfterDrain, LoopTypeOK, Inside
    <2>5. WaiterRegistered' BY <2>1 DEF WaiterRegistered, LoopTypeOK
    <2>6. CallsHeld' BY <2>1 DEF CallsHeld, Held, LoopTypeOK
    <2> QED BY <2>2, <2>3, <2>4, <2>5, <2>6
<1> QED BY <1>1, <1>2

\* What a mailbox holds once a task is pushed.
LEMMA RangeAppend ==
    ASSUME NEW T, NEW q \in Seq(T), NEW x \in T
    PROVE  Append(q, x) \in Seq(T) /\ Range(Append(q, x)) = Range(q) \cup {x}
<1>1. Append(q, x) \in Seq(T) /\ Len(Append(q, x)) = Len(q) + 1 OBVIOUS
<1>2. \A i \in 1..Len(q) : Append(q, x)[i] = q[i] OBVIOUS
<1>3. Append(q, x)[Len(q) + 1] = x OBVIOUS
<1>4. DOMAIN q = 1..Len(q) /\ DOMAIN Append(q, x) = 1..(Len(q) + 1) BY <1>1
<1>5. \A y \in Range(q) \cup {x} : \E i \in 1..(Len(q) + 1) : Append(q, x)[i] = y
    BY <1>2, <1>3, <1>4 DEF Range
<1>6. \A i \in 1..(Len(q) + 1) : Append(q, x)[i] \in Range(q) \cup {x}
    BY <1>2, <1>3, <1>4 DEF Range
<1> QED BY <1>1, <1>4, <1>5, <1>6 DEF Range

\* ReplicaLoop::post: from here on the loop holds the call, or it has failed.
LEMMA PostKeeps ==
    ASSUME LoopInv, NEW c \in Call, othersUnchanged, Post(c)
    PROVE  LoopInv'
<1> USE DEF LoopInv, othersUnchanged
<1>1. pc[c] = "post" /\ pc' = [pc EXCEPT ![c] = "wait"] /\ registry' = registry BY DEF Post, Goto
<1>2. \/ queue' = Append(queue, c) /\ answer' = answer
      \/ queue' = queue /\ answer' = Completed({c})
    BY DEF Post
<1>3. queue' \in Seq(Task) /\ Range(queue) \subseteq Range(queue') /\ (queue' = queue \/ c \in Range(queue'))
    <2>1. c \in Task /\ queue \in Seq(Task) BY DEF Task, LoopTypeOK
    <2>2. Append(queue, c) \in Seq(Task) /\ Range(Append(queue, c)) = Range(queue) \cup {c}
        BY <2>1, RangeAppend
    <2> QED BY <1>2, <2>1, <2>2
<1>4. /\ answer' \in [Call -> {"pending", "completed", NONE}]
      /\ \A d \in Call : answer'[d] = "pending" => answer[d] = "pending" /\ (d = c => c \in Range(queue'))
    BY <1>2, <1>3, CompletedIs DEF LoopTypeOK
<1>5. LoopTypeOK' BY <1>1, <1>3, <1>4 DEF LoopTypeOK, Inside
<1>6. GateFirst' /\ StopsOnce' /\ OneTask' BY <1>1 DEF GateFirst, StopsOnce, OneTask
<1>7. NobodyInsideAfterDrain' BY <1>1 DEF NobodyInsideAfterDrain, LoopTypeOK, Inside
<1>8. WaiterRegistered' BY <1>1, <1>4 DEF WaiterRegistered, LoopTypeOK
<1>9. CallsHeld' BY <1>1, <1>3, <1>4 DEF CallsHeld, Held, LoopTypeOK
<1> QED BY <1>5, <1>6, <1>7, <1>8, <1>9

\* Every step of the thread of a call.
LEMMA CallKeeps ==
    ASSUME LoopInv, NEW c \in Call, CallBegins(c) \/ CallStep(c)
    PROVE  LoopInv'
<1>1. othersUnchanged
    BY DEF CallBegins, CallStep, othersUnchanged, mailboxVars, loopVars, ownerVars
<1>2. CASE Post(c) BY <1>1, <1>2, PostKeeps
<1>3. CASE queue' = queue /\ Register(c) BY <1>1, <1>3, RegisterKeeps
<1>4. CASE CallBegins(c)
    <2>1. queue' = queue BY <1>4 DEF CallBegins, mailboxVars
    <2> QED BY <1>1, <1>4, <2>1, ThreadMoves DEF CallBegins
<1>5. CASE queue' = queue /\ (TakeGate(c) \/ EnsureServing(c) \/ CheckActive(c) \/ Awake(c) \/ TimeOut(c))
    BY <1>1, <1>5, ThreadMoves DEF TakeGate, EnsureServing, CheckActive, Awake, TimeOut, Inside
<1> QED BY <1>2, <1>3, <1>4, <1>5 DEF CallStep

-----------------------------------------------------------------------------
(* The loop thread.                                                        *)

\* A step of the loop keeps the invariant when it answers or goes on holding the
\* calls it held.
LEMMA LoopWorks ==
    ASSUME LoopInv, UNCHANGED <<pc, registry, registryClosed, owner, gateClosed>>,
           answer' \in [Call -> {"pending", "completed", NONE}],
           \A c \in Call : answer'[c] = "pending" => answer[c] = "pending",
           queue' \in Seq(Task), batch' \in Seq(Task), nextTask' \in Task \cup {NONE},
           loopPc' \in LoopPcs \ {"exited"},
           active' => active,
           queueClosed' \/ loopPc' = "cleanup" => ~active',
           OneTask',
           \A c \in Call : active' /\ answer'[c] = "pending" /\ Held(c) => Held(c)'
    PROVE  LoopInv'
<1> USE DEF LoopInv
<1>1. LoopTypeOK' BY DEF LoopTypeOK
<1>2. GateFirst' BY DEF GateFirst
<1>3. StopsOnce' BY DEF StopsOnce, LoopPcs
<1>4. NobodyInsideAfterDrain' BY DEF NobodyInsideAfterDrain
<1>5. WaiterRegistered' BY DEF WaiterRegistered
<1>6. CallsHeld' BY DEF CallsHeld
<1> QED BY <1>1, <1>2, <1>3, <1>4, <1>5, <1>6

\* A queue in which one task is at work.
LEMMA RangeOne ==
    ASSUME NEW T, NEW x \in T
    PROVE  <<x>> \in Seq(T) /\ Len(<<x>>) = 1 /\ Range(<<x>>) = {x}
<1>1. DOMAIN <<x>> = 1..1 /\ <<x>>[1] = x OBVIOUS
<1>2. Range(<<x>>) = {x} BY <1>1 DEF Range
<1> QED BY <1>2

\* BlockingQueue::pop splits the queue into its head and the rest.
LEMMA RangePop ==
    ASSUME NEW T, NEW q \in Seq(T), q # <<>>
    PROVE  Head(q) \in T /\ Tail(q) \in Seq(T) /\ Range(q) = Range(Tail(q)) \cup {Head(q)}
<1>1. Head(q) \in T /\ Tail(q) \in Seq(T) /\ Len(q) \in Nat \ {0} /\ Len(Tail(q)) = Len(q) - 1 OBVIOUS
<1>2. Head(q) = q[1] /\ \A i \in 1..Len(q) - 1 : Tail(q)[i] = q[i + 1] OBVIOUS
<1>3. DOMAIN q = 1..Len(q) /\ DOMAIN Tail(q) = 1..Len(q) - 1 BY <1>1
<1>4. \A i \in 1..Len(q) : q[i] \in Range(Tail(q)) \cup {Head(q)}
    <2> SUFFICES ASSUME NEW i \in 1..Len(q), i # 1 PROVE q[i] \in Range(Tail(q)) BY <1>2
    <2>1. i - 1 \in 1..Len(q) - 1 /\ Tail(q)[i - 1] = q[i] BY <1>1, <1>2
    <2> QED BY <1>3, <2>1 DEF Range
<1>5. \A i \in 1..Len(q) - 1 : Tail(q)[i] \in Range(q)
    <2> TAKE i \in 1..Len(q) - 1
    <2>1. i + 1 \in 1..Len(q) /\ Tail(q)[i] = q[i + 1] BY <1>1, <1>2
    <2> QED BY <1>3, <2>1 DEF Range
<1>6. Head(q) \in Range(q) BY <1>1, <1>2, <1>3 DEF Range
<1> QED BY <1>1, <1>3, <1>4, <1>5, <1>6 DEF Range

\* The head of the loop takes the task that was put aside.
LEMMA NextTaskKeeps ==
    ASSUME LoopInv, NextTask
    PROVE  LoopInv'
<1> USE DEF LoopInv
<1>1. /\ UNCHANGED <<pc, registry, registryClosed, owner, gateClosed, answer, queue, queueClosed, active, tracked>>
      /\ loopPc = "top"
      /\ \/ ~active /\ loopPc' = "cleanup" /\ UNCHANGED <<batch, nextTask>>
         \/ nextTask = NONE /\ loopPc' = "pop" /\ UNCHANGED <<batch, nextTask>>
         \/ nextTask # NONE /\ loopPc' = "popped" /\ batch' = <<nextTask>> /\ nextTask' = NONE /\ active
    BY DEF NextTask, LoopMoves, completionVars, mailboxVars, ownerVars
<1>2. nextTask # NONE => <<nextTask>> \in Seq(Task) /\ Len(<<nextTask>>) = 1 /\ Range(<<nextTask>>) = {nextTask}
    <2>1. nextTask # NONE => nextTask \in Task BY DEF LoopTypeOK
    <2> QED BY <2>1, RangeOne
<1>3. batch' \in Seq(Task) /\ nextTask' \in Task \cup {NONE} BY <1>1, <1>2 DEF LoopTypeOK
<1>4. OneTask' BY <1>1, <1>2 DEF OneTask
<1>5. queueClosed' \/ loopPc' = "cleanup" => ~active' BY <1>1 DEF StopsOnce
<1>6. \A c \in Call : active' /\ Held(c) => Held(c)'
    BY <1>1, <1>2, TaskAssumption DEF Held
<1>7. /\ answer' \in [Call -> {"pending", "completed", NONE}] /\ queue' \in Seq(Task)
      /\ loopPc' \in LoopPcs \ {"exited"}
    BY <1>1 DEF LoopTypeOK, LoopPcs
<1> QED BY <1>1, <1>3, <1>4, <1>5, <1>6, <1>7, LoopWorks

\* BlockingQueue::pop hands the first task to the loop.
LEMMA PopKeeps ==
    ASSUME LoopInv, Pop
    PROVE  LoopInv'
<1> USE DEF LoopInv
<1>1. /\ UNCHANGED <<pc, registry, registryClosed, owner, gateClosed, answer, queueClosed, active, tracked, nextTask>>
      /\ loopPc = "pop"
      /\ \/ queue # <<>> /\ loopPc' = "popped" /\ batch' = <<Head(queue)>> /\ queue' = Tail(queue)
         \/ queueClosed /\ loopPc' = "cleanup" /\ UNCHANGED <<batch, queue>>
    BY DEF Pop, LoopMoves, completionVars, ownerVars
<1>2. queue # <<>> => /\ Head(queue) \in Task /\ Tail(queue) \in Seq(Task)
                      /\ Range(queue) = Range(Tail(queue)) \cup {Head(queue)}
    BY RangePop DEF LoopTypeOK
<1>3. queue # <<>> => /\ <<Head(queue)>> \in Seq(Task) /\ Len(<<Head(queue)>>) = 1
                      /\ Range(<<Head(queue)>>) = {Head(queue)}
    BY <1>2, RangeOne
<1>4. batch' \in Seq(Task) /\ queue' \in Seq(Task) BY <1>1, <1>2, <1>3 DEF LoopTypeOK
<1>5. OneTask' BY <1>1, <1>3 DEF OneTask
<1>6. queueClosed' \/ loopPc' = "cleanup" => ~active' BY <1>1 DEF StopsOnce
<1>7. \A c \in Call : active' /\ Held(c) => Held(c)'
    <2>1. queueClosed => ~active BY DEF StopsOnce
    <2> QED BY <1>1, <1>2, <1>3, <2>1 DEF Held
<1>8. /\ answer' \in [Call -> {"pending", "completed", NONE}] /\ nextTask' \in Task \cup {NONE}
      /\ loopPc' \in LoopPcs \ {"exited"}
    BY <1>1 DEF LoopTypeOK, LoopPcs
<1> QED BY <1>1, <1>4, <1>5, <1>6, <1>7, <1>8, LoopWorks

\* A non-empty set of natural numbers has a least element.
LEMMA LeastNat ==
    ASSUME NEW S \in SUBSET Nat, S # {}
    PROVE  \E x \in S : \A y \in S : x <= y
<1> DEFINE F == {0..x : x \in S}
<1>1. F \subseteq FiniteSubsetsOf(Nat) /\ F # {}
    <2>1. \A x \in S : 0..x \in SUBSET Nat /\ IsFiniteSet(0..x) BY FS_Interval
    <2> QED BY Zenon, <2>1 DEF FiniteSubsetsOf
<1> HIDE DEF F
<1>2. PICK A \in F : \A B \in F : ~ (<<B, A>> \in StrictSubsetOrdering(Nat))
    BY <1>1, FS_StrictSubsetOrderingWellFounded, WFMin
<1>3. PICK x \in S : A = 0..x BY DEF F
<1>4. ASSUME NEW y \in S, ~(x <= y) PROVE FALSE
    <2>1. 0..y \in F BY DEF F
    <2>2. <<0..y, 0..x>> \in StrictSubsetOrdering(Nat)
        <3>1. 0..y \subseteq 0..x /\ x \in 0..x /\ x \notin 0..y BY <1>4
        <3> QED BY <3>1 DEF StrictSubsetOrdering
    <2> QED BY <1>2, <1>3, <2>1, <2>2
<1> QED BY <1>3, <1>4

\* collect_write_batch stops somewhere: Collected is a number of tasks at the
\* front of the mailbox.
LEMMA CollectedIs ==
    ASSUME LoopInv
    PROVE  Collected \in 0 .. Len(queue) /\ Collected < MaxBatch /\ \A i \in 1..Collected : queue[i] \in Put
<1> DEFINE Stop(n) == n + 1 = MaxBatch \/ n = Len(queue) \/ queue[n + 1] \notin Put
           S == {n \in 0 .. Len(queue) : Stop(n)}
<1>1. Len(queue) \in Nat BY DEF LoopInv, LoopTypeOK
<1>2. S \in SUBSET Nat /\ S # {}
    <2>1. Len(queue) \in S BY <1>1
    <2> QED BY <1>1, <2>1
<1>3. PICK n \in S : \A k \in S : n <= k BY <1>2, LeastNat
<1>4. n \in 0 .. Len(queue) /\ Stop(n) OBVIOUS
<1>5. \A k \in 0 .. n - 1 : ~Stop(k)
    <2> SUFFICES ASSUME NEW k \in 0 .. n - 1, Stop(k) PROVE FALSE OBVIOUS
    <2>1. k \in S BY <1>1, <1>4
    <2> QED BY <1>3, <1>4, <2>1
<1>6. \A i \in 1..n : queue[i] \in Put
    <2> TAKE i \in 1..n
    <2>1. i - 1 \in 0 .. n - 1 /\ i - 1 + 1 = i BY <1>4
    <2> QED BY <1>5, <2>1
<1>7. n < MaxBatch
    <2> SUFFICES ASSUME ~(n < MaxBatch) PROVE FALSE OBVIOUS
    <2>1. MaxBatch - 1 \in 0 .. n - 1 /\ MaxBatch - 1 + 1 = MaxBatch BY <1>4, LoopAssumption
    <2> QED BY <1>5, <2>1
<1> HIDE DEF S
<1> QED BY <1>4, <1>6, <1>7 DEF Collected

\* What is taken from the front of a queue and what stays are all of it.
LEMMA RangeSplit ==
    ASSUME NEW T, NEW q \in Seq(T), NEW n \in 0 .. Len(q)
    PROVE  /\ SubSeq(q, 1, n) \in Seq(T) /\ SubSeq(q, n + 1, Len(q)) \in Seq(T)
           /\ Range(q) = Range(SubSeq(q, 1, n)) \cup Range(SubSeq(q, n + 1, Len(q)))
<1> DEFINE a == SubSeq(q, 1, n)
           b == SubSeq(q, n + 1, Len(q))
<1>0. Len(q) \in Nat OBVIOUS
<1>1. a \in Seq(T) /\ Len(a) = n /\ \A i \in 1..n : a[i] = q[i] BY <1>0
<1>2. b \in Seq(T) /\ Len(b) = Len(q) - n /\ \A i \in 1..Len(q) - n : b[i] = q[n + i] BY <1>0
<1>3. DOMAIN a = 1..n /\ DOMAIN b = 1..Len(q) - n /\ DOMAIN q = 1..Len(q) BY <1>0, <1>1, <1>2
<1> HIDE DEF a, b
<1>4. \A i \in 1..Len(q) : q[i] \in Range(a) \cup Range(b)
    <2> TAKE i \in 1..Len(q)
    <2>1. CASE i <= n BY <1>1, <1>3, <2>1 DEF Range
    <2>2. CASE i > n
        <3>1. i - n \in 1..Len(q) - n /\ b[i - n] = q[i] BY <1>0, <1>2, <2>2
        <3> QED BY <1>3, <3>1 DEF Range
    <2> QED BY <2>1, <2>2
<1>5. \A i \in 1..n : a[i] \in Range(q) BY <1>0, <1>1, <1>3 DEF Range
<1>6. \A i \in 1..Len(q) - n : b[i] \in Range(q)
    <2> TAKE i \in 1..Len(q) - n
    <2>1. n + i \in 1..Len(q) /\ b[i] = q[n + i] BY <1>0, <1>2
    <2> QED BY <1>3, <2>1 DEF Range
<1>7. Range(q) = Range(a) \cup Range(b) BY <1>3, <1>4, <1>5, <1>6 DEF Range
<1> QED BY <1>1, <1>2, <1>7 DEF a, b

\* The first task that stays and the ones after it are all that stays.
LEMMA RangeNext ==
    ASSUME NEW T, NEW q \in Seq(T), NEW n \in 0 .. Len(q), n < Len(q)
    PROVE  /\ q[n + 1] \in T /\ SubSeq(q, n + 2, Len(q)) \in Seq(T)
           /\ Range(SubSeq(q, n + 1, Len(q))) \subseteq Range(SubSeq(q, n + 2, Len(q))) \cup {q[n + 1]}
<1> DEFINE b == SubSeq(q, n + 1, Len(q))
           d == SubSeq(q, n + 2, Len(q))
<1>0. Len(q) \in Nat OBVIOUS
<1>1. b \in Seq(T) /\ Len(b) = Len(q) - n /\ \A i \in 1..Len(q) - n : b[i] = q[n + i] BY <1>0
<1>2. d \in Seq(T) /\ Len(d) = Len(q) - n - 1 /\ \A i \in 1..Len(q) - n - 1 : d[i] = q[n + 1 + i] BY <1>0
<1>3. DOMAIN b = 1..Len(q) - n /\ DOMAIN d = 1..Len(q) - n - 1 BY <1>0, <1>1, <1>2
<1> HIDE DEF b, d
<1>4. \A i \in 1..Len(q) - n : b[i] \in Range(d) \cup {q[n + 1]}
    <2> TAKE i \in 1..Len(q) - n
    <2>1. CASE i = 1 BY <1>1, <2>1
    <2>2. CASE i # 1
        <3>1. i - 1 \in 1..Len(q) - n - 1 /\ n + 1 + (i - 1) = n + i BY <1>0, <2>2
        <3>2. d[i - 1] = b[i] BY <1>1, <1>2, <3>1
        <3> QED BY <1>3, <3>1, <3>2 DEF Range
    <2> QED BY <2>1, <2>2
<1>5. Range(b) \subseteq Range(d) \cup {q[n + 1]} BY <1>3, <1>4 DEF Range
<1>6. q[n + 1] \in T BY <1>0
<1> QED BY <1>2, <1>5, <1>6 DEF b, d

\* Two sequences joined hold what either holds.
LEMMA RangeConcat ==
    ASSUME NEW T, NEW a \in Seq(T), NEW b \in Seq(T)
    PROVE  a \o b \in Seq(T) /\ Range(a) \cup Range(b) \subseteq Range(a \o b)
<1>1. a \o b \in Seq(T) /\ Len(a \o b) = Len(a) + Len(b) /\ Len(a) \in Nat /\ Len(b) \in Nat OBVIOUS
<1>2. /\ \A i \in 1..Len(a) : (a \o b)[i] = a[i]
      /\ \A i \in 1..Len(b) : (a \o b)[Len(a) + i] = b[i]
    OBVIOUS
<1>3. DOMAIN a = 1..Len(a) /\ DOMAIN b = 1..Len(b) /\ DOMAIN (a \o b) = 1..(Len(a) + Len(b)) BY <1>1
<1>4. \A i \in 1..Len(a) : a[i] \in Range(a \o b)
    <2> TAKE i \in 1..Len(a)
    <2>1. i \in 1..(Len(a) + Len(b)) BY <1>1
    <2> QED BY <1>2, <1>3, <2>1 DEF Range
<1>5. \A i \in 1..Len(b) : b[i] \in Range(a \o b)
    <2> TAKE i \in 1..Len(b)
    <2>1. Len(a) + i \in 1..(Len(a) + Len(b)) BY <1>1
    <2> QED BY <1>2, <1>3, <2>1 DEF Range
<1> QED BY <1>1, <1>3, <1>4, <1>5 DEF Range

\* collect_write_batch: every task stays in the mailbox, joins the batch or is
\* put aside.
LEMMA CollectKeeps ==
    ASSUME LoopInv, CollectWriteBatch
    PROVE  LoopInv'
<1> USE DEF LoopInv
<1> DEFINE stopper == Collected < Len(queue) /\ Collected + 1 < MaxBatch
           taken == SubSeq(queue, 1, Collected)
           rest == SubSeq(queue, Collected + 1, Len(queue))
<1>1. /\ UNCHANGED <<pc, registry, registryClosed, owner, gateClosed, answer, queueClosed, active, tracked>>
      /\ loopPc = "popped" /\ loopPc' = "collected" /\ active
      /\ batch' = batch \o taken
      /\ nextTask' = IF stopper THEN queue[Collected + 1] ELSE NONE
      /\ queue' = SubSeq(queue, IF stopper THEN Collected + 2 ELSE Collected + 1, Len(queue))
    BY DEF CollectWriteBatch, LoopMoves, completionVars, ownerVars
<1>2. Collected \in 0 .. Len(queue) BY CollectedIs
<1>3. queue \in Seq(Task) /\ batch \in Seq(Task) /\ Len(queue) \in Nat BY DEF LoopTypeOK
<1>4. /\ taken \in Seq(Task) /\ rest \in Seq(Task) /\ Range(queue) = Range(taken) \cup Range(rest)
    BY <1>2, <1>3, RangeSplit
<1>5. batch' \in Seq(Task) /\ Range(batch) \cup Range(taken) \subseteq Range(batch')
    BY <1>1, <1>3, <1>4, RangeConcat
<1>6. /\ queue' \in Seq(Task) /\ nextTask' \in Task \cup {NONE}
      /\ Range(rest) \subseteq Range(queue') \cup {nextTask'}
    <2>1. CASE stopper
        <3>1. /\ queue[Collected + 1] \in Task /\ SubSeq(queue, Collected + 2, Len(queue)) \in Seq(Task)
              /\ Range(rest) \subseteq Range(SubSeq(queue, Collected + 2, Len(queue))) \cup {queue[Collected + 1]}
            BY <1>2, <1>3, <2>1, RangeNext
        <3> QED BY <1>1, <2>1, <3>1
    <2>2. CASE ~stopper BY <1>1, <1>4, <2>2
    <2> QED BY <2>1, <2>2
<1> HIDE DEF stopper, taken, rest
<1>7. OneTask' BY <1>1 DEF OneTask
<1>8. queueClosed' \/ loopPc' = "cleanup" => ~active' BY <1>1 DEF StopsOnce
<1>9. \A c \in Call : Held(c) => Held(c)'
    BY <1>1, <1>4, <1>5, <1>6, TaskAssumption DEF Held, OneTask
<1>10. answer' \in [Call -> {"pending", "completed", NONE}] /\ loopPc' \in LoopPcs \ {"exited"}
    BY <1>1 DEF LoopTypeOK, LoopPcs
<1> QED BY <1>1, <1>5, <1>6, <1>7, <1>8, <1>9, <1>10, LoopWorks

\* A dispatch leaves the mailbox as it is, or the replica faults and the loop stops.
LEMMA DispatchedIs ==
    ASSUME LoopInv, NEW sound, Dispatched(sound)
    PROVE  /\ active' => active /\ queue' = queue
           /\ queueClosed' => ~active'
           /\ queue' \in Seq(Task)
<1>1. \/ UNCHANGED mailboxVars
      \/ active' = FALSE /\ queueClosed' = TRUE /\ queue' = <<>>
    BY DEF Dispatched, ReportFault
<1>2. <<>> \in Seq(Task) OBVIOUS
<1>3. queue \in Seq(Task) /\ (queueClosed => ~active) BY DEF LoopInv, LoopTypeOK, StopsOnce
<1>4. CASE active' = active /\ queue' = queue /\ queueClosed' = queueClosed BY <1>3, <1>4
<1>5. CASE active' = FALSE /\ queueClosed' = TRUE /\ queue' = <<>> BY <1>2, <1>5
<1> QED BY <1>1, <1>4, <1>5 DEF mailboxVars

\* A dispatch that ends at "advance" keeps the invariant when it answers or
\* tracks the calls of its batch.
LEMMA BatchDone ==
    ASSUME LoopInv, UNCHANGED <<pc, registry, registryClosed, owner, gateClosed, batch, nextTask>>,
           loopPc' = "advance",
           active' => active /\ queue' = queue, queueClosed' => ~active', queue' \in Seq(Task),
           answer' \in [Call -> {"pending", "completed", NONE}],
           \A c \in Call : answer'[c] = "pending" => answer[c] = "pending",
           tracked \subseteq tracked',
           \A c \in Call : active' /\ answer'[c] = "pending" /\ c \in Range(batch) => c \in tracked'
    PROVE  LoopInv'
<1> USE DEF LoopInv
<1>1. OneTask' BY DEF OneTask
<1>2. \A c \in Call : active' /\ answer'[c] = "pending" /\ Held(c) => Held(c)' BY DEF Held
<1>3. batch' \in Seq(Task) /\ nextTask' \in Task \cup {NONE} /\ loopPc' \in LoopPcs \ {"exited"}
    BY DEF LoopTypeOK, LoopPcs
<1>4. queueClosed' \/ loopPc' = "cleanup" => ~active' OBVIOUS
<1> QED BY <1>1, <1>2, <1>3, <1>4, LoopWorks

\* The proposals of a batch are tracked, or all of them fail.
LEMMA SubmitBatchKeeps ==
    ASSUME LoopInv, NEW sound, SubmitBatch(sound)
    PROVE  LoopInv'
<1>1. /\ UNCHANGED <<pc, registry, registryClosed, owner, gateClosed, batch, nextTask>>
      /\ loopPc' = "advance" /\ Dispatched(sound)
      /\ \/ tracked' = tracked \cup Range(batch) /\ answer' = answer
         \/ answer' = Completed(Range(batch)) /\ tracked' = tracked
    BY DEF SubmitBatch, LoopMoves
<1>2. /\ active' => active /\ queue' = queue
      /\ queueClosed' => ~active'
      /\ queue' \in Seq(Task)
    BY <1>1, DispatchedIs
<1>3. LoopTypeOK BY DEF LoopInv
<1>4. /\ answer' \in [Call -> {"pending", "completed", NONE}]
      /\ \A c \in Call : answer'[c] = "pending" =>
            answer[c] = "pending" /\ (c \in Range(batch) => c \in tracked')
    BY <1>1, <1>3, CompletedIs DEF LoopTypeOK
<1>5. tracked \subseteq tracked' BY <1>1
<1> QED BY <1>1, <1>2, <1>4, <1>5, BatchDone

\* A read is tracked or answered, unless its caller has already gone.
LEMMA EstablishReadKeeps ==
    ASSUME LoopInv, NEW sound, EstablishRead(sound)
    PROVE  LoopInv'
<1> DEFINE waiting == {c \in Range(batch) : answer[c] = "pending"}
<1>1. /\ UNCHANGED <<pc, registry, registryClosed, owner, gateClosed, batch, nextTask>>
      /\ loopPc' = "advance" /\ Dispatched(sound)
      /\ \/ tracked' = tracked \cup waiting /\ (answer' = answer \/ answer' = Completed(waiting))
         \/ answer' = Completed(waiting) /\ tracked' = tracked
    BY DEF EstablishRead, LoopMoves
<1>2. /\ active' => active /\ queue' = queue
      /\ queueClosed' => ~active'
      /\ queue' \in Seq(Task)
    BY <1>1, DispatchedIs
<1>3. LoopTypeOK BY DEF LoopInv
<1>4. /\ answer' \in [Call -> {"pending", "completed", NONE}]
      /\ \A c \in Call : answer'[c] = "pending" =>
            answer[c] = "pending" /\ (c \in waiting => c \in tracked')
    BY <1>1, <1>3, CompletedIs DEF LoopTypeOK
<1>5. tracked \subseteq tracked' BY <1>1
<1>6. \A c \in Call : answer'[c] = "pending" /\ c \in Range(batch) => c \in tracked' BY <1>4
<1> QED BY <1>1, <1>2, <1>4, <1>5, <1>6, BatchDone

\* A Raft or membership call is answered by its own dispatch.
LEMMA HandleRaftKeeps ==
    ASSUME LoopInv, NEW sound, HandleRaft(sound)
    PROVE  LoopInv'
<1>1. /\ UNCHANGED <<pc, registry, registryClosed, owner, gateClosed, batch, nextTask, tracked>>
      /\ loopPc = "popped" /\ loopPc' = "advance" /\ Dispatched(sound)
      /\ Head(batch) \in Direct \cup {"event"}
      /\ answer' = Completed(Range(batch) \cap Direct)
    BY DEF HandleRaft, LoopMoves
<1>2. /\ active' => active /\ queue' = queue
      /\ queueClosed' => ~active'
      /\ queue' \in Seq(Task)
    BY <1>1, DispatchedIs
<1>3. LoopTypeOK BY DEF LoopInv
<1>4. /\ answer' \in [Call -> {"pending", "completed", NONE}]
      /\ \A c \in Call : answer'[c] = "pending" => answer[c] = "pending" /\ c \notin Range(batch) \cap Direct
    BY <1>1, <1>3, CompletedIs
<1>5. Range(batch) = {Head(batch)}
    <2>1. batch \in Seq(Task) /\ Len(batch) = 1 BY <1>1 DEF LoopInv, LoopTypeOK, OneTask
    <2>2. DOMAIN batch = 1..1 /\ Head(batch) = batch[1] BY <2>1
    <2> QED BY <2>2 DEF Range
<1>6. \A c \in Call : answer'[c] = "pending" => c \notin Range(batch)
    BY <1>1, <1>4, <1>5, TaskAssumption
<1> QED BY <1>1, <1>2, <1>4, <1>6, BatchDone

\* A reported fault stops the loop.
LEMMA HandleFaultKeeps ==
    ASSUME LoopInv, HandleFault
    PROVE  LoopInv'
<1>1. /\ UNCHANGED <<pc, registry, registryClosed, owner, gateClosed, batch, nextTask, tracked, answer>>
      /\ loopPc' = "advance" /\ active' = FALSE /\ queue' = <<>>
    BY DEF HandleFault, LoopMoves, completionVars, ownerVars
<1>2. queue' \in Seq(Task) /\ answer' \in [Call -> {"pending", "completed", NONE}]
    BY <1>1 DEF LoopInv, LoopTypeOK
<1> QED BY <1>1, <1>2, BatchDone

\* A loop that was stopped drops its task.
LEMMA DropTaskKeeps ==
    ASSUME LoopInv, DropTask
    PROVE  LoopInv'
<1> USE DEF LoopInv
<1>1. /\ UNCHANGED <<pc, registry, registryClosed, owner, gateClosed, answer, queue, queueClosed, active, tracked, batch, nextTask>>
      /\ loopPc' = "cleanup" /\ ~active
    BY DEF DropTask, LoopMoves, completionVars, mailboxVars, ownerVars
<1>2. OneTask' BY <1>1 DEF OneTask
<1>3. /\ answer' \in [Call -> {"pending", "completed", NONE}] /\ queue' \in Seq(Task) /\ batch' \in Seq(Task)
      /\ nextTask' \in Task \cup {NONE} /\ loopPc' \in LoopPcs \ {"exited"}
    BY <1>1 DEF LoopTypeOK, LoopPcs
<1> QED BY <1>1, <1>2, <1>3, LoopWorks

\* advance_trackers answers what it takes out of the trackers.
LEMMA AdvanceTrackersKeeps ==
    ASSUME LoopInv, NEW sound, AdvanceTrackers(sound)
    PROVE  LoopInv'
<1> USE DEF LoopInv
<1>1. /\ UNCHANGED <<pc, registry, registryClosed, owner, gateClosed, nextTask>>
      /\ loopPc = "advance" /\ loopPc' = "top" /\ batch' = <<>> /\ Dispatched(sound)
      /\ \E done : answer' = Completed(done) /\ tracked \subseteq tracked' \cup done
    BY DEF AdvanceTrackers, LoopMoves
<1>2. /\ active' => active /\ queue' = queue
      /\ queueClosed' => ~active'
      /\ queue' \in Seq(Task)
    BY <1>1, DispatchedIs
<1>3. /\ answer' \in [Call -> {"pending", "completed", NONE}]
      /\ \A c \in Call : answer'[c] = "pending" => answer[c] = "pending" /\ (c \in tracked => c \in tracked')
    BY <1>1, CompletedIs
<1>4. OneTask' BY <1>1 DEF OneTask
<1>5. \A c \in Call : active' /\ answer'[c] = "pending" /\ Held(c) => Held(c)'
    BY <1>1, <1>2, <1>3 DEF Held
<1>6. batch' \in Seq(Task) /\ nextTask' \in Task \cup {NONE} /\ loopPc' \in LoopPcs \ {"exited"}
    BY <1>1 DEF LoopTypeOK, LoopPcs
<1> QED BY <1>1, <1>2, <1>3, <1>4, <1>5, <1>6, LoopWorks

\* The clean-up of the loop decides every completion that a thread waits for.
LEMMA LoopExitsKeeps ==
    ASSUME LoopInv, LoopExits
    PROVE  LoopInv'
<1> USE DEF LoopInv
<1>1. /\ UNCHANGED <<pc, owner, gateClosed, active, queue, queueClosed>>
      /\ loopPc = "cleanup" /\ loopPc' = "exited" /\ nextTask' = NONE /\ batch' = <<>>
      /\ answer' = Completed(tracked \cup registry) /\ registry' = {} /\ registryClosed' = TRUE
    BY DEF LoopExits, LoopMoves, FailAllPending, mailboxVars, ownerVars
<1>2. /\ answer' \in [Call -> {"pending", "completed", NONE}]
      /\ \A c \in Call : answer'[c] = "pending" => answer[c] = "pending" /\ c \notin registry
    BY <1>1, CompletedIs
<1>3. LoopTypeOK'
    <2>1. batch' \in Seq(Task) /\ nextTask' \in Task \cup {NONE} /\ loopPc' \in LoopPcs BY <1>1 DEF LoopPcs
    <2> QED BY <1>1, <1>2, <2>1 DEF LoopTypeOK
<1>4. GateFirst' /\ StopsOnce' /\ OneTask' /\ NobodyInsideAfterDrain'
    BY <1>1 DEF GateFirst, StopsOnce, OneTask, NobodyInsideAfterDrain
<1>5. WaiterRegistered' BY <1>1, <1>2 DEF WaiterRegistered
<1>6. CallsHeld' BY <1>1 DEF CallsHeld, StopsOnce
<1> QED BY <1>3, <1>4, <1>5, <1>6

\* Every step of the loop thread.
LEMMA LoopKeeps ==
    ASSUME LoopInv, LoopStep
    PROVE  LoopInv'
BY NextTaskKeeps, PopKeeps, CollectKeeps, DropTaskKeeps, HandleFaultKeeps, LoopExitsKeeps,
   SubmitBatchKeeps, EstablishReadKeeps, HandleRaftKeeps, AdvanceTrackersKeeps DEF LoopStep

-----------------------------------------------------------------------------
(* The owner, and the theorems.                                            *)

\* Recovery, start, events and the first step of a shutdown: the mailbox gets a
\* task more, or the loop stops.
LEMMA OwnerWorks ==
    ASSUME LoopInv, Recover \/ Start \/ PostEvent \/ ShutdownBegins
    PROVE  LoopInv'
<1> USE DEF LoopInv
<1>1. /\ UNCHANGED <<pc, answer, registry, registryClosed, loopPc, batch, nextTask, tracked, gateClosed>>
      /\ owner' = owner \/ (owner = "idle" /\ owner' = "close_gate")
    BY DEF Recover, Start, PostEvent, ShutdownBegins, OwnerMoves, completionVars, loopVars, ownerVars
<1>2. \/ UNCHANGED <<active, queue, queueClosed>>
      \/ active' = FALSE /\ queueClosed' = TRUE /\ queue' = <<>>
      \/ UNCHANGED <<active, queueClosed>> /\ \E x \in {"event", "fault"} : queue' = Append(queue, x)
    BY DEF Recover, Start, PostEvent, ShutdownBegins, ReportFault, mailboxVars
<1>3. \A x \in {"event", "fault"} : Append(queue, x) \in Seq(Task) /\ Range(queue) \subseteq Range(Append(queue, x))
    <2> TAKE x \in {"event", "fault"}
    <2>1. x \in Task /\ queue \in Seq(Task) BY DEF Task, LoopTypeOK
    <2> QED BY <2>1, RangeAppend
<1>4. queue' \in Seq(Task) /\ (active' => Range(queue) \subseteq Range(queue'))
    <2>1. queue \in Seq(Task) /\ <<>> \in Seq(Task) BY DEF LoopTypeOK
    <2> QED BY <1>2, <1>3, <2>1
<1>5. (active' => active) /\ (queueClosed => ~active) /\ (queueClosed' => ~active')
    <2>1. queueClosed => ~active BY DEF StopsOnce
    <2> QED BY <1>2, <2>1
<1>6. LoopTypeOK' BY <1>1, <1>4 DEF LoopTypeOK
<1>7. GateFirst' /\ OneTask' /\ NobodyInsideAfterDrain' /\ WaiterRegistered'
    BY <1>1 DEF GateFirst, OneTask, NobodyInsideAfterDrain, WaiterRegistered
<1>8. StopsOnce'
    <2>1. owner' \in Deactivated => owner \in Deactivated BY <1>1 DEF Deactivated
    <2> QED BY <1>1, <1>5, <2>1 DEF StopsOnce
<1>9. CallsHeld' BY <1>1, <1>4, <1>5 DEF CallsHeld, Held
<1> QED BY <1>6, <1>7, <1>8, <1>9

\* Replica::shutdown, step by step.
LEMMA ShutdownKeeps ==
    ASSUME LoopInv, ShutdownStep
    PROVE  LoopInv'
<1> USE DEF LoopInv
<1>1. UNCHANGED <<pc, loopPc, batch, nextTask, tracked>> BY DEF ShutdownStep, loopVars
<1>2. CASE /\ owner = "close_gate" /\ owner' = "deactivate" /\ gateClosed' = TRUE
           /\ UNCHANGED <<answer, registry, registryClosed, active, queue, queueClosed>>
    BY <1>1, <1>2 DEF LoopTypeOK, GateFirst, StopsOnce, OneTask, NobodyInsideAfterDrain, WaiterRegistered,
                      CallsHeld, Held, Deactivated
<1>3. CASE /\ owner = "deactivate" /\ owner' = "close_queue" /\ active' = FALSE
           /\ UNCHANGED <<answer, registry, registryClosed, queue, queueClosed, gateClosed>>
    BY <1>1, <1>3 DEF LoopTypeOK, GateFirst, StopsOnce, OneTask, NobodyInsideAfterDrain, WaiterRegistered,
                      CallsHeld, Held, Deactivated
<1>4. CASE /\ owner = "close_queue" /\ owner' = "close_registry" /\ queue' = <<>> /\ queueClosed' = TRUE
           /\ UNCHANGED <<answer, registry, registryClosed, active, gateClosed>>
    <2>1. ~active /\ queue' \in Seq(Task) BY <1>4 DEF StopsOnce, Deactivated
    <2> QED BY <1>1, <1>4, <2>1 DEF LoopTypeOK, GateFirst, StopsOnce, OneTask, NobodyInsideAfterDrain,
                                    WaiterRegistered, CallsHeld, Deactivated
<1>5. CASE /\ owner = "close_registry" /\ owner' = "drain"
           /\ answer' = Completed(registry) /\ registry' = {} /\ registryClosed' = TRUE
           /\ UNCHANGED <<active, queue, queueClosed, gateClosed>>
    <2>1. /\ answer' \in [Call -> {"pending", "completed", NONE}]
          /\ \A c \in Call : answer'[c] = "pending" => answer[c] = "pending" /\ c \notin registry
        BY <1>5, CompletedIs
    <2>2. ~active BY <1>5 DEF StopsOnce, Deactivated
    <2> QED BY <1>1, <1>5, <2>1, <2>2 DEF LoopTypeOK, GateFirst, StopsOnce, OneTask, NobodyInsideAfterDrain,
                                          WaiterRegistered, CallsHeld, Deactivated
<1>6. CASE /\ \/ owner = "drain" /\ owner' = "join" /\ \A c \in Call : pc[c] \notin Inside
              \/ owner = "join" /\ owner' = "done"
           /\ UNCHANGED <<answer, registry, registryClosed, active, queue, queueClosed, gateClosed>>
    BY <1>1, <1>6 DEF LoopTypeOK, GateFirst, StopsOnce, OneTask, NobodyInsideAfterDrain, WaiterRegistered,
                      CallsHeld, Held, Deactivated
<1> QED BY <1>2, <1>3, <1>4, <1>5, <1>6 DEF ShutdownStep, OwnerMoves, CloseQueue, completionVars, mailboxVars

\* A new replica satisfies the invariant.
LEMMA LoopInit == Init => LoopInv
BY DEF Init, LoopInv, LoopTypeOK, GateFirst, StopsOnce, OneTask, NobodyInsideAfterDrain, WaiterRegistered,
       CallsHeld, LoopPcs, Deactivated

\* Every step keeps the invariant.
LEMMA LoopInvStep == LoopInv /\ [Next]_vars => LoopInv'
<1> SUFFICES ASSUME LoopInv, [Next]_vars PROVE LoopInv' OBVIOUS
<1>1. CASE Next BY <1>1, CallKeeps, LoopKeeps, OwnerWorks, ShutdownKeeps DEF Next
<1>2. CASE UNCHANGED vars
    BY <1>2 DEF vars, completionVars, mailboxVars, loopVars, ownerVars, LoopInv, LoopTypeOK, GateFirst,
                StopsOnce, OneTask, NobodyInsideAfterDrain, WaiterRegistered, CallsHeld, Held
<1> QED BY <1>1, <1>2

\* The invariant holds in every reachable state.
THEOREM LoopInvariance == Spec => []LoopInv
BY LoopInit, LoopInvStep, PTL DEF Spec

\* OperGate: for any number of calls, no thread is inside the replica once
\* shutdown has waited for the gate, whatever the calls and the loop do.
THEOREM DrainedForGood == Spec => []NobodyInsideAfterDrain
<1>1. LoopInv => NobodyInsideAfterDrain BY DEF LoopInv
<1> QED BY <1>1, LoopInvariance, PTL

\* CompletionRegistry: every completion a thread may block on can be reached by
\* the loop and by close(), although both empty the registry.
THEOREM WaitersAreRegistered == Spec => []WaiterRegistered
<1>1. LoopInv => WaiterRegistered BY DEF LoopInv
<1> QED BY <1>1, LoopInvariance, PTL

\* ReplicaLoop: no call that waits is lost between the mailbox, the batch, the
\* task put aside and the trackers, and the loop has not exited before it.
THEOREM WaitersAreHeld == Spec => []WaiterHeld
<1>1. LoopInv => WaiterHeld BY DEF LoopInv, WaiterHeld, WaiterRegistered, CallsHeld, StopsOnce
<1> QED BY <1>1, LoopInvariance, PTL
==============================================================================
