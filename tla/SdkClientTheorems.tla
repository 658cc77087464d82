------------------------- MODULE SdkClientTheorems --------------------------
(***************************************************************************)
(* The two verdicts of a CAS that the SDK hands on as final, OK and        *)
(* CONDITION_NOT_MET, are true of the group, for every number of replicas, *)
(* retries, refreshes and elections.                                       *)
(*                                                                         *)
(* A verdict may come from any of several attempts, most of them given up, *)
(* and the record it was read from may be committed by one leader and      *)
(* looked up at another.  VerdictInv says that the two statuses appear in  *)
(* the caller's hands only at the end of the request, and only as the      *)
(* record of the group has them; the record itself never changes.          *)
(* RefreshInv excludes a refresh that ends after the request.              *)
(***************************************************************************)
EXTENDS SdkClient, TLAPS

Final == {"OK", "CONDITION_NOT_MET"}

\* what the caller holds is true: a read returns OK without a record
Told(s) ==
    /\ s = "OK" => op = "get" \/ record = "OK"
    /\ s = "CONDITION_NOT_MET" => record = "CONDITION_NOT_MET"

VerdictInv == status \in Final => pc = "done" /\ Told(status)

\* the request waits for the refresh it asked for
RefreshInv == foreground # NONE => pc \in {"resolve", "refresh"}

\* a status that a replica may answer with
Answerable(s) == s \in Final => Told(s)

-----------------------------------------------------------------------------
(* What the parts that actions share do to the invariant.                  *)

\* finalize_status makes no status final that is not.
LEMMA FinalizedKeeps ==
    ASSUME NEW s, NEW unsure, Finalized(s, unsure) \in Final
    PROVE  Finalized(s, unsure) = s
BY DEF Finalized, Final

\* A request that ends with a true status.
LEMMA FinishTells ==
    ASSUME NEW s, NEW unsure, Answerable(s), Finish(s, unsure), record' = record
    PROVE  VerdictInv'
<1>1. status' = Finalized(s, unsure) /\ pc' = "done" /\ op' = op BY Zenon DEF Finish
<1>2. CASE status' \in Final
    <2>1. status' = s BY Zenon, <1>1, <1>2, FinalizedKeeps
    <2> QED BY Zenon, <1>1, <1>2, <2>1 DEF VerdictInv, Answerable, Told
<1>3. CASE status' \notin Final BY Zenon, <1>3 DEF VerdictInv
<1> QED BY Zenon, <1>2, <1>3

\* The body of the retry loop hands a final status on, and keeps none for the
\* next attempt: neither is retryable.
LEMMA ReturnedTells ==
    ASSUME NEW s, Answerable(s), Returned(s), record' = record
    PROVE  VerdictInv'
<1>1. CASE \E unsure : Finish(s, unsure) BY Zenon, <1>1, FinishTells
<1>2. CASE IsRetryable(s) /\ s # "OK" /\ status' = s
    <2>1. s \notin Final BY Zenon, <1>2 DEF IsRetryable, Refreshing, Final
    <2> QED BY Zenon, <1>2, <2>1 DEF VerdictInv
<1> QED BY Zenon, <1>1, <1>2 DEF Returned

\* The answer of a replica reaches the request, or nobody.
LEMMA AnswerTells ==
    ASSUME NEW c, NEW s, Answerable(s), Answer(c, s), VerdictInv, record' = record
    PROVE  VerdictInv'
<1>1. CASE Returned(s) BY Zenon, <1>1, ReturnedTells
<1>2. CASE UNCHANGED loopVars BY Zenon, <1>2 DEF loopVars, VerdictInv, Told
<1> QED BY Zenon, <1>1, <1>2 DEF Answer

\* A step that leaves the request alone; a record, once it is there, stays.
LEMMA RequestRests ==
    ASSUME VerdictInv, UNCHANGED <<op, pc, status>>, record' = record \/ record = NONE
    PROVE  VerdictInv'
<1>1. CASE status \notin Final BY Zenon, <1>1 DEF VerdictInv
<1>2. CASE status = "OK"
    BY Zenon, <1>2, NoneAssumption DEF VerdictInv, Told, Final
<1>3. CASE status = "CONDITION_NOT_MET"
    BY Zenon, <1>3, NoneAssumption DEF VerdictInv, Told, Final
<1> QED BY Zenon, <1>1, <1>2, <1>3 DEF Final

\* The record looked up at a replica is the one of the group.
LEMMA LookupTells ==
    ASSUME NEW n, Lookup(n) # NONE
    PROVE  Answerable(Lookup(n))
BY Zenon DEF Lookup, Answerable, Told, Final

-----------------------------------------------------------------------------
(* The actions.                                                            *)

\* Send: the loop gives up with the status of the last attempt.
LEMMA SendTells == ASSUME VerdictInv, Send PROVE VerdictInv'
<1>1. record' = record /\ pc = "loop" BY Zenon DEF Send, groupVars
<1>2. Answerable(status) BY Zenon, <1>1 DEF VerdictInv, Answerable
<1>3. CASE Finish(status, uncertain) BY Zenon, <1>1, <1>2, <1>3, FinishTells
<1>4. CASE status' = status
    <2>1. status' \notin Final BY Zenon, <1>1, <1>4 DEF VerdictInv
    <2> QED BY Zenon, <2>1 DEF VerdictInv
<1> QED BY Zenon, <1>3, <1>4 DEF Send

\* HandleCas: the record of an earlier attempt answers.
LEMMA HandleCasTells == ASSUME VerdictInv, NEW c, HandleCas(c) PROVE VerdictInv'
<1>1. record' = record BY Zenon DEF HandleCas
<1>2. CASE Lookup(c.node) # NONE /\ Answer(c, Lookup(c.node)) BY Zenon, <1>1, <1>2, LookupTells, AnswerTells
<1>3. CASE Track(c) BY Zenon, <1>1, <1>3, RequestRests DEF Track, loopVars
<1>4. CASE Answer(c, "NOT_LEADER")
    <2>1. Answerable("NOT_LEADER") BY Zenon DEF Answerable, Final
    <2> QED BY Zenon, <1>1, <1>4, <2>1, AnswerTells
<1> QED BY Zenon, <1>2, <1>3, <1>4 DEF HandleCas

\* ResolveCas: advance() answers from the record or with a status that promises
\* nothing.
LEMMA ResolveCasTells == ASSUME VerdictInv, NEW c, ResolveCas(c) PROVE VerdictInv'
<1>1. record' = record BY Zenon DEF ResolveCas, groupVars
<1>2. CASE Lookup(c.node) # NONE /\ Answer(c, Lookup(c.node)) BY Zenon, <1>1, <1>2, LookupTells, AnswerTells
<1>3. CASE \E s \in {"KEY_NOT_FOUND", "NOT_LEADER", "NOT_YET_COMMIT", "IS_FAULTED", "ERROR"} : Answer(c, s)
    <2>1. PICK s \in {"KEY_NOT_FOUND", "NOT_LEADER", "NOT_YET_COMMIT", "IS_FAULTED", "ERROR"} : Answer(c, s)
        BY Zenon, <1>3
    <2>2. Answerable(s) BY Zenon, <2>1 DEF Answerable, Final
    <2> QED BY Zenon, <1>1, <2>1, <2>2, AnswerTells
<1> QED BY Zenon, <1>2, <1>3 DEF ResolveCas

\* Refuse, HandleGet and ResolveGet: no answer to a read is a verdict on a CAS.
LEMMA OthersTell ==
    ASSUME VerdictInv, NEW c, Refuse(c) \/ HandleGet(c) \/ ResolveGet(c)
    PROVE  VerdictInv'
<1>1. record' = record BY Zenon DEF Refuse, HandleGet, ResolveGet, groupVars
<1>2. CASE Track(c) BY Zenon, <1>1, <1>2, RequestRests DEF Track, loopVars
<1>3. CASE \E s \in {"REPLICA_NOT_FOUND", "IS_FAULTED", "READ_INDEX_NOT_READY", "NOT_LEADER", "KEY_NOT_FOUND", "ERROR"} :
              Answer(c, s)
    <2>1. PICK s \in {"REPLICA_NOT_FOUND", "IS_FAULTED", "READ_INDEX_NOT_READY", "NOT_LEADER", "KEY_NOT_FOUND", "ERROR"} :
              Answer(c, s)
        BY Zenon, <1>3
    <2>2. Answerable(s) BY Zenon, <2>1 DEF Answerable, Final
    <2> QED BY Zenon, <1>1, <2>1, <2>2, AnswerTells
<1>4. CASE op = "get" /\ Answer(c, "OK")
    <2>1. Answerable("OK") BY Zenon, <1>4 DEF Answerable, Told
    <2> QED BY Zenon, <1>1, <1>4, <2>1, AnswerTells
<1> QED BY Zenon, <1>2, <1>3, <1>4 DEF Refuse, HandleGet, ResolveGet

\* Every step of the request keeps the invariant.
LEMMA RequestStepTells == ASSUME VerdictInv, RefreshInv, RequestStep PROVE VerdictInv'
<1>1. CASE ResolveRoute
    <2>1. record' = record /\ op' = op /\ status' = status /\ pc = "init" BY Zenon, <1>1 DEF ResolveRoute, groupVars
    <2>2. status' \notin Final BY Zenon, <2>1 DEF VerdictInv
    <2> QED BY Zenon, <2>2 DEF VerdictInv
<1>2. CASE Send BY Zenon, <1>2, SendTells
<1>3. CASE RpcFails
    <2>1. Answerable("RPC_ERROR") BY Zenon DEF Answerable, Final
    <2> QED BY Zenon, <1>3, <2>1, ReturnedTells DEF RpcFails, groupVars
<1>4. CASE Refreshed \/ LookupRoute
    <2>1. status' = status /\ pc # "done"
        BY <1>4, NoneAssumption DEF Refreshed, LookupRoute, RefreshInv
    <2>2. status' \notin Final BY Zenon, <2>1 DEF VerdictInv
    <2> QED BY Zenon, <2>2 DEF VerdictInv
<1>5. CASE RefreshFails
    <2>1. PICK s \in {"RPC_ERROR", "ROUTE_NOT_FOUND", "RESOURCE_EXHAUSTED"} : Finish(s, uncertain)
        BY Zenon, <1>5 DEF RefreshFails
    <2>2. Answerable(s) BY Zenon, <2>1 DEF Answerable, Final
    <2> QED BY Zenon, <1>5, <2>1, <2>2, FinishTells DEF RefreshFails, groupVars
<1> QED BY Zenon, <1>1, <1>2, <1>3, <1>4, <1>5 DEF RequestStep

\* Every step keeps the invariant.
LEMMA VerdictStep == ASSUME VerdictInv, RefreshInv, [Next]_vars PROVE VerdictInv'
<1>1. CASE \E n \in Node : Elect(n) \/ Replicate(n) \/ Apply(n)
    BY Zenon, <1>1, RequestRests DEF Elect, Replicate, Apply, loopVars
<1>2. CASE Commit BY Zenon, <1>2, RequestRests DEF Commit, loopVars
<1>3. CASE Expire \/ MetaLearns \/ MetaAnswersForeground \/ MetaAnswersBackground
    BY Zenon, <1>3, RequestRests DEF Expire, MetaLearns, MetaAnswersForeground, MetaAnswersBackground, groupVars, loopVars
<1>4. CASE \E c \in calls : Refuse(c) \/ HandleCas(c) \/ HandleGet(c) \/ ResolveCas(c) \/ ResolveGet(c)
    BY Zenon, <1>4, HandleCasTells, ResolveCasTells, OthersTell
<1>5. CASE RequestStep BY Zenon, <1>5, RequestStepTells
<1>6. CASE BackgroundStep
    BY Zenon, <1>6, RequestRests DEF BackgroundStep, BackgroundAsks, BackgroundRefreshed, BackgroundFails, groupVars, loopVars
<1>7. CASE UNCHANGED vars BY Zenon, <1>7, RequestRests DEF vars, groupVars, loopVars
<1> QED BY Zenon, <1>1, <1>2, <1>3, <1>4, <1>5, <1>6, <1>7 DEF Next

\* The body of the retry loop asks for a refresh and waits for it, or does not.
LEMMA ReturnedWaits ==
    ASSUME NEW s, Returned(s), pc = "sending", RefreshInv
    PROVE  RefreshInv'
<1>1. foreground = NONE BY Zenon DEF RefreshInv
<1>2. CASE UNCHANGED foreground BY Zenon, <1>1, <1>2 DEF RefreshInv
<1>3. CASE pc' = "refresh" BY Zenon, <1>3 DEF RefreshInv
<1> QED BY Zenon, <1>2, <1>3 DEF Returned

\* The answer of a replica reaches a request that is sending, or nobody.
LEMMA AnswerWaits ==
    ASSUME NEW c, NEW s, Answer(c, s), RefreshInv
    PROVE  RefreshInv'
<1>1. CASE pc = "sending" /\ Returned(s) BY Zenon, <1>1, ReturnedWaits
<1>2. CASE UNCHANGED <<foreground, loopVars>> BY Zenon, <1>2 DEF loopVars, RefreshInv
<1> QED BY Zenon, <1>1, <1>2 DEF Answer

\* Only the request itself ends its wait for a refresh.
LEMMA RefreshStep == ASSUME RefreshInv, [Next]_vars PROVE RefreshInv'
<1>1. CASE UNCHANGED <<foreground, pc>> BY Zenon, <1>1 DEF RefreshInv
<1>2. CASE \E c, s : Answer(c, s) BY Zenon, <1>2, AnswerWaits
<1>3. CASE \E c : Track(c) BY Zenon, <1>1, <1>3 DEF Track, loopVars
<1>4. CASE \E c \in calls : Refuse(c) \/ HandleCas(c) \/ HandleGet(c) \/ ResolveCas(c) \/ ResolveGet(c)
    <2>1. PICK c \in calls : Refuse(c) \/ HandleCas(c) \/ HandleGet(c) \/ ResolveCas(c) \/ ResolveGet(c) BY Zenon, <1>4
    <2>2. CASE Refuse(c) BY Zenon, <1>2, <2>2 DEF Refuse
    <2>3. CASE HandleCas(c) BY Zenon, <1>2, <1>3, <2>3 DEF HandleCas
    <2>4. CASE HandleGet(c) BY Zenon, <1>2, <1>3, <2>4 DEF HandleGet
    <2>5. CASE ResolveCas(c) BY Zenon, <1>2, <2>5 DEF ResolveCas
    <2>6. CASE ResolveGet(c) BY Zenon, <1>2, <2>6 DEF ResolveGet
    <2> QED BY Zenon, <2>1, <2>2, <2>3, <2>4, <2>5, <2>6
<1>5. CASE foreground' = NONE BY Zenon, <1>5 DEF RefreshInv
<1>6. CASE ResolveRoute
    <2>1. pc' = "resolve" \/ (UNCHANGED foreground /\ pc = "init") BY Zenon, <1>6 DEF ResolveRoute
    <2>2. pc = "init" => foreground = NONE BY Zenon DEF RefreshInv
    <2> QED BY Zenon, <2>1, <2>2 DEF RefreshInv
<1>7. CASE Send \/ LookupRoute
    <2>1. UNCHANGED foreground /\ pc \in {"loop", "lookup"} BY Zenon, <1>7 DEF Send, LookupRoute
    <2>2. foreground = NONE BY Zenon, <2>1 DEF RefreshInv
    <2> QED BY Zenon, <1>5, <2>1, <2>2
<1>8. CASE RpcFails BY Zenon, <1>8, ReturnedWaits DEF RpcFails
<1>9. CASE RequestStep BY Zenon, <1>5, <1>6, <1>7, <1>8, <1>9 DEF RequestStep, Refreshed, RefreshFails
<1>10. CASE MetaAnswersForeground
    <2>1. foreground # NONE /\ pc' = pc BY Zenon, <1>10, NoneAssumption DEF MetaAnswersForeground, loopVars
    <2> QED BY Zenon, <2>1 DEF RefreshInv
<1>11. CASE \/ \E n \in Node : Elect(n) \/ Replicate(n) \/ Apply(n)
            \/ Commit \/ Expire \/ MetaLearns \/ MetaAnswersBackground \/ BackgroundStep \/ UNCHANGED vars
    BY Zenon, <1>1, <1>11 DEF Elect, Replicate, Apply, Commit, Expire, MetaLearns, MetaAnswersBackground,
        BackgroundStep, BackgroundAsks, BackgroundRefreshed, BackgroundFails, vars, loopVars
<1> QED BY Zenon, <1>4, <1>9, <1>10, <1>11 DEF Next

-----------------------------------------------------------------------------
(* The theorems.                                                           *)

\* The invariant holds in every reachable state.
THEOREM VerdictInvariance == Spec => [](VerdictInv /\ RefreshInv)
<1>1. Init => VerdictInv /\ RefreshInv BY Zenon DEF Init, VerdictInv, RefreshInv, Final
<1>2. VerdictInv /\ RefreshInv /\ [Next]_vars => (VerdictInv /\ RefreshInv)' BY Zenon, VerdictStep, RefreshStep
<1> QED BY <1>1, <1>2, PTL DEF Spec

\* KVClient::cas: when the SDK returns OK the write has taken effect, whichever
\* attempt the answer came from and however often the leader changed.
THEOREM OkIsTrue == Spec => []OkIsApplied
<1>1. VerdictInv => OkIsApplied
    BY Zenon, NoneAssumption DEF VerdictInv, OkIsApplied, Verdict, Told, Final
<1> QED BY <1>1, VerdictInvariance, PTL

\* finalize_status: CONDITION_NOT_MET is returned although earlier attempts were
\* uncertain, and none of them has taken or will take effect.
THEOREM RefusalIsTrue == Spec => []RefusalIsFinal
<1>1. VerdictInv => RefusalIsFinal
    BY Zenon, NoneAssumption DEF VerdictInv, RefusalIsFinal, Verdict, Told, Final
<1> QED BY <1>1, VerdictInvariance, PTL
=============================================================================
