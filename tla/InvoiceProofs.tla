---------------------------- MODULE InvoiceProofs ----------------------------
(* Theorems about one invoice: its status and who approved it, and the chain *)
(* of its approvals, which nobody can bring to a stop.                       *)
EXTENDS InvoiceWorkflow, ApprovalChain, FiniteSetTheorems, TLAPS

-----------------------------------------------------------------------------
(* The status machine.                                                       *)

\* The statuses, and the moves that the arguments rely on.
LEMMA Statuses ==
    /\ InvoiceStatus = {"new", "pending", "ready_for_review", "approved", "rejected",
                        "sending_to_erp", "sent_to_erp", "posted_in_erp", "payment_scheduled",
                        "paid", "done", "failed"}
    /\ \A s \in InvoiceStatus : VALID_TRANSITIONS[s] \subseteq InvoiceStatus
    /\ \A s \in InvoiceStatus : Legal(s, "paid") => s = "payment_scheduled"
    /\ \A s \in InvoiceStatus : Legal(s, "posted_in_erp") => s = "sent_to_erp"
    /\ "failed" \in VALID_TRANSITIONS["sending_to_erp"]
BY DEF InvoiceStatus, VALID_TRANSITIONS, Legal

-----------------------------------------------------------------------------
(* The life of an invoice.                                                   *)

\* The queue of a new invoice, and a job that changes, is of its kind.
LEMMA JobKinds ==
    /\ NoJob \in JobState
    /\ \A b \in BOOLEAN, j \in JobState : [j EXCEPT !.pc = "queued", !.suppress = b] \in JobState
    /\ \A j \in JobState, m \in SUBSET Outcomes : [j EXCEPT !.pc = "running", !.may = m] \in JobState
    /\ \A m \in SUBSET {"failed"} : [NoJob EXCEPT !.pc = "failing", !.may = m] \in JobState
    /\ [NoJob EXCEPT !.pc = "queued"] \in JobState
BY DEF NoJob, JobState, Outcomes

\* So is a push.
LEMMA PushKinds ==
    /\ NoPush \in PushState /\ NoPush.pc = "none"
    /\ \A b \in BOOLEAN : [NoPush EXCEPT !.pc = "queued", !.retry = b] \in PushState
    /\ \A b \in BOOLEAN : [NoPush EXCEPT !.pc = "queued", !.retry = b].pc = "queued"
    /\ [NoPush EXCEPT !.pc = "lost"] \in PushState
    /\ [NoPush EXCEPT !.pc = "lost"].pc = "lost"
<1>1. 0 \in 0 .. MAX_RETRIES
  BY WorkflowAssumption
<1>2. NoPush \in PushState
  BY <1>1 DEF NoPush, PushState
<1>3. \A b \in BOOLEAN : [NoPush EXCEPT !.pc = "queued", !.retry = b] \in PushState
  BY <1>1 DEF NoPush, PushState
<1>4. [NoPush EXCEPT !.pc = "lost"] \in PushState
  BY <1>1 DEF NoPush, PushState
<1> QED BY <1>2, <1>3, <1>4 DEF NoPush

\* A call that begins.
LEMMA PushCalls ==
    ASSUME NEW n \in 0 .. MAX_RETRIES, NEW m \in SUBSET {"sent_to_erp", "failed"}
    PROVE  /\ [NoPush EXCEPT !.pc = "calling", !.attempt = n, !.may = m] \in PushState
           /\ [NoPush EXCEPT !.pc = "calling", !.attempt = n, !.may = m].pc = "calling"
           /\ [NoPush EXCEPT !.pc = "calling", !.attempt = n, !.may = m].attempt = n
           /\ [NoPush EXCEPT !.pc = "calling", !.attempt = n, !.may = m].may = m
BY DEF NoPush, PushState

\* Its next attempt.
LEMMA PushCallsAgain ==
    ASSUME NEW n \in 0 .. MAX_RETRIES, NEW p \in PushState
    PROVE  /\ [p EXCEPT !.attempt = n] \in PushState
           /\ [p EXCEPT !.attempt = n].pc = p.pc
           /\ [p EXCEPT !.attempt = n].attempt = n
           /\ [p EXCEPT !.attempt = n].may = p.may
BY DEF PushState

\* An invoice is uploaded.
LEMMA WorkflowStarts == WorkflowInit => WorkflowInv
<1> SUFFICES ASSUME WorkflowInit PROVE WorkflowInv
  OBVIOUS
<1>1. jobs \in [Jobs -> JobState]
  BY JobKinds DEF WorkflowInit
<1>2. \A p \in Pushes : pushes[p] = NoPush
  BY DEF WorkflowInit
<1>3. pushes \in [Pushes -> PushState]
  BY <1>2, PushKinds DEF WorkflowInit
<1>4. status \in {"pending", "new"}
  BY DEF WorkflowInit
<1>5. WorkflowTypeOK
  <2>1. status \in InvoiceStatus
    BY <1>4, Statuses
  <2>2. approvedBy = "nobody" /\ snapshot \in Configurations /\ unlocked = "none"
    BY DEF WorkflowInit
  <2>3. erpRetries \in 0 .. MAX_RETRIES
    BY WorkflowAssumption DEF WorkflowInit
  <2>4. reaping \in BOOLEAN
    BY Zenon DEF WorkflowInit
  <2> QED BY <1>1, <1>3, <2>1, <2>2, <2>3, <2>4 DEF WorkflowTypeOK
<1>6. AttemptsLeft
  BY <1>2, PushKinds DEF AttemptsLeft
<1> QED BY <1>4, <1>5, <1>6
        DEF WorkflowInv, WorkflowInit, PayableIsAttributed, NeverBetween, SendingIsOwed, PushMayFail

\* A step that leaves the pushes alone and begins no sending.
LEMMA InvoiceMoves ==
    ASSUME WorkflowInv, UNCHANGED <<pushes, snapshot, erpRetries>>,
           status' \in InvoiceStatus \ {"sent_to_erp", "posted_in_erp"},
           status' = "sending_to_erp" => status = "sending_to_erp",
           approvedBy' \in {"nobody", "person", "system"},
           status' \in {"approved", "payment_scheduled", "paid"} => approvedBy' # "nobody",
           jobs' \in [Jobs -> JobState],
           unlocked' \in UnlockedRequests \union {"none"},
           reaping' \in BOOLEAN
    PROVE  WorkflowInv'
<1>1. WorkflowTypeOK'
  BY DEF WorkflowInv, WorkflowTypeOK
<1>2. PayableIsAttributed' /\ NeverBetween'
  BY DEF PayableIsAttributed, NeverBetween
<1>3. AttemptsLeft'
  BY DEF WorkflowInv, AttemptsLeft
<1>4. OnePush => SendingIsOwed' /\ PushMayFail'
  BY DEF WorkflowInv, SendingIsOwed, PushMayFail
<1> QED BY <1>1, <1>2, <1>3, <1>4 DEF WorkflowInv

\* Extraction and the reaper.
LEMMA ExtractionSteps ==
    ASSUME WorkflowInv,
           \/ TriggerExtraction \/ ResetExtraction \/ ReaperScan \/ Reap
           \/ \E j \in Jobs : \/ StartExtraction(j) \/ FinishExtraction(j)
                              \/ FailExtraction(j) \/ RecordFailure(j)
    PROVE  WorkflowInv'
<1> USE DEF progressVars
<1>0. /\ status \in InvoiceStatus /\ approvedBy \in {"nobody", "person", "system"}
      /\ jobs \in [Jobs -> JobState] /\ unlocked \in UnlockedRequests \union {"none"}
      /\ reaping \in BOOLEAN /\ PayableIsAttributed /\ NeverBetween
  BY DEF WorkflowInv, WorkflowTypeOK
<1>1. CASE TriggerExtraction
  <2>1. jobs' \in [Jobs -> JobState]
    <3>1. PICK j \in Jobs :
            jobs' = [jobs EXCEPT ![j] = [jobs[j] EXCEPT !.pc = "queued", !.suppress = FALSE]]
      BY <1>1 DEF TriggerExtraction, NewJob
    <3>2. [jobs[j] EXCEPT !.pc = "queued", !.suppress = FALSE] \in JobState
      BY <1>0, JobKinds
    <3> QED BY <1>0, <3>1, <3>2
  <2> QED BY <1>0, <1>1, <2>1, Statuses, InvoiceMoves DEF TriggerExtraction
<1>2. CASE ResetExtraction
  BY <1>0, <1>2, Statuses, InvoiceMoves DEF ResetExtraction
<1>3. CASE ReaperScan
  BY <1>0, <1>3, Statuses, InvoiceMoves DEF ReaperScan, PayableIsAttributed, NeverBetween
<1>4. CASE Reap
  BY <1>0, <1>4, Statuses, InvoiceMoves DEF Reap, PayableIsAttributed, NeverBetween
<1>5. ASSUME NEW j \in Jobs, StartExtraction(j) PROVE WorkflowInv'
  <2>1. Allows(Outcomes) \in SUBSET Outcomes
    BY DEF Allows
  <2>2. jobs' \in [Jobs -> JobState]
    BY <1>0, <1>5, <2>1, JobKinds DEF StartExtraction
  <2> QED BY <1>0, <1>5, <2>2, InvoiceMoves DEF StartExtraction, PayableIsAttributed, NeverBetween
<1>6. ASSUME NEW j \in Jobs, FinishExtraction(j) PROVE WorkflowInv'
  <2>1. jobs' \in [Jobs -> JobState]
    BY <1>0, <1>6, JobKinds DEF FinishExtraction
  <2> QED BY <1>0, <1>6, <2>1, Statuses, InvoiceMoves DEF FinishExtraction
<1>7. ASSUME NEW j \in Jobs, FailExtraction(j) PROVE WorkflowInv'
  <2>1. Allows({"failed"}) \in SUBSET {"failed"}
    BY DEF Allows
  <2>2. jobs' \in [Jobs -> JobState]
    BY <1>0, <1>7, <2>1, JobKinds DEF FailExtraction
  <2> QED BY <1>0, <1>7, <2>2, InvoiceMoves DEF FailExtraction, PayableIsAttributed, NeverBetween
<1>8. ASSUME NEW j \in Jobs, RecordFailure(j) PROVE WorkflowInv'
  <2>1. jobs' \in [Jobs -> JobState]
    BY <1>0, <1>8, JobKinds DEF RecordFailure
  <2> QED BY <1>0, <1>8, <2>1, Statuses, InvoiceMoves DEF RecordFailure, PayableIsAttributed, NeverBetween
<1> QED BY <1>1, <1>2, <1>3, <1>4, <1>5, <1>6, <1>7, <1>8

\* People, the bulk and portal requests, the ERP's webhook and the payments.
LEMMA ReviewSteps ==
    ASSUME WorkflowInv,
           \/ ApproveInvoice \/ RejectInvoice \/ ResubmitInvoice
           \/ \E t \in UnlockedRequests : OpenUnlocked(t)
           \/ BulkApprove \/ BulkMove \/ PortalResubmit
           \/ CompleteNew \/ CompleteToDone
           \/ \E t \in {"posted_in_erp", "paid", "failed"} : ErpWebhook(t)
           \/ PaymentMoves
    PROVE  WorkflowInv'
<1> USE DEF progressVars
<1>0. /\ status \in InvoiceStatus /\ approvedBy \in {"nobody", "person", "system"}
      /\ jobs \in [Jobs -> JobState] /\ unlocked \in UnlockedRequests \union {"none"}
      /\ reaping \in BOOLEAN /\ PayableIsAttributed /\ NeverBetween
  BY DEF WorkflowInv, WorkflowTypeOK
<1>1. CASE ApproveInvoice \/ RejectInvoice \/ ResubmitInvoice
  BY <1>0, <1>1, Statuses, InvoiceMoves DEF ApproveInvoice, RejectInvoice, ResubmitInvoice
<1>2. ASSUME NEW t \in UnlockedRequests, OpenUnlocked(t) PROVE WorkflowInv'
  BY <1>0, <1>2, InvoiceMoves DEF OpenUnlocked, PayableIsAttributed, NeverBetween
<1>3. CASE BulkApprove
  BY <1>0, <1>3, Statuses, InvoiceMoves DEF BulkApprove, CloseUnlocked, PayableIsAttributed, NeverBetween
<1>4. CASE BulkMove
  BY <1>0, <1>4, Statuses, InvoiceMoves DEF BulkMove, CloseUnlocked, BULK_STATUS_TARGETS
<1>5. CASE PortalResubmit
  <2>1. jobs' \in [Jobs -> JobState]
    BY <1>0, <1>5, JobKinds DEF PortalResubmit, NewJob
  <2> QED BY <1>0, <1>5, <2>1, Statuses, InvoiceMoves DEF PortalResubmit, CloseUnlocked
<1>6. CASE CompleteNew \/ CompleteToDone
  BY <1>0, <1>6, Statuses, InvoiceMoves DEF CompleteNew, CompleteToDone
<1>7. ASSUME NEW t \in {"posted_in_erp", "paid", "failed"}, ErpWebhook(t) PROVE WorkflowInv'
  BY <1>0, <1>7, Statuses, InvoiceMoves DEF ErpWebhook, PayableIsAttributed, NeverBetween
<1>8. CASE PaymentMoves
  BY <1>0, <1>8, Statuses, InvoiceMoves DEF PaymentMoves, PayableIsAttributed, NeverBetween
<1> QED BY <1>1, <1>2, <1>3, <1>4, <1>5, <1>6, <1>7, <1>8

\* A push is queued: it is the only one where there is one, and has not begun.
LEMMA PushBegins ==
    ASSUME WorkflowInv, NEW again \in BOOLEAN, NewPush(again), status' = "sending_to_erp",
           UNCHANGED <<approvedBy, snapshot, erpRetries, jobs, unlocked, reaping>>
    PROVE  WorkflowInv'
<1>1. PICK p \in Pushes :
        pushes' = [pushes EXCEPT ![p] = [NoPush EXCEPT !.pc = "queued", !.retry = again]]
  BY DEF NewPush
<1>2. pushes \in [Pushes -> PushState]
  BY DEF WorkflowInv, WorkflowTypeOK
<1>3. pushes' \in [Pushes -> PushState] /\ pushes'[p].pc = "queued"
  BY <1>1, <1>2, PushKinds
<1>4. WorkflowTypeOK'
  BY <1>3, Statuses DEF WorkflowInv, WorkflowTypeOK
<1>5. AttemptsLeft'
  BY <1>1, <1>2, <1>3 DEF WorkflowInv, AttemptsLeft
<1>6. OnePush => SendingIsOwed' /\ PushMayFail'
  BY <1>3 DEF OnePush, SendingIsOwed, PushMayFail
<1> QED BY <1>4, <1>5, <1>6 DEF WorkflowInv, PayableIsAttributed, NeverBetween

\* The task of a push.
LEMMA PushSteps ==
    ASSUME WorkflowInv, NEW p \in Pushes,
           StartPush(p) \/ PushSucceeds(p) \/ PushRetries(p) \/ PushGivesUp(p)
    PROVE  WorkflowInv'
<1> USE DEF progressVars
<1>0. /\ status \in InvoiceStatus /\ erpRetries \in 0 .. MAX_RETRIES
      /\ pushes \in [Pushes -> PushState] /\ PayableIsAttributed /\ NeverBetween /\ AttemptsLeft
      /\ MAX_RETRIES \in Nat \ {0}
  BY WorkflowAssumption DEF WorkflowInv, WorkflowTypeOK
<1>1. pushes[p].attempt \in 0 .. MAX_RETRIES
  BY <1>0 DEF PushState
<1>2. CASE StartPush(p) /\ erpRetries < MAX_RETRIES
  <2> DEFINE m == Allows({"sent_to_erp", "failed"})
             q == [NoPush EXCEPT !.pc = "calling", !.attempt = erpRetries, !.may = m]
  <2>1. m \in SUBSET {"sent_to_erp", "failed"} /\ (status = "sending_to_erp" => "failed" \in m)
    BY Statuses DEF Allows
  <2>2. pushes' = [pushes EXCEPT ![p] = q]
    BY <1>2 DEF StartPush
  <2> HIDE DEF m
  <2>3. q \in PushState /\ q.pc = "calling" /\ q.attempt = erpRetries /\ q.may = m
    BY <1>0, <2>1, PushCalls
  <2> HIDE DEF q
  <2>4. WorkflowTypeOK'
    BY <1>0, <1>2, <2>2, <2>3 DEF StartPush, WorkflowInv, WorkflowTypeOK
  <2>5. AttemptsLeft'
    BY <1>0, <1>2, <2>2, <2>3 DEF StartPush, AttemptsLeft
  <2>6. OnePush => SendingIsOwed' /\ PushMayFail'
    BY <1>0, <1>2, <2>1, <2>2, <2>3 DEF StartPush, OnePush, SendingIsOwed, PushMayFail
  <2> QED BY <1>2, <2>4, <2>5, <2>6 DEF StartPush, WorkflowInv, PayableIsAttributed, NeverBetween
<1>3. CASE StartPush(p) /\ ~(erpRetries < MAX_RETRIES)
  <2>1. pushes' = [pushes EXCEPT ![p] = NoPush] /\ erpRetries = MAX_RETRIES
    BY <1>0, <1>3 DEF StartPush
  <2>2. pushes' \in [Pushes -> PushState] /\ \A q \in Pushes : pushes'[q].pc = "calling" => pushes'[q] = pushes[q]
    BY <1>0, <2>1, PushKinds
  <2>3. WorkflowTypeOK'
    BY <1>0, <1>3, <2>2 DEF StartPush, WorkflowInv, WorkflowTypeOK
  <2>4. AttemptsLeft'
    BY <1>0, <2>2 DEF AttemptsLeft
  <2>5. OnePush => SendingIsOwed' /\ PushMayFail'
    BY <1>3, <2>1, <2>2 DEF StartPush, WorkflowInv, SendingIsOwed, PushMayFail
  <2> QED BY <1>3, <2>3, <2>4, <2>5 DEF StartPush, WorkflowInv, PayableIsAttributed, NeverBetween
<1>4. CASE PushSucceeds(p) \/ PushGivesUp(p)
  <2>1. pushes' = [pushes EXCEPT ![p] = NoPush] /\ pushes[p].pc = "calling"
    BY <1>4 DEF PushSucceeds, PushGivesUp
  <2>2. pushes' \in [Pushes -> PushState] /\ \A q \in Pushes : pushes'[q].pc = "calling" => pushes'[q] = pushes[q]
    BY <1>0, <2>1, PushKinds
  <2>3. status' \in InvoiceStatus /\ erpRetries' \in 0 .. MAX_RETRIES
    BY <1>0, <1>1, <1>4, <2>1, Statuses DEF PushSucceeds, PushGivesUp, AttemptsLeft
  <2>4. WorkflowTypeOK'
    BY <1>4, <2>2, <2>3 DEF PushSucceeds, PushGivesUp, WorkflowInv, WorkflowTypeOK
  <2>5. AttemptsLeft'
    BY <1>0, <2>2 DEF AttemptsLeft
  <2>6. /\ \/ status' \in {"done", "failed"}
           \/ UNCHANGED status /\ "failed" \notin pushes[p].may
        /\ UNCHANGED approvedBy
    BY <1>4 DEF PushSucceeds, PushGivesUp
  <2>7. OnePush => SendingIsOwed' /\ PushMayFail'
    BY <2>1, <2>6 DEF WorkflowInv, SendingIsOwed, PushMayFail
  <2> QED BY <1>0, <2>4, <2>5, <2>6, <2>7 DEF WorkflowInv, PayableIsAttributed, NeverBetween
<1>5. CASE PushRetries(p)
  <2> DEFINE n == pushes[p].attempt + 1
             q == [pushes[p] EXCEPT !.attempt = n]
  <2>1. n \in 0 .. MAX_RETRIES /\ n < MAX_RETRIES /\ pushes[p].pc = "calling" /\ erpRetries' = n
    BY <1>0, <1>1, <1>5 DEF PushRetries
  <2>2. pushes' = [pushes EXCEPT ![p] = q]
    BY <1>5 DEF PushRetries
  <2> HIDE DEF n
  <2>3. q \in PushState /\ q.pc = "calling" /\ q.attempt = n /\ q.may = pushes[p].may
    BY <1>0, <2>1, PushCallsAgain
  <2> HIDE DEF q
  <2>4. WorkflowTypeOK'
    BY <1>0, <1>5, <2>1, <2>2, <2>3 DEF PushRetries, WorkflowInv, WorkflowTypeOK
  <2>5. AttemptsLeft'
    BY <1>0, <2>1, <2>2, <2>3 DEF AttemptsLeft
  <2>6. OnePush => SendingIsOwed' /\ PushMayFail'
    BY <1>0, <1>5, <2>2, <2>3 DEF PushRetries, WorkflowInv, SendingIsOwed, PushMayFail
  <2> QED BY <1>5, <2>4, <2>5, <2>6 DEF PushRetries, WorkflowInv, PayableIsAttributed, NeverBetween
<1> QED BY <1>2, <1>3, <1>4, <1>5

\* The process dies: the pushes it ran are lost.
LEMMA WorkflowCrashes == ASSUME WorkflowInv, WorkflowCrash PROVE WorkflowInv'
<1> USE DEF progressVars
<1>1. /\ pushes \in [Pushes -> PushState]
      /\ UNCHANGED <<status, approvedBy, snapshot, erpRetries>>
  BY DEF WorkflowInv, WorkflowTypeOK, WorkflowCrash
<1>2. /\ jobs' \in [Jobs -> JobState] /\ pushes' \in [Pushes -> PushState]
      /\ unlocked' = "none" /\ reaping' = FALSE
  BY <1>1, JobKinds, PushKinds DEF WorkflowCrash
<1>3. \A p \in Pushes : pushes'[p].pc # "calling" /\ (pushes[p].pc # "none" => pushes'[p].pc # "none")
  BY <1>1, PushKinds DEF WorkflowCrash, Resting
<1>4. WorkflowTypeOK'
  BY <1>1, <1>2 DEF WorkflowInv, WorkflowTypeOK
<1> QED BY <1>1, <1>3, <1>4
        DEF WorkflowInv, PayableIsAttributed, NeverBetween, AttemptsLeft, SendingIsOwed, PushMayFail

\* Every step keeps the invariant.
LEMMA WorkflowSteps == WorkflowInv /\ [WorkflowNext]_lifecycleVars => WorkflowInv'
<1> SUFFICES ASSUME WorkflowInv, [WorkflowNext]_lifecycleVars PROVE WorkflowInv'
  OBVIOUS
<1>1. CASE CompleteToErp \/ SendToErp \/ RetryErp
  BY <1>1, PushBegins DEF CompleteToErp, SendToErp, RetryErp
<1>2. CASE UNCHANGED lifecycleVars
  BY <1>2 DEF lifecycleVars, progressVars, WorkflowInv, WorkflowTypeOK, PayableIsAttributed, NeverBetween,
              AttemptsLeft, SendingIsOwed, PushMayFail
<1> QED BY <1>1, <1>2, ExtractionSteps, ReviewSteps, PushSteps, WorkflowCrashes DEF WorkflowNext

\* For any configurations, any jobs and pushes, and any number of attempts.
LEMMA WorkflowInvariance == WorkflowSpec => []WorkflowInv
BY WorkflowStarts, WorkflowSteps, PTL DEF WorkflowSpec

\* Whichever door an approval comes through, and whatever overwrites it, an invoice
\* that may be paid names its approver.
THEOREM PayersAreComparable == WorkflowSpec => []PayableIsAttributed
<1>1. WorkflowInv => PayableIsAttributed
  BY DEF WorkflowInv
<1> QED BY WorkflowInvariance, <1>1, PTL

\* Where pushes come one at a time, no error path leaves an invoice in
\* sending_to_erp with attempts left and nobody to make them.
THEOREM SendersAreOwed == ASSUME OnePush PROVE WorkflowSpec => []SendingIsOwed
<1>1. WorkflowInv => SendingIsOwed
  BY DEF WorkflowInv
<1> QED BY WorkflowInvariance, <1>1, PTL

\* The reaper's second look is under the lock, so no result is reaped.
THEOREM ReaperSpares == WorkflowSpec => ReaperSparesResults
<1>1. [WorkflowNext]_lifecycleVars =>
        [reaping /\ ~reaping' /\ status' # status => status = "pending"]_lifecycleVars
  <2> SUFFICES ASSUME WorkflowNext, reaping, ~reaping', status' # status PROVE status = "pending"
    OBVIOUS
  <2> QED BY Zenon
      DEF WorkflowNext, TriggerExtraction, ResetExtraction, ReaperScan, Reap, StartExtraction,
          FinishExtraction, FailExtraction, RecordFailure, ApproveInvoice, RejectInvoice, ResubmitInvoice,
          OpenUnlocked, BulkApprove, BulkMove, PortalResubmit, CloseUnlocked, CompleteNew, CompleteToErp,
          CompleteToDone, SendToErp, RetryErp, StartPush, PushSucceeds, PushRetries, PushGivesUp, ErpWebhook,
          PaymentMoves, WorkflowCrash, progressVars
<1> QED BY <1>1, PTL DEF WorkflowSpec, ReaperSparesResults

-----------------------------------------------------------------------------
(* The chain of approvals.                                                   *)

\* A chain that starts, and one that is cleared, is sound.
LEMMA FreshChains ==
    /\ FreshChain \in Chains /\ NoChain \in Chains
    /\ Sound(FreshChain) /\ Sound(NoChain)
    /\ \A c \in Chains : Sound(c) => Started(c) \in Chains /\ Sound(Started(c))
<1>1. 1 \in 1 .. NLevels + 1 /\ 1 \in ChainLevels /\ \A l \in ChainLevels : l >= 1
  BY ChainAssumption DEF ChainLevels
<1>2. FreshChain \in Chains
  BY <1>1, ChainAssumption DEF FreshChain, Chains
<1>3. NoChain \in Chains
  BY <1>1, ChainAssumption DEF FreshChain, NoChain, Chains
<1>4. /\ FreshChain.current = 1 /\ FreshChain.approvals = [l \in ChainLevels |-> {}]
      /\ NoChain.current = 1 /\ NoChain.approvals = [l \in ChainLevels |-> {}]
  BY DEF FreshChain, NoChain
<1>5. Sound(FreshChain) /\ Sound(NoChain)
  BY <1>1, <1>4 DEF Sound, ChainLevels
<1> QED BY <1>2, <1>3, <1>5 DEF Started

\* An approval that is admitted leaves a sound chain sound.
LEMMA AdvancedSound ==
    ASSUME NEW c \in Chains, Sound(c), NEW u \in Users, Admits(c, u)
    PROVE  Advanced(c, u) \in Chains /\ Sound(Advanced(c, u))
<1>1. CASE Finished(c)
  BY <1>1 DEF Advanced
<1>2. CASE ~Finished(c)
  <2> DEFINE here == c.current
             rec  == Recorded(c, u)
             next == IF LevelSatisfied(rec, here) THEN here + 1 ELSE here
             adv  == [rec EXCEPT !.current = next]
  <2>1. here \in ChainLevels /\ here \in Nat /\ here + 1 \in 1 .. NLevels + 1
    BY <1>2, ChainAssumption DEF Chains, Finished, ChainLevels
  <2>2. /\ rec \in Chains /\ rec.current = here /\ rec.approvers = c.approvers
        /\ rec.approvals = [c.approvals EXCEPT ![here] = @ \union {u}]
    BY <2>1 DEF Recorded, Chains
  <2>3. Advanced(c, u) = adv
    BY <1>2, <2>2 DEF Advanced
  <2> HIDE DEF rec
  <2>4. next \in 1 .. NLevels + 1
    BY <2>1, ChainAssumption DEF Chains
  <2> HIDE DEF next
  <2>5. /\ adv \in Chains /\ adv.current = next /\ adv.approvers = rec.approvers
        /\ adv.approvals = rec.approvals
    BY <2>2, <2>4 DEF Chains
  <2> HIDE DEF adv
  <2>6. \A l \in ChainLevels : LevelSatisfied(adv, l) <=> LevelSatisfied(rec, l)
    BY <2>5 DEF LevelSatisfied
  <2>7. \A l \in ChainLevels : l # here => adv.approvals[l] = c.approvals[l]
    BY <2>2, <2>5 DEF Chains
  <2>8. \A l \in ChainLevels : l < next => LevelSatisfied(adv, l)
    <3> SUFFICES ASSUME NEW l \in ChainLevels, l < next PROVE LevelSatisfied(adv, l)
      OBVIOUS
    <3>1. CASE l = here
      BY <2>1, <2>6, <3>1 DEF next, ChainLevels
    <3>2. CASE l # here
      <4>1. l < here
        BY <2>1, <3>2 DEF next, ChainLevels
      <4>2. LevelSatisfied(c, l)
        BY <4>1 DEF Sound
      <4> QED BY <2>2, <2>5, <2>7, <3>2, <4>2 DEF LevelSatisfied
    <3> QED BY <3>1, <3>2
  <2>9. \A l \in ChainLevels : l > next => adv.approvals[l] = {}
    <3>1. \A l \in ChainLevels : l > next => l # here /\ l > here
      BY <2>1 DEF next, ChainLevels
    <3> QED BY <2>7, <3>1 DEF Sound
  <2>10. \A k, l \in ChainLevels : k # l => adv.approvals[k] \intersect adv.approvals[l] = {}
    <3>1. \A l \in ChainLevels : l # here => u \notin c.approvals[l]
      BY <1>2 DEF Admits, ActedElsewhere
    <3>2. adv.approvals[here] = c.approvals[here] \union {u}
      BY <2>1, <2>2, <2>5 DEF Chains
    <3> QED BY <2>7, <3>1, <3>2 DEF Sound
  <2> QED BY <2>3, <2>5, <2>8, <2>9, <2>10 DEF Sound
<1> QED BY <1>1, <1>2

\* So does an escalation, which changes nobody's approval.
LEMMA EscalatedSound ==
    ASSUME NEW c \in Chains, Sound(c), Escalatable(c)
    PROVE  /\ Escalated(c) \in Chains /\ Sound(Escalated(c))
           /\ Escalated(c).approvals = c.approvals /\ Escalated(c).on = c.on
<1> DEFINE here == c.current
           new == Escalated(c)
<1>1. here \in ChainLevels /\ here \in Nat
  BY ChainAssumption DEF Chains, Escalatable, Finished, ChainLevels
<1>2. /\ new \in Chains /\ new.current = here /\ new.approvals = c.approvals /\ new.on = c.on
      /\ \A l \in ChainLevels : l # here => new.approvers[l] = c.approvers[l]
  <2>1. NewTargets(c) \subseteq Users /\ c.approvers[here] \subseteq Users
    BY <1>1, ChainAssumption DEF NewTargets, Chains
  <2> QED BY <1>1, <2>1 DEF Escalated, Chains
<1> HIDE DEF new
<1>3. \A l \in ChainLevels : l < here => LevelSatisfied(new, l)
  <2> SUFFICES ASSUME NEW l \in ChainLevels, l < here PROVE LevelSatisfied(new, l)
    OBVIOUS
  <2>1. l # here
    BY <1>1 DEF ChainLevels
  <2> QED BY <1>2, <2>1 DEF Sound, LevelSatisfied
<1>4. Sound(new)
  BY <1>2, <1>3 DEF Sound
<1> QED BY <1>2, <1>4 DEF new

\* An approval adds to the approvals, and to nothing else of the kind.
LEMMA AdvancedAdds ==
    ASSUME NEW c \in Chains, NEW u \in Users
    PROVE  /\ Advanced(c, u).on = c.on
           /\ \A l \in ChainLevels : c.approvals[l] \subseteq Advanced(c, u).approvals[l]
<1>1. CASE Finished(c)
  BY <1>1 DEF Advanced
<1>2. CASE ~Finished(c)
  <2>1. /\ Recorded(c, u).on = c.on
        /\ Recorded(c, u).approvals = [c.approvals EXCEPT ![c.current] = @ \union {u}]
        /\ Recorded(c, u) = [c EXCEPT !.approvals = [c.approvals EXCEPT ![c.current] = @ \union {u}]]
    BY DEF Recorded, Chains
  <2>2. /\ Advanced(c, u).on = Recorded(c, u).on
        /\ Advanced(c, u).approvals = Recorded(c, u).approvals
    BY <1>2, <2>1 DEF Advanced, Chains
  <2> QED BY <2>1, <2>2 DEF Chains
<1> QED BY <1>1, <1>2

\* The kinds of requests are told apart by what they ask for.
LEMMA RequestKinds ==
    /\ Idle \notin Approvals /\ BulkRejection \notin Approvals /\ BulkRejection # Idle
    /\ \A q \in Approvals \union {Idle, BulkRejection} : q.verdict = "approve" <=> q \in Approvals
    /\ \A q \in Approvals : q.locked \in BOOLEAN /\ q.chain \in Chains /\ q.user \in Users
<1>1. \A q \in Approvals : /\ q.verdict = "approve" /\ q.locked \in BOOLEAN
                           /\ q.chain \in Chains /\ q.user \in Users
  BY DEF Approvals
<1>2. Idle.verdict = "none" /\ BulkRejection.verdict = "reject"
  BY DEF Idle, BulkRejection
<1>3. Idle \notin Approvals /\ BulkRejection \notin Approvals /\ BulkRejection # Idle
  BY <1>1, <1>2
<1> QED BY <1>1, <1>2, <1>3

\* What an approval would leave is sound, and so is the chain it starts.
LEMMA OutcomesSound ==
    ASSUME ChainInv, NEW r \in Requests, Approving(r)
    PROVE  /\ requests[r] \in Approvals
           /\ Base(r) \in Chains /\ Sound(Base(r))
           /\ Admitted(r) => Outcome(r) \in Chains /\ Sound(Outcome(r))
<1>1. requests[r] \in Approvals /\ Sound(requests[r].chain)
  BY RequestKinds DEF ChainInv, ChainTypeOK, CopiesSound, Approving
<1>2. Base(r) \in Chains /\ Sound(Base(r))
  BY <1>1, FreshChains, RequestKinds DEF Base
<1>3. Admitted(r) => Outcome(r) \in Chains /\ Sound(Outcome(r))
  BY <1>1, <1>2, AdvancedSound, RequestKinds DEF Admitted, Outcome
<1> QED BY <1>1, <1>2, <1>3

\* An invoice is sent into review.
LEMMA ChainStarts == ChainInit => ChainInv
<1> SUFFICES ASSUME ChainInit PROVE ChainInv
  OBVIOUS
<1>1. \A r \in Requests : requests[r] = Idle
  BY DEF ChainInit
<1>2. ChainTypeOK /\ Sound(chain)
  BY FreshChains DEF ChainInit, ChainTypeOK, ReviewStatus
<1>3. CopiesSound /\ OneSession /\ SessionIsCurrent
  BY <1>1, RequestKinds DEF CopiesSound, OneSession, SessionIsCurrent, Open, Requests
<1> QED BY <1>2, <1>3 DEF ChainInv

\* A request ends: a batch has overtaken the session there may be, a session was
\* the only one.
LEMMA ChainCloses ==
    ASSUME ChainInv, NEW r \in Requests, Open(r), Closes(r),
           chain' \in Chains, Sound(chain)', review' \in ReviewStatus
    PROVE  ChainInv'
<1>1. requests \in [Requests -> Approvals \union {Idle, BulkRejection}] /\ overtaken \subseteq Sessions
  BY DEF ChainInv, ChainTypeOK
<1>2. requests' = [requests EXCEPT ![r] = Idle]
  BY DEF Closes
<1>3. ChainTypeOK'
  <2>1. requests' \in [Requests -> Approvals \union {Idle, BulkRejection}]
    BY <1>1, <1>2
  <2>2. overtaken' \subseteq Sessions
    BY <1>1 DEF Closes
  <2> QED BY <2>1, <2>2 DEF ChainTypeOK
<1>4. CopiesSound'
  BY <1>1, <1>2, RequestKinds DEF ChainInv, CopiesSound
<1>5. OneSession'
  BY <1>1, <1>2 DEF ChainInv, OneSession, Open, Requests
<1>6. SessionIsCurrent'
  <2> SUFFICES ASSUME NEW s \in Sessions, Open(s)'
               PROVE  /\ requests'[s] \in Approvals /\ requests'[s].locked
                      /\ s \in overtaken'
    BY DEF SessionIsCurrent
  <2>1. s # r /\ requests'[s] = requests[s] /\ Open(s)
    BY <1>1, <1>2 DEF Open, Requests
  <2>2. r \notin Sessions
    BY <2>1 DEF ChainInv, OneSession
  <2>3. s \in overtaken'
    BY <2>1, <2>2 DEF Closes, Requests
  <2> QED BY <2>1, <2>3 DEF ChainInv, SessionIsCurrent
<1> QED BY <1>3, <1>4, <1>5, <1>6 DEF ChainInv

\* A request begins with the chain as it is; a session, when the invoice is free.
LEMMA ChainOpens ==
    ASSUME ChainInv, NEW r \in Requests, NEW q \in Approvals \union {BulkRejection}, Opens(r, q),
           r \in Sessions => InvoiceUnlocked /\ q \in Approvals /\ q.locked,
           q \in Approvals => q.chain = chain
    PROVE  ChainInv'
<1>1. requests \in [Requests -> Approvals \union {Idle, BulkRejection}]
  BY DEF ChainInv, ChainTypeOK
<1>2. requests' = [requests EXCEPT ![r] = q] /\ requests[r] = Idle /\ UNCHANGED <<review, chain, overtaken>>
  BY DEF Opens
<1>3. ChainTypeOK' /\ Sound(chain)'
  <2>1. requests' \in [Requests -> Approvals \union {Idle, BulkRejection}]
    BY <1>1, <1>2
  <2> QED BY <1>2, <2>1 DEF ChainInv, ChainTypeOK, Sound, LevelSatisfied
<1>4. CopiesSound'
  BY <1>1, <1>2 DEF ChainInv, CopiesSound, Sound, LevelSatisfied
<1>5. \A s \in Sessions : Open(s) => ~InvoiceUnlocked
  BY DEF ChainInv, SessionIsCurrent, Open, InvoiceUnlocked, HoldsInvoice, Requests
<1>6. OneSession'
  BY <1>1, <1>2, <1>5 DEF ChainInv, OneSession, Open, Requests
<1>7. SessionIsCurrent'
  <2> SUFFICES ASSUME NEW s \in Sessions, Open(s)'
               PROVE  /\ requests'[s] \in Approvals /\ requests'[s].locked
                      /\ s \notin overtaken => /\ requests'[s].chain.on = chain.on
                                              /\ requests'[s].chain.approvals = chain.approvals
    BY <1>2 DEF SessionIsCurrent
  <2>1. CASE s = r
    BY <1>1, <1>2, <2>1
  <2>2. CASE s # r
    <3>1. requests'[s] = requests[s]
      BY <1>1, <1>2, <2>2 DEF Requests
    <3> QED BY <3>1 DEF ChainInv, SessionIsCurrent, Open
  <2> QED BY <2>1, <2>2
<1> QED BY <1>3, <1>4, <1>6, <1>7 DEF ChainInv

\* A step that no request of the chain takes.
LEMMA ChainMoves ==
    ASSUME ChainInv, UNCHANGED <<requests, overtaken>>,
           chain' \in Chains, Sound(chain)', review' \in ReviewStatus,
           InvoiceUnlocked \/ (chain'.on = chain.on /\ chain'.approvals = chain.approvals)
    PROVE  ChainInv'
<1>1. ChainTypeOK' /\ OneSession'
  BY DEF ChainInv, ChainTypeOK, OneSession, Open
<1>2. CopiesSound'
  BY DEF ChainInv, CopiesSound, Sound, LevelSatisfied
<1>3. \A s \in Sessions : Open(s) => ~InvoiceUnlocked
  BY DEF ChainInv, SessionIsCurrent, Open, InvoiceUnlocked, HoldsInvoice, Requests
<1>4. SessionIsCurrent'
  BY <1>3 DEF ChainInv, SessionIsCurrent, Open
<1> QED BY <1>1, <1>2, <1>4 DEF ChainInv

\* Every step keeps the invariant.
LEMMA ChainSteps == ChainInv /\ [ChainNext]_chainVars => ChainInv'
<1> SUFFICES ASSUME ChainInv, [ChainNext]_chainVars PROVE ChainInv'
  OBVIOUS
<1>0. chain \in Chains /\ Sound(chain) /\ review \in ReviewStatus
  BY DEF ChainInv, ChainTypeOK
<1>1. ASSUME NEW u \in Users, NEW lock \in BOOLEAN PROVE ApprovalBy(u, lock) \in Approvals
  BY <1>0, <1>1 DEF ApprovalBy, Approvals, Legal
<1>2. ASSUME NEW u \in Users, NEW r \in Sessions, OpenWebApproval(r, u) \/ OpenEmailApproval(r, u)
      PROVE  ChainInv'
  <2>1. InvoiceUnlocked /\ Opens(r, ApprovalBy(u, TRUE))
    BY <1>2 DEF OpenWebApproval, OpenEmailApproval
  <2>2. ApprovalBy(u, TRUE).chain = chain /\ ApprovalBy(u, TRUE).locked
    BY DEF ApprovalBy
  <2> QED BY <1>1, <2>1, <2>2, ChainOpens DEF Requests
<1>3. ASSUME NEW u \in Users, NEW r \in Batches, OpenBulkApproval(r, u) PROVE ChainInv'
  <2>1. ApprovalBy(u, FALSE).chain = chain
    BY DEF ApprovalBy
  <2> QED BY <1>1, <1>3, <2>1, ChainAssumption, ChainOpens DEF Requests, OpenBulkApproval
<1>4. ASSUME NEW r \in Batches, OpenBulkRejection(r) PROVE ChainInv'
  BY <1>4, ChainAssumption, ChainOpens, RequestKinds DEF Requests, OpenBulkRejection
<1>5. ASSUME NEW r \in Requests, RecordApproval(r) \/ FinalApproval(r) \/ RefuseApproval(r)
      PROVE  ChainInv'
  <2>1. Approving(r) /\ Closes(r)
    BY <1>5 DEF RecordApproval, FinalApproval, RefuseApproval
  <2>2. Open(r)
    BY <2>1, OutcomesSound, RequestKinds DEF Open
  <2>3. chain' \in Chains /\ Sound(chain)'
    <3>1. chain' \in {chain, Base(r)} \/ (Admitted(r) /\ chain' = Outcome(r))
      BY <1>5 DEF RecordApproval, FinalApproval, RefuseApproval
    <3>2. chain' \in Chains /\ \E c \in Chains : c = chain' /\ Sound(c)
      BY <1>0, <2>1, <3>1, OutcomesSound
    <3> QED BY <3>2 DEF Sound, LevelSatisfied
  <2>4. review' \in ReviewStatus
    BY <1>0, <1>5 DEF RecordApproval, FinalApproval, RefuseApproval, ReviewStatus
  <2> QED BY <2>1, <2>2, <2>3, <2>4, ChainCloses
<1>6. ASSUME NEW r \in Batches, BulkReject(r) PROVE ChainInv'
  <2>1. /\ Open(r) /\ Closes(r) /\ r \in Requests /\ review' \in ReviewStatus /\ chain' = NoChain
    BY <1>6, RequestKinds DEF BulkReject, Open, Requests, ReviewStatus
  <2>2. Sound(chain)'
    BY <2>1, FreshChains DEF Sound, LevelSatisfied
  <2> QED BY <2>1, <2>2, FreshChains, ChainCloses
<1>7. CASE Reject \/ Resubmit \/ MoveElsewhere
  <2>1. /\ chain' \in {chain, NoChain} /\ InvoiceUnlocked /\ UNCHANGED <<requests, overtaken>>
        /\ review' \in ReviewStatus
    BY <1>7 DEF Reject, Resubmit, MoveElsewhere, ReviewStatus
  <2>2. Sound(chain)'
    BY <1>0, <2>1, FreshChains DEF Sound, LevelSatisfied
  <2> QED BY <1>0, <2>1, <2>2, FreshChains, ChainMoves
<1>8. CASE Escalate
  <2>1. Escalatable(chain) /\ chain' = Escalated(chain) /\ UNCHANGED <<review, requests, overtaken>>
    BY <1>8 DEF Escalate
  <2>2. chain' \in Chains /\ chain'.approvals = chain.approvals /\ chain'.on = chain.on
    BY <1>0, <2>1, EscalatedSound
  <2>3. Sound(chain)'
    BY <1>0, <2>1, EscalatedSound DEF Sound, LevelSatisfied
  <2> QED BY <1>0, <2>1, <2>2, <2>3, ChainMoves
<1>9. CASE UNCHANGED chainVars
  BY <1>9 DEF chainVars, ChainInv, ChainTypeOK, Sound, LevelSatisfied, CopiesSound, OneSession,
              SessionIsCurrent, Open
<1> QED BY <1>2, <1>3, <1>4, <1>5, <1>6, <1>7, <1>8, <1>9 DEF ChainNext

\* For any people, levels, delegates, modes and escalations.
LEMMA ChainInvariance == ChainSpec => []ChainInv
BY ChainStarts, ChainSteps, PTL DEF ChainSpec

\* However the doors overlap, the stored chain has only satisfied levels behind it,
\* nobody's approval ahead of it, and nobody at two of its levels.
THEOREM ChainStaysSound == ChainSpec => []Sound(chain)
<1>1. ChainInv => Sound(chain)
  BY DEF ChainInv
<1> QED BY ChainInvariance, <1>1, PTL

\* The person whose request approves the invoice leaves every level satisfied.
THEOREM EveryLevelSigns == ChainSpec => ApprovedByEveryLevel
<1>1. ChainInv /\ ChainInv' /\ [ChainNext]_chainVars =>
        [ \A r \in Requests : Open(r) /\ requests'[r] = Idle
            /\ review # "approved" /\ review' = "approved"
              => \A l \in ChainLevels : LevelSatisfied(chain', l) ]_chainVars
  <2> SUFFICES ASSUME ChainInv, ChainInv', ChainNext, NEW r \in Requests, Open(r), requests'[r] = Idle,
                      review # "approved", review' = "approved", NEW l \in ChainLevels
               PROVE  LevelSatisfied(chain', l)
    OBVIOUS
  <2>1. PICK s \in Requests : FinalApproval(s)
    BY DEF ChainNext, OpenWebApproval, OpenEmailApproval, OpenBulkApproval, OpenBulkRejection, Opens, Open,
           RecordApproval, RefuseApproval, Reject, BulkReject, Resubmit, Escalate, MoveElsewhere, Requests
  <2>2. Finished(chain') /\ chain' \in Chains /\ Sound(chain')
    BY <2>1, OutcomesSound DEF FinalApproval
  <2>3. l < chain'.current
    BY <2>2, ChainAssumption DEF Finished, Chains, ChainLevels
  <2> QED BY <2>2, <2>3 DEF Sound
<1> QED BY <1>1, ChainInvariance, PTL DEF ChainSpec, ApprovedByEveryLevel

\* No approval is lost but to a rejection, a bulk change, or a session that one overtook.
THEOREM ApprovalsAreKept == ChainSpec => ApprovalsKept
<1>1. ChainInv /\ [ChainNext]_chainVars =>
        [ \/ Keeps(chain, chain')
          \/ review' = "rejected"
          \/ \E r \in Batches \union overtaken : Open(r) /\ requests'[r] = Idle ]_chainVars
  <2> SUFFICES ASSUME ChainInv, ChainNext, chain' # chain, review' # "rejected",
                      \A r \in Batches \union overtaken : ~(Open(r) /\ requests'[r] = Idle)
               PROVE  Keeps(chain, chain')
    BY DEF Keeps
  <2>0. chain \in Chains /\ Sound(chain) /\ requests \in [Requests -> Approvals \union {Idle, BulkRejection}]
    BY DEF ChainInv, ChainTypeOK
  <2>1. CASE Escalate
    BY <2>0, <2>1, EscalatedSound DEF Escalate, Keeps
  <2>2. ASSUME NEW r \in Requests, RecordApproval(r) \/ FinalApproval(r) \/ RefuseApproval(r)
        PROVE  Keeps(chain, chain')
    <3>1. Approving(r) /\ requests' = [requests EXCEPT ![r] = Idle]
      BY <2>2 DEF RecordApproval, FinalApproval, RefuseApproval, Closes
    <3>2. requests[r] \in Approvals /\ Open(r)
      BY <3>1, OutcomesSound, RequestKinds DEF Open
    <3>3. r \in Sessions /\ r \notin overtaken
      BY <2>0, <3>1, <3>2 DEF Requests
    <3>4. /\ requests[r].locked /\ requests[r].chain.on = chain.on
          /\ requests[r].chain.approvals = chain.approvals
      BY <3>2, <3>3 DEF ChainInv, SessionIsCurrent
    <3>5. chain' = Outcome(r)
      BY <2>2, <3>4 DEF RecordApproval, FinalApproval, RefuseApproval
    <3>6. CASE chain.on
      <4>1. Base(r) = requests[r].chain
        BY <3>4, <3>6 DEF Base, Started
      <4>2. PICK c \in Chains, u \in Users : c = requests[r].chain /\ u = requests[r].user
        BY <3>2, RequestKinds
      <4>3. chain' = Advanced(c, u) /\ c.on = chain.on /\ c.approvals = chain.approvals
        BY <3>4, <3>5, <4>1, <4>2 DEF Outcome
      <4> QED BY <4>3, AdvancedAdds DEF Keeps
    <3>7. CASE ~chain.on
      BY <3>7 DEF Keeps
    <3> QED BY <3>6, <3>7
  <2> QED
    BY <2>1, <2>2
    DEF ChainNext, OpenWebApproval, OpenEmailApproval, OpenBulkApproval, OpenBulkRejection, Opens,
        Reject, BulkReject, Resubmit, MoveElsewhere
<1> QED BY <1>1, ChainInvariance, PTL DEF ChainSpec, ApprovalsKept

-----------------------------------------------------------------------------
(* The chain stays workable: somebody can always move it.                   *)

\* What a chain that starts or is cleared says.
LEMMA FreshFields ==
    /\ \A l \in ChainLevels : NoChain.approvers[l] = NamedApprovers[l] /\ NoChain.approvals[l] = {}
    /\ \A l \in ChainLevels : FreshChain.approvers[l] = NamedApprovers[l] /\ FreshChain.approvals[l] = {}
    /\ NoChain.current = 1 /\ FreshChain.current = 1 /\ ~NoChain.on /\ FreshChain.on
    /\ 1 \in ChainLevels
BY ChainAssumption DEF NoChain, FreshChain, ChainLevels

\* Both are workable.
LEMMA FreshWorkable ==
    /\ Workable(NoChain) /\ Workable(FreshChain)
    /\ \A c \in Chains : Workable(c) => Workable(Started(c)) /\ Started(c).on
<1>1. \A l \in ChainLevels : Required[l] \in Nat /\ Required[l] > 0 /\ ParallelMode[l] \in {"any", "all"}
  BY ChainAssumption
<1>2. Cardinality({}) = 0
  BY FS_EmptySet
<1>3. \A c \in {NoChain, FreshChain} : ApproversAreTheLevels(c) /\ LevelIsOpen(c)
  BY <1>1, <1>2, FreshFields DEF ApproversAreTheLevels, LevelIsOpen
<1>4. \A c \in {NoChain, FreshChain} : Workable(c)
  BY <1>3, FreshFields DEF Workable
<1> QED BY <1>4, FreshFields DEF Started

\* Whoever a level admits may sign it.
LEMMA AdmittedMaySign ==
    ASSUME NEW c \in Chains, ApproversAreTheLevels(c), ~Finished(c), NEW u \in Users, Authorized(c, u)
    PROVE  u \in MaySign(c.current)
<1>1. c.current \in ChainLevels
  BY ChainAssumption DEF Chains, Finished, ChainLevels
<1> QED BY <1>1 DEF Authorized, MaySign, ApproversAreTheLevels

\* An approval that is admitted leaves a workable chain workable.
LEMMA AdvancedWorkable ==
    ASSUME NEW c \in Chains, c.on, Sound(c), Workable(c), NEW u \in Users, Admits(c, u)
    PROVE  Workable(Advanced(c, u))
<1>1. CASE Finished(c)
  BY <1>1 DEF Advanced
<1>2. CASE ~Finished(c)
  <2> DEFINE here == c.current
             rec  == Recorded(c, u)
             next == IF LevelSatisfied(rec, here) THEN here + 1 ELSE here
             adv  == [rec EXCEPT !.current = next]
  <2>1. here \in ChainLevels /\ here \in Nat /\ here + 1 \in 1 .. NLevels + 1
    BY <1>2, ChainAssumption DEF Chains, Finished, ChainLevels
  <2>2. /\ rec \in Chains /\ rec.current = here /\ rec.approvers = c.approvers /\ rec.on
        /\ rec.approvals = [c.approvals EXCEPT ![here] = @ \union {u}]
    BY <2>1 DEF Recorded, Chains
  <2>3. Advanced(c, u) = adv
    BY <1>2, <2>2 DEF Advanced
  <2> HIDE DEF rec
  <2>4. next \in 1 .. NLevels + 1
    BY <2>1, ChainAssumption DEF Chains
  <2> HIDE DEF next
  <2>5. /\ adv \in Chains /\ adv.current = next /\ adv.approvers = c.approvers
        /\ adv.approvals = rec.approvals /\ adv.on
    BY <2>2, <2>4 DEF Chains
  <2> HIDE DEF adv
  <2>6. /\ \A l \in ChainLevels : l # here => adv.approvals[l] = c.approvals[l]
        /\ adv.approvals[here] = c.approvals[here] \union {u}
    BY <2>1, <2>2, <2>5 DEF Chains
  <2>7. ApproversAreTheLevels(adv)
    <3>1. \A l \in ChainLevels : l > next => l > here
      BY <2>1 DEF next, ChainLevels
    <3> QED BY <2>5, <3>1 DEF Workable, ApproversAreTheLevels
  <2>8. \A l \in ChainLevels : adv.approvals[l] \subseteq MaySign(l)
    BY <1>2, <2>6, AdmittedMaySign DEF Workable, Admits
  <2>9. LevelIsOpen(adv)
    <3>1. SUFFICES ASSUME ~Finished(adv) PROVE LevelIsOpen(adv)
      BY DEF LevelIsOpen
    <3>2. next \in ChainLevels
      BY <2>4, <2>5, <3>1, ChainAssumption DEF Finished, ChainLevels
    <3>3. Required[next] \in Nat /\ Required[next] > 0 /\ ParallelMode[next] \in {"any", "all"}
      BY <3>2, ChainAssumption
    <3>4. CASE LevelSatisfied(rec, here)
      <4>1. next > here /\ next # here
        BY <2>1, <3>4 DEF next
      <4>2. adv.approvers[next] = NamedApprovers[next] /\ adv.approvals[next] = {}
        BY <2>5, <2>6, <3>2, <4>1 DEF Workable, ApproversAreTheLevels, Sound
      <4> QED BY <2>5, <3>3, <4>2, FS_EmptySet DEF LevelIsOpen
    <3>5. CASE ~LevelSatisfied(rec, here)
      <4>1. next = here
        BY <3>5 DEF next
      <4>2. CASE ParallelMode[here] = "any"
        <5>1. rec.approvals[here] \subseteq Users
          BY <2>1, <2>2 DEF Chains
        <5>2. Cardinality(rec.approvals[here]) \in Nat
          BY <5>1, ChainAssumption, FS_Subset, FS_CardinalityType
        <5>3. ~(Cardinality(rec.approvals[here]) >= Required[here])
          BY <3>5, <4>2 DEF LevelSatisfied
        <5> QED BY <2>5, <3>3, <4>1, <4>2, <5>2, <5>3 DEF LevelIsOpen
      <4>3. CASE ParallelMode[here] # "any"
        <5>1. c.approvers[here] = NamedApprovers[here] \/ c.approvers[here] \ c.approvals[here] \subseteq EscalateTo[here]
          BY <1>2, <4>3 DEF Workable, LevelIsOpen
        <5>2. c.approvers[here] \ adv.approvals[here] \subseteq c.approvers[here] \ c.approvals[here]
          BY <2>6
        <5> QED BY <2>5, <4>1, <4>3, <5>1, <5>2 DEF LevelIsOpen
      <4> QED BY <4>2, <4>3
    <3> QED BY <3>4, <3>5
  <2> QED BY <2>3, <2>5, <2>7, <2>8, <2>9 DEF Workable
<1> QED BY <1>1, <1>2

\* What an escalation makes of the level people act on.
LEMMA EscalatedLevel ==
    ASSUME NEW c \in Chains, Escalatable(c)
    PROVE  LET l == c.current
               e == Escalated(c)
           IN /\ l \in ChainLevels /\ e \in Chains /\ e.current = l /\ e.approvals = c.approvals /\ e.on /\ c.on
              /\ \A k \in ChainLevels : k # l => e.approvers[k] = c.approvers[k]
              /\ ParallelMode[l] = "any" => e.approvers[l] = c.approvers[l] \union EscalateTo[l]
              /\ ParallelMode[l] # "any" =>
                   /\ e.approvers[l] \ c.approvals[l] \subseteq EscalateTo[l]
                   /\ EscalateTo[l] \ c.approvers[l] \subseteq e.approvers[l]
              /\ e.approvers[l] # {} /\ e.approvers[l] \subseteq c.approvers[l] \union EscalateTo[l]
<1> DEFINE l == c.current
           kept == IF ParallelMode[l] = "all" THEN c.approvers[l] \intersect c.approvals[l] ELSE c.approvers[l]
           e == Escalated(c)
<1>1. /\ l \in ChainLevels /\ c.on /\ NewTargets(c) # {} /\ NewTargets(c) = EscalateTo[l] \ c.approvers[l]
      /\ ParallelMode[l] \in {"any", "all"}
  BY ChainAssumption DEF Escalatable, Finished, Chains, ChainLevels, NewTargets
<1>2. kept \union NewTargets(c) \subseteq Users
  BY <1>1, ChainAssumption DEF Chains
<1> DEFINE set == kept \union NewTargets(c)
           f == [c.approvers EXCEPT ![l] = set]
<1>3. e = [c EXCEPT !.approvers = f]
  BY DEF Escalated, Chains
<1> HIDE DEF set
<1>6. /\ f \in [ChainLevels -> SUBSET Users] /\ f[l] = set
      /\ \A k \in ChainLevels : k # l => f[k] = c.approvers[k]
  BY <1>1, <1>2 DEF Chains, set
<1> HIDE DEF f
<1>4. /\ e \in Chains /\ e.current = l /\ e.approvals = c.approvals /\ e.on = c.on
      /\ \A k \in ChainLevels : k # l => e.approvers[k] = c.approvers[k]
      /\ e.approvers[l] = kept \union NewTargets(c)
  BY <1>3, <1>6 DEF Chains, set
<1> HIDE DEF e
<1>5. kept \subseteq c.approvers[l] /\ (ParallelMode[l] = "any" => kept = c.approvers[l])
      /\ (ParallelMode[l] # "any" => kept \subseteq c.approvals[l])
  BY <1>1
<1> HIDE DEF kept
<1> QED BY <1>1, <1>4, <1>5 DEF e

\* So does an escalation.
LEMMA EscalatedWorkable ==
    ASSUME NEW c \in Chains, Workable(c), Escalatable(c)
    PROVE  Workable(Escalated(c))
<1>1. PICK l \in ChainLevels, e \in Chains :
        /\ l = c.current /\ e = Escalated(c) /\ e.current = l /\ e.approvals = c.approvals /\ e.on /\ c.on
        /\ \A k \in ChainLevels : k # l => e.approvers[k] = c.approvers[k]
        /\ ParallelMode[l] = "any" => e.approvers[l] = c.approvers[l] \union EscalateTo[l]
        /\ ParallelMode[l] # "any" => e.approvers[l] \ c.approvals[l] \subseteq EscalateTo[l]
        /\ e.approvers[l] # {} /\ e.approvers[l] \subseteq c.approvers[l] \union EscalateTo[l]
  BY EscalatedLevel
<1>2. c.approvers[l] # {} /\ ~Finished(c) /\ ~Finished(e)
  BY <1>1 DEF Escalatable, Finished
<1>3. ApproversAreTheLevels(e)
  <2> SUFFICES ASSUME NEW k \in ChainLevels
               PROVE  /\ e.approvers[k] \subseteq NamedApprovers[k] \union EscalateTo[k]
                      /\ e.approvers[k] = {} <=> NamedApprovers[k] = {}
                      /\ ParallelMode[k] = "any" => NamedApprovers[k] \subseteq e.approvers[k]
                      /\ k > e.current => e.approvers[k] = NamedApprovers[k]
    BY DEF ApproversAreTheLevels
  <2>1. CASE k = l
    <3>1. ~(k > e.current)
      BY <1>1, <2>1 DEF ChainLevels
    <3> QED BY <1>1, <1>2, <2>1, <3>1 DEF Workable, ApproversAreTheLevels
  <2>2. CASE k # l
    BY <1>1, <2>2 DEF Workable, ApproversAreTheLevels
  <2> QED BY <2>1, <2>2
<1>4. LevelIsOpen(e)
  BY <1>1, <1>2 DEF Workable, LevelIsOpen
<1> QED BY <1>1, <1>3, <1>4 DEF Workable

\* The other copies: a request keeps the one it read, and reads the stored one.
LEMMA CopiesStart == ChainInit => CopiesWorkable
<1> SUFFICES ASSUME ChainInit PROVE CopiesWorkable
  OBVIOUS
<1>1. \A r \in Requests : requests[r] \notin Approvals
  BY RequestKinds DEF ChainInit
<1> QED BY <1>1, FreshWorkable DEF ChainInit, CopiesWorkable

LEMMA CopiesSteps == ChainInv /\ CopiesWorkable /\ [ChainNext]_chainVars => CopiesWorkable'
<1> SUFFICES ASSUME ChainInv, CopiesWorkable, [ChainNext]_chainVars PROVE CopiesWorkable'
  OBVIOUS
<1>1. \A r \in Requests : Approving(r) =>
        /\ requests[r] \in Approvals /\ Base(r) \in Chains /\ Workable(Base(r))
        /\ Admitted(r) => Workable(Outcome(r))
  <2> SUFFICES ASSUME NEW r \in Requests, Approving(r)
               PROVE  /\ requests[r] \in Approvals /\ Base(r) \in Chains /\ Workable(Base(r))
                      /\ Admitted(r) => Workable(Outcome(r))
    OBVIOUS
  <2>1. /\ requests[r] \in Approvals /\ Base(r) \in Chains /\ Sound(Base(r))
        /\ requests[r].chain \in Chains /\ requests[r].user \in Users
    BY OutcomesSound, RequestKinds
  <2>2. Workable(Base(r)) /\ Base(r).on
    BY <2>1, FreshWorkable DEF CopiesWorkable, Base
  <2>3. Admitted(r) => Workable(Outcome(r))
    BY <2>1, <2>2, AdvancedWorkable DEF Admitted, Outcome
  <2> QED BY <2>1, <2>2, <2>3
<1>2. \E c \in Chains : c = chain' /\ Workable(c)
  <2>0. chain \in Chains /\ Workable(chain)
    BY DEF ChainInv, ChainTypeOK, CopiesWorkable
  <2>1. ASSUME NEW r \in Requests, RecordApproval(r) \/ FinalApproval(r) \/ RefuseApproval(r)
        PROVE  \E c \in Chains : c = chain' /\ Workable(c)
    <3>1. Approving(r) /\ (chain' \in {chain, Base(r)} \/ (Admitted(r) /\ chain' = Outcome(r)))
      BY <2>1 DEF RecordApproval, FinalApproval, RefuseApproval
    <3> QED BY <1>1, <2>0, <3>1, OutcomesSound
  <2>2. CASE Escalate
    BY <2>0, <2>2, EscalatedSound, EscalatedWorkable DEF Escalate, ChainInv
  <2>3. CASE \/ Reject \/ Resubmit \/ MoveElsewhere \/ (\E r \in Batches : BulkReject(r))
             \/ UNCHANGED chainVars
    <3>1. chain' \in {chain, NoChain}
      BY <2>3 DEF Reject, Resubmit, MoveElsewhere, BulkReject, chainVars
    <3> QED BY <2>0, <3>1, FreshChains, FreshWorkable
  <2>4. CASE \/ \E u \in Users, r \in Requests :
                  OpenWebApproval(r, u) \/ OpenEmailApproval(r, u) \/ OpenBulkApproval(r, u)
             \/ \E r \in Batches : OpenBulkRejection(r)
    <3>1. chain' = chain
      BY <2>4 DEF OpenWebApproval, OpenEmailApproval, OpenBulkApproval, OpenBulkRejection, Opens
    <3> QED BY <2>0, <3>1
  <2> QED BY <2>1, <2>2, <2>3, <2>4 DEF ChainNext, Requests
<1>3. ASSUME NEW r \in Requests, requests'[r] \in Approvals
      PROVE  requests'[r] = requests[r] \/ requests'[r].chain = chain
  <2>1. requests \in [Requests -> Approvals \union {Idle, BulkRejection}]
    BY DEF ChainInv, ChainTypeOK
  <2>2. CASE UNCHANGED requests
    BY <2>2
  <2>3. ASSUME NEW s \in Requests, NEW q, requests' = [requests EXCEPT ![s] = q],
               q \in {Idle, BulkRejection} \/ q.chain = chain
        PROVE  requests'[r] = requests[r] \/ requests'[r].chain = chain
    BY <1>3, <2>1, <2>3, RequestKinds
  <2>4. CASE \E s \in Requests : RecordApproval(s) \/ FinalApproval(s) \/ RefuseApproval(s) \/ BulkReject(s)
    BY <2>3, <2>4 DEF RecordApproval, FinalApproval, RefuseApproval, BulkReject, Closes
  <2>5. ASSUME NEW u \in Users, NEW s \in Requests,
               OpenWebApproval(s, u) \/ OpenEmailApproval(s, u) \/ OpenBulkApproval(s, u)
        PROVE  requests'[r] = requests[r] \/ requests'[r].chain = chain
    <3>1. \A lock : ApprovalBy(u, lock).chain = chain
      BY DEF ApprovalBy
    <3>2. \E lock : requests' = [requests EXCEPT ![s] = ApprovalBy(u, lock)]
      BY <2>5 DEF OpenWebApproval, OpenEmailApproval, OpenBulkApproval, Opens
    <3> QED BY <2>3, <3>1, <3>2
  <2>6. CASE \E s \in Batches : OpenBulkRejection(s)
    BY <2>3, <2>6 DEF OpenBulkRejection, Opens, Requests
  <2>7. CASE Reject \/ Resubmit \/ Escalate \/ MoveElsewhere \/ UNCHANGED chainVars
    BY <2>2, <2>7 DEF Reject, Resubmit, Escalate, MoveElsewhere, chainVars
  <2> QED BY <2>4, <2>5, <2>6, <2>7 DEF ChainNext, Requests
<1>4. ASSUME NEW r \in Requests, requests'[r] \in Approvals PROVE Workable(requests'[r].chain)
  <2>1. requests \in [Requests -> Approvals \union {Idle, BulkRejection}]
    BY DEF ChainInv, ChainTypeOK
  <2>2. CASE requests'[r] = requests[r]
    BY <1>4, <2>2 DEF CopiesWorkable
  <2>3. CASE requests'[r].chain = chain
    BY <2>3 DEF CopiesWorkable
  <2> QED BY <1>3, <1>4, <2>2, <2>3
<1>5. Workable(chain)'
  BY <1>2 DEF Workable, ApproversAreTheLevels, LevelIsOpen, Finished
<1>6. \A r \in Requests : (requests[r] \in Approvals => Workable(requests[r].chain))'
  BY <1>4 DEF Workable, ApproversAreTheLevels, LevelIsOpen, Finished
<1> QED BY <1>5, <1>6 DEF CopiesWorkable

\* Whose approval moves the chain: somebody admitted who has not signed the level yet,
\* or anybody admitted when the level is satisfied by those who have.
LEMMA SignerMoves ==
    ASSUME NEW c \in Chains, ~Finished(c), NEW u \in Users, Authorized(c, u), ~ActedElsewhere(c, u),
           u \notin c.approvals[c.current] \/ LevelSatisfied(c, c.current)
    PROVE  Moves(c, u)
<1> DEFINE here == c.current
           rec  == Recorded(c, u)
           next == IF LevelSatisfied(rec, here) THEN here + 1 ELSE here
           adv  == [rec EXCEPT !.current = next]
<1>1. here \in ChainLevels /\ here \in Nat
  BY ChainAssumption DEF Chains, Finished, ChainLevels
<1>2. /\ rec \in Chains /\ rec.current = here /\ rec.approvers = c.approvers
      /\ rec.approvals = [c.approvals EXCEPT ![here] = @ \union {u}]
  BY <1>1 DEF Recorded, Chains
<1>3. Advanced(c, u) = adv
  BY <1>2 DEF Advanced
<1> HIDE DEF rec
<1>4. adv.current = next /\ adv.approvals = rec.approvals
  BY <1>2 DEF Chains
<1> HIDE DEF adv
<1>5. CASE u \notin c.approvals[here]
  <2>1. u \in adv.approvals[here]
    BY <1>1, <1>2, <1>4 DEF Chains
  <2> QED BY <1>3, <1>5, <2>1 DEF Moves, Admits
<1>6. CASE u \in c.approvals[here] /\ LevelSatisfied(c, here)
  <2>0. rec.approvals[here] = c.approvals[here] \union {u}
    BY <1>1, <1>2 DEF Chains
  <2>1. rec.approvals[here] = c.approvals[here]
    BY <1>6, <2>0
  <2>2. LevelSatisfied(rec, here)
    BY <1>2, <1>6, <2>1 DEF LevelSatisfied
  <2>3. adv.current # here
    BY <1>1, <1>4, <2>2
  <2> QED BY <1>3, <2>3 DEF Moves, Admits
<1> QED BY <1>5, <1>6

\* Nobody who may sign no earlier level has acted at another level.
LEMMA FreshHasNotActed ==
    ASSUME NEW c \in Chains, Sound(c), Workable(c), ~Finished(c), NEW u \in Fresh(c.current)
    PROVE  ~ActedElsewhere(c, u)
<1>1. c.current \in ChainLevels
  BY ChainAssumption DEF Chains, Finished, ChainLevels
<1> SUFFICES ASSUME NEW l \in ChainLevels \ {c.current}, u \in c.approvals[l] PROVE FALSE
  BY DEF ActedElsewhere
<1>2. CASE l < c.current
  BY <1>2 DEF Workable, Fresh
<1>3. CASE l > c.current
  BY <1>3 DEF Sound
<1> QED BY <1>1, <1>2, <1>3 DEF ChainLevels

\* Where there are enough people somebody's approval moves the chain, or an escalation finds somebody.
LEMMA SomebodyMoves ==
    ASSUME ChainStaffed, NEW c \in Chains, Sound(c), Workable(c), ~Finished(c)
    PROVE  \E u \in Users : Moves(c, u) \/ (Escalatable(c) /\ Moves(Escalated(c), u))
<1>1. PICK l \in ChainLevels : l = c.current
  BY ChainAssumption DEF Chains, Finished, ChainLevels
<1>2. /\ c.approvers[l] \subseteq Users /\ c.approvals[l] \subseteq Users
      /\ NamedApprovers[l] \subseteq Users /\ EscalateTo[l] \subseteq Users
      /\ Required[l] \in Nat /\ Required[l] > 0 /\ ParallelMode[l] \in {"any", "all"}
  BY ChainAssumption DEF Chains
<1>3. /\ c.approvers[l] \subseteq NamedApprovers[l] \union EscalateTo[l]
      /\ c.approvers[l] = {} <=> NamedApprovers[l] = {}
      /\ ParallelMode[l] = "any" => NamedApprovers[l] \subseteq c.approvers[l]
  BY DEF Workable, ApproversAreTheLevels
<1>4. \A u \in Fresh(l) \ c.approvals[l] : Authorized(c, u) => Moves(c, u)
  BY <1>1, FreshHasNotActed, SignerMoves DEF Fresh
\* An escalated chain is one of the kind too.
<1>5. ASSUME Escalatable(c), NEW u \in Fresh(l), u \notin c.approvals[l] \/ LevelSatisfied(Escalated(c), l),
             Authorized(Escalated(c), u)
      PROVE  Moves(Escalated(c), u)
  <2>1. /\ Escalated(c) \in Chains /\ Sound(Escalated(c)) /\ Workable(Escalated(c))
        /\ Escalated(c).current = l /\ Escalated(c).approvals = c.approvals
    BY <1>1, <1>5, EscalatedSound, EscalatedWorkable, EscalatedLevel
  <2>2. ~Finished(Escalated(c))
    BY <1>1, <2>1 DEF Finished
  <2> QED BY <1>5, <2>1, <2>2, FreshHasNotActed, SignerMoves DEF Fresh
\* Somebody signed for a satisfied level, and his approval again moves the chain on.
<1>6. ASSUME NEW d \in Chains, Sound(d), ~Finished(d), d.current = l, NEW u \in d.approvers[l],
             u \in d.approvals[l], LevelSatisfied(d, l)
      PROVE  Moves(d, u)
  <2>1. Authorized(d, u) /\ u \in Users
    BY <1>6, ChainAssumption DEF Authorized, Chains
  <2>2. ~ActedElsewhere(d, u)
    BY <1>6 DEF Sound, ActedElsewhere
  <2> QED BY <1>6, <2>1, <2>2, SignerMoves
<1>7. CASE ParallelMode[l] = "any"
  <2>1. PICK u \in MaySign(l) \intersect Fresh(l) : u \notin c.approvals[l]
    <3>1. Cardinality(MaySign(l) \intersect Fresh(l)) >= Required[l] /\ Cardinality(c.approvals[l]) < Required[l]
      <4>1. Cardinality(MaySign(l) \intersect Fresh(l)) >= Required[l]
        BY <1>7 DEF ChainStaffed
      <4>2. Cardinality(c.approvals[l]) < Required[l]
        BY <1>1, <1>7 DEF Workable, LevelIsOpen
      <4> QED BY <4>1, <4>2
    <3>2. SUFFICES ASSUME MaySign(l) \intersect Fresh(l) \subseteq c.approvals[l] PROVE FALSE
      OBVIOUS
    <3>3. IsFiniteSet(c.approvals[l])
      BY <1>2, ChainAssumption, FS_Subset
    <3>4. /\ Cardinality(MaySign(l) \intersect Fresh(l)) <= Cardinality(c.approvals[l])
          /\ IsFiniteSet(MaySign(l) \intersect Fresh(l))
      BY <3>2, <3>3, FS_Subset
    <3>5. Cardinality(c.approvals[l]) \in Nat /\ Cardinality(MaySign(l) \intersect Fresh(l)) \in Nat
      BY <3>3, <3>4, FS_CardinalityType
    <3> QED BY <1>2, <3>1, <3>4, <3>5
  <2>2. u \in Users
    BY DEF Fresh
  <2>3. CASE Authorized(c, u)
    BY <1>4, <2>1, <2>2, <2>3
  <2>4. CASE ~Authorized(c, u)
    <3>1. NamedApprovers[l] # {}
      BY <1>1, <1>3, <2>4 DEF Authorized
    <3>2. PICK a \in NamedApprovers[l] \union EscalateTo[l] : u = a \/ u \in DelegateOf[a]
      BY <2>1, <3>1 DEF MaySign
    <3>3. a \notin c.approvers[l]
      BY <1>1, <2>4, <3>2 DEF Authorized
    <3>4. CASE c.on
      <4>1. Escalatable(c)
        BY <1>1, <1>3, <3>1, <3>2, <3>3, <3>4, <1>7 DEF Escalatable, NewTargets
      <4>2. Escalated(c).approvers[l] = c.approvers[l] \union EscalateTo[l] /\ Escalated(c).current = l
        BY <1>1, <1>7, <4>1, EscalatedLevel
      <4>3. Authorized(Escalated(c), u)
        BY <1>3, <1>7, <3>2, <4>2 DEF Authorized
      <4> QED BY <1>5, <2>1, <2>2, <4>1, <4>3
    <3>5. CASE ~c.on
      <4>1. c = NoChain
        BY <3>5 DEF Workable
      <4>2. PICK n \in NamedApprovers[l] : n \in Users
        BY <1>2, <3>1
      <4>3. Authorized(c, n) /\ n \notin c.approvals[l]
        BY <1>1, <1>3, <1>7, <4>1, <4>2, FreshFields DEF Authorized
      <4>4. n \in Fresh(l)
        BY <1>1, <4>1, <4>2, FreshFields DEF Fresh, ChainLevels
      <4> QED BY <1>4, <4>2, <4>3, <4>4
    <3> QED BY <3>4, <3>5
  <2> QED BY <2>3, <2>4
<1>8. CASE ParallelMode[l] = "all"
  <2> USE <1>8
  <2>1. CASE NamedApprovers[l] = {}
    <3>1. PICK u \in Fresh(l) : TRUE
      BY <2>1 DEF ChainStaffed
    <3>2. Authorized(c, u) /\ LevelSatisfied(c, l) /\ u \in Users
      BY <1>1, <1>3, <2>1 DEF Authorized, LevelSatisfied, Fresh
    <3>3. Moves(c, u)
      BY <1>1, <3>2, FreshHasNotActed, SignerMoves
    <3> QED BY <3>2, <3>3
  <2>2. CASE c.approvers[l] \subseteq c.approvals[l] /\ NamedApprovers[l] # {}
    <3>1. PICK u \in c.approvers[l] : TRUE
      BY <1>3, <2>2
    <3>2. LevelSatisfied(c, l)
      BY <2>2 DEF LevelSatisfied
    <3> QED BY <1>1, <1>2, <1>6, <2>2, <3>1, <3>2
  <2>3. CASE NamedApprovers[l] # {} /\ ~(c.approvers[l] \subseteq c.approvals[l])
    <3>1. /\ EscalateTo[l] \subseteq Fresh(l)
          /\ NamedApprovers[l] \subseteq Fresh(l) \/ ~(EscalateTo[l] \subseteq NamedApprovers[l])
      BY <2>3 DEF ChainStaffed
    <3>2. PICK a \in c.approvers[l] : a \notin c.approvals[l]
      BY <2>3
    <3>3. Authorized(c, a) /\ a \in Users
      BY <1>1, <1>2 DEF Authorized
    <3>4. CASE a \in Fresh(l)
      BY <1>4, <3>2, <3>3, <3>4
    <3>5. CASE a \notin Fresh(l)
      <4>1. c.approvers[l] = NamedApprovers[l] /\ ~(EscalateTo[l] \subseteq NamedApprovers[l])
        BY <1>1, <1>3, <3>1, <3>2, <3>5 DEF Workable, LevelIsOpen
      <4>2. CASE c.on
        <5>1. Escalatable(c)
          BY <1>1, <1>3, <2>3, <4>1, <4>2 DEF Escalatable, NewTargets
        <5>2. PICK e \in Chains :
                /\ e = Escalated(c) /\ e.current = l /\ e.approvals = c.approvals /\ e.approvers[l] # {}
                /\ e.approvers[l] \ c.approvals[l] \subseteq EscalateTo[l]
                /\ Sound(e) /\ ~Finished(e)
          BY <1>1, <5>1, EscalatedLevel, EscalatedSound DEF Finished
        <5>3. CASE e.approvers[l] \subseteq e.approvals[l]
          <6>1. PICK u \in e.approvers[l] : TRUE
            BY <5>2
          <6>2. LevelSatisfied(e, l)
            BY <5>3 DEF LevelSatisfied
          <6>3. u \in Users
            BY ChainAssumption DEF Chains
          <6> QED BY <1>6, <5>1, <5>2, <5>3, <6>1, <6>2, <6>3
        <5>4. CASE ~(e.approvers[l] \subseteq e.approvals[l])
          <6>1. PICK u \in e.approvers[l] : u \notin e.approvals[l]
            BY <5>4
          <6>2. u \in Fresh(l) /\ u \in Users
            BY <3>1, <5>2, <6>1 DEF Fresh
          <6>3. Authorized(e, u)
            BY <5>2, <6>1 DEF Authorized
          <6> QED BY <1>5, <5>1, <5>2, <6>1, <6>2, <6>3
        <5> QED BY <5>3, <5>4
      <4>3. CASE ~c.on
        <5>1. c = NoChain
          BY <4>3 DEF Workable
        <5>2. a \in Fresh(l)
          BY <1>1, <3>3, <5>1, FreshFields DEF Fresh, ChainLevels
        <5> QED BY <3>5, <5>2
      <4> QED BY <4>2, <4>3
    <3> QED BY <3>4, <3>5
  <2> QED BY <2>1, <2>2, <2>3
<1> QED BY <1>2, <1>7, <1>8

(* In a configuration with enough people no order of approvals, through     *)
(* any door, leaves an unfinished chain that nobody's approval moves, not   *)
(* even after the escalation the sweep may still give it.                   *)
THEOREM ChainStaysWorkable == ASSUME ChainStaffed PROVE ChainSpec => []ChainSound
<1>1. ChainInv /\ CopiesWorkable => ChainSound
  BY SomebodyMoves DEF ChainInv, ChainTypeOK, CopiesWorkable, ChainSound, SomeoneCanAct
<1>2. ChainInit => ChainInv /\ CopiesWorkable
  BY ChainStarts, CopiesStart
<1>3. ChainInv /\ CopiesWorkable /\ [ChainNext]_chainVars => (ChainInv /\ CopiesWorkable)'
  BY ChainSteps, CopiesSteps
<1> QED BY <1>1, <1>2, <1>3, PTL DEF ChainSpec
=============================================================================
