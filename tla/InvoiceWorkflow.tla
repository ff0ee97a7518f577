--------------------------- MODULE InvoiceWorkflow ---------------------------
(***************************************************************************)
(* One invoice from upload to done: the status column, who approved it,    *)
(* and every process that writes it.  People and webhooks hold the         *)
(* invoice row lock from their read to their commit, so each is one step.  *)
(* Three writers read without the lock and write later: an extraction job, *)
(* an ERP push, and the bulk and portal requests; each keeps the status it *)
(* saw, and transition_invoice validates that copy.  Jobs and pushes live  *)
(* in the memory of the process (FEOH_EXTRACTION_MODE and FEOH_ERP_MODE    *)
(* "local"): a crash loses them.                                           *)
(*                                                                         *)
(* The levels of an approval chain are ApprovalChain: here an approval     *)
(* either completes or leaves the invoice as it was.  Payment runs are     *)
(* PaymentRuns: here they are the moves they make.                         *)
(***************************************************************************)
EXTENDS InvoiceStatuses, Naturals

CONSTANTS Jobs,           \* extraction jobs that can be in progress
          Pushes,         \* ERP pushes that can be in progress
          MAX_RETRIES,    \* attempts of one push (services/erp.py)
          Configurations  \* step types an invoice's frozen snapshot enables

ASSUME WorkflowAssumption ==
  /\ MAX_RETRIES \in Nat \ {0}
  /\ Configurations \subseteq SUBSET {"extraction", "approval", "erp_export"}

VARIABLES status,         \* Invoice.status
          approvedBy,     \* Invoice.approved_by: nobody, a person, the system
          snapshot,       \* WorkflowInstance.steps_config_snapshot
          erpRetries,     \* WorkflowInstance.state_data["erp_retries"]
          jobs,           \* extraction jobs
          pushes,         \* ERP pushes
          unlocked,       \* an open bulk or portal request
          reaping         \* the reaper has read the invoice's id

lifecycleVars == <<status, approvedBy, snapshot, erpRetries, jobs, pushes,
                   unlocked, reaping>>
progressVars == <<snapshot, erpRetries>>

(* What an unlocked reader keeps of the status: the moves its copy allows. *)
Allows(targets) == VALID_TRANSITIONS[status] \intersect targets

Outcomes == {"ready_for_review", "approved"}
NoJob == [pc |-> "none", may |-> {}, suppress |-> FALSE]
JobState == [pc : {"none", "queued", "running", "failing"},
             may : SUBSET (Outcomes \union {"failed"}), suppress : BOOLEAN]
NoPush == [pc |-> "none", may |-> {}, attempt |-> 0, retry |-> FALSE]
PushState == [pc : {"none", "queued", "calling", "lost"},
              may : SUBSET {"sent_to_erp", "failed"}, attempt : 0 .. MAX_RETRIES,
              retry : BOOLEAN]
UnlockedRequests == BULK_STATUS_TARGETS \union {"portal", "refused"}

(* An upload leaves the invoice new, or pending with its job to dispatch. *)
WorkflowInit ==
  /\ snapshot \in Configurations
  /\ approvedBy = "nobody"
  /\ erpRetries = 0
  /\ pushes = [p \in Pushes |-> NoPush]
  /\ unlocked = "none"
  /\ reaping = FALSE
  /\ IF "extraction" \in snapshot
     THEN /\ status = "pending"
          /\ \E j \in Jobs : jobs = [k \in Jobs |->
               IF k = j THEN [NoJob EXCEPT !.pc = "queued"] ELSE NoJob]
     ELSE /\ status = "new"
          /\ jobs = [j \in Jobs |-> NoJob]

---------------------------------------------------------------------------
(* Extraction.  The status is committed first, the job dispatched after. *)
NewJob(suppressed) ==
  \E j \in Jobs : /\ jobs[j] = NoJob
                  /\ jobs' = [jobs EXCEPT ![j].pc = "queued", ![j].suppress = suppressed]

TriggerExtraction ==
  /\ status \in {"new", "failed"}
  /\ status' = "pending"
  /\ NewJob(FALSE)
  /\ UNCHANGED <<approvedBy, pushes, unlocked, reaping, progressVars>>

ResetExtraction ==
  /\ status = "pending"
  /\ status' = "failed"
  /\ UNCHANGED <<approvedBy, jobs, pushes, unlocked, reaping, progressVars>>

(* The worker loads the invoice without a lock and without asking whether  *)
(* it is still pending.                                                    *)
StartExtraction(j) ==
  /\ jobs[j].pc = "queued"
  /\ jobs' = [jobs EXCEPT ![j].pc = "running", ![j].may = Allows(Outcomes)]
  /\ UNCHANGED <<status, approvedBy, pushes, unlocked, reaping, progressVars>>

(* The result is written over whatever has been committed meanwhile, if    *)
(* the move is legal from the status the job read.  decide_auto_approve    *)
(* may approve, unless the document had been rejected by a person.         *)
FinishExtraction(j) ==
  /\ jobs[j].pc = "running"
  /\ \E auto \in BOOLEAN :
       LET approves == auto /\ ~jobs[j].suppress
       IN /\ status' = IF approves THEN "approved" ELSE "ready_for_review"
          /\ status' \in jobs[j].may
          /\ approvedBy' = IF approves THEN "system" ELSE approvedBy
  /\ jobs' = [jobs EXCEPT ![j] = NoJob]
  /\ UNCHANGED <<pushes, unlocked, reaping, progressVars>>

(* The adapter failed or the move was refused: roll back, read again. *)
FailExtraction(j) ==
  /\ jobs[j].pc = "running"
  /\ jobs' = [jobs EXCEPT ![j] =
                [NoJob EXCEPT !.pc = "failing", !.may = Allows({"failed"})]]
  /\ UNCHANGED <<status, approvedBy, pushes, unlocked, reaping, progressVars>>

(* The failure is recorded if failed is legal from the status read again;  *)
(* otherwise the fallback fails an invoice that is pending, and only it.   *)
RecordFailure(j) ==
  /\ jobs[j].pc = "failing"
  /\ status' = IF "failed" \in jobs[j].may \/ status = "pending" THEN "failed" ELSE status
  /\ jobs' = [jobs EXCEPT ![j] = NoJob]
  /\ UNCHANGED <<approvedBy, pushes, unlocked, reaping, progressVars>>

(* The reaper reads the ids of old pending invoices unlocked, then locks   *)
(* each row and asks again.  Age is counted from the upload.               *)
\* Mutation: only invoices whose extraction is known to the process are read.
ReaperScanOfJobs ==
  /\ ~reaping
  /\ status = "pending"
  /\ \E j \in Jobs : jobs[j].pc # "none"
  /\ reaping' = TRUE
  /\ UNCHANGED <<status, approvedBy, jobs, pushes, unlocked, progressVars>>

ReaperScan ==
  /\ ~reaping
  /\ status = "pending"
  /\ reaping' = TRUE
  /\ UNCHANGED <<status, approvedBy, jobs, pushes, unlocked, progressVars>>

\* Mutation: the row is not looked at again under its lock.
ReapFromScan ==
  /\ reaping
  /\ reaping' = FALSE
  /\ status' = "failed"
  /\ UNCHANGED <<approvedBy, jobs, pushes, unlocked, progressVars>>

Reap ==
  /\ reaping
  /\ reaping' = FALSE
  /\ status' = IF status = "pending" THEN "failed" ELSE status
  /\ UNCHANGED <<approvedBy, jobs, pushes, unlocked, progressVars>>

---------------------------------------------------------------------------
(* Review, under the invoice lock. *)
ApproveInvoice ==
  /\ Legal(status, "approved")
  /\ status' = "approved"
  /\ approvedBy' = "person"
  /\ UNCHANGED <<jobs, pushes, unlocked, reaping, progressVars>>

RejectInvoice ==
  /\ Legal(status, "rejected")
  /\ status' = "rejected"
  /\ UNCHANGED <<approvedBy, jobs, pushes, unlocked, reaping, progressVars>>

ResubmitInvoice ==
  /\ Legal(status, "ready_for_review")
  /\ status' = "ready_for_review"
  /\ UNCHANGED <<approvedBy, jobs, pushes, unlocked, reaping, progressVars>>

(* The bulk change and the supplier's resubmission read the status unlocked. *)
(* A bulk move that is not legal from there is skipped, but an approval is   *)
(* attempted all the same: "refused" is one whose status change will be.     *)
OpenUnlocked(t) ==
  /\ unlocked = "none"
  /\ CASE t = "portal"  -> status = "rejected"
       [] t = "refused" -> status \notin IMMUTABLE_STATUSES /\ ~Legal(status, "approved")
       [] OTHER         -> status \notin IMMUTABLE_STATUSES /\ Legal(status, t)
  /\ unlocked' = t
  /\ UNCHANGED <<status, approvedBy, jobs, pushes, reaping, progressVars>>

CloseUnlocked == /\ unlocked' = "none"
                 /\ UNCHANGED <<pushes, reaping, progressVars>>

(* The batch commits at its end.  approve_invoice has set approved_by by   *)
(* the time the status change is refused, and a refused member of the      *)
(* batch is skipped without a rollback.                                    *)
\* Mutation: the status is set directly instead of through approve_invoice.
BulkApproveBare ==
  /\ unlocked \in {"approved", "refused"}
  /\ status' = IF unlocked = "approved" THEN "approved" ELSE status
  /\ CloseUnlocked
  /\ UNCHANGED <<approvedBy, jobs>>

BulkApprove ==
  /\ unlocked \in {"approved", "refused"}
  /\ \/ /\ approvedBy' = "person"
        /\ status' = IF unlocked = "approved" THEN "approved" ELSE status
     \/ UNCHANGED <<status, approvedBy>>      \* more levels, or a 403
  /\ CloseUnlocked
  /\ UNCHANGED jobs

BulkMove ==
  /\ unlocked \in BULK_STATUS_TARGETS \ {"approved"}
  /\ status' = unlocked
  /\ CloseUnlocked
  /\ UNCHANGED <<approvedBy, jobs>>

(* rejected -> new -> pending in one commit, then a job that may not       *)
(* approve; straight to review when extraction is off.                     *)
PortalResubmit ==
  /\ unlocked = "portal"
  /\ \/ /\ "extraction" \in snapshot
        /\ status' = "pending"
        /\ NewJob(TRUE)
     \/ /\ "extraction" \notin snapshot
        /\ status' = "ready_for_review"
        /\ UNCHANGED jobs
  /\ CloseUnlocked
  /\ UNCHANGED approvedBy

---------------------------------------------------------------------------
(* The ERP.  Again the status is committed before the push is dispatched.  *)
Resting(p) == pushes[p].pc \in {"none", "lost"}
NewPush(again) ==
  \E p \in Pushes :
    /\ Resting(p)
    /\ pushes' = [pushes EXCEPT ![p] = [NoPush EXCEPT !.pc = "queued", !.retry = again]]

(* complete_invoice: the next step of the snapshot. *)
CompleteNew ==
  /\ status = "new"
  /\ "approval" \in snapshot
  /\ \/ /\ status' = "approved"               \* below auto_approve_below
        /\ approvedBy' = "system"
     \/ /\ status' = "ready_for_review"
        /\ UNCHANGED approvedBy
  /\ UNCHANGED <<jobs, pushes, unlocked, reaping, progressVars>>

CompleteToErp ==
  /\ status = "approved"
  /\ "erp_export" \in snapshot
  /\ status' = "sending_to_erp"
  /\ NewPush(FALSE)
  /\ UNCHANGED <<approvedBy, jobs, unlocked, reaping, snapshot, erpRetries>>

CompleteToDone ==
  /\ status = "new" => "approval" \notin snapshot
  /\ status = "approved" => "erp_export" \notin snapshot
  /\ Legal(status, "done")
  /\ status' = "done"
  /\ UNCHANGED <<approvedBy, jobs, pushes, unlocked, reaping, progressVars>>

SendToErp ==
  /\ Legal(status, "sending_to_erp")
  /\ status' = "sending_to_erp"
  /\ NewPush(FALSE)
  /\ UNCHANGED <<approvedBy, jobs, unlocked, reaping, snapshot, erpRetries>>

(* The counter is zeroed inside the mapping that was loaded and the same   *)
(* mapping is assigned back: the ORM compares equal and writes nothing.    *)
RetryErp ==
  /\ approvedBy # "nobody"
  /\ Legal(status, "sending_to_erp")
  /\ status' = "sending_to_erp"
  /\ NewPush(TRUE)
  /\ UNCHANGED <<approvedBy, jobs, unlocked, reaping, snapshot, erpRetries>>

(* The task loads the invoice unlocked and resumes at the stored counter;  *)
(* with the budget spent the loop has no turn and the task ends.           *)
StartPush(p) ==
  /\ pushes[p].pc = "queued"
  /\ pushes' = [pushes EXCEPT ![p] =
       IF erpRetries < MAX_RETRIES
       THEN [NoPush EXCEPT !.pc = "calling", !.attempt = erpRetries,
                              !.may = Allows({"sent_to_erp", "failed"})]
       ELSE NoPush]
  /\ UNCHANGED <<status, approvedBy, jobs, unlocked, reaping, progressVars>>

(* sending_to_erp -> sent_to_erp -> done in one commit. *)
PushSucceeds(p) ==
  /\ pushes[p].pc = "calling"
  /\ "sent_to_erp" \in pushes[p].may
  /\ status' = "done"
  /\ erpRetries' = pushes[p].attempt + 1
  /\ pushes' = [pushes EXCEPT ![p] = NoPush]
  /\ UNCHANGED <<approvedBy, jobs, unlocked, reaping, snapshot>>

(* A failed attempt, which a refused move also is, is counted and retried. *)
PushRetries(p) ==
  /\ pushes[p].pc = "calling"
  /\ pushes[p].attempt + 1 < MAX_RETRIES
  /\ erpRetries' = pushes[p].attempt + 1
  /\ pushes' = [pushes EXCEPT ![p].attempt = @ + 1]
  /\ UNCHANGED <<status, approvedBy, jobs, unlocked, reaping, snapshot>>

(* The last one fails the invoice, or is refused and rolled back. *)
\* Mutation: the last failed attempt is only logged.
PushGivesUpQuietly(p) ==
  /\ pushes[p].pc = "calling"
  /\ pushes[p].attempt + 1 = MAX_RETRIES
  /\ pushes' = [pushes EXCEPT ![p] = NoPush]
  /\ UNCHANGED <<status, approvedBy, jobs, unlocked, reaping, progressVars>>

PushGivesUp(p) ==
  /\ pushes[p].pc = "calling"
  /\ pushes[p].attempt + 1 = MAX_RETRIES
  /\ IF "failed" \in pushes[p].may
     THEN /\ status' = "failed"
          /\ erpRetries' = MAX_RETRIES
     ELSE UNCHANGED <<status, erpRetries>>
  /\ pushes' = [pushes EXCEPT ![p] = NoPush]
  /\ UNCHANGED <<approvedBy, jobs, unlocked, reaping, snapshot>>

(* The ERP's own webhook, under the invoice lock.  A move the table does   *)
(* not list, and a paid the settlement does not cover, leave the invoice   *)
(* as it is.                                                               *)
ErpWebhook(t) ==
  /\ Legal(status, t)
  /\ status' = t
  /\ UNCHANGED <<approvedBy, jobs, pushes, unlocked, reaping, progressVars>>

(* A payment run schedules, settles or voids (PaymentRuns). *)
PaymentMoves ==
  /\ \/ status \in {"approved", "posted_in_erp"} /\ status' = "payment_scheduled"
     \/ status = "payment_scheduled" /\ status' = "paid"
     \/ status \in {"payment_scheduled", "paid"} /\ status' = "approved"
  /\ UNCHANGED <<approvedBy, jobs, pushes, unlocked, reaping, progressVars>>

---------------------------------------------------------------------------
(* The process dies: its queue, its tasks and its open requests are gone. *)
WorkflowCrash ==
  /\ jobs' = [j \in Jobs |-> NoJob]
  /\ pushes' = [p \in Pushes |->
                 IF Resting(p) THEN pushes[p] ELSE [NoPush EXCEPT !.pc = "lost"]]
  /\ unlocked' = "none"
  /\ reaping' = FALSE
  /\ UNCHANGED <<status, approvedBy, progressVars>>

WorkflowNext ==
  \/ TriggerExtraction \/ ResetExtraction \/ ReaperScan \/ Reap
  \/ \E j \in Jobs : \/ StartExtraction(j)
                     \/ FinishExtraction(j) \/ FailExtraction(j) \/ RecordFailure(j)
  \/ ApproveInvoice \/ RejectInvoice \/ ResubmitInvoice
  \/ \E t \in UnlockedRequests : OpenUnlocked(t)
  \/ BulkApprove \/ BulkMove \/ PortalResubmit
  \/ CompleteNew \/ CompleteToErp \/ CompleteToDone \/ SendToErp \/ RetryErp
  \/ \E p \in Pushes : \/ StartPush(p)
                       \/ PushSucceeds(p) \/ PushRetries(p) \/ PushGivesUp(p)
  \/ \E t \in {"posted_in_erp", "paid", "failed"} : ErpWebhook(t)
  \/ PaymentMoves
  \/ WorkflowCrash

\* The reaper's loop ticks in every process, and not every tick is struck by
\* a crash between its two reads.
WorkflowFairness == WF_lifecycleVars(ReaperScan) /\ SF_lifecycleVars(Reap)

WorkflowSpec == WorkflowInit /\ [][WorkflowNext]_lifecycleVars /\ WorkflowFairness
---------------------------------------------------------------------------
(* Properties. *)

(* Every column holds a value of its type. *)
WorkflowTypeOK ==
  /\ status \in InvoiceStatus
  /\ approvedBy \in {"nobody", "person", "system"}
  /\ snapshot \in Configurations
  /\ erpRetries \in 0 .. MAX_RETRIES
  /\ jobs \in [Jobs -> JobState]
  /\ pushes \in [Pushes -> PushState]
  /\ unlocked \in UnlockedRequests \union {"none"}
  /\ reaping \in BOOLEAN

(* An invoice that may be paid, is about to be or has been carries the name *)
(* of its approver, whichever of the six doors to approved it came through  *)
(* and whatever overwrote it on the way: the payment controls compare the   *)
(* payer with that name.                                                    *)
PayableIsAttributed ==
  status \in {"approved", "payment_scheduled", "paid"} => approvedBy # "nobody"

(* An invoice in sending_to_erp has a push on its way, unless a crash took  *)
(* the push or the stored counter left it no attempt: as long as its pushes *)
(* come one at a time, there is no third way to be stranded there.          *)
SendingIsOwed ==
  status = "sending_to_erp" =>
    (\E p \in Pushes : pushes[p].pc # "none") \/ erpRetries = MAX_RETRIES

(* POST /{id}/retry-erp gives the push a full budget: the task it queues,   *)
(* once it runs, starts with its first attempt.                             *)
RetryGetsFullBudget ==
  [][ \A p \in Pushes :
        pushes[p].pc = "queued" /\ pushes[p].retry /\ pushes'[p].pc \in {"calling", "none"}
          => pushes'[p].pc = "calling" /\ pushes'[p].attempt = 0 ]_lifecycleVars

(* The reaper never overwrites what an extraction or a person has decided   *)
(* between its two reads.                                                   *)
ReaperSparesResults ==
  [][reaping /\ ~reaping' /\ status' # status => status = "pending"]_lifecycleVars

(* No invoice waits for an extraction for ever, also when a crash took the  *)
(* job or struck between the commit and the dispatch.                       *)
PendingEnds == status = "pending" ~> status # "pending"

---------------------------------------------------------------------------
(* The inductive invariant.  No commit leaves an invoice between the two    *)
(* moves of a push, so a payment schedules approved ones only; a push that  *)
(* calls has an attempt left; and the push of an invoice that is still      *)
(* being sent began from that status, so its end may fail the invoice.      *)
NeverBetween == status \notin {"sent_to_erp", "posted_in_erp"}

AttemptsLeft == \A p \in Pushes : pushes[p].pc = "calling" => pushes[p].attempt < MAX_RETRIES

OnePush == \A p, q \in Pushes : p = q
PushMayFail ==
  status = "sending_to_erp" =>
    \A p \in Pushes : pushes[p].pc = "calling" => "failed" \in pushes[p].may

WorkflowInv == /\ WorkflowTypeOK /\ PayableIsAttributed /\ NeverBetween /\ AttemptsLeft
               /\ OnePush => SendingIsOwed /\ PushMayFail
=============================================================================
