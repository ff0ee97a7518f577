----------------------------- MODULE PaymentRuns -----------------------------
(***************************************************************************)
(* The payments core of FeohLedger: payment runs, the payment rows they    *)
(* book, the requests and the background sweep that move those rows, and   *)
(* the processor behind them (app/api/payments.py, services/payment_runs,  *)
(* services/payment_reconciler, services/payment_erp_sync).                *)
(*                                                                         *)
(* A handler that awaits a processor while it holds a row lock is several  *)
(* steps of a worker: what it read before the await stays in its task, and *)
(* nothing it wrote is visible before its commit.  A handler that neither  *)
(* awaits the outside nor writes what it read unlocked is one step.        *)
(***************************************************************************)
EXTENDS Naturals, FiniteSets

CONSTANTS
    Invoices, Payments, Runs, Workers, Users,
    NoInvoice, NoPayment, NoRun, NoUser,
    Mishaps        \* what may go wrong in this instance, a subset of MishapKinds

MishapKinds ==
    { "crash",            \* a worker dies between two of its steps
      "lost_reply",       \* the processor takes an order and the reply is lost
      "deaf_void",        \* the processor refuses or cannot reverse an order
      "flag_lost",        \* the aged-out flag is not written (its error is only logged)
      "careless_resolve", \* a payment_reconciliation flag is closed unreconciled
      "stale_leg",        \* an ERP-sync leg stalls between its read and its lock
      "stale_rollup",     \* a recompute stalls between its read and its write
      "early_resume",     \* /resume is called while a dispatcher is alive
      "late_flag",        \* a fraud_flag is raised after the run was built
      "erp_push" }        \* invoices are also pushed to an ERP

ASSUME PaymentRunsAssumption ==
    /\ Mishaps \subseteq MishapKinds
    /\ NoInvoice \notin Invoices
    /\ NoPayment \notin Payments
    /\ NoRun \notin Runs
    /\ NoUser \notin Users

-----------------------------------------------------------------------------
(* Statuses.                                                               *)

InvoiceStatuses ==
    { "approved", "sending_to_erp", "sent_to_erp", "posted_in_erp", "failed",
      "payment_scheduled", "paid" }

PAYABLE == {"approved", "posted_in_erp", "payment_scheduled"}

\* Mutation: only an invoice already posted is moved to payment_scheduled.
SCHEDULABLE_posted_only == {"posted_in_erp"}
SCHEDULABLE == {"approved", "posted_in_erp"}

\* The moves VALID_TRANSITIONS allows among the statuses modelled here.
VALID_TRANSITIONS ==
    { <<"approved", "sending_to_erp">>, <<"approved", "payment_scheduled">>,
      <<"sending_to_erp", "sent_to_erp">>, <<"sending_to_erp", "failed">>,
      <<"failed", "sending_to_erp">>, <<"sent_to_erp", "posted_in_erp">>,
      <<"posted_in_erp", "payment_scheduled">>, <<"payment_scheduled", "paid">>,
      <<"payment_scheduled", "approved">>, <<"paid", "approved">> }

PUSH_MOVES ==
    { <<"approved", "sending_to_erp">>, <<"sending_to_erp", "sent_to_erp">>,
      <<"sending_to_erp", "failed">>, <<"failed", "sending_to_erp">>,
      <<"sent_to_erp", "posted_in_erp">> }

\* "none" is a row not inserted yet, "deleted" one that /cancel removed;
\* submitted and processing are one status, and so are failed and cancelled.
PaymentStatuses ==
    { "none", "pending", "submitted", "pending_compliance", "completed",
      "failed", "voided", "deleted" }

\* Outside LIVE_PAYMENT_TERMINAL_STATUSES: the row holds its invoice's slot.
LiveStatuses == {"pending", "submitted", "pending_compliance", "completed"}

RunStatuses ==
    { "none", "draft", "executing", "submitted", "partial", "completed",
      "failed", "cancelled" }

CLAIM_RUN_STATUSES == {"draft", "executing", "cancelled"}
RETRYABLE_RUN_STATUSES == {"partial", "failed"}

Flags == {"payment_reconciliation", "fraud_flag"}

OrderStates == {"none", "open", "settled", "short", "rejected", "reversed"}

\* A row of payments.  `why` classes the failure reason, `ref` says whether
\* provider_payment_id is set, `short` that the settlement on record does not
\* cover the invoice.
Row == [ status : PaymentStatuses, inv : Invoices \cup {NoInvoice},
         run : Runs \cup {NoRun}, retryOf : Payments \cup {NoPayment},
         ref : BOOLEAN, why : {"", "safe", "in_doubt"}, short : BOOLEAN ]

NoRow == [ status |-> "none", inv |-> NoInvoice, run |-> NoRun,
           retryOf |-> NoPayment, ref |-> FALSE, why |-> "", short |-> FALSE ]

NewRow(i, r, old) ==
    [NoRow EXCEPT !.status = "pending", !.inv = i, !.run = r, !.retryOf = old]

RunRow == [ status : RunStatuses, creator : Users \cup {NoUser},
            cfo : {"not_needed", "needed", "given"} ]

NoRunRow == [status |-> "none", creator |-> NoUser, cfo |-> "not_needed"]

\* A worker serves one request.  `at` is the payment row it holds FOR UPDATE,
\* `seen` the status of that row's invoice when it read it (unlocked), `new`
\* the row it will commit, `roll` the run status it will commit ("" for none).
Task == [ kind : {"idle", "dispatch", "release", "void", "dismiss", "leg"},
          stage : {"loop", "gated", "decided", "rolled"},
          user : Users \cup {NoUser}, run : Runs \cup {NoRun},
          todo : SUBSET Payments, at : Payments \cup {NoPayment},
          seen : InvoiceStatuses, new : Row, roll : RunStatuses \cup {""} ]

Idle == [ kind |-> "idle", stage |-> "loop", user |-> NoUser, run |-> NoRun,
          todo |-> {}, at |-> NoPayment, seen |-> "approved", new |-> NoRow,
          roll |-> "" ]

\* The reconciler's loop: the row it polled and the terminal verdict it got.
Verdicts == {"settled", "short", "rejected", "reversed"}
NoSweep == [row |-> NoPayment, verdict |-> "none"]
Sweep == {NoSweep} \cup [row : Payments, verdict : Verdicts]

-----------------------------------------------------------------------------
VARIABLES
    invoice,   \* invoices.status
    flags,     \* the payment-blocking exceptions open on each invoice
    pay,       \* the payments table
    run,       \* the payment_runs table
    task,      \* what each worker is doing
    sweep,     \* the row the reconciler polled and the verdict it got
    order      \* the processor: the order under each row's idempotency key

vars == <<invoice, flags, pay, run, task, sweep, order>>

-----------------------------------------------------------------------------
(* Reading the tables.                                                     *)

Live(p) == pay[p].status \in LiveStatuses
Occupied(i) == \E p \in Payments : pay[p].inv = i /\ Live(p)
Payable(i) == invoice[i] \in PAYABLE

\* Mutation: payment_reconciliation is missing from the blocking types.
BlockedByFraudOnly(i) == "fraud_flag" \in flags[i]
Blocked(i) == flags[i] # {}

\* Mutation: a voided row is armed again in place of a new one.
UnusedOrVoided == {p \in Payments : pay[p].status \in {"none", "voided"}}
Unused == {p \in Payments : pay[p].status = "none"}
Free(p) == \A w \in Workers : task[w].at # p
Attends(w, r) == task[w].kind = "dispatch" /\ task[w].run = r

\* classify_payment_failure: a handle at the processor, or a reason that is
\* not on the safe list, leaves the failure in doubt.
RetrySafe(p) == pay[p].status = "failed" /\ pay[p].why = "safe" /\ ~pay[p].ref

\* The rows of a run that no later attempt replaced, in a given table.
ActiveRows(table, r) ==
    { p \in Payments :
        /\ table[p].run = r
        /\ table[p].status \notin {"none", "deleted"}
        /\ \A q \in Payments :
             ~(table[q].run = r /\ table[q].retryOf = p /\ table[q].status # "deleted") }

\* PaymentRunRollup.run_status over the active rows.
Rollup(table, r) ==
    LET has(S) == \E p \in ActiveRows(table, r) : table[p].status \in S
        failed == has({"failed", "voided"})
        inFlight == has({"submitted", "pending_compliance"})
    IN  CASE failed /\ ~has({"completed"}) /\ ~inFlight -> "failed"
          [] failed /\ (has({"completed"}) \/ inFlight) -> "partial"
          [] ~failed /\ inFlight -> "submitted"
          [] ~failed /\ ~inFlight /\ ActiveRows(table, r) = {} -> "draft"
          [] ~failed /\ ~inFlight /\ has({"pending"}) -> "executing"
          [] OTHER -> "completed"

\* Mutation: claims are derived from the payments like any other status.
DerivedAlways(table, r) == Rollup(table, r)

\* derive_run_status: a claim is reported as it stands.
Derived(table, r) ==
    IF run[r].status \in CLAIM_RUN_STATUSES THEN run[r].status ELSE Rollup(table, r)

-----------------------------------------------------------------------------
(* Booking.                                                                *)

\* create_payment_run_for_invoices: one row per chosen invoice or none at all.
\* Every invoice must pass run_refusal_reasons, and the unique index
\* uq_payments_one_live_per_invoice refuses an occupied one.  Whether the
\* total is above the CFO threshold is left open.
CreateRun(u, r) ==
    /\ run[r].status = "none"
    /\ \E S \in (SUBSET Invoices) \ {{}} :
         /\ \A i \in S : Payable(i) /\ ~Blocked(i) /\ ~Occupied(i)
         /\ \E row \in [S -> Unused] :
              /\ \A i, j \in S : row[i] = row[j] => i = j
              /\ pay' = [p \in Payments |->
                           IF \E i \in S : row[i] = p
                           THEN NewRow(CHOOSE i \in S : row[i] = p, r, NoPayment)
                           ELSE pay[p]]
    /\ \E c \in {"not_needed", "needed"} :
         run' = [run EXCEPT ![r] = [status |-> "draft", creator |-> u, cfo |-> c]]
    /\ UNCHANGED <<invoice, flags, task, sweep, order>>

\* create_payment: a standalone row, booked under the invoice lock; an invoice
\* that already has a live payment gets that one back.
CreatePayment(i, p) ==
    /\ pay[p].status = "none"
    /\ Payable(i) /\ ~Blocked(i) /\ ~Occupied(i)
    /\ pay' = [pay EXCEPT ![p] = NewRow(i, NoRun, NoPayment)]
    /\ UNCHANGED <<invoice, flags, run, task, sweep, order>>

ApproveRun(u, r) ==
    /\ run[r].status = "draft"
    /\ run[r].cfo = "needed"
    /\ run[r].creator # u
    /\ run' = [run EXCEPT ![r].cfo = "given"]
    /\ UNCHANGED <<invoice, flags, pay, task, sweep, order>>

\* cancel_payment_run deletes every row of the run, voided ones too; the
\* DELETE waits for the rows other requests hold.
CancelRun(r) ==
    /\ run[r].status = "draft"
    /\ \A p \in Payments : pay[p].run = r => Free(p)
    /\ run' = [run EXCEPT ![r].status = "cancelled"]
    /\ pay' = [p \in Payments |->
                 IF pay[p].run = r THEN [pay[p] EXCEPT !.status = "deleted"] ELSE pay[p]]
    /\ UNCHANGED <<invoice, flags, task, sweep, order>>

-----------------------------------------------------------------------------
(* Claiming a run: the claim is committed before the dispatch pass starts, *)
(* which then reads the pending rows without a lock.                       *)

\* Mutation: the bulk read leaves out the rows booked by a retry.
FirstAttemptsOf(table, r) ==
    {p \in Payments : /\ table[p].run = r /\ table[p].status = "pending"
                      /\ table[p].retryOf = NoPayment}
PendingOf(table, r) == {p \in Payments : table[p].run = r /\ table[p].status = "pending"}

StartDispatch(w, u, r, table) ==
    task' = [task EXCEPT ![w] =
        [Idle EXCEPT !.kind = "dispatch", !.user = u, !.run = r,
                     !.todo = PendingOf(table, r)]]

\* Mutation: a run the CFO approved is exempt from segregation.
MayDispatchIfApproved(u, r) == run[r].creator # u \/ run[r].cfo = "given"
MayDispatch(u, r) == run[r].creator # u

Execute(w, u, r) ==
    /\ task[w] = Idle
    /\ run[r].status = "draft"
    /\ MayDispatch(u, r)
    /\ run[r].cfo # "needed"
    /\ run' = [run EXCEPT ![r].status = "executing"]
    /\ StartDispatch(w, u, r, pay)
    /\ UNCHANGED <<invoice, flags, pay, sweep, order>>

\* /resume is for a run whose dispatcher is known to be gone.
Resume(w, u, r) ==
    /\ task[w] = Idle
    /\ run[r].status = "executing"
    /\ MayDispatch(u, r)
    /\ "early_resume" \notin Mishaps => \A v \in Workers : ~Attends(v, r)
    /\ StartDispatch(w, u, r, pay)
    /\ UNCHANGED <<invoice, flags, pay, run, sweep, order>>

\* /retry-failed books a new row for every failed one that is provably safe to
\* send again, and leaves the old row as it is.  A live card or a changed net
\* amount may skip any of them, so any subset of the eligible rows is booked.

\* Mutation: nothing asks whether the slot was taken again meanwhile.
RetryableIfOccupied(r) ==
    {p \in ActiveRows(pay, r) : RetrySafe(p) /\ Payable(pay[p].inv) /\ ~Blocked(pay[p].inv)}

Retryable(r) ==
    { p \in ActiveRows(pay, r) : /\ RetrySafe(p)
                                 /\ Payable(pay[p].inv)
                                 /\ ~Blocked(pay[p].inv)
                                 /\ ~Occupied(pay[p].inv) }

RetryFailed(w, u, r) ==
    /\ task[w] = Idle
    /\ Derived(pay, r) \in RETRYABLE_RUN_STATUSES
    /\ MayDispatch(u, r)
    /\ run[r].cfo # "needed"
    /\ \E S \in SUBSET Retryable(r) : \E row \in [S -> Unused] :
         /\ \A p, q \in S : p # q => row[p] # row[q] /\ pay[p].inv # pay[q].inv
         /\ LET table == [q \in Payments |->
                            IF \E p \in S : row[p] = q
                            THEN LET old == CHOOSE p \in S : row[p] = q
                                 IN  NewRow(pay[old].inv, r, old)
                            ELSE pay[q]]
            IN  pay' = table /\ StartDispatch(w, u, r, table)
    /\ run' = [run EXCEPT ![r].status = "executing"]
    /\ UNCHANGED <<invoice, flags, sweep, order>>

-----------------------------------------------------------------------------
(* _execute_single_payment, run by a dispatch pass or by /compliance/release. *)

\* A failure the code takes for provably unsent, and one it cannot vouch for.
Refused(row) == [row EXCEPT !.status = "failed", !.why = "safe"]

\* Mutation: unexpected_error:* is on the safe list.
InDoubtIsSafe(row) == [row EXCEPT !.status = "failed", !.why = "safe"]
InDoubt(row) == [row EXCEPT !.status = "failed", !.why = "in_doubt"]

\* The gates on the invoice, read without locking it.  A refusal is recorded
\* as retry-safe: no order exists yet, says the code.
Gated(t, p) ==
    IF Payable(pay[p].inv) /\ ~Blocked(pay[p].inv)
    THEN [t EXCEPT !.at = p, !.stage = "gated", !.seen = invoice[pay[p].inv]]
    ELSE [t EXCEPT !.at = p, !.stage = "decided",
                   !.new = Refused(pay[p])]

\* The dispatch loop locks the row and checks it is still pending.
DispatchRow(w, p) ==
    /\ task[w].kind = "dispatch" /\ task[w].stage = "loop"
    /\ p \in task[w].todo
    /\ Free(p)
    /\ LET t == [task[w] EXCEPT !.todo = @ \ {p}]
       IN  task' = [task EXCEPT ![w] = IF pay[p].status = "pending" THEN Gated(t, p) ELSE t]
    /\ UNCHANGED <<invoice, flags, pay, run, sweep, order>>

Release(w, p) ==
    /\ task[w] = Idle
    /\ Free(p)
    /\ pay[p].status = "pending_compliance"
    /\ task' = [task EXCEPT ![w] = Gated([Idle EXCEPT !.kind = "release"], p)]
    /\ UNCHANGED <<invoice, flags, pay, run, sweep, order>>

Decide(w, new, state) ==
    LET p == task[w].at
    IN  /\ task' = [task EXCEPT ![w].stage = "decided", ![w].new = new]
        /\ order' = [order EXCEPT ![p] = state]
        /\ UNCHANGED <<invoice, flags, pay, run, sweep>>

\* A live card, a changed net amount, an FX corridor, compliance or the
\* adapter's own pre-flight check refuses before anything is sent.
Refuse(w) ==
    /\ task[w].stage = "gated"
    /\ LET p == task[w].at
       IN  Decide(w, Refused(pay[p]), order[p])

\* Compliance holds the row, or there is no vendor to screen.
Hold(w) ==
    /\ task[w].stage = "gated"
    /\ LET p == task[w].at
       IN  Decide(w, [pay[p] EXCEPT !.status = "pending_compliance"], order[p])

\* adapter.create_payment under the row's idempotency key: a first call makes
\* an order, a repeated one returns the order that exists.  A refusal by the
\* processor leaves a failed row with a handle, hence in doubt.

\* Mutation: a refusal by the processor is stored under the processor's name.
ReplyUnmapped(state) == IF state \in {"settled", "short"} THEN "completed"
                        ELSE IF state = "open" THEN "submitted" ELSE state
Reply(state) == IF state \in {"settled", "short"} THEN "completed"
                ELSE IF state = "open" THEN "submitted" ELSE "failed"

Send(w) ==
    /\ task[w].stage = "gated"
    /\ LET p == task[w].at
       IN  \E state \in IF order[p] = "none" THEN {"open", "settled", "rejected"}
                        ELSE {order[p]} :
             Decide(w, [pay[p] EXCEPT !.status = Reply(state), !.ref = TRUE,
                                      !.why = IF Reply(state) = "failed" THEN "in_doubt" ELSE ""],
                    state)

\* An adapter that raises: unexpected_error:*, in doubt.  The request may or
\* may not have arrived.
Raise(w) ==
    /\ task[w].stage = "gated"
    /\ LET p == task[w].at
       IN  \E state \in {order[p]} \cup
                        (IF "lost_reply" \in Mishaps /\ order[p] = "none" THEN {"open"} ELSE {}) :
             Decide(w, InDoubt(pay[p]), state)

-----------------------------------------------------------------------------
(* /void and /compliance/dismiss.                                          *)

\* The row is locked, its invoice read, and the processor asked to reverse the
\* order if the row knows its handle; the void lands whatever the answer.
Void(w, p) ==
    /\ task[w] = Idle
    /\ Free(p)
    /\ Live(p)
    /\ task' = [task EXCEPT ![w] =
         [Idle EXCEPT !.kind = "void", !.stage = "decided", !.at = p,
                      !.seen = invoice[pay[p].inv],
                      !.new = [pay[p] EXCEPT !.status = "voided"]]]
    /\ \E state \in IF pay[p].ref /\ order[p] \in {"open", "settled", "short"}
                    THEN {"reversed"} \cup (IF "deaf_void" \in Mishaps THEN {order[p]} ELSE {})
                    ELSE {order[p]} :
         order' = [order EXCEPT ![p] = state]
    /\ UNCHANGED <<invoice, flags, pay, run, sweep>>

Dismiss(w, p) ==
    /\ task[w] = Idle
    /\ Free(p)
    /\ pay[p].status = "pending_compliance"
    /\ task' = [task EXCEPT ![w] =
         [Idle EXCEPT !.kind = "dismiss", !.stage = "decided", !.at = p,
                      !.new = Refused(pay[p])]]
    /\ UNCHANGED <<invoice, flags, pay, run, sweep, order>>

-----------------------------------------------------------------------------
(* Committing what a worker decided for the row it holds.                  *)

Table(w) == [pay EXCEPT ![task[w].at] = task[w].new]

\* _recompute_parent_run_status, outside the dispatch pass only: "" when there
\* is no run or the value would not change.
Recomputed(w) ==
    LET r == task[w].new.run
    IN  IF task[w].kind = "dispatch" \/ r = NoRun THEN ""
        ELSE IF Derived(Table(w), r) = run[r].status THEN "" ELSE Derived(Table(w), r)

\* The recompute reads the run unlocked; its write can come later.
ReadRun(w) ==
    /\ "stale_rollup" \in Mishaps
    /\ task[w].stage = "decided"
    /\ task[w].kind # "dispatch"
    /\ task' = [task EXCEPT ![w].stage = "rolled", ![w].roll = Recomputed(w)]
    /\ UNCHANGED <<invoice, flags, pay, run, sweep, order>>

\* Mutation: a void reopens a scheduled invoice, not a paid one.
InvoiceWriteNotPaid(t) ==
    CASE /\ t.kind \in {"dispatch", "release"}
         /\ t.new.status \in {"submitted", "completed"}
         /\ t.seen \in SCHEDULABLE                     -> "payment_scheduled"
      [] t.kind = "void" /\ t.seen = "payment_scheduled" -> "approved"
      [] OTHER -> invoice[t.new.inv]

\* What the commit writes on the invoice, decided on the status seen earlier.
InvoiceWrite(t) ==
    CASE /\ t.kind \in {"dispatch", "release"}
         /\ t.new.status \in {"submitted", "completed"}
         /\ t.seen \in SCHEDULABLE                     -> "payment_scheduled"
      [] t.kind = "void" /\ t.seen \in {"payment_scheduled", "paid"} -> "approved"
      [] OTHER -> invoice[t.new.inv]

Commit(w) ==
    /\ task[w].stage \in {"decided", "rolled"}
    /\ LET t == task[w]
           roll == IF t.stage = "rolled" THEN t.roll ELSE Recomputed(w)
       IN  /\ pay' = Table(w)
           /\ invoice' = [invoice EXCEPT ![t.new.inv] = InvoiceWrite(t)]
           /\ run' = IF roll = "" THEN run ELSE [run EXCEPT ![t.new.run].status = roll]
           /\ task' = [task EXCEPT ![w] =
                IF t.kind = "dispatch"
                THEN [Idle EXCEPT !.kind = "dispatch", !.user = t.user, !.run = t.run,
                                  !.todo = t.todo]
                ELSE Idle]
    /\ UNCHANGED <<flags, sweep, order>>

\* The end of _dispatch_run_payments: the rollup is written whatever the run's
\* status has become; "executing" is the value the pass loaded, so writing it
\* again is no write.
Finish(w) ==
    /\ task[w].kind = "dispatch" /\ task[w].stage = "loop"
    /\ task[w].todo = {}
    /\ LET r == task[w].run
       IN  run' = IF Rollup(pay, r) = "executing" THEN run
                  ELSE [run EXCEPT ![r].status = Rollup(pay, r)]
    /\ task' = [task EXCEPT ![w] = Idle]
    /\ UNCHANGED <<invoice, flags, pay, sweep, order>>

\* The process dies: the open transaction is rolled back.
Crash(w) ==
    /\ "crash" \in Mishaps
    /\ task[w].kind # "idle"
    /\ task' = [task EXCEPT ![w] = Idle]
    /\ UNCHANGED <<invoice, flags, pay, run, sweep, order>>

-----------------------------------------------------------------------------
(* Settlement: the webhook, the reconciler, the ERP-sync leg, acceptance.  *)

\* The row and the flags once the processor's verdict is recorded: a
\* settlement that does not cover the instruction opens a fraud_flag.
Settled(row, verdict) ==
    [row EXCEPT !.status = IF verdict \in {"settled", "short"} THEN "completed" ELSE "failed",
                !.why = IF verdict \in {"settled", "short"} THEN "" ELSE "in_doubt",
                !.short = (verdict = "short")]

Record(p, verdict) ==
    /\ pay' = [pay EXCEPT ![p] = Settled(@, verdict)]
    /\ flags' = IF verdict = "short" THEN [flags EXCEPT ![pay[p].inv] = @ \cup {"fraud_flag"}]
                ELSE flags

\* Mutation: a blocklist of terminal statuses that forgot `voided`.
OVERWRITABLE_blocklist == PaymentStatuses \ {"none", "completed", "failed"}

\* Mutation: a late webhook may correct a failed row.
OVERWRITABLE_or_failed == {"pending", "submitted", "failed"}
OVERWRITABLE == {"pending", "submitted"}

\* payment_webhook finds the row by its handle and advances it only from an
\* in-flight status.  It may be delivered at any time, any number of times.
Webhook(p) ==
    /\ order[p] \in Verdicts
    /\ pay[p].ref
    /\ Free(p)
    /\ pay[p].status \in OVERWRITABLE
    /\ Record(p, order[p])
    /\ UNCHANGED <<invoice, run, task, sweep, order>>

\* _reconcile_tenant takes one row at a time: it polls without a lock, then
\* locks, checks the row again and writes the verdict it got.
SweepPoll(p) ==
    /\ sweep = NoSweep
    /\ pay[p].status = "submitted" /\ pay[p].ref
    /\ order[p] \in Verdicts
    /\ sweep' = [row |-> p, verdict |-> order[p]]
    /\ UNCHANGED <<invoice, flags, pay, run, task, order>>

SweepApply ==
    /\ sweep # NoSweep
    /\ Free(sweep.row)
    /\ IF pay[sweep.row].status = "submitted" THEN Record(sweep.row, sweep.verdict)
       ELSE UNCHANGED <<pay, flags>>
    /\ sweep' = NoSweep
    /\ UNCHANGED <<invoice, run, task, order>>

\* Mutation: only a row without a handle is given up.
StuckWithoutHandle == {p \in Payments : pay[p].status = "submitted" /\ ~pay[p].ref}
Stuck == {p \in Payments : pay[p].status = "submitted"}

\* A row past its maximum age is given up, without asking the processor.
AgeOut(p) ==
    /\ sweep = NoSweep
    /\ p \in Stuck
    /\ Free(p)
    /\ pay' = [pay EXCEPT ![p] = InDoubt(@)]
    /\ \/ flags' = [flags EXCEPT ![pay[p].inv] = @ \cup {"payment_reconciliation"}]
       \/ "flag_lost" \in Mishaps /\ UNCHANGED flags
    /\ UNCHANGED <<invoice, run, task, sweep, order>>

\* _sync_one_leg: the row is read unlocked, then the invoice FOR UPDATE.
LegPays(p) == invoice[pay[p].inv] = "payment_scheduled" /\ ~pay[p].short

SyncLeg(p) ==
    /\ pay[p].status = "completed" /\ pay[p].run # NoRun
    /\ LegPays(p)
    /\ invoice' = [invoice EXCEPT ![pay[p].inv] = "paid"]
    /\ UNCHANGED <<flags, pay, run, task, sweep, order>>

\* The same leg, with other requests between the read and the lock.
LegRead(w, p) ==
    /\ "stale_leg" \in Mishaps
    /\ task[w] = Idle
    /\ pay[p].status = "completed" /\ pay[p].run # NoRun
    /\ task' = [task EXCEPT ![w] = [Idle EXCEPT !.kind = "leg", !.todo = {p}]]
    /\ UNCHANGED <<invoice, flags, pay, run, sweep, order>>

LegApply(w) ==
    /\ task[w].kind = "leg"
    /\ \E p \in task[w].todo :
         invoice' = IF LegPays(p) THEN [invoice EXCEPT ![pay[p].inv] = "paid"] ELSE invoice
    /\ task' = [task EXCEPT ![w] = Idle]
    /\ UNCHANGED <<flags, pay, run, sweep, order>>

AcceptSettlement(p) ==
    /\ Free(p)
    /\ pay[p].status = "completed" /\ pay[p].short
    /\ invoice[pay[p].inv] = "payment_scheduled"
    /\ invoice' = [invoice EXCEPT ![pay[p].inv] = "paid"]
    /\ UNCHANGED <<flags, pay, run, task, sweep, order>>

-----------------------------------------------------------------------------
(* What surrounds the payments: exceptions, the ERP push, the processor.   *)

\* A bank-detail change, a duplicate or an altered cheque flags an invoice.
RaiseFlag(i) ==
    /\ "late_flag" \in Mishaps
    /\ "fraud_flag" \notin flags[i]
    /\ flags' = [flags EXCEPT ![i] = @ \cup {"fraud_flag"}]
    /\ UNCHANGED <<invoice, pay, run, task, sweep, order>>

\* A person closes an exception; a payment_reconciliation one after making
\* sure that no order the invoice's failed rows left is still alive.
Reconciled(i) ==
    \A p \in Payments : pay[p].inv = i /\ pay[p].status = "failed" =>
        order[p] \notin {"open", "settled", "short"}

ResolveFlag(i, e) ==
    /\ e \in flags[i]
    /\ e = "payment_reconciliation" => Reconciled(i) \/ "careless_resolve" \in Mishaps
    /\ flags' = [flags EXCEPT ![i] = @ \ {e}]
    /\ UNCHANGED <<invoice, pay, run, task, sweep, order>>

\* send-to-erp, retry-erp and the ERP's answers, each under the invoice lock.
ErpPush(i) ==
    /\ "erp_push" \in Mishaps
    /\ \E move \in PUSH_MOVES :
         invoice[i] = move[1] /\ invoice' = [invoice EXCEPT ![i] = move[2]]
    /\ UNCHANGED <<flags, pay, run, task, sweep, order>>

ProcessorDecides(p) ==
    /\ order[p] = "open"
    /\ \E state \in {"settled", "short", "rejected"} : order' = [order EXCEPT ![p] = state]
    /\ UNCHANGED <<invoice, flags, pay, run, task, sweep>>

-----------------------------------------------------------------------------
Init ==
    /\ invoice = [i \in Invoices |-> "approved"]
    /\ flags = [i \in Invoices |-> {}]
    /\ pay = [p \in Payments |-> NoRow]
    /\ run = [r \in Runs |-> NoRunRow]
    /\ task = [w \in Workers |-> Idle]
    /\ sweep = NoSweep
    /\ order = [p \in Payments |-> "none"]

Booking ==
    \/ \E u \in Users, r \in Runs : CreateRun(u, r) \/ ApproveRun(u, r)
    \/ \E i \in Invoices, p \in Payments : CreatePayment(i, p)
    \/ \E r \in Runs : CancelRun(r)

Request(w) ==
    \/ \E u \in Users, r \in Runs : Execute(w, u, r) \/ Resume(w, u, r) \/ RetryFailed(w, u, r)
    \/ \E p \in Payments : Release(w, p) \/ Void(w, p) \/ Dismiss(w, p) \/ LegRead(w, p)

\* The steps of a request under way.
Work(w) ==
    \/ \E p \in Payments : DispatchRow(w, p)
    \/ Refuse(w) \/ Hold(w) \/ Send(w) \/ Raise(w)
    \/ ReadRun(w) \/ Commit(w) \/ Finish(w) \/ LegApply(w)

Settlement ==
    \/ \E p \in Payments : Webhook(p) \/ SweepPoll(p) \/ AgeOut(p) \/ SyncLeg(p) \/ AcceptSettlement(p)
    \/ SweepApply

Surroundings ==
    \/ \E i \in Invoices : RaiseFlag(i) \/ ErpPush(i)
    \/ \E i \in Invoices, e \in Flags : ResolveFlag(i, e)
    \/ \E p \in Payments : ProcessorDecides(p)

Next ==
    \/ Booking
    \/ \E w \in Workers : Request(w) \/ Work(w) \/ Crash(w)
    \/ Settlement
    \/ Surroundings

Spec == Init /\ [][Next]_vars

\* Requests under way finish, and the reconciler's loop keeps visiting every
\* row: what was polled is written, what is too old is given up.
Fairness ==
    /\ \A w \in Workers : WF_vars(Work(w))
    /\ \A p \in Payments : WF_vars(AgeOut(p))
    /\ WF_vars(SweepApply)

FairSpec == Spec /\ Fairness

-----------------------------------------------------------------------------
(* Properties.                                                             *)

TypeOK ==
    /\ invoice \in [Invoices -> InvoiceStatuses]
    /\ flags \in [Invoices -> SUBSET Flags]
    /\ pay \in [Payments -> Row]
    /\ run \in [Runs -> RunRow]
    /\ task \in [Workers -> Task]
    /\ sweep \in Sweep
    /\ order \in [Payments -> OrderStates]

\* At most one payment row holds an invoice's slot: what the unique index
\* uq_payments_one_live_per_invoice enforces at every write.
OneLivePayment ==
    \A p, q \in Payments :
        Live(p) /\ Live(q) /\ pay[p].inv = pay[q].inv => p = q

\* A failure that /retry-failed may send again left no order at the processor
\* (classify_payment_failure: "provably never left this process").
RetrySafeMeansNoOrder ==
    \A p \in Payments : RetrySafe(p) => order[p] = "none"

\* An order that may move money, or has moved it.
MovesMoney(p) == order[p] \in {"open", "settled", "short"}

\* The vendor is never paid twice: at most one order of an invoice's rows is
\* open or settled.
OneOrderPerInvoice ==
    \A p, q \in Payments :
        MovesMoney(p) /\ MovesMoney(q) /\ pay[p].inv = pay[q].inv => p = q

\* While an aged-out payment awaits reconciliation nothing of its invoice is in
\* flight, nor past the gates of a dispatch that has not committed yet.
ReconciliationBlocks ==
    \A i \in Invoices : "payment_reconciliation" \in flags[i] =>
        /\ \A p \in Payments : pay[p].inv = i => pay[p].status \notin {"submitted", "completed"}
        /\ \A w \in Workers : task[w].stage = "gated" => pay[task[w].at].inv # i

\* An invoice is marked paid by a payment that settled and has not been voided
\* since (_sync_one_leg: "only a payment we believe actually settled").
PaidMeansCompleted ==
    \A i \in Invoices : invoice[i] = "paid" =>
        \E p \in Payments : pay[p].inv = i /\ pay[p].status = "completed"

\* Money is in flight, or settled and not yet synced, only for an invoice the
\* queue shows as scheduled or paid.
InFlightIsScheduled ==
    \A p \in Payments : pay[p].status \in {"submitted", "completed"} =>
        invoice[pay[p].inv] \in {"payment_scheduled", "paid"}

\* The queue and the money agree: what is marked paid was paid, and what is in
\* flight is on the queue.
InvoiceFollowsPayments == PaidMeansCompleted /\ InFlightIsScheduled

\* A pending row of a run that left draft is always picked up: a dispatcher is
\* at work on the run, or the run is still executing and /resume will take it.
NoStrandedRow ==
    \A p \in Payments :
        pay[p].status = "pending" /\ pay[p].run # NoRun =>
            \/ run[pay[p].run].status \in {"draft", "executing"}
            \/ \E w \in Workers : Attends(w, pay[p].run)

\* Segregation of duties: whoever dispatches a run is not its creator, and the
\* CFO has approved it when that was needed.
MakerChecker ==
    \A w \in Workers : task[w].kind = "dispatch" =>
        run[task[w].run].creator # task[w].user /\ run[task[w].run].cfo # "needed"

\* No status is left but to a legal successor, whoever writes the row: a
\* finished attempt is never reopened, a settled one can only be voided, one
\* that was sent never goes back to waiting, and nothing sent is ever deleted.
PAYMENT_MOVES ==
    { <<"none", "pending">>, <<"pending", "submitted">>, <<"pending", "pending_compliance">>,
      <<"pending", "completed">>, <<"pending", "failed">>, <<"pending", "voided">>,
      <<"pending", "deleted">>, <<"voided", "deleted">>, <<"pending_compliance", "submitted">>,
      <<"pending_compliance", "completed">>, <<"pending_compliance", "failed">>,
      <<"pending_compliance", "voided">>, <<"submitted", "completed">>,
      <<"submitted", "failed">>, <<"submitted", "voided">>, <<"completed", "voided">> }

AttemptsMoveForward ==
    [][\A p \in Payments :
         /\ pay'[p].status # pay[p].status => <<pay[p].status, pay'[p].status>> \in PAYMENT_MOVES
         /\ pay[p].ref => pay'[p].ref /\ pay'[p].status # "deleted"]_vars

\* Invoice statuses follow VALID_TRANSITIONS in the database, not only in the
\* session that checked them.
WorkflowRespected ==
    [][\A i \in Invoices : invoice'[i] # invoice[i] =>
         <<invoice[i], invoice'[i]>> \in VALID_TRANSITIONS]_vars

\* Only the pass that holds a run ends the claim (CLAIM_RUN_STATUSES: a rollup
\* must not "un-claim a run mid-dispatch").
ClaimsHold ==
    [][\A r \in Runs : run[r].status = "executing" /\ run'[r].status # "executing" =>
         \E w \in Workers : Attends(w, r) /\ task'[w] = Idle]_vars

\* A payment in flight is resolved in the end, without any webhook: polled or
\* given up by the reconciler, or voided.
InFlightEnds == \A p \in Payments : pay[p].status = "submitted" ~> pay[p].status # "submitted"

\* A claimed run is released by its pass, with none of its rows still pending.
ClaimEnds ==
    \A r \in Runs : run[r].status = "executing" ~>
        run[r].status # "executing" /\ PendingOf(pay, r) = {}

\* Nothing waits for ever: neither a payment in flight nor a claimed run.
PaymentsResolve == InFlightEnds /\ ClaimEnds

\* The live row of an invoice seen as the holder of its slot.
PhaseOf(status) == CASE status \in {"pending", "pending_compliance"} -> "booked"
                     [] status = "submitted" -> "sent"
                     [] status = "completed" -> "settled"

SlotOf(i) ==
    IF Occupied(i)
    THEN LET p == CHOOSE p \in Payments : pay[p].inv = i /\ Live(p)
         IN  [attempt |-> p, phase |-> PhaseOf(pay[p].status)]
    ELSE [attempt |-> NoPayment, phase |-> "booked"]

Slots == INSTANCE InvoiceSlot WITH
    Attempts <- Payments,
    NoAttempt <- NoPayment,
    slot <- [i \in Invoices |-> SlotOf(i)],
    closed <- {p \in Payments : pay[p].status \in {"failed", "voided", "deleted"}}

\* The payments core implements the abstract slot: no handler, in any order,
\* reopens an attempt, gives an invoice two, or takes a sent one back.
OneAttemptAtATime == Slots!SlotSpec

-----------------------------------------------------------------------------
(* The inductive invariant behind the theorems.                            *)

\* What the columns of a row must agree on, and a run has rows that count.
RowsAgree ==
    /\ \A p \in Payments : pay[p].status # "none" =>
         /\ pay[p].inv \in Invoices
         /\ pay[p].run # NoRun => run[pay[p].run].status # "none"
    /\ \A p \in Payments : pay[p].status = "none" => pay[p] = NoRow
    /\ \A p, q \in Payments : pay[p].retryOf = q => pay[q].status # "none"
    /\ \A r \in Runs : run[r].status \notin {"none", "cancelled"} => ActiveRows(pay, r) # {}

\* What a worker may hold: a live row, one that was still to be sent if its
\* gates were passed; what it decided keeps the row's identity and is a legal
\* move from where the row stands.
Holding(t) ==
    /\ t.at = NoPayment <=> t.stage = "loop"
    /\ t.at # NoPayment => Live(t.at)
    /\ t.stage = "gated" => /\ pay[t.at].status \in {"pending", "pending_compliance"}
                            /\ t.kind \in {"dispatch", "release"}
    /\ t.stage \in {"decided", "rolled"} =>
         LET old == pay[t.at]
         IN  /\ t.new.inv = old.inv /\ t.new.run = old.run /\ t.new.retryOf = old.retryOf
             /\ old.ref => t.new.ref
             /\ t.new.status = old.status \/ <<old.status, t.new.status>> \in PAYMENT_MOVES
             /\ t.new.status \notin {"none", "deleted"}
             /\ t.kind = "void" => t.new.status = "voided" /\ t.new.ref = old.ref

\* A row lock is held by one worker.
Locks ==
    /\ \A w, v \in Workers : task[w].at # NoPayment /\ task[w].at = task[v].at => w = v
    /\ \A w \in Workers : Holding(task[w])

\* Nothing of a draft run has been sent or is about to be: only a void touches
\* its rows, and no pending rollup can put a run back to draft.
Dispatched(r) == run[r].status \notin {"none", "draft", "cancelled"}

DraftsUntouched(t) ==
    /\ t.kind = "dispatch" =>
         /\ t.run # NoRun /\ Dispatched(t.run)
         /\ \A p \in t.todo : pay[p].run = t.run
    /\ t.at # NoPayment /\ t.kind # "void" =>
         pay[t.at].run = NoRun \/ Dispatched(pay[t.at].run)
    /\ t.roll # "" =>
         /\ t.stage = "rolled" /\ t.roll \notin {"none", "draft", "cancelled"}
         /\ t.new.run # NoRun /\ Dispatched(t.new.run)

DraftsUnsent ==
    /\ \A p \in Payments :
         pay[p].run # NoRun /\ ~Dispatched(pay[p].run) =>
             pay[p].status \in {"pending", "voided", "deleted"} /\ ~pay[p].ref
    /\ \A p \in Payments : pay[p].status = "deleted" => ~pay[p].ref
    /\ \A w \in Workers : DraftsUntouched(task[w])

IInv == TypeOK /\ RowsAgree /\ Locks /\ DraftsUnsent /\ OneLivePayment

-----------------------------------------------------------------------------
(* What the promises about money rest on besides: MoneyInv.                 *)

\* A row that was never sent knows no handle.  Only a void holds a row that
\* was; what a worker decides moves the row on, and into flight only if the
\* worker sends.  The rows of a cancelled run are gone.
Waiting == {"pending", "pending_compliance"}
Decided(t) == t.stage \in {"decided", "rolled"}

Sending(t) ==
    /\ t.kind \in {"idle", "leg"} => t.at = NoPayment
    /\ t.at # NoPayment /\ t.kind # "void" => pay[t.at].status \in Waiting
    /\ Decided(t) =>
         /\ t.new.status # "pending"
         /\ t.new.status = "pending_compliance" => ~t.new.ref
         /\ t.new.status \in {"submitted", "completed"} => t.kind \in {"dispatch", "release"}

UnsentRows ==
    /\ \A p \in Payments : pay[p].status \in Waiting => ~pay[p].ref
    /\ \A w \in Workers : Sending(task[w])
    /\ \A p \in Payments : pay[p].run # NoRun /\ run[pay[p].run].status = "cancelled" =>
         pay[p].status = "deleted"

\* The flag of a payment that was given up keeps the slot it freed empty.
FlagsBar ==
    \A i \in Invoices : "payment_reconciliation" \in flags[i] => ~Occupied(i)

\* Where no worker dies, an order at the processor shows in its row, or in
\* what the worker that holds the row is about to commit: by a handle, or by a
\* failure that is in doubt.
Known(row) == row.ref \/ (row.status = "failed" /\ row.why = "in_doubt")

OrdersKnown ==
    \A p \in Payments : order[p] # "none" =>
        \/ Known(pay[p])
        \/ \E w \in Workers : task[w].at = p /\ Decided(task[w]) /\ Known(task[w].new)

\* And every pending row of a dispatched run is one that some pass has yet to
\* send, or is sending.
Attended(p) ==
    \E w \in Workers : Attends(w, pay[p].run) /\ (p \in task[w].todo \/ task[w].at = p)

PickedUp ==
    \A p \in Payments :
        pay[p].status = "pending" /\ pay[p].run # NoRun /\ Dispatched(pay[p].run) => Attended(p)

\* Where no leg stalls, the invoice of a row in flight, or about to be, is
\* where the commit of the row's holder expects it.
Expected(t) ==
    /\ t.kind # "leg"
    /\ t.at # NoPayment /\ t.kind = "void" /\ pay[t.at].status \in {"submitted", "completed"} =>
         t.seen \in {"payment_scheduled", "paid"}
    /\ t.stage = "gated" \/ (Decided(t) /\ t.new.status \in {"submitted", "completed"}) =>
         \/ t.seen \in SCHEDULABLE
         \/ t.seen = "payment_scheduled" /\ invoice[pay[t.at].inv] = "payment_scheduled"

QueueAgrees == InvoiceFollowsPayments /\ \A w \in Workers : Expected(task[w])

\* Where replies and reversals arrive and flags are kept, money moves for rows
\* that hold the slot and for given-up ones whose flag bars it.
OrdersHeld ==
    /\ \A p \in Payments : MovesMoney(p) =>
         \/ Live(p)
         \/ pay[p].status = "failed" /\ "payment_reconciliation" \in flags[pay[p].inv]
    /\ \A w \in Workers : Decided(task[w]) /\ task[w].new.status \in {"failed", "voided"} =>
         ~MovesMoney(task[w].at)
    /\ sweep # NoSweep /\ sweep.verdict \in {"rejected", "reversed"} =>
         order[sweep.row] \in {"rejected", "reversed"}

\* The mishaps that leave an order behind a row that frees its slot.
SlipAway == {"crash", "lost_reply", "deaf_void", "flag_lost", "careless_resolve"}

MoneyInv ==
    /\ IInv /\ UnsentRows /\ FlagsBar
    /\ "crash" \notin Mishaps => OrdersKnown /\ PickedUp
    /\ "stale_leg" \notin Mishaps => QueueAgrees
    /\ Mishaps \cap SlipAway = {} => OneOrderPerInvoice /\ OrdersHeld
=============================================================================
