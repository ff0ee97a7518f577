# Formal models of FeohLedger

FeohLedger is an accounts-payable system: a FastAPI backend (`src/backend/app`),
a web client and a mobile client. Invoices arrive, are extracted, reviewed and
approved by a chain of people, pushed to an ERP and paid through payment
processors; around them are cards, discounts, credit memos, recurring invoices,
purchasing, expenses, bank statements, subscriptions and an audit trail. This
directory holds TLA+ models of the parts whose steps interleave, the TLC
instances that check them, and TLAPS proofs about the part that moves money and
about the smaller parts around it.

Paths below are relative to `src/backend/app` unless they start with `src/`.

## 1. Inventory

| Component | State it keeps | Operations | What makes it hard | What makes it correct |
|---|---|---|---|---|
| **Payment runs and payments** (`api/payments.py`, `services/payment_runs.py`, `models/payment.py`) | `payments`, `payment_runs`, the partial unique index `uq_payments_one_live_per_invoice` | create run or payment, approve, execute, resume, retry-failed, cancel, void, release, dismiss, accept | a dispatch pass commits row by row around awaits of a processor; two passes may serve one run; the invoice is read unlocked | one live payment and one order per invoice; nothing sent is lost, reopened or stranded; claims hold |
| **Payment controls** (`services/payment_controls.py`) | none | segregation, CFO gate | three ways to dispatch a run | nobody dispatches the run he created, or one the CFO has not approved |
| **Payment webhook** (`api/payments.py:4130`) | Redis dedup claim | advance a payment | late, repeated, reordered, lost | advances only payments in flight |
| **Payment reconciler** (`services/payment_reconciler.py`) | none | poll, settle, give up, flag | polls before it locks; gives up while money may move | every payment in flight ends; a payment given up blocks its invoice |
| **Settlement recording** (`services/payment_settlement*.py`) | settlement columns, mismatch exceptions | verify, record, accept | minor units, two legs, unusable and unstorable figures, two comparisons of one report | a short settlement never makes an invoice paid; what holds an invoice is flagged |
| **Payment ERP sync** (`services/payment_erp_sync.py`) | invoice status, failure exceptions | sync a run's legs | overlapping passes; read before lock | an invoice is paid by a settled payment |
| **Invoice workflow** (`services/workflow_engine.py`, `api/workflow.py`, `api/invoices.py`) | `invoices.status`, `approved_by`, workflow instances and steps | upload, transitions, bulk change, complete | many writers, some of them unlocked | moves of `VALID_TRANSITIONS`; what may be paid names its approver |
| **Review, approval chain, escalation** (`services/review.py`, `approval_chain.py`, `approval_escalation.py`, `api/email_actions.py`) | `state_data["approval_levels"]`, one-time tokens | approve, reject, escalate | two channels decide at once from copies; a sweep reassigns | every level signs, each person once; no approval is lost |
| **ERP push** (`services/erp.py`, `erp_dispatch.py`, `api/erp_webhook.py`) | invoice status, attempt counter | dispatch, attempt, retry | an in-process task dies with the process | no invoice is left in `sending_to_erp` by an error path |
| **Extraction** (`services/extraction.py`, `extraction_dispatch.py`, `extraction_reaper.py`) | invoice status, extraction results | dispatch, finish, fail, reap | reaper against a late result | a result is not reaped; a lost job is |
| **Virtual cards** (`services/card_issuance.py`, `api/cards.py`) | card rows, one live card per invoice; the provider's cards | issue, cancel, charge, settle | minted at the provider before its slot is won; replays | one card open per invoice, none open behind a cancelled row |
| **Outbound webhooks** (`services/webhooks/`, `api/webhooks.py`) | deliveries, attempts | emit, attempt, sweep, redeliver | several claimants of one delivery, bounded attempts | one sender at a time, one budget |
| **Recurring invoices** (`services/recurring_invoices.py`, `api/recurring.py`) | templates, (template, period) slots | sweep, generate now, pause, edit | both at once; stale lists | one invoice per period, none early, none missed |
| **Credit memos** (`api/credit_memos.py`) | memos, their invoice | create, apply, void | concurrent use of one balance | never more credit than the invoice |
| **Discounts** (`services/discount_*.py`, `api/discounts.py`) | offers | accept, decline, sweep, capture | a sweep computes between read and write | the sweep yields to people |
| **Exceptions and agents** (`api/exceptions.py`, `services/exception_lifecycle.py`, `services/exception_agents/`) | exception rows, agent decisions | raise, resolve, escalate, agent run | agents and people on one exception and its invoice | an agent acts whole or not at all |
| **Vendors** (`api/vendors.py`, `api/portal.py`, `services/vendor_screening.py`, `vendor_rescreen.py`, `vendor_merge.py`) | vendor rows, change requests, portal logins | stage, approve, reject, invite, reset; screen, block, patch, merge, sweep | the login changes hands while a change waits; a vendor is screened by a sweep, by people and merged away at once | two people stand behind every new bank account; what a match holds stays held |
| **Scheduled reports** (`services/scheduled_reports.py`, `api/scheduled_reports.py`) | schedules, their next slot and retry marker | list due, mail, record, edit, enable | no lock; the outcome is worked out from the copy that was listed; one report's error ends the tick | nobody is mailed a slot twice, only repeated failure disables |
| **Purchasing** (`api/intake.py`, `api/requisitions.py`, their services) | intakes, requisitions, orders | submit, approve, convert, delete | unlocked moves around locked conversions | a requisition buys once |
| **Contracts** (`api/contracts.py`, `services/contract_renewal.py`) | contract rows | activate, renew, edit, terminate, cancel, delete, alert, expire | people work from unlocked copies while every replica's sweep ends and announces terms | no contract is ended that somebody has just extended, none is announced twice |
| **E-invoicing** (`services/peppol_send.py`, `peppol_receive.py`) | transmissions, unique slots | send, receive | lost answers, redeliveries | sent once, received once |
| **Expenses** (`api/expense_cards.py`, `api/expenses.py`) | charges, expenses | match, unmatch, create, delete | two tables that point at each other, one of them locked | a charge pays for one expense |
| **Bank reconciliation** (`api/bank_reconciliation.py`) | statements, lines, matches | upload, match, resolve, delete | two unique indexes decide races of uploads | a payment clears once, a file is imported once |
| **Tenants and billing** (`services/billing/`) | subscriptions | change plan, webhook, dunning | provisioning commits between read and lock | prorated from the plan that is left; payers are spared |
| **Audit log** (`services/audit_log_shipper.py`) | audit rows, stamps, sinks | write, ship, stamp | partial batches, outages, crashes, poison rows | stamped means shipped; the trail moves |
| **The rest** | | budgets, statement reconciliation, matching, retention, privacy, identity, assistant, clients | | see `PROJECT.json`, `components` |

Components meet in the database. Requests, the background loops that
`main.py` starts in `lifespan`, and processor callbacks all read and write the
same rows under PostgreSQL's READ COMMITTED. What protects them is a row lock
here and there, a re-check after the lock, and a few unique indexes. So the
question of every model here is which reads are still true when the write that
relies on them happens.

`PROJECT.json` lists the hazards of this code, each at the line where it bites.

## 2. Modules

| Module | What it is |
|---|---|
| `InvoiceSlot` | Abstract specification: what the core promises about the attempts to pay an invoice. |
| `PaymentRuns` | The payments core: tables, requests, sweep, webhook, ERP-sync leg, processor; its properties and its inductive invariant. |
| `MCPaymentRuns` | `PaymentRuns` for TLC, with the symmetry of its model values. |
| `PaymentRunsProofs` | Theorems about `PaymentRuns` and their proofs: types, slots, moves of an attempt, segregation of duties. |
| `PaymentMoneyProofs` | More of them: orders, flags, stranded rows, the queue, claims, and the refinement of `InvoiceSlot`. |
| `InvoiceStatuses` | `VALID_TRANSITIONS` and what validates a move, for the modules that write an invoice's status. |
| `InvoiceWorkflow` | One invoice from upload to done: extraction, review, bulk and portal requests, ERP push, crashes. |
| `ApprovalChain` | Its chain of approvals through four doors, and the escalation sweep. |
| `WebhookDelivery` | One delivery of an event and everybody who may POST it. |
| `VirtualCards` | The cards of one invoice in the database and at the provider. |
| `RecurringInvoices` | One template, the replicas' sweep and the people who handle it. |
| `CreditMemos` | Memos, invoices and the requests that apply and void. |
| `DiscountOffers` | One offer: people, copilot, sweeps, capture. |
| `AuditShipping` | The shipping of one tenant's audit rows to write-once sinks. |
| `Subscriptions` | One organization's subscription. |
| `VendorBankChanges` | Dual control of one vendor's bank details. |
| `Purchasing` | Intake, requisition, order. |
| `PeppolTransmissions` | A document sent and a message received. |
| `CardCharges` | Card charges and the expenses they pay for. |
| `ExceptionQueue` | An exception, its invoice, agents and people. |
| `BankReconciliation` | Statements and the payments their lines clear. |
| `ContractTerms` | One contract, the people who change it and the renewal sweep. |
| `Settlement` | What a processor reports for a payment, and what that decides. |
| `ScheduledReports` | The schedules of one tenant, the loop that mails them and the operator. |
| `VendorScreening` | Sanctions screening, the payment block it sets, and merges of vendors. |
| `RecordProofs` | Theorems about seven of the parts: purchasing, e-invoicing, card charges, exceptions, contracts, bank reconciliation, and what a settlement decides. |
| `ControlProofs` | Theorems about five more: discounts, vendors' bank details, subscriptions, virtual cards, credit memos. |
| `LoopProofs` | Theorems about three background loops: webhook delivery, recurring invoices, shipping of the audit trail. |
| `InvoiceProofs` | Theorems about the invoice's own workflow and its chain of approvals. |
| `SweepProofs` | Theorems about two more sweeps: sanctions screening of vendors, scheduled reports. |
| `MCOperations` | Composes the nineteen modules above from `InvoiceWorkflow` on for TLC: each has its own variables, and the variable `part` says which one an instance runs. |
| `OperationsProofs` | The composition implements each part, and so keeps every part's invariant and promises. |

### How `PaymentRuns` corresponds to the code

State:

- `invoice`, `flags`, `pay`, `run` are the committed contents of the tables.
  A row of `pay` keeps the columns the control flow reads: the status, the
  invoice, the run, `retry_of_payment_id`, whether `provider_payment_id` is set,
  the class of the failure reason (`why`), and whether the settlement on record
  covers the invoice (`short`).
- `task[w]` is what a worker carries in memory through its awaits: the rows its
  bulk read found (`todo`), the row it holds `FOR UPDATE` (`at`), the invoice
  status it read without a lock (`seen`), and what it will commit (`new`, `roll`).
- `sweep` is the row the reconciler polled and has not locked yet.
- `order` is the processor: what became of the order under each row's
  idempotency key. It is external and modelled from how the adapters use it.

Actions. A handler that awaits a processor under a row lock is several steps of
a worker: it starts (`Execute`, `Resume`, `RetryFailed`, `Release`, `Void`,
`Dismiss`), takes a row through the gates (`DispatchRow`, `Release`), gets a
decision (`Refuse`, `Hold`, `Send`, `Raise`), and commits (`Commit`, optionally
after `ReadRun`); a dispatch pass ends with `Finish`. `Crash` loses the task
and with it everything uncommitted. The other handlers take one step, because
their reads and writes are under one lock or, as with run creation, are checked
again at dispatch.

What is merged or left open, and why nothing is lost:

- `submitted` and `processing` are one status, and so are `failed` and
  `cancelled`: no code that is modelled tells them apart, except
  `payment.status` lists that name both.
- A run is created in one step; that an invoice changes between its checks and
  its insert is covered by the gates of the dispatch, which run again, and by
  the unique index, which is the guard `~Occupied`.
- A live card, a changed net amount, an FX corridor, compliance and the
  adapter's own pre-flight checks are one nondeterministic `Refuse`; all of
  them are on the safe list of `classify_payment_failure`.
- A refusal by the processor always leaves a handle on the row. Some adapters
  leave none and give an `*_api_error` reason; both are in doubt.
- Whether a total is above the CFO threshold is a free choice.
- `/cancel` deletes rows: such a row has the status `deleted` here, so that the
  proofs can speak of it. A row name is never used again.

Not modelled in this component: the virtual-card leg of a dispatch and of a
void, discount capture, audit rows, the webhook's Redis claim (the model relies
on the status allowlist alone, which is stronger), the segregation override of
an organisation that turned the check off, the manual `/erp-sync` request.

What may go wrong is a constant, `Mishaps`, so that every run names the
environment it assumes:

| Mishap | Meaning |
|---|---|
| `crash` | the process dies between two steps of a request |
| `lost_reply` | the processor takes an order and the answer is lost |
| `deaf_void` | an order cannot be reversed; `/void` voids the row all the same |
| `flag_lost` | the exception for an aged-out payment is not written: the code logs that error and goes on |
| `careless_resolve` | somebody closes a `payment_reconciliation` exception with the order still alive |
| `stale_leg` | an ERP-sync leg stalls between its read and its lock |
| `stale_rollup` | a recompute stalls between its read of the run and its write |
| `early_resume` | `/resume` is called although a dispatcher is alive |
| `late_flag` | a fraud flag is raised after the run was built |
| `erp_push` | invoices are also pushed to an ERP |

### How the other modules correspond to the code

One convention holds for all of them. A handler that reads under a row lock
and writes before it commits is one action. A handler that reads without a lock
is two or more: `Open...` or `Read...` keeps in a request's record what the
handler's variables hold, `Commit...` writes what the handler writes, from that
record. Since the ORM writes only the columns that differ from what it read, a
commit changes those and leaves the rest to whoever wrote it since. Row locks
are not variables: a row is locked while some request is in a state that holds
it, and actions that need the lock are guarded with `...Free`, `Unlocked` or
`RowLocked`. Waiting on an uncommitted row of a unique index is modelled the same
way. `...Fails` and `...Crash` end a request and lose what it had not committed.

| Module | State and what it stands for | Steps that are more than one, and why |
|---|---|---|
| `InvoiceWorkflow` | `status`, `approvedBy`, `snapshot`, `erpRetries`: columns of `invoices` and `workflow_instances`; `jobs`, `pushes`: tasks in the process's memory; `unlocked`: an open bulk or portal request; `reaping`: the reaper holds the id | an extraction (`StartExtraction` ... `FinishExtraction`), a push (`StartPush`, `PushRetries`, ...), the bulk change (`OpenUnlocked`, `BulkApprove` or `BulkMove`), the reaper (`ReaperScan`, `Reap`) |
| `ApprovalChain` | `chain`: the JSON value; `requests`: the copy each holds; `overtaken` is history, for `ApprovalsKept` | an approval, because `approve_invoice` reads the instance before it locks it and the lock does not refresh it |
| `WebhookDelivery` | `delivery`, `active`: rows; `sender`: attempts; `posts` is history | claim, POST and outcome are apart, so that a crash can come between |
| `VirtualCards` | `cards`: rows in order; `provider`: key to card; `claimed`: the Redis dedup set | issuing is screening, key, mint, persist, commit; closing is read, provider, record |
| `RecurringInvoices` | `template`, `raised`: rows; periods are numbers and `today` the last that has begun | sweep: list of ids, then each under its lock; generate-now: unlocked |
| `CreditMemos` | `memo`, `amount`: rows; `remaining`: the balance computed under the lock | apply: memo read, invoice locked, committed |
| `DiscountOffers` | `offer`: row; `calendar`: what today leaves of the offer's tiers | sweep: read, claim again, write |
| `AuditShipping` | `trail`, `stamped`: rows; `worm`: what the sinks stored; `tick`: the shipper's batch and progress | each call of a sink, and the stamp |
| `Subscriptions` | `sub`: row; `changers`: what each session's identity map holds | plan change: look, provision (commits), lock, repoint |
| `VendorBankChanges` | `login`, `change`, `bank`: rows; `reviews`: approvals that hold their row's lock | portal staging and approval |
| `Purchasing` | `ask`, `req`: rows; `orders`: orders made from a requisition | every move and deletion, which read unlocked; the conversions, which lock |
| `PeppolTransmissions` | `live`, `received`: rows; `accepted`: what the gateway took; `lost`: answers never recorded | claim, transmit, commit; claim, store, commit, dispatch |
| `CardCharges` | `charge`, `expense`: rows | every request: it locks the charge, reads the expense unlocked, commits |
| `ExceptionQueue` | `exc`, `bill`, `agent_decisions`: rows; `agentRun`: the invoice a run read and its own copy | run: lock and evaluate, apply in the savepoint, resolve or refuse |
| `BankReconciliation` | `statement`, `clears`: rows; `upload`: its try and the matches it found | upload: look up, claim the hash, match, flush, commit; resolve: read, lock, commit |
| `ContractTerms` | `contract`: the row; `dealing`: the copy each request read and what it wants; `renewing`: what a replica's tick has listed and the day the tick fixed; `notices` is history | a request reads unlocked and commits what differs from its copy; the sweep lists, then locks, asks again and acts |
| `Settlement` | `instruction`, `payment`, `settled`: columns of the payment; `verdict`: its audit row; `payable`: the invoice; `flagged`, `waived`: the exception and the acceptance; `moved` is the processor, external | none: each writer of these columns works under the payment's or the invoice's lock, and how those interleave is `PaymentRuns` |
| `ScheduledReports` | `reports`: rows; `mailing`: a tick's start, the copies it listed, and what became of the first; `editing`: the operator's read and wish; `misses`, `had` are history | the loop lists, mails, then records what follows from the copy; an edit reads, then commits what differs |
| `VendorScreening` | `master`, `billedBy`: rows; `rescan`: the ids a replica listed and the result it got under the lock; `steward`: a request's read and wish; `periodic`, `sealed` are history | the sweep lists, locks and screens, commits; a request reads unlocked and commits what differs, a patch under the lock its flush took; a merge locks both rows and is one step |

What is simplified there, and not by the source:

- Amounts are 1 and 2 (`CreditMemos`), "billed" and "ordered"
  (`ExceptionQueue`), settled or short (`PaymentRuns`). Tolerances, tiers, thresholds,
  routing rules and confidence are free choices of the outcomes they select.
- `InvoiceWorkflow` takes the payments as the moves `PaymentRuns` makes and the
  chain as complete or not; the modules meet in `VALID_TRANSITIONS`, and the
  assumption each makes of the other is an action of its own (`PaymentMoves`,
  `MoveElsewhere`).
- Background work is modelled as in the deployment the repository's own
  configuration starts: tasks in the process (`local` modes). The queue-based modes
  are not modelled.
- A recurring template's day and cadence are fixed while it lives; an edit that
  renumbers its periods is left out.
- Only amount-mismatch exceptions have a modelled agent. `missing_po` has the same
  shape; the other types escalate.

## 3. What TLC checks

The payment runs are instances of `MCPaymentRuns`, the others of `MCOperations`.
`CHECK_DEADLOCK FALSE` is set in the payments because row names are never used
again, and in `MCOperations` because a finished invoice, a shipped trail or an
ended template has nothing left to do.

| Run | Instance | Shows |
|---|---|---|
| `runs` | 2 invoices, 3 rows, 1 run, 2 workers; `early_resume`, `lost_reply`, `deaf_void` | `NoStrandedRow`, `MakerChecker`, `OneLivePayment`, `ClaimsHold`, `RetrySafeMeansNoOrder`, `InvoiceFollowsPayments` |
| `mishaps` | 1 invoice, 2 rows, 1 run, 2 workers; all mishaps | the inductive invariant `MoneyInv` (with `IInv` and `TypeOK` in it), `ReconciliationBlocks`, `AttemptsMoveForward`, and the refinement `OneAttemptAtATime` |
| `liveness` | 1 invoice, 2 rows, 2 runs, 1 worker; no mishap | `MoneyInv`, here with every part in force, `OneOrderPerInvoice`, and `PaymentsResolve` |
| `operations` | the nineteen parts, see below | `OperationsInv`, which is the type invariant of each part and, where the proofs rest on one, its inductive invariant; the invariants and action properties of the parts |
| `loops` | the parts workflow, recurring, trail, contracts, reports and screening, with one attempt of a push | `LoopsCatchUp` |
| `crash_resend` | `crash` | `RetrySafeMeansNoOrder` is violated |
| `lost_reply` | `lost_reply` | `OneOrderPerInvoice` is violated |
| `erp_push` | `erp_push` | `WorkflowRespected` is violated |
| `unclaim` | `stale_rollup` | `ClaimsHold` is violated |
| `erp_retry` | the workflow part | `RetryGetsFullBudget` is violated |
| `double_click` | the cards part with two issuing requests | `OneOpenCard` is violated |
| `poisoned_report` | the reports part with one schedule whose report raises a database error | `ReportsMove` is violated |

The properties:

- `OneLivePayment`: an invoice has at most one payment outside the terminal
  statuses, whoever books it.
- `RetrySafeMeansNoOrder`: a failure `/retry-failed` may send again left no
  order at the processor.
- `OneOrderPerInvoice`: the vendor is not paid twice.
- `ReconciliationBlocks`: while a payment the reconciler gave up awaits a
  person, nothing of its invoice is in flight, nor past the gates.
- `InvoiceFollowsPayments`: what the invoice shows agrees with its payments,
  that is, `PaidMeansCompleted` and `InFlightIsScheduled`.
- `NoStrandedRow`: a pending row of a run that left draft has a dispatcher, or
  the run is one `/resume` accepts.
- `MakerChecker`: whoever dispatches a run is not its creator, and the CFO has
  approved it where needed. It speaks of dispatch passes: `/compliance/release`
  sends a single held payment and the code asks for neither check there.
- `AttemptsMoveForward`: no status is left but for a legal successor, no handle
  is dropped, nothing sent is deleted.
- `ClaimsHold`: only the pass that holds a run ends its claim.
- `WorkflowRespected`: invoice statuses follow `VALID_TRANSITIONS` in the
  database.
- `PaymentsResolve` is `InFlightEnds` and `ClaimEnds`: a payment in flight is
  resolved, a claimed run is released with nothing left pending.
- `OneAttemptAtATime`: the core implements `InvoiceSlot`. The mapping takes the
  live row of an invoice as the holder of its slot and the failed, voided and
  deleted rows as the closed attempts.

The parts of `operations` and `loops`. The initial state chooses the part; the others
stay in an initial state, so the states of the parts add up instead of
multiplying. The parts do not write each other's tables, but for the status of
an invoice, which is treated as said above.

| Part | Instance | Properties |
|---|---|---|
| workflow | 1 invoice under 2 configurations, 1 job, 1 push of at most 2 attempts, 1 bulk or portal request, reaper, crashes | `PayableIsAttributed`: an invoice that may be paid names its approver, whichever of six doors approved it. `SendingIsOwed`: an invoice in `sending_to_erp` has a push on its way, unless a crash took it or the budget is spent, as long as pushes come one at a time. `ReaperSparesResults`: the reaper overwrites no result. In `loops`, `PendingEnds`: no invoice waits for an extraction for ever |
| chain | 2 levels ("any" of one, "all" of two), 4 people, delegates, 1 locked session, since the invoice lock admits one at a time, 1 bulk session, escalation | `ApprovedByEveryLevel`: approval leaves a stored chain with every level satisfied. `ApprovalsKept`: only rejection and bulk changes lose an approval. `ChainSound`: the stored chain is one the rules can produce and somebody can finish |
| webhooks | 1 delivery, 3 senders, 5 attempts (the code's own budget) | `OneSenderOneBudget`: the POSTs of all senders share one budget and never overlap |
| cards | 1 invoice, at most 2 rows, 1 issuer, 2 closers, crashes, lost answers, repeated events | `OneOpenCard`, `IssuedCardWorks`, `StatusIsEarned`: a cancelled row is closed at the provider, a completed one was charged and settled, a rebate is earned once |
| recurring | 3 periods, 2 replicas, 1 manager, 2 misses | `NothingEarly`: a sweep raises what has begun, once, for an active template. In `loops`, `SweepCatchesUp`: again and again nothing is due |
| memos | 2 memos, 2 invoices, 2 clerks, amounts to 2 | `NoOverApplication`: no request takes the credit over the invoice |
| discounts | 2 deciders, 2 sweeps, copilot, capture | `SweepYieldsToPeople` |
| trail | 3 rows, batches of 2, 2 sinks of which one refuses one row, 2 outages or crashes | `StampedMeansShipped`: a stamped row is in every sink. In `loops`, `TrailMoves`: again and again every row is stamped |
| billing | 3 plans, 2 plan changes, 1 event, 1 dunning sweep | `BillingActsOnTheRow`: a change is prorated from the plan it replaces, and the sweep cancels only who has not paid |
| vendors | 2 staff, 1 portal login, 2 changes | `DualControl`: a change reaches the bank details only if somebody of staff approved it who neither proposed it nor knew the password it came with, and a decided change stays as it was decided. A merge that a second approval overwrote may come back with a third, and then it was approved before |
| purchasing | 1 intake, 1 requisition, 2 buyers, 2 requests | `BuysOnce`: one order, of a requisition somebody else approved; an intake stands behind a requisition that exists |
| peppol | 2 sends, 3 deliveries, 2 lost answers | `OncePerDocument`: the gateway took what the table says, once; a message makes one invoice and at most one extraction |
| charges | 2 charges, 2 expenses, 2 bookkeepers | `OneChargePerExpense`: what an expense says paid for it says so too |
| exceptions | 2 agent runs, 1 person, 2 decisions | `AgentActsWhole`: a run touches the invoice only in the step that resolves a still open exception and records the decision |
| bank | 2 uploads of 2 files that share payments, 2 payments, 1 clerk | `ClearedOnce`: a payment is cleared by one line, a file is one statement |
| contracts | 1 contract, 1 clerk, 2 replicas of the sweep, end dates to 3 | `SweepHonorsTheTerm`: a term is announced once, within its lead window, and no contract ends that is not past the end date it then has. In `loops`, `OverdueEnds`: no contract stays active past its end |
| settlement | 4 instructions (a domestic one, two with a second leg, one in a currency without decimals that such a currency cannot express), currencies of 2, 0 and 3 decimals, 9 deviations around the tolerance and the rounding, reports that are silent, unusable or without a currency | `CompletionDecides` is `PaidMeansCovered`, after a completion only money, or a person's word, makes an invoice paid, and `CleanOrFlagged`, a figure that will hold the invoice raises a flag, and a clean settlement does neither |
| reports | 2 schedules of which one raises database errors, 2 recipients, 1 mailer, 2 edits or losses, 3 ticks | `ReportsOnceAndFairly`: no slot is mailed to anybody twice, and the loop disables only after repeated runs that reached nobody. In `loops`, `ReportsMove`, without the poisoned schedule: no report stays due |
| screening | 2 vendors of which one cannot be screened, 1 invoice, 2 replicas, 2 stewards, 2 requests, lapses or outages | `MatchesHold`: an invoice held by a match stays refused until a person unblocks its vendor, and only a due vendor is screened again. In `loops`, `RescreensMove`: no vendor that can be screened stays due |

Bounds. No state constraint is used. In the payments the only bounds are the
sizes of the constant sets. Two rows for one invoice are a first attempt and its
retry, or the payments of two runs that hold the same invoice, which is what
`liveness` has; a row of a run and a standalone booking enter through the same
index. Two workers are the least that race and the locks
are pairwise: `runs` and `mishaps` have them, `liveness` has one, because its
graph is searched for cycles and a worker's own steps are what must end; two users are creator and dispatcher. `runs` needs two invoices so
that a pass has a row to dispatch while another row of the same run is held. In
the parts the same holds: two requests race over one row, and a third is there
where one request overtakes another in the middle of a third (a sweep, an
immediate attempt and a redelivery; a bulk change between two approvals; three
deliveries, of which one fails after the first has committed). Counters that
nothing in the code limits have a bound of their own in a guard: `MAX_CARDS`
(two rows are a card and its reissue), `LAST_PERIOD` (the template's own end; three
periods let a person raise the one the cursor is on and the sweep pass it),
`LAST_TERM` (three end dates: the one a sweep lists, the one a renewal sets, one beyond), `MAX_MISHAPS` (an outage and a crash, or two of one kind), `MAX_LOST` (a lost reply
and a crash), `MAX_RUNS` (a decision and one after it), `MAX_AMOUNT`, `LAST_TICK` (a slot, the next and
one missed), `MAX_UPSETS` and `MAX_TURNS` (a request and another, or a request and a loss).
`MAX_ATTEMPTS`, `MAX_RETRIES`, `MAX_CONSECUTIVE_SKIPS`, `MAX_STRIKES`, `CADENCE` and `BATCH_SIZE` are constants
of the code, made smaller but for the first, and so is `COLUMN_LIMIT`, what
`NUMERIC(15, 2)` does not hold. `Deviations` are how far a settlement is off its order:
exact, within the rounding of a cent, within the tolerance, and past it on both
sides. Symmetry is used in the safety runs
of the payments only.

`OneOpenCard` passes with one issuing request at a time, whatever is lost and
crashes, and fails with two: that is `double_click`.

Fairness. `FairSpec` of `PaymentRuns` assumes weak fairness of the steps of a
request under way (a coroutine that can go on does), of giving up each row that
is too old, and of writing a verdict the reconciler got. The last two are the
loop `run_reconciler_loop` that `main.py` starts in `lifespan`: it visits every
row in flight on every tick, and the age of a row only grows. No fairness is
assumed of people, of webhooks, of the poll or of the processor.

`OperationsSpec` assumes as little, for loops that `lifespan` starts in the same
way: weak fairness of `ReaperScan` and of some replica's `ReadDueTemplates` (the
next tick comes), strong fairness of `Reap` and of some replica's sweep of the
template it listed (each tick of the loop takes the lock anew, and a person who
holds the row does so for one request, so the sweep cannot be kept out for ever
by requests that come and go), the same two for the
contract sweep's listing and expiry, with weak fairness of the end of a leg whose
contract is no longer due, weak fairness of the report loop's listing and
steps, of the vendor sweep's listing and steps and of the end of a steward's request
(a session closes, and its locks with it), weak fairness of the shipper's steps, and weak
fairness of a sink's recovery: an audit row cannot be shipped to a sink that stays
down. Where a part does not run none of these actions is enabled.

### Disagreements between the code and what it says

Seven runs expect a violation; `PROJECT.json` quotes the lines.

1. `crash_resend`: a gate refusal is taken for proof that nothing was sent. On a
   pass that follows a crash it is not: the first pass may have sent the order.
2. `lost_reply`: a failure in doubt is meant to wait for a person, but it frees
   the invoice's slot and leaves no exception, and `/void` refuses failed rows.
3. `erp_push`: the dispatch moves the invoice from a status it read unlocked.
4. `unclaim`: the recompute after a void can end a claim taken meanwhile.
5. `erp_retry`: `/retry-erp` zeroes the attempt counter inside the mapping it
   loaded and assigns it back, so the column is not written; the push resumes at
   the stored counter, and with the budget spent calls nothing.
6. `double_click`: two requests that issue a card for one invoice read the number
   of rows on two sides of a commit, derive two keys and mint two cards.
7. `poisoned_report`: after a database error the loop rolls back and then logs the
   name of a row that the rollback expired; that raises out of the loop, so the
   schedules behind the broken one are never mailed.

### What else the models show

These are behaviours of the models that no property states, because the code
promises nothing of the kind or a run of its own would repeat a known cause. A
line of the code that says otherwise is named.

- Payments: a stalled ERP-sync leg can mark an invoice paid after a void
  (`stale_leg` breaks `InvoiceFollowsPayments`), a lost flag lets an aged-out invoice
  be paid again (`flag_lost` breaks `OneOrderPerInvoice`), and an early `/resume`
  together with a crash strands rows until `/retry-failed` (`early_resume` and
  `crash` break `NoStrandedRow`). That is why the runs that check these properties
  name the mishaps they allow.
- Workflow: two pushes that overlap can leave the invoice in `sending_to_erp` with
  attempts left: a push sleeps between attempts, the ERP's webhook fails the invoice,
  `/retry-erp` queues another push, and the one that began from `failed` ends without
  being allowed to fail the invoice and rewrites the stored counter. That is why
  `SendingIsOwed` is checked, and proved, for one push at a time.
- Workflow: a bulk approve answered with 409 still commits `approved_by` and the
  chain's progress. `sending_to_erp` is reached from `failed` without an approval
  (`api/workflow.py:387`). `sent_to_erp` is never committed on its own, so
  `posted_in_erp` is not reached from it. A late extraction overwrites later statuses.
- Chain: an approval is recorded in any status. In a bulk change a stale copy of
  the instance loses an approval or an escalation, despite the comment near
  `services/review.py:376`. An "all" level escalated to somebody who acted at
  another level has nobody left, and a delegate never satisfies an "all" level; the
  instance of the run has neither.
- Webhooks: the event is emitted before the transaction that it reports commits.
- Cards: a stale cancel overwrites a recorded charge and frees the slot of a spent
  card. A crash after the Redis claim drops a card event until the claim expires.
- Recurring invoices: generate-now jumps over a backlog of due periods.
- Credit memos: a void can overwrite an application and the reverse; an edit of the
  amount can leave an invoice over-credited.
- Discounts: a stale human decision overwrites another one, or a capture.
- Audit: an outage that strikes in the isolation pass marks rows no sink refuses.
- Billing: a late `active` event revives a cancelled subscription; a plan change of
  a past-due one restarts its grace.
- Vendors: two changes approved at once lose one merge (the vendor is read unlocked
  and the column written whole); two changes can both become pending; a fraud flag
  that is not raised twice keeps its first raiser.
- Vendors: a manual screen that races a merge leaves its block on the retired
  duplicate; a verification or rejection that races one brings the duplicate back; a
  request that read a blocked row writes no block, so a match found meanwhile does
  not block again after an unblock.
- Reports: two mailers mail a slot twice, move the next slot back, or disable after a
  success, each from its own copy; an operator's edit is overwritten by a run under way,
  and a schedule enabled during a run is counted on from the old marker.
- Purchasing: an edit or approval read early commits over a later reopening; a stale
  deletion removes a converted requisition and leaves its order.
- Contracts: since only changed columns are written, a renewal that races the sweep
  can leave the contract `expired` with a future end date, or leave
  `renewal_alert_sent_at` set so that the new term is never announced
  (`api/contracts.py:591` says that renewing "re-activates an expired contract" and
  clears the stamp); a stale renewal revives a terminated contract.
- Settlement: when the ERP reports a bill as paid before its payment completes, the
  invoice becomes paid and a short settlement that follows does not hold it
  (`api/erp_webhook.py:276` holds only what has completed). A report that is no number
  holds the invoice but raises no flag, since its verdict is `unverified`. Amounts that
  a currency cannot express, such as half a yen after a discount, read as a mismatch
  (`services/payment_adapters/base.py:306` says "a clean settlement can never read as
  a mismatch"). A figure without a currency is read with two decimals and matched
  against any leg. An amount within a cent of what the column holds can be matched
  by a figure that is too large to store: the invoice is held and nothing is flagged,
  which is why `CleanOrFlagged` is proved under `AmountsFit`.
- E-invoicing: after a lost answer the slot is free and a resend goes out; only the
  gateway's idempotency key stands against it. A crash between the inbound commit
  and the dispatch leaves an invoice nobody extracts, and the redelivery is
  dropped as a duplicate.
- Expenses: two charges can be matched with one expense, since the expense is not
  locked (`api/expense_cards.py:348` says "Rejects (409) if either side is already
  matched").
- Exceptions: a person's escalation from a stale read reopens a resolved exception.
  The lock the resolver takes on the invoice returns the copy the session already
  has, so an agent can approve an invoice a person rejected or corrected meanwhile
  (`services/exception_agents/resolvers/amount_mismatch.py:219` says "Re-verify ...
  under the row lock").
- Bank: two uploads that flush each other's payments can wait for each other.

## 4. What is proved

`PaymentRunsProofs` proves, for any finite or infinite sets of invoices,
payments, runs, workers and users and for every subset of the mishaps, from the
single assumption `PaymentRunsAssumption` (the null values are not members of
the sets they complete, and `Mishaps` is a set of mishap kinds):

| Theorem | States |
|---|---|
| `Invariance` | `Spec => []IInv` |
| `TypeCorrect` | `Spec => []TypeOK` |
| `SlotUnique` | `Spec => []OneLivePayment` |
| `AttemptsForward` | `Spec => AttemptsMoveForward` |
| `SegregationHolds` | `Spec => []MakerChecker` |

The argument. `OneLivePayment` alone is not inductive: a worker that holds a row
commits what it decided some steps ago, so one must know that the row has not
moved since. `IInv` adds just that:

- `RowsAgree`: a row that exists has an invoice and an existing run, one that
  does not is blank, and a dispatched run has rows that count;
- `Locks`: a row is held by one worker, it is live while it is held, and what
  the worker decided has the row's identity and is a legal move from where the
  row stands;
- `DraftsUnsent`: nothing of a draft run has been sent or is about to be, and
  no pending rollup puts a run back to draft. Without it `/cancel` could delete
  a sent row, and `AttemptsMoveForward` would fail.

Instead of showing each of the five conjuncts for each of the thirty actions,
every action is shown to be a `Step`: what it does to a row (`RowStep`), to a run
(`RunStep`) and to a task (`TaskStep`). That a `Step` keeps each conjunct is then
proved once (`SlotKept`, `RowsAgreeKept`, `LocksKept`, `DraftsKept`).

`MakerChecker` needs one more fact, that no run is dispatched while its CFO
approval is missing: `/resume` does not check the approval again, it relies on
the status `executing`. Each action is shown to keep the controls of every run
(`ControlsKept`) and to start a dispatch only past them (`DispatcherKept`).

`PaymentMoneyProofs` proves, from the same assumption, what is promised about
orders, flags, the queue and claims. Each theorem holds for every subset of the
mishaps but those it names. That those cannot be left out is what the violated
runs of section 3 and the notes on payments there show (`crash` for
`RetriesAreSafe`, `stale_leg` for `QueueFollows`, `lost_reply` and `flag_lost` for
`PaidOnce`, `stale_rollup` for `ClaimsAreKept`, `erp_push` for `WorkflowKept`):

| Theorem | States | Unless |
|---|---|---|
| `MoneyInvariance` | `Spec => []MoneyInv` | |
| `FlaggedStaysBlocked` | `Spec => []ReconciliationBlocks` | |
| `RetriesAreSafe` | `Spec => []RetrySafeMeansNoOrder` | `crash` |
| `NobodyStranded` | `Spec => []NoStrandedRow` | `crash` |
| `CrashesStrandNobody` | `Spec => []NoStrandedRow` | `early_resume`, `stale_rollup` |
| `QueueFollows` | `Spec => []InvoiceFollowsPayments` | `stale_leg` |
| `PaidOnce` | `Spec => []OneOrderPerInvoice` | a mishap of `SlipAway` |
| `ClaimsAreKept` | `Spec => ClaimsHold` | `stale_rollup` |
| `WorkflowKept` | `Spec => WorkflowRespected` | `erp_push` |
| `Refinement` | `Spec => OneAttemptAtATime` | |

`IInv` does not carry them: it says nothing of the processor, of the flags or of
what a worker is about to write to the invoice. `MoneyInv` adds

- `UnsentRows`: a row that waits has no handle, what a worker decides moves its
  row on, and only a pass or a release moves one into flight;
- `FlagsBar`: while a payment that was given up awaits a person, no row of its
  invoice is live at all, which is why a gate that was passed before cannot be
  the exception;
- `OrdersKnown`, without `crash`: an order at the processor shows in its row, by
  a handle or by a failure in doubt, or in what the row's holder will commit;
- `PickedUp`, without `crash`: a pending row of a dispatched run is in the list
  or in the hands of a pass;
- `QueueAgrees`, without `stale_leg`: besides `InvoiceFollowsPayments`, that the
  status a worker read without a lock is still one its commit may start from;
- `OrdersHeld`, without the mishaps of `SlipAway`: money moves for a row that
  holds the slot, or for a given-up one whose flag bars it, and the reconciler
  polled no refusal that the processor has not made.

The argument has the same shape as for `IInv`. `StepMoves` shows that every
action is one of seventeen kinds of move (`Books`, `Cancels`, `Claims`, `Gates`,
`Decides`, `Takes`, `Commits`, `Rolls`, `Passes`, `Records`, `GivesUp`, `Pays`,
`Answers`, `Pushes`, `Polls`, `Judges`, `Quiet`), each described by what it reads
and writes of these pieces of state alone; that a move keeps a part of `MoneyInv`
is one lemma for each part. `CrashesStrandNobody`
rests on `OnePass`, that a claimed run has at most one pass and that pass has every
pending row before it, so that a pass that dies leaves its run claimed and in
`/resume`'s reach. `ClaimsAreKept` and `WorkflowKept` need one extra
invariant each: `Unrolled`, that without `stale_rollup` no worker carries a status
it computed before, and `Scheduled`, that without `erp_push` a worker about to send
for an invoice it saw off the queue still finds it where it saw it.

For the refinement, `SlotInit` holds initially because no row is live, and a move
that changes the live row of an invoice is shown to be `Book`, `Advance` or
`Close` of that invoice's slot, all others to leave `slot` and `closed` alone.
`OneLivePayment` is what makes the mapping a function of the row that moved.

`RecordProofs` proves a property of each of six parts, for any number of actors
and records, from the constants' assumptions (`PurchasingAssumption`,
`PeppolAssumption`, `ChargesAssumption`, `ContractTermsAssumption`,
`BankAssumption`: null values lie outside the sets they complete, days are
naturals). Each part has an inductive invariant (`...Inv`, in its module), and
`operations` checks it in `OperationsInv`:

| Theorem | States | What the invariant adds, and why |
|---|---|---|
| `RequisitionsBuyOnce` | `PurchasingSpec => []BuysOnce` | `ConvertsAlone`: a conversion holds its row alone, and what it read still stands. `MovesInOrder`, `SignedByAnother`: a request that read unlocked can commit only a move whose result is as well signed as the row |
| `DocumentsMoveOnce` | `PeppolSpec => []OncePerDocument` | `SlotsAlone`: who has claimed a slot, or a message, is alone until it commits or fails |
| `ChargesPayOnce` | `ChargesSpec => []OneChargePerExpense` | `HeldAsFound`: the charge a bookkeeper holds locked is as he found it, and no expense names a charge about to be matched |
| `AgentsActWhole` | `QueueSpec => AgentActsWhole` | `HoldsAlone`: one run holds the exception, its copy of the invoice is the one it read plus its own correction |
| `SweepsHonorTerms` | `ContractsSpec => SweepHonorsTheTerm` | `AlertArmed`: no tick is dated in the future, an unannounced term has sent no notice, and no request restores a stamp that it did not read |
| `PaymentsClearOnce` | `BankSpec => []ClearedOnce` | `LinesApart`, `HashesApart`: rows agree with the unique indexes. `FlushesApart`: of the uploads that have flushed, no two claim one payment |

`ControlProofs`, `LoopProofs`, `InvoiceProofs`, `SweepProofs` and the end of `RecordProofs`
(settlement) do the same for the other parts, from what their modules assume of their
constants (`MemosAssumption`, `VendorScreeningAssumption`, `CardsAssumption`, `DeliveryAssumption`, `RecurringAssumption`,
`ShippingAssumption`, `WorkflowAssumption`, `ChainAssumption`, `SettlementAssumption`,
`ScheduledReportsAssumption`: bounds are numbers, null values lie outside the sets they
complete, the sinks are a sequence that is not empty, the schedules of a tenant and
the memos of a vendor are finitely many, a session is not a bulk one). Where no invariant is named, the action
property follows from the guards of each action and the types alone:

| Theorem | States | What the invariant adds, and why |
|---|---|---|
| `SweepsYield` | `OffersSpec => SweepYieldsToPeople` | |
| `TwoPeopleDecide` | `VendorsSpec => DualControl` | `VendorsInv`. `ReviewsAreProper`: who reviews a change is alone and may. `ProvisionerIsFrozen`, `RequesterKnewIt`: the row keeps whose password the request came with, after the login has changed hands. `MergedWasApproved`: what any reviewer's copy of the bank details holds was approved |
| `BillingActs` | `BillingSpec => BillingActsOnTheRow` | `BillingInv`. `LockedIsCurrent`: who has locked the subscription is alone and holds its plan |
| `StatusesAreEarned` | `CardsSpec => []StatusIsEarned` | `CardsInv`. `ClosingHoldsARow`, `ChargesWereReported`: who closes a card at the provider holds its row, and a recorded charge arrived as an event |
| `OneCardOpen`, `IssuedCardsWork` | `CardsSpec => []OneOpenCard`, `CardsSpec => IssuedCardWorks` | `KeysFollowRows`, `IssuersHoldTheNextKey`: a key is minted once, by whom has the next row's number |
| `CreditsAreWithin` | `MemosSpec => []MemosInv /\ NoOverApplication` | `MemosInv`. `BalanceIsThere`: while a request holds the invoice's lock, the balance it computed is still there, or more is |
| `OneBudget` | `DeliverySpec => []OneSenderOneBudget` | `DeliveryInv`. `SendersHoldTheRow`: the sender that POSTs is the one whose claim stands. `WaitingHasBudget`: a row that waits has attempts left |
| `SweepsRaiseNothingEarly` | `RecurringSpec => NothingEarly` | |
| `PayersAreComparable`, `ReaperSpares` | `WorkflowSpec => []PayableIsAttributed`, `WorkflowSpec => ReaperSparesResults` | `WorkflowInv`. `NeverBetween`: no commit leaves an invoice between the two moves of a push, so a payment schedules approved ones only |
| `SendersAreOwed` | `WorkflowSpec => []SendingIsOwed` | `AttemptsLeft`: a push that calls has an attempt left. `PushMayFail`: the push of an invoice still being sent began from that status, so its end may fail the invoice |
| `ChainStaysSound`, `EveryLevelSigns`, `ApprovalsAreKept` | `ChainSpec => []Sound(chain)`, `ChainSpec => ApprovedByEveryLevel`, `ChainSpec => ApprovalsKept` | `ChainInv`. `CopiesSound`: whatever copy a request may commit is as sound as the chain. `OneSession`, `SessionIsCurrent`: one locked session at a time, and its copy has the stored approvals unless a bulk change overtook it |
| `ChainStaysWorkable` | `ChainSpec => []ChainSound` | `CopiesWorkable`, of the chain and every copy: only the level people act on is escalated, to its targets; who approved a level was entitled to; a level of the kind "any" is not left satisfied |
| `CompletionsDecide` (`PaidIsCovered`, `HeldIsFlagged`) | `SettlementSpec => CompletionDecides` | `SettlementInv`. `OneReport`: of a completed payment, verdict and columns come from one report. The rest is arithmetic: rounding to a cent moves an amount by half a cent at most, so what the verdict matches the coverage accepts |
| `MatchesAreHeld` | `ScreeningSpec => MatchesHold` | `ScreeningInv`. `ScreensAlone`: who has a result in hand has the row to himself, as due as he found it. `SealedIsRefused`: what a match holds is behind a block, through merges |
| `ReportsOnceEach` | `ReportsSpec => ReportsOnceAndFairly` | `ReportsInv`. `NotYetSent`, `SentByTheRun`: who has the report of the next slot got it from the run that is not yet recorded. `CopiesCounted`, `MarkersCounted`: a retry marker that can still count was earned by runs that reached nobody; one that outlives its history belongs to a disabled row that enabling clears |
| `StampsAreEarned` | `TrailSpec => []StampedMeansShipped` | `TrailInv`. `TickHasShipped`: the sinks a tick has passed hold the batch, or the row it is at, and every sink holds the rows it will stamp |

The last two theorems about cards assume `OneIssuer`, that issue requests for one
invoice come one at a time; the run `double_click` shows that the code needs it.
`SendersAreOwed` assumes `OnePush` and `ReportsOnceEach` `OneMailer`;
`HeldIsFlagged` and `CompletionsDecide` assume `AmountsFit`, that every authorized
amount is more than a cent below what the column cannot hold. Section 3 says what
happens without each. `ReportsOnceEach` also needs that the loop's listing names a
schedule once, which is a fact about cardinalities (`ListedApart`), and that the next
slot is a later one for every cadence (`SlotsAdvance`).
`StampsAreEarned` needs the least member of a set of rows, which exists because `<`
is well founded on the naturals (`HasLeast`).

`CreditsAreWithin` is about sums. `Credit` adds up the amounts of a set of memos by a
recursive function, and the proof needs that the function exists, that only one does,
and that taking the elements in another order gives the same sum (`AddsExists`,
`AddsOnce`, `CreditByAny`). Instead of inducting over sets, each is shown by taking a
smallest set for which it fails, which exists because the strict subsets of a finite
set are well founded (`HasMinimal`), and deriving a contradiction. That a request's
own memo does not count, that voiding and moving memos only frees balance, and that
edits wait for the lock then give `NoOverApplication`.

`ChainStaysWorkable` assumes `ChainStaffed`: every level has somebody who may sign it
and may sign no earlier level, enough of them where any may sign, all of them (or
those it escalates to) where all must. The code does not check this when a chain is
configured, and section 3 names configurations without it in which nobody can act.
The hypothesis is sufficient; `operations` checks it of its own configuration, in
`OperationsInv`. `SomebodyMoves` names who acts: a fresh signer of the level, who
has not acted before because all earlier signatures are by people entitled to
earlier levels.

`ScreeningTyped` and `ReportsTyped` complete the type invariants of the sweeps. The
ids a sweep still has to visit are vendors, because what the query lists is and what
is left of it is. A schedule's next slot stays within a cadence of the clock: what a
tick listed was due when it began (`ListedWhenDue`), so `advance_next_run` moves it
past that time by a cadence at most (`SlotsStayNear`).

### The composition

`OperationsProofs` puts the parts side by side:

| Theorem | States |
|---|---|
| `PartsCompose` | `OperationsSpec` implies the specification of each of the nineteen parts, fairness included |
| `PartsKeepTheirInvariants` | `OperationsSpec => []OperationsInv`, under `OneMailer` and `ChainStaffed` |
| `PartsKeepTheirPromises` | `OperationsSpec` implies everything else that the run `operations` checks, under `OneMailer`, `OneIssuer`, `OnePush`, `ChainStaffed` and `AmountsFit` |

A step of one part leaves the variables of the others alone (`PartsLeave`), so every
step of the composition is a step of each part or a stutter of it (`EachPartSteps`),
and an initial state of the composition is one of every part. That is why the run may
check nineteen parts in one instance, and why what is proved of a part alone holds of
the composition whichever part it runs. The case distinction of `OperationsInv` needs that `Parts` names parts
(`PartsAssumption`). All five hypotheses hold in the configuration of the run.

What is model-checked only:

- liveness (`PaymentsResolve`, `LoopsCatchUp` and its parts): the prover has no
  reasoning about fairness or `ENABLED`;
- that the violated runs are violated: a counterexample is a behaviour, not a theorem;
- `MoneyInv` on larger instances than one invoice: `runs` checks with two
  invoices what follows from it, the theorem needs no bound.

## 5. Not modelled

`PROJECT.json` gives every component its status and reason. In short:

- Identity, sessions, API keys and permissions: every action is taken by a user the
  API let in. The portal's sessions are likewise taken as given.
- Formats, arithmetic and matching: extraction results, PO matching, duplicate
  detection, 1099, e-invoice formats, proration. They
  are sequential and the models choose among their outcomes.
- Retention, privacy erasure, tenant sign-up and provisioning, positive pay, expense reports, budgets, punchout. Each
  has unlocked reads of the kind modelled here (an expense attached
  from a stale read joins an approved report; sign-up commits the organization
  before its tables). They wait for the plan.
- The workflow instance's own `state` and step rows, routing rules and signatures;
  the manual `/erp-sync`; queue-based extraction, ERP and audit modes.

## 6. Plan

1. **Further parts**: expense reports, retention, positive pay; the
   instance's `state` and step rows in `InvoiceWorkflow`.
2. **A configuration check**: which of the chains that `ChainStaffed` excludes are
   workable all the same, so that the hypothesis becomes exact.

## 7. Running it

```
tlc -workers 2 -config PaymentsRuns.cfg MCPaymentRuns
tlc -workers 2 -config Operations.cfg MCOperations
tlc -workers 2 -config OperationsLoops.cfg MCOperations
tlapm PaymentRunsProofs.tla
tlapm PaymentMoneyProofs.tla
tlapm RecordProofs.tla
tlapm ControlProofs.tla
tlapm LoopProofs.tla
tlapm InvoiceProofs.tla
tlapm SweepProofs.tla
tlapm OperationsProofs.tla
```
