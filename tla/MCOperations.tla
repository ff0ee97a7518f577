---------------------------- MODULE MCOperations ----------------------------
(***************************************************************************)
(* Model checking the parts of the system that share nothing with each     *)
(* other but the statuses of an invoice.  An instance runs one part, which *)
(* the initial state picks: the states of the parts add up.                *)
(***************************************************************************)
EXTENDS InvoiceWorkflow, ApprovalChain, WebhookDelivery, VirtualCards,
        RecurringInvoices, CreditMemos, DiscountOffers, AuditShipping,
        Subscriptions, VendorBankChanges, Purchasing, PeppolTransmissions,
        CardCharges, ExceptionQueue, BankReconciliation, ContractTerms, Settlement,
        ScheduledReports, VendorScreening

CONSTANTS Parts,        \* the parts this instance runs
          manager, controller, director, deputy,
          wire, cheque, \* two payments a bank line may clear
          eur, jpy, kwd \* currencies of two, no and three decimals

PartNames == {"workflow", "chain", "recurring", "memos", "cards", "discounts", "vendors",
              "billing", "screening", "webhooks", "trail", "reports", "purchasing", "peppol",
              "charges", "exceptions", "bank", "contracts", "settlement"}

ASSUME PartsAssumption == Parts \subseteq PartNames

VARIABLE part

MCNamedApprovers == <<{manager}, {controller, director}>>
MCEscalateTo == <<{}, {deputy}>>
MCParallelMode == <<"any", "all">>
MCRequired == <<1, 1>>
MCDelegateOf == [u \in Users |-> CASE u = manager  -> {director}
                                   [] u = director -> {controller}
                                   [] OTHER        -> {}]
MCAdapters == <<"cloudwatch", "s3">>
MCSupplierOrder == <<"acme", "bolt">>
MCPoison == [k \in {"cloudwatch", "s3"} |-> IF k = "cloudwatch" THEN {2} ELSE {}]

MCCandidates == [f \in Files |-> IF f = "april" THEN <<{wire}, {wire, cheque}>>
                                               ELSE <<{cheque}, {}>>]

MCExponent == [c \in Currencies |-> CASE c = eur -> 2 [] c = jpy -> 0 [] c = kwd -> 3]
MCInstructions ==
  { [target |-> [amount |-> 1000, currency |-> eur], source |-> NoLeg],
    [target |-> [amount |-> 3000, currency |-> jpy], source |-> [amount |-> 2500, currency |-> eur]],
    [target |-> [amount |-> 2500, currency |-> jpy], source |-> NoLeg],
    [target |-> [amount |-> 50, currency |-> kwd], source |-> [amount |-> 60, currency |-> eur]] }
MCDeviations == {-20, -16, -15, -2, -1, 0, 1, 2, 15}

invoiceVars == <<lifecycleVars, chainVars, recurringVars, memoVars>>
moneyVars == <<cardVars, discountVars, vendorVars, billingVars, screeningVars>>
shippingVars == <<deliveryVars, trailVars, reportVars>>
recordVars == <<purchasingVars, peppolVars, chargeVars, exceptionVars, bankVars,
                contractVars, settlementVars>>
allVars == <<part, invoiceVars, moneyVars, shippingVars, recordVars>>

Running(p) == part = p /\ part' = part
InvoicePart(p) == Running(p) /\ UNCHANGED <<moneyVars, shippingVars, recordVars>>
MoneyPart(p) == Running(p) /\ UNCHANGED <<invoiceVars, shippingVars, recordVars>>
ShippingPart(p) == Running(p) /\ UNCHANGED <<invoiceVars, moneyVars, recordVars>>
RecordPart(p) == Running(p) /\ UNCHANGED <<invoiceVars, moneyVars, shippingVars>>

Workflow == InvoicePart("workflow") /\ WorkflowNext /\ UNCHANGED <<chainVars, recurringVars, memoVars>>
Chain == InvoicePart("chain") /\ ChainNext /\ UNCHANGED <<lifecycleVars, recurringVars, memoVars>>
Recurring == InvoicePart("recurring") /\ RecurringNext /\ UNCHANGED <<lifecycleVars, chainVars, memoVars>>
Memoranda == InvoicePart("memos") /\ MemosNext /\ UNCHANGED <<lifecycleVars, chainVars, recurringVars>>

VCards == MoneyPart("cards") /\ CardsNext /\ UNCHANGED <<discountVars, vendorVars, billingVars, screeningVars>>
Discounts == MoneyPart("discounts") /\ OffersNext /\ UNCHANGED <<cardVars, vendorVars, billingVars, screeningVars>>
Vendors == MoneyPart("vendors") /\ VendorsNext /\ UNCHANGED <<cardVars, discountVars, billingVars, screeningVars>>
Billing == MoneyPart("billing") /\ BillingNext /\ UNCHANGED <<cardVars, discountVars, vendorVars, screeningVars>>
Screening == MoneyPart("screening") /\ ScreeningNext /\ UNCHANGED <<cardVars, discountVars, vendorVars, billingVars>>

Webhooks == ShippingPart("webhooks") /\ DeliveryNext /\ UNCHANGED <<trailVars, reportVars>>
Trail == ShippingPart("trail") /\ TrailNext /\ UNCHANGED <<deliveryVars, reportVars>>
Reports == ShippingPart("reports") /\ ReportsNext /\ UNCHANGED <<deliveryVars, trailVars>>

Buying == RecordPart("purchasing") /\ PurchasingNext
          /\ UNCHANGED <<peppolVars, chargeVars, exceptionVars, bankVars, contractVars, settlementVars>>
Peppol == RecordPart("peppol") /\ PeppolNext
          /\ UNCHANGED <<purchasingVars, chargeVars, exceptionVars, bankVars, contractVars, settlementVars>>
Charging == RecordPart("charges") /\ ChargesNext
            /\ UNCHANGED <<purchasingVars, peppolVars, exceptionVars, bankVars, contractVars, settlementVars>>
Triage == RecordPart("exceptions") /\ QueueNext
          /\ UNCHANGED <<purchasingVars, peppolVars, chargeVars, bankVars, contractVars, settlementVars>>
Banking == RecordPart("bank") /\ BankNext
           /\ UNCHANGED <<purchasingVars, peppolVars, chargeVars, exceptionVars, contractVars, settlementVars>>
Contracting == RecordPart("contracts") /\ ContractsNext
               /\ UNCHANGED <<purchasingVars, peppolVars, chargeVars, exceptionVars, bankVars, settlementVars>>
Settling == RecordPart("settlement") /\ SettlementNext
            /\ UNCHANGED <<purchasingVars, peppolVars, chargeVars, exceptionVars, bankVars, contractVars>>

(* A part that does not run stays in one of its initial states;    *)
(* the buyers are interchangeable, so one of them may be who asked.         *)
OperationsInit ==
  /\ part \in Parts
  /\ WorkflowInit /\ (part # "workflow" => snapshot = {} /\ jobs = [j \in Jobs |-> NoJob])
  /\ ChainInit
  /\ RecurringInit /\ (part # "recurring" => today = 0 /\ template.complete)
  /\ MemosInit /\ (part # "memos" => \A x \in Memos, y \in Invoices :
                                      memo[x].amount = 1 /\ amount[y] = 1)
  /\ CardsInit
  /\ OffersInit /\ (part # "discounts" => calendar = "tier")
  /\ VendorsInit /\ (part # "vendors" => login = NoLogin)
  /\ ScreeningInit /\ (part # "screening" =>
       /\ \A v \in Suppliers : master[v].status = "unverified"
       /\ \A b \in Bills : billedBy[b] = SupplierOrder[1])
  /\ BillingInit /\ (part # "billing" =>
       sub = [plan |-> CHOOSE p \in Plans : TRUE, status |-> "active", overdue |-> FALSE])
  /\ DeliveryInit /\ TrailInit
  /\ ReportsInit /\ (part # "reports" => reports = [x \in Schedules |-> Absent])
  /\ PurchasingInit /\ (\A x \in Asks : ask[x].requester = CHOOSE u \in Buyers : TRUE)
  /\ PeppolInit
  /\ ChargesInit /\ (part # "charges" => \A x \in Expenses : expense[x].there)
  /\ QueueInit /\ BankInit
  /\ ContractInit /\ (part # "contracts" => contract.end = 1)
  /\ SettlementInit /\ (part # "settlement" => instruction = CHOOSE i \in Instructions : TRUE)

(* Whatever is interleaved in a part, its tables hold what their columns    *)
(* allow and its requests what their handlers' variables hold, and where    *)
(* the part has an inductive invariant, that the proofs rest on, it holds.  *)
OperationsInv ==
  CASE part = "workflow" -> WorkflowInv
    [] part = "chain" -> ChainInv /\ CopiesWorkable /\ ChainStaffed
    [] part = "recurring" -> RecurringTypeOK
    [] part = "memos" -> MemosInv
    [] part = "cards" -> CardsInv
    [] part = "discounts" -> OffersTypeOK
    [] part = "vendors" -> VendorsInv
    [] part = "billing" -> BillingInv
    [] part = "screening" -> ScreeningTypeOK /\ ScreeningInv
    [] part = "webhooks" -> DeliveryInv
    [] part = "trail" -> TrailInv
    [] part = "reports" -> ReportsTypeOK /\ ReportsInv
    [] part = "purchasing" -> PurchasingInv
    [] part = "peppol" -> PeppolInv
    [] part = "charges" -> ChargesInv
    [] part = "exceptions" -> QueueInv
    [] part = "bank" -> BankInv
    [] part = "contracts" -> ContractsInv
    [] part = "settlement" -> SettlementInv

OperationsNext == \/ Workflow \/ Chain \/ Recurring \/ Memoranda
                  \/ VCards \/ Discounts \/ Vendors \/ Billing \/ Screening
                  \/ Webhooks \/ Trail \/ Reports
                  \/ Buying \/ Peppol \/ Charging \/ Triage \/ Banking
                  \/ Contracting \/ Settling

(* The fairness of the parts.  Where a part does not run, none of the      *)
(* actions it is fair to is enabled.                                       *)
OperationsSpec == /\ OperationsInit /\ [][OperationsNext]_allVars
                  /\ WorkflowFairness /\ RecurringFairness /\ TrailFairness /\ ContractsFairness
                  /\ ReportsFairness /\ ScreeningFairness

(* The background loops keep up with their work, whatever requests, other   *)
(* replicas, crashes and outages come between: no invoice waits for an      *)
(* extraction for ever, again and again no period that has begun is left    *)
(* unraised, no contract past its end active, no report left due and no     *)
(* vendor unscreened, and every audit row reaches the sinks.                *)
LoopsCatchUp == PendingEnds /\ SweepCatchesUp /\ TrailMoves /\ OverdueEnds /\ ReportsMove
                  /\ RescreensMove
=============================================================================
