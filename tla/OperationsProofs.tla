-------------------------- MODULE OperationsProofs --------------------------
(***************************************************************************)
(* The parts side by side.  The composition that TLC checks implements     *)
(* every part's own specification, whichever part it runs: so whatever is  *)
(* proved of a part holds of the composition, and the invariant of the     *)
(* composition is the parts' invariants taken together.                    *)
(***************************************************************************)
EXTENDS MCOperations, InvoiceProofs, ControlProofs, LoopProofs, RecordProofs, SweepProofs

-----------------------------------------------------------------------------
(* What a step of one part leaves to the others.                            *)

\* A step of a part about invoices leaves everything else alone, and so on.
LEMMA PartsLeave ==
    /\ \A p : InvoicePart(p) =>
         /\ UNCHANGED <<part, cardVars, discountVars, vendorVars, billingVars, screeningVars>>
         /\ UNCHANGED <<deliveryVars, trailVars, reportVars>>
         /\ UNCHANGED <<purchasingVars, peppolVars, chargeVars, exceptionVars, bankVars,
                        contractVars, settlementVars>>
    /\ \A p : MoneyPart(p) =>
         /\ UNCHANGED <<part, lifecycleVars, chainVars, recurringVars, memoVars>>
         /\ UNCHANGED <<deliveryVars, trailVars, reportVars>>
         /\ UNCHANGED <<purchasingVars, peppolVars, chargeVars, exceptionVars, bankVars,
                        contractVars, settlementVars>>
    /\ \A p : ShippingPart(p) =>
         /\ UNCHANGED <<part, lifecycleVars, chainVars, recurringVars, memoVars>>
         /\ UNCHANGED <<cardVars, discountVars, vendorVars, billingVars, screeningVars>>
         /\ UNCHANGED <<purchasingVars, peppolVars, chargeVars, exceptionVars, bankVars,
                        contractVars, settlementVars>>
    /\ \A p : RecordPart(p) =>
         /\ UNCHANGED <<part, lifecycleVars, chainVars, recurringVars, memoVars>>
         /\ UNCHANGED <<cardVars, discountVars, vendorVars, billingVars, screeningVars>>
         /\ UNCHANGED <<deliveryVars, trailVars, reportVars>>
BY Zenon DEF InvoicePart, MoneyPart, ShippingPart, RecordPart, Running, invoiceVars, moneyVars,
  shippingVars, recordVars

\* The parts' steps, and a step in which every part may rest.
EachMoves ==
  /\ [WorkflowNext]_lifecycleVars /\ [ChainNext]_chainVars /\ [RecurringNext]_recurringVars
  /\ [MemosNext]_memoVars /\ [CardsNext]_cardVars /\ [OffersNext]_discountVars
  /\ [VendorsNext]_vendorVars /\ [BillingNext]_billingVars /\ [ScreeningNext]_screeningVars
  /\ [DeliveryNext]_deliveryVars /\ [TrailNext]_trailVars /\ [ReportsNext]_reportVars
  /\ [PurchasingNext]_purchasingVars /\ [PeppolNext]_peppolVars /\ [ChargesNext]_chargeVars
  /\ [QueueNext]_exceptionVars /\ [BankNext]_bankVars /\ [ContractsNext]_contractVars
  /\ [SettlementNext]_settlementVars

\* Every step of the composition is a step of each part, or leaves it alone.
LEMMA EachPartSteps == [OperationsNext]_allVars => EachMoves /\ part' = part
<1> SUFFICES ASSUME [OperationsNext]_allVars PROVE EachMoves /\ part' = part
  OBVIOUS

<1>1. CASE Workflow \/ Chain \/ Recurring \/ Memoranda
  <2>1. CASE Workflow
    BY <2>1, PartsLeave, Zenon DEF EachMoves, Workflow
  <2>2. CASE Chain
    BY <2>2, PartsLeave, Zenon DEF EachMoves, Chain
  <2>3. CASE Recurring
    BY <2>3, PartsLeave, Zenon DEF EachMoves, Recurring
  <2>4. CASE Memoranda
    BY <2>4, PartsLeave, Zenon DEF EachMoves, Memoranda
  <2> QED BY <1>1, <2>1, <2>2, <2>3, <2>4
<1>2. CASE VCards \/ Discounts \/ Vendors \/ Billing \/ Screening
  <2>1. CASE VCards
    BY <2>1, PartsLeave, Zenon DEF EachMoves, VCards
  <2>2. CASE Discounts
    BY <2>2, PartsLeave, Zenon DEF EachMoves, Discounts
  <2>3. CASE Vendors
    BY <2>3, PartsLeave, Zenon DEF EachMoves, Vendors
  <2>4. CASE Billing
    BY <2>4, PartsLeave, Zenon DEF EachMoves, Billing
  <2>5. CASE Screening
    BY <2>5, PartsLeave, Zenon DEF EachMoves, Screening
  <2> QED BY <1>2, <2>1, <2>2, <2>3, <2>4, <2>5
<1>3. CASE Webhooks \/ Trail \/ Reports
  <2>1. CASE Webhooks
    BY <2>1, PartsLeave, Zenon DEF EachMoves, Webhooks
  <2>2. CASE Trail
    BY <2>2, PartsLeave, Zenon DEF EachMoves, Trail
  <2>3. CASE Reports
    BY <2>3, PartsLeave, Zenon DEF EachMoves, Reports
  <2> QED BY <1>3, <2>1, <2>2, <2>3
<1>4. CASE Buying \/ Peppol \/ Charging \/ Triage \/ Banking \/ Contracting \/ Settling
  <2>1. CASE Buying
    BY <2>1, PartsLeave, Zenon DEF EachMoves, Buying
  <2>2. CASE Peppol
    BY <2>2, PartsLeave, Zenon DEF EachMoves, Peppol
  <2>3. CASE Charging
    BY <2>3, PartsLeave, Zenon DEF EachMoves, Charging
  <2>4. CASE Triage
    BY <2>4, PartsLeave, Zenon DEF EachMoves, Triage
  <2>5. CASE Banking
    BY <2>5, PartsLeave, Zenon DEF EachMoves, Banking
  <2>6. CASE Contracting
    BY <2>6, PartsLeave, Zenon DEF EachMoves, Contracting
  <2>7. CASE Settling
    BY <2>7, PartsLeave, Zenon DEF EachMoves, Settling
  <2> QED BY <1>4, <2>1, <2>2, <2>3, <2>4, <2>5, <2>6, <2>7
<1>5. CASE UNCHANGED allVars
  BY <1>5, Zenon DEF EachMoves, allVars, invoiceVars, moneyVars, shippingVars, recordVars
<1> QED BY <1>1, <1>2, <1>3, <1>4, <1>5, Zenon DEF OperationsNext

\* The composition implements every part, with the fairness that the part assumes.
THEOREM PartsCompose ==
    OperationsSpec =>
      /\ WorkflowSpec /\ ChainSpec /\ RecurringSpec /\ MemosSpec
      /\ CardsSpec /\ OffersSpec /\ VendorsSpec /\ BillingSpec
      /\ ScreeningSpec /\ DeliverySpec /\ TrailSpec /\ ReportsSpec
      /\ PurchasingSpec /\ PeppolSpec /\ ChargesSpec /\ QueueSpec
      /\ BankSpec /\ ContractsSpec /\ SettlementSpec
<1>1. OperationsInit =>
        /\ WorkflowInit /\ ChainInit /\ RecurringInit /\ MemosInit
        /\ CardsInit /\ OffersInit /\ VendorsInit /\ BillingInit
        /\ ScreeningInit /\ DeliveryInit /\ TrailInit /\ ReportsInit
        /\ PurchasingInit /\ PeppolInit /\ ChargesInit /\ QueueInit
        /\ BankInit /\ ContractInit /\ SettlementInit
  BY Zenon DEF OperationsInit
<1>2. [OperationsNext]_allVars =>
        /\ [WorkflowNext]_lifecycleVars /\ [ChainNext]_chainVars /\ [RecurringNext]_recurringVars
        /\ [MemosNext]_memoVars /\ [CardsNext]_cardVars /\ [OffersNext]_discountVars
        /\ [VendorsNext]_vendorVars /\ [BillingNext]_billingVars /\ [ScreeningNext]_screeningVars
        /\ [DeliveryNext]_deliveryVars /\ [TrailNext]_trailVars /\ [ReportsNext]_reportVars
        /\ [PurchasingNext]_purchasingVars /\ [PeppolNext]_peppolVars /\ [ChargesNext]_chargeVars
        /\ [QueueNext]_exceptionVars /\ [BankNext]_bankVars /\ [ContractsNext]_contractVars
        /\ [SettlementNext]_settlementVars
  BY EachPartSteps, Zenon DEF EachMoves
<1> QED BY <1>1, <1>2, PTL DEF OperationsSpec, WorkflowSpec, ChainSpec, RecurringSpec, MemosSpec, CardsSpec, OffersSpec, VendorsSpec, BillingSpec, ScreeningSpec, DeliverySpec, TrailSpec, ReportsSpec, PurchasingSpec, PeppolSpec, ChargesSpec, QueueSpec, BankSpec, ContractsSpec, SettlementSpec

-----------------------------------------------------------------------------
(* What holds of the composition.                                           *)

\* The invariants of the parts, which hold of all of them at once.
EachInv ==
  /\ WorkflowInv /\ ChainInv /\ CopiesWorkable /\ RecurringTypeOK
  /\ MemosInv /\ CardsInv /\ OffersTypeOK /\ VendorsInv
  /\ BillingInv /\ ScreeningTypeOK /\ ScreeningInv /\ DeliveryInv
  /\ TrailInv /\ ReportsTypeOK /\ ReportsInv /\ PurchasingInv
  /\ PeppolInv /\ ChargesInv /\ QueueInv /\ BankInv
  /\ ContractsInv /\ SettlementInv

LEMMA CopiesInvariance == ChainSpec => [](ChainInv /\ CopiesWorkable)
BY ChainStarts, ChainSteps, CopiesStart, CopiesSteps, PTL DEF ChainSpec

\* For any parts, whatever each of them is given to work with: the tables hold what
\* their columns allow and the requests what their handlers' variables hold, and every
\* inductive invariant holds.  One process mails the reports, and every level of the
\* chain has somebody to sign it.
THEOREM PartsKeepTheirInvariants ==
    ASSUME OneMailer, ChainStaffed
    PROVE  OperationsSpec => []OperationsInv
<1>1. OperationsSpec => []EachInv
  <2>1. /\ ChainSpec => [](ChainInv /\ CopiesWorkable)
        /\ RecurringSpec => []RecurringTypeOK
        /\ MemosSpec => []MemosInv
    BY CopiesInvariance, RecurringTyped, CreditsAreWithin, PTL
  <2>2. EachInv <=> 
          /\ WorkflowInv /\ ChainInv /\ CopiesWorkable /\ RecurringTypeOK
          /\ MemosInv /\ CardsInv /\ OffersTypeOK /\ VendorsInv
          /\ BillingInv /\ ScreeningTypeOK /\ ScreeningInv /\ DeliveryInv
          /\ TrailInv /\ ReportsTypeOK /\ ReportsInv /\ PurchasingInv
          /\ PeppolInv /\ ChargesInv /\ QueueInv /\ BankInv
          /\ ContractsInv /\ SettlementInv
    BY Zenon DEF EachInv
  <2> QED BY <2>1, <2>2, PartsCompose, WorkflowInvariance, CardsInvariance, OffersTyped,
             VendorsInvariance, BillingInvariance, ScreeningTyped, ScreeningInvariance,
             DeliveryInvariance, TrailInvariance, ReportsTyped, ReportsInvariance,
             PurchasingInvariance, PeppolInvariance, ChargesInvariance, QueueInvariance,
             BankInvariance, ContractsInvariance, SettlementInvariance, PTL
<1>2. OperationsSpec => [](part \in Parts)
  <2>1. OperationsInit => part \in Parts
    BY DEF OperationsInit
  <2>2. part \in Parts /\ [OperationsNext]_allVars => (part \in Parts)'
    BY EachPartSteps
  <2> QED BY <2>1, <2>2, PTL DEF OperationsSpec
<1>3. EachInv /\ part \in Parts => OperationsInv
  <2> SUFFICES ASSUME EachInv, part \in PartNames PROVE OperationsInv
    BY PartsAssumption
  <2> QED BY DEF EachInv, PartNames, OperationsInv
<1> QED BY <1>1, <1>2, <1>3, PTL

\* What the runs check of the parts, for any instance of them.  One process mails the
\* reports, one request at a time issues a card for an invoice, one task sends an
\* invoice to the ERP, the chain is staffed, and amounts fit their column.
THEOREM PartsKeepTheirPromises ==
    ASSUME OneMailer, OneIssuer, OnePush, ChainStaffed, AmountsFit
    PROVE  OperationsSpec =>
             /\ [](PayableIsAttributed /\ SendingIsOwed /\ ChainSound /\ OneSenderOneBudget)
             /\ [](OneOpenCard /\ StatusIsEarned /\ StampedMeansShipped /\ BuysOnce)
             /\ [](OncePerDocument /\ OneChargePerExpense /\ ClearedOnce)
             /\ ReaperSparesResults /\ ApprovedByEveryLevel /\ ApprovalsKept /\ IssuedCardWorks
             /\ NothingEarly /\ ReportsOnceAndFairly /\ MatchesHold /\ NoOverApplication
             /\ SweepYieldsToPeople /\ BillingActsOnTheRow /\ DualControl /\ AgentActsWhole
             /\ SweepHonorsTheTerm /\ CompletionDecides
<1>1. MemosSpec => NoOverApplication
  BY CreditsAreWithin, PTL
<1> QED BY <1>1, PartsCompose, PayersAreComparable, SendersAreOwed, ChainStaysWorkable, OneBudget,
  OneCardOpen, StatusesAreEarned, StampsAreEarned, RequisitionsBuyOnce, DocumentsMoveOnce,
  ChargesPayOnce, PaymentsClearOnce, ReaperSpares, EveryLevelSigns, ApprovalsAreKept,
  IssuedCardsWork, SweepsRaiseNothingEarly, ReportsOnceEach, MatchesAreHeld, SweepsYield,
  BillingActs, TwoPeopleDecide, AgentsActWhole, SweepsHonorTerms, CompletionsDecide, PTL
=============================================================================
