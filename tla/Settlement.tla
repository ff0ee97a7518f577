----------------------------- MODULE Settlement -----------------------------
(***************************************************************************)
(* What a processor says it moved for a payment, and what that decides:    *)
(* the verdict, the columns the payment row keeps, the fraud flag, and     *)
(* whether the invoice may become paid.  One invoice and the payments      *)
(* booked for it one after the other; how their rows come about, fail and  *)
(* race is PaymentRuns.                                                    *)
(*                                                                         *)
(* Amounts count thousandths of a major unit, the smallest minor unit.     *)
(***************************************************************************)
EXTENDS Integers

CONSTANTS Currencies, NoCurrency,
          Exponent,      \* currency -> ISO 4217 exponent, 0, 2 or 3
          Instructions,  \* what a payment may authorize
          NoLeg,         \* source leg of a domestic payment
          COLUMN_LIMIT,  \* first amount NUMERIC(15, 2) does not hold
          Deviations     \* by how many minor units a processor may be off

Legs == [amount : Nat, currency : Currencies]

ASSUME SettlementAssumption ==
  /\ NoCurrency \notin Currencies /\ NoLeg \notin Legs
  /\ Exponent \in [Currencies -> {0, 2, 3}]
  /\ \A i \in Instructions : /\ i.target \in Legs
                             /\ i.source \in Legs \union {NoLeg}
  /\ Deviations \subseteq Int
  /\ COLUMN_LIMIT \in Nat

VARIABLES instruction,  \* amount and source_amount of the payment, with their currencies
          payment,      \* its status
          moved,        \* the processor: minor units of a currency
          verdict,      \* the audit row of the completion
          settled,      \* settled_amount, settled_currency, settled_amount_unstorable
          payable,      \* the invoice's status
          waived,       \* a payment.settlement_accepted row exists for the payment
          flagged       \* an unresolved fraud_flag on the invoice

settlementVars == <<instruction, payment, moved, verdict, settled, payable, waived, flagged>>

CENT == 10
SETTLEMENT_AMOUNT_TOLERANCE == CENT

Nothing == [minor |-> 0, currency |-> NoCurrency]
NoVerdict == [outcome |-> "none", currency |-> NoCurrency]
NullColumns == [figure |-> "null", amount |-> 0, currency |-> NoCurrency]

---------------------------------------------------------------------------
(* Minor units.  An absent currency has the common exponent. *)

exponent_for(c) == IF c = NoCurrency THEN 2 ELSE Exponent[c]
MinorUnit(c) == CASE exponent_for(c) = 0 -> 1000 [] exponent_for(c) = 2 -> 10 [] OTHER -> 1

\* Mutation: every currency has a hundred minor units.
HundredMinorUnits(a, c) == (a + 5) \div 10

to_minor_units(a, c) == (a + MinorUnit(c) \div 2) \div MinorUnit(c)
minor_units_to_decimal(n, c) == n * MinorUnit(c)

(* Two decimals, halves away from zero. *)
_q(a) == LET up(x) == ((x + CENT \div 2) \div CENT) * CENT
         IN  IF a >= 0 THEN up(a) ELSE -up(-a)

_same_currency(a, b) == a = NoCurrency \/ b = NoCurrency \/ a = b

(* The source leg counts where it is another amount or another currency.    *)
AuthorizedLegs(i) ==
  {i.target} \union {l \in {i.source} \ {NoLeg} :
                       ~(l.amount = i.target.amount /\ _same_currency(l.currency, i.target.currency))}

CompatibleLegs(i, c) == {l \in AuthorizedLegs(i) : _same_currency(c, l.currency)}

Distance(a, b) == IF a >= b THEN a - b ELSE b - a

---------------------------------------------------------------------------
(* A report: no amount, an unusable one (NaN, or too large to round), or a  *)
(* figure, with or without its currency.                                    *)

ReportForms == {"silent", "unusable", "figure", "bare_figure"}

Named(form) == IF form = "figure" THEN moved.currency ELSE NoCurrency

Reported(form) == _q(minor_units_to_decimal(moved.minor, Named(form)))

verify_settlement(i, form) ==
  LET candidates == CompatibleLegs(i, Named(form))
      outcome ==
        CASE form = "silent" -> "no_amount"
          [] form = "unusable" -> "unusable_amount"
          [] form \in {"figure", "bare_figure"} /\ candidates = {} -> "currency_mismatch"
          [] form \in {"figure", "bare_figure"} /\ candidates # {} ->
               IF \E l \in candidates :
                    Distance(Reported(form), l.amount) <= SETTLEMENT_AMOUNT_TOLERANCE
               THEN "matched" ELSE "amount_mismatch"
  IN  [outcome |-> outcome, currency |-> Named(form)]

\* Mutation: money in a currency nobody authorized is nobody's concern.
AmountsOnly(v) == v.outcome = "amount_mismatch"

is_discrepancy(v) == v.outcome \in {"amount_mismatch", "currency_mismatch"}

\* Mutation: what the column cannot hold is left out like what was never said.
PersistedOrNull(form) ==
  IF form \in {"figure", "bare_figure"} /\ Distance(Reported(form), 0) < COLUMN_LIMIT
  THEN [figure |-> "stored", amount |-> Reported(form), currency |-> Named(form)]
  ELSE NullColumns

persistable_settled_amount(form) ==
  CASE form = "silent" -> NullColumns
    [] form # "silent" /\ (form = "unusable" \/ Distance(Reported(form), 0) >= COLUMN_LIMIT) ->
         [figure |-> "unstorable", amount |-> 0, currency |-> Named(form)]
    [] OTHER -> [figure |-> "stored", amount |-> Reported(form), currency |-> Named(form)]

\* Mutation: the figure is compared whatever its currency.
CompletesInAnyCurrency(i, s) ==
  \/ s.figure = "null"
  \/ /\ s.figure = "stored"
     /\ \E l \in AuthorizedLegs(i) : s.amount >= l.amount - SETTLEMENT_AMOUNT_TOLERANCE

(* settlement_coverage(...).completes_invoice: nothing was ever reported,   *)
(* or what was covers an authorized leg.                                    *)
completes_invoice(i, s) ==
  \/ s.figure = "null"
  \/ /\ s.figure = "stored"
     /\ \E l \in CompatibleLegs(i, s.currency) : s.amount >= l.amount - SETTLEMENT_AMOUNT_TOLERANCE

---------------------------------------------------------------------------
SettlementInit ==
  /\ instruction \in Instructions
  /\ payment = "submitted"
  /\ moved = Nothing
  /\ verdict = NoVerdict
  /\ settled = NullColumns
  /\ payable = "payment_scheduled"
  /\ waived = FALSE
  /\ flagged = FALSE

(* The processor moves about what it was told, in one currency or another;  *)
(* the amount it was told is the payload's, in minor units.                 *)
ProcessorMoves ==
  /\ payment = "submitted" /\ moved = Nothing
  /\ \E l \in AuthorizedLegs(instruction), c \in Currencies, d \in Deviations :
       LET ordered == to_minor_units(l.amount, c)
       IN  /\ ordered + d > 0
           /\ moved' = [minor |-> ordered + d, currency |-> c]
  /\ UNCHANGED <<instruction, payment, verdict, settled, payable, waived, flagged>>

(* The webhook with what its event carries, or the reconciler's poll, which *)
(* carries nothing: where there is no figure the processor is asked for one. *)
Complete(event, fetched) ==
  LET form == IF event = "silent" THEN fetched ELSE event
  IN  /\ payment = "submitted" /\ moved # Nothing
      /\ payment' = "completed"
      /\ verdict' = verify_settlement(instruction, form)
      /\ settled' = persistable_settled_amount(form)
      /\ flagged' = (flagged \/ is_discrepancy(verify_settlement(instruction, form)))
      /\ UNCHANGED <<instruction, moved, payable, waived>>

SyncLeg == /\ payment = "completed" /\ payable = "payment_scheduled"
           /\ completes_invoice(instruction, settled)
           /\ payable' = "paid"
           /\ UNCHANGED <<instruction, payment, moved, verdict, settled, waived, flagged>>

(* The ERP reports the bill as paid; only a completed payment is looked at. *)
ErpReportsPaid == /\ payable = "payment_scheduled"
                  /\ payment = "completed" => completes_invoice(instruction, settled)
                  /\ payable' = "paid"
                  /\ UNCHANGED <<instruction, payment, moved, verdict, settled, waived, flagged>>

accept_settlement == /\ payment = "completed"
                     /\ ~completes_invoice(instruction, settled)
                     /\ payable = "payment_scheduled"
                     /\ payable' = "paid"
                     /\ waived' = TRUE
                     /\ UNCHANGED <<instruction, payment, moved, verdict, settled, flagged>>

void_payment == /\ payment \in {"submitted", "completed"}
                /\ payment' = "voided"
                /\ payable' = "approved"
                /\ UNCHANGED <<instruction, moved, verdict, settled, waived, flagged>>

(* The approved invoice is paid anew, by another row, once nothing blocks it. *)
PayAgain == /\ payment = "voided" /\ ~flagged
            /\ payment' = "submitted"
            /\ moved' = Nothing
            /\ verdict' = NoVerdict
            /\ settled' = NullColumns
            /\ payable' = "payment_scheduled"
            /\ waived' = FALSE
            /\ UNCHANGED <<instruction, flagged>>

ResolveFlag == /\ flagged
               /\ flagged' = FALSE
               /\ UNCHANGED <<instruction, payment, moved, verdict, settled, payable, waived>>

SettlementNext ==
  \/ ProcessorMoves
  \/ \E event, fetched \in ReportForms : Complete(event, fetched)
  \/ SyncLeg \/ ErpReportsPaid \/ accept_settlement \/ void_payment
  \/ PayAgain \/ ResolveFlag

SettlementSpec == SettlementInit /\ [][SettlementNext]_settlementVars
---------------------------------------------------------------------------
(* The rows and the processor's answer are of their kinds. *)
SettlementTypeOK ==
  /\ instruction \in Instructions
  /\ payment \in {"submitted", "completed", "voided"}
  /\ moved \in [minor : Nat \ {0}, currency : Currencies] \union {Nothing}
  /\ verdict.outcome \in {"none", "no_amount", "unusable_amount", "matched",
                          "amount_mismatch", "currency_mismatch"}
  /\ settled.figure \in {"null", "stored", "unstorable"}
  /\ settled.currency \in Currencies \union {NoCurrency}
  /\ payable \in {"payment_scheduled", "paid", "approved"}
  /\ waived \in BOOLEAN
  /\ flagged \in BOOLEAN

(* What really moved is no more than a cent and the rounding of one below a *)
(* leg of its currency.                                                     *)
Discharged(i, m) ==
  \E l \in {i.target, i.source} \ {NoLeg} :
    /\ l.currency = m.currency
    /\ 2 * minor_units_to_decimal(m.minor, m.currency) + 3 * CENT >= 2 * l.amount

(* The report says unambiguously what moved. *)
Plain(v) == v.currency # NoCurrency /\ v.outcome # "unusable_amount"

(* After a completion only money or a person's word makes an invoice paid:  *)
(* whoever moves it, by ERP sync or on the ERP's word, what the processor   *)
(* moved covers a leg, unless it never said, or did not say in which        *)
(* currency; an unusable report covers nothing.                             *)
PaidMeansCovered ==
  [][ payment = "completed" /\ payable = "payment_scheduled" /\ payable' = "paid" /\ ~waived' =>
        /\ Plain(verdict) => Discharged(instruction, moved)
        /\ verdict.outcome # "unusable_amount" ]_settlementVars

(* The two comparisons of one report agree: a figure that will hold the     *)
(* invoice has raised a flag by then ("stranded the invoice ... with        *)
(* nothing in the queue to explain it" was the old defect), and a processor *)
(* that moved exactly what it was told, in units that can express it, is    *)
(* neither flagged nor held.                                                *)
CleanOrFlagged ==
  [][ payment = "submitted" /\ payment' = "completed" =>
        /\ verdict'.outcome # "unusable_amount" /\ ~completes_invoice(instruction, settled') => flagged'
        /\ (\E l \in AuthorizedLegs(instruction) :
              /\ verdict'.currency = l.currency \/ exponent_for(l.currency) = 2
              /\ moved.currency = l.currency
              /\ moved.minor = to_minor_units(l.amount, l.currency)
              /\ l.amount % MinorUnit(l.currency) = 0)
           => flagged' = flagged /\ (verdict'.outcome # "unusable_amount"
                                       => completes_invoice(instruction, settled')) ]_settlementVars

(* What a completion decides, on both sides: nothing is paid that is not    *)
(* covered, and what holds an invoice is flagged.                           *)
CompletionDecides == PaidMeansCovered /\ CleanOrFlagged

---------------------------------------------------------------------------
(* The inductive invariant: of a completed payment, verdict and columns     *)
(* come from one report of what was moved.                                  *)
OneReport ==
  payment = "completed" =>
    /\ moved # Nothing
    /\ \E form \in ReportForms : /\ verdict = verify_settlement(instruction, form)
                                 /\ settled = persistable_settled_amount(form)

SettlementInv == SettlementTypeOK /\ OneReport

(* An authorized amount is more than a cent below what the column cannot    *)
(* hold.  Up there a match could be too large to keep.                      *)
AmountsFit == \A i \in Instructions : \A l \in AuthorizedLegs(i) : l.amount + CENT < COLUMN_LIMIT
=============================================================================
