----------------------------- MODULE CreditMemos -----------------------------
(***************************************************************************)
(* Credit memos of one vendor and the invoices they are applied to.        *)
(* Applying a memo reads the memo without a lock, locks the invoice, sums  *)
(* what is applied to it already, and writes; the invoice's row lock is    *)
(* what keeps two memos from spending one balance.  Voiding reads the memo *)
(* without a lock and writes later.  An invoice's amount may be edited at  *)
(* any time, and no credit is asked about then.                            *)
(***************************************************************************)
EXTENDS Integers, FiniteSetsExt

CONSTANTS Memos,        \* memos that exist or may be created
          Invoices,     \* invoices of the vendor
          Clerks,       \* open apply and void requests
          MAX_AMOUNT    \* amounts are 1 .. MAX_AMOUNT: bounds the model only

ASSUME MemosAssumption == /\ MAX_AMOUNT \in Nat \ {0}
                          /\ IsFiniteSet(Memos) /\ Memos # {}

VARIABLES memo,         \* the row of credit_memos
          amount,       \* Invoice.amount
          request,      \* clerk -> the request it is in the middle of
          remaining     \* clerk -> the balance it computed under the lock

memoVars == <<memo, amount, request, remaining>>

Amounts == 1 .. MAX_AMOUNT
NoInvoice == "none"
MemoRow == [status : {"absent", "open", "applied", "void"}, amount : Amounts,
            invoice : Invoices \union {NoInvoice}]
Request == [pc : {"idle", "applying", "locked", "voiding"}, memo : Memos,
            invoice : Invoices \union {NoInvoice}]
NoRequest == [pc |-> "idle", memo |-> CHOOSE m \in Memos : TRUE, invoice |-> NoInvoice]

MemosInit == /\ \E credit \in [Memos -> Amounts] :
                  memo = [m \in Memos |-> [status |-> "absent", amount |-> credit[m],
                                           invoice |-> NoInvoice]]
             /\ amount \in [Invoices -> Amounts]
             /\ request = [k \in Clerks |-> NoRequest]
             /\ remaining = [k \in Clerks |-> 0]

---------------------------------------------------------------------------
AppliedTo(i) == {m \in Memos : memo[m].status = "applied" /\ memo[m].invoice = i}
Credit(S) == MapThenSumSet(LAMBDA m : memo[m].amount, S)
Unlocked(i) == \A k \in Clerks : request[k].pc = "locked" => request[k].invoice # i

(* A memo created against an invoice is applied at once, under its lock. *)
CreateMemo(m) ==
  /\ memo[m].status = "absent"
  /\ \/ memo' = [memo EXCEPT ![m].status = "open"]
     \/ \E i \in Invoices :
          /\ Unlocked(i)
          /\ memo[m].amount <= amount[i] - Credit(AppliedTo(i))
          /\ memo' = [memo EXCEPT ![m].status = "applied", ![m].invoice = i]
  /\ UNCHANGED <<amount, request, remaining>>

OpenApply(k, m, i) ==
  /\ request[k].pc = "idle"
  /\ memo[m].status = "open"
  /\ request' = [request EXCEPT ![k] = [pc |-> "applying", memo |-> m, invoice |-> i]]
  /\ UNCHANGED <<memo, amount, remaining>>

\* Mutation: the balance is read without waiting for the invoice's lock.
LockInvoiceNot(k) ==
  /\ request[k].pc = "applying"
  /\ request' = [request EXCEPT ![k].pc = "locked"]
  /\ LET i == request[k].invoice
     IN remaining' = [remaining EXCEPT ![k] =
          amount[i] - Credit(AppliedTo(i) \ {request[k].memo})]
  /\ UNCHANGED <<memo, amount>>

(* SELECT ... FOR UPDATE of the invoice, and what is left of its amount. *)
LockInvoice(k) ==
  /\ request[k].pc = "applying"
  /\ Unlocked(request[k].invoice)
  /\ request' = [request EXCEPT ![k].pc = "locked"]
  /\ LET i == request[k].invoice
     IN remaining' = [remaining EXCEPT ![k] =
          amount[i] - Credit(AppliedTo(i) \ {request[k].memo})]
  /\ UNCHANGED <<memo, amount>>

Answered(k) == /\ request' = [request EXCEPT ![k] = NoRequest]
               /\ remaining' = [remaining EXCEPT ![k] = 0]

(* A memo another request has applied or voided since is applied again. *)
CommitApply(k) ==
  /\ request[k].pc = "locked"
  /\ LET m == request[k].memo
     IN memo' = IF memo[m].amount <= remaining[k]
                THEN [memo EXCEPT ![m].status = "applied", ![m].invoice = request[k].invoice]
                ELSE memo
  /\ Answered(k)
  /\ UNCHANGED amount

OpenVoid(k, m) ==
  /\ request[k].pc = "idle"
  /\ memo[m].status \in {"open", "void"}
  /\ request' = [request EXCEPT ![k] = [NoRequest EXCEPT !.pc = "voiding", !.memo = m]]
  /\ UNCHANGED <<memo, amount, remaining>>

CommitVoid(k) ==
  /\ request[k].pc = "voiding"
  /\ memo' = [memo EXCEPT ![request[k].memo].status = "void"]
  /\ Answered(k)
  /\ UNCHANGED amount

RequestFails(k) ==
  /\ request[k].pc # "idle"
  /\ Answered(k)
  /\ UNCHANGED <<memo, amount>>

(* PATCH /api/invoices holds the invoice's lock and does not count credit. *)
EditAmount(i) ==
  /\ Unlocked(i)
  /\ \E a \in Amounts : amount' = [amount EXCEPT ![i] = a]
  /\ UNCHANGED <<memo, request, remaining>>

MemosNext ==
  \/ \E m \in Memos : CreateMemo(m)
  \/ \E k \in Clerks :
       \/ \E m \in Memos, i \in Invoices : OpenApply(k, m, i)
       \/ \E m \in Memos : OpenVoid(k, m)
       \/ LockInvoice(k) \/ CommitApply(k) \/ CommitVoid(k) \/ RequestFails(k)
  \/ \E i \in Invoices : EditAmount(i)

MemosSpec == MemosInit /\ [][MemosNext]_memoVars

---------------------------------------------------------------------------
(* The variables have the shape the rows and the requests have in the     *)
(* code, and two requests never hold one invoice.                         *)
MemosTypeOK == /\ memo \in [Memos -> MemoRow]
               /\ amount \in [Invoices -> Amounts]
               /\ request \in [Clerks -> Request]
               /\ remaining \in [Clerks -> Int]
               /\ \A j, k \in Clerks :
                    request[j].pc = "locked" /\ request[k].pc = "locked"
                      => j = k \/ request[j].invoice # request[k].invoice

(* No request takes the credit applied to an invoice over what the        *)
(* invoice is for, though the memo and the sum are read before the write  *)
(* and other requests apply, void and move memos meanwhile: a credit      *)
(* beyond the balance would be "money out of nowhere" in apply_credit_memo.*)
(* Only an edit of the amount can leave an invoice over-credited.         *)
NoOverApplication ==
  [][memo' # memo => \A i \in Invoices :
       Credit(AppliedTo(i))' > Credit(AppliedTo(i)) =>
         Credit(AppliedTo(i))' <= amount'[i]]_memoVars

---------------------------------------------------------------------------
(* The inductive invariant.  While a request holds an invoice's lock, no    *)
(* other request adds to what is applied to the invoice, and the amount     *)
(* stays: what the request computed is still there when it commits, or more *)
(* is, where a memo was voided or moved to another invoice meanwhile.       *)
LocksAreOfInvoices ==
  \A k \in Clerks : request[k].pc \in {"applying", "locked"} => request[k].invoice \in Invoices

BalanceIsThere ==
  \A k \in Clerks : request[k].pc = "locked" =>
    remaining[k] <= amount[request[k].invoice]
                      - Credit(AppliedTo(request[k].invoice) \ {request[k].memo})

MemosInv == MemosTypeOK /\ LocksAreOfInvoices /\ BalanceIsThere
=============================================================================
