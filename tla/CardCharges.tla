----------------------------- MODULE CardCharges -----------------------------
(***************************************************************************)
(* Reconciling the charges of corporate cards with expenses.  The two      *)
(* tables point at each other.  Every request that writes a link holds the *)
(* row lock of its charge; nobody locks an expense.                        *)
(***************************************************************************)
EXTENDS FiniteSets

CONSTANTS Charges,      \* rows of corporate_card_transactions
          Expenses,     \* rows of expenses
          Bookkeepers   \* requests being served at once

VARIABLES charge,       \* row -> [status, matched]
          expense,      \* row -> [there, charge]
          bookkeeper    \* request -> what it read

chargeVars == <<charge, expense, bookkeeper>>

Unset == "null"

(* The two tables have rows of their own, and null is none of them. *)
ASSUME ChargesAssumption == /\ Charges \intersect Expenses = {}
                            /\ Unset \notin Charges \union Expenses

ChargeRow == [status : {"unmatched", "matched", "ignored"}, matched : Expenses \union {Unset}]
ExpenseRow == [there : BOOLEAN, charge : Charges \union {Unset}]
Booking == [pc : {"idle", "delete"}, on : Expenses \union {Unset}]
  \union [pc : {"match", "unmatch"}, on : Charges, with : Expenses, saw : Charges \union {Unset}]
  \union [pc : {"ignore", "create"}, on : Charges]
NotBooking == [pc |-> "idle", on |-> Unset]

ChargesInit == /\ charge = [t \in Charges |-> [status |-> "unmatched", matched |-> Unset]]
               /\ expense \in [Expenses -> [there : BOOLEAN, charge : {Unset}]]
               /\ bookkeeper = [b \in Bookkeepers |-> NotBooking]

---------------------------------------------------------------------------
Begins(b, state) == /\ bookkeeper[b] = NotBooking
                    /\ bookkeeper' = [bookkeeper EXCEPT ![b] = state]
                    /\ UNCHANGED <<charge, expense>>
Ends(b) == bookkeeper' = [bookkeeper EXCEPT ![b] = NotBooking]

\* Mutation: _get_txn_or_404 without for_update.
ChargeUnlocked(t) == TRUE

ChargeFree(t) == \A b \in Bookkeepers : bookkeeper[b].on # t

Unlinked(t) == charge[t].matched = Unset /\ charge[t].status # "matched"

(* Every check is made once the charge is locked, also the one of the       *)
(* expense, which is not.                                                   *)
OpenMatch(b, t, e) == /\ ChargeFree(t) /\ Unlinked(t)
                      /\ expense[e] = [there |-> TRUE, charge |-> Unset]
                      /\ Begins(b, [pc |-> "match", on |-> t, with |-> e, saw |-> Unset])

OpenUnmatch(b, t) == /\ ChargeFree(t) /\ charge[t].status = "matched"
                     /\ LET e == charge[t].matched
                        IN Begins(b, [pc |-> "unmatch", on |-> t, with |-> e,
                                      saw |-> expense[e].charge])

OpenIgnore(b, t) == /\ ChargeFree(t) /\ Unlinked(t)
                    /\ Begins(b, [pc |-> "ignore", on |-> t])

OpenCreate(b, t) == /\ ChargeFree(t) /\ Unlinked(t)
                    /\ Begins(b, [pc |-> "create", on |-> t])

OpenDelete(b, e) == /\ expense[e].there
                    /\ \A t \in Charges : charge[t].matched # e
                    /\ Begins(b, [pc |-> "delete", on |-> e])

Matches(t, e) ==
  /\ charge' = [charge EXCEPT ![t] = [status |-> "matched", matched |-> e]]
  /\ expense' = [expense EXCEPT ![e] = [there |-> TRUE, charge |-> t]]

(* An expense deleted meanwhile fails the request. *)
CommitMatch(b) ==
  /\ bookkeeper[b].pc = "match"
  /\ IF expense[bookkeeper[b].with].there
     THEN Matches(bookkeeper[b].on, bookkeeper[b].with)
     ELSE UNCHANGED <<charge, expense>>
  /\ Ends(b)

(* The expense that the charge names is cleared whatever charge it names by *)
(* now, unless it named none when it was read.                              *)
CommitUnmatch(b) ==
  /\ bookkeeper[b].pc = "unmatch"
  /\ charge' = [charge EXCEPT ![bookkeeper[b].on] = [status |-> "unmatched", matched |-> Unset]]
  /\ expense' = IF bookkeeper[b].saw = Unset THEN expense
                ELSE [expense EXCEPT ![bookkeeper[b].with].charge = Unset]
  /\ Ends(b)

CommitIgnore(b) ==
  /\ bookkeeper[b].pc = "ignore"
  /\ charge' = [charge EXCEPT ![bookkeeper[b].on].status = "ignored"]
  /\ Ends(b)
  /\ UNCHANGED expense

CommitCreate(b, e) ==
  /\ bookkeeper[b].pc = "create"
  /\ ~expense[e].there
  /\ Matches(bookkeeper[b].on, e)
  /\ Ends(b)

(* The charge's foreign key refuses to lose its expense. *)
CommitDelete(b) ==
  /\ bookkeeper[b].pc = "delete"
  /\ LET e == bookkeeper[b].on
     IN expense' = IF \E t \in Charges : charge[t].matched = e THEN expense
                   ELSE [expense EXCEPT ![e] = [there |-> FALSE, charge |-> Unset]]
  /\ Ends(b)
  /\ UNCHANGED charge

BookingFails(b) == /\ bookkeeper[b] # NotBooking
                   /\ Ends(b)
                   /\ UNCHANGED <<charge, expense>>

ChargesNext ==
  \E b \in Bookkeepers :
    \/ \E t \in Charges : \/ \E e \in Expenses : OpenMatch(b, t, e)
                          \/ OpenUnmatch(b, t) \/ OpenIgnore(b, t) \/ OpenCreate(b, t)
    \/ \E e \in Expenses : OpenDelete(b, e) \/ CommitCreate(b, e)
    \/ CommitMatch(b) \/ CommitUnmatch(b) \/ CommitIgnore(b) \/ CommitDelete(b)
    \/ BookingFails(b)

ChargesSpec == ChargesInit /\ [][ChargesNext]_chargeVars
---------------------------------------------------------------------------
(* The rows and the requests are of their kinds. *)
ChargesTypeOK == /\ charge \in [Charges -> ChargeRow]
                 /\ expense \in [Expenses -> ExpenseRow]
                 /\ bookkeeper \in [Bookkeepers -> Booking]

(* What an expense says paid for it says so too: one charge never pays for  *)
(* two expenses, "a double-clicked 'Create expense' minted TWO expenses for *)
(* one card charge", and a charge without a link is open or ignored.  The   *)
(* other way round it does not hold: two charges may be matched with one    *)
(* expense at once, and the expense names the later.                        *)
OneChargePerExpense ==
  /\ \A e \in Expenses : expense[e].charge # Unset =>
       charge[expense[e].charge].matched = e
  /\ \A t \in Charges : (charge[t].status = "matched") <=> (charge[t].matched # Unset)
  /\ \A t \in Charges : charge[t].matched # Unset => expense[charge[t].matched].there

(* The inductive invariant behind OneChargePerExpense.  A charge is held by *)
(* one request, and is while it is held what the request found: free to be  *)
(* linked or ignored, or linked with the expense the request is to clear.   *)
AsFound(b) == LET k == bookkeeper[b] IN
  /\ k.on \in Charges => \A c \in Bookkeepers : bookkeeper[c].on = k.on => c = b
  /\ k.pc \in {"match", "ignore", "create"} => Unlinked(k.on)
  /\ k.pc = "unmatch" => /\ charge[k.on] = [status |-> "matched", matched |-> k.with]
                         /\ k.saw = Unset => expense[k.with].charge # k.on

HeldAsFound == \A b \in Bookkeepers : AsFound(b)

ChargesInv == ChargesTypeOK /\ HeldAsFound /\ OneChargePerExpense
=============================================================================
