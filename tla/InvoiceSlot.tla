----------------------------- MODULE InvoiceSlot -----------------------------
(***************************************************************************)
(* What the payments core promises about the attempts to pay an invoice,   *)
(* whatever requests, sweeps and webhooks do: an invoice has one slot, an  *)
(* attempt takes it, advances in it from booked to sent to settled, leaves *)
(* it once and is never seen in a slot again.                              *)
(***************************************************************************)
EXTENDS Naturals

CONSTANTS Invoices, Attempts, NoAttempt

VARIABLES
    slot,    \* the attempt that holds each invoice's slot, and its phase
    closed   \* the attempts that are over

Phases == {"booked", "sent", "settled"}
Rank(phase) == CASE phase = "booked" -> 0 [] phase = "sent" -> 1 [] phase = "settled" -> 2

EmptySlot == [attempt |-> NoAttempt, phase |-> "booked"]

SlotInit ==
    /\ slot = [i \in Invoices |-> EmptySlot]
    /\ closed = {}

Fresh(a) == a \notin closed /\ \A i \in Invoices : slot[i].attempt # a

Book(i) ==
    /\ slot[i] = EmptySlot
    /\ slot'[i].attempt \in {a \in Attempts : Fresh(a)}
    /\ slot'[i].phase = "booked"
    /\ \A j \in Invoices \ {i} : slot'[j].attempt # slot'[i].attempt

Advance(i) ==
    /\ slot[i] # EmptySlot
    /\ slot'[i].attempt = slot[i].attempt
    /\ Rank(slot'[i].phase) > Rank(slot[i].phase)

Close(i) ==
    /\ slot[i] # EmptySlot
    /\ slot'[i] = EmptySlot

\* One step may move the slots of several invoices: a run books and deletes
\* its payments together.
SlotNext ==
    /\ \A i \in Invoices : slot'[i] = slot[i] \/ Book(i) \/ Advance(i) \/ Close(i)
    /\ closed' = closed \cup {slot[i].attempt : i \in {j \in Invoices : Close(j)}}

SlotSpec == SlotInit /\ [][SlotNext]_<<slot, closed>>
=============================================================================
