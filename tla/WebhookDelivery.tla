--------------------------- MODULE WebhookDelivery ---------------------------
(***************************************************************************)
(* One event for one subscription: the delivery row, and the senders that  *)
(* may POST it.  A sender is the immediate attempt spawned by the emitting *)
(* request, one tick of the retry sweep (of any replica), or an admin's    *)
(* redelivery.  Each takes the row lock before it POSTs and holds it to    *)
(* the commit of the outcome; the sweep and the immediate attempt skip a   *)
(* row somebody holds, the redelivery waits for it.  A crash in the middle *)
(* of a POST gives the lock back and leaves the row as it was.             *)
(* Deliveries share nothing, so one is enough.                             *)
(***************************************************************************)
EXTENDS Naturals

CONSTANTS Senders,       \* attempts that can be in progress at a time
          MAX_ATTEMPTS   \* the budget of one delivery

ASSUME DeliveryAssumption == MAX_ATTEMPTS \in Nat \ {0}

VARIABLES delivery,      \* the row of webhook_deliveries
          active,        \* WebhookSubscription.active; FALSE too once deleted
          sender,        \* sender -> what it is doing
          posts          \* POSTs answered or timed out since the row was last queued

deliveryVars == <<delivery, active, sender, posts>>

RowStates == {"none", "pending", "failed", "delivered", "dead"}
Row == [state : RowStates, attempts : 0 .. MAX_ATTEMPTS, due : BOOLEAN]
NoRow == [state |-> "none", attempts |-> 0, due |-> FALSE]
Queued == [state |-> "pending", attempts |-> 0, due |-> TRUE]
Dead(attempts) == [state |-> "dead", attempts |-> attempts, due |-> FALSE]
SenderState == {"idle", "spawned", "scanned", "posting", "reposting"}

DeliveryInit == /\ delivery = NoRow
                /\ active = TRUE
                /\ sender = [s \in Senders |-> "idle"]
                /\ posts = 0

Waiting == delivery.state \in {"pending", "failed"}
Due == Waiting /\ delivery.due
Sending(s) == sender[s] \in {"posting", "reposting"}
Unclaimed == \A s \in Senders : ~Sending(s)
Becomes(s, pc) == sender' = [sender EXCEPT ![s] = pc]

(* _emit: one row per active subscription, none if the event already has   *)
(* one; the immediate attempt is spawned after the commit, unless there is *)
(* no loop of the application to run it on.                                *)
Emit(s) ==
  /\ active
  /\ delivery = NoRow
  /\ sender[s] = "idle"
  /\ delivery' = Queued
  /\ \E pc \in {"idle", "spawned"} : Becomes(s, pc)
  /\ UNCHANGED <<active, posts>>

(* process_delivery on a row this sender has claimed: a subscription that  *)
(* is gone or inactive dead-letters the row, otherwise the POST begins.    *)
Claimed(s, pc) ==
  IF active
  THEN Becomes(s, pc) /\ UNCHANGED <<delivery, active, posts>>
  ELSE /\ Becomes(s, "idle")
       /\ delivery' = Dead(delivery.attempts)
       /\ UNCHANGED <<active, posts>>

(* process_delivery_by_id claims with SKIP LOCKED and does not ask whether *)
(* the row is due; a row that is terminal is left alone.                   *)
\* Mutation: the row is read without the claim.
ClaimImmediateUnlocked(s) ==
  /\ sender[s] = "spawned"
  /\ IF Waiting THEN Claimed(s, "posting")
                ELSE Becomes(s, "idle") /\ UNCHANGED <<delivery, active, posts>>

ClaimImmediate(s) ==
  /\ sender[s] = "spawned"
  /\ IF Waiting /\ Unclaimed
     THEN Claimed(s, "posting")
     ELSE Becomes(s, "idle") /\ UNCHANGED <<delivery, active, posts>>

(* deliver_due reads the due ids unlocked ... *)
Scan(s) ==
  /\ sender[s] = "idle"
  /\ Due
  /\ Becomes(s, "scanned")
  /\ UNCHANGED <<delivery, active, posts>>

(* ... and claims each with the same question asked again. *)
\* Mutation: the claim takes the row whatever has become of it since the scan.
ClaimScannedAnyway(s) ==
  /\ sender[s] = "scanned"
  /\ IF delivery.state # "none" /\ Unclaimed
     THEN Claimed(s, "posting")
     ELSE Becomes(s, "idle") /\ UNCHANGED <<delivery, active, posts>>

ClaimScanned(s) ==
  /\ sender[s] = "scanned"
  /\ IF Due /\ Unclaimed
     THEN Claimed(s, "posting")
     ELSE Becomes(s, "idle") /\ UNCHANGED <<delivery, active, posts>>

(* The admin's redelivery: failed and dead rows only, the counter restarts, *)
(* nothing of it committed before the outcome.                              *)
Redeliver(s) ==
  /\ sender[s] = "idle"
  /\ Unclaimed
  /\ delivery.state \in {"failed", "dead"}
  /\ IF active
     THEN Becomes(s, "reposting") /\ UNCHANGED delivery
     ELSE /\ delivery' = Dead(0)
          /\ UNCHANGED sender
  /\ UNCHANGED <<active, posts>>

(* The outcome of the POST, with its attempt counted, in one commit.        *)
Attempts(s) == IF sender[s] = "reposting" THEN 1 ELSE delivery.attempts + 1

Finish(s, ok) ==
  /\ Sending(s)
  /\ delivery' = [attempts |-> Attempts(s), due |-> FALSE,
                  state |-> IF ok THEN "delivered"
                            ELSE IF Attempts(s) >= MAX_ATTEMPTS THEN "dead" ELSE "failed"]
  /\ posts' = IF sender[s] = "reposting" THEN 1 ELSE posts + 1
  /\ Becomes(s, "idle")
  /\ UNCHANGED active

(* The backoff of a failed attempt elapses. *)
BackoffElapses ==
  /\ delivery.state = "failed"
  /\ ~delivery.due
  /\ Unclaimed
  /\ delivery' = [delivery EXCEPT !.due = TRUE]
  /\ UNCHANGED <<active, sender, posts>>

(* The administrator switches the subscription off or on, or deletes it     *)
(* with its deliveries.                                                     *)
Switch == /\ delivery # NoRow
          /\ active' = ~active
          /\ UNCHANGED <<delivery, sender, posts>>

DeleteSubscription ==
  /\ delivery # NoRow
  /\ Unclaimed
  /\ delivery' = NoRow
  /\ active' = FALSE
  /\ UNCHANGED <<sender, posts>>

(* A process dies with the senders it runs, in the middle of a POST or not. *)
SenderCrash(s) ==
  /\ sender[s] # "idle"
  /\ Becomes(s, "idle")
  /\ UNCHANGED <<delivery, active, posts>>

DeliveryNext ==
  \/ \E s \in Senders : \/ Emit(s) \/ ClaimImmediate(s) \/ Scan(s) \/ ClaimScanned(s)
                        \/ Redeliver(s) \/ SenderCrash(s)
                        \/ \E ok \in BOOLEAN : Finish(s, ok)
  \/ BackoffElapses
  \/ Switch
  \/ DeleteSubscription

DeliverySpec == DeliveryInit /\ [][DeliveryNext]_deliveryVars
---------------------------------------------------------------------------
(* Properties. *)

(* The row, the subscription and the senders are in a state the code knows. *)
DeliveryTypeOK ==
  /\ delivery \in Row
  /\ active \in BOOLEAN
  /\ sender \in [Senders -> SenderState]
  /\ posts \in Nat

(* The budget is one delivery's and not one worker's: whoever sent them,    *)
(* the attempts counted on the row are the POSTs made since it was last     *)
(* queued (a crash in the middle of one aside), never more than the budget, *)
(* and no more of them begins once the budget is spent.                     *)
BudgetIsShared ==
  /\ posts <= MAX_ATTEMPTS
  /\ delivery.state # "none" /\ delivery.attempts # 0 => delivery.attempts = posts

(* Nobody POSTs a delivery that somebody else is sending, and nobody POSTs  *)
(* one that has been delivered.                                             *)
NoDuplicateSend ==
  \A s \in Senders : Sending(s) =>
    /\ delivery.state # "delivered"
    /\ \A t \in Senders : Sending(t) => t = s

(* One sender at a time, and one budget for all of them.                     *)
OneSenderOneBudget == BudgetIsShared /\ NoDuplicateSend

---------------------------------------------------------------------------
(* The inductive invariant.  Who is POSTing holds a row that may be sent;   *)
(* a row that waits for an attempt has counted the POSTs made and has some  *)
(* left; and a row that is gone is gone with its subscription.              *)
SendersHoldTheRow ==
  \A s \in Senders : /\ sender[s] = "posting" => Waiting
                     /\ sender[s] = "reposting" => delivery.state \in {"failed", "dead"}

WaitingHasBudget == Waiting => delivery.attempts = posts /\ posts < MAX_ATTEMPTS

NoneIsNoRow == delivery.state = "none" => delivery = NoRow /\ (active => posts = 0)

DeliveryInv == /\ DeliveryTypeOK /\ OneSenderOneBudget
               /\ SendersHoldTheRow /\ WaitingHasBudget /\ NoneIsNoRow
=============================================================================
