------------------------- MODULE PeppolTransmissions -------------------------
(***************************************************************************)
(* One invoice sent over the PEPPOL network and one message received from  *)
(* it.  Both directions claim a unique index with an uncommitted row,      *)
(* do their slow outside work while they hold it, and commit: the sender   *)
(* transmits, the receiver stores the payload.  A claim that dies takes    *)
(* its row with it, not what it did outside.                               *)
(***************************************************************************)
EXTENDS Integers

CONSTANTS Sends,       \* POST /peppol-send requests for the invoice
          Deliveries,  \* webhook calls that carry the message
          MAX_LOST     \* answers of the gateway that get lost: bounds the model

ASSUME PeppolAssumption == MAX_LOST \in Nat

VARIABLES live,        \* a committed row holds the invoice's outbound slot
          accepted,    \* how many times the gateway took the document
          lost,        \* accepted, and the answer never recorded
          send,        \* request -> how far it got
          received,    \* committed inbound invoices of the message
          extractions, \* extractions dispatched for them
          arrival     \* webhook call -> how far it got

sendVars == <<live, accepted, lost, send>>
receiveVars == <<received, extractions, arrival>>
peppolVars == <<sendVars, receiveVars>>

SendState == {"idle", "resolved", "claimed", "accepted", "refused"}
DeliveryState == {"idle", "read", "claimed", "stored", "committed"}

PeppolInit == /\ live = FALSE
              /\ accepted = 0
              /\ lost = 0
              /\ send = [s \in Sends |-> "idle"]
              /\ received = 0
              /\ extractions = 0
              /\ arrival = [h \in Deliveries |-> "idle"]

---------------------------------------------------------------------------
(* Sending. *)

To(s, state) == send' = [send EXCEPT ![s] = state]
HoldsSlot(s) == send[s] \in {"claimed", "accepted", "refused"}

(* No live row seen; the document is valid and the receiver takes it. *)
Resolve(s) == /\ send[s] = "idle" /\ ~live
              /\ To(s, "resolved")
              /\ UNCHANGED <<live, accepted, lost, receiveVars>>

\* Mutation: the row is added after the transmission, in one flush with the answer.
ClaimSlotLate(s) == /\ send[s] = "resolved"
                    /\ To(s, "claimed")
                    /\ UNCHANGED <<live, accepted, lost, receiveVars>>

(* The flush waits for an uncommitted row in the slot; a committed live row  *)
(* answers the request.                                                     *)
ClaimSlot(s) == /\ send[s] = "resolved"
                /\ \A x \in Sends : ~HoldsSlot(x)
                /\ To(s, IF live THEN "idle" ELSE "claimed")
                /\ UNCHANGED <<live, accepted, lost, receiveVars>>

Transmit(s) == /\ send[s] = "claimed"
               /\ \/ To(s, "accepted") /\ accepted' = accepted + 1
                  \/ To(s, "refused") /\ UNCHANGED accepted
               /\ UNCHANGED <<live, lost, receiveVars>>

(* A timeout is written down as a failure, though the gateway has it. *)
LoseReply(s) == /\ send[s] = "claimed"
                /\ lost < MAX_LOST
                /\ To(s, "refused")
                /\ accepted' = accepted + 1
                /\ lost' = lost + 1
                /\ UNCHANGED <<live, receiveVars>>

(* A failed row is outside the index. *)
CommitSend(s) == /\ send[s] \in {"accepted", "refused"}
                 /\ live' = (live \/ send[s] = "accepted")
                 /\ To(s, "idle")
                 /\ UNCHANGED <<accepted, lost, receiveVars>>

SendFails(s) == /\ send[s] \in {"resolved", "claimed", "refused"}
                /\ To(s, "idle")
                /\ UNCHANGED <<live, accepted, lost, receiveVars>>

SendDies(s) == /\ send[s] = "accepted"
               /\ lost < MAX_LOST
               /\ lost' = lost + 1
               /\ To(s, "idle")
               /\ UNCHANGED <<live, accepted, receiveVars>>

---------------------------------------------------------------------------
(* Receiving.  The network may deliver the message any number of times. *)

Arrives(h, state) == arrival' = [arrival EXCEPT ![h] = state]
ClaimsMessage(h) == arrival[h] \in {"claimed", "stored"}

(* The fast path: a message some committed row has is answered. *)
ReadMessage(h) == /\ arrival[h] = "idle" /\ received = 0
                  /\ Arrives(h, "read")
                  /\ UNCHANGED <<sendVars, received, extractions>>

\* Mutation: a redelivery is looked for once and the index does not exist.
ClaimMessageUnread(h) == /\ arrival[h] = "read"
                         /\ Arrives(h, "claimed")
                         /\ UNCHANGED <<sendVars, received, extractions>>

(* The invoice and its transmission are flushed under the message's id. *)
ClaimMessage(h) == /\ arrival[h] = "read"
                   /\ \A x \in Deliveries : ~ClaimsMessage(x)
                   /\ Arrives(h, IF received > 0 THEN "idle" ELSE "claimed")
                   /\ UNCHANGED <<sendVars, received, extractions>>

StorePayload(h) == /\ arrival[h] = "claimed"
                   /\ Arrives(h, "stored")
                   /\ UNCHANGED <<sendVars, received, extractions>>

CommitReceived(h) == /\ arrival[h] = "stored"
                     /\ received' = received + 1
                     /\ Arrives(h, "committed")
                     /\ UNCHANGED <<sendVars, extractions>>

(* Outside the transaction, so that its failure undoes nothing. *)
DispatchExtraction(h) == /\ arrival[h] = "committed"
                         /\ extractions' = extractions + 1
                         /\ Arrives(h, "idle")
                         /\ UNCHANGED <<sendVars, received>>

DeliveryFails(h) == /\ arrival[h] # "idle"
                    /\ Arrives(h, "idle")
                    /\ UNCHANGED <<sendVars, received, extractions>>

PeppolNext ==
  \/ \E s \in Sends : \/ Resolve(s) \/ ClaimSlot(s) \/ Transmit(s) \/ LoseReply(s)
                      \/ CommitSend(s) \/ SendFails(s) \/ SendDies(s)
  \/ \E h \in Deliveries : \/ ReadMessage(h) \/ ClaimMessage(h) \/ StorePayload(h)
                           \/ CommitReceived(h) \/ DispatchExtraction(h) \/ DeliveryFails(h)

PeppolSpec == PeppolInit /\ [][PeppolNext]_peppolVars
---------------------------------------------------------------------------
(* The counters and the requests are of their kinds. *)
PeppolTypeOK == /\ live \in BOOLEAN
                /\ lost \in 0 .. MAX_LOST
                /\ accepted \in Nat
                /\ send \in [Sends -> SendState]
                /\ received \in Nat /\ extractions \in Nat
                /\ arrival \in [Deliveries -> DeliveryState]

(* But for the transmissions whose answer was lost, the gateway took the    *)
(* document just as often as the table says or is about to say, which is    *)
(* once at most: "two concurrent sends can never both reach the gateway".   *)
TransmittedOnce ==
  accepted - lost = IF live \/ \E s \in Sends : send[s] = "accepted" THEN 1 ELSE 0

(* A message makes one invoice however often and at whatever moments it is  *)
(* delivered, and the invoice is extracted once at most.                    *)
ReceivedOnce == /\ received <= 1
                /\ extractions <= received

(* Each direction does its one-time work once.                              *)
OncePerDocument == TransmittedOnce /\ ReceivedOnce

(* The inductive invariant behind OncePerDocument.  A slot is claimed by    *)
(* one request at a time and only while no committed row has it; and a      *)
(* message that was committed once has not been extracted by then.          *)
SlotsAlone ==
  /\ \A s \in Sends : HoldsSlot(s) => ~live /\ \A x \in Sends : HoldsSlot(x) => x = s
  /\ \A h \in Deliveries : ClaimsMessage(h) =>
       received = 0 /\ \A x \in Deliveries : ClaimsMessage(x) => x = h
  /\ \A h \in Deliveries : arrival[h] = "committed" =>
       /\ received = 1 /\ extractions = 0
       /\ \A x \in Deliveries : arrival[x] = "committed" => x = h

PeppolInv == PeppolTypeOK /\ SlotsAlone /\ OncePerDocument
=============================================================================
