--------------------------- MODULE DiscountOffers ---------------------------
(***************************************************************************)
(* One early-payment discount offer and everyone who moves it: people, who *)
(* accept or decline what they read without a lock; the cash-flow copilot, *)
(* which refreshes the row under its lock; the auto-capture sweep of each  *)
(* replica, which reads, thinks and then claims the row again; and the     *)
(* settlement of the invoice, which captures an accepted offer.            *)
(***************************************************************************)
EXTENDS Naturals

CONSTANTS Deciders,     \* accept and decline requests in progress
          Optimizers    \* replicas running the sweep

VARIABLES offer,        \* DiscountOffer: status and accepted_by
          calendar,     \* what today leaves of the offer
          decisions,    \* request -> the verdict it is about to write
          sweeps,       \* replica -> where its tick is
          capturing     \* a settlement has read the offer as accepted

discountVars == <<offer, calendar, decisions, sweeps, capturing>>

OfferStatus == {"offered", "accepted", "captured", "declined", "expired"}
Offers == [status : OfferStatus, accepted_by : {"null", "person"}]

(* A tier is still capturable; the offer is valid, every tier is closed; the *)
(* offer has lapsed.                                                        *)
Days == {"tier", "valid", "lapsed"}
Dawns == [tier |-> "valid", valid |-> "lapsed"]

Verdicts == {"none", "accept", "decline"}
Asleep == [pc |-> "asleep"]
SweepState == {Asleep} \union [pc : {"tick", "accept", "expire"}, as_of : Days]

OffersInit == /\ offer = [status |-> "offered", accepted_by |-> "null"]
              /\ calendar \in {"tier", "valid"}
              /\ decisions = [d \in Deciders |-> "none"]
              /\ sweeps = [s \in Optimizers |-> Asleep]
              /\ capturing = FALSE

(* accept_offer keeps who accepted; the sweep's acceptance has no person. *)
Accepted(by) == [status |-> "accepted", accepted_by |-> by]

---------------------------------------------------------------------------
(* People.  The guards are read with the row, the verdict is written after. *)

Decides(d, verdict) == /\ decisions[d] = "none"
                       /\ offer.status = "offered"
                       /\ decisions' = [decisions EXCEPT ![d] = verdict]
                       /\ UNCHANGED <<offer, calendar, sweeps, capturing>>

OpenAccept(d) == calendar = "tier" /\ Decides(d, "accept")
OpenDecline(d) == calendar # "lapsed" /\ Decides(d, "decline")

CommitDecision(d) ==
  /\ decisions[d] # "none"
  /\ offer' = IF decisions[d] = "accept" THEN Accepted("person")
                                         ELSE [offer EXCEPT !.status = "declined"]
  /\ decisions' = [decisions EXCEPT ![d] = "none"]
  /\ UNCHANGED <<calendar, sweeps, capturing>>

DropDecision(d) == /\ decisions[d] # "none"
                   /\ decisions' = [decisions EXCEPT ![d] = "none"]
                   /\ UNCHANGED <<offer, calendar, sweeps, capturing>>

(* The copilot's selection is read unlocked, but what it writes it has      *)
(* refreshed FOR UPDATE, and the lock lasts to the commit.                  *)
CopilotAccepts == /\ calendar = "tier"
                  /\ offer.status = "offered"
                  /\ offer' = Accepted("person")
                  /\ UNCHANGED <<calendar, decisions, sweeps, capturing>>

---------------------------------------------------------------------------
(* The sweep.  A tick keeps the date it started on. *)

SweepTo(s, state) == sweeps' = [sweeps EXCEPT ![s] = state]

StartTick(s) == /\ sweeps[s] = Asleep
                /\ SweepTo(s, [pc |-> "tick", as_of |-> calendar])
                /\ UNCHANGED <<offer, calendar, decisions, capturing>>

(* The leg reads the row unlocked and computes: a lapsed offer is to        *)
(* expire, one with an open tier whose return clears the threshold is to be *)
(* accepted, and any other is left.                                         *)
ReadOffer(s) == /\ sweeps[s].pc = "tick"
                /\ offer.status = "offered"
                /\ \/ /\ sweeps[s].as_of = "lapsed"
                      /\ SweepTo(s, [sweeps[s] EXCEPT !.pc = "expire"])
                   \/ /\ sweeps[s].as_of = "tier"
                      /\ SweepTo(s, [sweeps[s] EXCEPT !.pc = "accept"])
                /\ UNCHANGED <<offer, calendar, decisions, capturing>>

(* The verdict of the leg, as the row it writes. *)
Swept(s) == IF sweeps[s].pc = "expire" THEN [offer EXCEPT !.status = "expired"]
                                       ELSE Accepted("null")

\* Mutation: what was read before is written without looking again.
ClaimUnread(s) == Swept(s)

(* _claim_if_still_offered: the row under its lock, if it is still offered. *)
ClaimIfStillOffered(s) == IF offer.status = "offered" THEN Swept(s) ELSE offer

WriteVerdict(s) == /\ sweeps[s].pc \in {"accept", "expire"}
                   /\ offer' = ClaimIfStillOffered(s)
                   /\ SweepTo(s, Asleep)
                   /\ UNCHANGED <<calendar, decisions, capturing>>

(* The offer is not the sweep's any more, not worthwhile, or the leg fails. *)
LeaveOffer(s) == /\ sweeps[s] # Asleep
                 /\ SweepTo(s, Asleep)
                 /\ UNCHANGED <<offer, calendar, decisions, capturing>>

---------------------------------------------------------------------------
(* capture_offers_for_settled_payment, in the transaction of the payment. *)

ReadForCapture == /\ ~capturing
                  /\ offer.status = "accepted"
                  /\ capturing' = TRUE
                  /\ UNCHANGED <<offer, calendar, decisions, sweeps>>

CommitCapture == /\ capturing
                 /\ offer' = [offer EXCEPT !.status = "captured"]
                 /\ capturing' = FALSE
                 /\ UNCHANGED <<calendar, decisions, sweeps>>

DropCapture == /\ capturing
               /\ capturing' = FALSE
               /\ UNCHANGED <<offer, calendar, decisions, sweeps>>

DayPasses == /\ calendar # "lapsed"
             /\ calendar' = Dawns[calendar]
             /\ UNCHANGED <<offer, decisions, sweeps, capturing>>

OffersNext ==
  \/ \E d \in Deciders : OpenAccept(d) \/ OpenDecline(d) \/ CommitDecision(d) \/ DropDecision(d)
  \/ CopilotAccepts
  \/ \E s \in Optimizers : StartTick(s) \/ ReadOffer(s) \/ WriteVerdict(s) \/ LeaveOffer(s)
  \/ ReadForCapture \/ CommitCapture \/ DropCapture
  \/ DayPasses

OffersSpec == OffersInit /\ [][OffersNext]_discountVars
---------------------------------------------------------------------------
(* The row, the verdicts held in memory and the ticks are of their kinds. *)
OffersTypeOK == /\ offer \in Offers
                /\ calendar \in Days
                /\ decisions \in [Deciders -> Verdicts]
                /\ sweeps \in [Optimizers -> SweepState]
                /\ capturing \in BOOLEAN

(* Whatever people, settlements and other replicas commit while a sweep is  *)
(* computing wins over it: no step of a sweep changes an offer that is not  *)
(* open, and a sweep accepts or expires an open offer at most once.         *)
SweepYieldsToPeople ==
  [][ sweeps' # sweeps /\ offer' # offer =>
        offer.status = "offered" /\ offer'.status \in {"accepted", "expired"} ]_discountVars
=============================================================================
