---------------------------- MODULE ControlProofs ----------------------------
(* Theorems about what a second reader or writer must not be able to undo:  *)
(* discount offers, changes of a vendor's bank details, subscriptions,      *)
(* virtual cards and credit memos.                                          *)
EXTENDS DiscountOffers, VendorBankChanges, Subscriptions, VirtualCards, CreditMemos,
        FiniteSetTheorems, WellFoundedInduction, TLAPS

-----------------------------------------------------------------------------
(* Discount offers.                                                         *)

\* The row, the verdicts and the ticks keep their types.
LEMMA OffersTyped == OffersSpec => []OffersTypeOK
<1>1. OffersInit => OffersTypeOK
  <2> SUFFICES ASSUME OffersInit PROVE OffersTypeOK
    OBVIOUS
  <2>1. offer \in Offers /\ calendar \in Days
    BY DEF OffersInit, Offers, OfferStatus, Days
  <2>2. decisions \in [Deciders -> Verdicts] /\ capturing \in BOOLEAN
    BY DEF OffersInit, Verdicts
  <2>3. sweeps \in [Optimizers -> SweepState]
    BY DEF OffersInit, SweepState
  <2> QED BY <2>1, <2>2, <2>3 DEF OffersTypeOK
<1>2. OffersTypeOK /\ [OffersNext]_discountVars => OffersTypeOK'
  <2> SUFFICES ASSUME OffersTypeOK, [OffersNext]_discountVars PROVE OffersTypeOK'
    OBVIOUS
  <2> USE DEF OffersTypeOK
  <2>1. \A s \in {"accepted", "captured", "declined", "expired"} : [offer EXCEPT !.status = s] \in Offers
    BY DEF Offers, OfferStatus
  <2>2. \A b \in {"null", "person"} : Accepted(b) \in Offers
    BY DEF Accepted, Offers, OfferStatus
  <2>3. \A s \in Optimizers : sweeps[s] # Asleep =>
          /\ sweeps[s] \in [pc : {"tick", "accept", "expire"}, as_of : Days]
          /\ \A p \in {"accept", "expire"} : [sweeps[s] EXCEPT !.pc = p] \in SweepState
    BY DEF SweepState
  <2>4. Asleep \in SweepState /\ \A t \in Days : [pc |-> "tick", as_of |-> t] \in SweepState
    BY DEF SweepState
  <2>5. ASSUME NEW d \in Deciders,
               OpenAccept(d) \/ OpenDecline(d) \/ CommitDecision(d) \/ DropDecision(d)
        PROVE OffersTypeOK'
    BY <2>5, <2>1, <2>2 DEF OpenAccept, OpenDecline, Decides, CommitDecision, DropDecision, Verdicts
  <2>6. CASE CopilotAccepts
    BY <2>6, <2>2 DEF CopilotAccepts
  <2>7. ASSUME NEW s \in Optimizers, StartTick(s) \/ ReadOffer(s) \/ LeaveOffer(s)
        PROVE OffersTypeOK'
    <3>1. PICK state \in SweepState : sweeps' = [sweeps EXCEPT ![s] = state]
      <4>1. CASE StartTick(s)
        BY <4>1, <2>4 DEF StartTick, SweepTo
      <4>2. CASE ReadOffer(s)
        <5>1. sweeps[s] # Asleep
          BY <4>2 DEF ReadOffer, Asleep
        <5> QED BY <4>2, <5>1, <2>3 DEF ReadOffer, SweepTo
      <4>3. CASE LeaveOffer(s)
        BY <4>3, <2>4 DEF LeaveOffer, SweepTo
      <4> QED BY <2>7, <4>1, <4>2, <4>3
    <3>2. UNCHANGED <<offer, calendar, decisions, capturing>>
      BY <2>7 DEF StartTick, ReadOffer, LeaveOffer
    <3> QED BY <3>1, <3>2
  <2>8. ASSUME NEW s \in Optimizers, WriteVerdict(s) PROVE OffersTypeOK'
    BY <2>8, <2>1, <2>2, <2>4 DEF WriteVerdict, ClaimIfStillOffered, Swept, SweepTo
  <2>9. CASE ReadForCapture \/ CommitCapture \/ DropCapture \/ DayPasses
    <3>1. CASE ReadForCapture
      BY <3>1 DEF ReadForCapture
    <3>2. CASE CommitCapture \/ DropCapture
      BY <3>2, <2>1 DEF CommitCapture, DropCapture
    <3>3. CASE DayPasses
      <4>1. Dawns[calendar] \in Days
        BY <3>3 DEF DayPasses, Dawns, Days
      <4> QED BY <3>3, <4>1 DEF DayPasses
    <3> QED BY <2>9, <3>1, <3>2, <3>3
  <2>10. CASE UNCHANGED discountVars
    BY <2>10 DEF discountVars
  <2> QED BY <2>5, <2>6, <2>7, <2>8, <2>9, <2>10 DEF OffersNext
<1> QED BY <1>1, <1>2, PTL DEF OffersSpec

\* A sweep writes an offer only while nobody else has decided it, whoever commits
\* between what the sweep read and what it writes.
THEOREM SweepsYield == OffersSpec => SweepYieldsToPeople
<1>1. ASSUME OffersTypeOK, [OffersNext]_discountVars, sweeps' # sweeps, offer' # offer
      PROVE offer.status = "offered" /\ offer'.status \in {"accepted", "expired"}
  <2>1. PICK s \in Optimizers : WriteVerdict(s)
    BY <1>1
    DEF OffersNext, OpenAccept, OpenDecline, Decides, CommitDecision, DropDecision, CopilotAccepts,
        StartTick, ReadOffer, LeaveOffer, ReadForCapture, CommitCapture, DropCapture, DayPasses,
        discountVars
  <2>2. offer.status = "offered" /\ offer' = Swept(s)
    BY <2>1, <1>1 DEF WriteVerdict, ClaimIfStillOffered
  <2>3. Swept(s).status \in {"accepted", "expired"}
    BY <1>1 DEF Swept, Accepted, OffersTypeOK, Offers
  <2> QED BY <2>2, <2>3
<1>2. OffersTypeOK /\ [OffersNext]_discountVars =>
        [sweeps' # sweeps /\ offer' # offer =>
           offer.status = "offered" /\ offer'.status \in {"accepted", "expired"}]_discountVars
  BY <1>1
<1> QED BY <1>2, OffersTyped, PTL DEF OffersSpec, SweepYieldsToPeople

-----------------------------------------------------------------------------
(* Changes of a vendor's bank details.                                      *)

\* No change has been asked for.
LEMMA VendorsStart == VendorsInit => VendorsInv
BY DEF VendorsInit, VendorsInv, VendorsTypeOK, Persons, Nobody, NoLogin, NoChange,
   ProvisionerIsFrozen, RequesterKnewIt, ReviewsAreProper, MergedWasApproved

\* Every step keeps the invariant, and is one that dual control allows.
LEMMA VendorsSteps ==
    ASSUME VendorsInv, [VendorsNext]_vendorVars
    PROVE  /\ VendorsInv'
           /\ \A c \in BankChanges :
                /\ c \in bank' \ bank => ProperlyApproved(change'[c])
                /\ change[c].status \in {"approved", "rejected"} => change'[c] = change[c]
<1> USE DEF VendorsInv
<1> DEFINE Controlled == \A c \in BankChanges :
                /\ c \in bank' \ bank => ProperlyApproved(change'[c])
                /\ change[c].status \in {"approved", "rejected"} => change'[c] = change[c]
<1>0. \A c \in BankChanges : change[c] # NoChange <=> change[c] \in ChangeRows
  BY DEF VendorsTypeOK, ChangeRows, NoChange
<1>1. ASSUME NEW u \in Staff, InvitePortalUser(u) \/ ResetPassword(u) PROVE VendorsInv' /\ Controlled
  BY <1>1 DEF InvitePortalUser, ResetPassword, VendorsTypeOK, Persons, ProvisionerIsFrozen,
     RequesterKnewIt, ReviewsAreProper, MergedWasApproved
<1>2. CASE DeletePortalUser
  BY <1>2 DEF DeletePortalUser, VendorsTypeOK, ProvisionerIsFrozen,
     RequesterKnewIt, ReviewsAreProper, MergedWasApproved
<1>3. ASSUME NEW c \in BankChanges, NEW row \in ChangeRows, Stage(c, row), row.status = "staging",
             row.requested_by = Nobody => row.requester_provisioned_by = row.password,
             row.requested_by # Nobody => row.password = row.requested_by
      PROVE VendorsInv' /\ Controlled
  <2>1. change' = [change EXCEPT ![c] = row] /\ change[c] = NoChange /\ UNCHANGED <<login, bank, reviews>>
    BY <1>3 DEF Stage
  <2>2. VendorsTypeOK' /\ ProvisionerIsFrozen' /\ RequesterKnewIt'
    BY <2>1, <1>3 DEF VendorsTypeOK, ProvisionerIsFrozen, RequesterKnewIt
  <2>3. ReviewsAreProper'
    BY <2>1 DEF VendorsTypeOK, Reviews, ReviewsAreProper, NoChange
  <2>4. MergedWasApproved' /\ Controlled
    BY <2>1 DEF VendorsTypeOK, Reviews, MergedWasApproved, ProperlyApproved, NoChange
  <2> QED BY <2>2, <2>3, <2>4
<1>4. ASSUME NEW c \in BankChanges, NEW u \in Staff, StaffStages(c, u) PROVE VendorsInv' /\ Controlled
  <2>1. Staged(u, Nobody, u) \in ChangeRows
    BY DEF Staged, ChangeRows, Persons
  <2> QED BY <2>1, <1>3, <1>4 DEF StaffStages, Staged
<1>5. ASSUME NEW c \in BankChanges, PortalStages(c) PROVE VendorsInv' /\ Controlled
  <2>1. Staged(Nobody, login, login) \in ChangeRows
    BY <1>5 DEF PortalStages, Staged, ChangeRows, Persons, VendorsTypeOK
  <2> QED BY <2>1, <1>3, <1>5 DEF PortalStages, Staged
<1>6. ASSUME NEW c \in BankChanges, CommitStaged(c) \/ DropStaged(c) PROVE VendorsInv' /\ Controlled
  <2>1. change[c] \in ChangeRows /\ change[c].status = "staging"
    BY <1>6 DEF CommitStaged, DropStaged, NoChange, VendorsTypeOK
  <2>2. PICK row \in {NoChange, [change[c] EXCEPT !.status = "pending"]} :
          change' = [change EXCEPT ![c] = row] /\ UNCHANGED <<login, bank, reviews>>
    BY <1>6 DEF CommitStaged, DropStaged, VendorsTypeOK
  <2>3. row = NoChange \/ (row \in ChangeRows /\ row.status = "pending" /\
            row.requested_by = change[c].requested_by /\ row.password = change[c].password /\
            row.requester_provisioned_by = change[c].requester_provisioned_by)
    BY <2>1, <2>2 DEF ChangeRows
  <2>4. VendorsTypeOK' /\ ProvisionerIsFrozen' /\ RequesterKnewIt'
    BY <2>1, <2>2, <2>3, <1>0 DEF VendorsTypeOK, ProvisionerIsFrozen, RequesterKnewIt
  <2>5. ReviewsAreProper'
    BY <2>1, <2>2 DEF VendorsTypeOK, Reviews, ReviewsAreProper
  <2>6. MergedWasApproved' /\ Controlled
    BY <2>1, <2>2 DEF VendorsTypeOK, Reviews, MergedWasApproved, ProperlyApproved
  <2> QED BY <2>4, <2>5, <2>6
<1>7. ASSUME NEW u \in Staff, NEW c \in BankChanges, ReviewChange(u, c) PROVE VendorsInv' /\ Controlled
  <2> DEFINE review == [row |-> c, user |-> u, copy |-> bank]
  <2>1. UNCHANGED <<login, change, bank>> /\ reviews' = reviews \union {review} /\ review \in Reviews
    BY <1>7 DEF ReviewChange, Reviews, VendorsTypeOK
  <2>2. change[c].status = "pending" /\ change[c] # NoChange /\ \A r \in reviews : r.row # c
    BY <1>7 DEF ReviewChange, Reviewable, NoChange
  <2>3. u \notin {change[c].requested_by, change[c].password}
    BY <1>7, <2>2 DEF ReviewChange, Provisioner, ProvisionerIsFrozen, RequesterKnewIt
  <2>4. VendorsTypeOK' /\ ProvisionerIsFrozen' /\ RequesterKnewIt' /\ Controlled
    BY <2>1 DEF VendorsTypeOK, ProvisionerIsFrozen, RequesterKnewIt
  <2>5. ReviewsAreProper' /\ MergedWasApproved'
    BY <2>1, <2>2, <2>3 DEF ReviewsAreProper, MergedWasApproved
  <2> QED BY <2>4, <2>5
<1>8. ASSUME NEW r \in reviews, ApproveChange(r) PROVE VendorsInv' /\ Controlled
  <2>1. r.row \in BankChanges /\ r.user \in Staff /\ r.copy \subseteq BankChanges
    BY DEF VendorsTypeOK, Reviews
  <2>2. /\ change[r.row].status = "pending" /\ change[r.row] \in ChangeRows
        /\ r.user \notin {change[r.row].requested_by, change[r.row].password}
    BY <2>1, <1>0 DEF ReviewsAreProper, NoChange
  <2> DEFINE row == [change[r.row] EXCEPT !.status = "approved", !.reviewed_by = r.user]
  <2>3. /\ row \in ChangeRows /\ row.status = "approved" /\ row.reviewed_by = r.user
        /\ row.requested_by = change[r.row].requested_by /\ row.password = change[r.row].password
        /\ row.requester_provisioned_by = change[r.row].requester_provisioned_by
    BY <2>1, <2>2 DEF ChangeRows, Persons
  <2>4. /\ change' = [change EXCEPT ![r.row] = row] /\ bank' = r.copy \union {r.row}
        /\ reviews' = reviews \ {r} /\ UNCHANGED login
    BY <1>8, <2>1 DEF ApproveChange, VendorsTypeOK
  <2> HIDE DEF row
  <2>5. ProperlyApproved(row)
    BY <2>1, <2>2, <2>3 DEF ProperlyApproved
  <2>6. /\ change' \in [BankChanges -> ChangeRows \union {NoChange}] /\ change'[r.row] = row
        /\ \A c \in BankChanges \ {r.row} : change'[c] = change[c]
    BY <2>1, <2>3, <2>4 DEF VendorsTypeOK
  <2>7. VendorsTypeOK' /\ ProvisionerIsFrozen' /\ RequesterKnewIt'
    BY <2>1, <2>2, <2>3, <2>4, <2>6, <1>0 DEF VendorsTypeOK, ProvisionerIsFrozen, RequesterKnewIt
  <2>8. ReviewsAreProper'
    BY <2>4, <2>6 DEF ReviewsAreProper, VendorsTypeOK, Reviews
  <2>9. \A c \in BankChanges : ProperlyApproved(change[c]) => ProperlyApproved(change'[c])
    BY <2>5, <2>6
  <2>10. MergedWasApproved'
    BY <2>1, <2>4, <2>5, <2>6, <2>9 DEF MergedWasApproved, VendorsTypeOK, Reviews
  <2>11. Controlled
    BY <2>1, <2>2, <2>4, <2>5, <2>6, <2>9, <2>10 DEF MergedWasApproved
  <2> QED BY <2>7, <2>8, <2>10, <2>11
<1>9. ASSUME NEW r \in reviews, DropReview(r) PROVE VendorsInv' /\ Controlled
  BY <1>9 DEF DropReview, VendorsTypeOK, ProvisionerIsFrozen, RequesterKnewIt, ReviewsAreProper,
     MergedWasApproved
<1>10. ASSUME NEW u \in Staff, NEW c \in BankChanges, RejectChange(u, c) PROVE VendorsInv' /\ Controlled
  <2>1. /\ change[c].status = "pending" /\ change[c] \in ChangeRows /\ \A r \in reviews : r.row # c
        /\ UNCHANGED <<login, bank, reviews>>
    BY <1>10, <1>0 DEF RejectChange, Reviewable, NoChange
  <2> DEFINE row == [change[c] EXCEPT !.status = "rejected", !.reviewed_by = u]
  <2>2. /\ row \in ChangeRows /\ row.status = "rejected"
        /\ row.requested_by = change[c].requested_by /\ row.password = change[c].password
        /\ row.requester_provisioned_by = change[c].requester_provisioned_by
    BY <2>1 DEF ChangeRows, Persons
  <2>3. change' = [change EXCEPT ![c] = row]
    BY <1>10 DEF RejectChange, VendorsTypeOK
  <2> HIDE DEF row
  <2>4. VendorsTypeOK' /\ ProvisionerIsFrozen' /\ RequesterKnewIt'
    BY <2>1, <2>2, <2>3, <1>0 DEF VendorsTypeOK, ProvisionerIsFrozen, RequesterKnewIt
  <2>5. ReviewsAreProper'
    BY <2>1, <2>3 DEF ReviewsAreProper, VendorsTypeOK, Reviews
  <2>6. MergedWasApproved' /\ Controlled
    BY <2>1, <2>3 DEF MergedWasApproved, VendorsTypeOK, Reviews, ProperlyApproved
  <2> QED BY <2>4, <2>5, <2>6
<1>11. CASE UNCHANGED vendorVars
  BY <1>11 DEF vendorVars, VendorsTypeOK, ProvisionerIsFrozen, RequesterKnewIt, ReviewsAreProper,
     MergedWasApproved
<1> QED
  BY <1>1, <1>2, <1>4, <1>5, <1>6, <1>7, <1>8, <1>9, <1>10, <1>11 DEF VendorsNext

\* For any number of staff, changes and logins that come and go.
LEMMA VendorsInvariance == VendorsSpec => []VendorsInv
BY VendorsStart, VendorsSteps, PTL DEF VendorsSpec

\* Two people stand behind every change of where a vendor is paid, whoever held
\* the portal login meanwhile.
THEOREM TwoPeopleDecide == VendorsSpec => DualControl
BY VendorsInvariance, VendorsSteps, PTL DEF VendorsSpec, DualControl

-----------------------------------------------------------------------------
(* Subscriptions.                                                           *)

\* Nobody is changing anything.
LEMMA BillingStarts == BillingInit => BillingInv
BY DEF BillingInit, BillingInv, BillingTypeOK, LockedIsCurrent, ChangeState, Unchanging,
   SubscriptionStatus

\* Every step keeps the invariant, and acts on the row there is.
LEMMA BillingSteps ==
    ASSUME BillingInv, [BillingNext]_billingVars
    PROVE  /\ BillingInv'
           /\ \A c \in Changers :
                changers[c].pc = "locked" /\ sub'.plan # sub.plan /\ changers'[c] # changers[c] =>
                  /\ changers[c].base = sub.plan
                  /\ changers[c].target = sub'.plan
           /\ dunning' # dunning /\ sub' # sub =>
                /\ sub.status = "past_due" /\ sub.overdue
                /\ sub' = [sub EXCEPT !.status = "canceled"]
<1> USE DEF BillingInv, BillingTypeOK
<1> DEFINE Priced == \A c \in Changers :
                changers[c].pc = "locked" /\ sub'.plan # sub.plan /\ changers'[c] # changers[c] =>
                  /\ changers[c].base = sub.plan
                  /\ changers[c].target = sub'.plan
           Spared == dunning' # dunning /\ sub' # sub =>
                /\ sub.status = "past_due" /\ sub.overdue
                /\ sub' = [sub EXCEPT !.status = "canceled"]
<1>0. \A c \in Changers : changers[c].pc \in {"peeked", "locked"} =>
        changers[c] \in [pc : {"peeked", "locked"}, target : Plans, base : Plans]
  BY DEF ChangeState, Unchanging
<1>1. ASSUME NEW c \in Changers, NEW target \in Plans, PeekAtPlan(c, target)
      PROVE BillingInv' /\ Priced /\ Spared
  BY <1>1 DEF PeekAtPlan, ChangeState, LockedIsCurrent
<1>2. ASSUME NEW c \in Changers, LockSubscription(c) PROVE BillingInv' /\ Priced /\ Spared
  <2>1. /\ changers[c] \in [pc : {"peeked", "locked"}, target : Plans, base : Plans]
        /\ changers[c].target # sub.plan /\ \A d \in Changers : changers[d].pc # "locked"
        /\ UNCHANGED <<sub, hooks, dunning>>
    BY <1>2, <1>0 DEF LockSubscription, RowLocked, LockedPlan
  <2> DEFINE session == [pc |-> "locked", target |-> changers[c].target, base |-> sub.plan]
  <2>2. changers' = [changers EXCEPT ![c] = session]
    BY <1>2, <2>1 DEF LockSubscription, LockedPlan
  <2>3. session \in ChangeState
    BY <2>1 DEF ChangeState
  <2> QED BY <2>1, <2>2, <2>3 DEF LockedIsCurrent
<1>3. ASSUME NEW c \in Changers, Repoint(c) PROVE BillingInv' /\ Priced /\ Spared
  <2>1. /\ changers[c].pc = "locked" /\ changers[c].target \in Plans
        /\ changers' = [changers EXCEPT ![c] = Unchanging] /\ UNCHANGED <<hooks, dunning>>
    BY <1>3, <1>0 DEF Repoint
  <2>2. sub' \in [plan : Plans, status : SubscriptionStatus, overdue : BOOLEAN]
        /\ sub'.plan = changers[c].target
    BY <1>3, <2>1 DEF Repoint
  <2>3. BillingTypeOK' /\ Spared
    BY <2>1, <2>2 DEF ChangeState
  <2>4. LockedIsCurrent'
    BY <2>1 DEF LockedIsCurrent, Unchanging
  <2>5. Priced
    BY <2>1, <2>2 DEF LockedIsCurrent
  <2> QED BY <2>3, <2>4, <2>5
<1>4. ASSUME NEW c \in Changers, DropChange(c) PROVE BillingInv' /\ Priced /\ Spared
  BY <1>4 DEF DropChange, ChangeState, LockedIsCurrent, Unchanging
<1>5. ASSUME NEW h \in Hooks, NEW status \in SubscriptionStatus, ReadForEvent(h, status)
      PROVE BillingInv' /\ Priced /\ Spared
  BY <1>5 DEF ReadForEvent, LockedIsCurrent
<1>6. ASSUME NEW h \in Hooks, ApplyEvent(h) \/ DropEvent(h) PROVE BillingInv' /\ Priced /\ Spared
  <2>1. sub'.plan = sub.plan /\ sub' \in [plan : Plans, status : SubscriptionStatus, overdue : BOOLEAN]
    BY <1>6 DEF ApplyEvent, DropEvent
  <2>2. hooks' \in [Hooks -> SubscriptionStatus \union {"none"}] /\ UNCHANGED <<changers, dunning>>
    BY <1>6 DEF ApplyEvent, DropEvent
  <2> QED BY <2>1, <2>2 DEF LockedIsCurrent
<1>7. ASSUME NEW d \in Collectors, ListPastDue(d) \/ LeaveUncanceled(d)
      PROVE BillingInv' /\ Priced /\ Spared
  BY <1>7 DEF ListPastDue, LeaveUncanceled, LockedIsCurrent
<1>8. ASSUME NEW d \in Collectors, CancelUnpaid(d) PROVE BillingInv' /\ Priced /\ Spared
  <2>1. /\ sub.status = "past_due" /\ sub.overdue /\ sub' = [sub EXCEPT !.status = "canceled"]
        /\ dunning' = dunning \ {d} /\ UNCHANGED <<changers, hooks>>
    BY <1>8 DEF CancelUnpaid, StillUnpaid
  <2>2. sub'.plan = sub.plan /\ sub' \in [plan : Plans, status : SubscriptionStatus, overdue : BOOLEAN]
    BY <2>1 DEF SubscriptionStatus
  <2> QED BY <2>1, <2>2 DEF LockedIsCurrent
<1>9. CASE GraceEnds
  <2>1. sub'.plan = sub.plan /\ sub' \in [plan : Plans, status : SubscriptionStatus, overdue : BOOLEAN]
    BY <1>9 DEF GraceEnds
  <2> QED BY <1>9, <2>1 DEF GraceEnds, LockedIsCurrent
<1>10. CASE UNCHANGED billingVars
  BY <1>10 DEF billingVars, LockedIsCurrent
<1> QED
  BY <1>1, <1>2, <1>3, <1>4, <1>5, <1>6, <1>7, <1>8, <1>9, <1>10 DEF BillingNext

\* For any number of plan changes, events and replicas.
LEMMA BillingInvariance == BillingSpec => []BillingInv
BY BillingStarts, BillingSteps, PTL DEF BillingSpec

\* A plan change charges the move from the plan it leaves, and dunning cancels
\* only what is unpaid when it cancels.
THEOREM BillingActs == BillingSpec => BillingActsOnTheRow
BY BillingInvariance, BillingSteps, PTL DEF BillingSpec, BillingActsOnTheRow

-----------------------------------------------------------------------------
(* Virtual cards.                                                           *)

\* What a request or a void may be doing is one of its states.
LEMMA CardTypes ==
    /\ NotIssuing \in IssuerState /\ NotClosing \in CloserState
    /\ \A k \in Keys : [pc |-> "keyed", key |-> k] \in IssuerState
    /\ \A n \in 0 .. MAX_CARDS, b \in BOOLEAN : [pc |-> "read", row |-> n, locks |-> b] \in CloserState
    /\ \A k \in Keys : [key |-> k, status |-> "created", charged |-> FALSE, rebates |-> 0] \in Card
BY CardsAssumption DEF NotIssuing, IssuerState, NotClosing, CloserState, Keys, Card

\* Keys are numbers.
LEMMA KeyOrder ==
    \A k \in Keys, n \in Nat : /\ k > n \/ k = n <=> k >= n
                               /\ k < n \/ k >= n
                               /\ ~(k < n /\ k >= n)
                               /\ k >= n + 1 <=> k > n
                               /\ ~(n > n)
                               /\ k < n => k + 1 \in 1 .. n /\ (k + 1) - 1 = k
BY CardsAssumption DEF Keys

\* No card has been issued.
LEMMA CardsStart == CardsInit => CardsInv
<1> SUFFICES ASSUME CardsInit PROVE CardsInv
  OBVIOUS
<1> USE DEF CardsInit
<1>0. cards = << >> /\ Len(cards) = 0 /\ DOMAIN cards = {}
  OBVIOUS
<1>1. CardsTypeOK
  <2>1. \A c \in Closers : closing[c].row <= Len(cards)
    BY <1>0 DEF NotClosing
  <2> QED BY <1>0, <2>1, CardTypes, CardsAssumption DEF CardsTypeOK
<1>2. ClosingHoldsARow /\ ChargesWereReported /\ StatusIsEarned
  BY <1>0 DEF ClosingHoldsARow, ChargesWereReported, StatusIsEarned, CancelledIsClosed,
     RebateFollowsCharge, NotClosing
<1>3. KeysFollowRows /\ IssuersHoldTheNextKey
  BY <1>0 DEF KeysFollowRows, IssuersHoldTheNextKey, NotIssuing
<1> QED BY <1>1, <1>2, <1>3 DEF CardsInv

\* Steps of an issuing request, up to the commit of its row: rows, events and
\* closers are as they were, and the provider has opened one card at most.
LEMMA IssueSteps ==
    ASSUME CardsInv, NEW i \in Issuers,
           OpenIssue(i) \/ ReadKey(i) \/ MintCard(i) \/ PersistCard(i) \/ IssuerCrash(i)
    PROVE  CardsInv'
<1> USE DEF CardsInv, CardsTypeOK
<1>1. UNCHANGED <<cards, closing, events, claimed>>
  BY DEF OpenIssue, ReadKey, MintCard, PersistCard, IssuerCrash
<1>2. /\ Len(cards) \in Nat /\ DOMAIN cards = 1 .. Len(cards)
      /\ \A n \in DOMAIN cards : cards[n] \in Card
  OBVIOUS
<1>3. \E k \in Keys : provider' = provider \/ provider' = [provider EXCEPT ![k] = IF @ = "none" THEN "open" ELSE @]
  BY CardTypes DEF OpenIssue, ReadKey, MintCard, PersistCard, IssuerCrash, Provisioned, IssuerState, Keys
<1>4. /\ provider' \in [Keys -> {"none", "open", "closed"}]
      /\ \A k \in Keys : provider[k] # "none" => provider'[k] = provider[k]
  BY <1>3
<1>5. issuing' \in [Issuers -> IssuerState] /\ \A j \in Issuers \ {i} : issuing'[j] = issuing[j]
  <2>1. CASE OpenIssue(i) \/ PersistCard(i) \/ MintCard(i) \/ IssuerCrash(i)
    <3>1. PICK state \in IssuerState : issuing' = [issuing EXCEPT ![i] = state]
      <4>1. \A p \in {"checked", "minted", "persisted"} : [issuing[i] EXCEPT !.pc = p] \in IssuerState
        BY DEF IssuerState
      <4>2. \E p \in {"checked", "minted", "persisted"} : Issuer(i, p) \/ StopIssuing(i)
        BY <2>1 DEF OpenIssue, PersistCard, MintCard, IssuerCrash
      <4> QED BY <4>1, <4>2, CardTypes DEF Issuer, StopIssuing
    <3> QED BY <3>1
  <2>2. CASE ReadKey(i)
    BY <2>2, <1>2, CardTypes DEF ReadKey, ReissueSequence, Keys
  <2> QED BY <2>1, <2>2
<1>6. CardsTypeOK'
  BY <1>1, <1>4, <1>5
<1>7. \A n \in DOMAIN cards : cards[n].key \in Keys
  BY <1>2 DEF Card
<1>8. ClosingHoldsARow' /\ ChargesWereReported' /\ StatusIsEarned'
  BY <1>1, <1>4, <1>7 DEF ClosingHoldsARow, ChargesWereReported, StatusIsEarned,
     CancelledIsClosed, RebateFollowsCharge
<1>9. ASSUME OneIssuer PROVE KeysFollowRows' /\ IssuersHoldTheNextKey'
  <2>1. /\ (NoneLive' <=> NoneLive) /\ KeysFollowRows /\ IssuersHoldTheNextKey
        /\ \A j \in Issuers : j = i
    BY <1>1, <1>9 DEF NoneLive, OneIssuer
  <2>2. LiveRows = {} <=> NoneLive
    BY DEF LiveRows, NoneLive
  <2>0. Len(cards) \in Nat /\ issuing \in [Issuers -> IssuerState] /\ CardsInv
    OBVIOUS
  <2> HIDE DEF CardsInv, CardsTypeOK
  <2>3. CASE OpenIssue(i)
    BY <2>0, <2>3, <1>1, <2>1, <2>2 DEF OpenIssue, Issuer, KeysFollowRows, IssuersHoldTheNextKey, IssuerState
  <2>4. CASE ReadKey(i)
    <3>1. issuing' = [issuing EXCEPT ![i] = [pc |-> "keyed", key |-> Len(cards)]] /\ NoneLive
      BY <2>4, <2>0, <2>1 DEF ReadKey, ReissueSequence, IssuersHoldTheNextKey
    <3> QED BY <2>4, <2>0, <3>1, <1>1, <2>1 DEF ReadKey, KeysFollowRows, IssuersHoldTheNextKey
  <2>5. CASE MintCard(i)
    <3>1. NoneLive /\ issuing[i].key = Len(cards) /\ issuing[i].key \in Keys
      BY <2>5, <2>0, <2>1 DEF MintCard, IssuersHoldTheNextKey, IssuerState
    <3>2. KeysFollowRows'
      <4>1. \A k \in Keys : k # Len(cards) => provider'[k] = provider[k]
        BY <2>5, <3>1, <2>0 DEF MintCard, Provisioned, CardsInv, CardsTypeOK
      <4>2. \A k \in Keys : provider[k] # "closed" => provider'[k] # "closed"
        BY <2>5, <3>1, <2>0 DEF MintCard, Provisioned, CardsInv, CardsTypeOK
      <4> QED BY <4>1, <4>2, <2>0, <2>1, <3>1, <1>1, KeyOrder DEF KeysFollowRows
    <3>3. Provisioned(issuing[i].key) => provider'[issuing[i].key] = "open"
      <4>1. provider \in [Keys -> {"none", "open", "closed"}] /\ provider[issuing[i].key] # "closed"
        BY <3>1, <2>0, <2>1 DEF KeysFollowRows, CardsInv, CardsTypeOK
      <4> QED BY <3>1, <4>1 DEF Provisioned
    <3>4. IssuersHoldTheNextKey'
      BY <2>0, <2>5, <3>1, <3>3, <1>1, <2>1
      DEF MintCard, Issuer, StopIssuing, NotIssuing, IssuersHoldTheNextKey, IssuerState
    <3> QED BY <3>2, <3>4
  <2>6. CASE PersistCard(i)
    BY <2>0, <2>6, <1>1, <2>1 DEF PersistCard, Issuer, StopIssuing, NotIssuing, KeysFollowRows,
       IssuersHoldTheNextKey, IssuerState
  <2>7. CASE IssuerCrash(i)
    BY <2>0, <2>7, <1>1, <2>1 DEF IssuerCrash, StopIssuing, NotIssuing, KeysFollowRows, IssuersHoldTheNextKey
  <2> QED BY <2>3, <2>4, <2>5, <2>6, <2>7
<1> QED BY <1>6, <1>8, <1>9 DEF OneIssuer

\* The commit of a row.
LEMMA CommitSteps == ASSUME CardsInv, NEW i \in Issuers, CommitCard(i) PROVE CardsInv'
<1> USE DEF CardsInv, CardsTypeOK
<1> DEFINE row == [key |-> issuing[i].key, status |-> "created", charged |-> FALSE, rebates |-> 0]
<1>1. /\ cards' = Append(cards, row) /\ Len(cards) < MAX_CARDS
      /\ issuing[i].pc = "persisted" /\ StopIssuing(i)
      /\ UNCHANGED <<provider, closing, events, claimed>>
  BY DEF CommitCard
<1>2. row \in Card /\ issuing[i].key \in Keys
  BY CardTypes DEF IssuerState
<1>3. row.key = issuing[i].key /\ row.status = "created" /\ row.charged = FALSE /\ row.rebates = 0
  OBVIOUS
<1> HIDE DEF row
<1>4. /\ cards' \in Seq(Card) /\ Len(cards') = Len(cards) + 1 /\ Len(cards) \in Nat
      /\ DOMAIN cards = 1 .. Len(cards) /\ DOMAIN cards' = 1 .. Len(cards) + 1
      /\ cards'[Len(cards) + 1] = row
      /\ \A n \in DOMAIN cards : cards'[n] = cards[n]
  BY <1>1, <1>2
<1>5. \A n \in DOMAIN cards' : n \in DOMAIN cards \/ (n = Len(cards) + 1 /\ cards'[n] = row)
  BY <1>4
<1>6. CardsTypeOK'
  <2>1. \A c \in Closers : closing[c].row \in Nat
    BY CardsAssumption DEF CloserState
  <2>2. issuing' \in [Issuers -> IssuerState]
    BY <1>1, CardTypes DEF StopIssuing
  <2>3. \A c \in Closers : closing'[c].row <= Len(cards')
    BY <1>1, <1>4, <2>1
  <2> QED BY <1>1, <1>4, <2>2, <2>3, CardsAssumption
<1>7. ClosingHoldsARow'
  BY <1>1, <1>4 DEF ClosingHoldsARow
<1>8. ChargesWereReported'
  BY <1>1, <1>3, <1>4, <1>5 DEF ChargesWereReported
<1>9. StatusIsEarned'
  BY <1>1, <1>3, <1>4, <1>5 DEF StatusIsEarned, CancelledIsClosed, RebateFollowsCharge
<1>10. ASSUME OneIssuer PROVE KeysFollowRows' /\ IssuersHoldTheNextKey'
  <2>1. /\ NoneLive /\ issuing[i].key = Len(cards) /\ provider[Len(cards)] = "open"
        /\ KeysFollowRows /\ \A j \in Issuers : j = i
    BY <1>1, <1>10 DEF IssuersHoldTheNextKey, OneIssuer
  <2>2. KeysFollowRows'
    <3>1. \A n \in DOMAIN cards' : /\ cards'[n].key = n - 1
                                   /\ n # Len(cards') => cards'[n].status = "cancelled"
      BY <2>1, <1>3, <1>4, <1>5 DEF KeysFollowRows, NoneLive
    <3>2. \A k \in Keys : k >= Len(cards') => provider'[k] = "none"
      <4> HIDE DEF CardsInv, CardsTypeOK
      <4> QED BY <2>1, <1>1, <1>4, KeyOrder DEF KeysFollowRows
    <3>3. Len(cards') \in Nat
      BY <1>4
    <3> HIDE DEF CardsInv, CardsTypeOK
    <3> QED BY <3>1, <3>2, <3>3, KeyOrder DEF KeysFollowRows
  <2>3. IssuersHoldTheNextKey'
    BY <1>1, <2>1 DEF StopIssuing, NotIssuing, IssuersHoldTheNextKey
  <2> QED BY <2>2, <2>3
<1> QED BY <1>6, <1>7, <1>8, <1>9, <1>10 DEF OneIssuer

\* Closing, up to the write of the row.
LEMMA ClosingSteps ==
    ASSUME CardsInv, NEW c \in Closers,
           (\E n \in DOMAIN cards : ReadToCancel(c, n) \/ ReadToVoid(c, n))
             \/ CloseAtProvider(c) \/ GiveUpClosing(c)
    PROVE  CardsInv'
<1> USE DEF CardsInv, CardsTypeOK
<1>1. UNCHANGED <<cards, issuing, events, claimed>>
  BY DEF ReadToCancel, ReadToVoid, ReadToClose, CloseAtProvider, GiveUpClosing
<1>2. /\ Len(cards) \in Nat /\ DOMAIN cards = 1 .. Len(cards) /\ Len(cards) <= MAX_CARDS
      /\ \A n \in DOMAIN cards : cards[n] \in Card /\ cards[n].key \in Keys
  <2>1. /\ Len(cards) \in Nat /\ DOMAIN cards = 1 .. Len(cards) /\ Len(cards) <= MAX_CARDS
        /\ \A n \in DOMAIN cards : cards[n] \in Card
    OBVIOUS
  <2> QED BY <2>1 DEF Card
<1>3. CASE UNCHANGED provider /\ closing'[c].pc \in {"idle", "read"} /\ closing' \in [Closers -> CloserState]
           /\ closing'[c].row <= Len(cards) /\ (closing'[c].pc # "idle" => closing'[c].row \in DOMAIN cards)
           /\ \A d \in Closers \ {c} : closing'[d] = closing[d]
  <2>1. CardsTypeOK' /\ ClosingHoldsARow'
    BY <1>1, <1>3 DEF ClosingHoldsARow
  <2>2. ChargesWereReported' /\ StatusIsEarned'
    BY <1>1, <1>3 DEF ChargesWereReported, StatusIsEarned, CancelledIsClosed, RebateFollowsCharge
  <2>3. OneIssuer => KeysFollowRows' /\ IssuersHoldTheNextKey'
    BY <1>1, <1>3 DEF KeysFollowRows, IssuersHoldTheNextKey, NoneLive
  <2> QED BY <2>1, <2>2, <2>3 DEF OneIssuer
<1>4. ASSUME NEW n \in DOMAIN cards, ReadToCancel(c, n) \/ ReadToVoid(c, n) PROVE CardsInv'
  <2>1. PICK locks \in BOOLEAN :
          closing' = [closing EXCEPT ![c] = [pc |-> "read", row |-> n, locks |-> locks]]
          /\ UNCHANGED provider
    BY <1>4 DEF ReadToCancel, ReadToVoid, ReadToClose
  <2>2. [pc |-> "read", row |-> n, locks |-> locks] \in CloserState
    BY <1>2, CardTypes, CardsAssumption
  <2> QED BY <2>1, <2>2, <1>2, <1>3
<1>5. CASE GiveUpClosing(c)
  BY <1>5, <1>2, <1>3, CardTypes DEF GiveUpClosing, StopClosing, NotClosing
<1>6. CASE CloseAtProvider(c)
  <2> DEFINE n == closing[c].row
             k == cards[n].key
  <2>1. /\ closing[c].pc = "read" /\ n \in DOMAIN cards /\ k \in Keys
        /\ closing[c] \in CloserState
        /\ provider' = [provider EXCEPT ![k] = "closed"]
        /\ closing' = [closing EXCEPT ![c].pc = "closed"]
    BY <1>6, <1>2 DEF CloseAtProvider, ClosingHoldsARow
  <2>2. /\ provider' \in [Keys -> {"none", "open", "closed"}] /\ provider'[k] = "closed"
        /\ \A x \in Keys : provider'[x] = provider[x] \/ (x = k /\ provider'[x] = "closed")
    BY <2>1
  <2>3. /\ closing' \in [Closers -> CloserState] /\ closing'[c].pc = "closed" /\ closing'[c].row = n
        /\ \A d \in Closers \ {c} : closing'[d] = closing[d]
    BY <2>1 DEF CloserState
  <2> HIDE DEF n
  <2>4. CardsTypeOK'
    <3>1. \A d \in Closers : closing'[d].row <= Len(cards')
      BY <2>1, <2>3, <1>1, <1>2
    <3> QED BY <1>1, <2>2, <2>3, <3>1
  <2>5. ClosingHoldsARow'
    BY <1>1, <1>2, <2>1, <2>2, <2>3 DEF ClosingHoldsARow
  <2>6. ChargesWereReported' /\ StatusIsEarned'
    BY <1>1, <1>2, <2>2 DEF ChargesWereReported, StatusIsEarned, CancelledIsClosed, RebateFollowsCharge
  <2>7. ASSUME OneIssuer PROVE KeysFollowRows' /\ IssuersHoldTheNextKey'
    <3>1. k = n - 1 /\ n <= Len(cards) /\ KeysFollowRows /\ IssuersHoldTheNextKey
      BY <2>1, <2>7, <1>2 DEF KeysFollowRows
    <3>2. \A x \in Keys : x >= Len(cards) => provider'[x] = provider[x]
      BY <2>1, <2>2, <3>1, <1>2 DEF Keys
    <3>3. KeysFollowRows'
      <4>2. \A x \in Keys : x > Len(cards) \/ x = Len(cards) => x >= Len(cards)
        BY <1>2, KeyOrder
      <4> HIDE DEF CardsInv, CardsTypeOK
      <4> QED BY <3>1, <3>2, <4>2, <1>1 DEF KeysFollowRows, NoneLive
    <3>4. IssuersHoldTheNextKey'
      BY <3>1, <3>2, <1>1, <1>2 DEF IssuersHoldTheNextKey, NoneLive, IssuerState, Keys
    <3> QED BY <3>3, <3>4
  <2> QED BY <2>4, <2>5, <2>6, <2>7 DEF OneIssuer
<1> QED BY <1>4, <1>5, <1>6

\* A row is written: its card is not another one.
LEMMA WriteSteps ==
    ASSUME CardsInv, NEW n \in DOMAIN cards, NEW row \in Card, cards' = [cards EXCEPT ![n] = row],
           row.key = cards[n].key,
           row.status = "cancelled" => provider[row.key] = "closed",
           cards[n].status = "cancelled" => row.status = "cancelled",
           row.status = "charged" => row.charged,
           row.charged => <<row.key, "authorization">> \in events,
           row.rebates > 0 => row.charged /\ {row.key} \X {"authorization", "settlement"} \subseteq events,
           row.status = "completed" => row.rebates = 1,
           UNCHANGED <<provider, issuing, events>>,
           claimed' \subseteq events,
           \A d \in Closers : closing'[d] = closing[d] \/ closing'[d] = NotClosing,
           closing' \in [Closers -> CloserState]
    PROVE  CardsInv'
<1> USE DEF CardsInv, CardsTypeOK
<1>1. /\ Len(cards) \in Nat /\ DOMAIN cards = 1 .. Len(cards)
      /\ \A m \in DOMAIN cards : cards[m] \in Card
  OBVIOUS
<1>2. /\ cards' \in Seq(Card) /\ Len(cards') = Len(cards) /\ DOMAIN cards' = DOMAIN cards
      /\ cards'[n] = row /\ \A m \in DOMAIN cards \ {n} : cards'[m] = cards[m]
      /\ \A m \in DOMAIN cards : cards'[m].key = cards[m].key
  OBVIOUS
<1>3. \A c \in Closers : closing'[c].row <= Len(cards')
  BY <1>1, <1>2 DEF NotClosing
<1>4. CardsTypeOK'
  BY <1>2, <1>3
<1>5. ClosingHoldsARow'
  BY <1>2 DEF ClosingHoldsARow, NotClosing
<1>6. ChargesWereReported'
  BY <1>2 DEF ChargesWereReported
<1>7. CancelledIsClosed'
  BY <1>2 DEF StatusIsEarned, CancelledIsClosed
<1>8. RebateFollowsCharge'
  <2>1. row.rebates > 0 => row.rebates = 1
    BY DEF Card
  <2> QED BY <1>2, <2>1 DEF StatusIsEarned, RebateFollowsCharge
<1>9. ASSUME OneIssuer PROVE KeysFollowRows' /\ IssuersHoldTheNextKey'
  <2>1. NoneLive => NoneLive'
    BY <1>2 DEF NoneLive
  <2>2. KeysFollowRows' /\ IssuersHoldTheNextKey'
    BY <1>9, <2>1, <1>2 DEF KeysFollowRows, IssuersHoldTheNextKey
  <2> QED BY <2>2
<1> QED BY <1>4, <1>5, <1>6, <1>7, <1>8, <1>9 DEF StatusIsEarned, OneIssuer

\* The row of a card the provider has closed.
LEMMA CancelSteps == ASSUME CardsInv, NEW c \in Closers, RecordCancel(c) PROVE CardsInv'
<1> DEFINE n == closing[c].row
           row == [cards[n] EXCEPT !.status = "cancelled"]
<1>1. /\ n \in DOMAIN cards /\ provider[cards[n].key] = "closed" /\ cards[n] \in Card
  BY DEF RecordCancel, CardsInv, CardsTypeOK, ClosingHoldsARow
<1>2. /\ row \in Card /\ row.key = cards[n].key /\ row.status = "cancelled"
      /\ row.charged = cards[n].charged /\ row.rebates = cards[n].rebates
  BY <1>1 DEF Card
<1>3. cards' = [cards EXCEPT ![n] = row]
  BY DEF RecordCancel
<1>4. /\ UNCHANGED <<provider, issuing, events, claimed>>
      /\ closing' \in [Closers -> CloserState]
      /\ \A d \in Closers : closing'[d] = closing[d] \/ closing'[d] = NotClosing
  BY CardTypes DEF RecordCancel, StopClosing, CardsInv, CardsTypeOK
<1>5. claimed' \subseteq events
  BY <1>4 DEF CardsInv, CardsTypeOK
<1>6. /\ row.charged => <<row.key, "authorization">> \in events
      /\ row.rebates > 0 => row.charged /\ {row.key} \X {"authorization", "settlement"} \subseteq events
  BY <1>1, <1>2 DEF CardsInv, ChargesWereReported, StatusIsEarned, RebateFollowsCharge
<1> HIDE DEF n, row
<1> QED BY <1>1, <1>2, <1>3, <1>4, <1>5, <1>6, WriteSteps

\* The provider reports something new.
LEMMA ReportSteps == ASSUME CardsInv, NEW k \in Keys, Authorize(k) \/ Settle(k) PROVE CardsInv'
<1>1. events \subseteq events' /\ events' \subseteq Events /\ UNCHANGED <<cards, provider, issuing, closing, claimed>>
  BY DEF Authorize, Settle, Events, CardsInv, CardsTypeOK
<1>2. CardsTypeOK'
  BY <1>1 DEF CardsInv, CardsTypeOK
<1>3. ClosingHoldsARow' /\ ChargesWereReported' /\ StatusIsEarned'
  BY <1>1 DEF CardsInv, ClosingHoldsARow, ChargesWereReported, StatusIsEarned, CancelledIsClosed,
     RebateFollowsCharge
<1>4. OneIssuer => KeysFollowRows' /\ IssuersHoldTheNextKey'
  BY <1>1 DEF CardsInv, KeysFollowRows, IssuersHoldTheNextKey, NoneLive
<1> QED BY <1>2, <1>3, <1>4 DEF CardsInv, OneIssuer

\* An event reaches its row.
LEMMA EventSteps ==
    ASSUME CardsInv, NEW e \in events, Applied(e), UNCHANGED <<provider, issuing, closing, events>>,
           claimed' \subseteq events
    PROVE  CardsInv'
<1>1. PICK n \in DOMAIN cards : cards' = [cards EXCEPT ![n] = AfterEvent(@, e[2])] /\ cards[n].key = e[1]
  BY DEF Applied
<1> DEFINE row == AfterEvent(cards[n], e[2])
<1>2. /\ cards[n] \in Card /\ e \in Events /\ e = <<e[1], e[2]>> /\ e[2] \in {"authorization", "settlement"}
      /\ cards[n].rebates > 0 =>
           cards[n].charged /\ {cards[n].key} \X {"authorization", "settlement"} \subseteq events
      /\ cards[n].status = "completed" => cards[n].rebates = 1
      /\ cards[n].status = "cancelled" => provider[cards[n].key] = "closed"
      /\ cards[n].status = "charged" => cards[n].charged
      /\ cards[n].charged => <<cards[n].key, "authorization">> \in events
  BY DEF CardsInv, CardsTypeOK, Events, StatusIsEarned, RebateFollowsCharge, CancelledIsClosed,
     ChargesWereReported
<1>3. closing' \in [Closers -> CloserState] /\ \A d \in Closers : closing'[d] = closing[d]
  BY DEF CardsInv, CardsTypeOK
<1>4. cards' = [cards EXCEPT ![n] = row]
  BY <1>1
<1>5. CASE e[2] = "authorization" /\ cards[n].status = "created"
  <2>1. row = [cards[n] EXCEPT !.status = "charged", !.charged = TRUE]
    BY <1>5 DEF AfterEvent
  <2>2. /\ row \in Card /\ row.key = cards[n].key /\ row.status = "charged" /\ row.charged
        /\ row.rebates = cards[n].rebates
    BY <2>1, <1>2 DEF Card
  <2>3. <<row.key, "authorization">> \in events
    BY <2>2, <1>1, <1>2, <1>5
  <2> HIDE DEF row
  <2> QED BY <1>2, <1>3, <1>4, <1>5, <2>2, <2>3, WriteSteps
<1>6. CASE e[2] = "settlement" /\ cards[n].status = "charged"
  <2>1. row = [cards[n] EXCEPT !.status = "completed", !.rebates = 1]
    BY <1>6 DEF AfterEvent
  <2>2. /\ row \in Card /\ row.key = cards[n].key /\ row.status = "completed" /\ row.rebates = 1
        /\ row.charged = cards[n].charged
    <3>1. \A b \in 0 .. 1 : [cards[n] EXCEPT !.status = "completed", !.rebates = b] \in Card
      BY <1>2 DEF Card
    <3>2. row \in Card
      BY <2>1, <3>1
    <3>3. row.key = cards[n].key /\ row.charged = cards[n].charged
      BY <2>1, <1>2 DEF Card
    <3>4. row.status = "completed" /\ row.rebates = 1
      BY <2>1, <1>2 DEF Card
    <3> QED BY <3>2, <3>3, <3>4
  <2>3. {row.key} \X {"authorization", "settlement"} \subseteq events
    BY <2>2, <1>1, <1>2, <1>6
  <2> HIDE DEF row
  <2> QED BY <1>2, <1>3, <1>4, <1>6, <2>2, <2>3, WriteSteps
<1>7. CASE ~(e[2] = "authorization" /\ cards[n].status = "created")
           /\ ~(e[2] = "settlement" /\ cards[n].status = "charged")
  <2>1. row = cards[n]
    BY <1>7 DEF AfterEvent
  <2> HIDE DEF row
  <2> QED BY <1>2, <1>3, <1>4, <2>1, WriteSteps
<1> QED BY <1>5, <1>6, <1>7

\* Every step keeps the invariant.
LEMMA CardsSteps == CardsInv /\ [CardsNext]_cardVars => CardsInv'
<1> SUFFICES ASSUME CardsInv, [CardsNext]_cardVars PROVE CardsInv'
  OBVIOUS
<1>1. ASSUME NEW i \in Issuers, Issue(i) PROVE CardsInv'
  BY <1>1, IssueSteps, CommitSteps DEF Issue
<1>2. ASSUME NEW c \in Closers, Close(c) PROVE CardsInv'
  BY <1>2, ClosingSteps, CancelSteps DEF Close
<1>3. ASSUME NEW k \in Keys, Authorize(k) \/ Settle(k) PROVE CardsInv'
  BY <1>3, ReportSteps
<1>4. ASSUME NEW e \in Events, DeliverEvent(e) \/ DeliverUnnumbered(e) PROVE CardsInv'
  <2>1. e \in events /\ UNCHANGED <<provider, issuing, closing, events>> /\ claimed' \subseteq events
    BY <1>4 DEF DeliverEvent, DeliverUnnumbered, CardsInv, CardsTypeOK
  <2>2. CASE Applied(e)
    BY <2>1, <2>2, EventSteps
  <2>3. CASE UNCHANGED cards
    BY <2>1, <2>3 DEF CardsInv, CardsTypeOK, ClosingHoldsARow, ChargesWereReported, StatusIsEarned,
       CancelledIsClosed, RebateFollowsCharge, OneIssuer, KeysFollowRows, IssuersHoldTheNextKey, NoneLive
  <2> QED BY <1>4, <2>2, <2>3 DEF DeliverEvent, DeliverUnnumbered
<1>5. CASE UNCHANGED cardVars
  BY <1>5 DEF cardVars, CardsInv, CardsTypeOK, ClosingHoldsARow, ChargesWereReported, StatusIsEarned,
     CancelledIsClosed, RebateFollowsCharge, OneIssuer, KeysFollowRows, IssuersHoldTheNextKey, NoneLive
<1> QED BY <1>1, <1>2, <1>3, <1>4, <1>5 DEF CardsNext

\* For any number of requests, voids and cards.
LEMMA CardsInvariance == CardsSpec => []CardsInv
BY CardsStart, CardsSteps, PTL DEF CardsSpec

\* What a row says of its card happened outside, however cancels, voids and
\* repeated events race, and with however many requests that issue.
THEOREM StatusesAreEarned == CardsSpec => []StatusIsEarned
<1>1. CardsInv => StatusIsEarned
  BY DEF CardsInv
<1> QED BY CardsInvariance, <1>1, PTL

\* Sets whose members are all equal have one member at most.
LEMMA AtMostOne == ASSUME NEW S, \A x, y \in S : x = y PROVE Cardinality(S) <= 1
<1>1. CASE S = {}
  BY <1>1, FS_EmptySet
<1>2. CASE S # {}
  <2>1. PICK x \in S : TRUE
    BY <1>2
  <2>2. S = {x}
    BY <2>1
  <2> QED BY <2>2, FS_Singleton
<1> QED BY <1>1, <1>2

\* Where one request at a time issues, an invoice has one open card at most,
\* whatever answers are lost and whatever crashes.
THEOREM OneCardOpen == ASSUME OneIssuer PROVE CardsSpec => []OneOpenCard
<1>1. ASSUME CardsInv PROVE OneOpenCard
  <2>1. KeysFollowRows /\ CancelledIsClosed /\ Len(cards) \in Nat /\ DOMAIN cards = 1 .. Len(cards)
    BY <1>1 DEF CardsInv, StatusIsEarned, CardsTypeOK
  <2>2. ASSUME NEW k \in Keys, provider[k] = "open", k < Len(cards)
        PROVE  k + 1 = Len(cards) /\ ~NoneLive
    <3>1. k + 1 \in DOMAIN cards /\ (k + 1) - 1 = k
      BY <2>1, <2>2, KeyOrder
    <3>2. cards[k + 1].key = k /\ cards[k + 1].status # "cancelled"
      BY <2>1, <2>2, <3>1 DEF KeysFollowRows, CancelledIsClosed
    <3> QED BY <2>1, <3>1, <3>2 DEF KeysFollowRows, NoneLive
  <2>3. ASSUME NEW k \in Keys, provider[k] = "open", k >= Len(cards)
        PROVE  k = Len(cards) /\ NoneLive
    BY <2>1, <2>3, KeyOrder DEF KeysFollowRows
  <2>4. ASSUME NEW x \in Keys, NEW y \in Keys, provider[x] = "open", provider[y] = "open"
        PROVE  x = y
    <3>1. x \in Nat /\ y \in Nat
      BY CardsAssumption DEF Keys
    <3>2. CASE x < Len(cards) /\ y < Len(cards)
      <4>1. x + 1 = Len(cards) /\ y + 1 = Len(cards)
        BY <3>2, <2>2, <2>4
      <4>2. x + 1 = y + 1
        BY <4>1
      <4> QED BY <4>2, <3>1
    <3>3. CASE ~(x < Len(cards)) /\ ~(y < Len(cards))
      BY <3>3, <2>1, <2>3, <2>4, KeyOrder
    <3> QED BY <3>2, <3>3, <2>1, <2>2, <2>3, <2>4, KeyOrder
  <2>5. \A x, y \in {k \in Keys : provider[k] = "open"} : x = y
    BY <2>4
  <2> QED BY <2>5, AtMostOne DEF OneOpenCard
<1> QED BY <1>1, CardsInvariance, PTL

\* And the card of a new row can be charged.
THEOREM IssuedCardsWork == ASSUME OneIssuer PROVE CardsSpec => IssuedCardWorks
<1>1. ASSUME CardsInv, [CardsNext]_cardVars, Len(cards') > Len(cards)
      PROVE provider[cards'[Len(cards')].key] = "open"
  <2>1. /\ cards \in Seq(Card) /\ Len(cards) \in Nat
    BY <1>1 DEF CardsInv, CardsTypeOK
  <2>2. \A n : \A row : cards' = [cards EXCEPT ![n] = row] => Len(cards') = Len(cards)
    BY <2>1
  <2>3. cards' # cards /\ \A n : \A row : cards' # [cards EXCEPT ![n] = row]
    BY <1>1, <2>1, <2>2
  <2>5. PICK i \in Issuers : CommitCard(i)
    <3>1. ASSUME NEW i \in Issuers, Issue(i) PROVE CommitCard(i)
      BY <3>1, <2>3 DEF Issue, OpenIssue, ReadKey, MintCard, PersistCard, IssuerCrash
    <3>2. ASSUME NEW c \in Closers, Close(c) PROVE FALSE
      <4>1. RecordCancel(c) => \E n : \E row : cards' = [cards EXCEPT ![n] = row]
        BY DEF RecordCancel
      <4> QED BY <3>2, <4>1, <2>3 DEF Close, ReadToCancel, ReadToVoid, ReadToClose, CloseAtProvider, GiveUpClosing
    <3>3. ASSUME NEW e \in Events, Applied(e) PROVE FALSE
      <4>1. \E n : \E row : cards' = [cards EXCEPT ![n] = row]
        BY <3>3 DEF Applied
      <4> QED BY <4>1, <2>3
    <3> QED BY <1>1, <2>3, <3>1, <3>2, <3>3
        DEF CardsNext, Authorize, Settle, DeliverEvent, DeliverUnnumbered, cardVars
  <2>4. provider[issuing[i].key] = "open"
    BY <1>1, <2>5 DEF CommitCard, CardsInv, IssuersHoldTheNextKey
  <2> QED BY <2>1, <2>5, <2>4 DEF CommitCard
<1>2. CardsInv /\ [CardsNext]_cardVars =>
        [Len(cards') > Len(cards) => provider[cards'[Len(cards')].key] = "open"]_cardVars
  BY <1>1
<1> QED BY <1>2, CardsInvariance, PTL DEF CardsSpec, IssuedCardWorks

-----------------------------------------------------------------------------
(* Credit memos: what a sum over a finite set of memos is.  The sum is the  *)
(* value of a recursive function; that the function exists, is unique and   *)
(* takes its elements in any order is shown by minimal counterexamples.     *)

\* Among some subsets of a finite set there is one that contains no other.
LEMMA HasMinimal ==
    ASSUME NEW U, IsFiniteSet(U), NEW B, B \subseteq SUBSET U, B # {}
    PROVE  \E T \in B : \A V \in B : V \subseteq T => V = T
<1>1. IsWellFoundedOn(StrictSubsetOrdering(U), SUBSET U)
  BY FS_StrictSubsetOrderingWellFounded, FS_FiniteSubsetsOfFinite
<1>2. PICK T \in B : \A V \in B : ~(<<V, T>> \in StrictSubsetOrdering(U))
  BY <1>1, WFMin, Zenon
<1> QED BY <1>2 DEF StrictSubsetOrdering

\* The amounts of the memos r in a set, and the function that adds them up.
CreditOf(r, S) == MapThenSumSet(LAMBDA m : r[m].amount, S)
Picked(s) == CHOOSE m \in s : TRUE
Adds(h, r, S) ==
  h = [s \in SUBSET S |-> IF s = {} THEN 0 ELSE r[Picked(s)].amount + h[s \ {Picked(s)}]]

LEMMA CreditIsSum == ASSUME NEW r, NEW S PROVE CreditOf(r, S) = (CHOOSE h : Adds(h, r, S))[S]
BY DEF CreditOf, Adds, Picked, MapThenSumSet, MapThenFoldSet

LEMMA PickedIsIn == ASSUME NEW s, s # {} PROVE Picked(s) \in s
BY DEF Picked

\* Adds, one set at a time.
LEMMA AddsAt == 
    ASSUME NEW r, NEW S, NEW h, Adds(h, r, S), NEW s, s \subseteq S
    PROVE  h[s] = IF s = {} THEN 0 ELSE r[Picked(s)].amount + h[s \ {Picked(s)}]
<1> DEFINE f(t) == IF t = {} THEN 0 ELSE r[Picked(t)].amount + h[t \ {Picked(t)}]
<1>1. h = [t \in SUBSET S |-> f(t)]
  BY DEF Adds
<1>2. s \in SUBSET S
  OBVIOUS
<1> HIDE DEF f
<1>3. h[s] = f(s)
  BY <1>1, <1>2
<1> QED BY <1>3 DEF f

LEMMA AddsOnce ==
    ASSUME NEW U, IsFiniteSet(U), NEW r, NEW S, NEW T, NEW g, NEW h, Adds(g, r, S), Adds(h, r, T),
           NEW s, s \subseteq S, s \subseteq T, s \subseteq U
    PROVE  g[s] = h[s]
<1> DEFINE B == {t \in SUBSET s : g[t] # h[t]}
<1>1. SUFFICES ASSUME B # {} PROVE FALSE
  OBVIOUS
<1>2. PICK t \in B : \A v \in B : v \subseteq t => v = t
  <2>1. B \subseteq SUBSET U
    OBVIOUS
  <2> HIDE DEF B
  <2> QED BY <1>1, <2>1, HasMinimal
<1>3. t \subseteq S /\ t \subseteq T /\ t \subseteq s
  OBVIOUS
<1>4. g[t] = IF t = {} THEN 0 ELSE r[Picked(t)].amount + g[t \ {Picked(t)}]
  BY <1>3, AddsAt
<1>5. h[t] = IF t = {} THEN 0 ELSE r[Picked(t)].amount + h[t \ {Picked(t)}]
  BY <1>3, AddsAt
<1>6. t # {}
  BY <1>4, <1>5
<1>7. Picked(t) \in t
  BY <1>6, PickedIsIn
<1>8. t \ {Picked(t)} \notin B
  BY <1>2, <1>7
<1> QED BY <1>3, <1>4, <1>5, <1>6, <1>8

\* Over a finite set the function exists.
LEMMA AddsExists ==
    ASSUME NEW U, IsFiniteSet(U), NEW r PROVE \A S \in SUBSET U : \E h : Adds(h, r, S)
<1> DEFINE B == {S \in SUBSET U : ~ \E h : Adds(h, r, S)}
<1>1. SUFFICES ASSUME B # {} PROVE FALSE
  OBVIOUS
<1>2. PICK S \in B : \A V \in B : V \subseteq S => V = S
  <2>1. B \subseteq SUBSET U
    OBVIOUS
  <2> HIDE DEF B
  <2> QED BY <1>1, <2>1, HasMinimal
<1> DEFINE F(V) == CHOOSE h : Adds(h, r, V)
           v(s) == IF s = {} THEN 0 ELSE r[Picked(s)].amount + F(s \ {Picked(s)})[s \ {Picked(s)}]
           h == [s \in SUBSET S |-> v(s)]
<1>3. \A V : V \subseteq S /\ V # S => Adds(F(V), r, V)
  <2> SUFFICES ASSUME NEW V, V \subseteq S, V # S PROVE Adds(F(V), r, V)
    OBVIOUS
  <2>1. V \notin B /\ V \in SUBSET U
    BY <1>2
  <2>2. \E g : Adds(g, r, V)
    BY <2>1
  <2> QED BY <2>2
<1>4. \A s \in SUBSET S : s # {} => h[s \ {Picked(s)}] = F(s \ {Picked(s)})[s \ {Picked(s)}]
  <2> SUFFICES ASSUME NEW s \in SUBSET S, s # {} PROVE h[s \ {Picked(s)}] = F(s \ {Picked(s)})[s \ {Picked(s)}]
    OBVIOUS
  <2> DEFINE t == s \ {Picked(s)}
             u == t \ {Picked(t)}
  <2>1. Picked(s) \in s
    BY PickedIsIn
  <2>2. t \subseteq S /\ t # S
    BY <2>1
  <2>3. h[t] = v(t)
    BY <2>2
  <2>4. Adds(F(t), r, t)
    BY <1>3, <2>2
  <2> HIDE DEF t, h, F
  <2>5. F(t)[t] = IF t = {} THEN 0 ELSE r[Picked(t)].amount + F(t)[u]
    BY <2>4, AddsAt
  <2>6. CASE t = {}
    BY <2>3, <2>5, <2>6 DEF t
  <2>7. CASE t # {}
    <3>1. Picked(t) \in t
      BY <2>7, PickedIsIn
    <3>2. u \subseteq S /\ u # S /\ u \subseteq t /\ u \subseteq U
      BY <2>2, <3>1
    <3>3. Adds(F(u), r, u)
      BY <1>3, <3>2
    <3>4. F(t)[u] = F(u)[u]
      <4> HIDE DEF u
      <4> QED BY <2>4, <3>2, <3>3, AddsOnce
    <3>5. F(t)[t] = v(t)
      BY <2>5, <2>7, <3>4
    <3> QED BY <2>3, <3>5 DEF t
  <2> QED BY <2>6, <2>7
<1>5. h = [s \in SUBSET S |-> IF s = {} THEN 0 ELSE r[Picked(s)].amount + h[s \ {Picked(s)}]]
  <2> DEFINE w(s) == IF s = {} THEN 0 ELSE r[Picked(s)].amount + h[s \ {Picked(s)}]
  <2>1. \A s \in SUBSET S : v(s) = w(s)
    <3> HIDE DEF h, F
    <3>1. ASSUME NEW s \in SUBSET S, s = {} PROVE v(s) = w(s)
      BY <3>1
    <3>2. ASSUME NEW s \in SUBSET S, s # {} PROVE v(s) = w(s)
      <4>1. h[s \ {Picked(s)}] = F(s \ {Picked(s)})[s \ {Picked(s)}]
        BY <1>4, <3>2
      <4> QED BY <4>1, <3>2
    <3> QED BY <3>1, <3>2
  <2> HIDE DEF w
  <2>2. h = [s \in SUBSET S |-> w(s)]
    <3> HIDE DEF v
    <3> QED BY <2>1
  <2> QED BY <2>2 DEF w
<1>6. Adds(h, r, S)
  <2> HIDE DEF h
  <2> QED BY <1>5 DEF Adds
<1> QED BY <1>2, <1>6

\* The sum of nothing, and the sum of a set by the memo it takes first.
LEMMA CreditByFirst ==
    ASSUME NEW U, IsFiniteSet(U), NEW r, NEW S \in SUBSET U
    PROVE  CreditOf(r, S) = IF S = {} THEN 0 ELSE r[Picked(S)].amount + CreditOf(r, S \ {Picked(S)})
<1> DEFINE F(V) == CHOOSE h : Adds(h, r, V)
           T == S \ {Picked(S)}
<1>1. CreditOf(r, S) = F(S)[S] /\ CreditOf(r, T) = F(T)[T]
  BY CreditIsSum
<1>2. Adds(F(S), r, S)
  BY AddsExists
<1>3. Adds(F(T), r, T)
  <2>1. T \in SUBSET U
    OBVIOUS
  <2>2. \E h : Adds(h, r, T)
    BY <2>1, AddsExists
  <2> QED BY <2>2
<1>4. T \subseteq S /\ T \subseteq U
  OBVIOUS
<1> HIDE DEF F, T
<1>5. F(S)[T] = F(T)[T]
  BY <1>2, <1>3, <1>4, AddsOnce
<1>6. F(S)[S] = IF S = {} THEN 0 ELSE r[Picked(S)].amount + F(S)[T]
  BY <1>2, AddsAt DEF T
<1> QED BY <1>1, <1>5, <1>6 DEF T

\* The sum of a set by any of its memos, and that it is a number.
LEMMA CreditByAny ==
    ASSUME NEW U, IsFiniteSet(U), NEW r, \A m \in U : r[m].amount \in Nat
    PROVE  \A S \in SUBSET U : /\ CreditOf(r, S) \in Nat
                              /\ \A m \in S : CreditOf(r, S) = r[m].amount + CreditOf(r, S \ {m})
<1> DEFINE Good(S) == /\ CreditOf(r, S) \in Nat
                      /\ \A m \in S : CreditOf(r, S) = r[m].amount + CreditOf(r, S \ {m})
           B == {S \in SUBSET U : ~Good(S)}
<1>1. SUFFICES ASSUME B # {} PROVE FALSE
  OBVIOUS
<1>2. PICK S \in B : \A V \in B : V \subseteq S => V = S
  <2>1. B \subseteq SUBSET U
    OBVIOUS
  <2> HIDE DEF B
  <2> QED BY <1>1, <2>1, HasMinimal
<1>3. \A V : V \subseteq S /\ V # S => Good(V)
  <2> HIDE DEF Good
  <2> QED BY <1>2
<1>4. S \in SUBSET U
  OBVIOUS
<1>5. S # {}
  <2>1. CreditOf(r, {}) = 0
    BY CreditByFirst
  <2>2. Good({})
    BY <2>1
  <2> HIDE DEF Good
  <2> QED BY <2>2
<1> DEFINE p == Picked(S)
<1>6. p \in S /\ CreditOf(r, S) = r[p].amount + CreditOf(r, S \ {p})
  BY <1>4, <1>5, PickedIsIn, CreditByFirst
<1> HIDE DEF p
<1>7. Good(S \ {p})
  BY <1>3, <1>6
<1>8. CreditOf(r, S) \in Nat
  BY <1>4, <1>6, <1>7
<1>9. ASSUME NEW m \in S PROVE CreditOf(r, S) = r[m].amount + CreditOf(r, S \ {m})
  <2>1. CASE m = p
    BY <1>6, <2>1
  <2>2. CASE m # p
    <3>1. m \in S \ {p} /\ p \in S \ {m}
      BY <1>6, <2>2
    <3>2. Good(S \ {m}) /\ Good((S \ {p}) \ {m})
      BY <1>3, <3>1
    <3>3. (S \ {p}) \ {m} = (S \ {m}) \ {p}
      OBVIOUS
    <3>4. CreditOf(r, S \ {p}) = r[m].amount + CreditOf(r, (S \ {p}) \ {m})
      BY <1>7, <3>1
    <3>5. CreditOf(r, S \ {m}) = r[p].amount + CreditOf(r, (S \ {p}) \ {m})
      BY <3>1, <3>2, <3>3
    <3>6. /\ r[m].amount \in Nat /\ r[p].amount \in Nat
          /\ CreditOf(r, (S \ {p}) \ {m}) \in Nat
      BY <1>4, <1>6, <3>2
    <3> QED BY <1>6, <3>4, <3>5, <3>6
  <2> QED BY <2>1, <2>2
<1> QED BY <1>8, <1>9

\* Less is applied where fewer memos are.
LEMMA CreditMonotone ==
    ASSUME NEW U, IsFiniteSet(U), NEW r, \A m \in U : r[m].amount \in Nat,
           NEW T \in SUBSET U, NEW S \in SUBSET T
    PROVE  CreditOf(r, S) <= CreditOf(r, T)
<1> DEFINE B == {V \in SUBSET U : S \subseteq V /\ ~(CreditOf(r, S) <= CreditOf(r, V))}
<1>1. SUFFICES ASSUME B # {} PROVE FALSE
  OBVIOUS
<1>2. PICK V \in B : \A W \in B : W \subseteq V => W = V
  <2>1. B \subseteq SUBSET U
    OBVIOUS
  <2> HIDE DEF B
  <2> QED BY <1>1, <2>1, HasMinimal
<1>3. /\ CreditOf(r, S) \in Nat /\ CreditOf(r, V) \in Nat
      /\ \A m \in V : CreditOf(r, V) = r[m].amount + CreditOf(r, V \ {m})
  BY CreditByAny
<1>4. PICK m \in V : m \notin S
  BY <1>3
<1>5. CreditOf(r, V \ {m}) \in Nat /\ r[m].amount \in Nat
  <2>1. V \ {m} \in SUBSET U
    OBVIOUS
  <2> QED BY <2>1, CreditByAny
<1>6. CreditOf(r, S) <= CreditOf(r, V \ {m})
  BY <1>2, <1>4
<1> QED BY <1>3, <1>5, <1>6

\* The sum is of the amounts, whatever else the rows say.
LEMMA CreditOfAmounts ==
    ASSUME NEW U, IsFiniteSet(U), NEW r, NEW q, \A m \in U : r[m].amount = q[m].amount,
           NEW S \in SUBSET U
    PROVE  CreditOf(r, S) = CreditOf(q, S)
<1> DEFINE B == {V \in SUBSET U : CreditOf(r, V) # CreditOf(q, V)}
<1>1. SUFFICES ASSUME B # {} PROVE FALSE
  OBVIOUS
<1>2. PICK V \in B : \A W \in B : W \subseteq V => W = V
  <2>1. B \subseteq SUBSET U
    OBVIOUS
  <2> HIDE DEF B
  <2> QED BY <1>1, <2>1, HasMinimal
<1>3. CreditOf(r, V) = IF V = {} THEN 0 ELSE r[Picked(V)].amount + CreditOf(r, V \ {Picked(V)})
  BY CreditByFirst
<1>4. CreditOf(q, V) = IF V = {} THEN 0 ELSE q[Picked(V)].amount + CreditOf(q, V \ {Picked(V)})
  BY CreditByFirst
<1>5. V # {}
  BY <1>3, <1>4
<1>6. Picked(V) \in V
  BY <1>5, PickedIsIn
<1>7. CreditOf(r, V \ {Picked(V)}) = CreditOf(q, V \ {Picked(V)})
  BY <1>2, <1>6
<1> QED BY <1>3, <1>4, <1>5, <1>6, <1>7

-----------------------------------------------------------------------------
(* Credit memos: no request applies more than an invoice is for.            *)

\* The definitions that read the variables, as functions of what they read, now and after a step.
AppliedBy(r, i) == {m \in Memos : r[m].status = "applied" /\ r[m].invoice = i}
HasBalance(r, a, q, n) == n <= a[q.invoice] - CreditOf(r, AppliedBy(r, q.invoice) \ {q.memo})

\* A row whose status, or status and invoice, a step writes.
LEMMA MemoWrites ==
    ASSUME NEW r \in [Memos -> MemoRow], NEW m \in Memos,
           NEW st \in {"absent", "open", "applied", "void"}, NEW q, q = [r EXCEPT ![m].status = st]
    PROVE  /\ q \in [Memos -> MemoRow] /\ q[m].status = st
           /\ \A x \in Memos \ {m} : q[x] = r[x]
           /\ \A x \in Memos : q[x].amount = r[x].amount
<1> DEFINE row == [r[m] EXCEPT !.status = st]
<1>1. row \in MemoRow /\ row.status = st /\ row.amount = r[m].amount
  <2>1. r[m] \in MemoRow
    OBVIOUS
  <2> QED BY <2>1 DEF MemoRow
<1>2. q = [r EXCEPT ![m] = row]
  BY DEF MemoRow
<1> HIDE DEF row
<1> QED BY <1>1, <1>2

\* The table after a step applies a memo, and what is applied to each invoice.
LEMMA MemoApplies ==
    ASSUME NEW r \in [Memos -> MemoRow], NEW m \in Memos, NEW i \in Invoices,
           NEW q \in [Memos -> MemoRow], q[m].status = "applied", q[m].invoice = i,
           \A x \in Memos \ {m} : q[x] = r[x]
    PROVE  /\ \A j : j # i => AppliedBy(q, j) \subseteq AppliedBy(r, j)
           /\ AppliedBy(q, i) = (AppliedBy(r, i) \ {m}) \union {m}
<1>1. \A j : j # i => AppliedBy(q, j) \subseteq AppliedBy(r, j)
  BY DEF AppliedBy
<1>2. AppliedBy(q, i) = (AppliedBy(r, i) \ {m}) \union {m}
  BY DEF AppliedBy
<1> QED BY <1>1, <1>2

\* Nothing is asked for and nothing applied.
LEMMA MemosStart == MemosInit => MemosInv
<1> SUFFICES ASSUME MemosInit PROVE MemosInv
  OBVIOUS
<1>1. NoRequest \in Request /\ NoRequest.pc = "idle"
  BY MemosAssumption DEF NoRequest, Request
<1>2. memo \in [Memos -> MemoRow]
  <2>1. PICK credit \in [Memos -> Amounts] :
           memo = [m \in Memos |-> [status |-> "absent", amount |-> credit[m], invoice |-> NoInvoice]]
    BY DEF MemosInit
  <2> QED BY <2>1 DEF MemoRow
<1>3. \A k \in Clerks : request[k].pc = "idle"
  BY <1>1 DEF MemosInit
<1>4. MemosTypeOK
  BY <1>1, <1>2, <1>3 DEF MemosInit, MemosTypeOK
<1> QED BY <1>3, <1>4 DEF MemosInv, LocksAreOfInvoices, BalanceIsThere

\* The properties' definitions in these terms, now and after a step.
LEMMA CreditForms ==
    /\ \A i : /\ AppliedTo(i) = AppliedBy(memo, i)
             /\ AppliedTo(i)' = AppliedBy(memo', i)
             /\ Credit(AppliedTo(i)) = CreditOf(memo, AppliedBy(memo, i))
             /\ Credit(AppliedTo(i))' = CreditOf(memo', AppliedBy(memo', i))
    /\ \A k : Credit(AppliedTo(request[k].invoice) \ {request[k].memo})
               = CreditOf(memo, AppliedBy(memo, request[k].invoice) \ {request[k].memo})
    /\ BalanceIsThere <=> \A k \in Clerks : request[k].pc = "locked" => HasBalance(memo, amount, request[k], remaining[k])
    /\ BalanceIsThere' <=> \A k \in Clerks : request'[k].pc = "locked" => HasBalance(memo', amount', request'[k], remaining'[k])
BY DEF BalanceIsThere, HasBalance, AppliedTo, AppliedBy, Credit, CreditOf, MapThenSumSet, MapThenFoldSet

\* What is applied to an invoice is a finite set of memos with numbers for amounts.
LEMMA AppliedAreMemos ==
    ASSUME NEW r \in [Memos -> MemoRow]
    PROVE  /\ IsFiniteSet(Memos) /\ \A m \in Memos : r[m].amount \in Nat
           /\ \A S \in SUBSET Memos : CreditOf(r, S) \in Nat
<1>1. \A m \in Memos : r[m].amount \in 1 .. MAX_AMOUNT
  BY DEF MemoRow, Amounts
<1>2. IsFiniteSet(Memos) /\ \A m \in Memos : r[m].amount \in Nat
  BY <1>1, MemosAssumption
<1> QED BY <1>2, CreditByAny

\* Where a step takes memos away and keeps the amounts, no more is applied.
LEMMA FewerApplied ==
    ASSUME NEW r \in [Memos -> MemoRow], NEW q, \A m \in Memos : q[m].amount = r[m].amount,
           NEW S \in SUBSET Memos, NEW T \in SUBSET S
    PROVE  CreditOf(q, T) \in Nat /\ CreditOf(r, S) \in Nat /\ CreditOf(q, T) <= CreditOf(r, S)
<1>1. CreditOf(q, T) = CreditOf(r, T)
  <2>1. T \in SUBSET Memos
    OBVIOUS
  <2> QED BY <2>1, AppliedAreMemos, CreditOfAmounts
<1>2. CreditOf(r, T) <= CreditOf(r, S)
  BY AppliedAreMemos, CreditMonotone
<1>3. CreditOf(r, T) \in Nat /\ CreditOf(r, S) \in Nat
  BY AppliedAreMemos
<1> QED BY <1>1, <1>2, <1>3

\* A request that keeps its lock keeps its balance.
LEMMA BalanceStays ==
    ASSUME NEW r \in [Memos -> MemoRow], NEW s \in [Memos -> MemoRow], \A m \in Memos : s[m].amount = r[m].amount,
           NEW q, NEW n \in Int, NEW a, NEW b, a[q.invoice] \in Int, b[q.invoice] = a[q.invoice],
           AppliedBy(s, q.invoice) \subseteq AppliedBy(r, q.invoice), HasBalance(r, a, q, n)
    PROVE  HasBalance(s, b, q, n)
<1> DEFINE S == AppliedBy(r, q.invoice) \ {q.memo}
           T == AppliedBy(s, q.invoice) \ {q.memo}
<1>1. S \in SUBSET Memos /\ T \in SUBSET S
  BY DEF AppliedBy
<1> HIDE DEF S, T
<1>2. CreditOf(s, T) \in Nat /\ CreditOf(r, S) \in Nat /\ CreditOf(s, T) <= CreditOf(r, S)
  BY <1>1, FewerApplied
<1> QED BY <1>2 DEF HasBalance, S, T

\* What a commit or a new memo applies is within the invoice: the memo is added to at most what the balance leaves.
LEMMA AppliedWithin ==
    ASSUME NEW r \in [Memos -> MemoRow], NEW s, \A m \in Memos : s[m].amount = r[m].amount,
           NEW i, NEW m \in Memos, AppliedBy(s, i) = (AppliedBy(r, i) \ {m}) \union {m},
           NEW a \in Int, NEW n \in Int, n <= a - CreditOf(r, AppliedBy(r, i) \ {m}), r[m].amount <= n
    PROVE  CreditOf(s, AppliedBy(s, i)) <= a
<1> DEFINE S == AppliedBy(r, i) \ {m}
           T == AppliedBy(s, i)
<1>1. S \in SUBSET Memos /\ T \in SUBSET Memos /\ m \in T /\ T \ {m} = S
  BY DEF AppliedBy
<1> HIDE DEF S, T
<1>2. CreditOf(r, T) = r[m].amount + CreditOf(r, S)
  <2>1. CreditOf(r, T) = r[m].amount + CreditOf(r, T \ {m})
    BY <1>1, AppliedAreMemos, CreditByAny
  <2> QED BY <2>1, <1>1
<1>3. CreditOf(s, T) = CreditOf(r, T)
  BY <1>1, AppliedAreMemos, CreditOfAmounts
<1>4. CreditOf(r, S) \in Nat /\ r[m].amount \in Nat
  BY <1>1, AppliedAreMemos
<1> QED BY <1>2, <1>3, <1>4 DEF S, T

\* No more is applied to an invoice than before, or no more than it is for.
Within == \A i \in Invoices :
  Credit(AppliedTo(i))' > Credit(AppliedTo(i)) => Credit(AppliedTo(i))' <= amount'[i]

LEMMA FewerIsWithin ==
    ASSUME NEW i, memo \in [Memos -> MemoRow], \A m \in Memos : memo'[m].amount = memo[m].amount,
           AppliedBy(memo', i) \subseteq AppliedBy(memo, i)
    PROVE  ~(Credit(AppliedTo(i))' > Credit(AppliedTo(i)))
<1> DEFINE S == AppliedBy(memo, i)
           T == AppliedBy(memo', i)
<1>1. S \in SUBSET Memos /\ T \in SUBSET S
  BY DEF AppliedBy
<1>2. Credit(AppliedTo(i))' = CreditOf(memo', T) /\ Credit(AppliedTo(i)) = CreditOf(memo, S)
  BY CreditForms
<1> HIDE DEF S, T
<1>3. CreditOf(memo', T) \in Nat /\ CreditOf(memo, S) \in Nat /\ CreditOf(memo', T) <= CreditOf(memo, S)
  BY <1>1, FewerApplied
<1> QED BY <1>2, <1>3

\* The requests that hold a lock keep it, and what they computed is still there.
LEMMA HoldersKeep ==
    ASSUME MemosInv, memo' \in [Memos -> MemoRow], \A m \in Memos : memo'[m].amount = memo[m].amount,
           \A k \in Clerks : request'[k].pc = "locked" =>
             /\ request'[k] = request[k] /\ remaining'[k] = remaining[k]
             /\ amount'[request[k].invoice] = amount[request[k].invoice]
             /\ AppliedBy(memo', request[k].invoice) \subseteq AppliedBy(memo, request[k].invoice)
    PROVE  BalanceIsThere'
<1> SUFFICES ASSUME NEW k \in Clerks, request'[k].pc = "locked"
             PROVE  HasBalance(memo', amount', request'[k], remaining'[k])
  BY CreditForms
<1>1. HasBalance(memo, amount, request[k], remaining[k])
  BY CreditForms DEF MemosInv
<1>2. remaining[k] \in Int /\ amount[request[k].invoice] \in Int
  BY MemosAssumption DEF MemosInv, MemosTypeOK, LocksAreOfInvoices, Amounts
<1>3. memo \in [Memos -> MemoRow]
  BY DEF MemosInv, MemosTypeOK
<1>4. HasBalance(memo', amount', request[k], remaining[k])
  BY <1>1, <1>2, <1>3, BalanceStays
<1> QED BY <1>4

\* A new memo is open, or applied at once to an invoice nobody holds.
LEMMA CreateSteps == ASSUME MemosInv, NEW m \in Memos, CreateMemo(m) PROVE MemosInv' /\ Within
<1> USE DEF MemosInv
<1>1. memo \in [Memos -> MemoRow] /\ memo[m].status = "absent" /\ UNCHANGED <<amount, request, remaining>>
  BY DEF MemosTypeOK, CreateMemo
<1>2. CASE memo' = [memo EXCEPT ![m].status = "open"]
  <2>1. /\ memo' \in [Memos -> MemoRow] /\ \A x \in Memos : memo'[x].amount = memo[x].amount
        /\ memo'[m].status = "open" /\ \A x \in Memos \ {m} : memo'[x] = memo[x]
    BY <1>1, <1>2, MemoWrites
  <2>2. \A i : AppliedBy(memo', i) \subseteq AppliedBy(memo, i)
    BY <2>1 DEF AppliedBy
  <2>3. BalanceIsThere'
    BY <1>1, <2>1, <2>2, HoldersKeep
  <2>4. MemosTypeOK' /\ LocksAreOfInvoices'
    BY <1>1, <2>1 DEF MemosTypeOK, LocksAreOfInvoices
  <2> QED BY <1>1, <2>1, <2>2, <2>3, <2>4, FewerIsWithin DEF Within
<1>3. ASSUME NEW i \in Invoices, Unlocked(i), memo[m].amount <= amount[i] - Credit(AppliedTo(i)),
             memo' = [memo EXCEPT ![m].status = "applied", ![m].invoice = i]
      PROVE  MemosInv' /\ Within
  <2>1. /\ memo' \in [Memos -> MemoRow] /\ \A x \in Memos : memo'[x].amount = memo[x].amount
        /\ \A j : j # i => AppliedBy(memo', j) \subseteq AppliedBy(memo, j)
        /\ AppliedBy(memo', i) = (AppliedBy(memo, i) \ {m}) \union {m}
    <3> DEFINE row == [memo[m] EXCEPT !.status = "applied", !.invoice = i]
    <3>1. row \in MemoRow /\ row.status = "applied" /\ row.invoice = i /\ row.amount = memo[m].amount
      <4>1. memo[m] \in MemoRow
        BY <1>1
      <4> QED BY <4>1 DEF MemoRow
    <3>2. memo' = [memo EXCEPT ![m] = row]
      BY <1>1, <1>3 DEF MemoRow
    <3> HIDE DEF row
    <3>3. /\ memo' \in [Memos -> MemoRow] /\ memo'[m].status = "applied" /\ memo'[m].invoice = i
          /\ \A x \in Memos \ {m} : memo'[x] = memo[x]
      BY <1>1, <3>1, <3>2
    <3>4. \A x \in Memos : memo'[x].amount = memo[x].amount
      BY <1>1, <3>1, <3>2, <3>3
    <3> QED BY <1>1, <3>3, <3>4, MemoApplies
  <2>4. AppliedBy(memo, i) \ {m} = AppliedBy(memo, i)
    BY <1>1 DEF AppliedBy
  <2>5. BalanceIsThere'
    <3>1. \A k \in Clerks : request'[k].pc = "locked" => request[k].invoice # i
      BY <1>1, <1>3 DEF Unlocked
    <3> QED BY <1>1, <2>1, <3>1, HoldersKeep
  <2>6. MemosTypeOK' /\ LocksAreOfInvoices'
    BY <1>1, <2>1 DEF MemosTypeOK, LocksAreOfInvoices
  <2>7. Credit(AppliedTo(i))' <= amount'[i]
    <3> DEFINE a == amount[i]
               n == a - CreditOf(memo, AppliedBy(memo, i) \ {m})
    <3>1. Credit(AppliedTo(i)) = CreditOf(memo, AppliedBy(memo, i) \ {m}) /\ Credit(AppliedTo(i))' = CreditOf(memo', AppliedBy(memo', i))
      BY <2>4, CreditForms
    <3>2. CreditOf(memo, AppliedBy(memo, i) \ {m}) \in Nat
      <4>1. AppliedBy(memo, i) \ {m} \in SUBSET Memos
        BY DEF AppliedBy
      <4> QED BY <1>1, <4>1, AppliedAreMemos
    <3>3. a \in Int /\ n \in Int /\ n <= a - CreditOf(memo, AppliedBy(memo, i) \ {m})
      BY <3>2, MemosAssumption DEF MemosTypeOK, Amounts
    <3>4. memo[m].amount <= n
      BY <1>3, <3>1
    <3> HIDE DEF n, a
    <3>5. CreditOf(memo', AppliedBy(memo', i)) <= a
      BY <1>1, <2>1, <3>3, <3>4, AppliedWithin
    <3> QED BY <1>1, <3>1, <3>5 DEF a
  <2>8. Within
    BY <1>1, <2>1, <2>7, FewerIsWithin DEF Within
  <2> QED BY <2>5, <2>6, <2>8
<1> QED BY <1>2, <1>3 DEF CreateMemo

\* A request that is answered forgets what it held.
LEMMA AnsweredForgets ==
    ASSUME MemosInv, NEW k \in Clerks, Answered(k), UNCHANGED amount,
           memo' \in [Memos -> MemoRow]
    PROVE  /\ MemosTypeOK' /\ LocksAreOfInvoices'
           /\ request'[k].pc = "idle"
           /\ \A j \in Clerks \ {k} : request'[j] = request[j] /\ remaining'[j] = remaining[j]
<1>1. NoRequest \in Request /\ NoRequest.pc = "idle"
  BY MemosAssumption DEF NoRequest, Request
<1>2. /\ request' \in [Clerks -> Request] /\ remaining' \in [Clerks -> Int]
      /\ request'[k].pc = "idle"
      /\ \A j \in Clerks \ {k} : request'[j] = request[j] /\ remaining'[j] = remaining[j]
  BY <1>1 DEF Answered, MemosInv, MemosTypeOK
<1>3. MemosTypeOK' /\ LocksAreOfInvoices'
  BY <1>2 DEF MemosInv, MemosTypeOK, LocksAreOfInvoices
<1> QED BY <1>2, <1>3

\* Committing an application: what the lock showed is still there.
LEMMA CommitApplySteps == ASSUME MemosInv, NEW k \in Clerks, CommitApply(k) PROVE MemosInv' /\ Within
<1> USE DEF MemosInv
<1>1. /\ memo \in [Memos -> MemoRow] /\ request[k].pc = "locked" /\ Answered(k) /\ UNCHANGED amount
  BY DEF MemosTypeOK, CommitApply
<1>0. PICK m \in Memos, i \in Invoices : m = request[k].memo /\ i = request[k].invoice
  BY <1>1 DEF MemosTypeOK, Request, LocksAreOfInvoices
<1>2. \A j \in Clerks \ {k} : request[j].pc = "locked" => request[j].invoice # i
  BY <1>0, <1>1 DEF MemosTypeOK
<1>3. CASE memo' = memo
  <2>1. /\ MemosTypeOK' /\ LocksAreOfInvoices' /\ request'[k].pc = "idle"
        /\ \A j \in Clerks \ {k} : request'[j] = request[j] /\ remaining'[j] = remaining[j]
    BY <1>1, <1>3, AnsweredForgets
  <2>2. BalanceIsThere'
    BY <1>1, <1>3, <2>1, HoldersKeep
  <2> QED BY <1>1, <1>3, <2>1, <2>2, FewerIsWithin DEF Within
<1>4. CASE memo[m].amount <= remaining[k] /\ memo' = [memo EXCEPT ![m].status = "applied", ![m].invoice = i]
  <2>1. /\ memo' \in [Memos -> MemoRow] /\ \A x \in Memos : memo'[x].amount = memo[x].amount
        /\ \A j : j # i => AppliedBy(memo', j) \subseteq AppliedBy(memo, j)
        /\ AppliedBy(memo', i) = (AppliedBy(memo, i) \ {m}) \union {m}
    <3> DEFINE row == [memo[m] EXCEPT !.status = "applied", !.invoice = i]
    <3>1. row \in MemoRow /\ row.status = "applied" /\ row.invoice = i /\ row.amount = memo[m].amount
      <4>1. memo[m] \in MemoRow
        BY <1>1
      <4> QED BY <4>1 DEF MemoRow
    <3>2. memo' = [memo EXCEPT ![m] = row]
      BY <1>1, <1>4 DEF MemoRow
    <3> HIDE DEF row
    <3>3. /\ memo' \in [Memos -> MemoRow] /\ memo'[m].status = "applied" /\ memo'[m].invoice = i
          /\ \A x \in Memos \ {m} : memo'[x] = memo[x]
      BY <1>1, <3>1, <3>2
    <3>4. \A x \in Memos : memo'[x].amount = memo[x].amount
      BY <1>1, <3>1, <3>2, <3>3
    <3> QED BY <1>1, <3>3, <3>4, MemoApplies
  <2>5. /\ MemosTypeOK' /\ LocksAreOfInvoices' /\ request'[k].pc = "idle"
        /\ \A j \in Clerks \ {k} : request'[j] = request[j] /\ remaining'[j] = remaining[j]
    BY <1>1, <2>1, AnsweredForgets
  <2>6. BalanceIsThere'
    BY <1>1, <1>2, <2>1, <2>5, HoldersKeep
  <2>7. Credit(AppliedTo(i))' <= amount'[i]
    <3>1. HasBalance(memo, amount, request[k], remaining[k])
      BY <1>1, CreditForms
    <3>2. remaining[k] <= amount[i] - CreditOf(memo, AppliedBy(memo, i) \ {m})
      BY <1>0, <3>1 DEF HasBalance
    <3>3. remaining[k] \in Int /\ amount[i] \in Int
      BY <1>1, MemosAssumption DEF MemosTypeOK, Amounts
    <3>4. CreditOf(memo', AppliedBy(memo', i)) <= amount[i]
      BY <1>1, <1>4, <2>1, <3>2, <3>3, AppliedWithin
    <3> QED BY <1>1, <3>4, CreditForms
  <2>8. Within
    BY <1>1, <2>1, <2>7, FewerIsWithin DEF Within
  <2> QED BY <2>5, <2>6, <2>8
<1> QED BY <1>0, <1>3, <1>4 DEF CommitApply

\* Committing a void takes the memo from the invoice it may have been applied to meanwhile.
LEMMA CommitVoidSteps == ASSUME MemosInv, NEW k \in Clerks, CommitVoid(k) PROVE MemosInv' /\ Within
<1> USE DEF MemosInv
<1>1. memo \in [Memos -> MemoRow] /\ Answered(k) /\ UNCHANGED amount
  BY DEF MemosTypeOK, CommitVoid
<1>2. PICK m \in Memos : m = request[k].memo
  BY DEF MemosTypeOK, Request
<1>3. memo' = [memo EXCEPT ![m].status = "void"]
  BY <1>2 DEF CommitVoid
<1>4. /\ memo' \in [Memos -> MemoRow] /\ \A x \in Memos : memo'[x].amount = memo[x].amount
      /\ memo'[m].status = "void" /\ \A x \in Memos \ {m} : memo'[x] = memo[x]
  BY <1>1, <1>3, MemoWrites
<1>5. \A i : AppliedBy(memo', i) \subseteq AppliedBy(memo, i)
  BY <1>4 DEF AppliedBy
<1>6. /\ MemosTypeOK' /\ LocksAreOfInvoices' /\ request'[k].pc = "idle"
      /\ \A j \in Clerks \ {k} : request'[j] = request[j] /\ remaining'[j] = remaining[j]
  BY <1>1, <1>4, AnsweredForgets
<1>7. BalanceIsThere'
  BY <1>1, <1>4, <1>5, <1>6, HoldersKeep
<1> QED BY <1>1, <1>4, <1>5, <1>6, <1>7, FewerIsWithin DEF Within

\* Locking the invoice: nobody else holds it, and the balance is what the model's rows say now.
LEMMA LockSteps == ASSUME MemosInv, NEW k \in Clerks, LockInvoice(k) PROVE MemosInv'
<1> USE DEF MemosInv
<1>1. /\ memo \in [Memos -> MemoRow] /\ request[k].pc = "applying" /\ UNCHANGED <<memo, amount>>
      /\ Unlocked(request[k].invoice) /\ request[k].invoice \in Invoices
  BY DEF MemosTypeOK, LockInvoice, LocksAreOfInvoices
<1> DEFINE q == [request[k] EXCEPT !.pc = "locked"]
           n == amount[request[k].invoice] - Credit(AppliedTo(request[k].invoice) \ {request[k].memo})
<1>2. q \in Request /\ q.pc = "locked" /\ q.invoice = request[k].invoice /\ q.memo = request[k].memo
  <2>1. request[k] \in Request
    BY DEF MemosTypeOK
  <2> QED BY <2>1 DEF Request
<1>3. request' = [request EXCEPT ![k] = q] /\ remaining' = [remaining EXCEPT ![k] = n]
  BY DEF LockInvoice, MemosTypeOK
<1>4. n = amount[request[k].invoice] - CreditOf(memo, AppliedBy(memo, request[k].invoice) \ {request[k].memo}) /\ n \in Int
  <2>1. AppliedBy(memo, request[k].invoice) \ {request[k].memo} \in SUBSET Memos
    BY DEF AppliedBy
  <2>2. CreditOf(memo, AppliedBy(memo, request[k].invoice) \ {request[k].memo}) \in Nat
    BY <1>1, <2>1, AppliedAreMemos
  <2>3. amount[request[k].invoice] \in Int
    BY <1>1, MemosAssumption DEF MemosTypeOK, Amounts
  <2> QED BY <2>2, <2>3, CreditForms
<1> HIDE DEF q, n
<1>5. /\ request' \in [Clerks -> Request] /\ remaining' \in [Clerks -> Int]
      /\ request'[k] = q /\ remaining'[k] = n
      /\ \A j \in Clerks \ {k} : request'[j] = request[j] /\ remaining'[j] = remaining[j]
  BY <1>2, <1>3, <1>4 DEF MemosTypeOK
<1>6. MemosTypeOK'
  BY <1>1, <1>2, <1>5 DEF MemosTypeOK, Unlocked
<1>7. LocksAreOfInvoices'
  BY <1>1, <1>2, <1>5 DEF LocksAreOfInvoices
<1>8. BalanceIsThere'
  <2> SUFFICES ASSUME NEW j \in Clerks, request'[j].pc = "locked"
               PROVE  HasBalance(memo', amount', request'[j], remaining'[j])
    BY CreditForms
  <2>1. CASE j = k
    <3>1. n <= n
      BY <1>4
    <3>2. HasBalance(memo, amount, q, n)
      BY <1>2, <1>4, <3>1 DEF HasBalance
    <3> QED BY <1>1, <1>5, <2>1, <3>2
  <2>2. CASE j # k
    BY <1>1, <1>5, <2>2, CreditForms
  <2> QED BY <2>1, <2>2
<1> QED BY <1>6, <1>7, <1>8

\* Requests that begin or fail, and edits of an amount nobody holds.
LEMMA OpenSteps ==
    ASSUME MemosInv, NEW k \in Clerks,
           \/ \E m \in Memos, i \in Invoices : OpenApply(k, m, i)
           \/ \E m \in Memos : OpenVoid(k, m)
           \/ RequestFails(k)
    PROVE  MemosInv' /\ UNCHANGED memo
<1> USE DEF MemosInv
<1>1. memo \in [Memos -> MemoRow] /\ UNCHANGED <<memo, amount>>
  BY DEF MemosTypeOK, OpenApply, OpenVoid, RequestFails
<1>2. ASSUME NEW q \in Request, q.pc # "locked", q.pc = "applying" => q.invoice \in Invoices,
             request' = [request EXCEPT ![k] = q], UNCHANGED remaining
      PROVE  MemosInv'
  <2>1. /\ request' \in [Clerks -> Request] /\ request'[k] = q
        /\ \A j \in Clerks \ {k} : request'[j] = request[j]
    BY <1>2 DEF MemosTypeOK
  <2>2. MemosTypeOK' /\ LocksAreOfInvoices'
    BY <1>1, <1>2, <2>1 DEF MemosTypeOK, LocksAreOfInvoices
  <2>3. BalanceIsThere'
    BY <1>1, <1>2, <2>1, HoldersKeep
  <2> QED BY <2>2, <2>3
<1>3. ASSUME NEW m \in Memos, NEW i \in Invoices, OpenApply(k, m, i) PROVE MemosInv'
  <2> DEFINE q == [pc |-> "applying", memo |-> m, invoice |-> i]
  <2>1. q \in Request /\ q.pc = "applying" /\ q.invoice = i
    BY DEF Request
  <2>2. request' = [request EXCEPT ![k] = q] /\ UNCHANGED remaining
    BY <1>3 DEF OpenApply
  <2> HIDE DEF q
  <2> QED BY <1>2, <2>1, <2>2
<1>4. ASSUME NEW m \in Memos, OpenVoid(k, m) PROVE MemosInv'
  <2> DEFINE q == [NoRequest EXCEPT !.pc = "voiding", !.memo = m]
  <2>1. q \in Request /\ q.pc = "voiding"
    BY DEF NoRequest, Request
  <2>2. request' = [request EXCEPT ![k] = q] /\ UNCHANGED remaining
    BY <1>4 DEF OpenVoid
  <2> HIDE DEF q
  <2> QED BY <1>2, <2>1, <2>2
<1>5. ASSUME RequestFails(k) PROVE MemosInv'
  <2>1. /\ MemosTypeOK' /\ LocksAreOfInvoices' /\ request'[k].pc = "idle"
        /\ \A j \in Clerks \ {k} : request'[j] = request[j] /\ remaining'[j] = remaining[j]
    BY <1>1, <1>5, AnsweredForgets DEF RequestFails
  <2>2. BalanceIsThere'
    BY <1>1, <2>1, HoldersKeep
  <2> QED BY <1>1, <2>1, <2>2
<1> QED BY <1>1, <1>3, <1>4, <1>5

LEMMA EditSteps == ASSUME MemosInv, NEW i \in Invoices, EditAmount(i) PROVE MemosInv' /\ UNCHANGED memo
<1> USE DEF MemosInv
<1>1. /\ memo \in [Memos -> MemoRow] /\ UNCHANGED <<memo, request, remaining>> /\ Unlocked(i)
      /\ amount' \in [Invoices -> Amounts] /\ \A j \in Invoices \ {i} : amount'[j] = amount[j]
  BY DEF MemosTypeOK, EditAmount
<1>2. MemosTypeOK' /\ LocksAreOfInvoices'
  BY <1>1 DEF MemosTypeOK, LocksAreOfInvoices
<1>3. BalanceIsThere'
  <2>1. \A k \in Clerks : request[k].pc = "locked" => amount'[request[k].invoice] = amount[request[k].invoice]
    BY <1>1 DEF Unlocked, LocksAreOfInvoices
  <2> QED BY <1>1, <2>1, HoldersKeep
<1> QED BY <1>1, <1>2, <1>3

\* Every step keeps the invariant, and one that writes a memo stays within every invoice.
LEMMA MemosSteps == MemosInv /\ [MemosNext]_memoVars => MemosInv' /\ (memo' # memo => Within)
<1> SUFFICES ASSUME MemosInv, [MemosNext]_memoVars PROVE MemosInv' /\ (memo' # memo => Within)
  OBVIOUS
<1>1. ASSUME NEW k \in Clerks, LockInvoice(k) PROVE MemosInv' /\ UNCHANGED memo
  BY <1>1, LockSteps DEF LockInvoice
<1>2. CASE UNCHANGED memoVars
  <2>1. MemosTypeOK' /\ LocksAreOfInvoices'
    BY <1>2 DEF MemosInv, MemosTypeOK, LocksAreOfInvoices, memoVars
  <2>2. BalanceIsThere'
    BY <1>2, CreditForms DEF MemosInv, memoVars
  <2> QED BY <1>2, <2>1, <2>2 DEF MemosInv, memoVars
<1> QED
  BY <1>1, <1>2, CreateSteps, OpenSteps, CommitApplySteps, CommitVoidSteps, EditSteps DEF MemosNext

(* No request takes the credit applied to an invoice over what the invoice  *)
(* is for, for any number of memos, invoices and requests: apply_credit_memo*)
(* reads the memo before the invoice's lock and writes it after.            *)
THEOREM CreditsAreWithin == MemosSpec => []MemosInv /\ NoOverApplication
<1>1. MemosInv /\ [MemosNext]_memoVars =>
        [memo' # memo => \A i \in Invoices :
           Credit(AppliedTo(i))' > Credit(AppliedTo(i)) =>
             Credit(AppliedTo(i))' <= amount'[i]]_memoVars
  BY MemosSteps DEF Within
<1> QED BY <1>1, MemosStart, MemosSteps, PTL DEF MemosSpec, NoOverApplication
=============================================================================
