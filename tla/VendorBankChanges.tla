-------------------------- MODULE VendorBankChanges --------------------------
(***************************************************************************)
(* Changes of where one vendor is paid.  Nobody writes the vendor's bank   *)
(* details directly: staff and the vendor's portal login stage a change,   *)
(* and a member of staff who neither requested it nor handed out the       *)
(* login's password approves it.  Staff provision, reset and delete the    *)
(* portal login while changes are under review.                            *)
(***************************************************************************)
EXTENDS Naturals

CONSTANTS Staff,       \* users who may propose, provision and approve
          BankChanges  \* VendorChangeRequest rows

VARIABLES login,       \* the portal user's provisioned_by, or NoLogin
          change,      \* row -> VendorChangeRequest
          bank,        \* the changes merged into Vendor.bank_details
          reviews      \* approvals in progress; each holds its row's lock

vendorVars == <<login, change, bank, reviews>>

NoLogin == "no login"
NoChange == [status |-> "none"]

Nobody == "null"
Persons == Staff \union {Nobody}

(* password is not a column: whose password the submission came with. *)
ChangeRows == [status : {"staging", "pending", "approved", "rejected"},
               requested_by : Persons, requester_provisioned_by : Persons,
               password : Persons, reviewed_by : Persons]
Reviews == [row : BankChanges, user : Staff, copy : SUBSET BankChanges]

VendorsInit == /\ login \in {NoLogin, Nobody}
               /\ change = [c \in BankChanges |-> NoChange]
               /\ bank = {}
               /\ reviews = {}

---------------------------------------------------------------------------
(* The portal login.  Inviting it and resetting its password both stamp the *)
(* member of staff who asked; a vendor's own change of password does not.   *)

InvitePortalUser(u) == /\ login = NoLogin
                       /\ login' = u
                       /\ UNCHANGED <<change, bank, reviews>>

ResetPassword(u) == /\ login # NoLogin
                    /\ login' = u
                    /\ UNCHANGED <<change, bank, reviews>>

DeletePortalUser == /\ login # NoLogin
                    /\ login' = NoLogin
                    /\ UNCHANGED <<change, bank, reviews>>

---------------------------------------------------------------------------
(* Staging: the duplicate check is an unlocked read, the INSERT is after it. *)

Staged(requester, provisioner, password) ==
  [status |-> "staging", requested_by |-> requester, requester_provisioned_by |-> provisioner,
   password |-> password, reviewed_by |-> Nobody]

Stage(c, row) == /\ change[c] = NoChange
                 /\ \A x \in BankChanges : change[x].status # "pending"
                 /\ change' = [change EXCEPT ![c] = row]
                 /\ UNCHANGED <<login, bank, reviews>>

StaffStages(c, u) == Stage(c, Staged(u, Nobody, u))
PortalStages(c) == login # NoLogin /\ Stage(c, Staged(Nobody, login, login))

CommitStaged(c) == /\ change[c].status = "staging"
                   /\ change' = [change EXCEPT ![c].status = "pending"]
                   /\ UNCHANGED <<login, bank, reviews>>

DropStaged(c) == /\ change[c].status = "staging"
                 /\ change' = [change EXCEPT ![c] = NoChange]
                 /\ UNCHANGED <<login, bank, reviews>>

---------------------------------------------------------------------------
(* Review.  The row is locked from the first read to the commit. *)

Reviewable(c) == change[c].status = "pending" /\ \A r \in reviews : r.row # c

\* Mutation: the login is looked up when the change is approved.
ProvisionerByLogin(c) == IF change[c].requested_by = Nobody THEN login ELSE Nobody

(* Frozen on the row when it was staged. *)
Provisioner(c) == change[c].requester_provisioned_by

(* The vendor is read without a lock. *)
ReviewChange(u, c) == /\ Reviewable(c)
                      /\ u # change[c].requested_by
                      /\ u # Provisioner(c)
                      /\ reviews' = reviews \union {[row |-> c, user |-> u, copy |-> bank]}
                      /\ UNCHANGED <<login, change, bank>>

(* The merged details replace the column; row and vendor commit together. *)
ApproveChange(r) ==
  /\ bank' = r.copy \union {r.row}
  /\ change' = [change EXCEPT ![r.row].status = "approved", ![r.row].reviewed_by = r.user]
  /\ reviews' = reviews \ {r}
  /\ UNCHANGED login

DropReview(r) == /\ reviews' = reviews \ {r}
                 /\ UNCHANGED <<login, change, bank>>

(* Anybody of staff may reject, the one who asked for the change included. *)
RejectChange(u, c) ==
  /\ Reviewable(c)
  /\ change' = [change EXCEPT ![c].status = "rejected", ![c].reviewed_by = u]
  /\ UNCHANGED <<login, bank, reviews>>

VendorsNext ==
  \/ \E u \in Staff : InvitePortalUser(u) \/ ResetPassword(u)
  \/ DeletePortalUser
  \/ \E c \in BankChanges : \/ \E u \in Staff : StaffStages(c, u)
                            \/ PortalStages(c) \/ CommitStaged(c) \/ DropStaged(c)
  \/ \E u \in Staff, c \in BankChanges : ReviewChange(u, c) \/ RejectChange(u, c)
  \/ \E r \in reviews : ApproveChange(r) \/ DropReview(r)

VendorsSpec == VendorsInit /\ [][VendorsNext]_vendorVars
---------------------------------------------------------------------------
(* The login, the rows and the approvals in progress are of their kinds. *)
VendorsTypeOK == /\ login \in Persons \union {NoLogin}
                 /\ change \in [BankChanges -> ChangeRows \union {NoChange}]
                 /\ bank \subseteq BankChanges
                 /\ reviews \subseteq Reviews

(* A change that somebody of staff approved who did not propose it and did *)
(* not hold the password it came with.                                     *)
ProperlyApproved(row) == /\ row.status = "approved"
                         /\ row.reviewed_by \in Staff \ {row.requested_by, row.password}

(* Dual control: where a vendor is paid changes only by a change somebody   *)
(* approved who did not propose it and did not hold the password it came    *)
(* with, whatever was done to the login or decided about other changes      *)
(* since; and a change that was decided stays decided as it was.  (A merge  *)
(* that another approval lost may come back with a third one, which had     *)
(* read it: what comes back was approved when it was merged.)               *)
DualControl ==
  [][ \A c \in BankChanges :
        /\ c \in bank' \ bank => ProperlyApproved(change'[c])
        /\ change[c].status \in {"approved", "rejected"} => change'[c] = change[c] ]_vendorVars

---------------------------------------------------------------------------
(* The inductive invariant.  The row keeps whose password a submission came *)
(* with; who is reviewing a change may, nobody else is, and it stays open;   *)
(* and what is merged, or was when somebody read it, was approved properly.  *)
ProvisionerIsFrozen ==
  \A c \in BankChanges :
    change[c] # NoChange /\ change[c].requested_by = Nobody =>
      change[c].requester_provisioned_by = change[c].password

RequesterKnewIt ==
  \A c \in BankChanges :
    change[c] # NoChange /\ change[c].requested_by # Nobody =>
      change[c].password = change[c].requested_by

ReviewsAreProper ==
  \A r \in reviews :
    /\ change[r.row].status = "pending"
    /\ r.user \notin {change[r.row].requested_by, change[r.row].password}
    /\ \A q \in reviews : q.row = r.row => q = r

MergedWasApproved ==
  /\ \A c \in bank : ProperlyApproved(change[c])
  /\ \A r \in reviews : \A c \in r.copy : ProperlyApproved(change[c])

VendorsInv == /\ VendorsTypeOK /\ ProvisionerIsFrozen /\ RequesterKnewIt
              /\ ReviewsAreProper /\ MergedWasApproved
=============================================================================
