---------------------------- MODULE ContractTerms ----------------------------
(***************************************************************************)
(* One contract: the people who move and renew it, each from a copy read   *)
(* without a lock, and the renewal sweep of every replica, which lists     *)
(* contracts without a lock, then locks each and checks it again.          *)
(*                                                                         *)
(* A commit writes the columns that differ from the copy, so Merged        *)
(* merges what a request wants into what the row holds by now.             *)
(***************************************************************************)
EXTENDS Naturals

CONSTANTS ContractClerks,  \* requests being served at once
          Renewers,        \* replicas, each with a sweep
          LAST_TERM,       \* bound on end dates and on today
          NOTICE_DAYS      \* Contract.renewal_notice_days

ASSUME ContractTermsAssumption == LAST_TERM \in Nat \ {0} /\ NOTICE_DAYS \in Nat

VARIABLES contract,    \* the row: status, end_date, whether renewal_alert_sent_at is set
          day,         \* utc_today
          dealing,     \* request -> the copy it read and what it wants
          renewing,    \* replica -> what its tick has listed, as of which day
          notices      \* notifications sent since the alert was last armed

contractVars == <<contract, day, dealing, renewing, notices>>

ContractStatus == {"draft", "active", "expired", "terminated", "cancelled"}
ContractRow == [status : ContractStatus, end : 1 .. LAST_TERM, alerted : BOOLEAN]
Deleted == [status |-> "deleted"]
Dealing == [does : {"nothing", "delete"}]
             \union [does : {"write"}, saw : ContractRow, wants : ContractRow]
NoDeal == [does |-> "nothing"]
AtRest == [listed |-> "nothing", on |-> 0]

ContractInit ==
  /\ \E e \in 1 .. LAST_TERM : contract = [status |-> "draft", end |-> e, alerted |-> FALSE]
  /\ day = 0
  /\ dealing = [c \in ContractClerks |-> NoDeal]
  /\ renewing = [s \in Renewers |-> AtRest]
  /\ notices = 0

Exists == contract # Deleted

---------------------------------------------------------------------------
(* Requests. *)

_LIFECYCLE_TRANSITIONS == [activate  |-> {"draft", "expired"},
                           terminate |-> {"active", "expired"},
                           cancel    |-> {"draft", "active"}]
_LIFECYCLE_TARGET == [activate |-> "active", terminate |-> "terminated", cancel |-> "cancelled"]

Reads(c, want) ==
  /\ dealing[c] = NoDeal
  /\ dealing' = [dealing EXCEPT ![c] = [does |-> "write", saw |-> contract, wants |-> want]]
  /\ UNCHANGED <<contract, day, renewing, notices>>

OpenTransition(c, action) ==
  /\ Exists
  /\ contract.status \in _LIFECYCLE_TRANSITIONS[action]
  /\ Reads(c, [contract EXCEPT !.status = _LIFECYCLE_TARGET[action]])

(* A renewal pushes the end date forward, activates, and arms the alert.    *)
OpenRenewal(c, e) ==
  /\ Exists
  /\ contract.status \notin {"terminated", "cancelled"}
  /\ e > contract.end
  /\ Reads(c, [status |-> "active", end |-> e, alerted |-> FALSE])

(* A patch of the end date, in any status. *)
OpenUpdate(c, e) == Exists /\ Reads(c, [contract EXCEPT !.end = e])

OpenDeletion(c) ==
  /\ Exists
  /\ contract.status \in {"draft", "cancelled"}
  /\ dealing[c] = NoDeal
  /\ dealing' = [dealing EXCEPT ![c] = [does |-> "delete"]]
  /\ UNCHANGED <<contract, day, renewing, notices>>

Closed(c) == dealing' = [dealing EXCEPT ![c] = NoDeal]

Merged(saw, wants) ==
  [f \in DOMAIN contract |-> IF wants[f] = saw[f] THEN contract[f] ELSE wants[f]]

(* A row that is gone fails the request. *)
CommitDeal(c) ==
  /\ dealing[c].does = "write"
  /\ Exists
  /\ contract' = Merged(dealing[c].saw, dealing[c].wants)
  /\ notices' = IF dealing[c].saw.alerted /\ ~dealing[c].wants.alerted THEN 0 ELSE notices
  /\ Closed(c)
  /\ UNCHANGED <<day, renewing>>

CommitDeletion(c) ==
  /\ dealing[c].does = "delete"
  /\ Exists
  /\ contract' = Deleted
  /\ Closed(c)
  /\ UNCHANGED <<day, renewing, notices>>

DealFails(c) == /\ dealing[c] # NoDeal
                /\ Closed(c)
                /\ UNCHANGED <<contract, day, renewing, notices>>

---------------------------------------------------------------------------
(* The sweep.  A tick fixes its day, and runs the two passes, which have    *)
(* nothing to do with each other; a leg of a pass is one locked             *)
(* transaction, and its mail goes out after the commit.                     *)

WithinLeadWindow(k, today) == k.end <= today + NOTICE_DAYS

AlertDue(today) == /\ Exists
                   /\ contract.status = "active"
                   /\ ~contract.alerted
                   /\ WithinLeadWindow(contract, today)

Overdue(today) == /\ Exists
                  /\ contract.status = "active"
                  /\ contract.end < today

Lists(s, pass, today) == /\ renewing[s] = AtRest
                         /\ renewing' = [renewing EXCEPT ![s] = [listed |-> pass, on |-> today]]
                         /\ UNCHANGED <<contract, day, dealing, notices>>

ListAlert(s) == AlertDue(day) /\ Lists(s, "alert", day)
ListOverdue(s) == Overdue(day) /\ Lists(s, "overdue", day)

Rests(s) == renewing' = [renewing EXCEPT ![s] = AtRest]

\* Mutation: an alert is not checked again under the lock.
StillUnalertedUnchecked(today) == Exists

StillUnalerted(today) == AlertDue(today)

\* Mutation: an overdue contract is expired as listed.
StillOverdueUnchecked(today) == Exists

StillOverdue(today) == Overdue(today)

(* Notified, stamped and committed; where nobody is reached nothing is.     *)
SendAlert(s) ==
  /\ renewing[s].listed = "alert"
  /\ StillUnalerted(renewing[s].on)
  /\ \/ contract' = [contract EXCEPT !.alerted = TRUE] /\ notices' = notices + 1
     \/ UNCHANGED <<contract, notices>>
  /\ Rests(s)
  /\ UNCHANGED <<day, dealing>>

ExpireContract(s) ==
  /\ renewing[s].listed = "overdue"
  /\ StillOverdue(renewing[s].on)
  /\ contract' = [contract EXCEPT !.status = "expired"]
  /\ Rests(s)
  /\ UNCHANGED <<day, dealing, notices>>

(* What the lock shows is no longer due; or the leg or its process failed.  *)
LegEnds(s) == /\ renewing[s] # AtRest
              /\ Rests(s)
              /\ UNCHANGED <<contract, day, dealing, notices>>

NextDay == /\ day < LAST_TERM
           /\ day' = day + 1
           /\ UNCHANGED <<contract, dealing, renewing, notices>>

ContractsNext ==
  \/ \E c \in ContractClerks :
       \/ \E action \in DOMAIN _LIFECYCLE_TARGET : OpenTransition(c, action)
       \/ \E e \in 1 .. LAST_TERM : OpenRenewal(c, e) \/ OpenUpdate(c, e)
       \/ OpenDeletion(c)
       \/ CommitDeal(c) \/ CommitDeletion(c) \/ DealFails(c)
  \/ \E s \in Renewers : \/ ListAlert(s) \/ ListOverdue(s)
                         \/ SendAlert(s) \/ ExpireContract(s) \/ LegEnds(s)
  \/ NextDay

(* lifespan starts the loop: a replica ticks again and again, and a tick    *)
(* that finds the contract overdue does not fail for ever.                  *)
ContractsFairness ==
  /\ SF_contractVars(\E s \in Renewers : ListOverdue(s))
  /\ SF_contractVars(\E s \in Renewers : ExpireContract(s))
  /\ \A s \in Renewers : WF_contractVars(LegEnds(s))

ContractsSpec == ContractInit /\ [][ContractsNext]_contractVars /\ ContractsFairness
---------------------------------------------------------------------------
(* The row, the copies and the lists are of their kinds. *)
ContractsTypeOK ==
  /\ contract \in ContractRow \union {Deleted}
  /\ day \in 0 .. LAST_TERM
  /\ dealing \in [ContractClerks -> Dealing]
  /\ renewing \in [Renewers -> [listed : {"nothing", "alert", "overdue"}, on : 0 .. LAST_TERM]]
  /\ notices \in 0 .. 1

(* The sweeps of all replicas together warn once about a term, within its   *)
(* lead window, and end none that somebody has just extended: a contract    *)
(* that expires is past the end date it has then ("re-checking the          *)
(* predicate under the lock is what stops a stale snapshot expiring a       *)
(* contract someone just renewed").                                         *)
SweepStep ==
  /\ notices' > notices => notices = 0 /\ WithinLeadWindow(contract, day)
  /\ \A s \in Renewers :
       renewing[s] # AtRest /\ renewing'[s] = AtRest /\ contract'.status # contract.status
         => Overdue(day)

SweepHonorsTheTerm == [][SweepStep]_contractVars

(* The inductive invariant behind SweepHonorsTheTerm.  A tick's day has     *)
(* come, an alert that is armed has not been sent about the term, and no    *)
(* request disarms one that it saw armed.                                   *)
AlertArmed ==
  /\ \A s \in Renewers : renewing[s].on <= day
  /\ Exists /\ ~contract.alerted => notices = 0
  /\ \A c \in ContractClerks :
       dealing[c].does = "write" /\ dealing[c].wants.alerted => dealing[c].saw.alerted

ContractsInv == ContractsTypeOK /\ AlertArmed

(* No contract stays active past its end for ever: again and again the      *)
(* sweep, or somebody, has dealt with it.                                   *)
OverdueEnds == []<>~Overdue(day)
=============================================================================
