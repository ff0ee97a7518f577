---------------------------- MODULE ApprovalChain ----------------------------
(***************************************************************************)
(* One invoice's multi-level approval chain, as the four doors into it use *)
(* it: the web approve and reject endpoints and the e-mail links, which    *)
(* hold the invoice row lock; the bulk status change, which does not; and  *)
(* the escalation sweep, which locks only the workflow instance.           *)
(*                                                                         *)
(* approve_invoice reads the instance unlocked and only later locks it     *)
(* with a query that does not refresh what it already read, so an approval *)
(* is two steps here: OpenApproval keeps the copy it read, CloseApproval   *)
(* writes from that copy.  The chain is the JSON value                     *)
(* state_data["approval_levels"], written whole.                           *)
(*                                                                         *)
(* The rest of the invoice's life is InvoiceWorkflow; here it is           *)
(* MoveElsewhere, and every status an approved invoice goes on to is       *)
(* "approved", since the chain is no longer consulted there.               *)
(***************************************************************************)
EXTENDS InvoiceStatuses, Naturals, FiniteSets

CONSTANTS Users,          \* people who clear the endpoint's role check
          NLevels,        \* applicable levels of the configured chain
          NamedApprovers, \* level -> approver_ids (empty: anyone)
          EscalateTo,     \* level -> escalation_to_user_ids
          ParallelMode,   \* level -> "any" or "all"
          Required,       \* level -> required_approvals
          DelegateOf,     \* user -> active out-of-office delegates
          Sessions,       \* web requests and e-mail links in progress
          Batches         \* bulk status changes in progress

ChainLevels == 1 .. NLevels
Requests == Sessions \union Batches

ASSUME ChainAssumption ==
  /\ NLevels \in Nat \ {0}
  /\ IsFiniteSet(Users)
  /\ NamedApprovers \in [ChainLevels -> SUBSET Users]
  /\ EscalateTo \in [ChainLevels -> SUBSET Users]
  /\ ParallelMode \in [ChainLevels -> {"any", "all"}]
  /\ Required \in [ChainLevels -> Nat \ {0}]
  /\ DelegateOf \in [Users -> SUBSET Users]
  /\ Sessions \intersect Batches = {}

VARIABLES review,      \* Invoice.status, as far as the chain can tell
          chain,       \* WorkflowInstance.state_data["approval_levels"]
          requests,    \* request -> what it has read and intends
          overtaken    \* sessions open when a bulk change last committed

chainVars == <<review, chain, requests, overtaken>>

ReviewStatus == {"new", "pending", "ready_for_review", "approved", "rejected", "failed"}
Chains == [on : BOOLEAN, current : 1 .. NLevels + 1,
           approvers : [ChainLevels -> SUBSET Users],
           approvals : [ChainLevels -> SUBSET Users]]

(* What a request keeps in memory: whether it holds the invoice row lock,   *)
(* whether the status it read lets its verdict through, and the chain read. *)
Idle == [verdict |-> "none"]
Approvals == [verdict : {"approve"}, locked : BOOLEAN, legal : BOOLEAN,
              user : Users, chain : Chains]
BulkRejection == [verdict |-> "reject", locked |-> FALSE]

---------------------------------------------------------------------------
(* Chain state. *)

(* init_chain_state: level 1 is entered, nobody has approved. *)
FreshChain == [on |-> TRUE, current |-> 1, approvers |-> NamedApprovers,
               approvals |-> [l \in ChainLevels |-> {}]]

(* clear_chain_state: the key is gone. *)
NoChain == [FreshChain EXCEPT !.on = FALSE]

(* approve_invoice initialises the chain of an instance that has none. *)
Started(c) == IF c.on THEN c ELSE FreshChain

\* Mutation: an invoice is approved on entering the last level.
FinishedOneEarly(c) == c.current >= NLevels

Finished(c) == c.current > NLevels

(* check_level_approver: named, or the active delegate of someone named. *)
Authorized(c, u) ==
  LET named == c.approvers[c.current]
  IN named = {} \/ u \in named \/ \E a \in named : u \in DelegateOf[a]

\* Mutation: one person may act at several levels.
ActedNowhereElse(c, u) == FALSE

(* The segregation check of advance_approval_chain. *)
ActedElsewhere(c, u) == \E l \in ChainLevels \ {c.current} : u \in c.approvals[l]

Admits(c, u) == ~Finished(c) => Authorized(c, u) /\ ~ActedElsewhere(c, u)

LevelSatisfied(c, l) ==
  IF ParallelMode[l] = "all" THEN c.approvers[l] \subseteq c.approvals[l]
                             ELSE Cardinality(c.approvals[l]) >= Required[l]

(* advance_approval_chain: record the approval, step up when it suffices. *)
Recorded(c, u) == [c EXCEPT !.approvals[c.current] = @ \union {u}]
Advanced(c, u) ==
  IF Finished(c) THEN c
  ELSE [Recorded(c, u) EXCEPT
          !.current = IF LevelSatisfied(Recorded(c, u), c.current) THEN @ + 1 ELSE @]

(* apply_escalation: an "any" level gains the targets, an "all" level keeps *)
(* those who have approved and replaces the others by them.                 *)
NewTargets(c) == EscalateTo[c.current] \ c.approvers[c.current]
Escalatable(c) == /\ c.on
                  /\ ~Finished(c)
                  /\ c.approvers[c.current] # {}
                  /\ NewTargets(c) # {}
\* Mutation: an escalated level starts over.
EscalatedAfresh(c) == [c EXCEPT !.approvers[c.current] = NewTargets(c),
                                !.approvals[c.current] = {}]

\* Mutation: an escalated level keeps all its approvers, whatever its mode.
EscalatedKeepingAll(c) == [c EXCEPT !.approvers[c.current] = @ \union NewTargets(c)]

Escalated(c) ==
  LET l == c.current
      kept == IF ParallelMode[l] = "all" THEN c.approvers[l] \intersect c.approvals[l]
                                         ELSE c.approvers[l]
  IN [c EXCEPT !.approvers[l] = kept \union NewTargets(c)]

---------------------------------------------------------------------------
(* The invoice row lock: web and e-mail requests hold it from their first   *)
(* read (get_invoice_for_update) to the end of the request.                 *)
HoldsInvoice(r) == requests[r] # Idle /\ requests[r].locked
InvoiceUnlocked == \A r \in Requests : ~HoldsInvoice(r)

ChainInit == /\ review = "ready_for_review"
             /\ chain = NoChain
             /\ requests = [r \in Requests |-> Idle]
             /\ overtaken = {}

Opens(r, q) == /\ requests[r] = Idle
               /\ requests' = [requests EXCEPT ![r] = q]
               /\ UNCHANGED <<review, chain, overtaken>>
Open(r) == requests[r] # Idle
Closes(r) ==
  /\ requests' = [requests EXCEPT ![r] = Idle]
  /\ overtaken' = IF r \in Batches THEN {s \in Sessions : Open(s)} ELSE overtaken \ {r}

ApprovalBy(u, lock) == [verdict |-> "approve", locked |-> lock, user |-> u,
                        legal |-> Legal(review, "approved"), chain |-> chain]

(* The web endpoint locks the invoice and reads the instance. *)
OpenWebApproval(r, u) == /\ InvoiceUnlocked
                         /\ Opens(r, ApprovalBy(u, TRUE))

(* The e-mail link does the same, for an invoice awaiting review only. *)
OpenEmailApproval(r, u) == /\ InvoiceUnlocked
                           /\ review = "ready_for_review"
                           /\ Opens(r, ApprovalBy(u, TRUE))

(* The bulk change reads both unlocked. *)
OpenBulkApproval(r, u) == Opens(r, ApprovalBy(u, FALSE))

(* A bulk rejection the status read does not allow is skipped. *)
OpenBulkRejection(r) == /\ Legal(review, "rejected")
                        /\ Opens(r, BulkRejection)

(* approve_invoice under the instance lock, up to the status change. *)
Approving(r) == requests[r].verdict = "approve"
Base(r) == Started(requests[r].chain)
Outcome(r) == Advanced(Base(r), requests[r].user)
Admitted(r) == Admits(Base(r), requests[r].user)

(* The level needs more approvals: this one is recorded, the status is      *)
(* neither checked nor changed, and the invoice row is not written.         *)
RecordApproval(r) ==
  /\ Approving(r)
  /\ Admitted(r)
  /\ ~Finished(Outcome(r))
  /\ chain' = Outcome(r)
  /\ Closes(r)
  /\ UNCHANGED review

(* The last level is satisfied and approved is legal from the status read.  *)
(* Writing the invoice row waits for its lock.                              *)
FinalApproval(r) ==
  /\ Approving(r)
  /\ HoldsInvoice(r) \/ InvoiceUnlocked
  /\ Admitted(r)
  /\ Finished(Outcome(r))
  /\ requests[r].legal
  /\ chain' = Outcome(r)
  /\ review' = "approved"
  /\ Closes(r)

(* Refused: 403 for a user the level does not admit, 409 for a status that  *)
(* cannot become approved.  A single request rolls back; the bulk change    *)
(* skips the invoice and still commits what the refused call had written on *)
(* the instance: the chain it started, or the approval it recorded.         *)
RefuseApproval(r) ==
  /\ Approving(r)
  /\ Admitted(r) => Finished(Outcome(r)) /\ ~requests[r].legal
  /\ LET left == IF Admitted(r) THEN Outcome(r) ELSE Base(r)
     IN chain' = IF requests[r].locked \/ left = requests[r].chain THEN chain ELSE left
  /\ Closes(r)
  /\ UNCHANGED review

(* reject_invoice clears the chain, so the reworked invoice starts over.    *)
Reject == /\ InvoiceUnlocked
          /\ Legal(review, "rejected")
          /\ review' = "rejected"
          /\ chain' = NoChain
          /\ UNCHANGED <<requests, overtaken>>

BulkReject(r) == /\ requests[r] = BulkRejection
                 /\ InvoiceUnlocked
                 /\ review' = "rejected"
                 /\ chain' = NoChain
                 /\ Closes(r)

(* resubmit_invoice moves the status; the chain is left as it is. *)
Resubmit == /\ InvoiceUnlocked
            /\ Legal(review, "ready_for_review")
            /\ review' = "ready_for_review"
            /\ UNCHANGED <<chain, requests, overtaken>>

(* The escalation sweep locks the instance row, reads it afresh and commits. *)
Escalate == /\ Escalatable(chain)
            /\ chain' = Escalated(chain)
            /\ UNCHANGED <<review, requests, overtaken>>

(* Any other part of the workflow moves the invoice: extraction, the        *)
(* system's own approvals, the rework loop.                                 *)
MoveElsewhere == /\ InvoiceUnlocked
                 /\ review # "ready_for_review"
                 /\ review' \in VALID_TRANSITIONS[review] \intersect ReviewStatus
                 /\ UNCHANGED <<chain, requests, overtaken>>

ChainNext ==
  \/ \E u \in Users : \/ \E r \in Sessions : OpenWebApproval(r, u) \/ OpenEmailApproval(r, u)
                      \/ \E r \in Batches : OpenBulkApproval(r, u)
  \/ \E r \in Requests : RecordApproval(r) \/ FinalApproval(r) \/ RefuseApproval(r)
  \/ \E r \in Batches : OpenBulkRejection(r) \/ BulkReject(r)
  \/ Reject
  \/ Resubmit
  \/ Escalate
  \/ MoveElsewhere

ChainSpec == ChainInit /\ [][ChainNext]_chainVars
---------------------------------------------------------------------------
(* Properties. *)

(* The status, the chain and what every request remembers of them are of  *)
(* the kind the columns and the handlers' variables hold.                 *)
ChainTypeOK == /\ review \in ReviewStatus
               /\ chain \in Chains
               /\ requests \in [Requests -> Approvals \union {Idle, BulkRejection}]
               /\ overtaken \subseteq Sessions

(* The shape every chain that is ever stored or held in memory has: the     *)
(* levels passed are satisfied, nobody has approved a level ahead, and      *)
(* nobody has approved two levels.                                          *)
Sound(c) ==
  /\ \A l \in ChainLevels : l < c.current => LevelSatisfied(c, l)
  /\ \A l \in ChainLevels : l > c.current => c.approvals[l] = {}
  /\ \A k, l \in ChainLevels : k # l => c.approvals[k] \intersect c.approvals[l] = {}

(* Distinct people sign distinct levels, whatever mixture of doors they     *)
(* came through and whatever copy each of them worked from: the step by     *)
(* which a person's approval makes the invoice approved leaves a stored     *)
(* chain with every level satisfied.                                        *)
ApprovedByEveryLevel ==
  [][ \A r \in Requests : Open(r) /\ requests'[r] = Idle
        /\ review # "approved" /\ review' = "approved"
          => \A l \in ChainLevels : LevelSatisfied(chain', l) ]_chainVars

Keeps(old, new) ==
  old.on => new.on /\ \A l \in ChainLevels : old.approvals[l] \subseteq new.approvals[l]

(* An approval once recorded is dropped only by a rejection, by a bulk      *)
(* change, which reads without a lock, or by a session that a bulk change   *)
(* overtook: the invoice lock keeps the web and the e-mail approvals of one *)
(* chain from losing each other, and no escalation loses an approval.       *)
ApprovalsKept ==
  [][ \/ Keeps(chain, chain')
      \/ review' = "rejected"
      \/ \E r \in Batches \union overtaken : Open(r) /\ requests'[r] = Idle ]_chainVars

(* An unfinished chain is never beyond help: somebody's approval moves it,  *)
(* at once or after the escalation that the sweep may still give it, also   *)
(* when everybody the level names has acted at another level already.       *)
Moves(c, u) == Admits(c, u) /\ Advanced(c, u) # c
SomeoneCanAct ==
  ~Finished(chain) =>
     \E u \in Users : \/ Moves(chain, u)
                      \/ Escalatable(chain) /\ Moves(Escalated(chain), u)

(* The stored chain is one that people following the rules could have       *)
(* produced, and one that they can finish.                                  *)
ChainSound == Sound(chain) /\ SomeoneCanAct

---------------------------------------------------------------------------
(* The inductive invariant.  Every copy of the chain is sound; the invoice  *)
(* lock admits one session; and unless a bulk change has overtaken it, what *)
(* a session read still has every approval of the stored chain.             *)
CopiesSound == \A r \in Requests : requests[r] \in Approvals => Sound(requests[r].chain)

OneSession == \A r, s \in Sessions : Open(r) /\ Open(s) => r = s

SessionIsCurrent ==
  \A s \in Sessions : Open(s) =>
    /\ requests[s] \in Approvals /\ requests[s].locked
    /\ s \notin overtaken => /\ requests[s].chain.on = chain.on
                            /\ requests[s].chain.approvals = chain.approvals

ChainInv == ChainTypeOK /\ Sound(chain) /\ CopiesSound /\ OneSession /\ SessionIsCurrent

(* What else every copy of the chain is: only the level that people act on  *)
(* is escalated, to the level's targets; those who approved a level were    *)
(* entitled to; and a level of the kind "any" is not left satisfied.        *)
MaySign(l) ==
  LET people == NamedApprovers[l] \union EscalateTo[l]
  IN IF NamedApprovers[l] = {} THEN Users
                               ELSE people \union UNION {DelegateOf[a] : a \in people}

ApproversAreTheLevels(c) ==
  \A l \in ChainLevels :
    /\ c.approvers[l] \subseteq NamedApprovers[l] \union EscalateTo[l]
    /\ c.approvers[l] = {} <=> NamedApprovers[l] = {}
    /\ ParallelMode[l] = "any" => NamedApprovers[l] \subseteq c.approvers[l]
    /\ l > c.current => c.approvers[l] = NamedApprovers[l]

LevelIsOpen(c) ==
  ~Finished(c) =>
    LET l == c.current
    IN IF ParallelMode[l] = "any" THEN Cardinality(c.approvals[l]) < Required[l]
       ELSE \/ c.approvers[l] = NamedApprovers[l]
            \/ c.approvers[l] \ c.approvals[l] \subseteq EscalateTo[l]

Workable(c) == /\ ApproversAreTheLevels(c)
               /\ \A l \in ChainLevels : c.approvals[l] \subseteq MaySign(l)
               /\ LevelIsOpen(c)
               /\ ~c.on => c = NoChain

CopiesWorkable == /\ Workable(chain)
                  /\ \A r \in Requests : requests[r] \in Approvals => Workable(requests[r].chain)

(* A configuration that leaves every level somebody to act on it whoever    *)
(* signed the levels before: enough people for an "any" level who may sign  *)
(* no earlier one; for an "all" level everybody it names, or somebody it is *)
(* escalated to.                                                            *)
Fresh(l) == {u \in Users : \A k \in ChainLevels : k < l => u \notin MaySign(k)}
ChainStaffed ==
  \A l \in ChainLevels :
    IF ParallelMode[l] = "any" THEN Cardinality(MaySign(l) \intersect Fresh(l)) >= Required[l]
    ELSE IF NamedApprovers[l] = {} THEN Fresh(l) # {}
    ELSE /\ EscalateTo[l] \subseteq Fresh(l)
         /\ NamedApprovers[l] \subseteq Fresh(l) \/ ~(EscalateTo[l] \subseteq NamedApprovers[l])
=============================================================================
