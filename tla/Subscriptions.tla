---------------------------- MODULE Subscriptions ----------------------------
(***************************************************************************)
(* The live subscription of one organization and who writes its row: plan  *)
(* changes, which look at the row, let provisioning commit, and only then  *)
(* lock it; the provider's webhook, which reads it without a lock; and the *)
(* dunning sweep, which lists ids first and locks each row afterwards.     *)
(***************************************************************************)
EXTENDS Naturals

CONSTANTS Plans,
          Changers,    \* plan-change requests in progress
          Hooks,       \* billing webhooks in progress
          Collectors   \* replicas running the dunning sweep

VARIABLES sub,         \* Subscription: plan, status; overdue says whether its
                       \* period ended longer ago than the grace, or never began
          changers,    \* request -> what its session holds
          hooks,       \* request -> the status it is about to write
          dunning      \* replicas that have the subscription on their list

billingVars == <<sub, changers, hooks, dunning>>

SubscriptionStatus == {"trialing", "active", "past_due", "canceled"}

Unchanging == [pc |-> "none"]
ChangeState == {Unchanging} \union [pc : {"peeked", "locked"}, target : Plans, base : Plans]

BillingInit == /\ sub \in [plan : Plans, status : {"trialing", "active"}, overdue : BOOLEAN]
               /\ changers = [c \in Changers |-> Unchanging]
               /\ hooks = [h \in Hooks |-> "none"]
               /\ dunning = {}

Live == sub.status # "canceled"
RowLocked == \E c \in Changers : changers[c].pc = "locked"

---------------------------------------------------------------------------
(* change_plan *)

(* The pre-flight: a live subscription on another plan.  What it loads stays *)
(* in the session; provisioning then talks to the provider and commits.     *)
PeekAtPlan(c, target) ==
  /\ changers[c] = Unchanging
  /\ Live
  /\ target # sub.plan
  /\ changers' = [changers EXCEPT ![c] = [pc |-> "peeked", target |-> target, base |-> sub.plan]]
  /\ UNCHANGED <<sub, hooks, dunning>>

\* Mutation: the locked read hands the loaded instance back as it was.
KeptInstance(c) == changers[c].base

(* populate_existing: the locked read overwrites what the session held. *)
LockedPlan(c) == sub.plan

LockSubscription(c) ==
  /\ changers[c].pc = "peeked"
  /\ ~RowLocked
  /\ Live
  /\ changers[c].target # LockedPlan(c)
  /\ changers' = [changers EXCEPT ![c] = [pc |-> "locked", target |-> @.target,
                                          base |-> LockedPlan(c)]]
  /\ UNCHANGED <<sub, hooks, dunning>>

(* One commit: the plan, the window of the period now is in, and the audit  *)
(* row of a proration from the plan the session holds.                      *)
Repoint(c) == /\ changers[c].pc = "locked"
              /\ sub' = [sub EXCEPT !.plan = changers[c].target, !.overdue = FALSE]
              /\ changers' = [changers EXCEPT ![c] = Unchanging]
              /\ UNCHANGED <<hooks, dunning>>

(* Refused under the lock, already on the plan, or failed and rolled back. *)
DropChange(c) == /\ changers[c] # Unchanging
                 /\ changers' = [changers EXCEPT ![c] = Unchanging]
                 /\ UNCHANGED <<sub, hooks, dunning>>

---------------------------------------------------------------------------
(* apply_billing_event: any status, in any order the provider sends them. *)

ReadForEvent(h, status) == /\ hooks[h] = "none"
                           /\ status # sub.status
                           /\ hooks' = [hooks EXCEPT ![h] = status]
                           /\ UNCHANGED <<sub, changers, dunning>>

ApplyEvent(h) == /\ hooks[h] # "none"
                 /\ ~RowLocked
                 /\ sub' = [sub EXCEPT !.status = hooks[h]]
                 /\ hooks' = [hooks EXCEPT ![h] = "none"]
                 /\ UNCHANGED <<changers, dunning>>

DropEvent(h) == /\ hooks[h] # "none"
                /\ hooks' = [hooks EXCEPT ![h] = "none"]
                /\ UNCHANGED <<sub, changers, dunning>>

---------------------------------------------------------------------------
(* run_dunning_once *)

ListPastDue(d) == /\ d \notin dunning
                  /\ sub.status = "past_due"
                  /\ dunning' = dunning \union {d}
                  /\ UNCHANGED <<sub, changers, hooks>>

\* Mutation: what was on the list is canceled.
OnTheList == TRUE

(* Re-read under the lock: still unpaid, and for longer than the grace. *)
StillUnpaid == sub.status = "past_due" /\ sub.overdue

CancelUnpaid(d) == /\ d \in dunning
                   /\ ~RowLocked
                   /\ StillUnpaid
                   /\ sub' = [sub EXCEPT !.status = "canceled"]
                   /\ dunning' = dunning \ {d}
                   /\ UNCHANGED <<changers, hooks>>

(* Spared, or its audit row cannot be written and the leg rolls back. *)
LeaveUncanceled(d) == /\ d \in dunning
                      /\ ~RowLocked
                      /\ dunning' = dunning \ {d}
                      /\ UNCHANGED <<sub, changers, hooks>>

(* Time: the grace after the end of the period runs out. *)
GraceEnds == /\ ~sub.overdue
             /\ sub' = [sub EXCEPT !.overdue = TRUE]
             /\ UNCHANGED <<changers, hooks, dunning>>

BillingNext ==
  \/ \E c \in Changers : \/ \E target \in Plans : PeekAtPlan(c, target)
                         \/ LockSubscription(c) \/ Repoint(c) \/ DropChange(c)
  \/ \E h \in Hooks : \/ \E status \in SubscriptionStatus : ReadForEvent(h, status)
                      \/ ApplyEvent(h) \/ DropEvent(h)
  \/ \E d \in Collectors : ListPastDue(d) \/ CancelUnpaid(d) \/ LeaveUncanceled(d)
  \/ GraceEnds

BillingSpec == BillingInit /\ [][BillingNext]_billingVars
---------------------------------------------------------------------------
(* The row, the sessions of the requests and the lists are of their kinds. *)
BillingTypeOK == /\ sub \in [plan : Plans, status : SubscriptionStatus, overdue : BOOLEAN]
                 /\ changers \in [Changers -> ChangeState]
                 /\ hooks \in [Hooks -> SubscriptionStatus \union {"none"}]
                 /\ dunning \subseteq Collectors

(* The prorations of racing plan changes form a chain: whoever repoints the *)
(* subscription charged the move from the plan it really leaves, and moves  *)
(* it to another one.  Provisioning commits in between, so the plan that    *)
(* was read first need not be the one that is left.  And a payment, a plan  *)
(* change or another replica between the dunning sweep's list and its lock  *)
(* wins: it cancels only what is unpaid past its grace now.                 *)
BillingActsOnTheRow ==
  [][ /\ \A c \in Changers :
           changers[c].pc = "locked" /\ sub'.plan # sub.plan /\ changers'[c] # changers[c] =>
             /\ changers[c].base = sub.plan
             /\ changers[c].target = sub'.plan
      /\ dunning' # dunning /\ sub' # sub =>
           /\ sub.status = "past_due" /\ sub.overdue
           /\ sub' = [sub EXCEPT !.status = "canceled"] ]_billingVars

---------------------------------------------------------------------------
(* The inductive invariant: the row is locked by one plan change at most,   *)
(* and who has locked it holds the plan that is in it.                      *)
LockedIsCurrent ==
  \A c \in Changers : changers[c].pc = "locked" =>
    /\ changers[c].base = sub.plan
    /\ changers[c].target # sub.plan
    /\ \A d \in Changers : changers[d].pc = "locked" => d = c

BillingInv == BillingTypeOK /\ LockedIsCurrent
=============================================================================
