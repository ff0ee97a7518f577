--------------------------- MODULE ExceptionQueue ---------------------------
(***************************************************************************)
(* One exception that an agent knows how to resolve, the invoice it is     *)
(* about, the agents' runs and the people who work the queue.  A run locks *)
(* the exception and evaluates; applying locks the invoice as well, inside *)
(* a savepoint, and everything it wrote commits with its decision.         *)
(* People read the exception without a lock.                               *)
(*                                                                         *)
(* get_invoice_for_update returns the copy the session already has, so the *)
(* lock is the invoice's of now and the check the one of then.             *)
(***************************************************************************)
EXTENDS Integers

CONSTANTS Runs,       \* POST /agent-resolve requests
          Triagers,   \* requests to resolve, escalate or dismiss
          MAX_RUNS    \* decisions recorded: bounds the model

ASSUME ExceptionAssumption == MAX_RUNS \in Nat

VARIABLES exc,              \* the exception's status
          bill,             \* its invoice: [status, amount]
          agent_decisions,  \* its rows: action -> how many
          agentRun,         \* run -> how far it got, the invoice it read and its own copy
          triager           \* request -> the status it read and the one it writes

exceptionVars == <<exc, bill, agent_decisions, agentRun, triager>>

ACTIONABLE_STATUSES == {"open", "escalated"}
Resolutions == {"resolved", "escalated", "dismissed"}
Bill == [status : {"ready_for_review", "approved", "rejected"}, amount : {"billed", "ordered"}]
RunState == [pc : {"idle", "asked"}] \union [pc : {"holding", "applied"}, saw : Bill, mine : Bill]
TriagerState == [pc : {"idle"}]
           \union [pc : {"read"}, saw : ACTIONABLE_STATUSES, to : Resolutions]

NotRunning == [pc |-> "idle"]

QueueInit == /\ exc = "open"
             /\ bill = [status |-> "ready_for_review", amount |-> "billed"]
             /\ agent_decisions = [auto_resolved |-> 0, escalated |-> 0]
             /\ agentRun = [a \in Runs |-> NotRunning]
             /\ triager = [c \in Triagers |-> NotRunning]

---------------------------------------------------------------------------
(* The invoice's own life, each request under the invoice's lock: a review, *)
(* a resubmission, a correction of the amount.                              *)
InvoiceFree == \A a \in Runs : agentRun[a].pc # "applied"

Review == /\ InvoiceFree
          /\ bill.status = "ready_for_review"
          /\ \E s \in {"approved", "rejected"} : bill' = [bill EXCEPT !.status = s]
          /\ UNCHANGED <<exc, agent_decisions, agentRun, triager>>

Correct == /\ InvoiceFree
           /\ bill.status # "approved"
           /\ \E x \in {"billed", "ordered"} : bill' = [bill EXCEPT !.amount = x]
           /\ UNCHANGED <<exc, agent_decisions, agentRun, triager>>

SendBack == /\ InvoiceFree
            /\ bill.status = "rejected"
            /\ bill' = [bill EXCEPT !.status = "ready_for_review"]
            /\ UNCHANGED <<exc, agent_decisions, agentRun, triager>>

---------------------------------------------------------------------------
(* The queue's people. *)

Holds(a) == agentRun[a].pc \in {"holding", "applied"}
ExceptionFree == \A a \in Runs : ~Holds(a)

ReadQueue(c) == /\ triager[c] = NotRunning
                /\ exc \in ACTIONABLE_STATUSES
                /\ \E s \in Resolutions :
                     triager' = [triager EXCEPT ![c] = [pc |-> "read", saw |-> exc, to |-> s]]
                /\ UNCHANGED <<exc, bill, agent_decisions, agentRun>>

(* A status that does not change in the request's copy is not written. *)
RecordDecision(c) ==
  /\ triager[c].pc = "read"
  /\ ExceptionFree
  /\ exc' = IF triager[c].to = triager[c].saw THEN exc ELSE triager[c].to
  /\ triager' = [triager EXCEPT ![c] = NotRunning]
  /\ UNCHANGED <<bill, agent_decisions, agentRun>>

---------------------------------------------------------------------------
(* The agents. *)

Turns(a, state) == agentRun' = [agentRun EXCEPT ![a] = state]
Decided == agent_decisions.auto_resolved + agent_decisions.escalated
Records(action) == agent_decisions' = [agent_decisions EXCEPT ![action] = @ + 1]

AgentResolve(a) == /\ agentRun[a] = NotRunning
                   /\ exc \in ACTIONABLE_STATUSES
                   /\ Decided < MAX_RUNS
                   /\ Turns(a, [pc |-> "asked"])
                   /\ UNCHANGED <<exc, bill, agent_decisions, triager>>

\* Mutation: the lock without populate_existing, which checks the status again
\* in the copy that the route has read.
LockExceptionUnread(a) == /\ agentRun[a].pc = "asked"
                          /\ ExceptionFree
                          /\ Turns(a, [pc |-> "holding", saw |-> bill, mine |-> bill])
                          /\ UNCHANGED <<exc, bill, agent_decisions, triager>>

LockException(a) == /\ agentRun[a].pc = "asked"
                    /\ ExceptionFree
                    /\ Turns(a, IF exc \in ACTIONABLE_STATUSES
                                THEN [pc |-> "holding", saw |-> bill, mine |-> bill]
                                ELSE NotRunning)
                    /\ UNCHANGED <<exc, bill, agent_decisions, triager>>

(* Another type of variance, or not confident enough. *)
EscalateRun(a) == /\ agentRun[a].pc = "holding"
                  /\ exc' = "escalated"
                  /\ Records("escalated")
                  /\ Turns(a, NotRunning)
                  /\ UNCHANGED <<bill, triager>>

(* Inside the savepoint, the amount the run saw becomes the order's before  *)
(* the limits are asked.                                                    *)
ApplyCorrection(a) ==
  /\ agentRun[a].pc = "holding"
  /\ agentRun[a].saw = [status |-> "ready_for_review", amount |-> "billed"]
  /\ Turns(a, [pc |-> "applied", saw |-> agentRun[a].saw,
               mine |-> [agentRun[a].mine EXCEPT !.amount = "ordered"]])
  /\ UNCHANGED <<exc, bill, agent_decisions, triager>>

(* A commit writes what differs from what was read. *)
Written(copy, saw) == [f \in DOMAIN bill |-> IF copy[f] = saw[f] THEN bill[f] ELSE copy[f]]

(* Approved from the status the run saw, unless its chain asks for more. *)
ResolveRun(a) ==
  /\ agentRun[a].pc = "applied"
  /\ \E s \in {"approved", agentRun[a].saw.status} :
       bill' = Written([agentRun[a].mine EXCEPT !.status = s], agentRun[a].saw)
  /\ exc' = "resolved"
  /\ Records("auto_resolved")
  /\ Turns(a, NotRunning)
  /\ UNCHANGED triager

\* Mutation: the apply has no savepoint to go back to.
RefusedKeeping(a) == agentRun[a].mine

Refused(a) == agentRun[a].saw

RefuseRun(a) == /\ agentRun[a].pc = "applied"
                /\ bill' = Written(Refused(a), agentRun[a].saw)
                /\ exc' = "escalated"
                /\ Records("escalated")
                /\ Turns(a, NotRunning)
                /\ UNCHANGED triager

RunFails(a) == /\ agentRun[a] # NotRunning
               /\ Turns(a, NotRunning)
               /\ UNCHANGED <<exc, bill, agent_decisions, triager>>

QueueNext == \/ Review \/ Correct \/ SendBack
             \/ \E c \in Triagers : ReadQueue(c) \/ RecordDecision(c)
             \/ \E a \in Runs : \/ AgentResolve(a) \/ LockException(a) \/ EscalateRun(a)
                                \/ ApplyCorrection(a) \/ ResolveRun(a) \/ RefuseRun(a)
                                \/ RunFails(a)

QueueSpec == QueueInit /\ [][QueueNext]_exceptionVars
---------------------------------------------------------------------------
(* The rows, the counts and the requests are of their kinds. *)
QueueTypeOK == /\ exc \in ACTIONABLE_STATUSES \union Resolutions
               /\ bill \in Bill
               /\ agent_decisions \in [auto_resolved : Nat, escalated : Nat]
               /\ agentRun \in [Runs -> RunState]
               /\ triager \in [Triagers -> TriagerState]

(* An agent acts as a whole and on an exception that is still waiting:      *)
(* whatever moves while a run evaluates, it touches the invoice only in the *)
(* step that also resolves the exception and records the decision, and a    *)
(* decision is never recorded about an exception somebody has closed.       *)
(* "Two callers could both pass it, both evaluate, and both write."         *)
AgentStep ==
  \A a \in Runs : Holds(a) /\ agentRun'[a] = NotRunning
    /\ <<exc, bill, agent_decisions>>' # <<exc, bill, agent_decisions>> =>
      /\ exc \in ACTIONABLE_STATUSES
      /\ agent_decisions'.auto_resolved + agent_decisions'.escalated = Decided + 1
      /\ bill' # bill =>
           /\ exc' = "resolved" /\ bill'.amount = "ordered"
           /\ agent_decisions'.auto_resolved > agent_decisions.auto_resolved

AgentActsWhole == [][AgentStep]_exceptionVars

(* The inductive invariant behind AgentActsWhole.  One run at a time holds  *)
(* the exception, nobody closes it meanwhile, and a run that has applied    *)
(* its correction wrote it over the amount it read.                         *)
HoldsAlone ==
  \A a \in Runs : Holds(a) =>
    /\ exc \in ACTIONABLE_STATUSES
    /\ \A b \in Runs : Holds(b) => b = a
    /\ agentRun[a].mine = IF agentRun[a].pc = "applied"
                          THEN [agentRun[a].saw EXCEPT !.amount = "ordered"] ELSE agentRun[a].saw
    /\ agentRun[a].pc = "applied" =>
         agentRun[a].saw = [status |-> "ready_for_review", amount |-> "billed"]

QueueInv == QueueTypeOK /\ HoldsAlone
=============================================================================
