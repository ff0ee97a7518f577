----------------------------- MODULE Purchasing -----------------------------
(***************************************************************************)
(* From an intake request to a requisition to a purchase order.  The two   *)
(* conversions lock the row they convert.  Every other request of the two  *)
(* routers reads its row without a lock and writes later, over whatever    *)
(* has been committed in between; the columns it does not set it leaves    *)
(* as they are.                                                            *)
(***************************************************************************)
EXTENDS Naturals

CONSTANTS Asks,    \* rows of intake_requests
          Reqs,    \* rows of purchase_requisitions
          Buyers,  \* users who ask, approve and convert
          Desks    \* requests being served at once

VARIABLES ask,     \* row -> IntakeRequest
          req,     \* row -> PurchaseRequisition
          orders,  \* row -> how many PurchaseOrder rows were made from it
          desk     \* desk -> the request it serves

purchasingVars == <<ask, req, orders, desk>>

(* VALID_TRANSITIONS of the two services.  No handler makes a requisition   *)
(* `submitted', so that status of the enumeration is left out.              *)
AskMoves == [ open      |-> {"in_review", "cancelled"},
              in_review |-> {"approved", "rejected", "cancelled"},
              approved  |-> {"converted", "cancelled"},
              rejected  |-> {"open"},
              converted |-> {},
              cancelled |-> {} ]
ReqMoves == [ draft            |-> {"pending_approval", "cancelled"},
              pending_approval |-> {"approved", "rejected", "cancelled"},
              approved         |-> {"converted", "cancelled"},
              rejected         |-> {"draft"},
              converted        |-> {},
              cancelled        |-> {} ]

NoReq == "none"
NoName == "null"

(* The two tables have rows of their own, somebody uses them, and null is   *)
(* nobody's name.                                                           *)
ASSUME PurchasingAssumption == /\ Asks \intersect Reqs = {}
                               /\ Buyers # {}
                               /\ NoReq \notin Reqs /\ NoName \notin Buyers

Gone == "deleted"
AskRow == [status : DOMAIN AskMoves \union {Gone}, requester : Buyers,
           converted_requisition_id : Reqs \union {NoReq}]
ReqRow == [status : DOMAIN ReqMoves \union {"absent", Gone}, requester : Buyers,
           approved_by : Buyers \union {NoName}]
Blank == [status |-> "absent", requester |-> CHOOSE u \in Buyers : TRUE,
          approved_by |-> NoName]

FreeDesk == [pc |-> "idle"]
DeskState == {FreeDesk}
  \union [pc : {"move"}, row : Asks \union Reqs, user : Buyers \union {NoName},
          status : DOMAIN AskMoves \union DOMAIN ReqMoves]
  \union [pc : {"delete", "convert"}, row : Asks \union Reqs]

PurchasingInit ==
  /\ ask \in [Asks -> {a \in AskRow : a.status = "open" /\ a.converted_requisition_id = NoReq}]
  /\ req = [r \in Reqs |-> Blank]
  /\ orders = [r \in Reqs |-> 0]
  /\ desk = [d \in Desks |-> FreeDesk]

---------------------------------------------------------------------------
Serves(d, state) == desk[d] = FreeDesk /\ desk' = [desk EXCEPT ![d] = state]
Leaves(d) == desk' = [desk EXCEPT ![d] = FreeDesk]

(* The row lock of a conversion: other writers of the row wait for it. *)
RowFree(x) == \A d \in Desks : desk[d].pc = "convert" => desk[d].row # x

AskExists(a) == ask[a].status # Gone
ReqExists(r) == req[r].status \notin {"absent", Gone}
Draft(u) == [status |-> "draft", requester |-> u, approved_by |-> NoName]

(* POST /api/requisitions: a requisition nobody asked for by an intake. *)
CreateRequisition(r, u) == /\ req[r].status = "absent"
                           /\ req' = [req EXCEPT ![r] = Draft(u)]
                           /\ UNCHANGED <<ask, orders, desk>>

---------------------------------------------------------------------------
(* Submit, approve, reject, cancel, reopen.  Only approving a requisition   *)
(* asks who the user is.                                                    *)
OpenAskMove(d, a, s) == /\ AskExists(a)
                        /\ s \in AskMoves[ask[a].status] \ {"converted"}
                        /\ Serves(d, [pc |-> "move", row |-> a, status |-> s, user |-> NoName])
                        /\ UNCHANGED <<ask, req, orders>>

OpenReqMove(d, r, s, u) == /\ ReqExists(r)
                           /\ s \in ReqMoves[req[r].status] \ {"converted"}
                           /\ IF s = "approved" THEN u \in Buyers \ {req[r].requester} ELSE u = NoName
                           /\ Serves(d, [pc |-> "move", row |-> r, status |-> s, user |-> u])
                           /\ UNCHANGED <<ask, req, orders>>

(* A row that is gone by now fails the request. *)
CommitAskMove(d) ==
  /\ desk[d].pc = "move" /\ desk[d].row \in Asks
  /\ LET a == desk[d].row
     IN /\ RowFree(a)
        /\ ask' = IF AskExists(a) THEN [ask EXCEPT ![a].status = desk[d].status] ELSE ask
  /\ Leaves(d)
  /\ UNCHANGED <<req, orders>>

CommitReqMove(d) ==
  /\ desk[d].pc = "move" /\ desk[d].row \in Reqs
  /\ LET r == desk[d].row
         by == IF desk[d].status = "approved" THEN desk[d].user ELSE req[r].approved_by
     IN /\ RowFree(r)
        /\ req' = IF ReqExists(r)
                  THEN [req EXCEPT ![r].status = desk[d].status, ![r].approved_by = by]
                  ELSE req
  /\ Leaves(d)
  /\ UNCHANGED <<ask, orders>>

---------------------------------------------------------------------------
(* Deleting. *)
LinkedAsks(r) == {a \in Asks : AskExists(a) /\ ask[a].converted_requisition_id = r}

OpenDeleteAsk(d, a) == /\ ask[a].status \notin {"converted", Gone}
                       /\ ask[a].converted_requisition_id = NoReq
                       /\ Serves(d, [pc |-> "delete", row |-> a])
                       /\ UNCHANGED <<ask, req, orders>>

OpenDeleteReq(d, r) == /\ ReqExists(r)
                       /\ req[r].status # "converted" /\ orders[r] = 0
                       /\ LinkedAsks(r) = {}
                       /\ Serves(d, [pc |-> "delete", row |-> r])
                       /\ UNCHANGED <<ask, req, orders>>

CommitDeleteAsk(d) ==
  /\ desk[d].pc = "delete" /\ desk[d].row \in Asks
  /\ RowFree(desk[d].row)
  /\ ask' = [ask EXCEPT ![desk[d].row].status = Gone]
  /\ Leaves(d)
  /\ UNCHANGED <<req, orders>>

(* The intake's foreign key refuses to lose its requisition. *)
CommitDeleteReq(d) ==
  /\ desk[d].pc = "delete" /\ desk[d].row \in Reqs
  /\ LET r == desk[d].row
     IN /\ RowFree(r)
        /\ req' = IF LinkedAsks(r) = {} THEN [req EXCEPT ![r].status = Gone] ELSE req
  /\ Leaves(d)
  /\ UNCHANGED <<ask, orders>>

---------------------------------------------------------------------------
(* The conversions. *)

(* Not converted yet, or the requisition it became is gone.  What is        *)
(* converted already is answered with the requisition it became.            *)
Convertible(a) == /\ ask[a].status \in {"approved", "converted"}
                  /\ ask[a].converted_requisition_id # NoReq =>
                       ~ReqExists(ask[a].converted_requisition_id)

LockAsk(d, a) == /\ RowFree(a)
                 /\ Convertible(a)
                 /\ Serves(d, [pc |-> "convert", row |-> a])
                 /\ UNCHANGED <<ask, req, orders>>

ConvertToRequisition(d, r) ==
  /\ desk[d].pc = "convert" /\ desk[d].row \in Asks
  /\ req[r].status = "absent"
  /\ LET a == desk[d].row
     IN /\ req' = [req EXCEPT ![r] = Draft(ask[a].requester)]
        /\ ask' = [ask EXCEPT ![a].status = "converted", ![a].converted_requisition_id = r]
  /\ Leaves(d)
  /\ UNCHANGED orders

\* Mutation: the requisition is read without its lock.
LockReqNot(d, r) == /\ orders[r] = 0
                    /\ req[r].status = "approved"
                    /\ Serves(d, [pc |-> "convert", row |-> r])
                    /\ UNCHANGED <<ask, req, orders>>

(* converted_po_id is set when an order was made, and nothing unsets it. *)
LockReq(d, r) == /\ RowFree(r)
                 /\ orders[r] = 0
                 /\ req[r].status = "approved"
                 /\ Serves(d, [pc |-> "convert", row |-> r])
                 /\ UNCHANGED <<ask, req, orders>>

ConvertToPo(d) ==
  /\ desk[d].pc = "convert" /\ desk[d].row \in Reqs
  /\ LET r == desk[d].row
     IN /\ orders' = [orders EXCEPT ![r] = @ + 1]
        /\ req' = [req EXCEPT ![r].status = "converted"]
  /\ Leaves(d)
  /\ UNCHANGED ask

DeskFails(d) == /\ desk[d] # FreeDesk
                /\ Leaves(d)
                /\ UNCHANGED <<ask, req, orders>>

PurchasingNext ==
  \/ \E r \in Reqs, u \in Buyers : CreateRequisition(r, u)
  \/ \E d \in Desks :
       \/ \E a \in Asks : \/ \E s \in DOMAIN AskMoves : OpenAskMove(d, a, s)
                          \/ OpenDeleteAsk(d, a) \/ LockAsk(d, a)
       \/ \E r \in Reqs : \/ \E s \in DOMAIN ReqMoves, u \in Buyers \union {NoName} :
                               OpenReqMove(d, r, s, u)
                          \/ OpenDeleteReq(d, r) \/ LockReq(d, r) \/ ConvertToRequisition(d, r)
       \/ CommitAskMove(d) \/ CommitReqMove(d) \/ CommitDeleteAsk(d) \/ CommitDeleteReq(d)
       \/ ConvertToPo(d) \/ DeskFails(d)

PurchasingSpec == PurchasingInit /\ [][PurchasingNext]_purchasingVars
---------------------------------------------------------------------------
(* The rows and the requests are of their kinds. *)
PurchasingTypeOK == /\ ask \in [Asks -> AskRow]
                    /\ req \in [Reqs -> ReqRow]
                    /\ orders \in [Reqs -> Nat]
                    /\ desk \in [Desks -> DeskState]

(* A requisition buys once, and only what somebody other than its requester *)
(* approved; an intake that still exists stands behind one requisition at   *)
(* most, though stale requests move, reopen and delete the rows around the  *)
(* conversions: "a double-click or retry must not double the spend".        *)
BuysOnce ==
  /\ \A r \in Reqs : orders[r] > 0 =>
       /\ orders[r] = 1
       /\ req[r].approved_by \notin {NoName, req[r].requester}
  /\ \A a \in Asks : AskExists(a) /\ ask[a].converted_requisition_id # NoReq =>
       ReqExists(ask[a].converted_requisition_id)

(* The inductive invariant behind BuysOnce.  A conversion is alone with its *)
(* row, and a requisition under conversion is approved and not yet bought.  *)
ConvertsAlone ==
  \A d \in Desks : desk[d].pc = "convert" =>
    /\ \A e \in Desks : desk[e].pc = "convert" /\ desk[e].row = desk[d].row => e = d
    /\ desk[d].row \in Reqs => req[desk[d].row].status = "approved" /\ orders[desk[d].row] = 0

(* A move on its way goes to a status of its table, its row was once there, *)
(* and it does not carry the requester's own approval.                      *)
MovesInOrder ==
  \A d \in Desks : desk[d].pc = "move" =>
    /\ desk[d].row \in Asks => desk[d].status \in DOMAIN AskMoves
    /\ desk[d].row \in Reqs =>
         /\ desk[d].status \in DOMAIN ReqMoves
         /\ req[desk[d].row].status # "absent"
         /\ desk[d].status = "approved" => desk[d].user \in Buyers \ {req[desk[d].row].requester}

(* What is approved or bought was approved by somebody else. *)
SignedByAnother ==
  \A r \in Reqs : req[r].status = "approved" \/ orders[r] > 0 =>
    /\ req[r].status # "absent"
    /\ req[r].approved_by \notin {NoName, req[r].requester}

PurchasingInv == PurchasingTypeOK /\ ConvertsAlone /\ MovesInOrder /\ SignedByAnother /\ BuysOnce
=============================================================================
