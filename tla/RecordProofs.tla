---------------------------- MODULE RecordProofs ----------------------------
(* Theorems about the modules of records that people, sweeps and callbacks  *)
(* share: purchasing, PEPPOL transmissions, card charges, exceptions and    *)
(* their agents, contracts, bank reconciliation and settlement.  Each part  *)
(* has its inductive invariant (the one its module states), the invariance  *)
(* of it, and from it the property that people rely on.                     *)
EXTENDS Purchasing, PeppolTransmissions, CardCharges, ExceptionQueue,
        ContractTerms, BankReconciliation, Settlement, FiniteSetTheorems, TLAPS

-----------------------------------------------------------------------------
(* Purchasing.                                                              *)

\* What a desk may be doing is a desk's state, and a new draft is a row.
LEMMA DeskTypes ==
    /\ FreeDesk \in DeskState
    /\ \A x \in Asks \union Reqs, u \in Buyers \union {NoName},
          s \in DOMAIN AskMoves \union DOMAIN ReqMoves :
            [pc |-> "move", row |-> x, status |-> s, user |-> u] \in DeskState
    /\ \A x \in Asks \union Reqs :
         [pc |-> "delete", row |-> x] \in DeskState /\ [pc |-> "convert", row |-> x] \in DeskState
    /\ \A u \in Buyers : Draft(u) \in ReqRow
BY DEF FreeDesk, DeskState, Draft, ReqRow, ReqMoves

\* Nothing has been asked for, and nothing bought.
LEMMA PurchasingStarts == PurchasingInit => PurchasingInv
<1> SUFFICES ASSUME PurchasingInit PROVE PurchasingInv
  OBVIOUS
<1>1. Blank \in ReqRow
  BY PurchasingAssumption DEF Blank, ReqRow
<1>2. PurchasingTypeOK
  BY <1>1, DeskTypes DEF PurchasingInit, PurchasingTypeOK
<1> QED
  BY <1>2 DEF PurchasingInit, PurchasingInv, ConvertsAlone, MovesInOrder, SignedByAnother,
     BuysOnce, FreeDesk, Blank

\* Every step keeps the invariant.
LEMMA PurchasingSteps ==
    ASSUME PurchasingInv, [PurchasingNext]_purchasingVars PROVE PurchasingInv'
<1> USE DEF PurchasingInv
<1>1. ASSUME NEW r \in Reqs, NEW u \in Buyers, CreateRequisition(r, u) PROVE PurchasingInv'
  <2>1. PurchasingTypeOK'
    BY <1>1, DeskTypes DEF CreateRequisition, PurchasingTypeOK
  <2>2. ConvertsAlone' /\ MovesInOrder'
    BY <1>1 DEF CreateRequisition, PurchasingTypeOK, ConvertsAlone, MovesInOrder, Draft
  <2>3. SignedByAnother' /\ BuysOnce'
    BY <1>1 DEF CreateRequisition, PurchasingTypeOK, SignedByAnother, BuysOnce, Draft,
       AskExists, ReqExists, Gone
  <2> QED BY <2>1, <2>2, <2>3
<1>2. ASSUME NEW d \in Desks, NEW a \in Asks, NEW s \in DOMAIN AskMoves, OpenAskMove(d, a, s)
      PROVE PurchasingInv'
  <2>1. PurchasingTypeOK'
    BY <1>2, DeskTypes DEF OpenAskMove, Serves, PurchasingTypeOK
  <2>2. ConvertsAlone' /\ MovesInOrder'
    BY <1>2, PurchasingAssumption DEF OpenAskMove, Serves, PurchasingTypeOK, ConvertsAlone, MovesInOrder
  <2>3. SignedByAnother' /\ BuysOnce'
    BY <1>2 DEF OpenAskMove, SignedByAnother, BuysOnce, AskExists, ReqExists
  <2> QED BY <2>1, <2>2, <2>3
<1>3. ASSUME NEW d \in Desks, NEW r \in Reqs, NEW s \in DOMAIN ReqMoves,
             NEW u \in Buyers \union {NoName}, OpenReqMove(d, r, s, u)
      PROVE PurchasingInv'
  <2>1. PurchasingTypeOK'
    BY <1>3, DeskTypes DEF OpenReqMove, Serves, PurchasingTypeOK
  <2>2. ConvertsAlone' /\ MovesInOrder'
    BY <1>3, PurchasingAssumption
    DEF OpenReqMove, Serves, PurchasingTypeOK, ConvertsAlone, MovesInOrder, ReqExists
  <2>3. SignedByAnother' /\ BuysOnce'
    BY <1>3 DEF OpenReqMove, SignedByAnother, BuysOnce, AskExists, ReqExists
  <2> QED BY <2>1, <2>2, <2>3
<1>4. ASSUME NEW d \in Desks, CommitAskMove(d) PROVE PurchasingInv'
  <2>1. PurchasingTypeOK'
    BY <1>4, DeskTypes DEF CommitAskMove, Leaves, PurchasingTypeOK, MovesInOrder, AskRow
  <2>2. ConvertsAlone' /\ MovesInOrder'
    BY <1>4 DEF CommitAskMove, Leaves, FreeDesk, PurchasingTypeOK, ConvertsAlone, MovesInOrder
  <2>3. SignedByAnother' /\ BuysOnce'
    BY <1>4 DEF CommitAskMove, PurchasingTypeOK, SignedByAnother, BuysOnce, AskExists, ReqExists
  <2> QED BY <2>1, <2>2, <2>3
<1>5. ASSUME NEW d \in Desks, CommitReqMove(d) PROVE PurchasingInv'
  <2>1. PurchasingTypeOK'
    BY <1>5, DeskTypes DEF CommitReqMove, Leaves, PurchasingTypeOK, MovesInOrder, ReqRow
  <2>2. ConvertsAlone'
    BY <1>5 DEF CommitReqMove, Leaves, FreeDesk, PurchasingTypeOK, ConvertsAlone, RowFree
  <2>3. MovesInOrder'
    BY <1>5 DEF CommitReqMove, Leaves, FreeDesk, PurchasingTypeOK, MovesInOrder, ReqMoves
  <2>4. SignedByAnother'
    BY <1>5, PurchasingAssumption
    DEF CommitReqMove, PurchasingTypeOK, SignedByAnother, MovesInOrder, ReqMoves
  <2>5. \A r \in Reqs : ReqExists(r) => ReqExists(r)'
    BY <1>5 DEF CommitReqMove, PurchasingTypeOK, MovesInOrder, ReqMoves, ReqExists, Gone
  <2>6. BuysOnce'
    BY <1>5, <2>4, <2>5
    DEF CommitReqMove, PurchasingTypeOK, AskRow, BuysOnce, SignedByAnother, AskExists, NoReq
  <2> QED BY <2>1, <2>2, <2>3, <2>4, <2>6
<1>6. ASSUME NEW d \in Desks, NEW a \in Asks, OpenDeleteAsk(d, a) PROVE PurchasingInv'
  <2>1. PurchasingTypeOK'
    BY <1>6, DeskTypes DEF OpenDeleteAsk, Serves, PurchasingTypeOK
  <2>2. ConvertsAlone' /\ MovesInOrder'
    BY <1>6 DEF OpenDeleteAsk, Serves, PurchasingTypeOK, ConvertsAlone, MovesInOrder
  <2>3. SignedByAnother' /\ BuysOnce'
    BY <1>6 DEF OpenDeleteAsk, SignedByAnother, BuysOnce, AskExists, ReqExists
  <2> QED BY <2>1, <2>2, <2>3
<1>7. ASSUME NEW d \in Desks, NEW r \in Reqs, OpenDeleteReq(d, r) PROVE PurchasingInv'
  <2>1. PurchasingTypeOK'
    BY <1>7, DeskTypes DEF OpenDeleteReq, Serves, PurchasingTypeOK
  <2>2. ConvertsAlone' /\ MovesInOrder'
    BY <1>7 DEF OpenDeleteReq, Serves, PurchasingTypeOK, ConvertsAlone, MovesInOrder
  <2>3. SignedByAnother' /\ BuysOnce'
    BY <1>7 DEF OpenDeleteReq, SignedByAnother, BuysOnce, AskExists, ReqExists
  <2> QED BY <2>1, <2>2, <2>3
<1>8. ASSUME NEW d \in Desks, CommitDeleteAsk(d) PROVE PurchasingInv'
  <2>1. PurchasingTypeOK'
    BY <1>8, DeskTypes DEF CommitDeleteAsk, Leaves, PurchasingTypeOK, AskRow
  <2>2. ConvertsAlone' /\ MovesInOrder'
    BY <1>8 DEF CommitDeleteAsk, Leaves, FreeDesk, PurchasingTypeOK, ConvertsAlone, MovesInOrder
  <2>3. SignedByAnother' /\ BuysOnce'
    BY <1>8 DEF CommitDeleteAsk, PurchasingTypeOK, SignedByAnother, BuysOnce, AskExists, ReqExists
  <2> QED BY <2>1, <2>2, <2>3
<1>9. ASSUME NEW d \in Desks, CommitDeleteReq(d) PROVE PurchasingInv'
  <2>1. PurchasingTypeOK'
    <3>1. req' \in [Reqs -> ReqRow]
      BY <1>9 DEF CommitDeleteReq, PurchasingTypeOK, ReqRow
    <3> QED BY <1>9, <3>1, DeskTypes DEF CommitDeleteReq, Leaves, PurchasingTypeOK
  <2>2. ConvertsAlone' /\ MovesInOrder'
    BY <1>9
    DEF CommitDeleteReq, Leaves, FreeDesk, PurchasingTypeOK, ConvertsAlone, MovesInOrder, RowFree, Gone
  <2>3. SignedByAnother'
    BY <1>9 DEF CommitDeleteReq, PurchasingTypeOK, SignedByAnother, Gone
  <2>4. BuysOnce'
    BY <1>9 DEF CommitDeleteReq, PurchasingTypeOK, BuysOnce, LinkedAsks, AskExists, ReqExists
  <2> QED BY <2>1, <2>2, <2>3, <2>4
<1>10. ASSUME NEW d \in Desks, NEW a \in Asks, LockAsk(d, a) PROVE PurchasingInv'
  <2>1. PurchasingTypeOK'
    BY <1>10, DeskTypes DEF LockAsk, Serves, PurchasingTypeOK
  <2>2. ConvertsAlone' /\ MovesInOrder'
    BY <1>10, PurchasingAssumption
    DEF LockAsk, Serves, PurchasingTypeOK, ConvertsAlone, MovesInOrder, RowFree
  <2>3. SignedByAnother' /\ BuysOnce'
    BY <1>10 DEF LockAsk, SignedByAnother, BuysOnce, AskExists, ReqExists
  <2> QED BY <2>1, <2>2, <2>3
<1>11. ASSUME NEW d \in Desks, NEW r \in Reqs, ConvertToRequisition(d, r) PROVE PurchasingInv'
  <2>1. PurchasingTypeOK'
    BY <1>11, DeskTypes
    DEF ConvertToRequisition, Leaves, PurchasingTypeOK, AskRow, AskMoves, Draft, ReqRow, ReqMoves
  <2>2. ConvertsAlone' /\ MovesInOrder'
    BY <1>11, PurchasingAssumption
    DEF ConvertToRequisition, Leaves, FreeDesk, PurchasingTypeOK, ConvertsAlone, MovesInOrder, Draft
  <2>3. SignedByAnother'
    BY <1>11 DEF ConvertToRequisition, PurchasingTypeOK, SignedByAnother, Draft
  <2>4. BuysOnce'
    BY <1>11, <2>3
    DEF ConvertToRequisition, PurchasingTypeOK, BuysOnce, SignedByAnother, AskExists, ReqExists,
        Draft, Gone
  <2> QED BY <2>1, <2>2, <2>3, <2>4
<1>12. ASSUME NEW d \in Desks, NEW r \in Reqs, LockReq(d, r) PROVE PurchasingInv'
  <2>1. PurchasingTypeOK'
    BY <1>12, DeskTypes DEF LockReq, Serves, PurchasingTypeOK
  <2>2. ConvertsAlone' /\ MovesInOrder'
    BY <1>12 DEF LockReq, Serves, PurchasingTypeOK, ConvertsAlone, MovesInOrder, RowFree
  <2>3. SignedByAnother' /\ BuysOnce'
    BY <1>12 DEF LockReq, SignedByAnother, BuysOnce, AskExists, ReqExists
  <2> QED BY <2>1, <2>2, <2>3
<1>13. ASSUME NEW d \in Desks, ConvertToPo(d) PROVE PurchasingInv'
  <2>1. PurchasingTypeOK'
    <3>1. req' \in [Reqs -> ReqRow]
      BY <1>13 DEF ConvertToPo, PurchasingTypeOK, ReqRow, ReqMoves
    <3>2. orders' \in [Reqs -> Nat]
      BY <1>13 DEF ConvertToPo, PurchasingTypeOK
    <3> QED BY <1>13, <3>1, <3>2, DeskTypes DEF ConvertToPo, Leaves, PurchasingTypeOK
  <2>2. ConvertsAlone' /\ MovesInOrder'
    BY <1>13 DEF ConvertToPo, Leaves, FreeDesk, PurchasingTypeOK, ConvertsAlone, MovesInOrder
  <2>3. SignedByAnother'
    BY <1>13 DEF ConvertToPo, PurchasingTypeOK, SignedByAnother, ConvertsAlone
  <2>4. BuysOnce'
    BY <1>13, <2>3
    DEF ConvertToPo, PurchasingTypeOK, BuysOnce, SignedByAnother, ConvertsAlone, AskExists,
        ReqExists, Gone
  <2> QED BY <2>1, <2>2, <2>3, <2>4
<1>14. ASSUME NEW d \in Desks, DeskFails(d) PROVE PurchasingInv'
  <2>1. PurchasingTypeOK'
    BY <1>14, DeskTypes DEF DeskFails, Leaves, PurchasingTypeOK
  <2>2. ConvertsAlone' /\ MovesInOrder'
    BY <1>14 DEF DeskFails, Leaves, FreeDesk, PurchasingTypeOK, ConvertsAlone, MovesInOrder
  <2>3. SignedByAnother' /\ BuysOnce'
    BY <1>14 DEF DeskFails, SignedByAnother, BuysOnce, AskExists, ReqExists
  <2> QED BY <2>1, <2>2, <2>3
<1>15. CASE UNCHANGED purchasingVars
  BY <1>15
  DEF purchasingVars, PurchasingTypeOK, ConvertsAlone, MovesInOrder, SignedByAnother, BuysOnce,
      AskExists, ReqExists
<1> QED
  BY <1>1, <1>2, <1>3, <1>4, <1>5, <1>6, <1>7, <1>8, <1>9, <1>10, <1>11, <1>12, <1>13, <1>14, <1>15
  DEF PurchasingNext

\* The invariant holds in every reachable state.
THEOREM PurchasingInvariance == PurchasingSpec => []PurchasingInv
BY PurchasingStarts, PurchasingSteps, PTL DEF PurchasingSpec

\* No order of requests buys a requisition twice, or one its requester approved,
\* and no deletion takes the requisition of an intake away.
THEOREM RequisitionsBuyOnce == PurchasingSpec => []BuysOnce
BY PurchasingInvariance, PTL DEF PurchasingInv

-----------------------------------------------------------------------------
(* PEPPOL transmissions.                                                    *)

\* Nothing was sent and nothing received.
LEMMA PeppolStarts == PeppolInit => PeppolInv
<1> SUFFICES ASSUME PeppolInit PROVE PeppolInv
  OBVIOUS
<1>1. PeppolTypeOK
  <2>1. live \in BOOLEAN
    BY Zenon DEF PeppolInit
  <2>2. lost \in 0 .. MAX_LOST /\ accepted \in Nat /\ received \in Nat /\ extractions \in Nat
    BY PeppolAssumption DEF PeppolInit
  <2>3. send \in [Sends -> SendState] /\ arrival \in [Deliveries -> DeliveryState]
    BY DEF PeppolInit, SendState, DeliveryState
  <2> QED BY <2>1, <2>2, <2>3 DEF PeppolTypeOK
<1>3. SlotsAlone
  BY DEF PeppolInit, SlotsAlone, HoldsSlot, ClaimsMessage
<1>2. OncePerDocument
  BY DEF PeppolInit, OncePerDocument, TransmittedOnce, ReceivedOnce
<1> QED BY <1>1, <1>2, <1>3 DEF PeppolInv

\* A step of a sender leaves what was received alone.
LEMMA SendingApart ==
    ASSUME PeppolInv, UNCHANGED receiveVars, TransmittedOnce',
           live' \in BOOLEAN, lost' \in 0 .. MAX_LOST, accepted' \in Nat, send' \in [Sends -> SendState],
           \A s \in Sends : HoldsSlot(s)' => ~live' /\ \A x \in Sends : HoldsSlot(x)' => x = s
    PROVE  PeppolInv'
BY DEF PeppolInv, PeppolTypeOK, SlotsAlone, ClaimsMessage, receiveVars, OncePerDocument, ReceivedOnce

\* A step of a receiver leaves what was sent alone.
LEMMA ReceivingApart ==
    ASSUME PeppolInv, UNCHANGED sendVars, ReceivedOnce',
           received' \in Nat, extractions' \in Nat, arrival' \in [Deliveries -> DeliveryState],
           \A h \in Deliveries : ClaimsMessage(h)' =>
             received' = 0 /\ \A x \in Deliveries : ClaimsMessage(x)' => x = h,
           \A h \in Deliveries : arrival'[h] = "committed" =>
             /\ received' = 1 /\ extractions' = 0
             /\ \A x \in Deliveries : arrival'[x] = "committed" => x = h
    PROVE  PeppolInv'
BY DEF PeppolInv, PeppolTypeOK, SlotsAlone, HoldsSlot, sendVars, OncePerDocument, TransmittedOnce

\* Every step keeps the invariant.
LEMMA PeppolSteps == ASSUME PeppolInv, [PeppolNext]_peppolVars PROVE PeppolInv'
<1> USE DEF PeppolInv, PeppolTypeOK, SlotsAlone
<1>1. ASSUME NEW s \in Sends, Resolve(s) \/ ClaimSlot(s) \/ SendFails(s) PROVE PeppolInv'
  <2>1. TransmittedOnce'
    BY <1>1 DEF Resolve, ClaimSlot, SendFails, To, OncePerDocument, TransmittedOnce
  <2>2. send' \in [Sends -> SendState]
    BY <1>1 DEF Resolve, ClaimSlot, SendFails, To, SendState
  <2>3. \A x \in Sends : HoldsSlot(x)' => ~live' /\ \A y \in Sends : HoldsSlot(y)' => y = x
    BY <1>1 DEF Resolve, ClaimSlot, SendFails, To, HoldsSlot
  <2> QED BY <1>1, <2>1, <2>2, <2>3, SendingApart DEF Resolve, ClaimSlot, SendFails
<1>2. ASSUME NEW s \in Sends, Transmit(s) PROVE PeppolInv'
  <2>1. ~live /\ \A x \in Sends : send[x] # "accepted"
    BY <1>2 DEF Transmit, HoldsSlot
  <2>2. TransmittedOnce'
    BY <1>2, <2>1 DEF Transmit, To, OncePerDocument, TransmittedOnce
  <2>3. send' \in [Sends -> SendState]
    BY <1>2 DEF Transmit, To, SendState
  <2>4. \A x \in Sends : HoldsSlot(x)' => ~live' /\ \A y \in Sends : HoldsSlot(y)' => y = x
    BY <1>2 DEF Transmit, To, HoldsSlot
  <2> QED BY <1>2, <2>2, <2>3, <2>4, SendingApart DEF Transmit
<1>3. ASSUME NEW s \in Sends, LoseReply(s) PROVE PeppolInv'
  <2>1. TransmittedOnce'
    BY <1>3 DEF LoseReply, To, OncePerDocument, TransmittedOnce
  <2>2. send' \in [Sends -> SendState]
    BY <1>3 DEF LoseReply, To, SendState
  <2>3. \A x \in Sends : HoldsSlot(x)' => ~live' /\ \A y \in Sends : HoldsSlot(y)' => y = x
    BY <1>3 DEF LoseReply, To, HoldsSlot
  <2> QED BY <1>3, <2>1, <2>2, <2>3, PeppolAssumption, SendingApart DEF LoseReply
<1>4. ASSUME NEW s \in Sends, CommitSend(s) PROVE PeppolInv'
  <2>1. ~live /\ \A x \in Sends : HoldsSlot(x) => x = s
    BY <1>4 DEF CommitSend, HoldsSlot
  <2>2. TransmittedOnce'
    BY <1>4, <2>1 DEF CommitSend, To, HoldsSlot, OncePerDocument, TransmittedOnce
  <2>3. send' \in [Sends -> SendState]
    BY <1>4 DEF CommitSend, To, SendState
  <2>4. \A x \in Sends : ~HoldsSlot(x)'
    BY <1>4, <2>1 DEF CommitSend, To, HoldsSlot
  <2> QED BY <1>4, <2>2, <2>3, <2>4, SendingApart DEF CommitSend
<1>5. ASSUME NEW s \in Sends, SendDies(s) PROVE PeppolInv'
  <2>1. ~live /\ \A x \in Sends : HoldsSlot(x) => x = s
    BY <1>5 DEF SendDies, HoldsSlot
  <2>2. TransmittedOnce'
    BY <1>5, <2>1 DEF SendDies, To, HoldsSlot, OncePerDocument, TransmittedOnce
  <2>3. send' \in [Sends -> SendState]
    BY <1>5 DEF SendDies, To, SendState
  <2>4. \A x \in Sends : ~HoldsSlot(x)'
    BY <1>5, <2>1 DEF SendDies, To, HoldsSlot
  <2> QED BY <1>5, <2>2, <2>3, <2>4, PeppolAssumption, SendingApart DEF SendDies
<1>6. ASSUME NEW h \in Deliveries,
             ReadMessage(h) \/ ClaimMessage(h) \/ StorePayload(h) \/ DeliveryFails(h)
      PROVE PeppolInv'
  <2>1. ReceivedOnce'
    BY <1>6
    DEF ReadMessage, ClaimMessage, StorePayload, DeliveryFails, OncePerDocument, ReceivedOnce
  <2>2. arrival' \in [Deliveries -> DeliveryState]
    BY <1>6 DEF ReadMessage, ClaimMessage, StorePayload, DeliveryFails, Arrives, DeliveryState
  <2>3. \A x \in Deliveries : ClaimsMessage(x)' =>
          received' = 0 /\ \A y \in Deliveries : ClaimsMessage(y)' => y = x
    BY <1>6
    DEF ReadMessage, ClaimMessage, StorePayload, DeliveryFails, Arrives, ClaimsMessage
  <2>4. \A x \in Deliveries : arrival'[x] = "committed" => arrival[x] = "committed"
    BY <1>6 DEF ReadMessage, ClaimMessage, StorePayload, DeliveryFails, Arrives
  <2> QED BY <1>6, <2>1, <2>2, <2>3, <2>4, ReceivingApart
      DEF ReadMessage, ClaimMessage, StorePayload, DeliveryFails
<1>7. ASSUME NEW h \in Deliveries, CommitReceived(h) PROVE PeppolInv'
  <2>1. received = 0 /\ extractions = 0 /\ \A x \in Deliveries : ClaimsMessage(x) => x = h
    BY <1>7 DEF CommitReceived, ClaimsMessage, OncePerDocument, ReceivedOnce
  <2>2. \A x \in Deliveries : arrival[x] # "committed"
    BY <2>1
  <2>3. arrival' \in [Deliveries -> DeliveryState]
    BY <1>7 DEF CommitReceived, Arrives, DeliveryState
  <2>4. \A x \in Deliveries : ~ClaimsMessage(x)' /\ (arrival'[x] = "committed" => x = h)
    BY <1>7, <2>1, <2>2 DEF CommitReceived, Arrives, ClaimsMessage
  <2>5. ReceivedOnce'
    BY <1>7, <2>1 DEF CommitReceived, ReceivedOnce
  <2> QED BY <1>7, <2>1, <2>3, <2>4, <2>5, ReceivingApart DEF CommitReceived
<1>8. ASSUME NEW h \in Deliveries, DispatchExtraction(h) PROVE PeppolInv'
  <2>1. received = 1 /\ extractions = 0 /\ \A x \in Deliveries : arrival[x] = "committed" => x = h
    BY <1>8 DEF DispatchExtraction
  <2>2. \A x \in Deliveries : ~ClaimsMessage(x)
    BY <2>1
  <2>3. arrival' \in [Deliveries -> DeliveryState]
    BY <1>8 DEF DispatchExtraction, Arrives, DeliveryState
  <2>4. \A x \in Deliveries : ~ClaimsMessage(x)' /\ arrival'[x] # "committed"
    BY <1>8, <2>1, <2>2 DEF DispatchExtraction, Arrives, ClaimsMessage
  <2>5. ReceivedOnce'
    BY <1>8, <2>1 DEF DispatchExtraction, ReceivedOnce
  <2> QED BY <1>8, <2>1, <2>3, <2>4, <2>5, ReceivingApart DEF DispatchExtraction
<1>9. CASE UNCHANGED peppolVars
  BY <1>9
  DEF peppolVars, sendVars, receiveVars, HoldsSlot, ClaimsMessage, OncePerDocument, TransmittedOnce,
      ReceivedOnce
<1> QED
  BY <1>1, <1>2, <1>3, <1>4, <1>5, <1>6, <1>7, <1>8, <1>9 DEF PeppolNext

\* The invariant holds in every reachable state.
THEOREM PeppolInvariance == PeppolSpec => []PeppolInv
BY PeppolStarts, PeppolSteps, PTL DEF PeppolSpec

\* Lost answers apart, the gateway takes an invoice once, and a message redelivered
\* at any moment makes one invoice that is extracted once.
THEOREM DocumentsMoveOnce == PeppolSpec => []OncePerDocument
BY PeppolInvariance, PTL DEF PeppolInv

-----------------------------------------------------------------------------
(* Card charges.                                                            *)

\* What a bookkeeper may be doing is a request of theirs.
LEMMA BookingTypes ==
    /\ NotBooking \in Booking
    /\ \A t \in Charges :
         /\ [pc |-> "ignore", on |-> t] \in Booking /\ [pc |-> "create", on |-> t] \in Booking
         /\ \A e \in Expenses, s \in Charges \union {Unset} :
              /\ [pc |-> "match", on |-> t, with |-> e, saw |-> s] \in Booking
              /\ [pc |-> "unmatch", on |-> t, with |-> e, saw |-> s] \in Booking
    /\ \A e \in Expenses : [pc |-> "delete", on |-> e] \in Booking
BY DEF NotBooking, Booking

\* A request that writes links has a charge, and one that knows an expense names one.
LEMMA BookingFields ==
    ASSUME ChargesTypeOK, NEW b \in Bookkeepers
    PROVE  /\ bookkeeper[b].pc \in {"match", "unmatch", "ignore", "create"} => bookkeeper[b].on \in Charges
           /\ bookkeeper[b].pc \in {"match", "unmatch"} => bookkeeper[b].with \in Expenses
           /\ bookkeeper[b].pc = "delete" => bookkeeper[b].on \in Expenses \union {Unset}
BY DEF ChargesTypeOK, Booking

\* Every charge is open and no expense names one.
LEMMA ChargesStart == ChargesInit => ChargesInv
<1> SUFFICES ASSUME ChargesInit PROVE ChargesInv
  OBVIOUS
<1>1. ChargesTypeOK
  BY BookingTypes DEF ChargesInit, ChargesTypeOK, ChargeRow, ExpenseRow
<1>2. HeldAsFound
  BY ChargesAssumption DEF ChargesInit, HeldAsFound, AsFound, NotBooking
<1>3. /\ \A t \in Charges : charge[t].status = "unmatched" /\ charge[t].matched = Unset
      /\ \A e \in Expenses : expense[e].charge = Unset
  BY DEF ChargesInit
<1>4. OneChargePerExpense
  BY <1>3 DEF OneChargePerExpense
<1> QED BY <1>1, <1>2, <1>4 DEF ChargesInv

\* A request that begins, having checked what it found, changes no row.
LEMMA Beginning ==
    ASSUME ChargesInv, NEW b \in Bookkeepers, NEW state \in Booking, Begins(b, state),
           state.on \in Charges => ChargeFree(state.on),
           state.pc \in {"match", "ignore", "create"} => Unlinked(state.on),
           state.pc = "unmatch" =>
             /\ charge[state.on] = [status |-> "matched", matched |-> state.with]
             /\ state.saw = Unset => expense[state.with].charge # state.on
    PROVE  ChargesInv'
<1> USE DEF ChargesInv
<1>1. ChargesTypeOK'
  BY DEF Begins, ChargesTypeOK
<1>2. HeldAsFound'
  BY DEF Begins, ChargesTypeOK, HeldAsFound, AsFound, ChargeFree, Unlinked
<1>3. OneChargePerExpense'
  BY DEF Begins, OneChargePerExpense
<1> QED BY <1>1, <1>2, <1>3

\* A request that ends leaves the rows of the others as they found them when the
\* charge it wrote was its own, and no expense another one reads lost its charge.
LEMMA Ending ==
    ASSUME ChargesInv, NEW b \in Bookkeepers, Ends(b),
           charge' \in [Charges -> ChargeRow], expense' \in [Expenses -> ExpenseRow],
           \A t \in Charges : charge'[t] # charge[t] => bookkeeper[b].on = t,
           \A e \in Expenses : expense'[e].charge \in {expense[e].charge, bookkeeper[b].on, Unset},
           OneChargePerExpense'
    PROVE  ChargesInv'
<1> USE DEF ChargesInv
<1>1. ChargesTypeOK'
  BY BookingTypes DEF Ends, ChargesTypeOK
<1>2. \A c \in Bookkeepers : c # b => bookkeeper'[c] = bookkeeper[c]
  BY DEF Ends, ChargesTypeOK
<1>3. bookkeeper'[b] = NotBooking
  BY DEF Ends, ChargesTypeOK
<1>4. ASSUME NEW c \in Bookkeepers, c # b, bookkeeper[c].on \in Charges
      PROVE  /\ bookkeeper[c].on # bookkeeper[b].on
             /\ charge'[bookkeeper[c].on] = charge[bookkeeper[c].on]
  BY <1>4 DEF HeldAsFound, AsFound
<1>5. HeldAsFound'
  <2> SUFFICES ASSUME NEW c \in Bookkeepers PROVE AsFound(c)'
    BY DEF HeldAsFound
  <2>1. CASE c = b
    BY <1>2, <1>3, <2>1, ChargesAssumption DEF AsFound, NotBooking
  <2>2. CASE c # b
    <3>1. bookkeeper'[c] = bookkeeper[c] /\ AsFound(c)
      BY <1>2, <2>2 DEF HeldAsFound
    <3>2. bookkeeper[c].on \in Charges => \A d \in Bookkeepers : bookkeeper'[d].on = bookkeeper[c].on => d = c
      BY <1>2, <1>3, <3>1, ChargesAssumption DEF AsFound, NotBooking
    <3>3. bookkeeper[c].pc \in {"match", "unmatch", "ignore", "create"} =>
             charge'[bookkeeper[c].on] = charge[bookkeeper[c].on]
      BY <1>4, <2>2, BookingFields
    <3>4. bookkeeper[c].pc = "unmatch" /\ bookkeeper[c].saw = Unset =>
             expense'[bookkeeper[c].with].charge # bookkeeper[c].on
      BY <1>4, <2>2, <3>1, BookingFields, ChargesAssumption DEF AsFound
    <3> QED BY <3>1, <3>2, <3>3, <3>4 DEF AsFound, Unlinked
  <2> QED BY <2>1, <2>2
<1> QED BY <1>1, <1>5

\* An open charge that a request writes is linked with an expense, and back.
LEMMA Linking ==
    ASSUME ChargesInv, NEW t \in Charges, NEW e \in Expenses, Unlinked(t), Matches(t, e)
    PROVE  /\ charge' \in [Charges -> ChargeRow] /\ expense' \in [Expenses -> ExpenseRow]
           /\ \A x \in Charges : charge'[x] # charge[x] => x = t
           /\ \A x \in Expenses : expense'[x].charge \in {expense[x].charge, t}
           /\ OneChargePerExpense'
<1> USE DEF ChargesInv
<1>1. charge' \in [Charges -> ChargeRow] /\ expense' \in [Expenses -> ExpenseRow]
  BY DEF Matches, ChargesTypeOK, ChargeRow, ExpenseRow
<1>2. /\ \A x \in Charges : charge'[x] = IF x = t THEN [status |-> "matched", matched |-> e] ELSE charge[x]
      /\ \A x \in Expenses : expense'[x] = IF x = e THEN [there |-> TRUE, charge |-> t] ELSE expense[x]
  BY DEF Matches, ChargesTypeOK
<1>3. \A x \in Expenses : expense[x].charge \in Charges \union {Unset}
  BY DEF ChargesTypeOK, ExpenseRow
<1>4. \A x \in Charges : charge[x].matched \in Expenses \union {Unset}
  BY DEF ChargesTypeOK, ChargeRow
<1>5. \A x \in Expenses : expense[x].charge # t
  BY <1>3, ChargesAssumption DEF OneChargePerExpense, Unlinked
<1>6. OneChargePerExpense'
  BY <1>2, <1>3, <1>4, <1>5, ChargesAssumption DEF OneChargePerExpense
<1> QED BY <1>1, <1>2, <1>6

\* Every step keeps the invariant.
LEMMA ChargesSteps == ASSUME ChargesInv, [ChargesNext]_chargeVars PROVE ChargesInv'
<1> USE DEF ChargesInv
<1>1. ASSUME NEW b \in Bookkeepers, NEW t \in Charges, NEW e \in Expenses, OpenMatch(b, t, e)
      PROVE  ChargesInv'
  BY <1>1, BookingTypes, Beginning DEF OpenMatch
<1>2. ASSUME NEW b \in Bookkeepers, NEW t \in Charges, OpenUnmatch(b, t) PROVE ChargesInv'
  <2> DEFINE e == charge[t].matched
  <2>1. e \in Expenses /\ charge[t] = [status |-> "matched", matched |-> e]
    BY <1>2 DEF OpenUnmatch, ChargesTypeOK, ChargeRow, OneChargePerExpense
  <2>2. expense[e].charge \in Charges \union {Unset}
    BY <2>1 DEF ChargesTypeOK, ExpenseRow
  <2>3. [pc |-> "unmatch", on |-> t, with |-> e, saw |-> expense[e].charge] \in Booking
    BY <2>1, <2>2, BookingTypes
  <2> QED BY <1>2, <2>1, <2>3, Beginning, ChargesAssumption DEF OpenUnmatch
<1>3. ASSUME NEW b \in Bookkeepers, NEW t \in Charges, OpenIgnore(b, t) PROVE ChargesInv'
  BY <1>3, BookingTypes, Beginning DEF OpenIgnore
<1>4. ASSUME NEW b \in Bookkeepers, NEW t \in Charges, OpenCreate(b, t) PROVE ChargesInv'
  BY <1>4, BookingTypes, Beginning DEF OpenCreate
<1>5. ASSUME NEW b \in Bookkeepers, NEW e \in Expenses, OpenDelete(b, e) PROVE ChargesInv'
  BY <1>5, BookingTypes, Beginning, ChargesAssumption DEF OpenDelete
<1>6. ASSUME NEW b \in Bookkeepers, CommitMatch(b) PROVE ChargesInv'
  <2>1. bookkeeper[b].on \in Charges /\ bookkeeper[b].with \in Expenses /\ Unlinked(bookkeeper[b].on)
    BY <1>6, BookingFields DEF CommitMatch, HeldAsFound, AsFound
  <2>2. CASE expense[bookkeeper[b].with].there
    BY <1>6, <2>1, <2>2, Linking, Ending DEF CommitMatch
  <2>3. CASE ~expense[bookkeeper[b].with].there
    BY <1>6, <2>3, Ending DEF CommitMatch, ChargesTypeOK, OneChargePerExpense
  <2> QED BY <2>2, <2>3
<1>7. ASSUME NEW b \in Bookkeepers, CommitUnmatch(b) PROVE ChargesInv'
  <2> DEFINE t == bookkeeper[b].on
             e == bookkeeper[b].with
  <2>1. /\ t \in Charges /\ e \in Expenses
        /\ charge[t] = [status |-> "matched", matched |-> e]
        /\ bookkeeper[b].saw = Unset => expense[e].charge # t
    BY <1>7, BookingFields DEF CommitUnmatch, HeldAsFound, AsFound
  <2>2. charge' \in [Charges -> ChargeRow] /\ expense' \in [Expenses -> ExpenseRow]
    BY <1>7, <2>1 DEF CommitUnmatch, ChargesTypeOK, ChargeRow, ExpenseRow
  <2>3. /\ \A x \in Charges : charge'[x] = IF x = t THEN [status |-> "unmatched", matched |-> Unset] ELSE charge[x]
        /\ \A x \in Expenses : /\ expense'[x].charge \in {expense[x].charge, Unset}
                               /\ expense'[x].there = expense[x].there
                               /\ expense'[x].charge # Unset => expense'[x].charge = expense[x].charge
        /\ expense'[e].charge # t
    BY <1>7, <2>1, ChargesAssumption DEF CommitUnmatch, ChargesTypeOK, ExpenseRow
  <2>4. \A x \in Expenses : expense[x].charge = t => x = e
    BY <2>1, ChargesAssumption DEF OneChargePerExpense
  <2>5. OneChargePerExpense'
    BY <2>1, <2>3, <2>4, ChargesAssumption DEF OneChargePerExpense, ChargesTypeOK, ChargeRow, ExpenseRow
  <2>6. Ends(b)
    BY <1>7 DEF CommitUnmatch
  <2>7. \A x \in Charges : charge'[x] # charge[x] => t = x
    BY <2>3
  <2> QED BY <2>2, <2>3, <2>5, <2>6, <2>7, Ending
<1>8. ASSUME NEW b \in Bookkeepers, CommitIgnore(b) PROVE ChargesInv'
  <2>1. bookkeeper[b].on \in Charges /\ Unlinked(bookkeeper[b].on)
    BY <1>8, BookingFields DEF CommitIgnore, HeldAsFound, AsFound
  <2>2. charge' \in [Charges -> ChargeRow] /\ expense' \in [Expenses -> ExpenseRow]
    BY <1>8, <2>1 DEF CommitIgnore, ChargesTypeOK, ChargeRow
  <2>3. \A x \in Charges : /\ charge'[x].matched = charge[x].matched
                           /\ charge'[x] # charge[x] => x = bookkeeper[b].on /\ charge'[x].status = "ignored"
    BY <1>8, <2>1 DEF CommitIgnore, ChargesTypeOK, ChargeRow
  <2>4. OneChargePerExpense'
    BY <1>8, <2>1, <2>3, ChargesAssumption
    DEF CommitIgnore, OneChargePerExpense, Unlinked, ChargesTypeOK, ExpenseRow
  <2> QED BY <1>8, <2>2, <2>3, <2>4, Ending DEF CommitIgnore
<1>9. ASSUME NEW b \in Bookkeepers, NEW e \in Expenses, CommitCreate(b, e) PROVE ChargesInv'
  <2>1. bookkeeper[b].on \in Charges /\ Unlinked(bookkeeper[b].on)
    BY <1>9, BookingFields DEF CommitCreate, HeldAsFound, AsFound
  <2> QED BY <1>9, <2>1, Linking, Ending DEF CommitCreate
<1>10. ASSUME NEW b \in Bookkeepers, CommitDelete(b) PROVE ChargesInv'
  <2>1. charge' \in [Charges -> ChargeRow] /\ expense' \in [Expenses -> ExpenseRow]
    BY <1>10 DEF CommitDelete, ChargesTypeOK, ExpenseRow
  <2>2. \A x \in Expenses : /\ expense'[x].charge \in {expense[x].charge, Unset}
                            /\ expense'[x] # expense[x] => \A t \in Charges : charge[t].matched # x
    BY <1>10 DEF CommitDelete, ChargesTypeOK, ExpenseRow
  <2>3. OneChargePerExpense'
    BY <1>10, <2>1, <2>2, ChargesAssumption
    DEF CommitDelete, OneChargePerExpense, ChargesTypeOK, ChargeRow, ExpenseRow
  <2> QED BY <1>10, <2>1, <2>2, <2>3, Ending DEF CommitDelete
<1>11. ASSUME NEW b \in Bookkeepers, BookingFails(b) PROVE ChargesInv'
  BY <1>11, Ending DEF BookingFails, ChargesTypeOK, OneChargePerExpense
<1>12. CASE UNCHANGED chargeVars
  BY <1>12 DEF chargeVars, ChargesTypeOK, HeldAsFound, AsFound, OneChargePerExpense, Unlinked
<1> QED
  BY <1>1, <1>2, <1>3, <1>4, <1>5, <1>6, <1>7, <1>8, <1>9, <1>10, <1>11, <1>12 DEF ChargesNext

\* The invariant holds in every reachable state.
THEOREM ChargesInvariance == ChargesSpec => []ChargesInv
BY ChargesStart, ChargesSteps, PTL DEF ChargesSpec

\* However bookkeepers match, unmatch, ignore, create and delete at once, a charge
\* pays for one expense.
THEOREM ChargesPayOnce == ChargesSpec => []OneChargePerExpense
BY ChargesInvariance, PTL DEF ChargesInv

-----------------------------------------------------------------------------
(* Exceptions and agents.                                                   *)

\* What a run and a person may be doing is a state of theirs.
LEMMA QueueTypes ==
    /\ NotRunning \in RunState /\ NotRunning \in TriagerState
    /\ [pc |-> "asked"] \in RunState
    /\ \A pc \in {"holding", "applied"}, saw, mine \in Bill :
         [pc |-> pc, saw |-> saw, mine |-> mine] \in RunState
    /\ \A saw \in ACTIONABLE_STATUSES, to \in Resolutions :
         [pc |-> "read", saw |-> saw, to |-> to] \in TriagerState
BY DEF NotRunning, RunState, TriagerState

\* A run that holds the exception has the invoice it read, and a copy of its own.
LEMMA RunFields ==
    ASSUME QueueTypeOK, NEW a \in Runs, Holds(a)
    PROVE  /\ agentRun[a].saw \in Bill /\ agentRun[a].mine \in Bill
           /\ agentRun[a] = [pc |-> agentRun[a].pc, saw |-> agentRun[a].saw, mine |-> agentRun[a].mine]
           /\ agentRun[a] # NotRunning
BY DEF QueueTypeOK, RunState, Holds, NotRunning

\* The exception is open and nobody has looked at it.
LEMMA QueueStarts == QueueInit => QueueInv
BY QueueTypes
DEF QueueInit, QueueInv, QueueTypeOK, HoldsAlone, Holds, NotRunning, ACTIONABLE_STATUSES, Bill

\* A run that lets go of the exception leaves the others as they were.
LEMMA LettingGo ==
    ASSUME QueueInv, NEW a \in Runs, Turns(a, NotRunning), UNCHANGED triager,
           bill' \in Bill, agent_decisions' \in [auto_resolved : Nat, escalated : Nat],
           \/ exc' = exc
           \/ Holds(a) /\ exc' \in ACTIONABLE_STATUSES \union Resolutions
    PROVE  QueueInv'
<1> USE DEF QueueInv
<1>1. QueueTypeOK'
  BY QueueTypes DEF QueueTypeOK, Turns
<1>2. /\ \A b \in Runs : b # a => agentRun'[b] = agentRun[b]
      /\ agentRun'[a] = NotRunning
  BY DEF QueueTypeOK, Turns
<1>3. HoldsAlone'
  BY <1>2 DEF HoldsAlone, Holds, NotRunning
<1> QED BY <1>1, <1>3

\* What an applied correction commits is the invoice of now with what the run wrote.
LEMMA WrittenTypes ==
    ASSUME QueueTypeOK, NEW copy \in Bill, NEW saw \in Bill
    PROVE  /\ Written(copy, saw) \in Bill
           /\ copy = saw => Written(copy, saw) = bill
           /\ copy.amount # saw.amount => Written(copy, saw).amount = copy.amount
BY DEF QueueTypeOK, Written, Bill

\* Every step keeps the invariant.
LEMMA QueueSteps == ASSUME QueueInv, [QueueNext]_exceptionVars PROVE QueueInv'
<1> USE DEF QueueInv
<1>1. CASE Review \/ Correct \/ SendBack
  <2>1. QueueTypeOK'
    BY <1>1 DEF Review, Correct, SendBack, QueueTypeOK, Bill
  <2>2. HoldsAlone'
    BY <1>1 DEF Review, Correct, SendBack, HoldsAlone, Holds
  <2> QED BY <2>1, <2>2
<1>2. ASSUME NEW c \in Triagers, ReadQueue(c) PROVE QueueInv'
  <2>1. QueueTypeOK'
    BY <1>2, QueueTypes DEF ReadQueue, QueueTypeOK
  <2>2. HoldsAlone'
    BY <1>2 DEF ReadQueue, HoldsAlone, Holds
  <2> QED BY <2>1, <2>2
<1>3. ASSUME NEW c \in Triagers, RecordDecision(c) PROVE QueueInv'
  <2>1. QueueTypeOK'
    BY <1>3, QueueTypes DEF RecordDecision, QueueTypeOK, TriagerState
  <2>2. HoldsAlone'
    BY <1>3 DEF RecordDecision, HoldsAlone, Holds, ExceptionFree
  <2> QED BY <2>1, <2>2
<1>4. ASSUME NEW a \in Runs, AgentResolve(a) PROVE QueueInv'
  <2>1. QueueTypeOK'
    BY <1>4, QueueTypes DEF AgentResolve, Turns, QueueTypeOK
  <2>2. HoldsAlone'
    BY <1>4 DEF AgentResolve, Turns, QueueTypeOK, HoldsAlone, Holds
  <2> QED BY <2>1, <2>2
<1>5. ASSUME NEW a \in Runs, LockException(a) PROVE QueueInv'
  <2>1. CASE exc \notin ACTIONABLE_STATUSES
    BY <1>5, <2>1, LettingGo DEF LockException, QueueTypeOK
  <2>2. CASE exc \in ACTIONABLE_STATUSES
    <3>1. Turns(a, [pc |-> "holding", saw |-> bill, mine |-> bill]) /\ UNCHANGED <<exc, bill, agent_decisions, triager>>
      BY <1>5, <2>2 DEF LockException
    <3>2. QueueTypeOK'
      BY <3>1, QueueTypes DEF Turns, QueueTypeOK
    <3>3. HoldsAlone'
      BY <1>5, <2>2, <3>1 DEF LockException, ExceptionFree, Turns, QueueTypeOK, HoldsAlone, Holds
    <3> QED BY <3>2, <3>3
  <2> QED BY <2>1, <2>2
<1>6. ASSUME NEW a \in Runs, EscalateRun(a) PROVE QueueInv'
  BY <1>6, LettingGo DEF EscalateRun, Holds, Records, QueueTypeOK, Resolutions
<1>7. ASSUME NEW a \in Runs, ApplyCorrection(a) PROVE QueueInv'
  <2>1. Holds(a) /\ agentRun[a].mine = agentRun[a].saw
    BY <1>7 DEF ApplyCorrection, HoldsAlone, Holds
  <2>3. Turns(a, [pc |-> "applied", saw |-> agentRun[a].saw, mine |-> [agentRun[a].saw EXCEPT !.amount = "ordered"]])
    BY <1>7, <2>1 DEF ApplyCorrection
  <2>4. [agentRun[a].saw EXCEPT !.amount = "ordered"] \in Bill
    BY <2>1, RunFields DEF Bill
  <2>5. UNCHANGED <<exc, bill, agent_decisions, triager>>
    BY <1>7 DEF ApplyCorrection
  <2>6. QueueTypeOK'
    BY <2>1, <2>3, <2>4, <2>5, QueueTypes, RunFields DEF Turns, QueueTypeOK
  <2>7. HoldsAlone'
    BY <1>7, <2>1, <2>3, <2>5 DEF ApplyCorrection, Turns, QueueTypeOK, HoldsAlone, Holds
  <2> QED BY <2>6, <2>7
<1>8. ASSUME NEW a \in Runs, ResolveRun(a) PROVE QueueInv'
  <2>1. Holds(a) /\ agentRun[a].saw \in Bill /\ agentRun[a].mine \in Bill
    BY <1>8, RunFields DEF ResolveRun, Holds
  <2>2. \A s \in {"approved", agentRun[a].saw.status} : [agentRun[a].mine EXCEPT !.status = s] \in Bill
    BY <2>1 DEF Bill
  <2>3. bill' \in Bill
    BY <1>8, <2>1, <2>2, WrittenTypes DEF ResolveRun
  <2> QED BY <1>8, <2>1, <2>3, LettingGo DEF ResolveRun, Records, QueueTypeOK, Resolutions
<1>9. ASSUME NEW a \in Runs, RefuseRun(a) PROVE QueueInv'
  <2>1. Holds(a) /\ agentRun[a].saw \in Bill
    BY <1>9, RunFields DEF RefuseRun, Holds
  <2>2. bill' = bill
    BY <1>9, <2>1, WrittenTypes DEF RefuseRun, Refused
  <2> QED BY <1>9, <2>1, <2>2, LettingGo DEF RefuseRun, Records, QueueTypeOK, Resolutions
<1>10. ASSUME NEW a \in Runs, RunFails(a) PROVE QueueInv'
  BY <1>10, LettingGo DEF RunFails, QueueTypeOK
<1>11. CASE UNCHANGED exceptionVars
  BY <1>11 DEF exceptionVars, QueueTypeOK, HoldsAlone, Holds
<1> QED
  BY <1>1, <1>2, <1>3, <1>4, <1>5, <1>6, <1>7, <1>8, <1>9, <1>10, <1>11 DEF QueueNext

\* The invariant holds in every reachable state.
THEOREM QueueInvariance == QueueSpec => []QueueInv
BY QueueStarts, QueueSteps, PTL DEF QueueSpec

\* A run that leaves the exception has done one thing, and all of it.
LEMMA LeavingWhole ==
    ASSUME QueueInv, QueueNext, NEW a \in Runs, Holds(a), agentRun'[a] = NotRunning
    PROVE  \/ UNCHANGED <<exc, bill, agent_decisions>>
           \/ EscalateRun(a) \/ ResolveRun(a) \/ RefuseRun(a)
<1> USE DEF QueueInv
<1>1. agentRun[a] # NotRunning
  BY RunFields
<1>2. CASE Review \/ Correct \/ SendBack \/ \E c \in Triagers : ReadQueue(c) \/ RecordDecision(c)
  BY <1>1, <1>2 DEF Review, Correct, SendBack, ReadQueue, RecordDecision
<1>3. ASSUME NEW b \in Runs, AgentResolve(b) \/ LockException(b) \/ ApplyCorrection(b) \/ RunFails(b)
      PROVE  UNCHANGED <<exc, bill, agent_decisions>>
  BY <1>3 DEF AgentResolve, LockException, ApplyCorrection, RunFails
<1>4. ASSUME NEW b \in Runs, EscalateRun(b) \/ ResolveRun(b) \/ RefuseRun(b) PROVE b = a
  BY <1>4 DEF EscalateRun, ResolveRun, RefuseRun, HoldsAlone, Holds
<1> QED BY <1>2, <1>3, <1>4 DEF QueueNext

\* However people work the queue meanwhile, an agent acts as a whole and on an
\* exception that is still waiting.
THEOREM AgentsActWhole == QueueSpec => AgentActsWhole
<1>1. ASSUME QueueInv, QueueNext, NEW a \in Runs, Holds(a), agentRun'[a] = NotRunning,
             ~UNCHANGED <<exc, bill, agent_decisions>>
      PROVE  /\ exc \in ACTIONABLE_STATUSES
             /\ agent_decisions'.auto_resolved + agent_decisions'.escalated = Decided + 1
             /\ bill' # bill =>
                  /\ exc' = "resolved" /\ bill'.amount = "ordered"
                  /\ agent_decisions'.auto_resolved > agent_decisions.auto_resolved
  <2>1. exc \in ACTIONABLE_STATUSES /\ agentRun[a].saw \in Bill /\ agentRun[a].mine \in Bill
    BY <1>1, RunFields DEF QueueInv, HoldsAlone
  <2>2. CASE EscalateRun(a)
    BY <1>1, <2>1, <2>2 DEF EscalateRun, Records, Decided, QueueInv, QueueTypeOK
  <2>3. CASE RefuseRun(a)
    <3>1. bill' = bill
      BY <1>1, <2>1, <2>3, WrittenTypes DEF RefuseRun, Refused, QueueInv
    <3> QED BY <1>1, <2>1, <2>3, <3>1 DEF RefuseRun, Records, Decided, QueueInv, QueueTypeOK
  <2>4. CASE ResolveRun(a)
    <3>1. PICK s \in {"approved", agentRun[a].saw.status} :
            bill' = Written([agentRun[a].mine EXCEPT !.status = s], agentRun[a].saw)
      BY <2>4 DEF ResolveRun
    <3>2. agentRun[a].saw.amount = "billed" /\ agentRun[a].mine.amount = "ordered"
      <4>1. /\ agentRun[a].saw = [status |-> "ready_for_review", amount |-> "billed"]
            /\ agentRun[a].mine = [agentRun[a].saw EXCEPT !.amount = "ordered"]
        BY <1>1, <2>4 DEF ResolveRun, QueueInv, HoldsAlone
      <4> QED BY <2>1, <4>1 DEF Bill
    <3>3. /\ [agentRun[a].mine EXCEPT !.status = s] \in Bill
          /\ [agentRun[a].mine EXCEPT !.status = s].amount = "ordered"
      BY <2>1, <3>2 DEF Bill
    <3>4. bill'.amount = "ordered"
      BY <1>1, <2>1, <3>1, <3>2, <3>3, WrittenTypes DEF QueueInv
    <3> QED BY <1>1, <2>1, <2>4, <3>4 DEF ResolveRun, Records, Decided, QueueInv, QueueTypeOK
  <2> QED BY <1>1, <2>2, <2>3, <2>4, LeavingWhole
<1>2. QueueInv /\ [QueueNext]_exceptionVars => [AgentStep]_exceptionVars
  BY <1>1 DEF AgentStep, exceptionVars
<1> QED BY <1>2, QueueInvariance, PTL DEF QueueSpec, AgentActsWhole

-----------------------------------------------------------------------------
(* Contracts.                                                               *)

\* What a request and a tick may be doing is a state of theirs.
LEMMA DealingTypes ==
    /\ NoDeal \in Dealing /\ [does |-> "delete"] \in Dealing
    /\ \A saw, wants \in ContractRow : [does |-> "write", saw |-> saw, wants |-> wants] \in Dealing
    /\ \A n \in 0 .. LAST_TERM, pass \in {"nothing", "alert", "overdue"} :
         [listed |-> pass, on |-> n] \in [listed : {"nothing", "alert", "overdue"}, on : 0 .. LAST_TERM]
    /\ AtRest \in [listed : {"nothing", "alert", "overdue"}, on : 0 .. LAST_TERM]
BY ContractTermsAssumption DEF NoDeal, Dealing, AtRest

\* What exists is a row.
LEMMA RowsExist == ASSUME ContractsTypeOK, Exists PROVE contract \in ContractRow
BY DEF ContractsTypeOK, Exists

\* What is written is a row that keeps what the request did not change.
LEMMA MergedTypes ==
    ASSUME NEW saw \in ContractRow, NEW wants \in ContractRow, contract \in ContractRow
    PROVE  /\ Merged(saw, wants) \in ContractRow
           /\ Merged(saw, wants).alerted = IF wants.alerted = saw.alerted THEN contract.alerted ELSE wants.alerted
BY DEF Merged, ContractRow

\* The contract is a draft and nobody has been told of it.
LEMMA ContractsStart == ContractInit => ContractsInv
<1> SUFFICES ASSUME ContractInit PROVE ContractsInv
  OBVIOUS
<1>1. ContractsTypeOK
  BY DealingTypes, ContractTermsAssumption DEF ContractInit, ContractsTypeOK, ContractRow, ContractStatus
<1>2. AlertArmed
  BY DEF ContractInit, AlertArmed, NoDeal, AtRest
<1> QED BY <1>1, <1>2 DEF ContractsInv

\* A request that read the row, and disarms no alert, changes nothing yet.
LEMMA Reading ==
    ASSUME ContractsInv, NEW c \in ContractClerks, Exists, NEW want \in ContractRow,
           want.alerted => contract.alerted, Reads(c, want)
    PROVE  ContractsInv'
<1> USE DEF ContractsInv
<1>1. ContractsTypeOK'
  BY DealingTypes, RowsExist DEF Reads, ContractsTypeOK
<1>2. AlertArmed'
  BY DEF Reads, ContractsTypeOK, AlertArmed, Exists
<1> QED BY <1>1, <1>2

\* Every step keeps the invariant.
LEMMA ContractsSteps == ASSUME ContractsInv, [ContractsNext]_contractVars PROVE ContractsInv'
<1> USE DEF ContractsInv
<1>1. ASSUME NEW c \in ContractClerks, NEW action \in DOMAIN _LIFECYCLE_TARGET, OpenTransition(c, action)
      PROVE  ContractsInv'
  <2>1. /\ [contract EXCEPT !.status = _LIFECYCLE_TARGET[action]] \in ContractRow
        /\ [contract EXCEPT !.status = _LIFECYCLE_TARGET[action]].alerted = contract.alerted
    BY <1>1, RowsExist DEF OpenTransition, ContractRow, ContractStatus, _LIFECYCLE_TARGET
  <2> QED BY <1>1, <2>1, Reading DEF OpenTransition
<1>2. ASSUME NEW c \in ContractClerks, NEW e \in 1 .. LAST_TERM, OpenRenewal(c, e) PROVE ContractsInv'
  <2>1. [status |-> "active", end |-> e, alerted |-> FALSE] \in ContractRow
    BY DEF ContractRow, ContractStatus
  <2> QED BY <1>2, <2>1, Reading DEF OpenRenewal
<1>3. ASSUME NEW c \in ContractClerks, NEW e \in 1 .. LAST_TERM, OpenUpdate(c, e) PROVE ContractsInv'
  <2>1. [contract EXCEPT !.end = e] \in ContractRow /\ [contract EXCEPT !.end = e].alerted = contract.alerted
    BY <1>3, RowsExist DEF OpenUpdate, ContractRow
  <2> QED BY <1>3, <2>1, Reading DEF OpenUpdate
<1>4. ASSUME NEW c \in ContractClerks, OpenDeletion(c) PROVE ContractsInv'
  <2>1. ContractsTypeOK'
    BY <1>4, DealingTypes DEF OpenDeletion, ContractsTypeOK
  <2>2. AlertArmed'
    BY <1>4 DEF OpenDeletion, ContractsTypeOK, AlertArmed, Exists
  <2> QED BY <2>1, <2>2
<1>5. ASSUME NEW c \in ContractClerks, CommitDeal(c) PROVE ContractsInv'
  <2> DEFINE saw == dealing[c].saw
             wants == dealing[c].wants
  <2>1. saw \in ContractRow /\ wants \in ContractRow /\ contract \in ContractRow
    BY <1>5, RowsExist DEF CommitDeal, ContractsTypeOK, Dealing
  <2>2. saw.alerted \in BOOLEAN /\ wants.alerted \in BOOLEAN /\ contract.alerted \in BOOLEAN
    BY <2>1 DEF ContractRow
  <2>3. contract' \in ContractRow
        /\ contract'.alerted = IF wants.alerted = saw.alerted THEN contract.alerted ELSE wants.alerted
    BY <1>5, <2>1, MergedTypes DEF CommitDeal
  <2>4. wants.alerted => saw.alerted
    BY <1>5 DEF CommitDeal, AlertArmed
  <2>5. ContractsTypeOK'
    BY <1>5, <2>3, DealingTypes DEF CommitDeal, Closed, ContractsTypeOK
  <2>6. Exists' /\ ~contract'.alerted => notices' = 0
    BY <1>5, <2>2, <2>3, <2>4 DEF CommitDeal, AlertArmed
  <2>7. AlertArmed'
    BY <1>5, <2>6 DEF CommitDeal, Closed, NoDeal, ContractsTypeOK, AlertArmed
  <2> QED BY <2>5, <2>7
<1>6. ASSUME NEW c \in ContractClerks, CommitDeletion(c) PROVE ContractsInv'
  <2>1. ContractsTypeOK'
    BY <1>6, DealingTypes DEF CommitDeletion, Closed, ContractsTypeOK
  <2>2. AlertArmed'
    BY <1>6 DEF CommitDeletion, Closed, NoDeal, ContractsTypeOK, AlertArmed, Exists
  <2> QED BY <2>1, <2>2
<1>7. ASSUME NEW c \in ContractClerks, DealFails(c) PROVE ContractsInv'
  <2>1. ContractsTypeOK'
    BY <1>7, DealingTypes DEF DealFails, Closed, ContractsTypeOK
  <2>2. AlertArmed'
    BY <1>7 DEF DealFails, Closed, NoDeal, ContractsTypeOK, AlertArmed, Exists
  <2> QED BY <2>1, <2>2
<1>8. ASSUME NEW s \in Renewers, ListAlert(s) \/ ListOverdue(s) PROVE ContractsInv'
  <2>1. ContractsTypeOK'
    BY <1>8, DealingTypes DEF ListAlert, ListOverdue, Lists, ContractsTypeOK
  <2>2. AlertArmed'
    BY <1>8 DEF ListAlert, ListOverdue, Lists, ContractsTypeOK, AlertArmed, Exists
  <2> QED BY <2>1, <2>2
<1>9. ASSUME NEW s \in Renewers, SendAlert(s) PROVE ContractsInv'
  <2>1. contract \in ContractRow /\ ~contract.alerted /\ notices = 0
    BY <1>9, RowsExist DEF SendAlert, StillUnalerted, AlertDue, AlertArmed
  <2>2. contract' \in ContractRow /\ notices' \in 0 .. 1 /\ (~contract'.alerted => notices' = 0)
    <3>1. CASE contract' = [contract EXCEPT !.alerted = TRUE] /\ notices' = notices + 1
      <4>1. contract' \in ContractRow
        BY <2>1, <3>1 DEF ContractRow
      <4>2. contract'.alerted
        BY <2>1, <3>1, Zenon DEF ContractRow
      <4>3. notices' \in 0 .. 1
        BY <2>1, <3>1
      <4> QED BY <4>1, <4>2, <4>3
    <3>2. CASE UNCHANGED <<contract, notices>>
      BY <2>1, <3>2
    <3> QED BY <1>9, <3>1, <3>2 DEF SendAlert
  <2>3. ContractsTypeOK'
    BY <1>9, <2>2, DealingTypes DEF SendAlert, Rests, ContractsTypeOK
  <2>4. AlertArmed'
    BY <1>9, <2>2 DEF SendAlert, Rests, AtRest, ContractsTypeOK, AlertArmed, Exists
  <2> QED BY <2>3, <2>4
<1>10. ASSUME NEW s \in Renewers, ExpireContract(s) PROVE ContractsInv'
  <2>1. contract \in ContractRow
    BY <1>10, RowsExist DEF ExpireContract, StillOverdue, Overdue
  <2>2. contract' \in ContractRow /\ contract'.alerted = contract.alerted
    BY <1>10, <2>1 DEF ExpireContract, ContractRow, ContractStatus
  <2>3. ContractsTypeOK'
    BY <1>10, <2>2, DealingTypes DEF ExpireContract, Rests, ContractsTypeOK
  <2>4. AlertArmed'
    BY <1>10, <2>2
    DEF ExpireContract, StillOverdue, Overdue, Rests, AtRest, ContractsTypeOK, AlertArmed, Exists
  <2> QED BY <2>3, <2>4
<1>11. ASSUME NEW s \in Renewers, LegEnds(s) PROVE ContractsInv'
  <2>1. ContractsTypeOK'
    BY <1>11, DealingTypes DEF LegEnds, Rests, ContractsTypeOK
  <2>2. AlertArmed'
    BY <1>11 DEF LegEnds, Rests, AtRest, ContractsTypeOK, AlertArmed, Exists
  <2> QED BY <2>1, <2>2
<1>12. CASE NextDay
  BY <1>12, ContractTermsAssumption DEF NextDay, ContractsTypeOK, AlertArmed, Exists
<1>13. CASE UNCHANGED contractVars
  BY <1>13 DEF contractVars, ContractsTypeOK, AlertArmed, Exists
<1> QED
  BY <1>1, <1>2, <1>3, <1>4, <1>5, <1>6, <1>7, <1>8, <1>9, <1>10, <1>11, <1>12, <1>13
  DEF ContractsNext

\* The invariant holds in every reachable state.
THEOREM ContractsInvariance == ContractsSpec => []ContractsInv
BY ContractsStart, ContractsSteps, PTL DEF ContractsSpec

\* A notice is sent by one action alone: the alert, of a term nobody was warned about.
LEMMA NoticesFromAlerts ==
    ASSUME ContractsInv, ContractsNext, notices' > notices
    PROVE  \E s \in Renewers : SendAlert(s)
<1>1. notices \in 0 .. 1
  BY DEF ContractsInv, ContractsTypeOK
<1> QED
  BY <1>1
  DEF ContractsNext, OpenTransition, OpenRenewal, OpenUpdate, Reads, OpenDeletion, CommitDeal, CommitDeletion,
      DealFails, ListAlert, ListOverdue, Lists, ExpireContract, LegEnds, NextDay

\* A tick that comes to rest with another status has expired the contract.
LEMMA StatusFromExpiry ==
    ASSUME ContractsInv, ContractsNext, NEW s \in Renewers,
           renewing[s] # AtRest, renewing'[s] = AtRest, contract'.status # contract.status
    PROVE  ExpireContract(s)
<1> USE DEF ContractsInv
<1>1. ASSUME UNCHANGED renewing PROVE FALSE
  BY <1>1
<1>2. ASSUME UNCHANGED contract PROVE FALSE
  BY <1>2
<1>3. ASSUME NEW t \in Renewers, SendAlert(t) PROVE FALSE
  <2>1. contract \in ContractRow
    BY <1>3, RowsExist DEF SendAlert, StillUnalerted, AlertDue
  <2> QED BY <1>3, <2>1 DEF SendAlert, ContractRow
<1>4. ASSUME NEW t \in Renewers, ExpireContract(t) PROVE t = s
  BY <1>4 DEF ExpireContract, Rests, ContractsTypeOK
<1> QED
  BY <1>1, <1>2, <1>3, <1>4
  DEF ContractsNext, OpenTransition, OpenRenewal, OpenUpdate, Reads, OpenDeletion, CommitDeal, CommitDeletion,
      DealFails, ListAlert, ListOverdue, Lists, LegEnds, NextDay

\* The sweeps of all replicas warn once about a term and end none that was just extended.
THEOREM SweepsHonorTerms == ContractsSpec => SweepHonorsTheTerm
<1>1. ASSUME ContractsInv, ContractsNext PROVE SweepStep
  <2>1. day \in Nat /\ NOTICE_DAYS \in Nat /\ (contract \in ContractRow => contract.end \in Nat)
        /\ \A s \in Renewers : renewing[s].on \in Nat /\ renewing[s].on <= day
    BY <1>1, ContractTermsAssumption DEF ContractsInv, ContractsTypeOK, AlertArmed, ContractRow
  <2>2. ASSUME NEW s \in Renewers, SendAlert(s) PROVE notices = 0 /\ WithinLeadWindow(contract, day)
    <3>1. contract \in ContractRow
      BY <1>1, <2>2, RowsExist DEF SendAlert, StillUnalerted, AlertDue, ContractsInv
    <3> QED BY <1>1, <2>1, <2>2, <3>1
        DEF SendAlert, StillUnalerted, AlertDue, WithinLeadWindow, ContractsInv, AlertArmed
  <2>3. ASSUME NEW s \in Renewers, ExpireContract(s) PROVE Overdue(day)
    <3>1. contract \in ContractRow
      BY <1>1, <2>3, RowsExist DEF ExpireContract, StillOverdue, Overdue, ContractsInv
    <3> QED BY <2>1, <2>3, <3>1 DEF ExpireContract, StillOverdue, Overdue
  <2> QED BY <1>1, <2>2, <2>3, NoticesFromAlerts, StatusFromExpiry DEF SweepStep
<1>2. ContractsInv /\ [ContractsNext]_contractVars => [SweepStep]_contractVars
  BY <1>1
<1> QED BY <1>2, ContractsInvariance, PTL DEF ContractsSpec, SweepHonorsTheTerm

-----------------------------------------------------------------------------
(* Bank reconciliation.                                                     *)

\* A set whose members are one has one at most.
LEMMA NoTwoAreOne == ASSUME NEW S, \A x, y \in S : x = y PROVE Cardinality(S) <= 1
<1>1. CASE S = {}
  BY <1>1, FS_EmptySet
<1>2. CASE S # {}
  <2>1. PICK x \in S : TRUE
    BY <1>2
  <2>2. S = {x}
    BY <2>1
  <2> QED BY <2>2, FS_Singleton
<1> QED BY <1>1, <1>2

\* What an upload found for its two lines is theirs.
LEMMA MatchTypes ==
    /\ \A c \in SUBSET Payments : MatchesOf(c) \subseteq c \union {NoPayment}
    /\ \A p, q \in Claim : <<p, q>> \in [LineNos -> Claim]
BY DEF MatchesOf, LineNos, Claim

\* What an upload and a clerk may be doing is a state of theirs.
LEMMA BankTypes ==
    /\ Unasked \in UploadState /\ Unasked \in MatcherState
    /\ \A f \in Files, t \in {1, 2} :
         /\ [pc |-> "begin", file |-> f, try |-> t] \in UploadState
         /\ [pc |-> "parsed", file |-> f, try |-> t] \in UploadState
         /\ [pc |-> "importing", file |-> f, try |-> t] \in UploadState
         /\ \A found \in [LineNos -> Claim] :
              /\ [pc |-> "matched", file |-> f, try |-> t, found |-> found] \in UploadState
              /\ [pc |-> "flushed", file |-> f, try |-> t, found |-> found] \in UploadState
    /\ \A l \in Lines, to, saw \in Claim :
         /\ [pc |-> "read", line |-> l, to |-> to, saw |-> saw] \in MatcherState
         /\ [pc |-> "locked", line |-> l, to |-> to, saw |-> saw] \in MatcherState
BY DEF Unasked, UploadState, MatcherState

\* What an upload that got some way carries with it.
LEMMA UploadFields ==
    ASSUME BankTypeOK, NEW u \in Uploads
    PROVE  /\ upload[u].pc # "idle" => upload[u].file \in Files /\ upload[u].try \in {1, 2}
           /\ upload[u].pc \in {"matched", "flushed"} => upload[u].found \in [LineNos -> Claim]
           /\ upload[u].pc = "idle" <=> upload[u] = Unasked
BY DEF BankTypeOK, UploadState, Unasked

\* What is flushed stays apart when nobody flushes or finds more, and when what
\* gets locked or claimed is nobody's flush.
LEMMA FlushesKept ==
    ASSUME BankTypeOK, FlushesApart,
           \A v \in Uploads : upload'[v].pc = "flushed" => upload'[v] = upload[v],
           \A v \in Uploads : upload'[v].pc = "matched" =>
              \/ upload'[v] = upload[v]
              \/ upload'[v].found[1] = upload'[v].found[2] => upload'[v].found[1] = NoPayment,
           \A p \in Payments : Locked(p)' => Locked(p) \/ ~Flushing(p)',
           \A p \in Payments : Conflicts(p)' => Conflicts(p) \/ ~Flushing(p)'
    PROVE  FlushesApart'
<1>1. \A v \in Uploads : upload'[v].pc = "flushed" =>
         Found(v)' = Found(v) /\ Found(v) \subseteq Payments
  BY UploadFields DEF Found, Claim
<1>2. ASSUME NEW v \in Uploads, upload'[v].pc \in {"matched", "flushed"},
             upload'[v].found[1] = upload'[v].found[2]
      PROVE  upload'[v].found[1] = NoPayment
  BY <1>2 DEF FlushesApart
<1>3. ASSUME NEW v \in Uploads, upload'[v].pc = "flushed", NEW p \in Found(v)'
      PROVE  /\ ~Locked(p)' /\ ~Conflicts(p)'
             /\ \A w \in Uploads : upload'[w].pc = "flushed" /\ p \in Found(w)' => v = w
  <2>1. Flushing(p)' /\ p \in Found(v) /\ p \in Payments
    BY <1>1, <1>3 DEF Flushing
  <2>2. ~Locked(p) /\ ~Conflicts(p)
    BY <1>3, <2>1 DEF FlushesApart
  <2>3. \A w \in Uploads : upload'[w].pc = "flushed" /\ p \in Found(w)' => v = w
    BY <1>1, <1>3, <2>1 DEF FlushesApart
  <2> QED BY <2>1, <2>2, <2>3
<1> QED BY <1>2, <1>3 DEF FlushesApart

\* No file was uploaded and no line cleared.
LEMMA BankStarts == BankInit => BankInv
<1> SUFFICES ASSUME BankInit PROVE BankInv
  OBVIOUS
<1>1. BankTypeOK
  BY BankTypes DEF BankInit, BankTypeOK, Claim
<1> QED
  BY <1>1, BankAssumption
  DEF BankInit, BankInv, LinesApart, HashesApart, FlushesApart, Committed, HoldsHash, Unasked

\* An upload that gives up, or starts over, disturbs nobody.
LEMMA GivingUp ==
    ASSUME BankInv, NEW u \in Uploads, NEW state \in UploadState, Reaches(u, state),
           state.pc \in {"idle", "begin", "parsed"}, ~Committed(u),
           UNCHANGED <<statement, clears, matcher>>
    PROVE  BankInv'
<1> USE DEF BankInv
<1>1. BankTypeOK'
  BY DEF Reaches, BankTypeOK
<1>2. LinesApart'
  BY DEF LinesApart, Committed
<1>3. HashesApart'
  BY DEF HashesApart, Committed, HoldsHash, Imported, Reaches, BankTypeOK
<1>4. FlushesApart'
  <2>1. \A p : (Locked(p)' <=> Locked(p)) /\ (Conflicts(p)' <=> Conflicts(p))
    BY DEF Locked, Conflicts, TakenPayments, ClaimedBy, Committed
  <2>2. \A v \in Uploads : upload'[v].pc \in {"matched", "flushed"} => upload'[v] = upload[v]
    BY DEF Reaches, BankTypeOK
  <2> QED BY <2>1, <2>2, FlushesKept
<1> QED BY <1>1, <1>2, <1>3, <1>4

\* Every step keeps the invariant.
LEMMA BankSteps == ASSUME BankInv, [BankNext]_bankVars PROVE BankInv'
<1> USE DEF BankInv
<1>1. ASSUME NEW u \in Uploads, NEW f \in Files, BeginUpload(u, f) PROVE BankInv'
  BY <1>1, BankTypes, GivingUp DEF BeginUpload
<1>2. ASSUME NEW u \in Uploads, LookUpFile(u) PROVE BankInv'
  <2>1. ~Committed(u)
    BY <1>2 DEF LookUpFile, HashesApart, Unasked
  <2>2. upload[u] = [pc |-> "begin", file |-> upload[u].file, try |-> upload[u].try]
    BY <1>2 DEF LookUpFile, BankTypeOK, UploadState
  <2>3. [upload[u] EXCEPT !.pc = "parsed"] = [pc |-> "parsed", file |-> upload[u].file, try |-> upload[u].try]
    BY <2>2
  <2> QED BY <1>2, <2>1, <2>3, BankTypes, UploadFields, GivingUp DEF LookUpFile, Unasked
<1>3. ASSUME NEW u \in Uploads, ClaimHash(u) PROVE BankInv'
  <2>1. ~Committed(u)
    BY <1>3 DEF ClaimHash, HashesApart, Unasked
  <2>2. CASE Imported(upload[u].file)
    BY <1>3, <2>1, <2>2, BankTypes, UploadFields, GivingUp DEF ClaimHash, Lost, Unasked
  <2>3. CASE ~Imported(upload[u].file)
    <3>1. upload[u] = [pc |-> "parsed", file |-> upload[u].file, try |-> upload[u].try]
      BY <1>3 DEF ClaimHash, BankTypeOK, UploadState
    <3>2. Reaches(u, [pc |-> "importing", file |-> upload[u].file, try |-> upload[u].try])
      BY <1>3, <2>3, <3>1 DEF ClaimHash
    <3>7. upload[u].file \in Files /\ upload[u].try \in {1, 2}
      BY <1>3, UploadFields DEF ClaimHash
    <3>8. UNCHANGED <<statement, clears, matcher>>
      BY <1>3 DEF ClaimHash
    <3>3. BankTypeOK'
      BY <3>2, <3>7, <3>8, BankTypes DEF Reaches, BankTypeOK
    <3>4. LinesApart'
      BY <1>3 DEF ClaimHash, LinesApart, Committed
    <3>5. HashesApart'
      BY <1>3, <2>1, <2>3, <3>2
      DEF ClaimHash, HashesApart, Committed, HoldsHash, Imported, Reaches, BankTypeOK
    <3>6. FlushesApart'
      <4>1. \A p : (Locked(p)' <=> Locked(p)) /\ (Conflicts(p)' <=> Conflicts(p))
        BY <3>8 DEF Locked, Conflicts, TakenPayments, ClaimedBy, Committed
      <4>2. \A v \in Uploads : upload'[v].pc \in {"matched", "flushed"} => upload'[v] = upload[v]
        BY <3>2 DEF Reaches, BankTypeOK
      <4> QED BY <4>1, <4>2, FlushesKept
    <3> QED BY <3>3, <3>4, <3>5, <3>6
  <2> QED BY <2>2, <2>3
<1>4. ASSUME NEW u \in Uploads, MatchLines(u) PROVE BankInv'
  <2> DEFINE free(n) == Candidates[upload[u].file][n] \ TakenPayments
  <2>1. PICK p \in MatchesOf(free(1)) : \E q \in MatchesOf(free(2) \ {p}) :
          Reaches(u, [pc |-> "matched", file |-> upload[u].file, try |-> upload[u].try,
                      found |-> <<p, q>>])
    BY <1>4 DEF MatchLines
  <2>9. PICK q \in MatchesOf(free(2) \ {p}) :
          Reaches(u, [pc |-> "matched", file |-> upload[u].file, try |-> upload[u].try,
                      found |-> <<p, q>>])
    BY <2>1
  <2>2. upload[u].file \in Files
    BY <1>4, UploadFields DEF MatchLines
  <2>3. free(1) \subseteq Payments /\ free(2) \subseteq Payments
    BY <2>2, BankAssumption DEF LineNos
  <2>4. p \in Claim /\ q \in Claim /\ (p = q => p = NoPayment)
    BY <2>1, <2>9, <2>3, MatchTypes DEF Claim
  <2>5. BankTypeOK'
    BY <1>4, <2>9, <2>4, BankTypes, MatchTypes, UploadFields DEF MatchLines, Reaches, BankTypeOK
  <2>6. LinesApart'
    BY <1>4 DEF MatchLines, LinesApart, Committed
  <2>7. HashesApart'
    BY <1>4, <2>9 DEF MatchLines, HashesApart, Committed, HoldsHash, Imported, Reaches, BankTypeOK, Unasked
  <2>8. FlushesApart'
    <3>1. \A r : (Locked(r)' <=> Locked(r)) /\ (Conflicts(r)' <=> Conflicts(r))
      BY <1>4 DEF MatchLines, Locked, Conflicts, TakenPayments, ClaimedBy, Committed
    <3>2. \A v \in Uploads : v # u => upload'[v] = upload[v]
      BY <2>9 DEF Reaches, BankTypeOK
    <3>3. upload'[u].pc = "matched" /\ upload'[u].found = <<p, q>>
      BY <2>9 DEF Reaches, BankTypeOK
    <3> QED BY <2>4, <3>1, <3>2, <3>3, FlushesKept
  <2> QED BY <2>5, <2>6, <2>7, <2>8
<1>5. ASSUME NEW u \in Uploads, FlushMatches(u) PROVE BankInv'
  <2>1. ~Committed(u)
    BY <1>5 DEF FlushMatches, HashesApart, Unasked
  <2>2. CASE \E p \in Found(u) : Conflicts(p)
    BY <1>5, <2>1, <2>2, BankTypes, UploadFields, GivingUp DEF FlushMatches, Lost, Unasked
  <2>3. CASE ~\E p \in Found(u) : Conflicts(p)
    <3>1. upload[u] = [pc |-> "matched", file |-> upload[u].file, try |-> upload[u].try,
                       found |-> upload[u].found]
      BY <1>5 DEF FlushMatches, BankTypeOK, UploadState
    <3>2. Reaches(u, [pc |-> "flushed", file |-> upload[u].file, try |-> upload[u].try,
                      found |-> upload[u].found])
      BY <1>5, <2>3, <3>1 DEF FlushMatches
    <3>7. /\ upload[u].file \in Files /\ upload[u].try \in {1, 2}
          /\ upload[u].found \in [LineNos -> Claim]
      BY <1>5, UploadFields DEF FlushMatches
    <3>8. UNCHANGED <<statement, clears, matcher>>
      BY <1>5 DEF FlushMatches
    <3>3. BankTypeOK'
      BY <3>2, <3>7, <3>8, BankTypes DEF Reaches, BankTypeOK
    <3>4. LinesApart'
      BY <1>5 DEF FlushMatches, LinesApart, Committed
    <3>5. HashesApart'
      BY <1>5, <2>1, <3>2
      DEF FlushMatches, HashesApart, Committed, HoldsHash, Imported, Reaches, BankTypeOK
    <3>6. FlushesApart'
      <4>1. \A p : (Locked(p)' <=> Locked(p)) /\ (Conflicts(p)' <=> Conflicts(p))
        BY <3>8 DEF Locked, Conflicts, TakenPayments, ClaimedBy, Committed
      <4>2. \A v \in Uploads : v # u => upload'[v] = upload[v]
        BY <3>2 DEF Reaches, BankTypeOK
      <4>3. upload'[u].pc = "flushed" /\ upload'[u].found = upload[u].found /\ upload[u].pc = "matched"
        BY <1>5, <3>2 DEF FlushMatches, Reaches, BankTypeOK
      <4>4. \A v \in Uploads : Found(v)' = Found(v)
        BY <4>2, <4>3 DEF Found
      <4>5. \A p \in Found(u) : ~Locked(p) /\ ~Conflicts(p) /\ ~Flushing(p)
        BY <1>5, <2>3 DEF FlushMatches
      <4>6. \A v \in Uploads : upload'[v].pc \in {"matched", "flushed"} /\ upload'[v].found[1] = upload'[v].found[2]
               => upload'[v].found[1] = NoPayment
        BY <4>2, <4>3 DEF FlushesApart
      <4>7. \A v \in Uploads : upload'[v].pc = "flushed" => \A p \in Found(v)' :
               /\ ~Locked(p)' /\ ~Conflicts(p)'
               /\ \A w \in Uploads : upload'[w].pc = "flushed" /\ p \in Found(w)' => v = w
        BY <4>1, <4>2, <4>3, <4>4, <4>5 DEF FlushesApart, Flushing
      <4> QED BY <4>6, <4>7 DEF FlushesApart
    <3> QED BY <3>3, <3>4, <3>5, <3>6
  <2> QED BY <2>2, <2>3
<1>6. ASSUME NEW u \in Uploads, CommitImport(u) PROVE BankInv'
  <2>1. /\ upload[u].file \in Files /\ upload[u].found \in [LineNos -> Claim]
        /\ \A l \in Lines : l[1] \in Uploads /\ l[2] \in LineNos /\ l = <<l[1], l[2]>>
    BY <1>6, UploadFields DEF CommitImport, Lines
  <2>2. BankTypeOK'
    BY <1>6, <2>1, BankTypes DEF CommitImport, Reaches, BankTypeOK
  <2>3. LinesApart'
    <3>1. \A l \in Lines : l[1] # u /\ clears[l] # NoPayment => clears[l] \notin Found(u)
      BY <1>6, <2>1
      DEF CommitImport, FlushesApart, LinesApart, Conflicts, TakenPayments, ClaimedBy, BankTypeOK, Claim
    <3>2. \A l \in Lines : l[1] = u /\ upload[u].found[l[2]] # NoPayment => upload[u].found[l[2]] \in Found(u)
      BY <2>1 DEF Found
    <3>3. \A k, l \in Lines : k[1] = u /\ l[1] = u /\ upload[u].found[k[2]] = upload[u].found[l[2]]
                                /\ upload[u].found[k[2]] # NoPayment => k = l
      BY <1>6, <2>1 DEF CommitImport, FlushesApart, LineNos
    <3> QED BY <1>6, <2>1, <3>1, <3>2, <3>3, BankAssumption DEF CommitImport, LinesApart, Committed, BankTypeOK
  <2>4. HashesApart'
    BY <1>6, <2>1, BankAssumption
    DEF CommitImport, HashesApart, Committed, HoldsHash, Imported, Reaches, BankTypeOK, Unasked
  <2>5. FlushesApart'
    <3>1. \A v \in Uploads : upload'[v].pc \in {"matched", "flushed"} => v # u /\ upload'[v] = upload[v]
      BY <1>6 DEF CommitImport, Reaches, Unasked, BankTypeOK
    <3>2. ASSUME NEW p \in Payments, Conflicts(p)', ~Conflicts(p) PROVE ~Flushing(p)'
      <4>1. PICK l \in Lines : clears'[l] = p /\ Committed(l[1])'
        BY <3>2 DEF Conflicts, TakenPayments, ClaimedBy
      <4>2. l[1] = u
        BY <1>6, <2>1, <3>2, <4>1 DEF CommitImport, Conflicts, TakenPayments, ClaimedBy, Committed, BankTypeOK
      <4>3. p \in Found(u)
        BY <1>6, <2>1, <4>1, <4>2, BankAssumption DEF CommitImport, Found
      <4>4. \A v \in Uploads : upload'[v].pc = "flushed" => Found(v)' = Found(v)
        BY <3>1 DEF Found
      <4> QED BY <1>6, <3>1, <4>3, <4>4 DEF CommitImport, FlushesApart, Flushing
    <3>3. \A p : Locked(p)' <=> Locked(p)
      BY <1>6 DEF CommitImport, Locked
    <3> QED BY <3>1, <3>2, <3>3, FlushesKept
  <2> QED BY <2>2, <2>3, <2>4, <2>5
<1>7. ASSUME NEW u \in Uploads, UploadFails(u) PROVE BankInv'
  BY <1>7, BankTypes, GivingUp DEF UploadFails, HashesApart, Unasked
<1>8. ASSUME NEW u \in Uploads, DeleteStatement(u) PROVE BankInv'
  <2>1. BankTypeOK'
    BY <1>8 DEF DeleteStatement, BankTypeOK, Claim
  <2>2. LinesApart'
    BY <1>8 DEF DeleteStatement, LinesApart, Committed, BankTypeOK
  <2>3. HashesApart'
    BY <1>8, UploadFields, BankAssumption
    DEF DeleteStatement, HashesApart, Committed, HoldsHash, Imported, BankTypeOK, Unasked
  <2>4. FlushesApart'
    <3>1. \A p \in Payments : Conflicts(p)' => Conflicts(p)
      BY <1>8, BankAssumption
      DEF DeleteStatement, Conflicts, TakenPayments, ClaimedBy, Committed, BankTypeOK
    <3>2. \A p : Locked(p)' <=> Locked(p)
      BY <1>8 DEF DeleteStatement, Locked
    <3>3. UNCHANGED upload
      BY <1>8 DEF DeleteStatement
    <3> QED BY <3>1, <3>2, <3>3, FlushesKept
  <2> QED BY <2>1, <2>2, <2>3, <2>4
<1>9. ASSUME NEW m \in Matchers, NEW l \in Lines, NEW p \in Claim, ReadLine(m, l, p) PROVE BankInv'
  <2>1. BankTypeOK'
    BY <1>9, BankTypes DEF ReadLine, Serve, BankTypeOK
  <2>2. LinesApart' /\ HashesApart'
    BY <1>9 DEF ReadLine, LinesApart, HashesApart, Committed, HoldsHash, Imported
  <2>3. FlushesApart'
    <3>1. \A q : (Locked(q)' => Locked(q)) /\ (Conflicts(q)' <=> Conflicts(q))
      BY <1>9 DEF ReadLine, Serve, BankTypeOK, Locked, Conflicts, TakenPayments, ClaimedBy, Committed
    <3> QED BY <1>9, <3>1, FlushesKept DEF ReadLine
  <2> QED BY <2>1, <2>2, <2>3
<1>10. ASSUME NEW m \in Matchers, LockPayment(m) PROVE BankInv'
  <2>1. matcher[m] = [pc |-> "read", line |-> matcher[m].line, to |-> matcher[m].to, saw |-> matcher[m].saw]
        /\ matcher[m].line \in Lines /\ matcher[m].to \in Claim /\ matcher[m].saw \in Claim
    BY <1>10 DEF LockPayment, BankTypeOK, MatcherState
  <2>2. [matcher[m] EXCEPT !.pc = "locked"]
           = [pc |-> "locked", line |-> matcher[m].line, to |-> matcher[m].to, saw |-> matcher[m].saw]
    BY <2>1
  <2>3. BankTypeOK'
    <3>1. \/ Serve(m, Unasked)
          \/ Serve(m, [pc |-> "locked", line |-> matcher[m].line, to |-> matcher[m].to, saw |-> matcher[m].saw])
      BY <1>10, <2>2 DEF LockPayment
    <3>2. UNCHANGED <<statement, clears, upload>>
      BY <1>10 DEF LockPayment
    <3> QED BY <2>1, <3>1, <3>2, BankTypes DEF Serve, BankTypeOK
  <2>4. LinesApart' /\ HashesApart'
    BY <1>10 DEF LockPayment, LinesApart, HashesApart, Committed, HoldsHash, Imported
  <2>5. FlushesApart'
    <3>1. \A p : Locked(p)' => Locked(p) \/ p = matcher[m].to
      BY <1>10, <2>2 DEF LockPayment, Serve, BankTypeOK, Locked, Unasked
    <3>2. UNCHANGED <<statement, clears, upload>>
      BY <1>10 DEF LockPayment
    <3>3. \A p \in Payments : p = matcher[m].to => ~Flushing(p)'
      BY <1>10, <3>2, BankAssumption DEF LockPayment, Flushing, Found
    <3>4. \A p : Conflicts(p)' <=> Conflicts(p)
      BY <3>2 DEF Conflicts, TakenPayments, ClaimedBy, Committed
    <3> QED BY <3>1, <3>2, <3>3, <3>4, FlushesKept
  <2> QED BY <2>3, <2>4, <2>5
<1>11. ASSUME NEW m \in Matchers, CommitResolve(m) PROVE BankInv'
  <2>1. matcher[m].line \in Lines /\ matcher[m].to \in Claim /\ matcher[m].line[1] \in Uploads
    BY <1>11 DEF CommitResolve, BankTypeOK, MatcherState, Lines
  <2>2. BankTypeOK'
    BY <1>11, <2>1, BankTypes DEF CommitResolve, Serve, BankTypeOK
  <2>3. CASE clears' = clears
    <3>1. LinesApart' /\ HashesApart'
      BY <1>11, <2>3 DEF CommitResolve, LinesApart, HashesApart, Committed, HoldsHash, Imported
    <3>2. \A q : (Locked(q)' => Locked(q)) /\ (Conflicts(q)' <=> Conflicts(q))
      BY <1>11, <2>3
      DEF CommitResolve, Serve, Unasked, BankTypeOK, Locked, Conflicts, TakenPayments, ClaimedBy, Committed
    <3>3. FlushesApart'
      BY <1>11, <3>2, FlushesKept DEF CommitResolve
    <3> QED BY <2>2, <3>1, <3>3
  <2>4. CASE clears' # clears
    <3> DEFINE l == matcher[m].line
               p == matcher[m].to
    <3>1. clears' = [clears EXCEPT ![l] = p] /\ Committed(l[1]) /\ (p # NoPayment => ~Conflicts(p))
      BY <1>11, <2>4 DEF CommitResolve
    <3>2. LinesApart'
      BY <1>11, <2>1, <3>1
      DEF CommitResolve, LinesApart, BankTypeOK, Committed, Conflicts, TakenPayments, ClaimedBy, Claim
    <3>3. HashesApart'
      BY <1>11 DEF CommitResolve, HashesApart, Committed, HoldsHash, Imported
    <3>4. FlushesApart'
      <4>1. \A q \in Payments : Conflicts(q)' => Conflicts(q) \/ q = p
        BY <1>11, <2>1, <3>1 DEF CommitResolve, Conflicts, TakenPayments, ClaimedBy, Committed, BankTypeOK
      <4>2. Locked(p)
        BY <1>11 DEF CommitResolve, Locked
      <4>3. \A q : Locked(q)' => Locked(q)
        BY <1>11 DEF CommitResolve, Serve, Unasked, BankTypeOK, Locked
      <4>4. \A q \in Payments : q = p => ~Flushing(q)'
        BY <1>11, <4>2 DEF CommitResolve, FlushesApart, Flushing, Found
      <4> QED BY <1>11, <4>1, <4>3, <4>4, FlushesKept DEF CommitResolve
    <3> QED BY <2>2, <3>2, <3>3, <3>4
  <2> QED BY <2>3, <2>4
<1>12. ASSUME NEW m \in Matchers, ResolveFails(m) PROVE BankInv'
  <2>1. BankTypeOK'
    BY <1>12, BankTypes DEF ResolveFails, Serve, BankTypeOK
  <2>2. LinesApart' /\ HashesApart'
    BY <1>12 DEF ResolveFails, LinesApart, HashesApart, Committed, HoldsHash, Imported
  <2>3. \A q : (Locked(q)' => Locked(q)) /\ (Conflicts(q)' <=> Conflicts(q))
    BY <1>12
    DEF ResolveFails, Serve, Unasked, BankTypeOK, Locked, Conflicts, TakenPayments, ClaimedBy, Committed
  <2>4. FlushesApart'
    BY <1>12, <2>3, FlushesKept DEF ResolveFails
  <2> QED BY <2>1, <2>2, <2>4
<1>13. CASE UNCHANGED bankVars
  <2>1. BankTypeOK' /\ LinesApart' /\ HashesApart'
    BY <1>13 DEF bankVars, BankTypeOK, LinesApart, HashesApart, Committed, HoldsHash, Imported
  <2>2. \A q : (Locked(q)' <=> Locked(q)) /\ (Conflicts(q)' <=> Conflicts(q))
    BY <1>13 DEF bankVars, Locked, Conflicts, TakenPayments, ClaimedBy, Committed
  <2>3. FlushesApart'
    BY <1>13, <2>2, FlushesKept DEF bankVars
  <2> QED BY <2>1, <2>3
<1> QED
  BY <1>1, <1>2, <1>3, <1>4, <1>5, <1>6, <1>7, <1>8, <1>9, <1>10, <1>11, <1>12, <1>13 DEF BankNext

\* The invariant holds in every reachable state.
THEOREM BankInvariance == BankSpec => []BankInv
BY BankStarts, BankSteps, PTL DEF BankSpec

\* The invariant leaves a payment one line at most.
LEMMA BankInvClears == BankInv => ClearedOnce
<1> SUFFICES ASSUME BankInv, NEW p \in Payments PROVE Cardinality(ClaimedBy(p)) <= 1
  BY DEF ClearedOnce, BankInv, HashesApart
<1>1. \A k, l \in ClaimedBy(p) : k = l
  BY BankAssumption DEF BankInv, LinesApart, ClaimedBy
<1> QED BY <1>1, NoTwoAreOne

\* However uploads and clerks overlap, a payment clears one bank line and a file
\* is one statement.
THEOREM PaymentsClearOnce == BankSpec => []ClearedOnce
BY BankInvariance, BankInvClears, PTL

-----------------------------------------------------------------------------
(* Settlement: what a processor's report decides, for every amount.           *)

-----------------------------------------------------------------------------
(* Amounts.                                                                  *)

\* A minor unit is a major one, a cent or a thousandth.
LEMMA MinorUnits ==
    /\ \A c \in Currencies \union {NoCurrency} : MinorUnit(c) \in {1000, 10, 1}
    /\ MinorUnit(NoCurrency) = 10
    /\ \A c \in Currencies : exponent_for(c) = 2 => MinorUnit(c) = 10
BY SettlementAssumption DEF MinorUnit, exponent_for

\* Rounding to cents moves an amount by half a cent at most.
LEMMA Rounding ==
    ASSUME NEW a \in Nat
    PROVE  _q(a) \in Nat /\ _q(a) <= a + 5 /\ a <= _q(a) + 5
BY DEF _q, CENT

\* What comes back as decimals is what went out as minor units, where the currency
\* can express it.
LEMMA MinorUnitsReturn ==
    ASSUME NEW a \in Nat, NEW c \in Currencies \union {NoCurrency}
    PROVE  /\ to_minor_units(a, c) \in Nat
           /\ \A n \in Nat : minor_units_to_decimal(n, c) \in Nat
           /\ a % MinorUnit(c) = 0 => minor_units_to_decimal(to_minor_units(a, c), c) = a
<1>1. CASE MinorUnit(c) = 1000
  BY <1>1 DEF to_minor_units, minor_units_to_decimal
<1>2. CASE MinorUnit(c) = 10
  BY <1>2 DEF to_minor_units, minor_units_to_decimal
<1>3. CASE MinorUnit(c) = 1
  BY <1>3 DEF to_minor_units, minor_units_to_decimal
<1> QED BY <1>1, <1>2, <1>3, MinorUnits

\* A leg that counts is the target, or a source that is there.
LEMMA LegsAuthorized ==
    ASSUME NEW i \in Instructions
    PROVE  AuthorizedLegs(i) \subseteq Legs \intersect ({i.target, i.source} \ {NoLeg})
BY SettlementAssumption DEF AuthorizedLegs

-----------------------------------------------------------------------------
(* Reports.                                                                  *)

\* A report names the currency that was moved, or none.
LEMMA Names ==
    ASSUME SettlementTypeOK, moved # Nothing, NEW form \in ReportForms
    PROVE  /\ Named(form) \in Currencies \union {NoCurrency}
           /\ Named(form) # NoCurrency <=> form = "figure"
           /\ form = "figure" => Named(form) = moved.currency
           /\ Reported(form) \in Nat
<1>1. moved.minor \in Nat /\ moved.currency \in Currencies
  BY DEF SettlementTypeOK
<1>2. /\ Named(form) \in Currencies \union {NoCurrency}
      /\ Named(form) # NoCurrency <=> form = "figure"
      /\ form = "figure" => Named(form) = moved.currency
  BY <1>1, SettlementAssumption DEF Named
<1>3. minor_units_to_decimal(moved.minor, Named(form)) \in Nat
  BY <1>1, <1>2, MinorUnitsReturn
<1> QED BY <1>2, <1>3, Rounding DEF Reported

\* The verdict on each kind of report.
LEMMA VerdictOf ==
    ASSUME NEW i, NEW form \in ReportForms
    PROVE  LET v == verify_settlement(i, form)
               candidates == CompatibleLegs(i, Named(form))
               close == \E l \in candidates :
                          Distance(Reported(form), l.amount) <= SETTLEMENT_AMOUNT_TOLERANCE
           IN  /\ v.currency = Named(form)
               /\ form = "silent" => v.outcome = "no_amount"
               /\ form = "unusable" => v.outcome = "unusable_amount"
               /\ form \in {"figure", "bare_figure"} =>
                    /\ v.outcome \in {"currency_mismatch", "amount_mismatch", "matched"}
                    /\ v.outcome = "matched" <=> close
<1> DEFINE candidates == CompatibleLegs(i, Named(form))
           close == \E l \in candidates :
                      Distance(Reported(form), l.amount) <= SETTLEMENT_AMOUNT_TOLERANCE
<1>0. verify_settlement(i, form) =
        [outcome |-> CASE form = "silent" -> "no_amount"
                       [] form = "unusable" -> "unusable_amount"
                       [] form \in {"figure", "bare_figure"} /\ candidates = {} -> "currency_mismatch"
                       [] form \in {"figure", "bare_figure"} /\ candidates # {} ->
                            IF close THEN "matched" ELSE "amount_mismatch",
         currency |-> Named(form)]
  BY DEF verify_settlement
<1>1. candidates = {} => ~close
  OBVIOUS
<1> HIDE DEF candidates, close
<1>2. form \in {"silent", "unusable", "figure", "bare_figure"}
  BY DEF ReportForms
<1>3. CASE form = "silent"
  BY <1>0, <1>3 DEF candidates, close
<1>4. CASE form = "unusable"
  BY <1>0, <1>4 DEF candidates, close
<1>5. CASE form \in {"figure", "bare_figure"} /\ candidates = {}
  <2>1. verify_settlement(i, form).outcome = "currency_mismatch"
    BY <1>0, <1>5
  <2> QED BY <1>0, <1>1, <1>5, <2>1 DEF candidates, close
<1>6. CASE form \in {"figure", "bare_figure"} /\ candidates # {}
  <2>1. verify_settlement(i, form).outcome = IF close THEN "matched" ELSE "amount_mismatch"
    BY <1>0, <1>6
  <2> QED BY <1>0, <1>6, <2>1 DEF candidates, close
<1> QED BY <1>2, <1>3, <1>4, <1>5, <1>6

\* The columns that each kind leaves.
LEMMA ColumnsOf ==
    ASSUME SettlementTypeOK, moved # Nothing, NEW form \in ReportForms
    PROVE  LET s == persistable_settled_amount(form)
               fits == Distance(Reported(form), 0) < COLUMN_LIMIT
           IN  /\ form = "silent" => s = NullColumns
               /\ form = "unusable" => s.figure = "unstorable" /\ s.currency = Named(form)
               /\ form \in {"figure", "bare_figure"} =>
                    IF fits
                    THEN s = [figure |-> "stored", amount |-> Reported(form), currency |-> Named(form)]
                    ELSE s.figure = "unstorable" /\ s.currency = Named(form)
<1> DEFINE d == Distance(Reported(form), 0)
<1>1. d \in Nat /\ COLUMN_LIMIT \in Nat
  BY Names, SettlementAssumption DEF Distance
<1>2. persistable_settled_amount(form) =
        CASE form = "silent" -> NullColumns
          [] form # "silent" /\ (form = "unusable" \/ d >= COLUMN_LIMIT) ->
               [figure |-> "unstorable", amount |-> 0, currency |-> Named(form)]
          [] OTHER -> [figure |-> "stored", amount |-> Reported(form), currency |-> Named(form)]
  BY DEF persistable_settled_amount
<1> HIDE DEF d
<1>3. form \in {"silent", "unusable", "figure", "bare_figure"}
  BY DEF ReportForms
<1>4. CASE form = "silent"
  BY <1>2, <1>4
<1>5. CASE form # "silent" /\ (form = "unusable" \/ d >= COLUMN_LIMIT)
  <2>1. persistable_settled_amount(form) =
          [figure |-> "unstorable", amount |-> 0, currency |-> Named(form)]
    BY <1>2, <1>5
  <2> QED BY <1>1, <1>5, <2>1 DEF d
<1>6. CASE form \in {"figure", "bare_figure"} /\ ~(d >= COLUMN_LIMIT)
  <2>1. persistable_settled_amount(form) =
          [figure |-> "stored", amount |-> Reported(form), currency |-> Named(form)]
    BY <1>2, <1>6
  <2> QED BY <1>1, <1>6, <2>1 DEF d
<1> QED BY <1>3, <1>4, <1>5, <1>6

-----------------------------------------------------------------------------
(* The invariant.                                                            *)

\* An instruction has been sent.
LEMMA SettlementStarts == SettlementInit => SettlementInv
<1> SUFFICES ASSUME SettlementInit PROVE SettlementInv
  OBVIOUS
<1>1. waived \in BOOLEAN /\ flagged \in BOOLEAN
  BY Zenon DEF SettlementInit
<1> QED BY <1>1
        DEF SettlementInit, SettlementInv, SettlementTypeOK, OneReport, NoVerdict, NullColumns

\* The processor moves money.
LEMMA MoneyMoves == ASSUME SettlementInv, ProcessorMoves PROVE SettlementInv'
<1>1. PICK l \in AuthorizedLegs(instruction), c \in Currencies, d \in Deviations :
        /\ to_minor_units(l.amount, c) + d > 0
        /\ moved' = [minor |-> to_minor_units(l.amount, c) + d, currency |-> c]
  BY DEF ProcessorMoves
<1>2. l.amount \in Nat /\ d \in Int
  BY LegsAuthorized, SettlementAssumption DEF SettlementInv, SettlementTypeOK, Legs
<1>3. to_minor_units(l.amount, c) \in Nat
  BY <1>2, MinorUnitsReturn
<1>4. moved' \in [minor : Nat \ {0}, currency : Currencies]
  BY <1>1, <1>2, <1>3
<1> QED BY <1>4 DEF ProcessorMoves, SettlementInv, SettlementTypeOK, OneReport

\* A payment completes.
LEMMA Completes ==
    ASSUME SettlementInv, NEW event \in ReportForms, NEW fetched \in ReportForms, Complete(event, fetched)
    PROVE  SettlementInv'
<1>1. PICK form \in ReportForms :
        /\ verdict' = verify_settlement(instruction, form)
        /\ settled' = persistable_settled_amount(form)
        /\ flagged' = (flagged \/ is_discrepancy(verify_settlement(instruction, form)))
  BY DEF Complete
<1>2. /\ moved # Nothing /\ payment' = "completed"
      /\ UNCHANGED <<instruction, moved, payable, waived>>
  BY DEF Complete
<1>3. SettlementTypeOK
  BY DEF SettlementInv
<1>4. form \in {"silent", "unusable", "figure", "bare_figure"}
  BY DEF ReportForms
<1>5. verdict'.outcome \in {"no_amount", "unusable_amount", "matched", "amount_mismatch", "currency_mismatch"}
  BY <1>1, <1>4, VerdictOf
<1>6. /\ settled'.figure \in {"null", "stored", "unstorable"}
      /\ settled'.currency \in Currencies \union {NoCurrency}
  BY <1>1, <1>2, <1>3, <1>4, ColumnsOf, Names DEF NullColumns
<1>7. flagged' \in BOOLEAN
  BY <1>1, Zenon
<1>8. SettlementTypeOK'
  BY <1>2, <1>3, <1>5, <1>6, <1>7 DEF SettlementTypeOK
<1>9. OneReport'
  <2>1. /\ verify_settlement(instruction, form)' = verify_settlement(instruction, form)
        /\ persistable_settled_amount(form)' = persistable_settled_amount(form)
    BY <1>2 DEF verify_settlement, persistable_settled_amount, Reported, Named
  <2> QED BY <1>1, <1>2, <2>1 DEF OneReport
<1> QED BY <1>8, <1>9 DEF SettlementInv

\* Every step keeps the invariant.
LEMMA SettlementSteps == SettlementInv /\ [SettlementNext]_settlementVars => SettlementInv'
<1> SUFFICES ASSUME SettlementInv, [SettlementNext]_settlementVars PROVE SettlementInv'
  OBVIOUS
<1>1. CASE SyncLeg \/ ErpReportsPaid \/ accept_settlement \/ ResolveFlag \/ UNCHANGED settlementVars
  <2>1. /\ UNCHANGED <<instruction, payment, moved, verdict, settled>>
        /\ payable' \in {payable, "paid"}
    BY <1>1 DEF SyncLeg, ErpReportsPaid, accept_settlement, ResolveFlag, settlementVars
  <2>2. waived' \in BOOLEAN /\ flagged' \in BOOLEAN
    <3>1. waived \in BOOLEAN /\ flagged \in BOOLEAN
      BY DEF SettlementInv, SettlementTypeOK
    <3> QED BY <1>1, <3>1, Zenon DEF SyncLeg, ErpReportsPaid, accept_settlement, ResolveFlag, settlementVars
  <2>3. SettlementTypeOK'
    BY <2>1, <2>2 DEF SettlementInv, SettlementTypeOK
  <2>4. OneReport'
    <3>1. \A form \in ReportForms :
            /\ verify_settlement(instruction, form)' = verify_settlement(instruction, form)
            /\ persistable_settled_amount(form)' = persistable_settled_amount(form)
      BY <2>1 DEF verify_settlement, persistable_settled_amount, Reported, Named
    <3> QED BY <2>1, <3>1 DEF SettlementInv, OneReport
  <2> QED BY <2>3, <2>4 DEF SettlementInv
<1>2. CASE void_payment
  BY <1>2 DEF void_payment, SettlementInv, SettlementTypeOK, OneReport
<1>3. CASE PayAgain
  <2>1. waived' \in BOOLEAN
    BY <1>3, Zenon DEF PayAgain
  <2> QED BY <1>3, <2>1
          DEF PayAgain, SettlementInv, SettlementTypeOK, OneReport, NoVerdict, NullColumns
<1> QED BY <1>1, <1>2, <1>3, MoneyMoves, Completes DEF SettlementNext

\* For any instructions, currencies and deviations.
LEMMA SettlementInvariance == SettlementSpec => []SettlementInv
BY SettlementStarts, SettlementSteps, PTL DEF SettlementSpec

-----------------------------------------------------------------------------
(* What a completion decides.                                                *)

\* A leg that the stored figure covers is one that the money covers, to a cent and
\* the rounding of one.
LEMMA CoveredIsDischarged ==
    ASSUME SettlementInv, payment = "completed", completes_invoice(instruction, settled), Plain(verdict)
    PROVE  Discharged(instruction, moved)
<1>1. PICK form \in ReportForms : /\ moved # Nothing
                                  /\ verdict = verify_settlement(instruction, form)
                                  /\ settled = persistable_settled_amount(form)
  BY DEF SettlementInv, OneReport
<1>2. SettlementTypeOK /\ instruction \in Instructions
  BY DEF SettlementInv, SettlementTypeOK
<1>3. form = "figure" /\ Named(form) = moved.currency
  BY <1>1, <1>2, VerdictOf, Names DEF Plain
<1>4. settled = [figure |-> "stored", amount |-> Reported(form), currency |-> moved.currency]
  BY <1>1, <1>2, <1>3, ColumnsOf DEF completes_invoice
<1>5. PICK l \in CompatibleLegs(instruction, moved.currency) :
        Reported(form) >= l.amount - SETTLEMENT_AMOUNT_TOLERANCE
  BY <1>4 DEF completes_invoice
<1>6. moved.minor \in Nat /\ moved.currency \in Currencies /\ moved.currency # NoCurrency
  BY <1>1, <1>2, SettlementAssumption DEF SettlementTypeOK
<1>7. /\ l \in {instruction.target, instruction.source} \ {NoLeg}
      /\ l.amount \in Nat /\ l.currency = moved.currency
  BY <1>2, <1>5, <1>6, LegsAuthorized, SettlementAssumption DEF CompatibleLegs, Legs, _same_currency
<1> DEFINE a == minor_units_to_decimal(moved.minor, moved.currency)
<1>8. a \in Nat /\ Reported(form) = _q(a)
  BY <1>3, <1>6, MinorUnitsReturn DEF Reported
<1> HIDE DEF a
<1>9. 2 * a + 3 * CENT >= 2 * l.amount
  <2>1. _q(a) \in Nat /\ _q(a) <= a + 5
    BY <1>8, Rounding
  <2>2. _q(a) >= l.amount - 10
    BY <1>5, <1>8 DEF SETTLEMENT_AMOUNT_TOLERANCE, CENT
  <2> QED BY <1>7, <1>8, <2>1, <2>2 DEF CENT
<1> QED BY <1>7, <1>9 DEF Discharged, a

\* Nobody's step makes an invoice paid after a completion unless money, silence or a
\* person stands behind it.
THEOREM PaidIsCovered == SettlementSpec => PaidMeansCovered
<1>1. SettlementInv /\ [SettlementNext]_settlementVars =>
        [ payment = "completed" /\ payable = "payment_scheduled" /\ payable' = "paid" /\ ~waived' =>
            /\ Plain(verdict) => Discharged(instruction, moved)
            /\ verdict.outcome # "unusable_amount" ]_settlementVars
  <2> SUFFICES ASSUME SettlementInv, SettlementNext, payment = "completed", payable = "payment_scheduled",
                      payable' = "paid", ~waived'
               PROVE  /\ Plain(verdict) => Discharged(instruction, moved)
                      /\ verdict.outcome # "unusable_amount"
    OBVIOUS
  <2>1. SyncLeg \/ ErpReportsPaid \/ accept_settlement
    BY DEF SettlementNext, ProcessorMoves, Complete, void_payment, PayAgain, ResolveFlag
  <2>2. completes_invoice(instruction, settled)
    BY <2>1, Zenon DEF SyncLeg, ErpReportsPaid, accept_settlement
  <2>3. verdict.outcome # "unusable_amount"
    <3>1. PICK form \in ReportForms : /\ moved # Nothing
                                      /\ verdict = verify_settlement(instruction, form)
                                      /\ settled = persistable_settled_amount(form)
      BY DEF SettlementInv, OneReport
    <3>2. form # "unusable"
      BY <2>2, <3>1, ColumnsOf DEF SettlementInv, completes_invoice
    <3>3. form \in {"silent", "figure", "bare_figure"}
      BY <3>2 DEF ReportForms
    <3> QED BY <3>1, <3>3, VerdictOf
  <2> QED BY <2>2, <2>3, CoveredIsDischarged
<1> QED BY <1>1, SettlementInvariance, PTL DEF SettlementSpec, PaidMeansCovered

\* Where a figure matches a leg, it fits the column and completes the invoice.
LEMMA MatchedCompletes ==
    ASSUME AmountsFit, SettlementTypeOK, moved # Nothing, NEW form \in {"figure", "bare_figure"},
           NEW l \in CompatibleLegs(instruction, Named(form)),
           Distance(Reported(form), l.amount) <= SETTLEMENT_AMOUNT_TOLERANCE
    PROVE  completes_invoice(instruction, persistable_settled_amount(form))
<1> DEFINE s == persistable_settled_amount(form)
<1>1. form \in ReportForms
  BY DEF ReportForms
<1>2. l \in AuthorizedLegs(instruction) /\ instruction \in Instructions
  BY DEF CompatibleLegs, SettlementTypeOK
<1>3. l.amount \in Nat /\ l.amount + CENT < COLUMN_LIMIT
  BY <1>2, LegsAuthorized DEF AmountsFit, Legs
<1>4. Reported(form) \in Nat /\ COLUMN_LIMIT \in Nat
  BY <1>1, Names, SettlementAssumption
<1>5. Reported(form) >= l.amount - 10 /\ Reported(form) <= l.amount + 10
  BY <1>3, <1>4 DEF Distance, SETTLEMENT_AMOUNT_TOLERANCE, CENT
<1>6. Distance(Reported(form), 0) < COLUMN_LIMIT
  BY <1>3, <1>4, <1>5 DEF Distance, CENT
<1>7. s = [figure |-> "stored", amount |-> Reported(form), currency |-> Named(form)]
  BY <1>1, <1>6, ColumnsOf
<1> HIDE DEF s
<1>8. s.amount >= l.amount - SETTLEMENT_AMOUNT_TOLERANCE /\ s.figure = "stored" /\ s.currency = Named(form)
  BY <1>5, <1>7 DEF SETTLEMENT_AMOUNT_TOLERANCE, CENT
<1>9. completes_invoice(instruction, s)
  BY <1>8 DEF completes_invoice
<1> QED BY <1>9 DEF s

\* What a processor that moved what it was told is read as.
LEMMA ExactIsRead ==
    ASSUME SettlementTypeOK, moved # Nothing, NEW form \in {"figure", "bare_figure"},
           NEW l \in AuthorizedLegs(instruction),
           Named(form) = l.currency \/ exponent_for(l.currency) = 2,
           moved.currency = l.currency, moved.minor = to_minor_units(l.amount, l.currency),
           l.amount % MinorUnit(l.currency) = 0
    PROVE  /\ l \in CompatibleLegs(instruction, Named(form))
           /\ Distance(Reported(form), l.amount) <= SETTLEMENT_AMOUNT_TOLERANCE
<1>1. form \in ReportForms
  BY DEF ReportForms
<1>2. l.amount \in Nat /\ l.currency \in Currencies
  BY LegsAuthorized DEF SettlementTypeOK, Legs
<1>3. Named(form) \in {l.currency, NoCurrency}
  BY <1>1, Names
<1>4. MinorUnit(Named(form)) = MinorUnit(l.currency)
  BY <1>2, <1>3, MinorUnits, SettlementAssumption
<1>5. minor_units_to_decimal(moved.minor, Named(form)) = l.amount
  BY <1>2, <1>4, MinorUnitsReturn DEF minor_units_to_decimal
<1>6. Reported(form) = _q(l.amount)
  BY <1>5 DEF Reported
<1>7. Distance(Reported(form), l.amount) <= SETTLEMENT_AMOUNT_TOLERANCE
  BY <1>2, <1>6, Rounding DEF Distance, SETTLEMENT_AMOUNT_TOLERANCE, CENT
<1>8. l \in CompatibleLegs(instruction, Named(form))
  BY <1>3 DEF CompatibleLegs, _same_currency
<1> QED BY <1>7, <1>8

\* A completion that leaves the invoice unpaid has raised a flag, and a clean one
\* raises none, for every amount more than a cent below what the column holds.
THEOREM HeldIsFlagged == ASSUME AmountsFit PROVE SettlementSpec => CleanOrFlagged
<1> DEFINE Exact(l) == /\ verdict'.currency = l.currency \/ exponent_for(l.currency) = 2
                       /\ moved.currency = l.currency
                       /\ moved.minor = to_minor_units(l.amount, l.currency)
                       /\ l.amount % MinorUnit(l.currency) = 0
<1>1. SettlementInv /\ [SettlementNext]_settlementVars =>
        [ payment = "submitted" /\ payment' = "completed" =>
            /\ verdict'.outcome # "unusable_amount" /\ ~completes_invoice(instruction, settled') => flagged'
            /\ (\E l \in AuthorizedLegs(instruction) : Exact(l))
               => flagged' = flagged /\ (verdict'.outcome # "unusable_amount"
                                           => completes_invoice(instruction, settled')) ]_settlementVars
  <2> SUFFICES ASSUME SettlementInv, SettlementNext, payment = "submitted", payment' = "completed"
               PROVE  /\ verdict'.outcome # "unusable_amount" /\ ~completes_invoice(instruction, settled')
                           => flagged'
                      /\ (\E l \in AuthorizedLegs(instruction) : Exact(l))
                         => flagged' = flagged /\ (verdict'.outcome # "unusable_amount"
                                                     => completes_invoice(instruction, settled'))
    OBVIOUS
  <2>1. PICK event \in ReportForms, fetched \in ReportForms : Complete(event, fetched)
    BY DEF SettlementNext, ProcessorMoves, SyncLeg, ErpReportsPaid, accept_settlement, void_payment,
           PayAgain, ResolveFlag
  <2>2. PICK form \in ReportForms :
          /\ verdict' = verify_settlement(instruction, form)
          /\ settled' = persistable_settled_amount(form)
          /\ flagged' = (flagged \/ is_discrepancy(verify_settlement(instruction, form)))
    BY <2>1 DEF Complete
  <2>3. moved # Nothing /\ SettlementTypeOK /\ flagged \in BOOLEAN
    BY <2>1 DEF Complete, SettlementInv, SettlementTypeOK
  <2>4. CASE form = "silent"
    <3>1. verdict'.outcome = "no_amount" /\ settled' = NullColumns
      BY <2>2, <2>3, <2>4, VerdictOf, ColumnsOf
    <3>2. completes_invoice(instruction, settled')
      BY <3>1 DEF completes_invoice, NullColumns
    <3>3. ~is_discrepancy(verify_settlement(instruction, form))
      BY <2>2, <3>1 DEF is_discrepancy
    <3>4. flagged' = flagged
      BY <2>2, <2>3, <3>3, Zenon
    <3> QED BY <3>2, <3>4, Zenon
  <2>5. CASE form = "unusable"
    <3>1. verdict'.outcome = "unusable_amount"
      BY <2>2, <2>3, <2>5, VerdictOf
    <3>2. ~is_discrepancy(verify_settlement(instruction, form))
      BY <2>2, <3>1 DEF is_discrepancy
    <3>3. flagged' = flagged
      BY <2>2, <2>3, <3>2, Zenon
    <3> QED BY <3>1, <3>3, Zenon
  <2>6. CASE form \in {"figure", "bare_figure"}
    <3> DEFINE close == \E l \in CompatibleLegs(instruction, Named(form)) :
                          Distance(Reported(form), l.amount) <= SETTLEMENT_AMOUNT_TOLERANCE
    <3>1. /\ verdict'.outcome \in {"currency_mismatch", "amount_mismatch", "matched"}
          /\ verdict'.outcome = "matched" <=> close
          /\ verdict'.currency = Named(form)
      BY <2>2, <2>6, VerdictOf
    <3>2. close => completes_invoice(instruction, settled')
      BY <2>2, <2>3, <2>6, MatchedCompletes
    <3>3. ~close => flagged'
      <4>1. ~close => is_discrepancy(verify_settlement(instruction, form))
        BY <2>2, <3>1 DEF is_discrepancy
      <4> QED BY <2>2, <4>1, Zenon
    <3>4. close => flagged' = flagged
      <4>1. close => ~is_discrepancy(verify_settlement(instruction, form))
        BY <2>2, <3>1 DEF is_discrepancy
      <4> QED BY <2>2, <2>3, <4>1, Zenon
    <3>5. ASSUME NEW l \in AuthorizedLegs(instruction), Exact(l) PROVE close
      BY <2>3, <2>6, <3>1, <3>5, ExactIsRead
    <3> HIDE DEF close, Exact
    <3> QED BY <3>2, <3>3, <3>4, <3>5, Zenon
  <2> QED BY <2>4, <2>5, <2>6 DEF ReportForms
<1> QED BY <1>1, SettlementInvariance, PTL DEF SettlementSpec, CleanOrFlagged

\* Both sides of a completion.
THEOREM CompletionsDecide == ASSUME AmountsFit PROVE SettlementSpec => CompletionDecides
BY PaidIsCovered, HeldIsFlagged DEF CompletionDecides
=============================================================================
