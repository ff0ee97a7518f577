----------------------------- MODULE LoopProofs -----------------------------
(* Theorems about the background loops and those who work on their rows:    *)
(* webhook deliveries, recurring invoices and the shipping of the audit     *)
(* trail.                                                                   *)
EXTENDS WebhookDelivery, RecurringInvoices, AuditShipping, WellFoundedInduction, TLAPS

-----------------------------------------------------------------------------
(* Webhook deliveries.                                                      *)

\* Nothing has been emitted.
LEMMA DeliveryStarts == DeliveryInit => DeliveryInv
BY DeliveryAssumption
DEF DeliveryInit, DeliveryInv, DeliveryTypeOK, Row, RowStates, NoRow, SenderState, OneSenderOneBudget,
    BudgetIsShared, NoDuplicateSend, Sending, SendersHoldTheRow, WaitingHasBudget, Waiting, NoneIsNoRow

\* What a sender does next leaves the row and the others alone.
LEMMA SenderSteps ==
    ASSUME DeliveryInv, NEW s \in Senders, NEW pc \in {"idle", "spawned", "scanned"}, Becomes(s, pc),
           UNCHANGED <<delivery, active, posts>>
    PROVE  DeliveryInv'
<1>1. DeliveryTypeOK'
  BY DEF DeliveryInv, DeliveryTypeOK, Becomes, SenderState
<1>2. \A t \in Senders : Sending(t)' => Sending(t) /\ sender'[t] = sender[t]
  BY DEF DeliveryInv, DeliveryTypeOK, Becomes, Sending
<1>3. OneSenderOneBudget'
  BY <1>2 DEF DeliveryInv, OneSenderOneBudget, BudgetIsShared, NoDuplicateSend
<1>4. SendersHoldTheRow'
  BY <1>2 DEF DeliveryInv, SendersHoldTheRow, Sending, Waiting
<1>5. WaitingHasBudget' /\ NoneIsNoRow'
  BY DEF DeliveryInv, WaitingHasBudget, Waiting, NoneIsNoRow, NoRow
<1> QED BY <1>1, <1>3, <1>4, <1>5 DEF DeliveryInv

\* A claim of a row nobody sends: the POST begins, or the row is dead.
LEMMA ClaimSteps ==
    ASSUME DeliveryInv, NEW s \in Senders, Unclaimed, delivery.state # "none",
           \/ Waiting /\ active /\ Becomes(s, "posting") /\ UNCHANGED delivery
           \/ delivery.state \in {"failed", "dead"} /\ active /\ Becomes(s, "reposting") /\ UNCHANGED delivery
           \/ /\ UNCHANGED sender \/ Becomes(s, "idle")
              /\ \E n \in {0, delivery.attempts} : delivery' = Dead(n),
           UNCHANGED <<active, posts>>
    PROVE  DeliveryInv'
<1> USE DEF DeliveryInv
<1>1. DeliveryTypeOK'
  <2>1. \A n \in {0, delivery.attempts} : Dead(n) \in Row
    BY DeliveryAssumption DEF DeliveryTypeOK, Dead, Row, RowStates
  <2>2. delivery' \in Row
    BY <2>1 DEF DeliveryTypeOK
  <2>3. sender' \in [Senders -> SenderState]
    BY DEF DeliveryTypeOK, Becomes, SenderState
  <2> QED BY <2>2, <2>3 DEF DeliveryTypeOK
<1>2. CASE UNCHANGED delivery
  <2>1. \A t \in Senders : Sending(t)' => t = s
    BY <1>2 DEF DeliveryTypeOK, Becomes, Sending, Unclaimed, NoRow, Row
  <2>2. OneSenderOneBudget'
    <3>1. BudgetIsShared'
      BY <1>2 DEF OneSenderOneBudget, BudgetIsShared
    <3>2. delivery'.state # "delivered"
      BY <1>2 DEF Waiting, Dead
    <3> QED BY <2>1, <3>1, <3>2 DEF OneSenderOneBudget, NoDuplicateSend
  <2>3. SendersHoldTheRow'
    BY <1>2, <2>1 DEF SendersHoldTheRow, Sending, Becomes, DeliveryTypeOK, Waiting
  <2>4. WaitingHasBudget' /\ NoneIsNoRow'
    BY <1>2 DEF WaitingHasBudget, Waiting, NoneIsNoRow
  <2> QED BY <1>1, <2>2, <2>3, <2>4
<1>3. CASE /\ UNCHANGED sender \/ Becomes(s, "idle")
           /\ \E n \in {0, delivery.attempts} : delivery' = Dead(n)
  <2>1. /\ delivery'.state = "dead" /\ delivery'.attempts \in {0, delivery.attempts}
    BY <1>3 DEF Dead
  <2>2. \A t \in Senders : ~Sending(t)'
    BY <1>3 DEF DeliveryTypeOK, Becomes, Sending, Unclaimed
  <2>3. OneSenderOneBudget'
    BY <2>1, <2>2 DEF OneSenderOneBudget, BudgetIsShared, NoDuplicateSend
  <2>4. SendersHoldTheRow' /\ WaitingHasBudget' /\ NoneIsNoRow'
    BY <2>1, <2>2 DEF SendersHoldTheRow, Sending, WaitingHasBudget, Waiting, NoneIsNoRow
  <2> QED BY <1>1, <2>3, <2>4
<1> QED BY <1>2, <1>3

\* The outcome of a POST counts it.
LEMMA FinishSteps == ASSUME DeliveryInv, NEW s \in Senders, NEW ok \in BOOLEAN, Finish(s, ok) PROVE DeliveryInv'
<1> USE DEF DeliveryInv
<1> DEFINE n == Attempts(s)
<1>1. /\ delivery'.attempts = n /\ delivery'.due = FALSE
      /\ delivery'.state \in {"delivered", "dead", "failed"}
      /\ delivery'.state = "failed" => n < MAX_ATTEMPTS
      /\ posts' = n /\ n \in 1 .. MAX_ATTEMPTS /\ UNCHANGED active /\ Becomes(s, "idle")
  <2>1. CASE sender[s] = "posting"
    <3>1. delivery.attempts = posts /\ posts < MAX_ATTEMPTS /\ posts \in Nat
      BY <2>1 DEF SendersHoldTheRow, WaitingHasBudget, DeliveryTypeOK
    <3>2. n = posts + 1 /\ posts' = posts + 1
      BY <2>1, <3>1 DEF Attempts, Finish
    <3> HIDE DEF n
    <3> QED BY <3>1, <3>2, DeliveryAssumption DEF Finish, n
  <2>2. CASE sender[s] = "reposting"
    <3>1. n = 1 /\ posts' = 1
      BY <2>2 DEF Attempts, Finish
    <3> HIDE DEF n
    <3> QED BY <3>1, DeliveryAssumption DEF Finish, n
  <2> QED BY <2>1, <2>2 DEF Finish, Sending
<1>2. \E st \in {"delivered", "dead", "failed"} : delivery' = [attempts |-> n, due |-> FALSE, state |-> st]
  BY DEF Finish
<1> HIDE DEF n
<1>3. DeliveryTypeOK'
  <2>1. delivery' \in Row
    BY <1>1, <1>2, DeliveryAssumption DEF Row, RowStates
  <2>2. sender' \in [Senders -> SenderState] /\ active' \in BOOLEAN
    BY <1>1 DEF DeliveryTypeOK, Becomes, SenderState
  <2>3. posts' \in Nat
    BY <1>1, DeliveryAssumption
  <2> QED BY <2>1, <2>2, <2>3 DEF DeliveryTypeOK
<1>4. \A t \in Senders : ~Sending(t)'
  BY <1>1 DEF Finish, OneSenderOneBudget, NoDuplicateSend, Sending, Becomes, DeliveryTypeOK
<1>5. OneSenderOneBudget'
  BY <1>1, <1>4, DeliveryAssumption DEF OneSenderOneBudget, BudgetIsShared, NoDuplicateSend
<1>6. SendersHoldTheRow' /\ WaitingHasBudget' /\ NoneIsNoRow'
  BY <1>1, <1>4 DEF SendersHoldTheRow, Sending, WaitingHasBudget, Waiting, NoneIsNoRow
<1> QED BY <1>3, <1>5, <1>6

\* Every step keeps the invariant.
LEMMA DeliverySteps == DeliveryInv /\ [DeliveryNext]_deliveryVars => DeliveryInv'
<1> SUFFICES ASSUME DeliveryInv, [DeliveryNext]_deliveryVars PROVE DeliveryInv'
  OBVIOUS
<1>0. delivery \in Row /\ delivery.attempts \in 0 .. MAX_ATTEMPTS
  BY DEF DeliveryInv, DeliveryTypeOK, Row
<1>1. ASSUME NEW s \in Senders, Emit(s) PROVE DeliveryInv'
  <2>1. /\ delivery = NoRow /\ posts = 0 /\ delivery' = Queued /\ UNCHANGED <<active, posts>>
        /\ \E pc \in {"idle", "spawned"} : Becomes(s, pc)
    BY <1>1 DEF Emit, DeliveryInv, NoneIsNoRow, NoRow
  <2>2. DeliveryTypeOK'
    BY <2>1, DeliveryAssumption DEF DeliveryInv, DeliveryTypeOK, Row, RowStates, Queued, Becomes, SenderState
  <2>3. \A t \in Senders : ~Sending(t)'
    BY <2>1 DEF DeliveryInv, DeliveryTypeOK, SendersHoldTheRow, Sending, Waiting, NoRow, Becomes
  <2>4. OneSenderOneBudget'
    BY <2>1, <2>3, DeliveryAssumption DEF OneSenderOneBudget, BudgetIsShared, NoDuplicateSend, Queued
  <2>5. SendersHoldTheRow' /\ WaitingHasBudget' /\ NoneIsNoRow'
    BY <2>1, <2>3, DeliveryAssumption
    DEF SendersHoldTheRow, Sending, WaitingHasBudget, Waiting, NoneIsNoRow, Queued
  <2> QED BY <2>2, <2>4, <2>5 DEF DeliveryInv
<1>2. ASSUME NEW s \in Senders, ClaimImmediate(s) \/ ClaimScanned(s) PROVE DeliveryInv'
  <2>1. CASE Becomes(s, "idle") /\ UNCHANGED <<delivery, active, posts>>
    BY <2>1, SenderSteps
  <2>2. CASE Waiting /\ Unclaimed /\ Claimed(s, "posting")
    <3>1. delivery.state # "none"
      BY <2>2 DEF Waiting
    <3> QED BY <2>2, <3>1, ClaimSteps DEF Claimed
  <2> QED BY <1>2, <2>1, <2>2 DEF ClaimImmediate, ClaimScanned, Due
<1>3. ASSUME NEW s \in Senders, Scan(s) \/ SenderCrash(s) PROVE DeliveryInv'
  BY <1>3, SenderSteps DEF Scan, SenderCrash
<1>4. ASSUME NEW s \in Senders, Redeliver(s) PROVE DeliveryInv'
  BY <1>4, ClaimSteps DEF Redeliver
<1>5. ASSUME NEW s \in Senders, NEW ok \in BOOLEAN, Finish(s, ok) PROVE DeliveryInv'
  BY <1>5, FinishSteps
<1>6. CASE BackoffElapses
  <2>1. /\ delivery'.state = delivery.state /\ delivery.state = "failed"
        /\ delivery'.attempts = delivery.attempts /\ delivery' \in Row
        /\ UNCHANGED <<active, sender, posts>>
    BY <1>6, <1>0 DEF BackoffElapses, Row
  <2> QED BY <2>1 DEF DeliveryInv, DeliveryTypeOK, OneSenderOneBudget, BudgetIsShared, NoDuplicateSend,
          Sending, SendersHoldTheRow, WaitingHasBudget, Waiting, NoneIsNoRow
<1>7. CASE Switch
  BY <1>7 DEF Switch, DeliveryInv, DeliveryTypeOK, OneSenderOneBudget, BudgetIsShared, NoDuplicateSend,
     Sending, SendersHoldTheRow, WaitingHasBudget, Waiting, NoneIsNoRow
<1>8. CASE DeleteSubscription
  <2>1. delivery' = NoRow /\ active' = FALSE /\ UNCHANGED <<sender, posts>> /\ \A s \in Senders : ~Sending(s)
    BY <1>8 DEF DeleteSubscription, Unclaimed
  <2>2. NoRow \in Row /\ NoRow.state = "none"
    BY DeliveryAssumption DEF NoRow, Row, RowStates
  <2>3. DeliveryTypeOK'
    BY <2>1, <2>2 DEF DeliveryInv, DeliveryTypeOK
  <2>4. OneSenderOneBudget' /\ SendersHoldTheRow' /\ WaitingHasBudget' /\ NoneIsNoRow'
    BY <2>1, <2>2 DEF DeliveryInv, OneSenderOneBudget, BudgetIsShared, NoDuplicateSend, Sending,
       SendersHoldTheRow, WaitingHasBudget, Waiting, NoneIsNoRow
  <2> QED BY <2>3, <2>4 DEF DeliveryInv
<1>9. CASE UNCHANGED deliveryVars
  BY <1>9 DEF deliveryVars, DeliveryInv, DeliveryTypeOK, OneSenderOneBudget, BudgetIsShared, NoDuplicateSend,
     Sending, SendersHoldTheRow, WaitingHasBudget, Waiting, NoneIsNoRow
<1> QED BY <1>1, <1>2, <1>3, <1>4, <1>5, <1>6, <1>7, <1>8, <1>9 DEF DeliveryNext

\* For any number of senders and any budget.
LEMMA DeliveryInvariance == DeliverySpec => []DeliveryInv
BY DeliveryStarts, DeliverySteps, PTL DEF DeliverySpec

\* However immediate attempts, sweeps of all replicas and redeliveries race, one
\* of them POSTs at a time, and together they POST no more than the budget.
THEOREM OneBudget == DeliverySpec => []OneSenderOneBudget
<1>1. DeliveryInv => OneSenderOneBudget
  BY DEF DeliveryInv
<1> QED BY DeliveryInvariance, <1>1, PTL

-----------------------------------------------------------------------------
(* Recurring invoices.                                                      *)

\* The cursor stays on a period or has ended.
LEMMA NextRunOnTyped == \A n \in Nat : NextRunOn(n) \in Periods \union {Ended}
BY RecurringAssumption DEF NextRunOn, Periods, Ended

\* The template, the periods and the requests keep their types.
LEMMA RecurringTyped == RecurringSpec => []RecurringTypeOK
<1>1. RecurringInit => RecurringTypeOK
  <2> SUFFICES ASSUME RecurringInit PROVE RecurringTypeOK
    OBVIOUS
  <2>1. template \in Template
    BY RecurringAssumption DEF RecurringInit, Template, Periods
  <2> QED BY <2>1, RecurringAssumption DEF RecurringInit, RecurringTypeOK
<1>2. RecurringTypeOK /\ [RecurringNext]_recurringVars => RecurringTypeOK'
  <2> SUFFICES ASSUME RecurringTypeOK, [RecurringNext]_recurringVars PROVE RecurringTypeOK'
    OBVIOUS
  <2> USE DEF RecurringTypeOK
  <2>0. /\ \A st \in {"active", "paused", "ended"}, n \in Periods \union {Ended}, c \in BOOLEAN,
              k \in 0 .. MAX_CONSECUTIVE_SKIPS :
             [template EXCEPT !.status = st, !.next = n, !.complete = c, !.skips = k] \in Template
        /\ template.status \in {"active", "paused", "ended"} /\ template.next \in Periods \union {Ended}
        /\ template.complete \in BOOLEAN /\ template.skips \in 0 .. MAX_CONSECUTIVE_SKIPS
    BY DEF Template
  <2>12. 0 \in 0 .. MAX_CONSECUTIVE_SKIPS
    BY RecurringAssumption
  <2>1. ASSUME NEW s \in Replicas, ReadDueTemplates(s) \/ SweepFails(s) PROVE RecurringTypeOK'
    BY <2>1 DEF ReadDueTemplates, SweepFails
  <2>2. ASSUME NEW s \in Replicas, SweepLocked(s) PROVE RecurringTypeOK'
    <3>1. CASE StillDue /\ SweepTemplate
      <4>1. template.next \in Periods /\ NextRunOn(template.next + 1) \in Periods \union {Ended}
        BY <3>1, NextRunOnTyped, RecurringAssumption DEF StillDue, Periods
      <4>2. template' \in Template
        <5>1. \A n \in Periods \union {Ended} : [template EXCEPT !.next = n, !.skips = 0] \in Template
          BY <2>12 DEF Template
        <5>2. \A n \in Periods \union {Ended}, k \in 0 .. MAX_CONSECUTIVE_SKIPS, st \in {"active", "paused"} :
                [template EXCEPT !.next = n, !.skips = k, !.status = st] \in Template
          BY DEF Template
        <5>3. CASE Skips
          <6> DEFINE enough == template.skips + 1 >= MAX_CONSECUTIVE_SKIPS
                     k == IF enough THEN MAX_CONSECUTIVE_SKIPS ELSE template.skips + 1
                     st == IF enough THEN "paused" ELSE template.status
          <6>1. template' = [template EXCEPT !.next = NextRunOn(template.next + 1), !.skips = k, !.status = st]
            BY <5>3, <2>0 DEF Skips
          <6>2. k \in 0 .. MAX_CONSECUTIVE_SKIPS
            <7>1. template.skips \in 0 .. MAX_CONSECUTIVE_SKIPS
              BY <2>0
            <7>2. CASE enough
              BY <7>2, RecurringAssumption
            <7>3. CASE ~enough
              BY <7>1, <7>3, RecurringAssumption
            <7> QED BY <7>2, <7>3
          <6>3. st \in {"active", "paused"}
            BY <3>1 DEF StillDue
          <6> HIDE DEF enough, k, st
          <6> QED BY <6>1, <6>2, <6>3, <5>2, <4>1
        <5>4. CASE ~Skips
          BY <3>1, <5>4, <5>1, <4>1 DEF SweepTemplate, Generates
        <5> QED BY <5>3, <5>4
      <4>3. raised' \in [Periods -> {"nobody", "sweep", "manager"}]
        BY <3>1, <4>1 DEF SweepTemplate, Generates
      <4> QED BY <2>2, <4>2, <4>3 DEF SweepLocked
    <3>2. CASE UNCHANGED <<template, raised>>
      BY <2>2, <3>2 DEF SweepLocked
    <3> QED BY <2>2, <3>1, <3>2 DEF SweepLocked
  <2>3. ASSUME NEW u \in Managers, OpenGenerateNow(u) \/ AbandonGenerateNow(u) PROVE RecurringTypeOK'
    BY <2>3 DEF OpenGenerateNow, AbandonGenerateNow
  <2>4. ASSUME NEW u \in Managers, GenerateNow(u) PROVE RecurringTypeOK'
    <3>1. asking[u] \in Periods /\ NextRunOn(asking[u] + 1) \in Periods \union {Ended}
      BY <2>4, NextRunOnTyped, RecurringAssumption DEF GenerateNow, Periods
    <3>2. template' \in Template
      <4>1. \A n \in Periods \union {Ended} : [template EXCEPT !.next = n, !.skips = 0] \in Template
        BY <2>12 DEF Template
      <4>2. [template EXCEPT !.skips = 0] \in Template
        BY RecurringAssumption DEF Template
      <4> QED BY <2>4, <3>1, <4>1, <4>2 DEF GenerateNow, Generates
    <3>3. raised' \in [Periods -> {"nobody", "sweep", "manager"}]
      BY <2>4, <3>1 DEF GenerateNow, Generates
    <3> QED BY <2>4, <3>2, <3>3 DEF GenerateNow
  <2>5. Reanchored \subseteq Periods \union {Ended}
    BY NextRunOnTyped, RecurringAssumption DEF Reanchored
  <2>6. \A row \in Template : Cleared(row) \in Template
    BY RecurringAssumption DEF Cleared, Template
  <2>7. CASE Edit
    <3>1. \A c \in BOOLEAN : [template EXCEPT !.complete = c] \in Template
      BY DEF Template
    <3>2. \A row \in Template, n \in Reanchored : [row EXCEPT !.next = n] \in Template
      BY <2>5 DEF Template
    <3>3. template' \in Template
      BY <2>7, <2>6, <3>1, <3>2 DEF Edit
    <3> QED BY <2>7, <3>3 DEF Edit
  <2>8. CASE PauseTemplate \/ EndTemplate
    BY <2>8 DEF PauseTemplate, EndTemplate, Template
  <2>9. CASE ResumeTemplate
    <3>1. \A n \in Reanchored : [template EXCEPT !.status = "active", !.next = n] \in Template
      BY <2>5 DEF Template
    <3>2. template' \in Template
      BY <2>9, <2>6, <3>1 DEF ResumeTemplate
    <3> QED BY <2>9, <3>2 DEF ResumeTemplate
  <2>10. CASE PeriodBegins
    BY <2>10, RecurringAssumption DEF PeriodBegins
  <2>11. CASE UNCHANGED recurringVars
    BY <2>11 DEF recurringVars
  <2> QED BY <2>1, <2>2, <2>3, <2>4, <2>7, <2>8, <2>9, <2>10, <2>11 DEF RecurringNext
<1> QED BY <1>1, <1>2, PTL DEF RecurringSpec

\* Whatever other replicas and people commit between a sweep's list and its lock,
\* it raises only what has begun, for a template that is active.
THEOREM SweepsRaiseNothingEarly == RecurringSpec => NothingEarly
<1>1. ASSUME RecurringTypeOK, [RecurringNext]_recurringVars, NEW p \in Periods, raised'[p] # raised[p]
      PROVE  /\ raised[p] = "nobody"
             /\ raised'[p] = "sweep" => p <= today /\ template.status = "active"
  <2>1. CASE \E s \in Replicas : SweepLocked(s) /\ StillDue /\ SweepTemplate
    <3>1. StillDue /\ raised[template.next] = "nobody" /\ Generates(template.next, "sweep")
      BY <2>1, <1>1 DEF SweepTemplate
    <3>2. p = template.next
      BY <3>1, <1>1 DEF Generates, RecurringTypeOK
    <3> QED BY <3>1, <3>2, <1>1 DEF StillDue, RecurringTypeOK
  <2>2. CASE \E u \in Managers : GenerateNow(u)
    <3>1. PICK u \in Managers : raised[asking[u]] = "nobody" /\ Generates(asking[u], "manager")
      BY <2>2, <1>1 DEF GenerateNow
    <3>2. p = asking[u] /\ raised'[p] = "manager"
      BY <3>1, <1>1 DEF Generates, RecurringTypeOK
    <3> QED BY <3>1, <3>2
  <2> QED
    BY <1>1, <2>1, <2>2
    DEF RecurringNext, ReadDueTemplates, SweepLocked, SweepFails, OpenGenerateNow, AbandonGenerateNow,
        Edit, PauseTemplate, ResumeTemplate, EndTemplate, PeriodBegins, recurringVars
<1>2. RecurringTypeOK /\ [RecurringNext]_recurringVars =>
        [\A p \in Periods : raised'[p] # raised[p] =>
           /\ raised[p] = "nobody"
           /\ raised'[p] = "sweep" => p <= today /\ template.status = "active"]_recurringVars
  BY <1>1
<1> QED BY <1>2, RecurringTyped, PTL DEF RecurringSpec, NothingEarly

-----------------------------------------------------------------------------
(* The shipping of the audit trail.                                         *)

\* A set of numbers that is not empty has a least one.
LEMMA HasLeast == ASSUME NEW T, T \subseteq Nat, T # {} PROVE \E x \in T : \A y \in T : x <= y
<1>1. IsWellFoundedOn(OpToRel(<,Nat), Nat)
  BY NatLessThanWellFounded, Zenon
<1>2. PICK x \in T : \A y \in T : ~(<<y, x>> \in OpToRel(<,Nat))
  BY <1>1, WFMin, Zenon
<1>3. \A y \in T : ~(y < x)
  BY <1>2 DEF OpToRel
<1> QED BY <1>3

\* The earliest of some rows is one of them.
LEMMA EarliestIsOne == ASSUME NEW T, T \subseteq Rows, T # {} PROVE Earliest(T) \in T
<1>1. T \subseteq Nat
  BY ShippingAssumption DEF Rows
<1>2. \E x \in T : \A y \in T : x <= y
  BY <1>1, HasLeast
<1> QED BY <1>2 DEF Earliest

\* The sinks are those at the places of the list.
LEMMA SinkPlaces ==
    /\ Len(Adapters) \in Nat \ {0}
    /\ \A n \in 1 .. Len(Adapters) : Adapters[n] \in Sinks
    /\ \A n \in 1 .. Len(Adapters) : SinksBefore(n) \subseteq Sinks
    /\ SinksBefore(1) = {}
    /\ \A n \in 1 .. Len(Adapters) : \A k \in SinksBefore(n + 1) : k \in SinksBefore(n) \/ k = Adapters[n]
    /\ Sinks = SinksBefore(Len(Adapters) + 1)
<1>1. Len(Adapters) \in Nat \ {0}
  BY ShippingAssumption
<1> QED BY <1>1 DEF Sinks, SinksBefore

\* Nothing is written, nothing shipped.
LEMMA TrailStarts == TrailInit => TrailInv
BY ShippingAssumption DEF TrailInit, TrailInv, TrailTypeOK, StampedMeansShipped, TickHasShipped

\* What the sinks hold they keep, so more copies and more rows disturb nothing.
LEMMA CopiesStay ==
    ASSUME TrailInv, worm \subseteq worm'
    PROVE  /\ \A k, r : InSink(k, r) => InSink(k, r)'
           /\ \A r \in stamped, k \in Sinks : InSink(k, r)'
BY DEF TrailInv, InSink, StampedMeansShipped

\* A tick whose fields change within their types is a tick.
LEMMA TickUpdates ==
    ASSUME NEW t \in Ticks, NEW n \in 1 .. Len(Adapters), NEW r \in Rows, NEW f \in Forms,
           NEW ids \in SUBSET Rows
    PROVE  /\ [t EXCEPT !.sink = n] \in Ticks
           /\ [t EXCEPT !.pc = "stamp", !.ids = ids] \in Ticks
           /\ [t EXCEPT !.pc = "row", !.sink = n] \in Ticks
           /\ [t EXCEPT !.sink = n, !.form = f] \in Ticks
           /\ [t EXCEPT !.sink = n, !.form = f, !.row = r, !.ids = ids] \in Ticks
<1>1. [t EXCEPT !.sink = n] \in Ticks
  BY DEF Ticks
<1>2. [t EXCEPT !.pc = "stamp", !.ids = ids] \in Ticks
  BY DEF Ticks
<1>3. [t EXCEPT !.pc = "row", !.sink = n] \in Ticks
  BY DEF Ticks
<1>4. [t EXCEPT !.sink = n, !.form = f] \in Ticks
  BY DEF Ticks
<1>5. [t EXCEPT !.sink = n, !.form = f, !.row = r, !.ids = ids] \in Ticks
  BY DEF Ticks
<1> QED BY <1>1, <1>2, <1>3, <1>4, <1>5

\* The steps of the shipper.
LEMMA ShipperSteps == ASSUME TrailInv, Shipping PROVE TrailInv'
<1> USE DEF TrailInv, TrailTypeOK
<1>1. CASE ReadBatch
  <2> DEFINE batch == Oldest(trail \ stamped)
  <2>1. batch \subseteq trail /\ batch # {}
    BY <1>1 DEF ReadBatch, Oldest
  <2>2. Earliest(batch) \in batch
    BY <2>1, EarliestIsOne
  <2> HIDE DEF batch
  <2>3. /\ tick' = [pc |-> "batch", batch |-> batch, sink |-> 1,
                    row |-> Earliest(batch), form |-> "full", ids |-> {}]
        /\ UNCHANGED <<trail, stamped, worm, down, mishaps>>
    BY <1>1 DEF ReadBatch, batch
  <2>4. tick' \in Ticks
    BY <2>1, <2>2, <2>3, SinkPlaces DEF Ticks, Forms
  <2>5. StampedMeansShipped'
    BY <2>3 DEF StampedMeansShipped
  <2>6. TickHasShipped'
    BY <2>1, <2>2, <2>3, SinkPlaces DEF TickHasShipped, InEverySink, InSink
  <2> QED BY <2>3, <2>4, <2>5, <2>6
<1>2. CASE tick # BetweenTicks /\ tick \in Ticks
  <2>0. /\ tick.sink \in 1 .. Len(Adapters) /\ tick.batch \subseteq Rows /\ tick.ids \subseteq Rows
        /\ tick.row \in Rows /\ tick.form \in Forms /\ tick.pc \in {"batch", "row", "stamp"}
        /\ Sink \in Sinks
    BY <1>2, SinkPlaces DEF Ticks, Sink
  <2>1. CASE ShipBatch
    <3>1. /\ tick.pc = "batch" /\ worm' = worm \union Copies(tick.batch, "full")
          /\ UNCHANGED <<trail, stamped, down, mishaps>>
      BY <2>1 DEF ShipBatch
    <3>2. worm' \subseteq Sinks \X Rows \X Forms
      BY <3>1, <2>0 DEF Copies, Forms
    <3>3. \A k \in SinksBefore(tick.sink + 1), r \in tick.batch : InSink(k, r)'
      <4>1. \A r \in tick.batch : <<Sink, r, "full">> \in worm'
        BY <3>1 DEF Copies
      <4>2. PICK s \in Sinks : s = Sink
        BY <2>0
      <4>4. \A r \in tick.batch : InSink(s, r)'
        BY <4>1, <4>2 DEF InSink, Forms
      <4>3. \A k \in SinksBefore(tick.sink), r \in tick.batch : InSink(k, r)'
        BY <3>1, <1>2, CopiesStay DEF TickHasShipped
      <4>5. \A k \in SinksBefore(tick.sink + 1) : k \in SinksBefore(tick.sink) \/ k = s
        BY <4>2, <2>0, SinkPlaces DEF Sink
      <4> QED BY <4>3, <4>4, <4>5
    <3>4. StampedMeansShipped'
      BY <3>1, CopiesStay DEF StampedMeansShipped, InSink
    <3>5. CASE tick.sink < Len(Adapters)
      <4>1. tick' = [tick EXCEPT !.sink = tick.sink + 1]
        BY <2>1, <3>5 DEF ShipBatch
      <4>2. /\ tick' \in Ticks /\ tick'.sink = tick.sink + 1 /\ tick'.pc = "batch"
            /\ tick'.batch = tick.batch /\ tick'.ids = tick.ids /\ tick'.row = tick.row
        BY <4>1, <3>1, <3>5, <1>2, <2>0, SinkPlaces DEF Ticks
      <4>3. TickHasShipped'
        BY <3>1, <3>3, <4>2, <1>2, CopiesStay DEF TickHasShipped, InEverySink
      <4> QED BY <3>1, <3>2, <3>4, <4>2, <4>3
    <3>6. CASE ~(tick.sink < Len(Adapters))
      <4>1. tick' = [tick EXCEPT !.pc = "stamp", !.ids = tick.batch] /\ tick.sink = Len(Adapters)
        BY <2>1, <3>6, <2>0, SinkPlaces DEF ShipBatch
      <4>2. /\ tick' \in Ticks /\ tick'.pc = "stamp" /\ tick'.batch = tick.batch
            /\ tick'.ids = tick.batch /\ tick'.row = tick.row
        BY <4>1, <1>2, <2>0 DEF Ticks
      <4>3. TickHasShipped'
        BY <3>1, <3>3, <4>1, <4>2, <1>2, SinkPlaces DEF TickHasShipped, InEverySink
      <4> QED BY <3>1, <3>2, <3>4, <4>2, <4>3
    <3> QED BY <3>5, <3>6
  <2>2. CASE BatchFails
    <3>1. /\ tick.pc = "batch" /\ tick' = [tick EXCEPT !.pc = "row", !.sink = 1]
          /\ UNCHANGED <<trail, stamped, down, mishaps>>
      BY <2>2 DEF BatchFails
    <3>2. PICK part \in SUBSET tick.batch : worm' = worm \union Copies(part, "full")
      BY <2>2 DEF BatchFails
    <3>3. worm' \subseteq Sinks \X Rows \X Forms
      BY <3>2, <2>0 DEF Copies, Forms
    <3>4. StampedMeansShipped'
      BY <3>1, <3>2, CopiesStay DEF StampedMeansShipped, InSink
    <3>5. /\ tick' \in Ticks /\ tick'.pc = "row" /\ tick'.sink = 1 /\ tick'.batch = tick.batch
          /\ tick'.ids = tick.ids /\ tick'.row = tick.row
      <4>1. 1 \in 1 .. Len(Adapters)
        BY SinkPlaces
      <4>2. tick' \in Ticks
        BY <3>1, <4>1, <1>2, <2>0, TickUpdates
      <4> QED BY <3>1, <4>2, <1>2 DEF Ticks
    <3>6. tick.row \in tick.batch
      BY <3>1, <1>2 DEF TickHasShipped
    <3>7. TickHasShipped'
      BY <3>1, <3>2, <3>5, <3>6, <1>2, CopiesStay, SinkPlaces DEF TickHasShipped, InEverySink
    <3> QED BY <3>1, <3>3, <3>4, <3>5, <3>7
  <2>3. CASE ShipRow
    <3>1. /\ tick.pc = "row" /\ worm' = worm \union Copies({tick.row}, tick.form) /\ tick' = AfterSink
          /\ UNCHANGED <<trail, stamped, down, mishaps>>
      BY <2>3 DEF ShipRow
    <3>2. worm' \subseteq Sinks \X Rows \X Forms
      BY <3>1, <2>0 DEF Copies
    <3>3. PICK row \in Rows : row = tick.row /\ \A k \in SinksBefore(tick.sink + 1) : InSink(k, row)'
      <4>1. PICK row \in Rows, s \in Sinks : row = tick.row /\ s = Sink
        BY <2>0
      <4>2. InSink(s, row)'
        BY <3>1, <4>1, <2>0 DEF Copies, InSink
      <4>3. \A k \in SinksBefore(tick.sink) : InSink(k, row)'
        BY <3>1, <4>1, <1>2, CopiesStay DEF TickHasShipped
      <4>4. \A k \in SinksBefore(tick.sink + 1) : k \in SinksBefore(tick.sink) \/ k = s
        BY <4>1, <2>0, SinkPlaces DEF Sink
      <4> QED BY <4>1, <4>2, <4>3, <4>4
    <3>4. StampedMeansShipped'
      BY <3>1, CopiesStay DEF StampedMeansShipped, InSink
    <3>5. tick.row \in tick.batch /\ tick.ids \subseteq tick.batch
      BY <3>1, <1>2 DEF TickHasShipped
    <3> DEFINE later == {r \in tick.batch : r > tick.row}
               done  == tick.ids \union {tick.row}
    <3>6. CASE tick.sink < Len(Adapters)
      <4>1. tick' = [tick EXCEPT !.sink = tick.sink + 1, !.form = "full"]
        BY <3>1, <3>6 DEF AfterSink
      <4>2. /\ tick' \in Ticks /\ tick'.sink = tick.sink + 1 /\ tick'.pc = "row"
            /\ tick'.batch = tick.batch /\ tick'.ids = tick.ids /\ tick'.row = tick.row
        <5>1. tick.sink + 1 \in 1 .. Len(Adapters) /\ "full" \in Forms
          BY <3>6, <2>0, SinkPlaces DEF Forms
        <5>2. tick' \in Ticks
          BY <4>1, <5>1, <1>2, <2>0, TickUpdates
        <5> QED BY <4>1, <5>2, <3>1, <1>2 DEF Ticks
      <4>3. TickHasShipped'
        BY <3>1, <3>3, <3>5, <4>2, <1>2, CopiesStay DEF TickHasShipped, InEverySink
      <4> QED BY <3>1, <3>2, <3>4, <4>2, <4>3
    <3>7. CASE ~(tick.sink < Len(Adapters))
      <4>1. tick.sink = Len(Adapters)
        BY <3>7, <2>0, SinkPlaces
      <4>2. \A r \in done, k \in Sinks : InSink(k, r)'
        <5>1. \A k \in Sinks : InSink(k, row)'
          BY <3>3, <4>1, SinkPlaces
        <5>2. \A r \in tick.ids, k \in Sinks : InSink(k, r)'
          BY <3>1, <1>2, CopiesStay DEF TickHasShipped, InEverySink
        <5>3. \A r \in done : r = row \/ r \in tick.ids
          BY <3>3
        <5> QED BY <5>1, <5>2, <5>3
      <4>3. done \subseteq tick.batch /\ done \subseteq Rows
        BY <3>5, <2>0
      <4>4. CASE later # {}
        <5>1. Earliest(later) \in later
          BY <4>4, <2>0, EarliestIsOne
        <5>2. tick' = [tick EXCEPT !.sink = 1, !.form = "full", !.row = Earliest(later), !.ids = done]
          BY <3>1, <3>7, <4>4 DEF AfterSink
        <5>3. Earliest(later) \in tick.batch
          BY <5>1
        <5> HIDE DEF later, done
        <5>4. /\ tick' \in Ticks /\ tick'.sink = 1 /\ tick'.pc = "row"
              /\ tick'.batch = tick.batch /\ tick'.ids = done /\ tick'.row = Earliest(later)
          <6>1. 1 \in 1 .. Len(Adapters) /\ "full" \in Forms /\ Earliest(later) \in Rows
            BY <5>3, <2>0, SinkPlaces DEF Forms
          <6>2. tick' \in Ticks
            BY <5>2, <6>1, <4>3, <1>2, TickUpdates
          <6>3. tick'.sink = 1 /\ tick'.ids = done /\ tick'.row = Earliest(later)
            BY <5>2, <1>2 DEF Ticks
          <6> QED BY <5>2, <6>2, <6>3, <3>1, <1>2 DEF Ticks
        <5>5. TickHasShipped'
          BY <3>1, <4>2, <4>3, <5>3, <5>4, <1>2, SinkPlaces DEF TickHasShipped, InEverySink
        <5> QED BY <3>1, <3>2, <3>4, <5>4, <5>5
      <4>5. CASE later = {}
        <5>2. tick' = [tick EXCEPT !.pc = "stamp", !.ids = done]
          BY <3>1, <3>7, <4>5 DEF AfterSink
        <5> HIDE DEF later, done
        <5>4. /\ tick' \in Ticks /\ tick'.pc = "stamp" /\ tick'.batch = tick.batch
              /\ tick'.ids = done /\ tick'.row = tick.row
          BY <5>2, <4>3, <1>2, <2>0 DEF Ticks
        <5>5. TickHasShipped'
          BY <3>1, <3>5, <4>2, <4>3, <5>4, <1>2 DEF TickHasShipped, InEverySink
        <5> QED BY <3>1, <3>2, <3>4, <5>4, <5>5
      <4> QED BY <4>4, <4>5
    <3> QED BY <3>6, <3>7
  <2>4. CASE RowRefused
    <3>1. /\ tick.pc = "row" /\ UNCHANGED <<trail, stamped, worm, down, mishaps>>
          /\ \/ tick' = [tick EXCEPT !.form = "marker"]
             \/ tick' = [tick EXCEPT !.pc = "stamp"]
      BY <2>4 DEF RowRefused
    <3>2. /\ tick' \in Ticks /\ tick'.pc \in {"row", "stamp"} /\ tick'.sink = tick.sink
          /\ tick'.batch = tick.batch /\ tick'.ids = tick.ids /\ tick'.row = tick.row
      BY <3>1, <1>2 DEF Ticks, Forms
    <3>3. StampedMeansShipped'
      BY <3>1 DEF StampedMeansShipped
    <3>4. TickHasShipped'
      BY <3>1, <3>2, <1>2, CopiesStay DEF TickHasShipped, InEverySink
    <3> QED BY <3>1, <3>2, <3>3, <3>4
  <2>5. CASE Stamp
    <3>1. /\ stamped' = stamped \union tick.ids /\ tick' = BetweenTicks
          /\ UNCHANGED <<trail, worm, down, mishaps>>
      BY <2>5 DEF Stamp
    <3>2. tick.ids \subseteq trail /\ InEverySink(tick.ids)
      BY <1>2 DEF TickHasShipped
    <3>3. StampedMeansShipped'
      BY <3>1, <3>2 DEF StampedMeansShipped, InEverySink, InSink
    <3> QED BY <3>1, <3>2, <3>3 DEF TickHasShipped
  <2> QED
    BY <1>2, <2>1, <2>2, <2>3, <2>4, <2>5 DEF Shipping, ReadBatch
<1>3. tick # BetweenTicks => tick \in Ticks
  OBVIOUS
<1>4. tick = BetweenTicks => tick.pc = "between"
  BY DEF BetweenTicks
<1> QED BY <1>1, <1>2, <1>3, <1>4 DEF Shipping, ShipBatch, BatchFails, ShipRow, RowRefused, Stamp

\* Every step keeps the invariant.
LEMMA TrailSteps == TrailInv /\ [TrailNext]_trailVars => TrailInv'
<1> SUFFICES ASSUME TrailInv, [TrailNext]_trailVars PROVE TrailInv'
  OBVIOUS
<1>1. CASE Shipping
  BY <1>1, ShipperSteps
<1>2. ASSUME NEW r \in Rows, WriteRow(r) PROVE TrailInv'
  <2>1. TrailTypeOK' /\ StampedMeansShipped'
    BY <1>2 DEF WriteRow, TrailInv, TrailTypeOK, StampedMeansShipped
  <2>2. TickHasShipped'
    BY <1>2 DEF WriteRow, TrailInv, TickHasShipped, InEverySink, InSink
  <2> QED BY <2>1, <2>2 DEF TrailInv
<1>3. CASE ShipperCrash
  <2>1. mishaps' \in 0 .. MAX_MISHAPS
    BY <1>3, ShippingAssumption DEF ShipperCrash, TrailInv, TrailTypeOK
  <2>2. tick' = BetweenTicks /\ UNCHANGED <<trail, stamped, worm, down>>
    BY <1>3 DEF ShipperCrash
  <2> QED BY <2>1, <2>2 DEF TrailInv, TrailTypeOK, StampedMeansShipped, TickHasShipped
<1>4. ASSUME NEW k \in Sinks, SinkGoesDown(k) \/ SinkRecovers(k) PROVE TrailInv'
  <2>1. TrailTypeOK' /\ StampedMeansShipped'
    BY <1>4, ShippingAssumption
    DEF SinkGoesDown, SinkRecovers, TrailInv, TrailTypeOK, StampedMeansShipped
  <2>2. TickHasShipped'
    BY <1>4 DEF SinkGoesDown, SinkRecovers, TrailInv, TickHasShipped, InEverySink, InSink
  <2> QED BY <2>1, <2>2 DEF TrailInv
<1>5. CASE UNCHANGED trailVars
  BY <1>5 DEF trailVars, TrailInv, TrailTypeOK, StampedMeansShipped, TickHasShipped, InEverySink, InSink
<1> QED BY <1>1, <1>2, <1>3, <1>4, <1>5 DEF TrailNext, Shipping

\* For any trail, any sinks and what they refuse, and any batch size.
LEMMA TrailInvariance == TrailSpec => []TrailInv
BY TrailStarts, TrailSteps, PTL DEF TrailSpec

\* A row is stamped only once every sink has it, through partial batches, refused
\* rows, outages and crashes.
THEOREM StampsAreEarned == TrailSpec => []StampedMeansShipped
<1>1. TrailInv => StampedMeansShipped
  BY DEF TrailInv
<1> QED BY TrailInvariance, <1>1, PTL
=============================================================================
