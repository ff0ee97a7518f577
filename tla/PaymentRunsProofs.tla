-------------------------- MODULE PaymentRunsProofs --------------------------
(* Theorems about PaymentRuns, for every value of its constants.           *)
EXTENDS PaymentRuns, TLAPS

-----------------------------------------------------------------------------
(* The types of what the actions write.                                    *)

\* The row of no insert and the row of an insert are rows.
LEMMA NewRowType ==
    ASSUME NEW i \in Invoices, NEW r \in Runs \cup {NoRun},
           NEW old \in Payments \cup {NoPayment}
    PROVE  NewRow(i, r, old) \in Row /\ NoRow \in Row
BY DEF NewRow, NoRow, Row, PaymentStatuses

\* What an insert writes in the columns the later lemmas read.
LEMMA NewRowFields ==
    ASSUME NEW i, NEW r, NEW old
    PROVE  /\ NewRow(i, r, old).inv = i /\ NewRow(i, r, old).run = r
           /\ NewRow(i, r, old).retryOf = old /\ NewRow(i, r, old).status = "pending"
           /\ NewRow(i, r, old).ref = FALSE
BY DEF NewRow, NoRow

\* What a row not inserted yet says.
LEMMA NoRowFields ==
    /\ NoRow.inv = NoInvoice /\ NoRow.run = NoRun /\ NoRow.retryOf = NoPayment
    /\ NoRow.status = "none" /\ NoRow.ref = FALSE
BY DEF NoRow

\* A worker without a request has a task like any other.
LEMMA IdleType == Idle \in Task
BY DEF Idle, Task, NoRow, Row, PaymentStatuses, InvoiceStatuses

\* What such a task says of locks and claims.
LEMMA IdleFields ==
    /\ Idle.at = NoPayment /\ Idle.stage = "loop"
    /\ Idle.kind = "idle" /\ Idle.roll = ""
BY DEF Idle

\* The rollup of a run is a run status, whatever its rows are.
LEMMA RollupType ==
    ASSUME NEW table, NEW r PROVE Rollup(table, r) \in RunStatuses
BY DEF Rollup, RunStatuses

\* So is the derived status.
LEMMA DerivedType ==
    ASSUME NEW table, NEW r PROVE Derived(table, r) \in RunStatuses
BY RollupType DEF Derived, CLAIM_RUN_STATUSES, RunStatuses

\* A recompute writes a run status or nothing.
LEMMA RecomputedType ==
    ASSUME NEW w PROVE Recomputed(w) \in RunStatuses \cup {""}
BY DerivedType DEF Recomputed

\* A failed row is a row.
LEMMA FailedType ==
    ASSUME NEW row \in Row
    PROVE  Refused(row) \in Row /\ InDoubt(row) \in Row
BY DEF Refused, InDoubt, Row, PaymentStatuses

\* A recorded verdict leaves a row.
LEMMA SettledType ==
    ASSUME NEW row \in Row, NEW verdict PROVE Settled(row, verdict) \in Row
BY DEF Settled, Row, PaymentStatuses

\* The gates leave a task.
LEMMA GatedType ==
    ASSUME TypeOK, NEW t \in Task, NEW p \in Payments PROVE Gated(t, p) \in Task
<1> USE DEF TypeOK
<1>1. pay[p] \in Row /\ Refused(pay[p]) \in Row
  BY FailedType
<1>2. CASE Payable(pay[p].inv)
  <2>1. invoice[pay[p].inv] \in InvoiceStatuses
    BY <1>2 DEF Payable, PAYABLE, InvoiceStatuses
  <2> QED BY <1>1, <2>1 DEF Gated, Task
<1>3. CASE ~Payable(pay[p].inv)
  BY <1>1, <1>3 DEF Gated, Task
<1> QED BY <1>2, <1>3

-----------------------------------------------------------------------------
(* Type correctness.                                                       *)

\* The empty tables are well typed.
LEMMA InitType == Init => TypeOK
<1> SUFFICES ASSUME Init PROVE TypeOK
  OBVIOUS
<1>1. pay \in [Payments -> Row]
  BY DEF Init, NoRow, Row, PaymentStatuses
<1>2. task \in [Workers -> Task]
  BY IdleType DEF Init
<1>3. run \in [Runs -> RunRow]
  BY DEF Init, NoRunRow, RunRow, RunStatuses
<1>4. sweep \in Sweep
  BY DEF Init, Sweep
<1> QED BY <1>1, <1>2, <1>3, <1>4 DEF Init, TypeOK, InvoiceStatuses, Flags, OrderStates

\* Starting a dispatch pass over a table of rows is a task.
LEMMA StartDispatchType ==
    ASSUME TypeOK, NEW w \in Workers, NEW u \in Users, NEW r \in Runs, NEW table,
           StartDispatch(w, u, r, table)
    PROVE  task' \in [Workers -> Task]
<1>1. PendingOf(table, r) \in SUBSET Payments
  BY DEF PendingOf
<1>2. [Idle EXCEPT !.kind = "dispatch", !.user = u, !.run = r,
                   !.todo = PendingOf(table, r)] \in Task
  BY <1>1, IdleType DEF Task
<1> QED BY <1>2 DEF StartDispatch, TypeOK

\* A decision about the row a worker holds keeps the types.
LEMMA DecideType ==
    ASSUME TypeOK, NEW w \in Workers, NEW new \in Row, NEW state \in OrderStates,
           Decide(w, new, state)
    PROVE  TypeOK'
<1>1. task[w] \in Task
  BY DEF TypeOK
<1>2. [task[w] EXCEPT !.stage = "decided", !.new = new] \in Task
  BY <1>1 DEF Task
<1>3. task' \in [Workers -> Task]
  BY <1>2 DEF TypeOK, Decide
<1>4. order' \in [Payments -> OrderStates]
  BY DEF TypeOK, Decide
<1> QED BY <1>3, <1>4 DEF TypeOK, Decide

\* So does a recorded verdict.
LEMMA RecordType ==
    ASSUME TypeOK, NEW p \in Payments, NEW verdict, Record(p, verdict)
    PROVE  pay' \in [Payments -> Row] /\ flags' \in [Invoices -> SUBSET Flags]
<1>1. Settled(pay[p], verdict) \in Row
  BY SettledType DEF TypeOK
<1>2. pay' \in [Payments -> Row]
  BY <1>1 DEF Record, TypeOK
<1>3. flags' \in [Invoices -> SUBSET Flags]
  <2>1. CASE verdict = "short"
    BY <2>1 DEF Record, TypeOK, Flags
  <2>2. CASE verdict # "short"
    BY <2>2 DEF Record, TypeOK
  <2> QED BY <2>1, <2>2
<1> QED BY <1>2, <1>3

\* Booking, approving and cancelling runs keep the types.
LEMMA BookingType ==
    ASSUME TypeOK, Booking PROVE TypeOK'
<1>1. ASSUME NEW u \in Users, NEW r \in Runs, CreateRun(u, r) PROVE TypeOK'
  <2>1. PICK S \in (SUBSET Invoices) \ {{}} : \E row \in [S -> Unused] :
           pay' = [p \in Payments |->
                     IF \E i \in S : row[i] = p
                     THEN NewRow(CHOOSE i \in S : row[i] = p, r, NoPayment)
                     ELSE pay[p]]
    BY <1>1 DEF CreateRun
  <2>2. PICK row \in [S -> Unused] :
           pay' = [p \in Payments |->
                     IF \E i \in S : row[i] = p
                     THEN NewRow(CHOOSE i \in S : row[i] = p, r, NoPayment)
                     ELSE pay[p]]
    BY <2>1
  <2>3. ASSUME NEW p \in Payments PROVE pay'[p] \in Row
    <3>1. CASE \E i \in S : row[i] = p
      <4> DEFINE j == CHOOSE i \in S : row[i] = p
      <4>1. j \in Invoices
        BY <3>1
      <4>2. NewRow(j, r, NoPayment) \in Row
        BY <4>1, NewRowType
      <4>3. pay'[p] = NewRow(j, r, NoPayment)
        BY <2>2, <3>1
      <4> QED BY <4>2, <4>3
    <3>2. CASE ~ \E i \in S : row[i] = p
      BY <2>2, <3>2 DEF TypeOK
    <3> QED BY <3>1, <3>2
  <2>4. pay' \in [Payments -> Row]
    BY <2>2, <2>3
  <2>5. run' \in [Runs -> RunRow]
    BY <1>1 DEF CreateRun, TypeOK, RunRow, RunStatuses
  <2> QED BY <1>1, <2>4, <2>5 DEF CreateRun, TypeOK
<1>2. ASSUME NEW u \in Users, NEW r \in Runs, ApproveRun(u, r) PROVE TypeOK'
  <2>1. run' \in [Runs -> RunRow]
    BY <1>2 DEF ApproveRun, TypeOK, RunRow
  <2> QED BY <1>2, <2>1 DEF ApproveRun, TypeOK
<1>3. ASSUME NEW i \in Invoices, NEW p \in Payments, CreatePayment(i, p) PROVE TypeOK'
  <2>1. NewRow(i, NoRun, NoPayment) \in Row
    BY NewRowType
  <2> QED BY <1>3, <2>1 DEF CreatePayment, TypeOK
<1>4. ASSUME NEW r \in Runs, CancelRun(r) PROVE TypeOK'
  <2>1. ASSUME NEW p \in Payments PROVE [pay[p] EXCEPT !.status = "deleted"] \in Row
    BY DEF TypeOK, Row, PaymentStatuses
  <2>2. pay' \in [Payments -> Row]
    BY <1>4, <2>1 DEF CancelRun, TypeOK
  <2>3. run' \in [Runs -> RunRow]
    BY <1>4 DEF CancelRun, TypeOK, RunRow, RunStatuses
  <2> QED BY <1>4, <2>2, <2>3 DEF CancelRun, TypeOK
<1> QED BY <1>1, <1>2, <1>3, <1>4 DEF Booking

\* So does every request that a worker accepts,
LEMMA RequestType ==
    ASSUME TypeOK, RowsAgree, NEW w \in Workers, Request(w) PROVE TypeOK'
<1>1. ASSUME NEW u \in Users, NEW r \in Runs, Execute(w, u, r) PROVE TypeOK'
  <2>1. task' \in [Workers -> Task]
    BY <1>1, StartDispatchType DEF Execute
  <2>2. run' \in [Runs -> RunRow]
    BY <1>1 DEF Execute, TypeOK, RunRow, RunStatuses
  <2> QED BY <1>1, <2>1, <2>2 DEF Execute, TypeOK
<1>2. ASSUME NEW u \in Users, NEW r \in Runs, Resume(w, u, r) PROVE TypeOK'
  <2>1. task' \in [Workers -> Task]
    BY <1>2, StartDispatchType DEF Resume
  <2> QED BY <1>2, <2>1 DEF Resume, TypeOK
<1>3. ASSUME NEW u \in Users, NEW r \in Runs, RetryFailed(w, u, r) PROVE TypeOK'
  <2> DEFINE table(S, row) ==
        [q \in Payments |->
            IF \E p \in S : row[p] = q
            THEN LET old == CHOOSE p \in S : row[p] = q IN NewRow(pay[old].inv, r, old)
            ELSE pay[q]]
  <2>0. PICK S \in SUBSET Retryable(r) : \E row \in [S -> Unused] :
           pay' = table(S, row) /\ StartDispatch(w, u, r, table(S, row))
    BY <1>3 DEF RetryFailed
  <2>1. PICK row \in [S -> Unused] :
           pay' = table(S, row) /\ StartDispatch(w, u, r, table(S, row))
    BY <2>0
  <2>2. ASSUME NEW q \in Payments PROVE pay'[q] \in Row
    <3>1. CASE \E p \in S : row[p] = q
      <4> DEFINE old == CHOOSE p \in S : row[p] = q
      <4>1. old \in Payments /\ old \in S
        BY <3>1 DEF Retryable, ActiveRows
      <4>2. pay'[q] = NewRow(pay[old].inv, r, old)
        BY <2>1, <3>1
      <4>3. pay[old].inv \in Invoices \cup {NoInvoice}
        BY <4>1 DEF TypeOK, Row
      <4>4. NewRow(pay[old].inv, r, old) \in Row
        BY <4>1, <4>3 DEF NewRow, NoRow, Row, PaymentStatuses
      <4> QED BY <4>2, <4>4
    <3>2. CASE ~ \E p \in S : row[p] = q
      BY <2>1, <3>2 DEF TypeOK
    <3> QED BY <3>1, <3>2
  <2>3. pay' \in [Payments -> Row]
    BY <2>1, <2>2
  <2>4. task' \in [Workers -> Task]
    BY <2>1, StartDispatchType
  <2>5. run' \in [Runs -> RunRow]
    <3>1. run' = [run EXCEPT ![r].status = "executing"]
      BY <1>3 DEF RetryFailed
    <3> QED BY <3>1 DEF TypeOK, RunRow, RunStatuses
  <2> QED BY <1>3, <2>3, <2>4, <2>5 DEF RetryFailed, TypeOK
<1>4. ASSUME NEW p \in Payments, Release(w, p) PROVE TypeOK'
  <2>1. [Idle EXCEPT !.kind = "release"] \in Task
    BY IdleType DEF Task
  <2>2. task' \in [Workers -> Task]
    BY <1>4, <2>1, GatedType DEF Release, TypeOK
  <2> QED BY <1>4, <2>2 DEF Release, TypeOK
<1>5. ASSUME NEW p \in Payments, Void(w, p) PROVE TypeOK'
  <2>1. [pay[p] EXCEPT !.status = "voided"] \in Row
    BY DEF TypeOK, Row, PaymentStatuses
  <2>2. invoice[pay[p].inv] \in InvoiceStatuses
    BY <1>5 DEF Void, Live, LiveStatuses, RowsAgree, TypeOK
  <2>3. [Idle EXCEPT !.kind = "void", !.stage = "decided", !.at = p,
                     !.seen = invoice[pay[p].inv],
                     !.new = [pay[p] EXCEPT !.status = "voided"]] \in Task
    BY <2>1, <2>2, IdleType DEF Task
  <2>4. task' \in [Workers -> Task]
    BY <1>5, <2>3 DEF Void, TypeOK
  <2>5. order' \in [Payments -> OrderStates]
    BY <1>5 DEF Void, TypeOK, OrderStates
  <2> QED BY <1>5, <2>4, <2>5 DEF Void, TypeOK
<1>6. ASSUME NEW p \in Payments, Dismiss(w, p) PROVE TypeOK'
  <2>1. Refused(pay[p]) \in Row
    BY FailedType DEF TypeOK
  <2>2. [Idle EXCEPT !.kind = "dismiss", !.stage = "decided", !.at = p,
                     !.new = Refused(pay[p])] \in Task
    BY <2>1, IdleType DEF Task
  <2>3. task' \in [Workers -> Task]
    BY <1>6, <2>2 DEF Dismiss, TypeOK
  <2> QED BY <1>6, <2>3 DEF Dismiss, TypeOK
<1>7. ASSUME NEW p \in Payments, LegRead(w, p) PROVE TypeOK'
  <2>1. [Idle EXCEPT !.kind = "leg", !.todo = {p}] \in Task
    BY IdleType DEF Task
  <2>2. task' \in [Workers -> Task]
    BY <1>7, <2>1 DEF LegRead, TypeOK
  <2> QED BY <1>7, <2>2 DEF LegRead, TypeOK
<1> QED BY <1>1, <1>2, <1>3, <1>4, <1>5, <1>6, <1>7 DEF Request

\* every later step of that request,
LEMMA WorkType ==
    ASSUME TypeOK, Locks, NEW w \in Workers, Work(w) PROVE TypeOK'
<1> USE DEF TypeOK
<1>0. task[w] \in Task
  OBVIOUS
<1>1. ASSUME NEW p \in Payments, DispatchRow(w, p) PROVE TypeOK'
  <2>1. [task[w] EXCEPT !.todo = @ \ {p}] \in Task
    BY <1>0 DEF Task
  <2>2. task' \in [Workers -> Task]
    BY <1>1, <2>1, GatedType DEF DispatchRow
  <2> QED BY <1>1, <2>2 DEF DispatchRow
<1>2. task[w].stage = "gated" => task[w].at \in Payments /\ pay[task[w].at] \in Row
                                 /\ order[task[w].at] \in OrderStates
  BY <1>0 DEF Locks, Holding, Task
<1>3. ASSUME Refuse(w) PROVE TypeOK'
  BY <1>2, <1>3, FailedType, DecideType DEF Refuse
<1>4. ASSUME Hold(w) PROVE TypeOK'
  <2>1. [pay[task[w].at] EXCEPT !.status = "pending_compliance"] \in Row
    BY <1>2, <1>4 DEF Hold, Row, PaymentStatuses
  <2> QED BY <1>2, <1>4, <2>1, DecideType DEF Hold
<1>5. ASSUME Send(w) PROVE TypeOK'
  <2> DEFINE p == task[w].at
             new(state) == [pay[p] EXCEPT !.status = Reply(state), !.ref = TRUE,
                              !.why = IF Reply(state) = "failed" THEN "in_doubt" ELSE ""]
  <2>1. PICK state \in IF order[p] = "none" THEN {"open", "settled", "rejected"} ELSE {order[p]} :
           Decide(w, new(state), state)
    BY <1>5 DEF Send
  <2>2. state \in OrderStates
    BY <1>2, <1>5 DEF Send, OrderStates
  <2>3. Reply(state) \in PaymentStatuses
    BY DEF Reply, PaymentStatuses
  <2>4. new(state) \in Row
    BY <1>2, <1>5, <2>3 DEF Send, Row
  <2> QED BY <2>1, <2>2, <2>4, DecideType
<1>6. ASSUME Raise(w) PROVE TypeOK'
  <2>1. PICK state \in {order[task[w].at]} \cup
              (IF "lost_reply" \in Mishaps /\ order[task[w].at] = "none" THEN {"open"} ELSE {}) :
           Decide(w, InDoubt(pay[task[w].at]), state)
    BY <1>6 DEF Raise
  <2>2. state \in OrderStates
    BY <1>2, <1>6 DEF Raise, OrderStates
  <2> QED BY <1>2, <1>6, <2>1, <2>2, FailedType, DecideType DEF Raise
<1>7. ASSUME ReadRun(w) PROVE TypeOK'
  <2>1. [task[w] EXCEPT !.stage = "rolled", !.roll = Recomputed(w)] \in Task
    BY <1>0, RecomputedType DEF Task
  <2>2. task' \in [Workers -> Task]
    BY <1>7, <2>1 DEF ReadRun
  <2> QED BY <1>7, <2>2 DEF ReadRun
<1>8. ASSUME Commit(w) PROVE TypeOK'
  <2>1. task[w].new \in Row /\ task[w].roll \in RunStatuses \cup {""}
    BY <1>0 DEF Task
  <2>2. pay' \in [Payments -> Row]
    BY <1>8, <2>1 DEF Commit, Table
  <2>3. ASSUME NEW i \in Invoices PROVE invoice'[i] \in InvoiceStatuses
    BY <1>8, <2>3 DEF Commit, InvoiceWrite, InvoiceStatuses
  <2>4. invoice' \in [Invoices -> InvoiceStatuses]
    BY <1>8, <2>3 DEF Commit
  <2>5. run' \in [Runs -> RunRow]
    <3> DEFINE roll == IF task[w].stage = "rolled" THEN task[w].roll ELSE Recomputed(w)
    <3>1. run' = IF roll = "" THEN run ELSE [run EXCEPT ![task[w].new.run].status = roll]
      BY <1>8 DEF Commit
    <3>2. roll \in RunStatuses \cup {""}
      BY <2>1, RecomputedType
    <3> HIDE DEF roll
    <3>3. run \in [Runs -> RunRow]
      BY DEF TypeOK
    <3> QED BY <3>1, <3>2, <3>3 DEF RunRow
  <2>6. [Idle EXCEPT !.kind = "dispatch", !.user = task[w].user, !.run = task[w].run,
                     !.todo = task[w].todo] \in Task
    BY <1>0, IdleType DEF Task
  <2>7. task' \in [Workers -> Task]
    BY <1>8, <2>6, IdleType DEF Commit
  <2> QED BY <1>8, <2>2, <2>4, <2>5, <2>7 DEF Commit
<1>9. ASSUME Finish(w) PROVE TypeOK'
  <2>1. run' \in [Runs -> RunRow]
    BY <1>9, RollupType DEF Finish, RunRow
  <2>2. task' \in [Workers -> Task]
    BY <1>9, IdleType DEF Finish
  <2> QED BY <1>9, <2>1, <2>2 DEF Finish
<1>10. ASSUME LegApply(w) PROVE TypeOK'
  <2>1. invoice' \in [Invoices -> InvoiceStatuses]
    BY <1>10 DEF LegApply, InvoiceStatuses
  <2>2. task' \in [Workers -> Task]
    BY <1>10, IdleType DEF LegApply
  <2> QED BY <1>10, <2>1, <2>2 DEF LegApply
<1> QED BY <1>1, <1>3, <1>4, <1>5, <1>6, <1>7, <1>8, <1>9, <1>10 DEF Work

\* every step of the webhook, the reconciler and the ERP-sync leg,
LEMMA SettlementType ==
    ASSUME TypeOK, Settlement PROVE TypeOK'
<1> USE DEF TypeOK
<1>1. ASSUME NEW p \in Payments, Webhook(p) PROVE TypeOK'
  BY <1>1, RecordType DEF Webhook
<1>2. ASSUME NEW p \in Payments, SweepPoll(p) PROVE TypeOK'
  <2>1. sweep' \in Sweep
    BY <1>2 DEF SweepPoll, Sweep
  <2> QED BY <1>2, <2>1 DEF SweepPoll
<1>3. ASSUME NEW p \in Payments, AgeOut(p) PROVE TypeOK'
  <2>1. pay' \in [Payments -> Row]
    BY <1>3, FailedType DEF AgeOut
  <2>2. flags' \in [Invoices -> SUBSET Flags]
    BY <1>3 DEF AgeOut, Flags
  <2> QED BY <1>3, <2>1, <2>2 DEF AgeOut
<1>4. ASSUME NEW p \in Payments, SyncLeg(p) PROVE TypeOK'
  BY <1>4 DEF SyncLeg, InvoiceStatuses
<1>5. ASSUME NEW p \in Payments, AcceptSettlement(p) PROVE TypeOK'
  BY <1>5 DEF AcceptSettlement, InvoiceStatuses
<1>6. ASSUME SweepApply PROVE TypeOK'
  <2>1. sweep' \in Sweep
    BY <1>6 DEF SweepApply, Sweep
  <2>2. sweep.row \in Payments
    BY <1>6 DEF SweepApply, Sweep
  <2>3. pay' \in [Payments -> Row] /\ flags' \in [Invoices -> SUBSET Flags]
    BY <1>6, <2>2, RecordType DEF SweepApply
  <2> QED BY <1>6, <2>1, <2>3 DEF SweepApply
<1> QED BY <1>1, <1>2, <1>3, <1>4, <1>5, <1>6 DEF Settlement

\* and what happens to exceptions, ERP pushes and orders.
LEMMA SurroundingsType ==
    ASSUME TypeOK, Surroundings PROVE TypeOK'
<1> USE DEF TypeOK
<1>1. ASSUME NEW i \in Invoices, RaiseFlag(i) PROVE TypeOK'
  BY <1>1 DEF RaiseFlag, Flags
<1>2. ASSUME NEW i \in Invoices, ErpPush(i) PROVE TypeOK'
  BY <1>2 DEF ErpPush, PUSH_MOVES, InvoiceStatuses
<1>3. ASSUME NEW i \in Invoices, NEW e \in Flags, ResolveFlag(i, e) PROVE TypeOK'
  BY <1>3 DEF ResolveFlag
<1>4. ASSUME NEW p \in Payments, ProcessorDecides(p) PROVE TypeOK'
  BY <1>4 DEF ProcessorDecides, OrderStates
<1> QED BY <1>1, <1>2, <1>3, <1>4 DEF Surroundings

-----------------------------------------------------------------------------
(* What one step may do to the three tables a request works on.            *)

\* A row that exists keeps its invoice, its run and its predecessor, and moves
\* to a legal status; one that a worker holds waits for that worker, one of a
\* draft run is sent by nobody, and one is deleted with its run.
RowKept(p) ==
    /\ pay'[p].inv = pay[p].inv /\ pay'[p].run = pay[p].run
    /\ pay'[p].retryOf = pay[p].retryOf
    /\ pay'[p].status = pay[p].status \/ <<pay[p].status, pay'[p].status>> \in PAYMENT_MOVES
    /\ pay'[p].status # "none"
    /\ pay[p].ref => pay'[p].ref
    /\ pay'[p].status = "deleted" =>
         ~pay'[p].ref /\ (pay[p].status = "deleted" \/ run'[pay[p].run].status = "cancelled")
    /\ pay[p].run # NoRun /\ ~Dispatched(pay[p].run) =>
         pay'[p].status \in {"pending", "voided", "deleted"} /\ ~pay'[p].ref
    /\ \A v \in Workers : task[v].at = p /\ task'[v] = task[v] => pay'[p] = pay[p]

\* A row that appears is a pending one for an invoice whose slot was empty.
RowBooked(p) ==
    \E i \in Invoices, r \in Runs \cup {NoRun}, old \in Payments \cup {NoPayment} :
        /\ pay'[p] = NewRow(i, r, old)
        /\ ~Occupied(i)
        /\ r # NoRun => run'[r].status # "none"
        /\ old # NoPayment => pay[old].status # "none"

\* Every row is left alone, moved as RowKept says or inserted as RowBooked says.
RowStep ==
    /\ \A p \in Payments : pay[p].status # "none" => RowKept(p)
    /\ \A p \in Payments : pay[p].status = "none" => pay'[p] = pay[p] \/ RowBooked(p)
    /\ \A p, q \in Payments :
         /\ pay[p].status = "none" /\ pay[q].status = "none"
         /\ pay'[p] # pay[p] /\ pay'[q] # pay[q]
         /\ pay'[p].inv = pay'[q].inv
         => p = q

\* A run appears with a row, and once dispatched it never is a draft again.
RunStep ==
    \A r \in Runs :
        /\ run[r].status = "none" /\ run'[r].status # "none" =>
             \E p \in Payments :
                 pay[p].status = "none" /\ pay'[p].status # "none" /\ pay'[p].run = r
        /\ run[r].status # "none" => run'[r].status # "none"
        /\ run[r].status = "cancelled" => run'[r].status = "cancelled"
        /\ Dispatched(r) => Dispatched(r)'

\* One worker moves; what it ends up with respects the locks.
TaskStep ==
    /\ \A v, w \in Workers : task'[v] # task[v] /\ task'[w] # task[w] => v = w
    /\ \A w \in Workers : task'[w] # task[w] =>
         /\ Holding(task[w])' /\ DraftsUntouched(task[w])'
         /\ task'[w].at = NoPayment \/ task'[w].at = task[w].at \/ Free(task'[w].at)

\* A row a step leaves alone is kept.
LEMMA SameRow ==
    ASSUME IInv, NEW p \in Payments, pay[p].status # "none", pay'[p] = pay[p]
    PROVE  RowKept(p)
BY DEF IInv, RowKept, DraftsUnsent

\* A step that writes no payment respects the table.
LEMMA QuietRows ==
    ASSUME IInv, pay' = pay PROVE RowStep
BY SameRow DEF RowStep

\* So does a step that leaves every row alone but one, which it keeps.
LEMMA OneRowStep ==
    ASSUME IInv, NEW p \in Payments, pay[p].status # "none",
           \A q \in Payments : q # p => pay'[q] = pay[q], RowKept(p)
    PROVE  RowStep
<1>1. \A q \in Payments : pay[q].status # "none" => RowKept(q)
  BY SameRow
<1> QED BY <1>1 DEF RowStep

\* A step that writes no run, or no task, respects that table.
LEMMA QuietRuns ==
    ASSUME run' = run PROVE RunStep
BY DEF RunStep, Dispatched

\* A step that changes no task.
LEMMA QuietTasks ==
    ASSUME task' = task PROVE TaskStep
BY DEF TaskStep

\* A step in which one worker takes a new task respects the locks if that task
\* does.
LEMMA OneTaskStep ==
    ASSUME IInv, NEW w \in Workers, NEW t, task' = [task EXCEPT ![w] = t],
           Holding(task[w])', DraftsUntouched(task[w])',
           t.at = NoPayment \/ t.at = task[w].at \/ Free(t.at)
    PROVE  TaskStep
<1>1. \A v \in Workers : task'[v] = IF v = w THEN t ELSE task[v]
  BY DEF IInv, TypeOK
<1> QED BY <1>1 DEF TaskStep

\* A worker that is done holds nothing.
LEMMA IdleHolds ==
    ASSUME NEW w \in Workers, task'[w] = Idle
    PROVE  Holding(task[w])' /\ DraftsUntouched(task[w])'
<1>1. /\ task'[w].at = NoPayment /\ task'[w].stage = "loop"
      /\ task'[w].kind = "idle" /\ task'[w].roll = ""
  BY IdleFields
<1> QED BY <1>1 DEF Holding, DraftsUntouched

\* A run with rows that count rolls up to a status of a dispatched run.
LEMMA RollupDispatched ==
    ASSUME NEW table, NEW r, ActiveRows(table, r) # {}
    PROVE  Rollup(table, r) \in RunStatuses \ {"none", "draft", "cancelled"}
BY DEF Rollup, RunStatuses

\* Which rows count depends on the identity of the rows and on which are gone.
LEMMA SameActive ==
    ASSUME NEW one, NEW other, NEW r,
           \A p \in Payments :
               /\ one[p].run = other[p].run /\ one[p].retryOf = other[p].retryOf
               /\ one[p].status = "none" <=> other[p].status = "none"
               /\ one[p].status = "deleted" <=> other[p].status = "deleted"
    PROVE  ActiveRows(one, r) = ActiveRows(other, r)
BY DEF ActiveRows

\* A recompute that writes anything writes the status of a dispatched run on a
\* dispatched run.
LEMMA RecomputedDispatched ==
    ASSUME IInv, NEW w \in Workers, task[w].stage \in {"decided", "rolled"},
           Recomputed(w) # ""
    PROVE  /\ task[w].new.run \in Runs /\ Dispatched(task[w].new.run)
           /\ Recomputed(w) \in RunStatuses \ {"none", "draft", "cancelled"}
<1> DEFINE r == task[w].new.run
           a == task[w].at
<1>1. /\ a \in Payments /\ Live(a)
      /\ task[w].new.run = pay[a].run /\ task[w].new.retryOf = pay[a].retryOf
      /\ task[w].new.status \notin {"none", "deleted"}
  BY DEF IInv, TypeOK, Task, Locks, Holding
<1>2. /\ r # NoRun /\ Derived(Table(w), r) # run[r].status
      /\ Recomputed(w) = Derived(Table(w), r)
  BY DEF Recomputed
<1>3. r \in Runs /\ run[r].status # "none"
  <2>1. pay[a] \in Row /\ pay[a].status # "none"
    BY <1>1 DEF IInv, TypeOK, Live, LiveStatuses
  <2> QED BY <1>1, <1>2, <2>1 DEF IInv, RowsAgree, Row
<1>4. run[r].status \notin CLAIM_RUN_STATUSES /\ Recomputed(w) = Rollup(Table(w), r)
  BY <1>2 DEF Derived
<1>5. Dispatched(r)
  BY <1>3, <1>4 DEF Dispatched, CLAIM_RUN_STATUSES
<1>6. ActiveRows(pay, r) # {}
  BY <1>3, <1>5 DEF IInv, RowsAgree, Dispatched
<1>7. ActiveRows(Table(w), r) = ActiveRows(pay, r)
  <2>1. pay[a].status \notin {"none", "deleted"}
    BY <1>1 DEF Live, LiveStatuses
  <2>2. \A p \in Payments : Table(w)[p] = IF p = a THEN task[w].new ELSE pay[p]
    BY <1>1 DEF IInv, TypeOK, Table
  <2> DEFINE table == Table(w)
  <2>3. \A p \in Payments :
           /\ table[p].run = pay[p].run /\ table[p].retryOf = pay[p].retryOf
           /\ table[p].status = "none" <=> pay[p].status = "none"
           /\ table[p].status = "deleted" <=> pay[p].status = "deleted"
    BY <1>1, <2>1, <2>2
  <2> HIDE DEF table, r
  <2>4. ActiveRows(table, r) = ActiveRows(pay, r)
    BY <2>3, SameActive
  <2> QED BY <2>4 DEF table
<1> QED BY <1>3, <1>4, <1>5, <1>6, <1>7, RollupDispatched

\* What every action of the payments core is shown to be.
Step == RowStep /\ RunStep /\ TaskStep

\* A new run brings its rows, for invoices whose slots are empty.
LEMMA CreateRunStep ==
    ASSUME IInv, NEW u \in Users, NEW r \in Runs, CreateRun(u, r) PROVE Step
<1>1. PICK S \in (SUBSET Invoices) \ {{}} :
         /\ \A i \in S : ~Occupied(i)
         /\ \E row \in [S -> Unused] :
              /\ \A i, j \in S : row[i] = row[j] => i = j
              /\ pay' = [p \in Payments |->
                           IF \E i \in S : row[i] = p
                           THEN NewRow(CHOOSE i \in S : row[i] = p, r, NoPayment)
                           ELSE pay[p]]
  BY DEF CreateRun
<1>2. PICK row \in [S -> Unused] :
         /\ \A i, j \in S : row[i] = row[j] => i = j
         /\ pay' = [p \in Payments |->
                      IF \E i \in S : row[i] = p
                      THEN NewRow(CHOOSE i \in S : row[i] = p, r, NoPayment)
                      ELSE pay[p]]
  BY <1>1
<1> DEFINE inv(p) == CHOOSE i \in S : row[i] = p
<1>3. ASSUME NEW p \in Payments
      PROVE  \/ pay'[p] = pay[p] /\ ~ \E i \in S : row[i] = p
             \/ /\ inv(p) \in S /\ row[inv(p)] = p
                /\ pay[p].status = "none" /\ pay'[p] = NewRow(inv(p), r, NoPayment)
  <2>1. CASE \E i \in S : row[i] = p
    BY <1>2, <2>1 DEF Unused
  <2>2. CASE ~ \E i \in S : row[i] = p
    BY <1>2, <2>2
  <2> QED BY <2>1, <2>2
<1> HIDE DEF inv
<1>4. /\ run[r].status = "none" /\ run'[r].status = "draft" /\ task' = task
      /\ \A q \in Runs : q # r => run'[q] = run[q]
  BY DEF CreateRun, IInv, TypeOK
<1>5. ASSUME NEW p \in Payments, pay[p].status = "none" PROVE pay'[p] = pay[p] \/ RowBooked(p)
  BY <1>1, <1>3, <1>4, <1>5 DEF RowBooked
<1>6. ASSUME NEW p \in Payments, NEW q \in Payments,
             pay'[p] # pay[p], pay'[q] # pay[q], pay'[p].inv = pay'[q].inv
      PROVE  p = q
  <2>1. pay'[p] = NewRow(inv(p), r, NoPayment) /\ row[inv(p)] = p
    BY <1>3, <1>6
  <2>2. pay'[q] = NewRow(inv(q), r, NoPayment) /\ row[inv(q)] = q
    BY <1>3, <1>6
  <2>3. pay'[p].inv = inv(p) /\ pay'[q].inv = inv(q)
    BY <2>1, <2>2 DEF NewRow, NoRow
  <2> QED BY <1>6, <2>1, <2>2, <2>3
<1>7. ASSUME NEW p \in Payments, pay[p].status # "none" PROVE RowKept(p)
  BY <1>3, <1>7, SameRow
<1>8. RowStep
  BY <1>5, <1>6, <1>7 DEF RowStep
<1>9. \E p \in Payments : pay[p].status = "none" /\ pay'[p].status # "none" /\ pay'[p].run = r
  <2>1. PICK i \in S : TRUE
    OBVIOUS
  <2>2. row[i] \in Payments
    BY DEF Unused
  <2>3. pay[row[i]].status = "none" /\ pay'[row[i]] = NewRow(inv(row[i]), r, NoPayment)
    BY <1>3, <2>2
  <2>4. pay'[row[i]].status = "pending" /\ pay'[row[i]].run = r
    BY <2>2, <2>3 DEF NewRow, NoRow
  <2> QED BY <2>2, <2>3, <2>4
<1>10. RunStep
  BY <1>4, <1>9 DEF RunStep, Dispatched
<1> QED BY <1>4, <1>8, <1>10, QuietTasks DEF Step

\* The other ways to book, approve and cancel.
LEMMA BookingStep ==
    ASSUME IInv, Booking PROVE Step
<1>1. ASSUME NEW u \in Users, NEW r \in Runs, ApproveRun(u, r) PROVE Step
  <2>1. \A q \in Runs : run'[q].status = run[q].status
    BY <1>1 DEF ApproveRun, IInv, TypeOK, RunRow
  <2>2. RunStep
    BY <2>1 DEF RunStep, Dispatched
  <2> QED BY <1>1, <2>2, QuietRows, QuietTasks DEF ApproveRun, Step
<1>2. ASSUME NEW i \in Invoices, NEW p \in Payments, CreatePayment(i, p) PROVE Step
  <2>1. pay[p].status = "none" /\ ~Occupied(i) /\ pay' = [pay EXCEPT ![p] = NewRow(i, NoRun, NoPayment)]
    BY <1>2 DEF CreatePayment
  <2>2. pay'[p] = NewRow(i, NoRun, NoPayment) /\ \A q \in Payments : q # p => pay'[q] = pay[q]
    BY <2>1 DEF IInv, TypeOK
  <2>3. RowBooked(p)
    BY <2>1, <2>2 DEF RowBooked
  <2>4. RowStep
    BY <2>1, <2>2, <2>3, SameRow DEF RowStep
  <2> QED BY <1>2, <2>4, QuietRuns, QuietTasks DEF CreatePayment, Step
<1>3. ASSUME NEW r \in Runs, CancelRun(r) PROVE Step
  <2>1. run[r].status = "draft" /\ run' = [run EXCEPT ![r].status = "cancelled"] /\ r # NoRun
    BY <1>3, PaymentRunsAssumption DEF CancelRun
  <2>2. /\ run'[r].status = "cancelled"
        /\ \A q \in Runs : q # r => run'[q] = run[q]
    BY <2>1 DEF IInv, TypeOK, RunRow
  <2>3. ASSUME NEW p \in Payments, pay[p].status # "none", pay[p].run = r PROVE RowKept(p)
    <3>1. pay[p].status \in {"pending", "voided", "deleted"} /\ ~pay[p].ref
      BY <2>1, <2>3 DEF IInv, DraftsUnsent, Dispatched
    <3>2. pay'[p] = [pay[p] EXCEPT !.status = "deleted"] /\ pay[p] \in Row
      BY <1>3, <2>3 DEF CancelRun, IInv, TypeOK
    <3>3. /\ pay'[p].inv = pay[p].inv /\ pay'[p].run = pay[p].run
          /\ pay'[p].retryOf = pay[p].retryOf /\ pay'[p].ref = pay[p].ref
          /\ pay'[p].status = "deleted"
      BY <3>2 DEF Row
    <3>4. \A v \in Workers : task[v].at # p
      BY <1>3, <2>3 DEF CancelRun, Free
    <3> QED BY <2>2, <2>3, <3>1, <3>3, <3>4 DEF RowKept, PAYMENT_MOVES
  <2>4. ASSUME NEW p \in Payments, pay[p].run # r PROVE pay'[p] = pay[p]
    BY <1>3, <2>4 DEF CancelRun
  <2>5. ASSUME NEW p \in Payments, pay[p].status = "none" PROVE pay'[p] = pay[p]
    <3>1. pay[p].run = NoRun
      BY <2>5, NoRowFields, Zenon DEF IInv, RowsAgree
    <3> QED BY <2>1, <2>4, <3>1
  <2>6. RowStep
    BY <2>3, <2>4, <2>5, SameRow DEF RowStep
  <2>7. RunStep
    BY <2>1, <2>2 DEF RunStep, Dispatched
  <2> QED BY <1>3, <2>6, <2>7, QuietTasks DEF CancelRun, Step
<1> QED BY <1>1, <1>2, <1>3, CreateRunStep DEF Booking

\* What a task may hold depends on the tables of rows and runs only.
LEMMA SameHold ==
    ASSUME NEW w \in Workers, NEW t, pay' = pay, run' = run, task'[w] = t,
           Holding(t), DraftsUntouched(t)
    PROVE  Holding(task[w])' /\ DraftsUntouched(task[w])'
<1>1. Holding(task[w])'
  BY SMTT(30) DEF Holding, Live
<1>2. DraftsUntouched(task[w])'
  <2>1. t.kind = "dispatch" => /\ t.run # NoRun /\ Dispatched(t.run)'
                               /\ \A p \in t.todo : pay'[p].run = t.run
    BY DEF DraftsUntouched, Dispatched
  <2>2. t.at # NoPayment /\ t.kind # "void" =>
          pay'[t.at].run = NoRun \/ Dispatched(pay[t.at].run)'
    BY DEF DraftsUntouched, Dispatched
  <2>3. t.roll # "" =>
          /\ t.stage = "rolled" /\ t.roll \notin {"none", "draft", "cancelled"}
          /\ t.new.run # NoRun /\ Dispatched(t.new.run)'
    BY DEF DraftsUntouched, Dispatched
  <2> QED BY <2>1, <2>2, <2>3 DEF DraftsUntouched, Dispatched
<1> QED BY <1>1, <1>2

\* A pass that takes a row through the gates, or has it refused there, holds a
\* live row of a dispatched run.
LEMMA GatedStep ==
    ASSUME IInv, NEW w \in Workers, NEW p \in Payments, NEW t \in Task,
           t.stage = "loop", t.roll = "", t.kind \in {"dispatch", "release"},
           t.kind = "dispatch" => /\ t.run # NoRun /\ Dispatched(t.run)
                                  /\ \A q \in t.todo : pay[q].run = t.run,
           pay[p].status \in {"pending", "pending_compliance"}, Free(p),
           pay[p].run = NoRun \/ Dispatched(pay[p].run),
           pay' = pay, run' = run, task' = [task EXCEPT ![w] = Gated(t, p)]
    PROVE  TaskStep
<1> DEFINE u == Gated(t, p)
<1>1. task'[w] = u
  BY DEF IInv, TypeOK
<1>2. /\ u.at = p /\ u.stage \in {"gated", "decided"}
      /\ u.kind = t.kind /\ u.run = t.run /\ u.todo = t.todo /\ u.roll = t.roll
      /\ u.stage = "decided" => u.new = Refused(pay[p])
  BY DEF Gated, Task
<1> HIDE DEF u
<1>3. /\ pay[p] \in Row
      /\ Refused(pay[p]).inv = pay[p].inv /\ Refused(pay[p]).run = pay[p].run
      /\ Refused(pay[p]).retryOf = pay[p].retryOf /\ Refused(pay[p]).ref = pay[p].ref
      /\ Refused(pay[p]).status = "failed"
  BY DEF IInv, TypeOK, Refused, Row
<1>4. Live(p) /\ p # NoPayment
  BY PaymentRunsAssumption DEF Live, LiveStatuses
<1>5. Holding(u)
  BY <1>2, <1>3, <1>4 DEF Holding, PAYMENT_MOVES
<1>6. DraftsUntouched(u)
  BY <1>2, <1>4 DEF DraftsUntouched
<1>7. Holding(task[w])' /\ DraftsUntouched(task[w])'
  BY <1>1, <1>5, <1>6, SameHold
<1> QED BY <1>2, <1>7, OneTaskStep DEF u

\* A worker that starts a pass holds nothing and takes the rows of a run that
\* is dispatched by then.
LEMMA StartStep ==
    ASSUME IInv, NEW w \in Workers, NEW u \in Users, NEW r \in Runs,
           StartDispatch(w, u, r, pay'), run'[r].status = "executing"
    PROVE  TaskStep
<1> DEFINE t == [Idle EXCEPT !.kind = "dispatch", !.user = u, !.run = r,
                             !.todo = PendingOf(pay', r)]
<1>1. task' = [task EXCEPT ![w] = t] /\ task'[w] = t
  BY DEF StartDispatch, IInv, TypeOK
<1>2. /\ t.at = NoPayment /\ t.stage = "loop" /\ t.roll = "" /\ t.kind = "dispatch"
      /\ t.run = r /\ t.todo = PendingOf(pay', r)
  BY IdleType DEF Idle, Task
<1> HIDE DEF t
<1>3. r # NoRun /\ Dispatched(r)'
  BY PaymentRunsAssumption DEF Dispatched
<1>4. \A p \in t.todo : pay'[p].run = r
  BY <1>2 DEF PendingOf
<1>5. Holding(task[w])' /\ DraftsUntouched(task[w])'
  BY <1>1, <1>2, <1>3, <1>4 DEF Holding, DraftsUntouched
<1> QED BY <1>1, <1>2, <1>5, OneTaskStep

\* /retry-failed books each row behind the one it replaces, for an invoice
\* whose slot is empty.
LEMMA RetryFailedStep ==
    ASSUME IInv, NEW w \in Workers, NEW u \in Users, NEW r \in Runs, RetryFailed(w, u, r)
    PROVE  Step
<1> DEFINE table(S, row) ==
      [q \in Payments |->
          IF \E p \in S : row[p] = q
          THEN LET old == CHOOSE p \in S : row[p] = q IN NewRow(pay[old].inv, r, old)
          ELSE pay[q]]
<1>1. PICK S \in SUBSET Retryable(r) : \E row \in [S -> Unused] :
         /\ \A p, q \in S : p # q => row[p] # row[q] /\ pay[p].inv # pay[q].inv
         /\ pay' = table(S, row) /\ StartDispatch(w, u, r, table(S, row))
  BY DEF RetryFailed
<1>2. PICK row \in [S -> Unused] :
         /\ \A p, q \in S : p # q => row[p] # row[q] /\ pay[p].inv # pay[q].inv
         /\ pay' = table(S, row) /\ StartDispatch(w, u, r, table(S, row))
  BY <1>1
<1> DEFINE old(q) == CHOOSE p \in S : row[p] = q
<1>3. ASSUME NEW q \in Payments
      PROVE  \/ pay'[q] = pay[q]
             \/ /\ old(q) \in S /\ row[old(q)] = q
                /\ pay[q].status = "none" /\ pay'[q] = NewRow(pay[old(q)].inv, r, old(q))
  <2>1. CASE \E p \in S : row[p] = q
    BY <1>2, <2>1 DEF Unused
  <2>2. CASE ~ \E p \in S : row[p] = q
    BY <1>2, <2>2
  <2> QED BY <2>1, <2>2
<1> HIDE DEF old
<1>4. ASSUME NEW p \in S
      PROVE  /\ p \in Payments /\ pay[p].status # "none"
             /\ pay[p].inv \in Invoices /\ ~Occupied(pay[p].inv)
  <2>1. p \in Payments /\ pay[p].status # "none" /\ ~Occupied(pay[p].inv)
    BY DEF Retryable, ActiveRows
  <2> QED BY <2>1 DEF IInv, RowsAgree
<1>5. run'[r].status = "executing" /\ \A q \in Runs : q # r => run'[q] = run[q]
  BY DEF RetryFailed, IInv, TypeOK, RunRow
<1>6. ASSUME NEW q \in Payments, pay[q].status = "none" PROVE pay'[q] = pay[q] \/ RowBooked(q)
  BY <1>3, <1>4, <1>5, <1>6 DEF RowBooked
<1>7. ASSUME NEW p \in Payments, NEW q \in Payments,
             pay'[p] # pay[p], pay'[q] # pay[q], pay'[p].inv = pay'[q].inv
      PROVE  p = q
  <2>1. /\ pay'[p] = NewRow(pay[old(p)].inv, r, old(p)) /\ old(p) \in S /\ row[old(p)] = p
        /\ pay'[q] = NewRow(pay[old(q)].inv, r, old(q)) /\ old(q) \in S /\ row[old(q)] = q
    BY <1>3, <1>7
  <2>2. pay'[p].inv = pay[old(p)].inv /\ pay'[q].inv = pay[old(q)].inv
    BY <2>1 DEF NewRow, NoRow
  <2> QED BY <1>2, <1>7, <2>1, <2>2
<1>8. RowStep
  <2>1. ASSUME NEW p \in Payments, pay[p].status # "none" PROVE RowKept(p)
    BY <1>3, <2>1, SameRow
  <2> QED BY <1>6, <1>7, <2>1 DEF RowStep
<1>9. Derived(pay, r) \in RETRYABLE_RUN_STATUSES
  BY DEF RetryFailed
<1>10. Dispatched(r)
  <2>1. run[r].status \notin CLAIM_RUN_STATUSES
    BY <1>9 DEF Derived, CLAIM_RUN_STATUSES, RETRYABLE_RUN_STATUSES
  <2>2. CASE run[r].status = "none"
    <3>1. Rollup(pay, r) \in {"partial", "failed"}
      BY <1>9, <2>1 DEF Derived, RETRYABLE_RUN_STATUSES
    <3>2. \E p \in ActiveRows(pay, r) : TRUE
      BY <3>1 DEF Rollup
    <3>3. PICK p \in Payments : pay[p].run = r /\ pay[p].status # "none"
      BY <3>2 DEF ActiveRows
    <3> QED BY <2>2, <3>3, PaymentRunsAssumption DEF IInv, RowsAgree
  <2> QED BY <2>1, <2>2 DEF Dispatched, CLAIM_RUN_STATUSES
<1>11. RunStep
  BY <1>5, <1>10 DEF RunStep, Dispatched
<1>12. TaskStep
  BY <1>2, <1>5, StartStep
<1> QED BY <1>8, <1>11, <1>12 DEF Step

\* A request takes a row nobody holds.
LEMMA RequestStep ==
    ASSUME IInv, NEW w \in Workers, Request(w) PROVE Step
<1>1. ASSUME NEW u \in Users, NEW r \in Runs, Execute(w, u, r) PROVE Step
  <2>1. run[r].status = "draft" /\ run'[r].status = "executing" /\ \A q \in Runs : q # r => run'[q] = run[q]
    BY <1>1 DEF Execute, IInv, TypeOK, RunRow
  <2>2. RunStep
    BY <2>1 DEF RunStep, Dispatched
  <2>3. TaskStep
    BY <1>1, <2>1, StartStep DEF Execute
  <2> QED BY <1>1, <2>2, <2>3, QuietRows DEF Execute, Step
<1>2. ASSUME NEW u \in Users, NEW r \in Runs, Resume(w, u, r) PROVE Step
  <2>1. run'[r].status = "executing"
    BY <1>2 DEF Resume
  <2>2. TaskStep
    BY <1>2, <2>1, StartStep DEF Resume
  <2> QED BY <1>2, <2>2, QuietRows, QuietRuns DEF Resume, Step
<1>3. ASSUME NEW p \in Payments, Release(w, p) PROVE Step
  <2> DEFINE t == [Idle EXCEPT !.kind = "release"]
  <2>1. t \in Task /\ t.stage = "loop" /\ t.roll = "" /\ t.kind = "release"
    BY IdleType DEF Idle, Task
  <2>2. pay[p].run = NoRun \/ Dispatched(pay[p].run)
    BY <1>3 DEF Release, IInv, DraftsUnsent
  <2>3. /\ pay' = pay /\ run' = run /\ task' = [task EXCEPT ![w] = Gated(t, p)]
        /\ Free(p) /\ pay[p].status = "pending_compliance"
    BY <1>3 DEF Release
  <2> HIDE DEF t
  <2>4. TaskStep
    BY <2>1, <2>2, <2>3, GatedStep
  <2> QED BY <2>3, <2>4, QuietRows, QuietRuns DEF Step
<1>4. ASSUME NEW p \in Payments, Void(w, p) PROVE Step
  <2> DEFINE t == [Idle EXCEPT !.kind = "void", !.stage = "decided", !.at = p,
                               !.seen = invoice[pay[p].inv],
                               !.new = [pay[p] EXCEPT !.status = "voided"]]
  <2>1. task' = [task EXCEPT ![w] = t] /\ task'[w] = t /\ Live(p) /\ Free(p) /\ pay' = pay /\ run' = run
    BY <1>4 DEF Void, IInv, TypeOK
  <2>2. /\ pay[p] \in Row /\ t.at = p /\ t.stage = "decided" /\ t.kind = "void" /\ t.roll = ""
        /\ t.new = [pay[p] EXCEPT !.status = "voided"]
    BY DEF IInv, TypeOK, Idle
  <2> HIDE DEF t
  <2>3. /\ t.new.inv = pay[p].inv /\ t.new.run = pay[p].run /\ t.new.ref = pay[p].ref
        /\ t.new.retryOf = pay[p].retryOf /\ t.new.status = "voided"
    BY <2>2 DEF Row
  <2>4. Holding(t) /\ DraftsUntouched(t)
    BY <2>1, <2>2, <2>3, PaymentRunsAssumption
       DEF Holding, DraftsUntouched, Live, LiveStatuses, PAYMENT_MOVES
  <2>5. Holding(task[w])' /\ DraftsUntouched(task[w])'
    BY <2>1, <2>4, SameHold
  <2>6. TaskStep
    BY <2>1, <2>2, <2>5, OneTaskStep
  <2> QED BY <2>1, <2>6, QuietRows, QuietRuns DEF Step
<1>5. ASSUME NEW p \in Payments, Dismiss(w, p) PROVE Step
  <2> DEFINE t == [Idle EXCEPT !.kind = "dismiss", !.stage = "decided", !.at = p,
                               !.new = Refused(pay[p])]
  <2>1. /\ task' = [task EXCEPT ![w] = t] /\ task'[w] = t /\ Free(p) /\ pay' = pay /\ run' = run
        /\ pay[p].status = "pending_compliance"
    BY <1>5 DEF Dismiss, IInv, TypeOK
  <2>2. /\ pay[p] \in Row /\ t.at = p /\ t.stage = "decided" /\ t.kind = "dismiss" /\ t.roll = ""
        /\ t.new = Refused(pay[p])
    BY DEF IInv, TypeOK, Idle
  <2> HIDE DEF t
  <2>3. /\ t.new.inv = pay[p].inv /\ t.new.run = pay[p].run /\ t.new.ref = pay[p].ref
        /\ t.new.retryOf = pay[p].retryOf /\ t.new.status = "failed"
    BY <2>2 DEF Refused, Row
  <2>4. pay[p].run = NoRun \/ Dispatched(pay[p].run)
    BY <2>1 DEF IInv, DraftsUnsent
  <2>5. Holding(t) /\ DraftsUntouched(t)
    BY <2>1, <2>2, <2>3, <2>4, PaymentRunsAssumption
       DEF Holding, DraftsUntouched, Live, LiveStatuses, PAYMENT_MOVES
  <2>6. Holding(task[w])' /\ DraftsUntouched(task[w])'
    BY <2>1, <2>5, SameHold
  <2>7. TaskStep
    BY <2>1, <2>2, <2>6, OneTaskStep
  <2> QED BY <2>1, <2>7, QuietRows, QuietRuns DEF Step
<1>6. ASSUME NEW p \in Payments, LegRead(w, p) PROVE Step
  <2> DEFINE t == [Idle EXCEPT !.kind = "leg", !.todo = {p}]
  <2>1. task' = [task EXCEPT ![w] = t] /\ task'[w] = t /\ pay' = pay /\ run' = run
    BY <1>6 DEF LegRead, IInv, TypeOK
  <2>2. t.at = NoPayment /\ t.stage = "loop" /\ t.kind = "leg" /\ t.roll = ""
    BY DEF Idle
  <2> HIDE DEF t
  <2>3. Holding(task[w])' /\ DraftsUntouched(task[w])'
    BY <2>1, <2>2 DEF Holding, DraftsUntouched
  <2>4. TaskStep
    BY <2>1, <2>2, <2>3, OneTaskStep
  <2> QED BY <2>1, <2>4, QuietRows, QuietRuns DEF Step
<1> QED BY <1>1, <1>2, <1>3, <1>4, <1>5, <1>6, RetryFailedStep DEF Request

\* What a worker decides about the row it took through the gates is a legal
\* move for that row.
LEMMA DecideStep ==
    ASSUME IInv, NEW w \in Workers, task[w].stage = "gated", NEW new, NEW state,
           Decide(w, new, state),
           new.inv = pay[task[w].at].inv, new.run = pay[task[w].at].run,
           new.retryOf = pay[task[w].at].retryOf,
           pay[task[w].at].ref => new.ref,
           new.status \in {"pending_compliance", "submitted", "completed", "failed"}
    PROVE  Step
<1> DEFINE t == task[w]
<1>1. /\ t \in Task /\ t.kind \in {"dispatch", "release"} /\ t.at # NoPayment
      /\ pay[t.at].status \in {"pending", "pending_compliance"} /\ Live(t.at)
      /\ t.roll = "" /\ DraftsUntouched(t)
  BY DEF IInv, TypeOK, Locks, Holding, DraftsUnsent, DraftsUntouched
<1> DEFINE u == [t EXCEPT !.stage = "decided", !.new = new]
<1>2. task' = [task EXCEPT ![w] = u] /\ task'[w] = u /\ pay' = pay /\ run' = run
  BY DEF Decide, IInv, TypeOK
<1>3. /\ u.at = t.at /\ u.stage = "decided" /\ u.kind = t.kind /\ u.roll = t.roll
      /\ u.new = new /\ u.run = t.run /\ u.todo = t.todo
  BY <1>1 DEF Task
<1> HIDE DEF u
<1>4. Holding(u)
  BY <1>1, <1>3 DEF Holding, PAYMENT_MOVES
<1>5. DraftsUntouched(u)
  BY <1>1, <1>3 DEF DraftsUntouched
<1>6. Holding(task[w])' /\ DraftsUntouched(task[w])'
  BY <1>2, <1>4, <1>5, SameHold
<1>7. TaskStep
  BY <1>2, <1>3, <1>6, OneTaskStep
<1> QED BY <1>2, <1>7, QuietRows, QuietRuns DEF Step

\* A commit writes the one row the worker holds, and a status of a dispatched
\* run on its run if it writes one at all.
LEMMA CommitStep ==
    ASSUME IInv, NEW w \in Workers, Commit(w) PROVE Step
<1> DEFINE t == task[w]
           a == t.at
           roll == IF t.stage = "rolled" THEN t.roll ELSE Recomputed(w)
<1>1. /\ t \in Task /\ t.stage \in {"decided", "rolled"} /\ Holding(t) /\ DraftsUntouched(t)
      /\ run' = IF roll = "" THEN run ELSE [run EXCEPT ![t.new.run].status = roll]
      /\ pay' = Table(w)
  BY DEF Commit, IInv, TypeOK, Locks, DraftsUnsent
<1>2. a \in Payments /\ Live(a) /\ pay[a].status \notin {"none", "deleted"}
  BY <1>1 DEF Holding, Task, Live, LiveStatuses
<1>3. pay'[a] = t.new /\ \A p \in Payments : p # a => pay'[p] = pay[p]
  BY <1>1, <1>2 DEF Table, IInv, TypeOK
<1>4. /\ t.new.inv = pay[a].inv /\ t.new.run = pay[a].run /\ t.new.retryOf = pay[a].retryOf
      /\ pay[a].ref => t.new.ref
      /\ t.new.status = pay[a].status \/ <<pay[a].status, t.new.status>> \in PAYMENT_MOVES
      /\ t.new.status \notin {"none", "deleted"}
      /\ t.kind = "void" => t.new.status = "voided" /\ t.new.ref = pay[a].ref
  BY <1>1 DEF Holding
<1> DEFINE next == IF t.kind = "dispatch"
                   THEN [Idle EXCEPT !.kind = "dispatch", !.user = t.user, !.run = t.run,
                                     !.todo = t.todo]
                   ELSE Idle
<1>5. task' = [task EXCEPT ![w] = next] /\ task'[w] = next
  BY DEF Commit, IInv, TypeOK
<1>6. /\ next.at = NoPayment /\ next.stage = "loop" /\ next.roll = ""
      /\ next.kind = "dispatch" => t.kind = "dispatch" /\ next.run = t.run /\ next.todo = t.todo
  BY DEF Idle
<1> HIDE DEF next
<1>7. RowKept(a)
  <2>1. pay[a].run # NoRun /\ ~Dispatched(pay[a].run) => t.kind = "void"
    BY <1>1, <1>2, PaymentRunsAssumption DEF DraftsUntouched
  <2>2. pay[a].run # NoRun /\ ~Dispatched(pay[a].run) => ~pay[a].ref
    BY <1>2 DEF IInv, DraftsUnsent
  <2>3. \A v \in Workers : task[v].at = a => v = w
    BY <1>2, PaymentRunsAssumption DEF IInv, Locks
  <2>4. task'[w] # task[w]
    BY <1>1, <1>5, <1>6
  <2> QED BY <1>3, <1>4, <2>1, <2>2, <2>3, <2>4 DEF RowKept
<1>8. RowStep
  BY <1>2, <1>3, <1>7, OneRowStep
<1>9. roll # "" => /\ t.new.run \in Runs /\ Dispatched(t.new.run)
                   /\ roll \notin {"none", "draft", "cancelled"}
  <2>1. CASE t.stage = "rolled"
    BY <1>1, <1>4, <2>1 DEF DraftsUntouched, IInv, TypeOK, Task, Row
  <2>2. CASE t.stage = "decided"
    BY <1>1, <2>2, RecomputedDispatched
  <2> QED BY <1>1, <2>1, <2>2
<1> HIDE DEF roll
<1>10. RunStep
  <2>1. CASE roll = ""
    BY <1>1, <2>1, QuietRuns
  <2>2. CASE roll # ""
    <3>1. /\ \A r \in Runs : r # t.new.run => run'[r] = run[r]
          /\ run'[t.new.run].status = roll
      BY <1>1, <1>9, <2>2 DEF IInv, TypeOK, RunRow
    <3> QED BY <1>9, <2>2, <3>1 DEF RunStep, Dispatched
  <2> QED BY <2>1, <2>2
<1>11. Holding(task[w])' /\ DraftsUntouched(task[w])'
  <2>1. Holding(task[w])'
    BY <1>5, <1>6 DEF Holding
  <2>2. ASSUME t.kind = "dispatch"
        PROVE  /\ t.run # NoRun /\ run'[t.run].status \notin {"none", "draft", "cancelled"}
               /\ \A p \in t.todo : pay'[p].run = t.run
    <3>1. t.run \in Runs /\ Dispatched(t.run) /\ t.todo \subseteq Payments
          /\ \A p \in t.todo : pay[p].run = t.run
      BY <1>1, <2>2 DEF DraftsUntouched, Task
    <3>2. run'[t.run].status \notin {"none", "draft", "cancelled"}
      BY <1>10, <3>1 DEF RunStep, Dispatched
    <3>3. \A p \in Payments : pay'[p].run = pay[p].run
      BY <1>3, <1>7 DEF RowKept
    <3> QED BY <3>1, <3>2, <3>3, PaymentRunsAssumption
  <2> QED BY <1>5, <1>6, <2>1, <2>2 DEF DraftsUntouched, Dispatched
<1>12. TaskStep
  BY <1>5, <1>6, <1>11, OneTaskStep
<1> QED BY <1>8, <1>10, <1>12 DEF Step

\* Every step of a request under way.
LEMMA WorkStep ==
    ASSUME IInv, NEW w \in Workers, Work(w) PROVE Step
<1> DEFINE t == task[w]
           a == t.at
<1>0. t \in Task /\ Holding(t) /\ DraftsUntouched(t)
  BY DEF IInv, TypeOK, Locks, DraftsUnsent
<1>1. t.stage = "gated" => a \in Payments /\ pay[a] \in Row /\ order[a] \in OrderStates
  BY <1>0 DEF Holding, Task, IInv, TypeOK
<1>2. ASSUME NEW p \in Payments, DispatchRow(w, p) PROVE Step
  <2> DEFINE u == [task[w] EXCEPT !.todo = @ \ {p}]
  <2>1. /\ t.kind = "dispatch" /\ t.stage = "loop" /\ p \in t.todo /\ Free(p)
        /\ pay' = pay /\ run' = run
        /\ task' = [task EXCEPT ![w] = IF pay[p].status = "pending" THEN Gated(u, p) ELSE u]
    BY <1>2 DEF DispatchRow
  <2>2. /\ u \in Task /\ u.stage = "loop" /\ u.kind = "dispatch" /\ u.roll = t.roll
        /\ u.run = t.run /\ u.todo = t.todo \ {p} /\ u.at = t.at
    BY <1>0, <2>1 DEF Task
  <2> HIDE DEF u
  <2>3. t.roll = "" /\ a = NoPayment
    BY <1>0, <2>1 DEF Holding, DraftsUntouched
  <2>4. /\ t.run # NoRun /\ Dispatched(t.run)
        /\ \A q \in t.todo : pay[q].run = t.run
    BY <1>0, <2>1 DEF DraftsUntouched
  <2>5. CASE pay[p].status = "pending"
    <3>1. task' = [task EXCEPT ![w] = Gated(u, p)]
      BY <2>1, <2>5
    <3>2. pay[p].run = NoRun \/ Dispatched(pay[p].run)
      BY <2>1, <2>4
    <3>3. u.run # NoRun /\ Dispatched(u.run) /\ \A q \in u.todo : pay[q].run = u.run
      BY <2>2, <2>4
    <3>4. u \in Task /\ u.stage = "loop" /\ u.roll = "" /\ u.kind \in {"dispatch", "release"}
      BY <2>2, <2>3
    <3>5. pay[p].status \in {"pending", "pending_compliance"} /\ Free(p) /\ pay' = pay /\ run' = run
      BY <2>1, <2>5
    <3>6. TaskStep
      BY <3>1, <3>2, <3>3, <3>4, <3>5, GatedStep
    <3> QED BY <2>1, <3>6, QuietRows, QuietRuns DEF Step
  <2>6. CASE pay[p].status # "pending"
    <3>1. task' = [task EXCEPT ![w] = u] /\ task'[w] = u
      BY <2>1, <2>6 DEF IInv, TypeOK
    <3>2. Holding(task[w])'
      BY <2>2, <2>3, <3>1 DEF Holding
    <3>3. DraftsUntouched(task[w])'
      BY <2>1, <2>2, <2>3, <2>4, <3>1 DEF DraftsUntouched, Dispatched
    <3>4. TaskStep
      BY <2>2, <2>3, <3>1, <3>2, <3>3, OneTaskStep
    <3> QED BY <2>1, <3>4, QuietRows, QuietRuns DEF Step
  <2> QED BY <2>5, <2>6
<1>3. ASSUME Refuse(w) PROVE Step
  <2>1. t.stage = "gated" /\ Decide(w, Refused(pay[a]), order[a])
    BY <1>3 DEF Refuse
  <2>2. /\ Refused(pay[a]).inv = pay[a].inv /\ Refused(pay[a]).run = pay[a].run
        /\ Refused(pay[a]).retryOf = pay[a].retryOf /\ Refused(pay[a]).ref = pay[a].ref
        /\ Refused(pay[a]).status = "failed"
    BY <1>1, <2>1 DEF Refused, Row
  <2> QED BY <2>1, <2>2, DecideStep
<1>4. ASSUME Hold(w) PROVE Step
  <2> DEFINE new == [pay[a] EXCEPT !.status = "pending_compliance"]
  <2>1. t.stage = "gated" /\ Decide(w, new, order[a])
    BY <1>4 DEF Hold
  <2>2. /\ new.inv = pay[a].inv /\ new.run = pay[a].run /\ new.retryOf = pay[a].retryOf
        /\ new.ref = pay[a].ref /\ new.status = "pending_compliance"
    BY <1>1, <2>1 DEF Row
  <2> HIDE DEF new
  <2> QED BY <2>1, <2>2, DecideStep
<1>5. ASSUME Send(w) PROVE Step
  <2> DEFINE new(state) == [pay[a] EXCEPT !.status = Reply(state), !.ref = TRUE,
                              !.why = IF Reply(state) = "failed" THEN "in_doubt" ELSE ""]
  <2>1. PICK state : t.stage = "gated" /\ Decide(w, new(state), state)
    BY <1>5 DEF Send
  <2>2. Reply(state) \in {"submitted", "completed", "failed"}
    BY DEF Reply
  <2>3. /\ new(state).inv = pay[a].inv /\ new(state).run = pay[a].run
        /\ new(state).retryOf = pay[a].retryOf /\ new(state).ref = TRUE
        /\ new(state).status = Reply(state)
    BY <1>1, <2>1 DEF Row
  <2> HIDE DEF new
  <2> QED BY <2>1, <2>2, <2>3, DecideStep
<1>6. ASSUME Raise(w) PROVE Step
  <2>1. PICK state : t.stage = "gated" /\ Decide(w, InDoubt(pay[a]), state)
    BY <1>6 DEF Raise
  <2>2. /\ InDoubt(pay[a]).inv = pay[a].inv /\ InDoubt(pay[a]).run = pay[a].run
        /\ InDoubt(pay[a]).retryOf = pay[a].retryOf /\ InDoubt(pay[a]).ref = pay[a].ref
        /\ InDoubt(pay[a]).status = "failed"
    BY <1>1, <2>1 DEF InDoubt, Row
  <2> QED BY <2>1, <2>2, DecideStep
<1>7. ASSUME ReadRun(w) PROVE Step
  <2> DEFINE u == [task[w] EXCEPT !.stage = "rolled", !.roll = Recomputed(w)]
  <2>1. /\ t.stage = "decided" /\ t.kind # "dispatch" /\ pay' = pay /\ run' = run
        /\ task' = [task EXCEPT ![w] = u] /\ task'[w] = u
    BY <1>7 DEF ReadRun, IInv, TypeOK
  <2>2. /\ u.at = t.at /\ u.kind = t.kind /\ u.stage = "rolled" /\ u.roll = Recomputed(w)
        /\ u.new = t.new
    BY <1>0 DEF Task
  <2> HIDE DEF u
  <2>3. Recomputed(w) # "" =>
           /\ t.new.run \in Runs /\ Dispatched(t.new.run)
           /\ Recomputed(w) \notin {"none", "draft", "cancelled"}
    BY <2>1, RecomputedDispatched
  <2>4. Holding(task[w])'
    BY <1>0, <2>1, <2>2 DEF Holding, Live
  <2>5. DraftsUntouched(task[w])'
    BY <1>0, <2>1, <2>2, <2>3, PaymentRunsAssumption DEF DraftsUntouched, Dispatched
  <2>6. TaskStep
    BY <2>1, <2>2, <2>4, <2>5, OneTaskStep
  <2> QED BY <2>1, <2>6, QuietRows, QuietRuns DEF Step
<1>8. ASSUME Finish(w) PROVE Step
  <2> DEFINE r == t.run
  <2>1. /\ t.kind = "dispatch" /\ pay' = pay /\ task' = [task EXCEPT ![w] = Idle] /\ task'[w] = Idle
        /\ run' = IF Rollup(pay, r) = "executing" THEN run
                  ELSE [run EXCEPT ![r].status = Rollup(pay, r)]
    BY <1>8 DEF Finish, IInv, TypeOK
  <2>2. r \in Runs /\ Dispatched(r)
    BY <1>0, <2>1 DEF DraftsUntouched, Task
  <2>3. Rollup(pay, r) \in RunStatuses \ {"none", "draft", "cancelled"}
    BY <2>2, RollupDispatched DEF IInv, RowsAgree, Dispatched
  <2>4. /\ \A q \in Runs : q # r => run'[q] = run[q]
        /\ run'[r].status \in {run[r].status, Rollup(pay, r)}
    BY <2>1, <2>2 DEF IInv, TypeOK, RunRow
  <2>5. RunStep
    BY <2>2, <2>3, <2>4 DEF RunStep, Dispatched
  <2>6. TaskStep
    BY <2>1, IdleFields, IdleHolds, OneTaskStep
  <2> QED BY <2>1, <2>5, <2>6, QuietRows DEF Step
<1>9. ASSUME LegApply(w) PROVE Step
  <2>1. pay' = pay /\ run' = run /\ task' = [task EXCEPT ![w] = Idle] /\ task'[w] = Idle
    BY <1>9 DEF LegApply, IInv, TypeOK
  <2>2. TaskStep
    BY <2>1, IdleFields, IdleHolds, OneTaskStep
  <2> QED BY <2>1, <2>2, QuietRows, QuietRuns DEF Step
<1> QED BY <1>2, <1>3, <1>4, <1>5, <1>6, <1>7, <1>8, <1>9, CommitStep DEF Work

\* A worker that dies gives up its lock and leaves the tables alone.
LEMMA CrashStep ==
    ASSUME IInv, NEW w \in Workers, Crash(w) PROVE TypeOK' /\ Step
<1>1. pay' = pay /\ run' = run /\ task' = [task EXCEPT ![w] = Idle] /\ task'[w] = Idle
  BY DEF Crash, IInv, TypeOK
<1>2. TypeOK'
  BY <1>1, IdleType DEF Crash, IInv, TypeOK
<1>3. TaskStep
  BY <1>1, IdleFields, IdleHolds, OneTaskStep
<1> QED BY <1>1, <1>2, <1>3, QuietRows, QuietRuns DEF Step

\* A verdict lands on a row nobody holds, which was sent or has a handle.
LEMMA RecordStep ==
    ASSUME IInv, NEW p \in Payments, NEW verdict, Record(p, verdict), Free(p),
           pay[p].status \in {"pending", "submitted"},
           pay[p].status = "pending" => pay[p].ref
    PROVE  RowStep
<1>1. pay[p] \in Row /\ pay'[p] = Settled(pay[p], verdict) /\ \A q \in Payments : q # p => pay'[q] = pay[q]
  BY DEF Record, IInv, TypeOK
<1>2. /\ pay'[p].inv = pay[p].inv /\ pay'[p].run = pay[p].run
      /\ pay'[p].retryOf = pay[p].retryOf /\ pay'[p].ref = pay[p].ref
      /\ pay'[p].status \in {"completed", "failed"}
  BY <1>1 DEF Settled, Row
<1>3. pay[p].run = NoRun \/ Dispatched(pay[p].run)
  BY DEF IInv, DraftsUnsent
<1>4. RowKept(p)
  BY <1>2, <1>3 DEF RowKept, Free, PAYMENT_MOVES
<1> QED BY <1>1, <1>4, OneRowStep

\* The webhook, the sweep and the leg touch only rows that no worker holds.
LEMMA SettlementStep ==
    ASSUME IInv, Settlement PROVE Step
<1>1. ASSUME NEW p \in Payments, Webhook(p) PROVE Step
  <2>1. RowStep
    BY <1>1, RecordStep DEF Webhook, OVERWRITABLE
  <2> QED BY <1>1, <2>1, QuietRuns, QuietTasks DEF Webhook, Step
<1>2. ASSUME NEW p \in Payments, SweepPoll(p) PROVE Step
  BY <1>2, QuietRows, QuietRuns, QuietTasks DEF SweepPoll, Step
<1>3. ASSUME NEW p \in Payments, AgeOut(p) PROVE Step
  <2>1. /\ pay[p] \in Row /\ pay[p].status = "submitted" /\ Free(p)
        /\ pay'[p] = InDoubt(pay[p]) /\ \A q \in Payments : q # p => pay'[q] = pay[q]
    BY <1>3 DEF AgeOut, Stuck, IInv, TypeOK
  <2>2. /\ pay'[p].inv = pay[p].inv /\ pay'[p].run = pay[p].run
        /\ pay'[p].retryOf = pay[p].retryOf /\ pay'[p].ref = pay[p].ref
        /\ pay'[p].status = "failed"
    BY <2>1 DEF InDoubt, Row
  <2>3. pay[p].run = NoRun \/ Dispatched(pay[p].run)
    BY <2>1 DEF IInv, DraftsUnsent
  <2>4. RowKept(p)
    BY <2>1, <2>2, <2>3 DEF RowKept, Free, PAYMENT_MOVES
  <2>5. RowStep
    BY <2>1, <2>4, OneRowStep
  <2> QED BY <1>3, <2>5, QuietRuns, QuietTasks DEF AgeOut, Step
<1>4. ASSUME NEW p \in Payments, SyncLeg(p) PROVE Step
  BY <1>4, QuietRows, QuietRuns, QuietTasks DEF SyncLeg, Step
<1>5. ASSUME NEW p \in Payments, AcceptSettlement(p) PROVE Step
  BY <1>5, QuietRows, QuietRuns, QuietTasks DEF AcceptSettlement, Step
<1>6. ASSUME SweepApply PROVE Step
  <2>1. sweep.row \in Payments
    BY <1>6 DEF SweepApply, Sweep, IInv, TypeOK
  <2>2. RowStep
    BY <1>6, <2>1, RecordStep, QuietRows DEF SweepApply
  <2> QED BY <1>6, <2>2, QuietRuns, QuietTasks DEF SweepApply, Step
<1> QED BY <1>1, <1>2, <1>3, <1>4, <1>5, <1>6 DEF Settlement

\* Flags, pushes and the processor touch neither rows nor runs nor tasks.
LEMMA SurroundingsStep ==
    ASSUME IInv, Surroundings PROVE Step
<1>1. pay' = pay /\ run' = run /\ task' = task
  BY DEF Surroundings, RaiseFlag, ErpPush, ResolveFlag, ProcessorDecides
<1> QED BY <1>1, QuietRows, QuietRuns, QuietTasks DEF Step

\* Every step of the system keeps the types and respects the three tables.
LEMMA NextStep ==
    ASSUME IInv, [Next]_vars PROVE TypeOK' /\ Step
<1>1. CASE Booking
  BY <1>1, BookingType, BookingStep DEF IInv
<1>2. ASSUME NEW w \in Workers, Request(w) PROVE TypeOK' /\ Step
  BY <1>2, RequestType, RequestStep DEF IInv
<1>3. ASSUME NEW w \in Workers, Work(w) PROVE TypeOK' /\ Step
  BY <1>3, WorkType, WorkStep DEF IInv
<1>4. CASE Settlement
  BY <1>4, SettlementType, SettlementStep DEF IInv
<1>5. CASE Surroundings
  BY <1>5, SurroundingsType, SurroundingsStep DEF IInv
<1>6. CASE UNCHANGED vars
  <2>1. TypeOK'
    BY <1>6 DEF vars, IInv, TypeOK
  <2> QED BY <1>6, <2>1, QuietRows, QuietRuns, QuietTasks DEF vars, Step
<1> QED BY <1>1, <1>2, <1>3, <1>4, <1>5, <1>6, CrashStep DEF Next

-----------------------------------------------------------------------------
(* What respects the three tables preserves the invariant.                 *)

\* A slot that is taken is not taken again, and one that is empty is taken once.
LEMMA SlotKept ==
    ASSUME IInv, TypeOK', Step PROVE OneLivePayment'
<1> SUFFICES ASSUME NEW p \in Payments, NEW q \in Payments,
                    Live(p)', Live(q)', pay'[p].inv = pay'[q].inv
             PROVE  p = q
  BY DEF OneLivePayment, Live
<1>1. ASSUME NEW s \in Payments, Live(s)'
      PROVE  \/ pay[s].status # "none" /\ Live(s) /\ pay'[s].inv = pay[s].inv
             \/ pay[s].status = "none" /\ pay'[s] # pay[s] /\ ~Occupied(pay'[s].inv)
  <2>1. CASE pay[s].status # "none"
    BY <1>1, <2>1 DEF Step, RowStep, RowKept, Live, LiveStatuses, PAYMENT_MOVES
  <2>2. CASE pay[s].status = "none"
    <3>1. pay'[s] # pay[s]
      BY <1>1, <2>2 DEF Live, LiveStatuses
    <3>2. PICK i \in Invoices, r \in Runs \cup {NoRun}, old \in Payments \cup {NoPayment} :
                 pay'[s] = NewRow(i, r, old) /\ ~Occupied(i)
      BY <2>2, <3>1 DEF Step, RowStep, RowBooked
    <3>3. pay'[s].inv = i
      BY <3>2 DEF NewRow, NoRow
    <3> QED BY <2>2, <3>1, <3>2, <3>3
  <2> QED BY <2>1, <2>2
<1>2. CASE Live(p) /\ Live(q) /\ pay'[p].inv = pay[p].inv /\ pay'[q].inv = pay[q].inv
  BY <1>2 DEF IInv, OneLivePayment
<1>3. CASE pay[p].status = "none" /\ pay[q].status = "none" /\ pay'[p] # pay[p] /\ pay'[q] # pay[q]
  BY <1>3 DEF Step, RowStep
<1> QED BY <1>1, <1>2, <1>3 DEF Occupied

\* Rows that appear agree in their columns and rows that stay keep agreeing.
LEMMA RowsAgreeKept ==
    ASSUME IInv, TypeOK', Step PROVE RowsAgree'
<1>1. ASSUME NEW p \in Payments, pay[p].status # "none"
      PROVE  /\ pay'[p].inv = pay[p].inv /\ pay'[p].run = pay[p].run
             /\ pay'[p].retryOf = pay[p].retryOf /\ pay'[p].status # "none"
  BY <1>1 DEF Step, RowStep, RowKept
<1>2. ASSUME NEW p \in Payments, pay[p].status = "none", pay'[p] # pay[p]
      PROVE  /\ pay'[p].status = "pending" /\ pay'[p].inv \in Invoices
             /\ pay'[p].run \in Runs \cup {NoRun}
             /\ pay'[p].run # NoRun => run'[pay'[p].run].status # "none"
             /\ pay'[p].retryOf # NoPayment => pay[pay'[p].retryOf].status # "none"
  <2>1. PICK i \in Invoices, r \in Runs \cup {NoRun}, old \in Payments \cup {NoPayment} :
           /\ pay'[p] = NewRow(i, r, old)
           /\ r # NoRun => run'[r].status # "none"
           /\ old # NoPayment => pay[old].status # "none"
    BY <1>2 DEF Step, RowStep, RowBooked
  <2>2. /\ pay'[p].status = "pending" /\ pay'[p].inv = i /\ pay'[p].run = r
        /\ pay'[p].retryOf = old
    BY <2>1 DEF NewRow, NoRow
  <2> QED BY <2>1, <2>2
<1>3. ASSUME NEW p \in Payments, pay[p].status = "none"
      PROVE  pay[p].run = NoRun /\ pay[p].retryOf = NoPayment
  BY <1>3, NoRowFields, Zenon DEF IInv, RowsAgree
<1>4. ASSUME NEW p \in Payments, pay'[p].status # "none"
      PROVE  /\ pay'[p].inv \in Invoices
             /\ pay'[p].run # NoRun => run'[pay'[p].run].status # "none"
  <2>1. CASE pay[p].status # "none"
    <3>1. pay[p] \in Row
      BY DEF IInv, TypeOK
    <3>2. /\ pay[p].inv \in Invoices
          /\ pay[p].run # NoRun => pay[p].run \in Runs /\ run[pay[p].run].status # "none"
      BY <2>1, <3>1 DEF IInv, RowsAgree, Row
    <3> QED BY <1>1, <2>1, <3>2 DEF Step, RunStep
  <2>2. CASE pay[p].status = "none"
    BY <1>2, <1>4, <2>2
  <2> QED BY <2>1, <2>2
<1>5. ASSUME NEW p \in Payments, pay'[p].status = "none" PROVE pay'[p] = NoRow
  <2>1. pay[p].status = "none" /\ pay'[p] = pay[p]
    BY <1>1, <1>2, <1>5
  <2> QED BY <2>1 DEF IInv, RowsAgree
<1>6. ASSUME NEW p \in Payments, NEW q \in Payments, pay'[p].retryOf = q PROVE pay'[q].status # "none"
  <2>1. pay[q].status # "none"
    <3>1. CASE pay[p].status # "none"
      BY <1>1, <1>6, <3>1 DEF IInv, RowsAgree
    <3>2. CASE pay[p].status = "none"
      BY <1>2, <1>3, <1>6, <3>2, PaymentRunsAssumption
    <3> QED BY <3>1, <3>2
  <2> QED BY <1>1, <2>1
<1>7. ASSUME NEW r \in Runs, run'[r].status \notin {"none", "cancelled"}
      PROVE  \E p \in Payments :
               /\ pay'[p].run = r /\ pay'[p].status \notin {"none", "deleted"}
               /\ \A q \in Payments :
                    ~(pay'[q].run = r /\ pay'[q].retryOf = p /\ pay'[q].status # "deleted")
  <2>0. \A p \in Payments : pay[p].status = "none" /\ pay'[p].status # "none" =>
           \A q \in Payments : pay'[q].retryOf # p
    <3>1. ASSUME NEW p \in Payments, NEW q \in Payments, pay'[q].retryOf = p PROVE pay[p].status # "none"
      <4>1. CASE pay[q].status # "none"
        BY <1>1, <3>1, <4>1 DEF IInv, RowsAgree
      <4>2. CASE pay[q].status = "none"
        BY <1>2, <1>3, <3>1, <4>2, PaymentRunsAssumption
      <4> QED BY <4>1, <4>2
    <3> QED BY <3>1
  <2>1. CASE run[r].status = "none"
    <3>1. PICK p \in Payments : pay[p].status = "none" /\ pay'[p].status # "none" /\ pay'[p].run = r
      BY <1>7, <2>1 DEF Step, RunStep
    <3>2. pay'[p].status = "pending"
      BY <1>2, <3>1
    <3> QED BY <2>0, <3>1, <3>2
  <2>2. CASE run[r].status # "none"
    <3>1. run[r].status # "cancelled"
      BY <1>7 DEF Step, RunStep
    <3>2. PICK p \in ActiveRows(pay, r) : TRUE
      BY <2>2, <3>1 DEF IInv, RowsAgree
    <3>3. /\ p \in Payments /\ pay[p].run = r /\ pay[p].status \notin {"none", "deleted"}
          /\ \A q \in Payments :
               ~(pay[q].run = r /\ pay[q].retryOf = p /\ pay[q].status # "deleted")
      BY <3>2 DEF ActiveRows
    <3>4. \A q \in Payments : pay[q].status # "none" /\ pay[q].run = r =>
             (pay'[q].status = "deleted" <=> pay[q].status = "deleted")
      BY <1>7 DEF Step, RowStep, RowKept, PAYMENT_MOVES
    <3>5. CASE \E q \in Payments : pay'[q].run = r /\ pay'[q].retryOf = p /\ pay'[q].status # "deleted"
      <4>1. PICK q \in Payments : pay'[q].run = r /\ pay'[q].retryOf = p /\ pay'[q].status # "deleted"
        BY <3>5
      <4>2. pay[q].status = "none" /\ pay'[q].status = "pending"
        <5>1. pay[q].status = "none"
          BY <1>1, <3>3, <3>4, <4>1
        <5>2. pay'[q] # pay[q]
          BY <1>3, <3>3, <4>1, <5>1, PaymentRunsAssumption
        <5> QED BY <1>2, <5>1, <5>2
      <4> QED BY <2>0, <4>1, <4>2
    <3>6. CASE ~ \E q \in Payments : pay'[q].run = r /\ pay'[q].retryOf = p /\ pay'[q].status # "deleted"
      BY <1>1, <3>3, <3>4, <3>6
    <3> QED BY <3>5, <3>6
  <2> QED BY <2>1, <2>2
<1>8. ASSUME NEW r \in Runs, run'[r].status \notin {"none", "cancelled"} PROVE ActiveRows(pay', r) # {}
  BY <1>7, <1>8 DEF ActiveRows
<1> QED BY <1>4, <1>5, <1>6, <1>8 DEF RowsAgree

\* A worker that does not move keeps what it holds: its row waits for it.
LEMMA LocksKept ==
    ASSUME IInv, TypeOK', Step PROVE Locks'
<1>1. ASSUME NEW w \in Workers, task'[w] = task[w] PROVE Holding(task[w])'
  <2>1. Holding(task[w]) /\ task[w] \in Task
    BY DEF IInv, Locks, TypeOK
  <2>2. task[w].at # NoPayment => pay'[task[w].at] = pay[task[w].at]
    <3>1. ASSUME NEW p \in Payments, task[w].at = p PROVE pay'[p] = pay[p]
      <4>1. pay[p].status # "none"
        BY <2>1, <3>1, PaymentRunsAssumption DEF Holding, Live, LiveStatuses
      <4> QED BY <1>1, <3>1, <4>1 DEF Step, RowStep, RowKept
    <3> QED BY <2>1, <3>1 DEF Task
  <2> QED BY <1>1, <2>1, <2>2 DEF Holding, Live
<1>2. ASSUME NEW w \in Workers PROVE Holding(task[w])'
  BY <1>1 DEF Step, TaskStep
<1>3. ASSUME NEW w \in Workers, NEW v \in Workers, task'[w].at # NoPayment, task'[w].at = task'[v].at
      PROVE  w = v
  <2>1. CASE task'[w] = task[w] /\ task'[v] = task[v]
    BY <1>3, <2>1 DEF IInv, Locks
  <2>2. CASE task'[w] # task[w] /\ task'[v] = task[v]
    BY <1>3, <2>2 DEF Step, TaskStep, IInv, Locks, Free
  <2>3. CASE task'[w] = task[w] /\ task'[v] # task[v]
    BY <1>3, <2>3 DEF Step, TaskStep, IInv, Locks, Free
  <2>4. CASE task'[w] # task[w] /\ task'[v] # task[v]
    BY <2>4 DEF Step, TaskStep
  <2> QED BY <2>1, <2>2, <2>3, <2>4
<1> QED BY <1>2, <1>3 DEF Locks

\* Nothing of a draft run is sent.
LEMMA DraftsKept ==
    ASSUME IInv, TypeOK', Step PROVE DraftsUnsent'
<1>1. ASSUME NEW p \in Payments, pay'[p].run # NoRun, ~Dispatched(pay[p].run)'
      PROVE  pay'[p].status \in {"pending", "voided", "deleted"} /\ ~pay'[p].ref
  <2>1. CASE pay[p].status # "none"
    <3>1. pay[p] \in Row /\ pay'[p].run = pay[p].run /\ pay[p].run \in Runs
      BY <1>1, <2>1 DEF IInv, TypeOK, Row, Step, RowStep, RowKept
    <3>2. ~Dispatched(pay[p].run)
      BY <1>1, <3>1 DEF Step, RunStep, Dispatched
    <3> QED BY <1>1, <2>1, <3>1, <3>2 DEF Step, RowStep, RowKept
  <2>2. CASE pay[p].status = "none"
    <3>1. pay[p].run = NoRun
      BY <2>2, NoRowFields, Zenon DEF IInv, RowsAgree
    <3>2. RowBooked(p)
      BY <1>1, <2>2, <3>1 DEF Step, RowStep
    <3>3. PICK i, r, old : pay'[p] = NewRow(i, r, old)
      BY <3>2 DEF RowBooked
    <3> QED BY <3>3 DEF NewRow, NoRow
  <2> QED BY <2>1, <2>2
<1>2. ASSUME NEW p \in Payments, pay'[p].status = "deleted" PROVE ~pay'[p].ref
  <2>1. CASE pay[p].status # "none"
    BY <1>2, <2>1 DEF Step, RowStep, RowKept
  <2>2. CASE pay[p].status = "none"
    <3>1. RowBooked(p)
      BY <1>2, <2>2 DEF Step, RowStep
    <3>2. PICK i, r, old : pay'[p] = NewRow(i, r, old)
      BY <3>1 DEF RowBooked
    <3> QED BY <3>2 DEF NewRow, NoRow
  <2> QED BY <2>1, <2>2
<1>3. ASSUME NEW w \in Workers, task'[w] = task[w] PROVE DraftsUntouched(task[w])'
  <2> DEFINE t == task[w]
  <2>1. t \in Task /\ Holding(t) /\ DraftsUntouched(t)
    BY DEF IInv, TypeOK, Locks, DraftsUnsent
  <2>2. ASSUME NEW p \in Payments, pay[p].run # NoRun \/ pay[p].status # "none"
        PROVE  pay'[p].run = pay[p].run
    <3>1. pay[p].status # "none"
      BY <2>2, NoRowFields, Zenon DEF IInv, RowsAgree
    <3> QED BY <3>1 DEF Step, RowStep, RowKept
  <2>3. ASSUME NEW r \in Runs, Dispatched(r) PROVE run'[r].status \notin {"none", "draft", "cancelled"}
    BY <2>3 DEF Step, RunStep, Dispatched
  <2>4. t.kind = "dispatch" =>
           /\ t.run # NoRun /\ run'[t.run].status \notin {"none", "draft", "cancelled"}
           /\ \A p \in t.todo : pay'[p].run = t.run
    BY <2>1, <2>2, <2>3 DEF DraftsUntouched, Task
  <2>5. t.at # NoPayment /\ t.kind # "void" =>
           pay'[t.at].run = NoRun \/ run'[pay'[t.at].run].status \notin {"none", "draft", "cancelled"}
    <3>1. SUFFICES ASSUME NEW p \in Payments, t.at = p, t.kind # "void"
                   PROVE  \/ pay'[p].run = NoRun
                          \/ run'[pay'[p].run].status \notin {"none", "draft", "cancelled"}
      BY <2>1 DEF Task
    <3>2. pay[p].status # "none" /\ pay[p] \in Row
      BY <2>1, <3>1, PaymentRunsAssumption DEF Holding, Live, LiveStatuses, IInv, TypeOK
    <3>3. pay[p].run = NoRun \/ (pay[p].run \in Runs /\ Dispatched(pay[p].run))
      BY <2>1, <3>1, <3>2, PaymentRunsAssumption DEF DraftsUntouched, Row
    <3> QED BY <2>2, <2>3, <3>2, <3>3
  <2>6. t.roll # "" =>
           /\ t.stage = "rolled" /\ t.roll \notin {"none", "draft", "cancelled"}
           /\ t.new.run # NoRun /\ run'[t.new.run].status \notin {"none", "draft", "cancelled"}
    BY <2>1, <2>3 DEF DraftsUntouched, Task, Row
  <2> QED BY <1>3, <2>4, <2>5, <2>6 DEF DraftsUntouched, Dispatched
<1>4. ASSUME NEW w \in Workers PROVE DraftsUntouched(task[w])'
  BY <1>3 DEF Step, TaskStep
<1> QED BY <1>1, <1>2, <1>4 DEF DraftsUnsent

\* Every step keeps the invariant.
LEMMA InductiveStep ==
    ASSUME IInv, [Next]_vars PROVE IInv'
<1>1. TypeOK' /\ Step
  BY NextStep
<1> QED BY <1>1, SlotKept, RowsAgreeKept, LocksKept, DraftsKept DEF IInv

\* The empty tables satisfy it.
LEMMA InductiveInit == Init => IInv
<1> SUFFICES ASSUME Init PROVE IInv
  OBVIOUS
<1>1. \A p \in Payments : pay[p] = NoRow
  BY DEF Init
<1>2. /\ \A p \in Payments : pay[p].status = "none" /\ pay[p].run = NoRun
      /\ \A p \in Payments : pay[p].retryOf = NoPayment
  BY <1>1, NoRowFields, Zenon
<1>3. \A w \in Workers : task[w].at = NoPayment /\ task[w].stage = "loop"
                         /\ task[w].kind = "idle" /\ task[w].roll = ""
  BY IdleFields, Zenon DEF Init
<1>4. \A r \in Runs : run[r].status = "none"
  BY DEF Init, NoRunRow
<1>5. RowsAgree
  BY <1>1, <1>2, <1>4, PaymentRunsAssumption DEF RowsAgree
<1>6. Locks
  BY <1>3 DEF Locks, Holding
<1>7. DraftsUnsent
  BY <1>2, <1>3 DEF DraftsUnsent, DraftsUntouched
<1>8. OneLivePayment
  BY <1>2 DEF OneLivePayment, Live, LiveStatuses
<1> QED BY <1>5, <1>6, <1>7, <1>8, InitType DEF IInv

-----------------------------------------------------------------------------
(* The theorems.                                                           *)

\* The inductive invariant holds in every reachable state.
THEOREM Invariance == Spec => []IInv
<1>1. Init => IInv
  BY InductiveInit
<1>2. IInv /\ [Next]_vars => IInv'
  BY InductiveStep
<1> QED BY <1>1, <1>2, PTL DEF Spec

\* Every table, task and order keeps its type, whatever the handlers, the
\* sweep and the mishaps do.
THEOREM TypeCorrect == Spec => []TypeOK
<1>1. IInv => TypeOK
  BY DEF IInv
<1> QED BY <1>1, Invariance, PTL

\* No invoice ever has two live payment rows: the refusals of the handlers keep
\* uq_payments_one_live_per_invoice true at every write, for any number of
\* invoices, rows, runs and concurrent requests, and through every mishap.
THEOREM SlotUnique == Spec => []OneLivePayment
<1>1. IInv => OneLivePayment
  BY DEF IInv
<1> QED BY <1>1, Invariance, PTL

\* A payment row only ever moves forward: no request, commit, webhook or sweep
\* reopens a finished attempt or deletes a sent one.
THEOREM AttemptsForward == Spec => AttemptsMoveForward
<1> DEFINE Forward(p) ==
      /\ pay'[p].status # pay[p].status => <<pay[p].status, pay'[p].status>> \in PAYMENT_MOVES
      /\ pay[p].ref => pay'[p].ref /\ pay'[p].status # "deleted"
<1>1. ASSUME IInv, [Next]_vars PROVE \A p \in Payments : Forward(p)
  <2>1. Step
    BY <1>1, NextStep
  <2>2. ASSUME NEW p \in Payments, pay[p].status # "none" PROVE Forward(p)
    BY <2>1, <2>2 DEF Step, RowStep, RowKept
  <2>3. ASSUME NEW p \in Payments, pay[p].status = "none" PROVE Forward(p)
    <3>1. pay[p].ref = FALSE
      BY <1>1, <2>3, NoRowFields, Zenon DEF IInv, RowsAgree
    <3>2. CASE pay'[p] = pay[p]
      BY <3>1, <3>2
    <3>3. CASE RowBooked(p)
      <4>1. PICK i, r, old : pay'[p] = NewRow(i, r, old)
        BY <3>3 DEF RowBooked
      <4>2. pay'[p].status = "pending"
        BY <4>1 DEF NewRow, NoRow
      <4> QED BY <2>3, <3>1, <4>2 DEF PAYMENT_MOVES
    <3> QED BY <2>1, <2>3, <3>2, <3>3 DEF Step, RowStep
  <2> QED BY <2>2, <2>3
<1>2. IInv /\ [Next]_vars => [\A p \in Payments : Forward(p)]_vars
  BY <1>1
<1> QED BY <1>2, Invariance, PTL DEF Spec, AttemptsMoveForward

-----------------------------------------------------------------------------
(* Segregation of duties.                                                  *)

\* A run keeps its creator, its CFO approval is never taken back, and it is
\* dispatched only when no approval is missing.
ControlsKept ==
    \A r \in Runs :
        /\ run[r].status # "none" =>
             /\ run'[r].creator = run[r].creator
             /\ run[r].cfo # "needed" => run'[r].cfo # "needed"
        /\ Dispatched(r)' => Dispatched(r) \/ run'[r].cfo # "needed"

\* A worker that dispatches did so before, or was let in by the controls.
DispatcherKept ==
    \A w \in Workers : task'[w].kind = "dispatch" =>
        \/ task[w].kind = "dispatch" /\ task'[w].user = task[w].user /\ task'[w].run = task[w].run
        \/ LET r == task'[w].run
           IN  r \in Runs /\ run'[r].creator # task'[w].user /\ run'[r].status = "executing"

\* A step that changes no run.
LEMMA QuietControls ==
    ASSUME run' = run PROVE ControlsKept
BY DEF ControlsKept, Dispatched

\* A step that changes the status of one run, and of no draft unless approved.
LEMMA StatusOnly ==
    ASSUME IInv, NEW r \in Runs, NEW s, run' = [run EXCEPT ![r].status = s],
           s \in {"none", "draft", "cancelled"} \/ Dispatched(r) \/ run[r].cfo # "needed"
    PROVE  ControlsKept /\ run'[r].creator = run[r].creator /\ run'[r].status = s
<1>1. /\ \A q \in Runs : run'[q].creator = run[q].creator /\ run'[q].cfo = run[q].cfo
      /\ run'[r].status = s
      /\ \A q \in Runs \ {r} : run'[q] = run[q]
  BY DEF IInv, TypeOK, RunRow
<1> QED BY <1>1 DEF ControlsKept, Dispatched

\* A step of one worker that starts no dispatch.
LEMMA QuietDispatcher ==
    ASSUME NEW w \in Workers, \A v \in Workers \ {w} : task'[v] = task[v],
           task'[w].kind = "dispatch" =>
               /\ task[w].kind = "dispatch"
               /\ task'[w].user = task[w].user /\ task'[w].run = task[w].run
    PROVE  DispatcherKept
BY DEF DispatcherKept

\* A step that starts one on a run it has claimed.
LEMMA NewDispatcher ==
    ASSUME IInv, NEW w \in Workers, NEW u \in Users, NEW r \in Runs, NEW table,
           StartDispatch(w, u, r, table), run'[r].creator # u, run'[r].status = "executing"
    PROVE  DispatcherKept
<1>1. task'[w].user = u /\ task'[w].run = r
  BY DEF StartDispatch, Idle, IInv, TypeOK
<1>2. \A v \in Workers \ {w} : task'[v] = task[v]
  BY DEF StartDispatch, IInv, TypeOK
<1> QED BY <1>1, <1>2 DEF DispatcherKept

\* Booking starts no dispatch; a run appears as a draft and keeps its creator.
LEMMA BookingControls ==
    ASSUME IInv, Booking PROVE ControlsKept /\ DispatcherKept
<1>1. ASSUME NEW u \in Users, NEW r \in Runs, CreateRun(u, r) PROVE ControlsKept /\ task' = task
  <2>1. PICK c \in {"not_needed", "needed"} :
          run' = [run EXCEPT ![r] = [status |-> "draft", creator |-> u, cfo |-> c]]
    BY <1>1 DEF CreateRun
  <2>2. run[r].status = "none" /\ run'[r].status = "draft" /\ \A q \in Runs \ {r} : run'[q] = run[q]
    BY <1>1, <2>1 DEF CreateRun, IInv, TypeOK
  <2> QED BY <1>1, <2>2 DEF ControlsKept, Dispatched, CreateRun
<1>2. ASSUME NEW u \in Users, NEW r \in Runs, ApproveRun(u, r) PROVE ControlsKept /\ task' = task
  <2>1. /\ run'[r].creator = run[r].creator /\ run'[r].cfo = "given"
        /\ run'[r].status = run[r].status
        /\ \A q \in Runs \ {r} : run'[q] = run[q]
    BY <1>2 DEF ApproveRun, IInv, TypeOK, RunRow
  <2> QED BY <1>2, <2>1 DEF ControlsKept, Dispatched, ApproveRun
<1>3. ASSUME NEW i \in Invoices, NEW p \in Payments, CreatePayment(i, p)
      PROVE  ControlsKept /\ task' = task
  BY <1>3, QuietControls DEF CreatePayment
<1>4. ASSUME NEW r \in Runs, CancelRun(r) PROVE ControlsKept /\ task' = task
  BY <1>4, StatusOnly DEF CancelRun
<1>5. ControlsKept /\ task' = task
  BY <1>1, <1>2, <1>3, <1>4 DEF Booking
<1> QED BY <1>5 DEF DispatcherKept

\* A request dispatches only a run its user may dispatch.
LEMMA RequestControls ==
    ASSUME IInv, NEW w \in Workers, Request(w) PROVE ControlsKept /\ DispatcherKept
<1>1. ASSUME NEW u \in Users, NEW r \in Runs,
             Execute(w, u, r) \/ Resume(w, u, r) \/ RetryFailed(w, u, r)
      PROVE  ControlsKept /\ DispatcherKept
  <2>1. /\ run[r].creator # u
        /\ \E table : StartDispatch(w, u, r, table)
        /\ \/ run' = [run EXCEPT ![r].status = "executing"] /\ run[r].cfo # "needed"
           \/ run' = run /\ run[r].status = "executing"
    <3>1. CASE Execute(w, u, r)
      BY <3>1 DEF Execute, MayDispatch
    <3>2. CASE Resume(w, u, r)
      BY <3>2 DEF Resume, MayDispatch
    <3>3. CASE RetryFailed(w, u, r)
      BY <3>3 DEF RetryFailed, MayDispatch
    <3> QED BY <1>1, <3>1, <3>2, <3>3
  <2>2. ControlsKept /\ run'[r].creator # u /\ run'[r].status = "executing"
    BY <2>1, StatusOnly, QuietControls
  <2> QED BY <2>1, <2>2, NewDispatcher
<1>2. ASSUME NEW p \in Payments, Release(w, p) \/ Void(w, p) \/ Dismiss(w, p) \/ LegRead(w, p)
      PROVE  ControlsKept /\ DispatcherKept
  <2>1. task'[w].kind # "dispatch"
    <3>1. CASE Release(w, p)
      <4>1. Gated([Idle EXCEPT !.kind = "release"], p).kind = "release"
        BY DEF Gated, Idle
      <4> QED BY <3>1, <4>1 DEF Release, IInv, TypeOK
    <3>2. CASE Void(w, p)
      BY <3>2 DEF Void, Idle, IInv, TypeOK
    <3>3. CASE Dismiss(w, p)
      BY <3>3 DEF Dismiss, Idle, IInv, TypeOK
    <3>4. CASE LegRead(w, p)
      BY <3>4 DEF LegRead, Idle, IInv, TypeOK
    <3> QED BY <1>2, <3>1, <3>2, <3>3, <3>4
  <2>2. run' = run /\ \A v \in Workers \ {w} : task'[v] = task[v]
    BY <1>2 DEF Release, Void, Dismiss, LegRead, IInv, TypeOK
  <2> QED BY <2>1, <2>2, QuietControls, QuietDispatcher
<1> QED BY <1>1, <1>2 DEF Request

\* A request under way keeps its user and its run; a commit or the end of a
\* pass moves only the status of a run that was dispatched.
LEMMA WorkControls ==
    ASSUME IInv, NEW w \in Workers, Work(w) PROVE ControlsKept /\ DispatcherKept
<1> DEFINE Kept(t) == t.kind = "dispatch" =>
      task[w].kind = "dispatch" /\ t.user = task[w].user /\ t.run = task[w].run
<1>0. task[w] \in Task /\ Holding(task[w]) /\ DraftsUntouched(task[w])
  BY DEF IInv, TypeOK, Locks, DraftsUnsent
<1>1. Idle.kind # "dispatch"
  BY DEF Idle
<1>2. ASSUME NEW t, task' = [task EXCEPT ![w] = t], Kept(t) PROVE DispatcherKept
  <2>1. task'[w] = t /\ \A v \in Workers \ {w} : task'[v] = task[v]
    BY <1>2 DEF IInv, TypeOK
  <2> QED BY <1>2, <2>1, QuietDispatcher
<1> HIDE DEF Kept
<1>3. ASSUME NEW p \in Payments, DispatchRow(w, p) PROVE ControlsKept /\ DispatcherKept
  <2> DEFINE u == [task[w] EXCEPT !.todo = @ \ {p}]
  <2>1. Kept(u) /\ Kept(Gated(u, p))
    BY <1>0 DEF Kept, Gated, Task
  <2>2. run' = run /\ (task' = [task EXCEPT ![w] = u] \/ task' = [task EXCEPT ![w] = Gated(u, p)])
    BY <1>3 DEF DispatchRow
  <2> HIDE DEF u
  <2> QED BY <1>2, <2>1, <2>2, QuietControls
<1>4. ASSUME NEW new, NEW state, Decide(w, new, state) PROVE ControlsKept /\ DispatcherKept
  <2> DEFINE u == [task[w] EXCEPT !.stage = "decided", !.new = new]
  <2>1. Kept(u)
    BY <1>0 DEF Kept, Task
  <2>2. run' = run /\ task' = [task EXCEPT ![w] = u]
    BY <1>4 DEF Decide, IInv, TypeOK
  <2> HIDE DEF u
  <2> QED BY <1>2, <2>1, <2>2, QuietControls
<1>5. Refuse(w) \/ Hold(w) \/ Send(w) \/ Raise(w) => \E new, state : Decide(w, new, state)
  BY DEF Refuse, Hold, Send, Raise
<1>6. ASSUME ReadRun(w) PROVE ControlsKept /\ DispatcherKept
  <2> DEFINE u == [task[w] EXCEPT !.stage = "rolled", !.roll = Recomputed(w)]
  <2>1. Kept(u)
    BY <1>0 DEF Kept, Task
  <2>2. run' = run /\ task' = [task EXCEPT ![w] = u]
    BY <1>6 DEF ReadRun, IInv, TypeOK
  <2> HIDE DEF u
  <2> QED BY <1>2, <2>1, <2>2, QuietControls
<1>7. ASSUME Commit(w) PROVE ControlsKept /\ DispatcherKept
  <2> DEFINE u == [Idle EXCEPT !.kind = "dispatch", !.user = task[w].user,
                               !.run = task[w].run, !.todo = task[w].todo]
             r == task[w].new.run
             roll == IF task[w].stage = "rolled" THEN task[w].roll ELSE Recomputed(w)
  <2>1. task[w].kind = "dispatch" => Kept(u)
    BY DEF Kept, Idle
  <2>2. Kept(Idle)
    BY <1>1 DEF Kept
  <2>3. /\ task' = [task EXCEPT ![w] = IF task[w].kind = "dispatch" THEN u ELSE Idle]
        /\ run' = IF roll = "" THEN run ELSE [run EXCEPT ![r].status = roll]
        /\ task[w].stage \in {"decided", "rolled"}
    BY <1>7 DEF Commit
  <2>4. roll # "" => r \in Runs /\ Dispatched(r)
    <3>1. CASE task[w].stage = "rolled"
      BY <1>0, <3>1 DEF DraftsUntouched, Task, Row
    <3>2. CASE task[w].stage # "rolled"
      BY <2>3, <3>2, RecomputedDispatched
    <3> QED BY <3>1, <3>2
  <2> HIDE DEF u, roll, r
  <2>5. ControlsKept
    BY <2>3, <2>4, StatusOnly, QuietControls
  <2> QED BY <1>2, <2>1, <2>2, <2>3, <2>5
<1>8. ASSUME Finish(w) PROVE ControlsKept /\ DispatcherKept
  <2> DEFINE r == task[w].run
             s == Rollup(pay, r)
  <2>1. r \in Runs /\ Dispatched(r)
    BY <1>0, <1>8 DEF Finish, DraftsUntouched, Task
  <2>2. /\ task' = [task EXCEPT ![w] = Idle]
        /\ run' = run \/ run' = [run EXCEPT ![r].status = s]
    BY <1>8 DEF Finish
  <2> HIDE DEF r, s
  <2>3. ControlsKept
    BY <2>1, <2>2, StatusOnly, QuietControls
  <2> QED BY <1>1, <1>2, <2>2, <2>3 DEF Kept
<1>9. ASSUME LegApply(w) PROVE ControlsKept /\ DispatcherKept
  BY <1>1, <1>2, <1>9, QuietControls DEF LegApply, Kept
<1> QED BY <1>3, <1>4, <1>5, <1>6, <1>7, <1>8, <1>9 DEF Work

\* No step undoes a control or lets a dispatcher past one.
LEMMA ControlsStep ==
    ASSUME IInv, [Next]_vars PROVE ControlsKept /\ DispatcherKept
<1>1. ASSUME NEW w \in Workers, Crash(w) PROVE ControlsKept /\ DispatcherKept
  <2>1. /\ run' = run /\ task'[w].kind = "idle"
        /\ \A v \in Workers \ {w} : task'[v] = task[v]
    BY <1>1 DEF Crash, Idle, IInv, TypeOK
  <2> QED BY <2>1, QuietControls, QuietDispatcher
<1>2. ASSUME Settlement \/ Surroundings \/ UNCHANGED vars PROVE run' = run /\ task' = task
  BY <1>2 DEF Settlement, Surroundings, Webhook, SweepPoll, SweepApply, AgeOut, SyncLeg,
              AcceptSettlement, RaiseFlag, ErpPush, ResolveFlag, ProcessorDecides, vars
<1>3. ASSUME Settlement \/ Surroundings \/ UNCHANGED vars PROVE ControlsKept /\ DispatcherKept
  BY <1>2, <1>3, QuietControls DEF DispatcherKept
<1> QED BY <1>1, <1>3, BookingControls, RequestControls, WorkControls DEF Next

\* Segregation of duties: a run is only ever dispatched by somebody who did not
\* create it, after the CFO approved it where that was needed; for any number
\* of retries, resumes and concurrent passes, and through every mishap.
THEOREM SegregationHolds == Spec => []MakerChecker
<1> DEFINE Approved == \A r \in Runs : Dispatched(r) => run[r].cfo # "needed"
           Inv == IInv /\ Approved /\ MakerChecker
<1>1. Init => Inv
  <2> SUFFICES ASSUME Init PROVE Inv
    OBVIOUS
  <2>1. \A r \in Runs : run[r].status = "none"
    BY DEF Init, NoRunRow
  <2>2. \A w \in Workers : task[w].kind = "idle"
    BY IdleFields DEF Init
  <2> QED BY <2>1, <2>2, InductiveInit DEF Dispatched, MakerChecker
<1>2. Inv /\ [Next]_vars => Inv'
  <2> SUFFICES ASSUME Inv, [Next]_vars PROVE Inv'
    OBVIOUS
  <2>1. IInv' /\ ControlsKept /\ DispatcherKept
    BY InductiveStep, ControlsStep
  <2>2. Approved'
    <3>1. ASSUME NEW r \in Runs, Dispatched(r)' PROVE run'[r].cfo # "needed"
      BY <2>1, <3>1 DEF ControlsKept, Dispatched
    <3> QED BY <3>1 DEF Dispatched
  <2>3. ASSUME NEW w \in Workers, task'[w].kind = "dispatch"
        PROVE  run'[task'[w].run].creator # task'[w].user /\ run'[task'[w].run].cfo # "needed"
    <3>1. CASE task[w].kind = "dispatch" /\ task'[w].user = task[w].user /\ task'[w].run = task[w].run
      <4>1. task[w].run \in Runs /\ run[task[w].run].status # "none"
        BY <3>1 DEF IInv, TypeOK, Task, DraftsUnsent, DraftsUntouched, Dispatched
      <4> QED BY <2>1, <3>1, <4>1 DEF ControlsKept, MakerChecker
    <3>2. CASE LET r == task'[w].run
               IN  r \in Runs /\ run'[r].creator # task'[w].user /\ run'[r].status = "executing"
      BY <2>2, <3>2 DEF Dispatched
    <3> QED BY <2>1, <2>3, <3>1, <3>2 DEF DispatcherKept
  <2> QED BY <2>1, <2>2, <2>3 DEF MakerChecker
<1>3. Inv => MakerChecker
  OBVIOUS
<1> QED BY <1>1, <1>2, <1>3, PTL DEF Spec
=============================================================================
