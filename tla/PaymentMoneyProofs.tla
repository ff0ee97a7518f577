------------------------- MODULE PaymentMoneyProofs -------------------------
(* What the payments core promises about money, its queue and its passes:   *)
(* theorems that rest on the rows and locks of PaymentRunsProofs.  Each     *)
(* names the mishaps it excludes; the others may happen at any time.        *)
EXTENDS PaymentRunsProofs

-----------------------------------------------------------------------------
(* What an action amounts to, field by field.                              *)

Others(w) == \A v \in Workers \ {w} : task'[v] = task[v]
OtherRows(p) == \A q \in Payments \ {p} : pay'[q] = pay[q]
OtherOrders(p) == \A q \in Payments \ {p} : order'[q] = order[q]

\* Rows that appear are pending, for invoices that nothing blocks or occupies.
NewRows(r) ==
    \A p \in Payments : pay'[p] # pay[p] =>
        /\ pay[p].status = "none"
        /\ pay'[p].status = "pending" /\ pay'[p].ref = FALSE /\ pay'[p].run = r
        /\ pay'[p].inv \in Invoices /\ ~Blocked(pay'[p].inv) /\ ~Occupied(pay'[p].inv)

\* A worker starts a pass over the pending rows of a run.
Starts(w, r) ==
    /\ Others(w) /\ task[w] = Idle
    /\ task'[w].at = NoPayment /\ task'[w].stage = "loop"
    /\ task'[w].kind = "dispatch" /\ task'[w].run = r
    /\ task'[w].todo = {p \in Payments : pay'[p].run = r /\ pay'[p].status = "pending"}

\* A worker takes a row through the gates, or has it refused there.
Gates(w, p) ==
    /\ UNCHANGED <<invoice, flags, pay, run, sweep, order>>
    /\ Others(w) /\ task[w].at = NoPayment /\ task[w].stage = "loop" /\ Free(p)
    /\ pay[p].status \in Waiting
    /\ task'[w].at = p /\ task'[w].run = task[w].run
    /\ \/ /\ task[w].kind = "dispatch" /\ task'[w].kind = "dispatch"
          /\ task'[w].todo = task[w].todo \ {p}
       \/ task[w].kind = "idle" /\ task'[w].kind = "release"
    /\ \/ /\ task'[w].stage = "gated" /\ Payable(pay[p].inv) /\ ~Blocked(pay[p].inv)
          /\ task'[w].seen = invoice[pay[p].inv]
       \/ task'[w].stage = "decided" /\ task'[w].new = Refused(pay[p])

\* A worker past the gates refuses, holds, sends or fails.
Decides(w, p) ==
    /\ UNCHANGED <<invoice, flags, pay, run, sweep>>
    /\ Others(w) /\ OtherOrders(p)
    /\ task[w].at = p /\ task[w].stage = "gated" /\ pay[p].status \in Waiting
    /\ task'[w].at = p /\ task'[w].stage = "decided" /\ task'[w].kind = task[w].kind
    /\ task'[w].run = task[w].run /\ task'[w].todo = task[w].todo /\ task'[w].seen = task[w].seen
    /\ LET new == task'[w].new IN
         \/ new.status = "failed" /\ new.ref = pay[p].ref /\ order'[p] = order[p]
         \/ new.status = "pending_compliance" /\ new.ref = pay[p].ref /\ order'[p] = order[p]
         \/ /\ new.ref
            /\ \/ new.status \in {"submitted", "completed"}
               \/ new.status = "failed" /\ order'[p] \in {"rejected", "reversed"}
            /\ order[p] # "none" => order'[p] = order[p]
         \/ /\ new.status = "failed" /\ new.why = "in_doubt"
            /\ order'[p] = order[p] \/ "lost_reply" \in Mishaps

\* A worker takes a row to void or to dismiss it.
Takes(w, p) ==
    /\ UNCHANGED <<invoice, flags, pay, run, sweep>>
    /\ Others(w) /\ OtherOrders(p)
    /\ task[w] = Idle /\ Free(p) /\ Live(p)
    /\ task'[w].at = p /\ task'[w].stage = "decided" /\ task'[w].new.ref = pay[p].ref
    /\ \/ /\ task'[w].kind = "void" /\ task'[w].new.status = "voided"
          /\ task'[w].seen = invoice[pay[p].inv]
          /\ \/ /\ order'[p] = order[p]
                /\ pay[p].ref /\ order[p] \in {"open", "settled", "short"} => "deaf_void" \in Mishaps
             \/ order'[p] = "reversed" /\ pay[p].ref
       \/ /\ task'[w].kind = "dismiss" /\ task'[w].new.status = "failed"
          /\ pay[p].status \in Waiting /\ order'[p] = order[p]

\* A worker commits the row it holds.
Commits(w, p) ==
    /\ UNCHANGED <<flags, sweep, order>>
    /\ Others(w) /\ OtherRows(p)
    /\ task[w].at = p /\ Decided(task[w]) /\ pay'[p] = task[w].new
    /\ invoice' = [invoice EXCEPT ![pay[p].inv] = InvoiceWrite(task[w])]
    /\ task'[w].at = NoPayment /\ task'[w].stage = "loop"
    /\ IF task[w].kind = "dispatch"
       THEN /\ task'[w].kind = "dispatch"
            /\ task'[w].run = task[w].run /\ task'[w].todo = task[w].todo
       ELSE task'[w].kind = "idle"

\* A worker moves on without a row.
Passes(w) ==
    /\ UNCHANGED <<flags, pay, sweep, order>>
    /\ Others(w)
    /\ task'[w].at = NoPayment /\ task'[w].stage = "loop"
    /\ \/ /\ task[w].kind = "dispatch" /\ task'[w].kind = "dispatch" /\ UNCHANGED <<invoice, run>>
          /\ task[w].at = NoPayment /\ task'[w].run = task[w].run
          /\ \E p \in Payments : /\ pay[p].status # "pending"
                                 /\ task'[w].todo = task[w].todo \ {p}
       \/ /\ task[w].at = NoPayment /\ task[w].todo = {} /\ task'[w].kind = "idle" /\ UNCHANGED invoice
       \/ /\ task[w] = Idle /\ task'[w].kind = "leg" /\ "stale_leg" \in Mishaps /\ UNCHANGED <<invoice, run>>
       \/ /\ task[w].kind = "leg" /\ task'[w].kind = "idle" /\ UNCHANGED run
          /\ \A i \in Invoices : \/ invoice'[i] = invoice[i]
                                \/ (invoice[i] = "payment_scheduled" /\ invoice'[i] = "paid")
       \/ /\ "crash" \in Mishaps /\ task'[w].kind = "idle" /\ UNCHANGED <<invoice, run>>

\* A worker computes the rollup it will write for the row it holds.
Rolls(w) ==
    /\ UNCHANGED <<invoice, flags, pay, run, sweep, order>>
    /\ Others(w)
    /\ "stale_rollup" \in Mishaps
    /\ Decided(task[w]) /\ Decided(task[w])' /\ task[w].kind # "dispatch"
    /\ task'[w].at = task[w].at /\ task'[w].new = task[w].new
    /\ task'[w].kind = task[w].kind /\ task'[w].seen = task[w].seen
    /\ task'[w].run = task[w].run /\ task'[w].todo = task[w].todo

\* No run is cancelled and none leaves draft.
RunsStay ==
    \A r \in Runs : /\ run'[r].status = "cancelled" <=> run[r].status = "cancelled"
                    /\ Dispatched(r)' => Dispatched(r)

\* The processor's verdict lands on a row that nobody holds.
Records(p, verdict) ==
    /\ UNCHANGED <<invoice, run, task, order>>
    /\ OtherRows(p) /\ Free(p)
    /\ pay[p].status \in {"pending", "submitted"} /\ (pay[p].status = "pending" => pay[p].ref)
    /\ pay'[p].inv = pay[p].inv /\ pay'[p].ref = pay[p].ref
    /\ \/ verdict \in {"settled", "short"} /\ pay'[p].status = "completed"
       \/ /\ verdict \in {"rejected", "reversed"}
          /\ pay'[p].status = "failed" /\ pay'[p].why = "in_doubt"
    /\ \A i \in Invoices : "payment_reconciliation" \in flags'[i] <=> "payment_reconciliation" \in flags[i]
    /\ \/ UNCHANGED sweep /\ verdict = order[p]
       \/ sweep' = NoSweep /\ sweep # NoSweep /\ sweep = [row |-> p, verdict |-> verdict]

\* A row in flight is given up, and its invoice flagged.
GivesUp(p) ==
    /\ UNCHANGED <<invoice, run, task, sweep, order>>
    /\ OtherRows(p) /\ Free(p)
    /\ pay[p].status = "submitted"
    /\ pay'[p].inv = pay[p].inv /\ pay'[p].ref = pay[p].ref
    /\ pay'[p].status = "failed" /\ pay'[p].why = "in_doubt"
    /\ \/ /\ "payment_reconciliation" \in flags'[pay[p].inv]
          /\ \A i \in Invoices \ {pay[p].inv} : flags'[i] = flags[i]
       \/ "flag_lost" \in Mishaps /\ UNCHANGED flags

\* The reconciler polls a row, or drops what it polled.
Polls ==
    /\ UNCHANGED <<invoice, flags, pay, run, task, order>>
    /\ \/ sweep' = NoSweep
       \/ /\ sweep'.verdict = order[sweep'.row] /\ sweep'.row \in Payments
          /\ pay[sweep'.row].status = "submitted"

\* A row that settled pays its scheduled invoice.
Pays(p) ==
    /\ UNCHANGED <<flags, pay, run, task, sweep, order>>
    /\ pay[p].status = "completed" /\ invoice[pay[p].inv] = "payment_scheduled"
    /\ invoice' = [invoice EXCEPT ![pay[p].inv] = "paid"]

\* The ERP moves an invoice that payments have not touched.
Pushes(i) ==
    /\ UNCHANGED <<flags, pay, run, task, sweep, order>>
    /\ "erp_push" \in Mishaps
    /\ \A j \in Invoices \ {i} : invoice'[j] = invoice[j]
    /\ invoice[i] \notin {"payment_scheduled", "paid"}
    /\ invoice'[i] \notin {"payment_scheduled", "paid"}

\* People raise and close exceptions.
Judges ==
    /\ UNCHANGED <<invoice, pay, run, task, sweep, order>>
    /\ \A i \in Invoices :
         /\ "payment_reconciliation" \in flags'[i] => "payment_reconciliation" \in flags[i]
         /\ "payment_reconciliation" \in flags[i] =>
              \/ "payment_reconciliation" \in flags'[i]
              \/ Reconciled(i)
              \/ "careless_resolve" \in Mishaps

\* The processor decides an open order.
Answers(p) ==
    /\ UNCHANGED <<invoice, flags, pay, run, task, sweep>>
    /\ order[p] = "open" /\ order'[p] \in {"settled", "short", "rejected"} /\ OtherOrders(p)

\* The rows of a draft run go; nobody holds one.
Cancels(r) ==
    /\ UNCHANGED <<invoice, flags, task, sweep, order>>
    /\ run[r].status = "draft" /\ run'[r].status = "cancelled"
    /\ \A q \in Runs \ {r} : run'[q] = run[q]
    /\ \A p \in Payments :
         IF pay[p].run = r
         THEN /\ Free(p) /\ pay'[p].status = "deleted"
              /\ pay'[p].inv = pay[p].inv /\ pay'[p].run = r /\ pay'[p].ref = pay[p].ref
         ELSE pay'[p] = pay[p]

\* A pass claims a run; one that was claimed already, when nobody is left on it.
Claims(w, r) ==
    /\ UNCHANGED <<invoice, flags, sweep, order>>
    /\ NewRows(r) /\ Starts(w, r)
    /\ run'[r].status = "executing"
    /\ run[r].status = "executing" =>
         "early_resume" \in Mishaps \/ \A v \in Workers : ~Attends(v, r)
    /\ \A q \in Runs \ {r} : run'[q].status = run[q].status

\* Rows are booked.
Books(r) ==
    /\ UNCHANGED <<invoice, flags, task, sweep, order>>
    /\ NewRows(r) /\ RunsStay
    /\ r # NoRun => run'[r].status = "draft"

Quiet == UNCHANGED <<invoice, flags, pay, task, sweep, order>> /\ RunsStay

MoneyStep ==
    \/ \E r \in Runs \cup {NoRun} : Books(r)
    \/ \E r \in Runs : Cancels(r)
    \/ \E w \in Workers, r \in Runs : Claims(w, r)
    \/ \E w \in Workers, p \in Payments : Gates(w, p) \/ Decides(w, p) \/ Takes(w, p)
    \/ \E w \in Workers, p \in Payments : Commits(w, p) /\ RunsStay
    \/ \E w \in Workers : Rolls(w)
    \/ \E w \in Workers : Passes(w) /\ RunsStay
    \/ \E p \in Payments, verdict \in Verdicts : Records(p, verdict)
    \/ \E p \in Payments : GivesUp(p) \/ Pays(p) \/ Answers(p)
    \/ \E i \in Invoices : Pushes(i)
    \/ Polls \/ Judges \/ Quiet

\* Bulk booking.
LEMMA RunBooks ==
    ASSUME IInv, NEW u \in Users, NEW r \in Runs, CreateRun(u, r) PROVE NewRows(r)
<1>1. PICK S \in (SUBSET Invoices) \ {{}} :
         /\ \A i \in S : ~Blocked(i) /\ ~Occupied(i)
         /\ \E row \in [S -> Unused] :
              pay' = [p \in Payments |->
                        IF \E i \in S : row[i] = p
                        THEN NewRow(CHOOSE i \in S : row[i] = p, r, NoPayment)
                        ELSE pay[p]]
  BY DEF CreateRun
<1>2. PICK row \in [S -> Unused] :
         pay' = [p \in Payments |->
                   IF \E i \in S : row[i] = p
                   THEN NewRow(CHOOSE i \in S : row[i] = p, r, NoPayment)
                   ELSE pay[p]]
  BY <1>1
<1>3. ASSUME NEW p \in Payments, pay'[p] # pay[p]
      PROVE  pay[p].status = "none" /\ \E i \in S : pay'[p] = NewRow(i, r, NoPayment)
  <2>1. \E i \in S : row[i] = p
    BY <1>2, <1>3
  <2> QED BY <1>2, <2>1 DEF Unused
<1>4. ASSUME NEW p \in Payments, pay'[p] # pay[p]
      PROVE  /\ pay[p].status = "none"
             /\ pay'[p].status = "pending" /\ pay'[p].ref = FALSE /\ pay'[p].run = r
             /\ \E i \in S : pay'[p].inv = i
  BY <1>3, <1>4 DEF NewRow, NoRow
<1> QED BY <1>1, <1>4 DEF NewRows

\* Booking a standalone row.
LEMMA PaymentBooks ==
    ASSUME IInv, NEW i \in Invoices, NEW p \in Payments, CreatePayment(i, p)
    PROVE  NewRows(NoRun)
<1>1. pay'[p] = NewRow(i, NoRun, NoPayment) /\ \A q \in Payments \ {p} : pay'[q] = pay[q]
  BY DEF CreatePayment, IInv, TypeOK
<1>2. /\ pay'[p].inv = i /\ pay'[p].run = NoRun
      /\ pay'[p].status = "pending" /\ pay'[p].ref = FALSE
  BY <1>1 DEF NewRow, NoRow
<1> QED BY <1>1, <1>2 DEF CreatePayment, NewRows

\* A pass starts with all pending rows of its run.
LEMMA PassStarts ==
    ASSUME IInv, NEW w \in Workers, NEW u \in Users, NEW r \in Runs, task[w] = Idle,
           StartDispatch(w, u, r, pay')
    PROVE  Starts(w, r)
<1> DEFINE t == [Idle EXCEPT !.kind = "dispatch", !.user = u, !.run = r,
                             !.todo = PendingOf(pay', r)]
<1>1. task' = [task EXCEPT ![w] = t] /\ task'[w] = t
  BY DEF StartDispatch, IInv, TypeOK
<1>2. /\ t.at = NoPayment /\ t.stage = "loop" /\ t.kind = "dispatch"
      /\ t.run = r /\ t.todo = PendingOf(pay', r)
  BY IdleType DEF Idle, Task
<1> HIDE DEF t
<1> QED BY <1>1, <1>2 DEF Starts, Others, PendingOf, IInv, TypeOK

\* A retry books its rows and starts on them.
LEMMA RetryBooks ==
    ASSUME IInv, NEW w \in Workers, NEW u \in Users, NEW r \in Runs, RetryFailed(w, u, r)
    PROVE  NewRows(r) /\ Starts(w, r)
<1> DEFINE table(S, row) ==
      [q \in Payments |->
          IF \E p \in S : row[p] = q
          THEN LET old == CHOOSE p \in S : row[p] = q IN NewRow(pay[old].inv, r, old)
          ELSE pay[q]]
<1>1. PICK S \in SUBSET Retryable(r) : \E row \in [S -> Unused] :
         pay' = table(S, row) /\ StartDispatch(w, u, r, table(S, row))
  BY DEF RetryFailed
<1>2. PICK row \in [S -> Unused] :
         pay' = table(S, row) /\ StartDispatch(w, u, r, table(S, row))
  BY <1>1
<1>3. ASSUME NEW q \in Payments, pay'[q] # pay[q]
      PROVE  /\ pay[q].status = "none"
             /\ \E p \in S : pay'[q] = NewRow(pay[p].inv, r, p)
  <2>1. \E p \in S : row[p] = q
    BY <1>2, <1>3
  <2> QED BY <1>2, <2>1 DEF Unused
<1>4. ASSUME NEW p \in S
      PROVE  /\ pay[p].inv \in Invoices
             /\ ~Blocked(pay[p].inv) /\ ~Occupied(pay[p].inv)
  <2>1. p \in Payments /\ pay[p].status # "none" /\ ~Blocked(pay[p].inv) /\ ~Occupied(pay[p].inv)
    BY DEF Retryable, ActiveRows
  <2> QED BY <2>1 DEF IInv, RowsAgree
<1>5. NewRows(r)
  <2>1. ASSUME NEW p \in Payments, pay'[p] # pay[p]
        PROVE  /\ pay[p].status = "none"
               /\ pay'[p].status = "pending" /\ pay'[p].ref = FALSE /\ pay'[p].run = r
               /\ \E old \in S : pay'[p].inv = pay[old].inv
    BY <1>3, <2>1 DEF NewRow, NoRow
  <2> QED BY <1>4, <2>1 DEF NewRows
<1>6. Starts(w, r)
  BY <1>2, PassStarts DEF RetryFailed
<1> QED BY <1>5, <1>6

\* What the gates leave of a task and of a refused row.
LEMMA GateFields ==
    ASSUME IInv, NEW t \in Task, NEW p \in Payments
    PROVE  /\ Gated(t, p).at = p /\ Gated(t, p).kind = t.kind /\ Gated(t, p).run = t.run
           /\ Gated(t, p).todo = t.todo
           /\ \/ /\ Gated(t, p).stage = "gated" /\ Payable(pay[p].inv) /\ ~Blocked(pay[p].inv)
                 /\ Gated(t, p).seen = invoice[pay[p].inv]
              \/ Gated(t, p).stage = "decided" /\ Gated(t, p).new = Refused(pay[p])
           /\ Refused(pay[p]).status = "failed" /\ Refused(pay[p]).ref = pay[p].ref
<1>1. pay[p] \in Row
  BY DEF IInv, TypeOK
<1> QED BY <1>1 DEF Gated, Task, Refused, Row

\* A pass takes its next row, or passes over one that is no longer pending.
LEMMA DispatchTakes ==
    ASSUME IInv, NEW w \in Workers, NEW p \in Payments, DispatchRow(w, p)
    PROVE  Gates(w, p) \/ Passes(w)
<1> DEFINE u == [task[w] EXCEPT !.todo = @ \ {p}]
<1>1. /\ task[w].kind = "dispatch" /\ task[w].stage = "loop" /\ Free(p)
      /\ UNCHANGED <<invoice, flags, pay, run, sweep, order>>
      /\ task' = [task EXCEPT ![w] = IF pay[p].status = "pending" THEN Gated(u, p) ELSE u]
  BY DEF DispatchRow
<1>2. task[w] \in Task /\ task[w].at = NoPayment
  BY <1>1 DEF IInv, TypeOK, Locks, Holding
<1>3. /\ u \in Task /\ u.stage = "loop" /\ u.kind = "dispatch" /\ u.at = NoPayment
      /\ u.run = task[w].run /\ u.todo = task[w].todo \ {p}
  BY <1>1, <1>2 DEF Task
<1>4. Others(w) /\ task'[w] = IF pay[p].status = "pending" THEN Gated(u, p) ELSE u
  BY <1>1 DEF Others, IInv, TypeOK
<1> HIDE DEF u
<1>5. CASE pay[p].status = "pending"
  <2>1. task'[w] = Gated(u, p)
    BY <1>4, <1>5
  <2> QED BY <1>1, <1>2, <1>3, <1>4, <1>5, <2>1, GateFields DEF Gates, Waiting
<1>6. CASE pay[p].status # "pending"
  BY <1>1, <1>2, <1>3, <1>4, <1>6 DEF Passes
<1> QED BY <1>5, <1>6

\* A release takes a held row through the gates again.
LEMMA ReleaseTakes ==
    ASSUME IInv, NEW w \in Workers, NEW p \in Payments, Release(w, p) PROVE Gates(w, p)
<1> DEFINE u == [Idle EXCEPT !.kind = "release"]
<1>1. u \in Task /\ u.kind = "release" /\ u.run = Idle.run
  BY IdleType DEF Task, Idle
<1>2. task' = [task EXCEPT ![w] = Gated(u, p)]
  BY DEF Release
<1> HIDE DEF u
<1>3. Others(w) /\ task'[w] = Gated(u, p)
  BY <1>2 DEF Others, IInv, TypeOK
<1>4. /\ task[w] = Idle /\ Free(p) /\ pay[p].status = "pending_compliance"
      /\ UNCHANGED <<invoice, flags, pay, run, sweep, order>>
  BY DEF Release
<1>5. task[w].at = NoPayment /\ task[w].stage = "loop" /\ task[w].kind = "idle" /\ task[w].run = Idle.run
  BY <1>4, IdleFields
<1> HIDE DEF Idle
<1>6. /\ task'[w].at = p /\ task'[w].kind = "release" /\ task'[w].run = Idle.run
      /\ \/ /\ task'[w].stage = "gated" /\ Payable(pay[p].inv) /\ ~Blocked(pay[p].inv)
            /\ task'[w].seen = invoice[pay[p].inv]
         \/ task'[w].stage = "decided" /\ task'[w].new = Refused(pay[p])
  BY <1>1, <1>3, GateFields
<1> QED BY <1>3, <1>4, <1>5, <1>6 DEF Gates, Waiting

\* What a decision leaves of a task.
LEMMA DecideFields ==
    ASSUME IInv, NEW w \in Workers, task[w].stage = "gated", NEW new, NEW state,
           Decide(w, new, state)
    PROVE  LET p == task[w].at IN
           /\ UNCHANGED <<invoice, flags, pay, run, sweep>>
           /\ p \in Payments /\ pay[p] \in Row /\ pay[p].status \in Waiting
           /\ Others(w) /\ OtherOrders(p) /\ order'[p] = state
           /\ task'[w].at = p /\ task'[w].stage = "decided" /\ task'[w].new = new
           /\ task'[w].kind = task[w].kind /\ task'[w].seen = task[w].seen
           /\ task'[w].run = task[w].run /\ task'[w].todo = task[w].todo
<1> DEFINE t == task[w]
           p == t.at
           u == [t EXCEPT !.stage = "decided", !.new = new]
<1>1. t \in Task /\ p # NoPayment /\ pay[p].status \in {"pending", "pending_compliance"}
  BY DEF IInv, TypeOK, Locks, Holding
<1>2. p \in Payments /\ pay[p] \in Row
  BY <1>1 DEF Task, IInv, TypeOK
<1>3. task' = [task EXCEPT ![w] = u] /\ order' = [order EXCEPT ![p] = state]
  BY DEF Decide, IInv, TypeOK
<1>4. /\ u.at = p /\ u.stage = "decided" /\ u.kind = t.kind /\ u.new = new
      /\ u.run = t.run /\ u.todo = t.todo /\ u.seen = t.seen
  BY <1>1 DEF Task
<1> HIDE DEF u
<1>5. Others(w) /\ task'[w] = u
  BY <1>3 DEF Others, IInv, TypeOK
<1>6. OtherOrders(p) /\ order'[p] = state
  BY <1>2, <1>3 DEF OtherOrders, IInv, TypeOK
<1> QED BY <1>1, <1>2, <1>4, <1>5, <1>6 DEF Decide, Waiting

\* The four outcomes of a row past the gates.
LEMMA WorkDecides ==
    ASSUME IInv, NEW w \in Workers, Refuse(w) \/ Hold(w) \/ Send(w) \/ Raise(w)
    PROVE  task[w].at \in Payments /\ Decides(w, task[w].at)
<1> DEFINE p == task[w].at
<1>1. task[w].stage = "gated"
  BY DEF Refuse, Hold, Send, Raise
<1>2. p \in Payments /\ pay[p] \in Row
  <2>1. task[w] \in Task /\ p # NoPayment
    BY <1>1 DEF IInv, TypeOK, Locks, Holding
  <2> QED BY <2>1 DEF Task, IInv, TypeOK
<1>3. CASE Refuse(w)
  <2>1. Decide(w, Refused(pay[p]), order[p])
    BY <1>3 DEF Refuse
  <2>2. Refused(pay[p]).status = "failed" /\ Refused(pay[p]).ref = pay[p].ref
    BY <1>2 DEF Refused, Row
  <2> QED BY <1>1, <1>2, <2>1, <2>2, DecideFields DEF Decides
<1>4. CASE Hold(w)
  <2> DEFINE new == [pay[p] EXCEPT !.status = "pending_compliance"]
  <2>1. Decide(w, new, order[p])
    BY <1>4 DEF Hold
  <2>2. new.status = "pending_compliance" /\ new.ref = pay[p].ref
    BY <1>2 DEF Row
  <2> HIDE DEF new
  <2> QED BY <1>1, <1>2, <2>1, <2>2, DecideFields DEF Decides
<1>5. CASE Send(w)
  <2> DEFINE new(state) == [pay[p] EXCEPT !.status = Reply(state), !.ref = TRUE,
                              !.why = IF Reply(state) = "failed" THEN "in_doubt" ELSE ""]
  <2>1. PICK state \in IF order[p] = "none" THEN {"open", "settled", "rejected"} ELSE {order[p]} :
          Decide(w, new(state), state)
    BY <1>5 DEF Send
  <2>2. /\ state \in OrderStates \ {"none"}
        /\ order[p] # "none" => state = order[p]
    <3>1. order[p] \in OrderStates
      BY <1>2 DEF IInv, TypeOK
    <3> QED BY <3>1 DEF OrderStates
  <2>3. new(state).status = Reply(state) /\ new(state).ref = TRUE
    BY <1>2 DEF Row
  <2>4. \/ Reply(state) \in {"submitted", "completed"}
        \/ Reply(state) = "failed" /\ state \in {"rejected", "reversed"}
    BY <2>2 DEF Reply, OrderStates
  <2> DEFINE sent == new(state)
  <2>5. Decide(w, sent, state) /\ sent.status = Reply(state) /\ sent.ref
    <3>1. sent.ref
      BY <2>3, Zenon
    <3> QED BY <2>1, <2>3, <3>1
  <2> HIDE DEF sent, new
  <2>6. /\ task'[w].new = sent /\ order'[p] = state
        /\ UNCHANGED <<invoice, flags, pay, run, sweep>>
        /\ pay[p].status \in Waiting /\ Others(w) /\ OtherOrders(p)
        /\ task'[w].at = p /\ task'[w].stage = "decided"
        /\ task'[w].kind = task[w].kind /\ task'[w].seen = task[w].seen
        /\ task'[w].run = task[w].run /\ task'[w].todo = task[w].todo
    BY <1>1, <2>5, DecideFields
  <2> QED BY <1>1, <1>2, <2>2, <2>4, <2>5, <2>6 DEF Decides
<1>6. CASE Raise(w)
  <2>1. PICK state : /\ Decide(w, InDoubt(pay[p]), state)
                     /\ state = order[p] \/ "lost_reply" \in Mishaps
    BY <1>6 DEF Raise
  <2>2. InDoubt(pay[p]).status = "failed" /\ InDoubt(pay[p]).why = "in_doubt"
    BY <1>2 DEF InDoubt, Row
  <2> QED BY <1>1, <1>2, <2>1, <2>2, DecideFields DEF Decides
<1> QED BY <1>2, <1>3, <1>4, <1>5, <1>6

\* A void asks the processor to take the order back if the row knows a handle.
LEMMA VoidTakes ==
    ASSUME IInv, NEW w \in Workers, NEW p \in Payments, Void(w, p) PROVE Takes(w, p)
<1> DEFINE new == [pay[p] EXCEPT !.status = "voided"]
           u == [Idle EXCEPT !.kind = "void", !.stage = "decided", !.at = p,
                             !.seen = invoice[pay[p].inv], !.new = new]
<1>1. /\ task' = [task EXCEPT ![w] = u] /\ task[w] = Idle /\ Free(p) /\ Live(p)
      /\ UNCHANGED <<invoice, flags, pay, run, sweep>>
  BY DEF Void
<1>2. new.status = "voided" /\ new.ref = pay[p].ref
  BY DEF IInv, TypeOK, Row
<1> HIDE DEF new
<1>3. /\ u.at = p /\ u.stage = "decided" /\ u.kind = "void" /\ u.new = new
      /\ u.seen = invoice[pay[p].inv]
  BY DEF Idle
<1> HIDE DEF u
<1>4. Others(w) /\ task'[w] = u
  BY <1>1 DEF Others, IInv, TypeOK
<1>5. OtherOrders(p)
  BY DEF Void, OtherOrders, IInv, TypeOK
<1>6. \/ /\ order'[p] = order[p]
         /\ pay[p].ref /\ order[p] \in {"open", "settled", "short"} => "deaf_void" \in Mishaps
      \/ order'[p] = "reversed" /\ pay[p].ref
  <2>1. PICK state \in IF pay[p].ref /\ order[p] \in {"open", "settled", "short"}
                       THEN {"reversed"} \cup (IF "deaf_void" \in Mishaps THEN {order[p]} ELSE {})
                       ELSE {order[p]} :
          order' = [order EXCEPT ![p] = state]
    BY DEF Void
  <2>2. order'[p] = state
    BY <2>1 DEF IInv, TypeOK
  <2> QED BY <2>1, <2>2
<1> QED BY <1>1, <1>2, <1>3, <1>4, <1>5, <1>6 DEF Takes

\* A dismissal fails the row it holds.
LEMMA DismissTakes ==
    ASSUME IInv, NEW w \in Workers, NEW p \in Payments, Dismiss(w, p) PROVE Takes(w, p)
<1> DEFINE new == Refused(pay[p])
           u == [Idle EXCEPT !.kind = "dismiss", !.stage = "decided", !.at = p, !.new = new]
<1>1. /\ task' = [task EXCEPT ![w] = u] /\ task[w] = Idle /\ Free(p)
      /\ pay[p].status = "pending_compliance"
      /\ UNCHANGED <<invoice, flags, pay, run, sweep, order>>
  BY DEF Dismiss
<1>2. new.status = "failed" /\ new.ref = pay[p].ref
  BY DEF IInv, TypeOK, Row, Refused
<1> HIDE DEF new
<1>3. u.at = p /\ u.stage = "decided" /\ u.kind = "dismiss" /\ u.new = new
  BY DEF Idle
<1> HIDE DEF u
<1>4. Others(w) /\ task'[w] = u
  BY <1>1 DEF Others, IInv, TypeOK
<1>5. Live(p)
  BY <1>1 DEF Live, LiveStatuses
<1> QED BY <1>1, <1>2, <1>3, <1>4, <1>5 DEF Takes, OtherOrders, Waiting

\* A commit puts the decided row in the table.
LEMMA CommitCommits ==
    ASSUME IInv, NEW w \in Workers, Commit(w)
    PROVE  task[w].at \in Payments /\ Commits(w, task[w].at) /\ RunsStay
<1> DEFINE t == task[w]
           p == t.at
           roll == IF t.stage = "rolled" THEN t.roll ELSE Recomputed(w)
           next == IF t.kind = "dispatch"
                   THEN [Idle EXCEPT !.kind = "dispatch", !.user = t.user, !.run = t.run,
                                     !.todo = t.todo]
                   ELSE Idle
<1>1. /\ t \in Task /\ t.stage \in {"decided", "rolled"} /\ Holding(t) /\ DraftsUntouched(t)
      /\ run' = IF roll = "" THEN run ELSE [run EXCEPT ![t.new.run].status = roll]
      /\ pay' = Table(w) /\ task' = [task EXCEPT ![w] = next]
      /\ invoice' = [invoice EXCEPT ![t.new.inv] = InvoiceWrite(t)]
      /\ UNCHANGED <<flags, sweep, order>>
  BY DEF Commit, IInv, TypeOK, Locks, DraftsUnsent
<1>2. p \in Payments /\ t.new.inv = pay[p].inv
  BY <1>1 DEF Holding, Task
<1>3. pay'[p] = t.new /\ OtherRows(p)
  BY <1>1, <1>2 DEF Table, OtherRows, IInv, TypeOK
<1>4. /\ next.at = NoPayment /\ next.stage = "loop"
      /\ IF t.kind = "dispatch" THEN next.kind = "dispatch" /\ next.run = t.run /\ next.todo = t.todo
                                ELSE next.kind = "idle"
  BY DEF Idle
<1>5. roll # "" => /\ t.new.run \in Runs /\ Dispatched(t.new.run)
                   /\ roll \notin {"none", "draft", "cancelled"}
  <2>1. CASE t.stage = "rolled"
    BY <1>1, <2>1 DEF DraftsUntouched, Holding, IInv, TypeOK, Task, Row
  <2>2. CASE t.stage = "decided"
    BY <1>1, <2>2, RecomputedDispatched
  <2> QED BY <1>1, <2>1, <2>2
<1> HIDE DEF next, roll
<1>6. Others(w) /\ task'[w] = next
  BY <1>1 DEF Others, IInv, TypeOK
<1>7. RunsStay
  <2>1. CASE roll = ""
    BY <1>1, <2>1 DEF RunsStay, Dispatched
  <2>2. CASE roll # ""
    <3>1. /\ \A r \in Runs : r # t.new.run => run'[r] = run[r]
          /\ run'[t.new.run].status = roll
      BY <1>1, <1>5, <2>2 DEF IInv, TypeOK, RunRow
    <3> QED BY <1>5, <2>2, <3>1 DEF RunsStay, Dispatched
  <2> QED BY <2>1, <2>2
<1> QED BY <1>1, <1>2, <1>3, <1>4, <1>6, <1>7 DEF Commits, Decided

\* The rest of what a worker does.
LEMMA WorkPasses ==
    ASSUME IInv, NEW w \in Workers,
           Finish(w) \/ LegApply(w) \/ Crash(w) \/ \E p \in Payments : LegRead(w, p)
    PROVE  Passes(w) /\ RunsStay
<1>1. CASE Finish(w)
  <2>1. /\ task[w].kind = "dispatch" /\ task[w].stage = "loop" /\ task[w].todo = {}
        /\ task' = [task EXCEPT ![w] = Idle]
        /\ UNCHANGED <<invoice, flags, pay, sweep, order>>
    BY <1>1 DEF Finish
  <2>2. Others(w) /\ task'[w] = Idle /\ task[w].at = NoPayment
    BY <2>1 DEF Others, IInv, TypeOK, Locks, Holding
  <2>3. RunsStay
    <3> DEFINE r == task[w].run
               roll == Rollup(pay, r)
    <3>1. r \in Runs /\ Dispatched(r)
      BY <2>1 DEF IInv, TypeOK, DraftsUnsent, DraftsUntouched, Task
    <3>2. roll \notin {"none", "draft", "cancelled"}
      BY <3>1, RollupDispatched DEF IInv, RowsAgree, Dispatched
    <3>3. run' = IF roll = "executing" THEN run ELSE [run EXCEPT ![r].status = roll]
      BY <1>1 DEF Finish
    <3> HIDE DEF roll
    <3>4. \A q \in Runs : run'[q].status = run[q].status \/ (q = r /\ run'[q].status = roll)
      BY <3>1, <3>3 DEF IInv, TypeOK, RunRow
    <3> QED BY <3>1, <3>2, <3>4 DEF RunsStay, Dispatched
  <2> QED BY <2>1, <2>2, <2>3, IdleFields DEF Passes
<1>2. CASE LegApply(w)
  <2>1. /\ task[w].kind = "leg" /\ task' = [task EXCEPT ![w] = Idle]
        /\ UNCHANGED <<flags, pay, run, sweep, order>>
    BY <1>2 DEF LegApply
  <2>2. Others(w) /\ task'[w] = Idle
    BY <2>1 DEF Others, IInv, TypeOK
  <2>3. \A i \in Invoices : \/ invoice'[i] = invoice[i]
                          \/ (invoice[i] = "payment_scheduled" /\ invoice'[i] = "paid")
    BY <1>2 DEF LegApply, LegPays, IInv, TypeOK
  <2> QED BY <2>1, <2>2, <2>3, IdleFields DEF Passes, RunsStay, Dispatched
<1>3. CASE Crash(w)
  <2>1. /\ task' = [task EXCEPT ![w] = Idle] /\ "crash" \in Mishaps
        /\ UNCHANGED <<invoice, flags, pay, run, sweep, order>>
    BY <1>3 DEF Crash
  <2>2. Others(w) /\ task'[w] = Idle
    BY <2>1 DEF Others, IInv, TypeOK
  <2> QED BY <2>1, <2>2, IdleFields DEF Passes, RunsStay, Dispatched
<1>4. ASSUME NEW p \in Payments, LegRead(w, p) PROVE Passes(w) /\ RunsStay
  <2> DEFINE u == [Idle EXCEPT !.kind = "leg", !.todo = {p}]
  <2>1. /\ task[w] = Idle /\ task' = [task EXCEPT ![w] = u] /\ "stale_leg" \in Mishaps
        /\ UNCHANGED <<invoice, flags, pay, run, sweep, order>>
    BY <1>4 DEF LegRead
  <2>2. u.at = NoPayment /\ u.stage = "loop" /\ u.kind = "leg"
    BY DEF Idle
  <2> HIDE DEF u
  <2>3. Others(w) /\ task'[w] = u
    BY <2>1 DEF Others, IInv, TypeOK
  <2> QED BY <2>1, <2>2, <2>3, IdleFields DEF Passes, RunsStay, Dispatched
<1> QED BY <1>1, <1>2, <1>3, <1>4

\* A worker reads the run whose rollup it will write.
LEMMA ReadRunRolls ==
    ASSUME IInv, NEW w \in Workers, ReadRun(w) PROVE Rolls(w)
<1> DEFINE t == task[w]
           u == [t EXCEPT !.stage = "rolled", !.roll = Recomputed(w)]
<1>1. /\ t.stage = "decided" /\ t.kind # "dispatch" /\ task' = [task EXCEPT ![w] = u]
      /\ "stale_rollup" \in Mishaps
      /\ UNCHANGED <<invoice, flags, pay, run, sweep, order>>
  BY DEF ReadRun, IInv, TypeOK
<1>2. /\ u.stage = "rolled" /\ u.at = t.at /\ u.new = t.new /\ u.kind = t.kind
      /\ u.seen = t.seen /\ u.run = t.run /\ u.todo = t.todo
  BY DEF IInv, TypeOK, Task
<1> HIDE DEF u
<1>3. Others(w) /\ task'[w] = u
  BY <1>1 DEF Others, IInv, TypeOK
<1> QED BY <1>1, <1>2, <1>3 DEF Rolls, Decided

\* What a recorded verdict leaves of a row and of the flags.
LEMMA RecordFields ==
    ASSUME IInv, NEW p \in Payments, NEW verdict \in Verdicts, Record(p, verdict)
    PROVE  /\ OtherRows(p)
           /\ pay'[p].inv = pay[p].inv /\ pay'[p].ref = pay[p].ref
           /\ \/ verdict \in {"settled", "short"} /\ pay'[p].status = "completed"
              \/ /\ verdict \in {"rejected", "reversed"}
                 /\ pay'[p].status = "failed" /\ pay'[p].why = "in_doubt"
           /\ \A i \in Invoices :
                "payment_reconciliation" \in flags'[i] <=> "payment_reconciliation" \in flags[i]
<1>1. pay'[p] = Settled(pay[p], verdict) /\ OtherRows(p) /\ pay[p] \in Row
  BY DEF Record, OtherRows, IInv, TypeOK
<1>2. /\ pay'[p].inv = pay[p].inv /\ pay'[p].ref = pay[p].ref
      /\ pay'[p].status = IF verdict \in {"settled", "short"} THEN "completed" ELSE "failed"
      /\ pay'[p].why = IF verdict \in {"settled", "short"} THEN "" ELSE "in_doubt"
  BY <1>1 DEF Settled, Row
<1>3. \A i \in Invoices :
         "payment_reconciliation" \in flags'[i] <=> "payment_reconciliation" \in flags[i]
  BY DEF Record, IInv, TypeOK
<1> QED BY <1>1, <1>2, <1>3 DEF Verdicts

\* What the webhook and the reconciler do.
LEMMA SettlementMoves ==
    ASSUME IInv, Settlement PROVE MoneyStep
<1>1. ASSUME NEW p \in Payments, Webhook(p) PROVE Records(p, order[p])
  BY <1>1, RecordFields DEF Webhook, Records, OVERWRITABLE
<1>2. ASSUME NEW p \in Payments, SweepPoll(p) PROVE Polls
  BY <1>2 DEF SweepPoll, Polls
<1>3. ASSUME NEW p \in Payments, AgeOut(p) PROVE GivesUp(p)
  <2>1. /\ pay'[p] = InDoubt(pay[p]) /\ OtherRows(p) /\ pay[p] \in Row
        /\ pay[p].inv \in Invoices
    BY <1>3 DEF AgeOut, Stuck, OtherRows, IInv, TypeOK, RowsAgree
  <2>2. /\ pay'[p].inv = pay[p].inv /\ pay'[p].ref = pay[p].ref
        /\ pay'[p].status = "failed" /\ pay'[p].why = "in_doubt"
    BY <2>1 DEF InDoubt, Row
  <2>3. \/ /\ "payment_reconciliation" \in flags'[pay[p].inv]
           /\ \A i \in Invoices \ {pay[p].inv} : flags'[i] = flags[i]
        \/ "flag_lost" \in Mishaps /\ UNCHANGED flags
    BY <1>3, <2>1 DEF AgeOut, IInv, TypeOK
  <2> QED BY <1>3, <2>1, <2>2, <2>3 DEF AgeOut, Stuck, GivesUp
<1>4. ASSUME NEW p \in Payments, SyncLeg(p) \/ AcceptSettlement(p) PROVE Pays(p)
  BY <1>4 DEF SyncLeg, LegPays, AcceptSettlement, Pays
<1>5. CASE SweepApply
  <2>1. sweep \in Sweep /\ sweep # NoSweep
    BY <1>5 DEF SweepApply, IInv, TypeOK
  <2>2. sweep.row \in Payments /\ sweep.verdict \in Verdicts
        /\ sweep = [row |-> sweep.row, verdict |-> sweep.verdict]
    BY <2>1 DEF Sweep
  <2>3. CASE pay[sweep.row].status = "submitted"
    BY <1>5, <2>1, <2>2, <2>3, RecordFields DEF SweepApply, Records, MoneyStep
  <2>4. CASE pay[sweep.row].status # "submitted"
    BY <1>5, <2>4 DEF SweepApply, Polls, MoneyStep
  <2> QED BY <2>3, <2>4
<1> QED BY <1>1, <1>2, <1>3, <1>4, <1>5 DEF Settlement, MoneyStep, Webhook

\* What surrounds the payments.
LEMMA SurroundingsMove ==
    ASSUME IInv, Surroundings PROVE MoneyStep
<1>1. ASSUME NEW i \in Invoices, RaiseFlag(i) PROVE Judges
  BY <1>1 DEF RaiseFlag, Judges, IInv, TypeOK
<1>2. ASSUME NEW i \in Invoices, NEW e \in Flags, ResolveFlag(i, e) PROVE Judges
  BY <1>2 DEF ResolveFlag, Judges, IInv, TypeOK
<1>3. ASSUME NEW i \in Invoices, ErpPush(i) PROVE Pushes(i)
  BY <1>3 DEF ErpPush, PUSH_MOVES, Pushes, IInv, TypeOK
<1>4. ASSUME NEW p \in Payments, ProcessorDecides(p) PROVE Answers(p)
  BY <1>4 DEF ProcessorDecides, Answers, OtherOrders, IInv, TypeOK
<1> QED BY <1>1, <1>2, <1>3, <1>4 DEF Surroundings, MoneyStep

\* What booking, approving and cancelling do.
LEMMA BookingMoves ==
    ASSUME IInv, Booking PROVE MoneyStep
<1>1. ASSUME NEW u \in Users, NEW r \in Runs, CreateRun(u, r) PROVE Books(r)
  <2>1. /\ run[r].status = "none" /\ run'[r].status = "draft"
        /\ \A q \in Runs \ {r} : run'[q] = run[q]
    BY <1>1 DEF CreateRun, IInv, TypeOK
  <2> QED BY <1>1, <2>1, RunBooks DEF CreateRun, Books, RunsStay, Dispatched
<1>2. ASSUME NEW i \in Invoices, NEW p \in Payments, CreatePayment(i, p) PROVE Books(NoRun)
  BY <1>2, PaymentBooks DEF CreatePayment, Books, RunsStay, Dispatched
<1>3. ASSUME NEW u \in Users, NEW r \in Runs, ApproveRun(u, r) PROVE Quiet
  <2>1. \A q \in Runs : run'[q].status = run[q].status
    BY <1>3 DEF ApproveRun, IInv, TypeOK, RunRow
  <2> QED BY <1>3, <2>1 DEF ApproveRun, Quiet, RunsStay, Dispatched
<1>4. ASSUME NEW r \in Runs, CancelRun(r) PROVE Cancels(r)
  <2>1. /\ run[r].status = "draft" /\ run'[r].status = "cancelled"
        /\ \A q \in Runs \ {r} : run'[q] = run[q]
    BY <1>4 DEF CancelRun, IInv, TypeOK, RunRow
  <2>2. \A p \in Payments :
           pay'[p] = IF pay[p].run = r THEN [pay[p] EXCEPT !.status = "deleted"] ELSE pay[p]
    BY <1>4 DEF CancelRun
  <2>3. ASSUME NEW p \in Payments, pay[p].run = r
        PROVE  /\ pay'[p].status = "deleted"
               /\ pay'[p].inv = pay[p].inv /\ pay'[p].run = r /\ pay'[p].ref = pay[p].ref
    BY <2>2, <2>3 DEF IInv, TypeOK, Row
  <2> QED BY <1>4, <2>1, <2>2, <2>3 DEF CancelRun, Cancels
<1> QED BY <1>1, <1>2, <1>3, <1>4 DEF Booking, MoneyStep

\* What a request does.
LEMMA RequestMoves ==
    ASSUME IInv, NEW w \in Workers, Request(w) PROVE MoneyStep
<1>1. ASSUME NEW u \in Users, NEW r \in Runs, Execute(w, u, r) \/ Resume(w, u, r)
      PROVE  Claims(w, r)
  <2>1. /\ task[w] = Idle /\ StartDispatch(w, u, r, pay')
        /\ UNCHANGED <<invoice, flags, pay, sweep, order>>
    BY <1>1 DEF Execute, Resume
  <2>2. /\ run'[r].status = "executing"
        /\ \A q \in Runs \ {r} : run'[q].status = run[q].status
    BY <1>1 DEF Execute, Resume, IInv, TypeOK, RunRow
  <2>3. run[r].status = "executing" =>
          "early_resume" \in Mishaps \/ \A v \in Workers : ~Attends(v, r)
    BY <1>1 DEF Execute, Resume
  <2> QED BY <2>1, <2>2, <2>3, PassStarts DEF Claims, NewRows
<1>2. ASSUME NEW u \in Users, NEW r \in Runs, RetryFailed(w, u, r) PROVE Claims(w, r)
  <2>1. /\ run'[r].status = "executing"
        /\ \A q \in Runs \ {r} : run'[q].status = run[q].status
    BY <1>2 DEF RetryFailed, IInv, TypeOK, RunRow
  <2>2. run[r].status # "executing"
    BY <1>2 DEF RetryFailed, Derived, CLAIM_RUN_STATUSES, RETRYABLE_RUN_STATUSES
  <2> QED BY <1>2, <2>1, <2>2, RetryBooks DEF RetryFailed, Claims
<1> QED BY <1>1, <1>2, ReleaseTakes, VoidTakes, DismissTakes, WorkPasses DEF Request, MoneyStep

\* Every step of the system is one of these.
LEMMA StepMoves ==
    ASSUME IInv, [Next]_vars PROVE MoneyStep
<1>1. ASSUME NEW w \in Workers, Work(w) PROVE MoneyStep
  <2>1. ASSUME NEW p \in Payments, DispatchRow(w, p) PROVE MoneyStep
    <3>1. CASE Gates(w, p)
      BY <3>1 DEF MoneyStep
    <3>2. CASE Passes(w)
      <4>1. RunsStay
        BY <2>1 DEF DispatchRow, RunsStay, Dispatched
      <4> QED BY <3>2, <4>1 DEF MoneyStep
    <3> QED BY <2>1, <3>1, <3>2, DispatchTakes
  <2>2. CASE Refuse(w) \/ Hold(w) \/ Send(w) \/ Raise(w)
    BY <2>2, WorkDecides DEF MoneyStep
  <2>3. CASE ReadRun(w)
    BY <2>3, ReadRunRolls DEF MoneyStep
  <2>4. CASE Commit(w)
    BY <2>4, CommitCommits DEF MoneyStep
  <2>5. CASE Finish(w) \/ LegApply(w)
    BY <2>5, WorkPasses DEF MoneyStep
  <2> QED BY <1>1, <2>1, <2>2, <2>3, <2>4, <2>5 DEF Work
<1>2. ASSUME NEW w \in Workers, Crash(w) PROVE MoneyStep
  BY <1>2, WorkPasses DEF MoneyStep
<1>3. CASE UNCHANGED vars
  BY <1>3 DEF vars, MoneyStep, Quiet, RunsStay, Dispatched
<1> QED BY <1>1, <1>2, <1>3, BookingMoves, RequestMoves, SettlementMoves, SurroundingsMove DEF Next

-----------------------------------------------------------------------------
(* What every step keeps.                                                  *)

\* The row a worker holds changes only when the worker commits.
LEMMA HeldRows ==
    ASSUME IInv, MoneyStep, NEW w \in Workers, task'[w] = task[w], task[w].at # NoPayment
    PROVE  pay'[task[w].at] = pay[task[w].at]
<1> DEFINE a == task[w].at
<1>1. a \in Payments /\ pay[a].status # "none"
  BY DEF IInv, TypeOK, Task, Locks, Holding, Live, LiveStatuses
<1>2. ASSUME NEW v \in Workers, NEW p \in Payments, Commits(v, p) PROVE pay'[a] = pay[a]
  BY <1>1, <1>2 DEF Commits, OtherRows, IInv, Locks
<1>3. ASSUME NEW r, NewRows(r) PROVE pay'[a] = pay[a]
  BY <1>1, <1>3 DEF NewRows
<1>4. ASSUME NEW p \in Payments, NEW v \in Verdicts, Records(p, v) PROVE pay'[a] = pay[a]
  BY <1>1, <1>4 DEF Records, Free, OtherRows
<1>5. ASSUME NEW p \in Payments, GivesUp(p) PROVE pay'[a] = pay[a]
  BY <1>1, <1>5 DEF GivesUp, Free, OtherRows
<1>6. ASSUME NEW r \in Runs, Cancels(r) PROVE pay'[a] = pay[a]
  BY <1>1, <1>6 DEF Cancels, Free
<1>7. pay' = pay => pay'[a] = pay[a]
  OBVIOUS
<1> QED BY <1>2, <1>3, <1>4, <1>5, <1>6, <1>7
        DEF MoneyStep, Books, Claims, Gates, Decides, Takes, Rolls, Passes, Pays, Answers, Pushes,
            Polls, Judges, Quiet

\* A row appears by being booked.
LEMMA Booked ==
    ASSUME IInv, MoneyStep, NEW p \in Payments, pay[p].status = "none", pay'[p] # pay[p]
    PROVE  \/ \E r \in Runs \cup {NoRun} : Books(r)
           \/ \E w \in Workers, r \in Runs : Claims(w, r)
<1>1. ASSUME NEW q \in Payments, OtherRows(q), pay[q].status # "none" PROVE FALSE
  BY <1>1 DEF OtherRows
<1>2. ASSUME NEW r \in Runs, Cancels(r) PROVE FALSE
  BY <1>2, NoRowFields, PaymentRunsAssumption DEF Cancels, IInv, RowsAgree
<1>3. ASSUME NEW w \in Workers, NEW q \in Payments, Commits(w, q) PROVE FALSE
  <2>1. task[w].at = q /\ Live(q)
    BY <1>3, PaymentRunsAssumption DEF Commits, IInv, Locks, Holding, TypeOK, Task
  <2> QED BY <1>1, <1>3, <2>1 DEF Commits, Live, LiveStatuses
<1>4. ASSUME NEW q \in Payments, NEW v \in Verdicts, Records(q, v) PROVE FALSE
  BY <1>1, <1>4 DEF Records
<1>5. ASSUME NEW q \in Payments, GivesUp(q) PROVE FALSE
  BY <1>1, <1>5 DEF GivesUp
<1>6. pay' # pay
  OBVIOUS
<1> QED BY <1>2, <1>3, <1>4, <1>5, <1>6
        DEF MoneyStep, Gates, Decides, Takes, Rolls, Passes, Pays, Answers, Pushes, Polls, Judges,
            Quiet

\* A live row was live before, for the same invoice, or is booked by this step
\* for an invoice that nothing blocks or occupies.
LEMMA LiveKept ==
    ASSUME IInv, Step, MoneyStep, NEW p \in Payments, Live(p)'
    PROVE  \/ Live(p) /\ pay'[p].inv = pay[p].inv
           \/ /\ pay[p].status = "none"
              /\ pay'[p].inv \in Invoices /\ ~Blocked(pay'[p].inv) /\ ~Occupied(pay'[p].inv)
<1>1. CASE pay[p].status # "none"
  BY <1>1 DEF Step, RowStep, RowKept, Live, LiveStatuses, PAYMENT_MOVES
<1>2. CASE pay[p].status = "none"
  <2>1. pay'[p] # pay[p]
    BY <1>2 DEF Live, LiveStatuses
  <2> QED BY <1>2, <2>1, Booked DEF NewRows, Books, Claims
<1> QED BY <1>1, <1>2

\* UnsentRows: only a void reaches a row that was sent.
LEMMA SendingKept ==
    ASSUME IInv, Step, MoneyStep, UnsentRows, NEW w \in Workers PROVE Sending(task[w])'
<1> DEFINE t == task[w]
<1>0. Sending(t) /\ t \in Task /\ Holding(t)
  BY DEF UnsentRows, IInv, TypeOK, Locks
<1>1. CASE task'[w] = t
  <2>1. t.at # NoPayment => pay'[t.at] = pay[t.at]
    BY <1>1, HeldRows
  <2>2. ASSUME t.at # NoPayment, t.kind # "void" PROVE pay'[t.at].status \in Waiting
    BY <1>0, <2>1, <2>2 DEF Sending
  <2> QED BY <1>0, <1>1, <2>2 DEF Sending, Decided
<1>2. ASSUME task'[w].at = NoPayment, task'[w].stage = "loop" PROVE Sending(task[w])'
  BY <1>2 DEF Sending, Decided
<1>3. ASSUME NEW v \in Workers, NEW r \in Runs, Claims(v, r) PROVE Sending(task[w])'
  BY <1>1, <1>2, <1>3 DEF Claims, Starts, Others
<1>4. ASSUME NEW v \in Workers, NEW p \in Payments, Gates(v, p) PROVE Sending(task[w])'
  <2>1. CASE v = w
    <3>1. /\ pay' = pay /\ task'[w].at = p /\ pay[p].status \in Waiting
          /\ task'[w].kind \in {"dispatch", "release"}
          /\ Decided(task'[w]) => task'[w].new = Refused(pay[p])
          /\ pay[p] \in Row
      BY <1>4, <2>1 DEF Gates, Decided, IInv, TypeOK
    <3>2. Refused(pay[p]).status = "failed"
      BY <3>1 DEF Refused, Row
    <3> QED BY <3>1, <3>2 DEF Sending, Decided
  <2> QED BY <1>1, <1>4, <2>1 DEF Gates, Others
<1>5. ASSUME NEW v \in Workers, NEW p \in Payments, Decides(v, p) PROVE Sending(task[w])'
  <2>1. CASE v = w
    <3>1. t.kind \in {"dispatch", "release"} /\ ~pay[p].ref
      BY <1>0, <1>5, <2>1 DEF Decides, Holding, UnsentRows
    <3>2. /\ pay' = pay /\ task'[w].at = p /\ pay[p].status \in Waiting /\ task'[w].kind = t.kind
          /\ task'[w].new.status # "pending"
          /\ task'[w].new.status = "pending_compliance" => task'[w].new.ref = pay[p].ref
      BY <1>5, <2>1 DEF Decides
    <3> QED BY <3>1, <3>2 DEF Sending, Decided
  <2> QED BY <1>1, <1>5, <2>1 DEF Decides, Others
<1>6. ASSUME NEW v \in Workers, NEW p \in Payments, Takes(v, p) PROVE Sending(task[w])'
  <2>1. CASE v = w
    BY <1>6, <2>1 DEF Takes, Sending, Decided
  <2> QED BY <1>1, <1>6, <2>1 DEF Takes, Others
<1>7. ASSUME NEW v \in Workers, NEW p \in Payments, Commits(v, p) PROVE Sending(task[w])'
  BY <1>1, <1>2, <1>7 DEF Commits, Others
<1>8. ASSUME NEW v \in Workers, Rolls(v) PROVE Sending(task[w])'
  <2>1. CASE v = w
    BY <1>0, <1>8, <2>1 DEF Rolls, Sending, Decided
  <2> QED BY <1>1, <1>8, <2>1 DEF Rolls, Others
<1>9. ASSUME NEW v \in Workers, Passes(v) PROVE Sending(task[w])'
  BY <1>1, <1>2, <1>9 DEF Passes, Others
<1> QED BY <1>1, <1>3, <1>4, <1>5, <1>6, <1>7, <1>8, <1>9
        DEF MoneyStep, Books, Cancels, Records, GivesUp, Pays, Answers, Pushes, Polls, Judges, Quiet

LEMMA UnsentRowsKept ==
    ASSUME IInv, Step, MoneyStep, UnsentRows PROVE UnsentRows'
<1>1. ASSUME NEW p \in Payments, pay'[p].status \in Waiting PROVE ~pay'[p].ref
  <2>1. pay[p].status \in Waiting => ~pay[p].ref
    BY DEF UnsentRows
  <2>2. ASSUME NEW r, NewRows(r) PROVE ~pay'[p].ref
    <3>1. CASE pay'[p] = pay[p]
      BY <1>1, <2>1, <3>1
    <3>2. CASE pay'[p] # pay[p]
      <4>1. pay'[p].ref = FALSE
        BY <2>2, <3>2 DEF NewRows
      <4> QED BY <4>1, Zenon
    <3> QED BY <3>1, <3>2
  <2>3. ASSUME NEW w \in Workers, NEW q \in Payments, Commits(w, q) PROVE ~pay'[p].ref
    <3>1. Sending(task[w])
      BY DEF UnsentRows
    <3> QED BY <1>1, <2>1, <2>3, <3>1 DEF Commits, OtherRows, Sending, Waiting
  <2>4. ASSUME NEW q \in Payments, NEW v \in Verdicts, Records(q, v) PROVE ~pay'[p].ref
    BY <1>1, <2>1, <2>4 DEF Records, OtherRows, Waiting
  <2>5. ASSUME NEW q \in Payments, GivesUp(q) PROVE ~pay'[p].ref
    BY <1>1, <2>1, <2>5 DEF GivesUp, OtherRows, Waiting
  <2>6. ASSUME NEW r \in Runs, Cancels(r) PROVE ~pay'[p].ref
    BY <1>1, <2>1, <2>6 DEF Cancels, Waiting
  <2>7. ASSUME pay' = pay PROVE ~pay'[p].ref
    BY <1>1, <2>1, <2>7
  <2> QED BY <2>2, <2>3, <2>4, <2>5, <2>6, <2>7
          DEF MoneyStep, Books, Claims, Gates, Decides, Takes, Rolls, Passes, Pays, Answers,
              Pushes, Polls, Judges, Quiet
<1>2. \A w \in Workers : Sending(task[w])'
  BY SendingKept
<1>3. ASSUME NEW p \in Payments, pay'[p].run # NoRun, run'[pay'[p].run].status = "cancelled"
      PROVE  pay'[p].status = "deleted"
  <2>1. ASSUME NEW r \in Runs \cup {NoRun}, NewRows(r),
               r # NoRun => run'[r].status # "cancelled"
        PROVE  pay'[p] = pay[p]
    BY <1>3, <2>1 DEF NewRows
  <2>2. pay[p].status # "none" => pay'[p].run = pay[p].run
    BY DEF Step, RowStep, RowKept
  <2>3. pay[p].status # "none" /\ pay'[p].run # NoRun => pay[p].run \in Runs
    BY <2>2 DEF IInv, TypeOK, Row
  <2>4. pay[p].status = "none" => pay[p].run = NoRun
    BY NoRowFields DEF IInv, RowsAgree
  <2>5. CASE \E r \in Runs : Cancels(r)
    <3>1. PICK r \in Runs : Cancels(r)
      BY <2>5
    <3> QED BY <1>3, <2>2, <2>3, <2>4, <3>1 DEF Cancels, UnsentRows
  <2>6. ASSUME ~\E r \in Runs : Cancels(r)
        PROVE  \A r \in Runs : run'[r].status = "cancelled" => run[r].status = "cancelled"
    <3>1. CASE RunsStay
      BY <3>1 DEF RunsStay
    <3>2. CASE run' = run
      BY <3>2
    <3>3. ASSUME NEW w \in Workers, NEW r \in Runs, Claims(w, r)
          PROVE  \A q \in Runs : run'[q].status = "cancelled" => run[q].status = "cancelled"
      BY <3>3 DEF Claims
    <3>4. \/ RunsStay \/ run' = run \/ \E w \in Workers, r \in Runs : Claims(w, r)
      <4>1. ASSUME NEW q \in Payments, NEW verdict, Records(q, verdict) PROVE run' = run
        BY <4>1 DEF Records
      <4>2. ASSUME NEW q \in Payments, GivesUp(q) \/ Pays(q) \/ Answers(q) PROVE run' = run
        BY <4>2 DEF GivesUp, Pays, Answers
      <4>3. ASSUME NEW w \in Workers, NEW q \in Payments, Gates(w, q) \/ Decides(w, q) \/ Takes(w, q)
            PROVE  run' = run
        BY <4>3 DEF Gates, Decides, Takes
      <4>4. ASSUME NEW r \in Runs \cup {NoRun}, Books(r) PROVE RunsStay
        BY <4>4 DEF Books
      <4>5. ASSUME NEW w \in Workers, Rolls(w) PROVE run' = run
        BY <4>5 DEF Rolls
      <4>6. ASSUME NEW j \in Invoices, Pushes(j) PROVE run' = run
        BY <4>6 DEF Pushes
      <4>7. ASSUME Polls \/ Judges \/ Quiet PROVE run' = run \/ RunsStay
        BY <4>7 DEF Polls, Judges, Quiet
      <4> QED BY <2>6, <4>1, <4>2, <4>3, <4>4, <4>5, <4>6, <4>7 DEF MoneyStep
    <3> QED BY <3>1, <3>2, <3>3, <3>4
  <2>7. CASE pay[p].status = "none" /\ ~\E r \in Runs : Cancels(r)
    <3>1. pay'[p] # pay[p]
      BY <1>3, <2>4, <2>7
    <3>2. ASSUME NEW r \in Runs \cup {NoRun}, Books(r) PROVE FALSE
      BY <2>1, <3>1, <3>2 DEF Books
    <3>3. ASSUME NEW w \in Workers, NEW r \in Runs, Claims(w, r) PROVE FALSE
      BY <2>1, <3>1, <3>3 DEF Claims
    <3> QED BY <2>7, <3>1, <3>2, <3>3, Booked
  <2>8. CASE pay[p].status # "none" /\ ~\E r \in Runs : Cancels(r)
    <3>1. pay[p].status = "deleted"
      BY <1>3, <2>2, <2>3, <2>6, <2>8 DEF UnsentRows
    <3> QED BY <2>8, <3>1 DEF Step, RowStep, RowKept, PAYMENT_MOVES
  <2> QED BY <2>5, <2>7, <2>8
<1> QED BY <1>1, <1>2, <1>3 DEF UnsentRows

\* FlagsBar: a slot is freed before its invoice is flagged, and not taken again
\* while the flag is open.
LEMMA FlagsBarKept ==
    ASSUME IInv, Step, MoneyStep, FlagsBar PROVE FlagsBar'
<1> SUFFICES ASSUME NEW i \in Invoices, "payment_reconciliation" \in flags'[i],
                    NEW p \in Payments, Live(p)', pay'[p].inv = i
             PROVE  FALSE
  BY DEF FlagsBar, Occupied, Live
<1>1. CASE "payment_reconciliation" \in flags[i]
  <2>1. ~Occupied(i) /\ Blocked(i)
    BY <1>1 DEF FlagsBar, Blocked
  <2> QED BY <2>1, LiveKept DEF Occupied
<1>2. CASE "payment_reconciliation" \notin flags[i]
  <2>1. PICK q \in Payments : GivesUp(q)
    BY <1>2 DEF MoneyStep, Books, Cancels, Claims, Gates, Decides, Takes, Commits, Rolls, Passes,
                Records, Pays, Answers, Pushes, Polls, Judges, Quiet
  <2>2. /\ pay[q].inv = i /\ Live(q) /\ ~Live(q)' /\ pay[q].status # "none"
    BY <1>2, <2>1 DEF GivesUp, Live, LiveStatuses
  <2>3. p # q /\ pay'[p] = pay[p]
    BY <2>1, <2>2 DEF GivesUp, OtherRows
  <2> QED BY <2>2, <2>3 DEF IInv, OneLivePayment, Live
<1> QED BY <1>1, <1>2

\* OrdersKnown: what reaches the processor is in the hands of the row's holder,
\* and then in the row.
LEMMA OrdersKnownKept ==
    ASSUME IInv, Step, MoneyStep, UnsentRows, OrdersKnown, "crash" \notin Mishaps
    PROVE  OrdersKnown'
<1> DEFINE Held(p) == \E w \in Workers : task[w].at = p /\ Decided(task[w]) /\ Known(task[w].new)
<1> SUFFICES ASSUME NEW p \in Payments, order'[p] # "none",
                    ~Known(pay'[p])
             PROVE  \E w \in Workers :
                       task'[w].at = p /\ Decided(task'[w]) /\ Known(task'[w].new)
  BY DEF OrdersKnown, Decided, Known
<1>1. pay[p].status # "none" => (pay[p].ref => pay'[p].ref)
  BY DEF Step, RowStep, RowKept
<1>2. pay[p].status = "none" => ~pay[p].ref /\ pay[p].status # "failed"
  <2>1. pay[p].status = "none" => pay[p].ref = FALSE
    BY NoRowFields DEF IInv, RowsAgree
  <2> QED BY <2>1, Zenon
<1>3. pay[p].status = "failed" => pay'[p].status # "failed" \/ pay'[p] = pay[p]
  <2>1. ASSUME NEW w \in Workers, NEW q \in Payments, Commits(w, q) PROVE Live(q)
    BY <2>1, PaymentRunsAssumption DEF Commits, IInv, Locks, Holding
  <2>2. ASSUME NEW w \in Workers, NEW q \in Payments, Commits(w, q), pay[p].status = "failed"
        PROVE  pay'[p] = pay[p]
    BY <2>1, <2>2 DEF Commits, OtherRows, Live, LiveStatuses
  <2>3. ASSUME NEW q \in Payments, NEW v \in Verdicts, Records(q, v), pay[p].status = "failed"
        PROVE  pay'[p] = pay[p]
    BY <2>3 DEF Records, OtherRows
  <2>4. ASSUME NEW q \in Payments, GivesUp(q), pay[p].status = "failed" PROVE pay'[p] = pay[p]
    BY <2>4 DEF GivesUp, OtherRows
  <2>5. ASSUME NEW r \in Runs, Cancels(r), pay[p].status = "failed"
        PROVE  pay'[p].status # "failed" \/ pay'[p] = pay[p]
    BY <2>5 DEF Cancels
  <2>6. ASSUME NEW r, NewRows(r), pay[p].status = "failed" PROVE pay'[p] = pay[p]
    BY <2>6 DEF NewRows
  <2>7. pay' = pay => pay'[p] = pay[p]
    OBVIOUS
  <2> QED BY <2>2, <2>3, <2>4, <2>5, <2>6, <2>7
          DEF MoneyStep, Books, Claims, Gates, Decides, Takes, Rolls, Passes, Pays, Answers,
              Pushes, Polls, Judges, Quiet
<1>4. Known(pay[p]) => pay[p].status = "failed" /\ pay'[p].status # "failed"
  BY <1>1, <1>2, <1>3 DEF Known
<1>5. ~Known(pay[p])
  <2>1. pay[p].status = "failed" => pay'[p].status \in {"failed", "deleted"}
    BY DEF Step, RowStep, RowKept, PAYMENT_MOVES
  <2>2. pay[p].status = "failed" => pay'[p].status # "deleted"
    BY DEF Step, RowStep, RowKept, PAYMENT_MOVES
  <2> QED BY <1>4, <2>1, <2>2
<1>6. order[p] # "none" => Held(p)
  BY <1>5 DEF OrdersKnown
<1>7. ASSUME NEW w \in Workers, task[w].at = p, Decided(task[w]), Known(task[w].new)
      PROVE  /\ Decided(task'[w])
             /\ task'[w].at = p /\ task'[w].new = task[w].new
  <2>1. CASE task'[w] = task[w]
    BY <1>7, <2>1
  <2>2. task[w].at # NoPayment /\ task[w].stage # "loop" /\ task[w] # Idle /\ task[w].kind # "leg"
    BY <1>7, IdleFields, PaymentRunsAssumption DEF Decided, UnsentRows, Sending
  <2>3. ASSUME NEW v \in Workers, Passes(v) PROVE task'[w] = task[w]
    BY <2>2, <2>3 DEF Passes, Others
  <2>4. ASSUME NEW v \in Workers, NEW q \in Payments, Gates(v, q) \/ Decides(v, q) \/ Takes(v, q)
        PROVE  task'[w] = task[w]
    BY <1>7, <2>2, <2>4 DEF Gates, Decides, Takes, Others, Decided
  <2>5. ASSUME NEW v \in Workers, NEW q \in Payments, Commits(v, q) PROVE task'[w] = task[w]
    <3>1. v = w => q = p /\ pay'[p] = task[w].new
      BY <1>7, <2>5 DEF Commits
    <3> QED BY <1>7, <2>5, <3>1 DEF Commits, Others
  <2>6. ASSUME NEW v \in Workers, Rolls(v)
        PROVE  /\ Decided(task'[w])
               /\ task'[w].at = p /\ task'[w].new = task[w].new
    BY <1>7, <2>6 DEF Rolls, Others, Decided
  <2>7. ASSUME NEW v \in Workers, NEW r \in Runs, Claims(v, r) PROVE task'[w] = task[w]
    BY <2>2, <2>7 DEF Claims, Starts, Others
  <2> QED BY <2>1, <2>3, <2>4, <2>5, <2>6, <2>7
          DEF MoneyStep, Books, Cancels, Records, GivesUp, Pays, Answers, Pushes, Polls, Judges,
              Quiet
<1>8. CASE order[p] # "none"
  BY <1>6, <1>7, <1>8
<1>9. CASE order[p] = "none"
  <2>1. PICK w \in Workers, q \in Payments : Decides(w, q) \/ Takes(w, q)
    BY <1>9 DEF MoneyStep, Books, Cancels, Claims, Gates, Commits, Rolls, Passes, Records, GivesUp,
                Pays, Answers, OtherOrders, Pushes, Polls, Judges, Quiet
  <2>2. q = p
    BY <1>9, <2>1 DEF Decides, Takes, OtherOrders
  <2>3. ~Takes(w, q)
    BY <1>5, <1>9, <2>2 DEF Takes, Known
  <2> QED BY <1>9, <2>1, <2>2, <2>3 DEF Decides, Known, Decided
<1> QED BY <1>8, <1>9

\* A step that claims no run books no pending row of a dispatched one.
LEMMA PendingBefore ==
    ASSUME IInv, Step, MoneyStep, ~\E w \in Workers, r \in Runs : Claims(w, r),
           NEW p \in Payments, pay'[p].status = "pending", pay'[p].run # NoRun,
           run'[pay'[p].run].status \notin {"none", "draft", "cancelled"}
    PROVE  /\ pay[p].status = "pending" /\ pay'[p].run = pay[p].run /\ pay[p].run \in Runs
           /\ Dispatched(pay[p].run)
<1>1. pay[p].status # "none"
  <2>1. ASSUME pay[p].status = "none" PROVE FALSE
    <3>1. pay'[p] # pay[p]
      BY <2>1
    <3>2. PICK r \in Runs \cup {NoRun} : Books(r)
      BY <2>1, <3>1, Booked
    <3>3. pay'[p].run = r
      BY <3>1, <3>2 DEF Books, NewRows
    <3> QED BY <3>2, <3>3 DEF Books
  <2> QED BY <2>1
<1>2. /\ pay[p].status = "pending" /\ pay'[p].run = pay[p].run
      /\ pay[p].run \in Runs
  <2>1. pay[p].status = "pending" /\ pay'[p].run = pay[p].run
    BY <1>1 DEF Step, RowStep, RowKept, PAYMENT_MOVES
  <2> QED BY <2>1 DEF IInv, TypeOK, Row
<1>3. Dispatched(pay[p].run)
  <2>1. CASE RunsStay
    BY <1>2, <2>1 DEF RunsStay, Dispatched
  <2>2. CASE run' = run
    BY <1>2, <2>2 DEF Dispatched
  <2>3. ASSUME NEW r \in Runs, Cancels(r) PROVE Dispatched(pay[p].run)
    BY <1>2, <2>3 DEF Cancels, Dispatched
  <2> QED BY <2>1, <2>2, <2>3
          DEF MoneyStep, Books, Gates, Decides, Takes, Rolls, Records, GivesUp, Pays, Answers,
              Pushes, Polls, Judges, Quiet
<1> QED BY <1>2, <1>3

\* A pass that goes on drops no row that is still pending.
LEMMA PassKeepsRow ==
    ASSUME IInv, MoneyStep, UnsentRows, ~\E w \in Workers, r \in Runs : Claims(w, r),
           NEW p \in Payments, pay[p].status = "pending", pay'[p].status = "pending",
           NEW w \in Workers, task[w].kind = "dispatch", p \in task[w].todo \/ task[w].at = p,
           "crash" \notin Mishaps \/ task'[w].kind = "dispatch"
    PROVE  /\ task'[w].kind = "dispatch" /\ task'[w].run = task[w].run
           /\ p \in task'[w].todo \/ task'[w].at = p
<1> DEFINE Goal == /\ task'[w].kind = "dispatch" /\ task'[w].run = task[w].run
                   /\ p \in task'[w].todo \/ task'[w].at = p
<1>1. task'[w] = task[w] => Goal
  OBVIOUS
<1>2. task[w] # Idle
  BY IdleFields
<1>3. ASSUME NEW v \in Workers, NEW q \in Payments, Gates(v, q) PROVE Goal
  BY <1>1, <1>3, PaymentRunsAssumption DEF Gates, Others
<1>4. ASSUME NEW v \in Workers, NEW q \in Payments, Decides(v, q) PROVE Goal
  BY <1>1, <1>4 DEF Decides, Others
<1>5. ASSUME NEW v \in Workers, NEW q \in Payments, Takes(v, q) PROVE Goal
  BY <1>1, <1>2, <1>5 DEF Takes, Others
<1>6. ASSUME NEW v \in Workers, NEW q \in Payments, Commits(v, q) PROVE Goal
  <2>1. CASE v = w
    <3>1. q # p
      BY <1>6, <2>1 DEF Commits, UnsentRows, Sending
    <3> QED BY <1>6, <2>1, <3>1 DEF Commits
  <2> QED BY <1>1, <1>6, <2>1 DEF Commits, Others
<1>7. ASSUME NEW v \in Workers, Rolls(v) PROVE Goal
  BY <1>1, <1>7 DEF Rolls, Others
<1>8. ASSUME NEW v \in Workers, Passes(v) PROVE Goal
  <2>1. CASE v = w
    <3>1. task[w].at # p \/ task[w].at # NoPayment
      BY PaymentRunsAssumption
    <3> QED BY <1>2, <1>8, <2>1, <3>1, IdleFields DEF Passes
  <2> QED BY <1>1, <1>8, <2>1 DEF Passes, Others
<1>9. Goal
  <2> HIDE DEF Goal
  <2> QED BY <1>1, <1>3, <1>4, <1>5, <1>6, <1>7, <1>8
          DEF MoneyStep, Books, Cancels, Records, GivesUp, Pays, Answers, Pushes, Polls, Judges,
              Quiet
<1> QED BY <1>9

\* PickedUp: a pass drops no row of its run that is still pending.
LEMMA PickedUpKept ==
    ASSUME IInv, Step, MoneyStep, UnsentRows, PickedUp, "crash" \notin Mishaps
    PROVE  PickedUp'
<1> SUFFICES ASSUME NEW p \in Payments, pay'[p].status = "pending", pay'[p].run # NoRun,
                    run'[pay'[p].run].status \notin {"none", "draft", "cancelled"}
             PROVE  \E w \in Workers : /\ task'[w].kind = "dispatch" /\ task'[w].run = pay'[p].run
                                       /\ p \in task'[w].todo \/ task'[w].at = p
  BY DEF PickedUp, Dispatched, Attended, Attends
<1>1. CASE \E w \in Workers, r \in Runs : Claims(w, r)
  <2>1. PICK w \in Workers, r \in Runs : Claims(w, r)
    BY <1>1
  <2>2. CASE pay'[p].run = r
    BY <2>1, <2>2 DEF Claims, Starts
  <2>3. CASE pay'[p].run # r
    <3>1. pay'[p] = pay[p]
      BY <2>1, <2>3 DEF Claims, NewRows
    <3>2. pay[p].run \in Runs
      BY <3>1 DEF IInv, TypeOK, Row
    <3>3. Dispatched(pay[p].run)
      BY <2>1, <2>3, <3>1, <3>2 DEF Claims, Dispatched
    <3>4. PICK v \in Workers : Attends(v, pay[p].run) /\ (p \in task[v].todo \/ task[v].at = p)
      BY <3>1, <3>3 DEF PickedUp, Attended
    <3>5. task'[v] = task[v]
      BY <2>1, <3>4, IdleFields DEF Claims, Starts, Attends, Others
    <3> QED BY <3>1, <3>4, <3>5 DEF Attends
  <2> QED BY <2>2, <2>3
<1>2. CASE ~\E w \in Workers, r \in Runs : Claims(w, r)
  <2>1. /\ pay[p].status = "pending" /\ pay'[p].run = pay[p].run
        /\ Dispatched(pay[p].run)
    BY <1>2, PendingBefore
  <2>2. PICK w \in Workers : Attends(w, pay[p].run) /\ (p \in task[w].todo \/ task[w].at = p)
    BY <2>1 DEF PickedUp, Attended
  <2>3. /\ task'[w].kind = "dispatch" /\ task'[w].run = task[w].run
        /\ p \in task'[w].todo \/ task'[w].at = p
    BY <1>2, <2>1, <2>2, PassKeepsRow DEF Attends
  <2> QED BY <2>1, <2>2, <2>3 DEF Attends
<1> QED BY <1>1, <1>2

\* QueueAgrees, first the holders: a worker past the gates saw what its commit
\* will find.
LEMMA ExpectedKept ==
    ASSUME IInv, Step, MoneyStep, UnsentRows, QueueAgrees, "stale_leg" \notin Mishaps,
           NEW w \in Workers
    PROVE  Expected(task[w])'
<1> DEFINE t == task[w]
           a == t.at
           i == pay[a].inv
<1>1. /\ Expected(t) /\ Sending(t) /\ Holding(t) /\ t \in Task
      /\ a # NoPayment => a \in Payments /\ Live(a) /\ i \in Invoices
  BY DEF QueueAgrees, UnsentRows, IInv, TypeOK, Locks, Holding, Task, RowsAgree, Live, LiveStatuses
<1>2. ASSUME task'[w] = t, a # NoPayment, t.stage # "loop",
             \/ invoice[i] = "payment_scheduled" => invoice'[i] = "payment_scheduled"
             \/ /\ t.stage # "gated"
                /\ ~(Decided(t) /\ t.new.status \in {"submitted", "completed"})
      PROVE  Expected(task[w])'
  <2>1. pay'[a] = pay[a]
    BY <1>2, HeldRows
  <2> QED BY <1>1, <1>2, <2>1 DEF Expected, Decided
<1>3. ASSUME task'[w].at = NoPayment, task'[w].stage = "loop", task'[w].kind # "leg"
      PROVE  Expected(task[w])'
  BY <1>3 DEF Expected, Decided
<1>4. ASSUME task'[w] = t, invoice' = invoice PROVE Expected(task[w])'
  <2>1. CASE a = NoPayment
    BY <1>1, <1>3, <1>4, <2>1 DEF Holding, Expected
  <2>2. CASE a # NoPayment
    BY <1>1, <1>2, <1>4, <2>2 DEF Holding
  <2> QED BY <2>1, <2>2
<1>5. ASSUME NEW v \in Workers, NEW r \in Runs, Claims(v, r) PROVE Expected(task[w])'
  BY <1>3, <1>4, <1>5 DEF Claims, Starts, Others
<1>6. ASSUME NEW v \in Workers, NEW p \in Payments, Gates(v, p) PROVE Expected(task[w])'
  <2>1. CASE v = w
    <3>1. pay[p] \in Row
      BY DEF IInv, TypeOK
    <3>2. Refused(pay[p]).status = "failed"
      BY <3>1 DEF Refused, Row
    <3>3. /\ task'[w].kind \in {"dispatch", "release"} /\ task'[w].at = p
          /\ pay' = pay /\ invoice' = invoice
          /\ \/ task'[w].stage = "gated" /\ Payable(pay[p].inv) /\ task'[w].seen = invoice[pay[p].inv]
             \/ task'[w].stage = "decided" /\ task'[w].new.status = "failed"
      BY <1>6, <2>1, <3>2 DEF Gates
    <3> QED BY <3>3 DEF Expected, Decided, Payable, PAYABLE, SCHEDULABLE
  <2> QED BY <1>4, <1>6, <2>1 DEF Gates, Others
<1>7. ASSUME NEW v \in Workers, NEW p \in Payments, Decides(v, p) PROVE Expected(task[w])'
  <2>1. CASE v = w
    <3>1. t.kind \in {"dispatch", "release"} /\ t.stage = "gated"
      BY <1>1, <1>7, <2>1 DEF Decides, Holding
    <3>2. /\ task'[w].kind = t.kind /\ task'[w].at = a /\ task'[w].seen = t.seen
          /\ pay' = pay /\ invoice' = invoice
      BY <1>7, <2>1 DEF Decides
    <3> QED BY <1>1, <3>1, <3>2 DEF Expected
  <2> QED BY <1>4, <1>7, <2>1 DEF Decides, Others
<1>8. ASSUME NEW v \in Workers, NEW p \in Payments, Takes(v, p) PROVE Expected(task[w])'
  <2>1. CASE v = w
    BY <1>8, <2>1 DEF Takes, Expected, Decided, QueueAgrees, InvoiceFollowsPayments,
                      InFlightIsScheduled
  <2> QED BY <1>4, <1>8, <2>1 DEF Takes, Others
<1>9. ASSUME NEW v \in Workers, NEW p \in Payments, Commits(v, p) PROVE Expected(task[w])'
  <2>1. CASE v = w
    BY <1>1, <1>3, <1>9, <2>1 DEF Commits
  <2>2. CASE v # w
    <3>1. task'[w] = t /\ task[v].at = p /\ Live(p)
      BY <1>9, <2>2, PaymentRunsAssumption DEF Commits, Others, IInv, Locks, Holding
    <3>2. CASE a = NoPayment
      BY <1>1, <1>3, <3>1, <3>2 DEF Holding, Expected
    <3>3. CASE a # NoPayment
      <4>1. a # p
        BY <2>2, <3>1, <3>3 DEF IInv, Locks
      <4>2. i # pay[p].inv
        BY <1>1, <3>1, <3>3, <4>1 DEF IInv, OneLivePayment
      <4>3. invoice'[i] = invoice[i]
        BY <1>1, <1>9, <3>3, <4>2 DEF Commits, IInv, TypeOK
      <4> QED BY <1>1, <1>2, <3>1, <3>3, <4>3 DEF Holding
    <3> QED BY <3>2, <3>3
  <2> QED BY <2>1, <2>2
<1>10. ASSUME NEW v \in Workers, Rolls(v) PROVE Expected(task[w])'
  <2>1. CASE v = w
    <3>1. /\ task'[w].kind = t.kind /\ task'[w].at = a /\ task'[w].seen = t.seen
          /\ task'[w].new = t.new /\ Decided(t) /\ Decided(task'[w])
          /\ pay' = pay /\ invoice' = invoice
      BY <1>10, <2>1 DEF Rolls, Decided
    <3>2. t.stage # "gated" /\ task'[w].stage # "gated"
      BY <3>1 DEF Decided
    <3> QED BY <1>1, <3>1, <3>2 DEF Expected
  <2> QED BY <1>4, <1>10, <2>1 DEF Rolls, Others
<1>11. ASSUME NEW v \in Workers, Passes(v) PROVE Expected(task[w])'
  <2>1. task[v].kind # "leg"
    BY DEF QueueAgrees, Expected
  <2> QED BY <1>3, <1>4, <1>11, <2>1 DEF Passes, Others
<1>12. ASSUME NEW p \in Payments, Pays(p) PROVE Expected(task[w])'
  <2>1. task'[w] = t /\ Live(p)
    BY <1>12 DEF Pays, Live, LiveStatuses
  <2>2. CASE a = NoPayment
    BY <1>1, <1>3, <2>1, <2>2 DEF Holding, Expected
  <2>3. CASE a # NoPayment /\ i # pay[p].inv
    <3>1. invoice'[i] = invoice[i]
      BY <1>1, <1>12, <2>3 DEF Pays, IInv, TypeOK
    <3> QED BY <1>1, <1>2, <2>1, <2>3, <3>1 DEF Holding
  <2>4. CASE a # NoPayment /\ i = pay[p].inv
    <3>1. a = p
      BY <1>1, <2>1, <2>4 DEF IInv, OneLivePayment
    <3>2. pay[a].status = "completed" /\ t.kind = "void"
      BY <1>1, <1>12, <2>4, <3>1 DEF Pays, Sending, Waiting
    <3>3. t.stage # "gated" /\ ~(Decided(t) /\ t.new.status \in {"submitted", "completed"})
      BY <1>1, <3>2 DEF Holding, Decided
    <3> QED BY <1>1, <1>2, <2>1, <2>4, <3>3 DEF Holding
  <2> QED BY <2>2, <2>3, <2>4
<1>13. ASSUME NEW j \in Invoices, Pushes(j) PROVE Expected(task[w])'
  <2>1. CASE a = NoPayment
    BY <1>1, <1>3, <1>13, <2>1 DEF Pushes, Holding, Expected
  <2>2. CASE a # NoPayment
    BY <1>1, <1>2, <1>13, <2>2 DEF Pushes, Holding
  <2> QED BY <2>1, <2>2
<1> QED BY <1>4, <1>5, <1>6, <1>7, <1>8, <1>9, <1>10, <1>11, <1>12, <1>13
        DEF MoneyStep, Books, Cancels, Records, GivesUp, Answers, Polls, Judges, Quiet

\* And the tables: a commit schedules what it sends and reopens what it voids.
LEMMA FollowsKept ==
    ASSUME IInv, Step, MoneyStep, UnsentRows, QueueAgrees, "stale_leg" \notin Mishaps
    PROVE  InvoiceFollowsPayments'
<1> DEFINE Moving == {"submitted", "completed"}
<1>1. /\ \A i \in Invoices : invoice[i] = "paid" =>
           \E p \in Payments : pay[p].inv = i /\ pay[p].status = "completed"
      /\ \A p \in Payments : pay[p].status \in Moving =>
           invoice[pay[p].inv] \in {"payment_scheduled", "paid"}
  BY DEF QueueAgrees, InvoiceFollowsPayments, PaidMeansCompleted, InFlightIsScheduled
<1>2. ASSUME \A i \in Invoices : invoice'[i] = "paid" =>
                 \E p \in Payments : pay'[p].inv = i /\ pay'[p].status = "completed",
             \A p \in Payments : pay'[p].status \in Moving =>
                 invoice'[pay'[p].inv] \in {"payment_scheduled", "paid"}
      PROVE  InvoiceFollowsPayments'
  BY <1>2 DEF InvoiceFollowsPayments, PaidMeansCompleted, InFlightIsScheduled
<1>3. ASSUME invoice' = invoice,
             \A p \in Payments : pay[p].status = "completed" =>
                 pay'[p].status = "completed" /\ pay'[p].inv = pay[p].inv,
             \A p \in Payments : pay'[p].status \in Moving =>
                 pay[p].status \in Moving /\ pay'[p].inv = pay[p].inv
      PROVE  InvoiceFollowsPayments'
  BY <1>1, <1>2, <1>3
<1>4. ASSUME NEW r, NewRows(r), invoice' = invoice PROVE InvoiceFollowsPayments'
  BY <1>3, <1>4 DEF NewRows
<1>5. ASSUME NEW r \in Runs, Cancels(r) PROVE InvoiceFollowsPayments'
  <2>1. \A p \in Payments : pay[p].run = r => pay[p].status \notin Moving
    BY <1>5, PaymentRunsAssumption DEF Cancels, IInv, DraftsUnsent, Dispatched
  <2> QED BY <1>3, <1>5, <2>1 DEF Cancels
<1>6. ASSUME NEW p \in Payments, NEW verdict \in Verdicts, Records(p, verdict)
      PROVE  InvoiceFollowsPayments'
  <2>1. pay[p].status = "submitted"
    BY <1>6 DEF Records, UnsentRows, Waiting
  <2> QED BY <1>3, <1>6, <2>1 DEF Records, OtherRows
<1>7. ASSUME NEW p \in Payments, GivesUp(p) PROVE InvoiceFollowsPayments'
  BY <1>3, <1>7 DEF GivesUp, OtherRows
<1>8. ASSUME NEW p \in Payments, Pays(p) PROVE InvoiceFollowsPayments'
  <2>1. pay[p].inv \in Invoices
    BY <1>8 DEF Pays, IInv, RowsAgree
  <2>2. \A i \in Invoices : invoice'[i] = IF i = pay[p].inv THEN "paid" ELSE invoice[i]
    BY <1>8 DEF Pays, IInv, TypeOK
  <2>3. \A q \in Payments : pay[q].status \in Moving => pay[q].inv \in Invoices
    BY DEF IInv, RowsAgree
  <2> QED BY <1>1, <1>2, <1>8, <2>1, <2>2, <2>3 DEF Pays
<1>9. ASSUME NEW j \in Invoices, Pushes(j) PROVE InvoiceFollowsPayments'
  <2>1. \A q \in Payments : pay[q].status \in Moving => pay[q].inv \in Invoices \ {j}
    BY <1>1, <1>9 DEF Pushes, IInv, RowsAgree
  <2> QED BY <1>1, <1>2, <1>9, <2>1 DEF Pushes
<1>10. ASSUME NEW w \in Workers, NEW p \in Payments, Commits(w, p) PROVE InvoiceFollowsPayments'
  <2> DEFINE t == task[w]
             i == pay[p].inv
  <2>1. /\ t.at = p /\ Decided(t) /\ pay'[p] = t.new /\ OtherRows(p)
        /\ Live(p) /\ i \in Invoices /\ t.new.inv = i /\ p # NoPayment
        /\ Sending(t) /\ Expected(t) /\ Holding(t)
    BY <1>10, PaymentRunsAssumption
       DEF Commits, IInv, Locks, Holding, Live, LiveStatuses, RowsAgree, UnsentRows, QueueAgrees, Decided
  <2>2. /\ invoice'[i] = InvoiceWrite(t)
        /\ \A j \in Invoices \ {i} : invoice'[j] = invoice[j]
    BY <1>10, <2>1 DEF Commits, IInv, TypeOK
  <2>3. \A q \in Payments \ {p} : pay'[q] = pay[q] /\ (pay[q].inv = i => pay[q].status \notin Moving)
    BY <2>1 DEF OtherRows, IInv, OneLivePayment, Live, LiveStatuses
  <2>4. \A q \in Payments : pay[q].status \in Moving => pay[q].inv \in Invoices
    BY DEF IInv, RowsAgree
  <2>5. SUFFICES /\ invoice'[i] = "paid" => t.new.status = "completed"
                 /\ t.new.status \in Moving => invoice'[i] \in {"payment_scheduled", "paid"}
    BY <1>1, <1>2, <2>1, <2>2, <2>3, <2>4
  <2>6. invoice[i] = "paid" => pay[p].status = "completed"
    BY <1>1, <2>1, <2>3
  <2>7. CASE t.new.status \in Moving
    <3>1. t.kind \in {"dispatch", "release"}
      BY <2>1, <2>7 DEF Sending
    <3>2. \/ t.seen \in SCHEDULABLE
          \/ t.seen = "payment_scheduled" /\ invoice[i] = "payment_scheduled"
      BY <2>1, <2>7 DEF Expected
    <3>3. invoice'[i] = "payment_scheduled"
      BY <2>1, <2>2, <2>7, <3>1, <3>2 DEF InvoiceWrite
    <3> QED BY <3>3
  <2>8. CASE t.new.status \notin Moving /\ t.kind # "void"
    <3>1. pay[p].status \in Waiting
      BY <2>1, <2>8 DEF Sending
    <3>2. InvoiceWrite(t) = invoice[i]
      BY <2>1, <2>8 DEF InvoiceWrite
    <3> QED BY <2>2, <2>6, <2>8, <3>1, <3>2 DEF Waiting
  <2>9. CASE t.new.status \notin Moving /\ t.kind = "void"
    <3>1. CASE t.seen \in {"payment_scheduled", "paid"}
      BY <2>1, <2>2, <2>9, <3>1 DEF InvoiceWrite
    <3>2. CASE t.seen \notin {"payment_scheduled", "paid"}
      <4>1. pay[p].status \notin Moving
        BY <2>1, <2>9, <3>2 DEF Expected
      <4>2. InvoiceWrite(t) = invoice[i]
        BY <2>1, <2>9, <3>2 DEF InvoiceWrite
      <4> QED BY <2>2, <2>6, <2>9, <4>1, <4>2
    <3> QED BY <3>1, <3>2
  <2> QED BY <2>7, <2>8, <2>9
<1>11. ASSUME NEW w \in Workers, Passes(w) PROVE InvoiceFollowsPayments'
  <2>1. task[w].kind # "leg"
    BY DEF QueueAgrees, Expected
  <2> QED BY <1>3, <1>11, <2>1 DEF Passes
<1>12. ASSUME pay' = pay, invoice' = invoice PROVE InvoiceFollowsPayments'
  BY <1>3, <1>12
<1> QED BY <1>4, <1>5, <1>6, <1>7, <1>8, <1>9, <1>10, <1>11, <1>12
        DEF MoneyStep, Books, Claims, Gates, Decides, Takes, Rolls, Answers, Polls, Judges, Quiet

\* OrdersHeld, first the table of orders: money moves for the holder of a slot
\* or behind a flag.
LEMMA HeldOrdersKept ==
    ASSUME IInv, Step, MoneyStep, UnsentRows, FlagsBar, OrdersKnown, OrdersHeld,
           OneOrderPerInvoice, Mishaps \cap SlipAway = {}
    PROVE  /\ \A p \in Payments : MovesMoney(p)' =>
                \/ Live(p)'
                \/ pay'[p].status = "failed" /\ "payment_reconciliation" \in flags'[pay'[p].inv]
           /\ OneOrderPerInvoice'
<1>0. "crash" \notin Mishaps /\ "flag_lost" \notin Mishaps /\ "careless_resolve" \notin Mishaps
      /\ "lost_reply" \notin Mishaps /\ "deaf_void" \notin Mishaps
  BY DEF SlipAway
<1> DEFINE Flagged(i) == "payment_reconciliation" \in flags[i]
<1>1. ASSUME NEW p \in Payments, MovesMoney(p)
      PROVE  \/ Live(p)
             \/ pay[p].status = "failed" /\ Flagged(pay[p].inv)
  BY <1>1 DEF OrdersHeld
<1>2. ASSUME NEW p \in Payments, MovesMoney(p)'
      PROVE  \/ MovesMoney(p)
             \/ \E w \in Workers : Decides(w, p) /\ Live(p)
  <2>1. ASSUME NEW w \in Workers, NEW q \in Payments, Decides(w, q)
        PROVE  MovesMoney(p) \/ (Decides(w, p) /\ Live(p))
    BY <1>2, <2>1 DEF Decides, OtherOrders, MovesMoney, Live, LiveStatuses, Waiting
  <2>2. ASSUME NEW w \in Workers, NEW q \in Payments, Takes(w, q) PROVE MovesMoney(p)
    BY <1>2, <2>2 DEF Takes, OtherOrders, MovesMoney
  <2>3. ASSUME NEW q \in Payments, Answers(q) PROVE MovesMoney(p)
    BY <1>2, <2>3 DEF Answers, OtherOrders, MovesMoney
  <2>4. ASSUME order' = order PROVE MovesMoney(p)
    BY <1>2, <2>4 DEF MovesMoney
  <2> QED BY <2>1, <2>2, <2>3, <2>4
          DEF MoneyStep, Books, Cancels, Claims, Gates, Commits, Rolls, Passes, Records, GivesUp,
              Pays, Pushes, Polls, Judges, Quiet
<1>3. ASSUME NEW p \in Payments, MovesMoney(p)' PROVE pay'[p].inv = pay[p].inv /\ pay[p].inv \in Invoices
  <2>1. pay[p].status # "none"
    BY <1>1, <1>2, <1>3 DEF Live, LiveStatuses
  <2> QED BY <2>1 DEF Step, RowStep, RowKept, IInv, RowsAgree
<1>4. ASSUME NEW p \in Payments, MovesMoney(p)', Live(p)
      PROVE  Live(p)' \/ (pay'[p].status = "failed" /\ "payment_reconciliation" \in flags'[pay'[p].inv])
  <2>1. CASE pay'[p] = pay[p]
    BY <1>4, <2>1 DEF Live
  <2>2. CASE pay'[p] # pay[p]
    <3>1. ASSUME NEW w \in Workers, NEW q \in Payments, Commits(w, q) PROVE Live(p)'
      <4>1. q = p /\ pay'[p] = task[w].new /\ task[w].at = p /\ Decided(task[w]) /\ order' = order
        BY <2>2, <3>1 DEF Commits, OtherRows
      <4>2. MovesMoney(p)
        BY <1>4, <4>1 DEF MovesMoney
      <4>3. task[w].new.status \notin {"failed", "voided"}
        BY <4>1, <4>2 DEF OrdersHeld
      <4>4. task[w].new.status \notin {"none", "deleted"}
        BY <4>1 DEF IInv, Locks, Holding, Decided
      <4>5. task[w].new.status \in PaymentStatuses
        BY DEF IInv, TypeOK, Task, Row
      <4> QED BY <4>1, <4>3, <4>4, <4>5 DEF Live, LiveStatuses, PaymentStatuses
    <3>2. ASSUME NEW q \in Payments, NEW v \in Verdicts, Records(q, v) PROVE Live(p)'
      <4>1. q = p /\ order' = order
        BY <2>2, <3>2 DEF Records, OtherRows
      <4>2. v \notin {"rejected", "reversed"}
        BY <1>4, <3>2, <4>1 DEF Records, OrdersHeld, MovesMoney
      <4> QED BY <3>2, <4>1, <4>2 DEF Records, Live, LiveStatuses
    <3>3. ASSUME NEW q \in Payments, GivesUp(q)
          PROVE  pay'[p].status = "failed" /\ "payment_reconciliation" \in flags'[pay'[p].inv]
      BY <1>0, <2>2, <3>3 DEF GivesUp, OtherRows
    <3>4. ASSUME NEW r \in Runs, Cancels(r) PROVE FALSE
      <4>1. pay[p].run = r /\ Free(p) /\ order' = order
        BY <2>2, <3>4 DEF Cancels
      <4>2. ~pay[p].ref /\ pay[p].status # "failed"
        BY <3>4, <4>1, PaymentRunsAssumption DEF Cancels, IInv, DraftsUnsent, Dispatched
      <4>3. order[p] # "none"
        BY <1>4, <4>1 DEF MovesMoney
      <4> QED BY <4>1, <4>2, <4>3 DEF OrdersKnown, Known, Free
    <3>5. ASSUME NEW r, NewRows(r) PROVE FALSE
      BY <1>4, <2>2, <3>5 DEF NewRows, Live, LiveStatuses
    <3>6. pay' # pay
      BY <2>2
    <3> QED BY <3>1, <3>2, <3>3, <3>4, <3>5, <3>6
            DEF MoneyStep, Books, Claims, Gates, Decides, Takes, Rolls, Passes, Pays, Answers,
                Pushes, Polls, Judges, Quiet
  <2> QED BY <2>1, <2>2
<1>5. ASSUME NEW p \in Payments, MovesMoney(p)', ~Live(p)
      PROVE  pay'[p].status = "failed" /\ "payment_reconciliation" \in flags'[pay'[p].inv]
  <2>1. MovesMoney(p) /\ pay[p].status = "failed" /\ Flagged(pay[p].inv)
    BY <1>1, <1>2, <1>5
  <2>2. pay'[p].status = "failed"
    BY <2>1 DEF Step, RowStep, RowKept, PAYMENT_MOVES
  <2>3. pay'[p].inv = pay[p].inv /\ pay[p].inv \in Invoices
    BY <1>3, <1>5
  <2>4. "payment_reconciliation" \in flags'[pay[p].inv]
    <3>1. CASE flags' = flags
      BY <2>1, <3>1
    <3>2. ASSUME NEW q \in Payments, NEW v \in Verdicts, Records(q, v)
          PROVE  "payment_reconciliation" \in flags'[pay[p].inv]
      BY <2>1, <2>3, <3>2 DEF Records
    <3>3. ASSUME NEW q \in Payments, GivesUp(q)
          PROVE  "payment_reconciliation" \in flags'[pay[p].inv]
      BY <2>1, <2>3, <3>3 DEF GivesUp
    <3>4. ASSUME Judges PROVE "payment_reconciliation" \in flags'[pay[p].inv]
      <4>1. ~Reconciled(pay[p].inv)
        BY <2>1 DEF Reconciled, MovesMoney
      <4> QED BY <1>0, <2>1, <2>3, <3>4, <4>1 DEF Judges
    <3> QED BY <3>1, <3>2, <3>3, <3>4
            DEF MoneyStep, Books, Cancels, Claims, Gates, Decides, Takes, Commits, Rolls, Passes,
                Pays, Answers, Pushes, Polls, Quiet
  <2> QED BY <2>2, <2>3, <2>4
<1>6. OneOrderPerInvoice'
  <2> SUFFICES ASSUME NEW p \in Payments, NEW q \in Payments, MovesMoney(p)', MovesMoney(q)',
                      pay'[p].inv = pay'[q].inv
               PROVE  p = q
    BY DEF OneOrderPerInvoice, MovesMoney
  <2>1. pay[p].inv = pay[q].inv /\ pay[p].inv \in Invoices
    BY <1>3
  <2>2. CASE MovesMoney(p) /\ MovesMoney(q)
    BY <2>1, <2>2 DEF OneOrderPerInvoice
  <2>3. ASSUME NEW s \in Payments, NEW u \in Payments, ~MovesMoney(s), MovesMoney(s)', MovesMoney(u)',
               pay[s].inv = pay[u].inv, pay[s].inv \in Invoices
        PROVE  s = u
    <3>1. Live(s)
      BY <1>2, <2>3
    <3>2. Live(u)
      BY <1>1, <1>2, <2>3, <3>1 DEF FlagsBar, Occupied
    <3> QED BY <2>3, <3>1, <3>2 DEF IInv, OneLivePayment
  <2> QED BY <2>1, <2>2, <2>3
<1> QED BY <1>4, <1>5, <1>6

\* Then the tasks and the reconciler: nobody is about to free a slot behind an
\* order that moves money.
LEMMA DecidedOrdersKept ==
    ASSUME IInv, Step, MoneyStep, UnsentRows, OrdersKnown, OrdersHeld, Mishaps \cap SlipAway = {},
           NEW w \in Workers, Decided(task'[w]), task'[w].new.status \in {"failed", "voided"}
    PROVE  order'[task'[w].at] \notin {"open", "settled", "short"}
<1> DEFINE t == task[w]
           a == t.at
           Money == {"open", "settled", "short"}
<1>0. "lost_reply" \notin Mishaps /\ "deaf_void" \notin Mishaps
  BY DEF SlipAway
<1>1. ASSUME NEW p \in Payments, ~pay[p].ref, pay[p].status # "failed",
             \A v \in Workers : task[v].at = p => ~Decided(task[v])
      PROVE  order[p] = "none"
  BY <1>1 DEF OrdersKnown, Known
<1>2. ASSUME NEW p \in Payments, pay[p].status \in Waiting PROVE ~pay[p].ref /\ pay[p].status # "failed"
  BY <1>2 DEF UnsentRows, Waiting
<1>3. ASSUME NEW p \in Payments, Free(p) PROVE \A v \in Workers : task[v].at = p => ~Decided(task[v])
  BY <1>3 DEF Free
<1>4. Decided(t) /\ t.new.status \in {"failed", "voided"} => order[a] \notin Money
  BY DEF OrdersHeld, MovesMoney
<1>5. Decided(t) => a \in Payments
  BY PaymentRunsAssumption DEF Decided, IInv, TypeOK, Task, Locks, Holding
<1>6. ASSUME task'[w] = t, order' = order PROVE order'[task'[w].at] \notin Money
  BY <1>4, <1>6
<1>7. ASSUME NEW v \in Workers, NEW p \in Payments, Gates(v, p) PROVE order'[task'[w].at] \notin Money
  <2>1. CASE v = w
    BY <1>1, <1>2, <1>3, <1>7, <2>1 DEF Gates
  <2> QED BY <1>6, <1>7, <2>1 DEF Gates, Others
<1>8. ASSUME NEW v \in Workers, NEW p \in Payments, Decides(v, p) PROVE order'[task'[w].at] \notin Money
  <2>1. CASE v = w
    <3>1. \A u \in Workers : task[u].at = p => ~Decided(task[u])
      <4>1. p # NoPayment
        BY PaymentRunsAssumption
      <4> QED BY <1>8, <2>1, <4>1 DEF Decides, IInv, Locks, Decided
    <3>2. order[p] = "none"
      BY <1>1, <1>2, <1>8, <3>1 DEF Decides
    <3> QED BY <1>0, <1>8, <2>1, <3>2 DEF Decides, Waiting
  <2>2. CASE v # w
    <3>1. task'[w] = t
      BY <1>8, <2>2 DEF Decides, Others
    <3>2. a # p
      BY <1>5, <1>8, <2>2, <3>1, PaymentRunsAssumption DEF Decides, IInv, Locks
    <3>3. order'[a] = order[a]
      BY <1>5, <1>8, <3>1, <3>2 DEF Decides, OtherOrders
    <3> QED BY <1>4, <3>1, <3>3
  <2> QED BY <2>1, <2>2
<1>9. ASSUME NEW v \in Workers, NEW p \in Payments, Takes(v, p) PROVE order'[task'[w].at] \notin Money
  <2>1. CASE v = w
    <3>1. ASSUME ~pay[p].ref PROVE order[p] = "none"
      BY <1>1, <1>3, <1>9, <3>1 DEF Takes, Live, LiveStatuses
    <3>2. task'[w].kind = "void" => order'[p] \notin Money
      BY <1>0, <1>9, <2>1, <3>1 DEF Takes
    <3>3. task'[w].kind # "void" => order'[p] \notin Money
      BY <1>2, <1>9, <2>1, <3>1 DEF Takes
    <3> QED BY <1>9, <2>1, <3>2, <3>3 DEF Takes
  <2>2. CASE v # w
    <3>1. task'[w] = t
      BY <1>9, <2>2 DEF Takes, Others
    <3>2. a # p
      BY <1>9 DEF Takes, Free
    <3>3. order'[a] = order[a]
      BY <1>5, <1>9, <3>1, <3>2 DEF Takes, OtherOrders
    <3> QED BY <1>4, <3>1, <3>3
  <2> QED BY <2>1, <2>2
<1>10. ASSUME NEW v \in Workers, Rolls(v) PROVE order'[task'[w].at] \notin Money
  BY <1>4, <1>6, <1>10 DEF Rolls, Others
<1>11. ASSUME NEW p \in Payments, Answers(p) PROVE order'[task'[w].at] \notin Money
  BY <1>4, <1>5, <1>11 DEF Answers, OtherOrders
<1>12. ASSUME NEW v \in Workers, NEW p \in Payments, Commits(v, p) PROVE order'[task'[w].at] \notin Money
  BY <1>6, <1>12 DEF Commits, Others, Decided
<1>13. ASSUME NEW v \in Workers, Passes(v) PROVE order'[task'[w].at] \notin Money
  BY <1>6, <1>13 DEF Passes, Others, Decided
<1>14. ASSUME NEW v \in Workers, NEW r \in Runs, Claims(v, r) PROVE order'[task'[w].at] \notin Money
  BY <1>6, <1>14 DEF Claims, Starts, Others, Decided
<1> QED BY <1>6, <1>7, <1>8, <1>9, <1>10, <1>11, <1>12, <1>13, <1>14
        DEF MoneyStep, Books, Cancels, Records, GivesUp, Pays, Pushes, Polls, Judges, Quiet

LEMMA OrdersHeldKept ==
    ASSUME IInv, Step, MoneyStep, UnsentRows, FlagsBar, OrdersKnown, OrdersHeld,
           OneOrderPerInvoice, Mishaps \cap SlipAway = {}
    PROVE  OneOrderPerInvoice' /\ OrdersHeld'
<1>1. \A w \in Workers : Decided(task[w])' /\ task'[w].new.status \in {"failed", "voided"} =>
         ~MovesMoney(task[w].at)'
  BY DecidedOrdersKept DEF MovesMoney, Decided
<1>2. ASSUME sweep' # NoSweep, sweep'.verdict \in {"rejected", "reversed"}
      PROVE  order'[sweep'.row] \in {"rejected", "reversed"}
  <2>1. ASSUME sweep' = sweep PROVE sweep.row \in Payments /\ order[sweep.row] \in {"rejected", "reversed"}
    BY <1>2, <2>1 DEF OrdersHeld, IInv, TypeOK, Sweep
  <2>2. CASE sweep' = sweep /\ order' = order
    BY <2>1, <2>2
  <2>3. ASSUME NEW w \in Workers, NEW p \in Payments, Decides(w, p)
        PROVE  order'[sweep'.row] \in {"rejected", "reversed"}
    <3>1. "lost_reply" \notin Mishaps
      BY DEF SlipAway
    <3> QED BY <2>1, <2>3, <3>1 DEF Decides, OtherOrders
  <2>4. ASSUME NEW w \in Workers, NEW p \in Payments, Takes(w, p)
        PROVE  order'[sweep'.row] \in {"rejected", "reversed"}
    BY <2>1, <2>4 DEF Takes, OtherOrders
  <2>5. ASSUME NEW p \in Payments, Answers(p)
        PROVE  order'[sweep'.row] \in {"rejected", "reversed"}
    BY <2>1, <2>5 DEF Answers, OtherOrders
  <2>6. CASE Polls
    BY <1>2, <2>6 DEF Polls
  <2>7. ASSUME NEW p \in Payments, NEW v \in Verdicts, Records(p, v)
        PROVE  order'[sweep'.row] \in {"rejected", "reversed"}
    BY <1>2, <2>2, <2>7 DEF Records
  <2> QED BY <2>2, <2>3, <2>4, <2>5, <2>6, <2>7
          DEF MoneyStep, Books, Cancels, Claims, Gates, Commits, Rolls, Passes, GivesUp, Pays,
              Pushes, Judges, Quiet
<1> QED BY <1>1, <1>2, HeldOrdersKept DEF OrdersHeld, MovesMoney, Decided, Live

-----------------------------------------------------------------------------
(* The theorems.                                                           *)

\* The promises about money rest on one another: every step keeps them all.
LEMMA MoneyStepKept ==
    ASSUME MoneyInv, [Next]_vars PROVE MoneyInv'
<1>1. IInv /\ IInv' /\ Step /\ MoneyStep
  BY InductiveStep, NextStep, StepMoves DEF MoneyInv
<1>2. UnsentRows' /\ FlagsBar'
  BY <1>1, UnsentRowsKept, FlagsBarKept DEF MoneyInv
<1>3. "crash" \notin Mishaps => OrdersKnown' /\ PickedUp'
  BY <1>1, OrdersKnownKept, PickedUpKept DEF MoneyInv
<1>4. "stale_leg" \notin Mishaps => QueueAgrees'
  <2>1. ASSUME "stale_leg" \notin Mishaps PROVE QueueAgrees'
    <3>1. QueueAgrees /\ UnsentRows
      BY <2>1 DEF MoneyInv
    <3>2. InvoiceFollowsPayments'
      BY <1>1, <2>1, <3>1, FollowsKept
    <3>3. \A w \in Workers : Expected(task[w])'
      BY <1>1, <2>1, <3>1, ExpectedKept
    <3> QED BY <3>2, <3>3 DEF QueueAgrees
  <2> QED BY <2>1
<1>5. Mishaps \cap SlipAway = {} => OneOrderPerInvoice' /\ OrdersHeld'
  <2>1. ASSUME Mishaps \cap SlipAway = {} PROVE OneOrderPerInvoice' /\ OrdersHeld'
    <3>1. "crash" \notin Mishaps
      BY <2>1 DEF SlipAway
    <3> QED BY <1>1, <2>1, <3>1, OrdersHeldKept DEF MoneyInv
  <2> QED BY <2>1
<1> QED BY <1>1, <1>2, <1>3, <1>4, <1>5 DEF MoneyInv

\* The empty tables owe nothing.
LEMMA MoneyInit == Init => MoneyInv
<1> SUFFICES ASSUME Init PROVE MoneyInv
  OBVIOUS
<1>1. /\ \A p \in Payments : pay[p].status = "none" /\ pay[p].run = NoRun
      /\ \A p \in Payments : order[p] = "none"
      /\ \A i \in Invoices : flags[i] = {} /\ invoice[i] = "approved"
      /\ sweep = NoSweep
  BY NoRowFields DEF Init
<1>2. \A w \in Workers : task[w].at = NoPayment /\ task[w].stage = "loop" /\ task[w].kind = "idle"
  BY IdleFields DEF Init
<1>3. IInv
  BY InductiveInit
<1>4. UnsentRows
  BY <1>1, <1>2 DEF UnsentRows, Sending, Waiting, Decided
<1>5. FlagsBar
  BY <1>1 DEF FlagsBar
<1>6. OrdersKnown /\ PickedUp
  BY <1>1 DEF OrdersKnown, PickedUp
<1>7. QueueAgrees
  BY <1>1, <1>2 DEF QueueAgrees, InvoiceFollowsPayments, PaidMeansCompleted, InFlightIsScheduled,
                    Expected, Decided
<1>8. OneOrderPerInvoice /\ OrdersHeld
  BY <1>1, <1>2 DEF OneOrderPerInvoice, OrdersHeld, MovesMoney, Decided
<1> QED BY <1>3, <1>4, <1>5, <1>6, <1>7, <1>8 DEF MoneyInv

\* The promises about money hold together, each unless the mishaps it names
\* happen.
THEOREM MoneyInvariance == Spec => []MoneyInv
<1>1. Init => MoneyInv
  BY MoneyInit
<1>2. MoneyInv /\ [Next]_vars => MoneyInv'
  BY MoneyStepKept
<1> QED BY <1>1, <1>2, PTL DEF Spec

\* Through every mishap, a payment_reconciliation flag keeps its invoice out of
\* flight and out of every dispatch that has passed the gates.
THEOREM FlaggedStaysBlocked == Spec => []ReconciliationBlocks
<1>1. MoneyInv => ReconciliationBlocks
  <2> SUFFICES ASSUME MoneyInv, NEW i \in Invoices, "payment_reconciliation" \in flags[i]
               PROVE  /\ \A p \in Payments : pay[p].inv = i =>
                           pay[p].status \notin {"submitted", "completed"}
                      /\ \A w \in Workers : task[w].stage = "gated" => pay[task[w].at].inv # i
    BY DEF ReconciliationBlocks
  <2>1. \A p \in Payments : pay[p].inv = i => ~Live(p)
    BY DEF MoneyInv, FlagsBar, Occupied
  <2>2. \A w \in Workers : task[w].stage = "gated" => task[w].at \in Payments /\ Live(task[w].at)
    BY DEF MoneyInv, IInv, TypeOK, Task, Locks, Holding
  <2> QED BY <2>1, <2>2 DEF Live, LiveStatuses
<1> QED BY <1>1, MoneyInvariance, PTL

\* Unless a worker dies, a failure that /retry-failed may send again left no
\* order at the processor.
THEOREM RetriesAreSafe ==
    ASSUME "crash" \notin Mishaps PROVE Spec => []RetrySafeMeansNoOrder
<1>1. MoneyInv => RetrySafeMeansNoOrder
  <2> SUFFICES ASSUME MoneyInv, NEW p \in Payments, RetrySafe(p) PROVE order[p] = "none"
    BY DEF RetrySafeMeansNoOrder
  <2>1. ~Known(pay[p])
    BY DEF RetrySafe, Known
  <2>2. ~Live(p)
    BY DEF RetrySafe, Live, LiveStatuses
  <2>3. \A w \in Workers : task[w].at # p
    BY <2>2, PaymentRunsAssumption DEF MoneyInv, IInv, Locks, Holding
  <2> QED BY <2>1, <2>3 DEF MoneyInv, OrdersKnown
<1> QED BY <1>1, MoneyInvariance, PTL

\* Unless a worker dies, every pending row of a run that left draft has a pass
\* at work on its run.
THEOREM NobodyStranded ==
    ASSUME "crash" \notin Mishaps PROVE Spec => []NoStrandedRow
<1>1. MoneyInv => NoStrandedRow
  <2> SUFFICES ASSUME MoneyInv, NEW p \in Payments, pay[p].status = "pending", pay[p].run # NoRun
               PROVE  \/ run[pay[p].run].status \in {"draft", "executing"}
                      \/ \E w \in Workers : Attends(w, pay[p].run)
    BY DEF NoStrandedRow
  <2>1. run[pay[p].run].status # "none"
    BY DEF MoneyInv, IInv, RowsAgree
  <2>2. run[pay[p].run].status # "cancelled"
    BY DEF MoneyInv, UnsentRows
  <2> QED BY <2>1, <2>2 DEF MoneyInv, PickedUp, Attended, Dispatched
<1> QED BY <1>1, MoneyInvariance, PTL

\* Unless an ERP-sync leg writes on a row it read before the last commit, the
\* invoice queue and the payments agree.
THEOREM QueueFollows ==
    ASSUME "stale_leg" \notin Mishaps PROVE Spec => []InvoiceFollowsPayments
<1>1. MoneyInv => InvoiceFollowsPayments
  BY DEF MoneyInv, QueueAgrees
<1> QED BY <1>1, MoneyInvariance, PTL

\* Where no worker dies, replies and reversals reach both sides and no
\* reconciliation flag is lost or closed carelessly, no invoice ever has two
\* orders that move money.
THEOREM PaidOnce ==
    ASSUME Mishaps \cap SlipAway = {} PROVE Spec => []OneOrderPerInvoice
<1>1. MoneyInv => OneOrderPerInvoice
  BY DEF MoneyInv
<1> QED BY <1>1, MoneyInvariance, PTL

-----------------------------------------------------------------------------
(* Claims and the invoice workflow.                                        *)

\* Where a recompute reads the run in the transaction that writes it, only the
\* pass that holds a run takes it out of executing.
Unrolled == \A w \in Workers : task[w].stage # "rolled"

LEMMA UnrolledKept ==
    ASSUME IInv, MoneyStep, Unrolled, "stale_rollup" \notin Mishaps PROVE Unrolled'
<1> SUFFICES ASSUME NEW w \in Workers PROVE task'[w].stage # "rolled"
  BY DEF Unrolled
<1>1. task[w].stage # "rolled"
  BY DEF Unrolled
<1>2. ASSUME NEW v \in Workers, NEW r \in Runs, Claims(v, r) PROVE task'[w].stage # "rolled"
  BY <1>1, <1>2 DEF Claims, Starts, Others
<1>3. ASSUME NEW v \in Workers, NEW p \in Payments,
             Gates(v, p) \/ Decides(v, p) \/ Takes(v, p) \/ Commits(v, p)
      PROVE  task'[w].stage # "rolled"
  BY <1>1, <1>3 DEF Gates, Decides, Takes, Commits, Others
<1>4. ASSUME NEW v \in Workers, Rolls(v) \/ Passes(v) PROVE task'[w].stage # "rolled"
  BY <1>1, <1>4 DEF Rolls, Passes, Others
<1>5. task' = task => task'[w].stage # "rolled"
  BY <1>1
<1> QED BY <1>2, <1>3, <1>4, <1>5
        DEF MoneyStep, Books, Cancels, Records, GivesUp, Pays, Answers, Pushes, Polls, Judges, Quiet

\* A claimed run leaves executing only when its pass finishes.
LEMMA ClaimStep ==
    ASSUME IInv, Unrolled, [Next]_vars, NEW r \in Runs,
           run[r].status = "executing", run'[r].status # "executing"
    PROVE  \E w \in Workers : Attends(w, r) /\ task'[w] = Idle
<1>1. ASSUME NEW u \in Users, NEW q \in Runs, CreateRun(u, q) \/ ApproveRun(u, q) PROVE FALSE
  BY <1>1 DEF CreateRun, ApproveRun, IInv, TypeOK, RunRow
<1>2. ASSUME NEW q \in Runs, CancelRun(q) PROVE FALSE
  BY <1>2 DEF CancelRun, IInv, TypeOK, RunRow
<1>3. ASSUME NEW w \in Workers, NEW u \in Users, NEW q \in Runs,
             Execute(w, u, q) \/ Resume(w, u, q) \/ RetryFailed(w, u, q)
      PROVE  FALSE
  BY <1>3 DEF Execute, Resume, RetryFailed, IInv, TypeOK, RunRow
<1>4. ASSUME NEW w \in Workers, Commit(w) PROVE FALSE
  <2> DEFINE roll == IF task[w].stage = "rolled" THEN task[w].roll ELSE Recomputed(w)
             q == task[w].new.run
  <2>1. run' = IF roll = "" THEN run ELSE [run EXCEPT ![q].status = roll]
    BY <1>4 DEF Commit
  <2>2. roll = Recomputed(w)
    BY DEF Unrolled
  <2>3. Recomputed(w) # "" => q # r
    BY DEF Recomputed, Derived, CLAIM_RUN_STATUSES
  <2> HIDE DEF roll
  <2>4. run'[r] = run[r]
    BY <2>1, <2>2, <2>3 DEF IInv, TypeOK
  <2> QED BY <2>4
<1>5. ASSUME NEW w \in Workers, Finish(w) PROVE Attends(w, r) /\ task'[w] = Idle
  <2>1. task'[w] = Idle /\ task[w].kind = "dispatch"
    BY <1>5 DEF Finish, IInv, TypeOK
  <2>2. task[w].run = r
    BY <1>5 DEF Finish, IInv, TypeOK
  <2> QED BY <2>1, <2>2 DEF Attends
<1>6. run' # run
  OBVIOUS
<1> QED BY <1>1, <1>2, <1>3, <1>4, <1>5, <1>6
        DEF Next, Booking, Request, Work, Settlement, Surroundings, CreatePayment, Release, Void,
            Dismiss, LegRead, DispatchRow, Refuse, Hold, Send, Raise, Decide, ReadRun, LegApply, Crash,
            Webhook, SweepPoll, AgeOut, SyncLeg, AcceptSettlement, SweepApply, RaiseFlag, ErpPush,
            ResolveFlag, ProcessorDecides, vars

\* Unless a rollup is written on a run that was read before the last commit,
\* only the pass that holds a run ends its claim.
THEOREM ClaimsAreKept ==
    ASSUME "stale_rollup" \notin Mishaps PROVE Spec => ClaimsHold
<1> DEFINE Kept == \A r \in Runs : run[r].status = "executing" /\ run'[r].status # "executing" =>
                      \E w \in Workers : Attends(w, r) /\ task'[w] = Idle
           Inv == IInv /\ Unrolled
<1>1. Init => Inv
  <2> SUFFICES ASSUME Init PROVE Inv
    OBVIOUS
  <2>1. Unrolled
    BY IdleFields DEF Init, Unrolled
  <2> QED BY <2>1, InductiveInit
<1>2. Inv /\ [Next]_vars => Inv'
  BY InductiveStep, StepMoves, UnrolledKept
<1>3. Inv /\ [Next]_vars => [Kept]_vars
  BY ClaimStep
<1> QED BY <1>1, <1>2, <1>3, PTL DEF Spec, ClaimsHold

\* Where /resume waits until the dispatcher is gone, a claimed run has one pass
\* at most, with every pending row of the run still before it.  A pass that dies
\* leaves its run claimed.
OnePass ==
    /\ \A w \in Workers, r \in Runs : Attends(w, r) =>
         run[r].status = "executing" /\ \A v \in Workers : Attends(v, r) => v = w
    /\ \A p \in Payments :
         pay[p].status = "pending" /\ pay[p].run # NoRun /\ Dispatched(pay[p].run) =>
           /\ run[pay[p].run].status = "executing"
           /\ \A w \in Workers : Attends(w, pay[p].run) => p \in task[w].todo \/ task[w].at = p

\* Nobody is on a run when a pass claims it.
LEMMA ClaimedAlone ==
    ASSUME OnePass, "early_resume" \notin Mishaps,
           NEW w \in Workers, NEW r \in Runs, Claims(w, r), NEW v \in Workers
    PROVE  ~Attends(v, r)
BY DEF OnePass, Claims

\* Whoever is on a run after a step that claims none was on it before.
LEMMA AttendedBefore ==
    ASSUME IInv, MoneyStep, ~\E w \in Workers, r \in Runs : Claims(w, r),
           NEW w \in Workers, NEW r \in Runs, task'[w].kind = "dispatch", task'[w].run = r
    PROVE  Attends(w, r)
<1>1. task'[w] = task[w] => Attends(w, r)
  BY DEF Attends
<1>2. ASSUME NEW v \in Workers, NEW p \in Payments, Gates(v, p) PROVE Attends(w, r)
  BY <1>1, <1>2 DEF Gates, Others, Attends
<1>3. ASSUME NEW v \in Workers, NEW p \in Payments, Decides(v, p) PROVE Attends(w, r)
  BY <1>1, <1>3 DEF Decides, Others, Attends
<1>4. ASSUME NEW v \in Workers, NEW p \in Payments, Takes(v, p) PROVE Attends(w, r)
  BY <1>1, <1>4 DEF Takes, Others
<1>5. ASSUME NEW v \in Workers, NEW p \in Payments, Commits(v, p) PROVE Attends(w, r)
  BY <1>1, <1>5 DEF Commits, Others, Attends
<1>6. ASSUME NEW v \in Workers, Rolls(v) PROVE Attends(w, r)
  BY <1>1, <1>6 DEF Rolls, Others, Attends
<1>7. ASSUME NEW v \in Workers, Passes(v) PROVE Attends(w, r)
  BY <1>1, <1>7 DEF Passes, Others, Attends
<1> QED BY <1>1, <1>2, <1>3, <1>4, <1>5, <1>6, <1>7
        DEF MoneyStep, Books, Cancels, Records, GivesUp, Pays, Answers, Pushes, Polls, Judges, Quiet

\* A pass that ends a claim has no row left.
LEMMA ClaimEndsBare ==
    ASSUME IInv, MoneyStep, ~\E w \in Workers, r \in Runs : Claims(w, r), run' # run,
           NEW w \in Workers, task[w].kind = "dispatch", task'[w] = Idle
    PROVE  task[w].at = NoPayment /\ task[w].todo = {}
<1>1. task[w] # Idle /\ Idle.kind = "idle"
  BY IdleFields
<1>2. ASSUME NEW v \in Workers, NEW p \in Payments, Commits(v, p) PROVE FALSE
  BY <1>1, <1>2 DEF Commits, Others
<1>3. ASSUME NEW v \in Workers, Passes(v) PROVE task[w].at = NoPayment /\ task[w].todo = {}
  BY <1>1, <1>3, IdleFields DEF Passes, Others
<1>4. task' # task
  BY <1>1
<1>5. ASSUME NEW v \in Workers, NEW p \in Payments, Gates(v, p) \/ Decides(v, p) \/ Takes(v, p)
      PROVE  FALSE
  BY <1>5 DEF Gates, Decides, Takes
<1> QED BY <1>2, <1>3, <1>4, <1>5
        DEF MoneyStep, Books, Cancels, Rolls, Records, GivesUp, Pays, Answers, Pushes, Polls, Judges,
            Quiet

LEMMA OnePassKept ==
    ASSUME IInv, Step, MoneyStep, [Next]_vars, UnsentRows, OnePass, Unrolled,
           "early_resume" \notin Mishaps
    PROVE  OnePass'
<1>1. ASSUME NEW w \in Workers, NEW r \in Runs, task'[w].kind = "dispatch", task'[w].run = r
      PROVE  /\ run'[r].status = "executing"
             /\ \A v \in Workers : task'[v].kind = "dispatch" /\ task'[v].run = r => v = w
  <2>1. ASSUME NEW x \in Workers, NEW q \in Runs, Claims(x, q)
        PROVE  /\ run'[r].status = "executing"
               /\ \A v \in Workers : task'[v].kind = "dispatch" /\ task'[v].run = r => v = w
    <3>1. /\ task'[x].run = q /\ run'[q].status = "executing"
          /\ \A v \in Workers \ {x} : task'[v] = task[v]
          /\ \A v \in Workers : ~Attends(v, q)
          /\ r # q => run'[r].status = run[r].status
      BY <2>1, ClaimedAlone DEF Claims, Starts, Others
    <3>2. CASE r = q
      BY <1>1, <3>1, <3>2 DEF Attends
    <3>3. CASE r # q
      BY <1>1, <3>1, <3>3 DEF OnePass, Attends
    <3> QED BY <3>2, <3>3
  <2>2. CASE ~\E x \in Workers, q \in Runs : Claims(x, q)
    <3>1. \A v \in Workers : task'[v].kind = "dispatch" /\ task'[v].run = r => Attends(v, r)
      BY <2>2, AttendedBefore
    <3>2. Attends(w, r) /\ \A v \in Workers : Attends(v, r) => v = w
      BY <1>1, <3>1 DEF OnePass
    <3>3. ASSUME run'[r].status # "executing" PROVE FALSE
      <4>1. PICK v \in Workers : Attends(v, r) /\ task'[v] = Idle
        BY <3>2, <3>3, ClaimStep DEF OnePass
      <4> QED BY <1>1, <3>2, <4>1, IdleFields
    <3> QED BY <3>1, <3>2, <3>3
  <2> QED BY <2>1, <2>2
<1>2. ASSUME NEW p \in Payments, pay'[p].status = "pending", pay'[p].run # NoRun,
             run'[pay'[p].run].status \notin {"none", "draft", "cancelled"}
      PROVE  /\ run'[pay'[p].run].status = "executing"
             /\ \A w \in Workers : task'[w].kind = "dispatch" /\ task'[w].run = pay'[p].run =>
                  p \in task'[w].todo \/ task'[w].at = p
  <2>1. ASSUME NEW x \in Workers, NEW q \in Runs, Claims(x, q)
        PROVE  /\ run'[pay'[p].run].status = "executing"
               /\ \A w \in Workers : task'[w].kind = "dispatch" /\ task'[w].run = pay'[p].run =>
                    p \in task'[w].todo \/ task'[w].at = p
    <3>1. /\ task'[x].run = q /\ task'[x].kind = "dispatch" /\ run'[q].status = "executing"
          /\ task'[x].todo = {y \in Payments : pay'[y].run = q /\ pay'[y].status = "pending"}
          /\ \A v \in Workers \ {x} : task'[v] = task[v]
      BY <2>1 DEF Claims, Starts, Others
    <3>2. CASE pay'[p].run = q
      <4>1. \A w \in Workers : task'[w].kind = "dispatch" /\ task'[w].run = q => w = x
        BY <1>1, <3>1
      <4> QED BY <1>2, <3>1, <3>2, <4>1
    <3>3. CASE pay'[p].run # q
      <4>1. pay'[p] = pay[p] /\ pay[p].run \in Runs
        <5>1. pay'[p] = pay[p]
          BY <2>1, <3>3 DEF Claims, NewRows
        <5> QED BY <1>2, <5>1 DEF IInv, TypeOK, Row
      <4>2. run'[pay[p].run].status = run[pay[p].run].status
        BY <2>1, <3>3, <4>1 DEF Claims
      <4>3. /\ run[pay[p].run].status = "executing"
            /\ \A w \in Workers : Attends(w, pay[p].run) => p \in task[w].todo \/ task[w].at = p
        BY <1>2, <4>1, <4>2 DEF OnePass, Dispatched
      <4> QED BY <3>1, <3>3, <4>1, <4>2, <4>3 DEF Attends
    <3> QED BY <3>2, <3>3
  <2>2. CASE ~\E x \in Workers, q \in Runs : Claims(x, q)
    <3> DEFINE r == pay[p].run
    <3>1. pay[p].status = "pending" /\ pay'[p].run = r /\ r \in Runs /\ Dispatched(r)
      BY <1>2, <2>2, PendingBefore
    <3>2. /\ run[r].status = "executing" /\ r # NoRun
          /\ \A w \in Workers : Attends(w, r) => p \in task[w].todo \/ task[w].at = p
      BY <3>1, PaymentRunsAssumption DEF OnePass
    <3> HIDE DEF r
    <3>3. ASSUME run'[r].status # "executing" PROVE FALSE
      <4>1. PICK v \in Workers : Attends(v, r) /\ task'[v] = Idle
        BY <3>1, <3>2, <3>3, ClaimStep
      <4>2. task[v].at = NoPayment /\ task[v].todo = {}
        BY <2>2, <3>2, <3>3, <4>1, ClaimEndsBare DEF Attends
      <4> QED BY <3>2, <4>1, <4>2, PaymentRunsAssumption
    <3>4. ASSUME NEW w \in Workers, task'[w].kind = "dispatch", task'[w].run = r
          PROVE  p \in task'[w].todo \/ task'[w].at = p
      <4>1. Attends(w, r)
        BY <2>2, <3>1, <3>4, AttendedBefore
      <4> QED BY <1>2, <2>2, <3>1, <3>2, <3>4, <4>1, PassKeepsRow DEF Attends
    <3> QED BY <3>1, <3>3, <3>4
  <2> QED BY <2>1, <2>2
<1> QED BY <1>1, <1>2 DEF OnePass, Attends, Dispatched

\* Crashes strand nothing either, as long as /resume is called for runs whose
\* dispatcher is gone and no stale rollup ends a claim: the run stays executing,
\* and whoever resumes it takes its pending rows.
THEOREM CrashesStrandNobody ==
    ASSUME {"early_resume", "stale_rollup"} \cap Mishaps = {} PROVE Spec => []NoStrandedRow
<1> DEFINE Inv == MoneyInv /\ Unrolled /\ OnePass
<1>1. Init => Inv
  <2> SUFFICES ASSUME Init PROVE Inv
    OBVIOUS
  <2>1. /\ \A w \in Workers : task[w] = Idle
        /\ \A p \in Payments : pay[p].status = "none"
    BY NoRowFields DEF Init
  <2>2. Unrolled /\ OnePass
    BY <2>1, IdleFields DEF Unrolled, OnePass, Attends
  <2> QED BY <2>2, MoneyInit
<1>2. Inv /\ [Next]_vars => Inv'
  <2> SUFFICES ASSUME Inv, [Next]_vars PROVE Inv'
    OBVIOUS
  <2>1. IInv /\ Step /\ MoneyStep
    BY NextStep, StepMoves DEF MoneyInv
  <2> QED BY <2>1, MoneyStepKept, UnrolledKept, OnePassKept DEF MoneyInv
<1>3. Inv => NoStrandedRow
  <2> SUFFICES ASSUME Inv, NEW p \in Payments, pay[p].status = "pending", pay[p].run # NoRun
               PROVE  run[pay[p].run].status \in {"draft", "executing"}
    BY DEF NoStrandedRow
  <2>1. run[pay[p].run].status # "none"
    BY DEF MoneyInv, IInv, RowsAgree
  <2>2. run[pay[p].run].status # "cancelled"
    BY DEF MoneyInv, UnsentRows
  <2> QED BY <2>1, <2>2 DEF OnePass, Dispatched
<1> QED BY <1>1, <1>2, <1>3, PTL DEF Spec

\* Where the ERP push leaves invoices alone, whoever is about to send for an
\* invoice it saw unscheduled still finds it so.
QueueStatuses == {"approved", "payment_scheduled", "paid"}

Finds(t) ==
    t.at # NoPayment /\ t.kind # "void" /\ t.seen \in SCHEDULABLE
        /\ (t.stage = "gated" \/ (Decided(t) /\ t.new.status \in {"submitted", "completed"}))
    => invoice[pay[t.at].inv] = t.seen

Scheduled ==
    /\ \A i \in Invoices : invoice[i] \in QueueStatuses
    /\ \A w \in Workers : Finds(task[w])

LEMMA InvoiceMoves ==
    ASSUME IInv, MoneyStep, Scheduled, "erp_push" \notin Mishaps, NEW i \in Invoices,
           invoice'[i] # invoice[i]
    PROVE  /\ <<invoice[i], invoice'[i]>> \in VALID_TRANSITIONS /\ invoice'[i] \in QueueStatuses
           /\ \A w \in Workers : task'[w] = task[w] /\ task[w].at # NoPayment
                                    /\ pay[task[w].at].inv = i =>
                invoice[i] = "payment_scheduled"
<1>1. invoice[i] \in QueueStatuses
  BY DEF Scheduled
<1>2. ASSUME invoice[i] = "payment_scheduled", invoice'[i] = "paid"
      PROVE  <<invoice[i], invoice'[i]>> \in VALID_TRANSITIONS /\ invoice'[i] \in QueueStatuses
  BY <1>2 DEF VALID_TRANSITIONS, QueueStatuses
<1>3. CASE \E p \in Payments : Pays(p)
  <2>1. invoice[i] = "payment_scheduled" /\ invoice'[i] = "paid"
    BY <1>3 DEF Pays, IInv, TypeOK
  <2> QED BY <1>2, <2>1
<1>4. CASE \E w \in Workers : Passes(w)
  <2>1. invoice[i] = "payment_scheduled" /\ invoice'[i] = "paid"
    BY <1>4 DEF Passes
  <2> QED BY <1>2, <2>1
<1>5. ASSUME NEW w \in Workers, NEW p \in Payments, Commits(w, p)
      PROVE  /\ <<invoice[i], invoice'[i]>> \in VALID_TRANSITIONS /\ invoice'[i] \in QueueStatuses
             /\ \A v \in Workers : task'[v] = task[v] /\ task[v].at # NoPayment =>
                  pay[task[v].at].inv # i
  <2> DEFINE t == task[w]
  <2>1. /\ t.at = p /\ Decided(t) /\ Live(p) /\ Holding(t) /\ Finds(t) /\ p # NoPayment
        /\ t.new.inv = pay[p].inv
    BY <1>5, PaymentRunsAssumption DEF Commits, IInv, Locks, Holding, Decided, Scheduled
  <2>2. i = pay[p].inv /\ invoice'[i] = InvoiceWrite(t)
    BY <1>5 DEF Commits, IInv, TypeOK
  <2>3. \/ /\ t.kind \in {"dispatch", "release"} /\ t.new.status \in {"submitted", "completed"}
           /\ t.seen \in SCHEDULABLE /\ invoice'[i] = "payment_scheduled"
        \/ invoice'[i] = "approved"
    BY <2>1, <2>2 DEF InvoiceWrite
  <2>4. <<invoice[i], invoice'[i]>> \in VALID_TRANSITIONS /\ invoice'[i] \in QueueStatuses
    BY <1>1, <2>1, <2>2, <2>3 DEF Finds, VALID_TRANSITIONS, QueueStatuses, SCHEDULABLE
  <2>5. ASSUME NEW v \in Workers, task'[v] = task[v], task[v].at # NoPayment
        PROVE  pay[task[v].at].inv # i
    <3>1. v # w
      BY <1>5, <2>1, <2>5 DEF Commits
    <3>2. task[v].at # p /\ Live(task[v].at) /\ task[v].at \in Payments
      BY <2>1, <2>5, <3>1 DEF IInv, TypeOK, Task, Locks, Holding
    <3> QED BY <2>1, <2>2, <3>2 DEF IInv, OneLivePayment
  <2> QED BY <2>4, <2>5
<1>6. invoice' # invoice
  OBVIOUS
<1>7. \/ \E p \in Payments : Pays(p)
      \/ \E w \in Workers : Passes(w)
      \/ \E w \in Workers, p \in Payments : Commits(w, p)
  BY <1>6 DEF MoneyStep, Books, Cancels, Claims, Gates, Decides, Takes, Rolls, Records, GivesUp,
              Answers, Pushes, Polls, Judges, Quiet
<1>8. CASE \E w \in Workers, p \in Payments : Commits(w, p)
  BY <1>5, <1>8
<1> QED BY <1>3, <1>4, <1>7, <1>8

LEMMA ScheduledKept ==
    ASSUME IInv, MoneyStep, Scheduled, "erp_push" \notin Mishaps PROVE Scheduled'
<1>1. \A i \in Invoices : invoice'[i] \in QueueStatuses
  BY InvoiceMoves DEF Scheduled
<1>2. ASSUME NEW w \in Workers PROVE Finds(task[w])'
  <2> DEFINE t == task[w]
             a == t.at
  <2>1. /\ Finds(t) /\ Holding(t)
        /\ a # NoPayment => a \in Payments /\ pay[a].inv \in Invoices
    BY DEF Scheduled, IInv, TypeOK, Task, Locks, Holding, Live, LiveStatuses, RowsAgree
  <2>2. CASE task'[w] = t
    <3>1. a # NoPayment => pay'[a] = pay[a]
      BY <2>2, HeldRows
    <3>2. a # NoPayment =>
            invoice'[pay[a].inv] = invoice[pay[a].inv] \/ invoice[pay[a].inv] = "payment_scheduled"
      BY <2>1, <2>2, InvoiceMoves
    <3> QED BY <2>1, <2>2, <3>1, <3>2 DEF Finds, Decided, SCHEDULABLE
  <2>3. CASE task'[w].at = NoPayment
    BY <2>3 DEF Finds
  <2>4. ASSUME NEW v \in Workers, NEW p \in Payments, Gates(v, p) PROVE Finds(task[w])'
    <3>1. pay[p] \in Row
      BY DEF IInv, TypeOK
    <3>2. Refused(pay[p]).status = "failed"
      BY <3>1 DEF Refused, Row
    <3> QED BY <2>2, <2>4, <3>2 DEF Gates, Others, Finds, Decided
  <2>5. ASSUME NEW v \in Workers, NEW p \in Payments, Decides(v, p) PROVE Finds(task[w])'
    BY <2>1, <2>2, <2>5 DEF Decides, Others, Finds
  <2>6. ASSUME NEW v \in Workers, NEW p \in Payments, Takes(v, p) PROVE Finds(task[w])'
    BY <2>2, <2>6 DEF Takes, Others, Finds, Decided
  <2>7. ASSUME NEW v \in Workers, Rolls(v) PROVE Finds(task[w])'
    <3>1. CASE v = w
      <4>1. /\ task'[w].kind = t.kind /\ task'[w].at = a /\ task'[w].seen = t.seen
            /\ task'[w].new = t.new /\ Decided(t) /\ task'[w].stage # "gated"
            /\ pay' = pay /\ invoice' = invoice
        BY <2>7, <3>1 DEF Rolls, Decided
      <4> QED BY <2>1, <4>1 DEF Finds
    <3> QED BY <2>2, <2>7, <3>1 DEF Rolls, Others
  <2>8. ASSUME NEW v \in Workers, NEW p \in Payments, Commits(v, p) PROVE Finds(task[w])'
    BY <2>2, <2>3, <2>8 DEF Commits, Others
  <2>9. ASSUME NEW v \in Workers, Passes(v) PROVE Finds(task[w])'
    BY <2>2, <2>3, <2>9 DEF Passes, Others
  <2>10. ASSUME NEW v \in Workers, NEW r \in Runs, Claims(v, r) PROVE Finds(task[w])'
    BY <2>2, <2>3, <2>10 DEF Claims, Starts, Others
  <2> QED BY <2>2, <2>4, <2>5, <2>6, <2>7, <2>8, <2>9, <2>10
          DEF MoneyStep, Books, Cancels, Records, GivesUp, Pays, Answers, Pushes, Polls, Judges,
              Quiet
<1> QED BY <1>1, <1>2 DEF Scheduled

\* Where no ERP push moves an invoice between a gate and its commit, every
\* status an invoice takes in the database is a legal successor.
THEOREM WorkflowKept ==
    ASSUME "erp_push" \notin Mishaps PROVE Spec => WorkflowRespected
<1> DEFINE Inv == IInv /\ Scheduled
           Legal == \A i \in Invoices : invoice'[i] # invoice[i] =>
                       <<invoice[i], invoice'[i]>> \in VALID_TRANSITIONS
<1>1. Init => Inv
  <2> SUFFICES ASSUME Init PROVE Inv
    OBVIOUS
  <2>1. Scheduled
    BY IdleFields DEF Init, Scheduled, Finds, QueueStatuses
  <2> QED BY <2>1, InductiveInit
<1>2. Inv /\ [Next]_vars => Inv'
  BY InductiveStep, StepMoves, ScheduledKept
<1>3. Inv /\ [Next]_vars => [Legal]_vars
  BY StepMoves, InvoiceMoves
<1> QED BY <1>1, <1>2, <1>3, PTL DEF Spec, WorkflowRespected

-----------------------------------------------------------------------------
(* The payments core implements InvoiceSlot.                               *)

\* The slot of an invoice shows its live row, and is empty where there is none.
LEMMA SlotHeld ==
    ASSUME OneLivePayment, NEW i \in Invoices, NEW p \in Payments, pay[p].inv = i, Live(p)
    PROVE  SlotOf(i) = [attempt |-> p, phase |-> PhaseOf(pay[p].status)]
<1>1. Occupied(i)
  BY DEF Occupied
<1>2. (CHOOSE q \in Payments : pay[q].inv = i /\ Live(q)) = p
  BY DEF OneLivePayment
<1> QED BY <1>1, <1>2 DEF SlotOf

LEMMA SlotEmpty ==
    ASSUME NEW i \in Invoices, ~Occupied(i) PROVE SlotOf(i) = [attempt |-> NoPayment, phase |-> "booked"]
BY DEF SlotOf

\* The same of the state after a step.
LEMMA SlotHeldNext ==
    ASSUME OneLivePayment', NEW i \in Invoices, NEW p \in Payments, pay'[p].inv = i, Live(p)'
    PROVE  SlotOf(i)' = [attempt |-> p, phase |-> PhaseOf(pay'[p].status)]
<1>1. Occupied(i)'
  BY DEF Occupied
<1>2. (CHOOSE q \in Payments : pay'[q].inv = i /\ pay'[q].status \in LiveStatuses) = p
  BY DEF OneLivePayment, Live
<1> QED BY <1>1, <1>2 DEF SlotOf, Live

LEMMA SlotEmptyNext ==
    ASSUME NEW i \in Invoices, ~Occupied(i)'
    PROVE  SlotOf(i)' = [attempt |-> NoPayment, phase |-> "booked"]
BY DEF SlotOf

\* A row that is over stays so, and no row is over when it appears.
Over(p) == pay[p].status \in {"failed", "voided", "deleted"}

LEMMA OverKept ==
    ASSUME IInv, Step, NEW p \in Payments
    PROVE  /\ Over(p) => Over(p)'
           /\ Over(p)' => Over(p) \/ Live(p)
<1>1. CASE pay[p].status # "none"
  BY <1>1 DEF Step, RowStep, RowKept, PAYMENT_MOVES, Over, IInv, TypeOK, Row, PaymentStatuses, Live,
              LiveStatuses
<1>2. CASE pay[p].status = "none"
  <2>1. CASE pay'[p] = pay[p]
    BY <1>2, <2>1 DEF Over
  <2>2. CASE RowBooked(p)
    <3>1. PICK i, r, old : pay'[p] = NewRow(i, r, old)
      BY <2>2 DEF RowBooked
    <3>2. pay'[p].status = "pending"
      BY <3>1 DEF NewRow, NoRow
    <3> QED BY <1>2, <3>2 DEF Over
  <2> QED BY <1>2, <2>1, <2>2 DEF Step, RowStep
<1> QED BY <1>1, <1>2

\* The live row of an invoice stays in its slot or ends there, and a slot is
\* taken by a row that was never seen.
LEMMA SlotStep ==
    ASSUME IInv, IInv', Step, MoneyStep, NEW i \in Invoices
    PROVE  \/ SlotOf(i)' = SlotOf(i)
           \/ Slots!Book(i)
           \/ Slots!Advance(i)
           \/ Slots!Close(i)
<1> DEFINE empty == [attempt |-> NoPayment, phase |-> "booked"]
<1>1. OneLivePayment /\ OneLivePayment'
  BY DEF IInv
<1>2. CASE Occupied(i)
  <2>1. PICK p \in Payments : pay[p].inv = i /\ Live(p)
    BY <1>2 DEF Occupied
  <2>2. SlotOf(i) = [attempt |-> p, phase |-> PhaseOf(pay[p].status)] /\ SlotOf(i) # empty
    BY <1>1, <2>1, SlotHeld, PaymentRunsAssumption
  <2>3. /\ pay'[p].inv = i
        /\ pay'[p].status = pay[p].status \/ <<pay[p].status, pay'[p].status>> \in PAYMENT_MOVES
    BY <2>1 DEF Step, RowStep, RowKept, Live, LiveStatuses
  <2>4. CASE Live(p)'
    <3>1. SlotOf(i)' = [attempt |-> p, phase |-> PhaseOf(pay'[p].status)]
      BY <1>1, <2>3, <2>4, SlotHeldNext
    <3>2. \/ PhaseOf(pay'[p].status) = PhaseOf(pay[p].status)
          \/ Slots!Rank(PhaseOf(pay'[p].status)) > Slots!Rank(PhaseOf(pay[p].status))
      BY <2>1, <2>3, <2>4 DEF Live, LiveStatuses, PAYMENT_MOVES, PhaseOf, Slots!Rank
    <3> QED BY <2>2, <3>1, <3>2 DEF Slots!Advance, Slots!EmptySlot
  <2>5. CASE ~Live(p)'
    <3>1. ASSUME NEW q \in Payments, pay'[q].inv = i, Live(q)' PROVE FALSE
      <4>1. Live(q) /\ pay[q].inv = i
        BY <1>2, <3>1, LiveKept
      <4> QED BY <1>1, <2>1, <2>5, <3>1, <4>1 DEF OneLivePayment
    <3>2. ~Occupied(i)'
      BY <3>1 DEF Occupied
    <3> QED BY <2>2, <3>2, SlotEmptyNext DEF Slots!Close, Slots!EmptySlot
  <2> QED BY <2>4, <2>5
<1>3. CASE ~Occupied(i)
  <2>1. SlotOf(i) = empty
    BY <1>3, SlotEmpty
  <2>2. CASE ~Occupied(i)'
    BY <2>1, <2>2, SlotEmptyNext
  <2>3. CASE Occupied(i)'
    <3>1. PICK p \in Payments : pay'[p].inv = i /\ Live(p)'
      BY <2>3 DEF Occupied
    <3>2. pay[p].status = "none"
      BY <1>3, <3>1, LiveKept DEF Occupied
    <3>3. pay'[p].status = "pending"
      BY <3>1, <3>2, Booked DEF Books, Claims, NewRows, Live, LiveStatuses
    <3>4. SlotOf(i)' = [attempt |-> p, phase |-> "booked"]
      BY <1>1, <3>1, <3>3, SlotHeldNext DEF PhaseOf
    <3>5. ASSUME NEW j \in Invoices PROVE SlotOf(j).attempt # p
      <4>1. CASE Occupied(j)
        <5>1. PICK q \in Payments : pay[q].inv = j /\ Live(q)
          BY <4>1 DEF Occupied
        <5> QED BY <1>1, <3>2, <5>1, SlotHeld DEF Live, LiveStatuses
      <4>2. CASE ~Occupied(j)
        BY <4>2, SlotEmpty, PaymentRunsAssumption
      <4> QED BY <4>1, <4>2
    <3>6. ASSUME NEW j \in Invoices \ {i} PROVE SlotOf(j)'.attempt # p
      <4>1. CASE Occupied(j)'
        <5>1. PICK q \in Payments : pay'[q].inv = j /\ Live(q)'
          BY <4>1 DEF Occupied
        <5> QED BY <1>1, <3>1, <5>1, SlotHeldNext
      <4>2. CASE ~Occupied(j)'
        BY <4>2, SlotEmptyNext, PaymentRunsAssumption
      <4> QED BY <4>1, <4>2
    <3>7. Slots!Book(i)
      BY <2>1, <3>2, <3>4, <3>5, <3>6 DEF Slots!Book, Slots!Fresh, Slots!EmptySlot
    <3> QED BY <3>7
  <2> QED BY <2>2, <2>3
<1> QED BY <1>2, <1>3

\* What is over afterwards was over or has just left its slot.
LEMMA ClosedStep ==
    ASSUME IInv, IInv', Step, MoneyStep
    PROVE  {p \in Payments : Over(p)}' =
             {p \in Payments : Over(p)}
                \cup {SlotOf(i).attempt : i \in {j \in Invoices : Slots!Close(j)}}
<1> DEFINE empty == [attempt |-> NoPayment, phase |-> "booked"]
<1>0. OneLivePayment /\ OneLivePayment'
  BY DEF IInv
<1>1. ASSUME NEW p \in Payments, Over(p)', ~Over(p)
      PROVE  \E i \in Invoices : Slots!Close(i) /\ SlotOf(i).attempt = p
  <2>1. Live(p) /\ ~Live(p)'
    BY <1>1, OverKept DEF Over, Live, LiveStatuses
  <2>2. PICK i \in Invoices : pay[p].inv = i
    BY <2>1 DEF IInv, RowsAgree, Live, LiveStatuses
  <2>3. SlotOf(i) = [attempt |-> p, phase |-> PhaseOf(pay[p].status)]
    BY <1>0, <2>1, <2>2, SlotHeld
  <2>4. Occupied(i)
    BY <2>1, <2>2 DEF Occupied
  <2>5. ASSUME NEW q \in Payments, pay'[q].inv = i, Live(q)' PROVE FALSE
    <3>1. Live(q) /\ pay[q].inv = i
      BY <2>4, <2>5, LiveKept
    <3> QED BY <1>0, <2>1, <2>2, <2>5, <3>1 DEF OneLivePayment
  <2>6. ~Occupied(i)'
    BY <2>5 DEF Occupied
  <2>7. SlotOf(i)' = empty
    BY <2>6, SlotEmptyNext
  <2>8. Slots!Close(i)
    BY <2>3, <2>7, PaymentRunsAssumption DEF Slots!Close, Slots!EmptySlot
  <2> QED BY <2>3, <2>8
<1>2. ASSUME NEW i \in Invoices, Slots!Close(i)
      PROVE  \E p \in Payments : SlotOf(i).attempt = p /\ Over(p)'
  <2>1. SlotOf(i) # empty /\ SlotOf(i)' = empty
    BY <1>2 DEF Slots!Close, Slots!EmptySlot
  <2>2. Occupied(i)
    BY <2>1, SlotEmpty
  <2>3. PICK p \in Payments : pay[p].inv = i /\ Live(p)
    BY <2>2 DEF Occupied
  <2>4. SlotOf(i).attempt = p
    BY <1>0, <2>3, SlotHeld
  <2>5. pay'[p].inv = i /\ pay'[p].status # "none"
    BY <2>3 DEF Step, RowStep, RowKept, Live, LiveStatuses
  <2>6. ~Live(p)'
    BY <1>0, <2>1, <2>5, SlotHeldNext, PaymentRunsAssumption
  <2>7. pay'[p].status \in PaymentStatuses
    BY DEF IInv, TypeOK, Row
  <2>8. Over(p)'
    BY <2>5, <2>6, <2>7 DEF Over, Live, LiveStatuses, PaymentStatuses
  <2> QED BY <2>3, <2>4, <2>8
<1>3. \A p \in Payments : Over(p) => Over(p)'
  BY OverKept
<1> QED BY <1>1, <1>2, <1>3

\* No handler, in any order and through every mishap, reopens an attempt, gives
\* an invoice two, or takes a sent one back: the payments core implements the
\* abstract slot of InvoiceSlot.
THEOREM Refinement == Spec => OneAttemptAtATime
<1>1. Init => Slots!SlotInit
  <2> SUFFICES ASSUME Init PROVE Slots!SlotInit
    OBVIOUS
  <2>1. \A p \in Payments : pay[p].status = "none"
    BY NoRowFields DEF Init
  <2>2. \A i \in Invoices : SlotOf(i) = [attempt |-> NoPayment, phase |-> "booked"]
    BY <2>1, SlotEmpty DEF Occupied, Live, LiveStatuses
  <2> QED BY <2>1, <2>2 DEF Slots!SlotInit, Slots!EmptySlot
<1>2. IInv /\ IInv' /\ [Next]_vars => Slots!SlotNext
  <2> SUFFICES ASSUME IInv, IInv', [Next]_vars PROVE Slots!SlotNext
    OBVIOUS
  <2>1. Step /\ MoneyStep
    BY NextStep, StepMoves
  <2>2. \A i \in Invoices :
           \/ SlotOf(i)' = SlotOf(i)
           \/ Slots!Book(i)
           \/ Slots!Advance(i)
           \/ Slots!Close(i)
    BY <2>1, SlotStep
  <2>3. {p \in Payments : Over(p)}' =
           {p \in Payments : Over(p)}
              \cup {SlotOf(i).attempt : i \in {j \in Invoices : Slots!Close(j)}}
    BY <2>1, ClosedStep
  <2> QED BY <2>2, <2>3 DEF Slots!SlotNext, Over
<1> QED BY <1>1, <1>2, Invariance, PTL DEF Spec, OneAttemptAtATime, Slots!SlotSpec
=============================================================================
