-------------------------- MODULE ScheduledReports --------------------------
(***************************************************************************)
(* The scheduled reports of one tenant: a loop that lists what is due,     *)
(* mails it and writes the outcome down, and the operator who edits the    *)
(* same rows.  The loop takes no lock, and what it writes about a schedule *)
(* it works out from the copy it listed.  Time is counted in ticks.        *)
(***************************************************************************)
EXTENDS Integers, Sequences, FiniteSets

CONSTANTS Schedules,    \* rows of scheduled_reports
          Recipients,   \* the addresses of each
          Poisoned,     \* schedules whose report raises a database error
          Mailers,      \* processes that run the loop
          CADENCE,      \* ticks between two slots
          MAX_STRIKES,  \* cap, in _mark_failure
          LAST_TICK,    \* bound on the time
          MAX_UPSETS    \* bound on the operator's requests and on lost ticks

ASSUME ScheduledReportsAssumption ==
  /\ IsFiniteSet(Schedules) /\ Poisoned \subseteq Schedules
  /\ CADENCE \in Nat \ {0} /\ MAX_STRIKES \in Nat \ {0}
  /\ LAST_TICK \in Nat /\ MAX_UPSETS \in Nat

VARIABLES reports,  \* the rows
          clock,    \* datetime.now
          mailing,  \* mailer -> when its tick began, the rows it still has to finish,
                    \* whether the first of them is mailed, and whom that reached
          editing,  \* the operator's request: the row it read, the row it wants
          upsets,   \* how many requests and losses there have been
          misses,   \* history: runs in a row that reached nobody
          had       \* history: who holds the report of the slot that is due next

reportVars == <<reports, clock, mailing, editing, upsets, misses, had>>

Slots == 0 .. LAST_TICK + CADENCE

\* retry is the [retry N] that last_run_error carries beside a failure.
ReportRow == [enabled : BOOLEAN, next : Slots, retry : 0 .. MAX_STRIKES,
              last : {"none", "success", "partial", "failure"}]
Absent == [enabled |-> FALSE, next |-> 0, retry |-> 0, last |-> "absent"]
Created(slot) == [enabled |-> TRUE, next |-> slot, retry |-> 0, last |-> "none"]

NoTick == [since |-> 0, listed |-> <<>>, mailed |-> FALSE, reached |-> {}]
NoEdit == [of |-> {}]

ReportsInit ==
  /\ reports \in [Schedules -> {Absent, Created(0)}]
  /\ clock = 0
  /\ mailing = [m \in Mailers |-> NoTick]
  /\ editing = NoEdit
  /\ upsets = 0
  /\ misses = [x \in Schedules |-> 0]
  /\ had = [x \in Schedules |-> {}]

---------------------------------------------------------------------------
(* The loop. *)

ReportDue(x) == reports[x].enabled /\ reports[x].next <= clock

(* advance_next_run: the next slot of the grid that is after now. *)
advance_next_run(slot, now) ==
  LET step == slot + CADENCE
  IN IF step > now THEN step ELSE step + CADENCE * ((now - step) \div CADENCE + 1)

Consecutive(copy) == IF copy.last = "failure" THEN copy.retry + 1 ELSE 1

(* The columns _mark_failure writes, over the row as it is by now. *)
MarkedFailed(row, copy) ==
  LET n == Consecutive(copy)
  IN [row EXCEPT !.last = "failure",
                 !.retry = IF n > MAX_STRIKES THEN MAX_STRIKES ELSE n,
                 !.enabled = @ /\ n < MAX_STRIKES]

\* Mutation: the slot is kept until everybody has been reached.
MarkedRunIfComplete(row, copy, reached, now) ==
  [row EXCEPT !.last = IF reached = Recipients THEN "success" ELSE "partial",
              !.retry = 0,
              !.next = IF reached = Recipients THEN advance_next_run(copy.next, now) ELSE @]

MarkedRun(row, copy, reached, now) ==
  [row EXCEPT !.last = IF reached = Recipients THEN "success" ELSE "partial",
              !.retry = 0,
              !.next = advance_next_run(copy.next, now)]

(* The rows of a set in any order: the listing asks for none. *)
Listings(S) ==
  {q \in [1 .. Cardinality(S) -> {[of |-> x, row |-> reports[x]] : x \in S}] :
     \A x \in S : \E i \in DOMAIN q : q[i].of = x}

ListDue(m) ==
  LET due == {x \in Schedules : ReportDue(x)}
  IN /\ mailing[m] = NoTick
     /\ due # {}
     /\ \E q \in Listings(due) :
          mailing' = [mailing EXCEPT ![m] = [NoTick EXCEPT !.since = clock, !.listed = q]]
     /\ UNCHANGED <<reports, clock, editing, upsets, misses, had>>

InTurn(m, x) == mailing[m].listed # <<>> /\ Head(mailing[m].listed).of = x

(* The report is generated and each address is tried on its own.  A report *)
(* that cannot be generated reaches nobody.                                *)
RunSchedule(m, x) ==
  /\ InTurn(m, x) /\ ~mailing[m].mailed
  /\ x \notin Poisoned
  /\ \E reached \in SUBSET Recipients :
       /\ mailing' = [mailing EXCEPT ![m].mailed = TRUE, ![m].reached = reached]
       /\ had' = IF Head(mailing[m].listed).row.next = reports[x].next
                 THEN [had EXCEPT ![x] = @ \union reached] ELSE had
  /\ UNCHANGED <<reports, clock, editing, upsets, misses>>

NextInTick(m) ==
  LET tick == mailing[m]
      left == Tail(tick.listed)
  IN mailing' = [mailing EXCEPT ![m] =
       IF left = <<>> THEN NoTick
       ELSE [tick EXCEPT !.listed = left, !.mailed = FALSE, !.reached = {}]]

(* One UPDATE of the row, if it is still there, and its commit. *)
RecordRun(m, x) ==
  LET copy    == Head(mailing[m].listed).row
      reached == mailing[m].reached
      after   == IF reached = {} THEN MarkedFailed(reports[x], copy)
                 ELSE MarkedRun(reports[x], copy, reached, mailing[m].since)
  IN /\ InTurn(m, x) /\ mailing[m].mailed
     /\ reports' = IF reports[x] = Absent THEN reports ELSE [reports EXCEPT ![x] = after]
     /\ misses' = [misses EXCEPT ![x] =
          IF reached # {} THEN 0 ELSE IF @ < MAX_STRIKES THEN @ + 1 ELSE @]
     /\ had' = [had EXCEPT ![x] = IF reports'[x].next = reports[x].next THEN @ ELSE {}]
     /\ NextInTick(m)
     /\ UNCHANGED <<clock, editing, upsets>>

(* A database error while a report is generated aborts the transaction, so *)
(* the marker cannot be written either.  The handler rolls back, and the   *)
(* name it then logs is an attribute of a row the rollback has expired:    *)
(* that raises out of the loop over the schedules.                         *)
Unwinds(m, x) ==
  /\ InTurn(m, x) /\ x \in Poisoned
  /\ mailing' = [mailing EXCEPT ![m] = NoTick]
  /\ UNCHANGED <<reports, clock, editing, upsets, misses, had>>

(* The process dies, or the UPDATE fails: what was mailed is not recorded. *)
TickLost(m) ==
  /\ mailing[m] # NoTick /\ upsets < MAX_UPSETS
  /\ upsets' = upsets + 1
  /\ mailing' = [mailing EXCEPT ![m] = NoTick]
  /\ had' = IF mailing[m].mailed THEN [had EXCEPT ![Head(mailing[m].listed).of] = {}] ELSE had
  /\ UNCHANGED <<reports, clock, editing, misses>>

---------------------------------------------------------------------------
(* The operator. *)

UnderWay(x) == \E m \in Mailers : \E i \in DOMAIN mailing[m].listed : mailing[m].listed[i].of = x

CreateReport(x, slot) ==
  /\ reports[x] = Absent
  /\ ~UnderWay(x) /\ editing.of # {x}
  /\ reports' = [reports EXCEPT ![x] = Created(slot)]
  /\ misses' = [misses EXCEPT ![x] = 0]
  /\ had' = [had EXCEPT ![x] = {}]
  /\ UNCHANGED <<clock, mailing, editing, upsets>>

\* Mutation: enabling keeps the marker of the last failure.
EnabledAsIs(row) == [row EXCEPT !.enabled = TRUE]

(* Enabling clears the marker of a failure. *)
Enabled(row) == IF row.last = "failure"
                THEN [row EXCEPT !.enabled = TRUE, !.last = "none", !.retry = 0]
                ELSE [row EXCEPT !.enabled = TRUE]

(* What a patch makes of the row it has read; a deletion makes it absent.   *)
Edited(row) == {Enabled(row), [row EXCEPT !.enabled = FALSE], Absent}
                 \union {[row EXCEPT !.next = slot] : slot \in 0 .. LAST_TICK}

OpenEdit(x) ==
  /\ editing = NoEdit /\ upsets < MAX_UPSETS
  /\ reports[x] # Absent
  /\ \E wants \in Edited(reports[x]) :
       editing' = [of |-> {x}, saw |-> reports[x], wants |-> wants]
  /\ upsets' = upsets + 1
  /\ UNCHANGED <<reports, clock, mailing, misses, had>>

(* Only columns that differ from what was read are written, and none in a  *)
(* row that is gone.                                                       *)
CommitEdit(x) ==
  LET saw == editing.saw
      wants == editing.wants
  IN /\ editing.of = {x}
     /\ reports[x] # Absent
     /\ reports' = [reports EXCEPT ![x] =
          IF wants = Absent THEN Absent
          ELSE [f \in DOMAIN @ |-> IF wants[f] = saw[f] THEN @[f] ELSE wants[f]]]
     /\ misses' = [misses EXCEPT ![x] =
          IF /\ ~UnderWay(x) /\ reports[x] = saw
             /\ wants.last # saw.last \/ wants.enabled # saw.enabled
          THEN 0 ELSE @]
     /\ had' = [had EXCEPT ![x] = IF reports'[x].next = reports[x].next THEN @ ELSE {}]
     /\ editing' = NoEdit
     /\ UNCHANGED <<clock, mailing, upsets>>

EditFails == /\ editing # NoEdit
             /\ editing' = NoEdit
             /\ UNCHANGED <<reports, clock, mailing, upsets, misses, had>>

TimePasses == /\ clock < LAST_TICK
              /\ clock' = clock + 1
              /\ UNCHANGED <<reports, mailing, editing, upsets, misses, had>>

ReportsNext ==
  \/ \E m \in Mailers :
       \/ ListDue(m)
       \/ \E x \in Schedules : RunSchedule(m, x) \/ RecordRun(m, x) \/ Unwinds(m, x)
       \/ TickLost(m)
  \/ \E x \in Schedules : \/ \E slot \in 0 .. LAST_TICK : CreateReport(x, slot)
                          \/ OpenEdit(x) \/ CommitEdit(x)
  \/ EditFails
  \/ TimePasses

(* lifespan starts the loop, and run_sweep_loop goes on after a bad tick.   *)
ReportsFairness ==
  \A m \in Mailers :
    /\ WF_reportVars(ListDue(m))
    /\ WF_reportVars(\E x \in Schedules : RunSchedule(m, x) \/ RecordRun(m, x) \/ Unwinds(m, x))

ReportsSpec == ReportsInit /\ [][ReportsNext]_reportVars /\ ReportsFairness
---------------------------------------------------------------------------
(* Rows and ticks as the histories and the loop need them, whatever the      *)
(* slot; the bounds of slots and times come with the type invariant.         *)
LoopRow == [enabled : BOOLEAN, next : Nat, retry : 0 .. MAX_STRIKES,
            last : {"none", "success", "partial", "failure"}]
Entry == [of : Schedules, row : LoopRow]
Tick == [since : Nat, listed : Seq(Entry), mailed : BOOLEAN, reached : SUBSET Recipients]
PendingEdit ==
  {e \in [of : {{x} : x \in Schedules}, saw : LoopRow, wants : LoopRow \union {Absent}] :
     e.wants \in Edited(e.saw)}

ReportRecords ==
  /\ reports \in [Schedules -> LoopRow \union {Absent}]
  /\ clock \in Nat
  /\ mailing \in [Mailers -> Tick]
  /\ editing \in PendingEdit \union {NoEdit}
  /\ misses \in [Schedules -> 0 .. MAX_STRIKES]
  /\ had \in [Schedules -> SUBSET Recipients]

(* The rows, what the loop holds, the request and the histories are of      *)
(* their kinds, within the bounds.                                          *)
ReportsTypeOK ==
  /\ ReportRecords
  /\ \A x \in Schedules : reports[x].next \in Slots
  /\ clock \in 0 .. LAST_TICK
  /\ \A m \in Mailers :
       /\ mailing[m].since \in 0 .. LAST_TICK
       /\ \A i \in DOMAIN mailing[m].listed : mailing[m].listed[i].row \in ReportRow
  /\ upsets \in 0 .. MAX_UPSETS

(* A tick lists a schedule once, and what it has mailed is no report that    *)
(* raises.                                                                   *)
ListedOnce ==
  \A m \in Mailers : LET listed == mailing[m].listed IN
    /\ \A i, j \in DOMAIN listed : listed[i].of = listed[j].of => i = j
    /\ mailing[m].mailed => listed # <<>> /\ Head(listed).of \notin Poisoned

(* Nobody has the report of a slot that a tick has still to mail, and who    *)
(* has one of an existing schedule got it from the run that is not yet       *)
(* recorded.                                                                 *)
NotYetSent ==
  \A m \in Mailers : \A i \in DOMAIN mailing[m].listed :
    i > 1 \/ ~mailing[m].mailed => had[mailing[m].listed[i].of] = {}
SentByTheRun ==
  \A x \in Schedules : had[x] = {} \/ reports[x] = Absent \/
    \E m \in Mailers : /\ InTurn(m, x) /\ mailing[m].mailed
                      /\ had[x] \subseteq mailing[m].reached
                      /\ Head(mailing[m].listed).row.next = reports[x].next

(* A retry marker counts runs that reached nobody: in a copy that the loop   *)
(* listed always, in a row unless it was disabled since and is at rest.      *)
CopiesCounted ==
  \A m \in Mailers : \A i \in DOMAIN mailing[m].listed :
    LET entry == mailing[m].listed[i]
    IN entry.row.last = "failure" => misses[entry.of] >= entry.row.retry
MarkersCounted ==
  \A x \in Schedules : reports[x].last = "failure" =>
    \/ misses[x] >= reports[x].retry
    \/ /\ ~reports[x].enabled /\ ~UnderWay(x)
       /\ editing.of = {x} => editing.saw = reports[x]

(* The inductive invariant, where one process runs the loop. *)
ReportsInv == /\ ReportRecords /\ ListedOnce /\ NotYetSent /\ SentByTheRun
              /\ CopiesCounted /\ MarkersCounted

(* One process runs the loop: it takes no lock, and nothing else keeps two   *)
(* of them apart.                                                            *)
OneMailer == \A m, n \in Mailers : m = n

(* Nobody is sent the report of one slot twice, and the loop switches a    *)
(* schedule off only after MAX_STRIKES runs in a row that reached nobody,  *)
(* counted afresh from when the operator enabled it between two runs; runs *)
(* that were lost and slots the operator has moved excepted.  ("A retry    *)
(* would redeliver to the recipients who already have it"; "one bad        *)
(* address must not disable a schedule that is still reaching everyone     *)
(* else".)                                                                 *)
ReportsOnceAndFairly ==
  [][\A x \in Schedules :
       /\ \A m \in Mailers :
            /\ ~mailing[m].mailed /\ mailing'[m].mailed
            /\ InTurn(m, x) /\ Head(mailing[m].listed).row.next = reports[x].next
            => mailing'[m].reached \intersect had[x] = {}
       /\ reports[x].enabled /\ ~reports'[x].enabled /\ editing' = editing
            => misses'[x] = MAX_STRIKES ]_reportVars

(* No report stays due for ever: again and again the loop, or somebody, has *)
(* dealt with it, whatever becomes of the others ("Roll back so the NEXT    *)
(* schedule starts clean").                                                 *)
ReportsMove == \A x \in Schedules \ Poisoned : []<>~ReportDue(x)
=============================================================================
