------------------------- MODULE RecurringInvoices -------------------------
(***************************************************************************)
(* One recurring-invoice template.  Periods are numbered from the first    *)
(* occurrence of its schedule, and today is the last period that has       *)
(* begun (0 before the first).  Every replica runs the sweep: it reads the *)
(* ids of the due templates unlocked, then locks the row, asks again,      *)
(* raises the invoice of the cursor's period and commits.  A person's      *)
(* generate-now, and every other request, reads the template without a     *)
(* lock.  An index lets one invoice exist for a template and a period.     *)
(***************************************************************************)
EXTENDS Naturals

CONSTANTS Replicas,               \* processes that run the sweep
          Managers,               \* open generate-now requests
          MAX_CONSECUTIVE_SKIPS,  \* misses before the sweep pauses a template
          LAST_PERIOD             \* the period of end_date

ASSUME RecurringAssumption == /\ MAX_CONSECUTIVE_SKIPS \in Nat \ {0}
                              /\ LAST_PERIOD \in Nat \ {0}

VARIABLES today,      \* the current period
          template,   \* its row: status, next_run_on, whether it can generate
          raised,     \* period -> who raised its invoice
          candidate,  \* replica -> it has read the template's id
          asking      \* manager -> the period of an open generate-now

recurringVars == <<today, template, raised, candidate, asking>>

Periods == 1 .. LAST_PERIOD
Ended == 0   \* next_run_on is NULL
Template == [status : {"active", "paused", "ended"}, next : Periods \union {Ended},
             complete : BOOLEAN, skips : 0 .. MAX_CONSECUTIVE_SKIPS]

RecurringInit ==
  /\ today \in {0, 1}
  /\ \E complete \in BOOLEAN :
       template = [status |-> "active", next |-> 1, complete |-> complete, skips |-> 0]
  /\ raised = [p \in Periods |-> "nobody"]
  /\ candidate = [s \in Replicas |-> FALSE]
  /\ asking = [u \in Managers |-> 0]

---------------------------------------------------------------------------
(* compute_next_run_on: the first occurrence not before the given one. *)
NextRunOn(from) == IF from > LAST_PERIOD THEN Ended ELSE IF from = 0 THEN 1 ELSE from

(* current_due_run_on: the period begun last, or the first one ever. *)
CurrentDue == IF today = 0 THEN 1 ELSE today

StillDue == /\ template.status = "active"
            /\ template.next \in 1 .. today

(* The first half of the sweep. *)
ReadDueTemplates(s) ==
  /\ ~candidate[s]
  /\ StillDue
  /\ candidate' = [candidate EXCEPT ![s] = TRUE]
  /\ UNCHANGED <<today, template, raised, asking>>

(* generate_one, if the index admits the invoice. *)
Generates(period, who) ==
  /\ raised' = [raised EXCEPT ![period] = who]
  /\ template' = [template EXCEPT !.next = NextRunOn(period + 1), !.skips = 0]

(* _handle_non_generatable and _advance_cursor.  The count matters up to  *)
(* the maximum, where it stops.                                           *)
Skips ==
  LET enough == template.skips + 1 >= MAX_CONSECUTIVE_SKIPS
  IN template' = [template EXCEPT
       !.next = NextRunOn(@ + 1),
       !.skips = IF enough THEN MAX_CONSECUTIVE_SKIPS ELSE @ + 1,
       !.status = IF enough THEN "paused" ELSE @]

SweepTemplate ==
  \/ ~template.complete /\ Skips /\ UNCHANGED raised
  \/ /\ template.complete
     /\ raised[template.next] = "nobody"
     /\ Generates(template.next, "sweep")
  \/ /\ template.complete
     /\ raised[template.next] # "nobody"
     /\ template' = [template EXCEPT !.next = NextRunOn(@ + 1), !.skips = 0]
     /\ UNCHANGED raised

\* Mutation: the locked row is not asked again.
SweepWhateverTheCursor(s) ==
  /\ candidate[s]
  /\ candidate' = [candidate EXCEPT ![s] = FALSE]
  /\ template.next # Ended
  /\ SweepTemplate
  /\ UNCHANGED <<today, asking>>

\* Mutation: a period somebody raised before leaves the cursor where it is.
SweepStopsAtRaised(s) ==
  /\ candidate[s]
  /\ candidate' = [candidate EXCEPT ![s] = FALSE]
  /\ IF StillDue /\ ~(template.complete /\ raised[template.next] # "nobody")
     THEN SweepTemplate ELSE UNCHANGED <<template, raised>>
  /\ UNCHANGED <<today, asking>>

(* The second half: lock, ask again, generate or skip, commit. *)
SweepLocked(s) ==
  /\ candidate[s]
  /\ candidate' = [candidate EXCEPT ![s] = FALSE]
  /\ IF StillDue THEN SweepTemplate ELSE UNCHANGED <<template, raised>>
  /\ UNCHANGED <<today, asking>>

(* The process stops, or the database fails, before the commit. *)
SweepFails(s) ==
  /\ candidate[s]
  /\ candidate' = [candidate EXCEPT ![s] = FALSE]
  /\ UNCHANGED <<today, template, raised, asking>>

---------------------------------------------------------------------------
(* generate-now reads the template and picks its period ... *)
OpenGenerateNow(u) ==
  /\ asking[u] = 0
  /\ template.status # "ended"
  /\ template.complete
  /\ CurrentDue \in Periods
  /\ asking' = [asking EXCEPT ![u] = CurrentDue]
  /\ UNCHANGED <<today, template, raised, candidate>>

(* ... and raises its invoice, or finds the one there is.  The columns it *)
(* writes are those of its own copy of the template.                      *)
GenerateNow(u) ==
  /\ asking[u] # 0
  /\ asking' = [asking EXCEPT ![u] = 0]
  /\ \/ raised[asking[u]] = "nobody" /\ Generates(asking[u], "manager")
     \/ /\ raised[asking[u]] # "nobody"
        /\ template' = [template EXCEPT !.skips = 0]
        /\ UNCHANGED raised
  /\ UNCHANGED <<today, candidate>>

AbandonGenerateNow(u) ==
  /\ asking[u] # 0
  /\ asking' = [asking EXCEPT ![u] = 0]
  /\ UNCHANGED <<today, template, raised, candidate>>

(* The template's own requests.  Re-anchoring the schedule to today names *)
(* today's period if this is its very day, and else the next one; edits   *)
(* that renumber the periods are left out.                                *)
Cleared(row) == [row EXCEPT !.skips = IF row.complete THEN 0 ELSE @]
Reanchored == {NextRunOn(today), NextRunOn(today + 1)}

Edit ==
  /\ \E complete \in BOOLEAN :
       LET row == [template EXCEPT !.complete = complete]
       IN \/ template' = Cleared(row)
          \/ /\ row.status = "active"
             /\ \E next \in Reanchored : template' = Cleared([row EXCEPT !.next = next])
  /\ UNCHANGED <<today, raised, candidate, asking>>

PauseTemplate ==
  /\ template.status = "active"
  /\ template' = [template EXCEPT !.status = "paused"]
  /\ UNCHANGED <<today, raised, candidate, asking>>

ResumeTemplate ==
  /\ template.status = "paused"
  /\ \E next \in Reanchored :
       template' = Cleared([template EXCEPT !.status = "active", !.next = next])
  /\ UNCHANGED <<today, raised, candidate, asking>>

EndTemplate ==
  /\ template.status # "ended"
  /\ template' = [template EXCEPT !.status = "ended", !.next = Ended]
  /\ UNCHANGED <<today, raised, candidate, asking>>

(* The next period begins; time stops at the bound of the model. *)
PeriodBegins ==
  /\ today < LAST_PERIOD
  /\ today' = today + 1
  /\ UNCHANGED <<template, raised, candidate, asking>>

---------------------------------------------------------------------------
RecurringNext ==
  \/ \E s \in Replicas : ReadDueTemplates(s) \/ SweepLocked(s) \/ SweepFails(s)
  \/ \E u \in Managers : OpenGenerateNow(u) \/ GenerateNow(u) \/ AbandonGenerateNow(u)
  \/ Edit \/ PauseTemplate \/ ResumeTemplate \/ EndTemplate \/ PeriodBegins

RecurringSpec == RecurringInit /\ [][RecurringNext]_recurringVars

(* Some replica's sweep ticks for ever, and not every tick fails. *)
RecurringFairness == /\ WF_recurringVars(\E s \in Replicas : ReadDueTemplates(s))
                     /\ SF_recurringVars(\E s \in Replicas : SweepLocked(s))

---------------------------------------------------------------------------
(* The variables have the shape the template row and the requests have in *)
(* the code.                                                              *)
RecurringTypeOK == /\ today \in 0 .. LAST_PERIOD
                   /\ template \in Template
                   /\ raised \in [Periods -> {"nobody", "sweep", "manager"}]
                   /\ candidate \in [Replicas -> BOOLEAN]
                   /\ asking \in [Managers -> Periods \union {0}]

(* Between a replica's reading the template's id and its taking the lock, *)
(* another replica may raise the period and move the cursor on, and a     *)
(* person may pause or end the template.  Even so a sweep raises an       *)
(* invoice only for a period that has begun and a template that is        *)
(* active, and no invoice is ever replaced.  The index does not ensure    *)
(* it, as _still_due explains.                                            *)
NothingEarly ==
  [][\A p \in Periods : raised'[p] # raised[p] =>
       /\ raised[p] = "nobody"
       /\ raised'[p] = "sweep" => p <= today /\ template.status = "active"]_recurringVars

(* The sweep catches up: again and again no period that has begun is left *)
(* to a template that is active and can generate.  Whoever raised the     *)
(* period before, no interleaving of sweeps and people leaves the cursor  *)
(* stuck on it, which _advance_cursor is there to prevent.                *)
SweepCatchesUp == []<>~(StillDue /\ template.complete)
=============================================================================
