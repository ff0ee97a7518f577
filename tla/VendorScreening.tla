--------------------------- MODULE VendorScreening --------------------------
(***************************************************************************)
(* Sanctions screening of the vendors of one tenant, and the payment block *)
(* a match sets.  Every replica sweeps the vendors whose last screen has   *)
(* lapsed, one row lock at a time.  Stewards screen, block, unblock,       *)
(* verify and edit vendors, reading them without a lock, and merge         *)
(* duplicates.  What the provider answers is a free choice.                *)
(***************************************************************************)
EXTENDS Naturals, Sequences, SequencesExt

CONSTANTS SupplierOrder,  \* the vendors in the order of their ids
          Unscreenable,   \* vendors whose screen raises every time
          Bills,          \* invoices
          Rescreeners,    \* replicas of the sweep
          Stewards,       \* sessions of people who manage vendors
          MAX_TURNS      \* bound on requests, lapses, outages and crashes

Suppliers == ToSet(SupplierOrder)

ASSUME VendorScreeningAssumption ==
  /\ \A i, j \in DOMAIN SupplierOrder : SupplierOrder[i] = SupplierOrder[j] => i = j
  /\ Unscreenable \subseteq Suppliers
  /\ MAX_TURNS \in Nat

VARIABLES master,    \* rows of vendors; due: last_screened_at is NULL or too old
          billedBy,  \* the vendor of each invoice
          rescan,    \* replica -> the ids it still has to visit, and whether it has
                     \* locked and screened the first of them, with which result
          steward,   \* a request: the row it read, the row it wants, whether it holds it
          turns,    \* how many requests, lapses, outages and crashes there have been
          periodic,  \* history: periodic rows in the trail of a vendor
          sealed     \* history: invoices of a vendor that matched, until it is unblocked

screeningVars == <<master, billedBy, rescan, steward, turns, periodic, sealed>>

VendorStatus == {"unverified", "active", "inactive", "rejected"}

\* A result that only calls for a review blocks nothing, like a clear one.
Results == {"clear", "match"}

SupplierRow == [status : VendorStatus, due : BOOLEAN,
                screening : Results \union {"unscreened"}, blocked : BOOLEAN]

NotSweeping == [ids |-> <<>>, result |-> "none"]
NotAsking == [of |-> {}]

ScreeningInit ==
  /\ master \in [Suppliers -> {[status |-> s, due |-> TRUE, screening |-> "unscreened",
                                blocked |-> FALSE] : s \in {"unverified", "active"}}]
  /\ billedBy \in [Bills -> Suppliers]
  /\ rescan = [t \in Rescreeners |-> NotSweeping]
  /\ steward = [c \in Stewards |-> NotAsking]
  /\ turns = 0
  /\ periodic = [v \in Suppliers |-> 0]
  /\ sealed = {}

Happens == turns < MAX_TURNS /\ turns' = turns + 1

BillsOf(v) == {b \in Bills : billedBy[b] = v}

Screens(t, v) == rescan[t].result # "none" /\ Head(rescan[t].ids) = v
SupplierFree(v) == /\ \A t \in Rescreeners : ~Screens(t, v)
                   /\ \A c \in Stewards : steward[c].of = {v} => ~steward[c].holds

(* What screen_vendor_record makes of a row: only a match touches the block. *)
Screened(row, result) ==
  [row EXCEPT !.due = FALSE, !.screening = result, !.blocked = @ \/ result = "match"]

(* The gate of a payment: a block refuses it before anything else. *)
Refuses(b) == master[billedBy[b]].blocked

---------------------------------------------------------------------------
(* The sweep. *)

SupplierDue(v) == master[v].status = "active" /\ master[v].due

\* Mutation: the list of ids is believed under the lock.
DueAsListed(v) == TRUE

DueUnderLock(v) == SupplierDue(v)

(* What the query lists: the vendors that are due, in the order of their ids. *)
ListsDue(ids) ==
  /\ ToSet(ids) = {v \in Suppliers : SupplierDue(v)}
  /\ \A i, j \in DOMAIN ids : i < j =>
       \E a, b \in DOMAIN SupplierOrder :
         a < b /\ SupplierOrder[a] = ids[i] /\ SupplierOrder[b] = ids[j]

StartRescan(t) ==
  /\ rescan[t] = NotSweeping
  /\ \E v \in Suppliers : SupplierDue(v)
  /\ \E ids \in SeqOf(Suppliers, Len(SupplierOrder)) :
       ListsDue(ids) /\ rescan' = [rescan EXCEPT ![t].ids = ids]
  /\ UNCHANGED <<master, billedBy, steward, turns, periodic, sealed>>

NextSupplier(t) ==
  rescan' = [rescan EXCEPT ![t] = [NotSweeping EXCEPT !.ids = Tail(rescan[t].ids)]]

(* The row is locked and read again. *)
Visits(t, v) == /\ rescan[t].ids # <<>> /\ rescan[t].result = "none"
                /\ v = Head(rescan[t].ids)
                /\ SupplierFree(v)

RescreenSupplier(t, v) ==
  /\ Visits(t, v) /\ DueUnderLock(v)
  /\ v \notin Unscreenable
  /\ \E result \in Results : rescan' = [rescan EXCEPT ![t].result = result]
  /\ UNCHANGED <<master, billedBy, steward, turns, periodic, sealed>>

(* Not due any more, or the screen raises: rolled back, and on to the next. *)
SkipSupplier(t, v) ==
  /\ Visits(t, v)
  /\ DueUnderLock(v) => v \in Unscreenable
  /\ NextSupplier(t)
  /\ UNCHANGED <<master, billedBy, steward, turns, periodic, sealed>>

ProviderFails(t, v) ==
  /\ Visits(t, v) /\ DueUnderLock(v)
  /\ Happens
  /\ NextSupplier(t)
  /\ UNCHANGED <<master, billedBy, steward, periodic, sealed>>

CommitRescreen(t, v) ==
  /\ Screens(t, v)
  /\ master' = [master EXCEPT ![v] = Screened(@, rescan[t].result)]
  /\ periodic' = [periodic EXCEPT ![v] = @ + 1]
  /\ sealed' = IF rescan[t].result = "match" THEN sealed \union BillsOf(v) ELSE sealed
  /\ NextSupplier(t)
  /\ UNCHANGED <<billedBy, steward, turns>>

RescanDies(t) ==
  /\ rescan[t] # NotSweeping
  /\ Happens
  /\ rescan' = [rescan EXCEPT ![t] = NotSweeping]
  /\ UNCHANGED <<master, billedBy, steward, periodic, sealed>>

---------------------------------------------------------------------------
(* The stewards. *)

Starts(c, request) == /\ steward[c] = NotAsking
                      /\ Happens
                      /\ steward' = [steward EXCEPT ![c] = request]
                      /\ UNCHANGED <<master, billedBy, rescan, periodic, sealed>>

(* A request reads the vendor without a lock. *)
OpensFor(c, v, row) ==
  Starts(c, [of |-> {v}, saw |-> master[v], wants |-> row, holds |-> FALSE])

ScreenByHand(c, v) ==
  /\ v \notin Unscreenable
  /\ \E result \in Results : OpensFor(c, v, Screened(master[v], result))

BlockOrUnblock(c, v) == \E b \in BOOLEAN : OpensFor(c, v, [master[v] EXCEPT !.blocked = b])

VerifyOrReject(c, v) ==
  \/ /\ master[v].status = "unverified"
     /\ OpensFor(c, v, [master[v] EXCEPT !.status = "active"])
  \/ /\ master[v].status \in {"unverified", "active"}
     /\ OpensFor(c, v, [master[v] EXCEPT !.status = "rejected"])

(* A patch is written before its request goes on, so it holds the row; a   *)
(* changed name is screened then, and a screen that fails is let go.       *)
PatchSupplier(c, v) ==
  /\ SupplierFree(v)
  /\ \E wants \in {[master[v] EXCEPT !.status = s] : s \in VendorStatus}
                   \union {Screened(master[v], r) : r \in Results} :
       /\ v \in Unscreenable => wants.due = master[v].due
       /\ Starts(c, [of |-> {v}, saw |-> master[v], wants |-> wants, holds |-> TRUE])

(* Only columns that differ from what was read are written. *)
CommitSteward(c, v) ==
  LET saw   == steward[c].saw
      wants == steward[c].wants
      after == [f \in DOMAIN saw |-> IF wants[f] = saw[f] THEN master[v][f] ELSE wants[f]]
  IN /\ steward[c].of = {v}
     /\ steward[c].holds \/ SupplierFree(v)
     /\ master' = [master EXCEPT ![v] = after]
     /\ sealed' = IF master[v].blocked /\ ~after.blocked THEN sealed \ BillsOf(v)
                  ELSE IF after.blocked /\ after.screening = "match" THEN sealed \union BillsOf(v)
                  ELSE sealed
     /\ steward' = [steward EXCEPT ![c] = NotAsking]
     /\ UNCHANGED <<billedBy, rescan, turns, periodic>>

StewardFails(c) == /\ steward[c] # NotAsking
                   /\ steward' = [steward EXCEPT ![c] = NotAsking]
                   /\ UNCHANGED <<master, billedBy, rescan, turns, periodic, sealed>>

\* Mutation: a block of a duplicate does not stand in the way.
MergeableAnyhow(v, canonical) == TRUE

(* A blocked duplicate is only merged into a blocked vendor. *)
Mergeable(v, canonical) == master[v].blocked => master[canonical].blocked

\* Mutation: the vendors of a merge are read without a lock.
LocksNothing(v, canonical) == TRUE

LocksBoth(v, canonical) == SupplierFree(v) /\ SupplierFree(canonical)

(* Both rows are locked from before the guard until the commit. *)
MergeVendors(v, canonical) ==
  /\ v # canonical
  /\ Happens
  /\ LocksBoth(v, canonical)
  /\ Mergeable(v, canonical)
  /\ billedBy' = [b \in Bills |-> IF billedBy[b] = v THEN canonical ELSE billedBy[b]]
  /\ master' = [master EXCEPT ![v].status = "inactive"]
  /\ UNCHANGED <<rescan, steward, periodic, sealed>>

(* vendor_rescreen_after_days have passed; no tick and no request lasts    *)
(* that long.                                                              *)
ScreenLapses(v) ==
  /\ ~master[v].due
  /\ \A t \in Rescreeners : \A i \in DOMAIN rescan[t].ids : rescan[t].ids[i] # v
  /\ \A c \in Stewards : steward[c].of # {v}
  /\ Happens
  /\ master' = [master EXCEPT ![v].due = TRUE]
  /\ UNCHANGED <<billedBy, rescan, steward, periodic, sealed>>

ScreeningNext ==
  \/ \E t \in Rescreeners :
       \/ StartRescan(t) \/ RescanDies(t)
       \/ \E v \in Suppliers : \/ RescreenSupplier(t, v) \/ SkipSupplier(t, v)
                               \/ ProviderFails(t, v) \/ CommitRescreen(t, v)
  \/ \E c \in Stewards :
       \/ StewardFails(c)
       \/ \E v \in Suppliers : \/ ScreenByHand(c, v) \/ BlockOrUnblock(c, v)
                               \/ VerifyOrReject(c, v) \/ PatchSupplier(c, v)
                               \/ CommitSteward(c, v)
  \/ \E v, canonical \in Suppliers : MergeVendors(v, canonical)
  \/ \E v \in Suppliers : ScreenLapses(v)

(* lifespan starts the loop where the sweep is enabled, and run_sweep_loop  *)
(* goes on after a bad tick; a request ends, and with it its locks.         *)
ScreeningFairness ==
  /\ \A t \in Rescreeners :
       /\ WF_screeningVars(StartRescan(t))
       /\ WF_screeningVars(\E v \in Suppliers : \/ RescreenSupplier(t, v) \/ SkipSupplier(t, v)
                                                \/ CommitRescreen(t, v))
  /\ \A c \in Stewards :
       WF_screeningVars(StewardFails(c) \/ \E v \in Suppliers : CommitSteward(c, v))

ScreeningSpec == ScreeningInit /\ [][ScreeningNext]_screeningVars /\ ScreeningFairness
---------------------------------------------------------------------------
(* What a request read, what it wants, and whether it holds the row. *)
Requested == [of : {{v} : v \in Suppliers}, saw : SupplierRow, wants : SupplierRow,
              holds : BOOLEAN]

(* The rows, the requests and the histories are of their kinds. *)
ScreeningRecords ==
  /\ master \in [Suppliers -> SupplierRow]
  /\ billedBy \in [Bills -> Suppliers]
  /\ steward \in [Stewards -> Requested \union {NotAsking}]
  /\ periodic \in [Suppliers -> Nat]
  /\ sealed \subseteq Bills

(* And so are the sweeps, with the bound. *)
ScreeningTypeOK ==
  /\ ScreeningRecords
  /\ \A t \in Rescreeners : /\ rescan[t].ids \in Seq(Suppliers)
                            /\ rescan[t].result # "none" => rescan[t].ids # <<>>
  /\ turns \in 0 .. MAX_TURNS

(* A sweep keeps a list and the result of the vendor it is at. *)
SweepsRemember ==
  /\ DOMAIN rescan = Rescreeners
  /\ \A t \in Rescreeners : /\ DOMAIN rescan[t] = {"ids", "result"}
                            /\ rescan[t].result \in Results \union {"none"}

(* Who has screened a vendor and not yet committed has its row to himself, *)
(* and the row is as due as he found it under the lock.                    *)
ScreensAlone ==
  \A v \in Suppliers, t \in Rescreeners : Screens(t, v) =>
    /\ SupplierDue(v)
    /\ \A u \in Rescreeners : Screens(u, v) => u = t
    /\ \A c \in Stewards : steward[c].of = {v} => ~steward[c].holds

(* What a match holds is behind a block. *)
SealedIsRefused == \A b \in sealed : Refuses(b)

(* The inductive invariant of the property below.  That the ids of a sweep   *)
(* are vendors comes with the type invariant: nothing here depends on it.    *)
ScreeningInv == ScreeningRecords /\ SweepsRemember /\ ScreensAlone /\ SealedIsRefused

(* A periodic row is only ever added for a vendor that is active and due    *)
(* when it is written, since neither trail can be tidied away; and invoices *)
(* a screening match holds stay refused until a person unblocks the vendor  *)
(* they belong to by then, whatever merges, patches and stale requests come *)
(* between.                                                                 *)
MatchesHold ==
  [][/\ \A v \in Suppliers : periodic'[v] > periodic[v] => SupplierDue(v)
     /\ \A b \in sealed' : Refuses(b)']_screeningVars

(* No vendor stays active and due for ever, whichever others cannot be      *)
(* screened ("the poison vendor is skipped and counted, everyone else       *)
(* advances").                                                              *)
RescreensMove == \A v \in Suppliers \ Unscreenable : []<>~SupplierDue(v)
=============================================================================
