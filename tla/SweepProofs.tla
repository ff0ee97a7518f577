---------------------------- MODULE SweepProofs ----------------------------
(***************************************************************************)
(* Theorems about two sweeps and the people who change the rows they work  *)
(* on: what a screening match holds stays held, and a scheduled report is  *)
(* mailed once for a slot and disabled for its own failures alone.         *)
(***************************************************************************)
EXTENDS VendorScreening, ScheduledReports, SequenceTheorems, FiniteSetTheorems, TLAPS

---------------------------------------------------------------------------
(* Vendors' rows. *)

\* A screen, a block, a new status and a lapse each leave a vendor's row whole.
LEMMA RowsStayWhole ==
  ASSUME NEW row \in SupplierRow
  PROVE  /\ \A result \in Results : /\ Screened(row, result) \in SupplierRow
                                    /\ row.blocked => Screened(row, result).blocked
                                    /\ result = "match" => Screened(row, result).blocked
         /\ \A b \in BOOLEAN : [row EXCEPT !.blocked = b] \in SupplierRow
         /\ \A s \in VendorStatus : /\ [row EXCEPT !.status = s] \in SupplierRow
                                    /\ [row EXCEPT !.status = s].blocked = row.blocked
         /\ [row EXCEPT !.due = TRUE] \in SupplierRow
         /\ [row EXCEPT !.due = TRUE].blocked = row.blocked
         /\ [row EXCEPT !.due = TRUE].status = row.status
<1>1. row.blocked \in BOOLEAN /\ row.status \in VendorStatus
  BY DEF SupplierRow
<1>2. ASSUME NEW result \in Results, NEW b \in BOOLEAN
      PROVE  /\ [row EXCEPT !.due = FALSE, !.screening = result, !.blocked = b] \in SupplierRow
             /\ [row EXCEPT !.due = FALSE, !.screening = result, !.blocked = b].blocked = b
  BY DEF SupplierRow
<1>3. ASSUME NEW result \in Results
      PROVE  /\ Screened(row, result) \in SupplierRow
             /\ row.blocked => Screened(row, result).blocked
             /\ result = "match" => Screened(row, result).blocked
  <2> DEFINE b == row.blocked \/ result = "match"
  <2>1. b \in BOOLEAN
    BY Zenon
  <2>2. Screened(row, result) = [row EXCEPT !.due = FALSE, !.screening = result, !.blocked = b]
    BY Zenon DEF Screened
  <2>3. Screened(row, result) \in SupplierRow /\ Screened(row, result).blocked = b
    BY <1>2, <2>1, <2>2, Zenon
  <2> QED BY <2>3, Zenon
<1> QED BY <1>3 DEF SupplierRow

\* A commit that writes only what a request changed leaves the row whole.
LEMMA MergedRowIsWhole ==
  ASSUME NEW row \in SupplierRow, NEW saw \in SupplierRow, NEW wants \in SupplierRow
  PROVE  [f \in DOMAIN saw |-> IF wants[f] = saw[f] THEN row[f] ELSE wants[f]] \in SupplierRow
<1> DEFINE after == [f \in DOMAIN saw |-> IF wants[f] = saw[f] THEN row[f] ELSE wants[f]]
<1>1. DOMAIN saw = {"status", "due", "screening", "blocked"}
  BY DEF SupplierRow
<1>2. /\ after["status"] \in VendorStatus /\ after["due"] \in BOOLEAN
      /\ after["screening"] \in Results \union {"unscreened"} /\ after["blocked"] \in BOOLEAN
  BY <1>1 DEF SupplierRow
<1>3. after = [status |-> after["status"], due |-> after["due"],
               screening |-> after["screening"], blocked |-> after["blocked"]]
  BY <1>1
<1> QED BY <1>2, <1>3 DEF SupplierRow

---------------------------------------------------------------------------
(* The sweep's steps. *)

\* Rewriting the list of a sweep that has no result.
LEMMA ListsRewritten ==
  ASSUME NEW ids
  PROVE  [NotSweeping EXCEPT !.ids = ids] = [ids |-> ids, result |-> "none"]
BY DEF NotSweeping

\* A sweep that has no result in hand afterwards screens nothing; the others go on.
LEMMA SweepGoesOn ==
  ASSUME SweepsRemember, NEW t \in Rescreeners, NEW ids,
         rescan' = [rescan EXCEPT ![t] = [ids |-> ids, result |-> "none"]]
  PROVE  /\ SweepsRemember'
         /\ \A u \in Rescreeners, v \in Suppliers : Screens(u, v)' => u # t /\ Screens(u, v)
BY DEF SweepsRemember, Screens

\* Such a step, with the rows as they were, keeps the invariant.
LEMMA SweepKeeps ==
  ASSUME ScreeningInv, NEW t \in Rescreeners, NEW ids,
         rescan' = [rescan EXCEPT ![t] = [ids |-> ids, result |-> "none"]],
         UNCHANGED <<master, billedBy, steward, periodic, sealed>>
  PROVE  ScreeningInv'
<1>1. /\ SweepsRemember'
      /\ \A u \in Rescreeners, v \in Suppliers : Screens(u, v)' => u # t /\ Screens(u, v)
  BY SweepGoesOn DEF ScreeningInv
<1>2. ScreensAlone'
  BY <1>1 DEF ScreeningInv, ScreensAlone, SupplierDue
<1>3. ScreeningRecords' /\ SealedIsRefused'
  BY DEF ScreeningInv, ScreeningRecords, SealedIsRefused, Refuses
<1> QED BY <1>1, <1>2, <1>3 DEF ScreeningInv

LEMMA SweepStartsAndDies ==
  ASSUME ScreeningInv, NEW t \in Rescreeners, StartRescan(t) \/ RescanDies(t)
  PROVE  ScreeningInv'
<1>1. PICK ids : rescan' = [rescan EXCEPT ![t] = [ids |-> ids, result |-> "none"]]
  <2>1. CASE StartRescan(t)
    <3>1. PICK ids : rescan' = [rescan EXCEPT ![t].ids = ids]
      BY <2>1 DEF StartRescan
    <3>2. rescan[t] = NotSweeping
      BY <2>1 DEF StartRescan
    <3>3. rescan' = [rescan EXCEPT ![t] = [NotSweeping EXCEPT !.ids = ids]]
      BY <3>1, <3>2
    <3> QED BY <3>3, ListsRewritten
  <2>2. CASE RescanDies(t)
    BY <2>2 DEF RescanDies, NotSweeping
  <2> QED BY <2>1, <2>2
<1>2. UNCHANGED <<master, billedBy, steward, periodic, sealed>>
  BY DEF StartRescan, RescanDies
<1> QED BY <1>1, <1>2, SweepKeeps

LEMMA SweepSteps ==
  ASSUME ScreeningInv, NEW t \in Rescreeners, NEW v \in Suppliers,
         \/ RescreenSupplier(t, v) \/ SkipSupplier(t, v)
         \/ ProviderFails(t, v) \/ CommitRescreen(t, v)
  PROVE  ScreeningInv'
<1>1. CASE SkipSupplier(t, v) \/ ProviderFails(t, v)
  <2>1. PICK ids : rescan' = [rescan EXCEPT ![t] = [ids |-> ids, result |-> "none"]]
    BY <1>1 DEF SkipSupplier, ProviderFails, NextSupplier, NotSweeping
  <2>2. UNCHANGED <<master, billedBy, steward, periodic, sealed>>
    BY <1>1 DEF SkipSupplier, ProviderFails
  <2> QED BY <2>1, <2>2, SweepKeeps
<1>2. CASE RescreenSupplier(t, v)
  <2>1. PICK result \in Results : rescan' = [rescan EXCEPT ![t].result = result]
    BY <1>2 DEF RescreenSupplier
  <2>2. SupplierDue(v) /\ SupplierFree(v) /\ v = Head(rescan[t].ids) /\ rescan[t].result = "none"
    BY <1>2 DEF RescreenSupplier, Visits, DueUnderLock
  <2>3. UNCHANGED <<master, billedBy, steward, periodic, sealed>>
    BY <1>2 DEF RescreenSupplier
  <2>4. SweepsRemember'
    BY <2>1 DEF ScreeningInv, SweepsRemember
  <2>5. \A u \in Rescreeners, w \in Suppliers :
          Screens(u, w)' => IF u = t THEN w = v ELSE Screens(u, w)
    BY <2>1, <2>2 DEF ScreeningInv, SweepsRemember, Screens
  <2>6. ScreensAlone'
    BY <2>2, <2>3, <2>5 DEF ScreeningInv, ScreensAlone, SupplierDue, SupplierFree
  <2>7. ScreeningRecords' /\ SealedIsRefused'
    BY <2>3 DEF ScreeningInv, ScreeningRecords, SealedIsRefused, Refuses
  <2> QED BY <2>4, <2>6, <2>7 DEF ScreeningInv
<1>3. CASE CommitRescreen(t, v)
  <2> DEFINE result == rescan[t].result
  <2>1. Screens(t, v) /\ result \in Results
    BY <1>3 DEF CommitRescreen, ScreeningInv, SweepsRemember, Screens
  <2>2. rescan' = [rescan EXCEPT ![t] = [ids |-> Tail(rescan[t].ids), result |-> "none"]]
    <3>1. NextSupplier(t)
      BY <1>3 DEF CommitRescreen
    <3> QED BY <3>1, ListsRewritten DEF NextSupplier
  <2>3. /\ master' = [master EXCEPT ![v] = Screened(master[v], result)]
        /\ periodic' = [periodic EXCEPT ![v] = periodic[v] + 1]
        /\ sealed' = IF result = "match" THEN sealed \union BillsOf(v) ELSE sealed
        /\ UNCHANGED <<billedBy, steward>>
    BY <1>3 DEF CommitRescreen
  <2>4. /\ SweepsRemember'
        /\ \A u \in Rescreeners, w \in Suppliers : Screens(u, w)' => u # t /\ Screens(u, w)
    BY <2>2, SweepGoesOn DEF ScreeningInv
  <2>5. master[v] \in SupplierRow
    BY DEF ScreeningInv, ScreeningRecords
  <2>6. /\ Screened(master[v], result) \in SupplierRow
        /\ master[v].blocked => Screened(master[v], result).blocked
        /\ result = "match" => Screened(master[v], result).blocked
    BY <2>1, <2>5, RowsStayWhole
  <2> HIDE DEF result
  <2>7. ScreeningRecords'
    BY <2>3, <2>6 DEF ScreeningInv, ScreeningRecords, BillsOf
  <2>8. ScreensAlone'
    BY <2>1, <2>3, <2>4 DEF ScreeningInv, ScreeningRecords, ScreensAlone, SupplierDue
  <2>9. SealedIsRefused'
    BY <2>3, <2>6 DEF ScreeningInv, ScreeningRecords, SealedIsRefused, Refuses, BillsOf
  <2> QED BY <2>4, <2>7, <2>8, <2>9 DEF ScreeningInv
<1> QED BY <1>1, <1>2, <1>3

---------------------------------------------------------------------------
(* The stewards' steps. *)

\* What a request is about to write is a row.
LEMMA RequestsWantRows ==
  ASSUME ScreeningInv, NEW c \in Stewards, NEW v \in Suppliers,
         \/ ScreenByHand(c, v) \/ BlockOrUnblock(c, v)
         \/ VerifyOrReject(c, v) \/ PatchSupplier(c, v)
  PROVE  \E wants \in SupplierRow, holds \in BOOLEAN :
           /\ Starts(c, [of |-> {v}, saw |-> master[v], wants |-> wants, holds |-> holds])
           /\ holds => SupplierFree(v)
<1>1. master[v] \in SupplierRow
  BY DEF ScreeningInv, ScreeningRecords
<1>2. CASE ScreenByHand(c, v)
  BY <1>1, <1>2, RowsStayWhole DEF ScreenByHand, OpensFor
<1>3. CASE BlockOrUnblock(c, v)
  BY <1>1, <1>3, RowsStayWhole DEF BlockOrUnblock, OpensFor
<1>4. CASE VerifyOrReject(c, v)
  BY <1>1, <1>4, RowsStayWhole DEF VerifyOrReject, OpensFor, VendorStatus
<1>5. CASE PatchSupplier(c, v)
  BY <1>1, <1>5, RowsStayWhole DEF PatchSupplier
<1> QED BY <1>2, <1>3, <1>4, <1>5

\* Who asks for nothing holds nothing.
LEMMA IdleHoldsNothing == NotAsking \notin Requested /\ \A v \in Suppliers : NotAsking.of # {v}
<1>1. NotAsking.of = {}
  BY DEF NotAsking
<1>2. \A q \in Requested : \E v \in Suppliers : q.of = {v}
  BY DEF Requested
<1> QED BY <1>1, <1>2

\* A request that fails gives up what it holds.
LEMMA StewardGivesUp ==
  ASSUME ScreeningInv, NEW c \in Stewards, StewardFails(c)
  PROVE  ScreeningInv'
<1>1. steward' = [steward EXCEPT ![c] = NotAsking] /\ UNCHANGED <<master, billedBy, rescan, periodic, sealed>>
  BY DEF StewardFails
<1>2. ScreeningRecords' /\ SweepsRemember' /\ SealedIsRefused'
  BY <1>1 DEF ScreeningInv, ScreeningRecords, SweepsRemember, SealedIsRefused, Refuses
<1>3. ScreensAlone'
  BY <1>1, IdleHoldsNothing DEF ScreeningInv, ScreeningRecords, ScreensAlone, Screens, SupplierDue
<1> QED BY <1>2, <1>3 DEF ScreeningInv

LEMMA StewardSteps ==
  ASSUME ScreeningInv, NEW c \in Stewards, NEW v \in Suppliers,
         \/ ScreenByHand(c, v) \/ BlockOrUnblock(c, v)
         \/ VerifyOrReject(c, v) \/ PatchSupplier(c, v)
         \/ CommitSteward(c, v)
  PROVE  ScreeningInv'
<1>1. CASE \/ ScreenByHand(c, v) \/ BlockOrUnblock(c, v)
           \/ VerifyOrReject(c, v) \/ PatchSupplier(c, v)
  <2>1. PICK wants \in SupplierRow, holds \in BOOLEAN :
          /\ Starts(c, [of |-> {v}, saw |-> master[v], wants |-> wants, holds |-> holds])
          /\ holds => SupplierFree(v)
    BY <1>1, RequestsWantRows
  <2> DEFINE request == [of |-> {v}, saw |-> master[v], wants |-> wants, holds |-> holds]
  <2>2. /\ steward' = [steward EXCEPT ![c] = request]
        /\ UNCHANGED <<master, billedBy, rescan, periodic, sealed>>
    BY <2>1 DEF Starts
  <2>3. request \in Requested /\ request.of = {v} /\ request.holds = holds
    BY DEF ScreeningInv, ScreeningRecords, Requested
  <2> HIDE DEF request
  <2>4. ScreeningRecords' /\ SweepsRemember' /\ SealedIsRefused'
    BY <2>2, <2>3 DEF ScreeningInv, ScreeningRecords, SweepsRemember, SealedIsRefused, Refuses
  <2>5. ScreensAlone'
    <3>1. /\ steward'[c] = request
          /\ \A d \in Stewards : d # c => steward'[d] = steward[d]
      BY <2>2 DEF ScreeningInv, ScreeningRecords
    <3>2. \A t \in Rescreeners, w \in Suppliers : Screens(t, w)' <=> Screens(t, w)
      BY <2>2 DEF Screens
    <3>3. \A w \in Suppliers : SupplierDue(w)' <=> SupplierDue(w)
      BY <2>2 DEF SupplierDue
    <3>4. ASSUME NEW w \in Suppliers, NEW t \in Rescreeners, Screens(t, w), NEW d \in Stewards,
                 steward'[d].of = {w}
          PROVE  ~steward'[d].holds
      <4>1. CASE d # c
        BY <3>1, <3>4, <4>1 DEF ScreeningInv, ScreensAlone
      <4>2. CASE d = c
        <5>1. w = v
          BY <2>3, <3>1, <3>4, <4>2
        <5>2. ~SupplierFree(v)
          BY <3>4, <5>1 DEF SupplierFree
        <5> QED BY <2>1, <2>3, <3>1, <4>2, <5>2, Zenon
      <4> QED BY <4>1, <4>2
    <3> QED BY <3>2, <3>3, <3>4 DEF ScreeningInv, ScreensAlone
  <2> QED BY <2>4, <2>5 DEF ScreeningInv
<1>2. CASE CommitSteward(c, v)
  <2> DEFINE saw   == steward[c].saw
             wants == steward[c].wants
             after == [f \in DOMAIN saw |-> IF wants[f] = saw[f] THEN master[v][f] ELSE wants[f]]
  <2>1. /\ steward[c].of = {v}
        /\ steward[c].holds \/ SupplierFree(v)
        /\ master' = [master EXCEPT ![v] = after]
        /\ sealed' = IF master[v].blocked /\ ~after.blocked THEN sealed \ BillsOf(v)
                     ELSE IF after.blocked /\ after.screening = "match" THEN sealed \union BillsOf(v)
                     ELSE sealed
        /\ steward' = [steward EXCEPT ![c] = NotAsking]
        /\ UNCHANGED <<billedBy, rescan, periodic>>
    BY <1>2 DEF CommitSteward
  <2>2. steward[c] \in Requested
    BY <2>1, IdleHoldsNothing DEF ScreeningInv, ScreeningRecords
  <2>3. after \in SupplierRow
    BY <2>2, MergedRowIsWhole DEF Requested, ScreeningInv, ScreeningRecords
  <2> HIDE DEF after
  <2>4. ScreeningRecords'
    BY <2>1, <2>3 DEF ScreeningInv, ScreeningRecords, BillsOf
  <2>5. \A t \in Rescreeners : ~Screens(t, v)
    BY <2>1 DEF ScreeningInv, ScreensAlone, SupplierFree
  <2>6. ScreensAlone'
    <3>1. \A u \in Rescreeners, w \in Suppliers : Screens(u, w)' => Screens(u, w) /\ w # v
      BY <2>1, <2>5 DEF Screens
    <3>2. \A d \in Stewards : d # c => steward'[d] = steward[d]
      BY <2>1 DEF ScreeningInv, ScreeningRecords
    <3>3. \A w \in Suppliers : steward'[c].of # {w}
      BY <2>1, IdleHoldsNothing DEF ScreeningInv, ScreeningRecords
    <3>4. \A w \in Suppliers : w # v => master'[w] = master[w]
      BY <2>1 DEF ScreeningInv, ScreeningRecords
    <3> QED BY <3>1, <3>2, <3>3, <3>4 DEF ScreeningInv, ScreensAlone, SupplierDue
  <2>7. SealedIsRefused'
    <3>1. master'[v] = after /\ \A w \in Suppliers : w # v => master'[w] = master[w]
      BY <2>1 DEF ScreeningInv, ScreeningRecords
    <3>2. \A b \in sealed : b \in Bills /\ master[billedBy[b]].blocked /\ billedBy[b] \in Suppliers
      BY DEF ScreeningInv, ScreeningRecords, SealedIsRefused, Refuses
    <3>3. SUFFICES ASSUME NEW b \in sealed' PROVE master'[billedBy[b]].blocked
      BY <2>1 DEF SealedIsRefused, Refuses
    <3>4. b \in Bills /\ billedBy[b] \in Suppliers
      BY <2>1, <3>2, <3>3 DEF BillsOf, ScreeningInv, ScreeningRecords
    <3>5. CASE billedBy[b] # v
      BY <2>1, <3>1, <3>2, <3>3, <3>4, <3>5 DEF BillsOf
    <3>6. CASE billedBy[b] = v
      BY <2>1, <3>1, <3>2, <3>3, <3>4, <3>6 DEF BillsOf
    <3> QED BY <3>5, <3>6
  <2>8. SweepsRemember'
    BY <2>1 DEF ScreeningInv, SweepsRemember
  <2> QED BY <2>4, <2>6, <2>7, <2>8 DEF ScreeningInv
<1> QED BY <1>1, <1>2

\* A merge moves the invoices of a blocked vendor behind another block.
LEMMA MergeSteps ==
  ASSUME ScreeningInv, NEW v \in Suppliers, NEW canonical \in Suppliers,
         MergeVendors(v, canonical)
  PROVE  ScreeningInv'
<1>1. /\ v # canonical
      /\ SupplierFree(v)
      /\ master[v].blocked => master[canonical].blocked
      /\ billedBy' = [b \in Bills |-> IF billedBy[b] = v THEN canonical ELSE billedBy[b]]
      /\ master' = [master EXCEPT ![v] = [master[v] EXCEPT !.status = "inactive"]]
      /\ UNCHANGED <<rescan, steward, periodic, sealed>>
  BY DEF MergeVendors, LocksBoth, Mergeable
<1>2. master[v] \in SupplierRow
  BY DEF ScreeningInv, ScreeningRecords
<1>3. /\ [master[v] EXCEPT !.status = "inactive"] \in SupplierRow
      /\ [master[v] EXCEPT !.status = "inactive"].blocked = master[v].blocked
  BY <1>2, RowsStayWhole DEF VendorStatus
<1>4. ScreeningRecords' /\ SweepsRemember'
  BY <1>1, <1>3 DEF ScreeningInv, ScreeningRecords, SweepsRemember
<1>5. \A w \in Suppliers : master'[w].blocked = master[w].blocked
  BY <1>1, <1>3 DEF ScreeningInv, ScreeningRecords
<1>6. SealedIsRefused'
  BY <1>1, <1>5 DEF ScreeningInv, ScreeningRecords, SealedIsRefused, Refuses
<1>7. ScreensAlone'
  BY <1>1 DEF ScreeningInv, ScreeningRecords, ScreensAlone, Screens, SupplierDue, SupplierFree
<1> QED BY <1>4, <1>6, <1>7 DEF ScreeningInv

LEMMA LapseSteps ==
  ASSUME ScreeningInv, NEW v \in Suppliers, ScreenLapses(v)
  PROVE  ScreeningInv'
<1>1. /\ ~master[v].due
      /\ master' = [master EXCEPT ![v] = [master[v] EXCEPT !.due = TRUE]]
      /\ UNCHANGED <<billedBy, rescan, steward, periodic, sealed>>
  BY DEF ScreenLapses
<1>2. master[v] \in SupplierRow
  BY DEF ScreeningInv, ScreeningRecords
<1>3. /\ [master[v] EXCEPT !.due = TRUE] \in SupplierRow
      /\ [master[v] EXCEPT !.due = TRUE].blocked = master[v].blocked
  BY <1>2, RowsStayWhole
<1>4. ScreeningRecords' /\ SweepsRemember'
  BY <1>1, <1>3 DEF ScreeningInv, ScreeningRecords, SweepsRemember
<1>5. \A w \in Suppliers : master'[w].blocked = master[w].blocked
  BY <1>1, <1>3 DEF ScreeningInv, ScreeningRecords
<1>6. SealedIsRefused'
  BY <1>1, <1>5 DEF ScreeningInv, ScreeningRecords, SealedIsRefused, Refuses
<1>7. ScreensAlone'
  BY <1>1 DEF ScreeningInv, ScreeningRecords, ScreensAlone, Screens, SupplierDue
<1> QED BY <1>4, <1>6, <1>7 DEF ScreeningInv

---------------------------------------------------------------------------
(* The invariant and the property. *)

LEMMA ScreeningStarts == ScreeningInit => ScreeningInv
<1> SUFFICES ASSUME ScreeningInit PROVE ScreeningInv
  OBVIOUS
<1>1. ScreeningRecords
  <2>1. \A s \in {"unverified", "active"} :
          [status |-> s, due |-> TRUE, screening |-> "unscreened", blocked |-> FALSE] \in SupplierRow
    BY DEF SupplierRow, VendorStatus
  <2>2. master \in [Suppliers -> SupplierRow]
    BY <2>1 DEF ScreeningInit
  <2> QED BY <2>2 DEF ScreeningInit, ScreeningRecords
<1>2. SweepsRemember /\ ScreensAlone /\ SealedIsRefused
  BY DEF ScreeningInit, SweepsRemember, ScreensAlone, SealedIsRefused, Screens, NotSweeping
<1> QED BY <1>1, <1>2 DEF ScreeningInv

LEMMA ScreeningSteps == ScreeningInv /\ [ScreeningNext]_screeningVars => ScreeningInv'
<1> SUFFICES ASSUME ScreeningInv, [ScreeningNext]_screeningVars PROVE ScreeningInv'
  OBVIOUS
<1>1. CASE UNCHANGED screeningVars
  BY <1>1 DEF screeningVars, ScreeningInv, ScreeningRecords, SweepsRemember, ScreensAlone,
              SealedIsRefused, Refuses, Screens, SupplierDue
<1>2. CASE \E t \in Rescreeners : StartRescan(t) \/ RescanDies(t)
  BY <1>2, SweepStartsAndDies
<1>3. CASE \E t \in Rescreeners, v \in Suppliers :
             \/ RescreenSupplier(t, v) \/ SkipSupplier(t, v)
             \/ ProviderFails(t, v) \/ CommitRescreen(t, v)
  BY <1>3, SweepSteps
<1>4. CASE \E c \in Stewards : StewardFails(c)
  BY <1>4, StewardGivesUp
<1>5. CASE \E c \in Stewards, v \in Suppliers :
             \/ ScreenByHand(c, v) \/ BlockOrUnblock(c, v)
             \/ VerifyOrReject(c, v) \/ PatchSupplier(c, v)
             \/ CommitSteward(c, v)
  BY <1>5, StewardSteps
<1>6. CASE \E v, canonical \in Suppliers : MergeVendors(v, canonical)
  BY <1>6, MergeSteps
<1>7. CASE \E v \in Suppliers : ScreenLapses(v)
  BY <1>7, LapseSteps
<1> QED BY <1>1, <1>2, <1>3, <1>4, <1>5, <1>6, <1>7 DEF ScreeningNext

\* For any vendors, any replicas and stewards, and any number of requests.
LEMMA ScreeningInvariance == ScreeningSpec => []ScreeningInv
BY ScreeningStarts, ScreeningSteps, PTL DEF ScreeningSpec

\* A list that a sweep begins names vendors, and what is left of it does.
LEMMA ListsAreOfVendors ==
  /\ \A ids \in SeqOf(Suppliers, Len(SupplierOrder)) : ids \in Seq(Suppliers)
  /\ \A ids \in Seq(Suppliers) : ids # <<>> => Tail(ids) \in Seq(Suppliers)
  /\ <<>> \in Seq(Suppliers)
<1>1. ASSUME NEW ids \in SeqOf(Suppliers, Len(SupplierOrder)) PROVE ids \in Seq(Suppliers)
  BY <1>1 DEF SeqOf
<1> QED BY <1>1, HeadTailProperties

\* A sweep at work has a list of vendors, and what it screens is the first of them.
SweepsList ==
  /\ \A t \in Rescreeners : /\ rescan[t].ids \in Seq(Suppliers)
                            /\ rescan[t].result # "none" => rescan[t].ids # <<>>
  /\ turns \in 0 .. MAX_TURNS

\* A step that rewrites the list and the result of one sweep.
LEMMA OneSweepLists ==
  ASSUME SweepsRemember, SweepsList, NEW t \in Rescreeners, NEW ids \in Seq(Suppliers), NEW result,
         result # "none" => ids # <<>>, turns' \in 0 .. MAX_TURNS,
         rescan' = [rescan EXCEPT ![t] = [ids |-> ids, result |-> result]]
  PROVE  SweepsList'
BY DEF SweepsRemember, SweepsList

LEMMA ScreeningTypeSteps ==
  ScreeningInv /\ SweepsList /\ [ScreeningNext]_screeningVars => SweepsList'
<1> SUFFICES ASSUME ScreeningInv, SweepsList, [ScreeningNext]_screeningVars PROVE SweepsList'
  OBVIOUS
<1>0. /\ SweepsRemember
      /\ MAX_TURNS \in Nat /\ turns \in 0 .. MAX_TURNS
      /\ Happens => turns' \in 0 .. MAX_TURNS
  BY VendorScreeningAssumption DEF ScreeningInv, SweepsList, Happens
<1>1. CASE UNCHANGED screeningVars
  BY <1>1 DEF screeningVars, SweepsList
<1>2. ASSUME NEW t \in Rescreeners, StartRescan(t) PROVE SweepsList'
  <2>1. PICK ids \in Seq(Suppliers) : rescan' = [rescan EXCEPT ![t].ids = ids]
    BY <1>2, ListsAreOfVendors DEF StartRescan
  <2>2. rescan[t] = NotSweeping /\ UNCHANGED turns
    BY <1>2 DEF StartRescan
  <2>3. rescan' = [rescan EXCEPT ![t] = [NotSweeping EXCEPT !.ids = ids]]
    BY <2>1, <2>2
  <2>4. rescan' = [rescan EXCEPT ![t] = [ids |-> ids, result |-> "none"]]
    BY <2>3, ListsRewritten
  <2> QED BY <1>0, <2>2, <2>4, OneSweepLists
<1>3. ASSUME NEW t \in Rescreeners, RescanDies(t) PROVE SweepsList'
  <2>1. rescan' = [rescan EXCEPT ![t] = [ids |-> <<>>, result |-> "none"]] /\ Happens
    BY <1>3 DEF RescanDies, NotSweeping
  <2> QED BY <1>0, <2>1, ListsAreOfVendors, OneSweepLists
<1>4. ASSUME NEW t \in Rescreeners, NEW v \in Suppliers, RescreenSupplier(t, v) PROVE SweepsList'
  <2>1. PICK result \in Results : rescan' = [rescan EXCEPT ![t].result = result]
    BY <1>4 DEF RescreenSupplier
  <2>2. rescan[t].ids # <<>> /\ UNCHANGED turns
    BY <1>4 DEF RescreenSupplier, Visits
  <2> QED BY <1>0, <2>1, <2>2 DEF SweepsList, SweepsRemember
<1>5. ASSUME NEW t \in Rescreeners, NEW v \in Suppliers,
             SkipSupplier(t, v) \/ ProviderFails(t, v) \/ CommitRescreen(t, v)
      PROVE  SweepsList'
  <2>1. rescan[t].ids # <<>>
    BY <1>5 DEF SkipSupplier, ProviderFails, CommitRescreen, Visits, Screens, SweepsList
  <2>2. Tail(rescan[t].ids) \in Seq(Suppliers)
    BY <2>1, ListsAreOfVendors DEF SweepsList
  <2>3. rescan' = [rescan EXCEPT ![t] = [ids |-> Tail(rescan[t].ids), result |-> "none"]]
    BY <1>5, ListsRewritten DEF SkipSupplier, ProviderFails, CommitRescreen, NextSupplier
  <2>4. turns' \in 0 .. MAX_TURNS
    BY <1>0, <1>5 DEF SkipSupplier, ProviderFails, CommitRescreen
  <2> QED BY <1>0, <2>2, <2>3, <2>4, OneSweepLists
<1>6. ASSUME UNCHANGED rescan, UNCHANGED turns \/ Happens PROVE SweepsList'
  BY <1>0, <1>6 DEF SweepsList
<1>7. ASSUME NEW c \in Stewards, NEW v \in Suppliers,
             \/ StewardFails(c) \/ ScreenByHand(c, v) \/ BlockOrUnblock(c, v)
             \/ VerifyOrReject(c, v) \/ PatchSupplier(c, v) \/ CommitSteward(c, v)
      PROVE  SweepsList'
  BY <1>6, <1>7 DEF StewardFails, ScreenByHand, BlockOrUnblock, VerifyOrReject, PatchSupplier,
                    CommitSteward, OpensFor, Starts
<1>8. ASSUME NEW v \in Suppliers, NEW w \in Suppliers, MergeVendors(v, w) \/ ScreenLapses(v)
      PROVE  SweepsList'
  BY <1>6, <1>8 DEF MergeVendors, ScreenLapses
<1>9. ASSUME NEW c \in Stewards, StewardFails(c) PROVE SweepsList'
  BY <1>6, <1>9 DEF StewardFails
<1> QED BY <1>1, <1>2, <1>3, <1>4, <1>5, <1>7, <1>8, <1>9 DEF ScreeningNext

\* Every list that a sweep works through is of vendors, and the requests and crashes
\* stay within their bound.
LEMMA ScreeningTyped == ScreeningSpec => []ScreeningTypeOK
<1>1. ScreeningInit => SweepsList
  <2>1. NotSweeping.ids \in Seq(Suppliers) /\ NotSweeping.result = "none"
    BY ListsAreOfVendors DEF NotSweeping
  <2>2. 0 \in 0 .. MAX_TURNS
    BY VendorScreeningAssumption
  <2> HIDE DEF NotSweeping
  <2> QED BY <2>1, <2>2 DEF ScreeningInit, SweepsList
<1>2. ScreeningInv /\ SweepsList => ScreeningTypeOK
  BY DEF ScreeningInv, SweepsList, ScreeningTypeOK
<1> QED BY <1>1, <1>2, ScreeningInvariance, ScreeningTypeSteps, PTL DEF ScreeningSpec

\* A row enters a vendor's periodic trail only while the vendor is active and due,
\* and what a match holds stays refused until a person unblocks its vendor.
THEOREM MatchesAreHeld == ScreeningSpec => MatchesHold
<1>1. ASSUME ScreeningInv, ScreeningInv', [ScreeningNext]_screeningVars
      PROVE  [/\ \A v \in Suppliers : periodic'[v] > periodic[v] => SupplierDue(v)
              /\ \A b \in sealed' : Refuses(b)']_screeningVars
  <2>1. \A b \in sealed' : Refuses(b)'
    BY <1>1 DEF ScreeningInv, SealedIsRefused
  <2>2. SUFFICES ASSUME NEW v \in Suppliers, periodic'[v] > periodic[v] PROVE SupplierDue(v)
    BY <2>1
  <2>3. periodic[v] \in Nat
    BY <1>1 DEF ScreeningInv, ScreeningRecords
  <2>4. periodic' # periodic
    BY <2>2, <2>3
  <2>5. PICK t \in Rescreeners, w \in Suppliers : CommitRescreen(t, w)
    BY <1>1, <2>4 DEF ScreeningNext, screeningVars, StartRescan, RescanDies, RescreenSupplier,
      SkipSupplier, ProviderFails, StewardFails, ScreenByHand, BlockOrUnblock, VerifyOrReject,
      PatchSupplier, CommitSteward, MergeVendors, ScreenLapses, OpensFor, Starts
  <2>6. w = v
    BY <1>1, <2>2, <2>3, <2>5 DEF CommitRescreen, ScreeningInv, ScreeningRecords
  <2> QED BY <1>1, <2>5, <2>6 DEF CommitRescreen, ScreeningInv, ScreensAlone
<1> QED BY <1>1, ScreeningInvariance, PTL DEF ScreeningSpec, MatchesHold

---------------------------------------------------------------------------
(* Reports: the sequences a tick works through, and the marks it makes. *)

\* What is behind the head of a list is the list without it.
LEMMA ListParts ==
  ASSUME NEW S, NEW s \in Seq(S)
  PROVE  /\ \A i \in DOMAIN s : i \in Nat /\ i >= 1 /\ s[i] \in S
         /\ s # <<>> => /\ Head(s) = s[1] /\ 1 \in DOMAIN s /\ Tail(s) \in Seq(S)
                        /\ \A i \in DOMAIN Tail(s) : i + 1 \in DOMAIN s /\ Tail(s)[i] = s[i + 1]
<1>1. DOMAIN s = 1 .. Len(s) /\ Len(s) \in Nat
  OBVIOUS
<1>2. \A i \in DOMAIN s : i \in Nat /\ i >= 1 /\ s[i] \in S
  BY <1>1, ElementOfSeq
<1>3. ASSUME s # <<>>
      PROVE  /\ Head(s) = s[1] /\ 1 \in DOMAIN s /\ Tail(s) \in Seq(S)
             /\ \A i \in DOMAIN Tail(s) : i + 1 \in DOMAIN s /\ Tail(s)[i] = s[i + 1]
  <2>1. Len(s) \in Nat \ {0}
    BY <1>3, EmptySeq
  <2>2. /\ Tail(s) \in Seq(S) /\ Len(Tail(s)) = Len(s) - 1
        /\ \A i \in 1 .. Len(Tail(s)) : Tail(s)[i] = s[i + 1]
    BY <1>3, HeadTailProperties
  <2>3. DOMAIN Tail(s) = 1 .. Len(s) - 1
    BY <2>2
  <2> QED BY <1>1, <2>1, <2>2, <2>3 DEF Head
<1> QED BY <1>2, <1>3

\* The next slot is a later one, whatever the cadence and however late the run is.
LEMMA SlotsAdvance ==
  ASSUME NEW slot \in Nat, NEW now \in Nat
  PROVE  advance_next_run(slot, now) \in Nat /\ advance_next_run(slot, now) > slot
<1> DEFINE step == slot + CADENCE
           q == (now - step) \div CADENCE
<1>1. CADENCE \in Nat /\ CADENCE >= 1
  BY ScheduledReportsAssumption
<1>2. CASE step > now
  BY <1>1, <1>2 DEF advance_next_run
<1>3. CASE ~(step > now)
  <2>1. now - step \in Nat
    BY <1>1, <1>3
  <2>2. q \in Nat
    BY <1>1, <2>1
  <2> HIDE DEF q
  <2>3. CADENCE * (q + 1) \in Nat
    BY <1>1, <2>2
  <2>4. advance_next_run(slot, now) = step + CADENCE * (q + 1)
    BY <1>3 DEF advance_next_run, q
  <2> QED BY <1>1, <2>3, <2>4
<1> QED BY <1>2, <1>3

\* What _mark_failure counts and writes.
LEMMA FailureMarked ==
  ASSUME NEW row \in LoopRow, NEW copy \in LoopRow
  PROVE  /\ Consecutive(copy) \in Nat \ {0}
         /\ MarkedFailed(row, copy) \in LoopRow
         /\ MarkedFailed(row, copy).last = "failure"
         /\ MarkedFailed(row, copy).next = row.next
         /\ MarkedFailed(row, copy).retry <= MAX_STRIKES
         /\ MarkedFailed(row, copy).retry <= Consecutive(copy)
         /\ row.enabled /\ ~MarkedFailed(row, copy).enabled => Consecutive(copy) >= MAX_STRIKES
<1> DEFINE n == Consecutive(copy)
           k == IF n > MAX_STRIKES THEN MAX_STRIKES ELSE n
           b == row.enabled /\ n < MAX_STRIKES
<1>1. n \in Nat \ {0} /\ MAX_STRIKES \in Nat \ {0}
  BY ScheduledReportsAssumption DEF Consecutive, LoopRow
<1>2. MarkedFailed(row, copy) = [row EXCEPT !.last = "failure", !.retry = k, !.enabled = b]
  BY Zenon DEF MarkedFailed
<1>3. k \in 0 .. MAX_STRIKES /\ k <= n
  BY <1>1
<1>4. b \in BOOLEAN
  BY Zenon
<1>5. row.enabled /\ ~b => n >= MAX_STRIKES
  BY <1>1
<1> HIDE DEF n, k, b
<1>6. /\ [row EXCEPT !.last = "failure", !.retry = k, !.enabled = b] \in LoopRow
      /\ [row EXCEPT !.last = "failure", !.retry = k, !.enabled = b].last = "failure"
      /\ [row EXCEPT !.last = "failure", !.retry = k, !.enabled = b].next = row.next
      /\ [row EXCEPT !.last = "failure", !.retry = k, !.enabled = b].retry = k
      /\ [row EXCEPT !.last = "failure", !.retry = k, !.enabled = b].enabled = b
  BY <1>3, <1>4 DEF LoopRow
<1>7. k \in Nat /\ k <= MAX_STRIKES
  BY <1>1, <1>3
<1> USE DEF n
<1>8. row.enabled /\ ~MarkedFailed(row, copy).enabled => n >= MAX_STRIKES
  BY <1>2, <1>5, <1>6, Zenon
<1> QED BY <1>1, <1>2, <1>3, <1>6, <1>7, <1>8

\* What a run that reached somebody writes.
LEMMA RunMarked ==
  ASSUME NEW row \in LoopRow, NEW copy \in LoopRow, NEW reached, NEW now \in Nat
  PROVE  /\ MarkedRun(row, copy, reached, now) \in LoopRow
         /\ MarkedRun(row, copy, reached, now).last # "failure"
         /\ MarkedRun(row, copy, reached, now).enabled = row.enabled
         /\ MarkedRun(row, copy, reached, now).next # copy.next
<1>1. /\ advance_next_run(copy.next, now) \in Nat
      /\ advance_next_run(copy.next, now) # copy.next
  <2>1. copy.next \in Nat
    BY DEF LoopRow
  <2>2. /\ advance_next_run(copy.next, now) \in Nat
        /\ advance_next_run(copy.next, now) > copy.next
    BY <2>1, SlotsAdvance
  <2> QED BY <2>1, <2>2
<1>2. 0 \in 0 .. MAX_STRIKES
  BY ScheduledReportsAssumption
<1> QED BY <1>1, <1>2 DEF MarkedRun, LoopRow

\* A commit that writes only what an edit changed.
LEMMA EditedRow ==
  ASSUME NEW row \in LoopRow, NEW saw \in LoopRow, NEW wants \in LoopRow
  PROVE  LET after == [f \in DOMAIN row |-> IF wants[f] = saw[f] THEN row[f] ELSE wants[f]]
         IN /\ after \in LoopRow
            /\ after.enabled = IF wants.enabled = saw.enabled THEN row.enabled ELSE wants.enabled
            /\ after.next = IF wants.next = saw.next THEN row.next ELSE wants.next
            /\ after.retry = IF wants.retry = saw.retry THEN row.retry ELSE wants.retry
            /\ after.last = IF wants.last = saw.last THEN row.last ELSE wants.last
<1> DEFINE after == [f \in DOMAIN row |-> IF wants[f] = saw[f] THEN row[f] ELSE wants[f]]
<1>1. DOMAIN row = {"enabled", "next", "retry", "last"}
  BY DEF LoopRow
<1>2. /\ after["enabled"] = IF wants["enabled"] = saw["enabled"] THEN row["enabled"] ELSE wants["enabled"]
      /\ after["next"] = IF wants["next"] = saw["next"] THEN row["next"] ELSE wants["next"]
      /\ after["retry"] = IF wants["retry"] = saw["retry"] THEN row["retry"] ELSE wants["retry"]
      /\ after["last"] = IF wants["last"] = saw["last"] THEN row["last"] ELSE wants["last"]
  BY <1>1
<1>3. /\ after["enabled"] \in BOOLEAN /\ after["next"] \in Nat /\ after["retry"] \in 0 .. MAX_STRIKES
      /\ after["last"] \in {"none", "success", "partial", "failure"}
  BY <1>2 DEF LoopRow
<1>4. after = [enabled |-> after["enabled"], next |-> after["next"],
               retry |-> after["retry"], last |-> after["last"]]
  BY <1>1
<1>5. after \in LoopRow
  BY <1>3, <1>4 DEF LoopRow
<1> QED BY <1>2, <1>5

---------------------------------------------------------------------------
(* Reports: the loop. *)

\* The listing names a schedule once: it is onto what is due, and as long as that.
LEMMA ListedApart ==
  ASSUME NEW due \in SUBSET Schedules, NEW q \in Listings(due)
  PROVE  /\ q \in Seq({[of |-> x, row |-> reports[x]] : x \in due})
         /\ \A i, j \in DOMAIN q : q[i].of = q[j].of => i = j
<1> DEFINE n == Cardinality(due)
           h == [i \in 1 .. n |-> q[i].of]
           E == {[of |-> x, row |-> reports[x]] : x \in due}
<1>1. IsFiniteSet(due)
  BY ScheduledReportsAssumption, FS_Subset
<1>2. n \in Nat
  BY <1>1, FS_CardinalityType
<1>3. q \in [1 .. n -> E] /\ \A x \in due : \E i \in DOMAIN q : q[i].of = x
  BY DEF Listings
<1>4. q \in Seq(E)
  BY <1>2, <1>3
<1>5. h \in Surjection(1 .. n, due)
  <2>1. \A i \in 1 .. n : q[i].of \in due
    BY <1>3
  <2>2. DOMAIN q = 1 .. n
    BY <1>3
  <2> QED BY <1>3, <2>1, <2>2 DEF Surjection
<1>6. IsFiniteSet(1 .. n) /\ Cardinality(1 .. n) = n
  BY <1>2, FS_Interval
<1>7. h \in Injection(1 .. n, due)
  <2> HIDE DEF h, n
  <2> USE DEF n
  <2> QED BY <1>5, <1>6, FS_Surjection
<1>8. \A i, j \in 1 .. n : h[i] = h[j] => i = j
  BY <1>7 DEF Injection, IsInjective
<1>9. DOMAIN q = 1 .. n
  BY <1>3
<1> QED BY <1>4, <1>8, <1>9

\* With one mailer, who has mailed and not recorded is alone, and so is his mail.
LEMMA OneTick ==
  ASSUME ReportRecords, ListedOnce, OneMailer, NEW m \in Mailers
  PROVE  /\ mailing[m] \in Tick
         /\ \A i \in DOMAIN mailing[m].listed : i \in Nat /\ i >= 1 /\ mailing[m].listed[i] \in Entry
         /\ \A x \in Schedules : UnderWay(x) <=> \E i \in DOMAIN mailing[m].listed : mailing[m].listed[i].of = x
<1>1. mailing[m] \in Tick /\ mailing[m].listed \in Seq(Entry)
  BY DEF ReportRecords, Tick
<1>2. \A i \in DOMAIN mailing[m].listed : i \in Nat /\ i >= 1 /\ mailing[m].listed[i] \in Entry
  BY <1>1, ListParts
<1>3. \A x \in Schedules : UnderWay(x) <=> \E i \in DOMAIN mailing[m].listed : mailing[m].listed[i].of = x
  BY DEF UnderWay, OneMailer
<1> QED BY <1>1, <1>2, <1>3

LEMMA NoTickIsATick == NoTick \in Tick /\ DOMAIN NoTick.listed = {} /\ NoTick.mailed = FALSE
BY DEF NoTick, Tick

\* A tick that ends without having mailed, or whose mail is forgotten, keeps the invariant.
LEMMA TickEnds ==
  ASSUME ReportsInv, OneMailer, NEW m \in Mailers,
         mailing' = [mailing EXCEPT ![m] = NoTick],
         UNCHANGED <<reports, clock, editing, misses>>,
         had' \in [Schedules -> SUBSET Recipients],
         \A x \in Schedules : had'[x] = had[x] \/ had'[x] = {},
         mailing[m].mailed => had'[Head(mailing[m].listed).of] = {}
  PROVE  ReportsInv'
<1>1. \A n \in Mailers : mailing'[n] = NoTick
  BY DEF ReportsInv, ReportRecords, OneMailer
<1>2. ReportRecords'
  BY NoTickIsATick DEF ReportsInv, ReportRecords
<1>3. ListedOnce' /\ NotYetSent' /\ CopiesCounted'
  BY <1>1, NoTickIsATick DEF ListedOnce, NotYetSent, CopiesCounted
<1>4. \A x \in Schedules : ~UnderWay(x)'
  BY <1>1, NoTickIsATick DEF UnderWay
<1>5. MarkersCounted'
  BY <1>4 DEF ReportsInv, MarkersCounted
<1>6. SentByTheRun'
  <2>1. SUFFICES ASSUME NEW x \in Schedules, had'[x] # {} PROVE reports'[x] = Absent
    BY DEF SentByTheRun
  <2>2. had[x] # {}
    BY <2>1
  <2>3. ~\E n \in Mailers : InTurn(n, x) /\ mailing[n].mailed
    BY <2>1 DEF OneMailer, InTurn
  <2> QED BY <2>2, <2>3 DEF ReportsInv, SentByTheRun
<1> QED BY <1>2, <1>3, <1>5, <1>6 DEF ReportsInv

LEMMA ListingSteps ==
  ASSUME ReportsInv, OneMailer, NEW m \in Mailers, ListDue(m)
  PROVE  ReportsInv'
<1> DEFINE due == {x \in Schedules : ReportDue(x)}
           E == {[of |-> x, row |-> reports[x]] : x \in due}
<1>1. PICK q \in Listings(due) :
        mailing' = [mailing EXCEPT ![m] = [NoTick EXCEPT !.since = clock, !.listed = q]]
  BY DEF ListDue
<1>2. mailing[m] = NoTick /\ UNCHANGED <<reports, clock, editing, misses, had>>
  BY DEF ListDue
<1>3. q \in Seq(E) /\ \A i, j \in DOMAIN q : q[i].of = q[j].of => i = j
  BY ListedApart
<1>4. \A x \in due : reports[x] \in LoopRow /\ reports[x].enabled /\ reports[x] # Absent
  BY DEF ReportDue, Absent, ReportsInv, ReportRecords
<1>5. \A x \in due : [of |-> x, row |-> reports[x]] \in Entry
  BY <1>4 DEF Entry
<1>6. q \in Seq(Entry)
  BY <1>3, <1>5, SeqMonotonic
<1>7. \A i \in DOMAIN q : q[i] \in E
  BY <1>3, ListParts
<1>8. \A i \in DOMAIN q : q[i].of \in due /\ q[i].row = reports[q[i].of]
  BY <1>7
<1> HIDE DEF E
<1> DEFINE tick == [NoTick EXCEPT !.since = clock, !.listed = q]
<1>9. tick \in Tick /\ tick.listed = q /\ tick.mailed = FALSE
  BY <1>6 DEF NoTick, Tick, ReportsInv, ReportRecords
<1> HIDE DEF tick
<1>10. mailing' = [mailing EXCEPT ![m] = tick]
  BY <1>1 DEF tick
<1>11. \A n \in Mailers : mailing'[n] = tick
  BY <1>10 DEF ReportsInv, ReportRecords, OneMailer
<1>12. ReportRecords'
  BY <1>2, <1>9, <1>10 DEF ReportsInv, ReportRecords
<1>13. ListedOnce'
  BY <1>3, <1>9, <1>11 DEF ListedOnce
<1>14. \A x \in due : had[x] = {}
  BY <1>2, <1>4, NoTickIsATick DEF ReportsInv, SentByTheRun, OneMailer
<1>15. NotYetSent'
  BY <1>2, <1>8, <1>9, <1>11, <1>14 DEF NotYetSent
<1>16. SentByTheRun'
  BY <1>2, NoTickIsATick DEF ReportsInv, SentByTheRun, OneMailer
<1>17. \A x \in due : reports[x].last = "failure" => misses[x] >= reports[x].retry
  BY <1>4 DEF ReportsInv, MarkersCounted
<1>18. CopiesCounted'
  BY <1>2, <1>8, <1>9, <1>11, <1>17 DEF CopiesCounted
<1>19. \A x \in Schedules : UnderWay(x)' => x \in due
  BY <1>8, <1>9, <1>11 DEF UnderWay
<1>20. MarkersCounted'
  BY <1>2, <1>17, <1>19 DEF ReportsInv, MarkersCounted
<1> QED BY <1>12, <1>13, <1>15, <1>16, <1>18, <1>20 DEF ReportsInv

\* Marking the tick as mailed.
LEMMA TickMailed ==
  ASSUME NEW tick \in Tick, NEW reached \in SUBSET Recipients
  PROVE  /\ [tick EXCEPT !.mailed = TRUE, !.reached = reached] \in Tick
         /\ [tick EXCEPT !.mailed = TRUE, !.reached = reached].listed = tick.listed
         /\ [tick EXCEPT !.mailed = TRUE, !.reached = reached].mailed
         /\ [tick EXCEPT !.mailed = TRUE, !.reached = reached].reached = reached
BY DEF Tick

LEMMA MailingSteps ==
  ASSUME ReportsInv, OneMailer, NEW m \in Mailers, NEW x \in Schedules, RunSchedule(m, x)
  PROVE  ReportsInv'
<1>1. PICK reached \in SUBSET Recipients :
        /\ mailing' = [mailing EXCEPT ![m].mailed = TRUE, ![m].reached = reached]
        /\ had' = IF Head(mailing[m].listed).row.next = reports[x].next
                  THEN [had EXCEPT ![x] = @ \union reached] ELSE had
  BY DEF RunSchedule
<1>2. /\ InTurn(m, x) /\ ~mailing[m].mailed /\ x \notin Poisoned
      /\ UNCHANGED <<reports, clock, editing, misses>>
  BY DEF RunSchedule
<1>3. mailing[m] \in Tick /\ mailing[m].listed \in Seq(Entry)
  BY DEF ReportsInv, ReportRecords, Tick
<1> DEFINE tick == [mailing[m] EXCEPT !.mailed = TRUE, !.reached = reached]
           listed == mailing[m].listed
<1>4. /\ tick \in Tick /\ tick.listed = listed
      /\ tick.mailed /\ tick.reached = reached
  BY <1>3, TickMailed
<1>5. mailing' = [mailing EXCEPT ![m] = tick]
  BY <1>1 DEF ReportsInv, ReportRecords
<1> HIDE DEF tick
<1>6. \A n \in Mailers : n = m /\ mailing'[n] = tick
  BY <1>5 DEF ReportsInv, ReportRecords, OneMailer
<1>7. /\ listed # <<>> /\ Head(listed).of = x /\ Head(listed) = listed[1] /\ 1 \in DOMAIN listed
      /\ \A i \in DOMAIN listed : i \in Nat /\ i >= 1 /\ listed[i].of \in Schedules
  <2>1. \A i \in DOMAIN listed : i \in Nat /\ i >= 1 /\ listed[i] \in Entry
    BY <1>3, ListParts
  <2>2. \A i \in DOMAIN listed : listed[i].of \in Schedules
    BY <2>1 DEF Entry
  <2>3. listed # <<>> /\ Head(listed).of = x
    BY <1>2 DEF InTurn
  <2>4. Head(listed) = listed[1] /\ 1 \in DOMAIN listed
    BY <1>3, <2>3, ListParts
  <2> QED BY <2>1, <2>2, <2>3, <2>4
<1>8. had[x] = {}
  BY <1>2, <1>7 DEF ReportsInv, NotYetSent
<1>9. /\ had' \in [Schedules -> SUBSET Recipients]
      /\ \A y \in Schedules : y # x => had'[y] = had[y]
      /\ had'[x] # {} => Head(listed).row.next = reports[x].next /\ had'[x] \subseteq reached
  BY <1>1, <1>8 DEF ReportsInv, ReportRecords
<1>10. ReportRecords'
  BY <1>2, <1>4, <1>5, <1>9 DEF ReportsInv, ReportRecords
<1>11. ListedOnce'
  BY <1>2, <1>4, <1>6, <1>7 DEF ReportsInv, ListedOnce
<1>12. NotYetSent'
  <2>1. SUFFICES ASSUME NEW i \in DOMAIN listed, i > 1 PROVE had'[listed[i].of] = {}
    BY <1>4, <1>6, <1>7 DEF NotYetSent
  <2>2. listed[i].of # x
    BY <1>7, <2>1 DEF ReportsInv, ListedOnce
  <2>3. listed[i].of \in Schedules
    BY <1>7, <2>1
  <2> QED BY <1>9, <2>1, <2>2, <2>3 DEF ReportsInv, NotYetSent
<1>13. SentByTheRun'
  <2>1. SUFFICES ASSUME NEW y \in Schedules, had'[y] # {}, reports[y] # Absent
                 PROVE  \E n \in Mailers : /\ InTurn(n, y)' /\ mailing'[n].mailed
                                          /\ had'[y] \subseteq mailing'[n].reached
                                          /\ Head(mailing'[n].listed).row.next = reports'[y].next
    BY <1>2 DEF SentByTheRun
  <2>2. CASE y = x
    BY <1>2, <1>4, <1>6, <1>7, <1>9, <2>1, <2>2 DEF InTurn
  <2>3. CASE y # x
    <3>1. had[y] # {}
      BY <1>9, <2>1, <2>3
    <3> QED BY <1>2, <1>6, <2>1, <3>1 DEF ReportsInv, SentByTheRun
  <2> QED BY <2>2, <2>3
<1>14. CopiesCounted'
  BY <1>2, <1>4, <1>6 DEF ReportsInv, CopiesCounted
<1>15. \A y \in Schedules : UnderWay(y)' <=> UnderWay(y)
  BY <1>4, <1>6 DEF UnderWay
<1>16. MarkersCounted'
  BY <1>2, <1>15 DEF ReportsInv, MarkersCounted
<1> QED BY <1>10, <1>11, <1>12, <1>13, <1>14, <1>16 DEF ReportsInv

\* What is left of a tick once its first report is recorded.
LEMMA RestOfTick ==
  ASSUME NEW tick \in Tick, tick.listed # <<>>,
         NEW after, after = IF Tail(tick.listed) = <<>> THEN NoTick
                            ELSE [tick EXCEPT !.listed = Tail(tick.listed), !.mailed = FALSE, !.reached = {}]
  PROVE  /\ after \in Tick /\ after.mailed = FALSE
         /\ \A i \in DOMAIN after.listed : i \in Nat /\ i >= 1 /\ i + 1 \in DOMAIN tick.listed
                                         /\ i + 1 > 1 /\ after.listed[i] = tick.listed[i + 1]
<1>1. tick.listed \in Seq(Entry)
  BY DEF Tick
<1>2. /\ Tail(tick.listed) \in Seq(Entry)
      /\ \A i \in DOMAIN Tail(tick.listed) : /\ i + 1 \in DOMAIN tick.listed
                                            /\ Tail(tick.listed)[i] = tick.listed[i + 1]
  BY <1>1, ListParts
<1>3. \A i \in DOMAIN Tail(tick.listed) : i \in Nat /\ i >= 1 /\ i + 1 > 1
  BY <1>2, ListParts
<1>4. CASE Tail(tick.listed) = <<>>
  BY <1>4, NoTickIsATick
<1>5. CASE Tail(tick.listed) # <<>>
  <2>1. after \in Tick /\ after.mailed = FALSE /\ after.listed = Tail(tick.listed)
    BY <1>2, <1>5 DEF Tick
  <2> QED BY <1>2, <1>3, <2>1
<1> QED BY <1>4, <1>5

LEMMA RecordingSteps ==
  ASSUME ReportsInv, OneMailer, NEW m \in Mailers, NEW x \in Schedules, RecordRun(m, x)
  PROVE  /\ ReportsInv'
         /\ reports[x].enabled /\ ~reports'[x].enabled => misses'[x] = MAX_STRIKES
         /\ \A y \in Schedules : y # x => reports'[y] = reports[y]
<1> DEFINE listed  == mailing[m].listed
           copy    == Head(listed).row
           reached == mailing[m].reached
           after   == IF reached = {} THEN MarkedFailed(reports[x], copy)
                      ELSE MarkedRun(reports[x], copy, reached, mailing[m].since)
           rest    == mailing'[m]
<1>1. /\ InTurn(m, x) /\ mailing[m].mailed
      /\ reports' = IF reports[x] = Absent THEN reports ELSE [reports EXCEPT ![x] = after]
      /\ misses' = [misses EXCEPT ![x] =
           IF reached # {} THEN 0 ELSE IF @ < MAX_STRIKES THEN @ + 1 ELSE @]
      /\ had' = [had EXCEPT ![x] = IF reports'[x].next = reports[x].next THEN @ ELSE {}]
      /\ NextInTick(m)
      /\ UNCHANGED <<clock, editing>>
  BY DEF RecordRun
<1>2. mailing[m] \in Tick /\ listed \in Seq(Entry) /\ mailing[m].since \in Nat
  BY DEF ReportsInv, ReportRecords, Tick
<1>3. listed # <<>> /\ Head(listed).of = x
  BY <1>1 DEF InTurn
<1>4. /\ Head(listed) = listed[1] /\ 1 \in DOMAIN listed
      /\ \A i \in DOMAIN listed : listed[i] \in Entry
  BY <1>2, <1>3, ListParts
<1>5. copy \in LoopRow /\ \A i \in DOMAIN listed : listed[i].of \in Schedules
  BY <1>4 DEF Entry
<1>6. /\ mailing' = [mailing EXCEPT ![m] = rest]
      /\ rest = IF Tail(listed) = <<>> THEN NoTick
                ELSE [mailing[m] EXCEPT !.listed = Tail(listed), !.mailed = FALSE, !.reached = {}]
  BY <1>1 DEF NextInTick, ReportsInv, ReportRecords
<1>7. /\ rest \in Tick /\ rest.mailed = FALSE
      /\ \A i \in DOMAIN rest.listed : i \in Nat /\ i >= 1 /\ i + 1 \in DOMAIN listed
                                      /\ i + 1 > 1 /\ rest.listed[i] = listed[i + 1]
  BY <1>2, <1>3, <1>6, RestOfTick
<1>8. \A n \in Mailers : n = m
  BY DEF OneMailer
<1>9. \A i \in DOMAIN rest.listed : rest.listed[i].of \in Schedules /\ rest.listed[i].of # x
  <2>1. \A i, j \in DOMAIN listed : listed[i].of = listed[j].of => i = j
    BY DEF ReportsInv, ListedOnce
  <2> HIDE DEF rest, listed
  <2> QED BY <1>3, <1>4, <1>5, <1>7, <2>1
<1>10. MAX_STRIKES \in Nat \ {0} /\ misses[x] \in 0 .. MAX_STRIKES
  BY ScheduledReportsAssumption DEF ReportsInv, ReportRecords
<1>11. copy.last = "failure" => misses[x] >= copy.retry
  BY <1>3, <1>4 DEF ReportsInv, CopiesCounted
<1>12. reports[x] # Absent => reports[x] \in LoopRow
  BY DEF ReportsInv, ReportRecords
\* What the row and its count become.
<1>13. /\ misses'[x] = IF reached # {} THEN 0 ELSE IF misses[x] < MAX_STRIKES THEN misses[x] + 1 ELSE misses[x]
       /\ misses' \in [Schedules -> 0 .. MAX_STRIKES]
       /\ \A y \in Schedules : y # x => misses'[y] = misses[y]
  BY <1>1, <1>10 DEF ReportsInv, ReportRecords
<1>14. ASSUME reports[x] # Absent, reached = {}
       PROVE  /\ after \in LoopRow /\ after.next = reports[x].next
              /\ misses'[x] >= after.retry
              /\ reports[x].enabled /\ ~after.enabled => misses'[x] = MAX_STRIKES
  <2>1. after = MarkedFailed(reports[x], copy)
    BY <1>14
  <2>2. /\ Consecutive(copy) \in Nat \ {0}
        /\ after \in LoopRow
        /\ after.next = reports[x].next
        /\ after.retry <= MAX_STRIKES
        /\ after.retry <= Consecutive(copy)
        /\ reports[x].enabled /\ ~after.enabled => Consecutive(copy) >= MAX_STRIKES
    BY <1>5, <1>12, <1>14, <2>1, FailureMarked
  <2>3. Consecutive(copy) <= misses[x] + 1
    BY <1>5, <1>10, <1>11 DEF Consecutive, LoopRow
  <2>4. after.retry \in Nat
    BY <2>2 DEF LoopRow
  <2>5. misses'[x] = IF misses[x] < MAX_STRIKES THEN misses[x] + 1 ELSE misses[x]
    BY <1>13, <1>14
  <2> HIDE DEF after
  <2>6. misses'[x] >= after.retry
    BY <1>10, <2>2, <2>3, <2>4, <2>5
  <2>7. Consecutive(copy) >= MAX_STRIKES => misses'[x] = MAX_STRIKES
    BY <1>10, <2>2, <2>3, <2>5
  <2> QED BY <2>2, <2>6, <2>7
<1>15. ASSUME reports[x] # Absent, reached # {}
       PROVE  /\ after \in LoopRow /\ after.last # "failure"
              /\ after.enabled = reports[x].enabled /\ after.next # copy.next
  <2>1. after = MarkedRun(reports[x], copy, reached, mailing[m].since)
    BY <1>15
  <2> QED BY <1>2, <1>5, <1>12, <1>15, <2>1, RunMarked
<1> HIDE DEF after
<1>16. /\ reports' \in [Schedules -> LoopRow \union {Absent}]
       /\ \A y \in Schedules : y # x => reports'[y] = reports[y]
       /\ reports[x] = Absent => reports'[x] = Absent
       /\ reports[x] # Absent => reports'[x] = after
  BY <1>1, <1>14, <1>15 DEF ReportsInv, ReportRecords
<1>17. /\ had' \in [Schedules -> SUBSET Recipients]
       /\ \A y \in Schedules : y # x => had'[y] = had[y]
       /\ had'[x] = IF reports'[x].next = reports[x].next THEN had[x] ELSE {}
  BY <1>1 DEF ReportsInv, ReportRecords
<1> HIDE DEF rest
<1>18. ReportRecords'
  BY <1>1, <1>6, <1>7, <1>13, <1>16, <1>17 DEF ReportsInv, ReportRecords
<1>19. \A n \in Mailers : mailing'[n] = rest
  BY <1>8 DEF rest
<1>20. ListedOnce'
  <2>1. \A i, j \in DOMAIN listed : listed[i].of = listed[j].of => i = j
    BY DEF ReportsInv, ListedOnce
  <2>2. \A i, j \in DOMAIN rest.listed : rest.listed[i].of = rest.listed[j].of => i = j
    <3> HIDE DEF listed
    <3> QED BY <1>7, <2>1
  <2> QED BY <1>7, <1>19, <2>2 DEF ListedOnce
<1>21. NotYetSent'
  <2>1. \A i \in DOMAIN listed : i > 1 => had[listed[i].of] = {}
    BY DEF ReportsInv, NotYetSent
  <2>2. \A i \in DOMAIN rest.listed : had'[rest.listed[i].of] = {}
    <3> HIDE DEF listed
    <3> QED BY <1>7, <1>9, <1>17, <2>1
  <2> QED BY <1>19, <2>2 DEF NotYetSent
<1>22. CopiesCounted'
  <2>1. \A i \in DOMAIN listed : listed[i].row.last = "failure" => misses[listed[i].of] >= listed[i].row.retry
    BY DEF ReportsInv, CopiesCounted
  <2>2. \A i \in DOMAIN rest.listed :
          rest.listed[i].row.last = "failure" => misses'[rest.listed[i].of] >= rest.listed[i].row.retry
    <3> HIDE DEF listed
    <3> QED BY <1>7, <1>9, <1>13, <2>1
  <2> QED BY <1>19, <2>2 DEF CopiesCounted
<1>23. SentByTheRun'
  <2>1. SUFFICES ASSUME NEW y \in Schedules, had'[y] # {}, reports'[y] # Absent PROVE FALSE
    BY DEF SentByTheRun
  <2>2. had[y] # {} /\ reports[y] # Absent
    BY <1>16, <1>17, <2>1
  <2>3. /\ InTurn(m, y) /\ had[y] \subseteq mailing[m].reached
        /\ Head(mailing[m].listed).row.next = reports[y].next
    BY <1>8, <2>2 DEF ReportsInv, SentByTheRun
  <2>4. y = x
    BY <1>3, <2>3 DEF InTurn
  <2>5. reached # {}
    BY <2>2, <2>3
  <2>6. reports'[x].next # copy.next
    BY <1>15, <1>16, <2>2, <2>4, <2>5
  <2> QED BY <1>17, <2>1, <2>3, <2>4, <2>6
<1>24. \A y \in Schedules : UnderWay(y)' => UnderWay(y)
  <2> HIDE DEF listed
  <2> QED BY <1>7, <1>19 DEF UnderWay, listed
<1>25. MarkersCounted'
  <2>1. ASSUME NEW y \in Schedules, reports'[y].last = "failure", y = x
        PROVE  misses'[y] >= reports'[y].retry
    <3>1. reports[x] # Absent
      BY <1>16, <2>1 DEF Absent
    <3>2. reached = {}
      BY <1>15, <1>16, <2>1, <3>1
    <3> QED BY <1>14, <1>16, <2>1, <3>1, <3>2
  <2>2. ASSUME NEW y \in Schedules, reports'[y].last = "failure", y # x
        PROVE  \/ misses'[y] >= reports'[y].retry
               \/ /\ ~reports'[y].enabled /\ ~UnderWay(y)'
                  /\ editing'.of = {y} => editing'.saw = reports'[y]
    BY <1>1, <1>13, <1>16, <1>24, <2>2 DEF ReportsInv, MarkersCounted
  <2> QED BY <2>1, <2>2 DEF MarkersCounted
<1>26. reports[x].enabled /\ ~reports'[x].enabled => misses'[x] = MAX_STRIKES
  BY <1>14, <1>15, <1>16
<1>27. ReportsInv'
  BY <1>18, <1>20, <1>21, <1>22, <1>23, <1>25 DEF ReportsInv
<1> QED BY <1>16, <1>26, <1>27

LEMMA LoopEnds ==
  ASSUME ReportsInv, OneMailer, NEW m \in Mailers,
         TickLost(m) \/ \E x \in Schedules : Unwinds(m, x)
  PROVE  ReportsInv'
<1>1. CASE TickLost(m)
  <2>1. /\ mailing' = [mailing EXCEPT ![m] = NoTick]
        /\ had' = IF mailing[m].mailed THEN [had EXCEPT ![Head(mailing[m].listed).of] = {}] ELSE had
        /\ UNCHANGED <<reports, clock, editing, misses>>
    BY <1>1 DEF TickLost
  <2>2. mailing[m] \in Tick /\ mailing[m].listed \in Seq(Entry)
    BY DEF ReportsInv, ReportRecords, Tick
  <2>3. mailing[m].mailed => Head(mailing[m].listed).of \in Schedules
    <3>1. SUFFICES ASSUME mailing[m].mailed PROVE Head(mailing[m].listed).of \in Schedules
      OBVIOUS
    <3>2. mailing[m].listed # <<>>
      BY <3>1 DEF ReportsInv, ListedOnce
    <3>3. Head(mailing[m].listed) \in Entry
      BY <2>2, <3>2, HeadTailProperties
    <3> QED BY <3>3 DEF Entry
  <2>4. /\ had' \in [Schedules -> SUBSET Recipients]
        /\ \A x \in Schedules : had'[x] = had[x] \/ had'[x] = {}
        /\ mailing[m].mailed => had'[Head(mailing[m].listed).of] = {}
    BY <2>1, <2>3 DEF ReportsInv, ReportRecords
  <2> QED BY <2>1, <2>4, TickEnds
<1>2. CASE \E x \in Schedules : Unwinds(m, x)
  <2>1. PICK x \in Schedules : Unwinds(m, x)
    BY <1>2
  <2>2. /\ mailing' = [mailing EXCEPT ![m] = NoTick]
        /\ UNCHANGED <<reports, clock, editing, misses, had>>
        /\ ~mailing[m].mailed
    BY <2>1 DEF Unwinds, InTurn, ReportsInv, ListedOnce
  <2>3. had' \in [Schedules -> SUBSET Recipients]
    BY <2>2 DEF ReportsInv, ReportRecords
  <2> QED BY <2>2, <2>3, TickEnds
<1> QED BY <1>1, <1>2

---------------------------------------------------------------------------
(* Reports: the operator. *)

\* A copy that the loop listed stays counted while the history of its schedule stands.
LEMMA OperatorKeeps ==
  ASSUME ReportsInv, NEW x \in Schedules,
         mailing' = mailing, clock' = clock,
         reports' \in [Schedules -> LoopRow \union {Absent}],
         editing' \in PendingEdit \union {NoEdit},
         \A y \in Schedules : y # x =>
           /\ reports'[y] = reports[y] /\ misses'[y] = misses[y] /\ had'[y] = had[y]
           /\ editing'.of = {y} => editing' = editing,
         misses' \in [Schedules -> 0 .. MAX_STRIKES],
         misses'[x] = misses[x] \/ ~UnderWay(x),
         had' \in [Schedules -> SUBSET Recipients],
         had'[x] = {} \/ (had'[x] = had[x] /\ reports[x] # Absent /\ reports'[x].next = reports[x].next),
         reports'[x].last = "failure" =>
           \/ misses'[x] >= reports'[x].retry
           \/ /\ ~reports'[x].enabled /\ ~UnderWay(x)
              /\ editing'.of = {x} => editing'.saw = reports'[x]
  PROVE  ReportsInv'
<1>1. ReportRecords' /\ ListedOnce'
  BY DEF ReportsInv, ReportRecords, ListedOnce
<1>2. \A y \in Schedules : UnderWay(y)' <=> UnderWay(y)
  BY DEF UnderWay
<1>3. ASSUME NEW m \in Mailers, NEW i \in DOMAIN mailing[m].listed
      PROVE  /\ mailing[m].listed[i].of \in Schedules
             /\ UnderWay(mailing[m].listed[i].of)
  <2>1. mailing[m].listed \in Seq(Entry)
    BY DEF ReportsInv, ReportRecords, Tick
  <2>2. mailing[m].listed[i] \in Entry
    BY <2>1, ListParts
  <2> QED BY <2>2 DEF Entry, UnderWay
<1>4. NotYetSent'
  <2>1. \A y \in Schedules : had[y] = {} => had'[y] = {}
    OBVIOUS
  <2> QED BY <1>3, <2>1 DEF ReportsInv, NotYetSent
<1>5. SentByTheRun'
  <2>1. SUFFICES ASSUME NEW y \in Schedules, had'[y] # {}, reports'[y] # Absent
                 PROVE  \E m \in Mailers : /\ InTurn(m, y) /\ mailing[m].mailed
                                          /\ had'[y] \subseteq mailing[m].reached
                                          /\ Head(mailing[m].listed).row.next = reports'[y].next
    BY DEF SentByTheRun, InTurn
  <2>2. had'[y] = had[y] /\ reports[y] # Absent /\ reports'[y].next = reports[y].next
    BY <2>1
  <2> QED BY <2>1, <2>2 DEF ReportsInv, SentByTheRun
<1>6. CopiesCounted'
  <2>1. SUFFICES ASSUME NEW m \in Mailers, NEW i \in DOMAIN mailing[m].listed
                 PROVE  misses'[mailing[m].listed[i].of] = misses[mailing[m].listed[i].of]
    BY DEF ReportsInv, CopiesCounted
  <2> QED BY <1>3
<1>7. MarkersCounted'
  <2>1. SUFFICES ASSUME NEW y \in Schedules, reports'[y].last = "failure"
                 PROVE  \/ misses'[y] >= reports'[y].retry
                        \/ /\ ~reports'[y].enabled /\ ~UnderWay(y)
                           /\ editing'.of = {y} => editing'.saw = reports'[y]
    BY <1>2 DEF MarkersCounted
  <2>2. CASE y = x
    BY <2>1, <2>2
  <2>3. CASE y # x
    <3>1. reports[y].last = "failure" /\ reports'[y] = reports[y] /\ misses'[y] = misses[y]
      BY <2>1, <2>3
    <3>2. editing'.of = {y} => editing' = editing
      BY <2>3
    <3> QED BY <3>1, <3>2 DEF ReportsInv, MarkersCounted
  <2> QED BY <2>2, <2>3
<1> QED BY <1>1, <1>4, <1>5, <1>6, <1>7 DEF ReportsInv

\* Which schedule an edit is of.
LEMMA EditIsOf ==
  /\ NoEdit \notin PendingEdit /\ \A x \in Schedules : NoEdit.of # {x}
  /\ \A e \in PendingEdit : \E x \in Schedules : e.of = {x}
  /\ \A e \in PendingEdit : /\ e.saw \in LoopRow /\ e.wants \in LoopRow \union {Absent}
                            /\ e.wants \in Edited(e.saw)
<1>1. NoEdit.of = {}
  BY DEF NoEdit
<1>2. \A e \in PendingEdit : \E x \in Schedules : e.of = {x}
  BY DEF PendingEdit
<1>3. \A e \in PendingEdit : /\ e.saw \in LoopRow /\ e.wants \in LoopRow \union {Absent}
                             /\ e.wants \in Edited(e.saw)
  BY DEF PendingEdit
<1> QED BY <1>1, <1>2, <1>3

\* What an edit may want of the row it read.
LEMMA EditsWanted ==
  ASSUME NEW row \in LoopRow, NEW wants \in Edited(row)
  PROVE  /\ wants \in LoopRow \union {Absent}
         /\ wants # Absent =>
              \/ wants = row
              \/ row.last = "failure" /\ wants.last = "none"
              \/ /\ wants.enabled /\ row.last # "failure"
                 /\ wants.last = row.last /\ wants.retry = row.retry
              \/ ~wants.enabled /\ wants.last = row.last /\ wants.retry = row.retry
              \/ wants.enabled = row.enabled /\ wants.last = row.last /\ wants.retry = row.retry
<1>1. CASE wants = Enabled(row)
  <2>1. CASE row.last = "failure"
    <3>1. wants = [row EXCEPT !.enabled = TRUE, !.last = "none", !.retry = 0]
      BY <1>1, <2>1 DEF Enabled
    <3>2. 0 \in 0 .. MAX_STRIKES
      BY ScheduledReportsAssumption
    <3>3. wants \in LoopRow /\ wants.last = "none"
      BY <3>1, <3>2 DEF LoopRow
    <3> QED BY <2>1, <3>3
  <2>2. CASE row.last # "failure"
    <3>1. wants = [row EXCEPT !.enabled = TRUE]
      BY <1>1, <2>2 DEF Enabled
    <3>2. /\ wants \in LoopRow /\ wants.enabled
          /\ wants.last = row.last /\ wants.retry = row.retry
      BY <3>1 DEF LoopRow
    <3> QED BY <2>2, <3>2
  <2> QED BY <2>1, <2>2
<1>2. CASE wants = [row EXCEPT !.enabled = FALSE]
  BY <1>2 DEF LoopRow
<1>3. CASE wants = Absent
  BY <1>3
<1>4. CASE \E slot \in 0 .. LAST_TICK : wants = [row EXCEPT !.next = slot]
  BY <1>4, ScheduledReportsAssumption DEF LoopRow
<1> QED BY <1>1, <1>2, <1>3, <1>4 DEF Edited

LEMMA CreationSteps ==
  ASSUME ReportsInv, NEW x \in Schedules, NEW slot \in 0 .. LAST_TICK, CreateReport(x, slot)
  PROVE  ReportsInv'
<1>1. /\ reports[x] = Absent /\ ~UnderWay(x) /\ editing.of # {x}
      /\ reports' = [reports EXCEPT ![x] = Created(slot)]
      /\ misses' = [misses EXCEPT ![x] = 0]
      /\ had' = [had EXCEPT ![x] = {}]
      /\ UNCHANGED <<clock, mailing, editing>>
  BY DEF CreateReport
<1>2. Created(slot) \in LoopRow /\ Created(slot).last = "none"
  BY ScheduledReportsAssumption DEF Created, LoopRow
<1>3. reports' \in [Schedules -> LoopRow \union {Absent}] /\ reports'[x].last # "failure"
  BY <1>1, <1>2 DEF ReportsInv, ReportRecords
<1>4. misses' \in [Schedules -> 0 .. MAX_STRIKES] /\ had' \in [Schedules -> SUBSET Recipients] /\ had'[x] = {}
  BY <1>1, ScheduledReportsAssumption DEF ReportsInv, ReportRecords
<1>5. \A y \in Schedules : y # x =>
        reports'[y] = reports[y] /\ misses'[y] = misses[y] /\ had'[y] = had[y]
  BY <1>1 DEF ReportsInv, ReportRecords
<1>6. editing' \in PendingEdit \union {NoEdit}
  BY <1>1 DEF ReportsInv, ReportRecords
<1> QED BY <1>1, <1>3, <1>4, <1>5, <1>6, OperatorKeeps

LEMMA EditOpens ==
  ASSUME ReportsInv, NEW x \in Schedules, OpenEdit(x)
  PROVE  ReportsInv'
<1>1. PICK wants \in Edited(reports[x]) : editing' = [of |-> {x}, saw |-> reports[x], wants |-> wants]
  BY DEF OpenEdit
<1>2. reports[x] # Absent /\ UNCHANGED <<reports, clock, mailing, misses, had>>
  BY DEF OpenEdit
<1>3. reports[x] \in LoopRow
  BY <1>2 DEF ReportsInv, ReportRecords
<1>4. wants \in LoopRow \union {Absent}
  BY <1>3, EditsWanted
<1>5. editing' \in PendingEdit /\ editing'.of = {x} /\ editing'.saw = reports'[x]
  BY <1>1, <1>2, <1>3, <1>4 DEF PendingEdit
<1>6. \A y \in Schedules : y # x => editing'.of # {y}
  BY <1>5
<1>7. reports'[x].last = "failure" =>
        \/ misses'[x] >= reports'[x].retry
        \/ ~reports'[x].enabled /\ ~UnderWay(x) /\ (editing'.of = {x} => editing'.saw = reports'[x])
  BY <1>2, <1>5 DEF ReportsInv, MarkersCounted
<1>8. /\ reports' \in [Schedules -> LoopRow \union {Absent}]
      /\ misses' \in [Schedules -> 0 .. MAX_STRIKES] /\ had' \in [Schedules -> SUBSET Recipients]
  BY <1>2 DEF ReportsInv, ReportRecords
<1> QED BY <1>2, <1>5, <1>6, <1>7, <1>8, OperatorKeeps

LEMMA EditCommits ==
  ASSUME ReportsInv, NEW x \in Schedules, CommitEdit(x)
  PROVE  ReportsInv'
<1> DEFINE saw == editing.saw
           wants == editing.wants
           row == reports[x]
           merged == [f \in DOMAIN row |-> IF wants[f] = saw[f] THEN row[f] ELSE wants[f]]
           after == IF wants = Absent THEN Absent ELSE merged
           clears == /\ ~UnderWay(x) /\ row = saw
                     /\ wants.last # saw.last \/ wants.enabled # saw.enabled
<1>1. /\ editing.of = {x}
      /\ row # Absent
      /\ reports' = [reports EXCEPT ![x] = after]
      /\ misses' = [misses EXCEPT ![x] = IF clears THEN 0 ELSE misses[x]]
      /\ had' = [had EXCEPT ![x] = IF reports'[x].next = row.next THEN had[x] ELSE {}]
      /\ editing' = NoEdit
      /\ UNCHANGED <<clock, mailing>>
  BY DEF CommitEdit
<1>2. editing \in PendingEdit
  BY <1>1, EditIsOf DEF ReportsInv, ReportRecords
<1>3. row \in LoopRow /\ saw \in LoopRow /\ wants \in LoopRow \union {Absent} /\ wants \in Edited(saw)
  BY <1>1, <1>2, EditIsOf DEF ReportsInv, ReportRecords
<1>4. wants # Absent =>
        /\ merged \in LoopRow
        /\ merged.enabled = IF wants.enabled = saw.enabled THEN row.enabled ELSE wants.enabled
        /\ merged.retry = IF wants.retry = saw.retry THEN row.retry ELSE wants.retry
        /\ merged.last = IF wants.last = saw.last THEN row.last ELSE wants.last
  BY <1>3, EditedRow
<1> HIDE DEF merged
<1>5. after \in LoopRow \union {Absent}
  BY <1>3, <1>4
<1>6. /\ reports' \in [Schedules -> LoopRow \union {Absent}]
      /\ misses' \in [Schedules -> 0 .. MAX_STRIKES]
      /\ reports'[x] = after
      /\ misses'[x] = IF clears THEN 0 ELSE misses[x]
  BY <1>1, <1>5, ScheduledReportsAssumption DEF ReportsInv, ReportRecords
<1>7. /\ had' \in [Schedules -> SUBSET Recipients]
      /\ had'[x] = {} \/ (had'[x] = had[x] /\ reports'[x].next = row.next)
  BY <1>1 DEF ReportsInv, ReportRecords
<1>8. \A y \in Schedules : y # x =>
        reports'[y] = reports[y] /\ misses'[y] = misses[y] /\ had'[y] = had[y]
  BY <1>1 DEF ReportsInv, ReportRecords
<1>9. \A y \in Schedules : editing'.of # {y}
  BY <1>1, EditIsOf
<1>10. misses[x] \in Nat /\ row.retry \in Nat
  BY <1>3, ScheduledReportsAssumption DEF ReportsInv, ReportRecords, LoopRow
<1>11. ASSUME after.last = "failure"
       PROVE  misses'[x] >= after.retry \/ (~after.enabled /\ ~UnderWay(x))
  <2>1. wants # Absent /\ after = merged
    BY <1>11 DEF Absent
  <2>2. \/ wants = saw
        \/ saw.last = "failure" /\ wants.last = "none"
        \/ wants.enabled /\ saw.last # "failure" /\ wants.last = saw.last /\ wants.retry = saw.retry
        \/ ~wants.enabled /\ wants.last = saw.last /\ wants.retry = saw.retry
        \/ wants.enabled = saw.enabled /\ wants.last = saw.last /\ wants.retry = saw.retry
    BY <1>3, <2>1, EditsWanted
  <2>3. wants.last = saw.last /\ row.last = "failure" /\ wants.retry = saw.retry /\ after.retry = row.retry
    BY <1>4, <1>11, <2>1, <2>2
  <2>4. after.enabled = IF wants.enabled = saw.enabled THEN row.enabled ELSE wants.enabled
    BY <1>4, <2>1
  <2>5. /\ row.enabled \in BOOLEAN /\ saw.enabled \in BOOLEAN /\ wants.enabled \in BOOLEAN
    BY <1>3, <2>1 DEF LoopRow
  <2>6. misses[x] >= row.retry \/ (~row.enabled /\ ~UnderWay(x) /\ saw = row)
    BY <1>1, <2>3 DEF ReportsInv, MarkersCounted
  <2>7. CASE clears
    <3>1. wants.enabled # saw.enabled /\ ~UnderWay(x) /\ saw.last = "failure"
      BY <2>3, <2>7
    <3>2. ~wants.enabled
      BY <2>2, <2>3, <3>1
    <3> QED BY <2>4, <3>1, <3>2
  <2>8. CASE ~clears
    <3>1. misses'[x] = misses[x]
      BY <1>6, <2>8
    <3>2. CASE misses[x] >= row.retry
      BY <2>3, <3>1, <3>2
    <3>3. CASE ~row.enabled /\ ~UnderWay(x) /\ saw = row
      <4>1. wants.enabled = saw.enabled
        BY <2>3, <2>8, <3>3
      <4> QED BY <2>4, <3>3, <4>1
    <3> QED BY <2>6, <3>2, <3>3
  <2> QED BY <2>7, <2>8
<1>12. misses'[x] = misses[x] \/ ~UnderWay(x)
  BY <1>6
<1>13. editing' \in PendingEdit \union {NoEdit}
  BY <1>1
<1> HIDE DEF after, clears
<1>14. had'[x] = {} \/ (had'[x] = had[x] /\ reports[x] # Absent /\ reports'[x].next = reports[x].next)
  BY <1>1, <1>7
<1>15. reports'[x].last = "failure" =>
         \/ misses'[x] >= reports'[x].retry
         \/ ~reports'[x].enabled /\ ~UnderWay(x) /\ (editing'.of = {x} => editing'.saw = reports'[x])
  BY <1>6, <1>9, <1>11
<1> QED BY <1>1, <1>6, <1>7, <1>8, <1>9, <1>12, <1>13, <1>14, <1>15, OperatorKeeps

LEMMA RestingSteps ==
  ASSUME ReportsInv, EditFails \/ TimePasses
  PROVE  ReportsInv'
<1>1. UNCHANGED <<reports, mailing, misses, had>> /\ (editing' = editing \/ editing' = NoEdit)
  BY DEF EditFails, TimePasses
<1>2. clock' \in Nat
  BY DEF EditFails, TimePasses, ReportsInv, ReportRecords
<1>3. ReportRecords' /\ ListedOnce' /\ NotYetSent' /\ SentByTheRun' /\ CopiesCounted'
  BY <1>1, <1>2 DEF ReportsInv, ReportRecords, ListedOnce, NotYetSent, SentByTheRun, CopiesCounted, InTurn
<1>4. \A x \in Schedules : (UnderWay(x)' <=> UnderWay(x)) /\ (editing'.of = {x} => editing' = editing)
  BY <1>1, EditIsOf DEF UnderWay
<1>5. MarkersCounted'
  BY <1>1, <1>4 DEF ReportsInv, MarkersCounted
<1> QED BY <1>3, <1>5 DEF ReportsInv

---------------------------------------------------------------------------
(* Reports: the invariant and the property. *)

LEMMA ReportsStart == ReportsInit => ReportsInv
<1> SUFFICES ASSUME ReportsInit PROVE ReportsInv
  OBVIOUS
<1>1. Created(0) \in LoopRow /\ Created(0).last = "none" /\ Absent.last = "absent"
  BY ScheduledReportsAssumption DEF Created, LoopRow, Absent
<1>2. \A x \in Schedules : reports[x].last # "failure"
  BY <1>1 DEF ReportsInit
<1>3. ReportRecords
  BY <1>1, NoTickIsATick, ScheduledReportsAssumption DEF ReportsInit, ReportRecords
<1>4. \A m \in Mailers : mailing[m] = NoTick
  BY DEF ReportsInit
<1>5. ListedOnce /\ NotYetSent /\ CopiesCounted
  BY <1>4, NoTickIsATick DEF ListedOnce, NotYetSent, CopiesCounted
<1>6. SentByTheRun /\ MarkersCounted
  BY <1>2 DEF ReportsInit, SentByTheRun, MarkersCounted
<1> QED BY <1>3, <1>5, <1>6 DEF ReportsInv

LEMMA ReportsSteps ==
  ASSUME OneMailer
  PROVE  ReportsInv /\ [ReportsNext]_reportVars => ReportsInv'
<1> SUFFICES ASSUME ReportsInv, [ReportsNext]_reportVars PROVE ReportsInv'
  OBVIOUS
<1>1. CASE UNCHANGED reportVars
  BY <1>1 DEF reportVars, ReportsInv, ReportRecords, ListedOnce, NotYetSent, SentByTheRun,
              CopiesCounted, MarkersCounted, InTurn, UnderWay
<1>2. CASE \E m \in Mailers : ListDue(m)
  BY <1>2, ListingSteps
<1>3. CASE \E m \in Mailers, x \in Schedules : RunSchedule(m, x)
  BY <1>3, MailingSteps
<1>4. CASE \E m \in Mailers, x \in Schedules : RecordRun(m, x)
  BY <1>4, RecordingSteps
<1>5. CASE \E m \in Mailers : TickLost(m) \/ \E x \in Schedules : Unwinds(m, x)
  BY <1>5, LoopEnds
<1>6. CASE \E x \in Schedules, slot \in 0 .. LAST_TICK : CreateReport(x, slot)
  BY <1>6, CreationSteps
<1>7. CASE \E x \in Schedules : OpenEdit(x) \/ CommitEdit(x)
  BY <1>7, EditOpens, EditCommits
<1>8. CASE EditFails \/ TimePasses
  BY <1>8, RestingSteps
<1> QED BY <1>1, <1>2, <1>3, <1>4, <1>5, <1>6, <1>7, <1>8 DEF ReportsNext

\* For any schedules and recipients, any cadence, any number of strikes and edits.
LEMMA ReportsInvariance == ASSUME OneMailer PROVE ReportsSpec => []ReportsInv
BY ReportsStart, ReportsSteps, PTL DEF ReportsSpec

\* A slot that was due is followed by one less than a cadence away.
LEMMA SlotsStayNear ==
  ASSUME NEW slot \in Nat, NEW now \in Nat, slot <= now
  PROVE  advance_next_run(slot, now) \in 0 .. now + CADENCE
<1> DEFINE step == slot + CADENCE
           q == (now - step) \div CADENCE
<1>1. CADENCE \in Nat /\ CADENCE >= 1
  BY ScheduledReportsAssumption
<1>2. CASE step > now
  BY <1>1, <1>2 DEF advance_next_run
<1>3. CASE ~(step > now)
  <2>1. now - step \in Nat
    BY <1>1, <1>3
  <2>2. q \in Nat /\ CADENCE * q <= now - step
    BY <1>1, <2>1
  <2> HIDE DEF q
  <2>3. CADENCE * (q + 1) = CADENCE * q + CADENCE /\ CADENCE * q \in Nat
    BY <1>1, <2>2
  <2>4. advance_next_run(slot, now) = step + CADENCE * (q + 1)
    BY <1>3 DEF advance_next_run, q
  <2> HIDE DEF step
  <2>5. step \in Nat /\ step <= now
    BY <1>1, <1>3 DEF step
  <2> QED BY <1>1, <2>2, <2>3, <2>4, <2>5
<1> QED BY <1>2, <1>3

\* What a tick has listed was due when it began, and times and slots are within bounds.
ListedWhenDue(tick) ==
  /\ tick.since \in 0 .. LAST_TICK
  /\ \A i \in DOMAIN tick.listed : tick.listed[i].row.next \in 0 .. tick.since
ReportsBounded ==
  /\ \A x \in Schedules : reports[x].next \in Slots
  /\ clock \in 0 .. LAST_TICK
  /\ \A m \in Mailers : ListedWhenDue(mailing[m])
  /\ editing \in PendingEdit => editing.wants.next \in Slots
  /\ upsets \in 0 .. MAX_UPSETS

LEMMA SlotBounds ==
  /\ CADENCE \in Nat \ {0} /\ LAST_TICK \in Nat /\ MAX_UPSETS \in Nat
  /\ 0 \in Slots /\ \A t \in 0 .. LAST_TICK : t \in Slots /\ t \in Nat
  /\ \A t \in 0 .. LAST_TICK : \A n \in 0 .. t : n \in Slots /\ n \in Nat /\ n <= t
  /\ \A t \in 0 .. LAST_TICK : \A n \in 0 .. t + CADENCE : n \in Slots
BY ScheduledReportsAssumption DEF Slots

LEMMA NoTickBounded == ListedWhenDue(NoTick)
BY SlotBounds, NoTickIsATick DEF ListedWhenDue, NoTick

\* One tick moves, and the rows and the request stay as they are.
LEMMA TicksBounded ==
  ASSUME ReportsInv, ReportsBounded, NEW m \in Mailers, NEW tick, ListedWhenDue(tick),
         mailing' = [mailing EXCEPT ![m] = tick], UNCHANGED <<reports, clock, editing>>,
         upsets' \in 0 .. MAX_UPSETS
  PROVE  ReportsBounded'
BY DEF ReportsInv, ReportRecords, ReportsBounded, ListedWhenDue

LEMMA ListingBounded ==
  ASSUME ReportsInv, ReportsBounded, OneMailer, NEW m \in Mailers, ListDue(m)
  PROVE  ReportsBounded'
<1> DEFINE due == {x \in Schedules : ReportDue(x)}
           E == {[of |-> x, row |-> reports[x]] : x \in due}
<1>1. PICK q \in Listings(due) :
        mailing' = [mailing EXCEPT ![m] = [NoTick EXCEPT !.since = clock, !.listed = q]]
  BY Zenon DEF ListDue
<1>2. UNCHANGED <<reports, clock, editing, upsets>>
  BY DEF ListDue
<1>3. q \in Seq(E)
  BY ListedApart
<1>4. \A i \in DOMAIN q : q[i] \in E
  BY <1>3, ListParts
<1>5. \A e \in E : e.row.next <= clock /\ e.row.next \in 0 .. LAST_TICK + CADENCE
  BY DEF ReportDue, ReportsBounded, Slots
<1>6. \A i \in DOMAIN q : q[i].row.next \in 0 .. clock
  BY <1>4, <1>5, SlotBounds DEF ReportsBounded
<1> DEFINE tick == [NoTick EXCEPT !.since = clock, !.listed = q]
<1>7. tick.since = clock /\ tick.listed = q
  BY DEF NoTick
<1>8. mailing' = [mailing EXCEPT ![m] = tick]
  BY <1>1
<1> HIDE DEF tick, due, E
<1>9. ListedWhenDue(tick)
  BY <1>6, <1>7 DEF ListedWhenDue, ReportsBounded
<1>10. upsets' \in 0 .. MAX_UPSETS
  BY <1>2 DEF ReportsBounded
<1> QED BY <1>2, <1>8, <1>9, <1>10, TicksBounded

LEMMA MailingBounded ==
  ASSUME ReportsInv, ReportsBounded, NEW m \in Mailers, NEW x \in Schedules, RunSchedule(m, x)
  PROVE  ReportsBounded'
<1>1. PICK reached \in SUBSET Recipients :
        mailing' = [mailing EXCEPT ![m].mailed = TRUE, ![m].reached = reached]
  BY DEF RunSchedule
<1>2. mailing[m] \in Tick
  BY DEF ReportsInv, ReportRecords
<1> DEFINE tick == [mailing[m] EXCEPT !.mailed = TRUE, !.reached = reached]
<1>3. tick.listed = mailing[m].listed /\ tick.since = mailing[m].since
  BY <1>2 DEF Tick
<1>4. mailing' = [mailing EXCEPT ![m] = tick]
  BY <1>1, <1>2 DEF ReportsInv, ReportRecords
<1> HIDE DEF tick
<1>5. ListedWhenDue(tick)
  BY <1>3 DEF ReportsBounded, ListedWhenDue
<1>6. UNCHANGED <<reports, clock, editing>> /\ upsets' \in 0 .. MAX_UPSETS
  BY DEF RunSchedule, ReportsBounded
<1> QED BY <1>4, <1>5, <1>6, TicksBounded

LEMMA LossBounded ==
  ASSUME ReportsInv, ReportsBounded, NEW m \in Mailers,
         TickLost(m) \/ \E x \in Schedules : Unwinds(m, x)
  PROVE  ReportsBounded'
<1>1. mailing' = [mailing EXCEPT ![m] = NoTick] /\ UNCHANGED <<reports, clock, editing>>
  BY DEF TickLost, Unwinds
<1>2. upsets' \in 0 .. MAX_UPSETS
  BY SlotBounds DEF TickLost, Unwinds, ReportsBounded
<1> QED BY <1>1, <1>2, NoTickBounded, TicksBounded

LEMMA RecordingBounded ==
  ASSUME ReportsInv, ReportsBounded, NEW m \in Mailers, NEW x \in Schedules, RecordRun(m, x)
  PROVE  ReportsBounded'
<1> DEFINE listed  == mailing[m].listed
           copy    == Head(listed).row
           reached == mailing[m].reached
           since   == mailing[m].since
           after   == IF reached = {} THEN MarkedFailed(reports[x], copy)
                      ELSE MarkedRun(reports[x], copy, reached, since)
           rest    == mailing'[m]
<1>1. /\ InTurn(m, x)
      /\ reports' = IF reports[x] = Absent THEN reports ELSE [reports EXCEPT ![x] = after]
      /\ NextInTick(m)
      /\ UNCHANGED <<clock, editing, upsets>>
  BY DEF RecordRun
<1>2. mailing[m] \in Tick /\ listed \in Seq(Entry) /\ listed # <<>>
  BY <1>1 DEF ReportsInv, ReportRecords, Tick, InTurn
<1>3. Head(listed) = listed[1] /\ 1 \in DOMAIN listed /\ listed[1] \in Entry
  BY <1>2, ListParts
<1>4. /\ copy \in LoopRow /\ copy.next \in Nat
      /\ since \in 0 .. LAST_TICK /\ since \in Nat /\ copy.next <= since
  BY <1>3, SlotBounds DEF Entry, LoopRow, ReportsBounded, ListedWhenDue
<1>5. /\ mailing' = [mailing EXCEPT ![m] = rest]
      /\ rest = IF Tail(listed) = <<>> THEN NoTick
                ELSE [mailing[m] EXCEPT !.listed = Tail(listed), !.mailed = FALSE, !.reached = {}]
  BY <1>1 DEF NextInTick, ReportsInv, ReportRecords
<1>6. /\ rest \in Tick /\ rest.mailed = FALSE
      /\ \A i \in DOMAIN rest.listed : i \in Nat /\ i >= 1 /\ i + 1 \in DOMAIN listed
                                      /\ i + 1 > 1 /\ rest.listed[i] = listed[i + 1]
  BY <1>2, <1>5, RestOfTick, Zenon
<1>7. rest.since \in {0, since}
  BY <1>2, <1>5 DEF NoTick, Tick
<1>8. ListedWhenDue(rest)
  <2>1. CASE Tail(listed) = <<>>
    BY <1>5, <2>1, NoTickBounded
  <2>2. CASE Tail(listed) # <<>>
    <3>1. rest.since = since
      BY <1>2, <1>5, <2>2 DEF Tick
    <3> QED BY <1>4, <1>6, <3>1 DEF ReportsBounded, ListedWhenDue
  <2> QED BY <2>1, <2>2
<1>9. reports[x] # Absent => after.next \in Slots
  <2>1. SUFFICES ASSUME reports[x] # Absent PROVE after.next \in Slots
    OBVIOUS
  <2>2. reports[x] \in LoopRow
    BY <2>1 DEF ReportsInv, ReportRecords
  <2>3. MarkedFailed(reports[x], copy).next \in Slots
    BY <1>4, <2>2, FailureMarked DEF ReportsBounded
  <2>4. MarkedRun(reports[x], copy, reached, since).next = advance_next_run(copy.next, since)
    BY <2>2 DEF MarkedRun, LoopRow
  <2>5. advance_next_run(copy.next, since) \in Slots
    BY <1>4, SlotsStayNear, SlotBounds
  <2> QED BY <2>3, <2>4, <2>5
<1> HIDE DEF after
<1>10. \A y \in Schedules : reports'[y].next \in Slots
  BY <1>1, <1>9 DEF ReportsInv, ReportRecords, ReportsBounded
<1>11. \A n \in Mailers : ListedWhenDue(mailing[n])'
  <2>1. \A n \in Mailers : ListedWhenDue(mailing'[n])
    BY <1>5, <1>8 DEF ReportsInv, ReportRecords, ReportsBounded
  <2> QED BY <2>1 DEF ListedWhenDue
<1> QED BY <1>1, <1>10, <1>11 DEF ReportsBounded

\* What the operator asks for has a slot within bounds.
LEMMA OperatorBounded ==
  ASSUME ReportsInv, ReportsBounded, NEW x \in Schedules,
         OpenEdit(x) \/ CommitEdit(x) \/ \E slot \in 0 .. LAST_TICK : CreateReport(x, slot)
  PROVE  ReportsBounded'
<1>1. UNCHANGED <<mailing, clock>> /\ upsets' \in 0 .. MAX_UPSETS
  BY SlotBounds DEF OpenEdit, CommitEdit, CreateReport, ReportsBounded
<1>2. \A m \in Mailers : ListedWhenDue(mailing[m])'
  BY <1>1 DEF ReportsBounded, ListedWhenDue
<1>3. CASE OpenEdit(x)
  <2>1. PICK wants \in Edited(reports[x]) : editing' = [of |-> {x}, saw |-> reports[x], wants |-> wants]
    BY <1>3 DEF OpenEdit
  <2>2. UNCHANGED reports /\ reports[x] \in LoopRow /\ reports[x].next \in Slots
    BY <1>3 DEF OpenEdit, ReportsInv, ReportRecords, ReportsBounded
  <2>3. wants.next \in Slots
    <3>1. CASE wants \in {Enabled(reports[x]), [reports[x] EXCEPT !.enabled = FALSE]}
      BY <2>2, <3>1 DEF Enabled, LoopRow
    <3>2. CASE wants = Absent
      BY <3>2, SlotBounds DEF Absent
    <3>3. CASE \E slot \in 0 .. LAST_TICK : wants = [reports[x] EXCEPT !.next = slot]
      BY <2>2, <3>3, SlotBounds DEF LoopRow
    <3> QED BY <3>1, <3>2, <3>3 DEF Edited
  <2>4. editing'.wants = wants
    BY <2>1
  <2> QED BY <1>1, <1>2, <2>2, <2>3, <2>4 DEF ReportsBounded
<1>4. CASE CommitEdit(x)
  <2> DEFINE saw == editing.saw
             wants == editing.wants
             row == reports[x]
             merged == [f \in DOMAIN row |-> IF wants[f] = saw[f] THEN row[f] ELSE wants[f]]
             after == IF wants = Absent THEN Absent ELSE merged
  <2>1. /\ editing.of = {x} /\ row # Absent /\ editing' = NoEdit
        /\ reports' = [reports EXCEPT ![x] = after]
    BY <1>4 DEF CommitEdit
  <2>2. editing \in PendingEdit
    BY <2>1, EditIsOf DEF ReportsInv, ReportRecords
  <2>3. row \in LoopRow /\ saw \in LoopRow /\ wants \in LoopRow \union {Absent}
    BY <2>1, <2>2, EditIsOf DEF ReportsInv, ReportRecords
  <2>4. row.next \in Slots /\ wants.next \in Slots /\ Absent.next \in Slots
    BY <2>2, SlotBounds DEF ReportsBounded, Absent
  <2>5. wants # Absent => merged.next = IF wants.next = saw.next THEN row.next ELSE wants.next
    BY <2>3, EditedRow
  <2> HIDE DEF merged
  <2>6. after.next \in Slots
    BY <2>4, <2>5
  <2> HIDE DEF after
  <2>7. \A y \in Schedules : reports'[y].next \in Slots
    BY <2>1, <2>6 DEF ReportsInv, ReportRecords, ReportsBounded
  <2>8. editing' \notin PendingEdit
    BY <2>1, EditIsOf
  <2> QED BY <1>1, <1>2, <2>7, <2>8 DEF ReportsBounded
<1>5. ASSUME NEW slot \in 0 .. LAST_TICK, CreateReport(x, slot) PROVE ReportsBounded'
  <2>1. reports' = [reports EXCEPT ![x] = Created(slot)] /\ UNCHANGED editing
    BY <1>5 DEF CreateReport
  <2>2. Created(slot).next \in Slots
    BY SlotBounds DEF Created
  <2>3. \A y \in Schedules : reports'[y].next \in Slots
    BY <2>1, <2>2 DEF ReportsInv, ReportRecords, ReportsBounded
  <2>4. editing' \in PendingEdit => editing'.wants.next \in Slots
    BY <2>1 DEF ReportsBounded
  <2> QED BY <1>1, <1>2, <2>3, <2>4 DEF ReportsBounded
<1> QED BY <1>3, <1>4, <1>5

LEMMA BoundsKept ==
  ASSUME OneMailer
  PROVE  ReportsInv /\ ReportsBounded /\ [ReportsNext]_reportVars => ReportsBounded'
<1> SUFFICES ASSUME ReportsInv, ReportsBounded, [ReportsNext]_reportVars PROVE ReportsBounded'
  OBVIOUS
<1>1. CASE UNCHANGED reportVars
  BY <1>1 DEF reportVars, ReportsBounded, ListedWhenDue
<1>2. CASE EditFails \/ TimePasses
  <2>1. UNCHANGED <<reports, mailing, upsets>> /\ (editing' = editing \/ editing' = NoEdit)
    BY <1>2 DEF EditFails, TimePasses
  <2>2. clock' \in 0 .. LAST_TICK
    BY <1>2, SlotBounds DEF EditFails, TimePasses, ReportsBounded
  <2>3. editing' \in PendingEdit => editing'.wants.next \in Slots
    BY <2>1, EditIsOf DEF ReportsBounded
  <2>4. \A m \in Mailers : ListedWhenDue(mailing[m])'
    BY <2>1 DEF ReportsBounded, ListedWhenDue
  <2> QED BY <2>1, <2>2, <2>3, <2>4 DEF ReportsBounded
<1>3. CASE \E m \in Mailers : ListDue(m)
  BY <1>3, ListingBounded
<1>4. CASE \E m \in Mailers, x \in Schedules : RunSchedule(m, x)
  BY <1>4, MailingBounded
<1>5. CASE \E m \in Mailers, x \in Schedules : RecordRun(m, x)
  BY <1>5, RecordingBounded
<1>6. CASE \E m \in Mailers : TickLost(m) \/ \E x \in Schedules : Unwinds(m, x)
  BY <1>6, LossBounded
<1>7. CASE \E x \in Schedules : \/ OpenEdit(x) \/ CommitEdit(x)
                               \/ \E slot \in 0 .. LAST_TICK : CreateReport(x, slot)
  BY <1>7, OperatorBounded
<1> QED BY <1>1, <1>2, <1>3, <1>4, <1>5, <1>6, <1>7 DEF ReportsNext

\* Slots, times and what a tick has listed stay within the bounds, however late a run is.
LEMMA ReportsTyped == ASSUME OneMailer PROVE ReportsSpec => []ReportsTypeOK
<1>1. ReportsInit => ReportsBounded
  <2> SUFFICES ASSUME ReportsInit PROVE ReportsBounded
    OBVIOUS
  <2>1. \A x \in Schedules : reports[x].next \in Slots
    BY SlotBounds DEF ReportsInit, Absent, Created
  <2>2. clock \in 0 .. LAST_TICK /\ upsets \in 0 .. MAX_UPSETS
    BY SlotBounds DEF ReportsInit
  <2>3. \A m \in Mailers : ListedWhenDue(mailing[m])
    BY NoTickBounded DEF ReportsInit
  <2>4. editing \notin PendingEdit
    BY EditIsOf DEF ReportsInit
  <2> QED BY <2>1, <2>2, <2>3, <2>4 DEF ReportsBounded
<1>2. ReportsInv /\ ReportsBounded => ReportsTypeOK
  <2> SUFFICES ASSUME ReportsInv, ReportsBounded PROVE ReportsTypeOK
    OBVIOUS
  <2>1. ASSUME NEW m \in Mailers, NEW i \in DOMAIN mailing[m].listed
        PROVE  mailing[m].listed[i].row \in ReportRow
    <3>1. mailing[m].listed \in Seq(Entry) /\ mailing[m].since \in 0 .. LAST_TICK
      BY DEF ReportsInv, ReportRecords, Tick, ReportsBounded, ListedWhenDue
    <3>2. mailing[m].listed[i] \in Entry
      BY <3>1, ListParts
    <3>3. mailing[m].listed[i].row.next \in Slots
      BY <3>1, SlotBounds DEF ReportsBounded, ListedWhenDue
    <3> QED BY <3>2, <3>3 DEF Entry, LoopRow, ReportRow
  <2> QED BY <2>1 DEF ReportsInv, ReportsBounded, ListedWhenDue, ReportsTypeOK
<1> QED BY <1>1, <1>2, BoundsKept, ReportsInvariance, PTL DEF ReportsSpec

\* Where one process runs the loop, nobody is sent the report of a slot twice, and
\* the loop disables a schedule only after so many runs in a row reached nobody.
THEOREM ReportsOnceEach == ASSUME OneMailer PROVE ReportsSpec => ReportsOnceAndFairly
<1>1. ASSUME ReportsInv, [ReportsNext]_reportVars
      PROVE  [\A x \in Schedules :
                /\ \A m \in Mailers :
                     /\ ~mailing[m].mailed /\ mailing'[m].mailed
                     /\ InTurn(m, x) /\ Head(mailing[m].listed).row.next = reports[x].next
                     => mailing'[m].reached \intersect had[x] = {}
                /\ reports[x].enabled /\ ~reports'[x].enabled /\ editing' = editing
                     => misses'[x] = MAX_STRIKES ]_reportVars
  <2>1. ASSUME NEW x \in Schedules, NEW m \in Mailers, ~mailing[m].mailed, InTurn(m, x)
        PROVE  had[x] = {}
    <3>2. mailing[m].listed \in Seq(Entry)
      BY <1>1 DEF ReportsInv, ReportRecords, Tick
    <3>3. 1 \in DOMAIN mailing[m].listed /\ mailing[m].listed[1].of = x
      BY <2>1, <3>2, ListParts DEF InTurn
    <3> QED BY <1>1, <2>1, <3>3 DEF ReportsInv, NotYetSent
  <2>2. ASSUME NEW x \in Schedules, reports[x].enabled, ~reports'[x].enabled, editing' = editing
        PROVE  misses'[x] = MAX_STRIKES
    <3>1. reports'[x] # reports[x]
      BY <2>2
    <3>2. CASE \E m \in Mailers, y \in Schedules : RecordRun(m, y)
      <4>1. PICK m \in Mailers, y \in Schedules : RecordRun(m, y)
        BY <3>2
      <4>2. y = x
        BY <1>1, <3>1, <4>1, RecordingSteps
      <4> QED BY <1>1, <2>2, <4>1, <4>2, RecordingSteps
    <3>3. CASE \E y \in Schedules, slot \in 0 .. LAST_TICK : CreateReport(y, slot)
      <4>1. PICK y \in Schedules, slot \in 0 .. LAST_TICK : CreateReport(y, slot)
        BY <3>3
      <4>2. reports' = [reports EXCEPT ![y] = Created(slot)] /\ Created(slot).enabled
        BY <4>1 DEF CreateReport, Created
      <4> QED BY <1>1, <2>2, <3>1, <4>2 DEF ReportsInv, ReportRecords
    <3>4. CASE \E y \in Schedules : CommitEdit(y)
      <4>1. PICK y \in Schedules : editing.of = {y} /\ editing' = NoEdit
        BY <3>4 DEF CommitEdit
      <4> QED BY <2>2, <4>1, EditIsOf
    <3> QED BY <1>1, <3>1, <3>2, <3>3, <3>4 DEF ReportsNext, reportVars, ListDue, RunSchedule, Unwinds,
              TickLost, OpenEdit, EditFails, TimePasses
  <2> QED BY <2>1, <2>2
<1> QED BY <1>1, ReportsInvariance, PTL DEF ReportsSpec, ReportsOnceAndFairly
=============================================================================
