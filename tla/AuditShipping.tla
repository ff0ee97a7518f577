---------------------------- MODULE AuditShipping ----------------------------
(***************************************************************************)
(* The shipping of one tenant's append-only audit rows to the write-once   *)
(* sinks: a batch of the oldest unstamped rows is offered to every sink, a *)
(* batch that fails is offered again row by row, a row a sink refuses is   *)
(* offered to that sink with its details replaced by a marker, and what    *)
(* went through is stamped in one UPDATE at the end of the tick.           *)
(*                                                                         *)
(* Rows are numbered in the order of created_at.  They become visible in   *)
(* the order of their commits, which is any order.                         *)
(***************************************************************************)
EXTENDS Naturals, Sequences, FiniteSets

CONSTANTS LAST_ROW,     \* audit rows the tenant writes
          Adapters,     \* the configured sinks, in their order
          BATCH_SIZE,   \* audit_shipping_batch_size
          Poison,       \* sink -> rows whose details it refuses
          MAX_MISHAPS   \* outages and crashes, to bound them

Rows == 1 .. LAST_ROW
Sinks == {Adapters[k] : k \in 1 .. Len(Adapters)}

ASSUME ShippingAssumption == /\ LAST_ROW \in Nat
                             /\ BATCH_SIZE \in Nat \ {0}
                             /\ Adapters \in Seq(Sinks) /\ Adapters # <<>>
                             /\ Poison \in [Sinks -> SUBSET Rows]
                             /\ MAX_MISHAPS \in Nat

VARIABLES trail,     \* committed audit rows
          stamped,   \* rows whose shipped_at is set
          worm,      \* <<sink, row, form>> the sinks have stored
          down,      \* sinks that are out of order
          mishaps,   \* outages and crashes so far
          tick       \* what the shipper is doing

trailVars == <<trail, stamped, worm, down, mishaps, tick>>

Forms == {"full", "marker"}
BetweenTicks == [pc |-> "between"]
Ticks == [pc : {"batch", "row", "stamp"}, batch : SUBSET Rows, sink : 1 .. Len(Adapters),
          row : Rows, form : Forms, ids : SUBSET Rows]

TrailInit == /\ trail = {}
             /\ stamped = {}
             /\ worm = {}
             /\ down = {}
             /\ mishaps = 0
             /\ tick = BetweenTicks

Earliest(rows) == CHOOSE r \in rows : \A q \in rows : r <= q
Oldest(rows) == {r \in rows : Cardinality({q \in rows : q < r}) < BATCH_SIZE}

Sink == Adapters[tick.sink]
Copies(rows, form) == {<<Sink, r, form>> : r \in rows}
Takes(form, r) == Sink \notin down /\ (form = "full" => r \notin Poison[Sink])

---------------------------------------------------------------------------
(* An audited request commits its row. *)
WriteRow(r) == /\ r \notin trail
               /\ trail' = trail \union {r}
               /\ UNCHANGED <<stamped, worm, down, mishaps, tick>>

(* The SELECT of the oldest unstamped rows. *)
ReadBatch == LET batch == Oldest(trail \ stamped)
             IN /\ tick = BetweenTicks
                /\ batch # {}
                /\ tick' = [pc |-> "batch", batch |-> batch, sink |-> 1,
                            row |-> Earliest(batch), form |-> "full", ids |-> {}]
                /\ UNCHANGED <<trail, stamped, worm, down, mishaps>>

(* adapter.ship(batch): the next sink, or every row is to be stamped. *)
ShipBatch ==
  /\ tick.pc = "batch"
  /\ \A r \in tick.batch : Takes("full", r)
  /\ worm' = worm \union Copies(tick.batch, "full")
  /\ tick' = IF tick.sink < Len(Adapters)
             THEN [tick EXCEPT !.sink = @ + 1]
             ELSE [tick EXCEPT !.pc = "stamp", !.ids = tick.batch]
  /\ UNCHANGED <<trail, stamped, down, mishaps>>

(* It raises: a sink may have stored any part it could take by then.  The   *)
(* pass that isolates the poison row starts at the first row and sink.      *)
BatchFails ==
  /\ tick.pc = "batch"
  /\ \E r \in tick.batch : ~Takes("full", r)
  /\ \E part \in SUBSET {r \in tick.batch : Takes("full", r)} :
        worm' = worm \union Copies(part, "full")
  /\ tick' = [tick EXCEPT !.pc = "row", !.sink = 1]
  /\ UNCHANGED <<trail, stamped, down, mishaps>>

(* _ship_row went through for this sink: the next sink, the next row, or    *)
(* the end of the pass.                                                     *)
AfterSink ==
  LET later == {r \in tick.batch : r > tick.row}
      done  == tick.ids \union {tick.row}
  IN IF tick.sink < Len(Adapters)
     THEN [tick EXCEPT !.sink = @ + 1, !.form = "full"]
     ELSE IF later # {}
     THEN [tick EXCEPT !.sink = 1, !.form = "full", !.row = Earliest(later), !.ids = done]
     ELSE [tick EXCEPT !.pc = "stamp", !.ids = done]

ShipRow == /\ tick.pc = "row"
           /\ Takes(tick.form, tick.row)
           /\ worm' = worm \union Copies({tick.row}, tick.form)
           /\ tick' = AfterSink
           /\ UNCHANGED <<trail, stamped, down, mishaps>>

\* Mutation: a refused row ends the pass.
StopAtPoison == /\ tick.pc = "row"
                /\ ~Takes(tick.form, tick.row)
                /\ tick' = [tick EXCEPT !.pc = "stamp"]
                /\ UNCHANGED <<trail, stamped, worm, down, mishaps>>

(* A refused row is offered again as a marker; a refused marker means that  *)
(* the sink is out of order, and the pass stops before this row.            *)
RowRefused == /\ tick.pc = "row"
              /\ ~Takes(tick.form, tick.row)
              /\ tick' = IF tick.form = "full" THEN [tick EXCEPT !.form = "marker"]
                                               ELSE [tick EXCEPT !.pc = "stamp"]
              /\ UNCHANGED <<trail, stamped, worm, down, mishaps>>

\* Mutation: the tick stamps the rows it read.
StampBatch == /\ tick.pc = "stamp"
              /\ stamped' = stamped \union tick.batch
              /\ tick' = BetweenTicks
              /\ UNCHANGED <<trail, worm, down, mishaps>>

(* One UPDATE for the rows that went through to every sink. *)
Stamp == /\ tick.pc = "stamp"
         /\ stamped' = stamped \union tick.ids
         /\ tick' = BetweenTicks
         /\ UNCHANGED <<trail, worm, down, mishaps>>

(* The process dies, at any point of a tick; what the sinks took stays. *)
ShipperCrash == /\ tick # BetweenTicks
                /\ mishaps < MAX_MISHAPS
                /\ mishaps' = mishaps + 1
                /\ tick' = BetweenTicks
                /\ UNCHANGED <<trail, stamped, worm, down>>

SinkGoesDown(k) == /\ k \notin down
                   /\ mishaps < MAX_MISHAPS
                   /\ mishaps' = mishaps + 1
                   /\ down' = down \union {k}
                   /\ UNCHANGED <<trail, stamped, worm, tick>>

SinkRecovers(k) == /\ k \in down
                   /\ down' = down \ {k}
                   /\ UNCHANGED <<trail, stamped, worm, mishaps, tick>>

Shipping == ReadBatch \/ ShipBatch \/ BatchFails \/ ShipRow \/ RowRefused \/ Stamp

TrailNext ==
  \/ \E r \in Rows : WriteRow(r)
  \/ ReadBatch \/ ShipBatch \/ BatchFails \/ ShipRow \/ RowRefused \/ Stamp
  \/ ShipperCrash
  \/ \E k \in Sinks : SinkGoesDown(k) \/ SinkRecovers(k)

(* The shipper's loop runs as long as the process does, and an outage ends. *)
TrailFairness == /\ WF_trailVars(Shipping)
                 /\ WF_trailVars(\E k \in Sinks : SinkRecovers(k))

TrailSpec == TrailInit /\ [][TrailNext]_trailVars /\ TrailFairness
---------------------------------------------------------------------------
(* The rows, the copies in the sinks and the tick are of their kinds. *)
TrailTypeOK == /\ trail \subseteq Rows
               /\ stamped \subseteq trail
               /\ worm \subseteq Sinks \X Rows \X Forms
               /\ down \subseteq Sinks
               /\ mishaps \in 0 .. MAX_MISHAPS
               /\ tick \in Ticks \union {BetweenTicks}

(* A stamped row is never offered again, so a stamp must mean that every    *)
(* sink has the row, whole or as a marker where that sink refuses it whole, *)
(* across partial batches, outages in the middle of a tick and crashes.     *)
StampedMeansShipped ==
  \A r \in stamped, k \in Sinks : \E form \in Forms : <<k, r, form>> \in worm

(* A row a sink refuses does not hold up the ones after it: once the        *)
(* outages and crashes are over, every row that was written is stamped.     *)
TrailMoves == []<>(trail \subseteq stamped)

---------------------------------------------------------------------------
(* The inductive invariant: what a tick has been through already.  In the  *)
(* pass over the whole batch, the sinks before the one it is at; row by    *)
(* row, every sink for the rows to be stamped and the sinks before this    *)
(* one for the row it is at.                                                *)
InSink(k, r) == \E form \in Forms : <<k, r, form>> \in worm
InEverySink(rows) == \A r \in rows, k \in Sinks : InSink(k, r)
SinksBefore(n) == {Adapters[k] : k \in 1 .. n - 1}

TickHasShipped ==
  tick # BetweenTicks =>
    /\ tick.batch \subseteq trail
    /\ tick.ids \subseteq tick.batch /\ tick.row \in tick.batch
    /\ InEverySink(tick.ids)
    /\ tick.pc = "batch" => \A r \in tick.batch, k \in SinksBefore(tick.sink) : InSink(k, r)
    /\ tick.pc = "row" => \A k \in SinksBefore(tick.sink) : InSink(k, tick.row)

TrailInv == TrailTypeOK /\ StampedMeansShipped /\ TickHasShipped
=============================================================================
