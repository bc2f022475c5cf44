---------------------------- MODULE AlignDataset ----------------------------
(***************************************************************************)
(* pipeline/dataset_assembler.py: a day's raw rows aligned on a grid by    *)
(* the time they became available to the collector, so that the row of     *)
(* grid time T says nothing that arrived after T.  The raw rows are added  *)
(* one by one, in any order of time, and after each of them the dataset    *)
(* the assembler would write, and the snapshots of pipeline/observation.py,*)
(* are what these operators say.  A stream that cannot be read raises.     *)
(*                                                                         *)
(* A value is the position of its row in its stream; volumes and prices    *)
(* are left out, an aggregate is the set of the rows it sums over.         *)
(***************************************************************************)
EXTENDS Coverage

CONSTANTS StartTs, EndTs, GridMs,  \* the day, half-open, and its grid
          Stale,       \* the staleness tolerance of each joined stream
          Alive,       \* how long a trade, and any frame of the connection, is evidence
          Delay,       \* from the receipt of a row to its processing
          Times,       \* the receipts
          FirstTimes,  \* the receipts of the first book and mark price rows
          MaxRows      \* bound: rows added

AlignAssumption ==
  /\ StartTs \in Nat /\ EndTs \in Nat /\ StartTs < EndTs /\ GridMs \in Nat \ {0}
  /\ Stale.orderbook \in Nat /\ Stale.markprice \in Nat /\ Stale.openinterest \in Nat
  /\ Alive.trades \in Nat \ {0} /\ Alive.connection \in Nat \ {0}
  /\ Delay \in Nat /\ Times \subseteq Nat /\ FirstTimes \subseteq Nat /\ MaxRows \in Nat

VARIABLES
  rows,    \* for each stream its raw rows, in file order
  broken,  \* those of them that cannot be read, as segments of their own
  legacy,  \* the rows have no local_timestamp column
  added

vars == <<rows, broken, legacy, added>>

Joined  == {"orderbook", "markprice", "openinterest"}
Streams == Joined \cup {"trades", "liquidation"}

LastGrid  == StartTs + ((EndTs - StartTs - 1) \div GridMs) * GridMs
GridTimes == {t \in StartTs .. LastGrid : (t - StartTs) % GridMs = 0}

(***************************************************************************)
(* One stream                                                              *)
(***************************************************************************)

\* _enforce_single_instrument and _prepare_stream_frame: the rows of this instrument that
\* have an availability time.
Prepared(s) ==
  {i \in DOMAIN rows[s] : rows[s][i].own /\ (legacy \/ rows[s][i].local # Null)}

\* _availability_series: the receipt; without that column the processing time, flagged.
Available(s, i) == IF legacy THEN rows[s][i].process ELSE rows[s][i].local

\* A stable sort by availability puts row i before row j.
Before(s, i, j) == \/ Available(s, i) < Available(s, j)
                   \/ Available(s, i) = Available(s, j) /\ i < j

Latest(s, eligible) ==
  CHOOSE i \in eligible : \A j \in eligible \ {i} : Before(s, j, i)

\* merge_asof, backward with a tolerance; Null is a gap.
AsOf(s, t) ==
  LET eligible == {i \in Prepared(s) : Available(s, i) \in t - Stale[s] .. t}
  IN IF eligible = {} THEN Null ELSE Latest(s, eligible)

\* _grid_bin: the first grid time at or after it; none for what no row of the day holds.
GridBin(ts) ==
  IF ts \notin StartTs .. LastGrid THEN Null
  ELSE StartTs + (((ts - StartTs) + GridMs - 1) \div GridMs) * GridMs

\* Mutant: the copy received last.
KeptLast(i) ==
  \A j \in Prepared("liquidation") \ {i} :
    Before("liquidation", i, j) =>
      \/ rows["liquidation"][i].exchange = Null
      \/ rows["liquidation"][j].exchange # rows["liquidation"][i].exchange

\* Of liquidations that share every field the one received first; a row without the
\* exchange's time is nobody's copy.
Kept(i) ==
  \A j \in Prepared("liquidation") \ {i} :
    Before("liquidation", j, i) =>
      \/ rows["liquidation"][i].exchange = Null
      \/ rows["liquidation"][j].exchange # rows["liquidation"][i].exchange

\* The rows the bin of grid time t sums over.
Binned(s, t) == {i \in Prepared(s) : GridBin(Available(s, i)) = t}

(***************************************************************************)
(* What a bin was watched by                                               *)
(***************************************************************************)
Stamps(s) == {Available(s, i) : i \in Prepared(s)}

EvidenceGaps(evidence, tolerance) ==
  Gaps(Evidence(evidence, StartTs, EndTs, tolerance), StartTs, EndTs)

\* Mutant: only the grid time itself has to be covered.
ObservedAtEnd(evidence, tolerance, t) ==
  /\ evidence # {}
  /\ \A g \in EvidenceGaps(evidence, tolerance) : ~(g[1] <= t /\ t < g[2])

\* _bin_observed: no gap overlaps the bin (t - grid, t] within the day.
BinObserved(evidence, tolerance, t) ==
  /\ evidence # {}
  /\ LET lo == Max({t - GridMs + 1, StartTs})
     IN \A g \in EvidenceGaps(evidence, tolerance) : ~(g[1] <= t /\ lo < g[2])

TradesObserved(t) == rows["trades"] # <<>> /\ BinObserved(Stamps("trades"), Alive.trades, t)

\* The connection's evidence: trades, mark prices and liquidations, copies included.
Connection == Stamps("trades") \cup Stamps("markprice") \cup Stamps("liquidation")

LiquidationObserved(t) ==
  rows["liquidation"] # <<>> /\ BinObserved(Connection, Alive.connection, t)

(***************************************************************************)
(* The dataset and a snapshot                                              *)
(***************************************************************************)

\* assemble_dataset writes nothing without a book and a mark price.
Assembled == broken = {} /\ rows["orderbook"] # <<>> /\ rows["markprice"] # <<>>

\* The time_unknown column of a joined stream: 1 or 0, and Null in a gap; of the open interest
\* it is 0 as long as the day has no row of it.
TimeUnknown(s, t) ==
  IF AsOf(s, t) # Null THEN IF legacy THEN 1 ELSE 0
  ELSE IF s = "openinterest" /\ Prepared(s) = {} THEN 0 ELSE Null

\* The row of grid time t: values, gaps and counts, and what the bin and the day were
\* watched by.
AlignedRow(t) ==
  [joined |-> [s \in Joined |-> AsOf(s, t)],
   unknown |-> [s \in Joined |-> TimeUnknown(s, t)],
   trades |-> Binned("trades", t),
   trades_bin_observed |-> TradesObserved(t),
   trades_stream_available |-> rows["trades"] # <<>>,
   liquidations |-> {i \in Binned("liquidation", t) : Kept(i)},
   copies |-> {i \in Binned("liquidation", t) : ~Kept(i)},
   liquidation_bin_observed |-> LiquidationObserved(t),
   liquidation_stream_available |-> rows["liquidation"] # <<>>]

\* causally_align over what a CausalObservationBuilder was given: the latest of each key,
\* and whether it is stale.
CausallyAlign(s, t) ==
  LET eligible == {i \in Prepared(s) : Available(s, i) <= t}
  IN IF eligible = {} THEN [event |-> Null, status |-> "NEVER_OBSERVED"]
     ELSE [event  |-> Latest(s, eligible),
           status |-> IF t - Available(s, Latest(s, eligible)) <= Stale[s]
                      THEN "AVAILABLE" ELSE "STALE"]

\* gap_report's verdict, over the processing times.
GapReport(s) ==
  LET Stamp(i) == IF <<s, i>> \in broken THEN Null ELSE rows[s][i].process
  IN Report({Stamp(i) : i \in DOMAIN rows[s]}, StartTs, EndTs, Alive.trades,
            Len(rows[s]), Cardinality({i \in DOMAIN rows[s] : <<s, i>> \in broken}))

(***************************************************************************)
(* The behaviours                                                          *)
(***************************************************************************)
Row(t, exchange, own) ==
  [local |-> t, process |-> t + Delay, exchange |-> exchange, own |-> own]

\* Another row on disk: of this instrument or not, with its receipt or without.
Collects(s) ==
  /\ added < MaxRows /\ added' = added + 1
  /\ \E t \in Times, exchange \in {Null, 1}, own \in BOOLEAN, known \in BOOLEAN :
       /\ exchange # Null => s = "liquidation" /\ own
       /\ (own /\ ~legacy) \/ known
       /\ rows' = [rows EXCEPT ![s] = Append(@,
                     [Row(t, exchange, own) EXCEPT !.local = IF known THEN @ ELSE Null])]
  /\ UNCHANGED <<broken, legacy>>

Breaks(s) ==
  /\ broken = {} /\ \E i \in DOMAIN rows[s] : broken' = {<<s, i>>}
  /\ UNCHANGED <<rows, legacy, added>>

Init ==
  /\ \E book, mark \in FirstTimes :
       rows = [s \in Streams |-> IF s = "orderbook" THEN <<Row(book, Null, TRUE)>>
                                 ELSE IF s = "markprice" THEN <<Row(mark, Null, TRUE)>>
                                 ELSE <<>>]
  /\ broken = {} /\ legacy \in BOOLEAN /\ added = 0

Next == \E s \in Streams : Collects(s) \/ Breaks(s)

Spec == Init /\ [][Next]_vars

TypeOK ==
  /\ DOMAIN rows = Streams /\ broken \subseteq Streams \X Nat /\ legacy \in BOOLEAN
  /\ \A t \in GridTimes : Binned("trades", t) \subseteq DOMAIN rows["trades"]

\* Every row received within the grid is counted in one bin, and only there: a trade among
\* the trades, a liquidation among those kept or the copies dropped (_grid_bin).
EachRowOnce ==
  \A s \in {"trades", "liquidation"} : \A i \in Prepared(s) :
    LET bins == {t \in GridTimes : i \in Binned(s, t)}
    IN IF Available(s, i) \in StartTs .. LastGrid THEN \E t \in bins : bins = {t} ELSE bins = {}

\* A bin is called observed exactly when each of its milliseconds lies within the tolerance
\* of some evidence received by then (compute_coverage, _bin_observed).
ObservedMeansCovered ==
  LET Covered(ms, evidence, tolerance) == \E e \in evidence : ms \in e .. e + tolerance - 1
  IN \A t \in GridTimes :
       LET bin == Max({t - GridMs + 1, StartTs}) .. t
       IN /\ rows["trades"] # <<>> =>
               (TradesObserved(t) <=>
                  \A ms \in bin : Covered(ms, Stamps("trades"), Alive.trades))
          /\ rows["liquidation"] # <<>> =>
               (LiquidationObserved(t) <=>
                  \A ms \in bin : Covered(ms, Connection, Alive.connection))

\* A snapshot at a grid time gives a usable event exactly where the dataset has a value, and
\* the same one (causally_align, merge_asof).
SnapshotAgrees ==
  \A s \in Joined, t \in GridTimes :
    AsOf(s, t) = LET seen == CausallyAlign(s, t)
                 IN IF seen.status = "AVAILABLE" THEN seen.event ELSE Null

\* A report that is trusted leaves no millisecond of the day without a row that was
\* processed within the tolerance before it (build_reports, is_trustworthy).
ReportTrue ==
  \A s \in Streams : GapReport(s).trusted =>
    \A ms \in StartTs .. EndTs - 1 : \E i \in DOMAIN rows[s] :
      /\ \A j \in DOMAIN rows[s] : <<s, j>> \notin broken
      /\ ms \in rows[s][i].process .. rows[s][i].process + Alive.trades - 1

AlignInv == TypeOK /\ EachRowOnce /\ ObservedMeansCovered /\ SnapshotAgrees /\ ReportTrue

\* When the collector is known to have had a row; one without a receipt is never used.
Known(row) ==
  IF legacy THEN row.process ELSE IF row.local = Null THEN EndTs ELSE row.local

\* What the row of t takes from a later row of stream s after all, when that is the first one
\* of the day: that the stream is there; of the liquidations, with it, what the frames of the
\* connection up to t prove; of the open interest, that its absence at t is a gap.
Hindsight(row, s, t) ==
  IF s = "trades" /\ rows[s] = <<>> THEN [row EXCEPT !.trades_stream_available = TRUE]
  ELSE IF s = "liquidation" /\ rows[s] = <<>>
       THEN [row EXCEPT !.liquidation_stream_available = TRUE,
                        !.liquidation_bin_observed = BinObserved(Connection, Alive.connection, t)]
  ELSE IF s = "openinterest" /\ Prepared(s) = {} /\ Prepared(s)' # {}
       THEN [row EXCEPT !.unknown = [x \in Joined |-> IF x = s THEN Null ELSE @[x]]]
  ELSE row

RowsKept ==
  Assembled /\ Assembled' =>
    \A s \in Streams : Len(rows'[s]) > Len(rows[s]) =>
      \A t \in GridTimes : t < Known(Last(rows'[s])) =>
        AlignedRow(t)' = Hindsight(AlignedRow(t), s, t)

\* What is received after grid time T changes no value, gap or count in the row of T, whatever
\* the stream and wherever it lands in the files; and of the other columns only what
\* Hindsight names, when it is the first of its stream in the day (assemble_dataset).
NoLookAhead == [][RowsKept]_vars
=============================================================================
