----------------------------- MODULE MCOffline -----------------------------
(***************************************************************************)
(* The tools that read what the collectors wrote, in one run: a behaviour  *)
(* is one of the labels and splits (SplitDataset, extended), of the daily  *)
(* compaction or of the dataset's alignment (instances), and the variables *)
(* of the others do not move.                                              *)
(***************************************************************************)
EXTENDS SplitDataset

CONSTANTS LastHour, TradeIds, CompactRows, CompactRuns, MaxStops,
          StartTs, EndTs, AlignGrid, Stale, Alive, Delay, Times, FirstTimes, AlignRows

VARIABLES
  tool,
  stream, raw, open, clock, taken, spoiled, step, now, at, found, daily, tmp, meta, cut,
  compactions, stops,
  rows, broken, legacy, added

compactVars == <<stream, raw, open, clock, taken, spoiled, step, now, at, found, daily, tmp, meta,
                 cut, compactions, stops>>
alignVars   == <<rows, broken, legacy, added>>

Compact == INSTANCE CompactDaily WITH
             MaxRows <- CompactRows, MaxRuns <- CompactRuns, pc <- step, runs <- compactions
Align   == INSTANCE AlignDataset WITH MaxRows <- AlignRows, GridMs <- AlignGrid

ASSUME CompactBounds == Compact!CompactAssumption
ASSUME AlignBounds == Align!AlignAssumption

\* Calendars that leave room for no gap and for a gap of a day, with and without a
\* missing day; two timestamps' frames of a day, the second with a hole.
Usual == [purge |-> <<>>, embargo |-> 0, horizon |-> <<>>, strict |-> TRUE, writes |-> TRUE]

MCCalendars == {1 .. 4, 1 .. 12 \ {8}}
MCFrames == {<<300000, 600000, 900000>>, <<300000, 900000, 1200000>>}
MCHorizonSets == {{300}, {300, 90000}}
MCOptions == {Usual, [Usual EXCEPT !.strict = FALSE],
              [Usual EXCEPT !.strict = FALSE, !.purge = <<0>>, !.writes = FALSE],
              [Usual EXCEPT !.horizon = <<0>>, !.embargo = 1]}

\* A day of eight milliseconds, from 10, on a grid of three: receipts before the day, on
\* and off the grid, and past its last row.
MCStale == [orderbook |-> 2, markprice |-> 4, openinterest |-> 4]
MCAlive == [trades |-> 3, connection |-> 5]

NoSplit == /\ aligned = <<>> /\ labeled = <<>> /\ pc = "idle" /\ arg = None /\ mem = None
           /\ blobs = None /\ gens = <<>> /\ manifest = None /\ stable = None
           /\ reported = FALSE /\ raced = FALSE /\ labelled = 0 /\ runs = 0 /\ faults = 0

NoCompact == Compact!Init /\ stream = "trades" /\ raw = {}

NoAlign == Align!Init /\ legacy = FALSE

MCInit == \/ tool = "split"   /\ Init /\ NoCompact /\ NoAlign
          \/ tool = "compact" /\ Compact!Init /\ NoSplit /\ NoAlign
          \/ tool = "align"   /\ Align!Init /\ NoSplit /\ NoCompact

MCNext ==
  /\ UNCHANGED tool
  /\ \/ tool = "split" /\ Next /\ UNCHANGED <<compactVars, alignVars>>
     \/ tool = "compact" /\ Compact!Next /\ UNCHANGED <<vars, alignVars>>
     \/ tool = "align" /\ Align!Next /\ UNCHANGED <<vars, compactVars>>

MCSpec == MCInit /\ [][MCNext]_<<vars, compactVars, alignVars, tool>>

\* The daily file holds whole segments in order, and a run that ended with its sidecar
\* left nothing out unsaid: CompactInv and DayComplete of CompactDaily.
DailyFileSound == tool = "compact" => Compact!CompactInv /\ Compact!DayComplete

\* A manifest names a generation that survives, and one that calls itself leakage-safe
\* has no label that reaches a later split: SplitInv and NoLeak of SplitDataset.
SplitsSound == tool = "split" => SplitInv /\ NoLeak

\* Each row is counted once, a bin is called observed when it was, a snapshot agrees with
\* the dataset and a trusted report tells the truth: AlignInv of AlignDataset.
DatasetSound == tool = "align" => Align!AlignInv

\* What is received later changes no row of the dataset, but for the columns of which the
\* first row of a stream says in hindsight that the stream is there: NoLookAhead of
\* AlignDataset.
NoLookAhead == [][tool = "align" => Align!RowsKept]_alignVars
=============================================================================
