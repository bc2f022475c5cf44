---------------------------- MODULE CompactDaily ----------------------------
(***************************************************************************)
(* scripts/compact_daily.py: one stream and date compacted, over and over, *)
(* into a daily file and its sidecar, while the collector may still write  *)
(* the raw directory; and verify_daily, which reads both.                  *)
(*                                                                         *)
(* A raw segment is published whole and never changes, so a daily file is  *)
(* the sequence of the sources written to it, one row group each.  A row's *)
(* timestamp is the exchange's hour, and a row may reach the disk under    *)
(* the hour after its own.                                                 *)
(***************************************************************************)
EXTENDS Integers, FiniteSets, SequencesExt

CONSTANTS LastHour,   \* the hours of the day are 1 .. LastHour (24 in the code)
          TradeIds,
          MaxRows,    \* bound: rows the writer ever takes
          MaxRuns,    \* bound: runs of the compactor
          MaxStops    \* bound: runs that are killed, or whose rename fails

CompactAssumption == LastHour \in Nat \ {0}

VARIABLES
  stream,              \* "trades", or a stream with one row per timestamp
  raw, open, clock,    \* published segments, the writer's .seg.tmp, the hour it is
  taken, spoiled,      \* rows taken; the .tmp was removed under the writer
  pc, now, at, found,  \* a run: its step, the hour it read, the next one, _DiscoveredFiles
  daily, tmp, meta,    \* the daily file, its .tmp, the sidecar
  cut,                 \* for the record: a file was put in place that has no sidecar yet
  runs, stops          \* the budgets

collector == <<stream, raw, open, clock, taken, spoiled>>
run       == <<pc, now, at, found>>
files     == <<daily, tmp, meta>>
vars      == <<collector, run, files, cut, runs, stops>>

Day     == 1 .. LastHour
Ids     == IF stream = "trades" THEN TradeIds ELSE {"row"}
Legacy  == -1    \* the sequence number of an hourly .parquet file
None    == <<>>  \* no such file; a file that exists is not empty
Nothing == [present |-> {}, sources |-> <<>>, missing |-> {}, skipped |-> {},
            basis |-> {}]  \* for the record: the segments there when the run began

Stamps(s) == {s.rows[i].ts : i \in DOMAIN s.rows}
MinTs(s) == Min(Stamps(s))
MaxTs(s) == Max(Stamps(s))
Rows(file) == FoldSeq(LAMBDA s, n : n + Len(s.rows), 0, file)

(***************************************************************************)
(* The raw directory and the collector                                     *)
(***************************************************************************)

\* The published files of hour h in one of the two layouts.
OfHour(h, legacy) == {s \in raw : s.hour = h /\ (s.seq = Legacy) = legacy}

\* iter_segments with "prefer_segments": the sequenced segments of an hour, or the
\* hourly file when there are none.
IterSegments(h) == IF OfHour(h, FALSE) # {} THEN OfHour(h, FALSE) ELSE OfHour(h, TRUE)

Writes ==
  /\ clock \in Day /\ ~spoiled /\ taken < MaxRows
  /\ \A s \in Range(open) : s.hour = clock
  /\ \E ts \in clock - 1 .. clock, id \in Ids :
       LET row == [ts |-> ts, id |-> id]
       IN open' = IF open = None
                  THEN << [hour |-> clock, seq |-> Cardinality(OfHour(clock, FALSE)), rows |-> <<row>>] >>
                  ELSE << [open[1] EXCEPT !.rows = Append(@, row)] >>
  /\ taken' = taken + 1
  /\ UNCHANGED <<stream, raw, clock, spoiled, run, files, cut, runs, stops>>

\* The writer publishes its segment, of this hour or, on a quiet stream, of an earlier
\* one; without the .tmp its rename would fail.
Publishes ==
  /\ open # None /\ ~spoiled
  /\ raw' = raw \cup {open[1]} /\ open' = None
  /\ UNCHANGED <<stream, clock, taken, spoiled, run, files, cut, runs, stops>>

HourEnds ==
  /\ clock \in Day /\ clock' = clock + 1
  /\ UNCHANGED <<stream, raw, open, taken, spoiled, run, files, cut, runs, stops>>

(***************************************************************************)
(* A run of the compactor                                                  *)
(***************************************************************************)

\* The process is gone, and what it held in memory.
Ends == pc' = "idle" /\ now' = 1 /\ at' = 1 /\ found' = Nothing

\* Without --force an existing file is a success; with it, .tmp files go first, the
\* writer's too.
Starts(force) ==
  /\ pc = "idle" /\ runs < MaxRuns /\ runs' = runs + 1
  /\ IF daily # None /\ ~force THEN UNCHANGED <<pc, now, at, found, tmp, spoiled>>
     ELSE /\ pc' = "discover" /\ now' = clock /\ at' = 1
          /\ found' = [Nothing EXCEPT !.basis = raw]
          /\ tmp' = (IF force THEN None ELSE tmp)
          /\ spoiled' = (spoiled \/ (force /\ open # None))
  /\ UNCHANGED <<stream, raw, open, clock, taken, daily, meta, cut, stops>>

\* _discover_hourly_files, hour by hour: a .tmp counts in the hour that was the current
\* one when the run read the clock; published files of that hour may be too young.
Discover ==
  /\ pc = "discover" /\ at \in Day
  /\ LET paths   == IterSegments(at)
         current == at = now
         live    == open # None /\ open[1].hour = at /\ ~spoiled
     IN \E young \in BOOLEAN :
          found' = IF current /\ live THEN [found EXCEPT !.skipped = @ \cup {at}]
                   ELSE IF paths = {} THEN [found EXCEPT !.missing = @ \cup {at}]
                   ELSE IF current /\ young THEN [found EXCEPT !.skipped = @ \cup {at}]
                   ELSE [found EXCEPT !.present = @ \cup paths]
  /\ at' = at + 1
  /\ UNCHANGED <<collector, pc, now, files, cut, runs, stops>>

\* _validate_table, of the rows in timestamp order.
ValidTable(s) ==
  \A i, j \in DOMAIN s.rows : i # j =>
    IF stream = "trades" THEN s.rows[i] # s.rows[j] ELSE s.rows[i].ts # s.rows[j].ts

\* The order of (min_ts_ms, hour), which keeps that of the segments of an hour.
Before(s, t) == \/ MinTs(s) < MinTs(t)
                \/ MinTs(s) = MinTs(t) /\ s.hour < t.hour
                \/ MinTs(s) = MinTs(t) /\ s.hour = t.hour /\ s.seq < t.seq

\* The one sequence of these segments in that order.
Sorted(segments) ==
  {q \in Bijection(1 .. Cardinality(segments), segments) :
     \A i, j \in DOMAIN q : i < j => Before(q[i], q[j])}

\* Mutant: only the ranges are compared.
RangesOnly(sources) == \A i \in 2 .. Len(sources) : MinTs(sources[i]) >= MaxTs(sources[i - 1])

\* _validate_cross_source_order and _check_boundary_duplicates: neighbours only.
CrossSourceOrder(sources) ==
  \A i \in 2 .. Len(sources) :
    LET previous == sources[i - 1]  source == sources[i]
    IN IF stream = "trades"
       THEN /\ MinTs(source) >= MaxTs(previous)
            /\ Range(source.rows) \cap Range(previous.rows) = {}
       ELSE MinTs(source) > MaxTs(previous)

\* All 24 hours seen: no source fails the run, and so does a source that is refused.
Inspect ==
  /\ pc = "discover" /\ at \notin Day
  /\ \E sources \in Sorted(found.present) :
       IF /\ sources # <<>> /\ \A i \in DOMAIN sources : ValidTable(sources[i])
          /\ CrossSourceOrder(sources)
       THEN /\ pc' = "write" /\ tmp' = None /\ UNCHANGED <<now, at>>
            /\ found' = [found EXCEPT !.sources = sources]
       ELSE Ends /\ UNCHANGED tmp
  /\ UNCHANGED <<collector, daily, meta, cut, runs, stops>>

\* _stream_write_parquet: a row group for each source, then the rename, which may fail.
WriteGroup ==
  /\ pc = "write" /\ Len(tmp) < Len(found.sources)
  /\ tmp' = Append(tmp, found.sources[Len(tmp) + 1])
  /\ UNCHANGED <<collector, run, daily, meta, cut, runs, stops>>

Replace ==
  /\ pc = "write" /\ Len(tmp) = Len(found.sources)
  /\ tmp' = None
  /\ \/ pc' = "sidecar" /\ daily' = tmp /\ cut' = TRUE /\ UNCHANGED <<now, at, found, stops>>
     \/ stops < MaxStops /\ stops' = stops + 1 /\ Ends /\ UNCHANGED <<daily, cut>>
  /\ UNCHANGED <<collector, meta, runs>>

\* _build_metadata, from the statistics of the file _verify_parquet_output has read.
BuildMetadata ==
  << [rows |-> Rows(daily), first |-> MinTs(daily[1]), last |-> MaxTs(Last(daily)),
      sources |-> daily, missing |-> found.missing, skipped |-> found.skipped,
      basis |-> found.basis] >>

\* _write_json_atomic, whose rename may fail as well.
Sidecar ==
  /\ pc = "sidecar" /\ Ends
  /\ \/ meta' = BuildMetadata /\ cut' = FALSE /\ UNCHANGED stops
     \/ stops < MaxStops /\ stops' = stops + 1 /\ UNCHANGED <<meta, cut>>
  /\ UNCHANGED <<collector, daily, tmp, runs>>

Killed ==
  /\ pc # "idle" /\ stops < MaxStops
  /\ Ends /\ stops' = stops + 1
  /\ UNCHANGED <<collector, files, cut, runs>>

(***************************************************************************)
(* verify_daily                                                            *)
(***************************************************************************)

\* It passes when the sidecar's row count and time range are the file's.  So must its
\* size be, which two files of as many rows may share.
VerifyDaily ==
  /\ meta # None /\ daily # None
  /\ meta[1].rows = Rows(daily)
  /\ meta[1].first = MinTs(daily[1]) /\ meta[1].last = MaxTs(Last(daily))

(***************************************************************************)
(* The behaviours                                                          *)
(***************************************************************************)
Init ==
  /\ stream \in {"trades", "markprice"}
  /\ raw \in {{}} \cup {{[hour |-> 1, seq |-> Legacy, rows |-> <<row>>]} :
                         row \in [ts : {1}, id : Ids]}
  /\ open = None /\ clock = 1 /\ taken = 0 /\ spoiled = FALSE
  /\ pc = "idle" /\ now = 1 /\ at = 1 /\ found = Nothing
  /\ daily = None /\ tmp = None /\ meta = None
  /\ cut = FALSE /\ runs = 0 /\ stops = 0

Next ==
  \/ Writes \/ Publishes \/ HourEnds
  \/ \E force \in BOOLEAN : Starts(force)
  \/ Discover \/ Inspect \/ WriteGroup \/ Replace \/ Sidecar \/ Killed

Spec == Init /\ [][Next]_vars

TypeOK ==
  /\ pc \in {"idle", "discover", "write", "sidecar"}
  /\ {now, at, clock} \subseteq 1 .. LastHour + 1 /\ {spoiled, cut} \subseteq BOOLEAN
  /\ found.missing \subseteq Day /\ found.skipped \subseteq Day

\* Whatever was killed or failed, the daily file is made of whole published segments,
\* each once, its rows never step back in time, and a row is there twice only when
\* every source between its two holds nothing but that instant
\* (_validate_cross_source_order looks at neighbours).
DailyInOrder ==
  /\ Range(daily) \subseteq raw
  /\ \A i, j \in DOMAIN daily : i < j =>
       LET s == daily[i]  t == daily[j]
       IN /\ s # t
          /\ IF stream = "trades" THEN MaxTs(s) <= MinTs(t) ELSE MaxTs(s) < MinTs(t)
          /\ Range(s.rows) \cap Range(t.rows) # {} =>
               j > i + 1 /\ \A k \in i + 1 .. j - 1 : Stamps(daily[k]) = {MaxTs(s)}

CompactInv == TypeOK /\ DailyInOrder

\* A run that ended with its sidecar written left out no segment that was there when
\* it began, but those of an hour the sidecar calls skipped and an hourly file
\* beside sequenced segments (compact_daily, _discover_hourly_files).
DayComplete ==
  pc = "idle" /\ ~cut /\ meta # None =>
    \A s \in meta[1].basis :
      \/ s \in Range(daily) \/ s.hour \in meta[1].skipped
      \/ s.seq = Legacy /\ OfHour(s.hour, FALSE) # {}

\* DAILY_COMPACTION.md:121: once the daily file and its sidecar verify, the raw files of
\* the date can be deleted, so of a day that is over the file must hold every row.
VerifiedMeansArchivable ==
  clock \notin Day /\ VerifyDaily =>
    \A s \in raw : s.seq # Legacy => s \in Range(daily)
=============================================================================
