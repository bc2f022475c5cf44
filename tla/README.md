# Verification of the BTC market-data collector

TLA+ modules, TLC configurations and TLAPS proofs about the collector in `src/collector`.
The collector records Binance USD-M, Binance Spot, Bybit and OKX market data into Parquet
segments. What makes it correct is not the arithmetic on prices but a set of promises about
durability, ordering and evidence: raw data is captured before anything else happens to it, a
row is either published or reported lost, a quality event that was accepted is never lost, a
book that calls itself VALID is the venue's book, and a broken raw writer ends the process.

Every definition is translated from the Python source; `PROJECT.json` maps each one to the
lines it stands for. The properties are aimed at the hazards listed there.

## The system

| Component | State it keeps | Operations | What is hard about it |
|---|---|---|---|
| `websocket_client.py` | connection, running/connected/discard flags, bounded frame queue, worker task | start, receive loop, worker, drain, stop, terminal latch | interleavings of receive loop, worker, stop and latch; a full queue at a stop |
| `run_collector.py` (USD-M runner) | latched failures, isolated routes, book, recovery task, quality channel, writers | message routing, recovery, quality persistence, supervision, shutdown | failures found late, recoveries racing diffs, shutdown order |
| `book_engine.py`, `sequence.py` | levels, last event, buffer, retained snapshot, generation | apply, snapshot bridge, retry, invalidate | snapshots racing diffs; off-by-one rules that differ by venue |
| `recovery_control.py`, `backoff.py` | in-flight flag, window, attempts, deadlines | request, begin, succeed, fail, rate limit | an attempt that never ends silences the book |
| `quality_wal.py` and the runner's quality channel | log files, checkpoint, in-flight set, queue, open segment | append, checkpoint, rotate, recover, persist, publish, replay | crash between any two steps; checkpoint against unpublished events |
| `parquet_writer.py`, `publication.py` | segment, `.tmp`, counter sidecar, marker, latches | write, flush, publish, roll over, close, recover orphans | seven-step publication, any of which fails or is cut by a power loss |
| `segment_dedup.py`, `persistent_trade_id_index.py` | admitted and pending identities, index, evidence files | admit, attribute, index at publication, reconcile at startup | crash between publication, evidence and index |
| `run_binance_spot_collector.py` | Spot book, controller, standalone policy | like the USD-M book, scheduled differently | a retry condition that differs from the futures runner |
| `run_bybit_collector.py` | book fed by in-band snapshots, quality log and checkpoint of its own, degraded-loss counters, free-space monitor | log, write, publish when due, checkpoint, replay at start | an event is lost, unconfirmed or published, and a counter must say which |
| `run_okx_collector.py` | six derived writers, quality writer | message routing, quality persistence | failures before the failure policy exists |
| `run_okx_capture.py`, `okx_capture.py` | subscription ledger, raw writer | subscribe, acknowledge, keepalive, capture, timed or signalled stop | acknowledgements of an earlier connection; a refused frame racing the stop |
| `standalone_failure_policy.py`, `failure_topology.py` | latched failures by route, terminal event | classify, latch, supervise, exit status | signal, crash, full disk and terminal event racing |
| `disk_pressure.py` | severity, unknown polls, emergency and unavailable latches | poll, classify, alert, preflight | hysteresis, measurement failures |
| `replay.py` | a recording's frames in order, a fresh book | sort, drive the book, count integrity issues | what the recording does not show |
| `compact_daily.py` | daily file, sidecar, temporary file | discover, validate, write, replace, describe, verify | a live writer, kills between its steps |
| `label_generator.py`, `split_generator.py` | labeled files, generations, manifest, pointer | label, measure the horizon, split, publish | leakage at the borders, half-published generations |
| `dataset_assembler.py`, `cross_exchange_alignment.py`, `observation.py`, `coverage.py`, `gap_report.py` | none between runs | causal joins, bins, coverage | what was known when |

Interaction: the client captures each frame through the runner's raw writer, then queues it; its
worker calls the runner's handler, which routes to a book or a writer. Writers call back into the
runner when a segment is durable (the quality checkpoint, the deduplication index) and raise a
typed fatal error when they fail for good; the runner latches a verdict for it (isolate the route,
degrade the quality channel, or terminate) and a supervisor task finds the failures that nobody met.
All of it runs on one event loop, so everything between two `await`s is one step; threads are not
used on these paths. Processes die at any step.

## Modules

| Module | Models | State and actions |
|---|---|---|
| `SegmentWriter` | `ParquetWriter` on one stream directory | disk (`seg`, `tmps`, `sidecar`, `marker` and their synced parts), the writer object (`pc` names the next step), faults at each step, kills, power loss |
| `QualityChannel` | `QualityEventWAL` and the runner's quality channel | log records `[seq, ev, file, stamp]`, checkpoint, queue, in-flight set, open segment; one action per handler step |
| `LocalBook` | book and continuity rules of Binance, futures and Spot | a book is a record that carries its venue, each method an operator |
| `RecoveryControl` | `RecoveryController` | a record and operators; delays are boolean deadlines that `TimePasses` clears |
| `DepthFeed` | what the buffered books share | the venue, its stream (loss, repetition, damage), REST answers, persisted rows |
| `BinanceBook` | the USD-M runner's book | diff handler, scheduled recovery, startup recovery, reconnect |
| `SpotBook` | the Spot runner's book | the same with the Spot runner's conditions |
| `FrameClient` | `WebSocketClient` | a client is a record: `at` is the place in `start()`, `fate` what became of each frame |
| `CollectorStop` | clients, writers, supervisor and shutdown of the USD-M runner | composes any number of clients with failure latches and the end of the process |
| `TradeDedup` | `segment_dedup.py` on one trade stream, with `confirm_unmarked` and the markers of `publication.py` | files are the bytes they hold; `seg`, `mark`, `evid` and the index (`idx`, `seen`); the startup reconciliation step by step (`pc`), the live message path, the publication steps |
| `TradeOnce` | what the deduplication promises | rows per identity in segments, identities of the open segment |
| `QualityChannelProofs`, `SegmentWriterProofs`, `TradeDedupProofs`, `CollectorStopProofs`, `StandaloneRunnerProofs` | theorems about the module of that name | see below |
| `BookProofs`, `VenueProofs`, `OfflineProofs` | theorems about the books (`BinanceBook`, `SpotBook`, `WireBook`) and their `Replay`, about `BybitQuality` and `OkxCapture`, about the tools of `MCOffline` (`Coverage` included); the lemmas about one client are in `CollectorStopProofs` | see below |
| `WireBook` | the book of Bybit and OKX | a message is a range of updates with the venue's numbers; loss, repetition, damage, reconnection, restart of the numbering |
| `FailurePolicy` | `StandaloneFailurePolicy`, `failure_topology.py`, the reporting of degraded quality | a runner's policy is a record; operators from it to what a failure makes of it |
| `DiskMonitor` | `StoragePressureMonitor` | a record; one operator per outcome of a poll |
| `StandaloneRunner` | the life of the Spot, Bybit or OKX runner under `supervise_standalone_runner` | construction, preflight, frames and recoveries that meet failing parts, polls, signals, the end of the task, stop, bounded waits, exit |
| `BybitQuality` | Bybit's quality channel | log, row buffer, published events, checkpoint, counters; one action per step of start, emission, idle tick, stop |
| `OkxCapture` | `run_okx_capture.py` over the same client | ledger of (arg, state), connection, ping, why the wait ended, status |
| `CompactDaily` | `compact_daily.py` next to the writer of its stream | hourly segments by name and rows, what was discovered and in which order, temporary and daily file, sidecar; `step` is the place in the run |
| `SplitDataset` | labels, horizons, splits and their publication | aligned and labeled files, generations, the manifest and what a power cut would leave of it; `raced` says that a file was relabelled under the run; `pc` is the place in `generate_splits` |
| `Coverage` | `compute_coverage` | pure operators, from observations to merged intervals (one sweep over the window), what they leave of it and a report |
| `AlignDataset` | one day of the assembler and its gap report | the rows received so far, in any order; the dataset is an operator of them |
| `Replay` | `replay.py` and the recording of a Binance book | the venue, the client's queue and the live book beside the log; the replay is one fold over the frames, the first by its order key each time |

`SegmentWriter` and `QualityChannel` meet at the writer's contract: the channel uses of the writer
only that a row is buffered, then published with its whole segment, or the writer fails for good.
`DepthFeed` extends `LocalBook` and `RecoveryControl`; `BinanceBook` and `SpotBook` extend it.
`CollectorStop` and `OkxCapture` extend `FrameClient`; `Replay` and `WireBook` extend `LocalBook`;
`StandaloneRunner` extends `FailurePolicy` and `DiskMonitor`; `AlignDataset` uses `Coverage`.
`MCBooks` extends `BinanceBook` and `SpotBook` and instantiates `WireBook` and `Replay`. `TradeDedup` implements
`TradeOnce` (property `StoredOnce`: the rows stored are those of the visible segments, the rows held
those of the open one). `MC` modules and `.cfg` files instantiate them for TLC. Three of those hold more than one model, whose
variables do not meet: `MCBooks`, `MCVenues` and `MCOffline` choose one in the initial state, and a
property of such a module is that of the model with the same or the named definition.
Operators marked `Mutant` are faulty variants of the definition after them; each property is
violated when the variant takes its place, so no property holds only by the model's shape.

Data is abstracted: a row is its position, an event or frame a number, a price level the number of
the update that last touched it. Sequence rules, guards, early returns, the order of steps and every
error path are kept.

## Runs and bounds

| Run | What it shows | Bounds and why they are enough |
|---|---|---|
| `segment_writer` | what is announced is durable and never changes; no hook without marker; rows are in order across segments; an unpublished row is reported once or hidden by a kill, which hides one buffer, or one counter that a restart held; a tripped gate admits nothing | 2 hours, 3 sequence numbers, 3 rows, segments of 3 with a buffer of 2 (partial flush, full segment and rollover all occur), 1 failing step, 2 kills or power losses, so a failed recovery after a crash occurs, and a kill between the unlinks of an orphan and their report |
| `segment_writer_discard` (violation) | finding 1 | 1 hour, only the discard step fails |
| `quality_channel` | checkpoints cover published events only; protected events survive; every event is accounted; an orderly stop leaves nothing to replay; protected events are published in the end; the proofs' invariant, with types and unique numbers | 3 events, queue of 1 (overflow occurs), log of 2 records (refusal occurs), 2 stops, 1 failing step, clock forward only |
| `quality_channel_clock` (violation) | finding 2 | the same, the clock may step back |
| `books` | VALID books and rows are the venue's (futures, Spot, Bybit, OKX); a generation's rows are unbroken; attempts end; an untrusted futures book and a Spot book that lost its trust ask for a recovery; a VALID replayed book is the venue's and a pristine replay ends in the collector's book | futures: 4 updates on 2 levels; the others 5; buffer of 2 (overflow and refill occur), window and attempts of 2, 2 faults, 1 reconnect or restart (futures: 2 faults, or 1 and a reconnect); the replay: 4 updates, 4 frames, 2 ms of 2 ticks, a queue of 1, 1 fault |
| `spot_book_straddler` (violation) | finding 3 | 7 updates, a buffer of 4, 1 fault |
| `collector_stop` | frames neither vanish nor change order; no frame is stranded; nothing is taken in after a raw failure; the latch holds; a raw failure ends the process; stopped clients drain | 2 clients, 2 frames each and a queue of 1 (one at the worker or queued, one held in front), 1 reconnect attempt, 1 broken writer, which may be the shared raw writer or a route's |
| `trade_dedup` | no trade is stored twice; none is refused that is not stored; the index a collector works with is exact; a marker implies durability; an unreadable marker changes nothing; a start converges | 2 identities, 3 names, up to 2 segments without markers (which may hold the same identity: the conflict the operator must settle), 2 publications, 2 kills or power losses, 1 failing step, 2 removed or damaged files (marker, segment, identity row), so a damaged index after a half-finished reconciliation occurs |
| `standalone` | the counters and the latches say what happened; exit 70, 69, 1 or 0 tells the worst; a failure cuts off its own route; hovering free space does not alert again; every stop ends | 3 runners, 1 or 2 parts that fail (a failure inside the report of another occurs), 1 quality event, thresholds 5, 3, 1 with a margin of 1, free space 0 to 6, a grace of 2 failed polls |
| `venues` | Bybit: checkpoint, counters, clean stop, publication of what was logged, the proofs' invariant. OKX: the ledger, exit 70 for a refused frame, drain at other stops | 3 events in a log of 2, 2 kills, 2 failing steps; 2 channels, 4 frames, a queue of 1, 2 connections, 1 attempt |
| `offline` | the daily file is whole and in order, and complete when its sidecar is there; a manifest names a generation that survives and a leakage-safe one leaks nothing; the dataset counts a row once, and what is received later changes no value, gap or count of it, and only the flags that say a stream is there | 2 trades in 3 hours, 2 compactions, 1 kill; calendars of 4 and of 11 days with a hole, days of 3 bars, horizons within a bar and over a day, 2 runs, 2 faults; a day of 8 ms on a grid of 3 with rows received on, off and outside the grid, 2 rows |
| `replay_overtaken` (violation) | finding 4 | the replay of `books` with 3 ms and no fault at all |

Deadlock is checked in `trade_dedup`, where a process is always restarted, and in no other run: every
other model stops when its budget of events and faults is used up, and
the processes really end.

### Fairness

* `QualityChannel.FairSpec`: weak fairness of `Work`, the steps a running process takes on its own
  (the persistence loop polls every 0.1 s, a handler runs to its end, systemd restarts the process).
  Nothing is assumed of arrivals, kills, faults or the clock.
* `BinanceBook`, `SpotBook`: weak fairness of the start of a created task and of the end of a request,
  with whatever answer or error, each an action of `Next` (`MCBooks` asks the same of the book it
  chose); the code gives each request a total timeout of 5 s. An answer is handled in every state,
  also behind an isolated writer. Nothing is assumed of the venue.
* `TradeDedup.FairSpec`: the unit restarts the process (`Restart=always`,
  `btc-collector.service:31`), the reconciliation runs on, and a message or a publication, once
  begun, is synchronous. Nothing is assumed of messages, the operator or the disk.
* `CollectorStop.StopFairSpec`: the supervisor's polling loop, the shutdown steps, the worker with a
  frame in hand or queued and the 10 ms retry in front of a full queue. A socket need not deliver
  anything, and the drain's timeout is not assumed to fire.
* `StandaloneRunner.FairSpec`: the supervisor is woken, its bounded waits end, the preflight polls and
  the process gives its status. Nothing is assumed of the application task, the disk or signals.
* `MCVenues`: weak fairness of Bybit's `Work`, the steps a running process takes on its own. OKX's
  capture and the offline tools need none: their properties are about what a step may do.

## What is proved

Each theorem holds for every value of the constants that satisfies the named `ASSUME`s of its
modules, and of nothing else unless it is said below. The assumptions say that bounds are natural
numbers, sets finite, and sizes not zero where the code's configuration refuses zero; those of
`DiskMonitor` are what `StoragePressureMonitor` demands of its thresholds, those of `AlignDataset`
(`AlignAssumption`) a day that is not empty and tolerances that are positive, which
`compute_coverage` demands, those of `SplitDataset` (`SplitAssumption`) a
grid step that is not zero, days numbered from 1 and finite sets of horizons. Each run checks the same
properties on its instance, and with them the inductive invariants of the quality channels, the writer, the
deduplication, the stop, the capture and the standalone runner; those of the books, the replay
and the offline tools are stated in the proof modules and only proved. Every invariant and every action property of
the passing runs is the property of one of these theorems.

| Module | Theorem | What it says |
|---|---|---|
| `QualityChannelProofs` | `TypeCorrect`, `ChannelInvariant` | `TypeOK`; `ChannelInv` when the clock does not step back |
| | `CheckpointIsSound` | checkpoint N on disk means every logged event numbered at most N is in a published segment (`run_collector.py:605-606`) |
| | `ProtectedNeverLost` | an event whose append returned is published or on disk above the checkpoint |
| | `SequenceNumbersUnique` | no number is given to two events, across restarts and deleted files |
| | `EveryEventAlwaysAccounted` | every event is published, counted as lost, or in the log above the checkpoint |
| | `CleanShutdownAlwaysCheckpoints` | after an orderly stop of a channel that may still checkpoint nothing is replayed |
| `SegmentWriterProofs` | `WriterInvariant` | names are taken in order, each row has one place, the open segment's counter misses at most one buffer, and a counter on disk or in a restart's hands claims only rows that are lost and not yet reported |
| | `DurableAlways` | what a marker or a hook vouched for is in a published, synced segment |
| | `LossesAccounted` | outside finding 1's segments, rows that will not be published are reported once; a kill hides at most one buffer, and the rows of the one counter a restart held |
| | `VouchedNeverChange`, `GateAlwaysStopsRows` | action properties: no step changes what was vouched for, or admits a row after a terminal failure |
| `TradeDedupProofs` | `DedupInvariant` | index, evidence, markers and segments agree; what is refused is stored |
| | `OnceImplemented` | `TradeDedup` implements `TradeOnce`: a trade is stored at most once |
| | `UnreadAlwaysLeavesEvidence` | a start that cannot read a marker changes nothing |
| `CollectorStopProofs` | `StopInvariant` | no frame vanishes, overtakes another or is stranded in a stopped client |
| | `FirstRefusalIsLast` | the first frame not captured raw is the last that any client takes in |
| | `LatchAlwaysHolds` | a latched client takes in, begins and reconnects nothing |
| `StandaloneRunnerProofs` | `RunnerInvariant` | counters, latches and verdicts say what happened |
| | `ExitAlwaysTells` | exit 70, 69, 1 and 0 tell the worst that happened |
| | `BrokenAlwaysIsolated` | the routes cut off are those of the parts that failed; terminal means lost evidence |
| | `NeverAlertStorm` | a severity alerts again only after the space was clear by the margin |
| `BookProofs` | `FuturesRowsFaithful`, `SpotRowsFaithful` | `FeedSound`: VALID books and persisted rows are the venue's, and a generation's rows have no hole; with `FeedKept`, what that rests on |
| | `FeedAlwaysSound`, `BooksAlwaysKept` | the same of the run's own composition, with the types of each runner's states |
| | `UntrustedAlwaysAsks`, `SpotLossAlwaysAsks`, and both in one: `LossesAlwaysAsk` | action properties: a diff that leaves the futures book untrusted, or costs the Spot book its trust, leaves a recovery under way unless the controller did not allow one |
| | `WireBookFaithful` | a VALID book of Bybit or OKX is the venue's, with the exceptions that `WireFaithful` names |
| | `ReplayAlwaysFaithful` | a VALID replayed book and its rows are the venue's, a generation has no hole and times do not go back, whatever the recording lost, clipped or put in another order |
| | `PristineAlwaysParity` | futures: a replay with no integrity issue, of a recording that kept every frame, ends in the collector's book by its rows, unless a response overtook the queue; its hypothesis `Venue = "BINANCE"` is necessary |
| `OfflineProofs` | `DailyFileAlwaysSound` | the daily file holds whole segments in order, no two of them overlapping but with the segment of a shared timestamp, and a finished sidecar left out no segment found without saying so |
| | `SplitsAlwaysSound` | the manifest, and the one a power cut leaves, names a generation that is on the disk; one that calls itself leakage-safe has no label, in its dates or in the files it names, that reaches a later split |
| | `DatasetAlwaysSound` | each row received within the grid is in one bin, a bin is called observed exactly when evidence covers all of it, a snapshot agrees with the dataset, and a trusted report leaves no millisecond of the day without a row |
| | `NeverLooksAhead` | action property: a row received later changes no value, gap or count at a grid time before it was known, and of the flags only those that `Hindsight` names, when it is the first row of its stream |
| `VenueProofs` | `ChannelInvariant` | Bybit: as `CheckpointIsSound`, and no record leaves the log early |
| | `CountersAlwaysHonest` | the degraded counters claim what this process has reason to believe of the disk, and leave no event out |
| | `CleanStopAlwaysReplaysNothing` | after an orderly stop of an unblocked channel nothing is replayed |
| | `CaptureInvariant` | OKX: no frame of the capture is lost or reordered; the ledger holds this connection's answers and no others |
| | `OkxAlwaysStops` | a frame not stored raw ends in exit 70; another stop leaves all it took in processed, but for one frame |

Two hypotheses go beyond those. `ClockSteps = FALSE` in `QualityChannelProofs`, except for
`TypeCorrect`, is necessary: run `quality_channel_clock` violates the property without it.
`Venue = "BINANCE"` in `PristineAlwaysParity` is too: the Spot runner and the engine retry a
retained snapshot under different conditions.

Each proof has one lemma per action, or per part of the invariant, and the arguments are these.

*`QualityChannel`.* `CheckpointSound` is not inductive. A step of the hook moves the checkpoint to
just below the smallest number in flight, or to the highest published one, so the invariant must
say that every logged event that is not published is in flight *or lies above everything the
process holds*: replay has yet to reach it, or its append raised after the bytes were written, and
then no number follows it (`Held`, `Ahead`). That a number below the checkpoint is never reused
rests on the counter being ahead of everything logged (`CounterAhead`), which a restart
re-establishes from the checkpoint and the surviving files; that replay visits records in order of
their numbers rests on file names sorting like numbers (`LogOrdered`), which is where the clock
comes in. The rest of `ChannelInv` is two parts that rest on this one (`CheckpointInv`). `EventsKnown`:
every event but that of the call under way was published, counted or logged at some time, which no
step can undo; that what was logged is still there or published is `LogKept`. `KeepsUp`: unless the
checkpoint is pinned, a number in flight is in the open segment, in the call under way or in the
queue, so the end of an orderly stop has none in flight and its checkpoint covers the log.

*`BybitQuality`.* The same argument without file names, with two more facts: what the open segment
claims is in the row buffer (`Held`), which makes an unblocked channel with an empty buffer one
whose checkpoint covers the log, and so the orderly stop; and the place of the row in hand
(`RowPlaced`, `CounterAhead`), from which each trip of the writer is counted by what the process
believes of the disk: the code compares the sequence number with `checkpointed_seq` in RAM (`covered`), which
a checkpoint that raises past `os.replace` leaves behind the file; `covered` never exceeds the
file's number, and an event between the two is published. Once degraded the writer is not called, so the checkpoint stays where the counters
need it (`CountedDegraded`).

*`SegmentWriter`.* Uniqueness of a name rests on the cached next number being ahead of every visible
segment of its hour (`NamesInOrder`), which recovery re-establishes; durability on the order rename,
directory sync, marker, hook (`VouchedInOrder`); the loss account on the counter beside the
temporary file (`OrphansOwned`, `CounterFollows`), where `dark` leaves out exactly the orphans of
finding 1. A restart unlinks the orphan, unlinks its counter and reports the rows in three steps, and holds
one orphan at a time (`InHand`): killed before the second, it leaves a counter that no later restart looks
at; killed before the third, the rows are gone without a report. Either way what stays unreported is
what that counter said (`unheard`), and the name is free for a segment whose own counter replaces it.

*`TradeDedup`.* A row is admitted only when its identity is in no segment, which follows from the
index being exact while rows are taken. Across a crash that rests on every directory state a power
loss may leave agreeing with its markers (`PastAgrees`), on the startup confirming what it indexes
(`StartAgrees`), and on each identity being indexed, pending or new, and only one of them
(`CollectAgrees`).

*`CollectorStop`.* One client's steps are lemmas over its record, for any
queue size and number of frames, so the composition is one argument per kind of step: a refusal
latches every client in the step in which it happens, and nothing clears a latch.

*The books.* Every method of `LocalBook` has a lemma with the same conclusion (`Outcome`): the book
it leaves is sound (`Trusted`), and the rows it returns are the venue's and continue the book's
generation. A bridge is a chain over the whole buffer. That all of it is sound (`ChainsOK`) is no
induction over data: were it not, there would be a shortest chain that is not, and it would be
one candidate longer than a sound one (`Smallest`, `JoinedOK`). Levels meet by one lemma (`Restated`): on the
venue's book at some update, restating any range that reaches back to the next one gives
its book at the end of the range. That no update is missing between two rows rests on the last
row of a generation being where a VALID book stands (`Tip`), and on a bridge always beginning a new
generation. The runners add only which method meets which event. The same lemmas serve USD-M, whose
diffs chain by `pu`, and Spot, whose diffs must begin right after the last: the book carries its
venue, and no method changes it. Of the types one is not obvious: how many attempts the futures controller
counts in its window. It exceeds the limit by one at most (`Paced`), when the startup recovery ended
the attempt that a created task had begun, and the task begins it again; Spot has no second
recovery and never exceeds. For `WireBook` the
invariant (`WireInv`) says where a VALID book stands in the venue's numbering while nothing is
missing, and that OKX's ids alone keep it there when something is; a message repeated after a
snapshot continues nothing, because its number is the book's own.

*`Replay`.* The engine's invariant (`EngineOK`) says that its book is sound, that its rows are the
venue's and in order, and that none became available after the frame last handled. The lemmas
about `LocalBook` carry over because the replayed book is driven by the same methods. The rest is about
the order: of any frames one has the least key, because no two share their place in the files
(`FirstIs`), and no frame left is of an earlier millisecond, so times never go back. That the
engine is sound after every frame is the argument of the bridge again (`EngineAre`, `ReplayOK`). Nothing is
asked of the recording, only that each frame in it brings what the venue sends.

`PristineParity` compares two books that never exist at once. The proof puts a third between them:
the *view* of a recording (`View`), what a book makes of the frames in the order of the files. While it
records, the collector is the view's shadow (`Shadows`): the frames that wait are the last of the
recording, and its book is the view's as of the one before them. The two are equal but for the state of a book
that is not VALID (`Alike`), because only the collector marks its book when it asks for a snapshot, and
because the engine may try a retained snapshot twice where the futures runner tries it once: the
second try changes nothing (`TwiceIsOnce`). An action that the recording does not show sets `hidden`, a
response before its turn `overtook`. On the other side, a replay that reports no issue met no
tie and no dropped response (issues are never taken back, `ReplayGrows`), and the property supposes that
the clock was not stepped; so the least key left is always that of the next frame of the files
(`NextIs`), and the engine is the view after every frame (`ReplayIsView`).

*`CompactDaily`.* The invariant (`CompactIInv`) follows the run through its steps: a segment of an hour
already looked into is among the sources or the sidecar will say why not (`Accounted`), the sources
found are segments of the day as they were written, and after validation neighbours are in order
(`Checked`). Neighbours in order put all in order, and leave a row in common only to two sources
between which everything is of that one timestamp, which is what the code's comparison of
neighbours amounts to. The file written is a prefix of these sources at each step of the write, and a kill leaves the old file
or a whole new one.

*`SplitDataset`.* The invariant (`SplitIInv`) says for each step what the run holds: a horizon that is
no shorter than that of any file it read, dates whose gaps are at least the purge which that
horizon requires, and frames of exactly these dates. A label reaches at most its horizon, since on
a verified grid a shift by k rows is one by k steps; so no label of a split meets a day of the
next. That the manifest survives rests on the order of publication: a generation is renamed, then
synced, and only then written into a manifest, so none that a manifest names, now or after a power cut, is
merely linked. A file relabelled under the run is the case where the horizon measured is not that of the
data (`raced`), which the property leaves out.

*`AlignDataset`, `Coverage`.* The sweep has one invariant (`Upto`): the intervals so far are apart and in
order, and cover exactly what the observations so far cover within the window. The gaps are the
complement of what the whole sweep leaves (`Complement`); the lengths of the intervals add up to
the window only when there is one interval, which is the window (`SumIs`), so a report of full
coverage has no gap. For `NoLookAhead` each stream's rows are those before with one
more that is available later than the grid time (`Later`); every operator the dataset is made of reads at that
time what it read before, the removal of duplicate liquidations included, because it keeps the copy known
first. Three tests ask for the day and not for the time: has the day a trade, a liquidation, an open
interest (`dataset_assembler.py:515`, `:585`-`:599`, `:415`-`:428`). Their first row changes the columns
that depend on them in every earlier row, and `Hindsight` is the row with exactly these replaced.

*`OkxCapture`.* The same lemmas as for `CollectorStop`, for a worker that empties the queue in one
turn. That an unlatched client ends with nothing left rests on every wait of the loop giving the
worker its turn (`Turn`), and that one frame at most is given up on a client that stopped never
waiting again (`StopKept`). The ledger is right because what it holds and what the waiting frames
will add to it are together the venue's answers (`Agrees`); a channel is answered once per
connection, so the order in which they are processed does not matter. It assumes that the key of
an error that names no channel is no channel's key (`CaptureAssumption`).

*`StandaloneRunner`.* A failure may be reported into the channel that has failed, and a failure of
that report latches in turn; each operator of `FailurePolicy` preserves the record's invariant
(counters equal what the disk says, a latch was acted on), so that any depth of it does. The exit
status follows from what the supervisor holds against the runner being what happened (`VerdictsTell`,
`EndTells`).

Only model-checked:

* all liveness (`EventuallyPublished`, `EventuallyServes`, `AttemptsEnd`, `StopEnds`, `FailureEnds`,
  `LoggedIsPublished`): liveness under fairness is out of the prover's reach.

## Findings

Four disagreements, each shown by a run that violates what a comment or a document says:

1. `parquet_writer.py:664` (`segment_writer_discard`): restart discards an orphan `.tmp`, fails to
   unlink its counter and goes on without reporting the rows; no later restart looks at that counter.
2. `quality_wal.py:493` (`quality_channel_clock`): replay order follows file names, which begin with
   wall-clock time; after a backward step a publication in mid-replay checkpoints past records not
   yet replayed.
3. `run_binance_spot_collector.py:509` (`spot_book_straddler`): after a gap the Spot book does not
   retry the snapshot it retains and asks for no other.
4. `replay.py:155` (`replay_overtaken`): a frame is recorded when it is received and applied when the
   worker reaches it, a REST response is recorded and applied at once. A response that overtakes a
   queued frame is replayed behind it, and the replayed book differs from the collector's although
   `BINANCE_USDM_SEMANTICS.md:128-129` promises parity.

Claims met while modelling that the code does not keep. Each is a definition of its module, and no
run checks it; an `INVARIANT` or `PROPERTY` line in the `.cfg` of its run shows the violation.

| Definition | Claim | What the code does |
|---|---|---|
| `BinanceBook!OneRecoveryInFlight` | one recovery at a time | the startup recovery does not ask the controller (`run_collector.py:1699`), so two can be in flight |
| `DepthFeed!StraddlerBridges` | a retained snapshot bridges when its diff arrives | after an overflow a refilled futures buffer drops every diff (`book_engine.py:99`), and nothing bridges until a reconnect |
| `CollectorStop!DrainedAtStop` | a stop drains for up to 30 s | a signalled stop cancels the client tasks before their drain (`run_collector.py:1973`); queued frames are neither processed nor counted |
| `CompactDaily!VerifiedMeansArchivable` | after a verified file the hourly segments can be archived (`DAILY_COMPACTION.md:121`) | verification compares the file with its own sidecar; a segment published after discovery is not in it |
| `SplitDataset!DroppedMeansUnsafe` | a manifest that drops an unreadable day is unsafe already (`split_generator.py:560`) | a day that becomes unreadable between validation and writing is left out of a generation whose manifest still says safe |
| `StandaloneRunner!CrashIsReported` | a crash of the application task is reported (`standalone_failure_policy.py:432-435`) | a task that crashes with or after the stop signal exits 0 |

Seen while reading, outside what the models can tell apart:

* Writer: a restart that is killed after it unlinked an orphan and before it reported the drop
  (`parquet_writer.py:660-666`) never reports the rows, and the next one has nothing to find; killed between
  the two unlinks it leaves a counter that stays until a segment of that name replaces it.
  Neither is a failure of the code's `OSError` branch, so this is not finding 1.
* Bybit: `checkpointed_seq` tells whether an event "will not be replayed" (`quality_wal.py:397-401`); after a
  checkpoint that raised past `os.replace` it is behind the file, and an event whose writer then trips is
  counted `wal_only` although the file covers it. It is published, so nothing is lost but the
  truth of the counter.
* Client: a normal socket close leaves `connected` true and emits no DISCONNECT; a drain timeout
  does not count the frame the worker is busy with; a client whose reconnect budget is spent ends
  while the process stays up. A log with bytes that are not UTF-8 stops the collector from starting.
* Compaction: `--force` deletes a live writer's `*.seg.tmp`, though `DAILY_COMPACTION.md:76` names
  only stale hourly temporaries. A kill between the replacement and the sidecar makes later runs say
  that the day exists while its verification fails, until `--force`. Two compactions of one day
  share a temporary path. The boundary check for duplicates compares neighbours only.
* Splits: a file rewritten under a run can make the horizon that was measured disagree with the data
  that was split. Labels never leave the file of their own day.
* Assembly: the first liquidation of a day turns `liquidation_stream_available`, and with it
  `liquidation_bin_observed` of every earlier bin that the connection's frames cover; the first trade turns
  `trades_stream_available`, the first open interest `openinterest_time_unknown`. So an earlier row does
  depend on what was received later, against `dataset_assembler.py:5` and `:274-276`; `NoLookAhead`
  names these columns (`Hindsight`) and holds for all others. A liquidation kept from before the start of the day can hide its copy within the day; gap reports
  per day cannot see the last row of the day before.
* Replay: a resynchronisation of a VALID book and the invalidation by a reconnect leave no row in a
  recording; a failed request marks the live book and not the replayed one; the Spot runner's retry
  condition is not mirrored; a clock step reorders frames.
* Standalone runners: a raw writer that fails in `close()` during a signalled stop leaves exit status
  0, though the module promises another (docstring, lines 15-16); the worker drains on after the
  writers are closed; an ordinary exception of an OKX or Spot quality write loses the event
  without counting it; `run_okx_capture` waits for its task without a bound on a stop that is not terminal.
* OKX: the comparator does not look for missing ids, so `None` continues `None`; `WireFaithful`
  leaves out books whose messages without ids were lost. Bybit's stream does not show a loss at all. A reconnect
  leaves a Bybit book VALID until the next snapshot.

## Limits of the models

* A writer's data is its row count; Parquet contents and locks are not modelled. `TradeDedup` compares
  bytes where the code compares digests and sizes. A damaged segment changes its size there: one of
  equal size passes the normal audit by design (`DEDUP_DEEP_VERIFY` reads the bytes).
* `TradeDedup` assumes what `docs/F1_DURABLE_PUBLICATION.md` assumes of ext4 and xfs: a power loss
  undoes the last renames first. The assumption is needed: a start that renames a dangling marker and
  ends before its directory fsync is followed by one that finds nothing to rename and does not
  sync; if the old marker could come back beside a new segment of its name, no later start would
  succeed. Operator moves are made while the collector is down. Hours are left out: a name is the
  rank of a segment in its hour. Schema versions of the index are left out.
* Power loss in `SegmentWriter` loses directory entries that no directory fsync covered; file data
  is assumed durable after its own fsync, as the code does.
* The quality channels treat any unreadable log line as the corruption the runner catches.
* One diff stands for everything the venue did since the last one; the interleaving of updates and
  diffs gives every chunking within the bound.
* A client's ordinary raw-capture failure is fail-open in the code and changes only counters; it is
  the same step as a capture here. In `CollectorStop` a keepalive or subscription that fails is a
  closed socket; `OkxCapture` models both.
* `StandaloneRunner` knows which part failed and not what it held; clients, books and the quality
  log are in their own modules.
* `Replay` compares books, not observations, in run `books` for the futures venue; `ReplayAlwaysFaithful`
  is proved for both, `PristineAlwaysParity` for futures: it is false of Spot, whose runner does not try a retained
  snapshot again where replay does. `CompactDaily` was checked also with three rows (3.6 minutes).
* `SplitDataset` fixes two calendars; the fractions 0.70 and 0.15 of a day count are integer quotients,
  which agree with the code's `int(0.70 * n)` below 90 days. `AlignDataset` is one day of one source.

## Not modelled

* Adapters, canonical types, `market_state.py`, trade-flow and book observation: pure arithmetic on
  one message or one row, without state that outlives it or actors that interleave.
* `validator.py`, `gap_detector.py`, `health.py`: statistics and log lines that nothing reads back.
* Open interest polling: a REST request that writes one row through the writers modelled above.
* `source_catalog.py` and the read-only validators of publications: they decide what replay reads,
  and change nothing.
* `stats_computer.py` and the features: floating-point arithmetic over whole files.
* Scripts other than compaction and gap reports: a benchmark, a rehearsal of a migration that was
  done once, reports; none changes what a collector stored.
* Configuration, layout, notification, `disk_monitor.py`: settings, paths and messages that fail open.
* The end of a client's reconnect budget (`websocket_client.py:409`) is a state of `FrameClient`;
  what a collector that lives on without the client misses is nobody's promise, so no property speaks
  of it.

## Plan

Left, in this order:

1. An abstract append-only row log with reported losses that `SegmentWriter` implements, and with it
   the contract `QualityChannel` and `BybitQuality` use.
2. The OKX and Bybit paths of `replay.py`, over `WireBook`.
