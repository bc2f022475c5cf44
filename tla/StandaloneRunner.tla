-------------------------- MODULE StandaloneRunner --------------------------
(***************************************************************************)
(* The life of a standalone collector, run_bybit_collector.py,             *)
(* run_okx_collector.py or run_binance_spot_collector.py: its construction, *)
(* the frames and recoveries that meet failing writers, the free-space     *)
(* monitor of Bybit's, and supervise_standalone_runner, which stops it and *)
(* turns what happened into an exit status.                                *)
(*                                                                         *)
(* A part is a derived writer, or the deduplication index of a trade route; *)
(* a part that failed refuses for good.  The quality channel of Bybit has a *)
(* log of its own, which BybitQuality models; here it fails or does not.   *)
(***************************************************************************)
EXTENDS FailurePolicy, DiskMonitor

CONSTANTS Venues,      \* the runners to consider
          MaxFaults,   \* bound: parts that fail, by runner
          MaxEvents    \* bound: quality events of the client, the adapter and the book

ASSUME RunnerAssumption ==
  /\ Venues \subseteq {"BYBIT", "OKX", "BINANCE_SPOT"}
  /\ MaxFaults \in [Venues -> Nat] /\ MaxEvents \in Nat

VARIABLES
  venue,     \* which runner this is
  pc,        \* where the process is
  app,       \* the policy and the quality counters
  dead,      \* parts, or "raw", that failed
  events,    \* quality events so far
  task,      \* the application task
  stop,      \* the stop event is set
  crashed,   \* supervise_standalone_runner's flag
  disk,      \* the free-space monitor
  verdicts,  \* the runner's _disk_emergency and _disk_monitor_unavailable
  seen,      \* what happened, for the record
  status     \* the exit status

vars == <<venue, pc, app, dead, events, task, stop, crashed, disk, verdicts, seen, status>>
life == <<venue, events, crashed, status>>

\* The writers of a runner and the routes they serve.
Derived(v) ==
  CASE v = "BINANCE_SPOT" -> [spot_trades |-> "trades", spot_orderbook_raw |-> "orderbook"]
    [] v = "OKX"   -> [okx_trades |-> "trades", okx_trades_all |-> "trades_all",
                       okx_markprice |-> "markprice", okx_indextickers |-> "indextickers",
                       okx_fundingrate |-> "fundingrate", okx_openinterest |-> "openinterest",
                       okx_liquidation |-> "liquidation"]
    [] v = "BYBIT" -> [bybit_orderbook |-> "orderbook", bybit_trades |-> "trades",
                       bybit_markprice |-> "markprice", bybit_openinterest |-> "openinterest",
                       bybit_liquidation |-> "liquidation"]

Raw(v)   == IF v = "BINANCE_SPOT" THEN {"raw_wire", "raw_rest"} ELSE {"raw_wire"}
Table(v) == StreamTable(Raw(v), Derived(v), {"quality"}, "trades")

\* The deduplication indexes, by the route they guard.
Indexes(v) ==
  IF v = "OKX" THEN [dedup |-> "trades", dedup_all |-> "trades_all"] ELSE [dedup |-> "trades"]
Parts(v)   ==
  [p \in DOMAIN Derived(v) \cup DOMAIN Indexes(v) |->
     IF p \in DOMAIN Indexes(v) THEN Indexes(v)[p] ELSE Derived(v)[p]]

\* _CHANNEL_ROUTES, _MESSAGE_ROUTES: the routes one message feeds.
Messages(v) ==
  LET routes == {Derived(v)[w] : w \in DOMAIN Derived(v)}
  IN  IF v = "BYBIT" THEN {{"markprice", "openinterest"}}
               \cup {{r} : r \in routes \ {"markprice", "openinterest"}}
      ELSE {{r} : r \in routes}

\* The exception of a failed part, tagged as tag_route does with the served route.
Raised(part) ==
  IF part \in DOMAIN Indexes(venue) THEN Fatal("segment_dedup", "trades", Indexes(venue)[part])
  ELSE Fatal("parquet_writer", part, Derived(venue)[part])

Outcomes == {"stored", "dropped"} \cup Stages

Init ==
  /\ venue \in Venues /\ pc = "boot" /\ app = NewApp /\ dead = {} /\ events = 0
  /\ task = "none" /\ stop = FALSE /\ crashed = FALSE /\ disk = NewMonitor
  /\ verdicts = {} /\ seen = {} /\ status = 0

Exit(code) == pc' = "exited" /\ status' = code

\* A part fails now, or has failed.
Fails(part) ==
  \/ part \in dead /\ UNCHANGED dead
  \/ part \notin dead /\ Cardinality(dead) < MaxFaults[venue] /\ dead' = dead \cup {part}

(***************************************************************************)
(* Construction and the start                                              *)
(***************************************************************************)

\* __init__: a raw writer's constructor may report orphans before the policy
\* exists.  Where that report fails, Bybit's constructor raises and the others hold it.
Construct ==
  /\ pc = "boot" /\ events' \in 0 .. MaxEvents
  /\ \E after \in PersistRow(app, events', FALSE) :
       IF venue = "BYBIT" /\ after.held
       THEN Exit(1) /\ app' = after /\ seen' = {"unbuilt"} /\ task' = task
       ELSE /\ app' = AdoptHeld(after) /\ UNCHANGED <<seen, status>>
            /\ pc' = IF venue = "BYBIT" THEN "preflight" ELSE "running"
            /\ task' = IF venue = "BYBIT" THEN "none" ELSE "running"
  /\ UNCHANGED <<venue, dead, stop, crashed, disk, verdicts>>

\* storage_pressure_preflight_failed and establish_measurement, one poll: the
\* client is not started on a disk that is full or that nobody can measure.
Preflight ==
  /\ pc = "preflight" /\ disk' \in Polls(disk)
  /\ CASE disk'.unknown = 0 /\ disk'.level # 3 ->
            pc' = "running" /\ task' = "running" /\ UNCHANGED <<verdicts, seen>>
       [] disk'.unknown = 0 /\ disk'.level = 3 ->
            pc' = "refused" /\ verdicts' = {"emergency"} /\ seen' = {"emergency"} /\ task' = task
       [] disk'.unknown # 0 /\ disk'.unavailable ->
            pc' = "refused" /\ verdicts' = {"unavailable"} /\ task' = task
              /\ seen' = IF disk'.unknown > Grace THEN {"unmeasured"} ELSE {}
       [] OTHER -> UNCHANGED <<pc, task, verdicts, seen>>
  /\ UNCHANGED <<life, app, dead, stop>>

(***************************************************************************)
(* The running application                                                 *)
(***************************************************************************)

\* A latched client takes in nothing.
Ingesting == pc = "running" /\ task = "running" /\ ~app.terminal
Quiet     == UNCHANGED <<life, pc, task, stop, disk, verdicts>>

\* What a message is served on: not a route that is cut off.
Serves(message) == message \ app.isolated

\* _handle_message raises what a part of a route it feeds raised; a route that is
\* cut off is not served.  "handler" is the worker's boundary in the client.
Frame ==
  /\ Ingesting /\ Quiet /\ UNCHANGED seen
  /\ \E message \in Messages(venue) : \E part \in DOMAIN Parts(venue) :
       /\ Parts(venue)[part] \in Serves(message)
       /\ Fails(part)
       /\ \E how \in Outcomes : app' = OnFatal(app, Table(venue), Raised(part), "handler", how)

\* _capture_raw_frame at the client's boundary, _capture_rest at the recovery's.
RawFails ==
  /\ Ingesting /\ Quiet /\ Fails("raw") /\ seen' = seen \cup {"evidence"}
  /\ \E origin \in {"raw_frame"} \cup (IF venue = "BINANCE_SPOT" THEN {"raw_rest"} ELSE {}) :
     \E stream \in Raw(venue) : \E how \in Outcomes :
       app' = OnFatal(app, Table(venue), Fatal("parquet_writer", stream, None), origin, how)

\* A typed fatal of no writer that the runner lists.
Unlisted == Fatal("parquet_writer", "unlisted", None)
UnlistedFails ==
  /\ Ingesting /\ Quiet /\ Fails("unlisted") /\ seen' = seen \cup {"evidence"}
  /\ \E how \in Outcomes : app' = OnFatal(app, Table(venue), Unlisted, "handler", how)

\* _recover_book: the committed rows meet the order-book writer, cut off or not.
RecoveryFails ==
  /\ Ingesting /\ Quiet /\ UNCHANGED seen /\ venue = "BINANCE_SPOT"
  /\ Fails("spot_orderbook_raw")
  /\ \E how \in Outcomes :
       app' = OnFatal(app, Table(venue), Raised("spot_orderbook_raw"), "route:orderbook", how)

\* An event of the client, the adapter or the book, or a frame of no known stream.
QualityEvent ==
  /\ pc = "running" /\ task # "none" /\ events < MaxEvents /\ events' = events + 1
  /\ \E how \in Outcomes : app' = Persist(app, how, TRUE)
  /\ UNCHANGED <<venue, pc, dead, task, stop, crashed, disk, verdicts, seen, status>>

\* run() returns (its client's budget is spent, or it is latched), raises, or is cancelled.
TaskEnds ==
  /\ pc = "running" /\ task = "running"
  /\ task' \in {"ended", "crashed", "fatal", "cancelled"}
  /\ seen' = IF task' = "crashed" THEN seen \cup {"crash"} ELSE seen
  /\ UNCHANGED <<life, pc, app, dead, stop, disk, verdicts>>

Signal ==
  /\ pc \in {"preflight", "running"} /\ ~stop /\ stop' = TRUE /\ seen' = seen \cup {"signal"}
  /\ UNCHANGED <<life, pc, app, dead, task, disk, verdicts>>

\* StoragePressureMonitor.run: a poll, and the callback that asks for the stop.
DiskPoll ==
  /\ pc = "running" /\ venue = "BYBIT" /\ ~disk.handled
  /\ \E next \in Polls(disk) :
       /\ disk' = [next EXCEPT !.handled = next.emergency \/ next.unavailable]
       /\ stop' = (stop \/ disk'.handled)
       /\ verdicts' = IF next.emergency THEN verdicts \cup {"emergency"}
                      ELSE IF next.unavailable THEN verdicts \cup {"unavailable"} ELSE verdicts
       /\ seen' = IF next.level = 3 /\ next.unknown = 0 THEN seen \cup {"emergency"}
                  ELSE IF next.unknown > Grace THEN seen \cup {"unmeasured"} ELSE seen
  /\ UNCHANGED <<life, pc, app, dead, task>>

(***************************************************************************)
(* supervise_standalone_runner                                             *)
(***************************************************************************)

\* The writers whose close raises.
Refusing == dead \ {"unlisted", "dedup", "dedup_all"}

\* shutdown: every writer is closed whatever the others do; a failed one, or one
\* that fails now, is told to the quality channel, which closes last.
Shutdown(from) ==
  \E late \in 0 .. 1 : app' \in PersistRow(from, Cardinality(Refusing) + late, TRUE)

Over == {"cancelled", "fatal", "crashed"}

\* Mutant: the terminal event is not waited for.
WakesDeaf == stop \/ task \in Over

\* What ends the wait.
Wakes == stop \/ app.terminal \/ task \in Over

\* The task's end counts when neither a signal nor a latched failure came first.
Observed == ~stop /\ ~app.terminal

\* The wait ends, and in the same step of the loop the runner is shut down.
StopRunning ==
  /\ pc = "running" /\ Wakes /\ pc' = "joining"
  /\ crashed' = (Observed /\ task \in {"cancelled", "crashed"})
  /\ IF Observed /\ task = "fatal"
     THEN /\ seen' = seen \cup {"evidence"}
          /\ \E how \in Outcomes : Shutdown(OnFatal(app, Table(venue), Unlisted, "run_task", how))
     ELSE UNCHANGED seen /\ Shutdown(app)
  /\ UNCHANGED <<venue, events, status, dead, task, stop, disk, verdicts>>

\* The task after its cancellation, observed or timed out; a late typed fatal is latched.
Join ==
  /\ pc = "joining" /\ pc' = "judging"
  /\ task' \in IF task = "running"
                THEN {"cancelled", "ended", "crashed", "fatal", "stuck"} ELSE {task}
  /\ IF task' = "fatal" /\ ~app.terminal
     THEN /\ seen' = seen \cup {"evidence"}
          /\ \E how \in Outcomes : app' = OnFatal(app, Table(venue), Unlisted, "run_task", how)
     ELSE seen' = (IF task' = "crashed" THEN seen \cup {"crash"} ELSE seen) /\ UNCHANGED app
  /\ UNCHANGED <<life, dead, stop, disk, verdicts>>

\* _run_supervised: the runner was refused before it was supervised.
ShutRefused ==
  /\ pc = "refused" /\ pc' = "judging" /\ Shutdown(app)
  /\ UNCHANGED <<life, dead, task, stop, disk, verdicts, seen>>

\* Mutant: the runner's own status hides the terminal one.
StatusDiskFirst ==
  IF "emergency" \in verdicts THEN 1 ELSE IF "unavailable" \in verdicts THEN 69
  ELSE IF app.terminal THEN 70 ELSE IF crashed THEN 1 ELSE 0

\* The statuses of supervise_standalone_runner, and of exit_code where that is 0.
Status ==
  IF app.terminal THEN 70
  ELSE IF crashed \/ "emergency" \in verdicts THEN 1
  ELSE IF "unavailable" \in verdicts THEN 69 ELSE 0

Judge ==
  /\ pc = "judging" /\ Exit(Status)
  /\ UNCHANGED <<venue, app, dead, events, task, stop, crashed, disk, verdicts, seen>>

Next ==
  \/ Construct \/ Preflight \/ Frame \/ RawFails \/ UnlistedFails \/ RecoveryFails \/ QualityEvent
  \/ TaskEnds \/ Signal \/ DiskPoll \/ StopRunning \/ Join \/ ShutRefused \/ Judge

Spec == Init /\ [][Next]_vars

\* The event loop wakes the supervisor, bounds its waits, and the preflight polls.
FairSpec ==
  /\ Spec
  /\ WF_vars(Preflight) /\ WF_vars(StopRunning) /\ WF_vars(Join)
       /\ WF_vars(ShutRefused) /\ WF_vars(Judge)
(***************************************************************************)
(* Properties                                                              *)
(***************************************************************************)

TypeOK ==
  /\ venue \in Venues /\ events \in 0 .. MaxEvents /\ status \in {0, 1, 69, 70}
  /\ pc \in {"boot", "preflight", "refused", "running", "joining", "judging", "exited"}
  /\ DOMAIN app = DOMAIN NewApp /\ {app.lost, app.unconfirmed, app.gone, app.unsure} \subseteq Nat
  /\ {app.degraded, app.terminal, app.held, stop, crashed} \subseteq BOOLEAN
  /\ dead \subseteq DOMAIN Parts(venue) \cup {"raw", "unlisted"} /\ IsFiniteSet(dead)
  /\ task \in Over \cup {"none", "running", "ended", "stuck"}
  /\ disk \in Monitor /\ verdicts \subseteq {"emergency", "unavailable"}
  /\ seen \subseteq {"unbuilt", "evidence", "crash", "signal", "emergency", "unmeasured"}

\* The exit status tells the worst that happened, whichever of the signal, the
\* monitor, the latch and the task's end the supervisor saw first: 70 for lost raw
\* evidence and nothing else, 69 only where the space was never confirmed low, 0
\* only for a signalled stop.
ExitTellsTheTruth ==
  pc = "exited" =>
    /\ status = 70 <=> "evidence" \in seen
    /\ status = 69 => "unmeasured" \in seen /\ "emergency" \notin seen
    /\ status = 1  => seen \cap {"unbuilt", "crash", "emergency"} # {} \/ task = "cancelled"
    /\ status = 0  => "signal" \in seen /\ seen \subseteq {"signal", "crash"}

\* A route is cut off exactly when a part of it failed, also where two trade routes
\* fail under one generic name; and the runner is terminal exactly when raw evidence,
\* or nobody knows what, was lost.
IsolatesTheBroken ==
  pc # "boot" =>
    /\ app.isolated = {Parts(venue)[p] : p \in dead \cap DOMAIN Parts(venue)}
    /\ app.terminal <=> "evidence" \in seen

\* The quality counters say of every event that met the failing writer what the
\* disk says of it: lost when it is on no published segment, unconfirmed when that
\* is unknown, and neither when it is published, through the report of a failure
\* nested in another, the hold before the policy and the closing of the writers.
CountersHonest == app.lost = app.gone /\ app.unconfirmed = app.unsure

\* What the quality writer's failure was, the policy has latched, once it exists.
NothingHeldBack == pc # "boot" /\ app.gone + app.unsure > 0 => app.degraded \/ "unbuilt" \in seen

\* A runner that was not built has done nothing, and one whose client was not started
\* nothing but hear a signal.
Unbuilt ==
  /\ pc = "boot" =>
       /\ app = NewApp /\ dead = {} /\ seen = {} /\ verdicts = {} /\ disk = NewMonitor
       /\ task = "none" /\ ~stop /\ ~crashed
  /\ pc = "preflight" => task = "none" /\ ~disk.handled /\ seen \subseteq {"signal"}

\* What the runner holds against the disk is what its monitor saw, and a stop that the
\* monitor did not ask for was a signal's.
VerdictsTell ==
  /\ "emergency" \in verdicts <=> "emergency" \in seen
  /\ "unavailable" \in verdicts => "unmeasured" \in seen
  /\ "unmeasured" \in seen => verdicts # {}
  /\ pc = "refused" => verdicts # {}
  /\ pc = "preflight" => verdicts = {}
  /\ stop /\ verdicts = {} => "signal" \in seen
  /\ disk.emergency \/ disk.unavailable => disk.handled \/ pc \notin {"preflight", "running"}

\* What the supervisor holds against the task is how the task ended, and it did not
\* stop a runner without a reason.
EndTells ==
  /\ crashed => task \in {"cancelled", "crashed"} /\ pc \in {"joining", "judging", "exited"}
  /\ task = "crashed" => "crash" \in seen
  /\ pc \in {"joining", "judging"} => app.terminal \/ crashed \/ verdicts # {} \/ "signal" \in seen
  /\ "unbuilt" \in seen => pc = "exited"
  /\ app.held => "unbuilt" \in seen

\* The record of the runner: its type, its quality channel, its latches, its monitor, and
\* what its exit status will be made of.
RunnerInv ==
  /\ TypeOK /\ Unbuilt /\ CountersHonest /\ NothingHeldBack /\ LatchesActed(app)
  /\ Explained(disk) /\ VerdictsTell /\ EndTells

\* A disk that hovers at a threshold does not alert again: between two alerts of a
\* severity the space was clear of its threshold by the margin.
NoAlertStorm ==
  [][disk' # disk /\ disk'.told # 0 => disk'.told \in disk.relieved]_vars

\* A terminal failure, a signal or a latched disk ends the process, whatever the
\* application task does.
FailureEnds ==
  pc # "boot" /\ (app.terminal \/ stop \/ disk.emergency \/ disk.unavailable) ~> pc = "exited"

\* The document's claim: a task that died of an ordinary exception is not a clean exit.
CrashIsReported == pc = "exited" /\ "crash" \in seen => status # 0
=============================================================================
