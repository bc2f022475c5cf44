--------------------------- MODULE FailurePolicy ---------------------------
(***************************************************************************)
(* How a standalone runner classifies and latches a typed storage fatal:   *)
(* collector/collector/failure_topology.py and standalone_failure_policy.py,*)
(* with what storage_errors.py can prove of the record that was being      *)
(* written.  An application is a record and what the code does to it an    *)
(* operator; StandaloneRunner runs one.                                    *)
(***************************************************************************)
EXTENDS Integers, FiniteSets

None    == "none"
Forced  == {"raw_frame", "raw_rest", "run_task"}

\* An exception: the component and stream it names, the route it was tagged with.
Fatal(component, stream, tag) == [component |-> component, stream |-> stream, tag |-> tag]

Entry(verdict, route) == [verdict |-> verdict, route |-> route]

\* build_stream_table: what is absent from it terminates.  The generic stream of a
\* deduplication failure is the trade route's unless a writer has that name.
StreamTable(raw, derived, quality, dedup) ==
  [s \in quality \cup DOMAIN derived \cup raw \cup (IF dedup = None THEN {} ELSE {"trades"}) |->
     IF s \in quality THEN Entry("degrade", None)
     ELSE IF s \in DOMAIN derived THEN Entry("isolate", derived[s])
     ELSE IF s \in raw THEN Entry("terminate", None) ELSE Entry("isolate", dedup)]

\* classify_stream and classify_fatal: default-deny.
Classify(table, exc, origin) ==
  IF origin \in Forced \/ exc.stream \notin DOMAIN table THEN Entry("terminate", None)
  ELSE table[exc.stream]

\* Mutant: the route that was being served is forgotten.
RecordUntagged(table, exc, origin) == Classify(table, exc, origin)

\* FailureRecord, with the served route in place of the stream's.
Record(table, exc, origin) ==
  LET entry == Classify(table, exc, origin)
  IN  IF entry.verdict = "isolate" /\ exc.tag # None THEN Entry("isolate", exc.tag) ELSE entry

\* The identity of a failed component.
Key(exc, record) == <<exc.component, exc.stream, record.route>>

Latched(app, exc, record) == Key(exc, record) \in app.failed

\* _latch and _enter_terminal_mode: a component is latched once.
EnterTerminalMode(app, exc, record) ==
  IF Latched(app, exc, record) THEN app
  ELSE [app EXCEPT
    !.failed   = @ \cup {Key(exc, record)},
    !.isolated = IF record.verdict = "isolate" THEN @ \cup {record.route} ELSE @,
    !.degraded = @ \/ record.verdict = "degrade",
    !.terminal = @ \/ record.verdict = "terminate"]

(***************************************************************************)
(* The quality channel of a runner without a quality log                   *)
(***************************************************************************)

\* Where a write of the quality writer fails for good, the evidence the exception
\* carries, and what is on the disk.
Stages == {"admit", "rename", "dirsync", "reopen"}
Evidence(stage) ==
  CASE stage = "admit"   -> [accepted |-> FALSE, durability |-> "published"]
    [] stage = "rename"  -> [accepted |-> TRUE, durability |-> "unpublished"]
    [] stage = "dirsync" -> [accepted |-> TRUE, durability |-> "unconfirmed"]
    [] stage = "reopen"  -> [accepted |-> TRUE, durability |-> "published"]

\* Mutant: the state of the segment decides, whether the record is in it or not.
DispositionOfSegment(evidence) ==
  CASE evidence.durability = "published"   -> "published"
    [] evidence.durability = "unpublished" -> "lost"
    [] OTHER                               -> "unconfirmed"

\* trigger_event_disposition.
Disposition(evidence) ==
  IF ~evidence.accepted \/ evidence.durability = "unpublished" THEN "lost"
  ELSE IF evidence.durability = "published" THEN "published" ELSE "unconfirmed"

\* _account_trigger_event.
Account(app, stage) ==
  LET disposition == Disposition(Evidence(stage))
  IN  [app EXCEPT !.lost        = IF disposition = "lost" THEN @ + 1 ELSE @,
                  !.unconfirmed = IF disposition = "unconfirmed" THEN @ + 1 ELSE @]

\* What the disk says of the event, for the record.
Witness(app, stage) ==
  [app EXCEPT !.gone   = IF stage \in {"admit", "rename"} THEN @ + 1 ELSE @,
              !.unsure = IF stage = "dirsync" THEN @ + 1 ELSE @]

\* The quality writer failed: latched, or held until the policy exists.
QualityFails(app, built) ==
  IF built THEN EnterTerminalMode(app, Fatal("parquet_writer", "quality", None), Entry("degrade", None))
  ELSE [app EXCEPT !.held = TRUE]

\* Events handed to a channel that failed.
Lose(app, n) == [app EXCEPT !.lost = @ + n, !.gone = @ + n]

\* _persist_quality_event: a channel that failed is not written to again and its
\* events are counted; "dropped" is an ordinary exception, which is logged.
Persist(app, how, built) ==
  IF app.degraded \/ app.held THEN Lose(app, 1)
  ELSE IF how \in {"stored", "dropped"} THEN app
  ELSE Account(Witness(QualityFails(app, built), how), how)

\* So many events in a row: some are stored, one may meet a writer that fails, and
\* those behind it find a channel that failed.
PersistRow(app, n, built) ==
  IF app.degraded \/ app.held THEN {Lose(app, n)}
  ELSE {app} \cup {Lose(Persist(app, met[1], built), met[2]) : met \in Stages \X (0 .. n - 1)}

\* _latch_pre_policy_quality_failure.
AdoptHeld(app) == IF app.held THEN [QualityFails(app, TRUE) EXCEPT !.held = FALSE] ELSE app

\* on_fatal with _report: a new record that is not the quality channel's own is
\* itself told to that channel.
OnFatal(app, table, exc, origin, how) ==
  LET record == Record(table, exc, origin)
      latched == EnterTerminalMode(app, exc, record)
  IN  IF record.verdict = "degrade" \/ Latched(app, exc, record) THEN latched
      ELSE Persist(latched, how, TRUE)

NewApp == [failed |-> {}, isolated |-> {}, degraded |-> FALSE, terminal |-> FALSE,
           held |-> FALSE, lost |-> 0, unconfirmed |-> 0, gone |-> 0, unsure |-> 0]

\* A component that is latched was acted on: its route is cut off, the quality channel
\* is degraded, or the runner is terminal.
LatchesActed(app) ==
  \A key \in app.failed :
    IF key[3] # None THEN key[3] \in app.isolated
    ELSE IF key[2] = "quality" THEN app.degraded ELSE app.terminal
=============================================================================
