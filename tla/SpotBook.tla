------------------------------ MODULE SpotBook ------------------------------
(***************************************************************************)
(* The Spot order book of collector/run_binance_spot_collector.py.  Its    *)
(* runner differs from the futures one: a retained snapshot is retried     *)
(* only while nothing was ever bridged, a recovery is asked for when VALID *)
(* is lost and while nothing was ever bridged, a refusal by the venue is   *)
(* an ordinary failure, and a reconnect does not invalidate the book: it   *)
(* is one more loss of diffs.                                              *)
(***************************************************************************)
EXTENDS DepthFeed

spot == <<venue, book, ctl, task, isolated, terminal, out, bounds>>

SpotTypeOK == FeedOK /\ ctl.recent <= MaxPerWindow

Created == [st |-> "created", from |-> NoId]

\* run asks for the initial bridge before it starts the client.
SpotInit ==
  /\ head = 1 /\ sent = 1 /\ lastDiff = NoDiff
  /\ book = Fresh("BINANCE_SPOT") /\ ctl = Begin(Idle) /\ task = Created
  /\ isolated = FALSE /\ terminal = FALSE
  /\ rows = <<>> /\ lastRow = NoRow /\ faults = 0 /\ drops = 0

\* _schedule_recovery.
ScheduleRecovery ==
  IF ~terminal /\ ~isolated /\ Allows(ctl) /\ task = NoTask
  THEN task' = Created /\ ctl' = Begin(ctl)
  ELSE UNCHANGED <<task, ctl>>

\* The conditions at the end of _apply_orderbook.
Asks(result) ==
  \/ book.state = "VALID" /\ result.book.state # "VALID"
  \/ result.book.prev = NoId

\* _apply_orderbook: the diff, then a retained snapshot if nothing was ever bridged.
Applied(d) ==
  LET result == Apply(book, d)
  IN IF result.rows = <<>> /\ result.book.prev = NoId THEN Retry(result.book) ELSE result

\* _handle_message.  The adapter turns a diff without ids away, so for the book
\* it is lost.
HandleMessage ==
  /\ ~terminal
  /\ \E d \in Delivers \cup Damages \cup Repeats :
       /\ d.form # "no_ids" /\ Arrives(d)
       /\ IF isolated
          THEN Persist(<<>>) /\ UNCHANGED <<book, ctl, task, isolated>>
          ELSE LET result == Applied(d)
               IN /\ book' = result.book
                  /\ \E sound \in BOOLEAN : PersistOrIsolate(result.rows, sound)
                  /\ IF Asks(result) THEN ScheduleRecovery ELSE UNCHANGED <<ctl, task>>
  /\ UNCHANGED <<terminal, drops>>

\* _recover_book up to its request.
RecoverStarts ==
  /\ task = Created /\ task' = [st |-> "rest", from |-> head] /\ Persist(<<>>)
  /\ UNCHANGED <<venue, book, ctl, isolated, terminal, bounds>>

\* _recover_book after its answer: the request failed,
RequestFailed ==
  /\ Fault /\ ctl' = Fail(ctl) /\ book' = Gap(book)
  /\ Persist(<<>>) /\ UNCHANGED <<isolated, terminal>>

\* or the raw REST writer did: the process is about to end,
SnapshotUncaptured ==
  /\ IF terminal THEN UNCHANGED faults ELSE Fault
  /\ ctl' = Fail(ctl) /\ terminal' = TRUE
  /\ Persist(<<>>) /\ UNCHANGED <<book, isolated>>

\* or a snapshot came.  A row the writer refuses, as it does once the route is cut off,
\* fails the recovery after its success was noted; an answer without rows asks no writer.
SnapshotArrived ==
  /\ ~terminal
  /\ \E snap \in Answers(task) :
     /\ IF snap.good THEN UNCHANGED faults ELSE Fault
     /\ \E result \in {Attempt(book, snap)}, sound \in BOOLEAN :
       /\ book' = result.book /\ UNCHANGED terminal
       /\ PersistOrIsolate(result.rows, sound)
       /\ ctl' = IF ~sound THEN Fail(Succeed(ctl))
                 ELSE IF result.why \in {"bridged", "snapshot_ahead_of_buffer"}
                      THEN Succeed(ctl) ELSE Fail(ctl)

RecoverAnswered ==
  /\ task.st = "rest" /\ task' = NoTask
  /\ RequestFailed \/ SnapshotUncaptured \/ SnapshotArrived
  /\ UNCHANGED <<venue, drops>>

\* The websocket drops and reconnects; the diffs in between are lost.
SpotReconnect ==
  /\ drops < MaxDrops /\ drops' = drops + 1 /\ sent < head
  /\ sent' = head /\ Persist(<<>>)
  /\ UNCHANGED <<head, lastDiff, book, ctl, task, isolated, terminal, faults>>

SpotNext ==
  HandleMessage \/ RecoverStarts \/ RecoverAnswered \/ SpotReconnect \/ Update \/ Lose \/ Time

SpotSpec == SpotInit /\ [][SpotNext]_spot

\* The event loop runs the task, and its request has a timeout of five seconds.
SpotFairSpec == SpotSpec /\ WF_spot(RecoverStarts) /\ WF_spot(RecoverAnswered)

(***************************************************************************)
(* Properties                                                              *)
(***************************************************************************)

\* An attempt in flight is the task's own, so every attempt ends.
SpotAttemptEnds == ctl.inFlight ~> ~ctl.inFlight

AsksOf(before, after) ==
  after.prev = NoId \/ (before.state = "VALID" /\ after.state # "VALID")

\* A diff that costs the book its trust, or finds it never bridged, leaves a
\* recovery under way, or the controller did not allow one.
LossAsks ==
  [][lastDiff' # lastDiff /\ ~isolated /\ AsksOf(book, book')
       => task' # NoTask \/ ~Allows(ctl)]_spot
=============================================================================
