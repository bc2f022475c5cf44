---------------------------- MODULE BinanceBook ----------------------------
(***************************************************************************)
(* The USD-M futures order book of collector/run_collector.py: the diff    *)
(* handler, the scheduling of recoveries, the recovery coroutine, the one  *)
(* start() awaits itself, and the reconnect handler.                       *)
(***************************************************************************)
EXTENDS DepthFeed

VARIABLE startup  \* start()'s own recovery: "waiting" for the websockets, then a task

vars == <<venue, book, ctl, task, isolated, terminal, out, bounds, startup>>

Waiting == [st |-> "waiting", from |-> NoId]

TypeOK == FeedOK /\ startup \in Tasks \cup {Waiting} /\ ctl.recent <= MaxPerWindow + 1

Init == FeedInit /\ startup = Waiting

\* _schedule_recovery: the task is created and its attempt begun at once.
Schedule ==
  IF Allows(ctl) /\ task = NoTask
  THEN task' = [st |-> "created", from |-> NoId] /\ ctl' = Begin(ctl)
  ELSE UNCHANGED <<task, ctl>>

\* Mutant: only a gap asks for a recovery.
NeedsRecoveryOnGap(result) == result.rows = <<>> /\ result.book.state = "SEQUENCE_GAP"

\* needs_recovery of _handle_binance_orderbook.
NeedsRecovery(result) == result.rows = <<>> /\ result.book.state # "VALID"

\* handle_message and _handle_binance_orderbook: apply, give a retained
\* snapshot another chance, else ask for a recovery.
Handle(d) ==
  LET result == Apply(book, d)
      again  == Retry(result.book)
  IN IF isolated
     THEN Persist(<<>>) /\ UNCHANGED <<book, ctl, task, isolated>>
     ELSE IF NeedsRecovery(result) /\ again.why # "bridged"
     THEN book' = again.book /\ Schedule /\ Persist(<<>>) /\ UNCHANGED isolated
     ELSE /\ book' = IF NeedsRecovery(result) THEN again.book ELSE result.book
          /\ \E sound \in BOOLEAN :
               PersistOrIsolate(IF NeedsRecovery(result) THEN again.rows ELSE result.rows, sound)
          /\ UNCHANGED <<ctl, task>>

HandleDiff ==
  /\ ~terminal
  /\ \E d \in Delivers \cup Damages \cup Repeats : Arrives(d) /\ Handle(d)
  /\ UNCHANGED <<terminal, drops, startup>>

\* The first lines of _recover_binance_book, up to the request.
Request(b, c) == /\ book' = Resync(b)
                 /\ ctl' = IF c.inFlight THEN c ELSE Begin(c)

TaskStart ==
  /\ task.st = "created" /\ task' = [st |-> "rest", from |-> head]
  /\ Request(book, ctl) /\ Persist(<<>>)
  /\ UNCHANGED <<venue, isolated, terminal, bounds, startup>>

\* start() awaits its own recovery once the websockets are connected.
StartupRequest ==
  /\ startup = Waiting /\ Request(book, ctl)
  /\ startup' = [st |-> "rest", from |-> head] /\ Persist(<<>>)
  /\ UNCHANGED <<venue, task, isolated, terminal, bounds>>

\* The rest of _recover_binance_book after its answer, for the recovery t.
Refused ==
  /\ Fault /\ ctl' = RateLimit(ctl) /\ book' = Gap(book)
  /\ Persist(<<>>) /\ UNCHANGED <<isolated, terminal>>

Failed ==
  /\ Fault /\ ctl' = Fail(ctl) /\ book' = Gap(book)
  /\ Persist(<<>>) /\ UNCHANGED <<isolated, terminal>>

\* The raw REST writer failed: the process is about to end, and the snapshot
\* is not used.
Uncaptured ==
  /\ IF terminal THEN UNCHANGED faults ELSE Fault
  /\ terminal' = TRUE /\ Persist(<<>>) /\ UNCHANGED <<book, ctl, isolated>>

Answered(t) ==
  /\ ~terminal
  /\ \E snap \in Answers(t) :
     /\ IF snap.good THEN UNCHANGED faults ELSE Fault
     /\ \E result \in {Attempt(book, snap)} :
       /\ book' = result.book /\ UNCHANGED terminal
       /\ \E sound \in BOOLEAN :
            /\ IF result.why = "bridged"
               THEN PersistOrIsolate(result.rows, sound)
               ELSE sound /\ Persist(<<>>) /\ UNCHANGED isolated
            /\ ctl' = IF result.why = "bridged" /\ ~sound THEN ctl
                      ELSE IF result.why \in {"bridged", "snapshot_ahead_of_buffer"}
                           THEN Succeed(ctl) ELSE Fail(ctl)

Answer(t) == Refused \/ Failed \/ Uncaptured \/ Answered(t)

TaskAnswer ==
  /\ task.st = "rest" /\ task' = NoTask /\ Answer(task)
  /\ UNCHANGED <<venue, drops, startup>>

StartupAnswer ==
  /\ startup.st = "rest" /\ startup' = NoTask /\ Answer(startup)
  /\ UNCHANGED <<venue, drops, task>>

\* The websocket drops and reconnects: the handler invalidates the book at once,
\* while diffs received before may still be queued or lost for good.
Reconnect ==
  /\ drops < MaxDrops /\ drops' = drops + 1
  /\ sent' \in {sent, head} /\ book' = Invalidate(book) /\ Persist(<<>>)
  /\ UNCHANGED <<head, lastDiff, ctl, task, isolated, terminal, faults, startup>>

Next ==
  \/ HandleDiff \/ TaskStart \/ TaskAnswer \/ StartupRequest \/ StartupAnswer \/ Reconnect
  \/ (Update \/ Lose \/ Time) /\ UNCHANGED startup

Spec == Init /\ [][Next]_vars

\* The event loop runs a task it created, and a request ends: it has a timeout
\* of five seconds.
FairSpec ==
  /\ Spec
  /\ WF_vars(TaskStart) /\ WF_vars(TaskAnswer) /\ WF_vars(StartupAnswer)

(***************************************************************************)
(* Properties                                                              *)
(***************************************************************************)

\* An attempt does not stay in flight for ever, so the controller cannot be
\* silenced by one, unless the route it serves was cut off or the process ends.
AttemptEnds == ctl.inFlight ~> ~ctl.inFlight \/ isolated \/ terminal

\* A diff that leaves the book untrusted leaves a recovery under way, or the
\* controller did not allow one.
UntrustedAsks ==
  [][lastDiff' # lastDiff /\ ~isolated /\ book'.state # "VALID"
       => task' # NoTask \/ ~Allows(ctl)]_vars

\* The controller's promise: at most one recovery in flight.
OneRecoveryInFlight == ~(task.st = "rest" /\ startup.st = "rest")
=============================================================================
