------------------------------ MODULE MCBooks ------------------------------
(***************************************************************************)
(* The books in one run: a behaviour is one of the USD-M futures runner    *)
(* (BinanceBook), of the Spot runner (SpotBook), of a book whose stream    *)
(* brings its own snapshots (WireBook) or of a recording of the futures    *)
(* book and its replay (Replay); the last two are instances that share the *)
(* venue's updates and the bounds.                                         *)
(***************************************************************************)
EXTENDS BinanceBook, SpotBook

CONSTANTS Venue,        \* the venue of the book that is replayed
          FuturesHead,  \* bound: the last update of the futures venue
          MaxFrames, MaxTick, MaxQueue, TapeFaults

VARIABLES which,  \* the runner of this behaviour
          exchange, base, owes, last, wire, holed,
          asked, tick, queue, live, liveRows, log, hidden, overtook, replay, mode

runner  == <<lastDiff, book, ctl, task, startup, isolated, terminal, rows, lastRow>>
stream  == <<exchange, base, owes, last, wire, holed>>
tape    == <<asked, tick, queue, live, liveRows, log, hidden, overtook, replay, mode>>

Stream == INSTANCE WireBook
Tape   == INSTANCE Replay WITH MaxFaults <- TapeFaults

ASSUME TapeAssumption == Tape!ReplayAssumption

MCInit ==
  /\ Stream!Init /\ Tape!Init
  /\ \/ which = "futures" /\ Init /\ exchange = "OKX"
     \/ which = "spot" /\ SpotInit /\ startup = NoTask /\ exchange = "OKX"
     \/ which = "wire" /\ Init
     \/ which = "replay" /\ Init /\ exchange = "OKX"

\* A futures behaviour has a shorter stream, and faults and reconnects share a budget.
FuturesBound == head' <= FuturesHead /\ faults' + drops' <= MaxFaults

MCNext ==
  /\ UNCHANGED which
  /\ \/ which = "futures" /\ Next /\ FuturesBound /\ UNCHANGED <<stream, tape>>
     \/ which = "spot" /\ SpotNext /\ UNCHANGED <<startup, stream, tape>>
     \/ which = "wire" /\ Stream!Next /\ UNCHANGED <<runner, tape>>
     \/ which = "replay" /\ Tape!Next /\ head' <= FuturesHead /\ UNCHANGED <<runner, stream, drops>>

\* The fairness of both FairSpecs.  TaskStart and TaskAnswer exclude each other, as do
\* RecoverStarts and RecoverAnswered, so being fair to each is being fair to both.
TaskRuns ==
  \/ which = "futures" /\ (TaskStart \/ TaskAnswer)
  \/ which = "spot" /\ (RecoverStarts \/ RecoverAnswered)

MCSpec ==
  /\ MCInit /\ [][MCNext]_<<vars, stream, tape, which>>
  /\ WF_task(TaskRuns) /\ WF_startup(which = "futures" /\ StartupAnswer)

\* The states of the futures runner, and what FeedSound of its book rests on (FeedKept).
FuturesKept == which = "futures" => TypeOK /\ FeedKept

\* The same of the Spot runner.
SpotKept == which = "spot" => SpotTypeOK /\ FeedKept

\* The states of a book whose stream brings the snapshots; a VALID one is the venue's
\* book (WireFaithful).
WireKept == which = "wire" => Stream!TypeOK /\ Stream!WireFaithful

\* The three.
BooksKept == FuturesKept /\ SpotKept /\ WireKept

\* A VALID replayed book, and each row of it, is the venue's (ReplayFaithful of Replay).
ReplayFaithful == which = "replay" => Tape!ReplayFaithful

\* A pristine replay ends in the collector's book by its rows (PristineParity of Replay).
PristineParity == which = "replay" => Tape!PristineParity

\* An attempt does not stay in flight for ever: AttemptEnds of either runner.
AttemptsEnd ==
  ctl.inFlight ~> ~ctl.inFlight \/ (which = "futures" /\ (isolated \/ terminal))

\* A diff that leaves the futures book untrusted, or costs the Spot book its trust or
\* finds it never bridged, leaves a recovery under way or the controller did not
\* allow one: UntrustedAsks, LossAsks.
LossesAsk ==
  [][/\ lastDiff' # lastDiff /\ ~isolated
     /\ IF which = "futures" THEN book'.state # "VALID" ELSE AsksOf(book, book')
     => task' # NoTask \/ ~Allows(ctl)]_<<vars, which>>
=============================================================================
