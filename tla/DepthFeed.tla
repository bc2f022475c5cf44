----------------------------- MODULE DepthFeed -----------------------------
(***************************************************************************)
(* What the two buffered books have in common: the venue and its diff      *)
(* stream, the book and the controller that paces its REST recoveries, and *)
(* the recovery task.  BinanceBook and SpotBook add the runners' handlers. *)
(*                                                                         *)
(* The handlers and the parts of a recovery between awaits run on one      *)
(* event loop; the book lock is never held across an await, so each such   *)
(* part is one step.  The venue, the stream and REST are the environment.  *)
(***************************************************************************)
EXTENDS LocalBook, RecoveryControl

CONSTANTS MaxFaults,   \* bound: lost, repeated or damaged diffs, refused requests
          MaxDrops     \* bound: reconnects of the websocket

ASSUME FeedAssumption == MaxFaults \in Nat /\ MaxDrops \in Nat

VARIABLES
  \* the venue: last update made, last update sent in a diff; the last diff
  head, sent, lastDiff,
  \* the runner: book, controller, recovery task, route cut off, terminal failure
  book, ctl, task, isolated, terminal,
  \* observation: the rows the last step persisted, the last row before them
  rows, lastRow,
  \* bounds
  faults, drops

venue  == <<head, sent, lastDiff>>
bounds == <<faults, drops>>
out    == <<rows, lastRow>>

\* The last row persisted.
NoRow  == [gen |-> 0, U |-> NoId, u |-> NoId, pu |-> NoId, levels |-> Empty]
Tip    == IF rows = <<>> THEN lastRow ELSE Last(rows)

\* A recovery: not running, created and not yet run, or waiting for REST.
\* from is the venue's update when the request left.
NoTask == [st |-> "none", from |-> NoId]
Tasks  == [st : {"none", "created", "rest"}, from : Id \cup {NoId}]

FeedOK ==
  /\ head \in Id /\ sent \in Id /\ lastDiff \in Diff \cup {NoDiff}
  /\ BookOK(book) /\ ControlOK(ctl) /\ task \in Tasks
  /\ rows \in Seq(Row) /\ lastRow \in Row \cup {NoRow}
  /\ isolated \in BOOLEAN /\ terminal \in BOOLEAN /\ faults \in Nat /\ drops \in Nat

FeedInit ==
  /\ head = 1 /\ sent = 1 /\ lastDiff = NoDiff
  /\ book = Fresh("BINANCE") /\ ctl = Idle /\ task = NoTask /\ isolated = FALSE /\ terminal = FALSE
  /\ rows = <<>> /\ lastRow = NoRow /\ faults = 0 /\ drops = 0

Fault == faults < MaxFaults /\ faults' = faults + 1

\* The rows of a step reach the raw-book writer.
Persist(new) ==
  /\ rows' = new
  /\ lastRow' = Tip

\* The book changes on the venue.
Update ==
  /\ head < MaxId /\ head' = head + 1 /\ Persist(<<>>)
  /\ UNCHANGED <<sent, lastDiff, book, ctl, task, isolated, terminal, bounds>>

\* The diff of everything since the last one, in the form it arrives in.  Spot
\* diffs carry no pu.
NextDiff(form) == [U |-> sent + 1, u |-> head, form |-> form,
                   pu |-> IF book.venue = "BINANCE" THEN sent ELSE NoId]

\* What the stream may deliver next: the diff, the diff damaged, or the last one
\* again.
Delivers == IF sent < head THEN {NextDiff("ok")} ELSE {}
Damages  == IF sent < head THEN {NextDiff("bad_levels"), NextDiff("no_ids")} ELSE {}
Repeats  == {lastDiff} \ {NoDiff}

Arrives(d) ==
  \/ d \in Delivers /\ sent' = head /\ lastDiff' = d /\ UNCHANGED <<head, faults>>
  \/ d \in Damages  /\ sent' = head /\ lastDiff' = d /\ UNCHANGED head /\ Fault
  \/ d \in Repeats  /\ UNCHANGED venue /\ Fault

\* A diff is lost.
Lose ==
  /\ sent < head /\ sent' = head /\ Fault /\ Persist(<<>>)
  /\ UNCHANGED <<head, lastDiff, book, ctl, task, isolated, terminal, drops>>

\* The controller's deadlines.
Time ==
  /\ TimePasses(ctl, ctl') /\ Persist(<<>>)
  /\ UNCHANGED <<venue, book, task, isolated, terminal, bounds>>

\* Rows reach a writer that may fail for good, which cuts the route off and
\* loses the rows it still held; once cut off, it refuses every row.
PersistOrIsolate(new, sound) ==
  IF sound THEN (isolated => new = <<>>) /\ Persist(new) /\ UNCHANGED isolated
  ELSE new # <<>> /\ Persist(<<>>) /\ isolated' = TRUE

\* What a request may bring: the book at some moment of the wait, or levels that
\* make no book.
Answers(t) == [id : t.from .. head, good : BOOLEAN]

(***************************************************************************)
(* Properties                                                              *)
(***************************************************************************)

\* While the book is VALID it holds exactly what the venue's book held at the
\* last applied update, and so does every row it produces.
BookFaithful ==
  /\ book.state = "VALID" => book.levels = VenueBook[book.prev]
  /\ \A i \in DOMAIN rows : rows[i].levels = VenueBook[rows[i].u]

\* Within a recovery generation each persisted row continues the one before
\* it: no hole hides in a generation.
RowsChained ==
  /\ \A i \in 1 .. Len(rows) - 1 : Follows(rows[i], rows[i + 1])
  /\ rows # <<>> /\ lastRow # NoRow => Follows(lastRow, rows[1])

\* What the two rest on: no generation runs ahead of the book's, and while a VALID book
\* reaches the writer, its last applied event is the last row of its generation.
FeedKept ==
  /\ lastDiff # NoDiff => Numbered(book.venue, lastDiff)
  /\ Trusted(book) /\ Tip.gen <= book.gen
  /\ book.state = "VALID" /\ ~isolated /\ Tip.gen = book.gen => Tip.u = book.prev
  /\ task.st = "rest" => task.from # NoId

\* The raw-book files tell the truth: every row is the venue's book, and within a
\* generation no update is missing between two of them.
FeedSound == BookFaithful /\ RowsChained

\* A retained snapshot is bridged by the diff that straddles it (the diff that
\* overflows the buffer is given up, as documented).
StraddlerBridges ==
  [][LET d == lastDiff'
     IN /\ d # lastDiff /\ d.form = "ok" /\ ~isolated
        /\ book.pend.good /\ Bridges(book.venue, d, book.pend.id)
        /\ book.over \/ Len(book.buf) < MaxBuffer
        /\ \A i \in DOMAIN book.buf : book.buf[i].form = "ok"
        => book'.state = "VALID"]_<<lastDiff, book, isolated>>
=============================================================================
