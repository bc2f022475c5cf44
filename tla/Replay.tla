------------------------------- MODULE Replay -------------------------------
(***************************************************************************)
(* collector/collector/replay.py: a recording of a Binance book, and its   *)
(* replay through the same LocalBook.                                      *)
(*                                                                         *)
(* While the collector runs, its book takes the frames as they arrive and  *)
(* the raw writers record them with what the wall clock said.  Replay sorts *)
(* what was recorded by the order key and drives a fresh book with it, one *)
(* frame per step.  A millisecond has two ticks: a websocket frame is      *)
(* stamped to the tick, a REST response to the millisecond.                *)
(***************************************************************************)
EXTENDS LocalBook, FiniteSets

CONSTANTS Venue,       \* the venue of the book: "BINANCE" or "BINANCE_SPOT"
          MaxFrames,   \* bound: frames of the recording
          MaxTick,     \* bound: the wall clock's ticks
          MaxQueue,    \* bound: frames waiting for the worker
          MaxFaults    \* bound: everything that is not plain delivery

ReplayAssumption ==
  /\ Venue \in Venues
  /\ MaxFrames \in Nat \ {0} /\ MaxTick \in Nat /\ MaxQueue \in Nat /\ MaxFaults \in Nat

VARIABLES
  head, sent,     \* the venue: last update made, last update sent in a diff
  asked,          \* the request under way: the venue's update when it left
  tick,           \* the collector's wall clock
  queue,          \* websocket frames received and not yet handled by the client's worker
  live, liveRows, \* the collector's book and the rows it produced
  log,            \* the frames recorded, in the order the files hold them
  hidden,         \* something happened to the live book, or to the recording, that left no row
  overtook,       \* a response was handled while frames received before it waited
  replay,         \* the engine: its book, its rows with the time they became available,
                  \* ReplayResult.integrity_issues and the frames still to come
  mode,           \* "recording" or "replayed"
  faults

venue   == <<head, sent, asked>>
capture == <<live, liveRows, log, hidden, overtook>>
vars    == <<venue, capture, tick, queue, replay, mode, faults>>

Ms(t) == t \div 2

\* ReplayFrame.  body is a diff, or the snapshot a request brought.
Frame(kind, body, form) == [kind |-> kind, body |-> body, form |-> form]
Forms == {"ok", "undecodable", "truncated", "failed", "never"}

Init ==
  /\ head = 1 /\ sent = 1 /\ asked = NoId /\ tick = 0 /\ queue = <<>>
  /\ live = Fresh(Venue) /\ liveRows = <<>>
  /\ log = <<>> /\ hidden = FALSE /\ overtook = FALSE
  /\ replay = [book |-> Fresh(Venue), rows |-> <<>>, issues |-> {}, left |-> {}] /\ mode = "recording" /\ faults = 0

Fault == faults < MaxFaults /\ faults' = faults + 1

(***************************************************************************)
(* The collector and its recording                                         *)
(***************************************************************************)

Recording == mode = "recording" /\ UNCHANGED <<replay, mode>>

Update == Recording /\ head < MaxId /\ head' = head + 1
          /\ UNCHANGED <<sent, asked, tick, queue, capture, faults>>

\* The wall clock read when a frame arrives: the same, a millisecond on, or, after
\* it was stepped back, earlier.
Clock(steady) == IF steady THEN tick' \in {tick, tick + 2} /\ tick' <= MaxTick
                           ELSE tick > 0 /\ tick' = tick - 1

\* The handlers of the runners: a retained snapshot is retried on an untrusted
\* book by the futures runner, on a book never bridged by the Spot runner.
LiveApply(b, d) ==
  LET result == Apply(b, d)
      again  == IF Venue = "BINANCE" THEN result.book.state # "VALID"
                                     ELSE result.book.prev = NoId
  IN IF result.rows = <<>> /\ again THEN Retry(result.book) ELSE result

Take(result) == live' = result.book /\ liveRows' = liveRows \o result.rows

\* The raw writers keep the frame, or, a fault, it never reaches the disk.
Recorded(frame, lost) ==
  IF lost
  THEN hidden' = TRUE /\ UNCHANGED log
  ELSE /\ Len(log) < MaxFrames /\ UNCHANGED hidden
       /\ log' = Append(log, [kind |-> frame.kind, tick |-> tick', body |-> frame.body,
                              form |-> frame.form, index |-> Len(log) + 1])

\* The diff of everything since the last one.
NextDiff == [U |-> sent + 1, u |-> head, form |-> "ok",
             pu |-> IF Venue = "BINANCE" THEN sent ELSE NoId]

\* A websocket frame is received: it is stamped, recorded, perhaps clipped to the
\* size capture allows, and queued whole if it parses.
WireArrives ==
  /\ Recording /\ sent < head /\ sent' = head /\ UNCHANGED <<head, asked, live, liveRows, overtook>>
  /\ \E form \in {"ok", "undecodable", "truncated"}, steady, lost \in BOOLEAN :
       /\ lost => steady /\ form = "ok"
       /\ Clock(steady) /\ Recorded(Frame("wire", NextDiff, form), lost)
       /\ Len(queue) < MaxQueue
       /\ queue' = IF form = "undecodable" THEN queue ELSE Append(queue, NextDiff)
       /\ IF form = "ok" /\ steady /\ ~lost THEN UNCHANGED faults ELSE Fault

\* The client's worker hands the frame to the runner.
WireHandled ==
  /\ Recording /\ queue # <<>> /\ queue' = Tail(queue) /\ Take(LiveApply(live, Head(queue)))
  /\ UNCHANGED <<venue, tick, log, hidden, overtook, faults>>

\* A recovery begins: the futures runner no longer trusts its book, and only
\* a book it still trusted is changed by that beyond what replay can tell.
Requests ==
  /\ Recording /\ asked = NoId /\ asked' = head
  /\ IF Venue = "BINANCE"
     THEN /\ live' = Resync(live) /\ hidden' = (hidden \/ live.state = "VALID")
          /\ IF live.state = "VALID" THEN Fault ELSE UNCHANGED faults
     ELSE UNCHANGED <<live, hidden, faults>>
  /\ UNCHANGED <<head, sent, tick, queue, liveRows, log, overtook>>

\* The response: the venue's book at some moment of the wait, or an answer that
\* is no snapshot, or none, and then the book is given up.
Responds ==
  /\ Recording /\ asked # NoId /\ asked' = NoId /\ UNCHANGED <<head, sent, queue>> /\ Clock(TRUE)
  /\ overtook' = (overtook \/ queue # <<>>)
  /\ \E id \in asked .. head, form \in Forms \ {"undecodable"}, good, lost \in BOOLEAN :
       /\ lost => good /\ form = "ok"
       /\ Recorded(Frame("rest", [id |-> id, good |-> good], form), lost)
       /\ IF form \in {"ok", "truncated"}
          THEN Take(Attempt(live, [id |-> id, good |-> good]))
          ELSE good /\ id = asked /\ live' = Gap(live) /\ UNCHANGED liveRows
       /\ IF form = "ok" /\ good /\ ~lost THEN UNCHANGED faults ELSE Fault

\* The venue leaves a diff out.
Skips == /\ Recording /\ sent < head /\ sent' = head /\ Fault
         /\ UNCHANGED <<head, asked, tick, queue, capture>>

\* A reconnect loses the diffs in between; the futures runner forgets its book.
Reconnects ==
  /\ Recording /\ Fault /\ sent' \in {sent, head}
  /\ UNCHANGED <<head, asked, tick, queue, liveRows, log, overtook>>
  /\ IF Venue = "BINANCE" THEN live' = Invalidate(live) /\ hidden' = TRUE
                          ELSE UNCHANGED <<live, hidden>>

(***************************************************************************)
(* ReplaySource                                                            *)
(***************************************************************************)

\* Mutant: the kind of frame is compared before its time.
KeyByKind(f, legacy) == <<IF f.kind = "wire" THEN 0 ELSE 1, Ms(f.tick), f.tick, f.index>>

\* order_key: the millisecond, websocket frames first, the finer stamp among
\* them where there is one, the position in the files.
OrderKey(f, legacy) ==
  LET rank == IF f.kind = "wire" THEN 0 ELSE 1
  IN <<Ms(f.tick), rank, IF rank = 1 \/ legacy THEN -1 ELSE f.tick, f.index>>

Before(a, b) == \E i \in 1 .. 4 : a[i] < b[i] /\ \A j \in 1 .. i - 1 : a[j] = b[j]

\* from_records: a request that never returned makes no frame.
Readable == {f \in Range(log) : f.form # "never"}

\* The first of some frames in the order of their keys.
First(frames, legacy) ==
  CHOOSE f \in frames : \A g \in frames : g = f \/ Before(OrderKey(f, legacy), OrderKey(g, legacy))

\* unresolved_order_ties, wire_vs_rest_snapshot_same_ms: a response in the
\* millisecond of a websocket frame.
Ties == {r \in Readable : /\ r.kind = "rest"
                          /\ \E w \in Readable : w.kind = "wire" /\ Ms(w.tick) = Ms(r.tick)}

(***************************************************************************)
(* ReplayEngine: one that is reading a recording is a record of its book,  *)
(* its rows, the integrity issues met so far and the frames left.          *)
(***************************************************************************)

\* _record_book, with the time of the frame being handled.
Record(engine, result, frame) ==
  [engine EXCEPT !.book = result.book,
                 !.rows = @ \o [i \in DOMAIN result.rows |->
                                  [row |-> result.rows[i], ms |-> Ms(frame.tick)]]]

\* _handle_wire after the book has taken the diff: a retained snapshot is tried
\* on a book never bridged, then once more on one that is not trusted.
RetryPending(result) ==
  LET first == IF result.book.prev = NoId THEN Retry(result.book)
                                          ELSE [book |-> result.book, rows |-> <<>>, why |-> "none"]
  IN IF result.rows # <<>> THEN result
     ELSE IF first.why = "bridged" \/ result.book.state = "VALID" THEN first
     ELSE Retry(first.book)

\* _handle_wire.
HandleWire(engine, frame) ==
  CASE frame.form = "ok" -> Record(engine, RetryPending(Apply(engine.book, frame.body)), frame)
    [] frame.form = "undecodable" -> [engine EXCEPT !.issues = @ \cup {"frames_undecodable"}]
    [] OTHER -> [engine EXCEPT !.issues = @ \cup {"frames_undecodable", "frames_truncated"}]

\* _handle_snapshot: what is no snapshot leaves the book alone.
HandleSnapshot(engine, frame) ==
  LET result   == Attempt(engine.book, frame.body)
      rejected == [engine EXCEPT !.issues = @ \cup {"snapshots_rejected"}]
  IN IF frame.form # "ok" THEN rejected
     ELSE IF result.why \in {"bridged", "snapshot_ahead_of_buffer"}
     THEN Record(engine, result, frame) ELSE Record(rejected, result, frame)

Dispatch(engine, frame) ==
  IF frame.kind = "wire" THEN HandleWire(engine, frame) ELSE HandleSnapshot(engine, frame)

\* run: the engine after each of the sorted frames, and the frames that are left.
Engine(issues, legacy) ==
  LET after[n \in 0 .. Cardinality(Readable)] ==
        IF n = 0
        THEN [book |-> Fresh(Venue), rows |-> <<>>, issues |-> issues, left |-> Readable]
        ELSE LET before == after[n - 1]
                 frame  == First(before.left, legacy)
             IN [Dispatch(before, frame) EXCEPT !.left = @ \ {frame}]
  IN after

\* replay_directory of the whole recording, with or without nanosecond stamps;
\* nothing else reads or writes while it runs.
Replays ==
  /\ mode = "recording" /\ log # <<>> /\ queue = <<>> /\ mode' = "replayed"
  /\ LET issues == (IF Ties # {} THEN {"ties"} ELSE {})
                     \cup (IF Readable # Range(log) THEN {"dropped_rest_rows"} ELSE {})
                     \cup (IF Readable = {} THEN {"empty_replay"} ELSE {})
     IN \E legacy \in BOOLEAN : replay' = Engine(issues, legacy)[Cardinality(Readable)]
  /\ UNCHANGED <<venue, capture, tick, queue, faults>>

Next == \/ Update \/ WireArrives \/ WireHandled \/ Requests \/ Responds \/ Skips \/ Reconnects
        \/ Replays

Spec == Init /\ [][Next]_vars

(***************************************************************************)
(* Properties                                                              *)
(***************************************************************************)

TypeOK ==
  /\ head \in Id /\ sent \in Id /\ asked \in Id \cup {NoId} /\ tick \in 0 .. MaxTick
  /\ BookOK(live) /\ BookOK(replay.book) /\ Len(log) <= MaxFrames
  /\ \A i \in DOMAIN log : log[i].form \in Forms
  /\ mode \in {"recording", "replayed"} /\ hidden \in BOOLEAN /\ overtook \in BOOLEAN

\* Whatever the recording lost, clipped, or put in another order: a book that
\* replay calls VALID is the venue's at the last update applied, so is each of
\* its rows, a generation has no hole, and times of availability do not go back.
ReplayFaithful ==
  LET book == replay.book  rows == replay.rows
  IN /\ TypeOK
     /\ book.state = "VALID" => book.levels = VenueBook[book.prev]
     /\ \A i \in DOMAIN rows :
          /\ rows[i].row.levels = VenueBook[rows[i].row.u]
          /\ i > 1 => rows[i - 1].ms <= rows[i].ms /\ Follows(rows[i - 1].row, rows[i].row)

\* The order of the files is the order of arrival unless the clock was stepped.
Monotone == \A i, j \in DOMAIN log : i < j => log[i].tick <= log[j].tick

EndsAsLive ==
  /\ [i \in DOMAIN replay.rows |-> replay.rows[i].row] = liveRows
  /\ replay.book.levels = live.levels /\ replay.book.prev = live.prev
  /\ (replay.book.state = "VALID") = (live.state = "VALID")

\* A replay with no integrity issue, of a recording that kept every frame, ends
\* in the collector's book by its rows, unless a response overtook the queue.
PristineParity ==
  mode = "replayed" /\ replay.issues = {} /\ ~hidden /\ Monotone /\ ~overtook => EndsAsLive

\* "or the same recorded bytes would produce a different book"
\* (docs/BINANCE_USDM_SEMANTICS.md:129).
PristineMeansParity ==
  mode = "replayed" /\ replay.issues = {} /\ ~hidden /\ Monotone => EndsAsLive
=============================================================================
