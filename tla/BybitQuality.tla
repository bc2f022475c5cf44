---------------------------- MODULE BybitQuality ----------------------------
(***************************************************************************)
(* The quality channel of run_bybit_collector.py: the write-ahead log, the *)
(* quality writer and the checkpoint as in QualityChannel, without a queue *)
(* and with the three counters an operator reads while the channel is      *)
(* degraded.                                                               *)
(*                                                                         *)
(* One event is handled at a time (every caller is synchronous); a kill    *)
(* may fall between any two steps.  The log is a set of records: files,    *)
(* their order and their clean-up are QualityChannel's.                    *)
(***************************************************************************)
EXTENDS FailurePolicy, FiniteSetsExt

CONSTANTS MaxEvents,  \* bound: events handed to _persist_quality_event
          Capacity,   \* records the log may hold (max_total_bytes)
          MaxStops,   \* bound: kills, failed constructions and orderly shutdowns
          MaxFaults   \* bound: failing steps

ASSUME BybitAssumption ==
  MaxEvents \in Nat /\ Capacity \in Nat /\ MaxStops \in Nat /\ MaxFaults \in Nat

VARIABLES
  wal, ckpt, corrupt,      \* disk: records, durable checkpoint, unreadable log
  published,               \* disk: events in a published segment
  last, logFailed, full,   \* QualityEventWAL: counter, closed to writes, capacity_exhausted
  covered,                 \* and checkpointed_seq, which a raised checkpoint leaves behind ckpt
  phase, pc,               \* what the process is doing, where the call under way is
  row, replay,             \* the event in hand; recovered records still to be replayed
  inflight, segment, hwm, blocked,  \* the checkpoint state of the runner
  buffer, writerFailed,    \* the quality writer: rows of the open segment, terminal failure
  degraded,                \* failure_policy.quality_degraded is latched
  walOnly, unconfirmed, lost,       \* the events each counter counted
  events, since, logged,   \* events so far, those before the policy existed, records ever logged
  faults, stops            \* bounds used

disk    == <<wal, ckpt, corrupt, published>>
journal == <<last, logFailed, full, covered>>
check   == <<inflight, segment, hwm, blocked>>
writer  == <<buffer, writerFailed, degraded>>
counts  == <<walOnly, unconfirmed, lost>>
past    == <<events, since, logged, faults, stops>>
vars    == <<disk, journal, phase, pc, row, replay, check, writer, counts, past>>

Event  == 1 .. MaxEvents
NoSeq  == -1
Rec(e, n)    == [seq |-> n, ev |-> e]
Row(e, n, s) == [ev |-> e, seq |-> n, safe |-> s]
NoRow        == Row(0, NoSeq, FALSE)
Pending      == {r \in wal : r.seq > ckpt}
Seqs(S)      == {r.seq : r \in S}

\* _init_quality_durability_state, and the fields of a writer and a log not yet open.
Fresh ==
  /\ inflight' = {} /\ segment' = {} /\ hwm' = NoSeq /\ buffer' = {} /\ writerFailed' = FALSE
  /\ degraded' = FALSE /\ walOnly' = {} /\ unconfirmed' = {} /\ lost' = {} /\ row' = NoRow

Init ==
  /\ wal = {} /\ ckpt = NoSeq /\ corrupt = FALSE /\ published = {}
  /\ last = NoSeq /\ logFailed = FALSE /\ full = FALSE /\ covered = NoSeq
  /\ phase = "down" /\ pc = "idle" /\ row = NoRow /\ replay = {}
  /\ inflight = {} /\ segment = {} /\ hwm = NoSeq /\ blocked = FALSE
  /\ buffer = {} /\ writerFailed = FALSE /\ degraded = FALSE
  /\ walOnly = {} /\ unconfirmed = {} /\ lost = {}
  /\ events = 0 /\ since = 0 /\ logged = {} /\ faults = 0 /\ stops = 0

Fault == faults < MaxFaults /\ faults' = faults + 1
CountStop == stops < MaxStops /\ stops' = stops + 1

(***************************************************************************)
(* The constructor                                                         *)
(***************************************************************************)

\* Mutant: an unreadable log is reported, and the checkpoint moves on.
ToleratesCorruption == FALSE

\* Whether the checkpoint starts out blocked.
BlockedAtStart == corrupt

\* _recover_quality_wal up to the replay: an unreadable log blocks the
\* checkpoint, yields nothing and is reported as an event of its own.
Start ==
  /\ phase = "down" /\ Fresh
  /\ last' = Max({ckpt} \cup Seqs(wal)) /\ logFailed' = FALSE /\ covered' = ckpt
  /\ blocked' = BlockedAtStart /\ pc' = "idle"
  /\ IF corrupt THEN replay' = {} /\ phase' = "report" /\ UNCHANGED wal
     ELSE replay' = Pending /\ phase' = "replay" /\ wal' \in {wal, Pending}
  /\ full' = (Cardinality(wal') >= Capacity)
  /\ UNCHANGED <<ckpt, corrupt, published, past>>

\* Recovered records are written in the order of their numbers.
Earliest(r) == r \in replay /\ \A s \in replay : r.seq <= s.seq

\* One recovered record enters _persist_quality_event with its _wal_seq.
ReplayNext ==
  /\ phase = "replay" /\ pc = "idle"
  /\ \E r \in replay : /\ Earliest(r)
                       /\ replay' = replay \ {r} /\ inflight' = inflight \cup {r.seq}
                       /\ row' = Row(r.ev, r.seq, TRUE)
  /\ pc' = "write"
  /\ UNCHANGED <<disk, journal, phase, segment, hwm, blocked, writer, counts, past>>

\* publish_open_segment after the last record; then the other writers are built.
ReplayDone ==
  /\ phase = "replay" /\ pc = "idle" /\ replay = {}
  /\ phase' = "build" /\ pc' = IF buffer = {} THEN "idle" ELSE "publish"
  /\ UNCHANGED <<disk, journal, row, replay, check, writer, counts, past>>

\* The other writers, the policy and the client exist; run() starts the idle tick.
Built ==
  /\ phase = "build" /\ pc = "idle" /\ phase' = "run" /\ since' = events
  /\ UNCHANGED <<disk, journal, pc, row, replay, check, writer, counts, events, logged, faults,
                 stops>>

(***************************************************************************)
(* _persist_quality_event                                                  *)
(***************************************************************************)

Admits == ~logFailed /\ ~full /\ Cardinality(wal) < Capacity

\* The exception of a failed append names the event it may have logged.
RaisedRow(e) == Row(e, last + 1, FALSE)

\* The append half: done, raised after its number was assigned (the record may
\* be in the file; the log takes no more), or refused.
LogEvent(e) ==
  \/ /\ Admits /\ last' = last + 1 /\ row' = Row(e, last + 1, TRUE)
     /\ wal' = wal \cup {Rec(e, last + 1)} /\ UNCHANGED <<logFailed, full, faults>>
  \/ /\ Admits /\ Fault /\ last' = last + 1 /\ row' = RaisedRow(e) /\ logFailed' = TRUE
     /\ wal' \in {wal, wal \cup {Rec(e, last + 1)}} /\ UNCHANGED full
  \/ /\ ~Admits /\ row' = Row(e, NoSeq, FALSE)
     /\ full' = (full \/ ~logFailed) /\ UNCHANGED <<wal, last, logFailed, faults>>

\* Mutant: a row whose number is not proven is taken for a logged one.
TallyNumbered(r, unproven) ==
  IF r.seq # NoSeq THEN "walOnly" ELSE IF unproven THEN "unconfirmed" ELSE "lost"

\* _account_degraded_quality_event: which counter an event is counted in.
Tally(r, unproven) ==
  IF r.safe THEN "walOnly"
  ELSE IF r.seq # NoSeq \/ unproven THEN "unconfirmed" ELSE "lost"

\* The counters after r was counted; losing one blocks the checkpoint.
CountIn(r, unproven) ==
  LET in(kind, S) == IF Tally(r, unproven) = kind THEN S \cup {r.ev} ELSE S
  IN  /\ walOnly' = in("walOnly", walOnly)
      /\ unconfirmed' = in("unconfirmed", unconfirmed) /\ lost' = in("lost", lost)

\* An event of a writer's sink, the client, the adapter, the book, a failure
\* report or the shutdown.  Once the channel is degraded its writer is not called.
Emit ==
  /\ phase \in {"report", "build", "run", "stop"} /\ pc = "idle"
  /\ events < MaxEvents /\ events' = events + 1
  /\ LogEvent(events + 1)
  /\ logged' = logged \cup (wal' \ wal)
  /\ inflight' = inflight \cup ({row'.seq} \ {NoSeq})
  /\ IF degraded
     THEN /\ CountIn(row', FALSE) /\ pc' = "counted"
          /\ blocked' = (blocked \/ Tally(row', FALSE) = "lost")
     ELSE pc' = "write" /\ UNCHANGED <<counts, blocked>>
  /\ UNCHANGED <<ckpt, corrupt, published, covered, phase, replay, segment, hwm, writer, since,
                 stops>>

\* The call returns; a corruption report is followed by the (empty) replay.
Counted ==
  /\ pc = "counted" /\ pc' = "idle" /\ row' = NoRow
  /\ phase' = IF phase = "report" THEN "replay" ELSE phase
  /\ UNCHANGED <<disk, journal, replay, check, writer, counts, past>>

\* bind() and the append to the writer's buffer.  A row without a proven log
\* record is published at once; any other may wait, or fill the segment.
WriteRow ==
  /\ pc = "write" /\ ~writerFailed
  /\ buffer' = buffer \cup {row.ev} /\ segment' = segment \cup ({row.seq} \ {NoSeq})
  /\ \/ pc' = "publish"
     \/ row.safe /\ pc' = "counted"
  /\ UNCHANGED <<disk, journal, phase, row, replay, inflight, hwm, blocked, writerFailed,
                 degraded, counts, past>>

(***************************************************************************)
(* Publication and the checkpoint                                          *)
(***************************************************************************)

\* The open segment is published: write() found it full, an hour rolled over
\* before the row, the caller forced it, or it was due.
Publish ==
  /\ ~writerFailed
  /\ \/ pc = "publish" /\ pc' = "hook"
     \/ pc = "write" /\ buffer # {} /\ pc' = "rollhook"
  /\ published' = published \cup buffer /\ buffer' = {}
  /\ UNCHANGED <<wal, ckpt, corrupt, journal, phase, row, replay, check, writerFailed, degraded,
                 counts, past>>

\* Mutant: a channel whose checkpoint is blocked stops publishing.
DueUnlessBlocked == (buffer # {} \/ writerFailed) /\ ~degraded /\ ~blocked

\* What _quality_publish_if_due asks before it calls the writer.
Due == (buffer # {} \/ writerFailed) /\ ~degraded

\* _quality_idle_publish_loop, until shutdown cancels it.
IdleTick ==
  /\ phase = "run" /\ pc = "idle" /\ Due /\ pc' = "publish"
  /\ UNCHANGED <<disk, journal, phase, row, replay, check, writer, counts, past>>

\* Mutant: one short of the highest published number.
TargetOneShort(flying, high) == IF flying = {} THEN high - 1 ELSE Min(flying) - 1

\* The checkpoint the hook asks for: below everything in flight.
Target(flying, high) == IF flying = {} THEN high ELSE Min(flying) - 1

\* _on_quality_segment_durable; the checkpoint may raise, before or after its
\* file was replaced: it blocks, and checkpointed_seq stays.  Then the next segment is
\* opened, except by close().
DurableHook ==
  LET flying == inflight \ segment
      high   == IF segment = {} THEN hwm ELSE Max(segment \cup {hwm})
      target == Target(flying, high)
      moves  == ~blocked /\ high # NoSeq /\ target > covered
  IN  /\ pc \in {"hook", "rollhook"}
      /\ inflight' = flying /\ segment' = {} /\ hwm' = high
      /\ \/ /\ moves /\ ckpt' = target /\ covered' = target
            /\ wal' \in {wal, {r \in wal : r.seq > target}} /\ UNCHANGED <<blocked, faults>>
         \/ /\ moves /\ Fault /\ ckpt' \in {ckpt, target} /\ blocked' = TRUE
            /\ UNCHANGED <<wal, covered>>
         \/ ~moves /\ UNCHANGED <<wal, ckpt, covered, blocked, faults>>
      /\ pc' \in IF pc = "rollhook" THEN {"write", "rollopen"}
                ELSE IF phase = "stop" /\ row = NoRow THEN {"counted"} ELSE {"counted", "reopen"}
      /\ UNCHANGED <<corrupt, published, last, logFailed, full, phase, row, replay, writer,
                     counts, events, since, logged, stops>>

\* Opening the next segment raises, or does not.
Reopened ==
  /\ pc \in {"reopen", "rollopen"}
  /\ pc' = IF pc = "reopen" THEN "counted" ELSE "write"
  /\ UNCHANGED <<disk, journal, phase, row, replay, check, writer, counts, past>>

\* _account_tripping_quality_event, by the evidence of the exception: a published
\* row is not counted if the process knows a checkpoint that covers it.
Tripping(how) ==
  IF row = NoRow \/ (how = "reopen" /\ (row.seq = NoSeq \/ row.seq <= covered)) THEN UNCHANGED counts
  ELSE CountIn(row, Disposition(Evidence(how)) = "unconfirmed")

\* The quality writer raises for good.  Without a policy the exception reaches
\* the constructor: a replay stops there and its end goes on, anything else ends
\* it.  With one the channel is latched degraded and the call is contained.
WriterFails(how) ==
  /\ IF writerFailed THEN UNCHANGED faults ELSE Fault
  /\ writerFailed' = TRUE /\ buffer' = {} /\ blocked' = TRUE
  /\ IF phase \in {"run", "stop"}
     THEN degraded' = TRUE /\ Tripping(how) /\ UNCHANGED <<phase, replay>> /\ pc' = "counted"
     ELSE /\ UNCHANGED <<degraded, counts>> /\ replay' = {}
          /\ IF (row.safe /\ phase = "replay") \/ row = NoRow
             THEN phase' = "build" /\ pc' = "counted" ELSE phase' = "raise" /\ pc' = "idle"
  /\ UNCHANGED <<wal, ckpt, corrupt, journal, row, inflight, segment, hwm, events, since, logged,
                 stops>>

\* Where it raises: the row is not admitted (the writer failed before, or its
\* rollover does), the segment is not renamed, its directory is not synced (it
\* may be there or not), or the next segment is not opened.
WriterRaises ==
  \/ pc = "write" /\ WriterFails("admit") /\ UNCHANGED published
  \/ pc = "publish" /\ WriterFails("rename") /\ UNCHANGED published
  \/ /\ pc = "publish" /\ ~writerFailed /\ WriterFails("dirsync")
     /\ published' \in {published, published \cup buffer}
  \/ pc = "reopen" /\ WriterFails("reopen") /\ UNCHANGED published
  \/ pc = "rollopen" /\ WriterFails("admit") /\ UNCHANGED published

(***************************************************************************)
(* The end of a process                                                    *)
(***************************************************************************)

\* shutdown(): the idle task is cancelled before any writer is closed.
Shutdown ==
  /\ phase = "run" /\ pc = "idle" /\ phase' = "stop" /\ CountStop
  /\ UNCHANGED <<disk, journal, pc, row, replay, check, writer, counts, events, since, logged,
                 faults>>

\* quality_writer.close() publishes the tail.
CloseWriter ==
  /\ phase = "stop" /\ pc = "idle" /\ buffer # {} /\ pc' = "publish"
  /\ UNCHANGED <<disk, journal, phase, row, replay, check, writer, counts, past>>

\* The log is closed last and the process ends.
CloseLog ==
  /\ phase = "stop" /\ pc = "idle" /\ buffer = {} /\ phase' = "down"
  /\ UNCHANGED <<disk, journal, pc, row, replay, check, writer, counts, past>>

Dies ==
  /\ phase' = "down" /\ pc' = "idle" /\ blocked' = TRUE /\ row' = NoRow /\ replay' = {}
  /\ UNCHANGED <<disk, journal, inflight, segment, hwm, writer, counts, events, since, logged,
                 faults>>

Kill == phase # "down" /\ CountStop /\ Dies

\* The exception leaves the constructor.
Unbuilt == phase = "raise" /\ Dies /\ UNCHANGED stops

\* A log file becomes unreadable while the collector is down, and is repaired.
Corrupt ==
  /\ phase = "down" /\ IF corrupt THEN UNCHANGED faults ELSE wal # {} /\ Fault
  /\ corrupt' = ~corrupt
  /\ UNCHANGED <<wal, ckpt, published, journal, phase, pc, row, replay, check, writer, counts,
                 events, since, logged, stops>>

Work ==
  \/ Start \/ ReplayNext \/ ReplayDone \/ Built \/ Counted \/ WriteRow \/ Publish \/ IdleTick
  \/ DurableHook \/ Reopened \/ WriterRaises \/ CloseWriter \/ CloseLog \/ Unbuilt

Next == Work \/ Emit \/ Shutdown \/ Kill \/ Corrupt

Spec     == Init /\ [][Next]_vars
FairSpec == Spec /\ WF_vars(Work)

(***************************************************************************)
(* Properties                                                              *)
(***************************************************************************)

TypeOK ==
  /\ logged \subseteq [seq : 0 .. MaxEvents, ev : Event] /\ wal \subseteq logged
  /\ ckpt \in NoSeq .. MaxEvents /\ last \in NoSeq .. MaxEvents /\ published \subseteq Event
  /\ phase \in {"down", "report", "replay", "build", "run", "stop", "raise"}
  /\ pc \in {"idle", "write", "counted", "publish", "hook", "rollhook", "reopen", "rollopen"}
  /\ row \in [ev : 0 .. MaxEvents, seq : NoSeq .. MaxEvents, safe : BOOLEAN]
  /\ inflight \subseteq 0 .. MaxEvents /\ segment \subseteq 0 .. MaxEvents
  /\ hwm \in NoSeq .. MaxEvents /\ buffer \subseteq Event /\ replay \subseteq wal
  /\ {corrupt, logFailed, full, blocked, writerFailed, degraded} \subseteq BOOLEAN
  /\ covered \in NoSeq .. MaxEvents
  /\ walOnly \cup unconfirmed \cup lost \subseteq Event
  /\ events \in 0 .. MaxEvents /\ since \in 0 .. events

\* The comment above the durability state (run_bybit_collector.py): checkpoint N
\* on disk means every event logged with a number up to N is in a published
\* segment, across restarts, failed replays and records that were never proven.
CheckpointSound == \A r \in logged : r.seq <= ckpt => r.ev \in published

\* A logged record leaves the disk only when the checkpoint covers it, a number belongs to
\* one record, and everything known of events is of events received.
LogKept ==
  /\ \A r \in logged : /\ r \in wal \/ r.seq <= ckpt
                       /\ r.seq < events /\ r.ev <= events
                       /\ \A s \in logged : r.seq = s.seq => r = s
  /\ ckpt < events
  /\ \A e \in {row.ev} \cup published \cup buffer \cup walOnly \cup unconfirmed \cup lost :
       e <= events

\* While the process lives its counter is ahead of all it logged and holds; a row in
\* hand carries the number of its record, if it has one.  What it knows to be checkpointed
\* is no more than the file says, and nothing above that has left the log.
CounterAhead ==
  /\ covered <= ckpt /\ \A r \in logged : r.seq > covered => r \in wal
  /\ ckpt <= last /\ last < events /\ hwm <= last /\ row.seq <= last
  /\ \A n \in inflight : n <= last
  /\ segment \subseteq inflight
  /\ \A r \in logged : /\ r.seq <= last /\ (r.seq = row.seq => r.ev = row.ev)
                       /\ (r.ev = row.ev => row.seq # NoSeq)
  /\ row.safe => Rec(row.ev, row.seq) \in logged

\* What is still to be replayed lies above everything held, and nothing new is appended
\* before the replay ends.
ReplayFirst ==
  /\ phase # "replay" => replay = {}
  /\ \A r \in replay : /\ ckpt < r.seq /\ hwm < r.seq /\ row.seq < r.seq
                       /\ \A n \in inflight : n < r.seq

Writing == pc \in {"write", "rollhook", "rollopen"}

\* Where the row in hand is: not yet in the segment, in its buffer, or published.
RowPlaced ==
  /\ row.ev = 0 \/ (pc = "idle" /\ phase # "raise") => row = NoRow
  /\ Writing => /\ row.ev # 0
                /\ row.seq # NoSeq => row.seq \in inflight \ segment
                /\ phase # "replay" => row.ev \notin published \cup buffer
  /\ pc = "publish" => /\ row.ev # 0 => row.ev \in buffer
                       /\ phase # "replay" => row.ev \notin published
  /\ pc \in {"hook", "reopen"} /\ row.ev # 0 => row.ev \in published
  /\ row.seq # NoSeq /\ (Writing \/ pc \in {"publish", "hook"}) => ckpt < row.seq
  /\ pc \in {"hook", "rollhook"} => buffer = {}

\* As long as the checkpoint may move: an unpublished record is in flight or to be replayed,
\* what the open segment claims it holds, and nothing else is in flight but the row in hand.
Held ==
  /\ \A r \in logged :
       /\ r.ev \in published \/ r.seq \in inflight \/ r \in replay
       /\ r.seq \in segment => r.ev \in published \cup buffer
       /\ r.seq <= ckpt \/ r.seq <= hwm \/ r.seq \in inflight \/ r \in replay
  /\ inflight \subseteq segment \cup (IF Writing THEN {row.seq} ELSE {})
  /\ segment # {} => buffer # {} \/ pc \in {"hook", "rollhook"}
  /\ inflight = {} => hwm <= ckpt
  /\ covered = ckpt

\* Events are counted only while the channel is degraded, whose writer is not called.
CountedDegraded ==
  /\ degraded => /\ phase \in {"run", "stop", "down"}
                 /\ buffer = {} /\ pc \in {"idle", "counted"}
  /\ degraded \/ writerFailed => blocked
  /\ ~degraded => walOnly \cup unconfirmed \cup lost = {}

\* The channel: types, its log, its checkpoint, and why both stay sound.
BybitInv ==
  /\ TypeOK /\ CheckpointSound /\ LogKept /\ CountedDegraded
  /\ phase # "down" => CounterAhead /\ ReplayFirst /\ RowPlaced
  /\ phase # "down" /\ ~blocked => Held
  /\ phase = "down" => pc = "idle"

\* quality_channel_status: the counters are disjoint; an event counted as in the log
\* alone is in the log and the next start replays it, or it is published too and the
\* only checkpoint that covers it is one that raised, which the process does not count
\* on; one counted as lost is neither logged nor published; and every event this
\* process received is published, in the log above the checkpoint, or counted.
CountersHonest ==
  /\ walOnly \cap (unconfirmed \cup lost) = {} /\ unconfirmed \cap lost = {}
  /\ \A e \in walOnly : \E r \in wal : /\ r.ev = e /\ r.seq > covered
                                     /\ (r.seq > ckpt \/ e \in published)
  /\ \A e \in lost : e \notin published /\ \A r \in logged : r.ev # e
  /\ phase \in {"run", "stop"} =>
       \A e \in (since + 1 .. events) \ (IF pc = "counted" THEN {} ELSE {row.ev}) :
         e \in published \cup unconfirmed \cup lost \/ \E r \in Pending : r.ev = e

\* A second row for an event is written only where the runner's docstring allows
\* it: the process that wrote the first one was killed or had its checkpoint
\* blocked.  After an orderly stop of a healthy channel nothing is left to replay.
CleanStopReplaysNothing == phase = "down" /\ ~blocked => Pending = {}

\* A blocked checkpoint does not stop publication, and a degraded channel is cured by
\* the next start: an event in the log is published unless the channel is
\* degraded or the log unreadable (idle tick, replay, close).
LoggedIsPublished ==
  \A e \in Event : (\E r \in Pending : r.ev = e) ~> (e \in published \/ degraded \/ corrupt)
=============================================================================
