--------------------------- MODULE QualityChannel ---------------------------
(***************************************************************************)
(* The durable channel for quality events: the write-ahead log of          *)
(* collector/collector/quality_wal.py composed with the event queue, the   *)
(* quality writer and the checkpoint protocol of                           *)
(* collector/run_collector.py (run_bybit_collector.py repeats it without   *)
(* the queue, which is QueueMax = 0).                                      *)
(*                                                                         *)
(* Events are numbered in the order the runner receives them.              *)
(* A log record is [seq, ev, file, stamp]; stamp is the wall-clock second  *)
(* in its file's name, which is what recovery sorts files by.  The quality *)
(* writer is represented by what ParquetWriter promises its caller: a row  *)
(* is buffered, then published with its whole segment, or the writer fails *)
(* for good and its rows were never confirmed.  The handlers are           *)
(* synchronous; a kill may fall between any two steps.                     *)
(***************************************************************************)
EXTENDS Integers, FiniteSets

CONSTANTS MaxEvents,   \* bound: events handed to _persist_quality_event
          QueueMax,    \* maxsize of _quality_queue
          Capacity,    \* records the log may hold (max_total_bytes)
          MaxStops,    \* bound: kills and orderly shutdowns
          MaxFaults,   \* bound: failing steps
          MaxClock,    \* bound: wall-clock seconds are 1 .. MaxClock
          ClockSteps   \* whether the wall clock may step back

ASSUME ChannelAssumption ==
  /\ MaxEvents \in Nat /\ QueueMax \in Nat /\ Capacity \in Nat /\ MaxStops \in Nat
  /\ MaxFaults \in Nat /\ MaxClock \in Nat \ {0} /\ ClockSteps \in BOOLEAN

VARIABLES
  \* disk: log records, durable checkpoint, unreadable log, published events
  wal, ckpt, corrupt, published,
  \* QualityEventWAL in memory
  last, file, stamp, writeFailed, full,
  \* the runner: what it is doing, the event in hand, the queue, the
  \* checkpoint state
  pc, starting, row, replay, queue, inflight, segment, hwm, blocked,
  \* the quality writer: rows of the open segment, terminal failure
  buffer, writerFailed,
  \* environment
  clock, faults, stops,
  \* observation: events received, records ever in the log, events whose
  \* append returned, events counted as lost or unconfirmed, whether this
  \* process put a failure report in the log only, whether it was closed with
  \* nothing to replay
  events, logged, protected, counted, pinned, clean

disk    == <<wal, ckpt, corrupt, published>>
journal == <<last, file, stamp, writeFailed, full>>
runner  == <<pc, starting, row, replay, queue, inflight, segment, hwm, blocked>>
writer  == <<buffer, writerFailed>>
env     == <<clock, faults, stops>>
seen    == <<events, logged, protected, counted, pinned, clean>>
vars    == <<disk, journal, runner, writer, env, seen>>

Event  == 1 .. MaxEvents
NoSeq  == -1
Seq    == Nat \cup {NoSeq}
Record == [seq : Nat, ev : Event, file : Nat, stamp : Nat]
Row    == [ev : Event, seq : Seq, safe : BOOLEAN]
NoRow  == [ev |-> 0, seq |-> NoSeq, safe |-> FALSE]

PCs == {"down", "corrupt", "replay", "run", "write", "wrote", "publish", "hook",
        "rollhook", "report"}

LogOK ==
  /\ wal \subseteq Record /\ ckpt \in Seq /\ corrupt \in BOOLEAN
  /\ last \in Seq /\ file \in Nat /\ stamp \in Nat
  /\ writeFailed \in BOOLEAN /\ full \in BOOLEAN
  /\ logged \subseteq Record /\ protected \subseteq Event

RunnerOK ==
  /\ pc \in PCs /\ starting \in BOOLEAN /\ replay \subseteq Record
  /\ row \in Row \cup {NoRow} /\ (pc \in {"write", "wrote", "rollhook"} => row \in Row)
  /\ inflight \subseteq Nat /\ segment \subseteq Nat /\ hwm \in Seq
  /\ blocked \in BOOLEAN

QueueOK ==
  queue \subseteq Row /\ IsFiniteSet(queue) /\ Cardinality(queue) <= QueueMax

RestOK ==
  /\ published \subseteq Event /\ buffer \subseteq Event /\ writerFailed \in BOOLEAN
  /\ clock \in Nat /\ faults \in Nat /\ stops \in Nat
  /\ events \in 0 .. MaxEvents /\ counted \subseteq Event
  /\ pinned \in BOOLEAN /\ clean \in BOOLEAN

TypeOK == LogOK /\ RunnerOK /\ QueueOK /\ RestOK

Init ==
  /\ wal = {} /\ ckpt = NoSeq /\ corrupt = FALSE /\ published = {}
  /\ last = NoSeq /\ file = 0 /\ stamp = 0 /\ writeFailed = FALSE /\ full = FALSE
  /\ pc = "down" /\ starting = FALSE /\ row = NoRow /\ replay = {} /\ queue = {}
  /\ inflight = {} /\ segment = {} /\ hwm = NoSeq /\ blocked = FALSE
  /\ buffer = {} /\ writerFailed = FALSE
  /\ clock = 1 /\ faults = 0 /\ stops = 0
  /\ events = 0 /\ logged = {} /\ protected = {} /\ counted = {}
  /\ pinned = FALSE /\ clean = TRUE

Fault == faults < MaxFaults /\ faults' = faults + 1

\* The order recover() reads records in: files by name, lines by position.
Before(r, s) == r.stamp < s.stamp \/ (r.stamp = s.stamp /\ r.seq < s.seq)

Pending   == {r \in wal : r.seq > ckpt}
IsMin(S, n) == n \in S /\ \A k \in S : n <= k
IsMax(S, n) == n \in S /\ \A k \in S : n >= k

\* Mutant: a file is deleted when one of its records is covered.
CoveredByAny(c, active) ==
  {f \in {r.file : r \in wal} \ {active} : \E r \in wal : r.file = f /\ r.seq <= c}

\* Files other than the active one that hold nothing above checkpoint c.
Covered(c, active) ==
  {f \in {r.file : r \in wal} \ {active} : \A r \in wal : r.file = f => r.seq <= c}

\* Covered files are unlinked; any of them may resist and stays.
DeleteCovered(c, active) ==
  \E gone \in SUBSET Covered(c, active) : wal' = {r \in wal : r.file \notin gone}

(***************************************************************************)
(* Startup: _recover_quality_wal                                           *)
(***************************************************************************)

\* Mutant: the counter resumes from the surviving files alone.
FloorIgnoresCheckpoint(n) == IsMax({NoSeq} \cup {r.seq : r \in wal}, n)

\* The sequence floor of __init__: the checkpoint and the surviving records.
Floor(n) == IsMax({ckpt} \cup {r.seq : r \in wal}, n)

\* highest_recovered_seq, recover, cleanup_fully_checkpointed_files and a new
\* QualityEventWAL on a new file.  recover() of an unreadable log yields
\* nothing, blocks the checkpoint and has an event of its own to report.
Start ==
  /\ pc = "down" /\ starting' = TRUE
  /\ Floor(last')
  /\ file' = file + 1 /\ stamp' = clock
  /\ writeFailed' = FALSE /\ blocked' = corrupt
  /\ IF corrupt
     THEN /\ pc' = IF events < MaxEvents THEN "corrupt" ELSE "replay"
          /\ replay' = {} /\ UNCHANGED wal
     ELSE pc' = "replay" /\ replay' = Pending /\ DeleteCovered(ckpt, 0)
  /\ full' = (Cardinality(wal') >= Capacity)
  /\ row' = NoRow /\ queue' = {} /\ inflight' = {} /\ segment' = {} /\ hwm' = NoSeq
  /\ buffer' = {} /\ writerFailed' = FALSE /\ pinned' = FALSE /\ clean' = FALSE
  /\ UNCHANGED <<ckpt, corrupt, published, env, events, logged, protected, counted>>

\* One recovered record enters _persist_quality_event with its _wal_seq.
ReplayNext ==
  /\ pc = "replay"
  /\ \E r \in replay :
       /\ \A s \in replay \ {r} : Before(r, s)
       /\ replay' = replay \ {r}
       /\ inflight' = inflight \cup {r.seq}
       /\ row' = [ev |-> r.ev, seq |-> r.seq, safe |-> TRUE]
  /\ pc' = "write"
  /\ UNCHANGED <<disk, journal, starting, queue, segment, hwm, blocked, writer, env, seen>>

\* After the last record the open segment is published, if it holds rows.
ReplayDone ==
  /\ pc = "replay" /\ replay = {}
  /\ pc' = IF buffer # {} THEN "publish" ELSE "run"
  /\ starting' = FALSE
  /\ UNCHANGED <<disk, journal, row, replay, queue, inflight, segment, hwm, blocked,
                 writer, env, seen>>

(***************************************************************************)
(* _persist_quality_event                                                  *)
(***************************************************************************)

NextSeq == last + 1
Rec(e)  == [seq |-> NextSeq, ev |-> e, file |-> file, stamp |-> stamp]
Open    == ~writeFailed /\ ~full /\ Cardinality(wal) < Capacity

\* QualityEventWAL.append returned: the record is fsynced, its number is held
\* in flight.
AppendOK(e) ==
  /\ Open
  /\ last' = NextSeq
  /\ wal' = wal \cup {Rec(e)} /\ logged' = logged \cup {Rec(e)}
  /\ protected' = protected \cup {e}
  /\ inflight' = inflight \cup {NextSeq}
  /\ UNCHANGED <<writeFailed, full, faults>>

\* The write or its fsync raised after the sequence number was assigned: the
\* record may be in the file or not, and no further append is accepted.
AppendRaises(e) ==
  /\ Open /\ Fault
  /\ last' = NextSeq /\ writeFailed' = TRUE
  /\ \/ wal' = wal \cup {Rec(e)} /\ logged' = logged \cup {Rec(e)}
     \/ UNCHANGED <<wal, logged>>
  /\ UNCHANGED <<full, protected>>

\* append refused: closed to writes, or the capacity is spent (and latched).
AppendRefused ==
  /\ ~Open
  /\ full' = (full \/ (~writeFailed /\ Cardinality(wal) >= Capacity))
  /\ UNCHANGED <<last, wal, logged, protected, inflight, writeFailed, faults>>

\* append did not return, and the caller does not learn its sequence number.
NotAppended(e) == (AppendRaises(e) /\ UNCHANGED inflight) \/ AppendRefused

Safe(e)      == [ev |-> e, seq |-> NextSeq, safe |-> TRUE]
Unsafe(e, n) == [ev |-> e, seq |-> n, safe |-> FALSE]

\* One more event reaches the runner.
Receive == events < MaxEvents /\ events' = events + 1

\* _persist_quality_event called with an event that is not in the log yet.
Persist ==
  LET e == events + 1
  IN /\ pc \in {"run", "corrupt"} /\ Receive
     /\ \/ AppendOK(e) /\ row' = Safe(e)
        \/ AppendRaises(e) /\ inflight' = inflight \cup {NextSeq} /\ row' = Unsafe(e, NextSeq)
        \/ AppendRefused /\ row' = Unsafe(e, NoSeq)
     /\ pc' = "write"
     /\ UNCHANGED <<ckpt, corrupt, published, file, stamp, starting, replay, queue,
                    segment, hwm, blocked, writer, clock, stops, counted, pinned, clean>>

QueueTakes == Cardinality(queue) < QueueMax

\* _websocket_quality_event: append, then queue; an event the full queue does
\* not take, or the log did not take, goes to _persist_quality_event at once
\* (which finds the log closed to writes in the second case).
Enqueue ==
  LET e == events + 1
  IN /\ pc = "run" /\ Receive
     /\ \/ /\ AppendOK(e)
           /\ IF QueueTakes
              THEN queue' = queue \cup {Safe(e)} /\ UNCHANGED <<pc, row>>
              ELSE row' = Safe(e) /\ pc' = "write" /\ UNCHANGED queue
        \/ /\ NotAppended(e)
           /\ row' = Unsafe(e, NoSeq) /\ pc' = "write" /\ UNCHANGED queue
     /\ UNCHANGED <<ckpt, corrupt, published, file, stamp, starting, replay, segment,
                    hwm, blocked, writer, clock, stops, counted, pinned, clean>>

\* _quality_persistence_loop (at shutdown _drain_quality_queue_sync) takes the
\* oldest queued event.
Drain ==
  /\ pc = "run" /\ pc' = "write"
  /\ \E q \in queue : /\ \A p \in queue : q.seq <= p.seq
                      /\ row' = q /\ queue' = queue \ {q}
  /\ UNCHANGED <<disk, journal, starting, replay, inflight, segment, hwm, blocked,
                 writer, env, seen>>

\* _report_failure_to_wal: a component failed for good; the report goes to the
\* log alone and holds the checkpoint below it until a restart replays it.
\* An append that raises leaves only the log line.
Report ==
  LET e == events + 1
  IN /\ Receive
     /\ pc = "report" \/ (pc = "run" /\ ~pinned)
     /\ \/ AppendOK(e) /\ UNCHANGED counted
        \/ /\ NotAppended(e)
           /\ counted' = counted \cup {e}
     /\ pinned' = TRUE /\ pc' = "run"
     /\ UNCHANGED <<ckpt, corrupt, published, file, stamp, starting, row, replay, queue,
                    segment, hwm, blocked, writer, clock, stops, clean>>

\* Mutant: the failing call leaves its event to the exception.
CountNothing(r) == UNCHANGED counted

\* What a call that could not publish leaves behind: a row without a proven
\* log record is counted (_account_degraded_quality_event, or the log line).
Count(r) == counted' = counted \cup (IF r.safe THEN {} ELSE {r.ev} \ {0})

\* Where the runner goes when the call for one event has ended.
Back == IF starting THEN "replay" ELSE "run"

\* bind() attributes the sequence number to the segment that takes the row.
AdmitRow ==
  /\ pc = "write" /\ ~writerFailed
  /\ buffer' = buffer \cup {row.ev}
  /\ segment' = segment \cup ({row.seq} \ {NoSeq})
  /\ pc' = "wrote"
  /\ UNCHANGED <<disk, journal, starting, row, replay, queue, inflight, hwm, blocked,
                 writerFailed, env, seen>>

\* An hour rollover inside write() publishes the segment before the row.
RolloverPublish ==
  /\ pc = "write" /\ ~writerFailed /\ buffer # {}
  /\ pc' = "rollhook" /\ published' = published \cup buffer /\ buffer' = {}
  /\ UNCHANGED <<wal, ckpt, corrupt, journal, starting, row, replay, queue, inflight, segment, hwm,
                 blocked, writerFailed, env, seen>>

\* After the row: an unprotected one is published at once, a protected one
\* when the segment is full or old enough.
WroteRow ==
  /\ pc = "wrote"
  /\ \/ pc' = "publish" /\ UNCHANGED row
     \/ row.safe /\ pc' = Back /\ row' = NoRow
  /\ UNCHANGED <<disk, journal, starting, replay, queue, inflight, segment, hwm, blocked,
                 writer, env, seen>>

\* Mutant: the age of the segment is only looked at inside write().
DueInWrite == pc = "wrote" /\ buffer # {} /\ ~writerFailed

Due == pc = "run" /\ buffer # {} /\ ~writerFailed

\* _quality_publish_if_due, and the publication close() performs.
PublishTick ==
  /\ Due /\ pc' = "publish"
  /\ UNCHANGED <<disk, journal, starting, row, replay, queue, inflight, segment, hwm,
                 blocked, writer, env, seen>>

\* fsync, rename and directory fsync of the segment all succeeded.
PublishOK ==
  /\ pc = "publish" /\ pc' = "hook"
  /\ published' = published \cup buffer /\ buffer' = {}
  /\ UNCHANGED <<wal, ckpt, corrupt, journal, starting, row, replay, queue, inflight, segment, hwm,
                 blocked, writerFailed, env, seen>>

\* The writer raises, now or because it failed before: the checkpoint is
\* blocked and the event is accounted by its log evidence.  A replay stops.
\* The first failure is reported.
WriterRaises ==
  /\ pc \in {"write", "publish"}
  /\ IF writerFailed THEN UNCHANGED faults ELSE Fault
  /\ writerFailed' = TRUE /\ buffer' = {} /\ blocked' = TRUE
  /\ Count(row)
  /\ pc' = IF writerFailed \/ events = MaxEvents THEN "run" ELSE "report"
  /\ starting' = FALSE /\ row' = NoRow /\ replay' = {}
  /\ UNCHANGED <<disk, journal, queue, inflight, segment, hwm, clock, stops, events,
                 logged, protected, pinned, clean>>

(***************************************************************************)
(* _on_quality_segment_durable                                             *)
(***************************************************************************)

\* Mutant: the highest published number, whatever is in flight.
TargetIgnoresInflight(flying, high, n) == n = high

\* Mutant: one short of the highest published number.
TargetOneShort(flying, high, n) ==
  IF flying = {} THEN n = high - 1 ELSE IsMin(flying, n + 1)

\* The checkpoint the hook asks for: below everything still in flight, or
\* the highest sequence number published.
Target(flying, high, n) ==
  IF flying = {} THEN n = high ELSE IsMin(flying, n + 1)

\* QualityEventWAL.checkpoint, which deletes the files it covers.
Checkpoint(n) ==
  /\ ckpt' = n /\ DeleteCovered(n, file)
  /\ UNCHANGED <<blocked, faults>>

\* checkpoint raises, before or after its file was replaced.
CheckpointRaises(n) ==
  /\ Fault /\ blocked' = TRUE /\ UNCHANGED wal
  /\ ckpt' \in {ckpt, n}

\* maybe_rotate_for_size: a file that holds records may have grown enough.
Rotate ==
  \/ UNCHANGED <<file, stamp>>
  \/ /\ \E r \in wal : r.file = file
     /\ file' = file + 1 /\ stamp' = clock

DurableHook ==
  /\ pc \in {"hook", "rollhook"}
  /\ segment' = {} /\ inflight' = inflight \ segment
  /\ IF segment = {} THEN UNCHANGED hwm
     ELSE IsMax(segment \cup {hwm}, hwm')
  /\ IF blocked \/ hwm' = NoSeq
     THEN UNCHANGED <<wal, ckpt, blocked, faults, file, stamp>>
     ELSE \E n \in NoSeq .. MaxEvents :
            /\ Target(inflight', hwm', n)
            /\ \/ n <= ckpt /\ UNCHANGED <<wal, ckpt, blocked, faults>> /\ Rotate
               \/ n > ckpt /\ Checkpoint(n) /\ Rotate
               \/ n > ckpt /\ CheckpointRaises(n) /\ UNCHANGED <<file, stamp>>
  /\ IF pc = "hook" THEN pc' = Back /\ row' = NoRow
     ELSE pc' = "write" /\ UNCHANGED row
  /\ UNCHANGED <<corrupt, published, last, writeFailed, full, starting, replay,
                 queue, writer, clock, stops, seen>>

(***************************************************************************)
(* Shutdown and the environment                                            *)
(***************************************************************************)

\* shutdown(): the queue is drained, quality_writer.close() has published, then
\* the log is closed.
Shutdown ==
  /\ pc = "run" /\ queue = {} /\ (buffer = {} \/ writerFailed)
  /\ stops < MaxStops /\ stops' = stops + 1
  /\ pc' = "down" /\ clean' = (~blocked /\ ~writeFailed /\ ~pinned)
  /\ UNCHANGED <<disk, journal, starting, row, replay, queue, inflight, segment, hwm,
                 blocked, writer, clock, faults, events, logged, protected, counted,
                 pinned>>

\* The process dies; the event of the call under way is nobody's yet.
Kill ==
  /\ pc # "down" /\ stops < MaxStops
  /\ stops' = stops + 1 /\ pc' = "down" /\ clean' = FALSE
  /\ starting' = FALSE /\ row' = NoRow /\ replay' = {} /\ queue' = {}
  /\ inflight' = {} /\ segment' = {} /\ hwm' = NoSeq /\ blocked' = FALSE
  /\ buffer' = {} /\ writerFailed' = FALSE /\ pinned' = FALSE
  /\ counted' = counted \cup (IF row.safe THEN {} ELSE {row.ev} \ {0})
  /\ UNCHANGED <<disk, journal, clock, faults, events, logged, protected>>

\* A log file becomes unreadable in the middle while the collector is down,
\* and an operator repairs it.
Corrupt ==
  /\ pc = "down" /\ ~corrupt /\ wal # {} /\ Fault /\ corrupt' = TRUE
  /\ UNCHANGED <<wal, ckpt, published, journal, runner, writer, clock, stops, seen>>

Repair ==
  /\ pc = "down" /\ corrupt /\ corrupt' = FALSE
  /\ UNCHANGED <<wal, ckpt, published, journal, runner, writer, env, seen>>

\* The clock only matters where a log file is named.
Tick ==
  /\ pc \in {"down", "hook", "rollhook"}
  /\ clock' \in 1 .. MaxClock
  /\ IF ClockSteps THEN clock' # clock ELSE clock' > clock
  /\ UNCHANGED <<disk, journal, runner, writer, faults, stops, seen>>

\* What the runner does on its own once it runs: each handler runs to its end,
\* the queue loop drains, the idle tick publishes, a stopped collector is
\* started again.
Work ==
  \/ Start \/ ReplayNext \/ ReplayDone \/ Drain \/ PublishTick
  \/ AdmitRow \/ WroteRow \/ PublishOK \/ WriterRaises \/ DurableHook

Next ==
  \/ Work \/ Persist \/ Enqueue \/ Report \/ RolloverPublish
  \/ Shutdown \/ Kill \/ Corrupt \/ Repair \/ Tick

Spec == Init /\ [][Next]_vars

FairSpec == Spec /\ WF_vars(Work)

(***************************************************************************)
(* Properties                                                              *)
(***************************************************************************)

\* The invariant the runner's comment states: a checkpoint N on disk means
\* every logged event with seq <= N is durably published.
CheckpointSound == \A r \in logged : r.seq <= ckpt => r.ev \in published

\* An event whose append returned is never lost: it is published, or a
\* restart will find its record above the checkpoint.
ProtectedSurvives ==
  \A e \in protected : e \in published \/ \E r \in Pending : r.ev = e

\* No two events ever share a sequence number in the log, across restarts
\* and deleted files (the floor __init__ takes).
SeqNotReused == \A r, s \in logged : r.seq = s.seq => r.ev = s.ev

\* Every event the runner received is published, has a record above the
\* checkpoint, or was counted as lost or unconfirmed; only the event of the
\* call under way is still undecided, and a kill takes no other with it.
EveryEventAccounted ==
  \A e \in (1 .. events) \ {row.ev} :
     e \in published \cup counted \/ \E r \in Pending : r.ev = e

\* After an orderly shutdown with the checkpoint not blocked, the next start
\* has nothing to replay: no event is published twice.
CleanShutdownCheckpoints == clean /\ pc = "down" => Pending = {}

\* A protected event does not stay behind for ever: it is published, by this
\* process or by the next one, unless the checkpoint is blocked or the log
\* alone was meant to have it (queue, overflow, idle tick, restart replay).
EventuallyPublished ==
  \A e \in Event : e \in protected ~> e \in published \/ blocked \/ pinned

(***************************************************************************)
(* Why the checkpoint is sound: the inductive invariant                    *)
(***************************************************************************)

\* A logged record leaves the disk only when the checkpoint covers it.
LogKept ==
  /\ wal \subseteq logged
  /\ \A r \in logged : r \in wal \/ r.seq <= ckpt

\* Sequence numbers identify records, and with a clock that never steps back
\* the files' names sort like them.
LogOrdered ==
  \A r, s \in logged : /\ r.seq = s.seq => r = s
                       /\ r.seq < s.seq => r.stamp <= s.stamp
                       /\ r.stamp <= clock

ProtectedLogged == \A e \in protected : \E r \in logged : r.ev = e

\* Every sequence number the process holds is below n.
Below(n) ==
  /\ \A k \in inflight \cup segment : k < n
  /\ hwm < n /\ row.seq < n /\ \A q \in queue : q.seq < n

\* While the process lives its counter and file name are ahead of all it logged.
CounterAhead ==
  /\ ckpt <= last /\ stamp <= clock /\ Below(last + 1)
  /\ \A r \in logged : r.seq <= last /\ r.stamp <= stamp

\* Replay ends before anything new is appended.
ReplayFirst ==
  /\ replay \subseteq logged
  /\ ~starting \/ pc \in {"run", "report", "corrupt"} => replay = {}

\* A row under way, and a queued one, carries its own record's number.
RowsMatch ==
  \A r \in logged : /\ r.seq = row.seq => r.ev = row.ev
                    /\ \A q \in queue : r.seq = q.seq => r.ev = q.ev

\* A record that nothing holds in flight lies above everything held: replay
\* has yet to reach it, or its append raised and no number follows it.
Ahead(r) ==
  /\ Below(r.seq)
  /\ r \in replay \/ (replay = {} /\ writeFailed /\ r.seq = last)

\* As long as the checkpoint may move, every unpublished record is in flight
\* or ahead, and what the open segment claims it holds.
Held ==
  \A r \in logged : /\ r.ev \in published \/ r.seq \in inflight \/ Ahead(r)
                    /\ r.seq \in segment => r.ev \in published \cup buffer

HookAfterPublish == pc \in {"hook", "rollhook"} => buffer = {}

Live == CounterAhead /\ ReplayFirst /\ RowsMatch /\ HookAfterPublish

\* The invariant that carries CheckpointSound, ProtectedSurvives and
\* SeqNotReused through every step (QualityChannelProofs).
CheckpointInv ==
  /\ TypeOK /\ LogKept /\ LogOrdered /\ ProtectedLogged /\ CheckpointSound
  /\ pc # "down" => Live
  /\ pc # "down" /\ ~blocked => Held

(***************************************************************************)
(* Why no event goes unaccounted, and why an orderly stop leaves nothing   *)
(***************************************************************************)

\* The events of which it is known what became of them: published, counted, or logged.
Known == published \cup counted \cup {r.ev : r \in logged}

\* Every event is known but that of the call under way, a safe row is one that was
\* logged, and a call's row is in the segment until the call gives it up.
EventsKnown ==
  /\ \A e \in (1 .. events) \ {row.ev} : e \in Known
  /\ \A q \in queue \cup {row} : q.safe => \E r \in logged : r.ev = q.ev
  /\ pc \in {"down", "corrupt", "replay", "run", "report"} => row = NoRow
  /\ pc \in {"wrote", "publish"} => row.ev \in buffer \cup {0}
  /\ pc = "hook" => row.ev \in published \cup {0}

\* As long as the checkpoint may move: what is in flight is in the open segment, in the
\* call under way or queued, and the checkpoint follows what was published.
KeepsUp ==
  /\ ~pinned => \A k \in inflight : \/ k \in segment
                                    \/ pc \in {"write", "rollhook"} /\ k = row.seq
                                    \/ \E q \in queue : k = q.seq
  /\ segment # {} => buffer # {} \/ pc \in {"hook", "rollhook"}
  /\ inflight = {} => hwm <= ckpt
  /\ \A r \in logged : \/ r.seq <= ckpt \/ r.seq <= hwm \/ r.seq \in inflight \/ r \in replay
                       \/ writeFailed /\ r.seq = last

StopOrderly ==
  /\ pc # "down" => (writerFailed => blocked) /\ (~blocked => KeepsUp)
  /\ CleanShutdownCheckpoints

\* Everything the channel keeps.
ChannelInv == CheckpointInv /\ EventsKnown /\ StopOrderly
=============================================================================
