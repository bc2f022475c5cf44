--------------------------- MODULE SegmentWriter ---------------------------
(***************************************************************************)
(* One stream directory and the ParquetWriter that owns it                 *)
(* (collector/collector/parquet_writer.py).                                *)
(*                                                                         *)
(* Rows are numbered in the order write() admits them, so the rows of a    *)
(* segment are an interval: seg[t] = [lo, n] holds rows lo+1 .. lo+n, and  *)
(* n = 0 says the file does not exist.  A token <<hour, sequence>> names a *)
(* segment and its .tmp and .count.json siblings; sidecar[t] = 0 says      *)
(* there is no .count.json (a counter is only persisted after a non-empty  *)
(* flush).  The methods are synchronous: what interleaves with their steps *)
(* is a failing step, a killed process and a power loss.  pc names the     *)
(* next step; after says why the segment is being closed.                  *)
(***************************************************************************)
EXTENDS Integers, FiniteSets

CONSTANTS Hours,        \* wall-clock hours; the clock may also step back
          MaxSeq,       \* bound: segments per hour are 0 .. MaxSeq
          MaxRows,      \* bound: rows ever admitted
          SegmentRows,  \* segment_rows
          BufferRows,   \* the 1_000-row buffer limit of _write_record
          Faults,       \* the steps that may raise, see Steps
          MaxFaults,    \* bound: failing steps in a behaviour
          MaxStops,     \* bound: kills and power losses in a behaviour
          PowerLoss     \* whether unsynced directory entries may be lost

Steps == {"write_table", "counter", "pre_rename", "dir_fsync",
          "counter_unlink", "marker", "hook", "open", "discard"}

ASSUME WriterAssumption ==
  /\ Hours # {} /\ IsFiniteSet(Hours)
  /\ MaxSeq \in Nat /\ MaxRows \in Nat /\ MaxFaults \in Nat /\ MaxStops \in Nat
  /\ SegmentRows \in Nat \ {0} /\ BufferRows \in Nat \ {0}
  /\ Faults \subseteq Steps /\ PowerLoss \in BOOLEAN

VARIABLES
  \* the stream directory, and what of it the last directory fsync covers
  seg, synced, tmps, tmpsSynced, sidecar, sidecarSynced, marker,
  \* the live writer object
  pc, after, cur, lo, rec, buf, gate, cache,
  \* a restart's _recover_orphans: the orphans to go, the rows of the one in hand
  todo, rows,
  \* environment: the clock and the budgets
  hour, faults, stops,
  \* what a reader of the code would want to know and the code does not keep:
  \* rows admitted, segments announced to on_segment_durable and to
  \* on_segment_published, rows lost and rows reported lost per token, kills
  \* that hit a token's open segment, rows in the hands of a restart that was
  \* killed, tokens whose files a power loss or a failed discard disturbed
  accepted, announced, hooked, lost, reported, kills, unheard, dark

disk  == <<seg, synced, tmps, tmpsSynced, sidecar, sidecarSynced, marker>>
orphans == <<todo, rows>>
ram   == <<pc, after, cur, lo, rec, buf, gate, cache, orphans>>
env   == <<hour, faults, stops>>
ghost == <<accepted, announced, hooked, lost, reported, kills, unheard, dark>>
vars  == <<disk, ram, env, ghost>>

Token   == Hours \X (0 .. MaxSeq)
Absent  == [lo |-> 0, n |-> 0]
Visible == {t \in Token : seg[t].n > 0}

PCs == {"down", "recover", "uncount", "report", "idle", "admit", "flush", "count", "close",
        "renamed", "durable", "mark", "hook", "next", "roll", "gated", "failed"}

\* The steps at which the rows of the open segment are only in RAM or the .tmp.
BeforeRename == {"idle", "admit", "flush", "count", "close"}
Active(t) == t = cur /\ pc \in BeforeRename

\* The steps at which a restart holds the counter of an orphan it has unlinked.
InHand(t) == pc \in {"uncount", "report"} /\ t \in todo \ tmps

TypeOK ==
  /\ seg \in [Token -> [lo : Nat, n : Nat]]
  /\ synced \subseteq Token /\ marker \subseteq Token
  /\ tmps \subseteq Token /\ tmpsSynced \subseteq Token
  /\ sidecar \in [Token -> Nat] /\ sidecarSynced \in [Token -> Nat]
  /\ pc \in PCs /\ after \in {"stay", "rotate", "roll", "final"}
  /\ cur \in Token /\ lo \in Nat /\ rec \in Nat /\ buf \in Nat
  /\ gate \in BOOLEAN /\ cache \in [Hours -> 0 .. MaxSeq + 1]
  /\ todo \subseteq Token /\ rows \in Nat
  /\ hour \in Hours /\ faults \in Nat /\ stops \in Nat
  /\ accepted \in Nat /\ announced \subseteq Token /\ hooked \subseteq Token
  /\ lost \in [Token -> Nat] /\ reported \in [Token -> Nat]
  /\ kills \in [Token -> Nat] /\ unheard \in [Token -> Nat] /\ dark \subseteq Token

Init ==
  /\ seg = [t \in Token |-> Absent] /\ synced = {} /\ marker = {}
  /\ tmps = {} /\ tmpsSynced = {}
  /\ sidecar = [t \in Token |-> 0] /\ sidecarSynced = sidecar
  /\ pc = "down" /\ after = "stay" /\ lo = 0 /\ rec = 0 /\ buf = 0
  /\ gate = FALSE /\ cache = [h \in Hours |-> 0] /\ todo = {} /\ rows = 0
  /\ hour \in Hours /\ cur = <<hour, 0>> /\ faults = 0 /\ stops = 0
  /\ accepted = 0 /\ announced = {} /\ hooked = {} /\ dark = {}
  /\ lost = [t \in Token |-> 0] /\ reported = lost /\ kills = lost /\ unheard = lost

(***************************************************************************)
(* Helpers                                                                 *)
(***************************************************************************)

\* Step s raises; every use spends the fault budget.
Raises(s) ==
  /\ s \in Faults /\ faults < MaxFaults
  /\ faults' = faults + 1

Bump(f, t, n) == [f EXCEPT ![t] = @ + n]

\* _next_sequence: one past the highest published sequence of the hour.
IsNextSequence(h, s) ==
  /\ \A t \in Visible : t[1] = h => t[2] < s
  /\ s > 0 => <<h, s - 1>> \in Visible

\* _open_segment: a new .tmp; a .count.json left at the same token stays.
OpenOK(t) ==
  /\ t \in Token /\ t \notin Visible
  /\ cur' = t /\ tmps' = tmps \cup {t}
  /\ lo' = accepted /\ rec' = 0 /\ buf' = 0
  /\ UNCHANGED <<sidecar, faults>>

\* _open_segment raising: whatever it left is removed.
OpenFails(t) ==
  /\ t \in Token /\ Raises("open")
  /\ tmps' = tmps \ {t} /\ sidecar' = [sidecar EXCEPT ![t] = 0]
  /\ UNCHANGED <<cur, lo, rec, buf>>

\* The empty branch of _finalize_segment: close and unlink .tmp and counter.
DiscardEmpty ==
  /\ rec = 0 /\ buf = 0
  /\ tmps' = tmps \ {cur} /\ sidecar' = [sidecar EXCEPT ![cur] = 0]

\* Mutant: every row of the segment is reported, covered by the counter or not.
FailUnpublishedCountsAll(covered) ==
  /\ lost' = Bump(lost, cur, rec + buf) /\ reported' = Bump(reported, cur, rec + buf)
  /\ pc' = "failed" /\ buf' = 0

\* _fail_closed at a step before the rename.  Rows the .count.json on disk
\* covers are left to the restart; every other row is reported now.
FailUnpublished(covered) ==
  LET uncovered == IF rec > covered THEN rec - covered ELSE 0
  IN /\ lost' = Bump(lost, cur, rec + buf)
     /\ reported' = Bump(reported, cur, uncovered + buf)
     /\ pc' = "failed" /\ buf' = 0

(***************************************************************************)
(* Construction: __init__ takes the lock, scans, discards orphans, opens.  *)
(***************************************************************************)

Start ==
  /\ pc = "down"
  /\ pc' = "recover" /\ todo' = tmps /\ gate' = FALSE
  /\ cache' \in [Hours -> 0 .. MaxSeq + 1]
  /\ \A h \in Hours : IsNextSequence(h, cache'[h])
  /\ UNCHANGED <<disk, after, cur, lo, rec, buf, rows, env, ghost>>

\* _recover_orphans, one .seg.tmp at a time: read its counter and unlink it ...
UnlinkOrphan(t) ==
  /\ pc = "recover" /\ t \in todo
  /\ tmps' = tmps \ {t} /\ rows' = sidecar[t] /\ pc' = "uncount"
  /\ UNCHANGED <<seg, synced, tmpsSynced, sidecar, sidecarSynced, marker, after, cur,
                 lo, rec, buf, gate, cache, todo, env, ghost>>

\* ... then unlink the counter ...
UnlinkCounter(t) ==
  /\ pc = "uncount" /\ InHand(t)
  /\ sidecar' = [sidecar EXCEPT ![t] = 0] /\ pc' = "report"
  /\ UNCHANGED <<seg, synced, tmps, tmpsSynced, sidecarSynced, marker, after, cur,
                 lo, rec, buf, gate, cache, todo, rows, env, ghost>>

\* ... then emit the drop.
ReportOrphan(t) ==
  /\ pc = "report" /\ InHand(t)
  /\ reported' = Bump(reported, t, rows) /\ rows' = 0
  /\ todo' = todo \ {t} /\ pc' = "recover"
  /\ UNCHANGED <<disk, after, cur, lo, rec, buf, gate, cache, env, accepted,
                 announced, hooked, lost, kills, unheard, dark>>

\* The OSError branch: either unlink may fail, and no drop is reported.
OrphanDiscardFails(t) ==
  /\ Raises("discard")
  /\ \/ pc = "recover" /\ t \in todo
     \/ pc = "uncount" /\ InHand(t)
  /\ todo' = todo \ {t} /\ rows' = 0 /\ pc' = "recover"
  /\ dark' = dark \cup {t}
  /\ UNCHANGED <<disk, after, cur, lo, rec, buf, gate, cache, hour, stops, accepted,
                 announced, hooked, lost, reported, kills, unheard>>

RecoverOrphans(t) ==
  UnlinkOrphan(t) \/ UnlinkCounter(t) \/ ReportOrphan(t) \/ OrphanDiscardFails(t)

OpenFirst ==
  /\ pc = "recover" /\ todo = {}
  /\ LET t == <<hour, cache[hour]>>
     IN \/ OpenOK(t) /\ pc' = "idle"
        \/ OpenFails(t) /\ pc' = "down"
  /\ UNCHANGED <<seg, synced, tmpsSynced, sidecarSynced, marker, after, gate,
                 cache, orphans, hour, stops, ghost>>

(***************************************************************************)
(* write, publish_open_segment, publish_if_due, close               *)
(***************************************************************************)

\* The append half of _write_record; due says the segment has reached its age.
Append(due) ==
  LET full  == rec + buf + 1 >= SegmentRows
  IN /\ accepted < MaxRows
     /\ accepted' = accepted + 1 /\ buf' = buf + 1
     /\ pc' = IF buf + 1 >= BufferRows \/ full \/ due THEN "flush" ELSE "idle"
     /\ after' = IF full \/ due THEN "rotate" ELSE "stay"
     /\ UNCHANGED <<disk, cur, lo, rec, gate, cache, orphans, env, announced,
                    hooked, lost, reported, kills, unheard, dark>>

Write(due) ==
  /\ pc = "idle" /\ ~gate /\ hour = cur[1]
  /\ Append(due)

\* write() after the hour changed: the open segment is finalized first.
Rollover ==
  /\ pc = "idle" /\ ~gate /\ hour # cur[1] /\ accepted < MaxRows
  /\ after' = "roll"
  /\ \/ DiscardEmpty /\ pc' = "roll"
     \/ rec + buf > 0 /\ pc' = "flush" /\ UNCHANGED <<tmps, sidecar>>
  /\ UNCHANGED <<seg, synced, tmpsSynced, sidecarSynced, marker, cur, lo, rec,
                 buf, gate, cache, orphans, env, ghost>>

OpenRolled ==
  /\ pc = "roll"
  /\ LET t == <<hour, cache[hour]>>
     IN \/ OpenOK(t) /\ pc' = "admit"
        \/ OpenFails(t) /\ pc' = "failed"
  /\ UNCHANGED <<seg, synced, tmpsSynced, sidecarSynced, marker, after, gate,
                 cache, orphans, hour, stops, ghost>>

Admit(due) == pc = "admit" /\ Append(due)

Publish ==
  /\ pc = "idle" /\ rec + buf > 0
  /\ pc' = "flush" /\ after' = "rotate"
  /\ UNCHANGED <<disk, cur, lo, rec, buf, gate, cache, orphans, env, ghost>>

\* close(); the stream lock is released with it, as it is on every stop.
Close ==
  /\ \/ /\ pc = "idle"
        /\ \/ DiscardEmpty /\ pc' = "down" /\ UNCHANGED after
           \/ /\ rec + buf > 0 /\ pc' = "flush" /\ after' = "final"
              /\ UNCHANGED <<tmps, sidecar>>
     \/ /\ pc \in {"failed", "gated"}
        /\ pc' = "down" /\ UNCHANGED <<after, tmps, sidecar>>
  /\ UNCHANGED <<seg, synced, tmpsSynced, sidecarSynced, marker, cur, lo, rec,
                 buf, gate, cache, orphans, env, ghost>>

(***************************************************************************)
(* The steps of flush                                                      *)
(***************************************************************************)

\* Mutant: the buffer is not cleared after write_table.
WriteTableKeepsBuffer ==
  /\ pc = "flush"
  /\ rec' = rec + buf /\ pc' = IF buf > 0 THEN "count" ELSE "close"
  /\ UNCHANGED <<disk, after, cur, lo, buf, gate, cache, orphans, env, ghost>>

WriteTable ==
  /\ pc = "flush"
  /\ \/ /\ rec' = rec + buf /\ buf' = 0
        /\ pc' = IF buf > 0 THEN "count" ELSE "close"
        /\ UNCHANGED <<faults, lost, reported>>
     \/ buf > 0 /\ Raises("write_table") /\ FailUnpublished(sidecar[cur]) /\ UNCHANGED rec
  /\ UNCHANGED <<disk, after, cur, lo, gate, cache, orphans, hour, stops, accepted,
                 announced, hooked, kills, unheard, dark>>

\* _persist_counter; an interrupt may surface after os.replace has landed.
PersistCounter ==
  /\ pc = "count"
  /\ \/ /\ sidecar' = [sidecar EXCEPT ![cur] = rec]
        /\ pc' = IF after = "stay" THEN "idle" ELSE "close"
        /\ UNCHANGED <<buf, faults, lost, reported>>
     \/ /\ sidecar' \in {sidecar, [sidecar EXCEPT ![cur] = rec]}
        /\ Raises("counter") /\ FailUnpublished(sidecar'[cur])
  /\ UNCHANGED <<seg, synced, tmps, tmpsSynced, sidecarSynced, marker, after, cur,
                 lo, rec, gate, cache, orphans, hour, stops, accepted, announced,
                 hooked, kills, unheard, dark>>

(***************************************************************************)
(* The steps of _close_segment                                             *)
(***************************************************************************)

\* writer.close, tmp fsync, digest, overwrite guard, os.replace.
Rename ==
  /\ pc = "close"
  /\ \/ /\ cur \notin Visible
        /\ seg' = [seg EXCEPT ![cur] = [lo |-> lo, n |-> rec]]
        /\ tmps' = tmps \ {cur} /\ pc' = "renamed"
        /\ UNCHANGED <<sidecar, buf, faults, lost, reported>>
     \/ /\ UNCHANGED <<seg, tmps, sidecar>>
        /\ Raises("pre_rename") /\ FailUnpublished(sidecar[cur])
  /\ UNCHANGED <<synced, tmpsSynced, sidecarSynced, marker, after, cur, lo, rec,
                 gate, cache, orphans, hour, stops, accepted, announced, hooked,
                 kills, unheard, dark>>

\* Mutant: the directory is not synced after the rename.
DirFsyncSkipped ==
  /\ pc = "renamed" /\ pc' = "durable"
  /\ UNCHANGED <<disk, after, cur, lo, rec, buf, gate, cache, orphans, env, ghost>>

\* The directory fsync makes every entry of the directory durable.
DirFsync ==
  /\ pc = "renamed"
  /\ \/ /\ synced' = Visible /\ tmpsSynced' = tmps /\ sidecarSynced' = sidecar
        /\ pc' = "durable" /\ UNCHANGED faults
     \/ /\ Raises("dir_fsync") /\ pc' = "failed"
        /\ UNCHANGED <<synced, tmpsSynced, sidecarSynced>>
  /\ UNCHANGED <<seg, tmps, sidecar, marker, after, cur, lo, rec, buf, gate,
                 cache, orphans, hour, stops, ghost>>

\* The counter is unlinked (a failure is only logged), then
\* on_segment_durable is called (its exceptions are only logged).
DurableHook ==
  /\ pc = "durable" /\ pc' = "mark"
  /\ \/ sidecar' = [sidecar EXCEPT ![cur] = 0] /\ UNCHANGED faults
     \/ Raises("counter_unlink") /\ UNCHANGED sidecar
  /\ announced' = announced \cup {cur}
  /\ UNCHANGED <<seg, synced, tmps, tmpsSynced, sidecarSynced, marker, after, cur,
                 lo, rec, buf, gate, cache, orphans, hour, stops, accepted, hooked,
                 lost, reported, kills, unheard, dark>>

\* Mutant: the published hook runs although the marker failed.
WriteMarkerIgnored ==
  /\ pc = "mark" /\ pc' = "hook"
  /\ \/ /\ marker' = marker \cup {cur} /\ UNCHANGED <<gate, faults>>
     \/ Raises("marker") /\ gate' = TRUE /\ UNCHANGED marker
  /\ UNCHANGED <<seg, synced, tmps, tmpsSynced, sidecar, sidecarSynced, after, cur,
                 lo, rec, buf, cache, orphans, hour, stops, ghost>>

\* write_marker_atomic ends with a directory fsync of its own.  When it
\* raises, its file may or may not be visible and the hook is withheld.
WriteMarker ==
  /\ pc = "mark"
  /\ \/ /\ marker' = marker \cup {cur} /\ pc' = "hook"
        /\ synced' = Visible /\ tmpsSynced' = tmps /\ sidecarSynced' = sidecar
        /\ UNCHANGED <<gate, faults>>
     \/ /\ Raises("marker") /\ marker' \in {marker, marker \cup {cur}}
        /\ gate' = TRUE /\ pc' = "next"
        /\ UNCHANGED <<synced, tmpsSynced, sidecarSynced>>
  /\ UNCHANGED <<seg, tmps, sidecar, after, cur, lo, rec, buf, cache, orphans, hour,
                 stops, ghost>>

PublishedHook ==
  /\ pc = "hook" /\ pc' = "next"
  /\ hooked' = hooked \cup {cur}
  /\ \/ UNCHANGED <<gate, faults>>
     \/ Raises("hook") /\ gate' = TRUE
  /\ UNCHANGED <<disk, after, cur, lo, rec, buf, cache, orphans, hour, stops,
                 accepted, announced, lost, reported, kills, unheard, dark>>

\* Mutant: a rollover does not look at the gate again.
NextSegmentUngated ==
  /\ pc = "next" /\ after = "roll" /\ pc' = "roll"
  /\ cache' = [cache EXCEPT ![cur[1]] = cur[2] + 1]
  /\ UNCHANGED <<disk, after, cur, lo, rec, buf, gate, orphans, env, ghost>>

\* The end of _close_segment: remember the sequence, open the next segment
\* when rotating; a rollover re-checks the gate before it goes on.
NextSegment ==
  /\ pc = "next"
  /\ cache' = [cache EXCEPT ![cur[1]] = cur[2] + 1]
  /\ \/ /\ after = "rotate"
        /\ LET t == <<cur[1], cur[2] + 1>>
           IN \/ OpenOK(t) /\ pc' = "idle"
              \/ OpenFails(t) /\ pc' = "failed"
     \/ /\ after # "rotate"
        /\ pc' = IF after = "final" THEN "down" ELSE IF gate THEN "gated" ELSE "roll"
        /\ UNCHANGED <<tmps, sidecar, cur, lo, rec, buf, faults>>
  /\ UNCHANGED <<seg, synced, tmpsSynced, sidecarSynced, marker, after, gate,
                 orphans, hour, stops, ghost>>

(***************************************************************************)
(* The environment                                                         *)
(***************************************************************************)

\* The hour is read once per call, at the start of write() or __init__.
Tick ==
  /\ pc \in {"idle", "down"}
  /\ hour' \in Hours \ {hour}
  /\ UNCHANGED <<disk, ram, faults, stops, ghost>>

\* The writer object is gone with its process.
RamGone ==
  /\ pc' = "down" /\ after' = "stay" /\ gate' = FALSE /\ todo' = {} /\ rows' = 0
  /\ lo' = 0 /\ rec' = 0 /\ buf' = 0
  /\ cache' = [h \in Hours |-> 0]

\* Rows of the open segment that die with the process.
Dying(t) == IF Active(t) THEN rec + buf ELSE 0

\* The process is killed: RAM is gone, the page cache survives.
Kill ==
  /\ pc # "down" /\ stops < MaxStops
  /\ stops' = stops + 1 /\ RamGone
  /\ lost' = [t \in Token |-> lost[t] + Dying(t)]
  /\ kills' = [t \in Token |-> kills[t] + IF Dying(t) > 0 THEN 1 ELSE 0]
  /\ unheard' = [t \in Token |-> unheard[t] + IF InHand(t) THEN rows ELSE 0]
  /\ UNCHANGED <<disk, cur, hour, faults, accepted, announced, hooked, reported,
                 dark>>

\* The machine loses power: an entry changed since the last directory fsync
\* is found in its old or in its new state; an unsynced rename is undone as
\* a whole (back = the undone ones).
LosePower ==
  /\ PowerLoss /\ stops < MaxStops
  /\ stops' = stops + 1 /\ RamGone
  /\ \E back \in SUBSET (Visible \ synced) :
     \E new \in SUBSET {t \in Token : sidecar[t] # sidecarSynced[t]} :
        /\ tmps' \in SUBSET ((tmps \cup tmpsSynced \cup back) \ (Visible \ back))
        /\ tmps \cap tmpsSynced \subseteq tmps'
        /\ seg' = [t \in Token |-> IF t \in back THEN Absent ELSE seg[t]]
        /\ sidecar' = [t \in Token |-> IF t \in new THEN sidecar[t]
                                                    ELSE sidecarSynced[t]]
        /\ synced' = Visible \ back
        /\ lost' = [t \in Token |-> lost[t] + Dying(t)
                                    + IF t \in back THEN seg[t].n ELSE 0]
        /\ dark' = dark \cup tmps \cup tmpsSynced \cup todo \cup back \cup {cur}
                        \cup {t \in Token : sidecar[t] # sidecarSynced[t]}
  /\ tmpsSynced' = tmps' /\ sidecarSynced' = sidecar'
  /\ UNCHANGED <<marker, cur, hour, faults, accepted, announced, hooked, reported,
                 kills, unheard>>

Next ==
  \/ Start \/ OpenFirst \/ Rollover \/ OpenRolled
  \/ \E t \in Token : RecoverOrphans(t)
  \/ \E due \in BOOLEAN : Write(due) \/ Admit(due)
  \/ Publish \/ Close
  \/ WriteTable \/ PersistCounter
  \/ Rename \/ DirFsync \/ DurableHook \/ WriteMarker \/ PublishedHook \/ NextSegment
  \/ Tick \/ Kill \/ LosePower

Spec == Init /\ [][Next]_vars

(***************************************************************************)
(* Properties                                                              *)
(***************************************************************************)

\* A segment that on_segment_durable or a publication marker vouched for is
\* on disk and survives any later kill or power loss (_close_segment: hooks
\* and marker strictly after the directory fsync), and the dedup hook only
\* ever sees a segment whose marker is in place.
DurableClaim ==
  announced \cup hooked \cup marker \subseteq Visible \cap synced /\ hooked \subseteq marker

\* Once vouched for, a segment's rows never change: no later writer, hour
\* rollover, clock step or restart renames another segment over it
\* (overwrite guards, _next_sequence).
VouchedImmutable == [][\A t \in announced : seg'[t] = seg[t]]_vars

\* No row is in two segments, and within an hour the sequence numbers follow
\* the order in which rows were admitted (what replay in (hour, seq) order
\* relies on).
SegmentsOrdered ==
  \A t, u \in Visible :
     t # u => /\ \/ seg[t].lo + seg[t].n <= seg[u].lo
                 \/ seg[u].lo + seg[u].n <= seg[t].lo
              /\ t[1] = u[1] /\ t[2] < u[2] => seg[t].lo < seg[u].lo

\* Rows of token t a restart has in hand, or will find in the counter beside its .tmp.
Owed(t) == IF InHand(t) THEN rows
           ELSE IF t \in tmps /\ ~Active(t) THEN sidecar[t] ELSE 0

\* Rows of token t nobody has reported or will report.
Silent(t) == lost[t] - reported[t] - Owed(t)

\* What kills may hide of token t: at most a buffer of rows for each that hit its
\* open segment, and the rows of a counter whose restart was killed between
\* unlinking the .tmp and emitting the drop, since no later restart looks for them.
Hidden(t) == BufferRows * kills[t] + unheard[t]

\* THE ACCOUNTING RULE of _fail_closed: rows of a segment that will not be
\* published are reported lost exactly once, by the failing writer or by the
\* restart.  Only a kill hides rows, Hidden(t) at most, and nothing is ever
\* reported twice, by a stale counter left at the token of a new segment either.
LossAccounting ==
  \A t \in Token \ dark : Silent(t) \in 0 .. Hidden(t)

\* The same rule as the class comment states it, without leaving out the
\* tokens whose orphan could not be discarded cleanly.
EveryLossReported ==
  \A t \in Token : Silent(t) \in 0 .. Hidden(t)

\* A marker or hook failure gates the writer at once: no row is admitted
\* until a restart, not even the one whose hour rollover tripped the gate.
GateStopsRows == [][gate => accepted' = accepted]_vars

(***************************************************************************)
(* The inductive invariant behind them                                     *)
(***************************************************************************)

\* The steps at which the open segment has its name.
AfterRename == {"renamed", "durable", "mark", "hook", "next"}

\* The open segment holds the rows admitted last, and no file holds one of them.
RowsInOrder ==
  /\ \A t \in Visible : seg[t].lo + seg[t].n <= IF pc \in BeforeRename THEN lo ELSE accepted
  /\ pc \in BeforeRename => lo + rec + buf = accepted
  /\ pc = "flush" => rec + buf > 0
  /\ pc \in {"count", "close"} => rec > 0 /\ buf = 0

\* Of an hour's names the open segment has, and the next one will get, the last.
NamesInOrder ==
  /\ pc \in BeforeRename \cup AfterRename =>
       \A t \in Visible : t[1] = cur[1] => t[2] < cur[2] \/ (t = cur /\ pc \in AfterRename)
  /\ pc \notin {"down", "failed"} =>
       \A t \in Visible : t[2] < cache[t[1]] \/ (t = cur /\ pc \in AfterRename)

\* What is synced stays visible, and nothing is vouched for before it is synced.
VouchedInOrder ==
  /\ synced \subseteq Visible
  /\ pc \in AfterRename => cur \in Visible
  /\ pc \in {"durable", "mark", "hook"} => cur \in synced
  /\ pc = "hook" => cur \in marker
  /\ pc \in {"roll", "admit"} => ~gate

\* An orphan is a .tmp a restart has yet to see, and a restart holds at most one.
OrphansOwned ==
  /\ pc = "recover" => todo \subseteq tmps /\ tmps \subseteq todo \cup dark
  /\ pc \in {"uncount", "report"} =>
       /\ tmps \subseteq todo \cup dark
       /\ \E t \in Token : todo \ tmps = {t} /\ (pc = "report" => sidecar[t] = 0)
  /\ pc \in BeforeRename => cur \in tmps /\ tmps \subseteq dark \cup {cur}
  /\ pc \in AfterRename \cup {"roll"} => tmps \subseteq dark

\* A counter on disk or in a restart's hand never claims a row that was published,
\* reported before or never written, though a killed restart can leave one without
\* its .tmp, where a later segment of the same name takes it over.
CountersClaimLost ==
  \A t \in Token \ dark :
     /\ t \notin Visible => sidecar[t] <= lost[t] - reported[t] + IF Active(t) THEN rec ELSE 0
     /\ InHand(t) => rows <= lost[t] - reported[t]

\* The counter of the open segment misses at most one buffer of its rows.
CounterFollows ==
  pc \in BeforeRename /\ cur \notin dark =>
    /\ rec <= sidecar[cur] + IF pc = "count" THEN BufferRows ELSE 0
    /\ buf <= BufferRows /\ (pc \in {"idle", "admit"} => buf < BufferRows)

\* The writer keeps its types, its segments in order (_admit, _next_sequence), and
\* the files and counters of the open segment in step with its rows.
WriterInv ==
  /\ TypeOK /\ SegmentsOrdered
  /\ RowsInOrder /\ NamesInOrder /\ VouchedInOrder /\ OrphansOwned
  /\ CountersClaimLost /\ CounterFollows
=============================================================================
