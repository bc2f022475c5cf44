---------------------------- MODULE VenueProofs ----------------------------
(***************************************************************************)
(* The two runners of MCVenues.  Bybit's quality channel, proved for every *)
(* number of events, capacity of the log and number of faults and stops:   *)
(* the checkpoint, the counters and the clean stop.  OKX's raw capture,    *)
(* proved for any number of frames, connections and channels and any       *)
(* queue: each step keeps the client sound (CollectorStopProofs) and what a *)
(* stop promises (StopKept), and the ledger with what still waits for the  *)
(* worker is what the venue answered (Agrees).                             *)
(***************************************************************************)
EXTENDS BybitQuality, OkxCapture, CollectorStopProofs, FiniteSetTheorems, WellFoundedInduction, TLAPS

(***************************************************************************)
(* Extremes                                                                *)
(***************************************************************************)

\* A set of numbers that is not empty has a smallest one.
LEMMA Smallest ==
  ASSUME NEW S, S \subseteq Nat, S # {}
  PROVE  \E n \in S : \A m \in S : n <= m
<1> DEFINE Less == {p \in Nat \X Nat : p[1] < p[2]}
<1>1. IsWellFoundedOn(Less, Nat)
  BY NatLessThanWellFounded DEF OpToRel
<1>2. \A m, n \in Nat : m < n => <<m, n>> \in Less
  OBVIOUS
<1> HIDE DEF Less
<1>3. PICK n \in S : \A m \in S : <<m, n>> \notin Less
  BY <1>1, WFMin
<1>4. \A m \in S : m \in Nat /\ n \in Nat /\ ~(m < n)
  BY <1>2, <1>3
<1> QED
  BY <1>4

\* The smallest and the largest of some sequence numbers.
LEMMA Extremes ==
  ASSUME NEW S, S \subseteq NoSeq .. MaxEvents, S # {}
  PROVE  /\ Min(S) \in S /\ \A n \in S : Min(S) <= n
         /\ Max(S) \in S /\ \A n \in S : n <= Max(S)
<1>1. \A n \in S : n \in Int /\ NoSeq <= n /\ n <= MaxEvents /\ MaxEvents \in Int
  BY BybitAssumption DEF NoSeq
<1>2. \E m \in S : \A n \in S : m <= n
  <2> DEFINE T == {n + 1 : n \in S}
  <2>0. \A n \in S : n + 1 \in Nat
    BY <1>1 DEF NoSeq
  <2>1. T \subseteq Nat /\ T # {}
    BY <2>0
  <2>2. PICK t \in T : \A u \in T : t <= u
    BY <2>1, Smallest
  <2>3. PICK m \in S : t = m + 1
    OBVIOUS
  <2>4. \A n \in S : m + 1 <= n + 1
    BY <2>2, <2>3
  <2> QED
    BY <1>1, <2>4
<1>3. \E m \in S : \A n \in S : n <= m
  <2> DEFINE T == {MaxEvents - n : n \in S}
  <2>0. \A n \in S : MaxEvents - n \in Nat
    BY <1>1
  <2>1. T \subseteq Nat /\ T # {}
    BY <2>0
  <2>2. PICK t \in T : \A u \in T : t <= u
    BY <2>1, Smallest
  <2>3. PICK m \in S : t = MaxEvents - m
    OBVIOUS
  <2>4. \A n \in S : MaxEvents - m <= MaxEvents - n
    BY <2>2, <2>3
  <2> QED
    BY <1>1, <2>4
<1>4. Min(S) \in S /\ \A n \in S : Min(S) <= n
  BY <1>2 DEF Min
<1>5. Max(S) \in S /\ \A n \in S : Max(S) >= n
  <2>1. \E m \in S : \A n \in S : m >= n
    BY <1>1, <1>3
  <2> QED
    BY <2>1 DEF Max
<1> QED
  BY <1>1, <1>4, <1>5

(***************************************************************************)
(* The invariant                                                           *)
(***************************************************************************)

\* The channel, its counters and its clean stops, together.
IInv == BybitInv /\ CountersHonest /\ CleanStopReplaysNothing

\* The numbers of the state.
LEMMA Typed ==
  ASSUME TypeOK
  PROVE  /\ MaxEvents \in Nat /\ NoSeq = -1 /\ events \in Nat /\ since \in Nat
         /\ ckpt \in Int /\ last \in Int /\ hwm \in Int
         /\ row.seq \in Int /\ row.ev \in Nat /\ row.safe \in BOOLEAN
         /\ \A r \in logged : r.seq \in Nat /\ r.ev \in Nat /\ r.ev # 0 /\ r = Rec(r.ev, r.seq)
         /\ \A n \in inflight : n \in Nat
         /\ \A n \in segment : n \in Nat
<1>1. MaxEvents \in Nat /\ NoSeq = -1
  BY BybitAssumption DEF NoSeq
<1>2. events \in Nat /\ since \in Nat /\ ckpt \in Int /\ last \in Int /\ hwm \in Int
  BY <1>1 DEF TypeOK
<1>3. row.seq \in Int /\ row.ev \in Nat /\ row.safe \in BOOLEAN
  BY <1>1 DEF TypeOK
<1>4. \A r \in logged : r.seq \in Nat /\ r.ev \in Nat /\ r.ev # 0 /\ r = Rec(r.ev, r.seq)
  BY <1>1 DEF TypeOK, Event, Rec
<1>5. (\A n \in inflight : n \in Nat) /\ (\A n \in segment : n \in Nat)
  BY <1>1 DEF TypeOK
<1> QED
  BY <1>1, <1>2, <1>3, <1>4, <1>5

\* The parts of the invariant, by name.
LEMMA PartsOf ==
  ASSUME IInv
  PROVE  /\ TypeOK /\ CheckpointSound /\ LogKept /\ CountedDegraded
         /\ phase # "down" => CounterAhead /\ ReplayFirst /\ RowPlaced
         /\ phase # "down" /\ ~blocked => Held
         /\ phase = "down" => pc = "idle"
         /\ CountersHonest /\ CleanStopReplaysNothing
BY DEF IInv, BybitInv

\* Nothing on the disk, in the log's counter or in the counters changes.
Still == UNCHANGED <<wal, ckpt, covered, published, last, inflight, segment, hwm, buffer, writerFailed,
                     degraded, blocked, walOnly, unconfirmed, lost, events, logged, row>>

LEMMA StillKeeps ==
  ASSUME IInv, Still
  PROVE  /\ CheckpointSound' /\ LogKept'
         /\ Pending' = Pending
BY PartsOf DEF Still, CheckpointSound, LogKept, Pending

\* A step from a call to the next, that only moves the place.
LEMMA MoveSafe ==
  ASSUME IInv, Still, UNCHANGED <<corrupt, logFailed, full, row, replay>>, phase # "down",
         \/ ReplayDone \/ Built \/ IdleTick \/ Reopened \/ CloseWriter \/ Shutdown
  PROVE  IInv'
<1>1. /\ TypeOK /\ CheckpointSound /\ LogKept /\ CountedDegraded
      /\ CounterAhead /\ ReplayFirst /\ RowPlaced /\ (~blocked => Held)
      /\ CountersHonest /\ CleanStopReplaysNothing
  BY PartsOf
<1>2. /\ phase' \in {"report", "replay", "build", "run", "stop", "raise"} /\ phase' # "down"
      /\ pc' \in {"idle", "write", "counted", "publish", "hook", "rollhook", "reopen", "rollopen"}
      /\ since' \in 0 .. events
  BY <1>1, Typed DEF ReplayDone, Built, IdleTick, Reopened, CloseWriter, Shutdown, TypeOK, past
<1>3. TypeOK'
  BY <1>1, <1>2 DEF TypeOK, Still
<1>4. CheckpointSound' /\ LogKept' /\ Pending' = Pending
  BY StillKeeps
<1>5. CountedDegraded'
  BY <1>1 DEF CountedDegraded, Still, ReplayDone, Built, IdleTick, Reopened, CloseWriter, Shutdown,
    Due
<1>6. CounterAhead'
  BY <1>1 DEF CounterAhead, Still
<1>7. ReplayFirst'
  BY <1>1 DEF ReplayFirst, Still, ReplayDone, Built, IdleTick, Reopened, CloseWriter, Shutdown
<1>a. /\ pc \in {"idle", "reopen", "rollopen"}
      /\ pc = "idle" => pc' \in {"idle", "publish"} /\ phase # "raise"
      /\ pc = "reopen" => pc' = "counted" /\ phase' = phase /\ since' = since
      /\ pc = "rollopen" => pc' = "write" /\ phase' = phase /\ since' = since
  BY DEF ReplayDone, Built, IdleTick, Reopened, CloseWriter, Shutdown, past
<1>b. pc = "idle" => row = NoRow /\ row.ev = 0 /\ row.seq = NoSeq
  BY <1>1, <1>a DEF RowPlaced, NoRow, Row
<1>c. 0 \notin published /\ 0 \notin buffer
  BY <1>1, Typed DEF TypeOK, Event
<1>8. RowPlaced'
  <2>1. CASE pc = "idle"
    BY <2>1, <1>a, <1>b, <1>c DEF RowPlaced, Writing, Still
  <2>2. CASE pc = "reopen"
    BY <2>2, <1>1, <1>a DEF RowPlaced, Writing, Still
  <2>3. CASE pc = "rollopen"
    BY <2>3, <1>1, <1>a DEF RowPlaced, Writing, Still
  <2> QED
    BY <1>a, <2>1, <2>2, <2>3
<1>9. ~blocked => Held'
  BY <1>1 DEF Held, Writing, Still, ReplayDone, Built, IdleTick, Reopened, CloseWriter, Shutdown
<1>d. /\ phase' \in {"run", "stop"} /\ phase \notin {"run", "stop"} => since' = events
      /\ phase \in {"run", "stop"} /\ phase' \in {"run", "stop"} => since' = since
      /\ pc = "counted" => FALSE
  BY <1>a DEF ReplayDone, Built, IdleTick, Reopened, CloseWriter, Shutdown, past
<1>e. row.ev = 0 \/ (pc = "reopen" => row.ev \in published)
  BY <1>1 DEF RowPlaced
<1>10. CountersHonest'
  <2>1. /\ (walOnly \cap (unconfirmed \cup lost) = {})' /\ (unconfirmed \cap lost = {})'
        /\ (\A e \in walOnly : \E r \in wal : /\ r.ev = e /\ r.seq > covered
                                             /\ (r.seq > ckpt \/ e \in published))'
        /\ (\A e \in lost : e \notin published /\ \A r \in logged : r.ev # e)'
    BY <1>1, <1>4 DEF CountersHonest, Still
  <2>2. ASSUME (phase \in {"run", "stop"})',
               NEW e \in ((since + 1 .. events) \ (IF pc = "counted" THEN {} ELSE {row.ev}))'
        PROVE  (e \in published \cup unconfirmed \cup lost \/ \E r \in Pending : r.ev = e)'
    <3>1. events \in Nat /\ events' = events /\ row' = row /\ e \in since' + 1 .. events
      BY <1>1, <2>2, Typed DEF Still
    <3>2. phase \in {"run", "stop"} /\ since' = since
      BY <1>d, <2>2, <3>1
    <3>3. CASE e = row.ev
      <4>1. pc = "reopen"
        BY <1>a, <1>b, <2>2, <3>1, <3>3
      <4> QED
        <5>1. since \in Nat
          BY <1>1, Typed
        <5>2. e # 0
          BY <3>1, <3>2, <5>1
        <5>3. e \in published'
          BY <1>e, <3>3, <4>1, <5>2 DEF Still
        <5> QED
          BY <5>3
    <3>4. CASE e # row.ev
      BY <3>1, <3>2, <3>4, <1>1, <1>4 DEF CountersHonest, Still
    <3> QED
      BY <3>3, <3>4
  <2> QED
    BY <2>1, <2>2 DEF CountersHonest
<1> QED
  BY <1>2, <1>3, <1>4, <1>5, <1>6, <1>7, <1>8, <1>9, <1>10
    DEF IInv, BybitInv, CleanStopReplaysNothing, Still
(***************************************************************************)
(* The constructor                                                         *)
(***************************************************************************)

\* A process that starts: its counter is ahead of the disk, the records above the
\* checkpoint are to be replayed.
LEMMA StartSafe ==
  ASSUME IInv, Start
  PROVE  IInv'
<1>1. /\ TypeOK /\ CheckpointSound /\ LogKept
  BY PartsOf
<1>2. /\ phase = "down" /\ pc' = "idle" /\ row' = NoRow /\ blocked' = corrupt
      /\ inflight' = {} /\ segment' = {} /\ hwm' = NoSeq /\ buffer' = {}
      /\ writerFailed' = FALSE /\ degraded' = FALSE /\ logFailed' = FALSE
      /\ walOnly' = {} /\ unconfirmed' = {} /\ lost' = {}
      /\ last' = Max({ckpt} \cup Seqs(wal)) /\ full' = (Cardinality(wal') >= Capacity)
      /\ covered' = ckpt
      /\ UNCHANGED <<ckpt, corrupt, published, events, since, logged>>
  BY DEF Start, Fresh, BlockedAtStart, past
<1>3. \/ phase' = "report" /\ replay' = {} /\ wal' = wal /\ corrupt
      \/ phase' = "replay" /\ replay' = Pending /\ wal' \in {wal, Pending} /\ ~corrupt
  <2>1. CASE corrupt
    BY <2>1 DEF Start
  <2>2. CASE ~corrupt
    BY <2>2 DEF Start
  <2> QED
    BY <2>1, <2>2
<1>4. Pending \subseteq wal /\ wal \subseteq logged /\ wal' \subseteq wal /\ replay' \subseteq wal'
  BY <1>1, <1>3 DEF Pending, TypeOK
<1>5. /\ last' \in {ckpt} \cup Seqs(wal) /\ ckpt <= last'
      /\ \A r \in wal : r.seq <= last'
  <2> DEFINE S == {ckpt} \cup Seqs(wal)
  <2>1. \A r \in wal : r.seq \in NoSeq .. MaxEvents
    BY <1>1, Typed DEF TypeOK
  <2>2. S \subseteq NoSeq .. MaxEvents /\ S # {}
    BY <1>1, <2>1 DEF Seqs, TypeOK
  <2>3. Max(S) \in S /\ \A n \in S : n <= Max(S)
    BY <2>2, Extremes
  <2>4. \A r \in wal : r.seq \in S
    BY DEF Seqs
  <2> QED
    BY <1>2, <2>3, <2>4
<1>6. last' \in NoSeq .. MaxEvents /\ last' < events
  <2>1. CASE last' = ckpt
    BY <2>1, <1>1 DEF TypeOK, LogKept
  <2>2. CASE last' # ckpt
    <3>1. PICK r \in wal : last' = r.seq
      BY <1>5, <2>2 DEF Seqs
    <3>2. r \in logged
      BY <1>4
    <3>3. r.seq < events
      BY <1>1, <3>2 DEF LogKept
    <3> QED
      BY <1>1, <3>1, <3>2, <3>3, Typed DEF TypeOK
  <2> QED
    BY <2>1, <2>2
<1>7. \A r \in logged : r.seq <= last' /\ (r.seq <= ckpt \/ r \in Pending)
  <2>1. \A r \in logged : r \in wal \/ r.seq <= ckpt
    BY <1>1 DEF LogKept
  <2> QED
    BY <1>1, <1>5, <1>6, <2>1, Typed DEF Pending
<1>8. row'.ev = 0 /\ row'.seq = -1 /\ row'.safe = FALSE /\ NoSeq = -1
      /\ row' \in [ev : 0 .. MaxEvents, seq : NoSeq .. MaxEvents, safe : BOOLEAN]
  BY <1>1, <1>2, Typed DEF NoRow, Row
<1>9. TypeOK'
  <2>1. full' \in BOOLEAN
    BY <1>2
  <2>2. hwm' \in NoSeq .. MaxEvents
    BY <1>1, <1>2, Typed
  <2> QED
    BY <1>1, <1>2, <1>3, <1>4, <1>6, <1>8, <2>1, <2>2 DEF TypeOK
<1>10. CheckpointSound' /\ LogKept'
  <2>1. \A r \in logged : r \in wal' \/ r.seq <= ckpt
    BY <1>3, <1>7, <1>1 DEF LogKept
  <2>2. 0 <= events
    BY <1>1, Typed
  <2> QED
    BY <1>1, <1>2, <1>8, <2>1, <2>2 DEF CheckpointSound, LogKept
<1>11. CountedDegraded' /\ CleanStopReplaysNothing'
  BY <1>2, <1>3 DEF CountedDegraded, CleanStopReplaysNothing
<1>12. CounterAhead'
  <2>1. \A r \in logged : r.seq # row'.seq /\ r.ev # row'.ev
    BY <1>1, <1>8, Typed
  <2>2. -1 <= last' /\ covered' <= ckpt'
    BY <1>1, <1>2, <1>6, <1>8, Typed
  <2>3. \A r \in logged : r.seq > ckpt => r \in wal'
    <3>1. \A r \in logged : r.seq \in Nat /\ ckpt \in Int
      BY <1>1, Typed
    <3> QED
      BY <1>3, <1>4, <1>7, <3>1
  <2> QED
    BY <1>2, <1>5, <1>6, <1>7, <1>8, <2>1, <2>2, <2>3 DEF CounterAhead
<1>13. ReplayFirst' /\ RowPlaced'
  <2>1. \A r \in Pending : ckpt < r.seq /\ -1 < r.seq
    BY <1>1, <1>4, Typed DEF Pending
  <2> QED
    BY <1>2, <1>3, <1>8, <2>1 DEF ReplayFirst, RowPlaced, Writing
<1>14. ~blocked' => Held'
  <2>1. ~blocked' => phase' = "replay" /\ replay' = Pending
    BY <1>2, <1>3
  <2>2. \A r \in logged : r.ev \in published \/ r \in Pending
    BY <1>1, <1>7 DEF CheckpointSound
  <2>3. -1 <= ckpt
    BY <1>1, <1>8 DEF TypeOK
  <2> QED
    BY <1>2, <1>7, <1>8, <2>1, <2>2, <2>3 DEF Held
<1>15. CountersHonest'
  BY <1>2, <1>3 DEF CountersHonest
<1> QED
  BY <1>2, <1>9, <1>10, <1>11, <1>12, <1>13, <1>14, <1>15 DEF IInv, BybitInv

\* One recovered record enters the call, the earliest: it lies above all that is held.
LEMMA ReplayNextSafe ==
  ASSUME IInv, ReplayNext
  PROVE  IInv'
<1>0. phase = "replay" /\ pc = "idle" /\ pc' = "write" /\ phase' = phase
      /\ UNCHANGED <<wal, ckpt, corrupt, published, last, covered, logFailed, full, segment, hwm, blocked,
                     buffer, writerFailed, degraded, walOnly, unconfirmed, lost, events, since,
                     logged>>
  BY DEF ReplayNext, disk, journal, writer, counts, past
<1>1. /\ TypeOK /\ CheckpointSound /\ LogKept /\ CountedDegraded
      /\ CounterAhead /\ ReplayFirst /\ RowPlaced /\ (~blocked => Held)
      /\ CountersHonest /\ CleanStopReplaysNothing
  BY <1>0, PartsOf
<1>2. PICK r \in replay : /\ Earliest(r)
                          /\ replay' = replay \ {r} /\ inflight' = inflight \cup {r.seq}
                          /\ row' = Row(r.ev, r.seq, TRUE)
  BY DEF ReplayNext
<1>3. row'.ev = r.ev /\ row'.seq = r.seq /\ row'.safe = TRUE
  BY <1>2 DEF Row
<1>4. /\ r \in logged /\ r = Rec(r.ev, r.seq) /\ r.seq \in Nat /\ r.ev \in Nat /\ r.ev # 0
      /\ r.seq \in 0 .. MaxEvents /\ r.ev \in Event
      /\ r.seq <= last /\ r.ev <= events /\ ckpt < r.seq /\ hwm < r.seq
      /\ \A n \in inflight : n < r.seq
      /\ \A s \in logged : s.seq = r.seq => s = r
  <2>1. r \in logged /\ r \in [seq : 0 .. MaxEvents, ev : Event]
    BY <1>1 DEF TypeOK
  <2>2. /\ ckpt < r.seq /\ hwm < r.seq /\ \A n \in inflight : n < r.seq
    BY <1>1 DEF ReplayFirst
  <2>3. r.seq <= last
    BY <1>1, <2>1 DEF CounterAhead
  <2>4. r.ev <= events /\ \A s \in logged : s.seq = r.seq => s = r
    BY <1>1, <2>1 DEF LogKept
  <2> QED
    BY <1>1, <2>1, <2>2, <2>3, <2>4, Typed
<1>5. TypeOK'
  <2>1. row' \in [ev : 0 .. MaxEvents, seq : NoSeq .. MaxEvents, safe : BOOLEAN]
    BY <1>1, <1>2, <1>4, Typed DEF Row, Event
  <2>2. inflight' \subseteq 0 .. MaxEvents /\ replay' \subseteq wal
    BY <1>1, <1>2, <1>4 DEF TypeOK
  <2> QED
    BY <1>0, <1>1, <2>1, <2>2 DEF TypeOK
<1>6. CheckpointSound' /\ LogKept' /\ Pending' = Pending
  BY <1>0, <1>1, <1>3, <1>4 DEF CheckpointSound, LogKept, Pending
<1>7. CountedDegraded' /\ CleanStopReplaysNothing'
  BY <1>0, <1>1 DEF CountedDegraded, CleanStopReplaysNothing
<1>8. CounterAhead'
  <2>1. segment \subseteq inflight'
    BY <1>1, <1>2 DEF CounterAhead
  <2>2. \A n \in inflight' : n <= last
    BY <1>1, <1>2, <1>4 DEF CounterAhead
  <2>3. \A s \in logged : s.seq = r.seq => s.ev = r.ev
    BY <1>4
  <2>4. r.seq # NoSeq
    BY <1>1, <1>4, Typed
  <2> QED
    BY <1>0, <1>1, <1>3, <1>4, <2>1, <2>2, <2>3, <2>4 DEF CounterAhead
<1>9. ReplayFirst'
  <2>1. \A s \in replay \ {r} : r.seq < s.seq
    <3>1. TAKE s \in replay \ {r}
    <3>2. s \in logged /\ r.seq <= s.seq
      BY <1>1, <1>2 DEF Earliest, TypeOK
    <3>3. s.seq # r.seq
      BY <1>4, <3>2
    <3> QED
      BY <1>1, <1>4, <3>2, <3>3, Typed
  <2>2. \A s \in replay : ckpt < s.seq /\ hwm < s.seq /\ \A n \in inflight : n < s.seq
    BY <1>1 DEF ReplayFirst
  <2> QED
    BY <1>0, <1>2, <1>3, <2>1, <2>2 DEF ReplayFirst
<1>10. RowPlaced'
  <2>1. r.seq \notin segment /\ r.seq \in inflight'
    <3>1. r.seq \notin inflight
      BY <1>1, <1>4, Typed
    <3> QED
      BY <1>1, <1>2, <3>1 DEF CounterAhead
  <2> QED
    BY <1>0, <1>3, <1>4, <2>1 DEF RowPlaced, Writing
<1>11. ~blocked' => Held'
  <2> SUFFICES ASSUME ~blocked PROVE Held'
    BY <1>0
  <2>1. Held
    BY <1>1
  <2>2. \A s \in logged : s \in replay => s \in replay' \/ s.seq \in inflight'
    BY <1>2
  <2>3. inflight \subseteq inflight' /\ inflight' # {}
    BY <1>2
  <2>4. inflight \subseteq segment
    BY <1>0, <2>1 DEF Held, Writing
  <2>5. inflight' \subseteq segment' \cup (IF Writing' THEN {row'.seq} ELSE {})
    BY <1>0, <1>2, <1>3, <2>4 DEF Writing
  <2>6. segment # {} => buffer # {}
    BY <1>0, <2>1 DEF Held
  <2>7. \A s \in logged : s.seq \in segment => s.ev \in published \cup buffer
    BY <2>1 DEF Held
  <2>8. \A s \in logged : s.ev \in published \/ s.seq \in inflight' \/ s \in replay'
    BY <2>1, <2>2, <2>3 DEF Held
  <2>9. \A s \in logged : s.seq <= ckpt \/ s.seq <= hwm \/ s.seq \in inflight' \/ s \in replay'
    BY <2>1, <2>2, <2>3 DEF Held
  <2>10. covered = ckpt
    BY <2>1 DEF Held
  <2> QED
    BY <1>0, <2>3, <2>5, <2>6, <2>7, <2>8, <2>9, <2>10 DEF Held
<1>12. CountersHonest'
  BY <1>0, <1>1, <1>6 DEF CountersHonest
<1> QED
  BY <1>0, <1>5, <1>6, <1>7, <1>8, <1>9, <1>10, <1>11, <1>12 DEF IInv, BybitInv

(***************************************************************************)
(* A call                                                                  *)
(***************************************************************************)

\* The call returns: the event in hand was accounted for before.
LEMMA CountedSafe ==
  ASSUME IInv, Counted, phase # "down"
  PROVE  IInv'
<1>0. /\ pc = "counted" /\ pc' = "idle" /\ row' = NoRow
      /\ phase' = (IF phase = "report" THEN "replay" ELSE phase)
      /\ UNCHANGED <<wal, ckpt, corrupt, published, last, covered, logFailed, full, replay, inflight,
                     segment, hwm, blocked, buffer, writerFailed, degraded, walOnly, unconfirmed,
                     lost, events, since, logged>>
  BY DEF Counted, disk, journal, check, writer, counts, past
<1>1. /\ TypeOK /\ CheckpointSound /\ LogKept /\ CountedDegraded
      /\ CounterAhead /\ ReplayFirst /\ RowPlaced /\ (~blocked => Held)
      /\ CountersHonest /\ CleanStopReplaysNothing
  BY PartsOf
<1>2. row'.ev = 0 /\ row'.seq = -1 /\ row'.safe = FALSE /\ NoSeq = -1 /\ phase' # "down"
      /\ row' \in [ev : 0 .. MaxEvents, seq : NoSeq .. MaxEvents, safe : BOOLEAN]
  BY <1>0, <1>1, Typed DEF NoRow, Row
<1>3. phase' \in {"down", "report", "replay", "build", "run", "stop", "raise"}
  BY <1>0, <1>1 DEF TypeOK
<1>4. TypeOK'
  BY <1>0, <1>1, <1>2, <1>3 DEF TypeOK
<1>5. CheckpointSound' /\ LogKept' /\ Pending' = Pending
  <2>1. 0 <= events
    BY <1>1, Typed
  <2> QED
    BY <1>0, <1>1, <1>2, <2>1 DEF CheckpointSound, LogKept, Pending
<1>6. CountedDegraded' /\ CleanStopReplaysNothing'
  BY <1>0, <1>1, <1>2 DEF CountedDegraded, CleanStopReplaysNothing
<1>7. CounterAhead'
  <2>1. \A r \in logged : r.seq # -1 /\ r.ev # 0
    BY <1>1, <1>2, Typed
  <2>2. -1 <= last
    BY <1>1, <1>2 DEF TypeOK
  <2> QED
    BY <1>0, <1>1, <1>2, <2>1, <2>2 DEF CounterAhead
<1>8. ReplayFirst'
  <2>1. \A r \in replay : -1 < r.seq
    BY <1>1, Typed DEF TypeOK
  <2> QED
    BY <1>0, <1>1, <1>2, <2>1 DEF ReplayFirst
<1>9. RowPlaced'
  BY <1>0, <1>2 DEF RowPlaced, Writing
<1>10. ~blocked' => Held'
  BY <1>0, <1>1 DEF Held, Writing
<1>11. CountersHonest'
  <2>1. phase' \in {"run", "stop"} => phase \in {"run", "stop"}
    BY <1>0
  <2> QED
    BY <1>0, <1>1, <1>5, <2>1 DEF CountersHonest
<1> QED
  BY <1>2, <1>4, <1>5, <1>6, <1>7, <1>8, <1>9, <1>10, <1>11 DEF IInv, BybitInv

\* A row enters the segment: its number is claimed with it, and a row that waits there
\* has a record in the log.
LEMMA WriteRowSafe ==
  ASSUME IInv, WriteRow, phase # "down"
  PROVE  IInv'
<1>0. /\ pc = "write" /\ ~writerFailed
      /\ buffer' = buffer \cup {row.ev} /\ segment' = segment \cup ({row.seq} \ {NoSeq})
      /\ pc' = "publish" \/ (row.safe /\ pc' = "counted")
      /\ UNCHANGED <<wal, ckpt, corrupt, published, last, covered, logFailed, full, phase, row, replay,
                     inflight, hwm, blocked, writerFailed, degraded, walOnly, unconfirmed,
                     lost, events, since, logged>>
  BY DEF WriteRow, disk, journal, counts, past
<1>1. /\ TypeOK /\ CheckpointSound /\ LogKept /\ CountedDegraded
      /\ CounterAhead /\ ReplayFirst /\ RowPlaced /\ (~blocked => Held)
      /\ CountersHonest /\ CleanStopReplaysNothing
  BY PartsOf
<1>2. /\ row.ev # 0 /\ row.ev \in Event /\ row.ev <= events /\ NoSeq = -1
      /\ row.seq # NoSeq => row.seq \in inflight /\ ckpt < row.seq
      /\ phase # "replay" => row.ev \notin published
  <2>1. row.ev # 0 /\ (row.seq # NoSeq => row.seq \in inflight /\ ckpt < row.seq)
        /\ (phase # "replay" => row.ev \notin published)
    BY <1>0, <1>1 DEF RowPlaced, Writing
  <2>2. row.ev \in Event
    BY <1>1, <2>1, Typed DEF TypeOK, Event
  <2>3. row.ev <= events
    BY <1>1 DEF LogKept
  <2> QED
    BY <1>1, <2>1, <2>2, <2>3, Typed
<1>3. segment' \subseteq inflight /\ segment' \subseteq 0 .. MaxEvents
  BY <1>0, <1>1, <1>2 DEF CounterAhead, TypeOK
<1>4. TypeOK'
  <2>1. pc' \in {"idle", "write", "counted", "publish", "hook", "rollhook", "reopen", "rollopen"}
        /\ buffer' \subseteq Event
    BY <1>0, <1>1, <1>2 DEF TypeOK
  <2> QED
    BY <1>0, <1>1, <1>3, <2>1 DEF TypeOK
<1>5. CheckpointSound' /\ LogKept' /\ Pending' = Pending
  BY <1>0, <1>1, <1>2 DEF CheckpointSound, LogKept, Pending
<1>6. ~degraded /\ CountedDegraded' /\ CleanStopReplaysNothing'
  BY <1>0, <1>1 DEF CountedDegraded, CleanStopReplaysNothing
<1>7. CounterAhead' /\ ReplayFirst'
  BY <1>0, <1>1, <1>3 DEF CounterAhead, ReplayFirst
<1>8. RowPlaced'
  BY <1>0, <1>1, <1>2 DEF RowPlaced, Writing
<1>9. ~blocked' => Held'
  <2> SUFFICES ASSUME ~blocked PROVE Held'
    BY <1>0
  <2>1. Held
    BY <1>1
  <2>2. \A r \in logged : r.seq = row.seq => r.ev = row.ev
    BY <1>1 DEF CounterAhead
  <2>3. \A r \in logged : r.seq \in segment' => r.ev \in published \cup buffer'
    BY <1>0, <2>1, <2>2 DEF Held
  <2>4. inflight \subseteq segment'
    <3>1. inflight \subseteq segment \cup {row.seq} /\ NoSeq \notin inflight
      BY <1>0, <1>1, <1>2, <2>1, Typed DEF Held, Writing
    <3> QED
      BY <1>0, <3>1
  <2> QED
    BY <1>0, <2>1, <2>3, <2>4 DEF Held
<1>10. CountersHonest'
  <2>1. row.safe => \E r \in Pending : r.ev = row.ev
    <3>1. SUFFICES ASSUME row.safe PROVE \E r \in Pending : r.ev = row.ev
      OBVIOUS
    <3>2. Rec(row.ev, row.seq) \in logged
      BY <1>1, <3>1 DEF CounterAhead
    <3>3. Rec(row.ev, row.seq).seq = row.seq /\ Rec(row.ev, row.seq).ev = row.ev
      BY DEF Rec
    <3>4. row.seq # NoSeq
      BY <1>1, <1>2, <3>2, <3>3, Typed
    <3>5. ckpt < row.seq /\ ckpt \in Int /\ row.seq \in Int
      BY <1>1, <1>2, <3>4, Typed
    <3>6. Rec(row.ev, row.seq) \in wal
      BY <1>1, <3>2, <3>3, <3>5 DEF LogKept
    <3> QED
      BY <3>3, <3>5, <3>6 DEF Pending
  <2>2. ASSUME (phase \in {"run", "stop"})',
               NEW e \in ((since + 1 .. events) \ (IF pc = "counted" THEN {} ELSE {row.ev}))'
        PROVE  (e \in published \cup unconfirmed \cup lost \/ \E r \in Pending : r.ev = e)'
    <3>1. CASE e = row.ev
      BY <1>0, <1>5, <2>1, <2>2, <3>1
    <3>2. CASE e # row.ev
      BY <1>0, <1>1, <1>5, <2>2, <3>2 DEF CountersHonest
    <3> QED
      BY <3>1, <3>2
  <2> QED
    BY <1>0, <1>1, <1>5, <2>2 DEF CountersHonest
<1> QED
  BY <1>0, <1>4, <1>5, <1>6, <1>7, <1>8, <1>9, <1>10 DEF IInv, BybitInv
(***************************************************************************)
(* Publication and the checkpoint                                          *)
(***************************************************************************)

\* The open segment is published: what it claims is in a published segment.
LEMMA PublishSafe ==
  ASSUME IInv, Publish, phase # "down"
  PROVE  IInv'
<1>0. /\ ~writerFailed /\ published' = published \cup buffer /\ buffer' = {}
      /\ (pc = "publish" /\ pc' = "hook") \/ (pc = "write" /\ buffer # {} /\ pc' = "rollhook")
      /\ UNCHANGED <<wal, ckpt, corrupt, last, covered, logFailed, full, phase, row, replay, inflight,
                     segment, hwm, blocked, writerFailed, degraded, walOnly, unconfirmed, lost,
                     events, since, logged>>
  BY DEF Publish, journal, check, counts, past
<1>1. /\ TypeOK /\ CheckpointSound /\ LogKept /\ CountedDegraded
      /\ CounterAhead /\ ReplayFirst /\ RowPlaced /\ (~blocked => Held)
      /\ CountersHonest /\ CleanStopReplaysNothing
  BY PartsOf
<1>2. TypeOK'
  <2>1. pc' \in {"idle", "write", "counted", "publish", "hook", "rollhook", "reopen", "rollopen"}
        /\ published' \subseteq Event /\ buffer' \subseteq Event
    BY <1>0, <1>1 DEF TypeOK
  <2> QED
    BY <1>0, <1>1, <2>1 DEF TypeOK
<1>3. CheckpointSound' /\ LogKept' /\ Pending' = Pending
  BY <1>0, <1>1 DEF CheckpointSound, LogKept, Pending
<1>4. ~degraded /\ walOnly = {} /\ unconfirmed = {} /\ lost = {}
  BY <1>0, <1>1 DEF CountedDegraded
<1>5. CountedDegraded' /\ CleanStopReplaysNothing'
  BY <1>0, <1>1, <1>4 DEF CountedDegraded, CleanStopReplaysNothing
<1>6. CounterAhead' /\ ReplayFirst'
  BY <1>0, <1>1 DEF CounterAhead, ReplayFirst
<1>7. RowPlaced'
  BY <1>0, <1>1 DEF RowPlaced, Writing
<1>8. ~blocked' => Held'
  BY <1>0, <1>1 DEF Held, Writing
<1>9. CountersHonest'
  <2>1. (IF pc = "counted" THEN {} ELSE {row.ev}) = (IF pc = "counted" THEN {} ELSE {row.ev})'
    BY <1>0
  <2> QED
    BY <1>0, <1>1, <1>3, <1>4, <2>1 DEF CountersHonest
<1> QED
  BY <1>0, <1>2, <1>3, <1>5, <1>6, <1>7, <1>8, <1>9 DEF IInv, BybitInv

\* Where a target lies: below what is in flight, and behind what was published.
TargetIn(flying, high, target) ==
  /\ high \in NoSeq .. MaxEvents /\ target \in NoSeq .. MaxEvents
  /\ hwm <= high /\ high <= last /\ target <= last
  /\ \A n \in segment : n <= high
  /\ \A n \in flying : target < n
  /\ \A r \in replay : high < r.seq /\ target < r.seq
  /\ flying = {} => target = high

\* The checkpoint a published segment asks for lies below everything that is not published:
\* what is in flight beside it, and what is still to be replayed.
LEMMA TargetSafe ==
  ASSUME TypeOK, CounterAhead, ReplayFirst,
         NEW flying, flying = inflight \ segment,
         NEW high, high = IF segment = {} THEN hwm ELSE Max(segment \cup {hwm}),
         NEW target, target = Target(flying, high)
  PROVE  TargetIn(flying, high, target)
<1>1. /\ MaxEvents \in Nat /\ NoSeq = -1 /\ hwm \in Int /\ last \in Int
      /\ \A n \in inflight : n \in Nat
      /\ \A r \in replay : r.seq \in Int
  BY Typed DEF TypeOK
<1>2. high \in segment \cup {hwm} /\ hwm <= high /\ \A n \in segment : n <= high
  <2>1. CASE segment = {}
    BY <1>1, <2>1
  <2>2. CASE segment # {}
    <3>1. PICK S : S = segment \cup {hwm}
      OBVIOUS
    <3>2. S \subseteq NoSeq .. MaxEvents /\ S # {}
      <4>1. \A n \in segment : n \in NoSeq .. MaxEvents
        BY <1>1 DEF TypeOK
      <4>2. hwm \in NoSeq .. MaxEvents
        BY DEF TypeOK
      <4> QED
        BY <3>1, <4>1, <4>2
    <3>3. Max(S) \in S /\ \A n \in S : n <= Max(S)
      BY <3>2, Extremes
    <3>4. high = Max(S)
      BY <2>2, <3>1
    <3> QED
      BY <3>1, <3>3, <3>4
  <2> QED
    BY <2>1, <2>2
<1>3. high \in NoSeq .. MaxEvents /\ high <= last
  BY <1>1, <1>2 DEF TypeOK, CounterAhead
<1>4. \A r \in replay : high < r.seq
  BY <1>2 DEF ReplayFirst, CounterAhead
<1>5. CASE flying = {}
  <2>1. target = high
    BY <1>5 DEF Target
  <2> QED
    BY <1>2, <1>3, <1>4, <1>5, <2>1 DEF TargetIn
<1>6. CASE flying # {}
  <2>1. flying \subseteq NoSeq .. MaxEvents /\ flying \subseteq inflight
    BY <1>1 DEF TypeOK
  <2>2. PICK low : low = Min(flying)
    OBVIOUS
  <2>3. low \in flying /\ \A n \in flying : low <= n
    BY <1>6, <2>1, <2>2, Extremes
  <2>4. target = low - 1
    BY <1>6, <2>2 DEF Target
  <2>5. low \in inflight /\ low \in Nat /\ low <= MaxEvents /\ low <= last
    BY <1>1, <2>1, <2>3 DEF TypeOK, CounterAhead
  <2>6. \A n \in flying : n \in Nat
    BY <1>1, <2>1
  <2>7. \A n \in flying : target < n
    BY <2>3, <2>4, <2>5, <2>6
  <2>8. \A r \in replay : target < r.seq
    BY <1>1, <2>4, <2>5 DEF ReplayFirst
  <2>9. target \in NoSeq .. MaxEvents /\ target <= last
    BY <1>1, <2>4, <2>5
  <2> QED
    BY <1>2, <1>3, <1>4, <1>6, <2>7, <2>8, <2>9 DEF TargetIn
<1> QED
  BY <1>5, <1>6

\* The checkpoint moves over published events alone.
LEMMA DurableHookSafe ==
  ASSUME IInv, DurableHook, phase # "down"
  PROVE  IInv'
<1>1. /\ TypeOK /\ CheckpointSound /\ LogKept /\ CountedDegraded
      /\ CounterAhead /\ ReplayFirst /\ RowPlaced /\ (~blocked => Held)
      /\ CountersHonest /\ CleanStopReplaysNothing
  BY PartsOf
<1>2. PICK flying, high, target :
        /\ flying = inflight \ segment
        /\ high = IF segment = {} THEN hwm ELSE Max(segment \cup {hwm})
        /\ target = Target(flying, high)
  OBVIOUS
<1>3. /\ pc \in {"hook", "rollhook"} /\ inflight' = flying /\ segment' = {} /\ hwm' = high
      /\ UNCHANGED <<corrupt, published, last, logFailed, full, phase, row, replay, buffer,
                     writerFailed, degraded, walOnly, unconfirmed, lost, events, since, logged>>
      /\ pc = "rollhook" => pc' \in {"write", "rollopen"}
      /\ pc = "hook" => pc' \in {"counted", "reopen"}
  BY <1>2 DEF DurableHook, writer, counts
<1>a. /\ ~blocked => covered = ckpt
      /\ covered \in Int /\ ckpt \in Int /\ covered <= ckpt
      /\ \A r \in logged : r.seq > covered => r \in wal
  BY <1>1, Typed DEF Held, CounterAhead, TypeOK
<1>b. PICK moves : moves = (~blocked /\ high # NoSeq /\ target > covered)
  OBVIOUS
<1>c. \/ /\ moves /\ ckpt' = target /\ covered' = target /\ blocked' = blocked
         /\ wal' \in {wal, {r \in wal : r.seq > target}}
      \/ /\ moves /\ ckpt' \in {ckpt, target} /\ blocked' = TRUE /\ wal' = wal
         /\ covered' = covered
      \/ /\ ~moves /\ ckpt' = ckpt /\ covered' = covered /\ blocked' = blocked /\ wal' = wal
  BY <1>2, <1>b DEF DurableHook
<1>4. \/ /\ ckpt' = IF ~blocked /\ high # NoSeq /\ target > ckpt THEN target ELSE ckpt
         /\ wal' \in {wal, {r \in wal : r.seq > ckpt'}} /\ blocked' = blocked
      \/ /\ ~blocked /\ target > ckpt /\ ckpt' \in {ckpt, target} /\ blocked' = TRUE
         /\ wal' = wal
  BY <1>a, <1>b, <1>c
<1>5. /\ high \in NoSeq .. MaxEvents /\ target \in NoSeq .. MaxEvents
      /\ hwm <= high /\ high <= last /\ target <= last
      /\ \A n \in segment : n <= high
      /\ \A n \in flying : target < n
      /\ \A r \in replay : high < r.seq /\ target < r.seq
      /\ flying = {} => target = high
  <2>1. flying = inflight \ segment
    BY <1>2
  <2>2. high = IF segment = {} THEN hwm ELSE Max(segment \cup {hwm})
    BY <1>2
  <2>3. target = Target(flying, high)
    BY <1>2
  <2>4. TypeOK /\ CounterAhead /\ ReplayFirst
    BY <1>1
  <2>5. TargetIn(flying, high, target)
    BY <2>1, <2>2, <2>3, <2>4, TargetSafe
  <2> QED
    BY <2>5 DEF TargetIn
<1>6. NoSeq = -1 /\ ckpt \in Int /\ high \in Int /\ target \in Int /\ last \in Int /\ events \in Nat
      /\ hwm \in Int
  BY <1>1, <1>5, Typed
<1>7. /\ ckpt' = ckpt \/ (~blocked /\ ckpt' = target /\ ckpt < target)
      /\ ckpt' \in NoSeq .. MaxEvents /\ ckpt <= ckpt' /\ ckpt' <= last
      /\ ~blocked' => ~blocked
  <2>1. ckpt' = ckpt \/ (~blocked /\ ckpt' = target /\ ckpt < target)
    BY <1>4, <1>6
  <2>2. ~blocked' => ~blocked
    BY <1>4
  <2>3. ckpt \in NoSeq .. MaxEvents /\ ckpt <= last
    BY <1>1 DEF TypeOK, CounterAhead
  <2> QED
    BY <1>5, <1>6, <2>1, <2>2, <2>3
<1>8. buffer = {} /\ ~degraded /\ walOnly = {} /\ unconfirmed = {} /\ lost = {}
  BY <1>1, <1>3 DEF RowPlaced, CountedDegraded
<1>9. \A r \in logged : r.seq <= ckpt' => r.ev \in published
  <2> SUFFICES ASSUME NEW r \in logged, r.seq <= ckpt', r.ev \notin published
               PROVE  FALSE
    OBVIOUS
  <2>1. r.seq \in Nat
    BY <1>1, Typed
  <2>2. ckpt' # ckpt
    BY <1>1 DEF CheckpointSound
  <2>3. ~blocked /\ ckpt' = target
    BY <1>7, <2>2
  <2>4. r.seq \in inflight \/ r \in replay
    BY <1>1, <2>3 DEF Held
  <2>5. r.seq \notin segment
    BY <1>1, <1>8, <2>3 DEF Held
  <2>6. r.seq \in flying \/ r \in replay
    BY <1>2, <2>4, <2>5
  <2>7. target < r.seq
    BY <1>5, <2>6
  <2> QED
    BY <1>6, <2>1, <2>3, <2>7
<1>10. /\ wal' \subseteq wal
       /\ \A r \in wal : r \in wal' \/ r.seq <= ckpt'
  <2>1. \A r \in wal : r.seq \in Nat
    BY <1>1, Typed DEF TypeOK
  <2> QED
    BY <1>4, <1>6, <1>7, <2>1
<1>11. \A r \in replay : ckpt' < r.seq /\ high < r.seq
  BY <1>1, <1>5, <1>7 DEF ReplayFirst
<1>12. replay \subseteq wal'
  <2>1. \A r \in replay : r \in wal /\ r.seq \in Nat
    BY <1>1, Typed DEF TypeOK
  <2> QED
    BY <1>6, <1>7, <1>10, <1>11, <2>1
<1>d. /\ covered' \in NoSeq .. MaxEvents /\ covered' <= ckpt'
      /\ \A r \in logged : r.seq > covered' => r \in wal'
      /\ ~blocked' => covered' = ckpt'
  <2>1. covered \in NoSeq .. MaxEvents
    BY <1>1 DEF TypeOK
  <2>2. \A r \in logged : r.seq \in Nat
    BY <1>1, Typed
  <2>3. CASE /\ moves /\ ckpt' = target /\ covered' = target
             /\ wal' \in {wal, {r \in wal : r.seq > target}}
    <3>0. covered < target /\ covered \in Int /\ target \in Int
      BY <1>6, <1>a, <1>b, <2>3
    <3>1. \A r \in logged : r.seq > target => r.seq > covered
      BY <2>2, <3>0
    <3>2. \A r \in logged : r.seq > target => r \in wal'
      BY <1>a, <2>3, <3>1
    <3> QED
      BY <1>5, <1>6, <2>3, <3>2
  <2>4. CASE covered' = covered /\ wal' = wal /\ (blocked' = TRUE \/ (ckpt' = ckpt /\ blocked' = blocked))
    BY <1>6, <1>7, <1>a, <2>1, <2>4
  <2> QED
    BY <1>c, <2>3, <2>4
<1>13. TypeOK'
  <2>1. inflight' \subseteq 0 .. MaxEvents /\ segment' \subseteq 0 .. MaxEvents
    BY <1>1, <1>2, <1>3 DEF TypeOK
  <2>2. blocked' \in BOOLEAN
    BY <1>1, <1>4 DEF TypeOK
  <2>3. pc' \in {"idle", "write", "counted", "publish", "hook", "rollhook", "reopen", "rollopen"}
    BY <1>3
  <2>4. wal' \subseteq logged
    BY <1>1, <1>10 DEF TypeOK
  <2> QED
    BY <1>1, <1>3, <1>5, <1>7, <1>12, <1>d, <2>1, <2>2, <2>3, <2>4 DEF TypeOK
<1>14. CheckpointSound'
  BY <1>3, <1>9 DEF CheckpointSound
<1>15. LogKept'
  <2>1. \A r \in logged : r \in wal' \/ r.seq <= ckpt'
    <3>1. TAKE r \in logged
    <3>2. r \in wal \/ r.seq <= ckpt
      BY <1>1 DEF LogKept
    <3>3. r.seq \in Nat
      BY <1>1, Typed
    <3> QED
      BY <1>6, <1>7, <1>10, <3>2, <3>3
  <2>2. ckpt' < events
    BY <1>1, <1>6, <1>7 DEF CounterAhead
  <2> QED
    BY <1>1, <1>3, <2>1, <2>2 DEF LogKept
<1>16. CountedDegraded' /\ CleanStopReplaysNothing'
  BY <1>1, <1>3, <1>4, <1>8 DEF CountedDegraded, CleanStopReplaysNothing
<1>17. CounterAhead'
  <2>1. \A n \in inflight' : n <= last
    BY <1>1, <1>2, <1>3 DEF CounterAhead
  <2> QED
    BY <1>1, <1>3, <1>5, <1>7, <1>d, <2>1 DEF CounterAhead
<1>18. ReplayFirst'
  <2>1. inflight' \subseteq inflight
    BY <1>2, <1>3
  <2> QED
    BY <1>1, <1>3, <1>11, <2>1 DEF ReplayFirst
<1>19. RowPlaced'
  <2>1. CASE pc = "hook"
    BY <1>1, <1>3, <2>1 DEF RowPlaced, Writing
  <2>2. CASE pc = "rollhook"
    <3>1. /\ row.ev # 0 /\ (phase # "replay" => row.ev \notin published \cup buffer)
          /\ row.seq # NoSeq => row.seq \in flying /\ ckpt < row.seq
      BY <1>1, <1>2, <2>2 DEF RowPlaced, Writing
    <3>2. row.seq # NoSeq => ckpt' < row.seq
      BY <1>5, <1>7, <3>1
    <3> QED
      BY <1>3, <2>2, <3>1, <3>2 DEF RowPlaced, Writing
  <2> QED
    BY <1>3, <2>1, <2>2
<1>20. ~blocked' => Held'
  <2> SUFFICES ASSUME ~blocked' PROVE Held'
    OBVIOUS
  <2>1. Held /\ ~blocked
    BY <1>1, <1>7
  <2>2. ckpt' = IF high # NoSeq /\ target > ckpt THEN target ELSE ckpt
    BY <1>4, <2>1
  <2>3. flying = {} => high <= ckpt'
    <3>1. -1 <= ckpt
      BY <1>1, <1>6 DEF TypeOK
    <3> QED
      BY <1>5, <1>6, <2>2, <3>1
  <2>4. \A r \in logged : r.ev \in published \/ r.seq \in flying \/ r \in replay
    BY <1>2, <1>8, <2>1 DEF Held
  <2>5. \A r \in logged : r.seq <= ckpt' \/ r.seq <= high \/ r.seq \in flying \/ r \in replay
    <3>1. TAKE r \in logged
    <3>2. r.seq \in Nat
      BY <1>1, Typed
    <3>3. r.seq <= ckpt \/ r.seq <= hwm \/ r.seq \in inflight \/ r \in replay
      BY <2>1 DEF Held
    <3>4. ckpt <= ckpt' /\ hwm <= high /\ ckpt' \in Int
      BY <1>5, <1>6, <1>7
    <3>5. CASE r.seq \in inflight
      BY <1>2, <1>5, <3>5
    <3>6. CASE r.seq \notin inflight
      BY <1>6, <3>2, <3>3, <3>4, <3>6
    <3> QED
      BY <3>5, <3>6
  <2>6. inflight' \subseteq segment' \cup (IF Writing' THEN {row'.seq} ELSE {})
    <3>1. inflight \subseteq segment \cup (IF Writing THEN {row.seq} ELSE {})
      BY <2>1 DEF Held
    <3>2. CASE pc = "hook"
      BY <1>2, <1>3, <3>1, <3>2 DEF Writing
    <3>3. CASE pc = "rollhook"
      BY <1>2, <1>3, <3>1, <3>3 DEF Writing
    <3> QED
      BY <1>3, <3>2, <3>3
  <2> QED
    BY <1>3, <1>d, <2>3, <2>4, <2>5, <2>6 DEF Held
<1>21. CountersHonest'
  <2>1. ASSUME (phase \in {"run", "stop"})',
               NEW e \in ((since + 1 .. events) \ (IF pc = "counted" THEN {} ELSE {row.ev}))'
        PROVE  (e \in published \cup unconfirmed \cup lost \/ \E r \in Pending : r.ev = e)'
    <3>1. CASE e = row.ev
      <4>1. pc = "hook"
        BY <1>3, <2>1, <3>1
      <4>2. e \in Nat /\ e # 0
        <5>1. since \in Nat /\ events \in Nat
          BY <1>1, Typed
        <5> QED
          BY <1>3, <2>1, <5>1
      <4> QED
        BY <1>1, <1>3, <3>1, <4>1, <4>2 DEF RowPlaced
    <3>2. CASE e # row.ev
      <4>1. e \in published \/ \E r \in Pending : r.ev = e
        BY <1>1, <1>3, <1>8, <2>1, <3>2 DEF CountersHonest
      <4>2. ASSUME NEW r \in Pending, r.ev = e
            PROVE  e \in published \/ r \in Pending'
        <5>1. r \in wal /\ r \in logged /\ r.seq \in Nat
          BY <1>1, Typed DEF Pending, TypeOK
        <5>2. ckpt' \in Int
          BY <1>6, <1>7
        <5>3. CASE r.seq <= ckpt'
          BY <1>9, <4>2, <5>1, <5>3
        <5>4. CASE ~(r.seq <= ckpt')
          BY <1>10, <5>1, <5>2, <5>4 DEF Pending
        <5> QED
          BY <5>3, <5>4
      <4> QED
        BY <1>3, <4>1, <4>2
    <3> QED
      BY <3>1, <3>2
  <2> QED
    BY <1>3, <1>8, <2>1 DEF CountersHonest
<1> QED
  BY <1>3, <1>13, <1>14, <1>15, <1>16, <1>17, <1>18, <1>19, <1>20, <1>21 DEF IInv, BybitInv
(***************************************************************************)
(* The writer fails                                                        *)
(***************************************************************************)

\* Where the writer raises, what the exception says of the row in hand: published only
\* if it may be, and "lost" only if it is in no segment.
LEMMA RaisesAt ==
  ASSUME WriterRaises
  PROVE  \E how \in Stages :
           /\ WriterFails(how)
           /\ published' = published \/ (pc = "publish" /\ published' = published \cup buffer)
           /\ how = "admit" => pc \in {"write", "rollopen"}
           /\ how \in {"rename", "dirsync"} => pc = "publish"
           /\ how = "reopen" => pc = "reopen"
           /\ how # "dirsync" => published' = published
<1>1. CASE pc = "write" /\ WriterFails("admit") /\ UNCHANGED published
  BY <1>1 DEF Stages
<1>2. CASE pc = "publish" /\ WriterFails("rename") /\ UNCHANGED published
  BY <1>2 DEF Stages
<1>3. CASE /\ pc = "publish" /\ ~writerFailed /\ WriterFails("dirsync")
           /\ published' \in {published, published \cup buffer}
  BY <1>3 DEF Stages
<1>4. CASE pc = "reopen" /\ WriterFails("reopen") /\ UNCHANGED published
  BY <1>4 DEF Stages
<1>5. CASE pc = "rollopen" /\ WriterFails("admit") /\ UNCHANGED published
  BY <1>5 DEF Stages
<1> QED
  BY <1>1, <1>2, <1>3, <1>4, <1>5 DEF WriterRaises

\* What the counters hold after the trip: nothing, or the row in hand in the one counter
\* its evidence allows.
LEMMA TrippingCounts ==
  ASSUME walOnly = {}, unconfirmed = {}, lost = {}, NEW how \in Stages, Tripping(how)
  PROVE  \/ /\ walOnly' = {} /\ unconfirmed' = {} /\ lost' = {}
            /\ row = NoRow \/ (how = "reopen" /\ (row.seq = NoSeq \/ row.seq <= covered))
         \/ /\ walOnly' = {row.ev} /\ unconfirmed' = {} /\ lost' = {}
            /\ row # NoRow /\ row.safe /\ ~(how = "reopen" /\ (row.seq = NoSeq \/ row.seq <= covered))
         \/ /\ walOnly' = {} /\ unconfirmed' = {row.ev} /\ lost' = {} /\ row # NoRow
         \/ /\ walOnly' = {} /\ unconfirmed' = {} /\ lost' = {row.ev}
            /\ row # NoRow /\ row.seq = NoSeq /\ how \in {"admit", "rename"}
<1>1. CASE row = NoRow \/ (how = "reopen" /\ (row.seq = NoSeq \/ row.seq <= covered))
  BY <1>1 DEF Tripping, counts
<1>2. CASE ~(row = NoRow \/ (how = "reopen" /\ (row.seq = NoSeq \/ row.seq <= covered)))
  <2>1. PICK sure : sure = (Disposition(Evidence(how)) = "unconfirmed")
    OBVIOUS
  <2>2. PICK kind : kind = Tally(row, sure)
    OBVIOUS
  <2>3. CountIn(row, sure)
    BY <1>2, <2>1 DEF Tripping
  <2>4. /\ walOnly' = IF kind = "walOnly" THEN {row.ev} ELSE {}
        /\ unconfirmed' = IF kind = "unconfirmed" THEN {row.ev} ELSE {}
        /\ lost' = IF kind = "lost" THEN {row.ev} ELSE {}
    BY <2>2, <2>3 DEF CountIn
  <2>5. how = "dirsync" => sure
    BY <2>1 DEF Disposition, Evidence
  <2>6. \/ kind = "walOnly" /\ row.safe
        \/ kind = "unconfirmed"
        \/ kind = "lost" /\ row.seq = NoSeq /\ ~sure
    BY <2>2 DEF Tally
  <2>7. kind = "lost" => row.seq = NoSeq /\ how \in {"admit", "rename"}
    BY <1>2, <2>5, <2>6 DEF Stages
  <2> QED
    BY <1>2, <2>4, <2>6, <2>7
<1> QED
  BY <1>1, <1>2

\* The writer raises for good: the checkpoint is blocked, and the row in hand is counted
\* by what is known of it.
LEMMA WriterRaisesSafe ==
  ASSUME IInv, WriterRaises, phase # "down"
  PROVE  IInv'
<1>0. PICK how \in Stages :
        /\ WriterFails(how)
        /\ published' = published \/ (pc = "publish" /\ published' = published \cup buffer)
        /\ how = "admit" => pc \in {"write", "rollopen"}
        /\ how \in {"rename", "dirsync"} => pc = "publish"
        /\ how = "reopen" => pc = "reopen"
        /\ how # "dirsync" => published' = published
  BY RaisesAt
<1>1. /\ TypeOK /\ CheckpointSound /\ LogKept /\ CountedDegraded
      /\ CounterAhead /\ ReplayFirst /\ RowPlaced
      /\ CountersHonest /\ CleanStopReplaysNothing
  BY PartsOf
<1>2. /\ writerFailed' = TRUE /\ buffer' = {} /\ blocked' = TRUE
      /\ UNCHANGED <<wal, ckpt, corrupt, last, covered, logFailed, full, row, inflight, segment, hwm,
                     events, since, logged>>
  BY <1>0 DEF WriterFails, journal
<1>3. \/ /\ phase \in {"run", "stop"} /\ phase' = phase /\ degraded' = TRUE /\ replay' = replay
         /\ pc' = "counted" /\ Tripping(how)
      \/ /\ phase \notin {"run", "stop"} /\ degraded' = degraded /\ replay' = {}
         /\ walOnly' = walOnly /\ unconfirmed' = unconfirmed /\ lost' = lost
         /\ phase' \in {"build", "raise"} /\ (phase' = "build" => pc' = "counted")
         /\ (phase' = "raise" => pc' = "idle")
  <2>1. CASE phase \in {"run", "stop"}
    BY <1>0, <2>1 DEF WriterFails
  <2>2. CASE phase \notin {"run", "stop"}
    <3>1. UNCHANGED <<degraded, counts>> /\ replay' = {}
      BY <1>0, <2>2 DEF WriterFails
    <3>2. (phase' = "build" /\ pc' = "counted") \/ (phase' = "raise" /\ pc' = "idle")
      BY <1>0, <2>2 DEF WriterFails
    <3> QED
      BY <2>2, <3>1, <3>2 DEF counts
  <2> QED
    BY <2>1, <2>2
<1>4. pc \in {"write", "rollopen", "publish", "reopen"}
  BY <1>0 DEF Stages
<1>5. ~degraded /\ walOnly = {} /\ unconfirmed = {} /\ lost = {}
  BY <1>1, <1>4 DEF CountedDegraded
<1>6. published \subseteq published' /\ published' \subseteq published \cup buffer
  BY <1>0
<1>7. /\ walOnly' \cup unconfirmed' \cup lost' \subseteq {row.ev}
      /\ row = NoRow => walOnly' = {} /\ unconfirmed' = {} /\ lost' = {}
      /\ phase' # "down"
  <2>1. CASE phase \in {"run", "stop"}
    <3>1. Tripping(how)
      BY <1>3, <2>1
    <3> QED
      BY <1>0, <1>3, <1>5, <2>1, <3>1, TrippingCounts
  <2>2. CASE phase \notin {"run", "stop"}
    BY <1>3, <1>5, <2>2
  <2> QED
    BY <2>1, <2>2
<1>8. row = NoRow \/ row.ev \in Event
  BY <1>1, Typed DEF RowPlaced, TypeOK, Event
<1>9. TypeOK'
  <2>1. /\ phase' \in {"down", "report", "replay", "build", "run", "stop", "raise"}
        /\ pc' \in {"idle", "write", "counted", "publish", "hook", "rollhook", "reopen", "rollopen"}
    BY <1>1, <1>3 DEF TypeOK
  <2>2. published' \subseteq Event /\ buffer' \subseteq Event /\ replay' \subseteq wal
    BY <1>1, <1>2, <1>3, <1>6 DEF TypeOK
  <2>3. walOnly' \cup unconfirmed' \cup lost' \subseteq Event
    BY <1>7, <1>8
  <2>4. degraded' \in BOOLEAN
    BY <1>1, <1>3 DEF TypeOK
  <2> QED
    BY <1>1, <1>2, <2>1, <2>2, <2>3, <2>4 DEF TypeOK
<1>10. CheckpointSound'
  BY <1>1, <1>2, <1>6 DEF CheckpointSound
<1>11. LogKept'
  BY <1>1, <1>2, <1>6, <1>7 DEF LogKept
<1>12. CountedDegraded'
  BY <1>1, <1>2, <1>3, <1>5 DEF CountedDegraded
<1>13. CounterAhead' /\ ReplayFirst'
  BY <1>1, <1>2, <1>3 DEF CounterAhead, ReplayFirst
<1>14. RowPlaced'
  BY <1>1, <1>2, <1>3 DEF RowPlaced, Writing
<1>15. Pending' = Pending
  BY <1>2 DEF Pending
<1>16. CountersHonest'
  <2>1. CASE phase \notin {"run", "stop"}
    BY <1>3, <1>5, <2>1 DEF CountersHonest
  <2>2. CASE phase \in {"run", "stop"}
    <3>1. Tripping(how) /\ phase' = phase /\ pc' = "counted"
      BY <1>3, <2>2
    <3>2. \A e \in (since + 1 .. events) \ {row.ev} :
            e \in published' \/ \E r \in Pending : r.ev = e
      BY <1>1, <1>4, <1>5, <1>6, <2>2 DEF CountersHonest
    <3>3. 0 \notin (since + 1 .. events)
      <4>1. since \in Nat
        BY <1>1, Typed
      <4> QED
        BY <4>1
    <3>4. CASE /\ walOnly' = {} /\ unconfirmed' = {} /\ lost' = {}
               /\ row = NoRow \/ (how = "reopen" /\ (row.seq = NoSeq \/ row.seq <= covered))
      <4>1. row.ev = 0 \/ row.ev \in published'
        <5>1. row = NoRow => row.ev = 0
          BY DEF NoRow, Row
        <5>2. how = "reopen" /\ row.ev # 0 => row.ev \in published
          BY <1>0, <1>1 DEF RowPlaced
        <5> QED
          BY <1>6, <3>4, <5>1, <5>2
      <4>2. \A e \in (since + 1 .. events) : e \in published' \/ \E r \in Pending : r.ev = e
        BY <3>2, <3>3, <4>1
      <4> QED
        BY <1>2, <1>15, <3>4, <4>2 DEF CountersHonest
    <3>5. CASE /\ walOnly' = {row.ev} /\ unconfirmed' = {} /\ lost' = {}
               /\ row # NoRow /\ row.safe
               /\ ~(how = "reopen" /\ (row.seq = NoSeq \/ row.seq <= covered))
      <4>1. Rec(row.ev, row.seq) \in logged
        BY <1>1, <3>5 DEF CounterAhead
      <4>2. Rec(row.ev, row.seq).seq = row.seq /\ Rec(row.ev, row.seq).ev = row.ev
        BY DEF Rec
      <4>3. row.seq \in Nat /\ row.seq # NoSeq /\ ckpt \in Int /\ covered \in Int
        BY <1>1, <4>1, <4>2, Typed DEF TypeOK
      <4>4. covered < row.seq /\ (ckpt < row.seq \/ row.ev \in published')
        <5>1. CASE pc \in {"write", "rollopen", "publish"}
          <6>1. ckpt < row.seq
            BY <1>1, <4>3, <5>1 DEF RowPlaced, Writing
          <6> QED
            BY <1>1, <4>3, <6>1 DEF CounterAhead
        <5>2. CASE pc = "reopen"
          <6>1. how = "reopen"
            BY <1>0, <5>2 DEF Stages
          <6>2. row.ev # 0
            BY <1>1, <4>1, <4>2, Typed
          <6> QED
            BY <1>1, <1>6, <3>5, <4>3, <5>2, <6>1, <6>2 DEF RowPlaced
        <5> QED
          BY <1>4, <5>1, <5>2
      <4>5. Rec(row.ev, row.seq) \in wal
        BY <1>1, <4>1, <4>2, <4>3, <4>4 DEF CounterAhead
      <4>6. \E r \in wal : /\ r.ev = row.ev /\ r.seq > covered
                           /\ (r.seq > ckpt \/ row.ev \in published')
        BY <4>2, <4>3, <4>4, <4>5
      <4>7. row.ev \in published' \/ \E r \in Pending : r.ev = row.ev
        BY <4>6 DEF Pending
      <4> QED
        BY <1>2, <1>15, <3>2, <3>5, <4>6, <4>7 DEF CountersHonest
    <3>6. CASE walOnly' = {} /\ unconfirmed' = {row.ev} /\ lost' = {} /\ row # NoRow
      BY <1>2, <1>15, <3>2, <3>6 DEF CountersHonest
    <3>7. CASE /\ walOnly' = {} /\ unconfirmed' = {} /\ lost' = {row.ev}
               /\ row # NoRow /\ row.seq = NoSeq /\ how \in {"admit", "rename"}
      <4>1. published' = published
        BY <1>0, <3>7
      <4>2. row.ev \notin published
        BY <1>0, <1>1, <2>2, <3>7 DEF RowPlaced, Writing
      <4>3. \A r \in logged : r.ev # row.ev
        BY <1>1, <3>7 DEF CounterAhead
      <4> QED
        BY <1>2, <1>15, <3>2, <3>7, <4>1, <4>2, <4>3 DEF CountersHonest
    <3> QED
      BY <1>0, <1>5, <3>1, <3>4, <3>5, <3>6, <3>7, TrippingCounts
  <2> QED
    BY <2>1, <2>2
<1> QED
  BY <1>2, <1>7, <1>9, <1>10, <1>11, <1>12, <1>13, <1>14, <1>16
    DEF IInv, BybitInv, CleanStopReplaysNothing

(***************************************************************************)
(* The end of a process                                                    *)
(***************************************************************************)

\* An orderly stop of a channel whose checkpoint may move leaves nothing to replay: the
\* segment is published, so nothing is in flight and the checkpoint covers the log.
LEMMA CloseLogSafe ==
  ASSUME IInv, CloseLog
  PROVE  IInv'
<1>0. /\ phase = "stop" /\ pc = "idle" /\ buffer = {} /\ phase' = "down" /\ pc' = pc
      /\ UNCHANGED <<wal, ckpt, corrupt, published, last, covered, logFailed, full, row, replay,
                     inflight, segment, hwm, blocked, buffer, writerFailed, degraded, walOnly,
                     unconfirmed, lost, events, since, logged>>
  BY DEF CloseLog, disk, journal, check, writer, counts, past
<1>1. /\ TypeOK /\ CheckpointSound /\ LogKept /\ CountedDegraded
      /\ CounterAhead /\ ReplayFirst /\ RowPlaced /\ (~blocked => Held)
      /\ CountersHonest /\ CleanStopReplaysNothing
  BY <1>0, PartsOf
<1>2. TypeOK' /\ CheckpointSound' /\ LogKept' /\ Pending' = Pending
  BY <1>0, <1>1 DEF TypeOK, CheckpointSound, LogKept, Pending
<1>3. CountedDegraded' /\ CountersHonest'
  BY <1>0, <1>1, <1>2 DEF CountedDegraded, CountersHonest
<1>4. ~blocked => Pending = {}
  <2> SUFFICES ASSUME ~blocked, NEW r \in Pending PROVE FALSE
    OBVIOUS
  <2>1. inflight = {} /\ hwm <= ckpt /\ replay = {}
    BY <1>0, <1>1 DEF Held, Writing, ReplayFirst
  <2>2. r \in logged /\ r.seq \in Nat /\ ~(r.seq <= ckpt) /\ hwm \in Int /\ ckpt \in Int
    BY <1>1, Typed DEF Pending, TypeOK
  <2>3. r.seq <= ckpt \/ r.seq <= hwm \/ r.seq \in inflight \/ r \in replay
    BY <1>1, <2>2 DEF Held
  <2> QED
    BY <2>1, <2>2, <2>3
<1> QED
  BY <1>0, <1>2, <1>3, <1>4 DEF IInv, BybitInv, CleanStopReplaysNothing

\* A process that dies leaves the disk and the counters as they are.
LEMMA DiesSafe ==
  ASSUME IInv, Dies
  PROVE  IInv'
<1>0. /\ phase' = "down" /\ pc' = "idle" /\ blocked' = TRUE /\ row' = NoRow /\ replay' = {}
      /\ UNCHANGED <<wal, ckpt, corrupt, published, last, covered, logFailed, full, inflight, segment,
                     hwm, buffer, writerFailed, degraded, walOnly, unconfirmed, lost, events,
                     since, logged>>
  BY DEF Dies, disk, journal, writer, counts
<1>1. TypeOK /\ CheckpointSound /\ LogKept /\ CountedDegraded /\ CountersHonest
  BY PartsOf
<1>2. row'.ev = 0 /\ row' \in [ev : 0 .. MaxEvents, seq : NoSeq .. MaxEvents, safe : BOOLEAN]
  BY <1>0, <1>1, Typed DEF NoRow, Row
<1>3. TypeOK'
  BY <1>0, <1>1, <1>2 DEF TypeOK
<1>4. CheckpointSound' /\ LogKept' /\ Pending' = Pending
  <2>1. 0 <= events
    BY <1>1, Typed
  <2> QED
    BY <1>0, <1>1, <1>2, <2>1 DEF CheckpointSound, LogKept, Pending
<1>5. CountedDegraded' /\ CountersHonest'
  BY <1>0, <1>1, <1>4 DEF CountedDegraded, CountersHonest
<1> QED
  BY <1>0, <1>3, <1>4, <1>5 DEF IInv, BybitInv, CleanStopReplaysNothing

\* A log that becomes readable or unreadable while nothing runs.
LEMMA CorruptSafe ==
  ASSUME IInv, Corrupt
  PROVE  IInv'
<1>0. /\ phase = "down" /\ phase' = "down" /\ corrupt' = ~corrupt
      /\ UNCHANGED <<wal, ckpt, published, last, covered, logFailed, full, pc, row, replay, inflight,
                     segment, hwm, blocked, buffer, writerFailed, degraded, walOnly,
                     unconfirmed, lost, events, since, logged>>
  BY DEF Corrupt, journal, check, writer, counts
<1>1. /\ TypeOK /\ CheckpointSound /\ LogKept /\ CountedDegraded /\ CountersHonest
      /\ CleanStopReplaysNothing /\ pc = "idle"
  BY <1>0, PartsOf
<1>2. TypeOK'
  <2>1. corrupt' \in BOOLEAN
    BY <1>0
  <2> QED
    BY <1>0, <1>1, <2>1 DEF TypeOK
<1>3. CheckpointSound' /\ LogKept' /\ Pending' = Pending
  BY <1>0, <1>1 DEF CheckpointSound, LogKept, Pending
<1>4. CountedDegraded' /\ CountersHonest' /\ CleanStopReplaysNothing'
  BY <1>0, <1>1, <1>3 DEF CountedDegraded, CountersHonest, CleanStopReplaysNothing
<1> QED
  BY <1>0, <1>2, <1>3, <1>4 DEF IInv, BybitInv
(***************************************************************************)
(* An event                                                                *)
(***************************************************************************)

\* What an append does: a record with a number of its own, proven or not, or none.
LEMMA Appended ==
  ASSUME TypeOK, last < events, events < MaxEvents, \A r \in wal : r.seq <= last,
         LogEvent(events + 1)
  PROVE  /\ row'.ev = events + 1
         /\ row' \in [ev : 0 .. MaxEvents, seq : NoSeq .. MaxEvents, safe : BOOLEAN]
         /\ wal' = wal \/ wal' = wal \cup {Rec(events + 1, last + 1)}
         /\ wal' # wal => row'.seq = last + 1
         /\ row'.safe => wal' # wal
         /\ last' = (IF row'.seq = NoSeq THEN last ELSE last + 1)
         /\ row'.seq \in {NoSeq, last + 1}
         /\ full' \in BOOLEAN /\ logFailed' \in BOOLEAN
<1>1. /\ MaxEvents \in Nat /\ NoSeq = -1 /\ events \in Nat /\ last \in Int /\ -1 <= last
      /\ full \in BOOLEAN /\ logFailed \in BOOLEAN
  BY Typed DEF TypeOK
<1>2. last + 1 # NoSeq /\ last + 1 \in 0 .. MaxEvents /\ events + 1 \in 0 .. MaxEvents
      /\ NoSeq \in NoSeq .. MaxEvents /\ last + 1 \in NoSeq .. MaxEvents
  BY <1>1
<1>3. Rec(events + 1, last + 1) \notin wal
  <2>1. Rec(events + 1, last + 1).seq = last + 1
    BY DEF Rec
  <2> QED
    BY <1>1, <2>1
<1>4. PICK done, raised, none :
        /\ done = Row(events + 1, last + 1, TRUE)
        /\ raised = Row(events + 1, last + 1, FALSE)
        /\ none = Row(events + 1, NoSeq, FALSE)
  OBVIOUS
<1>5. /\ done.ev = events + 1 /\ done.seq = last + 1 /\ done.safe = TRUE
      /\ raised.ev = events + 1 /\ raised.seq = last + 1 /\ raised.safe = FALSE
      /\ none.ev = events + 1 /\ none.seq = NoSeq /\ none.safe = FALSE
      /\ {done, raised, none} \subseteq
           [ev : 0 .. MaxEvents, seq : NoSeq .. MaxEvents, safe : BOOLEAN]
  BY <1>2, <1>4 DEF Row
<1>6. \/ /\ row' = done /\ last' = last + 1 /\ wal' = wal \cup {Rec(events + 1, last + 1)}
         /\ UNCHANGED <<logFailed, full>>
      \/ /\ row' = raised /\ last' = last + 1 /\ logFailed' = TRUE /\ full' = full
         /\ wal' \in {wal, wal \cup {Rec(events + 1, last + 1)}}
      \/ /\ row' = none /\ last' = last /\ wal' = wal /\ logFailed' = logFailed
         /\ full' = (full \/ ~logFailed)
  BY <1>4 DEF LogEvent, RaisedRow
<1>7. full' \in BOOLEAN /\ logFailed' \in BOOLEAN
  BY <1>1, <1>6
<1> QED
  BY <1>2, <1>3, <1>5, <1>6, <1>7

\* An event is received: it is logged if the log takes it, and handed to the writer or,
\* once the channel is degraded, counted by what is known of its record.
LEMMA EmitSafe ==
  ASSUME IInv, Emit
  PROVE  IInv'
<1>0. /\ phase \in {"report", "build", "run", "stop"} /\ pc = "idle"
      /\ events < MaxEvents /\ events' = events + 1
      /\ LogEvent(events + 1)
      /\ logged' = logged \cup (wal' \ wal)
      /\ inflight' = inflight \cup ({row'.seq} \ {NoSeq})
      /\ UNCHANGED <<ckpt, covered, corrupt, published, phase, replay, segment, hwm, buffer,
                     writerFailed, degraded, since>>
  BY DEF Emit, writer
<1>1. \/ /\ degraded /\ CountIn(row', FALSE) /\ pc' = "counted"
         /\ blocked' = (blocked \/ Tally(row', FALSE) = "lost")
      \/ ~degraded /\ pc' = "write" /\ blocked' = blocked /\ UNCHANGED counts
  <2>1. CASE degraded
    BY <2>1 DEF Emit
  <2>2. CASE ~degraded
    BY <2>2 DEF Emit
  <2> QED
    BY <2>1, <2>2
<1>2. /\ TypeOK /\ CheckpointSound /\ LogKept /\ CountedDegraded
      /\ CounterAhead /\ ReplayFirst /\ RowPlaced /\ (~blocked => Held)
      /\ CountersHonest /\ CleanStopReplaysNothing
  BY <1>0, PartsOf
<1>3. /\ MaxEvents \in Nat /\ NoSeq = -1 /\ events \in Nat /\ last \in Int /\ ckpt \in Int
      /\ hwm \in Int /\ ckpt <= last /\ last < events /\ hwm <= last /\ -1 <= last
      /\ since \in Nat
  BY <1>2, Typed DEF TypeOK, CounterAhead
<1>4. \A r \in logged : r.seq \in Nat /\ r.ev \in Nat /\ r.seq <= last /\ r.ev <= events
  BY <1>2, Typed DEF CounterAhead, LogKept
<1>5. PICK new, e, n : /\ new = Rec(events + 1, last + 1) /\ e = events + 1 /\ n = row'.seq
  OBVIOUS
<1>6. new.seq = last + 1 /\ new.ev = e /\ new \in [seq : 0 .. MaxEvents, ev : Event]
      /\ e \in Event /\ e # 0 /\ e \in Nat
  BY <1>0, <1>3, <1>5 DEF Rec, Event
<1>7. /\ row'.ev = e /\ row'.seq = n
      /\ row' \in [ev : 0 .. MaxEvents, seq : NoSeq .. MaxEvents, safe : BOOLEAN]
      /\ wal' = wal \/ wal' = wal \cup {new}
      /\ wal' # wal => n = last + 1
      /\ row'.safe => wal' # wal
      /\ last' = (IF n = NoSeq THEN last ELSE last + 1)
      /\ n \in {NoSeq, last + 1}
      /\ full' \in BOOLEAN /\ logFailed' \in BOOLEAN
  <2>1. \A r \in wal : r.seq <= last
    BY <1>2, <1>4 DEF TypeOK
  <2>2. TypeOK /\ last < events /\ events < MaxEvents /\ LogEvent(events + 1)
    BY <1>0, <1>2, <1>3
  <2> QED
    BY <1>5, <2>1, <2>2, Appended
<1>8. /\ wal \subseteq wal' /\ logged \subseteq logged' /\ wal' \subseteq logged'
      /\ logged' \subseteq logged \cup {new}
      /\ \A r \in logged' : r \in logged \/ (r = new /\ new \in wal' /\ n = last + 1)
  <2>1. CASE wal' = wal
    BY <1>0, <1>2, <2>1 DEF TypeOK
  <2>2. CASE wal' # wal
    BY <1>0, <1>2, <1>7, <2>2 DEF TypeOK
  <2> QED
    BY <2>1, <2>2
<1>9. row = NoRow /\ row.ev = 0
  <2>1. row = NoRow
    BY <1>0, <1>2 DEF RowPlaced
  <2> QED
    BY <2>1 DEF NoRow, Row
<1>10. /\ published \subseteq Event /\ \A x \in published \cup buffer : x <= events
       /\ \A x \in walOnly \cup unconfirmed \cup lost : x <= events
  BY <1>2 DEF LogKept, TypeOK
<1>11. e \notin published \cup buffer /\ e \notin walOnly \cup unconfirmed \cup lost
       /\ \A r \in logged : r.ev # e
  BY <1>3, <1>4, <1>5, <1>10
<1>12. n # NoSeq => n = last + 1 /\ n \in inflight' /\ n \notin inflight /\ n \notin segment
  <2>1. \A m \in inflight : m <= last
    BY <1>2 DEF CounterAhead
  <2>2. \A m \in segment : m \in inflight
    BY <1>2 DEF CounterAhead
  <2> QED
    BY <1>0, <1>3, <1>5, <1>7, <2>1, <2>2
<1>13. last' \in NoSeq .. MaxEvents /\ last <= last' /\ last' < events' /\ n <= last'
       /\ last' \in Int
  BY <1>0, <1>3, <1>7
<1>14. phase # "replay" /\ phase # "down" /\ phase' = phase /\ replay = {} /\ replay' = {}
       /\ phase # "raise"
  BY <1>0, <1>2 DEF ReplayFirst
<1>15. TypeOK'
  <2>1. logged' \subseteq [seq : 0 .. MaxEvents, ev : Event]
    BY <1>2, <1>6, <1>8 DEF TypeOK
  <2>2. inflight' \subseteq 0 .. MaxEvents
    <3>1. n # NoSeq => n \in 0 .. MaxEvents
      BY <1>3, <1>7
    <3> QED
      BY <1>0, <1>2, <1>5, <3>1 DEF TypeOK
  <2>3. walOnly' \cup unconfirmed' \cup lost' \subseteq Event
    <3>1. CASE degraded
      <4>1. CountIn(row', FALSE)
        BY <1>1, <3>1
      <4> QED
        BY <1>2, <1>6, <1>7, <4>1 DEF CountIn, TypeOK
    <3>2. CASE ~degraded
      BY <1>1, <1>2, <3>2 DEF TypeOK, counts
    <3> QED
      BY <3>1, <3>2
  <2>4. blocked' \in BOOLEAN
    BY <1>1, <1>2 DEF TypeOK
  <2>5. pc' \in {"idle", "write", "counted", "publish", "hook", "rollhook", "reopen", "rollopen"}
    BY <1>1
  <2>6. events' \in 0 .. MaxEvents /\ since' \in 0 .. events'
    BY <1>0, <1>2, <1>3 DEF TypeOK
  <2> QED
    BY <1>0, <1>2, <1>7, <1>8, <1>13, <1>14, <2>1, <2>2, <2>3, <2>4, <2>5, <2>6 DEF TypeOK
<1>16. CheckpointSound'
  <2>1. ~(new.seq <= ckpt)
    BY <1>3, <1>6
  <2> QED
    BY <1>0, <1>2, <1>8, <2>1 DEF CheckpointSound
<1>17. \A x \in walOnly' \cup unconfirmed' \cup lost' : x <= events'
  <2>1. walOnly' \cup unconfirmed' \cup lost' \subseteq walOnly \cup unconfirmed \cup lost \cup {e}
    <3>1. CASE degraded
      <4>1. CountIn(row', FALSE)
        BY <1>1, <3>1
      <4> QED
        BY <1>7, <4>1 DEF CountIn
    <3>2. CASE ~degraded
      BY <1>1, <3>2 DEF counts
    <3> QED
      BY <3>1, <3>2
  <2>2. walOnly \cup unconfirmed \cup lost \subseteq Nat
    BY <1>2 DEF TypeOK, Event
  <2> QED
    BY <1>0, <1>3, <1>5, <1>10, <2>1, <2>2
<1>18. LogKept'
  <2>1. \A r \in logged' : r \in wal' \/ r.seq <= ckpt
    BY <1>2, <1>8 DEF LogKept
  <2>2. \A r \in logged' : r.seq < events' /\ r.ev <= events'
    BY <1>0, <1>2, <1>3, <1>4, <1>5, <1>6, <1>8
  <2>3. \A r, s \in logged' : r.seq = s.seq => r = s
    <3>1. \A r \in logged : r.seq # new.seq
      BY <1>3, <1>4, <1>6
    <3>2. \A r, s \in logged : r.seq = s.seq => r = s
      BY <1>2 DEF LogKept
    <3>3. TAKE r, s \in logged'
    <3>4. (r \in logged \/ r = new) /\ (s \in logged \/ s = new)
      BY <1>8
    <3> QED
      BY <3>1, <3>2, <3>4
  <2>4. \A x \in {row'.ev} \cup published \cup buffer : x <= events'
    <3>1. published \cup buffer \subseteq Nat
      <4>1. published \subseteq Event /\ buffer \subseteq Event
        BY <1>2 DEF TypeOK
      <4> QED
        BY <4>1 DEF Event
    <3> QED
      BY <1>0, <1>3, <1>5, <1>7, <1>10, <3>1
  <2> QED
    BY <1>0, <1>3, <1>17, <2>1, <2>2, <2>3, <2>4 DEF LogKept
<1>19. CountedDegraded'
  BY <1>0, <1>1, <1>2 DEF CountedDegraded, counts
<1>20. CounterAhead'
  <2>1. \A m \in inflight' : m <= last'
    <3>1. \A m \in inflight : m \in Nat /\ m <= last
      BY <1>2, Typed DEF CounterAhead
    <3> QED
      BY <1>0, <1>3, <1>5, <1>13, <3>1
  <2>2. segment \subseteq inflight'
    BY <1>0, <1>2 DEF CounterAhead
  <2>3. \A r \in logged' : /\ r.seq <= last' /\ (r.seq = n => r.ev = e)
                           /\ (r.ev = e => n # NoSeq)
    <3>1. TAKE r \in logged'
    <3>2. CASE r \in logged
      BY <1>3, <1>4, <1>7, <1>11, <1>13, <3>2
    <3>3. CASE r = new /\ n = last + 1
      BY <1>3, <1>6, <1>7, <3>3
    <3> QED
      BY <1>8, <3>2, <3>3
  <2>4. row'.safe => Rec(e, n) \in logged'
    <3>1. row'.safe => new \in wal' /\ n = last + 1
      BY <1>7
    <3> QED
      BY <1>5, <1>8, <3>1
  <2>5. ckpt <= last' /\ hwm <= last'
    BY <1>3, <1>13
  <2>6. covered <= ckpt /\ \A r \in logged' : r.seq > covered => r \in wal'
    BY <1>2, <1>8 DEF CounterAhead
  <2> QED
    BY <1>0, <1>7, <1>13, <2>1, <2>2, <2>3, <2>4, <2>5, <2>6 DEF CounterAhead
<1>21. ReplayFirst'
  BY <1>14 DEF ReplayFirst
<1>22. RowPlaced'
  <2>1. n # NoSeq => ckpt < n
    BY <1>3, <1>12
  <2> QED
    BY <1>0, <1>1, <1>6, <1>7, <1>11, <1>12, <2>1 DEF RowPlaced, Writing
<1>23. ~blocked' => Held'
  <2> SUFFICES ASSUME ~blocked' PROVE Held'
    OBVIOUS
  <2>1. ~blocked /\ ~degraded /\ pc' = "write"
    BY <1>1, <1>2 DEF CountedDegraded
  <2>2. Held
    BY <1>2, <2>1
  <2>3. inflight \subseteq inflight'
    BY <1>0
  <2>4. \A r \in logged : /\ r.ev \in published \/ r.seq \in inflight' \/ r \in replay'
                          /\ r.seq \in segment => r.ev \in published \cup buffer
                          /\ \/ r.seq <= ckpt \/ r.seq <= hwm
                             \/ r.seq \in inflight' \/ r \in replay'
    BY <1>14, <2>2, <2>3 DEF Held
  <2>5. new \in logged' /\ new \notin logged => new.seq \in inflight' /\ new.seq \notin segment
    BY <1>3, <1>6, <1>8, <1>12
  <2>6. \A r \in logged' : /\ r.ev \in published \/ r.seq \in inflight' \/ r \in replay'
                           /\ r.seq \in segment => r.ev \in published \cup buffer
                           /\ \/ r.seq <= ckpt \/ r.seq <= hwm
                              \/ r.seq \in inflight' \/ r \in replay'
    BY <1>8, <2>4, <2>5
  <2>7. inflight' \subseteq segment' \cup (IF Writing' THEN {row'.seq} ELSE {})
    <3>1. inflight \subseteq segment
      BY <1>0, <2>2 DEF Held, Writing
    <3> QED
      BY <1>0, <2>1, <3>1 DEF Writing
  <2>8. segment # {} => buffer # {}
    BY <1>0, <2>2 DEF Held
  <2>9. inflight' = {} => hwm <= ckpt
    BY <2>2, <2>3 DEF Held
  <2>10. covered = ckpt
    BY <2>2 DEF Held
  <2> QED
    BY <1>0, <2>6, <2>7, <2>8, <2>9, <2>10 DEF Held
<1>24. Pending \subseteq Pending' /\ (row'.safe => new \in Pending')
  <2>1. row'.safe => new \in wal'
    BY <1>7
  <2>2. new.seq > ckpt
    BY <1>3, <1>6
  <2> QED
    BY <1>0, <1>8, <2>1, <2>2 DEF Pending
<1>25. CountersHonest'
  <2>1. \A x \in since + 1 .. events' : x # e => x \in (since + 1 .. events) \ {row.ev}
    BY <1>0, <1>3, <1>5, <1>9
  <2>2. phase \in {"run", "stop"} => \A x \in (since + 1 .. events) \ {row.ev} :
          x \in published \cup unconfirmed \cup lost \/ \E r \in Pending : r.ev = x
    BY <1>0, <1>2 DEF CountersHonest
  <2>3. CASE ~degraded
    <3>1. walOnly' = {} /\ unconfirmed' = {} /\ lost' = {}
      BY <1>1, <1>2, <2>3 DEF CountedDegraded, counts
    <3>2. unconfirmed = {} /\ lost = {} /\ pc' = "write"
      BY <1>1, <1>2, <2>3 DEF CountedDegraded
    <3> QED
      BY <1>0, <1>7, <1>24, <2>1, <2>2, <3>1, <3>2 DEF CountersHonest
  <2>4. CASE degraded
    <3>1. PICK kind : kind = Tally(row', FALSE)
      OBVIOUS
    <3>2. CountIn(row', FALSE) /\ pc' = "counted"
      BY <1>1, <2>4
    <3>3. /\ walOnly' = IF kind = "walOnly" THEN walOnly \cup {e} ELSE walOnly
          /\ unconfirmed' = IF kind = "unconfirmed" THEN unconfirmed \cup {e} ELSE unconfirmed
          /\ lost' = IF kind = "lost" THEN lost \cup {e} ELSE lost
      BY <1>7, <3>1, <3>2 DEF CountIn
    <3>4. \/ kind = "walOnly" /\ row'.safe
          \/ kind = "unconfirmed"
          \/ kind = "lost" /\ n = NoSeq
      BY <1>7, <3>1 DEF Tally
    <3>5. /\ walOnly' \cap (unconfirmed' \cup lost') = {} /\ unconfirmed' \cap lost' = {}
      <4>1. walOnly \cap (unconfirmed \cup lost) = {} /\ unconfirmed \cap lost = {}
        BY <1>2 DEF CountersHonest
      <4> QED
        BY <1>11, <3>3, <3>4, <4>1
    <3>6. \A x \in walOnly' : \E r \in wal' : /\ r.ev = x /\ r.seq > covered
                                              /\ (r.seq > ckpt \/ x \in published)
      <4>1. \A x \in walOnly : \E r \in wal : /\ r.ev = x /\ r.seq > covered
                                             /\ (r.seq > ckpt \/ x \in published)
        BY <1>2 DEF CountersHonest
      <4>2. kind = "walOnly" => new \in wal' /\ new.seq > covered /\ new.seq > ckpt
        BY <1>2, <1>3, <1>6, <1>7, <3>4, Typed DEF CounterAhead, TypeOK
      <4> TAKE x \in walOnly'
      <4>3. CASE x \in walOnly
        <5>1. PICK r \in wal : r.ev = x /\ r.seq > covered /\ (r.seq > ckpt \/ x \in published)
          BY <4>1, <4>3
        <5>2. r \in wal'
          BY <1>8
        <5> QED
          BY <5>1, <5>2
      <4>4. CASE x \notin walOnly
        <5>1. x = e /\ kind = "walOnly"
          BY <3>3, <4>4
        <5> QED
          BY <1>6, <4>2, <5>1
      <4> QED
        BY <4>3, <4>4
    <3>7. \A x \in lost' : x \notin published /\ \A r \in logged' : r.ev # x
      <4>1. \A x \in lost : x \notin published /\ \A r \in logged : r.ev # x
        BY <1>2 DEF CountersHonest
      <4>2. \A x \in lost : x # e
        BY <1>11
      <4>3. \A x \in lost : \A r \in logged' : r.ev # x
        BY <1>6, <1>8, <4>1, <4>2
      <4>4. kind = "lost" => \A r \in logged' : r.ev # e
        BY <1>3, <1>8, <1>11, <3>4
      <4> QED
        BY <1>11, <3>3, <4>1, <4>3, <4>4
    <3>8. kind \in {"unconfirmed", "lost"} \/ \E r \in Pending' : r.ev = e
      BY <1>6, <1>24, <3>4
    <3>9. e \in unconfirmed' \cup lost' \/ \E r \in Pending' : r.ev = e
      BY <3>3, <3>8
    <3>10. phase \in {"run", "stop"} => \A x \in since + 1 .. events' :
             x \in published \cup unconfirmed' \cup lost' \/ \E r \in Pending' : r.ev = x
      <4>1. unconfirmed \subseteq unconfirmed' /\ lost \subseteq lost'
        BY <3>3
      <4> QED
        BY <1>24, <2>1, <2>2, <3>9, <4>1
    <3> QED
      BY <1>0, <3>2, <3>5, <3>6, <3>7, <3>10 DEF CountersHonest
  <2> QED
    BY <2>3, <2>4
<1> QED
  BY <1>14, <1>15, <1>16, <1>18, <1>19, <1>20, <1>21, <1>22, <1>23, <1>25
    DEF IInv, BybitInv, CleanStopReplaysNothing

(***************************************************************************)
(* The theorems                                                            *)
(***************************************************************************)

\* The channel before the first start.
LEMMA InitSafe == Init => IInv
<1> SUFFICES ASSUME Init PROVE IInv
  OBVIOUS
<1>1. MaxEvents \in Nat /\ NoSeq = -1
  BY BybitAssumption DEF NoSeq
<1>2. row \in [ev : 0 .. MaxEvents, seq : NoSeq .. MaxEvents, safe : BOOLEAN] /\ row.ev = 0
  BY <1>1 DEF Init, NoRow, Row
<1>3. TypeOK
  <2>1. /\ ckpt \in NoSeq .. MaxEvents /\ last \in NoSeq .. MaxEvents /\ hwm \in NoSeq .. MaxEvents
        /\ events \in 0 .. MaxEvents /\ since \in 0 .. events
    BY <1>1 DEF Init
  <2> QED
    BY <1>2, <2>1 DEF Init, TypeOK
<1>4. CheckpointSound /\ LogKept /\ CountedDegraded /\ CountersHonest /\ Pending = {}
  BY <1>1, <1>2 DEF Init, CheckpointSound, LogKept, CountedDegraded, CountersHonest, Pending
<1> QED
  BY <1>3, <1>4 DEF Init, IInv, BybitInv, CleanStopReplaysNothing

\* Every step keeps the invariant.
LEMMA StepSafe == IInv /\ [Next]_vars => IInv'
<1> SUFFICES ASSUME IInv, [Next]_vars PROVE IInv'
  OBVIOUS
<1>1. CASE Start
  BY <1>1, StartSafe
<1>2. CASE ReplayNext
  BY <1>2, ReplayNextSafe
<1>3. CASE ReplayDone \/ Built \/ IdleTick \/ Reopened \/ CloseWriter \/ Shutdown
  <2>1. phase # "down"
    BY <1>3, PartsOf DEF ReplayDone, Built, IdleTick, Reopened, CloseWriter, Shutdown
  <2>2. Still /\ UNCHANGED <<corrupt, logFailed, full, row, replay>>
    BY <1>3 DEF ReplayDone, Built, IdleTick, Reopened, CloseWriter, Shutdown, Still, disk, journal,
      check, writer, counts, past
  <2> QED
    BY <1>3, <2>1, <2>2, MoveSafe
<1>4. CASE Counted \/ WriteRow \/ Publish \/ DurableHook \/ WriterRaises
  <2>1. pc # "idle"
    BY <1>4, RaisesAt DEF Counted, WriteRow, Publish, DurableHook, Stages
  <2>2. phase # "down"
    BY <2>1, PartsOf
  <2> QED
    BY <1>4, <2>2, CountedSafe, WriteRowSafe, PublishSafe, DurableHookSafe, WriterRaisesSafe
<1>5. CASE CloseLog
  BY <1>5, CloseLogSafe
<1>6. CASE Unbuilt \/ Kill
  BY <1>6, DiesSafe DEF Unbuilt, Kill
<1>7. CASE Emit
  BY <1>7, EmitSafe
<1>8. CASE Corrupt
  BY <1>8, CorruptSafe
<1>9. CASE UNCHANGED vars
  BY <1>9 DEF vars, disk, journal, check, writer, counts, past, IInv, BybitInv, TypeOK,
    CheckpointSound, LogKept, CountedDegraded, CounterAhead, ReplayFirst, RowPlaced, Writing, Held,
    CountersHonest, CleanStopReplaysNothing, Pending
<1> QED
  BY <1>1, <1>2, <1>3, <1>4, <1>5, <1>6, <1>7, <1>8, <1>9 DEF Next, Work

\* IInv holds in every state of the channel.
LEMMA Invariance == Spec => []IInv
<1>1. Init => IInv
  BY InitSafe
<1>2. IInv /\ [Next]_vars => IInv'
  BY StepSafe
<1> QED
  BY <1>1, <1>2, PTL DEF Spec

\* run_bybit_collector.py, across any kills, failed constructions, unreadable logs and
\* raising writers: checkpoint N on disk means every event logged up to N is in a
\* published segment, and no record leaves the log before the checkpoint covers it.
THEOREM ChannelInvariant == Spec => []BybitInv
<1>1. IInv => BybitInv
  BY DEF IInv
<1> QED
  BY <1>1, Invariance, PTL

\* quality_channel_status of run_bybit_collector.py: the three counters are disjoint, none
\* claims more than the disk holds, and no event of the process is left out.
THEOREM CountersAlwaysHonest == Spec => []CountersHonest
<1>1. IInv => CountersHonest
  BY DEF IInv
<1> QED
  BY <1>1, Invariance, PTL

\* shutdown() of run_bybit_collector.py: after an orderly stop whose checkpoint was never
\* blocked, the next start finds nothing to replay.
THEOREM CleanStopAlwaysReplaysNothing == Spec => []CleanStopReplaysNothing
<1>1. IInv => CleanStopReplaysNothing
  BY DEF IInv
<1> QED
  BY <1>1, Invariance, PTL

(***************************************************************************)
(* OKX's raw capture                                                       *)
(***************************************************************************)

\* The inductive invariant, without the ledger.
Inv == ClientKept /\ StopKept

Late == {"draining", "ended", "cancelled"}

\* A step of the client that moves no frame.
Calm(c, d) ==
  /\ d.fate = c.fate /\ d.queue = c.queue /\ d.work = c.work /\ d.discard = c.discard
  /\ d.worker # "busy" /\ (d.worker = "none" => d.queue = <<>> /\ d.at # "receiving")
  /\ c.at \in Late => d.at \in Late
  /\ d.at = "ended" => d.queue = <<>>
  /\ d.at = "cancelled" => c.at = "cancelled" \/ terminal

LEMMA CalmStep ==
  ASSUME Inv, Sound(client'), Calm(client, client'), UNCHANGED <<wire, terminal>>, serial' \in Nat,
         app' # "closed", app' = "cancelling" => terminal
  PROVE  Inv'
<1>1. Received(client') = 1 .. Len(wire')
  BY DEF Inv, ClientKept, Calm, Received
<1>2. ClientKept'
  BY <1>1 DEF Inv, ClientKept, Calm, Sound
<1>3. StopKept'
  BY DEF Inv, StopKept, Calm, Late
<1> QED
  BY <1>2, <1>3 DEF Inv

\* Nothing happens to the client.
LEMMA Untouched == ASSUME Inv, app # "closed" PROVE Sound(client) /\ Calm(client, client)
BY DEF Inv, ClientKept, StopKept, Sound, Calm

\* What the invariant says of the client.
LEMMA Kept ==
  ASSUME Inv
  PROVE  /\ Sound(client) /\ client \in Client /\ Consistent(client) /\ NotStranded(client)
         /\ client.work = NoFrame
         /\ client.at = "ended" => client.queue = <<>>
         /\ client.worker # "busy"
         /\ client.worker = "none" => client.queue = <<>> /\ client.at # "receiving"
BY DEF Inv, ClientKept, StopKept, Sound, Consistent

LEMMA LeaveCalm ==
  ASSUME Inv, client.held = NoFrame, client.at \in {"connecting", "receiving"}
  PROVE  Sound(Leave(client)) /\ Calm(client, Leave(client))
<1>1. Sound(Leave(client))
  BY Kept, LeaveSound
<1>2. Calm(client, Leave(client))
  BY Kept DEF Leave, Client, Calm, Late
<1> QED
  BY <1>1, <1>2

LEMMA DisconnectCalm ==
  ASSUME Inv, client.held = NoFrame, client.at \in {"connecting", "receiving"}
  PROVE  Sound(Disconnect(client)) /\ Calm(client, Disconnect(client))
<1>1. Sound(Disconnect(client))
  BY Kept, DisconnectSound
<1>2. Calm(client, Disconnect(client))
  BY Kept DEF Disconnect, Leave, Client, Calm, Late
<1> QED
  BY <1>1, <1>2

LEMMA ConnectCalm ==
  ASSUME Inv, client.at = "connecting" PROVE Sound(Connect(client)) /\ Calm(client, Connect(client))
<1>1. Sound(Connect(client))
  BY Kept, ConnectSound
<1>2. Calm(client, Connect(client))
  BY Kept DEF Connect, Client, Calm, Late
<1> QED
  BY <1>1, <1>2

LEMMA RetryCalm ==
  ASSUME Inv, client.at = "backoff" PROVE Sound(Retry(client)) /\ Calm(client, Retry(client))
<1>1. Sound(Retry(client))
  BY Kept, RetrySound
<1>2. Calm(client, Retry(client))
  BY Kept DEF Retry, Client, Calm, Late
<1> QED
  BY <1>1, <1>2

LEMMA ExitCalm ==
  ASSUME Inv, client.worker = "waiting", MayExit(client)
  PROVE  LET d == [client EXCEPT !.worker = "exited"] IN Sound(d) /\ Calm(client, d)
<1>1. Sound([client EXCEPT !.worker = "exited"])
  BY Kept, ExitSound
<1>2. Calm(client, [client EXCEPT !.worker = "exited"])
  BY Kept DEF Client, Calm, Late
<1> QED
  BY <1>1, <1>2

LEMMA StopCalm ==
  ASSUME Inv PROVE Sound(Stop(client)) /\ Calm(client, Stop(client))
<1>1. Sound(Stop(client))
  BY Kept, StopSound
<1>2. Calm(client, Stop(client))
  BY Kept DEF Stop, Client, Calm, Late
<1> QED
  BY <1>1, <1>2

\* No frame is left in the queue of a client whose worker had its turn.
LEMMA TurnEmpties == ASSUME Inv, Turn PROVE client.queue = <<>>
BY Kept DEF Turn, NotStranded, Client, Workers

LEMMA DrainedCalm ==
  ASSUME Inv, Turn, client.at = "draining"
  PROVE  Sound(Drained(client)) /\ Calm(client, Drained(client))
<1>1. client.queue = <<>> /\ client.work = NoFrame
  BY Kept, TurnEmpties
<1>2. Sound(Drained(client))
  BY <1>1, Kept, DrainedSound
<1>3. Calm(client, Drained(client))
  BY <1>1, Kept DEF Drained, Client, Calm, Late
<1> QED
  BY <1>2, <1>3

\* The task is cancelled, wherever it is.
LEMMA CancelCalm ==
  ASSUME Inv, terminal, client.at \notin {"ended", "cancelled"}
  PROVE  LET d == [client EXCEPT !.at = "cancelled"] IN Sound(d) /\ Calm(client, d)
<1> DEFINE d == [client EXCEPT !.at = "cancelled"]
<1>1. d \in Client /\ NotStranded(d)
  BY Kept DEF Client, Places, NotStranded
<1>2. /\ d.queue = client.queue /\ d.held = client.held /\ d.work = client.work
      /\ d.fate = client.fate /\ d.discard = client.discard /\ d.running = client.running
      /\ d.connected = client.connected /\ d.worker = client.worker /\ d.at = "cancelled"
  BY Kept DEF Client
<1> HIDE DEF d
<1>3. Sound(d)
  BY <1>1, <1>2, Kept, Control DEF Consistent
<1>4. Calm(client, d)
  BY <1>2, Kept DEF Calm, Late
<1> QED
  BY <1>3, <1>4 DEF d

\* The queue emptied by the worker.
Emptied(c, fate) ==
  [c EXCEPT !.queue = <<>>,
     !.fate = [f \in Frame |-> IF Contains(c.queue, f) THEN fate ELSE @[f]]]

\* The worker empties the queue: every frame in it is settled.
LEMMA DrainSound ==
  ASSUME NEW c, Sound(c), c.work = NoFrame, c.worker = "waiting",
         NEW fate \in {"processed", "discarded"}, NEW d, d = Emptied(c, fate)
  PROVE  /\ Sound(d) /\ d.queue = <<>> /\ d.at = c.at /\ d.worker = c.worker
         /\ d.work = c.work /\ d.discard = c.discard /\ Received(d) = Received(c)
         /\ \A f \in Frame : d.fate[f] \in {c.fate[f], fate}
<1> DEFINE q == c.queue
           fates == [f \in Frame |-> IF Contains(q, f) THEN fate ELSE c.fate[f]]
<1>1. /\ c \in Client /\ q \in Seq(Frame) /\ Len(q) \in Nat /\ QueueMax \in Nat
      /\ c.fate \in [Frame -> Fates] /\ NotStranded(c) /\ Consistent(c) /\ Ordered(c)
      /\ 0 \notin Frame /\ Frame \subseteq Nat /\ NoFrame = 0
  BY Parts, ClientAssumption DEF Client
<1>2. d = [c EXCEPT !.queue = <<>>, !.fate = fates]
  BY <1>1 DEF Client, Emptied
<1>3. fates \in [Frame -> Fates]
  <2>1. fate \in Fates
    BY DEF Fates
  <2> QED
    BY <1>1, <2>1
<1> HIDE DEF fates
<1>4. /\ d.queue = <<>> /\ d.held = c.held /\ d.work = c.work /\ d.at = c.at
      /\ d.worker = c.worker /\ d.running = c.running /\ d.connected = c.connected
      /\ d.discard = c.discard /\ d.fate = fates /\ d \in Client
  <2>1. <<>> \in Seq(Frame)
    OBVIOUS
  <2> QED
    BY <1>1, <1>2, <1>3, <2>1 DEF Client
<1>5. \A f \in Frame : d.fate[f] = IF Contains(q, f) THEN fate ELSE c.fate[f]
  BY <1>4 DEF fates
<1>6. \A f \in Frame : Contains(q, f) <=> \E i \in 1 .. Len(q) : q[i] = f
  BY <1>1 DEF Contains
<1>7. /\ \A f \in Frame : c.fate[f] = "piped" <=>
           f = c.held \/ \E i \in 1 .. Len(q) : q[i] = f
      /\ \A i \in 1 .. Len(q) : c.held # NoFrame => q[i] < c.held
  BY <1>1 DEF Ordered
<1>8. c.held # NoFrame => \A i \in 1 .. Len(q) : q[i] # c.held
  <2>1. \A i \in 1 .. Len(q) : q[i] \in Nat
    BY <1>1
  <2>2. c.held \in Nat
    BY <1>1 DEF Client
  <2> QED
    BY <1>7, <2>1, <2>2
<1>9. ASSUME NEW f \in Frame PROVE d.fate[f] = "piped" <=> f = c.held
  <2>1. CASE Contains(q, f)
    <3>1. fate # "piped" /\ f # c.held
      BY <1>1, <1>6, <1>8, <2>1
    <3> QED
      BY <1>5, <2>1, <3>1
  <2>2. CASE ~Contains(q, f)
    BY <1>5, <1>6, <1>7, <2>2
  <2> QED
    BY <2>1, <2>2
<1>10. Len(d.queue) = 0
  BY <1>4
<1>11. Ordered(d)
  <2>1. 1 .. Len(d.queue) = {}
    BY <1>10
  <2> QED
    BY <1>1, <1>4, <1>9, <2>1 DEF Ordered
<1>12. \A f \in Frame : Contains(q, f) => c.fate[f] = "piped"
  BY <1>6, <1>7
<1>13. /\ \A f \in Frame : d.fate[f] = "none" <=> c.fate[f] = "none"
       /\ \A f \in Frame : d.fate[f] = "refused" <=> c.fate[f] = "refused"
  BY <1>5, <1>12
<1>14. Sound(d)
  <2>1. Len(d.queue) <= QueueMax /\ NotStranded(d)
    BY <1>1, <1>4, <1>10 DEF NotStranded
  <2>2. /\ c.discard => ~c.running /\ ~c.connected
        /\ c.at = "idle" => c.worker = "none"
        /\ c.held # NoFrame => c.at \in {"receiving", "cancelled"}
    BY <1>1 DEF Consistent
  <2> QED
    BY <1>4, <1>11, <1>13, <2>1, <2>2, Moves
<1>15. Received(d) = Received(c)
  BY <1>13 DEF Received
<1> QED
  BY <1>4, <1>5, <1>14, <1>15

\* What arrives is the next frame, and the wire is what was received.
LEMMA Arrives ==
  ASSUME Inv, NEW f \in Frame, f = Len(wire) + 1, client.at = "receiving",
         NEW kind \in Kinds, NEW ch \in Channels \cup {Unattributed},
         wire' = Append(wire, Message(kind, ch)),
         \A g \in Frame \ {f} : client'.fate[g] = client.fate[g], client'.fate[f] # "none"
  PROVE  /\ f = Cardinality(Received(client)) + 1
         /\ wire' \in Seq(Messages) /\ Received(client') = 1 .. Len(wire')
         /\ \A g \in Frame : client.fate[g] # "abandoned"
<1>1. wire \in Seq(Messages) /\ serial \in Nat /\ Received(client) = 1 .. Len(wire)
  BY DEF Inv, ClientKept
<1>2. Len(wire) \in Nat
  BY <1>1
<1>3. Cardinality(Received(client)) = Len(wire)
  <2>1. \A n \in Nat : Cardinality(1 .. n) = n
    BY FS_Interval
  <2> QED
    BY <1>1, <1>2, <2>1
<1>4. Message(kind, ch) \in Messages
  BY <1>1 DEF Message, Messages
<1>5. wire' \in Seq(Messages) /\ Len(wire') = f
  BY <1>1, <1>4
<1>6. Received(client') = 1 .. f
  <2>1. \A g \in Frame : g \in Received(client') <=> g \in Received(client) \/ g = f
    BY DEF Received
  <2>2. \A g \in Frame : g \in 1 .. f <=> g \in 1 .. Len(wire) \/ g = f
    BY <1>2 DEF Frame
  <2>3. 1 .. f \subseteq Frame /\ Received(client') \subseteq Frame
    BY ClientAssumption DEF Frame, Received
  <2> QED
    BY <1>1, <2>1, <2>2, <2>3
<1>7. \A g \in Frame : client.fate[g] # "abandoned"
  BY DEF Inv, StopKept
<1> QED
  BY <1>3, <1>5, <1>6, <1>7

\* A frame that was captured raw is in the queue or in front of it.
LEMMA AcceptIs ==
  ASSUME Inv, Receiving, NEW f \in Frame, client' = Accept(client, f)
  PROVE  /\ client'.at = client.at /\ client'.worker = client.worker
         /\ client'.discard = client.discard /\ client'.work = client.work
         /\ \A g \in Frame : client'.fate[g] = IF g = f THEN "piped" ELSE client.fate[g]
<1> DEFINE c == client
           e == [c EXCEPT !.fate[f] = "piped"]
<1>1. c \in Client /\ c.at = "receiving" /\ c.held = NoFrame /\ c.worker \notin {"none", "busy"}
  BY Kept DEF Receiving
<1>2. e \in Client /\ e.fate = [c.fate EXCEPT ![f] = "piped"]
      /\ e.at = c.at /\ e.worker = c.worker /\ e.discard = c.discard /\ e.work = c.work
  <2>1. [c.fate EXCEPT ![f] = "piped"] \in [Frame -> Fates]
    BY <1>1 DEF Client, Fates
  <2>2. e = [c EXCEPT !.fate = [c.fate EXCEPT ![f] = "piped"]]
    BY <1>1 DEF Client
  <2> QED
    BY <1>1, <2>1, <2>2 DEF Client
<1> HIDE DEF e
<1>3. client'.fate = e.fate /\ client'.at = c.at /\ client'.worker = c.worker
      /\ client'.discard = c.discard /\ client'.work = c.work
  <2>1. client' = IF Len(e.queue) < QueueMax
                  THEN [e EXCEPT !.queue = Append(e.queue, f), !.held = NoFrame]
                  ELSE [e EXCEPT !.held = f]
    BY <1>2 DEF Accept, Offer, Client, e
  <2>2. CASE client' = [e EXCEPT !.queue = Append(e.queue, f), !.held = NoFrame]
    BY <1>2, <2>2 DEF Client
  <2>3. CASE client' = [e EXCEPT !.held = f]
    BY <1>2, <2>3 DEF Client
  <2> QED
    BY <2>1, <2>2, <2>3
<1>4. \A g \in Frame : client'.fate[g] = IF g = f THEN "piped" ELSE c.fate[g]
  BY <1>1, <1>2, <1>3 DEF Client
<1> QED
  BY <1>3, <1>4

LEMMA AcceptStep ==
  ASSUME Inv, Receiving, client.running, NEW f \in Frame, f = Len(wire) + 1,
         NEW kind \in Kinds, NEW ch \in Channels \cup {Unattributed},
         wire' = Append(wire, Message(kind, ch)), client' = Accept(client, f),
         UNCHANGED <<serial, terminal, app, status>>, app # "closed"
  PROVE  Inv'
<1> DEFINE c == client
<1>1. c \in Client /\ c.at = "receiving" /\ c.held = NoFrame /\ c.worker \notin {"none", "busy"}
  BY Kept DEF Receiving
<1>2. client'.at = c.at /\ client'.worker = c.worker /\ client'.discard = c.discard
      /\ client'.work = c.work
  BY AcceptIs
<1>3. \A g \in Frame : client'.fate[g] = IF g = f THEN "piped" ELSE c.fate[g]
  BY AcceptIs
<1>4. /\ f = Cardinality(Received(c)) + 1
      /\ wire' \in Seq(Messages) /\ Received(client') = 1 .. Len(wire')
      /\ \A g \in Frame : c.fate[g] # "abandoned"
  BY <1>1, <1>3, Arrives
<1>5. Sound(client')
  BY <1>1, <1>4, Kept, AcceptSound
<1>6. ClientKept'
  BY <1>1, <1>2, <1>4, <1>5 DEF Sound, ClientKept, Inv
<1>7. StopKept'
  BY <1>1, <1>2, <1>3, <1>4 DEF StopKept, Inv
<1> QED
  BY <1>6, <1>7 DEF Inv

\* A frame that could not be captured raw.
LEMMA RefuseStep ==
  ASSUME Inv, Receiving, client.running, NEW f \in Frame, f = Len(wire) + 1,
         NEW kind \in Kinds, NEW ch \in Channels \cup {Unattributed},
         wire' = Append(wire, Message(kind, ch)), client' = Refuse(client, f), terminal',
         UNCHANGED <<serial, app, status>>, app # "closed"
  PROVE  Inv'
<1> DEFINE c == client
           e == [c EXCEPT !.fate[f] = "refused"]
           d == Latch(e)
<1>1. c \in Client /\ c.at = "receiving" /\ c.held = NoFrame /\ c.worker \notin {"none", "busy"}
  BY Kept DEF Receiving
<1>2. e \in Client /\ e.fate = [c.fate EXCEPT ![f] = "refused"]
      /\ e.at = c.at /\ e.worker = c.worker /\ e.queue = c.queue /\ e.work = c.work
  <2>1. [c.fate EXCEPT ![f] = "refused"] \in [Frame -> Fates]
    BY <1>1 DEF Client, Fates
  <2>2. e = [c EXCEPT !.fate = [c.fate EXCEPT ![f] = "refused"]]
    BY <1>1 DEF Client
  <2> QED
    BY <1>1, <2>1, <2>2 DEF Client
<1> HIDE DEF e
<1>3. d \in Client /\ d.fate = e.fate /\ d.worker = c.worker /\ ~d.running /\ d.queue = c.queue
      /\ d.work = c.work
  BY <1>2 DEF Latch, Stop, Client
<1>4. client' = Leave(d)
  BY DEF Refuse, e
<1> HIDE DEF d
<1>5. client'.fate = e.fate /\ client'.at = "draining" /\ client'.worker = c.worker
      /\ client'.queue = c.queue /\ client'.work = c.work
  BY <1>3, <1>4 DEF Leave, Client
<1>6. \A g \in Frame : client'.fate[g] = IF g = f THEN "refused" ELSE c.fate[g]
  BY <1>1, <1>2, <1>5 DEF Client
<1>7. /\ f = Cardinality(Received(c)) + 1
      /\ wire' \in Seq(Messages) /\ Received(client') = 1 .. Len(wire')
      /\ \A g \in Frame : c.fate[g] # "abandoned"
  BY <1>1, <1>6, Arrives
<1>8. Sound(client') /\ client'.discard
  BY <1>1, <1>7, Kept, RefuseSound
<1>9. ClientKept'
  BY <1>1, <1>5, <1>7, <1>8 DEF Sound, ClientKept, Inv
<1>10. StopKept'
  BY <1>5, <1>6, <1>7, <1>8 DEF StopKept, Inv
<1> QED
  BY <1>9, <1>10 DEF Inv

\* The wait in front of the queue is over.
LEMMA RepollStep ==
  ASSUME Inv, client.at = "receiving", client.held # NoFrame, client' = Repoll(client),
         UNCHANGED <<wire, serial, terminal, app, status>>, app # "closed"
  PROVE  Inv'
<1> DEFINE c == client
           h == client.held
<1>1. /\ c \in Client /\ c.worker \notin {"none", "busy"} /\ h \in Frame
      /\ c.fate[h] = "piped" /\ wire \in Seq(Messages) /\ Received(c) = 1 .. Len(wire)
  BY Kept, Parts DEF Inv, ClientKept
<1>2. Sound(client')
  BY Kept, RepollSound
<1>3. \A g \in Frame : c.fate[g] # "abandoned"
  BY DEF Inv, StopKept
<1>4. CASE c.running
  <2>1. client' = IF Len(c.queue) < QueueMax
                  THEN [c EXCEPT !.queue = Append(c.queue, h), !.held = NoFrame]
                  ELSE [c EXCEPT !.held = h]
    BY <1>1, <1>4 DEF Repoll, Offer, Client
  <2>2. /\ client'.fate = c.fate /\ client'.at = c.at /\ client'.worker = c.worker
        /\ client'.discard = c.discard /\ client'.work = c.work
    <3>1. CASE client' = [c EXCEPT !.queue = Append(c.queue, h), !.held = NoFrame]
      BY <1>1, <3>1 DEF Client
    <3>2. CASE client' = [c EXCEPT !.held = h]
      BY <1>1, <3>2 DEF Client
    <3> QED
      BY <2>1, <3>1, <3>2
  <2>3. Received(client') = 1 .. Len(wire')
    BY <1>1, <2>2 DEF Received
  <2>4. ClientKept'
    BY <1>1, <1>2, <2>2, <2>3 DEF Sound, ClientKept, Inv
  <2>5. StopKept'
    BY <1>3, <2>2 DEF StopKept, Inv
  <2> QED
    BY <2>4, <2>5 DEF Inv
<1>5. CASE ~c.running
  <2> DEFINE d == [c EXCEPT !.fate[h] = "abandoned", !.held = NoFrame]
  <2>1. client' = Leave(d)
    BY <1>5 DEF Repoll
  <2>2. /\ d \in Client /\ d.fate = [c.fate EXCEPT ![h] = "abandoned"] /\ ~d.running
        /\ d.worker = c.worker /\ d.discard = c.discard /\ d.work = c.work
    <3>1. [c.fate EXCEPT ![h] = "abandoned"] \in [Frame -> Fates]
      BY <1>1 DEF Client, Fates
    <3>2. d = [c EXCEPT !.fate = [c.fate EXCEPT ![h] = "abandoned"], !.held = NoFrame]
      BY <1>1 DEF Client
    <3> QED
      BY <1>1, <1>5, <3>1, <3>2 DEF Client
  <2> HIDE DEF d
  <2>3. /\ client'.fate = d.fate /\ client'.at = "draining" /\ client'.worker = c.worker
        /\ client'.discard = c.discard /\ client'.work = c.work
    BY <2>1, <2>2 DEF Leave, Client
  <2>4. \A g \in Frame : client'.fate[g] = IF g = h THEN "abandoned" ELSE c.fate[g]
    BY <1>1, <2>2, <2>3 DEF Client
  <2>5. Received(client') = 1 .. Len(wire')
    <3>1. Received(client') = Received(c)
      BY <1>1, <2>4 DEF Received
    <3> QED
      BY <1>1, <3>1
  <2>6. ClientKept'
    BY <1>1, <1>2, <2>3, <2>5 DEF Sound, ClientKept, Inv
  <2>7. StopKept'
    BY <1>3, <2>3, <2>4 DEF StopKept, Inv
  <2> QED
    BY <2>6, <2>7 DEF Inv
<1> QED
  BY <1>4, <1>5

\* The worker's turn.
LEMMA DrainStep == ASSUME Inv, WorkerDrains, app # "closed" PROVE Inv'
<1> DEFINE fate == IF client.discard THEN "discarded" ELSE "processed"
<1>1. /\ client' = Emptied(client, fate)
      /\ client.worker = "waiting" /\ UNCHANGED <<wire, serial, terminal, app, status>>
  BY DEF WorkerDrains, Becomes, Emptied, proc
<1>2. fate \in {"processed", "discarded"} /\ (fate = "discarded" => client.discard)
  OBVIOUS
<1> HIDE DEF fate
<1>3. Sound(client) /\ client.work = NoFrame
  BY <1>1, Kept DEF Consistent
<1>4. /\ Sound(client') /\ client'.queue = <<>> /\ client'.at = client.at
      /\ client'.worker = client.worker /\ client'.discard = client.discard
      /\ client'.work = client.work
      /\ Received(client') = Received(client)
      /\ \A f \in Frame : client'.fate[f] \in {client.fate[f], fate}
  BY <1>1, <1>2, <1>3, DrainSound
<1>5. ClientKept'
  BY <1>1, <1>4 DEF Sound, ClientKept, Inv
<1>6. StopKept'
  BY <1>1, <1>2, <1>4 DEF StopKept, Inv
<1> QED
  BY <1>5, <1>6 DEF Inv

\* The first state.
LEMMA InitInv == CaptureInit => Inv
<1> SUFFICES ASSUME CaptureInit PROVE Inv
  OBVIOUS
<1> USE ClientAssumption DEF CaptureInit
<1>0. /\ New \in Client /\ New.queue = <<>> /\ New.held = NoFrame /\ New.work = NoFrame
      /\ New.worker = "none" /\ New.discard = FALSE /\ \A f \in Frame : New.fate[f] = "none"
  BY DEF New, Client, Places, Workers, Fates
<1>1. /\ client \in Client /\ client.queue = <<>> /\ client.held = NoFrame
      /\ client.work = NoFrame /\ client.at = "connecting" /\ client.worker = "none"
      /\ client.discard = FALSE /\ \A f \in Frame : client.fate[f] = "none"
  BY <1>0 DEF Begin, Client, Places
<1>2. Len(client.queue) = 0 /\ 0 <= QueueMax
  BY <1>1
<1>3. Ordered(client)
  <2>1. \A f \in Frame : f # NoFrame
    BY DEF Frame, NoFrame
  <2> QED
    BY <1>1, <1>2, <2>1 DEF Ordered
<1>4. Received(client) = 1 .. 0 /\ 0 \in 0 .. MaxFrames
  BY <1>1 DEF Received
<1>5. Consistent(client) /\ NotStranded(client)
  BY <1>1, <1>4 DEF Consistent, NotStranded
<1>6. Sound(client)
  BY <1>1, <1>2, <1>3, <1>5, SoundParts
<1>7. wire \in Seq(Messages) /\ Len(wire) = 0 /\ serial \in Nat
  OBVIOUS
<1>8. ClientKept
  BY <1>1, <1>4, <1>6, <1>7 DEF ClientKept, Sound
<1>9. StopKept
  BY <1>1 DEF StopKept
<1> QED
  BY <1>8, <1>9 DEF Inv

\* The steps of the connection and its worker.
LEMMA ClientSteps == ASSUME Inv, ClientStep, app # "closed" PROVE Inv'
<1> USE DEF Becomes
<1>1. serial \in Nat /\ (app = "cancelling" => terminal)
  BY DEF Inv, ClientKept, StopKept
<1>2. client.at \in {"connecting", "backoff"} => client.held = NoFrame
  BY Kept DEF Consistent
<1>3. ASSUME Sound(client'), Calm(client, client'), serial' \in Nat,
             UNCHANGED <<wire, terminal, app>>
      PROVE  Inv'
  BY <1>1, <1>3, CalmStep
<1>4. CASE ConnectFails
  BY <1>1, <1>2, <1>3, <1>4, DisconnectCalm DEF ConnectFails, link, proc
<1>5. CASE Connects
  <2>1. serial' \in Nat /\ UNCHANGED <<wire, terminal, app>>
    BY <1>1, <1>5 DEF Connects, link, proc
  <2>2. client' \in {Connect(client), Disconnect(client)}
    BY <1>5 DEF Connects
  <2> QED
    BY <1>2, <1>3, <1>5, <2>1, <2>2, ConnectCalm, DisconnectCalm DEF Connects
<1>6. CASE DelayEnds
  <2>1. Sound(Retry(client)) /\ Calm(client, Retry(client))
    BY <1>6, RetryCalm DEF DelayEnds
  <2> QED
    BY <1>1, <1>3, <1>6, <2>1 DEF DelayEnds, link, proc
<1>7. CASE FrameArrives
  <2> DEFINE f == Len(wire) + 1
  <2>1. f \in Frame /\ Receiving /\ UNCHANGED <<serial, app, status>>
    BY <1>7 DEF FrameArrives, link
  <2>2. CASE ~client.running
    BY <1>1, <1>3, <1>7, <2>1, <2>2, LeaveCalm DEF FrameArrives, Receiving, link
  <2>3. CASE client.running
    <3>1. PICK kind \in Kinds, ch \in Channels \cup {Unattributed} :
            /\ wire' = Append(wire, Message(kind, ch))
            /\ \/ client' = Accept(client, f) /\ UNCHANGED terminal
               \/ client' = Refuse(client, f) /\ terminal' = TRUE
      BY <1>7, <2>3 DEF FrameArrives
    <3> HIDE DEF f
    <3>2. f = Len(wire) + 1
      BY DEF f
    <3> QED
      BY <2>1, <2>3, <3>1, <3>2, AcceptStep, RefuseStep
  <2> QED
    BY <1>7, <2>2, <2>3 DEF FrameArrives
<1>8. CASE QueueWaitEnds
  BY <1>8, RepollStep DEF QueueWaitEnds, link, proc
<1>9. CASE SocketCloses
  <2>1. client' \in {Leave(client), Disconnect(client)}
    BY <1>9 DEF SocketCloses
  <2> QED
    BY <1>1, <1>3, <1>9, <2>1, LeaveCalm, DisconnectCalm DEF SocketCloses, Receiving, link, proc
<1>10. CASE Ping
  BY <1>1, <1>3, <1>10, Untouched DEF Ping, proc
<1>11. CASE PongOverdue
  BY <1>1, <1>3, <1>11, DisconnectCalm DEF PongOverdue, Receiving, proc
<1>12. CASE WorkerDrains
  BY <1>12, DrainStep
<1>13. CASE WorkerLeaves
  BY <1>1, <1>3, <1>13, ExitCalm DEF WorkerLeaves, link, proc
<1>14. CASE JoinReturns
  BY <1>1, <1>3, <1>14, DrainedCalm DEF JoinReturns, link, proc
<1> QED
  BY <1>4, <1>5, <1>6, <1>7, <1>8, <1>9, <1>10, <1>11, <1>12, <1>13, <1>14 DEF ClientStep

\* No step breaks the invariant.
LEMMA StepInv == ASSUME Inv, [CaptureNext]_capture PROVE Inv'
<1>1. CASE ClientStep /\ app # "closed"
  BY <1>1, ClientSteps
<1>2. CASE Signal
  BY <1>2, StopCalm, CalmStep DEF Signal, Becomes, link, proc, Inv, ClientKept
<1>3. ASSUME NEW reason, WaitEnds(reason) PROVE Inv'
  BY <1>3, StopCalm, CalmStep DEF WaitEnds, Becomes, link, Inv, ClientKept
<1>4. CASE CancelTask
  <2>1. terminal /\ serial \in Nat
    BY <1>4 DEF CancelTask, Inv, ClientKept, StopKept
  <2> QED
    BY <1>4, <2>1, CancelCalm, CalmStep DEF CancelTask, Becomes, link, proc
<1>5. CASE Close
  <2>1. ClientKept'
    BY <1>5 DEF Close, link, Inv, ClientKept
  <2>2. StopKept'
    BY <1>5 DEF Close, link, Inv, StopKept, ExitCode
  <2> QED
    BY <2>1, <2>2 DEF Inv
<1>6. CASE UNCHANGED capture
  <2>1. ClientKept'
    BY <1>6 DEF capture, Inv, ClientKept
  <2>2. StopKept'
    BY <1>6 DEF capture, Inv, StopKept, ExitCode
  <2> QED
    BY <2>1, <2>2 DEF Inv
<1> QED
  BY <1>1, <1>2, <1>3, <1>4, <1>5, <1>6 DEF CaptureNext

\* The invariant says how a process ends.
LEMMA InvEnds == Inv => OkxStops
<1> SUFFICES ASSUME Inv, app = "closed" PROVE OkxStops
  BY DEF OkxStops, RefusedFrameExits70, StopDrains
<1>1. status = ExitCode /\ client.at \in {"ended", "cancelled"}
  BY DEF Inv, StopKept
<1>2. RefusedFrameExits70
  BY <1>1, Kept DEF RefusedFrameExits70, ExitCode, Consistent, Inv, StopKept
<1>3. ASSUME ~terminal
      PROVE  /\ \A f \in Frame : client.fate[f] \in {"none", "processed", "abandoned"}
             /\ Cardinality({f \in Frame : client.fate[f] = "abandoned"}) <= 1
  <2> DEFINE A == {f \in Frame : client.fate[f] = "abandoned"}
  <2>1. /\ client.at = "ended" /\ ~client.discard /\ client.queue = <<>>
        /\ client.held = NoFrame /\ client.worker # "busy"
    BY <1>1, <1>3, Kept DEF Inv, StopKept, Consistent
  <2>2. \A f \in Frame : client.fate[f] \in Fates \ {"refused", "error", "discarded"}
    BY <2>1, Kept DEF Inv, StopKept, Consistent, Client
  <2>3. \A f \in Frame : client.fate[f] # "piped"
    <3>1. Ordered(client) /\ Len(client.queue) = 0 /\ 0 \notin Frame /\ NoFrame = 0
      BY <2>1, Kept, Parts
    <3>2. client.work = NoFrame
      BY Kept
    <3> QED
      BY <2>1, <3>1, <3>2 DEF Ordered
  <2>4. \A f, g \in A : f = g
    BY DEF Inv, StopKept
  <2>5. Cardinality(A) <= 1
    <3>1. CASE A = {}
      BY <3>1, FS_EmptySet
    <3>2. ASSUME NEW f \in A PROVE Cardinality(A) <= 1
      <4>1. A = {f}
        BY <2>4
      <4> HIDE DEF A
      <4> QED
        BY <4>1, FS_Singleton
    <3> QED
      BY <3>1, <3>2
  <2> QED
    BY <2>2, <2>3, <2>5 DEF Fates
<1> QED
  BY <1>2, <1>3 DEF OkxStops, StopDrains

(***************************************************************************)
(* The ledger                                                              *)
(***************************************************************************)

Answers == [asked : SUBSET Channels, granted : SUBSET Channels,
            refused : SUBSET (Channels \cup {Unattributed})]
Ledgers == [requested : SUBSET Channels, acknowledged : SUBSET Channels,
            rejected : SUBSET (Channels \cup {Unattributed})]

Open == client.at = "receiving" /\ client.running

Waiting == {f \in Frame : client.fate[f] = "piped"}

\* What the frames of a set say of a kind.
Told(kind, S) == {wire[f].channel : f \in {g \in S : wire[g].kind = kind}}

\* On an open connection, what the ledger holds and what waits for the worker together
\* are the answers of the venue.
Agrees ==
  /\ ledger.requested = Channels
  /\ Unattributed \notin venue.refused
       => Channels \subseteq venue.asked \cup venue.granted \cup venue.refused
  /\ ledger.acknowledged \cup Told("subscribe", Waiting) = venue.granted
  /\ ledger.rejected \cup Told("error", Waiting) = venue.refused

\* The venue gives one answer per channel.
LedgerInv ==
  /\ venue \in Answers /\ ledger \in Ledgers
  /\ venue.granted \cap venue.refused = {}
  /\ venue.asked \cap (venue.granted \cup venue.refused) = {}
  /\ Len(wire) <= MaxFrames /\ serial \in 0 .. MaxConnections
  /\ app \in {"running", "stopping", "cancelling", "closed"} /\ status \in {0, 70}
  /\ \A f \in 1 .. Len(wire) : wire[f].kind = "subscribe" => wire[f].channel \in Channels
  /\ Open => Agrees

\* What waits is on the wire.
LEMMA WaitingOnWire ==
  ASSUME Inv
  PROVE  /\ wire \in Seq(Messages) /\ Len(wire) \in Nat
         /\ Waiting \subseteq 1 .. Len(wire)
         /\ \A f \in 1 .. Len(wire) : wire[f] \in Messages
<1>1. wire \in Seq(Messages) /\ Received(client) = 1 .. Len(wire)
  BY DEF Inv, ClientKept
<1>2. Waiting \subseteq Received(client)
  BY DEF Waiting, Received
<1> QED
  BY <1>1, <1>2

\* One answer that does not take back another.
LEMMA OnMessageIs ==
  ASSUME NEW l \in Ledgers, NEW m \in Messages, m.kind = "subscribe" => m.channel \in Channels,
         NEW r, r = OnMessage(l, m)
  PROVE  /\ r \in Ledgers /\ r.requested = l.requested
         /\ r.acknowledged = l.acknowledged \cup (IF m.kind = "subscribe" THEN {m.channel} ELSE {})
         /\ m.kind = "subscribe" => r.rejected = l.rejected \ {m.channel}
         /\ m.kind # "subscribe" =>
              r.rejected = l.rejected \cup (IF m.kind = "error" THEN {m.channel} ELSE {})
<1>1. m.channel \in Channels \cup {Unattributed}
  BY DEF Messages
<1>2. CASE m.kind = "subscribe"
  <2>1. r = [l EXCEPT !.acknowledged = @ \cup {m.channel}, !.rejected = @ \ {m.channel}]
    BY <1>2 DEF OnMessage, Acknowledge
  <2>2. /\ r.requested = l.requested /\ r.acknowledged = l.acknowledged \cup {m.channel}
        /\ r.rejected = l.rejected \ {m.channel}
    BY <2>1 DEF Ledgers
  <2>3. r = [requested |-> l.requested, acknowledged |-> l.acknowledged \cup {m.channel},
             rejected |-> l.rejected \ {m.channel}]
    BY <2>1 DEF Ledgers
  <2>4. l.requested \subseteq Channels /\ l.acknowledged \subseteq Channels
        /\ l.rejected \subseteq Channels \cup {Unattributed} /\ m.channel \in Channels
    BY <1>2 DEF Ledgers
  <2>5. r \in Ledgers
    BY <2>3, <2>4 DEF Ledgers
  <2> QED
    BY <1>2, <2>2, <2>5
<1>3. CASE m.kind = "error"
  <2>1. r = [l EXCEPT !.rejected = @ \cup {m.channel}]
    BY <1>3 DEF OnMessage, Reject
  <2> QED
    BY <1>1, <1>3, <2>1 DEF Ledgers
<1>4. CASE m.kind \notin {"subscribe", "error"}
  <2>1. r = l
    BY <1>4 DEF OnMessage
  <2> QED
    BY <1>4, <2>1 DEF Ledgers
<1> QED
  BY <1>2, <1>3, <1>4

\* The ledgers after each frame are the function their equation says they are: a
\* smallest number of frames for which no such function existed would have a
\* predecessor for which one does.
LEMMA ProcessedIs ==
  ASSUME NEW l, NEW q, Len(q) \in Nat
  PROVE  /\ Processed(l, q)[0] = l
         /\ \A n \in 1 .. Len(q) : Processed(l, q)[n] = OnMessage(Processed(l, q)[n - 1], wire[q[n]])
<1> DEFINE Body(g, n) == IF n = 0 THEN l ELSE OnMessage(g[n - 1], wire[q[n]])
           Is(g, k) == g = [n \in 0 .. k |-> Body(g, n)]
           T == {k \in Nat : ~ \E g : Is(g, k)}
<1>1. T = {}
  <2> SUFFICES ASSUME T # {} PROVE FALSE
    OBVIOUS
  <2>1. PICK k \in T : \A j \in T : k <= j
    BY Smallest
  <2>2. k # 0
    <3> DEFINE g == [n \in 0 .. 0 |-> l]
    <3>1. Is(g, 0)
      <4>1. \A n \in 0 .. 0 : n = 0
        OBVIOUS
      <4> QED
        BY <4>1
    <3>2. \E f : Is(f, 0)
      BY <3>1
    <3> QED
      BY <2>1, <3>2
  <2>3. PICK g : Is(g, k - 1)
    <3>1. k - 1 \in Nat /\ ~(k <= k - 1)
      BY <2>1, <2>2
    <3>2. k - 1 \notin T
      BY <2>1, <3>1
    <3> QED
      BY <3>1, <3>2
  <2> DEFINE h == [n \in 0 .. k |-> IF n = k THEN OnMessage(g[k - 1], wire[q[k]]) ELSE g[n]]
  <2>4. Is(h, k)
    <3>1. \A n \in 0 .. k - 1 : g[n] = Body(g, n)
      BY <2>3
    <3>2. k \in Nat /\ k # 0
      BY <2>1, <2>2
    <3>3. ASSUME NEW n \in 0 .. k - 1 PROVE h[n] = Body(h, n)
      <4>1. n # k /\ n \in 0 .. k /\ (n # 0 => n - 1 \in 0 .. k /\ n - 1 # k)
        BY <3>2
      <4>2. h[n] = g[n] /\ (n # 0 => h[n - 1] = g[n - 1])
        BY <4>1
      <4> QED
        BY <3>1, <4>2
    <3>4. h[k] = Body(h, k)
      <4>1. k \in 0 .. k /\ k - 1 \in 0 .. k /\ k - 1 # k
        BY <3>2
      <4>2. h[k] = OnMessage(g[k - 1], wire[q[k]]) /\ h[k - 1] = g[k - 1]
        BY <4>1
      <4> QED
        BY <3>2, <4>2
    <3>5. \A n \in 0 .. k : n \in 0 .. k - 1 \/ n = k
      BY <3>2
    <3>6. \A n \in 0 .. k : h[n] = Body(h, n)
      BY <3>3, <3>4, <3>5
    <3>7. h = [n \in 0 .. k |-> h[n]]
      OBVIOUS
    <3> HIDE DEF h, Body
    <3> QED
      BY <3>6, <3>7
  <2> QED
    BY <2>1, <2>4
<1>2. PICK g : Is(g, Len(q))
  BY <1>1
<1>3. Processed(l, q) = CHOOSE f : Is(f, Len(q))
  BY DEF Processed
<1>4. Is(Processed(l, q), Len(q))
  BY <1>2, <1>3
<1>5. \A n \in 0 .. Len(q) : Processed(l, q)[n] = Body(Processed(l, q), n)
  BY <1>4
<1> QED
  BY <1>5

\* What a queue of frames makes of a ledger; if none of its acknowledgements is of a
\* channel that was refused, all that they say.
LEMMA ProcessedOK ==
  ASSUME Inv, LedgerInv, NEW l \in Ledgers, NEW q \in Seq(1 .. Len(wire)),
         NEW S, S = {q[i] : i \in 1 .. Len(q)}
  PROVE  LET r == Processed(l, q)[Len(q)]
         IN /\ r \in Ledgers /\ r.requested = l.requested
            /\ Told("subscribe", S) \cap (l.rejected \cup Told("error", S)) = {}
                 => /\ r.acknowledged = l.acknowledged \cup Told("subscribe", S)
                    /\ r.rejected = l.rejected \cup Told("error", S)
<1> DEFINE F(n) == {q[i] : i \in 1 .. n}
           r(n) == Processed(l, q)[n]
           Apart == Told("subscribe", S) \cap (l.rejected \cup Told("error", S)) = {}
           OK(n) == /\ r(n) \in Ledgers /\ r(n).requested = l.requested
                    /\ Apart => /\ r(n).acknowledged = l.acknowledged \cup Told("subscribe", F(n))
                                /\ r(n).rejected = l.rejected \cup Told("error", F(n))
           T == {n \in 0 .. Len(q) : ~OK(n)}
<1>0. Len(q) \in Nat
  OBVIOUS
<1>1. Len(q) \in Nat /\ r(0) = l /\ \A n \in 1 .. Len(q) : r(n) = OnMessage(r(n - 1), wire[q[n]])
  BY <1>0, ProcessedIs
<1>2. OK(0)
  <2>1. F(0) = {}
    OBVIOUS
  <2>2. Told("subscribe", F(0)) = {} /\ Told("error", F(0)) = {}
    BY <2>1 DEF Told
  <2> QED
    BY <1>1, <2>2
<1>3. ASSUME NEW n \in 1 .. Len(q), OK(n - 1) PROVE OK(n)
  <2> DEFINE m == wire[q[n]]
             before == r(n - 1)
  <2>1. q[n] \in 1 .. Len(wire) /\ m \in Messages /\ (m.kind = "subscribe" => m.channel \in Channels)
    BY <1>1, WaitingOnWire DEF LedgerInv
  <2>2. F(n) = F(n - 1) \cup {q[n]} /\ F(n - 1) \subseteq S /\ F(n) \subseteq S
    <3>1. \A i : i \in 1 .. n <=> i \in 1 .. n - 1 \/ i = n
      BY <1>1
    <3>2. 1 .. n \subseteq 1 .. Len(q)
      BY <1>1
    <3> QED
      BY <3>1, <3>2
  <2> HIDE DEF F
  <2>3. \A kind : /\ Told(kind, F(n)) = Told(kind, F(n - 1)) \cup (IF m.kind = kind THEN {m.channel} ELSE {})
                  /\ Told(kind, F(n - 1)) \subseteq Told(kind, S) /\ Told(kind, F(n)) \subseteq Told(kind, S)
    BY <2>2 DEF Told
  <2> HIDE DEF r, m
  <2>4. /\ before \in Ledgers /\ before.requested = l.requested
        /\ r(n) = OnMessage(before, m)
    BY <1>1, <1>3 DEF r, m
  <2>5. /\ r(n) \in Ledgers /\ r(n).requested = before.requested
        /\ r(n).acknowledged = before.acknowledged \cup (IF m.kind = "subscribe" THEN {m.channel} ELSE {})
        /\ m.kind = "subscribe" => r(n).rejected = before.rejected \ {m.channel}
        /\ m.kind # "subscribe" =>
             r(n).rejected = before.rejected \cup (IF m.kind = "error" THEN {m.channel} ELSE {})
    BY <2>1, <2>4, OnMessageIs
  <2>6. ASSUME Apart
        PROVE  /\ r(n).acknowledged = l.acknowledged \cup Told("subscribe", F(n))
               /\ r(n).rejected = l.rejected \cup Told("error", F(n))
    <3>1. /\ before.acknowledged = l.acknowledged \cup Told("subscribe", F(n - 1))
          /\ before.rejected = l.rejected \cup Told("error", F(n - 1))
      BY <1>3, <2>6
    <3>2. m.kind = "subscribe" => m.channel \notin before.rejected
      BY <2>3, <2>6, <3>1
    <3>3. r(n).rejected = before.rejected \cup (IF m.kind = "error" THEN {m.channel} ELSE {})
      BY <2>5, <3>2
    <3> QED
      BY <2>3, <2>5, <3>1, <3>3
  <2> QED
    BY <2>4, <2>5, <2>6
<1>4. OK(Len(q))
  <2> HIDE DEF OK
  <2>1. SUFFICES ASSUME T # {} PROVE FALSE
    BY <1>1
  <2>2. PICK n \in T : \A j \in T : n <= j
    <3>1. T \subseteq Nat
      BY <1>0
    <3> HIDE DEF T
    <3> QED
      BY <2>1, <3>1, Smallest
  <2>3. n # 0
    BY <1>2, <2>2
  <2>4. n \in 1 .. Len(q) /\ n - 1 \in 0 .. Len(q) /\ ~(n <= n - 1)
    BY <1>1, <2>2, <2>3
  <2>5. OK(n - 1)
    BY <2>2, <2>4
  <2> QED
    BY <1>3, <2>2, <2>4, <2>5
<1> QED
  BY <1>4

\* A step that moves no frame and hears nothing.
LEMMA LedgerQuiet ==
  ASSUME LedgerInv, UNCHANGED <<wire, venue, ledger>>, serial' \in 0 .. MaxConnections,
         app' \in {"running", "stopping", "cancelling", "closed"}, status' \in {0, 70},
         Open' => Open /\ client'.fate = client.fate
  PROVE  LedgerInv'
<1>1. ASSUME Open' PROVE Agrees'
  <2>1. Waiting' = Waiting
    BY <1>1 DEF Waiting
  <2>2. Told("subscribe", Waiting)' = Told("subscribe", Waiting)
        /\ Told("error", Waiting)' = Told("error", Waiting)
    BY <2>1 DEF Told
  <2> QED
    BY <1>1, <2>2 DEF LedgerInv, Agrees
<1> QED
  BY <1>1 DEF LedgerInv

\* A connection: what the last one left is gone, from the queue and from the ledger.
LEMMA LedgerConnects ==
  ASSUME Inv, LedgerInv, Connects PROVE LedgerInv'
<1>1. /\ UNCHANGED <<app, status, wire>> /\ client.at = "connecting" /\ serial < MaxConnections
      /\ serial' \in {serial, serial + 1} /\ MaxConnections \in Nat /\ serial \in 0 .. MaxConnections
  BY CaptureAssumption DEF Connects, proc, link, LedgerInv
<1>2. serial' \in 0 .. MaxConnections
  BY <1>1
<1>3. client \in Client /\ client.queue = <<>> /\ client.held = NoFrame /\ client.work = NoFrame
  BY <1>1, Kept, TurnEmpties DEF Connects, Consistent
<1>4. CASE client.discard
  <2>1. ~Open'
    BY <1>3, <1>4 DEF Connects, Becomes, Connect, Open, Client
  <2>2. UNCHANGED <<venue, ledger>>
    BY <1>4 DEF Connects, link
  <2> QED
    BY <1>1, <1>2, <2>1, <2>2, LedgerQuiet DEF LedgerInv
<1>5. CASE /\ client' = Connect(client) /\ ~client.discard
           /\ ledger' = Request(Reset(ledger)) /\ venue' = [NoVenue EXCEPT !.asked = Channels]
  <2>1. /\ ledger' = [ledger EXCEPT !.requested = ledger.requested \cup Channels,
                                    !.acknowledged = {}, !.rejected = {}]
        /\ ledger \in Ledgers
    BY <1>5 DEF Request, Reset, LedgerInv, Ledgers
  <2>2. /\ ledger' \in Ledgers /\ ledger'.requested = Channels
        /\ ledger'.acknowledged = {} /\ ledger'.rejected = {}
    BY <2>1 DEF Ledgers
  <2>3. /\ venue' \in Answers /\ venue'.asked = Channels /\ venue'.granted = {} /\ venue'.refused = {}
    BY <1>5 DEF NoVenue, Answers
  <2>4. client'.fate = client.fate
    BY <1>3, <1>5 DEF Connect, Client
  <2>5. Waiting' = {}
    <3>1. Ordered(client) /\ Len(client.queue) = 0 /\ 0 \notin Frame
      BY <1>3, Kept, Parts
    <3> QED
      BY <1>3, <2>4, <3>1 DEF Waiting, Ordered, NoFrame
  <2>6. Told("subscribe", Waiting)' = {} /\ Told("error", Waiting)' = {}
    BY <2>5 DEF Told
  <2>7. Agrees'
    BY <2>2, <2>3, <2>6 DEF Agrees
  <2> QED
    BY <1>1, <1>2, <2>2, <2>3, <2>7 DEF LedgerInv
<1>6. CASE client' = Disconnect(client) /\ ledger' = Reset(ledger) /\ venue' = NoVenue
  <2>1. ~Open'
    BY <1>3, <1>6 DEF Disconnect, Leave, Open, Client
  <2>2. ledger' \in Ledgers
    <3>1. ledger' = [ledger EXCEPT !.acknowledged = {}, !.rejected = {}] /\ ledger \in Ledgers
      BY <1>6 DEF Reset, LedgerInv
    <3> QED
      BY <3>1 DEF Ledgers
  <2>3. /\ venue' \in Answers /\ venue'.asked = {} /\ venue'.granted = {} /\ venue'.refused = {}
    BY <1>6 DEF NoVenue, Answers
  <2> QED
    BY <1>1, <1>2, <2>1, <2>2, <2>3 DEF LedgerInv
<1> QED
  BY <1>4, <1>5, <1>6 DEF Connects, Becomes

\* The venue's side of a frame.
LEMMA SaysIs ==
  ASSUME LedgerInv, NEW kind \in Kinds, NEW ch \in Channels \cup {Unattributed}, Says(kind, ch)
  PROVE  /\ venue' \in Answers /\ (kind = "subscribe" => ch \in Channels)
         /\ venue'.granted \cap venue'.refused = {}
         /\ venue'.asked \cap (venue'.granted \cup venue'.refused) = {}
         /\ venue'.granted = venue.granted \cup (IF kind = "subscribe" THEN {ch} ELSE {})
         /\ venue'.refused = venue.refused \cup (IF kind = "error" THEN {ch} ELSE {})
         /\ Unattributed \notin venue'.refused /\ Channels \subseteq venue.asked \cup venue.granted \cup venue.refused
              => Channels \subseteq venue'.asked \cup venue'.granted \cup venue'.refused
<1>1. /\ venue \in Answers /\ Unattributed \notin Channels
      /\ venue.granted \cap venue.refused = {}
      /\ venue.asked \cap (venue.granted \cup venue.refused) = {}
  BY CaptureAssumption DEF LedgerInv
<1>2. CASE kind = "subscribe"
  <2>1. /\ ch \in venue.asked
        /\ venue' = [venue EXCEPT !.asked = venue.asked \ {ch}, !.granted = venue.granted \cup {ch}]
    BY <1>2 DEF Says
  <2> QED
    BY <1>1, <1>2, <2>1 DEF Answers
<1>3. CASE kind = "error"
  <2>1. PICK c \in venue.asked :
          /\ ch \in {c, Unattributed}
          /\ venue' = [venue EXCEPT !.asked = venue.asked \ {c}, !.refused = venue.refused \cup {ch}]
    BY <1>3 DEF Says
  <2>2. /\ venue'.asked = venue.asked \ {c} /\ venue'.refused = venue.refused \cup {ch}
        /\ venue'.granted = venue.granted /\ c \in Channels /\ venue' \in Answers
    BY <1>1, <2>1 DEF Answers
  <2>3. venue'.granted \subseteq Channels
    BY <2>2 DEF Answers
  <2>4. venue'.granted \cap venue'.refused = {}
    BY <1>1, <2>1, <2>2, <2>3
  <2>5. venue'.asked \cap (venue'.granted \cup venue'.refused) = {}
    <3>1. venue'.asked \subseteq Channels
      BY <2>2 DEF Answers
    <3> QED
      BY <1>1, <2>1, <2>2, <3>1
  <2> QED
    BY <1>3, <2>1, <2>2, <2>4, <2>5
<1>4. CASE kind \notin {"subscribe", "error"}
  <2>1. UNCHANGED venue
    BY <1>4 DEF Says, Kinds
  <2> QED
    BY <1>1, <1>4, <2>1
<1> QED
  BY <1>2, <1>3, <1>4

\* A frame arrives.
LEMMA LedgerArrives ==
  ASSUME Inv, LedgerInv, Receiving, client.running, NEW f \in Frame, f = Len(wire) + 1,
         NEW kind \in Kinds, NEW ch \in Channels \cup {Unattributed}, Says(kind, ch),
         wire' = Append(wire, Message(kind, ch)), UNCHANGED <<serial, ledger, app, status>>,
         client' = Accept(client, f) \/ client' = Refuse(client, f)
  PROVE  LedgerInv'
<1> DEFINE msg == Message(kind, ch)
<1>1. /\ wire \in Seq(Messages) /\ Len(wire) \in Nat /\ Waiting \subseteq 1 .. Len(wire)
      /\ msg.kind = kind /\ msg.channel = ch /\ f <= MaxFrames
  BY WaitingOnWire, ClientAssumption DEF Message, Frame
<1>2. Len(wire') = f /\ wire'[f] = msg /\ \A g \in 1 .. Len(wire) : wire'[g] = wire[g]
  <2>1. serial \in Nat
    BY DEF Inv, ClientKept
  <2>2. msg \in Messages
    BY <2>1 DEF Message, Messages
  <2> HIDE DEF msg
  <2> QED
    BY <1>1, <2>2 DEF msg
<1> HIDE DEF msg
<1>3. \A g \in 1 .. Len(wire') : g \in 1 .. Len(wire) \/ g = f
  BY <1>1, <1>2
<1>4. ASSUME client' = Accept(client, f) PROVE Open' => Agrees'
  <2>1. Waiting' = Waiting \cup {f}
    BY <1>4, AcceptIs DEF Waiting
  <2>2. \A k : Told(k, Waiting)' = Told(k, Waiting) \cup (IF kind = k THEN {ch} ELSE {})
    BY <1>1, <1>2, <2>1 DEF Told
  <2>3. Agrees
    BY DEF LedgerInv, Open, Receiving
  <2>4. Unattributed \notin venue'.refused => Unattributed \notin venue.refused
    BY SaysIs
  <2>5. Unattributed \notin venue'.refused
          => Channels \subseteq venue'.asked \cup venue'.granted \cup venue'.refused
    BY <2>3, <2>4, SaysIs DEF Agrees
  <2>6. /\ Told("subscribe", Waiting)' = Told("subscribe", Waiting) \cup (IF kind = "subscribe" THEN {ch} ELSE {})
        /\ Told("error", Waiting)' = Told("error", Waiting) \cup (IF kind = "error" THEN {ch} ELSE {})
    BY <2>2
  <2>7. /\ venue'.granted = venue.granted \cup (IF kind = "subscribe" THEN {ch} ELSE {})
        /\ venue'.refused = venue.refused \cup (IF kind = "error" THEN {ch} ELSE {})
    BY SaysIs
  <2> QED
    BY <2>3, <2>5, <2>6, <2>7 DEF Agrees
<1>5. ASSUME client' = Refuse(client, f) PROVE ~Open'
  BY <1>5, Kept DEF Refuse, Latch, Stop, Leave, Client, Open
<1>6. /\ venue' \in Answers /\ (kind = "subscribe" => ch \in Channels)
      /\ venue'.granted \cap venue'.refused = {}
      /\ venue'.asked \cap (venue'.granted \cup venue'.refused) = {}
  BY SaysIs
<1>7. \A g \in 1 .. Len(wire') : wire'[g].kind = "subscribe" => wire'[g].channel \in Channels
  BY <1>1, <1>2, <1>3, <1>6 DEF LedgerInv
<1> QED
  BY <1>1, <1>2, <1>4, <1>5, <1>6, <1>7 DEF LedgerInv

\* The worker's turn.
LEMMA LedgerDrains ==
  ASSUME Inv, LedgerInv, WorkerDrains PROVE LedgerInv'
<1> DEFINE q == client.queue
           S == {q[i] : i \in 1 .. Len(q)}
           fate == IF client.discard THEN "discarded" ELSE "processed"
<1>1. /\ UNCHANGED <<wire, serial, venue, app, status>> /\ client \in Client
      /\ client.worker = "waiting" /\ client.work = NoFrame /\ Sound(client)
  BY Kept DEF WorkerDrains, proc
<1>2. Ordered(client) /\ q \in Seq(Frame) /\ Len(q) \in Nat
  BY <1>1, Parts DEF Client
<1>3. S \subseteq Waiting
  BY <1>2 DEF Ordered, Waiting
<1>4. q \in Seq(1 .. Len(wire))
  <2>1. \A i \in 1 .. Len(q) : q[i] \in 1 .. Len(wire)
    BY <1>3, WaitingOnWire
  <2> QED
    BY <1>2, <2>1
<1>5. client' = Emptied(client, fate)
  BY DEF WorkerDrains, Becomes, Emptied
<1>6. Sound(client') /\ client'.at = client.at /\ client'.discard = client.discard
      /\ client'.queue = <<>> /\ client'.running = client.running /\ client'.held = client.held
      /\ client'.work = NoFrame
  <2>1. fate \in {"processed", "discarded"}
    OBVIOUS
  <2> HIDE DEF fate
  <2>2. Sound(client') /\ client'.at = client.at /\ client'.discard = client.discard
        /\ client'.queue = <<>> /\ client'.work = client.work
    BY <1>1, <1>5, <2>1, DrainSound
  <2>3. client'.running = client.running /\ client'.held = client.held
    BY <1>1, <1>5 DEF Emptied, Client
  <2> QED
    BY <1>1, <2>2, <2>3
<1>7. CASE client.discard
  <2>1. UNCHANGED ledger /\ ~client.running
    BY <1>7, Kept DEF WorkerDrains, Consistent
  <2> QED
    BY <1>1, <1>6, <2>1, LedgerQuiet DEF Open, LedgerInv
<1>8. CASE ~client.discard
  <2> DEFINE r == Processed(ledger, q)[Len(q)]
             A == Told("subscribe", S)
             E == Told("error", S)
  <2>1. ledger' = r /\ ledger \in Ledgers
    BY <1>8 DEF WorkerDrains, LedgerInv
  <2>2. /\ r \in Ledgers /\ r.requested = ledger.requested
        /\ A \cap (ledger.rejected \cup E) = {}
             => r.acknowledged = ledger.acknowledged \cup A /\ r.rejected = ledger.rejected \cup E
    <3>1. ledger \in Ledgers
      BY <2>1
    <3> HIDE DEF q
    <3> QED
      BY <1>4, <3>1, ProcessedOK
  <2> HIDE DEF r
  <2>3. ASSUME Open' PROVE Agrees'
    <3>1. Open /\ Agrees
      BY <1>6, <2>3 DEF Open, LedgerInv
    <3>2. Waiting' \cup S = Waiting
      <4>1. Ordered(client') /\ Len(client'.queue) = 0 /\ 0 \notin Frame
        BY <1>6, Parts
      <4>2. \A f \in Frame : client'.fate[f] = "piped" <=> f = client.held
        BY <1>6, <4>1 DEF Ordered, NoFrame
      <4>3. \A f \in Frame : client.fate[f] = "piped" <=> f = client.held \/ f \in S
        BY <1>1, <1>2, <4>1 DEF Ordered, NoFrame
      <4> QED
        BY <1>3, <4>2, <4>3 DEF Waiting
    <3> HIDE DEF S
    <3>3. /\ Told("subscribe", Waiting) = A \cup Told("subscribe", Waiting)'
          /\ Told("error", Waiting) = E \cup Told("error", Waiting)'
      BY <1>1, <3>2 DEF Told
    <3>4. A \cap (ledger.rejected \cup E) = {}
      BY <3>1, <3>3 DEF Agrees, LedgerInv
    <3> QED
      BY <1>1, <2>1, <2>2, <3>1, <3>3, <3>4 DEF Agrees
  <2> QED
    BY <1>1, <2>1, <2>2, <2>3 DEF LedgerInv
<1> QED
  BY <1>7, <1>8

\* No step breaks it.
LEMMA LedgerStep ==
  ASSUME Inv, LedgerInv, [CaptureNext]_capture PROVE LedgerInv'
<1> USE DEF Becomes
<1>1. /\ client \in Client /\ serial \in 0 .. MaxConnections /\ status \in {0, 70}
      /\ app \in {"running", "stopping", "cancelling", "closed"}
  BY Kept DEF LedgerInv
<1>2. CASE ConnectFails \/ SocketCloses \/ PongOverdue
  <2>1. client' \in {Leave(client), Disconnect(client)}
        /\ UNCHANGED <<wire, serial, venue, ledger, app, status>>
    BY <1>2 DEF ConnectFails, SocketCloses, PongOverdue, link, proc
  <2>2. Leave(client).at # "receiving" /\ Disconnect(client).at # "receiving"
    BY <1>1 DEF Leave, Disconnect, Client
  <2>3. ~Open'
    BY <2>1, <2>2 DEF Open
  <2> QED
    BY <1>1, <2>1, <2>3, LedgerQuiet
<1>3. CASE Connects
  BY <1>3, LedgerConnects
<1>4. CASE DelayEnds \/ JoinReturns \/ WorkerLeaves \/ CancelTask
  <2>1. /\ UNCHANGED <<wire, serial, venue, ledger, app, status>>
        /\ \/ client' \in {Retry(client), Drained(client), [client EXCEPT !.at = "cancelled"]}
           \/ ~client.running /\ client' = [client EXCEPT !.worker = "exited"]
    BY <1>4 DEF DelayEnds, JoinReturns, WorkerLeaves, MayExit, CancelTask, link, proc
  <2>2. /\ Retry(client).at # "receiving" /\ Drained(client).at # "receiving"
        /\ [client EXCEPT !.at = "cancelled"].at # "receiving"
        /\ [client EXCEPT !.worker = "exited"].running = client.running
    BY <1>1 DEF Retry, Drained, Client
  <2>3. ~Open'
    BY <2>1, <2>2 DEF Open
  <2> QED
    BY <1>1, <2>1, <2>3, LedgerQuiet
<1>5. CASE FrameArrives
  <2> DEFINE f == Len(wire) + 1
  <2>1. f \in Frame /\ Receiving /\ UNCHANGED <<serial, ledger, app, status>>
    BY <1>5 DEF FrameArrives, link
  <2>2. CASE ~client.running
    <3>1. client' = Leave(client) /\ UNCHANGED <<wire, venue>>
      BY <1>5, <2>2 DEF FrameArrives, link
    <3>2. ~Open'
      BY <1>1, <3>1 DEF Leave, Open, Client
    <3> QED
      BY <1>1, <2>1, <3>1, <3>2, LedgerQuiet
  <2>3. CASE client.running
    <3>1. PICK kind \in Kinds, ch \in Channels \cup {Unattributed} :
            /\ Says(kind, ch) /\ wire' = Append(wire, Message(kind, ch))
            /\ client' = Accept(client, f) \/ client' = Refuse(client, f)
      BY <1>5, <2>3 DEF FrameArrives
    <3> HIDE DEF f
    <3>2. f = Len(wire) + 1
      BY DEF f
    <3> QED
      BY <2>1, <2>3, <3>1, <3>2, LedgerArrives
  <2> QED
    BY <2>2, <2>3
<1>6. CASE QueueWaitEnds
  <2>1. client' = Repoll(client) /\ UNCHANGED <<wire, serial, venue, ledger, app, status>>
    BY <1>6 DEF QueueWaitEnds, link, proc
  <2>2. CASE client.running
    <3>1. client' = IF Len(client.queue) < QueueMax
                    THEN [client EXCEPT !.queue = Append(client.queue, client.held), !.held = NoFrame]
                    ELSE [client EXCEPT !.held = client.held]
      BY <1>1, <2>1, <2>2 DEF Repoll, Offer, Client
    <3>2. client'.fate = client.fate /\ client'.at = client.at /\ client'.running
      BY <1>1, <2>2, <3>1 DEF Client
    <3> QED
      BY <1>1, <2>1, <2>2, <3>2, LedgerQuiet DEF Open
  <2>3. CASE ~client.running
    <3> DEFINE d == [client EXCEPT !.fate[client.held] = "abandoned", !.held = NoFrame]
    <3>1. client' = Leave(d)
      BY <2>1, <2>3 DEF Repoll
    <3>2. d.running = client.running /\ d = [d EXCEPT !.at = d.at] /\ DOMAIN d = DOMAIN client
      BY <1>1 DEF Client
    <3> HIDE DEF d
    <3>3. client' = [d EXCEPT !.at = "draining"] /\ "at" \in DOMAIN d
      BY <1>1, <2>3, <3>1, <3>2 DEF Leave, Client
    <3>4. ~Open'
      BY <3>3 DEF Open
    <3> QED
      BY <1>1, <2>1, <3>4, LedgerQuiet
  <2> QED
    BY <2>2, <2>3
<1>7. CASE WorkerDrains
  BY <1>7, LedgerDrains
<1>8. CASE Ping \/ UNCHANGED capture
  BY <1>1, <1>8, LedgerQuiet DEF Ping, Open, proc, capture
<1>9. ASSUME NEW reason, Signal \/ WaitEnds(reason) PROVE LedgerInv'
  <2>1. client' = Stop(client) /\ UNCHANGED <<wire, serial, venue, ledger, status>>
        /\ app' \in {app, "stopping", "cancelling"}
    BY <1>9 DEF Signal, WaitEnds, link, proc
  <2>2. ~Open'
    BY <1>1, <2>1 DEF Stop, Open, Client
  <2> QED
    BY <1>1, <2>1, <2>2, LedgerQuiet
<1>10. CASE Close
  BY <1>1, <1>10, LedgerQuiet DEF Close, ExitCode, link, Open
<1> QED
  BY <1>2, <1>3, <1>4, <1>5, <1>6, <1>7, <1>8, <1>9, <1>10 DEF CaptureNext, ClientStep

LEMMA LedgerStarts == CaptureInit => LedgerInv
<1> SUFFICES ASSUME CaptureInit PROVE LedgerInv
  OBVIOUS
<1>1. client.at # "receiving"
  BY DEF CaptureInit, Begin, New
<1>2. ledger \in Ledgers /\ venue \in Answers /\ venue.granted = {} /\ venue.asked = {}
      /\ Len(wire) = 0 /\ 0 <= MaxFrames /\ serial \in 0 .. MaxConnections
  BY CaptureAssumption, ClientAssumption DEF CaptureInit, Empty, NoVenue, Ledgers, Answers
<1> QED
  BY <1>1, <1>2 DEF CaptureInit, LedgerInv, Open

\* What is open and idle shows every answer in the ledger.
LEMMA LedgerShows == Inv /\ LedgerInv => CaptureInv
<1> SUFFICES ASSUME Inv, LedgerInv PROVE CaptureInv
  OBVIOUS
<1>1. CaptureTypeOK
  BY Kept DEF CaptureTypeOK, LedgerInv, Ledgers
<1>2. ASSUME Open
      PROVE  /\ ledger.acknowledged \subseteq venue.granted /\ ledger.rejected \subseteq venue.refused
             /\ Pipeline(client) = <<>> =>
                  /\ ledger.acknowledged = venue.granted /\ ledger.rejected = venue.refused
                  /\ Unattributed \notin venue.refused => PendingChannels(ledger) = venue.asked
  <2>1. Agrees
    BY <1>2 DEF LedgerInv
  <2>2. ASSUME Pipeline(client) = <<>>
        PROVE  ledger.acknowledged = venue.granted /\ ledger.rejected = venue.refused
    <3>1. Waiting = {}
      BY <2>2 DEF Inv, ClientKept, InOrder, Waiting, Range
    <3>2. Told("subscribe", Waiting) = {} /\ Told("error", Waiting) = {}
      BY <3>1 DEF Told
    <3> QED
      BY <2>1, <3>2 DEF Agrees
  <2>3. ASSUME Pipeline(client) = <<>>, Unattributed \notin venue.refused
        PROVE  PendingChannels(ledger) = venue.asked
    <3>1. PendingChannels(ledger) = Channels \ (venue.granted \cup venue.refused)
      BY <2>1, <2>2, <2>3 DEF PendingChannels, Agrees
    <3>2. venue.asked \subseteq Channels /\ venue.asked \cap (venue.granted \cup venue.refused) = {}
      BY DEF LedgerInv, Answers
    <3> QED
      BY <2>1, <2>3, <3>1, <3>2 DEF Agrees
  <2> QED
    BY <2>1, <2>2, <2>3 DEF Agrees
<1>3. LedgerOfThisConnection
  BY <1>2 DEF LedgerOfThisConnection, Open
<1> QED
  BY <1>1, <1>3 DEF CaptureInv, Inv

(***************************************************************************)
(* The theorems                                                            *)
(***************************************************************************)

\* However many frames arrive, whatever the venue, the keepalive and the queue do, the
\* client stays sound, the ledger holds the answers of this connection and no others,
\* and a stop goes on in order (start, _consume, _process_queue, _on_message, run).
THEOREM CaptureInvariant == CaptureSpec => []CaptureInv
<1>1. CaptureInit => Inv /\ LedgerInv
  BY InitInv, LedgerStarts
<1>2. Inv /\ LedgerInv /\ [CaptureNext]_capture => Inv' /\ LedgerInv'
  BY StepInv, LedgerStep
<1>3. Inv /\ LedgerInv => CaptureInv
  BY LedgerShows
<1> QED
  BY <1>1, <1>2, <1>3, PTL DEF CaptureSpec

\* A process that could not store a raw frame exits 70, and any other leaves no frame it
\* took in unprocessed but the one in front of a full queue (main, _drain_and_stop_worker).
THEOREM OkxAlwaysStops == CaptureSpec => []OkxStops
<1>1. CaptureInit => Inv
  BY InitInv
<1>2. Inv /\ [CaptureNext]_capture => Inv'
  BY StepInv
<1>3. Inv => OkxStops
  BY InvEnds
<1> QED
  BY <1>1, <1>2, <1>3, PTL DEF CaptureSpec
=============================================================================
