------------------------ MODULE QualityChannelProofs ------------------------
(* Machine-checked proofs about QualityChannel, for every value of its constants. *)
EXTENDS QualityChannel, FiniteSetTheorems, TLAPS

\* What one append does to the log's types, whether it returns, raises or is
\* refused.
LEMMA AppendTypes ==
  ASSUME TypeOK, NEW e \in Event, AppendOK(e) \/ NotAppended(e) \/ AppendRaises(e)
  PROVE  /\ NextSeq \in Nat /\ last' \in Seq
         /\ wal' \subseteq Record /\ logged' \subseteq Record /\ protected' \subseteq Event
         /\ writeFailed' \in BOOLEAN /\ full' \in BOOLEAN /\ faults' \in Nat
<1>1. NextSeq \in Nat /\ Rec(e) \in Record
  BY DEF TypeOK, LogOK, NextSeq, Rec, Record, Seq, NoSeq
<1>2. CASE AppendOK(e)
  BY <1>1, <1>2 DEF AppendOK, TypeOK, LogOK, RestOK, Seq
<1>3. CASE AppendRaises(e)
  BY <1>1, <1>3 DEF AppendRaises, Fault, TypeOK, LogOK, RestOK, Seq
<1>4. CASE AppendRefused
  BY <1>1, <1>4 DEF AppendRefused, TypeOK, LogOK, RestOK, Seq
<1> QED
  BY <1>2, <1>3, <1>4 DEF NotAppended

\* A row in hand names an event or nothing.
LEMMA RowEvent == TypeOK => {row.ev} \ {0} \subseteq Event
  BY DEF TypeOK, RunnerOK, Row, NoRow

\* The rows the runner makes of an event.
LEMMA RowShapes ==
  ASSUME NEW e \in Event, NextSeq \in Nat
  PROVE  /\ Safe(e) \in Row /\ Unsafe(e, NextSeq) \in Row /\ Unsafe(e, NoSeq) \in Row
  BY DEF Safe, Unsafe, Row, Seq

\* Receiving takes the next event of the bounded supply.
LEMMA ReceiveTypes == TypeOK /\ Receive => events + 1 \in Event /\ events' \in 0 .. MaxEvents
  BY ChannelAssumption DEF TypeOK, RestOK, Receive, Event

\* A queue that takes one more event, or gives one up, keeps its bound.
LEMMA QueueSteps ==
  ASSUME QueueOK, NEW q \in Row
  PROVE  /\ QueueTakes => LET put == queue \cup {q}
                          IN put \subseteq Row /\ IsFiniteSet(put) /\ Cardinality(put) <= QueueMax
         /\ LET got == queue \ {q}
            IN got \subseteq Row /\ IsFiniteSet(got) /\ Cardinality(got) <= QueueMax
<1>1. /\ IsFiniteSet(queue) /\ Cardinality(queue) \in Nat
      /\ QueueMax \in Nat
  BY FS_CardinalityType, ChannelAssumption DEF QueueOK
<1>2. IsFiniteSet(queue \cup {q}) /\ Cardinality(queue \cup {q}) <= Cardinality(queue) + 1
  BY <1>1, FS_AddElement
<1>3. IsFiniteSet(queue \ {q}) /\ Cardinality(queue \ {q}) <= Cardinality(queue)
  BY <1>1, FS_RemoveElement
<1>4. Cardinality(queue \cup {q}) \in Nat /\ Cardinality(queue \ {q}) \in Nat
  BY <1>2, <1>3, FS_CardinalityType
<1> QED
  BY <1>1, <1>2, <1>3, <1>4 DEF QueueOK, QueueTakes

\* An emptied queue is a legal one.
LEMMA EmptyQueue == queue' = {} => QueueOK'
  BY FS_EmptySet, ChannelAssumption DEF QueueOK

\* Every step keeps the types.
LEMMA TypeStep == TypeOK /\ [Next]_vars => TypeOK'
<1> SUFFICES ASSUME TypeOK, [Next]_vars PROVE TypeOK'
  OBVIOUS
<1> USE ChannelAssumption DEF TypeOK, Event, Seq, NoSeq
<1>1. CASE Start
  <2>1. LogOK'
    <3>1. last' \in Seq
      BY <1>1 DEF Start, Floor, IsMax, LogOK, Record
    <3>2. wal' \subseteq wal
      BY <1>1 DEF Start, DeleteCovered
    <3>3. full' \in BOOLEAN /\ file' \in Nat /\ stamp' \in Nat
      BY <1>1 DEF Start, LogOK, RestOK, env
    <3> QED
      BY <1>1, <3>1, <3>2, <3>3 DEF Start, LogOK
  <2>2. RunnerOK'
    BY <1>1 DEF Start, Floor, IsMax, Pending, LogOK, NoRow, RunnerOK, PCs
  <2>3. QueueOK'
    BY <1>1, EmptyQueue DEF Start
  <2>4. RestOK'
    BY <1>1 DEF Start, Floor, IsMax, Pending, DeleteCovered, Covered, disk, env, RestOK
  <2> QED
    BY <2>1, <2>2, <2>3, <2>4
<1>2. CASE ReplayNext
  <2>1. LogOK'
    BY <1>2 DEF ReplayNext, disk, journal, env, seen, LogOK
  <2>2. RunnerOK'
    <3>1. PICK r \in replay : /\ replay' = replay \ {r}
                              /\ inflight' = inflight \cup {r.seq}
                              /\ row' = [ev |-> r.ev, seq |-> r.seq, safe |-> TRUE]
      BY <1>2 DEF ReplayNext
    <3>2. r \in Record
      BY <3>1 DEF RunnerOK
    <3>3. row' \in Row /\ r.seq \in Nat
      BY <3>1, <3>2 DEF Record, Row
    <3> QED
      BY <1>2, <3>1, <3>3 DEF ReplayNext, RunnerOK, PCs
  <2>3. QueueOK'
    BY <1>2 DEF ReplayNext, QueueOK
  <2>4. RestOK'
    BY <1>2 DEF ReplayNext, disk, writer, env, seen, RestOK
  <2> QED
    BY <2>1, <2>2, <2>3, <2>4
<1>3. CASE ReplayDone
  <2>1. LogOK'
    BY <1>3 DEF ReplayDone, disk, journal, env, seen, LogOK
  <2>2. RunnerOK'
    BY <1>3 DEF ReplayDone, RunnerOK, PCs
  <2>3. QueueOK'
    BY <1>3 DEF ReplayDone, QueueOK
  <2>4. RestOK'
    BY <1>3 DEF ReplayDone, disk, writer, env, seen, RestOK
  <2> QED
    BY <2>1, <2>2, <2>3, <2>4
<1>4. CASE Drain
  <2>1. LogOK'
    BY <1>4 DEF Drain, disk, journal, env, seen, LogOK
  <2>2. RunnerOK'
    BY <1>4 DEF Drain, QueueOK, RunnerOK, PCs
  <2>3. QueueOK'
    <3>1. PICK q \in queue : row' = q /\ queue' = queue \ {q}
      BY <1>4 DEF Drain
    <3>2. q \in Row
      BY <3>1 DEF QueueOK
    <3> QED
      BY <3>1, <3>2, QueueSteps DEF QueueOK
  <2>4. RestOK'
    BY <1>4 DEF Drain, disk, writer, env, seen, RestOK
  <2> QED
    BY <2>1, <2>2, <2>3, <2>4
<1>5. CASE PublishTick
  <2>1. LogOK'
    BY <1>5 DEF PublishTick, Due, disk, journal, env, seen, LogOK
  <2>2. RunnerOK'
    BY <1>5 DEF PublishTick, Due, RunnerOK, PCs
  <2>3. QueueOK'
    BY <1>5 DEF PublishTick, Due, QueueOK
  <2>4. RestOK'
    BY <1>5 DEF PublishTick, Due, disk, writer, env, seen, RestOK
  <2> QED
    BY <2>1, <2>2, <2>3, <2>4
<1>6. CASE AdmitRow
  <2>1. LogOK'
    BY <1>6 DEF AdmitRow, disk, journal, env, seen, LogOK
  <2>2. RunnerOK'
    BY <1>6 DEF AdmitRow, Row, RunnerOK, PCs
  <2>3. QueueOK'
    BY <1>6 DEF AdmitRow, QueueOK
  <2>4. RestOK'
    BY <1>6 DEF AdmitRow, disk, env, seen, RunnerOK, Row, RestOK
  <2> QED
    BY <2>1, <2>2, <2>3, <2>4
<1>7. CASE WroteRow
  <2>1. LogOK'
    BY <1>7 DEF WroteRow, Back, disk, journal, env, seen, LogOK
  <2>2. RunnerOK'
    BY <1>7 DEF WroteRow, Back, RunnerOK, PCs
  <2>3. QueueOK'
    BY <1>7 DEF WroteRow, Back, QueueOK
  <2>4. RestOK'
    BY <1>7 DEF WroteRow, Back, disk, writer, env, seen, RestOK
  <2> QED
    BY <2>1, <2>2, <2>3, <2>4
<1>8. CASE PublishOK
  <2>1. LogOK'
    BY <1>8 DEF PublishOK, journal, env, seen, LogOK
  <2>2. RunnerOK'
    BY <1>8 DEF PublishOK, RunnerOK, PCs
  <2>3. QueueOK'
    BY <1>8 DEF PublishOK, QueueOK
  <2>4. RestOK'
    BY <1>8 DEF PublishOK, env, seen, RestOK
  <2> QED
    BY <2>1, <2>2, <2>3, <2>4
<1>9. CASE WriterRaises
  <2>1. LogOK'
    BY <1>9 DEF WriterRaises, Fault, Count, disk, journal, LogOK
  <2>2. RunnerOK'
    BY <1>9 DEF WriterRaises, Fault, Count, RunnerOK, PCs
  <2>3. QueueOK'
    BY <1>9 DEF WriterRaises, Fault, Count, QueueOK
  <2>4. RestOK'
    <3>1. counted' \subseteq Event
      BY <1>9, RowEvent DEF WriterRaises, Count, RestOK
    <3> QED
      BY <1>9, <3>1 DEF WriterRaises, Fault, RestOK, disk, journal
  <2> QED
    BY <2>1, <2>2, <2>3, <2>4
<1>10. CASE DurableHook
  <2>1. LogOK'
    BY <1>10 DEF DurableHook, Target, IsMin, Checkpoint, CheckpointRaises, DeleteCovered,
                 Rotate, seen, LogOK, RestOK
  <2>2. RunnerOK'
    BY <1>10 DEF DurableHook, IsMax, CheckpointRaises, Checkpoint, Back, NoRow, RunnerOK, PCs
  <2>3. QueueOK'
    BY <1>10 DEF DurableHook, QueueOK
  <2>4. RestOK'
    BY <1>10 DEF DurableHook, CheckpointRaises, Checkpoint, Fault, writer, seen, RestOK
  <2> QED
    BY <2>1, <2>2, <2>3, <2>4
<1>11. CASE Persist
  <2>0. events + 1 \in Event /\ events' \in 0 .. MaxEvents
    BY <1>11, ReceiveTypes DEF Persist
  <2>5. /\ NextSeq \in Nat /\ last' \in Seq
        /\ wal' \subseteq Record /\ logged' \subseteq Record /\ protected' \subseteq Event
        /\ writeFailed' \in BOOLEAN /\ full' \in BOOLEAN /\ faults' \in Nat
    BY <1>11, <2>0, AppendTypes DEF Persist, NotAppended
  <2>1. LogOK'
    BY <1>11, <2>0, <2>5 DEF Persist, LogOK
  <2>2. RunnerOK'
    <3>1. row' \in Row
      BY <1>11, <2>0, <2>5, RowShapes DEF Persist
    <3>2. inflight' \subseteq Nat
      BY <1>11, <2>5 DEF Persist, AppendOK, AppendRefused, RunnerOK
    <3> QED
      BY <1>11, <3>1, <3>2 DEF Persist, RunnerOK, PCs
  <2>3. QueueOK'
    BY <1>11 DEF Persist, AppendOK, AppendRefused, Safe, Unsafe, QueueOK
  <2>4. RestOK'
    BY <1>11, <2>0, <2>5 DEF Persist, writer, RestOK
  <2> QED
    BY <2>1, <2>2, <2>3, <2>4
<1>12. CASE Enqueue
  <2>0. events + 1 \in Event /\ events' \in 0 .. MaxEvents
    BY <1>12, ReceiveTypes DEF Enqueue
  <2>5. /\ NextSeq \in Nat /\ last' \in Seq
        /\ wal' \subseteq Record /\ logged' \subseteq Record /\ protected' \subseteq Event
        /\ writeFailed' \in BOOLEAN /\ full' \in BOOLEAN /\ faults' \in Nat
    BY <1>12, <2>0, AppendTypes DEF Enqueue
  <2>1. LogOK'
    BY <1>12, <2>0, <2>5 DEF Enqueue, LogOK
  <2>2. RunnerOK'
    <3>1. (row' \in Row /\ pc' = "write") \/ UNCHANGED <<pc, row>>
      BY <1>12, <2>0, <2>5, RowShapes DEF Enqueue
    <3>2. inflight' \subseteq Nat
      BY <1>12, <2>5 DEF Enqueue, NotAppended, AppendOK, AppendRefused, RunnerOK
    <3> QED
      BY <1>12, <3>1, <3>2 DEF Enqueue, RunnerOK, PCs
  <2>3. QueueOK'
    <3>1. Safe(events + 1) \in Row
      BY <2>0, <2>5 DEF Safe, Row
    <3>2. UNCHANGED queue \/ (QueueTakes /\ queue' = queue \cup {Safe(events + 1)})
      BY <1>12 DEF Enqueue
    <3> QED
      BY <3>1, <3>2, QueueSteps DEF QueueOK
  <2>4. RestOK'
    BY <1>12, <2>0, <2>5 DEF Enqueue, writer, RestOK
  <2> QED
    BY <2>1, <2>2, <2>3, <2>4
<1>13. CASE Report
  <2>0. events + 1 \in Event /\ events' \in 0 .. MaxEvents
    BY <1>13, ReceiveTypes DEF Report
  <2>5. /\ NextSeq \in Nat /\ last' \in Seq
        /\ wal' \subseteq Record /\ logged' \subseteq Record /\ protected' \subseteq Event
        /\ writeFailed' \in BOOLEAN /\ full' \in BOOLEAN /\ faults' \in Nat
    BY <1>13, <2>0, AppendTypes DEF Report
  <2>1. LogOK'
    BY <1>13, <2>0, <2>5 DEF Report, LogOK
  <2>2. RunnerOK'
    <3>1. inflight' \subseteq Nat
      BY <1>13, <2>5 DEF Report, NotAppended, AppendOK, AppendRefused, RunnerOK
    <3> QED
      BY <1>13, <3>1 DEF Report, RunnerOK, PCs
  <2>3. QueueOK'
    BY <1>13 DEF Report, QueueOK
  <2>4. RestOK'
    BY <1>13, <2>0, <2>5 DEF Report, writer, RestOK
  <2> QED
    BY <2>1, <2>2, <2>3, <2>4
<1>14. CASE RolloverPublish
  <2>1. LogOK'
    BY <1>14 DEF RolloverPublish, journal, env, seen, LogOK
  <2>2. RunnerOK'
    BY <1>14 DEF RolloverPublish, RunnerOK, PCs
  <2>3. QueueOK'
    BY <1>14 DEF RolloverPublish, QueueOK
  <2>4. RestOK'
    BY <1>14 DEF RolloverPublish, env, seen, RestOK
  <2> QED
    BY <2>1, <2>2, <2>3, <2>4
<1>15. CASE Shutdown
  <2>1. LogOK'
    BY <1>15 DEF Shutdown, disk, journal, LogOK
  <2>2. RunnerOK'
    BY <1>15 DEF Shutdown, RunnerOK, PCs
  <2>3. QueueOK'
    BY <1>15 DEF Shutdown, QueueOK
  <2>4. RestOK'
    BY <1>15 DEF Shutdown, disk, writer, RestOK
  <2> QED
    BY <2>1, <2>2, <2>3, <2>4
<1>16. CASE Kill
  <2>1. LogOK'
    BY <1>16 DEF Kill, disk, journal, LogOK
  <2>2. RunnerOK'
    BY <1>16 DEF Kill, RunnerOK, PCs
  <2>3. QueueOK'
    BY <1>16, EmptyQueue DEF Kill
  <2>4. RestOK'
    <3>1. counted' \subseteq Event
      BY <1>16, RowEvent DEF Kill, RestOK
    <3>2. /\ buffer' = {} /\ writerFailed' = FALSE /\ pinned' = FALSE /\ clean' = FALSE
          /\ stops' = stops + 1 /\ UNCHANGED <<published, clock, faults, events>>
      BY <1>16 DEF Kill, disk
    <3>3. published' \subseteq Event
      BY <3>2 DEF RestOK
    <3>4. buffer' \subseteq Event
      BY <3>2 DEF RestOK
    <3>5. stops' \in Nat /\ clock' \in Nat /\ faults' \in Nat
      BY <3>2 DEF RestOK
    <3>6. events' \in 0 .. MaxEvents
      BY <3>2 DEF RestOK
    <3> QED
      BY <3>1, <3>2, <3>3, <3>4, <3>5, <3>6 DEF RestOK
  <2> QED
    BY <2>1, <2>2, <2>3, <2>4
<1>17. CASE Corrupt
  <2>1. LogOK'
    BY <1>17 DEF Corrupt, Fault, journal, seen, LogOK
  <2>2. RunnerOK'
    BY <1>17 DEF Corrupt, Fault, runner, RunnerOK, PCs
  <2>3. QueueOK'
    BY <1>17 DEF Corrupt, Fault, runner, QueueOK
  <2>4. RestOK'
    BY <1>17 DEF Corrupt, Fault, writer, seen, RestOK
  <2> QED
    BY <2>1, <2>2, <2>3, <2>4
<1>18. CASE Repair
  <2>1. LogOK'
    BY <1>18 DEF Repair, journal, env, seen, LogOK
  <2>2. RunnerOK'
    BY <1>18 DEF Repair, runner, RunnerOK, PCs
  <2>3. QueueOK'
    BY <1>18 DEF Repair, runner, QueueOK
  <2>4. RestOK'
    BY <1>18 DEF Repair, writer, env, seen, RestOK
  <2> QED
    BY <2>1, <2>2, <2>3, <2>4
<1>19. CASE Tick
  <2>1. LogOK'
    BY <1>19 DEF Tick, disk, journal, seen, LogOK
  <2>2. RunnerOK'
    BY <1>19 DEF Tick, runner, RunnerOK, PCs
  <2>3. QueueOK'
    BY <1>19 DEF Tick, runner, QueueOK
  <2>4. RestOK'
    BY <1>19 DEF Tick, disk, writer, seen, RestOK
  <2> QED
    BY <2>1, <2>2, <2>3, <2>4
<1>20. CASE UNCHANGED vars
  BY <1>20 DEF LogOK, RunnerOK, QueueOK, RestOK, vars, disk, journal, runner, writer, env, seen
<1> QED
  BY <1>1, <1>2, <1>3, <1>4, <1>5, <1>6, <1>7, <1>8, <1>9, <1>10, <1>11,
     <1>12, <1>13, <1>14, <1>15, <1>16, <1>17, <1>18, <1>19, <1>20 DEF Next, Work

\* The empty channel is well typed.
LEMMA TypeInit == Init => TypeOK
<1> SUFFICES ASSUME Init PROVE TypeOK
  OBVIOUS
<1>1. LogOK
  BY DEF Init, LogOK, Seq, NoSeq
<1>2. RunnerOK
  BY DEF Init, RunnerOK, PCs, Seq, NoSeq
<1>3. QueueOK
  BY FS_EmptySet, ChannelAssumption DEF Init, QueueOK
<1>4. RestOK
  <2>1. 0 \in 0 .. MaxEvents /\ {} \subseteq Event
    BY ChannelAssumption
  <2> QED
    BY <2>1 DEF Init, RestOK
<1> QED
  BY <1>1, <1>2, <1>3, <1>4 DEF TypeOK

\* Every reachable state of the log, the queue, the runner and the writer is
\* well typed, and the queue never holds more than its maxsize.
THEOREM TypeCorrect == Spec => []TypeOK
  BY TypeInit, TypeStep, PTL DEF Spec

-----------------------------------------------------------------------------
(* The invariant that carries the checkpoint's soundness. *)

\* What holds of the log whether or not a process lives.
LogInv == LogKept /\ LogOrdered /\ ProtectedLogged /\ CheckpointSound

\* The compared values are integers.
Numbers ==
  /\ ckpt \in Int /\ last \in Int /\ last >= -1 /\ hwm \in Int /\ hwm >= -1
  /\ clock \in Nat /\ stamp \in Nat /\ row.seq \in Int /\ row.seq >= -1
  /\ \A r \in logged : r.seq \in Nat /\ r.stamp \in Nat
  /\ \A q \in queue : q.seq \in Int /\ q.seq >= -1
  /\ \A k \in inflight \cup segment : k \in Nat

\* What the types say of every number the invariant compares.
LEMMA TypedNumbers == TypeOK => Numbers
<1> SUFFICES ASSUME TypeOK PROVE Numbers
  OBVIOUS
<1>1. ckpt \in Int /\ last \in Int /\ last >= -1 /\ hwm \in Int /\ hwm >= -1
  BY DEF TypeOK, LogOK, RunnerOK, Seq, NoSeq
<1>2. clock \in Nat /\ stamp \in Nat
  BY DEF TypeOK, LogOK, RestOK
<1>3. row.seq \in Int /\ row.seq >= -1
  BY DEF TypeOK, RunnerOK, Row, NoRow, Seq, NoSeq
<1>4. \A r \in logged : r.seq \in Nat /\ r.stamp \in Nat
  BY DEF TypeOK, LogOK, Record
<1>5. \A q \in queue : q.seq \in Int /\ q.seq >= -1
  BY DEF TypeOK, QueueOK, Row, Seq, NoSeq
<1>6. \A k \in inflight \cup segment : k \in Nat
  BY DEF TypeOK, RunnerOK
<1> QED
  BY <1>1, <1>2, <1>3, <1>4, <1>5, <1>6 DEF Numbers

\* A step that leaves the log alone, and unpublishes nothing, keeps LogInv.
LEMMA LogStill ==
  ASSUME Numbers, LogInv, UNCHANGED <<wal, ckpt, logged, protected>>,
         clock' \in Nat, clock <= clock', published \subseteq published'
  PROVE  LogInv'
<1>1. LogKept' /\ ProtectedLogged' /\ CheckpointSound'
  BY DEF LogInv, LogKept, ProtectedLogged, CheckpointSound
<1>2. LogOrdered'
  BY DEF LogInv, LogOrdered, Numbers
<1> QED
  BY <1>1, <1>2 DEF LogInv

\* A record above the counter joins the log.
LEMMA LogGrows ==
  ASSUME Numbers, LogInv, CounterAhead, NEW e, NextSeq \in Nat, wal' = wal \cup {Rec(e)},
         logged' = logged \cup {Rec(e)}, protected' \in {protected, protected \cup {e}},
         UNCHANGED <<ckpt, clock, published>>
  PROVE  LogInv'
<1>1. Rec(e).seq = last + 1 /\ Rec(e).stamp = stamp /\ Rec(e).ev = e
  BY DEF Rec, NextSeq
<1>2. LogKept'
  BY DEF LogInv, LogKept
<1>3. LogOrdered'
  BY <1>1 DEF LogInv, LogOrdered, CounterAhead, Numbers
<1>4. ProtectedLogged'
  BY <1>1 DEF LogInv, ProtectedLogged
<1>5. CheckpointSound'
  BY <1>1 DEF LogInv, CheckpointSound, CounterAhead, Numbers
<1> QED
  BY <1>2, <1>3, <1>4, <1>5 DEF LogInv

\* Files go only when the checkpoint covers all they hold.
LEMMA DeleteKeeps ==
  ASSUME NEW c, NEW active, DeleteCovered(c, active)
  PROVE  wal' \subseteq wal /\ \A r \in wal : r \in wal' \/ r.seq <= c
  BY DEF DeleteCovered, Covered

\* One append, by any caller: the log invariant, and a counter still ahead.
LEMMA AppendLog ==
  ASSUME TypeOK, LogInv, CounterAhead, NEW e \in Event,
         AppendOK(e) \/ AppendRaises(e) \/ NotAppended(e),
         UNCHANGED <<ckpt, clock, published, stamp>>
  PROVE  /\ LogInv'
         /\ last <= last' /\ ckpt' <= last' /\ stamp' <= clock'
         /\ \A r \in logged' : r.seq <= last' /\ r.stamp <= stamp'
         /\ \A r \in logged' \ logged : r.seq = last + 1 /\ r.ev = e
         /\ logged \subseteq logged'
<1>1. Numbers /\ NextSeq \in Nat
  BY TypedNumbers, AppendTypes
<1>2. Rec(e).seq = last + 1 /\ Rec(e).stamp = stamp /\ Rec(e).ev = e
  BY DEF Rec, NextSeq
<1>3. CASE wal' = wal \cup {Rec(e)} /\ logged' = logged \cup {Rec(e)} /\ last' = NextSeq
  <2>1. protected' \in {protected, protected \cup {e}}
    BY DEF AppendOK, AppendRaises, NotAppended, AppendRefused
  <2>2. LogInv'
    BY <1>1, <1>3, <2>1, LogGrows
  <2> QED
    BY <1>1, <1>2, <1>3, <2>2 DEF CounterAhead, Numbers, NextSeq
<1>4. CASE UNCHANGED <<wal, logged, protected>> /\ last' \in {last, NextSeq}
  <2>1. LogInv'
    BY <1>1, <1>4, LogStill DEF Numbers
  <2> QED
    BY <1>1, <1>4, <2>1 DEF CounterAhead, Numbers, NextSeq
<1> QED
  BY <1>3, <1>4 DEF AppendOK, AppendRaises, NotAppended, AppendRefused

\* The same after a step.
LEMMA TypedNumbersNext == TypeOK' => Numbers'
  BY TypedNumbers, PTL

\* The number after any the counter takes is a natural number.
LEMMA NextIsNat == \A n \in Int : n >= -1 => n + 1 \in Nat
  OBVIOUS

\* A process starts with its counter above the log and all that is pending to
\* replay.
LEMMA StartKeeps ==
  ASSUME CheckpointInv, Numbers, Numbers', Start
  PROVE  LogInv' /\ Live' /\ (~blocked' => Held')
<1>1. /\ wal' \subseteq wal /\ \A r \in wal : r \in wal' \/ r.seq <= ckpt
      /\ UNCHANGED <<ckpt, logged, protected, published, clock>>
  BY DeleteKeeps DEF Start, env
<1>2. LogInv'
  BY <1>1 DEF CheckpointInv, LogInv, LogKept, LogOrdered, ProtectedLogged, CheckpointSound
<1>3. /\ ckpt <= last'
      /\ \A r \in logged : r.seq <= last'
  <2>1. ckpt <= last' /\ \A r \in wal : r.seq <= last'
    BY DEF Start, Floor, IsMax
  <2> QED
    BY <2>1 DEF CheckpointInv, LogKept, Numbers
<1>4. /\ inflight' = {} /\ segment' = {} /\ queue' = {} /\ hwm' = -1
      /\ row'.seq = -1 /\ row'.ev = 0 /\ stamp' = clock /\ starting' /\ buffer' = {}
  BY DEF Start, NoRow, NoSeq
<1>5. \A n \in Nat : Below(n)'
  BY <1>4 DEF Below
<1>6. CounterAhead'
  <2>1. last' + 1 \in Nat
    <3>1. last' \in Int /\ last' >= -1
      BY DEF Numbers
    <3> QED
      BY <3>1, NextIsNat
  <2>2. ckpt' <= last' /\ stamp' <= clock'
    BY <1>1, <1>3, <1>4 DEF Numbers
  <2>3. \A r \in logged' : r.seq <= last' /\ r.stamp <= stamp'
    BY <1>1, <1>3, <1>4 DEF CheckpointInv, LogOrdered
  <2> QED
    BY <2>1, <2>2, <2>3, <1>5 DEF CounterAhead
<1>7. ReplayFirst'
  BY <1>1, <1>4 DEF Start, Pending, CheckpointInv, LogKept, ReplayFirst
<1>8. RowsMatch' /\ HookAfterPublish'
  BY <1>1, <1>4 DEF RowsMatch, HookAfterPublish, Numbers
<1>9. ASSUME ~blocked' PROVE Held'
  <2>1. replay' = Pending
    BY <1>9 DEF Start
  <2>2. \A r \in logged : r.ev \notin published => r \in replay'
    BY <2>1, <1>1 DEF CheckpointInv, LogKept, CheckpointSound, Pending, Numbers
  <2> QED
    BY <2>2, <1>1, <1>4, <1>5 DEF Held, Ahead, Numbers
<1> QED
  BY <1>2, <1>6, <1>7, <1>8, <1>9 DEF Live

\* Replay takes the pending record with the lowest number.
LEMMA ReplayKeeps ==
  ASSUME CheckpointInv, Numbers, Numbers', ReplayNext, ClockSteps = FALSE
  PROVE  LogInv' /\ Live' /\ (~blocked' => Held')
<1>1. UNCHANGED <<wal, ckpt, published, last, stamp, writeFailed, starting, queue, segment,
                  hwm, blocked, buffer, clock, logged, protected>> /\ pc # "down" /\ pc' = "write"
  BY DEF ReplayNext, disk, journal, writer, env, seen
<1>2. LogInv'
  BY <1>1, LogStill DEF CheckpointInv, LogInv, Numbers
<1>3. PICK r \in replay : /\ \A s \in replay \ {r} : Before(r, s)
                          /\ replay' = replay \ {r}
                          /\ inflight' = inflight \cup {r.seq}
                          /\ row' = [ev |-> r.ev, seq |-> r.seq, safe |-> TRUE]
  BY DEF ReplayNext
<1>4. replay \subseteq logged /\ row'.seq = r.seq /\ row'.ev = r.ev
  BY <1>1, <1>3 DEF CheckpointInv, Live, ReplayFirst
<1>5. \A s \in replay \ {r} : r.seq < s.seq
  BY <1>3, <1>4 DEF Before, CheckpointInv, LogOrdered, Numbers
<1>6. \A n \in Nat : Below(n) /\ r.seq < n => Below(n)'
  BY <1>1, <1>3, <1>4 DEF Below
<1>7. CounterAhead'
  BY <1>1, <1>4, <1>6 DEF CheckpointInv, Live, CounterAhead, Numbers
<1>8. ReplayFirst' /\ HookAfterPublish'
  BY <1>1, <1>3, <1>4 DEF CheckpointInv, Live, ReplayFirst, HookAfterPublish
<1>9. RowsMatch'
  BY <1>1, <1>3, <1>4 DEF CheckpointInv, Live, RowsMatch, LogOrdered
<1>10. ASSUME ~blocked' PROVE Held'
  <2> SUFFICES ASSUME NEW s \in logged,
                      s.ev \notin published, s.seq \notin inflight'
               PROVE  Ahead(s)'
    BY <1>1, <1>10 DEF Held, CheckpointInv
  <2>1. Ahead(s) /\ s.seq # r.seq
    BY <1>1, <1>3, <1>10 DEF Held, CheckpointInv
  <2>2. s \in replay'
    BY <1>3, <2>1 DEF Ahead
  <2> QED
    BY <1>3, <1>5, <1>6, <2>1, <2>2 DEF Ahead, Numbers
<1> QED
  BY <1>2, <1>7, <1>8, <1>9, <1>10 DEF Live

\* A step that appends nothing: rows move on towards the published set, the
\* row in hand changes for a queued one or none, the segment may claim it.
LEMMA FrameKeeps ==
  ASSUME CheckpointInv, Numbers, Numbers', pc # "down",
         UNCHANGED <<wal, ckpt, last, stamp, writeFailed, hwm, inflight, blocked, logged,
                     protected, replay>>,
         clock <= clock', published \subseteq published',
         published \cup buffer \subseteq published' \cup buffer', queue' \subseteq queue,
         row' = row \/ row'.seq = NoSeq \/ row' \in queue,
         \/ segment' = segment
         \/ segment' = segment \cup ({row.seq} \ {NoSeq}) /\ row.ev \in buffer'
  PROVE  LogInv' /\ CounterAhead' /\ RowsMatch' /\ (~blocked' => Held')
<1>1. LogInv'
  BY LogStill DEF CheckpointInv, LogInv, Numbers
<1>2. \A n \in Nat : Below(n) => Below(n)'
  BY DEF Below, NoSeq
<1>3. CounterAhead'
  BY <1>2, NextIsNat DEF CheckpointInv, Live, CounterAhead, Numbers
<1>4. RowsMatch'
  BY DEF CheckpointInv, Live, RowsMatch, Numbers, NoSeq
<1>5. ASSUME ~blocked' PROVE Held'
  <2> SUFFICES ASSUME NEW r \in logged
               PROVE  /\ r.ev \in published' \/ r.seq \in inflight \/ Ahead(r)'
                      /\ r.seq \in segment' => r.ev \in published' \cup buffer'
    BY DEF Held
  <2>1. /\ r.ev \in published \/ r.seq \in inflight \/ Ahead(r)
        /\ r.seq \in segment => r.ev \in published \cup buffer
    BY <1>5 DEF CheckpointInv, Held
  <2>2. Ahead(r) => Ahead(r)'
    BY <1>2 DEF Ahead, Numbers
  <2>3. r.seq = row.seq => r.ev = row.ev
    BY DEF CheckpointInv, Live, RowsMatch
  <2> QED
    BY <2>1, <2>2, <2>3
<1> QED
  BY <1>1, <1>3, <1>4, <1>5

\* What moves rows without touching the log's numbers.
LEMMA QuietKeeps ==
  ASSUME CheckpointInv, Numbers, Numbers',
         ReplayDone \/ Drain \/ PublishTick \/ AdmitRow \/ WroteRow \/ PublishOK \/ RolloverPublish
  PROVE  LogInv' /\ Live' /\ (~blocked' => Held')
<1>1. /\ UNCHANGED <<wal, ckpt, last, stamp, writeFailed, hwm, inflight, blocked, logged,
                     protected, replay, clock>>
      /\ pc # "down" /\ clock <= clock'
  BY DEF ReplayDone, Drain, PublishTick, Due, AdmitRow, WroteRow, PublishOK, RolloverPublish,
         disk, journal, writer, env, seen, Numbers
<1>2. /\ published \subseteq published'
      /\ published \cup buffer \subseteq published' \cup buffer'
      /\ queue' \subseteq queue
  BY DEF ReplayDone, Drain, PublishTick, AdmitRow, WroteRow, PublishOK, RolloverPublish,
         disk, writer
<1>3. row' = row \/ row'.seq = NoSeq \/ row' \in queue
  BY DEF ReplayDone, Drain, PublishTick, AdmitRow, WroteRow, PublishOK, RolloverPublish, NoRow
<1>4. \/ segment' = segment
      \/ segment' = segment \cup ({row.seq} \ {NoSeq}) /\ row.ev \in buffer'
  BY DEF ReplayDone, Drain, PublishTick, AdmitRow, WroteRow, PublishOK, RolloverPublish
<1>5. LogInv' /\ CounterAhead' /\ RowsMatch' /\ (~blocked' => Held')
  BY <1>1, <1>2, <1>3, <1>4, FrameKeeps
<1>6. ReplayFirst'
  BY <1>1 DEF ReplayDone, Drain, PublishTick, Due, AdmitRow, WroteRow, Back, PublishOK,
              RolloverPublish, CheckpointInv, Live, ReplayFirst
<1>7. HookAfterPublish'
  BY DEF ReplayDone, Drain, PublishTick, AdmitRow, WroteRow, Back, PublishOK, RolloverPublish,
         HookAfterPublish
<1> QED
  BY <1>5, <1>6, <1>7 DEF Live

\* An append whose record is held in flight, or whose number nobody learns.
LEMMA AppendKeeps ==
  ASSUME CheckpointInv, Numbers, Numbers', pc # "down", replay = {}, replay' = {},
         NEW e \in Event, AppendOK(e) \/ AppendRaises(e),
         UNCHANGED <<ckpt, clock, published, stamp, segment, hwm, blocked, buffer>>,
         inflight' = inflight \/ inflight' = inflight \cup {NextSeq},
         row' = row \/ (row'.ev = e /\ row'.seq \in {NextSeq, NoSeq}),
         queue' = queue \/ queue' = queue \cup {Safe(e)},
         \/ NextSeq \in inflight'
         \/ (row' = row \/ row'.seq = NoSeq) /\ queue' = queue
  PROVE  LogInv' /\ CounterAhead' /\ RowsMatch' /\ (~blocked' => Held')
<1>1. /\ LogInv'
      /\ last <= last' /\ ckpt' <= last' /\ stamp' <= clock'
      /\ \A r \in logged' : r.seq <= last' /\ r.stamp <= stamp'
      /\ \A r \in logged' \ logged : r.seq = last + 1 /\ r.ev = e
      /\ logged \subseteq logged'
  BY AppendLog DEF CheckpointInv, LogInv, Live
<1>2. /\ NextSeq = last + 1 /\ last' = last + 1 /\ ~writeFailed /\ last + 1 \in Nat
      /\ Safe(e).seq = last + 1 /\ Safe(e).ev = e
  BY NextIsNat DEF AppendOK, AppendRaises, Open, NextSeq, Numbers, Safe
<1>3. Below(last + 1) /\ CounterAhead /\ RowsMatch
  BY DEF CheckpointInv, Live, CounterAhead
<1>4. Below(last + 1)'
  <2>1. \A k \in inflight' \cup segment' : k < last + 2
    BY <1>2, <1>3 DEF Below, Numbers
  <2>2. hwm' < last + 2 /\ row'.seq < last + 2
    BY <1>2, <1>3 DEF Below, Numbers, NoSeq
  <2>3. \A q \in queue' : q.seq < last + 2
    BY <1>2, <1>3 DEF Below, Numbers
  <2>4. last' + 1 = last + 2
    BY <1>2 DEF Numbers
  <2> QED
    BY <2>1, <2>2, <2>3, <2>4 DEF Below
<1>5. CounterAhead'
  BY <1>1, <1>4 DEF CounterAhead
<1>6. RowsMatch'
  <2> SUFFICES ASSUME NEW r \in logged'
               PROVE  /\ r.seq = row'.seq => r.ev = row'.ev
                      /\ \A q \in queue' : r.seq = q.seq => r.ev = q.ev
    BY DEF RowsMatch
  <2>1. r.seq \in Nat /\ (r \in logged => r.seq <= last)
    BY <1>1, <1>3 DEF CounterAhead, Numbers
  <2>2. r \notin logged => r.seq = last + 1 /\ r.ev = e
    BY <1>1
  <2>3. row.seq < last + 1 /\ \A q \in queue : q.seq < last + 1
    BY <1>3 DEF Below
  <2>4. r.seq = row'.seq => r.ev = row'.ev
    BY <1>2, <1>3, <2>1, <2>2, <2>3 DEF RowsMatch, NoSeq, Numbers
  <2>5. \A q \in queue' : r.seq = q.seq => r.ev = q.ev
    BY <1>2, <1>3, <2>1, <2>2, <2>3 DEF RowsMatch, Numbers
  <2> QED
    BY <2>4, <2>5
<1>7. ASSUME ~blocked' PROVE Held'
  <2> SUFFICES ASSUME NEW r \in logged'
               PROVE  /\ r.ev \in published \/ r.seq \in inflight' \/ Ahead(r)'
                      /\ r.seq \in segment => r.ev \in published \cup buffer
    BY DEF Held
  <2>1. CASE r \in logged
    <3>1. /\ r.ev \in published \/ r.seq \in inflight \/ Ahead(r)
          /\ r.seq \in segment => r.ev \in published \cup buffer
      BY <1>7, <2>1 DEF CheckpointInv, Held
    <3>2. ~Ahead(r)
      BY <1>2 DEF Ahead
    <3> QED
      BY <3>1, <3>2
  <2>2. CASE r \notin logged
    <3>1. r.seq = last + 1 /\ r.ev = e
      BY <1>1, <2>2
    <3>2. r.seq \notin segment
      BY <1>2, <1>3, <3>1 DEF Below, Numbers
    <3>3. CASE NextSeq \in inflight'
      BY <1>2, <3>1, <3>2, <3>3
    <3>4. CASE NextSeq \notin inflight'
      <4>1. /\ inflight' = inflight /\ queue' = queue
            /\ row' = row \/ row'.seq = NoSeq
        BY <3>4
      <4>2. writeFailed'
        BY <3>4 DEF AppendOK, AppendRaises
      <4>3. Below(r.seq)'
        BY <1>2, <1>3, <3>1, <4>1 DEF Below, NoSeq
      <4> QED
        BY <1>2, <3>1, <3>2, <4>2, <4>3 DEF Ahead
    <3> QED
      BY <3>3, <3>4
  <2> QED
    BY <2>1, <2>2
<1> QED
  BY <1>1, <1>5, <1>6, <1>7

\* An append that is refused changes nothing the invariant reads.
LEMMA RefusedKeeps ==
  ASSUME CheckpointInv, Numbers, Numbers', pc # "down", replay' = replay, AppendRefused,
         UNCHANGED <<ckpt, clock, published, stamp, segment, hwm, blocked, buffer, queue>>,
         row' = row \/ row'.seq = NoSeq
  PROVE  LogInv' /\ CounterAhead' /\ RowsMatch' /\ (~blocked' => Held')
<1>1. UNCHANGED <<wal, last, writeFailed, inflight, logged, protected>> /\ clock <= clock'
  BY DEF AppendRefused, Numbers
<1> QED
  BY <1>1, FrameKeeps

\* An event that is persisted at once, protected or not.
LEMMA PersistKeeps ==
  ASSUME CheckpointInv, Numbers, Numbers', Persist
  PROVE  LogInv' /\ Live' /\ (~blocked' => Held')
<1> DEFINE e == events + 1
<1>1. e \in Event
  BY ReceiveTypes DEF CheckpointInv, Persist
<1>2. /\ UNCHANGED <<ckpt, clock, published, stamp, segment, hwm, blocked, buffer, queue, starting>>
      /\ pc # "down" /\ pc' = "write" /\ replay = {} /\ replay' = {}
  BY DEF Persist, writer, CheckpointInv, Live, ReplayFirst
<1>3. LogInv' /\ CounterAhead' /\ RowsMatch' /\ (~blocked' => Held')
  <2>1. CASE AppendOK(e) /\ row' = Safe(e)
    <3>1. inflight' = inflight \cup {NextSeq} /\ row'.ev = e /\ row'.seq = NextSeq
      BY <2>1 DEF AppendOK, Safe
    <3> QED
      BY <1>1, <1>2, <2>1, <3>1, AppendKeeps
  <2>2. CASE AppendRaises(e) /\ inflight' = inflight \cup {NextSeq} /\ row' = Unsafe(e, NextSeq)
    <3>1. row'.ev = e /\ row'.seq = NextSeq
      BY <2>2 DEF Unsafe
    <3> QED
      BY <1>1, <1>2, <2>2, <3>1, AppendKeeps
  <2>3. CASE AppendRefused /\ row' = Unsafe(e, NoSeq)
    BY <1>2, <2>3, RefusedKeeps DEF Unsafe
  <2> QED
    BY <2>1, <2>2, <2>3 DEF Persist
<1>4. ReplayFirst' /\ HookAfterPublish'
  BY <1>2 DEF ReplayFirst, HookAfterPublish
<1> QED
  BY <1>3, <1>4 DEF Live

\* A websocket event: appended and queued, or persisted at once.
LEMMA EnqueueKeeps ==
  ASSUME CheckpointInv, Numbers, Numbers', Enqueue
  PROVE  LogInv' /\ Live' /\ (~blocked' => Held')
<1> DEFINE e == events + 1
<1>1. e \in Event
  BY ReceiveTypes DEF CheckpointInv, Enqueue
<1>2. /\ UNCHANGED <<ckpt, clock, published, stamp, segment, hwm, blocked, buffer, starting>>
      /\ pc = "run" /\ pc' \in {"run", "write"} /\ replay = {} /\ replay' = {}
  BY DEF Enqueue, writer, CheckpointInv, Live, ReplayFirst
<1>3. LogInv' /\ CounterAhead' /\ RowsMatch' /\ (~blocked' => Held')
  <2>1. CASE AppendOK(e)
    <3>1. inflight' = inflight \cup {NextSeq}
      BY <2>1 DEF AppendOK
    <3>2. /\ row' = row \/ (row'.ev = e /\ row'.seq = NextSeq)
          /\ queue' = queue \/ queue' = queue \cup {Safe(e)}
      BY <2>1 DEF Enqueue, Safe, AppendOK, NotAppended, AppendRaises, AppendRefused, Open
    <3> QED
      BY <1>1, <1>2, <2>1, <3>1, <3>2, AppendKeeps
  <2>2. CASE AppendRaises(e) /\ inflight' = inflight /\ row' = Unsafe(e, NoSeq) /\ queue' = queue
    <3>1. row'.ev = e /\ row'.seq = NoSeq
      BY <2>2 DEF Unsafe
    <3> QED
      BY <1>1, <1>2, <2>2, <3>1, AppendKeeps
  <2>3. CASE AppendRefused /\ row' = Unsafe(e, NoSeq) /\ queue' = queue
    BY <1>2, <2>3, RefusedKeeps DEF Unsafe
  <2> QED
    BY <2>1, <2>2, <2>3 DEF Enqueue, NotAppended
<1>4. ReplayFirst' /\ HookAfterPublish'
  BY <1>2 DEF ReplayFirst, HookAfterPublish
<1> QED
  BY <1>3, <1>4 DEF Live

\* A failure report, which only the log receives.
LEMMA ReportKeeps ==
  ASSUME CheckpointInv, Numbers, Numbers', Report
  PROVE  LogInv' /\ Live' /\ (~blocked' => Held')
<1> DEFINE e == events + 1
<1>1. e \in Event
  BY ReceiveTypes DEF CheckpointInv, Report
<1>2. /\ UNCHANGED <<ckpt, clock, published, stamp, segment, hwm, blocked, buffer, queue, row,
                     starting>>
      /\ pc # "down" /\ pc' = "run" /\ replay = {} /\ replay' = {}
  BY DEF Report, writer, CheckpointInv, Live, ReplayFirst
<1>3. LogInv' /\ CounterAhead' /\ RowsMatch' /\ (~blocked' => Held')
  <2>1. CASE AppendOK(e)
    <3>1. inflight' = inflight \cup {NextSeq}
      BY <2>1 DEF AppendOK
    <3> QED
      BY <1>1, <1>2, <2>1, <3>1, AppendKeeps
  <2>2. CASE AppendRaises(e) /\ inflight' = inflight
    BY <1>1, <1>2, <2>2, AppendKeeps
  <2>3. CASE AppendRefused
    BY <1>2, <2>3, RefusedKeeps
  <2> QED
    BY <2>1, <2>2, <2>3 DEF Report, NotAppended
<1>4. ReplayFirst' /\ HookAfterPublish'
  BY <1>2 DEF ReplayFirst, HookAfterPublish
<1> QED
  BY <1>3, <1>4 DEF Live

\* A writer that fails blocks the checkpoint for the rest of the process.
LEMMA RaisesKeeps ==
  ASSUME CheckpointInv, Numbers, Numbers', WriterRaises
  PROVE  LogInv' /\ Live' /\ blocked'
<1>1. /\ UNCHANGED <<wal, ckpt, last, stamp, hwm, inflight, segment, logged, protected, queue,
                     published, clock>>
      /\ pc # "down" /\ clock <= clock' /\ row'.seq = NoSeq /\ replay' = {} /\ blocked'
      /\ ~starting' /\ pc' \in {"run", "report"}
  BY DEF WriterRaises, disk, journal, NoRow, Numbers
<1>2. LogInv'
  BY <1>1, LogStill DEF CheckpointInv, LogInv, Numbers
<1>3. \A n \in Nat : Below(n) => Below(n)'
  BY <1>1 DEF Below, NoSeq
<1>4. CounterAhead'
  BY <1>1, <1>3, NextIsNat DEF CheckpointInv, Live, CounterAhead, Numbers
<1>5. RowsMatch'
  BY <1>1 DEF CheckpointInv, Live, RowsMatch, Numbers, NoSeq
<1>6. ReplayFirst' /\ HookAfterPublish'
  BY <1>1 DEF ReplayFirst, HookAfterPublish
<1> QED
  BY <1>1, <1>2, <1>4, <1>5, <1>6 DEF Live

\* The heart of the protocol: when a segment has become durable, the
\* checkpoint the hook asks for stays below every unpublished record.
LEMMA TargetBelowUnpublished ==
  ASSUME CheckpointInv, Numbers, ~blocked, pc \in {"hook", "rollhook"},
         NEW high \in segment \cup {hwm}, NEW n \in Int, Target(inflight \ segment, high, n),
         NEW r \in logged, r.ev \notin published
  PROVE  n < r.seq
<1>1. r.seq \notin segment /\ (r.seq \in inflight \/ Ahead(r))
  BY DEF CheckpointInv, Live, Held, HookAfterPublish
<1>2. CASE r.seq \in inflight
  BY <1>1, <1>2 DEF Target, IsMin, Numbers
<1>3. CASE Ahead(r)
  <2>1. high < r.seq /\ \A k \in inflight : k < r.seq
    BY <1>3 DEF Ahead, Below
  <2> QED
    BY <2>1 DEF Target, IsMin, Numbers
<1> QED
  BY <1>1, <1>2, <1>3

\* And no higher than the counter.
LEMMA TargetBelowCounter ==
  ASSUME Numbers, Below(last + 1), NEW high \in segment \cup {hwm}, NEW n \in Int,
         Target(inflight \ segment, high, n)
  PROVE  n <= last
<1>1. high < last + 1 /\ \A k \in inflight : k < last + 1
  BY DEF Below
<1> QED
  BY <1>1 DEF Target, IsMin, Numbers

\* The durable hook: numbers leave the in-flight set, the checkpoint moves up.
LEMMA HookKeeps ==
  ASSUME CheckpointInv, Numbers, Numbers', DurableHook
  PROVE  LogInv' /\ Live' /\ (~blocked' => Held')
<1>1. /\ UNCHANGED <<published, last, writeFailed, starting, replay, queue, buffer, clock,
                     logged, protected>>
      /\ pc \in {"hook", "rollhook"} /\ pc' \in {"write", Back}
      /\ segment' = {} /\ inflight' = inflight \ segment
      /\ row' = row \/ row'.seq = NoSeq
  BY DEF DurableHook, writer, seen, NoRow
<1>2. hwm' \in segment \cup {hwm}
  BY DEF DurableHook, IsMax
<1>3. Live /\ LogInv /\ Below(last + 1) /\ (~blocked => Held)
  BY <1>1 DEF CheckpointInv, LogInv, Live, CounterAhead
<1>4. \A n \in Nat : Below(n) => Below(n)'
  BY <1>1, <1>2 DEF Below, NoSeq
<1>5. /\ wal' \subseteq wal /\ \A r \in wal : r \in wal' \/ r.seq <= ckpt'
      /\ ckpt <= ckpt' /\ ckpt' <= last
      /\ \A r \in logged : r.ev \notin published /\ r.seq <= ckpt' => r.seq <= ckpt
      /\ blocked => blocked'
  <2>1. CASE UNCHANGED <<wal, ckpt>> /\ (blocked => blocked')
    BY <1>3, <2>1 DEF Numbers, Live, CounterAhead
  <2>2. CASE \E n \in NoSeq .. MaxEvents :
               /\ ~blocked /\ Target(inflight \ segment, hwm', n) /\ n > ckpt
               /\ Checkpoint(n) \/ CheckpointRaises(n)
    <3>1. PICK n \in NoSeq .. MaxEvents :
            /\ ~blocked /\ Target(inflight \ segment, hwm', n) /\ n > ckpt
            /\ Checkpoint(n) \/ CheckpointRaises(n)
      BY <2>2
    <3>2. n \in Int
      BY ChannelAssumption DEF NoSeq
    <3>3. n <= last
      BY <1>2, <1>3, <3>1, <3>2, TargetBelowCounter
    <3>4. \A r \in logged : r.ev \notin published => n < r.seq
      BY <1>1, <1>2, <3>1, <3>2, TargetBelowUnpublished
    <3>5. /\ wal' \subseteq wal /\ \A r \in wal : r \in wal' \/ r.seq <= ckpt'
          /\ ckpt' \in {ckpt, n}
      BY <3>1, DeleteKeeps DEF Checkpoint, CheckpointRaises
    <3> QED
      BY <1>3, <3>1, <3>2, <3>3, <3>4, <3>5 DEF Numbers, Live, CounterAhead
  <2> QED
    BY <1>1, <2>1, <2>2 DEF DurableHook
<1>6. LogInv'
  <2>1. LogKept'
    BY <1>1, <1>3, <1>5 DEF LogInv, LogKept, Numbers
  <2>2. CheckpointSound'
    BY <1>1, <1>3, <1>5 DEF LogInv, CheckpointSound
  <2>3. LogOrdered' /\ ProtectedLogged'
    BY <1>1, <1>3 DEF LogInv, LogOrdered, ProtectedLogged
  <2> QED
    BY <2>1, <2>2, <2>3 DEF LogInv
<1>7. CounterAhead'
  <2>1. stamp' \in {stamp, clock}
    BY DEF DurableHook, Rotate
  <2>2. Below(last + 1)'
    BY <1>1, <1>3, <1>4, NextIsNat DEF Numbers
  <2>3. stamp' <= clock' /\ \A r \in logged' : r.seq <= last' /\ r.stamp <= stamp'
    BY <1>1, <1>3, <2>1 DEF Live, CounterAhead, LogInv, LogOrdered, Numbers
  <2> QED
    BY <1>1, <1>5, <2>2, <2>3 DEF CounterAhead
<1>8. ReplayFirst' /\ RowsMatch' /\ HookAfterPublish'
  BY <1>1, <1>3 DEF Live, ReplayFirst, RowsMatch, HookAfterPublish, Back, Numbers, NoSeq
<1>9. ASSUME ~blocked' PROVE Held'
  <2> SUFFICES ASSUME NEW r \in logged, r.ev \notin published, r.seq \notin inflight'
               PROVE  Ahead(r)'
    BY <1>1 DEF Held
  <2>1. Ahead(r)
    BY <1>1, <1>3, <1>5, <1>9 DEF Held, Live, HookAfterPublish
  <2> QED
    BY <1>1, <1>4, <2>1 DEF Ahead, Numbers
<1> QED
  BY <1>6, <1>7, <1>8, <1>9 DEF Live

\* The process ends, or the log is damaged or repaired while it is down.
LEMMA DownKeeps ==
  ASSUME CheckpointInv, Numbers, Shutdown \/ Kill \/ Corrupt \/ Repair
  PROVE  LogInv' /\ pc' = "down"
<1>1. /\ UNCHANGED <<wal, ckpt, logged, protected, published, clock>> /\ pc' = "down"
      /\ clock <= clock' /\ clock' \in Nat
  BY DEF Shutdown, Kill, Corrupt, Repair, disk, runner, env, seen, Numbers
<1> QED
  BY <1>1, LogStill DEF CheckpointInv, LogInv

\* Time passes, or nothing happens.
LEMMA IdleKeeps ==
  ASSUME CheckpointInv, Numbers, Numbers', ClockSteps = FALSE, Tick \/ UNCHANGED vars
  PROVE  LogInv' /\ (pc' # "down" => Live' /\ (~blocked' => Held'))
<1>1. /\ UNCHANGED <<disk, journal, runner, writer, seen>>
      /\ clock <= clock' /\ clock' \in Nat
  BY DEF Tick, vars, env, Numbers
<1>2. LogInv'
  BY <1>1, LogStill DEF CheckpointInv, LogInv, disk, seen
<1>3. ASSUME pc' # "down" PROVE Live' /\ (~blocked' => Held')
  <2>1. /\ UNCHANGED <<wal, ckpt, last, stamp, writeFailed, hwm, inflight, blocked, logged,
                       protected, replay, published, buffer, queue, row, segment, pc, starting>>
        /\ pc # "down"
    BY <1>1, <1>3 DEF disk, journal, runner, writer, seen
  <2>2. LogInv' /\ CounterAhead' /\ RowsMatch' /\ (~blocked' => Held')
    BY <1>1, <2>1, FrameKeeps
  <2>3. ReplayFirst' /\ HookAfterPublish'
    BY <2>1 DEF CheckpointInv, Live, ReplayFirst, HookAfterPublish
  <2> QED
    BY <2>2, <2>3 DEF Live
<1> QED
  BY <1>2, <1>3

\* The channel invariant is inductive as long as the clock does not step back.
LEMMA ChannelStep ==
  ASSUME ClockSteps = FALSE
  PROVE  CheckpointInv /\ [Next]_vars => CheckpointInv'
<1> SUFFICES ASSUME CheckpointInv, [Next]_vars PROVE CheckpointInv'
  OBVIOUS
<1>1. TypeOK /\ TypeOK'
  BY TypeStep DEF CheckpointInv
<1>2. Numbers /\ Numbers'
  BY <1>1, TypedNumbers, TypedNumbersNext
<1>3. LogInv' /\ (pc' # "down" => Live' /\ (~blocked' => Held'))
  <2>1. CASE Start
    BY <1>2, <2>1, StartKeeps
  <2>2. CASE ReplayNext
    BY <1>2, <2>2, ReplayKeeps
  <2>3. CASE ReplayDone \/ Drain \/ PublishTick \/ AdmitRow \/ WroteRow \/ PublishOK
             \/ RolloverPublish
    BY <1>2, <2>3, QuietKeeps
  <2>4. CASE WriterRaises
    BY <1>2, <2>4, RaisesKeeps
  <2>5. CASE DurableHook
    BY <1>2, <2>5, HookKeeps
  <2>6. CASE Persist
    BY <1>2, <2>6, PersistKeeps
  <2>7. CASE Enqueue
    BY <1>2, <2>7, EnqueueKeeps
  <2>8. CASE Report
    BY <1>2, <2>8, ReportKeeps
  <2>9. CASE Shutdown \/ Kill \/ Corrupt \/ Repair
    BY <1>2, <2>9, DownKeeps
  <2>10. CASE Tick \/ UNCHANGED vars
    BY <1>2, <2>10, IdleKeeps
  <2> QED
    BY <2>1, <2>2, <2>3, <2>4, <2>5, <2>6, <2>7, <2>8, <2>9, <2>10 DEF Next, Work
<1> QED
  BY <1>1, <1>3 DEF CheckpointInv, LogInv

\* The inductive invariant holds in every reachable state of a channel whose
\* wall clock never steps back.
LEMMA CheckpointInvariant ==
  ASSUME ClockSteps = FALSE
  PROVE  Spec => []CheckpointInv
<1>1. Init => CheckpointInv
  <2> SUFFICES ASSUME Init PROVE CheckpointInv
    OBVIOUS
  <2>1. TypeOK
    BY TypeInit
  <2>2. LogKept /\ LogOrdered /\ ProtectedLogged /\ CheckpointSound
    BY DEF Init, LogKept, LogOrdered, ProtectedLogged, CheckpointSound
  <2> QED
    BY <2>1, <2>2 DEF CheckpointInv, Init
<1>2. CheckpointInv /\ [Next]_vars => CheckpointInv'
  BY ChannelStep
<1> QED
  BY <1>1, <1>2, PTL DEF Spec

\* Checkpoint N on disk means every logged event with seq <= N is in a
\* published segment: crashes, failed appends, refused appends, a failed writer
\* and failed checkpoints included.
THEOREM CheckpointIsSound ==
  ASSUME ClockSteps = FALSE
  PROVE  Spec => []CheckpointSound
<1>1. CheckpointInv => CheckpointSound
  BY DEF CheckpointInv
<1> QED
  BY <1>1, CheckpointInvariant, PTL

\* An event whose append returned is published, or its record is on disk above
\* the checkpoint, where the next start finds it.
THEOREM ProtectedNeverLost ==
  ASSUME ClockSteps = FALSE
  PROVE  Spec => []ProtectedSurvives
<1>1. CheckpointInv => ProtectedSurvives
  <2> SUFFICES ASSUME CheckpointInv, NEW e \in protected, e \notin published
               PROVE  \E r \in Pending : r.ev = e
    BY DEF ProtectedSurvives
  <2>1. PICK r \in logged : r.ev = e
    BY DEF CheckpointInv, ProtectedLogged
  <2>2. ~(r.seq <= ckpt)
    BY <2>1 DEF CheckpointInv, CheckpointSound
  <2>3. r \in wal /\ r.seq > ckpt
    BY <2>1, <2>2, TypedNumbers DEF CheckpointInv, LogKept, Numbers
  <2> QED
    BY <2>1, <2>3 DEF Pending
<1> QED
  BY <1>1, CheckpointInvariant, PTL

\* No sequence number is given to two events, across restarts and deleted
\* files.
THEOREM SequenceNumbersUnique ==
  ASSUME ClockSteps = FALSE
  PROVE  Spec => []SeqNotReused
<1>1. CheckpointInv => SeqNotReused
  BY DEF CheckpointInv, LogOrdered, SeqNotReused
<1> QED
  BY <1>1, CheckpointInvariant, PTL

-----------------------------------------------------------------------------
(* No event goes unaccounted. *)

\* Events stay known, the row in hand is known when the call gives it up, and one event
\* is received at a time.
LEMMA KnownKeeps ==
  ASSUME TypeOK, EventsKnown, published \subseteq published', logged \subseteq logged',
         counted \subseteq counted',
         row.ev = 0 \/ row'.ev = row.ev \/ row.ev \in Known',
         events' = events \/ (events' = events + 1 /\ (row'.ev = events' \/ events' \in Known'))
  PROVE  \A e \in (1 .. events') \ {row'.ev} : e \in Known'
<1>1. events \in Nat
  BY ChannelAssumption DEF TypeOK, RestOK
<1>2. TAKE e \in (1 .. events') \ {row'.ev}
<1>3. CASE e \in 1 .. events /\ e # row.ev
  <2>1. e \in Known
    BY <1>3 DEF EventsKnown
  <2> QED
    BY <2>1 DEF Known
<1>4. CASE e = row.ev
  <2>1. e # 0 /\ row'.ev # row.ev
    BY <1>1, <1>2, <1>4
  <2> QED
    BY <1>4, <2>1
<1>5. CASE e \notin 1 .. events
  <2>1. events' = events + 1 /\ e = events'
    BY <1>1, <1>2, <1>5
  <2> QED
    BY <1>2, <2>1
<1> QED
  BY <1>3, <1>4, <1>5

\* Whichever way the call for an event ends, the event is counted or was logged.
LEMMA CountKnows ==
  ASSUME EventsKnown, logged \subseteq logged',
         counted' = counted \cup (IF row.safe THEN {} ELSE {row.ev} \ {0})
  PROVE  row.ev = 0 \/ row.ev \in Known'
<1>1. CASE row.safe
  <2>1. \E r \in logged : r.ev = row.ev
    BY <1>1 DEF EventsKnown
  <2> QED
    BY <2>1 DEF Known
<1>2. CASE ~row.safe
  BY <1>2 DEF Known
<1> QED
  BY <1>1, <1>2

\* What an append leaves: a safe row is of a logged event.
LEMMA AppendKnows ==
  ASSUME NEW e, AppendOK(e)
  PROVE  /\ logged \subseteq logged' /\ \E r \in logged' : r.ev = e
         /\ Safe(e).ev = e /\ Safe(e).safe = TRUE
<1>1. Rec(e).ev = e
  BY DEF Rec
<1>2. logged' = logged \cup {Rec(e)}
  BY DEF AppendOK
<1> QED
  BY <1>1, <1>2 DEF Safe

\* Every step keeps what is known of the events.
LEMMA EventsStep ==
  ASSUME CheckpointInv, EventsKnown, [Next]_vars
  PROVE  EventsKnown'
<1>0. NoRow.ev = 0 /\ NoRow.safe = FALSE
  BY DEF NoRow
<1>a. TypeOK
  BY DEF CheckpointInv
<1>1. CASE Start
  <2>1. /\ row' = NoRow /\ queue' = {} /\ pc = "down" /\ pc' \in {"corrupt", "replay"}
        /\ UNCHANGED <<published, logged, counted, events>>
    BY <1>1 DEF Start
  <2>2. row.ev = 0
    BY <1>0, <2>1 DEF EventsKnown
  <2>3. \A e \in (1 .. events') \ {row'.ev} : e \in Known'
    BY <1>a, <2>1, <2>2, KnownKeeps
  <2> QED
    BY <1>0, <2>1, <2>3 DEF EventsKnown
<1>2. CASE ReplayNext
  <2>1. PICK r \in replay : row' = [ev |-> r.ev, seq |-> r.seq, safe |-> TRUE]
    BY <1>2 DEF ReplayNext
  <2>2. /\ pc = "replay" /\ pc' = "write"
        /\ UNCHANGED <<published, logged, counted, events, queue>>
    BY <1>2 DEF ReplayNext, disk, seen
  <2>3. row.ev = 0
    BY <1>0, <2>2 DEF EventsKnown
  <2>4. \A e \in (1 .. events') \ {row'.ev} : e \in Known'
    BY <1>a, <2>2, <2>3, KnownKeeps
  <2>5. r \in logged
    BY <2>2 DEF CheckpointInv, Live, ReplayFirst
  <2> QED
    BY <2>1, <2>2, <2>4, <2>5 DEF EventsKnown
<1>3. CASE ReplayDone \/ PublishTick
  <2>1. /\ pc \in {"replay", "run"} /\ pc' \in {"publish", "run"}
        /\ UNCHANGED <<row, published, logged, counted, events, queue, buffer>>
    BY <1>3 DEF ReplayDone, PublishTick, Due, disk, writer, seen
  <2>2. row = NoRow
    BY <2>1 DEF EventsKnown
  <2>3. \A e \in (1 .. events') \ {row'.ev} : e \in Known'
    BY <1>a, <2>1, KnownKeeps
  <2> QED
    BY <1>0, <2>1, <2>2, <2>3 DEF EventsKnown
<1>4. CASE Drain
  <2>1. PICK q \in queue : row' = q /\ queue' = queue \ {q}
    BY <1>4 DEF Drain
  <2>2. /\ pc = "run" /\ pc' = "write" /\ UNCHANGED <<published, logged, counted, events>>
    BY <1>4 DEF Drain, disk, seen
  <2>3. row.ev = 0
    BY <1>0, <2>2 DEF EventsKnown
  <2>4. \A e \in (1 .. events') \ {row'.ev} : e \in Known'
    BY <1>a, <2>2, <2>3, KnownKeeps
  <2> QED
    BY <2>1, <2>2, <2>4 DEF EventsKnown
<1>5. CASE AdmitRow \/ RolloverPublish
  <2>1. /\ pc = "write" /\ pc' \in {"wrote", "rollhook"}
        /\ pc' = "wrote" => row.ev \in buffer'
        /\ UNCHANGED <<row, logged, counted, events, queue>> /\ published \subseteq published'
    BY <1>5 DEF AdmitRow, RolloverPublish, disk, seen
  <2>2. \A e \in (1 .. events') \ {row'.ev} : e \in Known'
    BY <1>a, <2>1, KnownKeeps
  <2> QED
    BY <2>1, <2>2 DEF EventsKnown
<1>6. CASE WroteRow
  <2>1. /\ pc = "wrote" /\ UNCHANGED <<published, logged, counted, events, queue, buffer>>
        /\ \/ pc' = "publish" /\ row' = row
           \/ row.safe /\ pc' \in {"run", "replay"} /\ row' = NoRow
    BY <1>6 DEF WroteRow, Back, disk, writer, seen
  <2>2. row.safe => row.ev \in Known'
    BY <2>1 DEF EventsKnown, Known
  <2>3. \A e \in (1 .. events') \ {row'.ev} : e \in Known'
    BY <1>a, <2>1, <2>2, KnownKeeps
  <2> QED
    BY <1>0, <2>1, <2>3 DEF EventsKnown
<1>7. CASE PublishOK
  <2>1. /\ pc = "publish" /\ pc' = "hook" /\ UNCHANGED <<row, logged, counted, events, queue>>
        /\ published' = published \cup buffer
    BY <1>7 DEF PublishOK, seen
  <2>2. \A e \in (1 .. events') \ {row'.ev} : e \in Known'
    BY <1>a, <2>1, KnownKeeps
  <2> QED
    BY <2>1, <2>2 DEF EventsKnown
<1>8. CASE WriterRaises
  <2>1. /\ row' = NoRow /\ pc' \in {"run", "report"}
        /\ UNCHANGED <<published, logged, events, queue>>
        /\ counted' = counted \cup (IF row.safe THEN {} ELSE {row.ev} \ {0})
    BY <1>8 DEF WriterRaises, Count, disk
  <2>2. row.ev = 0 \/ row.ev \in Known'
    BY <2>1, CountKnows
  <2>3. \A e \in (1 .. events') \ {row'.ev} : e \in Known'
    BY <1>a, <2>1, <2>2, KnownKeeps
  <2> QED
    BY <1>0, <2>1, <2>3 DEF EventsKnown
<1>9. CASE DurableHook
  <2>1. /\ UNCHANGED <<published, logged, counted, events, queue>>
        /\ \/ pc = "hook" /\ pc' \in {"run", "replay"} /\ row' = NoRow
           \/ pc = "rollhook" /\ pc' = "write" /\ row' = row
    BY <1>9 DEF DurableHook, Back, seen
  <2>2. pc = "hook" => row.ev = 0 \/ row.ev \in Known'
    BY <2>1 DEF EventsKnown, Known
  <2>3. \A e \in (1 .. events') \ {row'.ev} : e \in Known'
    BY <1>a, <2>1, <2>2, KnownKeeps
  <2> QED
    BY <1>0, <2>1, <2>3 DEF EventsKnown
<1>10. CASE Persist \/ Enqueue
  <2>1. /\ pc \in {"run", "corrupt"} /\ pc' \in {"write", "run"} /\ events' = events + 1
        /\ UNCHANGED <<published, counted>> /\ logged \subseteq logged'
        /\ pc' = "run" => row' = row
    <3>1. CASE Persist
      BY <3>1 DEF Persist, Receive, AppendOK, AppendRaises, AppendRefused
    <3>2. CASE Enqueue
      BY <3>2 DEF Enqueue, Receive, AppendOK, NotAppended, AppendRaises, AppendRefused
    <3> QED
      BY <1>10, <3>1, <3>2
  <2>2. \/ row' = row /\ AppendOK(events + 1) /\ queue' = queue \cup {Safe(events + 1)}
        \/ row' = Safe(events + 1) /\ AppendOK(events + 1) /\ queue' = queue /\ pc' = "write"
        \/ /\ row'.ev = events + 1 /\ row'.safe = FALSE /\ queue' = queue /\ pc' = "write"
    <3>1. \A n : Unsafe(events + 1, n).ev = events + 1 /\ Unsafe(events + 1, n).safe = FALSE
      BY DEF Unsafe
    <3>2. CASE Persist
      BY <3>1, <3>2 DEF Persist
    <3>3. CASE Enqueue
      BY <3>1, <3>3 DEF Enqueue
    <3> QED
      BY <1>10, <3>2, <3>3
  <2>3. AppendOK(events + 1) => /\ \E r \in logged' : r.ev = events + 1
                                /\ Safe(events + 1).ev = events + 1
                                /\ Safe(events + 1).safe = TRUE
    BY AppendKnows
  <2>4. row = NoRow /\ row.ev = 0 /\ row.safe = FALSE
    BY <1>0, <2>1 DEF EventsKnown
  <2>5. row'.ev = events' \/ events' \in Known'
    <3>1. AppendOK(events + 1) => events' \in Known'
      BY <2>1, <2>3 DEF Known
    <3> QED
      BY <2>1, <2>2, <3>1
  <2>6. \A e \in (1 .. events') \ {row'.ev} : e \in Known'
    BY <1>a, <2>1, <2>4, <2>5, KnownKeeps
  <2>7. \A q \in queue' \cup {row'} : q.safe => \E r \in logged' : r.ev = q.ev
    <3>1. \A q \in queue : q.safe => \E r \in logged' : r.ev = q.ev
      BY <2>1 DEF EventsKnown
    <3> QED
      BY <2>2, <2>3, <2>4, <3>1
  <2>8. pc' = "run" => row' = NoRow
    BY <2>1, <2>4
  <2> QED
    BY <2>1, <2>6, <2>7, <2>8 DEF EventsKnown
<1>11. CASE Report
  <2>1. /\ pc \in {"run", "report"} /\ pc' = "run" /\ events' = events + 1
        /\ UNCHANGED <<published, row, queue>>
    BY <1>11 DEF Report, Receive
  <2>2. \/ AppendOK(events + 1) /\ counted' = counted
        \/ NotAppended(events + 1) /\ counted' = counted \cup {events + 1}
    BY <1>11 DEF Report
  <2>3. logged \subseteq logged' /\ counted \subseteq counted' /\ events' \in Known'
    <3>1. CASE AppendOK(events + 1) /\ counted' = counted
      BY <2>1, <3>1, AppendKnows DEF Known
    <3>2. CASE NotAppended(events + 1) /\ counted' = counted \cup {events + 1}
      BY <2>1, <3>2 DEF Known, NotAppended, AppendRaises, AppendRefused
    <3> QED
      BY <2>2, <3>1, <3>2
  <2>4. row = NoRow
    BY <2>1 DEF EventsKnown
  <2>5. \A e \in (1 .. events') \ {row'.ev} : e \in Known'
    BY <1>a, <2>1, <2>3, KnownKeeps
  <2> QED
    BY <1>0, <2>1, <2>3, <2>4, <2>5 DEF EventsKnown
<1>12. CASE Kill
  <2>1. /\ row' = NoRow /\ queue' = {} /\ pc' = "down" /\ UNCHANGED <<published, logged, events>>
        /\ counted' = counted \cup (IF row.safe THEN {} ELSE {row.ev} \ {0})
    BY <1>12 DEF Kill, disk
  <2>2. row.ev = 0 \/ row.ev \in Known'
    BY <2>1, CountKnows
  <2>3. \A e \in (1 .. events') \ {row'.ev} : e \in Known'
    BY <1>a, <2>1, <2>2, KnownKeeps
  <2> QED
    BY <1>0, <2>1, <2>3 DEF EventsKnown
<1>13. CASE Shutdown \/ Corrupt \/ Repair \/ Tick \/ UNCHANGED vars
  <2>1. /\ UNCHANGED <<row, queue, published, logged, counted, events, buffer>>
        /\ pc' = pc \/ (pc = "run" /\ pc' = "down")
    BY <1>13 DEF Shutdown, Corrupt, Repair, Tick, vars, disk, runner, writer, seen
  <2>2. \A e \in (1 .. events') \ {row'.ev} : e \in Known'
    BY <1>a, <2>1, KnownKeeps
  <2> QED
    BY <2>1, <2>2 DEF EventsKnown
<1> QED
  BY <1>1, <1>2, <1>3, <1>4, <1>5, <1>6, <1>7, <1>8, <1>9, <1>10, <1>11, <1>12, <1>13
    DEF Next, Work

-----------------------------------------------------------------------------
(* An orderly stop leaves nothing to replay. *)

\* What an append adds to the log has the counter's new value for a number.
LEMMA AppendNumbers ==
  ASSUME Numbers, NEW e \in Event, AppendOK(e) \/ AppendRaises(e) \/ AppendRefused
  PROVE  /\ \A r \in logged' : r \in logged \/ (r.seq = last + 1 /\ last' = last + 1)
         /\ last' # last => ~writeFailed
         /\ AppendOK(e) \/ AppendRaises(e) => NextSeq = last + 1 /\ last' = last + 1
         /\ AppendRaises(e) => writeFailed'
         /\ writeFailed => writeFailed'
<1>1. Rec(e).seq = last + 1 /\ NextSeq = last + 1
  BY DEF Rec, NextSeq
<1>2. CASE AppendOK(e)
  BY <1>1, <1>2 DEF AppendOK, AppendRaises, Open
<1>3. CASE AppendRaises(e)
  BY <1>1, <1>3 DEF AppendRaises, Open
<1>4. CASE AppendRefused
  <2>1. UNCHANGED <<last, logged, writeFailed>>
    BY <1>4 DEF AppendRefused
  <2>2. ~(AppendOK(e) \/ AppendRaises(e))
    BY <1>4 DEF AppendRefused, AppendOK, AppendRaises
  <2> QED
    BY <2>1, <2>2
<1> QED
  BY <1>2, <1>3, <1>4

\* The checkpoint keeps up with a step that leaves log, checkpoint and numbers alone.
LEMMA FrameKeepsUp ==
  ASSUME KeepsUp,
         UNCHANGED <<ckpt, hwm, last, logged, inflight, replay, writeFailed, pinned>>,
         \A k \in inflight :
           \/ k \in segment
           \/ pc \in {"write", "rollhook"} /\ k = row.seq
           \/ \E q \in queue : k = q.seq
           => \/ k \in segment'
              \/ pc' \in {"write", "rollhook"} /\ k = row'.seq
              \/ \E q \in queue' : k = q.seq,
         segment' # {} => buffer' # {} \/ pc' \in {"hook", "rollhook"}
  PROVE  KeepsUp'
BY DEF KeepsUp

\* The checkpoint keeps up with one more event.
LEMMA ReceiveKeepsUp ==
  ASSUME KeepsUp, TypeOK, Numbers, NEW e \in Event, pc \in {"run", "corrupt", "report"},
         AppendOK(e) \/ AppendRaises(e) \/ AppendRefused,
         UNCHANGED <<ckpt, hwm, segment, buffer, replay>>,
         inflight' = inflight \/ inflight' = inflight \cup {NextSeq},
         AppendOK(e) => NextSeq \in inflight',
         queue \subseteq queue',
         pinned => pinned',
         \/ pinned' \/ inflight' = inflight
         \/ (pc' = "write" /\ row'.seq = NextSeq) \/ \E q \in queue' : q.seq = NextSeq
  PROVE  KeepsUp'
<1>1. /\ \A r \in logged' : r \in logged \/ (r.seq = last + 1 /\ last' = last + 1)
      /\ last' # last => ~writeFailed
      /\ AppendOK(e) \/ AppendRaises(e) => NextSeq = last + 1 /\ last' = last + 1
      /\ AppendRaises(e) => writeFailed'
      /\ writeFailed => writeFailed'
  BY AppendNumbers
<1>2. inflight \subseteq inflight'
  OBVIOUS
<1>3. \A r \in logged' : \/ r.seq <= ckpt \/ r.seq <= hwm \/ r.seq \in inflight' \/ r \in replay
                         \/ writeFailed' /\ r.seq = last'
  <2>1. TAKE r \in logged'
  <2>2. CASE r \in logged
    BY <1>1, <1>2, <2>2 DEF KeepsUp
  <2>3. CASE r \notin logged
    <3>1. r.seq = last + 1 /\ last' = last + 1
      BY <1>1, <2>3
    <3>2. CASE AppendOK(e)
      BY <1>1, <3>1, <3>2
    <3>3. CASE AppendRaises(e)
      BY <1>1, <3>1, <3>3
    <3>4. CASE AppendRefused
      BY <2>3, <3>4 DEF AppendRefused
    <3> QED
      BY <3>2, <3>3, <3>4
  <2> QED
    BY <2>2, <2>3
<1>4. ~pinned' => \A k \in inflight' : \/ k \in segment
                                       \/ pc' \in {"write", "rollhook"} /\ k = row'.seq
                                       \/ \E q \in queue' : k = q.seq
  <2> SUFFICES ASSUME ~pinned', NEW k \in inflight'
               PROVE  \/ k \in segment
                      \/ pc' \in {"write", "rollhook"} /\ k = row'.seq
                      \/ \E q \in queue' : k = q.seq
    OBVIOUS
  <2>1. CASE k \in inflight
    BY <2>1 DEF KeepsUp
  <2>2. CASE k \notin inflight
    BY <2>2
  <2> QED
    BY <2>1, <2>2
<1>5. /\ segment' # {} => buffer' # {} \/ pc' \in {"hook", "rollhook"}
      /\ inflight' = {} => hwm' <= ckpt'
  BY <1>2 DEF KeepsUp
<1> QED
  BY <1>3, <1>4, <1>5 DEF KeepsUp

\* A checkpoint the hook moves, or need not move, has caught up with what was published.
LEMMA HookKeepsUp ==
  ASSUME CheckpointInv, Numbers, Numbers', DurableHook, KeepsUp, ~blocked'
  PROVE  KeepsUp'
<1>1. /\ UNCHANGED <<last, writeFailed, replay, queue, buffer, logged, pinned>>
      /\ segment' = {} /\ inflight' = inflight \ segment
      /\ pc \in {"hook", "rollhook"} /\ (pc = "rollhook" => pc' = "write" /\ row' = row)
  BY DEF DurableHook, writer, seen
<1>2. hwm <= hwm' /\ \A k \in segment : k <= hwm'
  <2>1. CASE segment = {}
    BY <2>1 DEF DurableHook, Numbers
  <2>2. CASE segment # {}
    <3>1. IsMax(segment \cup {hwm}, hwm')
      BY <2>2 DEF DurableHook
    <3> QED
      BY <3>1 DEF IsMax, Numbers
  <2> QED
    BY <2>1, <2>2
<1>3. ckpt <= ckpt' /\ (inflight' = {} => hwm' <= ckpt')
  <2>1. CASE blocked \/ hwm' = NoSeq
    <3>1. ckpt' = ckpt /\ blocked' = blocked
      BY <2>1 DEF DurableHook
    <3>2. ckpt >= -1 /\ NoSeq = -1
      BY DEF CheckpointInv, TypeOK, LogOK, Seq, NoSeq
    <3> QED
      BY <2>1, <3>1, <3>2 DEF Numbers
  <2>2. CASE ~(blocked \/ hwm' = NoSeq)
    <3>1. PICK n \in NoSeq .. MaxEvents :
            /\ Target(inflight', hwm', n)
            /\ \/ n <= ckpt /\ UNCHANGED <<wal, ckpt, blocked, faults>> /\ Rotate
               \/ n > ckpt /\ Checkpoint(n) /\ Rotate
               \/ n > ckpt /\ CheckpointRaises(n) /\ UNCHANGED <<file, stamp>>
      BY <2>2 DEF DurableHook
    <3>2. n \in Int
      BY ChannelAssumption DEF NoSeq
    <3>3. n <= ckpt' /\ ckpt <= ckpt'
      BY <3>1, <3>2 DEF Checkpoint, CheckpointRaises, Numbers
    <3>4. inflight' = {} => n = hwm'
      BY <3>1 DEF Target
    <3> QED
      BY <3>3, <3>4
  <2> QED
    BY <2>1, <2>2
<1>4. \A r \in logged : \/ r.seq <= ckpt' \/ r.seq <= hwm' \/ r.seq \in inflight' \/ r \in replay
                        \/ writeFailed /\ r.seq = last
  <2>1. TAKE r \in logged
  <2>2. \/ r.seq <= ckpt \/ r.seq <= hwm \/ r.seq \in inflight \/ r \in replay
        \/ writeFailed /\ r.seq = last
    BY DEF KeepsUp
  <2>3. r.seq \in segment => r.seq <= hwm'
    BY <1>2
  <2>4. r.seq \in Int /\ ckpt \in Int /\ hwm \in Int /\ ckpt' \in Int /\ hwm' \in Int
    BY DEF Numbers
  <2> QED
    BY <1>1, <1>2, <1>3, <2>2, <2>3, <2>4
<1>5. ~pinned => \A k \in inflight' : \/ pc' \in {"write", "rollhook"} /\ k = row'.seq
                                      \/ \E q \in queue' : k = q.seq
  <2> SUFFICES ASSUME ~pinned, NEW k \in inflight'
               PROVE  \/ pc' \in {"write", "rollhook"} /\ k = row'.seq
                      \/ \E q \in queue' : k = q.seq
    OBVIOUS
  <2>1. k \in inflight /\ k \notin segment
    BY <1>1
  <2>2. (pc \in {"write", "rollhook"} /\ k = row.seq) \/ \E q \in queue : k = q.seq
    BY <2>1 DEF KeepsUp
  <2> QED
    BY <1>1, <2>2
<1> QED
  BY <1>1, <1>3, <1>4, <1>5 DEF KeepsUp

\* An orderly stop: nothing is in flight, so the checkpoint covers all that was logged.
LEMMA ShutdownLeavesNothing ==
  ASSUME CheckpointInv, Numbers, StopOrderly, Shutdown
  PROVE  CleanShutdownCheckpoints'
<1>1. /\ pc = "run" /\ queue = {} /\ (buffer = {} \/ writerFailed)
      /\ clean' = (~blocked /\ ~writeFailed /\ ~pinned) /\ UNCHANGED <<wal, ckpt>>
  BY DEF Shutdown, disk
<1>2. SUFFICES ASSUME ~blocked, ~writeFailed, ~pinned, NEW r \in wal, r.seq > ckpt
               PROVE  FALSE
  BY <1>1 DEF CleanShutdownCheckpoints, Pending
<1>3. KeepsUp /\ buffer = {}
  BY <1>1, <1>2 DEF StopOrderly
<1>4. inflight = {}
  BY <1>1, <1>2, <1>3 DEF KeepsUp
<1>5. replay = {} /\ r \in logged
  BY <1>1 DEF CheckpointInv, Live, ReplayFirst, LogKept
<1>6. r.seq <= ckpt \/ r.seq <= hwm
  BY <1>2, <1>3, <1>4, <1>5 DEF KeepsUp
<1>7. hwm <= ckpt
  BY <1>3, <1>4 DEF KeepsUp
<1> QED
  BY <1>2, <1>5, <1>6, <1>7 DEF Numbers

\* Every step keeps the checkpoint up with the log, and a stop that says it was clean so.
LEMMA OrderlyStep ==
  ASSUME CheckpointInv, Numbers, Numbers', EventsKnown, StopOrderly, [Next]_vars
  PROVE  StopOrderly'
<1>0. TypeOK
  BY DEF CheckpointInv
<1>1. CASE Start
  <2>1. /\ pc = "down" /\ pc' # "down" /\ writerFailed' = FALSE /\ blocked' = corrupt
        /\ inflight' = {} /\ segment' = {} /\ hwm' = NoSeq /\ UNCHANGED <<ckpt, logged>>
    BY <1>1 DEF Start
  <2>2. ~corrupt => replay' = Pending
    BY <1>1 DEF Start
  <2>3. ckpt >= NoSeq
    BY <1>0 DEF TypeOK, LogOK, Seq, NoSeq
  <2>4. \A r \in logged : r.seq <= ckpt \/ r \in Pending
    BY DEF CheckpointInv, LogKept, Pending, Numbers
  <2>5. ~blocked' => KeepsUp'
    BY <2>1, <2>2, <2>3, <2>4 DEF KeepsUp, Numbers, NoSeq
  <2> QED
    BY <2>1, <2>5 DEF StopOrderly, CleanShutdownCheckpoints
<1>2. CASE Shutdown \/ Kill \/ Corrupt \/ Repair
  <2>1. pc' = "down"
    BY <1>2 DEF Shutdown, Kill, Corrupt, Repair, runner
  <2>2. CASE Shutdown
    BY <2>1, <2>2, ShutdownLeavesNothing DEF StopOrderly
  <2>3. CASE Kill
    BY <2>1, <2>3 DEF Kill, StopOrderly, CleanShutdownCheckpoints
  <2>4. CASE Corrupt \/ Repair
    <3>1. pc = "down" /\ UNCHANGED <<wal, ckpt, clean>>
      BY <2>4 DEF Corrupt, Repair, seen
    <3> QED
      BY <2>1, <3>1 DEF StopOrderly, CleanShutdownCheckpoints, Pending
  <2> QED
    BY <1>2, <2>2, <2>3, <2>4
<1>3. CASE Tick \/ UNCHANGED vars
  <2>1. UNCHANGED <<wal, ckpt, clean, pc, writerFailed, blocked, pinned, inflight, segment, row,
                    queue, buffer, hwm, logged, replay, writeFailed, last>>
    BY <1>3 DEF Tick, vars, disk, journal, runner, writer, seen
  <2>2. KeepsUp => KeepsUp'
    BY <2>1, FrameKeepsUp DEF KeepsUp
  <2> QED
    BY <2>1, <2>2 DEF StopOrderly, CleanShutdownCheckpoints, Pending
<1>4. CASE ReplayDone \/ PublishTick \/ Drain \/ AdmitRow \/ WroteRow \/ PublishOK \/ RolloverPublish
  <2>1. /\ pc # "down" /\ pc' # "down"
        /\ UNCHANGED <<ckpt, hwm, last, logged, inflight, replay, writeFailed, pinned,
                       writerFailed, blocked>>
    BY <1>4 DEF ReplayDone, PublishTick, Due, Drain, AdmitRow, WroteRow, Back, PublishOK,
      RolloverPublish, disk, journal, writer, seen
  <2>2. ASSUME KeepsUp PROVE KeepsUp'
    <3>1. /\ pc' \in {"hook", "rollhook"} \/ buffer \subseteq buffer'
          /\ pc \notin {"hook", "rollhook"}
          /\ segment' = segment \/ buffer' # {}
      BY <1>4 DEF ReplayDone, PublishTick, Due, Drain, AdmitRow, WroteRow, PublishOK,
        RolloverPublish, writer
    <3>2. segment' # {} => buffer' # {} \/ pc' \in {"hook", "rollhook"}
      BY <2>2, <3>1 DEF KeepsUp
    <3>3. ASSUME NEW k \in inflight,
                 \/ k \in segment
                 \/ pc \in {"write", "rollhook"} /\ k = row.seq
                 \/ \E q \in queue : k = q.seq
          PROVE  \/ k \in segment'
                 \/ pc' \in {"write", "rollhook"} /\ k = row'.seq
                 \/ \E q \in queue' : k = q.seq
      <4>1. k # NoSeq
        BY DEF Numbers, NoSeq
      <4>2. CASE AdmitRow
        BY <3>3, <4>1, <4>2 DEF AdmitRow
      <4>3. CASE RolloverPublish
        BY <3>3, <4>3 DEF RolloverPublish
      <4>4. CASE Drain
        BY <3>3, <4>4 DEF Drain
      <4>5. CASE ReplayDone \/ PublishTick \/ WroteRow \/ PublishOK
        BY <3>3, <4>5 DEF ReplayDone, PublishTick, Due, WroteRow, PublishOK
      <4> QED
        BY <1>4, <4>2, <4>3, <4>4, <4>5
    <3> QED
      BY <2>1, <2>2, <3>2, <3>3, FrameKeepsUp
  <2> QED
    BY <2>1, <2>2 DEF StopOrderly, CleanShutdownCheckpoints
<1>5. CASE ReplayNext
  <2>1. PICK r \in replay :
          /\ replay' = replay \ {r} /\ inflight' = inflight \cup {r.seq}
          /\ row' = [ev |-> r.ev, seq |-> r.seq, safe |-> TRUE]
    BY <1>5 DEF ReplayNext
  <2>2. /\ pc = "replay" /\ pc' = "write"
        /\ UNCHANGED <<ckpt, hwm, last, logged, writeFailed, pinned, writerFailed, blocked,
                       segment, buffer, queue>>
    BY <1>5 DEF ReplayNext, disk, journal, writer, seen
  <2>3. ASSUME KeepsUp PROVE KeepsUp'
    <3>1. row'.seq = r.seq
      BY <2>1
    <3> QED
      BY <2>1, <2>2, <2>3, <3>1 DEF KeepsUp
  <2> QED
    BY <2>2, <2>3 DEF StopOrderly, CleanShutdownCheckpoints
<1>6. CASE WriterRaises
  BY <1>6 DEF WriterRaises, StopOrderly, CleanShutdownCheckpoints
<1>7. CASE DurableHook
  <2>1. /\ pc # "down" /\ pc' # "down" /\ writerFailed' = writerFailed
        /\ blocked => blocked'
    BY <1>7 DEF DurableHook, Back, writer, Checkpoint, CheckpointRaises
  <2> QED
    BY <1>7, <2>1, HookKeepsUp DEF StopOrderly, CleanShutdownCheckpoints
<1>8. CASE Persist \/ Enqueue \/ Report
  <2>1. PICK e : e = events + 1
    OBVIOUS
  <2>2. /\ e \in Event /\ pc \in {"run", "corrupt", "report"} /\ pc' # "down"
        /\ UNCHANGED <<ckpt, hwm, segment, buffer, replay, writerFailed, blocked>>
        /\ queue \subseteq queue' /\ (pinned => pinned')
    BY <1>0, <1>8, <2>1, ReceiveTypes DEF Persist, Enqueue, Report, writer
  <2>3. /\ AppendOK(e) \/ AppendRaises(e) \/ AppendRefused
        /\ inflight' = inflight \/ inflight' = inflight \cup {NextSeq}
        /\ AppendOK(e) => NextSeq \in inflight'
        /\ \/ pinned' \/ inflight' = inflight
           \/ (pc' = "write" /\ row'.seq = NextSeq) \/ \E q \in queue' : q.seq = NextSeq
    <3>1. Safe(e).seq = NextSeq /\ Unsafe(e, NextSeq).seq = NextSeq
      BY DEF Safe, Unsafe
    <3>2. AppendOK(e) => inflight' = inflight \cup {NextSeq}
      BY DEF AppendOK
    <3>3. AppendRefused => inflight' = inflight
      BY DEF AppendRefused
    <3>4. CASE Persist
      BY <2>1, <3>1, <3>2, <3>3, <3>4 DEF Persist
    <3>5. CASE Enqueue
      BY <2>1, <3>1, <3>2, <3>3, <3>5 DEF Enqueue, NotAppended
    <3>6. CASE Report
      BY <2>1, <3>2, <3>3, <3>6 DEF Report, NotAppended
    <3> QED
      BY <1>8, <3>4, <3>5, <3>6
  <2>4. KeepsUp => KeepsUp'
    BY <1>0, <2>2, <2>3, ReceiveKeepsUp
  <2> QED
    BY <2>2, <2>4 DEF StopOrderly, CleanShutdownCheckpoints
<1> QED
  BY <1>1, <1>2, <1>3, <1>4, <1>5, <1>6, <1>7, <1>8 DEF Next, Work

\* Everything the channel keeps, in every reachable state of a channel whose wall clock
\* never steps back (_persist_quality_event, _on_quality_segment_durable and the log).
THEOREM ChannelInvariant ==
  ASSUME ClockSteps = FALSE
  PROVE  Spec => []ChannelInv
<1>1. Init => EventsKnown /\ StopOrderly
  <2> SUFFICES ASSUME Init PROVE EventsKnown /\ StopOrderly
    OBVIOUS
  <2>1. EventsKnown
    BY DEF Init, EventsKnown, NoRow
  <2>2. StopOrderly
    BY DEF Init, StopOrderly, CleanShutdownCheckpoints, Pending
  <2> QED
    BY <2>1, <2>2
<1>2. CheckpointInv /\ CheckpointInv' /\ EventsKnown /\ StopOrderly /\ [Next]_vars
        => EventsKnown' /\ StopOrderly'
  <2> SUFFICES ASSUME CheckpointInv, CheckpointInv', EventsKnown, StopOrderly, [Next]_vars
               PROVE  EventsKnown' /\ StopOrderly'
    OBVIOUS
  <2>1. Numbers /\ Numbers'
    BY TypedNumbers, TypedNumbersNext DEF CheckpointInv
  <2> QED
    BY <2>1, EventsStep, OrderlyStep
<1>3. ChannelInv <=> CheckpointInv /\ EventsKnown /\ StopOrderly
  BY DEF ChannelInv
<1> QED
  BY <1>1, <1>2, <1>3, CheckpointInvariant, PTL DEF Spec

\* Every event the runner received but that of the call under way is published, on disk
\* above the checkpoint, or counted as lost or unconfirmed: no queue, retry, failed append,
\* failed writer or kill takes one silently (_account_degraded_quality_event).
THEOREM EveryEventAlwaysAccounted ==
  ASSUME ClockSteps = FALSE
  PROVE  Spec => []EveryEventAccounted
<1>1. ChannelInv => EveryEventAccounted
  <2> SUFFICES ASSUME ChannelInv, NEW e \in (1 .. events) \ {row.ev},
                      e \notin published \cup counted
               PROVE  \E r \in Pending : r.ev = e
    BY DEF EveryEventAccounted
  <2>1. PICK r \in logged : r.ev = e
    BY DEF ChannelInv, EventsKnown, Known
  <2>2. ~(r.seq <= ckpt)
    BY <2>1 DEF ChannelInv, CheckpointInv, CheckpointSound
  <2>3. r \in wal /\ r.seq > ckpt
    BY <2>1, <2>2, TypedNumbers DEF ChannelInv, CheckpointInv, LogKept, Numbers
  <2> QED
    BY <2>1, <2>3 DEF Pending
<1> QED
  BY <1>1, ChannelInvariant, PTL

\* After shutdown() with the checkpoint not blocked, the next start has nothing to replay.
THEOREM CleanShutdownAlwaysCheckpoints ==
  ASSUME ClockSteps = FALSE
  PROVE  Spec => []CleanShutdownCheckpoints
<1>1. ChannelInv => CleanShutdownCheckpoints
  BY DEF ChannelInv, StopOrderly
<1> QED
  BY <1>1, ChannelInvariant, PTL
=============================================================================
