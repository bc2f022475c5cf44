------------------------ MODULE SegmentWriterProofs ------------------------
(* Machine-checked proofs about SegmentWriter, for every value of its constants. *)
EXTENDS SegmentWriter, TLAPS

\* A token is an hour and a number, and a counter bumped at one token is one more there.
LEMMA TokenParts ==
  ASSUME NEW t \in Token
  PROVE  t[1] \in Hours /\ t[2] \in 0 .. MaxSeq /\ t = <<t[1], t[2]>>
  BY DEF Token

\* What adding to an account of tokens does.
LEMMA BumpType ==
  ASSUME NEW f \in [Token -> Nat], NEW t \in Token, NEW n \in Nat
  PROVE  /\ Bump(f, t, n) \in [Token -> Nat]
         /\ \A u \in Token : Bump(f, t, n)[u] = IF u = t THEN f[u] + n ELSE f[u]
  BY DEF Bump

\* What a failure before the rename does to the accounts.
LEMMA FailTypes ==
  ASSUME TypeOK, NEW covered \in Nat, FailUnpublished(covered)
  PROVE  /\ lost' \in [Token -> Nat] /\ reported' \in [Token -> Nat]
         /\ pc' = "failed" /\ buf' = 0
         /\ \A u \in Token \ {cur} : lost'[u] = lost[u] /\ reported'[u] = reported[u]
         /\ lost'[cur] = lost[cur] + rec + buf
         /\ covered <= rec => reported'[cur] = reported[cur] + (rec - covered) + buf
         /\ covered > rec => reported'[cur] = reported[cur] + buf
<1> DEFINE uncovered == IF rec > covered THEN rec - covered ELSE 0
<1>1. rec + buf \in Nat /\ uncovered + buf \in Nat /\ rec \in Nat /\ buf \in Nat /\ cur \in Token
  BY DEF TypeOK
<1>2. (covered <= rec => uncovered = rec - covered) /\ (covered > rec => uncovered = 0)
  BY <1>1
<1>3. /\ lost' = Bump(lost, cur, rec + buf) /\ reported' = Bump(reported, cur, uncovered + buf)
      /\ pc' = "failed" /\ buf' = 0
  BY DEF FailUnpublished
<1>4. lost \in [Token -> Nat] /\ reported \in [Token -> Nat]
  BY DEF TypeOK
<1> HIDE DEF uncovered
<1>5. /\ lost' \in [Token -> Nat] /\ reported' \in [Token -> Nat]
      /\ \A u \in Token : lost'[u] = IF u = cur THEN lost[u] + (rec + buf) ELSE lost[u]
      /\ \A u \in Token :
           reported'[u] = IF u = cur THEN reported[u] + (uncovered + buf) ELSE reported[u]
  <2>1. lost' \in [Token -> Nat]
        /\ \A u \in Token : lost'[u] = IF u = cur THEN lost[u] + (rec + buf) ELSE lost[u]
    BY <1>1, <1>3, <1>4 DEF Bump
  <2>2. reported' \in [Token -> Nat]
        /\ \A u \in Token :
             reported'[u] = IF u = cur THEN reported[u] + (uncovered + buf) ELSE reported[u]
    BY <1>1, <1>3, <1>4 DEF Bump
  <2> QED
    BY <2>1, <2>2
<1>6. lost'[cur] = lost[cur] + (rec + buf) /\ reported'[cur] = reported[cur] + (uncovered + buf)
  BY <1>1, <1>5
<1>7. lost[cur] \in Nat /\ reported[cur] \in Nat
  BY <1>1, <1>4
<1> QED
  BY <1>1, <1>2, <1>3, <1>5, <1>6, <1>7

\* Every step keeps the types.
LEMMA TypeStep == TypeOK /\ [Next]_vars => TypeOK'
<1> SUFFICES ASSUME TypeOK, [Next]_vars PROVE TypeOK'
  OBVIOUS
<1> USE WriterAssumption DEF TypeOK, disk, ram, orphans, env, ghost, Raises, PCs
<1>1. CASE Start
  BY <1>1 DEF Start
<1>2. ASSUME NEW t \in Token, UnlinkOrphan(t) \/ UnlinkCounter(t) \/ OrphanDiscardFails(t)
      PROVE  TypeOK'
  BY <1>2 DEF UnlinkOrphan, UnlinkCounter, OrphanDiscardFails
<1>3. ASSUME NEW t \in Token, ReportOrphan(t) PROVE TypeOK'
  <2>1. reported' \in [Token -> Nat]
    BY <1>3, BumpType DEF ReportOrphan
  <2> QED
    BY <1>3, <2>1 DEF ReportOrphan
<1>4. ASSUME NEW t, OpenOK(t) PROVE /\ cur' \in Token /\ tmps' \subseteq Token /\ lo' \in Nat
                                    /\ rec' \in Nat /\ buf' \in Nat
                                    /\ sidecar' \in [Token -> Nat] /\ faults' \in Nat
  BY <1>4 DEF OpenOK
<1>5. ASSUME NEW t, OpenFails(t) PROVE /\ cur' \in Token /\ tmps' \subseteq Token /\ lo' \in Nat
                                       /\ rec' \in Nat /\ buf' \in Nat
                                       /\ sidecar' \in [Token -> Nat] /\ faults' \in Nat
  BY <1>5 DEF OpenFails
<1>6. CASE OpenFirst
  BY <1>4, <1>5, <1>6 DEF OpenFirst
<1>7. CASE OpenRolled
  BY <1>4, <1>5, <1>7 DEF OpenRolled
<1>8. ASSUME NEW due \in BOOLEAN, Write(due) \/ Admit(due) PROVE TypeOK'
  BY <1>8 DEF Write, Admit, Append
<1>9. CASE Rollover
  BY <1>9 DEF Rollover, DiscardEmpty
<1>10. CASE Publish
  BY <1>10 DEF Publish
<1>11. CASE Close
  BY <1>11 DEF Close, DiscardEmpty
<1>12. CASE WriteTable
  <2>1. CASE FailUnpublished(sidecar[cur]) /\ UNCHANGED rec /\ Raises("write_table")
    BY <1>12, <2>1, FailTypes DEF WriteTable
  <2>2. CASE rec' = rec + buf /\ buf' = 0 /\ UNCHANGED <<faults, lost, reported>>
             /\ pc' = IF buf > 0 THEN "count" ELSE "close"
    BY <1>12, <2>2 DEF WriteTable
  <2> QED
    BY <1>12, <2>1, <2>2 DEF WriteTable
<1>13. CASE PersistCounter
  <2>1. sidecar' \in [Token -> Nat] /\ sidecar'[cur] \in Nat
    BY <1>13 DEF PersistCounter
  <2>2. CASE FailUnpublished(sidecar'[cur]) /\ Raises("counter")
    BY <1>13, <2>1, <2>2, FailTypes DEF PersistCounter
  <2>3. CASE UNCHANGED <<buf, faults, lost, reported>>
             /\ pc' = IF after = "stay" THEN "idle" ELSE "close"
    BY <1>13, <2>1, <2>3 DEF PersistCounter
  <2> QED
    BY <1>13, <2>2, <2>3 DEF PersistCounter
<1>14. CASE Rename
  <2>1. CASE FailUnpublished(sidecar[cur]) /\ Raises("pre_rename") /\ UNCHANGED <<seg, tmps, sidecar>>
    BY <1>14, <2>1, FailTypes DEF Rename
  <2>2. CASE /\ seg' = [seg EXCEPT ![cur] = [lo |-> lo, n |-> rec]]
             /\ tmps' = tmps \ {cur} /\ pc' = "renamed"
             /\ UNCHANGED <<sidecar, buf, faults, lost, reported>>
    BY <1>14, <2>2 DEF Rename
  <2> QED
    BY <1>14, <2>1, <2>2 DEF Rename
<1>15. CASE DirFsync
  BY <1>15 DEF DirFsync, Visible
<1>16. CASE DurableHook
  BY <1>16 DEF DurableHook
<1>17. CASE WriteMarker
  <2>1. synced' \subseteq Token /\ tmpsSynced' \subseteq Token /\ sidecarSynced' \in [Token -> Nat]
    BY <1>17 DEF WriteMarker, Visible
  <2>2. /\ marker' \subseteq Token /\ pc' \in {"hook", "next"} /\ faults' \in Nat
        /\ UNCHANGED <<seg, tmps, sidecar, after, cur, lo, rec, buf, cache, orphans, hour, stops, ghost>>
    BY <1>17 DEF WriteMarker
  <2>3. gate' \in BOOLEAN
    BY <1>17, Zenon DEF WriteMarker
  <2> QED
    BY <2>1, <2>2, <2>3
<1>18. CASE PublishedHook
  <2>1. /\ hooked' \subseteq Token /\ pc' = "next" /\ faults' \in Nat
        /\ UNCHANGED <<disk, after, cur, lo, rec, buf, cache, orphans, hour, stops,
                       accepted, announced, lost, reported, kills, unheard, dark>>
    BY <1>18 DEF PublishedHook
  <2>2. gate' \in BOOLEAN
    BY <1>18, Zenon DEF PublishedHook
  <2> QED
    BY <2>1, <2>2
<1>19. CASE NextSegment
  <2>1. cache' \in [Hours -> 0 .. MaxSeq + 1]
    BY <1>19, TokenParts DEF NextSegment
  <2>2. CASE after = "rotate"
    BY <1>4, <1>5, <1>19, <2>1, <2>2 DEF NextSegment
  <2>3. CASE after # "rotate"
    BY <1>19, <2>1, <2>3 DEF NextSegment
  <2> QED
    BY <2>2, <2>3
<1>20. CASE Tick
  BY <1>20 DEF Tick
<1>21. \A t \in Token : Dying(t) \in Nat
  BY DEF Dying
<1>26. RamGone => gate' \in BOOLEAN
  BY Zenon DEF RamGone
<1>25. RamGone => /\ pc' \in PCs /\ after' \in {"stay", "rotate", "roll", "final"} /\ todo' \subseteq Token
                  /\ rows' \in Nat /\ lo' \in Nat /\ rec' \in Nat /\ buf' \in Nat
                  /\ cache' \in [Hours -> 0 .. MaxSeq + 1]
  BY DEF RamGone
<1>22. CASE Kill
  <2>1. /\ lost' \in [Token -> Nat] /\ kills' \in [Token -> Nat] /\ stops' \in Nat
        /\ unheard' \in [Token -> Nat]
    BY <1>21, <1>22 DEF Kill
  <2>2. RamGone /\ UNCHANGED <<disk, cur, hour, faults, accepted, announced, hooked, reported, dark>>
    BY <1>22 DEF Kill
  <2> QED
    BY <1>25, <1>26, <2>1, <2>2
<1>23. CASE LosePower
  <2>1. \A t \in Token : seg[t].n \in Nat
    OBVIOUS
  <2>2. PICK back \in SUBSET (Visible \ synced) :
          \E new \in SUBSET {t \in Token : sidecar[t] # sidecarSynced[t]} :
            /\ tmps' \in SUBSET ((tmps \cup tmpsSynced \cup back) \ (Visible \ back))
            /\ seg' = [t \in Token |-> IF t \in back THEN Absent ELSE seg[t]]
            /\ sidecar' = [t \in Token |-> IF t \in new THEN sidecar[t] ELSE sidecarSynced[t]]
            /\ synced' = Visible \ back
            /\ lost' = [t \in Token |-> lost[t] + Dying(t) + IF t \in back THEN seg[t].n ELSE 0]
            /\ dark' = dark \cup tmps \cup tmpsSynced \cup todo \cup back \cup {cur}
                            \cup {t \in Token : sidecar[t] # sidecarSynced[t]}
    BY <1>23, ZenonT(30) DEF LosePower
  <2>3. seg' \in [Token -> [lo : Nat, n : Nat]]
    BY <2>2 DEF Absent
  <2>4. sidecar' \in [Token -> Nat] /\ lost' \in [Token -> Nat]
    BY <1>21, <2>1, <2>2
  <2>5. synced' \subseteq Token /\ tmps' \subseteq Token /\ dark' \subseteq Token
    BY <2>2 DEF Visible
  <2>6. /\ tmpsSynced' = tmps' /\ sidecarSynced' = sidecar' /\ stops' = stops + 1
        /\ UNCHANGED <<marker, cur, hour, faults, accepted, announced, hooked, reported, kills, unheard>>
    BY <1>23 DEF LosePower
  <2>7. RamGone
    BY <1>23 DEF LosePower
  <2>8. /\ pc' \in PCs /\ after' \in {"stay", "rotate", "roll", "final"} /\ cur' \in Token
        /\ lo' \in Nat /\ rec' \in Nat /\ buf' \in Nat /\ gate' \in BOOLEAN
        /\ cache' \in [Hours -> 0 .. MaxSeq + 1] /\ todo' \subseteq Token /\ rows' \in Nat
    BY <1>25, <1>26, <2>6, <2>7
  <2> QED
    BY <2>3, <2>4, <2>5, <2>6, <2>8
<1>24. CASE UNCHANGED vars
  BY <1>24 DEF vars
<1> QED
  BY <1>1, <1>2, <1>3, <1>6, <1>7, <1>8, <1>9, <1>10, <1>11, <1>12, <1>13, <1>14, <1>15, <1>16,
     <1>17, <1>18, <1>19, <1>20, <1>22, <1>23, <1>24 DEF Next, RecoverOrphans

\* A power loss may undo a rename no fsync covers, and spends no synced segment.
LEMMA PowerLossKeeps ==
  ASSUME TypeOK, LosePower
  PROVE  /\ pc' = "down" /\ UNCHANGED <<accepted, marker, announced, hooked>>
         /\ Visible' \subseteq Visible /\ synced' = Visible'
         /\ \A t \in Token : (t \in synced \/ t \in Visible') => seg'[t] = seg[t]
         /\ \A t \in synced : t \in Visible => t \in Visible'
<1>1. PICK back \in SUBSET (Visible \ synced) :
          /\ seg' = [t \in Token |-> IF t \in back THEN Absent ELSE seg[t]]
          /\ synced' = Visible \ back
  BY DEF LosePower
<1>2. pc' = "down" /\ UNCHANGED <<accepted, marker, announced, hooked>>
  BY DEF LosePower, RamGone
<1>3. \A t \in Token : IF t \in back THEN seg'[t] = Absent /\ t \notin synced ELSE seg'[t] = seg[t]
  BY <1>1
<1>4. Visible' = Visible \ back
  BY <1>3 DEF Visible, Absent
<1> QED
  BY <1>1, <1>2, <1>3, <1>4 DEF Visible, TypeOK

\* The segments change only by the rename of the open one and by a power loss.
LEMMA SegmentsKept ==
  [Next]_vars => \/ seg' = seg /\ ~LosePower
                 \/ LosePower
                 \/ /\ Rename /\ cur \notin Visible /\ seg' = [seg EXCEPT ![cur] = [lo |-> lo, n |-> rec]]
                    /\ tmps' = tmps \ {cur} /\ pc' = "renamed" /\ UNCHANGED <<sidecar, buf, lost, reported>>
<1> SUFFICES ASSUME [Next]_vars
             PROVE \/ seg' = seg
                   \/ LosePower
                   \/ /\ Rename /\ cur \notin Visible /\ seg' = [seg EXCEPT ![cur] = [lo |-> lo, n |-> rec]]
                      /\ tmps' = tmps \ {cur} /\ pc' = "renamed" /\ UNCHANGED <<sidecar, buf, lost, reported>>
  OBVIOUS
<1> USE DEF disk
<1>1. CASE \/ Start \/ OpenFirst \/ Rollover \/ OpenRolled \/ Publish \/ Close \/ WriteTable
           \/ PersistCounter \/ DirFsync \/ DurableHook \/ WriteMarker \/ PublishedHook
           \/ NextSegment \/ Tick \/ Kill \/ UNCHANGED vars
  BY <1>1 DEF Start, OpenFirst, Rollover, OpenRolled, Publish, Close, WriteTable, PersistCounter,
     DirFsync, DurableHook, WriteMarker, PublishedHook, NextSegment, Tick, Kill, vars
<1>2. CASE (\E t \in Token : RecoverOrphans(t))
           \/ \E due \in BOOLEAN : Write(due) \/ Admit(due)
  BY <1>2 DEF RecoverOrphans, UnlinkOrphan, UnlinkCounter, ReportOrphan, OrphanDiscardFails, Write, Admit, Append
<1>3. CASE Rename
  BY <1>3 DEF Rename
<1> QED
  BY <1>1, <1>2, <1>3 DEF Next

\* Every step keeps the rows of the files below those of the open segment, which are
\* the last ones admitted.
LEMMA RowsStep ==
  TypeOK /\ RowsInOrder /\ [Next]_vars => RowsInOrder'
<1> SUFFICES ASSUME TypeOK, RowsInOrder, [Next]_vars PROVE RowsInOrder'
  OBVIOUS
<1> USE DEF disk, ram, orphans, env, ghost, BeforeRename
<1>0. /\ accepted \in Nat /\ lo \in Nat /\ rec \in Nat /\ buf \in Nat /\ pc \in PCs /\ cur \in Token
      /\ \A t \in Token : seg[t].lo \in Nat /\ seg[t].n \in Nat
  BY DEF TypeOK
<1>a. \A t \in Visible : t \in Token /\ seg[t].lo + seg[t].n <= accepted
  BY <1>0 DEF RowsInOrder, Visible
<1>1. CASE seg' = seg
  <2>1. Visible' = Visible
    BY <1>1 DEF Visible
  <2>2. ASSUME pc' \notin BeforeRename, accepted' = accepted PROVE RowsInOrder'
    BY <1>1, <1>a, <2>1, <2>2 DEF RowsInOrder
  <2>3. ASSUME pc' = "idle" \/ pc' = "admit", accepted' = accepted, lo' = accepted, rec' = 0, buf' = 0
        PROVE  RowsInOrder'
    BY <1>0, <1>1, <1>a, <2>1, <2>3 DEF RowsInOrder
  <2>4. ASSUME pc \in BeforeRename, pc' \in BeforeRename, lo' = lo,
               lo + rec' + buf' = accepted', pc' = "flush" => rec' + buf' > 0,
               pc' \in {"count", "close"} => rec' > 0 /\ buf' = 0
        PROVE  RowsInOrder'
    BY <1>0, <1>1, <2>1, <2>4 DEF RowsInOrder
  <2>5. CASE \/ Start \/ DirFsync \/ DurableHook \/ WriteMarker \/ PublishedHook \/ Kill
             \/ \E t \in Token : RecoverOrphans(t)
    BY <2>2, <2>5 DEF Start, DirFsync, DurableHook, WriteMarker, PublishedHook, Kill, RamGone,
       RecoverOrphans, UnlinkOrphan, UnlinkCounter, ReportOrphan, OrphanDiscardFails
  <2>6. CASE OpenFirst \/ OpenRolled
    BY <2>2, <2>3, <2>6 DEF OpenFirst, OpenRolled, OpenOK
  <2>7. CASE NextSegment
    BY <2>2, <2>3, <2>7 DEF NextSegment, OpenOK
  <2>8. ASSUME NEW due \in BOOLEAN, Write(due) \/ Admit(due) PROVE RowsInOrder'
    <3>1. /\ pc \in BeforeRename /\ pc' \in {"flush", "idle"} /\ lo' = lo /\ rec' = rec /\ buf' = buf + 1
          /\ accepted' = accepted + 1
      BY <2>8 DEF Write, Admit, Append
    <3>2. lo + rec + buf = accepted
      BY <3>1 DEF RowsInOrder
    <3> QED
      BY <1>0, <2>4, <3>1, <3>2
  <2>9. CASE Rollover \/ Publish \/ Close
    <3>1. /\ accepted' = accepted /\ UNCHANGED <<lo, rec, buf>>
          /\ \/ pc' \in {"roll", "down"}
             \/ pc = "idle" /\ pc' = "flush" /\ rec + buf > 0
      BY <2>9 DEF Rollover, Publish, Close
    <3>2. pc \in BeforeRename => lo + rec + buf = accepted
      BY DEF RowsInOrder
    <3> QED
      BY <1>0, <2>2, <2>4, <3>1, <3>2
  <2>10. CASE WriteTable
    <3>1. accepted' = accepted /\ lo' = lo /\ pc = "flush"
      BY <2>10 DEF WriteTable
    <3>2. lo + rec + buf = accepted /\ rec + buf > 0
      BY <3>1 DEF RowsInOrder
    <3>3. \/ pc' = "failed"
          \/ rec' = rec + buf /\ buf' = 0 /\ pc' \in {"count", "close"}
      BY <2>10 DEF WriteTable, FailUnpublished
    <3> QED
      BY <1>0, <2>2, <2>4, <3>1, <3>2, <3>3
  <2>11. CASE PersistCounter
    <3>1. accepted' = accepted /\ UNCHANGED <<lo, rec>> /\ pc = "count"
      BY <2>11 DEF PersistCounter
    <3>2. \/ pc' = "failed"
          \/ buf' = buf /\ pc' \in {"idle", "close"}
      BY <2>11 DEF PersistCounter, FailUnpublished
    <3>3. lo + rec + buf = accepted /\ rec > 0 /\ buf = 0
      BY <3>1 DEF RowsInOrder
    <3> QED
      BY <1>0, <2>2, <2>4, <3>1, <3>2, <3>3
  <2>12. CASE Rename
    <3>1. accepted' = accepted /\ pc' \in {"renamed", "failed"}
      BY <2>12 DEF Rename, FailUnpublished
    <3> QED
      BY <2>2, <3>1
  <2>13. CASE Tick \/ UNCHANGED vars
    <3>1. UNCHANGED <<pc, lo, rec, buf, accepted>>
      BY <2>13 DEF Tick, vars
    <3> QED
      BY <1>1, <2>1, <3>1 DEF RowsInOrder
  <2>14. CASE LosePower
    BY <2>2, <2>14, PowerLossKeeps
  <2> QED
    BY <2>5, <2>6, <2>7, <2>8, <2>9, <2>10, <2>11, <2>12, <2>13, <2>14 DEF Next
<1>2. CASE LosePower
  <2>1. /\ pc' = "down" /\ accepted' = accepted
        /\ \A t \in Visible' : t \in Visible /\ seg'[t] = seg[t]
    BY <1>2, PowerLossKeeps DEF Visible
  <2> QED
    BY <1>a, <2>1 DEF RowsInOrder
<1>3. CASE Rename /\ seg' = [seg EXCEPT ![cur] = [lo |-> lo, n |-> rec]] /\ pc' = "renamed"
  <2>1. pc = "close" /\ accepted' = accepted /\ lo + rec <= accepted
    BY <1>0, <1>3 DEF Rename, RowsInOrder
  <2>2. \A t \in Visible' : (t \in Visible /\ seg'[t] = seg[t]) \/ seg'[t] = [lo |-> lo, n |-> rec]
    BY <1>3 DEF TypeOK, Visible
  <2> QED
    BY <1>3, <1>a, <2>1, <2>2 DEF RowsInOrder
<1> QED
  BY <1>1, <1>2, <1>3, SegmentsKept
\* Every step keeps the names of an hour in order.
LEMMA NamesStep ==
  TypeOK /\ NamesInOrder /\ VouchedInOrder /\ [Next]_vars => NamesInOrder'
<1> SUFFICES ASSUME TypeOK, NamesInOrder, VouchedInOrder, [Next]_vars PROVE NamesInOrder'
  OBVIOUS
<1> USE DEF disk, ram, orphans, env, ghost, BeforeRename, AfterRename
<1>0. /\ cur \in Token /\ cur[1] \in Hours /\ cur[2] \in Int /\ hour \in Hours /\ pc \in PCs
      /\ \A t \in Visible : t \in Token /\ t = <<t[1], t[2]>> /\ t[1] \in Hours /\ t[2] \in Int
      /\ \A h \in Hours : cache[h] \in Int
      /\ cur = <<cur[1], cur[2]>>
  BY TokenParts, WriterAssumption DEF TypeOK, Visible
<1>1. CASE seg' = seg
  <2>1. Visible' = Visible
    BY <1>1 DEF Visible
  <2>2. ASSUME pc' \in {"down", "failed"} PROVE NamesInOrder'
    BY <2>2 DEF NamesInOrder
  <2>3. ASSUME pc' \notin BeforeRename \cup AfterRename,
               \A t \in Visible : t[2] < cache'[t[1]] PROVE NamesInOrder'
    BY <2>1, <2>3 DEF NamesInOrder
  <2>4. ASSUME pc' \in BeforeRename, \A t \in Visible : t[2] < cache'[t[1]],
               \A t \in Visible : t[1] = cur'[1] => t[2] < cur'[2]
        PROVE  NamesInOrder'
    BY <2>1, <2>4 DEF NamesInOrder
  <2>5. ASSUME UNCHANGED <<cur, cache>>, pc \in BeforeRename, pc' \in BeforeRename PROVE NamesInOrder'
    BY <2>1, <2>5 DEF NamesInOrder
  <2>6. ASSUME UNCHANGED <<cur, cache>>, pc \in AfterRename, pc' \in AfterRename PROVE NamesInOrder'
    BY <2>1, <2>6 DEF NamesInOrder
  <2>7. CASE Start
    <3>1. \A h \in Hours : IsNextSequence(h, cache'[h])
      BY <2>7 DEF Start
    <3>2. \A t \in Visible : t[2] < cache'[t[1]]
      BY <1>0, <3>1 DEF IsNextSequence
    <3> QED
      BY <2>3, <2>7, <3>2 DEF Start
  <2>8. CASE \E t \in Token : RecoverOrphans(t)
    <3>1. pc \in {"recover", "uncount", "report"} /\ pc' \in {"recover", "uncount", "report"}
          /\ UNCHANGED <<cache, cur>>
      BY <2>8 DEF RecoverOrphans, UnlinkOrphan, UnlinkCounter, ReportOrphan, OrphanDiscardFails
    <3> QED
      BY <2>3, <3>1 DEF NamesInOrder
  <2>9. CASE OpenFirst \/ OpenRolled
    <3>1. pc \in {"recover", "roll"} /\ cache' = cache
      BY <2>9 DEF OpenFirst, OpenRolled
    <3>2. \A t \in Visible : t[2] < cache[t[1]]
      BY <3>1 DEF NamesInOrder
    <3>3. \/ pc' \in {"down", "failed"}
          \/ pc' \in {"idle", "admit"} /\ cur' = <<hour, cache[hour]>>
      BY <2>9 DEF OpenFirst, OpenRolled, OpenOK
    <3> QED
      BY <1>0, <2>2, <2>4, <3>1, <3>2, <3>3
  <2>10. CASE \/ Rollover \/ Publish \/ Close \/ WriteTable \/ PersistCounter
              \/ \E due \in BOOLEAN : Write(due) \/ Admit(due)
    <3>1. /\ UNCHANGED <<cur, cache>>
          /\ pc' \in {"down", "failed"} \/ (pc \in BeforeRename /\ pc' \in BeforeRename \cup {"roll"})
      BY <2>10 DEF Rollover, Publish, Close, WriteTable, PersistCounter, FailUnpublished, Write, Admit,
         Append
    <3>2. CASE pc' = "roll"
      BY <2>3, <3>1, <3>2 DEF NamesInOrder
    <3> QED
      BY <2>2, <2>5, <3>1, <3>2
  <2>11. CASE Rename
    <3>1. cur \in Visible \/ pc' = "failed" \/ pc' = "renamed"
      BY <2>11 DEF Rename, FailUnpublished
    <3>2. CASE pc' = "renamed"
      BY <2>1, <2>11, <3>2 DEF Rename, NamesInOrder
    <3> QED
      BY <2>2, <2>11, <3>2 DEF Rename, FailUnpublished
  <2>12. CASE DirFsync \/ DurableHook \/ WriteMarker \/ PublishedHook
    <3>1. /\ UNCHANGED <<cur, cache>> /\ pc \in AfterRename
          /\ pc' \in AfterRename \cup {"failed"}
      BY <2>12 DEF DirFsync, DurableHook, WriteMarker, PublishedHook
    <3> QED
      BY <2>2, <2>6, <3>1
  <2>13. CASE NextSegment
    <3>1. pc = "next" /\ cache' = [cache EXCEPT ![cur[1]] = cur[2] + 1]
      BY <2>13 DEF NextSegment
    <3>2. \A t \in Visible : t[1] = cur[1] => t[2] < cur[2] + 1
      BY <1>0, <3>1 DEF NamesInOrder
    <3>3. \A h \in Hours : cache'[h] = IF h = cur[1] THEN cur[2] + 1 ELSE cache[h]
      BY <3>1 DEF TypeOK
    <3>4. \A t \in Visible : t[2] < cache'[t[1]]
      BY <1>0, <3>1, <3>2, <3>3 DEF NamesInOrder
    <3>5. \/ pc' \in {"down", "failed", "gated", "roll"}
          \/ pc' = "idle" /\ cur' = <<cur[1], cur[2] + 1>>
      BY <2>13 DEF NextSegment, OpenOK
    <3> QED
      BY <1>0, <2>2, <2>3, <2>4, <3>2, <3>4, <3>5
  <2>14. CASE Tick \/ UNCHANGED vars
    <3>1. UNCHANGED <<pc, cur, cache>>
      BY <2>14 DEF Tick, vars
    <3> QED
      BY <2>1, <3>1 DEF NamesInOrder
  <2>15. CASE Kill \/ LosePower
    BY <2>2, <2>15 DEF Kill, LosePower, RamGone
  <2> QED
    BY <2>7, <2>8, <2>9, <2>10, <2>11, <2>12, <2>13, <2>14, <2>15 DEF Next
<1>2. CASE LosePower
  BY <1>2, PowerLossKeeps DEF NamesInOrder
<1>3. CASE Rename /\ seg' = [seg EXCEPT ![cur] = [lo |-> lo, n |-> rec]] /\ pc' = "renamed"
  <2>1. pc = "close" /\ UNCHANGED <<cur, cache>>
    BY <1>3 DEF Rename
  <2>2. \A t \in Visible' : t \in Visible \/ t = cur
    BY <1>3 DEF TypeOK, Visible
  <2> QED
    BY <1>3, <2>1, <2>2 DEF NamesInOrder
<1> QED
  BY <1>1, <1>2, <1>3, SegmentsKept

\* Every step keeps the segments apart and in the order of their names.
LEMMA SegmentsStep ==
  TypeOK /\ SegmentsOrdered /\ RowsInOrder /\ NamesInOrder /\ [Next]_vars => SegmentsOrdered'
<1> SUFFICES ASSUME TypeOK, SegmentsOrdered, RowsInOrder, NamesInOrder, [Next]_vars
             PROVE  SegmentsOrdered'
  OBVIOUS
<1>1. CASE seg' = seg
  BY <1>1 DEF SegmentsOrdered, Visible
<1>2. CASE LosePower
  <2>1. \A t \in Visible' : t \in Visible /\ seg'[t] = seg[t]
    BY <1>2, PowerLossKeeps DEF Visible
  <2> QED
    BY <2>1 DEF SegmentsOrdered
<1>3. CASE Rename /\ cur \notin Visible /\ seg' = [seg EXCEPT ![cur] = [lo |-> lo, n |-> rec]]
  <2>1. pc = "close" /\ rec > 0
    BY <1>3 DEF Rename, RowsInOrder
  <2>2. \A t \in Visible' : \/ t \in Visible /\ t # cur /\ seg'[t] = seg[t]
                            \/ t = cur /\ seg'[t] = [lo |-> lo, n |-> rec]
    BY <1>3 DEF TypeOK, Visible
  <2>3. /\ \A t \in Visible : seg[t].lo \in Nat /\ seg[t].n \in Nat /\ seg[t].n > 0 /\ t[2] \in Int
        /\ \A t \in Visible : seg[t].lo + seg[t].n <= lo
        /\ lo \in Nat /\ rec \in Nat /\ cur[2] \in Int
    BY <2>1, TokenParts, WriterAssumption DEF TypeOK, Visible, RowsInOrder, BeforeRename
  <2>4. \A t \in Visible : t[1] = cur[1] => t[2] < cur[2]
    BY <2>1 DEF NamesInOrder, BeforeRename, AfterRename
  <2>5. ASSUME NEW t \in Visible', NEW u \in Visible', t # u
        PROVE  /\ \/ seg'[t].lo + seg'[t].n <= seg'[u].lo
                  \/ seg'[u].lo + seg'[u].n <= seg'[t].lo
               /\ t[1] = u[1] /\ t[2] < u[2] => seg'[t].lo < seg'[u].lo
    <3>1. CASE t # cur /\ u # cur
      BY <2>2, <2>5, <3>1 DEF SegmentsOrdered
    <3>2. CASE u = cur
      BY <2>2, <2>3, <2>4, <2>5, <3>2
    <3>3. CASE t = cur
      BY <2>2, <2>3, <2>4, <2>5, <3>3
    <3> QED
      BY <3>1, <3>2, <3>3
  <2> QED
    BY <2>5 DEF SegmentsOrdered
<1> QED
  BY <1>1, <1>2, <1>3, SegmentsKept

\* Every step keeps what is vouched for behind what is synced.
LEMMA VouchedStep ==
  TypeOK /\ RowsInOrder /\ VouchedInOrder /\ DurableClaim /\ [Next]_vars
    => VouchedInOrder' /\ DurableClaim'
<1> SUFFICES ASSUME TypeOK, RowsInOrder, VouchedInOrder, DurableClaim, [Next]_vars
             PROVE  VouchedInOrder' /\ DurableClaim'
  OBVIOUS
<1> USE DEF VouchedInOrder, DurableClaim, AfterRename, disk, ram, orphans, env, ghost
<1>1. CASE LosePower
  <2>1. /\ pc' = "down" /\ UNCHANGED <<marker, announced, hooked>> /\ synced' = Visible'
        /\ \A t \in synced : t \in Visible'
    BY <1>1, PowerLossKeeps
  <2> QED
    BY <2>1
<1>2. CASE Rename /\ seg' = [seg EXCEPT ![cur] = [lo |-> lo, n |-> rec]] /\ pc' = "renamed"
  <2>1. rec > 0 /\ UNCHANGED <<synced, marker, announced, hooked, cur, gate>>
    BY <1>2 DEF Rename, RowsInOrder
  <2>2. \A t \in Token : t \in Visible' <=> t \in Visible \/ t = cur
    BY <1>2, <2>1 DEF TypeOK, Visible
  <2> QED
    BY <1>2, <2>1, <2>2 DEF TypeOK
<1>3. CASE seg' = seg
  <2>1. Visible' = Visible
    BY <1>3 DEF Visible
  <2>2. CASE \/ Start \/ OpenFirst \/ Rollover \/ OpenRolled \/ Publish \/ Close \/ WriteTable
             \/ PersistCounter \/ Tick \/ Kill \/ UNCHANGED vars
    <3>1. /\ UNCHANGED <<synced, marker, announced, hooked>>
          /\ \/ pc' \notin AfterRename
             \/ UNCHANGED <<pc, cur>>
      BY <2>2 DEF Start, OpenFirst, Rollover, OpenRolled, OpenOK, Publish, Close, WriteTable,
         PersistCounter, FailUnpublished, Tick, Kill, RamGone, vars
    <3>2. pc' \in {"roll", "admit"} => ~gate'
      BY <2>2 DEF Start, OpenFirst, Rollover, OpenRolled, Publish, Close, WriteTable, PersistCounter,
         FailUnpublished, Tick, Kill, RamGone, vars
    <3> QED
      BY <2>1, <3>1, <3>2
  <2>3. CASE (\E t \in Token : RecoverOrphans(t))
             \/ \E due \in BOOLEAN : Write(due) \/ Admit(due)
    <3>1. /\ UNCHANGED <<synced, marker, announced, hooked>> /\ pc' \in {"recover", "uncount", "report", "flush", "idle"}
      BY <2>3 DEF RecoverOrphans, UnlinkOrphan, UnlinkCounter, ReportOrphan, OrphanDiscardFails, Write, Admit, Append
    <3> QED
      BY <2>1, <3>1
  <2>4. CASE Rename
    <3>1. UNCHANGED <<synced, marker, announced, hooked>> /\ pc = "close"
      BY <2>4 DEF Rename
    <3>2. CASE pc' = "failed"
      BY <2>1, <3>1, <3>2
    <3>3. CASE seg' = [seg EXCEPT ![cur] = [lo |-> lo, n |-> rec]] /\ pc' = "renamed"
      BY <1>2, <2>4, <3>3
    <3> QED
      BY <2>4, <3>2, <3>3 DEF Rename, FailUnpublished
  <2>5. CASE DirFsync
    <3>1. /\ UNCHANGED <<marker, announced, hooked, cur>> /\ pc = "renamed"
          /\ (synced' = Visible /\ pc' = "durable") \/ (synced' = synced /\ pc' = "failed")
      BY <2>5 DEF DirFsync
    <3> QED
      BY <2>1, <3>1
  <2>6. CASE DurableHook
    <3>1. /\ UNCHANGED <<marker, synced, hooked, cur>> /\ pc = "durable" /\ pc' = "mark"
          /\ announced' = announced \cup {cur}
      BY <2>6 DEF DurableHook
    <3> QED
      BY <2>1, <3>1
  <2>7. CASE WriteMarker
    <3>1. /\ UNCHANGED <<announced, hooked, cur>> /\ pc = "mark"
          /\ marker' \in {marker, marker \cup {cur}}
          /\ \/ pc' = "hook" /\ marker' = marker \cup {cur} /\ synced' = Visible
             \/ pc' = "next" /\ synced' = synced
      BY <2>7 DEF WriteMarker
    <3> QED
      BY <2>1, <3>1
  <2>8. CASE PublishedHook
    <3>1. /\ UNCHANGED <<announced, marker, synced, cur>> /\ pc = "hook" /\ pc' = "next"
          /\ hooked' = hooked \cup {cur}
      BY <2>8 DEF PublishedHook
    <3> QED
      BY <2>1, <3>1
  <2>9. CASE NextSegment
    <3>1. /\ UNCHANGED <<announced, marker, synced, hooked>>
          /\ pc' \in {"idle", "failed", "down", "gated", "roll"}
      BY <2>9 DEF NextSegment
    <3>2. pc' = "roll" => ~gate'
      BY <2>9 DEF NextSegment
    <3> QED
      BY <2>1, <3>1, <3>2
  <2> QED
    BY <1>1, <2>2, <2>3, <2>4, <2>5, <2>6, <2>7, <2>8, <2>9 DEF Next
<1> QED
  BY <1>1, <1>2, <1>3, SegmentsKept
\* Every step keeps the orphans, the open .tmp and the counters where a restart looks.
LEMMA OrphansStep ==
  TypeOK /\ RowsInOrder /\ VouchedInOrder /\ OrphansOwned /\ [Next]_vars => OrphansOwned'
<1> SUFFICES ASSUME TypeOK, RowsInOrder, VouchedInOrder, OrphansOwned, [Next]_vars
             PROVE  OrphansOwned'
  OBVIOUS
<1> USE DEF BeforeRename, AfterRename, disk, ram, orphans, env, ghost
<1>0. /\ cur \in Token /\ sidecar \in [Token -> Nat] /\ tmps \subseteq Token /\ pc \in PCs
      /\ seg \in [Token -> [lo : Nat, n : Nat]]
  BY DEF TypeOK
<1>1. CASE LosePower
  <2>1. PICK back \in SUBSET (Visible \ synced), new \in SUBSET {t \in Token : sidecar[t] # sidecarSynced[t]} :
          /\ tmps' \in SUBSET ((tmps \cup tmpsSynced \cup back) \ (Visible \ back))
          /\ seg' = [t \in Token |-> IF t \in back THEN Absent ELSE seg[t]]
          /\ sidecar' = [t \in Token |-> IF t \in new THEN sidecar[t] ELSE sidecarSynced[t]]
          /\ dark' = dark \cup tmps \cup tmpsSynced \cup todo \cup back \cup {cur}
                          \cup {t \in Token : sidecar[t] # sidecarSynced[t]}
    BY <1>1 DEF LosePower
  <2>2. pc' = "down"
    BY <1>1, PowerLossKeeps
  <2> QED
    BY <2>2 DEF OrphansOwned
<1>2. CASE Rename /\ seg' = [seg EXCEPT ![cur] = [lo |-> lo, n |-> rec]] /\ pc' = "renamed"
           /\ tmps' = tmps \ {cur} /\ sidecar' = sidecar
  <2>1. rec > 0 /\ pc = "close" /\ dark' = dark
    BY <1>2 DEF Rename, RowsInOrder
  <2>2. \A t \in Token : t \in Visible' <=> t \in Visible \/ t = cur
    BY <1>0, <1>2, <2>1 DEF Visible
  <2> QED
    BY <1>2, <2>1, <2>2 DEF OrphansOwned
<1>3. CASE seg' = seg
  <2>1. Visible' = Visible
    BY <1>3 DEF Visible
  <2>2. ASSUME NEW t \in Token, OpenOK(t), tmps \subseteq dark \/ (pc = "recover" /\ todo = {}),
               dark' = dark, pc' \in {"idle", "admit"}
        PROVE  OrphansOwned'
    BY <2>1, <2>2 DEF OpenOK, OrphansOwned
  <2>3. ASSUME NEW t \in Token, OpenFails(t), dark' = dark, pc' \in {"down", "failed"}
        PROVE  OrphansOwned'
    BY <1>0, <2>1, <2>3 DEF OpenFails, OrphansOwned
  <2>4. CASE Start
    BY <2>1, <2>4 DEF Start, OrphansOwned
  <2>5. ASSUME NEW t \in Token, UnlinkOrphan(t) PROVE OrphansOwned'
    <3>1. /\ pc = "recover" /\ pc' = "uncount" /\ t \in todo /\ UNCHANGED <<todo, dark, sidecar>>
          /\ tmps' = tmps \ {t}
      BY <2>5 DEF UnlinkOrphan
    <3>2. todo \subseteq tmps /\ tmps \subseteq todo \cup dark
      BY <3>1 DEF OrphansOwned
    <3>3. todo' \ tmps' = {t}
      BY <3>1, <3>2
    <3> QED
      BY <3>1, <3>2, <3>3 DEF OrphansOwned
  <2>6. ASSUME NEW t \in Token, UnlinkCounter(t) PROVE OrphansOwned'
    <3>1. /\ pc = "uncount" /\ pc' = "report" /\ UNCHANGED <<todo, dark, tmps>>
          /\ t \in todo \ tmps /\ sidecar'[t] = 0
      BY <1>0, <2>6 DEF UnlinkCounter, InHand
    <3>2. tmps \subseteq todo \cup dark /\ todo \ tmps = {t}
      BY <3>1 DEF OrphansOwned
    <3> QED
      BY <3>1, <3>2 DEF OrphansOwned
  <2>16. ASSUME NEW t \in Token, ReportOrphan(t) \/ OrphanDiscardFails(t) PROVE OrphansOwned'
    <3>1. /\ pc' = "recover" /\ todo' = todo \ {t} /\ tmps' = tmps /\ t \in todo
          /\ \/ pc = "recover" /\ dark' = dark \cup {t}
             \/ pc \in {"uncount", "report"} /\ t \notin tmps /\ dark \subseteq dark'
      BY <2>16 DEF ReportOrphan, OrphanDiscardFails, InHand
    <3>2. CASE pc = "recover"
      BY <3>1, <3>2 DEF OrphansOwned
    <3>3. CASE pc \in {"uncount", "report"}
      <4>1. tmps \subseteq todo \cup dark /\ todo \ tmps = {t}
        BY <3>1, <3>3 DEF OrphansOwned
      <4> QED
        BY <3>1, <3>3, <4>1 DEF OrphansOwned
    <3> QED
      BY <3>1, <3>2, <3>3
  <2>7. CASE OpenFirst
    <3>1. PICK t : (OpenOK(t) /\ pc' = "idle") \/ (OpenFails(t) /\ pc' = "down")
      BY <2>7 DEF OpenFirst
    <3>2. t \in Token /\ pc = "recover" /\ todo = {} /\ dark' = dark
      BY <2>7, <3>1 DEF OpenFirst, OpenOK, OpenFails
    <3> QED
      BY <2>2, <2>3, <3>1, <3>2
  <2>8. CASE OpenRolled
    <3>1. PICK t : (OpenOK(t) /\ pc' = "admit") \/ (OpenFails(t) /\ pc' = "failed")
      BY <2>8 DEF OpenRolled
    <3>2. t \in Token /\ pc = "roll" /\ dark' = dark /\ tmps \subseteq dark
      BY <2>8, <3>1 DEF OpenRolled, OpenOK, OpenFails, OrphansOwned
    <3> QED
      BY <2>2, <2>3, <3>1, <3>2
  <2>9. CASE NextSegment
    <3>1. pc = "next" /\ dark' = dark /\ tmps \subseteq dark
      BY <2>9 DEF NextSegment, OrphansOwned
    <3>2. CASE after = "rotate"
      <4>1. PICK t : (OpenOK(t) /\ pc' = "idle") \/ (OpenFails(t) /\ pc' = "failed")
        BY <2>9, <3>2 DEF NextSegment
      <4>2. t \in Token
        BY <4>1 DEF OpenOK, OpenFails
      <4> QED
        BY <2>2, <2>3, <3>1, <4>1, <4>2
    <3>3. CASE after # "rotate"
      <4>1. UNCHANGED <<tmps, sidecar>> /\ pc' \in {"down", "gated", "roll"}
        BY <2>9, <3>3 DEF NextSegment
      <4> QED
        BY <2>1, <3>1, <4>1 DEF OrphansOwned
    <3> QED
      BY <3>2, <3>3
  <2>10. CASE Rollover \/ Publish \/ Close
    <3>1. dark' = dark /\ cur' = cur
      BY <2>10 DEF Rollover, Publish, Close
    <3>2. CASE UNCHANGED <<tmps, sidecar>> /\ pc = "idle" /\ pc' = "flush"
      BY <2>1, <3>1, <3>2 DEF OrphansOwned
    <3>3. CASE DiscardEmpty /\ pc = "idle" /\ pc' \in {"roll", "down"}
      BY <1>0, <2>1, <3>1, <3>3 DEF DiscardEmpty, OrphansOwned
    <3>4. CASE UNCHANGED <<tmps, sidecar>> /\ pc' = "down"
      BY <2>1, <3>1, <3>4 DEF OrphansOwned
    <3> QED
      BY <2>10, <3>2, <3>3, <3>4 DEF Rollover, Publish, Close
  <2>11. CASE WriteTable \/ PersistCounter
    <3>1. /\ UNCHANGED <<tmps, cur, dark>> /\ pc \in BeforeRename
          /\ pc' \in BeforeRename \cup {"failed"}
          /\ \A t \in Token : t # cur => sidecar'[t] = sidecar[t]
      BY <1>0, <2>11 DEF WriteTable, PersistCounter, FailUnpublished
    <3> QED
      BY <2>1, <3>1 DEF OrphansOwned
  <2>12. CASE Rename
    <3>1. CASE pc' = "failed" /\ UNCHANGED <<tmps, sidecar>>
      BY <2>1, <2>12, <3>1 DEF Rename, OrphansOwned
    <3>2. CASE pc' = "renamed"
      BY <1>2, <2>12, <3>2 DEF Rename, FailUnpublished
    <3> QED
      BY <2>12, <3>1, <3>2 DEF Rename, FailUnpublished
  <2>13. CASE DirFsync \/ DurableHook \/ WriteMarker \/ PublishedHook
    <3>1. /\ UNCHANGED <<tmps, dark>> /\ pc \in AfterRename
          /\ pc' \in AfterRename \cup {"failed"}
          /\ \A t \in Token : t # cur => sidecar'[t] = sidecar[t]
      BY <1>0, <2>13 DEF DirFsync, DurableHook, WriteMarker, PublishedHook
    <3>2. cur \in Visible
      BY <3>1 DEF VouchedInOrder
    <3> QED
      BY <2>1, <3>1, <3>2 DEF OrphansOwned
  <2>14. CASE Tick \/ Kill \/ UNCHANGED vars
    <3>1. UNCHANGED <<tmps, sidecar, dark, cur>> /\ (pc' = "down" \/ UNCHANGED <<pc, todo>>)
      BY <2>14 DEF Tick, Kill, RamGone, vars
    <3> QED
      BY <2>1, <3>1 DEF OrphansOwned
  <2>15. CASE \E due \in BOOLEAN : Write(due) \/ Admit(due)
    <3>1. UNCHANGED <<tmps, sidecar, dark, cur>> /\ pc \in BeforeRename /\ pc' \in {"idle", "flush"}
      BY <2>15 DEF Write, Admit, Append
    <3> QED
      BY <2>1, <3>1 DEF OrphansOwned
  <2> QED
    BY <1>1, <2>4, <2>5, <2>6, <2>7, <2>8, <2>9, <2>10, <2>11, <2>12, <2>13, <2>14, <2>15, <2>16
       DEF Next, RecoverOrphans
<1> QED
  BY <1>1, <1>2, <1>3, SegmentsKept DEF Rename

\* Every step keeps the counter of the open segment within a buffer of its rows.
LEMMA CounterStep ==
  TypeOK /\ RowsInOrder /\ OrphansOwned /\ CounterFollows /\ [Next]_vars => CounterFollows'
<1> SUFFICES ASSUME TypeOK, RowsInOrder, OrphansOwned, CounterFollows, [Next]_vars,
                    pc' \in BeforeRename, cur' \notin dark'
             PROVE  CounterFollows'
  BY DEF CounterFollows
<1> USE DEF BeforeRename, AfterRename, disk, ram, orphans, env, ghost
<1>0. /\ cur \in Token /\ sidecar \in [Token -> Nat] /\ sidecar[cur] \in Nat /\ pc \in PCs
      /\ rec \in Nat /\ buf \in Nat /\ BufferRows \in Nat \ {0}
  BY WriterAssumption DEF TypeOK
<1>1. ASSUME NEW t, OpenOK(t), dark' = dark, t \notin tmps, pc' \in {"idle", "admit"}
      PROVE  CounterFollows'
  <2>1. /\ t \in Token /\ t \notin Visible /\ cur' = t /\ rec' = 0 /\ buf' = 0 /\ sidecar' = sidecar
    BY <1>1 DEF OpenOK
  <2>2. sidecar'[cur'] \in Nat
    BY <1>0, <2>1
  <2> QED
    BY <1>0, <1>1, <2>1, <2>2 DEF CounterFollows
<1>2. CASE OpenFirst \/ OpenRolled \/ NextSegment
  <2>1. PICK t : OpenOK(t) /\ pc' \in {"idle", "admit"}
    BY <1>2 DEF OpenFirst, OpenRolled, NextSegment
  <2>2. /\ dark' = dark /\ cur' = t
        /\ (pc = "recover" /\ todo = {}) \/ pc \in {"roll", "next"}
    BY <1>2, <2>1 DEF OpenFirst, OpenRolled, NextSegment, OpenOK
  <2>3. t \notin tmps
    BY <2>2 DEF OrphansOwned
  <2> QED
    BY <1>1, <2>1, <2>2, <2>3
<1>3. CASE \E due \in BOOLEAN : Write(due) \/ Admit(due)
  <2>1. /\ UNCHANGED <<sidecar, cur, rec, dark>> /\ pc \in {"idle", "admit"} /\ buf' = buf + 1
        /\ pc' \in {"idle", "flush"} /\ (pc' = "idle" => ~(buf + 1 >= BufferRows))
    BY <1>3 DEF Write, Admit, Append
  <2>2. rec <= sidecar[cur] /\ buf < BufferRows
    BY <1>0, <2>1 DEF CounterFollows
  <2> QED
    BY <1>0, <2>1, <2>2 DEF CounterFollows
<1>4. CASE Rollover \/ Publish \/ Close
  <2>1. UNCHANGED <<sidecar, cur, rec, buf, dark>> /\ pc = "idle" /\ pc' = "flush"
    BY <1>4 DEF Rollover, Publish, Close
  <2> QED
    BY <1>0, <2>1 DEF CounterFollows
<1>5. CASE WriteTable
  <2>1. /\ UNCHANGED <<sidecar, cur, dark>> /\ pc = "flush" /\ rec' = rec + buf /\ buf' = 0
        /\ pc' = IF buf > 0 THEN "count" ELSE "close"
    BY <1>5 DEF WriteTable, FailUnpublished
  <2>2. rec <= sidecar[cur] /\ buf <= BufferRows
    BY <1>0, <2>1 DEF CounterFollows
  <2> QED
    BY <1>0, <2>1, <2>2 DEF CounterFollows
<1>6. CASE PersistCounter
  <2>1. /\ UNCHANGED <<rec, buf, cur, dark>> /\ pc = "count" /\ sidecar' = [sidecar EXCEPT ![cur] = rec]
        /\ pc' \in {"idle", "close"}
    BY <1>6 DEF PersistCounter, FailUnpublished
  <2>2. sidecar'[cur] = rec /\ buf = 0
    BY <1>0, <2>1 DEF RowsInOrder
  <2> QED
    BY <1>0, <2>1, <2>2 DEF CounterFollows
<1>7. CASE Tick \/ UNCHANGED vars
  <2>1. UNCHANGED <<pc, sidecar, cur, rec, buf, dark>>
    BY <1>7 DEF Tick, vars
  <2> QED
    BY <2>1 DEF CounterFollows
<1>8. ~(Start \/ Rename \/ DirFsync \/ DurableHook \/ WriteMarker \/ PublishedHook \/ Kill \/ LosePower)
  BY DEF Start, Rename, FailUnpublished, DirFsync, DurableHook, WriteMarker, PublishedHook, Kill,
     LosePower, RamGone
<1>9. \A t \in Token : ~RecoverOrphans(t)
  BY DEF RecoverOrphans, UnlinkOrphan, UnlinkCounter, ReportOrphan, OrphanDiscardFails
<1> QED
  BY <1>2, <1>3, <1>4, <1>5, <1>6, <1>7, <1>8, <1>9 DEF Next

\* A failure before the rename reports every row but those the counter tells of, and
\* of those no more than it claims.
LEMMA FailAccounts ==
  ASSUME TypeOK, OrphansOwned, pc \in BeforeRename, FailUnpublished(sidecar'[cur]),
         sidecar' \in [Token -> Nat], UNCHANGED <<tmps, cur, dark>>,
         \A u \in Token : u # cur => sidecar'[u] = sidecar[u],
         NEW t \in Token, t \notin dark,
         t = cur => sidecar'[cur] <= rec + lost[t] - reported[t] /\ reported[t] <= lost[t]
  PROVE  /\ t = cur => Silent(t)' \in 0 .. Silent(t)
         /\ t # cur => Silent(t)' = Silent(t) /\ lost'[t] = lost[t] /\ reported'[t] = reported[t]
<1>0. /\ cur \in Token /\ sidecar'[cur] \in Nat /\ rec \in Nat /\ buf \in Nat
      /\ lost[t] \in Nat /\ reported[t] \in Nat
  BY DEF TypeOK
<1>1. /\ pc' = "failed" /\ pc \notin {"uncount", "report"}
      /\ t # cur => lost'[t] = lost[t] /\ reported'[t] = reported[t]
      /\ lost'[cur] = lost[cur] + rec + buf
      /\ sidecar'[cur] <= rec => reported'[cur] = reported[cur] + (rec - sidecar'[cur]) + buf
      /\ sidecar'[cur] > rec => reported'[cur] = reported[cur] + buf
  BY <1>0, FailTypes DEF BeforeRename
<1>2. CASE t = cur
  <2>1. Owed(t) = 0 /\ Owed(t)' = sidecar'[cur]
    BY <1>1, <1>2 DEF Owed, InHand, Active, OrphansOwned, BeforeRename
  <2>2. CASE sidecar'[cur] <= rec
    BY <1>0, <1>1, <1>2, <2>1, <2>2 DEF Silent
  <2>3. CASE sidecar'[cur] > rec
    BY <1>0, <1>1, <1>2, <2>1, <2>3 DEF Silent
  <2> QED
    BY <1>0, <2>2, <2>3
<1>3. CASE t # cur
  <2>1. Owed(t)' = Owed(t)
    BY <1>1, <1>3 DEF Owed, InHand, Active
  <2> QED
    BY <1>1, <1>3, <2>1 DEF Silent
<1> QED
  BY <1>2, <1>3

\* Every step keeps the accounts: what a step loses it reports, or leaves to the counter
\* beside the .tmp, or, a kill, hides: a buffer of the open segment, or the counter of
\* the orphan in the hands of the restart.
LEMMA AccountStep ==
  /\ TypeOK /\ RowsInOrder /\ NamesInOrder /\ VouchedInOrder /\ OrphansOwned
  /\ CountersClaimLost /\ CounterFollows /\ LossAccounting
  /\ TypeOK' /\ [Next]_vars
  => LossAccounting'
<1> SUFFICES ASSUME TypeOK, RowsInOrder, NamesInOrder, VouchedInOrder, OrphansOwned,
                    CountersClaimLost, CounterFollows, LossAccounting, TypeOK', [Next]_vars, NEW t \in Token, t \notin dark'
             PROVE  Silent(t)' \in 0 .. Hidden(t)'
  BY DEF LossAccounting
<1> USE DEF BeforeRename, AfterRename, disk, ram, orphans, env, ghost
<1>0. /\ cur \in Token /\ sidecar \in [Token -> Nat] /\ rec \in Nat /\ buf \in Nat
      /\ lost[t] \in Nat /\ reported[t] \in Nat /\ kills[t] \in Nat /\ sidecar[t] \in Nat
      /\ pc \in PCs /\ BufferRows \in Nat /\ unheard[t] \in Nat /\ rows \in Nat
  BY WriterAssumption DEF TypeOK
<1>1. t \notin dark
  BY DEF Start, OpenFirst, Rollover, OpenRolled, RecoverOrphans, UnlinkOrphan, UnlinkCounter,
     ReportOrphan, OrphanDiscardFails, Write, Admit,
     Append, Publish, Close, WriteTable, PersistCounter, Rename, DirFsync, DurableHook, WriteMarker,
     PublishedHook, NextSegment, Tick, Kill, LosePower, Next, vars
<1>2. Silent(t) \in 0 .. Hidden(t)
  BY <1>1 DEF LossAccounting
<1>a. ASSUME UNCHANGED <<kills, unheard>> PROVE Hidden(t)' = Hidden(t)
  BY <1>a DEF Hidden
<1>b. ASSUME pc \notin {"uncount", "report"}, pc' \notin {"uncount", "report"}
      PROVE  ~InHand(t) /\ ~InHand(t)'
  BY <1>b DEF InHand
<1>3. ASSUME lost'[t] - reported'[t] - Owed(t)' = lost[t] - reported[t] - Owed(t),
             UNCHANGED <<kills, unheard>>
      PROVE  Silent(t)' \in 0 .. Hidden(t)'
  BY <1>2, <1>3, <1>a DEF Silent
<1>4. ASSUME UNCHANGED <<lost, reported, kills, unheard>>, Owed(t)' = Owed(t)
      PROVE  Silent(t)' \in 0 .. Hidden(t)'
  BY <1>3, <1>4
<1>5. ASSUME UNCHANGED <<lost, reported, kills, unheard, tmps, sidecar, cur>>,
             pc \in BeforeRename <=> pc' \in BeforeRename,
             pc \notin {"uncount", "report"}, pc' \notin {"uncount", "report"}
      PROVE  Silent(t)' \in 0 .. Hidden(t)'
  BY <1>4, <1>5, <1>b DEF Owed, Active
<1>6. CASE \/ Start \/ DirFsync \/ WriteMarker \/ PublishedHook \/ Publish \/ Tick
           \/ \E due \in BOOLEAN : Write(due) \/ Admit(due)
  <2>1. /\ UNCHANGED <<lost, reported, kills, unheard, tmps, sidecar, cur>>
        /\ pc \notin {"uncount", "report"} /\ pc' \notin {"uncount", "report"}
        /\ \/ UNCHANGED pc
           \/ pc \in BeforeRename /\ pc' \in BeforeRename
           \/ pc \notin BeforeRename /\ pc' \notin BeforeRename
    BY <1>6 DEF Start, DirFsync, WriteMarker, PublishedHook, Publish, Write, Admit, Append, Tick
  <2> QED
    BY <1>5, <2>1
<1>22. CASE UNCHANGED vars
  <2>1. Owed(t)' = Owed(t) /\ UNCHANGED <<lost, reported, kills, unheard>>
    BY <1>22 DEF vars, Owed, InHand, Active
  <2> QED
    BY <1>4, <2>1
<1>7. ASSUME NEW u \in Token, UnlinkOrphan(u) PROVE Silent(t)' \in 0 .. Hidden(t)'
  <2>1. /\ pc = "recover" /\ pc' = "uncount" /\ UNCHANGED <<todo, lost, kills, unheard, reported, cur, sidecar>>
        /\ u \in todo /\ tmps' = tmps \ {u} /\ rows' = sidecar[u]
    BY <1>7 DEF UnlinkOrphan
  <2>2. todo \subseteq tmps
    BY <2>1 DEF OrphansOwned
  <2>3. CASE u = t
    <3>1. Owed(t) = sidecar[t] /\ Owed(t)' = sidecar[t]
      BY <2>1, <2>2, <2>3 DEF Owed, InHand, Active
    <3> QED
      BY <1>4, <2>1, <3>1
  <2>4. CASE u # t
    <3>1. Owed(t)' = Owed(t)
      BY <2>1, <2>2, <2>4 DEF Owed, InHand, Active
    <3> QED
      BY <1>4, <2>1, <3>1
  <2> QED
    BY <2>3, <2>4
<1>23. ASSUME NEW u \in Token, UnlinkCounter(u) PROVE Silent(t)' \in 0 .. Hidden(t)'
  <2>1. /\ pc = "uncount" /\ pc' = "report" /\ UNCHANGED <<todo, rows, tmps, lost, kills, unheard, reported, cur>>
        /\ InHand(u) /\ sidecar' = [sidecar EXCEPT ![u] = 0]
    BY <1>23 DEF UnlinkCounter
  <2>2. Owed(t)' = Owed(t)
    <3>1. CASE u = t
      BY <2>1, <3>1 DEF Owed, InHand
    <3>2. CASE u # t
      BY <1>0, <2>1, <3>2 DEF Owed, InHand, Active
    <3> QED
      BY <3>1, <3>2
  <2> QED
    BY <1>4, <2>1, <2>2
<1>24. ASSUME NEW u \in Token, ReportOrphan(u) PROVE Silent(t)' \in 0 .. Hidden(t)'
  <2>1. /\ pc = "report" /\ pc' = "recover" /\ UNCHANGED <<tmps, lost, kills, unheard, cur, sidecar>>
        /\ InHand(u) /\ reported' = [reported EXCEPT ![u] = @ + rows] /\ todo' = todo \ {u}
    BY <1>24 DEF ReportOrphan, Bump
  <2>2. CASE u = t
    <3>1. Owed(t) = rows /\ Owed(t)' = 0
      BY <2>1, <2>2 DEF Owed, InHand
    <3>2. reported'[t] = reported[t] + rows
      BY <1>0, <2>1, <2>2 DEF TypeOK
    <3> QED
      BY <1>0, <1>3, <2>1, <3>1, <3>2
  <2>3. CASE u # t
    <3>1. todo \ tmps = {u}
      BY <2>1 DEF InHand, OrphansOwned
    <3>2. ~InHand(t) /\ ~InHand(t)'
      BY <2>1, <2>3, <3>1 DEF InHand
    <3>3. Owed(t)' = Owed(t) /\ reported'[t] = reported[t]
      BY <1>0, <2>1, <2>3, <3>2 DEF Owed, Active, TypeOK
    <3> QED
      BY <1>3, <2>1, <3>3
  <2> QED
    BY <2>2, <2>3
<1>8. ASSUME NEW u \in Token, OrphanDiscardFails(u) PROVE Silent(t)' \in 0 .. Hidden(t)'
  <2>1. /\ pc \in {"recover", "uncount"} /\ pc' = "recover"
        /\ UNCHANGED <<tmps, lost, reported, kills, unheard, cur, sidecar>>
        /\ t # u /\ todo' = todo \ {u} /\ (pc = "uncount" => InHand(u))
    BY <1>8 DEF OrphanDiscardFails
  <2>2. ~InHand(t) /\ ~InHand(t)'
    <3>1. pc = "uncount" => todo \ tmps = {u}
      BY <2>1 DEF InHand, OrphansOwned
    <3> QED
      BY <2>1, <3>1 DEF InHand
  <2>3. Owed(t)' = Owed(t)
    BY <2>1, <2>2 DEF Owed, Active
  <2> QED
    BY <1>4, <2>1, <2>3
<1>9. ASSUME NEW u \in Token, pc \notin BeforeRename, u \notin tmps \ dark,
             pc \notin {"uncount", "report"}, pc' \notin {"uncount", "report"},
             UNCHANGED <<lost, reported, kills, unheard>>,
             \/ OpenOK(u) /\ pc' \in BeforeRename
             \/ OpenFails(u) /\ pc' \notin BeforeRename
      PROVE  Silent(t)' \in 0 .. Hidden(t)'
  <2>1. CASE u = t
    <3>1. Owed(t) = 0
      BY <1>1, <1>9, <1>b, <2>1 DEF Owed
    <3>2. Owed(t)' = 0
      BY <1>9, <1>b, <2>1 DEF OpenOK, OpenFails, Owed, Active
    <3> QED
      BY <1>4, <1>9, <3>1, <3>2
  <2>2. CASE u # t
    BY <1>0, <1>4, <1>9, <1>b, <2>2 DEF OpenOK, OpenFails, Owed, Active
  <2> QED
    BY <2>1, <2>2
<1>10. CASE OpenFirst \/ OpenRolled
  <2>1. PICK u : (OpenOK(u) /\ pc' \in {"idle", "admit"}) \/ (OpenFails(u) /\ pc' \in {"down", "failed"})
    BY <1>10 DEF OpenFirst, OpenRolled
  <2>2. /\ u \in Token /\ UNCHANGED <<lost, reported, kills, unheard>>
        /\ (pc = "recover" /\ todo = {}) \/ pc = "roll"
    BY <1>10, <2>1 DEF OpenFirst, OpenRolled, OpenOK, OpenFails
  <2>3. u \notin tmps \ dark /\ pc \notin BeforeRename /\ pc \notin {"uncount", "report"}
    BY <2>2 DEF OrphansOwned
  <2> QED
    BY <1>9, <2>1, <2>2, <2>3
<1>11. CASE NextSegment
  <2>1. pc = "next" /\ UNCHANGED <<lost, reported, kills, unheard>> /\ tmps \subseteq dark
    BY <1>11 DEF NextSegment, OrphansOwned
  <2>2. CASE after = "rotate"
    <3>1. PICK u : (OpenOK(u) /\ pc' = "idle") \/ (OpenFails(u) /\ pc' = "failed")
      BY <1>11, <2>2 DEF NextSegment
    <3>2. u \in Token /\ u \notin tmps \ dark
      BY <2>1, <3>1 DEF OpenOK, OpenFails
    <3> QED
      BY <1>9, <2>1, <3>1, <3>2
  <2>3. CASE after # "rotate"
    <3>1. UNCHANGED <<tmps, sidecar, cur>> /\ pc' \in {"down", "gated", "roll"}
      BY <1>11, <2>3 DEF NextSegment
    <3> QED
      BY <1>5, <2>1, <3>1
  <2> QED
    BY <2>2, <2>3
<1>12. CASE Rollover \/ Close
  <2>1. UNCHANGED <<lost, reported, kills, unheard, cur>>
    BY <1>12 DEF Rollover, Close
  <2>4. pc \notin {"uncount", "report"} /\ pc' \notin {"uncount", "report"}
    BY <1>12 DEF Rollover, Close
  <2>2. CASE UNCHANGED <<tmps, sidecar>> /\ (pc \in BeforeRename <=> pc' \in BeforeRename)
    BY <1>5, <2>1, <2>2, <2>4
  <2>3. CASE DiscardEmpty /\ pc = "idle" /\ pc' \notin BeforeRename
    <3>1. Owed(t)' = Owed(t)
      BY <1>0, <1>b, <2>1, <2>3, <2>4 DEF DiscardEmpty, Owed, Active
    <3> QED
      BY <1>4, <2>1, <3>1
  <2> QED
    BY <1>12, <2>2, <2>3 DEF Rollover, Close
<1>14. ASSUME UNCHANGED <<lost, reported, kills, unheard, tmps, cur>>, pc \in BeforeRename, pc' \in BeforeRename,
              \A u \in Token : u # cur => sidecar'[u] = sidecar[u]
       PROVE  Silent(t)' \in 0 .. Hidden(t)'
  BY <1>4, <1>14, <1>b DEF Owed, Active
<1>15. ASSUME FailUnpublished(sidecar'[cur]), pc \in BeforeRename,
              UNCHANGED <<tmps, cur, dark, kills, unheard>>,
              sidecar' \in {sidecar, [sidecar EXCEPT ![cur] = rec]}
       PROVE  Silent(t)' \in 0 .. Hidden(t)'
  <2>1. sidecar' \in [Token -> Nat] /\ \A u \in Token : u # cur => sidecar'[u] = sidecar[u]
    BY <1>0, <1>15
  <2>2. ASSUME t = cur
        PROVE  sidecar'[cur] <= rec + lost[t] - reported[t] /\ reported[t] <= lost[t]
    <3>1. cur \notin Visible /\ Active(t) /\ ~InHand(t)
      BY <1>0, <1>15, <2>2, TokenParts, WriterAssumption DEF NamesInOrder, Active, InHand
    <3>2. sidecar[t] <= lost[t] - reported[t] + rec
      BY <1>1, <2>2, <3>1 DEF CountersClaimLost
    <3>3. lost[t] - reported[t] >= 0
      BY <1>0, <1>2, <3>1 DEF Silent, Owed
    <3> QED
      BY <1>0, <1>15, <2>2, <3>2, <3>3
  <2>3. /\ t = cur => Silent(t)' \in 0 .. Silent(t)
        /\ t # cur => Silent(t)' = Silent(t)
    BY <1>1, <1>15, <2>1, <2>2, FailAccounts
  <2>4. Hidden(t) \in Int /\ Hidden(t)' = Hidden(t)
    BY <1>0, <1>15, <1>a DEF Hidden
  <2> QED
    BY <1>2, <2>3, <2>4
<1>16. CASE WriteTable
  <2>1. UNCHANGED <<tmps, sidecar, cur, dark, kills, unheard>> /\ pc = "flush"
    BY <1>16 DEF WriteTable
  <2>2. CASE FailUnpublished(sidecar[cur])
    BY <1>15, <2>1, <2>2
  <2>3. CASE UNCHANGED <<lost, reported>> /\ pc' \in {"count", "close"}
    BY <1>14, <2>1, <2>3
  <2> QED
    BY <1>16, <2>2, <2>3 DEF WriteTable
<1>17. CASE PersistCounter
  <2>1. UNCHANGED <<tmps, cur, dark, kills, unheard>> /\ pc = "count"
    BY <1>17 DEF PersistCounter
  <2>2. CASE FailUnpublished(sidecar'[cur]) /\ sidecar' \in {sidecar, [sidecar EXCEPT ![cur] = rec]}
    BY <1>15, <2>1, <2>2
  <2>3. CASE /\ UNCHANGED <<lost, reported>> /\ pc' \in {"idle", "close"}
             /\ sidecar' = [sidecar EXCEPT ![cur] = rec]
    BY <1>0, <1>14, <2>1, <2>3
  <2> QED
    BY <1>17, <2>2, <2>3 DEF PersistCounter
<1>18. CASE Rename
  <2>1. UNCHANGED <<cur, dark, kills, unheard>> /\ pc = "close"
    BY <1>18 DEF Rename
  <2>2. CASE FailUnpublished(sidecar[cur]) /\ UNCHANGED <<tmps, sidecar>>
    BY <1>15, <2>1, <2>2
  <2>3. CASE tmps' = tmps \ {cur} /\ pc' = "renamed" /\ UNCHANGED <<sidecar, lost, reported>>
    <3>1. Owed(t)' = Owed(t)
      BY <1>b, <2>1, <2>3 DEF Owed, Active
    <3> QED
      BY <1>4, <2>1, <2>3, <3>1
  <2> QED
    BY <1>18, <2>2, <2>3 DEF Rename
<1>19. CASE DurableHook
  <2>1. UNCHANGED <<lost, reported, kills, unheard, tmps, cur>> /\ pc = "durable" /\ pc' = "mark"
    BY <1>19 DEF DurableHook
  <2>2. t \notin tmps
    BY <1>1, <2>1 DEF OrphansOwned
  <2> QED
    BY <1>4, <1>b, <2>1, <2>2 DEF Owed
<1>20. CASE Kill
  <2>1. /\ pc' = "down" /\ UNCHANGED <<tmps, sidecar, cur, reported>>
        /\ lost'[t] = lost[t] + Dying(t)
        /\ kills'[t] = kills[t] + IF Dying(t) > 0 THEN 1 ELSE 0
        /\ unheard'[t] = unheard[t] + IF InHand(t) THEN rows ELSE 0
    BY <1>20 DEF Kill, RamGone
  <2>2. ~InHand(t)' /\ ~Active(t)'
    BY <2>1 DEF InHand, Active
  <2>5. BufferRows * kills[t] \in Int
    BY <1>0
  <2>3. CASE ~Active(t)
    <3>1. Dying(t) = 0 /\ kills'[t] = kills[t] /\ lost'[t] = lost[t]
      BY <1>0, <2>1, <2>3 DEF Dying
    <3>2. CASE InHand(t)
      <4>1. Owed(t) = rows /\ Owed(t)' = 0
        BY <2>1, <2>2, <3>2 DEF Owed, InHand
      <4>2. Silent(t)' = Silent(t) + rows /\ Hidden(t)' = Hidden(t) + rows
        BY <1>0, <2>1, <2>5, <3>1, <3>2, <4>1 DEF Silent, Hidden
      <4>3. Hidden(t) \in Int
        BY <1>0, <2>5 DEF Hidden
      <4> QED
        BY <1>0, <1>2, <4>2, <4>3
    <3>3. CASE ~InHand(t)
      <4>1. Owed(t)' = Owed(t)
        BY <2>1, <2>2, <2>3, <3>3 DEF Owed
      <4>2. Silent(t)' = Silent(t) /\ Hidden(t)' = Hidden(t)
        BY <1>0, <2>1, <3>1, <3>3, <4>1 DEF Silent, Hidden
      <4> QED
        BY <1>2, <4>2
    <3> QED
      BY <3>2, <3>3
  <2>4. CASE Active(t)
    <3>1. t = cur /\ pc \in BeforeRename /\ ~InHand(t) /\ t \notin Visible
      BY <1>0, <2>4, TokenParts, WriterAssumption DEF Active, InHand, NamesInOrder
    <3>2. Dying(t) = rec + buf /\ Owed(t) = 0 /\ Owed(t)' = sidecar[t] /\ unheard'[t] = unheard[t]
      BY <1>0, <2>1, <2>2, <2>4, <3>1 DEF Dying, Owed, OrphansOwned
    <3>3. sidecar[t] <= lost[t] - reported[t] + rec
      BY <1>1, <2>4, <3>1 DEF CountersClaimLost
    <3>4. rec + buf <= sidecar[t] + BufferRows
      <4>1. CASE pc = "count"
        BY <1>0, <1>1, <3>1, <4>1 DEF CounterFollows, RowsInOrder
      <4>2. CASE pc # "count"
        BY <1>0, <1>1, <3>1, <4>2 DEF CounterFollows
      <4> QED
        BY <4>1, <4>2
    <3>5. Silent(t) = lost[t] - reported[t] /\ Silent(t)' = lost[t] + rec + buf - reported[t] - sidecar[t]
      BY <1>0, <2>1, <3>2 DEF Silent
    <3>6. CASE rec + buf = 0
      <4>1. Hidden(t)' = Hidden(t) /\ Hidden(t) \in Int
        BY <1>0, <2>1, <2>5, <3>2, <3>6 DEF Hidden
      <4>2. rec \in Nat /\ buf \in Nat
        BY <1>0
      <4>3. rec = 0 /\ buf = 0
        BY <3>6, <4>2
      <4>4. sidecar[t] \in Nat
        BY <1>0
      <4>5. Silent(t)' = Silent(t) - sidecar[t] /\ sidecar[t] <= Silent(t) /\ Silent(t) \in Int
        BY <1>0, <3>3, <3>5, <4>3
      <4> QED
        BY <1>2, <4>1, <4>4, <4>5
    <3>7. CASE rec + buf > 0
      <4>1. kills'[t] = kills[t] + 1 /\ BufferRows * (kills[t] + 1) = BufferRows * kills[t] + BufferRows
        BY <1>0, <2>1, <3>2, <3>7
      <4>2. Hidden(t)' = Hidden(t) + BufferRows /\ Hidden(t) \in Int
        BY <1>0, <2>5, <3>2, <4>1 DEF Hidden
      <4>3. Silent(t)' = Silent(t) + (rec + buf - sidecar[t]) /\ Silent(t) \in Int
        BY <1>0, <3>5
      <4>4. Silent(t)' >= 0
        BY <1>0, <3>3, <3>5
      <4>5. rec + buf - sidecar[t] \in Int /\ rec + buf - sidecar[t] <= BufferRows /\ BufferRows \in Int
        BY <1>0, <3>4
      <4> QED
        BY <1>2, <4>2, <4>3, <4>4, <4>5
    <3> QED
      BY <1>0, <3>6, <3>7
  <2> QED
    BY <2>3, <2>4
<1>21. CASE LosePower
  <2>1. PICK back \in SUBSET (Visible \ synced),
             new \in SUBSET {u \in Token : sidecar[u] # sidecarSynced[u]} :
          /\ tmps' \in SUBSET ((tmps \cup tmpsSynced \cup back) \ (Visible \ back))
          /\ lost' = [u \in Token |-> lost[u] + Dying(u) + IF u \in back THEN seg[u].n ELSE 0]
          /\ dark' = dark \cup tmps \cup tmpsSynced \cup todo \cup back \cup {cur}
                          \cup {u \in Token : sidecar[u] # sidecarSynced[u]}
    BY <1>21 DEF LosePower
  <2>2. t \notin tmps /\ t \notin tmps' /\ t \notin back /\ t # cur /\ t \notin todo
    BY <2>1
  <2>6. pc' = "down"
    BY <1>21, PowerLossKeeps
  <2>3. Dying(t) = 0 /\ Owed(t) = 0 /\ Owed(t)' = 0
    BY <2>2, <2>6 DEF Dying, Active, Owed, InHand
  <2>4. lost'[t] = lost[t]
    BY <1>0, <2>1, <2>2, <2>3
  <2>5. reported' = reported /\ kills' = kills /\ unheard' = unheard
    BY <1>21 DEF LosePower
  <2> QED
    BY <1>3, <2>3, <2>4, <2>5
<1> QED
  BY <1>6, <1>7, <1>8, <1>10, <1>11, <1>12, <1>16, <1>17, <1>18, <1>19, <1>20, <1>21, <1>22, <1>23,
     <1>24 DEF Next, RecoverOrphans

\* Every step keeps the claim of a counter within the rows lost and not reported.
LEMMA ClaimStep ==
  /\ TypeOK /\ RowsInOrder /\ NamesInOrder /\ VouchedInOrder /\ OrphansOwned
  /\ CountersClaimLost /\ CounterFollows /\ LossAccounting /\ LossAccounting'
  /\ TypeOK' /\ [Next]_vars
  => CountersClaimLost'
<1> DEFINE Claim(t) == /\ t \notin Visible => sidecar[t] <= lost[t] - reported[t] + IF Active(t) THEN rec ELSE 0
                       /\ InHand(t) => rows <= lost[t] - reported[t]
<1> SUFFICES ASSUME TypeOK, RowsInOrder, NamesInOrder, VouchedInOrder, OrphansOwned,
                    CountersClaimLost, CounterFollows, LossAccounting, LossAccounting', TypeOK',
                    [Next]_vars, NEW t \in Token, t \notin dark'
             PROVE  Claim(t)'
  BY DEF CountersClaimLost
<1> USE DEF BeforeRename, AfterRename, disk, ram, orphans, env, ghost
<1>0. /\ cur \in Token /\ sidecar \in [Token -> Nat] /\ rec \in Nat /\ buf \in Nat /\ rec' \in Nat
      /\ lost[t] \in Nat /\ reported[t] \in Nat /\ sidecar[t] \in Nat /\ sidecar'[t] \in Nat
      /\ pc \in PCs /\ rows \in Nat
  BY DEF TypeOK
<1>1. t \notin dark
  BY DEF Start, OpenFirst, Rollover, OpenRolled, RecoverOrphans, UnlinkOrphan, UnlinkCounter,
     ReportOrphan, OrphanDiscardFails, Write, Admit,
     Append, Publish, Close, WriteTable, PersistCounter, Rename, DirFsync, DurableHook, WriteMarker,
     PublishedHook, NextSegment, Tick, Kill, LosePower, Next, vars
<1>2. /\ t \notin Visible => sidecar[t] <= lost[t] - reported[t] + IF Active(t) THEN rec ELSE 0
      /\ InHand(t) => rows <= lost[t] - reported[t]
  BY <1>1 DEF CountersClaimLost
<1>4. /\ Owed(t) \in Nat /\ Owed(t)' \in Nat /\ lost'[t] \in Nat /\ reported'[t] \in Nat
  BY <1>0 DEF Owed, TypeOK
<1>3. Silent(t) >= 0 /\ Silent(t)' >= 0
  <2>1. Silent(t) \in 0 .. Hidden(t) /\ Silent(t)' \in 0 .. Hidden(t)'
    BY <1>1 DEF LossAccounting
  <2> QED
    BY <2>1
<1>5. lost[t] - reported[t] >= 0
  BY <1>0, <1>3, <1>4 DEF Silent
\* A step that touches neither the accounts nor the counter, and opens no visible segment.
<1>6. ASSUME lost'[t] = lost[t], reported'[t] = reported[t], sidecar'[t] \in {0, sidecar[t]},
             t \in Visible => t \in Visible',
             Active(t) => (Active(t)' /\ rec' >= rec) \/ rec = 0 \/ t \in Visible',
             ~InHand(t)' \/ (InHand(t) /\ rows' = rows)
      PROVE  Claim(t)'
  <2>1. ASSUME t \notin Visible'
        PROVE  sidecar'[t] <= lost'[t] - reported'[t] + IF Active(t)' THEN rec' ELSE 0
    <3>1. sidecar[t] <= lost[t] - reported[t] + IF Active(t) THEN rec ELSE 0
      BY <1>2, <1>6, <2>1
    <3> QED
      BY <1>0, <1>5, <1>6, <2>1, <3>1
  <2>2. InHand(t)' => rows' <= lost'[t] - reported'[t]
    BY <1>2, <1>6
  <2> QED
    BY <2>1, <2>2
<1> HIDE DEF Claim
<1>7. CASE \/ Start \/ Rollover \/ Publish \/ Close \/ DirFsync \/ DurableHook \/ WriteMarker
           \/ PublishedHook \/ Tick \/ \E due \in BOOLEAN : Write(due) \/ Admit(due)
  <2>1. /\ UNCHANGED <<lost, reported, cur, seg>> /\ sidecar' \in {sidecar, [sidecar EXCEPT ![cur] = 0]}
        /\ pc' \notin {"uncount", "report"} /\ rec' = rec
        /\ \/ pc \in BeforeRename /\ pc' \in BeforeRename
           \/ pc \notin BeforeRename
           \/ rec = 0 /\ buf = 0
           \/ pc' = pc
    BY <1>7 DEF Start, Rollover, Publish, Close, DiscardEmpty, DirFsync, DurableHook, WriteMarker,
       PublishedHook, Tick, Write, Admit, Append
  <2>2. Visible' = Visible /\ ~InHand(t)' /\ sidecar'[t] \in {0, sidecar[t]}
    BY <1>0, <2>1 DEF Visible, InHand
  <2>3. Active(t) => Active(t)' \/ rec = 0
    BY <2>1 DEF Active
  <2> QED
    BY <1>0, <1>6, <2>1, <2>2, <2>3
<1>8. CASE UNCHANGED vars
  <2>1. /\ UNCHANGED <<lost, reported, sidecar, rec, rows>> /\ Visible' = Visible
        /\ Active(t)' = Active(t) /\ InHand(t)' = InHand(t)
    BY <1>8 DEF vars, Visible, InHand, Active
  <2> QED
    BY <1>0, <1>6, <2>1
<1>9. CASE OpenFirst \/ OpenRolled \/ NextSegment
  <2>1. /\ UNCHANGED <<lost, reported, seg>> /\ pc' \notin {"uncount", "report"} /\ pc \notin BeforeRename
    BY <1>9 DEF OpenFirst, OpenRolled, NextSegment, OpenOK, OpenFails
  <2>2. sidecar'[t] \in {0, sidecar[t]}
    <3>1. sidecar' = sidecar \/ \E u \in Token : sidecar' = [sidecar EXCEPT ![u] = 0]
      BY <1>9 DEF OpenFirst, OpenRolled, NextSegment, OpenOK, OpenFails
    <3> QED
      BY <1>0, <3>1
  <2>3. Visible' = Visible /\ ~InHand(t)' /\ ~Active(t)
    BY <2>1 DEF Visible, InHand, Active
  <2> QED
    BY <1>0, <1>6, <2>1, <2>2, <2>3
<1>10. ASSUME NEW u \in Token, UnlinkOrphan(u) PROVE Claim(t)'
  <2>1. /\ pc = "recover" /\ pc' = "uncount" /\ UNCHANGED <<todo, lost, reported, cur, sidecar, seg>>
        /\ u \in todo /\ tmps' = tmps \ {u} /\ rows' = sidecar[u]
    BY <1>10 DEF UnlinkOrphan
  <2>2. todo \subseteq tmps
    BY <2>1 DEF OrphansOwned
  <2>3. Visible' = Visible /\ ~Active(t) /\ ~Active(t)'
    BY <2>1 DEF Visible, Active
  <2>4. CASE u = t
    <3>1. Owed(t) = sidecar[t]
      BY <2>1, <2>2, <2>4 DEF Owed, InHand, Active
    <3>2. sidecar[t] <= lost[t] - reported[t]
      BY <1>0, <1>3, <3>1 DEF Silent
    <3> QED
      BY <1>0, <2>1, <2>3, <2>4, <3>2 DEF Claim
  <2>5. CASE u # t
    <3>1. ~InHand(t)'
      BY <2>1, <2>2, <2>5 DEF InHand
    <3> QED
      BY <1>0, <1>6, <2>1, <2>3, <3>1
  <2> QED
    BY <2>4, <2>5
<1>11. ASSUME NEW u \in Token, UnlinkCounter(u) PROVE Claim(t)'
  <2>1. /\ pc = "uncount" /\ pc' = "report" /\ UNCHANGED <<todo, rows, tmps, lost, reported, cur, seg>>
        /\ sidecar' = [sidecar EXCEPT ![u] = 0]
    BY <1>11 DEF UnlinkCounter
  <2>2. Visible' = Visible /\ ~Active(t) /\ sidecar'[t] \in {0, sidecar[t]} /\ InHand(t)' = InHand(t)
    BY <1>0, <2>1 DEF Visible, Active, InHand
  <2> QED
    BY <1>0, <1>6, <2>1, <2>2
<1>12. ASSUME NEW u \in Token, ReportOrphan(u) PROVE Claim(t)'
  <2>1. /\ pc = "report" /\ pc' = "recover" /\ UNCHANGED <<tmps, lost, cur, sidecar, seg>>
        /\ InHand(u) /\ reported' = [reported EXCEPT ![u] = @ + rows]
    BY <1>12 DEF ReportOrphan, Bump
  <2>2. Visible' = Visible /\ ~Active(t) /\ ~InHand(t)' /\ ~Active(t)'
    BY <2>1 DEF Visible, Active, InHand
  <2>3. CASE u = t
    <3>1. sidecar[t] = 0
      BY <2>1, <2>3 DEF InHand, OrphansOwned
    <3>2. reported'[t] = reported[t] + rows
      BY <1>0, <2>1, <2>3 DEF TypeOK
    <3>3. rows <= lost[t] - reported[t]
      BY <1>2, <2>1, <2>3
    <3> QED
      BY <1>0, <2>1, <2>2, <3>1, <3>2, <3>3 DEF Claim
  <2>4. CASE u # t
    <3>1. reported'[t] = reported[t]
      BY <1>0, <2>1, <2>4 DEF TypeOK
    <3> QED
      BY <1>0, <1>6, <2>1, <2>2, <3>1
  <2> QED
    BY <2>3, <2>4
<1>13. ASSUME NEW u \in Token, OrphanDiscardFails(u) PROVE Claim(t)'
  <2>1. /\ pc \in {"recover", "uncount"} /\ pc' = "recover" /\ UNCHANGED <<lost, reported, sidecar, seg>>
    BY <1>13 DEF OrphanDiscardFails, InHand
  <2>2. Visible' = Visible /\ ~InHand(t)' /\ ~Active(t)
    BY <2>1 DEF Visible, InHand, Active
  <2> QED
    BY <1>0, <1>6, <2>1, <2>2
\* A failure before the rename leaves to the counter what it does not report.
<1>14. ASSUME pc \in BeforeRename, pc' = "failed", UNCHANGED <<tmps, cur, seg>>,
              FailUnpublished(sidecar'[cur]), \A u \in Token : u # cur => sidecar'[u] = sidecar[u]
       PROVE  Claim(t)'
  <2>1. ~Active(t)' /\ ~InHand(t)' /\ Visible' = Visible
    BY <1>14 DEF Active, InHand, Visible
  <2>2. CASE t = cur
    <3>1. t \in tmps'
      BY <1>14, <2>2 DEF OrphansOwned
    <3>2. Owed(t)' = sidecar'[t]
      BY <2>1, <3>1 DEF Owed
    <3> QED
      BY <1>0, <1>3, <1>4, <2>1, <3>2 DEF Silent, Claim
  <2>3. CASE t # cur
    <3>1. lost'[t] = lost[t] /\ reported'[t] = reported[t] /\ ~Active(t) /\ sidecar'[t] = sidecar[t]
      <4>1. sidecar'[cur] \in Nat
        BY <1>0 DEF TypeOK
      <4> QED
        BY <1>14, <2>3, <4>1, FailTypes DEF Active
    <3> QED
      BY <1>0, <1>6, <2>1, <3>1
  <2> QED
    BY <2>2, <2>3
<1>15. CASE WriteTable
  <2>1. UNCHANGED <<tmps, sidecar, cur, seg>> /\ pc = "flush"
    BY <1>15 DEF WriteTable
  <2>2. CASE FailUnpublished(sidecar[cur])
    BY <1>14, <2>1, <2>2 DEF FailUnpublished
  <2>3. CASE UNCHANGED <<lost, reported>> /\ pc' \in {"count", "close"} /\ rec' = rec + buf
    <3>1. Visible' = Visible /\ ~InHand(t)' /\ (Active(t) => Active(t)')
      BY <2>1, <2>3 DEF Visible, InHand, Active
    <3> QED
      BY <1>0, <1>6, <2>1, <2>3, <3>1
  <2> QED
    BY <1>15, <2>2, <2>3 DEF WriteTable
<1>16. CASE PersistCounter
  <2>1. UNCHANGED <<tmps, cur, seg, rec>> /\ pc = "count"
    BY <1>16 DEF PersistCounter
  <2>2. CASE FailUnpublished(sidecar'[cur]) /\ sidecar' \in {sidecar, [sidecar EXCEPT ![cur] = rec]}
    <3>1. \A u \in Token : u # cur => sidecar'[u] = sidecar[u]
      BY <1>0, <2>2
    <3> QED
      BY <1>14, <2>1, <2>2, <3>1 DEF FailUnpublished
  <2>3. CASE /\ UNCHANGED <<lost, reported>> /\ pc' \in {"idle", "close"}
             /\ sidecar' = [sidecar EXCEPT ![cur] = rec]
    <3>1. Visible' = Visible /\ ~InHand(t)' /\ Active(t)' = Active(t)
      BY <2>1, <2>3 DEF Visible, InHand, Active
    <3>2. CASE t = cur
      <4>1. sidecar'[t] = rec /\ Active(t)'
        BY <1>0, <2>1, <2>3, <3>2 DEF Active
      <4> QED
        BY <1>0, <1>5, <2>1, <2>3, <3>1, <4>1 DEF Claim
    <3>3. CASE t # cur
      <4>1. sidecar'[t] = sidecar[t]
        BY <1>0, <2>3, <3>3
      <4> QED
        BY <1>0, <1>6, <2>1, <2>3, <3>1, <4>1
    <3> QED
      BY <3>2, <3>3
  <2> QED
    BY <1>16, <2>2, <2>3 DEF PersistCounter
<1>17. CASE Rename
  <2>1. UNCHANGED <<cur, rec, sidecar>> /\ pc = "close" /\ rec > 0
    BY <1>17 DEF Rename, RowsInOrder
  <2>2. CASE FailUnpublished(sidecar[cur]) /\ UNCHANGED <<tmps, seg>>
    BY <1>14, <2>1, <2>2 DEF FailUnpublished
  <2>3. CASE /\ seg' = [seg EXCEPT ![cur] = [lo |-> lo, n |-> rec]] /\ pc' = "renamed"
             /\ UNCHANGED <<lost, reported>>
    <3>1. \A u \in Token : u \in Visible' <=> u \in Visible \/ u = cur
      BY <1>0, <2>1, <2>3 DEF TypeOK, Visible
    <3>2. ~InHand(t)' /\ (Active(t) => t \in Visible')
      BY <2>3, <3>1 DEF InHand, Active
    <3> QED
      BY <1>0, <1>6, <2>1, <2>3, <3>1, <3>2
  <2> QED
    BY <1>17, <2>2, <2>3 DEF Rename
<1>18. CASE Kill
  <2>1. /\ pc' = "down" /\ UNCHANGED <<sidecar, reported, seg>> /\ lost'[t] = lost[t] + Dying(t)
    BY <1>18 DEF Kill, RamGone
  <2>2. Visible' = Visible /\ ~InHand(t)' /\ ~Active(t)'
    BY <2>1 DEF Visible, InHand, Active
  <2>3. Dying(t) = IF Active(t) THEN rec + buf ELSE 0
    BY DEF Dying
  <2> QED
    BY <1>0, <1>2, <2>1, <2>2, <2>3 DEF Claim
<1>19. CASE LosePower
  <2>1. PICK back \in SUBSET (Visible \ synced),
             new \in SUBSET {u \in Token : sidecar[u] # sidecarSynced[u]} :
          /\ seg' = [u \in Token |-> IF u \in back THEN Absent ELSE seg[u]]
          /\ sidecar' = [u \in Token |-> IF u \in new THEN sidecar[u] ELSE sidecarSynced[u]]
          /\ lost' = [u \in Token |-> lost[u] + Dying(u) + IF u \in back THEN seg[u].n ELSE 0]
          /\ dark' = dark \cup tmps \cup tmpsSynced \cup todo \cup back \cup {cur}
                          \cup {u \in Token : sidecar[u] # sidecarSynced[u]}
    BY <1>19 DEF LosePower
  <2>2. t \notin back /\ t # cur /\ sidecar[t] = sidecarSynced[t]
    BY <2>1
  <2>3. pc' = "down" /\ reported' = reported
    BY <1>19, PowerLossKeeps DEF LosePower
  <2>4. ~Active(t) /\ Dying(t) = 0 /\ ~InHand(t)'
    BY <2>2, <2>3 DEF Active, Dying, InHand
  <2>5. sidecar'[t] = sidecar[t] /\ lost'[t] = lost[t] /\ seg'[t] = seg[t]
    BY <1>0, <2>1, <2>2, <2>4
  <2>6. t \in Visible => t \in Visible'
    BY <2>5 DEF Visible
  <2> QED
    BY <1>0, <1>6, <2>3, <2>4, <2>5, <2>6
<1> QED
  BY <1>7, <1>8, <1>9, <1>10, <1>11, <1>12, <1>13, <1>15, <1>16, <1>17, <1>18, <1>19
     DEF Next, RecoverOrphans

\* The invariants hold of an empty directory.
LEMMA InitOK == Init => WriterInv /\ DurableClaim /\ LossAccounting
<1> SUFFICES ASSUME Init PROVE WriterInv /\ DurableClaim /\ LossAccounting
  OBVIOUS
<1>1. TypeOK
  <2>1. cur \in Token /\ hour \in Hours
    BY WriterAssumption DEF Init, Token
  <2>2. cache \in [Hours -> 0 .. MaxSeq + 1]
    BY WriterAssumption DEF Init
  <2>3. seg \in [Token -> [lo : Nat, n : Nat]]
    BY DEF Init, Absent
  <2>4. /\ sidecar \in [Token -> Nat] /\ sidecarSynced \in [Token -> Nat]
        /\ lost \in [Token -> Nat] /\ reported \in [Token -> Nat] /\ kills \in [Token -> Nat]
        /\ unheard \in [Token -> Nat]
    BY DEF Init
  <2>5. gate \in BOOLEAN
    BY Zenon DEF Init
  <2> QED
    BY <2>1, <2>2, <2>3, <2>4, <2>5 DEF Init, TypeOK, PCs
<1>2. Visible = {} /\ pc = "down" /\ synced = {} /\ announced = {} /\ hooked = {} /\ marker = {}
  BY DEF Init, Visible, Absent
<1>3. \A t \in Token : /\ sidecar[t] = 0 /\ lost[t] = 0 /\ reported[t] = 0 /\ kills[t] = 0
                       /\ unheard[t] = 0
  BY DEF Init
<1>4. \A t \in Token : Silent(t) = 0
  BY <1>2, <1>3 DEF Silent, Owed, InHand
<1>5. LossAccounting
  BY <1>3, <1>4, WriterAssumption DEF LossAccounting, Hidden
<1> QED
  BY <1>1, <1>2, <1>3, <1>5 DEF WriterInv, DurableClaim, SegmentsOrdered, RowsInOrder, NamesInOrder,
     VouchedInOrder, OrphansOwned, CountersClaimLost, CounterFollows, InHand, Active,
     BeforeRename, AfterRename

\* The inductive invariant: types, segments in order, and the files and counters of the
\* open segment in step with its rows; with it what is vouched for, and the accounts.
LEMMA Inductive == Spec => [](WriterInv /\ DurableClaim /\ LossAccounting)
<1>1. WriterInv /\ DurableClaim /\ LossAccounting /\ [Next]_vars
        => (WriterInv /\ DurableClaim /\ LossAccounting)'
  BY TypeStep, RowsStep, NamesStep, SegmentsStep, VouchedStep, OrphansStep, CounterStep, AccountStep,
     ClaimStep DEF WriterInv
<1> QED
  BY <1>1, InitOK, PTL DEF Spec

\* No row is in two segments, the numbers of an hour follow the order of admission, and
\* the counter on disk misses at most one buffer of the open segment.
THEOREM WriterInvariant == Spec => []WriterInv
  BY Inductive, PTL

\* What a hook or a marker has vouched for is on disk and synced.
THEOREM DurableAlways == Spec => []DurableClaim
  BY Inductive, PTL

\* Every row of an undisturbed token is accounted for: reported once, left to the
\* restart, or hidden by a kill, which hides a buffer of the open segment or the
\* counter of the orphan whose discard it interrupts.
THEOREM LossesAccounted == Spec => []LossAccounting
  BY Inductive, PTL

\* Once vouched for, a segment's rows never change.
THEOREM VouchedNeverChange == Spec => VouchedImmutable
<1>1. WriterInv /\ DurableClaim /\ [Next]_vars => [\A t \in announced : seg'[t] = seg[t]]_vars
  <2> SUFFICES ASSUME WriterInv, DurableClaim, [Next]_vars, NEW t \in announced
               PROVE  seg'[t] = seg[t]
    OBVIOUS
  <2>1. t \in Visible /\ t \in synced /\ t \in Token /\ TypeOK
    BY DEF DurableClaim, Visible, WriterInv
  <2>2. CASE LosePower
    BY <2>1, <2>2, PowerLossKeeps
  <2>3. CASE cur \notin Visible /\ seg' = [seg EXCEPT ![cur] = [lo |-> lo, n |-> rec]]
    BY <2>1, <2>3 DEF TypeOK
  <2> QED
    BY <2>2, <2>3, SegmentsKept
<1> QED
  BY <1>1, Inductive, PTL DEF Spec, VouchedImmutable

\* Once a publication failed no row is admitted until a restart.
THEOREM GateAlwaysStopsRows == Spec => GateStopsRows
<1>1. WriterInv /\ [Next]_vars => [gate => accepted' = accepted]_vars
  <2> SUFFICES ASSUME VouchedInOrder, [Next]_vars, gate PROVE accepted' = accepted
    BY DEF WriterInv
  <2>1. \A due \in BOOLEAN : ~(Write(due) \/ Admit(due))
    BY DEF Write, Admit, VouchedInOrder
  <2> QED
    BY <2>1 DEF Next, Start, OpenFirst, Rollover, OpenRolled, RecoverOrphans,
       UnlinkOrphan, UnlinkCounter, ReportOrphan, OrphanDiscardFails,
       Publish, Close, WriteTable, PersistCounter, Rename, DirFsync, DurableHook, WriteMarker,
       PublishedHook, NextSegment, Tick, Kill, LosePower, vars, ghost, ram, orphans, env, disk
<1> QED
  BY <1>1, WriterInvariant, PTL DEF Spec, GateStopsRows
=============================================================================
