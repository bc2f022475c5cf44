------------------------- MODULE TradeDedupProofs -------------------------
(* Machine-checked proofs about TradeDedup, for every value of its constants. *)
EXTENDS TradeDedup, FiniteSetTheorems, WellFoundedInduction, TLAPS

\* A set of numbers that is not empty has a smallest one.
LEMMA Smallest ==
  ASSUME NEW S, S \subseteq Nat, S # {}
  PROVE  \E n \in S : \A m \in S : n <= m
<1> DEFINE Less == {p \in Nat \X Nat : p[1] < p[2]}
<1>1. IsWellFoundedOn(Less, Nat)
  BY NatLessThanWellFounded DEF OpToRel
<1>2. \A m, n \in Nat : m < n => <<m, n>> \in Less
  OBVIOUS
<1> HIDE DEF Less
<1>3. PICK n \in S : \A m \in S : <<m, n>> \notin Less
  BY <1>1, WFMin
<1>4. \A m \in S : m \in Nat /\ n \in Nat /\ ~(m < n)
  BY <1>2, <1>3
<1> QED
  BY <1>4

\* What the assumption says of each bound.
LEMMA Bounds ==
  /\ MaxName \in Nat /\ MaxLegacy \in Nat /\ MaxPubs \in Nat
  /\ MaxFaults \in Nat /\ MaxStops \in Nat /\ MaxHarm \in Nat
  BY DedupAssumption

\* The first of a set of names, and that a set of names has a last one.
LEMMA FirstName ==
  ASSUME NEW S, S \subseteq Name, S # {}
  PROVE  First(S) \in S /\ \A m \in S : First(S) <= m
<1>1. S \subseteq Nat
  BY Bounds DEF Name
<1>2. \E n \in S : \A m \in S : n <= m
  BY <1>1, Smallest
<1> QED
  BY <1>2 DEF First

\* A set of names that is not empty has a last one.
LEMMA LastName ==
  ASSUME NEW S, S \subseteq Name, S # {}
  PROVE  \E n \in S : \A m \in S : m <= n
<1> DEFINE Above == {n \in Nat : \A m \in S : m <= n}
<1>1. MaxName \in Above /\ Above \subseteq Nat
  BY Bounds DEF Name
<1>2. PICK n \in Above : \A m \in Above : n <= m
  <2> HIDE DEF Above
  <2> QED
    BY <1>1, Smallest
<1>3. PICK m \in S : TRUE
  OBVIOUS
<1>4. CASE n \notin S
  <2>1. n \in Nat /\ \A k \in S : k \in Nat /\ k >= 1 /\ k <= n /\ k # n
    BY <1>2, <1>4 DEF Name
  <2>2. n - 1 \in Nat /\ \A k \in S : k <= n - 1
    BY <2>1, <1>3
  <2> QED
    BY <1>2, <2>2
<1> QED
  BY <1>2, <1>4

\* A segment or a marker is a file, and what a file that parses holds is identities.
LEMMA Files ==
  /\ Missing \in File /\ Broken \in File /\ Bytes \subseteq File
  /\ \A f \in File : f \in Bytes \/ f = Missing \/ f = Broken
  /\ \A f \in Bytes : f.ids \subseteq Ids
  BY DEF File, Bytes

\* A process that ends leaves nothing behind in memory.
LEMMA ExitTypes ==
  Exit => /\ pc' = "down" /\ gate' \in BOOLEAN /\ diverged' \in BOOLEAN
          /\ open' \in 1 .. MaxName + 1 /\ pending' \in [Name -> SUBSET Ids]
          /\ admitted' \subseteq Ids /\ todo' \subseteq Ids /\ buf' \subseteq Ids
          /\ unread' \subseteq Name /\ confirmed' \subseteq Name /\ unmarked' \subseteq Name
<1>1. 1 \in 1 .. MaxName + 1
  BY Bounds
<1>2. Nobody \in [Name -> SUBSET Ids]
  BY DEF Nobody
<1> QED
  BY <1>1, <1>2 DEF Exit

\* Every step keeps the types.
LEMMA TypeStep == TypeOK /\ PlacesAgree /\ StartAgrees /\ CollectAgrees /\ [Next]_vars => TypeOK'
<1> SUFFICES ASSUME TypeOK, PlacesAgree, StartAgrees, CollectAgrees, [Next]_vars PROVE TypeOK'
  OBVIOUS
<1> USE Bounds, Files DEF TypeOK, disk, live, local, budget, Startup, Closing, Raises
<1> USE DEF Unsynced, SyncDir, Dir
<1>1. CASE Start
  <2>1. open' \in 1 .. MaxName + 1
    <3>1. CASE Visible = {}
      BY <1>1, <3>1 DEF Start
    <3>2. CASE Visible # {}
      <4> DEFINE last == CHOOSE n \in Visible : \A m \in Visible : m <= n
      <4>1. last \in Visible
        BY <3>2, LastName DEF Visible
      <4>2. open' = 1 + last
        BY <1>1, <3>2 DEF Start
      <4> HIDE DEF last
      <4> QED
        BY <4>1, <4>2 DEF Visible, Name
    <3> QED
      BY <3>1, <3>2
  <2> QED
    BY <1>1, <2>1 DEF Start, Visible
<1>2. CASE Scan
  <2>1. mark' \in [Name -> File]
    BY <1>2 DEF Scan, Rename
  <2>2. past' \subseteq [seg : [Name -> File], mark : [Name -> File]]
    BY <1>2, <2>1 DEF Scan
  <2>3. CASE ScanRaises \/ Corrupt # {}
    BY <1>2, <2>1, <2>2, <2>3, ExitTypes DEF Scan
  <2>4. CASE ~(ScanRaises \/ Corrupt # {})
    BY <1>2, <2>1, <2>2, <2>4 DEF Scan, Visible
  <2> QED
    BY <2>3, <2>4
<1>3. CASE Settle
  BY <1>3 DEF Settle
<1>4. CASE ConfirmSync
  BY <1>4 DEF ConfirmSync
<1>5. CASE Inspect
  BY <1>5, ExitTypes DEF Inspect
<1>6. CASE ConfirmMark
  BY <1>6, FirstName DEF ConfirmMark
<1>7. CASE ConfirmDone
  BY <1>7 DEF ConfirmDone
<1>8. CASE Audit
  BY <1>8 DEF Audit
<1>9. CASE Rebuild
  BY <1>9 DEF Rebuild, Nothing
<1>10. CASE IndexSegment
  <2> DEFINE n == First(Unreconciled)
  <2>1. n \in Name
    BY <1>10, FirstName DEF IndexSegment, Unreconciled
  <2> HIDE DEF n
  <2>2. CASE ~Verified(n) \/ Conflicts(n)
    BY <1>10, <2>2, ExitTypes DEF IndexSegment, n
  <2>3. CASE Verified(n) /\ ~Conflicts(n)
    <3>1. seg[n] \in Bytes
      BY <2>3 DEF Verified, Valid
    <3> QED
      BY <1>10, <2>1, <2>3, <3>1 DEF IndexSegment, WriteEvidence, Commit, n
  <2> QED
    BY <2>2, <2>3
<1>11. CASE Serve
  BY <1>11 DEF Serve
<1>12. CASE StartupRaises
  BY <1>12, ExitTypes DEF StartupRaises
<1>13. ASSUME NEW k \in Ids, Write(k) PROVE TypeOK'
  BY <1>13 DEF Write
<1>14. ASSUME NEW k \in Ids, Reject(k) PROVE TypeOK'
  BY <1>14 DEF Reject
<1>15. CASE MessageOver
  BY <1>15 DEF MessageOver, EndMessage
<1>16. CASE WriterFails
  BY <1>16 DEF WriterFails, EndMessage
<1>17. CASE Publish
  <2>1. [ids |-> buf, gen |-> pubs'] \in Bytes /\ pubs' \in 0 .. MaxPubs
    BY <1>17 DEF Publish, Bytes
  <2>2. seg' \in [Name -> File]
    BY <1>17, <2>1 DEF Publish
  <2>3. past' \subseteq [seg : [Name -> File], mark : [Name -> File]]
    BY <1>17, <2>2 DEF Publish
  <2> QED
    BY <1>17, <2>1, <2>2, <2>3 DEF Publish
<1>18. CASE DirFsync
  BY <1>18 DEF DirFsync
<1>19. CASE WriteMarker
  BY <1>19 DEF WriteMarker, PlacesAgree
<1>20. CASE MarkerFsync
  BY <1>20 DEF MarkerFsync
<1>21. CASE Hook
  <2>1. open \in Name
    BY <1>21 DEF Hook, PlacesAgree
  <2>2. CASE ~Verified(open) \/ Conflicts(open)
    BY <1>21, <2>2 DEF Hook, Latch
  <2>3. CASE Verified(open) /\ ~Conflicts(open)
    <3>1. seg[open] \in Bytes
      BY <2>3 DEF Verified, Valid
    <3> QED
      BY <1>21, <2>1, <2>3, <3>1 DEF Hook, WriteEvidence, Commit, Release
  <2> QED
    BY <2>2, <2>3
<1>22. CASE PublicationFails
  BY <1>22 DEF PublicationFails, Latch
<1>23. CASE NextSegment
  BY <1>23 DEF NextSegment, PlacesAgree, Name
<1>24. ASSUME NEW S \in SUBSET Ids, Message(S) PROVE TypeOK'
  BY <1>24 DEF Message
<1>25. CASE Kill
  BY <1>25, ExitTypes DEF Kill
<1>26. CASE PowerLoss
  BY <1>26, ExitTypes DEF PowerLoss
<1>27. ASSUME NEW n \in Name, Remove(n) PROVE TypeOK'
  BY <1>27 DEF Remove, Harms
<1>28. ASSUME NEW n \in Name, Damage(n) PROVE TypeOK'
  BY <1>28 DEF Damage, Harms
<1>29. CASE UNCHANGED vars
  BY <1>29 DEF vars
<1> QED
  BY <1>1, <1>2, <1>3, <1>4, <1>5, <1>6, <1>7, <1>8, <1>9, <1>10, <1>11, <1>12, <1>13, <1>14, <1>15,
     <1>16, <1>17, <1>18, <1>19, <1>20, <1>21, <1>22, <1>23, <1>24, <1>25, <1>26, <1>27, <1>28, <1>29
     DEF Next, Reconcile, Collect, Environment

\* A rename of markers, a directory fsync, and a new directory whose files agree, keep
\* the states a power loss may leave in agreement.
LEMMA PastKept ==
  ASSUME PastAgrees,
         \/ UNCHANGED <<seg, mark, past>>
         \/ /\ seg' = seg /\ Unsynced
            /\ \A n \in Name : seg[n] \in Bytes /\ mark'[n] \in Bytes => mark'[n] = seg[n]
         \/ UNCHANGED <<seg, mark>> /\ SyncDir
         \/ /\ past' = {Dir'}
            /\ \A n \in Name : seg'[n] \in Bytes /\ mark'[n] \in Bytes => mark'[n] = seg'[n]
  PROVE  PastAgrees'
  BY DEF PastAgrees, Dir, Unsynced, SyncDir

\* What a power loss may bring back agrees with what is on the disk, after every step.
LEMMA PastStep ==
  TypeOK /\ PastAgrees /\ PlacesAgree /\ StartAgrees /\ CollectAgrees /\ [Next]_vars => PastAgrees'
<1> SUFFICES ASSUME TypeOK, PastAgrees, PlacesAgree, StartAgrees, CollectAgrees, [Next]_vars
             PROVE  PastAgrees'
  OBVIOUS
<1>0. /\ seg \in [Name -> File] /\ mark \in [Name -> File] /\ Missing \notin Bytes
      /\ \A n \in Name : seg[n] \in Bytes /\ mark[n] \in Bytes => mark[n] = seg[n]
      /\ Broken \notin Bytes
  BY DedupAssumption DEF PastAgrees, TypeOK, Dir
<1> USE DEF disk
<1>1. CASE UNCHANGED <<seg, mark, past>>
  BY <1>1, PastKept
<1>2. CASE Scan
  BY <1>0, <1>2, PastKept DEF Scan, Rename
<1>3. CASE Settle \/ ConfirmSync \/ ConfirmDone \/ DirFsync \/ MarkerFsync
  BY <1>3, PastKept DEF Settle, ConfirmSync, ConfirmDone, DirFsync, MarkerFsync
<1>4. CASE ConfirmMark
  BY <1>0, <1>4, PastKept DEF ConfirmMark
<1>5. CASE Publish
  <2>1. pc = "msg" /\ ~gate /\ open \in Name
    BY <1>5 DEF Publish, CollectAgrees, Live
  <2>2. open \notin Visible /\ ~(open < open)
    BY <2>1, Bounds DEF CollectAgrees, Live, Closing, Name
  <2>3. /\ seg[open] = Missing /\ mark[open] = Missing
    BY <2>1, <2>2 DEF CollectAgrees, Live, Visible
  <2>4. seg'[open] \in Bytes /\ \A n \in Name : n # open => seg'[n] = seg[n]
    <3>1. [ids |-> buf, gen |-> pubs'] \in Bytes
      BY <1>5, TypeStep DEF Publish, TypeOK, Bytes
    <3> QED
      BY <1>0, <1>5, <2>1, <3>1 DEF Publish
  <2>5. past' = past \cup {Dir'} /\ mark' = mark
    BY <1>5 DEF Publish, Unsynced
  <2>6. \A d \in past, n \in Name : d.seg[n] \in Bytes => n # open
    BY <1>0, <2>3 DEF PastAgrees
  <2>7. ASSUME NEW d \in past', NEW n \in Name, d.seg[n] \in Bytes
        PROVE  d.seg[n] = seg'[n] /\ (d.mark[n] \in Bytes => d.mark[n] = d.seg[n])
    <3>1. CASE d \in past
      BY <3>1, <2>4, <2>6, <2>7 DEF PastAgrees
    <3>2. CASE d = Dir'
      BY <1>0, <3>2, <2>3, <2>4, <2>5, <2>7 DEF Dir
    <3> QED
      BY <3>1, <3>2, <2>5
  <2> QED
    BY <2>5, <2>7 DEF PastAgrees
<1>6. CASE WriteMarker
  BY <1>0, <1>6, PastKept DEF WriteMarker
<1>7. CASE PowerLoss
  <2>1. PICK d \in past : seg' = d.seg /\ mark' = d.mark /\ past' = {d}
    BY <1>7 DEF PowerLoss
  <2>2. d = Dir'
    BY <2>1 DEF TypeOK, Dir
  <2>3. \A n \in Name : seg'[n] \in Bytes /\ mark'[n] \in Bytes => mark'[n] = seg'[n]
    BY <2>1 DEF PastAgrees
  <2> QED
    BY <2>1, <2>2, <2>3, PastKept
<1>8. ASSUME NEW n \in Name, Remove(n) PROVE PastAgrees'
  BY <1>0, <1>8, PastKept DEF Remove
<1>9. ASSUME NEW n \in Name, Damage(n) PROVE PastAgrees'
  BY <1>0, <1>9, PastKept DEF Damage
<1>10. CASE \/ Start \/ Inspect \/ Audit \/ Rebuild \/ IndexSegment \/ Serve \/ StartupRaises
            \/ MessageOver \/ WriterFails \/ Hook \/ PublicationFails \/ NextSegment \/ Kill
            \/ UNCHANGED vars
  <2>1. UNCHANGED <<seg, mark, past>>
    BY <1>10 DEF Start, Inspect, Audit, Rebuild, IndexSegment, Serve, StartupRaises, MessageOver,
       WriterFails, Hook, PublicationFails, NextSegment, Kill, vars
  <2> QED
    BY <1>1, <2>1
<1>11. CASE (\E k \in Ids : Write(k) \/ Reject(k)) \/ \E S \in SUBSET Ids : Message(S)
  <2>1. UNCHANGED <<seg, mark, past>>
    BY <1>11 DEF Write, Reject, Message
  <2> QED
    BY <1>1, <2>1
<1> QED
  BY <1>2, <1>3, <1>4, <1>5, <1>6, <1>7, <1>8, <1>9, <1>10, <1>11
     DEF Next, Reconcile, Collect, Environment

\* Every step keeps what is known of the place the process is at.
LEMMA PlacesStep ==
  TypeOK /\ PastAgrees /\ PlacesAgree /\ CollectAgrees /\ [Next]_vars => PlacesAgree'
<1> SUFFICES ASSUME TypeOK, PastAgrees, PlacesAgree, CollectAgrees, [Next]_vars PROVE PlacesAgree'
  OBVIOUS
<1> USE DEF PlacesAgree, Startup, Closing, Indexing, disk, live, local
<1>1. CASE Exit
  BY <1>1 DEF Exit
<1>2. CASE Start
  BY <1>2 DEF Start
<1>3. CASE Scan
  BY <1>1, <1>3 DEF Scan, ScanRaises
<1>4. CASE Settle
  BY <1>4 DEF Settle
<1>5. CASE ConfirmSync
  BY <1>5 DEF ConfirmSync, SyncDir, Dir
<1>6. CASE Inspect
  BY <1>1, <1>6 DEF Inspect
<1>7. CASE ConfirmMark
  BY <1>7 DEF ConfirmMark, Unsynced, Dir
<1>8. CASE ConfirmDone
  BY <1>8 DEF ConfirmDone, SyncDir, Dir
<1>9. CASE Audit \/ Rebuild \/ Serve
  BY <1>9 DEF Audit, Rebuild, Serve
<1>10. CASE IndexSegment
  BY <1>1, <1>10 DEF IndexSegment
<1>11. CASE StartupRaises \/ Kill \/ PowerLoss
  BY <1>1, <1>11 DEF StartupRaises, Kill, PowerLoss
<1>12. ASSUME NEW k \in Ids, Write(k) \/ Reject(k) PROVE PlacesAgree'
  BY <1>12 DEF Write, Reject
<1>13. CASE MessageOver \/ WriterFails
  BY <1>13 DEF MessageOver, WriterFails, EndMessage
<1>14. CASE Publish
  BY <1>14 DEF Publish, CollectAgrees, Live
<1>15. CASE DirFsync
  BY <1>15 DEF DirFsync, SyncDir, Dir
<1>16. CASE WriteMarker \/ MarkerFsync
  BY <1>16 DEF WriteMarker, MarkerFsync
<1>17. CASE Hook
  BY <1>17 DEF Hook, Latch, WriteEvidence, Commit
<1>18. CASE PublicationFails \/ NextSegment
  BY <1>18 DEF PublicationFails, Latch, NextSegment
<1>19. ASSUME NEW S \in SUBSET Ids, Message(S) PROVE PlacesAgree'
  BY <1>19 DEF Message
<1>20. ASSUME NEW n \in Name, Remove(n) \/ Damage(n) PROVE PlacesAgree'
  BY <1>20 DEF Remove, Damage, Harms
<1>21. CASE UNCHANGED vars
  BY <1>21 DEF vars
<1> QED
  BY <1>2, <1>3, <1>4, <1>5, <1>6, <1>7, <1>8, <1>9, <1>10, <1>11, <1>12, <1>13, <1>14, <1>15,
     <1>16, <1>17, <1>18, <1>19, <1>20, <1>21 DEF Next, Reconcile, Collect, Environment
\* Every step keeps what a start has found out.
LEMMA StartStep ==
  TypeOK /\ PastAgrees /\ PlacesAgree /\ StartAgrees /\ [Next]_vars => StartAgrees'
<1> SUFFICES ASSUME TypeOK, PastAgrees, PlacesAgree, StartAgrees, [Next]_vars PROVE StartAgrees'
  OBVIOUS
<1>0. /\ seg \in [Name -> File] /\ mark \in [Name -> File] /\ idx \in [Name -> File]
      /\ Missing # Broken /\ Missing \notin Bytes /\ Broken \notin Bytes
      /\ \A n \in Name : seg[n] \in Bytes /\ mark[n] \in Bytes => mark[n] = seg[n]
  BY DedupAssumption DEF PastAgrees, TypeOK, Dir
<1> USE DEF StartAgrees, Startup, disk, live, local, Visible
<1>1. CASE pc' \notin Startup
  BY <1>1 DEF IndexedConfirmed
<1>2. CASE Start
  <2>1. pc' = "scan" /\ seg' = seg
    BY <1>2 DEF Start
  <2>2. \A n \in Visible' : n < open'
    <3>1. CASE Visible = {}
      BY <2>1, <3>1
    <3>2. CASE Visible # {}
      <4> DEFINE last == CHOOSE n \in Visible : \A m \in Visible : m <= n
      <4>1. last \in Visible /\ \A m \in Visible : m <= last
        BY <3>2, LastName DEF Visible
      <4>2. open' = 1 + last
        BY <1>2, <3>2 DEF Start
      <4> HIDE DEF last
      <4>3. \A m \in Visible : m \in Int /\ last \in Int /\ m < 1 + last
        BY <4>1, Bounds DEF Name
      <4> QED
        BY <2>1, <4>2, <4>3
    <3> QED
      BY <3>1, <3>2
  <2> QED
    BY <2>1, <2>2
<1>3. CASE Scan
  <2> SUFFICES ASSUME ~ScanRaises, Corrupt = {} PROVE StartAgrees'
    BY <1>1, <1>3 DEF Scan, Exit
  <2>1. /\ seg' = seg /\ open' = open /\ pc' \in {"confirm", "settle"} /\ pc = "scan"
        /\ confirmed' = {n \in Visible : Valid(n)} /\ unmarked' = Visible \ confirmed'
        /\ mark' = [n \in Name |-> IF n \in Preserved(Visible) \cup Dangling
                                   THEN Missing ELSE mark[n]]
    BY <1>3 DEF Scan, Rename
  <2>2. ASSUME NEW n \in confirmed' PROVE Verified(n)'
    <3>1. n \in Name /\ n \in Visible /\ Valid(n)
      BY <2>1
    <3>2. seg[n] \in Bytes /\ mark[n] = seg[n]
      BY <1>0, <3>1, Files DEF Corrupt, Valid
    <3>3. mark'[n] = mark[n]
      BY <1>0, <2>1, <3>1, <3>2 DEF Preserved, Dangling
    <3> QED
      BY <2>1, <3>2, <3>3 DEF Verified, Valid
  <2>3. \A n \in Name \ Visible' : mark'[n] = Missing
    BY <2>1 DEF Dangling
  <2> QED
    BY <2>1, <2>2, <2>3
<1>4. CASE Settle \/ ConfirmSync
  BY <1>4 DEF Settle, ConfirmSync, Verified, Valid
<1>5. CASE Inspect
  <2> SUFFICES ASSUME \A n \in unmarked : seg[n] # Broken PROVE StartAgrees'
    BY <1>1, <1>5 DEF Inspect, Exit
  <2>1. \A n \in unmarked : seg[n] \in Bytes
    BY <1>0, <1>5, Files DEF Inspect
  <2> QED
    BY <1>5, <2>1 DEF Inspect, Verified, Valid
<1>6. CASE ConfirmMark
  <2> DEFINE f == First(unmarked)
  <2>1. f \in unmarked /\ f \in Name
    BY <1>6, FirstName DEF ConfirmMark, TypeOK
  <2>2. /\ pc = "mark" /\ UNCHANGED <<pc, seg, open>>
        /\ mark' = [mark EXCEPT ![f] = seg[f]]
        /\ confirmed' = confirmed \cup {f} /\ unmarked' = unmarked \ {f}
    BY <1>6 DEF ConfirmMark
  <2> HIDE DEF f
  <2>3. seg[f] \in Bytes
    BY <2>1, <2>2
  <2>4. \A n \in confirmed' : Verified(n)'
    BY <1>0, <2>1, <2>2, <2>3 DEF Verified, Valid
  <2> QED
    BY <1>0, <2>1, <2>2, <2>3, <2>4
<1>7. CASE ConfirmDone
  BY <1>7 DEF ConfirmDone, Verified, Valid
<1>8. CASE Audit
  <2>1. UNCHANGED <<seg, mark, idx, seen, open, confirmed, unmarked>> /\ pc = "audit"
        /\ (pc' = "index" => ~Divergence) /\ pc' \in {"rebuild", "index"}
    BY <1>8 DEF Audit
  <2>2. pc' = "index" => IndexedConfirmed'
    BY <2>1 DEF Divergence, IndexedConfirmed, Members
  <2> QED
    BY <2>1, <2>2 DEF Verified, Valid
<1>9. CASE Rebuild
  BY <1>9 DEF Rebuild, Nothing, IndexedConfirmed, Verified, Valid, TypeOK
<1>10. CASE IndexSegment
  <2>1. PICK f \in Unreconciled : f = First(Unreconciled)
    BY <1>10, FirstName DEF IndexSegment, Unreconciled, TypeOK
  <2> SUFFICES ASSUME Verified(f), ~Conflicts(f), WriteEvidence(f) \/ Commit(f),
                      UNCHANGED <<seg, mark, pc, live, local>>
               PROVE  StartAgrees'
    BY <1>1, <1>10, <2>1 DEF IndexSegment, Exit
  <2>2. f \in Name /\ f \in confirmed /\ idx[f] = Missing /\ mark[f] = seg[f] /\ seg[f] \in Bytes
    BY <2>1 DEF Unreconciled, TypeOK, Verified, Valid
  <2>3. pc = "index" /\ IndexedConfirmed
    BY <1>10 DEF IndexSegment
  <2>4. CASE WriteEvidence(f)
    BY <2>3, <2>4 DEF WriteEvidence, IndexedConfirmed, Members, Verified, Valid
  <2>5. CASE Commit(f)
    <3>1. idx' = [idx EXCEPT ![f] = seg[f]] /\ seen' = seen \cup (seg[f].ids \X {f})
      BY <2>5 DEF Commit
    <3>2. seen \subseteq Ids \X Name /\ seg[f].ids \subseteq Ids
      BY <2>2, Files DEF TypeOK
    <3>3. \A k \in Ids : <<k, f>> \notin seen
      BY <2>2, <2>3 DEF IndexedConfirmed
    <3>4. Members(f)' = mark[f].ids
      <4>1. \A k \in Ids : <<k, f>> \in seen' <=> k \in seg[f].ids
        BY <3>1, <3>2, <3>3
      <4>2. Members(f)' = {k \in Ids : <<k, f>> \in seen'}
        BY DEF Members
      <4> QED
        BY <2>2, <3>2, <4>1, <4>2
    <3>5. \A n \in Name : n # f => Members(n)' = Members(n) /\ idx'[n] = idx[n]
      BY <1>0, <3>1 DEF Members
    <3>6. idx'[f] = seg[f] /\ idx'[f] # Missing
      BY <1>0, <2>2, <3>1
    <3>7. \A p \in seen' : p[2] \in Name /\ idx'[p[2]] # Missing
      BY <2>2, <2>3, <3>1, <3>2, <3>5, <3>6 DEF IndexedConfirmed
    <3>8. IndexedConfirmed'
      <4>1. mark' = mark /\ confirmed' = confirmed
        OBVIOUS
      <4>2. \A n \in Name : idx'[n] # Missing =>
               n \in confirmed' /\ idx'[n] = mark'[n] /\ Members(n)' = mark'[n].ids
        BY <2>2, <2>3, <3>4, <3>5, <3>6, <4>1 DEF IndexedConfirmed
      <4> QED
        BY <3>7, <4>2 DEF IndexedConfirmed
    <3> QED
      BY <2>3, <3>8 DEF Verified, Valid
  <2> QED
    BY <2>4, <2>5
<1>11. CASE Serve \/ StartupRaises \/ Kill \/ PowerLoss
  BY <1>1, <1>11 DEF Serve, StartupRaises, Kill, PowerLoss, Exit
<1>12. CASE Collect \/ \E S \in SUBSET Ids : Message(S)
  BY <1>1, <1>12 DEF Collect, Write, Reject, MessageOver, EndMessage, WriterFails, Publish, DirFsync,
     WriteMarker, MarkerFsync, Hook, Latch, PublicationFails, NextSegment, Message
<1>13. ASSUME NEW n \in Name, Remove(n) \/ Damage(n) PROVE StartAgrees'
  BY <1>1, <1>13 DEF Remove, Damage, Harms
<1>14. CASE UNCHANGED vars
  BY <1>14 DEF vars, IndexedConfirmed, Members, Verified, Valid
<1> QED
  BY <1>2, <1>3, <1>4, <1>5, <1>6, <1>7, <1>8, <1>9, <1>10, <1>11, <1>12, <1>13, <1>14
     DEF Next, Reconcile, Environment
\* While the writer takes rows: what CollectAgrees says, without the condition.
LEMMA Collecting ==
  ASSUME TypeOK, CollectAgrees, pc \in Live, ~gate
  PROVE  /\ \A n \in Visible : n < open \/ (n = open /\ pc \in Closing)
         /\ \A n \in Settled : n \in Name /\ seg[n] \in Bytes /\ mark[n] = seg[n] /\ idx[n] = seg[n]
         /\ \A n \in Name \ Visible : seg[n] = Missing /\ idx[n] = Missing /\ mark[n] = Missing
         /\ \A k \in Ids, n \in Name : <<k, n>> \in seen <=> n \in Settled /\ k \in seg[n].ids
         /\ \A n \in Name : pending[n] = Unindexed(n)
<1>1. \A n \in Settled : n \in Name /\ seg[n] \in Bytes /\ mark[n] = seg[n] /\ idx[n] = seg[n]
  BY DEF CollectAgrees, Settled, Visible, Verified, Valid
<1>2. seen = UNION {seg[n].ids \X {n} : n \in Settled}
  BY DEF CollectAgrees
<1>3. ASSUME NEW k \in Ids, NEW n \in Name
      PROVE  <<k, n>> \in seen <=> n \in Settled /\ k \in seg[n].ids
  <2>1. ASSUME <<k, n>> \in seen PROVE n \in Settled /\ k \in seg[n].ids
    <3>1. PICK m \in Settled : <<k, n>> \in seg[m].ids \X {m}
      BY <1>2, <2>1
    <3> QED
      BY <3>1
  <2>2. ASSUME n \in Settled, k \in seg[n].ids PROVE <<k, n>> \in seen
    <3>1. <<k, n>> \in seg[n].ids \X {n}
      BY <2>2
    <3> QED
      BY <1>2, <2>2, <3>1
  <2> QED
    BY <2>1, <2>2
<1> QED
  BY <1>1, <1>3 DEF CollectAgrees, Visible

\* The identity table is determined by the pairs it has.
LEMMA SeenIs ==
  ASSUME seen' \subseteq Ids \X Name, Settled' \subseteq Name, \A n \in Settled' : seg'[n] \in Bytes,
         \A k \in Ids, n \in Name : <<k, n>> \in seen' <=> n \in Settled' /\ k \in seg'[n].ids
  PROVE  seen' = UNION {seg'[n].ids \X {n} : n \in Settled'}
<1>1. ASSUME NEW p \in seen' PROVE p \in UNION {seg'[n].ids \X {n} : n \in Settled'}
  <2>1. PICK k \in Ids, n \in Name : p = <<k, n>>
    BY <1>1
  <2>2. p \in seg'[n].ids \X {n} /\ n \in Settled'
    BY <1>1, <2>1
  <2> QED
    BY <2>2
<1>2. ASSUME NEW p \in UNION {seg'[n].ids \X {n} : n \in Settled'} PROVE p \in seen'
  <2>1. PICK n \in Settled' : p \in seg'[n].ids \X {n}
    BY <1>2
  <2>2. PICK k \in seg'[n].ids : p = <<k, n>>
    BY <2>1
  <2>3. k \in Ids
    BY Files, <2>2
  <2> QED
    BY <2>2, <2>3
<1> QED
  BY <1>1, <1>2

\* Every step keeps what is known while the writer takes rows.
LEMMA CollectStep ==
  TypeOK /\ PastAgrees /\ PlacesAgree /\ StartAgrees /\ CollectAgrees /\ [Next]_vars => CollectAgrees'
<1> SUFFICES ASSUME TypeOK, PastAgrees, PlacesAgree, StartAgrees, CollectAgrees, [Next]_vars,
                    pc' \in Live, ~gate'
             PROVE  CollectAgrees'
  BY DEF CollectAgrees
<1>0. TypeOK'
  BY TypeStep
<1>a. /\ {seg, mark, idx, seg', mark', idx'} \subseteq [Name -> File]
      /\ seen \subseteq Ids \X Name /\ seen' \subseteq Ids \X Name
      /\ Missing \notin Bytes /\ open \in Int /\ open' \in Int /\ Name \subseteq Int
  <2>1. open \in 1 .. MaxName + 1 /\ open' \in 1 .. MaxName + 1
    BY <1>0 DEF TypeOK
  <2>2. open \in Int /\ open' \in Int /\ Name \subseteq Int
    BY <2>1, Bounds DEF Name
  <2>3. /\ {seg, mark, idx, seg', mark', idx'} \subseteq [Name -> File]
        /\ seen \subseteq Ids \X Name /\ seen' \subseteq Ids \X Name
    BY <1>0 DEF TypeOK
  <2> QED
    BY <2>2, <2>3, DedupAssumption
<1> USE DEF Live, Closing, disk, live, local
<1>1. CASE Serve
  <2>1. /\ UNCHANGED disk /\ UNCHANGED live /\ pc = "index" /\ pc' = "serve"
        /\ Unreconciled = {} /\ confirmed = Visible
        /\ buf = {} /\ todo = {} /\ admitted = {} /\ pending = Nobody
    BY <1>1 DEF Serve, StartAgrees, PlacesAgree, Startup
  <2>2. Visible' = Visible /\ Settled' = Visible
    BY <2>1 DEF Visible, Settled, Indexing
  <2>3. \A n \in Visible : /\ n < open /\ n \in Name /\ seg[n] \in Bytes /\ Verified(n)
                           /\ idx[n] = seg[n] /\ Members(n) = seg[n].ids
    BY <2>1 DEF StartAgrees, Startup, Unreconciled, Visible, Verified, Valid, IndexedConfirmed
  <2>4. \A n \in Name \ Visible : idx[n] = Missing /\ mark[n] = Missing
    BY <2>1 DEF StartAgrees, Startup, IndexedConfirmed
  <2>5. \A k \in Ids, n \in Name : <<k, n>> \in seen <=> n \in Visible /\ k \in seg[n].ids
    <3>1. \A p \in seen : idx[p[2]] # Missing
      BY <2>1 DEF StartAgrees, Startup, IndexedConfirmed
    <3>2. \A k \in Ids, n \in Name : <<k, n>> \in seen => n \in Visible
      BY <2>4, <3>1
    <3>3. \A k \in Ids, n \in Visible : <<k, n>> \in seen <=> k \in seg[n].ids
      BY <2>3 DEF Members
    <3> QED
      BY <3>2, <3>3
  <2>6. seen' = UNION {seg'[n].ids \X {n} : n \in Settled'}
    <3>1. seen' \subseteq Ids \X Name /\ Settled' \subseteq Name
      BY <1>a, <2>2 DEF Visible
    <3>2. \A n \in Settled' : seg'[n] \in Bytes
      BY <2>1, <2>2, <2>3
    <3>3. \A k \in Ids, n \in Name : <<k, n>> \in seen' <=> n \in Settled' /\ k \in seg'[n].ids
      BY <2>1, <2>2, <2>5
    <3> QED
      BY <3>1, <3>2, <3>3, SeenIs
  <2>7. \A n \in Name : pending'[n] = Unindexed(n)'
    BY <2>1 DEF Nobody, Unindexed, Indexing
  <2>8. \A n \in Settled' : Verified(n)' /\ idx'[n] = seg'[n]
    BY <2>1, <2>2, <2>3 DEF Verified, Valid
  <2> QED
    BY <2>1, <2>2, <2>3, <2>4, <2>6, <2>7, <2>8 DEF CollectAgrees, Indexing
<1>2. ASSUME pc \in Live, ~gate,
             UNCHANGED <<seg, mark, idx, seen>>, Settled' = Settled,
             \A n \in Visible : n < open' \/ (n = open' /\ pc' \in Closing),
             pc' \in Indexing => seg[open'] \in Bytes,
             \A n \in Name : pending'[n] = Unindexed(n)',
             pc' \in Closing => buf' = {}, buf' # {} => open' \in Name,
             pc' = "serve" => admitted' = {} /\ todo' = {},
             todo' \cap buf' = {}, \A n \in Visible : todo' \cap seg[n].ids = {}
      PROVE  CollectAgrees'
  <2>1. Visible' = Visible /\ seen' = seen /\ seg' = seg /\ mark' = mark /\ idx' = idx
    BY <1>2 DEF Visible
  <2>2. \A n \in Settled : Verified(n)' /\ idx[n] = seg[n]
    BY <1>2, <2>1 DEF CollectAgrees, Verified, Valid
  <2>3. /\ \A n \in Name \ Visible : idx[n] = Missing /\ mark[n] = Missing
        /\ seen = UNION {seg[n].ids \X {n} : n \in Settled}
    BY <1>2 DEF CollectAgrees
  <2>4. seen' = UNION {seg'[n].ids \X {n} : n \in Settled'}
    BY <1>2, <2>1, <2>3
  <2>5. \A n \in Visible' : n < open' \/ (n = open' /\ pc' \in Closing)
    BY <1>2, <2>1
  <2>6. \A n \in Settled' : Verified(n)' /\ idx'[n] = seg'[n]
    BY <1>2, <2>1, <2>2
  <2>7. \A n \in Name \ Visible' : idx'[n] = Missing /\ mark'[n] = Missing
    BY <2>1, <2>3
  <2>8. \A n \in Visible' : todo' \cap seg'[n].ids = {}
    BY <1>2, <2>1
  <2> QED
    BY <1>2, <2>4, <2>5, <2>6, <2>7, <2>8 DEF CollectAgrees
<1>b. ASSUME pc \in Live, ~gate
      PROVE  /\ \A n \in Visible : n < open \/ (n = open /\ pc \in Closing)
             /\ pc \in Indexing => seg[open] \in Bytes
             /\ \A n \in Name : pending[n] = Unindexed(n)
             /\ pc \in Closing => buf = {}
             /\ buf # {} => open \in Name
             /\ pc = "serve" => admitted = {} /\ todo = {}
             /\ todo \cap buf = {} /\ \A n \in Visible : todo \cap seg[n].ids = {}
  BY <1>b DEF CollectAgrees
<1>3. ASSUME NEW S \in SUBSET Ids, Message(S) PROVE CollectAgrees'
  <2>1. /\ pc = "serve" /\ pc' = "msg" /\ todo' = S \ Suppressed
        /\ UNCHANGED <<disk, pending, buf, open, gate>> /\ ~gate
    BY <1>3 DEF Message
  <2>2. Settled = Visible /\ Settled' = Visible
    BY <2>1 DEF Settled, Indexing, Visible
  <2>3. ASSUME NEW n \in Visible PROVE todo' \cap seg[n].ids = {}
    <3>1. \A k \in seg[n].ids : k \in Ids /\ <<k, n>> \in seen
      BY <2>1, <2>2, Collecting, Files
    <3>2. ASSUME NEW k \in seg[n].ids PROVE k \in {p[1] : p \in seen}
      <4>1. <<k, n>> \in seen /\ <<k, n>>[1] = k
        BY <3>1
      <4> QED
        BY <4>1
    <3>3. seg[n].ids \subseteq Suppressed
      BY <3>2 DEF Suppressed
    <3> QED
      BY <2>1, <3>3
  <2>4. todo' \cap buf = {}
    <3>1. CASE buf = {}
      BY <3>1
    <3>2. CASE buf # {}
      <4>1. open \in Name /\ pending[open] = buf
        BY <1>b, <2>1, <3>2 DEF Unindexed, Indexing
      <4>2. buf \subseteq Suppressed
        BY <4>1 DEF Suppressed
      <4> QED
        BY <2>1, <4>2
    <3> QED
      BY <3>1, <3>2
  <2>5. \A n \in Name : pending'[n] = Unindexed(n)'
    BY <1>b, <2>1 DEF Unindexed, Indexing
  <2> QED
    BY <1>2, <1>b, <2>1, <2>2, <2>3, <2>4, <2>5 DEF Indexing
<1>4. ASSUME NEW k \in Ids, Write(k) PROVE CollectAgrees'
  <2>1. /\ pc = "msg" /\ pc' = "msg" /\ k \in todo /\ ~gate /\ open \in Name
        /\ todo' = todo \ {k} /\ buf' = buf \cup {k}
        /\ pending' = [pending EXCEPT ![open] = @ \cup {k}]
        /\ UNCHANGED <<disk, open, gate>>
    BY <1>4 DEF Write
  <2>2. Settled' = Settled
    BY <2>1 DEF Settled, Indexing, Visible
  <2>3. \A n \in Name : pending'[n] = Unindexed(n)'
    BY <1>b, <2>1 DEF Unindexed, Indexing, TypeOK
  <2> QED
    BY <1>2, <1>b, <2>1, <2>2, <2>3 DEF Indexing
<1>5. ASSUME NEW k \in Ids, Reject(k) PROVE CollectAgrees'
  <2>1. /\ pc = "msg" /\ pc' = "msg" /\ todo' = todo \ {k}
        /\ UNCHANGED <<disk, pending, buf, open, gate>> /\ ~gate
    BY <1>5 DEF Reject
  <2>2. Settled' = Settled
    BY <2>1 DEF Settled, Indexing, Visible
  <2>3. \A n \in Name : pending'[n] = Unindexed(n)'
    BY <1>b, <2>1 DEF Unindexed, Indexing
  <2> QED
    BY <1>2, <1>b, <2>1, <2>2, <2>3 DEF Indexing
<1>6. CASE MessageOver
  <2>1. /\ pc = "msg" /\ pc' = "serve" /\ todo' = {} /\ admitted' = {}
        /\ UNCHANGED <<disk, pending, buf, open, gate>> /\ ~gate
    BY <1>6 DEF MessageOver, EndMessage
  <2>2. Settled' = Settled
    BY <2>1 DEF Settled, Indexing, Visible
  <2>3. \A n \in Name : pending'[n] = Unindexed(n)'
    BY <1>b, <2>1 DEF Unindexed, Indexing
  <2> QED
    BY <1>2, <1>b, <2>1, <2>2, <2>3 DEF Indexing
<1>7. CASE NextSegment
  <2>1. /\ pc = "next" /\ pc' = "msg" /\ open' = open + 1
        /\ UNCHANGED <<disk, pending, todo, buf, gate>> /\ ~gate
    BY <1>7 DEF NextSegment
  <2>2. Settled' = Settled
    BY <2>1 DEF Settled, Indexing, Visible
  <2>3. \A n \in Name : pending'[n] = Unindexed(n)'
    BY <1>b, <2>1 DEF Unindexed, Indexing
  <2>4. \A n \in Visible : n < open'
    BY <1>a, <1>b, <2>1 DEF Visible
  <2> QED
    BY <1>2, <1>b, <2>1, <2>2, <2>3, <2>4 DEF Indexing
<1>8. CASE DirFsync \/ MarkerFsync
  <2>1. /\ pc \in {"fsync", "marker_fsync"} /\ pc' \in {"marker", "hook"}
        /\ UNCHANGED <<seg, mark, idx, seen, live>> /\ ~gate
    BY <1>8 DEF DirFsync, MarkerFsync
  <2>2. Settled' = Settled
    BY <2>1 DEF Settled, Indexing, Visible
  <2>3. \A n \in Name : pending'[n] = Unindexed(n)'
    BY <1>b, <2>1 DEF Unindexed, Indexing
  <2> QED
    BY <1>2, <1>b, <2>1, <2>2, <2>3 DEF Indexing
<1>9. CASE Publish
  <2>1. /\ pc = "msg" /\ pc' = "fsync" /\ ~gate /\ buf # {} /\ open \in Name
        /\ seg' = [seg EXCEPT ![open] = [ids |-> buf, gen |-> pubs']] /\ buf' = {}
        /\ UNCHANGED <<mark, idx, seen, admitted, pending, todo, open, gate>>
    BY <1>9, <1>b DEF Publish
  <2>2. open \notin Visible
    BY <1>a, <1>b, <2>1
  <2>3. /\ seg'[open] \in Bytes /\ seg'[open] # Missing /\ seg'[open].ids = buf
        /\ \A n \in Name : n # open => seg'[n] = seg[n]
    <3>1. [ids |-> buf, gen |-> pubs'] \in Bytes
      BY <1>0, <1>9 DEF Publish, TypeOK, Bytes
    <3> QED
      BY <1>a, <2>1, <3>1
  <2>4. Settled = Visible /\ Visible' = Visible \cup {open} /\ Settled' = Visible
    BY <2>1, <2>2, <2>3 DEF Settled, Visible, Indexing
  <2>5. /\ \A n \in Visible : n < open' \/ n = open'
        /\ todo' \cap buf' = {} /\ \A n \in Visible' : todo' \cap seg'[n].ids = {}
    BY <1>b, <2>1, <2>2, <2>3, <2>4 DEF Visible
  <2>6. \A n \in Settled' : Verified(n)' /\ idx'[n] = seg'[n]
    BY <2>1, <2>2, <2>3, <2>4, Collecting DEF Verified, Valid
  <2>7. \A n \in Name \ Visible' : idx'[n] = Missing /\ mark'[n] = Missing
    BY <2>1, <2>4, Collecting
  <2>8. seen' = UNION {seg'[n].ids \X {n} : n \in Settled'}
    <3>1. Settled' \subseteq Name /\ \A n \in Settled' : seg'[n] \in Bytes
      BY <2>1, <2>2, <2>3, <2>4, Collecting DEF Visible
    <3>2. \A k \in Ids, n \in Name : <<k, n>> \in seen' <=> n \in Settled' /\ k \in seg'[n].ids
      BY <2>1, <2>2, <2>3, <2>4, Collecting
    <3>3. seen' \subseteq Ids \X Name
      BY <1>a
    <3> QED
      BY <3>1, <3>2, <3>3, SeenIs
  <2>9. \A n \in Name : pending'[n] = Unindexed(n)'
    BY <1>b, <2>1, <2>3 DEF Unindexed, Indexing
  <2> QED
    BY <2>1, <2>3, <2>4, <2>5, <2>6, <2>7, <2>8, <2>9 DEF CollectAgrees, Indexing
<1>10. CASE WriteMarker
  <2>1. /\ pc = "marker" /\ pc' = "marker_fsync" /\ ~gate /\ open \in Name
        /\ mark' = [mark EXCEPT ![open] = seg[open]]
        /\ UNCHANGED <<seg, idx, seen, live>>
    BY <1>10 DEF WriteMarker, PlacesAgree
  <2>2. Settled' = Settled /\ open \notin Settled /\ Visible' = Visible /\ open \in Visible
    BY <1>a, <1>b, <2>1 DEF Settled, Indexing, Visible
  <2>3. \A n \in Settled' : Verified(n)' /\ idx'[n] = seg'[n]
    BY <1>a, <2>1, <2>2, Collecting DEF Verified, Valid
  <2>4. \A n \in Name \ Visible' : idx'[n] = Missing /\ mark'[n] = Missing
    BY <1>a, <2>1, <2>2, Collecting
  <2>5. seen' = UNION {seg'[n].ids \X {n} : n \in Settled'}
    BY <2>1, <2>2 DEF CollectAgrees
  <2>6. \A n \in Name : pending'[n] = Unindexed(n)'
    BY <1>b, <2>1 DEF Unindexed, Indexing
  <2> QED
    BY <1>b, <2>1, <2>2, <2>3, <2>4, <2>5, <2>6 DEF CollectAgrees, Indexing
<1>11. CASE Hook
  <2>1. pc = "hook" /\ ~gate /\ open \in Name
    BY <1>11 DEF Hook, PlacesAgree, Indexing
  <2>2. Verified(open) /\ UNCHANGED <<seg, mark>>
    BY <1>11 DEF Hook, Latch
  <2>3. CASE WriteEvidence(open) /\ UNCHANGED <<pc, live>>
    <3>1. UNCHANGED <<seg, mark, idx, seen, pc, live>>
      BY <2>2, <2>3 DEF WriteEvidence
    <3>2. Settled' = Settled
      BY <3>1 DEF Settled, Indexing, Visible
    <3>3. \A n \in Name : pending'[n] = Unindexed(n)'
      BY <1>b, <2>1, <3>1 DEF Unindexed, Indexing
    <3> QED
      BY <1>2, <1>b, <2>1, <3>1, <3>2, <3>3 DEF Indexing
  <2>4. CASE Commit(open) /\ Release(open) /\ pc' = "next" /\ UNCHANGED <<admitted, todo, buf, open, gate>>
    <3>1. /\ idx' = [idx EXCEPT ![open] = seg[open]] /\ seen' = seen \cup (seg[open].ids \X {open})
          /\ pending' = [pending EXCEPT ![open] = {}]
      BY <2>4 DEF Commit, Release
    <3>2. seg[open] \in Bytes /\ mark[open] = seg[open] /\ open \in Visible /\ buf = {}
      BY <1>a, <1>b, <2>1, <2>2 DEF Verified, Valid, Visible, Indexing
    <3>3. Settled = Visible \ {open} /\ Visible' = Visible /\ Settled' = Visible
      BY <2>1, <2>2, <2>4 DEF Settled, Indexing, Visible
    <3>4. \A n \in Settled' : seg'[n] \in Bytes /\ Verified(n)' /\ idx'[n] = seg'[n]
      BY <1>a, <2>1, <2>2, <3>1, <3>2, <3>3, Collecting DEF Verified, Valid
    <3>5. \A n \in Name \ Visible' : idx'[n] = Missing /\ mark'[n] = Missing
      BY <1>a, <2>1, <2>2, <3>1, <3>2, <3>3, Collecting
    <3>6. seen' = UNION {seg'[n].ids \X {n} : n \in Settled'}
      <4>1. \A k \in Ids, n \in Name : <<k, n>> \in seen <=> n \in Settled /\ k \in seg[n].ids
        BY <2>1, Collecting
      <4>2. \A k \in Ids, n \in Name :
              <<k, n>> \in seen' <=> <<k, n>> \in seen \/ (n = open /\ k \in seg[open].ids)
        BY <3>1
      <4>3. \A k \in Ids, n \in Name : <<k, n>> \in seen' <=> n \in Settled' /\ k \in seg'[n].ids
        BY <2>2, <3>2, <3>3, <4>1, <4>2
      <4>4. Settled' \subseteq Name
        BY <3>3 DEF Visible
      <4>5. seen' \subseteq Ids \X Name /\ \A n \in Settled' : seg'[n] \in Bytes
        BY <1>a, <3>4
      <4> QED
        BY <4>3, <4>4, <4>5, SeenIs
    <3>7. \A n \in Name : pending'[n] = Unindexed(n)'
      BY <1>b, <2>1, <2>4, <3>1, <3>2 DEF Unindexed, Indexing, TypeOK
    <3>8. \A n \in Visible' : todo' \cap seg'[n].ids = {} /\ (n < open' \/ n = open')
      BY <1>b, <2>1, <2>2, <2>4, <3>3
    <3> QED
      BY <1>b, <2>1, <2>4, <3>2, <3>3, <3>4, <3>5, <3>6, <3>7, <3>8 DEF CollectAgrees, Indexing
  <2> QED
    BY <1>11, <2>1, <2>2, <2>3, <2>4 DEF Hook, Latch
<1>12. CASE UNCHANGED vars
  <2>1. UNCHANGED <<seg, mark, idx, seen, pc, live>>
    BY <1>12 DEF vars
  <2>2. Settled' = Settled
    BY <2>1 DEF Settled, Indexing, Visible
  <2>3. \A n \in Name : pending'[n] = Unindexed(n)'
    BY <1>b, <2>1 DEF Unindexed, Indexing
  <2> QED
    BY <1>2, <1>b, <2>1, <2>2, <2>3 DEF Indexing
<1>13. ~Exit
  BY DEF Exit
<1>14. ~(Start \/ Scan \/ Settle \/ ConfirmSync \/ Inspect \/ ConfirmMark \/ ConfirmDone \/ Audit
          \/ Rebuild \/ IndexSegment \/ StartupRaises)
  BY <1>13 DEF Start, Scan, Settle, ConfirmSync, Inspect, ConfirmMark, ConfirmDone, Audit, Rebuild,
     IndexSegment, StartupRaises, Startup
<1>15. ~(WriterFails \/ PublicationFails \/ Kill \/ PowerLoss)
  BY <1>13 DEF WriterFails, PublicationFails, Latch, Kill, PowerLoss
<1>16. \A n \in Name : ~(Remove(n) \/ Damage(n))
  BY DEF Remove, Damage, Harms
<1> QED
  BY <1>1, <1>3, <1>4, <1>5, <1>6, <1>7, <1>8, <1>9, <1>10, <1>11, <1>12, <1>14, <1>15, <1>16
     DEF Next, Reconcile, Collect, Environment
\* Every step keeps the directory's promise: what a marker tells of is durable.
LEMMA MarkerStep ==
  TypeOK /\ PastAgrees /\ PlacesAgree /\ CollectAgrees /\ MarkerMeansDurable /\ [Next]_vars
    => MarkerMeansDurable'
<1> SUFFICES ASSUME TypeOK, PastAgrees, PlacesAgree, CollectAgrees, MarkerMeansDurable, [Next]_vars
             PROVE  MarkerMeansDurable'
  OBVIOUS
<1> USE DEF disk, live, local
<1>0. seg \in [Name -> File] /\ mark \in [Name -> File] /\ Missing \notin Bytes
  BY DedupAssumption DEF TypeOK
<1>1. CASE UNCHANGED <<seg, mark, past>>
  BY <1>1 DEF MarkerMeansDurable, Verified, Valid
<1>2. CASE past' = {Dir'} \/ (past' = {Dir} /\ seg' = seg)
  BY <1>2 DEF MarkerMeansDurable, Dir
<1>3. CASE /\ seg' = seg /\ Unsynced
           /\ (\A n \in Name : Verified(n)' => Verified(n)) \/ \A d \in past : d.seg = seg
  BY <1>3 DEF MarkerMeansDurable, Unsynced, Dir
<1>4. CASE Scan
  <2>1. seg' = seg /\ Unsynced /\ \A n \in Name : mark'[n] = mark[n] \/ mark'[n] = Missing
    BY <1>0, <1>4 DEF Scan, Rename
  <2>2. \A n \in Name : Verified(n)' => Verified(n)
    BY <1>0, <2>1 DEF Verified, Valid
  <2> QED
    BY <1>3, <2>1, <2>2
<1>5. CASE Settle \/ ConfirmSync \/ ConfirmDone \/ DirFsync \/ MarkerFsync
  BY <1>1, <1>2, <1>5 DEF Settle, ConfirmSync, ConfirmDone, DirFsync, MarkerFsync, SyncDir
<1>6. CASE ConfirmMark \/ WriteMarker
  BY <1>3, <1>6 DEF ConfirmMark, WriteMarker, PlacesAgree
<1>7. CASE Publish
  <2>1. pc = "msg" /\ ~gate /\ open \in Name
    BY <1>7 DEF Publish, CollectAgrees, Live
  <2>2. open \notin Visible /\ ~(open < open)
    BY <2>1, Bounds DEF CollectAgrees, Live, Closing, Name
  <2>3. mark[open] = Missing
    BY <2>1, <2>2 DEF CollectAgrees, Live, Visible
  <2>4. mark' = mark /\ past' = past \cup {Dir'} /\ \A n \in Name : n # open => seg'[n] = seg[n]
    BY <1>0, <1>7 DEF Publish, Unsynced
  <2>5. \A n \in Name : Verified(n)' => n # open /\ Verified(n)
    BY <1>0, <2>3, <2>4 DEF Verified, Valid
  <2> QED
    BY <2>4, <2>5 DEF MarkerMeansDurable, Dir
<1>8. CASE PowerLoss
  <2>1. PICK d \in past : seg' = d.seg /\ mark' = d.mark /\ past' = {d}
    BY <1>8 DEF PowerLoss
  <2> QED
    BY <2>1 DEF MarkerMeansDurable
<1>9. ASSUME NEW n \in Name, Remove(n) \/ Damage(n) PROVE MarkerMeansDurable'
  <2>1. past' = {Dir'}
    BY <1>9 DEF Remove, Damage
  <2> QED
    BY <2>1 DEF MarkerMeansDurable, Dir
<1>10. CASE \/ Start \/ Inspect \/ Audit \/ Rebuild \/ IndexSegment \/ Serve \/ StartupRaises
            \/ MessageOver \/ WriterFails \/ Hook \/ PublicationFails \/ NextSegment \/ Kill
            \/ UNCHANGED vars
  BY <1>1, <1>10 DEF Start, Inspect, Audit, Rebuild, IndexSegment, Serve, StartupRaises, MessageOver,
     WriterFails, Hook, PublicationFails, NextSegment, Kill, vars
<1>11. CASE (\E k \in Ids : Write(k) \/ Reject(k)) \/ \E S \in SUBSET Ids : Message(S)
  BY <1>1, <1>11 DEF Write, Reject, Message
<1> QED
  BY <1>4, <1>5, <1>6, <1>7, <1>8, <1>9, <1>10, <1>11 DEF Next, Reconcile, Collect, Environment

\* What is known while the writer takes rows says that the index is exact.
LEMMA IndexFollows == TypeOK /\ CollectAgrees => IndexExact
<1> SUFFICES ASSUME TypeOK, CollectAgrees, pc = "serve", ~gate
             PROVE  /\ \A n \in Name : idx[n] = seg[n] /\ (seg[n] # Missing => mark[n] = seg[n])
                    /\ seen = UNION {seg[n].ids \X {n} : n \in Visible}
  BY DEF IndexExact
<1>1. Settled = Visible /\ pc \in Live
  BY DEF Settled, Indexing, Visible, Live
<1> QED
  BY <1>1, Collecting DEF CollectAgrees, Visible

\* And that an identity is refused if and only if its row is there.
LEMMA RefusalFollows == TypeOK /\ CollectAgrees => RefusesOnlyStored
<1> SUFFICES ASSUME TypeOK, CollectAgrees, pc = "serve", ~gate
             PROVE  Suppressed = buf \cup {k \in Ids : Stored(k) # {}}
  BY DEF RefusesOnlyStored
<1>1. pc \in Live /\ Settled = Visible /\ admitted = {}
  BY DEF CollectAgrees, Live, Settled, Indexing, Visible
<1>2. (UNION {pending[n] : n \in Name}) = buf
  <2>1. \A n \in Name : pending[n] = IF n = open THEN buf ELSE {}
    BY <1>1, Collecting DEF Unindexed, Indexing
  <2>2. buf # {} => open \in Name
    BY <1>1 DEF CollectAgrees
  <2> QED
    BY <2>1, <2>2
<1>3. seen \subseteq Ids \X Name
  BY DEF TypeOK
<1>4. \A k \in Ids, n \in Name : <<k, n>> \in seen <=> n \in Stored(k)
  <2>1. \A n \in Name : n \in Visible <=> seg[n] \in Bytes
    BY <1>1, Collecting, DedupAssumption DEF Visible
  <2> QED
    BY <1>1, <2>1, Collecting DEF Stored
<1>5. {p[1] : p \in seen} = {k \in Ids : Stored(k) # {}}
  <2>1. ASSUME NEW p \in seen PROVE p[1] \in {k \in Ids : Stored(k) # {}}
    <3>1. PICK k \in Ids, n \in Name : p = <<k, n>>
      BY <1>3
    <3> QED
      BY <1>4, <3>1
  <2>2. ASSUME NEW k \in Ids, Stored(k) # {} PROVE k \in {p[1] : p \in seen}
    <3>1. PICK n \in Stored(k) : TRUE
      BY <2>2
    <3>2. n \in Name /\ <<k, n>> \in seen /\ <<k, n>>[1] = k
      BY <1>4, <3>1 DEF Stored
    <3> QED
      BY <3>2
  <2> QED
    BY <2>1, <2>2
<1> QED
  BY <1>1, <1>2, <1>5 DEF Suppressed

\* The invariant holds of the segments an older version left.
LEMMA InitOK == Init => DedupInv
<1> SUFFICES ASSUME Init PROVE DedupInv
  OBVIOUS
<1>1. PICK old \in 0 .. MaxLegacy :
        seg \in {f \in [Name -> [ids : (SUBSET Ids) \ {{}}, gen : {0}] \cup {Missing}] :
                   \A n \in Name : f[n] = Missing <=> n > old}
  BY DEF Init
<1>2. 0 \in 0 .. MaxPubs /\ 0 \in 0 .. MaxFaults /\ 0 \in 0 .. MaxStops /\ 0 \in 0 .. MaxHarm
      /\ 1 \in 1 .. MaxName + 1
  BY Bounds
<1>3. seg \in [Name -> File] /\ Nothing \in [Name -> File] /\ Nobody \in [Name -> SUBSET Ids]
  BY <1>1, <1>2 DEF File, Bytes, Nothing, Nobody
<1>4. /\ mark = Nothing /\ evid = Nothing /\ idx = Nothing /\ seen = {} /\ pc = "down"
      /\ past \in {{Dir}, {Dir, [seg |-> Nothing, mark |-> Nothing]}}
      /\ gate = FALSE /\ diverged = FALSE /\ open = 1 /\ unread = {} /\ confirmed = {}
      /\ admitted = {} /\ todo = {} /\ buf = {} /\ pending = Nobody /\ unmarked = {}
      /\ pubs = 0 /\ faults = 0 /\ stops = 0 /\ harm = 0
  BY DEF Init
<1>5. TypeOK
  <2>1. past \subseteq [seg : [Name -> File], mark : [Name -> File]]
    BY <1>3, <1>4 DEF Dir
  <2> QED
    BY <1>2, <1>3, <1>4, <2>1 DEF TypeOK
<1>6. PastAgrees
  <2>1. \A n \in Name : Nothing[n] \notin Bytes
    BY DedupAssumption DEF Nothing
  <2> QED
    BY <1>4, <2>1 DEF PastAgrees, Dir
<1>7. PlacesAgree /\ StartAgrees /\ CollectAgrees
  BY <1>4 DEF PlacesAgree, StartAgrees, CollectAgrees, Startup, Closing, Indexing, Live
<1>8. MarkerMeansDurable
  BY <1>4, DedupAssumption DEF MarkerMeansDurable, Verified, Valid, Nothing
<1> QED
  BY <1>5, <1>6, <1>7, <1>8, IndexFollows, RefusalFollows DEF DedupInv

\* The invariant of the store, for every number of identities and segments and whatever
\* is lost, torn, damaged or restarted: the index a collector works with is the exact
\* view of its segments, a marker tells of durable bytes, and a trade is refused only
\* when its row is in a segment or in the open one.
THEOREM DedupInvariant == Spec => []DedupInv
<1>1. DedupInv /\ [Next]_vars => DedupInv'
  <2> SUFFICES ASSUME DedupInv, [Next]_vars PROVE DedupInv'
    OBVIOUS
  <2>1. TypeOK' /\ PastAgrees' /\ PlacesAgree' /\ StartAgrees' /\ CollectAgrees' /\ MarkerMeansDurable'
    BY TypeStep, PastStep, PlacesStep, StartStep, CollectStep, MarkerStep DEF DedupInv
  <2>2. IndexExact' /\ RefusesOnlyStored'
    BY <2>1, IndexFollows, RefusalFollows, PTL
  <2> QED
    BY <2>1, <2>2 DEF DedupInv
<1> QED
  BY <1>1, InitOK, PTL DEF Spec
\* An attempt that could not read a marker renames no file, writes no evidence and
\* leaves the index alone (startup_reconcile raises before it acts on unknown evidence).
THEOREM UnreadAlwaysLeavesEvidence == Spec => UnreadLeavesEvidence
<1>1. DedupInv /\ [Next]_vars =>
        [unread # {} /\ stops' = stops => UNCHANGED <<mark, evid, idx, seen>>]_vars
  <2> SUFFICES ASSUME DedupInv, [Next]_vars, unread # {}, stops' = stops
               PROVE  UNCHANGED <<mark, evid, idx, seen>>
    OBVIOUS
  <2>1. pc = "scan" /\ stops \in Int
    BY Bounds DEF DedupInv, PlacesAgree, TypeOK
  <2>2. CASE Scan
    BY <2>2 DEF Scan, ScanRaises
  <2>3. CASE StartupRaises
    BY <2>3 DEF StartupRaises, disk
  <2>4. ~(Kill \/ PowerLoss)
    BY <2>1 DEF Kill, PowerLoss
  <2>5. \A n \in Name : ~(Remove(n) \/ Damage(n))
    BY <2>1 DEF Remove, Damage, Harms
  <2>6. ~(Start \/ Settle \/ ConfirmSync \/ Inspect \/ ConfirmMark \/ ConfirmDone \/ Audit
            \/ Rebuild \/ IndexSegment \/ Serve)
    BY <2>1 DEF Start, Settle, ConfirmSync, Inspect, ConfirmMark, ConfirmDone, Audit, Rebuild,
       IndexSegment, Serve
  <2>7. ~(Collect \/ \E S \in SUBSET Ids : Message(S))
    BY <2>1 DEF Collect, Write, Reject, MessageOver, WriterFails, Publish, DirFsync, WriteMarker,
       MarkerFsync, Hook, PublicationFails, NextSegment, Message
  <2>8. CASE UNCHANGED vars
    BY <2>8 DEF vars, disk
  <2> QED
    BY <2>2, <2>3, <2>4, <2>5, <2>6, <2>7, <2>8 DEF Next, Reconcile, Environment
<1> QED
  BY <1>1, DedupInvariant, PTL DEF Spec, UnreadLeavesEvidence

\* The segments that hold an identity can be counted.
LEMMA StoredFinite ==
  ASSUME NEW k \in Ids
  PROVE  Stored(k) \subseteq Name /\ IsFiniteSet(Stored(k)) /\ Cardinality(Stored(k)) \in Nat
<1>1. IsFiniteSet(Name)
  BY Bounds, FS_Interval DEF Name
<1>2. Stored(k) \subseteq Name
  BY DEF Stored
<1> QED
  BY <1>1, <1>2, FS_Subset, FS_CardinalityType

\* Where every segment that is there was there, no identity is in more segments.
LEMMA LosesOnly ==
  ASSUME buf' = {}, \A n \in Name : seg'[n] \in Bytes => seg'[n] = seg[n]
  PROVE  Once!Lose
<1>1. ASSUME NEW k \in Ids
      PROVE  /\ Cardinality(Stored(k)') \in Nat /\ Cardinality(Stored(k)) \in Nat
             /\ Cardinality(Stored(k)') <= Cardinality(Stored(k))
  <2>1. Stored(k)' \subseteq Stored(k)
    BY DEF Stored
  <2>2. IsFiniteSet(Stored(k)) /\ Cardinality(Stored(k)) \in Nat
    BY StoredFinite
  <2> QED
    BY <2>1, <2>2, FS_Subset, FS_CardinalityType
<1> QED
  BY <1>1 DEF Once!Lose

\* Every step of the store is a step of the promise, or changes nothing it speaks of.
LEMMA OnceStep == DedupInv /\ DedupInv' /\ [Next]_vars => [Once!Next]_(Once!once)
<1> SUFFICES ASSUME DedupInv, DedupInv', [Next]_vars PROVE [Once!Next]_(Once!once)
  OBVIOUS
<1> USE DEF disk, live, local
<1>1. CASE UNCHANGED <<seg, buf>>
  <2>1. \A k \in Ids : Stored(k)' = Stored(k)
    BY <1>1 DEF Stored
  <2> QED
    BY <1>1, <2>1 DEF Once!once
<1>2. CASE UNCHANGED seg /\ buf' = {}
  BY <1>2, LosesOnly DEF Once!Next
<1>3. CASE Exit /\ UNCHANGED seg
  BY <1>2, <1>3 DEF Exit
<1>4. ASSUME NEW k \in Ids, Write(k) PROVE Once!Next
  <2>1. /\ pc = "msg" /\ ~gate /\ k \in todo /\ buf' = buf \cup {k} /\ seg' = seg
    BY <1>4 DEF Write
  <2>2. k \notin buf /\ Stored(k) = {}
    <3>1. CollectAgrees /\ pc \in Live /\ TypeOK
      BY <2>1 DEF DedupInv, Live
    <3>2. \A n \in Visible : k \notin seg[n].ids
      BY <2>1, <3>1 DEF CollectAgrees
    <3> QED
      BY <2>1, <3>1, <3>2, DedupAssumption DEF CollectAgrees, Stored, Visible
  <2>3. Cardinality(Stored(k)) = 0
    BY <2>2, FS_EmptySet
  <2>4. \A m \in Ids : Stored(m)' = Stored(m)
    BY <2>1 DEF Stored
  <2> QED
    BY <2>1, <2>2, <2>3, <2>4 DEF Once!Next, Once!Accept
<1>5. CASE Publish
  <2>1. /\ pc = "msg" /\ ~gate /\ buf # {} /\ buf' = {} /\ pubs' \in 0 .. MaxPubs
        /\ seg' = [seg EXCEPT ![open] = [ids |-> buf, gen |-> pubs']]
    BY <1>5 DEF Publish, DedupInv, TypeOK
  <2>2. open \in Name /\ seg[open] = Missing
    <3>1. CollectAgrees /\ pc \in Live
      BY <2>1 DEF DedupInv, Live
    <3>2. open \in Name /\ ~(open < open)
      BY <2>1, <3>1, Bounds DEF CollectAgrees, Name
    <3> QED
      BY <2>1, <3>1, <3>2 DEF CollectAgrees, Visible, Closing
  <2>3. seg \in [Name -> File] /\ [ids |-> buf, gen |-> pubs'] \in Bytes
    BY <2>1 DEF DedupInv, TypeOK, Bytes
  <2>4. ASSUME NEW k \in Ids
        PROVE  Cardinality(Stored(k)') =
                 IF k \in buf THEN Cardinality(Stored(k)) + 1 ELSE Cardinality(Stored(k))
    <3>1. open \notin Stored(k)
      BY <2>2, DedupAssumption DEF Stored
    <3>2. Stored(k)' = IF k \in buf THEN Stored(k) \cup {open} ELSE Stored(k)
      BY <2>1, <2>2, <2>3, DedupAssumption DEF Stored
    <3> QED
      BY <3>1, <3>2, StoredFinite, FS_AddElement
  <2> QED
    BY <2>1, <2>4 DEF Once!Next, Once!Store
<1>6. CASE PowerLoss
  <2>1. buf' = {}
    BY <1>6 DEF PowerLoss, Exit
  <2>2. \A n \in Name : seg'[n] \in Bytes => seg'[n] = seg[n]
    BY <1>6 DEF PowerLoss, DedupInv, PastAgrees
  <2> QED
    BY <2>1, <2>2, LosesOnly DEF Once!Next
<1>7. ASSUME NEW n \in Name, Remove(n) \/ Damage(n) PROVE [Once!Next]_(Once!once)
  <2>1. buf' = {} /\ buf = {}
    BY <1>7 DEF Remove, Damage, Harms, DedupInv, PlacesAgree
  <2>2. \A m \in Name : seg'[m] \in Bytes => seg'[m] = seg[m]
    BY <1>7, DedupAssumption DEF Remove, Damage, DedupInv, TypeOK
  <2> QED
    BY <2>1, <2>2, LosesOnly DEF Once!Next
<1>8. CASE \/ Start \/ Scan \/ Settle \/ ConfirmSync \/ Inspect \/ ConfirmMark \/ ConfirmDone
           \/ Audit \/ Rebuild \/ IndexSegment \/ Serve \/ StartupRaises \/ Kill
  <2>1. UNCHANGED <<seg, buf>> \/ (Exit /\ UNCHANGED seg)
    BY <1>8 DEF Start, Scan, Settle, ConfirmSync, Inspect, ConfirmMark, ConfirmDone, Audit, Rebuild,
       IndexSegment, Serve, StartupRaises, Kill
  <2> QED
    BY <1>1, <1>3, <2>1
<1>9. CASE \/ MessageOver \/ WriterFails \/ DirFsync \/ WriteMarker \/ MarkerFsync \/ Hook
           \/ PublicationFails \/ NextSegment \/ (\E k \in Ids : Reject(k))
           \/ (\E S \in SUBSET Ids : Message(S)) \/ UNCHANGED vars
  <2>1. UNCHANGED <<seg, buf>> \/ (UNCHANGED seg /\ buf' = {})
    BY <1>9 DEF MessageOver, WriterFails, DirFsync, WriteMarker, MarkerFsync, Hook, Latch,
       PublicationFails, NextSegment, Reject, Message, vars
  <2> QED
    BY <1>1, <1>2, <2>1
<1> QED
  BY <1>4, <1>5, <1>6, <1>7, <1>8, <1>9 DEF Next, Reconcile, Collect, Environment

\* The store implements its promise: a row is accepted only for an identity that no
\* segment of the stream and no row of the open segment has, through every restart,
\* power loss and repair (check_and_admit against what startup_reconcile left).
THEOREM OnceImplemented == Spec => StoredOnce
<1>1. Init => Once!Init
  BY StoredFinite DEF Init, Once!Init
<1> QED
  BY <1>1, OnceStep, DedupInvariant, PTL DEF Spec, StoredOnce, Once!Spec
===========================================================================
