---------------------------- MODULE TradeDedup ----------------------------
(***************************************************************************)
(* The deduplication of one trade stream by segment: what is admitted      *)
(* while collecting, how a published segment enters the persistent index   *)
(* (collector/collector/segment_dedup.py), and how a start makes segments, *)
(* publication markers, evidence files and index agree again               *)
(* (startup_reconcile, with publication.py's confirm_unmarked).            *)
(*                                                                         *)
(* A file is its bytes: the set of identities of its rows, and gen, which  *)
(* tells apart two files of one name.  A marker, an evidence file and an   *)
(* index row hold the bytes they vouch for; Missing and Broken are an      *)
(* absent file and one that does not parse.  past holds the directory      *)
(* states since its last fsync: the journal keeps the order of renames, so *)
(* a power loss leaves one of them.  seen is the index's identity table,   *)
(* idx its table of reconciled segments; a commit is one transaction and   *)
(* synchronous, so neither is lost.                                        *)
(***************************************************************************)
EXTENDS Integers, FiniteSets

CONSTANTS Ids,       \* trade identities
          MaxName,   \* bound: segments are named 1 .. MaxName in order
          MaxLegacy, \* bound: segments written before there were markers
          MaxPubs,   \* bound: segments published
          MaxFaults, \* bound: steps that raise
          MaxStops,  \* bound: kills and power losses
          MaxHarm,   \* bound: files an operator removes or a disk damages
          Missing, Broken

Name == 1 .. MaxName
Bytes == [ids : SUBSET Ids, gen : 0 .. MaxPubs]
File == Bytes \cup {Missing, Broken}

ASSUME DedupAssumption ==
  /\ IsFiniteSet(Ids) /\ {MaxName, MaxLegacy, MaxPubs, MaxFaults, MaxStops, MaxHarm} \subseteq Nat
  /\ MaxLegacy <= MaxName
  /\ Missing # Broken /\ Missing \notin Bytes /\ Broken \notin Bytes

VARIABLES
  seg, mark, past, evid, idx, seen,  \* the stream directory and the index
  pc,         \* the next step of the process, "down" without one
  admitted,   \* admitted, not yet attributed to a segment
  pending,    \* by segment: attributed, not yet indexed
  todo,       \* admitted events of this message still to be written
  buf,        \* identities of the rows of the open segment
  open,       \* the name the open segment will get
  gate,       \* the writer refuses rows: it failed, or a publication did
  unread, confirmed, unmarked, diverged,    \* startup_reconcile's own
  pubs, faults, stops, harm                 \* environment: the budgets

disk   == <<seg, mark, past, evid, idx, seen>>
live   == <<admitted, pending, todo, buf, open, gate>>
local  == <<unread, confirmed, unmarked, diverged>>
budget == <<pubs, faults, stops, harm>>
vars   == <<disk, pc, live, local, budget>>

Startup == {"scan", "settle", "confirm", "inspect", "mark", "audit", "rebuild", "index"}
Closing == {"fsync", "marker", "marker_fsync", "hook", "next"}

TypeOK ==
  /\ {seg, mark, evid, idx} \subseteq [Name -> File] /\ seen \subseteq Ids \X Name
  /\ past \subseteq [seg : [Name -> File], mark : [Name -> File]]
  /\ pc \in {"down", "serve", "msg"} \cup Startup \cup Closing
  /\ admitted \subseteq Ids /\ todo \subseteq Ids /\ buf \subseteq Ids
  /\ pending \in [Name -> SUBSET Ids] /\ open \in 1 .. MaxName + 1
  /\ gate \in BOOLEAN /\ diverged \in BOOLEAN
  /\ unread \subseteq Name /\ confirmed \subseteq Name /\ unmarked \subseteq Name
  /\ pubs \in 0 .. MaxPubs /\ faults \in 0 .. MaxFaults
  /\ stops \in 0 .. MaxStops /\ harm \in 0 .. MaxHarm

(***************************************************************************)
(* Helpers                                                                 *)
(***************************************************************************)

Visible == {n \in Name : seg[n] # Missing}
Nothing == [n \in Name |-> Missing]
Nobody  == [n \in Name |-> {}]
Valid(n) == mark[n] \in Bytes

\* _verified_identities: the marker parses and describes exactly these bytes.
Verified(n) == Valid(n) /\ mark[n] = seg[n]

\* Mutant: only the index is asked.
SuppressedByIndex == {p[1] : p \in seen}

\* What check_and_admit refuses: admitted, pending or indexed.
Suppressed == admitted \cup (UNION {pending[n] : n \in Name}) \cup {p[1] : p \in seen}

First(S) == CHOOSE n \in S : \A m \in S : n <= m

Dir == [seg |-> seg, mark |-> mark]

\* A directory fsync covers every rename made so far.
SyncDir == past' = {Dir}

\* One more rename that no fsync covers.
Unsynced == past' = past \cup {Dir'}

Raises == faults < MaxFaults /\ faults' = faults + 1

\* The process ends and takes its memory with it.
Exit ==
  /\ pc' = "down" /\ gate' = FALSE /\ diverged' = FALSE /\ open' = 1
  /\ admitted' = {} /\ todo' = {} /\ buf' = {} /\ pending' = Nobody
  /\ unread' = {} /\ confirmed' = {} /\ unmarked' = {}

Init ==
  /\ \E old \in 0 .. MaxLegacy :
       seg \in {f \in [Name -> [ids : (SUBSET Ids) \ {{}}, gen : {0}] \cup {Missing}] :
                  \A n \in Name : f[n] = Missing <=> n > old}
  /\ mark = Nothing /\ past \in {{Dir}, {Dir, [seg |-> Nothing, mark |-> Nothing]}}
  /\ evid = Nothing /\ idx = Nothing /\ seen = {}
  /\ pc = "down" /\ gate = FALSE /\ diverged = FALSE /\ open = 1
  /\ admitted = {} /\ todo = {} /\ buf = {} /\ pending = Nobody
  /\ unread = {} /\ confirmed = {} /\ unmarked = {}
  /\ pubs = 0 /\ faults = 0 /\ stops = 0 /\ harm = 0

(***************************************************************************)
(* The index                                                               *)
(***************************************************************************)

\* Something in the index forbids segment n: other bytes under its name, or an
\* identity another segment owns.
Conflicts(n) ==
  \/ idx[n] \notin {Missing, seg[n]}
  \/ idx[n] = Missing /\ \E p \in seen : p[1] \in seg[n].ids

\* _ensure_evidence: an evidence file that is not of these bytes is replaced.
WriteEvidence(n) ==
  /\ evid[n] # seg[n] /\ evid' = [evid EXCEPT ![n] = seg[n]]
  /\ UNCHANGED <<idx, seen>>

\* commit_segment: the row and the identities in one transaction.
Commit(n) ==
  /\ evid[n] = seg[n] /\ UNCHANGED evid
  /\ idx' = [idx EXCEPT ![n] = seg[n]]
  /\ seen' = seen \cup (seg[n].ids \X {n})

(***************************************************************************)
(* startup_reconcile                                                       *)
(***************************************************************************)

\* The process starts: the writer opens the name after the highest one, then
\* attach_segment_dedup runs startup_reconcile.  A marker may be unreadable.
Start ==
  /\ pc = "down" /\ pc' = "scan"
  /\ open' = IF Visible = {} THEN 1 ELSE 1 + CHOOSE n \in Visible : \A m \in Visible : m <= n
  /\ \/ unread' = {} /\ UNCHANGED faults
     \/ Raises /\ \E n \in Visible : mark[n] # Missing /\ unread' = {n}
  /\ UNCHANGED <<disk, admitted, pending, todo, buf, gate, confirmed, unmarked, diverged,
                 pubs, stops, harm>>

\* Mutant: only a segment without a row of its own needs a readable marker.
ScanRaisesIfNew == \E n \in unread : idx[n] = Missing

\* An unreadable marker of a segment ends the attempt before it changes a file.
ScanRaises == unread # {}

\* A segment shorter or longer than its valid marker says.
Corrupt == {n \in Visible : Valid(n) /\ seg[n] = Broken}

\* The markers startup_reconcile renames: unparsable ones of the segments it
\* looks at, and those of no segment.
Preserved(S) == {n \in S : mark[n] = Broken}
Dangling == {n \in Name \ Visible : mark[n] # Missing}

Rename(S) == mark' = [n \in Name |-> IF n \in S THEN Missing ELSE mark[n]]

Scan ==
  /\ pc = "scan"
  /\ IF ScanRaises THEN Exit /\ UNCHANGED mark
     ELSE IF Corrupt # {}
     THEN Exit /\ Rename(Preserved({n \in Visible : n < First(Corrupt)}))
     ELSE /\ Rename(Preserved(Visible) \cup Dangling)
          /\ confirmed' = {n \in Visible : Valid(n)}
          /\ unmarked' = Visible \ confirmed'
          /\ diverged' = \E n \in Dangling : idx[n] # Missing
          /\ pc' = IF mark' = mark THEN "confirm" ELSE "settle"
          /\ UNCHANGED <<live, unread>>
  /\ UNCHANGED <<seg, evid, idx, seen, budget>> /\ Unsynced

Settle ==
  /\ pc = "settle" /\ SyncDir /\ pc' = "confirm"
  /\ UNCHANGED <<seg, mark, evid, idx, seen, live, local, budget>>

\* confirm_unmarked, steps 1 and 2: the files and the directory are synced.
ConfirmSync ==
  /\ pc = "confirm"
  /\ IF unmarked = {} THEN pc' = "audit" /\ UNCHANGED past
                      ELSE pc' = "inspect" /\ SyncDir
  /\ UNCHANGED <<seg, mark, evid, idx, seen, live, local, budget>>

\* Step 3: every segment is read before a marker is written.
Inspect ==
  /\ pc = "inspect"
  /\ IF \E n \in unmarked : seg[n] = Broken
     THEN Exit
     ELSE pc' = "mark" /\ UNCHANGED <<live, local>>
  /\ UNCHANGED <<disk, budget>>

\* Steps 4 and 5: a marker for each, then one directory fsync.
ConfirmMark ==
  /\ pc = "mark" /\ unmarked # {}
  /\ mark' = [mark EXCEPT ![First(unmarked)] = seg[First(unmarked)]]
  /\ confirmed' = confirmed \cup {First(unmarked)}
  /\ unmarked' = unmarked \ {First(unmarked)}
  /\ UNCHANGED <<seg, evid, idx, seen, pc, live, unread, diverged, budget>> /\ Unsynced

ConfirmDone ==
  /\ pc = "mark" /\ unmarked = {} /\ SyncDir /\ pc' = "audit"
  /\ UNCHANGED <<seg, mark, evid, idx, seen, live, local, budget>>

\* _audit_index: why the index is not the exact view of the confirmed segments.
Members(n) == {k \in Ids : <<k, n>> \in seen}
Divergence ==
  \/ \E n \in Name : idx[n] # Missing /\ (n \notin confirmed \/ idx[n] # mark[n])
  \/ \E n \in confirmed : idx[n] = mark[n] /\ Members(n) # mark[n].ids
  \/ \E p \in seen : idx[p[2]] = Missing
  \/ \E p, q \in seen : p[1] = q[1] /\ p[2] # q[2]

\* The evidence files of reconciled segments are repaired from the bytes.
Audit ==
  /\ pc = "audit"
  /\ evid' = [n \in Name |-> IF n \in confirmed /\ idx[n] = mark[n] THEN mark[n] ELSE evid[n]]
  /\ pc' = IF diverged \/ Divergence THEN "rebuild" ELSE "index"
  /\ UNCHANGED <<seg, mark, past, idx, seen, live, local, budget>>

\* Mutant: the rows go and the identities stay.
RebuildKeepsIdentities ==
  /\ pc = "rebuild" /\ pc' = "index" /\ idx' = Nothing
  /\ UNCHANGED <<seg, mark, past, evid, seen, live, local, budget>>

\* rebuild_reset: one transaction.
Rebuild ==
  /\ pc = "rebuild" /\ pc' = "index"
  /\ idx' = Nothing /\ seen' = {}
  /\ UNCHANGED <<seg, mark, past, evid, live, local, budget>>

Unreconciled == {n \in confirmed : idx[n] = Missing}

IndexSegment ==
  /\ pc = "index" /\ Unreconciled # {}
  /\ LET n == First(Unreconciled)
     IN  IF ~Verified(n) \/ Conflicts(n)
         THEN Exit /\ UNCHANGED <<evid, idx, seen>>
         ELSE (WriteEvidence(n) \/ Commit(n)) /\ UNCHANGED <<pc, live, local>>
  /\ UNCHANGED <<seg, mark, past, budget>>

\* The adapter gets the coordinator last: only now trades are normalized.
Serve ==
  /\ pc = "index" /\ Unreconciled = {} /\ pc' = "serve"
  /\ confirmed' = {} /\ diverged' = FALSE
  /\ UNCHANGED <<disk, live, unread, unmarked, budget>>

\* Any step raises: a refused filesystem, an fsync, a read, the database.
StartupRaises ==
  /\ pc \in Startup /\ Raises /\ Exit
  /\ UNCHANGED <<disk, pubs, stops, harm>>

(***************************************************************************)
(* Collecting                                                              *)
(***************************************************************************)

\* _dedupe_trades: the events of one message; one that repeats is dropped.
Message(S) ==
  /\ pc = "serve" /\ pc' = "msg"
  /\ admitted' = S \ Suppressed /\ todo' = admitted'
  /\ UNCHANGED <<disk, pending, buf, open, gate, local, budget>>

\* write: note_written attributes the identity, then the row is buffered.
Write(k) ==
  /\ pc = "msg" /\ k \in todo /\ ~gate /\ open \in Name
  /\ todo' = todo \ {k} /\ admitted' = admitted \ {k} /\ buf' = buf \cup {k}
  /\ pending' = [pending EXCEPT ![open] = @ \cup {k}]
  /\ UNCHANGED <<disk, pc, open, gate, local, budget>>

\* The runner does not write the event.
Reject(k) ==
  /\ pc = "msg" /\ k \in todo /\ todo' = todo \ {k}
  /\ UNCHANGED <<disk, pc, admitted, pending, buf, open, gate, local, budget>>

\* Mutant: what was admitted and never written stays admitted.
EndMessageKeeps == pc' = "serve" /\ todo' = {} /\ UNCHANGED admitted

\* end_message, in the finally of every handler.
EndMessage == pc' = "serve" /\ admitted' = {} /\ todo' = {}

\* The message is through, or the writer refuses the next row.
MessageOver ==
  /\ pc = "msg" /\ (todo = {} \/ gate) /\ EndMessage
  /\ UNCHANGED <<disk, pending, buf, open, gate, local, budget>>

\* The segment could not be written or made durable: the writer is FAILED.
WriterFails ==
  /\ pc = "fsync" \/ (pc = "msg" /\ ~gate /\ buf # {})
  /\ Raises /\ EndMessage /\ gate' = TRUE /\ buf' = {}
  /\ UNCHANGED <<disk, pending, open, local, pubs, stops, harm>>

\* _close_segment: rename, directory fsync, marker, its fsync, the hook.
Publish ==
  /\ pc = "msg" /\ ~gate /\ buf # {} /\ pubs < MaxPubs
  /\ pc' = "fsync" /\ pubs' = pubs + 1
  /\ seg' = [seg EXCEPT ![open] = [ids |-> buf, gen |-> pubs']] /\ buf' = {}
  /\ UNCHANGED <<mark, evid, idx, seen, admitted, pending, todo, open, gate, local,
                 faults, stops, harm>>
  /\ Unsynced

DirFsync ==
  /\ pc = "fsync" /\ SyncDir /\ pc' = "marker"
  /\ UNCHANGED <<seg, mark, evid, idx, seen, live, local, budget>>

WriteMarker ==
  /\ pc = "marker" /\ pc' = "marker_fsync"
  /\ mark' = [mark EXCEPT ![open] = seg[open]]
  /\ UNCHANGED <<seg, evid, idx, seen, live, local, budget>> /\ Unsynced

MarkerFsync ==
  /\ pc = "marker_fsync" /\ SyncDir /\ pc' = "hook"
  /\ UNCHANGED <<seg, mark, evid, idx, seen, live, local, budget>>

\* on_segment_published releases what it has indexed, and only then.
Release(n) == pending' = [pending EXCEPT ![n] = {}]

\* The segment is durable and stays; the writer latches and refuses rows.
Latch == gate' = TRUE /\ pc' = "next" /\ UNCHANGED <<admitted, pending, todo, buf, open>>

Hook ==
  /\ pc = "hook"
  /\ IF ~Verified(open) \/ Conflicts(open)
     THEN Latch /\ UNCHANGED <<evid, idx, seen>>
     ELSE \/ WriteEvidence(open) /\ UNCHANGED <<pc, live>>
          \/ /\ Commit(open) /\ Release(open) /\ pc' = "next"
             /\ UNCHANGED <<admitted, todo, buf, open, gate>>
  /\ UNCHANGED <<seg, mark, past, local, budget>>

\* Writing the marker, the evidence or the index raises.
PublicationFails ==
  /\ pc \in {"marker", "marker_fsync", "hook"} /\ Raises /\ Latch
  /\ UNCHANGED <<disk, local, pubs, stops, harm>>

NextSegment ==
  /\ pc = "next" /\ pc' = "msg" /\ open' = open + 1
  /\ UNCHANGED <<disk, admitted, pending, todo, buf, gate, local, budget>>

(***************************************************************************)
(* Environment                                                             *)
(***************************************************************************)

\* A kill, or the end of the process: what was written stays visible.
Kill ==
  /\ pc # "down" /\ stops < MaxStops /\ stops' = stops + 1 /\ Exit
  /\ UNCHANGED <<disk, pubs, faults, harm>>

\* A power loss: renames no fsync covers may be undone, the last ones first,
\* and an evidence file, which nobody syncs, torn.
PowerLoss ==
  /\ stops < MaxStops /\ stops' = stops + 1 /\ Exit
  /\ \E d \in past : seg' = d.seg /\ mark' = d.mark /\ past' = {d}
  /\ \E torn \in SUBSET {n \in Name : evid[n] \in Bytes} :
       evid' = [n \in Name |-> IF n \in torn THEN Broken ELSE evid[n]]
  /\ UNCHANGED <<idx, seen, pubs, faults, harm>>

Harms ==
  /\ pc = "down" /\ harm < MaxHarm /\ harm' = harm + 1
  /\ UNCHANGED <<pc, live, local, pubs, faults, stops>>

\* quarantine_segment takes the marker along; archiving the .seg leaves it.
Remove(n) ==
  /\ Harms /\ n \in Visible
  /\ seg' = [seg EXCEPT ![n] = Missing]
  /\ mark' \in {mark, [mark EXCEPT ![n] = Missing]}
  /\ past' = {Dir'} /\ UNCHANGED <<evid, idx, seen>>

\* A marker that does not parse any more, a segment of another size, an
\* identity row that disappeared or appeared.
Damage(n) ==
  /\ Harms
  /\ \/ mark[n] \in Bytes /\ mark' = [mark EXCEPT ![n] = Broken] /\ UNCHANGED <<seg, seen>>
     \/ seg[n] \in Bytes /\ seg' = [seg EXCEPT ![n] = Broken] /\ UNCHANGED <<mark, seen>>
     \/ /\ \E k \in Ids : seen' \in {seen \ {<<k, n>>}, seen \cup {<<k, n>>}}
        /\ UNCHANGED <<seg, mark>>
  /\ past' = {Dir'} /\ UNCHANGED <<evid, idx>>

Reconcile ==
  \/ Start \/ Scan \/ Settle \/ ConfirmSync \/ Inspect \/ ConfirmMark \/ ConfirmDone
  \/ Audit \/ Rebuild \/ IndexSegment \/ Serve \/ StartupRaises

Collect ==
  \/ \E k \in Ids : Write(k) \/ Reject(k)
  \/ MessageOver \/ WriterFails \/ Publish \/ DirFsync \/ WriteMarker \/ MarkerFsync
  \/ Hook \/ PublicationFails \/ NextSegment

Environment == Kill \/ PowerLoss \/ \E n \in Name : Remove(n) \/ Damage(n)

Next == Reconcile \/ Collect \/ (\E S \in SUBSET Ids : Message(S)) \/ Environment

Spec == Init /\ [][Next]_vars

\* The unit restarts the process (Restart=always), and a synchronous method
\* runs to its end.
FairSpec == Spec /\ WF_vars(Reconcile) /\ WF_vars(Collect)

(***************************************************************************)
(* Properties                                                              *)
(***************************************************************************)

Stored(k) == {n \in Name : seg[n] \in Bytes /\ k \in seg[n].ids}

\* No trade is stored twice.  Whatever was lost, torn, damaged or restarted, a
\* row is written only for an identity that no visible segment and no row of
\* the open segment has (TradeOnce; check_and_admit against what startup left).
Once == INSTANCE TradeOnce WITH stored <- [k \in Ids |-> Cardinality(Stored(k))], held <- buf
StoredOnce == Once!Spec

\* No trade is suppressed without its row.  Between messages, and while the
\* writer takes rows, what is refused is what the segments and the open
\* segment hold: a rejected, lost or rolled-back trade is taken again.
RefusesOnlyStored ==
  pc = "serve" /\ ~gate => Suppressed = buf \cup {k \in Ids : Stored(k) # {}}

\* The index a collector works with is the exact view of its segments: one row
\* for each with its bytes, its identities owned by it, and every marker valid.
IndexExact ==
  pc = "serve" /\ ~gate =>
    /\ \A n \in Name : idx[n] = seg[n] /\ (seg[n] # Missing => mark[n] = seg[n])
    /\ seen = UNION {seg[n].ids \X {n} : n \in Visible}

\* A marker is evidence of durability: the segment it describes is covered by
\* a directory fsync before the marker can be seen ("marker visibility implies
\* the segment rename is durable", docs/F1_DURABLE_PUBLICATION.md:38).
MarkerMeansDurable == \A n \in Name : Verified(n) => \A d \in past : d.seg[n] = seg[n]

(***************************************************************************)
(* The inductive invariant behind them                                     *)
(***************************************************************************)

Indexing == {"fsync", "marker", "marker_fsync", "hook"}
Live     == {"serve", "msg"} \cup Closing

\* The directory states a power loss may leave: in each a marker tells of the
\* segment beside it, and none holds a segment that the present one does not.
PastAgrees ==
  /\ Dir \in past
  /\ \A d \in past, n \in Name : d.seg[n] \in Bytes =>
       /\ d.seg[n] = seg[n]
       /\ d.mark[n] \in Bytes => d.mark[n] = d.seg[n]

\* Where the process is: what it has in memory, and what it may write next.
PlacesAgree ==
  /\ pc \in {"down"} \cup Startup =>
       ~gate /\ admitted = {} /\ todo = {} /\ buf = {} /\ pending = Nobody
  /\ unread # {} => pc = "scan"
  /\ pc \in Closing => open \in Name
  /\ pc \in Indexing => ~gate
  /\ pc \in {"inspect", "mark", "marker"} => \A d \in past : d.seg = seg

\* The index holds nothing but confirmed segments, each with its identities.
IndexedConfirmed ==
  /\ \A n \in Name : idx[n] # Missing =>
       n \in confirmed /\ idx[n] = mark[n] /\ Members(n) = mark[n].ids
  /\ \A p \in seen : idx[p[2]] # Missing

\* What a start has found out so far.
StartAgrees ==
  /\ pc \in Startup => \A n \in Visible : n < open
  /\ pc \in Startup \ {"scan"} =>
       /\ confirmed \cap unmarked = {} /\ confirmed \cup unmarked = Visible
       /\ \A n \in confirmed : Verified(n)
       /\ \A n \in Name \ Visible : mark[n] = Missing
  /\ pc = "mark" => \A n \in unmarked : seg[n] \in Bytes
  /\ pc \in {"audit", "rebuild", "index"} => unmarked = {}
  /\ pc = "index" => IndexedConfirmed

\* The segment whose publication is under way is not in the index yet.
Settled == Visible \ (IF pc \in Indexing THEN {open} ELSE {})

\* The identities attributed to name n and not indexed under it.
Unindexed(n) ==
  IF n # open THEN {} ELSE IF pc \in Indexing THEN seg[n].ids ELSE buf

\* While the writer takes rows, every settled segment is in the index with its
\* identities, and an identity is in one place: indexed, pending, or new.
CollectAgrees ==
  pc \in Live /\ ~gate =>
    /\ \A n \in Visible : n < open \/ (n = open /\ pc \in Closing)
    /\ \A n \in Settled : Verified(n) /\ idx[n] = seg[n]
    /\ \A n \in Name \ Visible : idx[n] = Missing /\ mark[n] = Missing
    /\ seen = UNION {seg[n].ids \X {n} : n \in Settled}
    /\ pc \in Indexing => seg[open] \in Bytes
    /\ \A n \in Name : pending[n] = Unindexed(n)
    /\ pc \in Closing => buf = {}
    /\ buf # {} => open \in Name
    /\ pc = "serve" => admitted = {} /\ todo = {}
    /\ todo \cap buf = {} /\ \A n \in Visible : todo \cap seg[n].ids = {}

\* Types, the index against the segments, and the two promises built on it: a marker
\* tells of durable bytes and a refused trade has its row (check_and_admit).
DedupInv ==
  /\ TypeOK /\ IndexExact /\ MarkerMeansDurable /\ RefusesOnlyStored
  /\ PastAgrees /\ PlacesAgree /\ StartAgrees /\ CollectAgrees

\* An attempt that could not read a marker changes nothing: no file is
\* renamed, written or re-indexed on unknown evidence.
UnreadLeavesEvidence ==
  [][unread # {} /\ stops' = stops => UNCHANGED <<mark, evid, idx, seen>>]_vars

\* Startup does not loop: unless two segments hold one identity or a segment is
\* damaged, which only an operator can settle, the collector gets to collect.
Obstructed ==
  \/ \E n \in Name : seg[n] = Broken
  \/ \E k \in Ids : Cardinality(Stored(k)) > 1
EventuallyServes == []<>(pc = "serve" \/ Obstructed)
=============================================================================
