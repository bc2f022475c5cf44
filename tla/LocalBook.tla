----------------------------- MODULE LocalBook -----------------------------
(***************************************************************************)
(* The reconstructed order book of collector/collector/book_engine.py, with *)
(* the continuity comparators and bridge predicates of sequence.py, for the *)
(* two venues whose diffs are buffered until a REST snapshot bridges them.  *)
(*                                                                         *)
(* The venue numbers its updates 1, 2, ...; update i restates the whole    *)
(* quantity of one price level, so what a level holds is represented by    *)
(* the last update that touched it.  A diff covers the updates U .. u; a   *)
(* snapshot is the venue's book at one update id.  A book is a record and  *)
(* each method of LocalBook an operator from a book to what it returns.    *)
(***************************************************************************)
EXTENDS Integers, Sequences, SequencesExt

CONSTANTS MaxBuffer,  \* max_buffer_events
          MaxId,      \* bound: update ids are 1 .. MaxId
          NLevels     \* price levels the venue's updates touch in turn

ASSUME BookAssumption ==
  MaxBuffer \in Nat \ {0} /\ MaxId \in Nat \ {0} /\ NLevels \in Nat \ {0}

Venues == {"BINANCE", "BINANCE_SPOT"}  \* USD-M futures and Spot

Id    == 1 .. MaxId
NoId  == 0
Level == 0 .. NLevels - 1

\* form: whether the levels and the ids of the event are usable.
Diff   == [U : Id, u : Id, pu : Id \cup {NoId}, form : {"ok", "bad_levels", "no_ids"}]
Snap   == [id : Id, good : BOOLEAN]
NoSnap == [id |-> NoId, good |-> FALSE]
NoDiff == [U |-> NoId, u |-> NoId, pu |-> NoId, form |-> "ok"]
States == {"RECOVERING", "VALID", "SEQUENCE_GAP"}

\* The levels after the updates from .. to, each restating its own level.
Restate(levels, from, to) ==
  [l \in Level |-> LET hits == {i \in from .. to : i % NLevels = l}
                   IN IF hits = {} THEN levels[l] ELSE Max(hits)]

Empty == [l \in Level |-> NoId]

\* The venue's own book after update n.
VenueBook[n \in Id] == Restate(Empty, 1, n)

\* prev is the update id of the last event applied, gen the number of
\* committed bridges, pend the snapshot retained because it was ahead.
Fresh(v) ==
  [venue |-> v, state |-> "RECOVERING", prev |-> NoId, levels |-> Empty, buf |-> <<>>,
   over |-> FALSE, pend |-> NoSnap, gen |-> 0]

Book == [venue : Venues, state : States, prev : Id \cup {NoId}, levels : [Level -> Id \cup {NoId}],
         buf : Seq(Diff), over : BOOLEAN, pend : Snap \cup {NoSnap}, gen : Nat]

BookOK(b) == b \in Book /\ Len(b.buf) <= MaxBuffer

\* What the ids of a diff say: the updates it covers, and on USD-M the one before them.
Numbered(v, d) == d.U <= d.u /\ d.pu = IF v = "BINANCE" THEN d.U - 1 ELSE NoId

\* A book that is VALID is the venue's at the last update applied, in a generation
\* that a bridge began; what it buffers is numbered as the venue numbers.
Trusted(b) ==
  /\ BookOK(b) /\ \A i \in DOMAIN b.buf : Numbered(b.venue, b.buf[i])
  /\ b.state = "VALID" => b.prev # NoId /\ b.gen > 0 /\ b.levels = VenueBook[b.prev]

Gap(b)    == [b EXCEPT !.state = "SEQUENCE_GAP"]
Resync(b) == [b EXCEPT !.state = "RECOVERING"]

(***************************************************************************)
(* sequence.py                                                             *)
(***************************************************************************)

\* Mutant: only a diff that goes back is looked at.
CheckMonotonic(v, prev, d) ==
  IF prev = NoId THEN "next" ELSE IF d.form = "no_ids" THEN "gap"
  ELSE IF d.u <= prev THEN "stale" ELSE "next"

\* The comparators: USD-M chains pu to the last u and drops what does not
\* advance u; Spot has no pu, and U must follow the last u.
Check(v, prev, d) ==
  IF prev = NoId THEN "next"
  ELSE IF d.form = "no_ids" THEN "gap"
  ELSE IF v = "BINANCE" /\ d.u <= prev THEN "stale"
  ELSE IF (IF v = "BINANCE" THEN d.pu = prev ELSE d.U = prev + 1) THEN "next" ELSE "gap"

\* Mutant: a diff that begins after the snapshot bridges it.
BridgesLate(v, d, L) == d.u >= L

\* binance_snapshot_bridge, binance_spot_snapshot_bridge.
Bridges(v, d, L) ==
  IF v = "BINANCE" THEN d.U <= L /\ L <= d.u ELSE d.U <= L + 1 /\ L + 1 <= d.u

\* Step 4 of the procedure: which buffered diffs a snapshot leaves standing.
Survives(v, d, L) == IF v = "BINANCE" THEN d.u >= L ELSE d.u > L

(***************************************************************************)
(* LocalBook                                                               *)
(***************************************************************************)

\* _buffer_event: at capacity the chain is given up and the book untrusted;
\* from then on a full buffer drops what arrives.
Buffer(b, d) ==
  IF Len(b.buf) < MaxBuffer THEN [b EXCEPT !.buf = Append(@, d)]
  ELSE IF b.over THEN b
  ELSE [Gap(b) EXCEPT !.buf = <<>>, !.over = TRUE]

\* A row handed to the raw-book writer: the event's ids and the whole book.
Row == [gen : Nat, U : Id, u : Id, pu : Id \cup {NoId}, levels : [Level -> Id \cup {NoId}]]
RowOf(b, d) == [gen |-> b.gen, U |-> d.U, u |-> d.u, pu |-> d.pu, levels |-> b.levels]

\* Restating the diff's levels makes it the last event applied.
Advance(b, d) == [b EXCEPT !.levels = Restate(@, d.U, d.u), !.prev = d.u]

\* apply: the book afterwards, and the row it returns, if it applied.
Apply(b, d) ==
  LET verdict == Check(b.venue, b.prev, d)
      applied == Advance(b, d)
  IN IF b.state # "VALID" \/ b.prev = NoId THEN [book |-> Buffer(b, d), rows |-> <<>>]
     ELSE IF verdict = "gap" THEN [book |-> Buffer(Gap(b), d), rows |-> <<>>]
     ELSE IF verdict = "stale" THEN [book |-> b, rows |-> <<>>]
     ELSE IF d.form = "bad_levels" THEN [book |-> Gap(b), rows |-> <<>>]
     ELSE [book |-> applied, rows |-> <<RowOf(applied, d)>>]

\* One candidate of a bridge joins the chain built so far.
Chain(acc, d) ==
  LET verdict == IF acc.rows = <<>> THEN "next" ELSE Check(acc.book.venue, acc.book.prev, d)
      applied == Advance(acc.book, d)
      seen    == [acc EXCEPT !.candidates = Append(@, d)]
  IN IF acc.broken \/ verdict = "stale" THEN seen
     ELSE IF verdict = "gap" \/ d.form = "bad_levels" THEN [seen EXCEPT !.broken = TRUE]
     ELSE [seen EXCEPT !.book = applied, !.rows = Append(@, RowOf(applied, d))]

\* The chain after each buffered diff, over the venue's book at update L.
Chains(b, L) ==
  LET base == [b EXCEPT !.levels = VenueBook[L], !.prev = NoId, !.gen = @ + 1]
      acc[n \in 0 .. Len(b.buf)] ==
        IF n = 0 THEN [book |-> base, candidates |-> <<>>, rows |-> <<>>, broken |-> FALSE]
        ELSE IF Survives(b.venue, b.buf[n], L) THEN Chain(acc[n - 1], b.buf[n]) ELSE acc[n - 1]
  IN acc

\* _attempt_bridge with retain_if_ahead: the snapshot and the surviving diffs
\* are committed as a whole or not at all.
Attempt(b, snap) ==
  LET chain == Chains(b, snap.id)[Len(b.buf)]
      refuse(book, why) == [book |-> book, rows |-> <<>>, why |-> why]
  IN IF \E i \in DOMAIN b.buf : b.buf[i].form = "no_ids" THEN refuse(b, "malformed_update_ids")
     ELSE IF chain.candidates = <<>>
     THEN refuse([Resync(b) EXCEPT !.pend = snap], "snapshot_ahead_of_buffer")
     ELSE IF ~Bridges(b.venue, chain.candidates[1], snap.id)
     THEN refuse([Resync(b) EXCEPT !.pend = NoSnap], "snapshot_bridge_not_found")
     ELSE IF ~snap.good THEN refuse(Gap(b), "invalid_snapshot")
     ELSE IF chain.broken
     THEN refuse([Gap(b) EXCEPT !.buf = chain.candidates, !.pend = NoSnap], "broken_chain")
     ELSE [book |-> [chain.book EXCEPT !.state = "VALID", !.buf = <<>>, !.over = FALSE,
                                       !.pend = NoSnap],
           rows |-> chain.rows, why |-> "bridged"]

\* retry_pending_snapshot.
Retry(b) ==
  IF b.pend = NoSnap THEN [book |-> b, rows |-> <<>>, why |-> "none"] ELSE Attempt(b, b.pend)

\* invalidate.
Invalidate(b) ==
  [Resync(b) EXCEPT !.prev = NoId, !.buf = <<>>, !.over = FALSE, !.pend = NoSnap]

(***************************************************************************)
(* What rows promise                                                       *)
(***************************************************************************)

\* A row names the update before it (USD-M), or covers the one after the last (Spot).
Continues(row, next) == next.pu = row.u \/ (next.pu = NoId /\ next.U = row.u + 1)

\* Within a recovery generation it must.
Follows(row, next) == row.gen = next.gen => Continues(row, next)
=============================================================================
