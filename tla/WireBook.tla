------------------------------ MODULE WireBook ------------------------------
(***************************************************************************)
(* The book of collector/collector/book_engine.py for the two venues whose *)
(* stream itself brings the snapshots, Bybit and OKX.                      *)
(*                                                                         *)
(* A message brings the updates from .. to of the venue; u is the number   *)
(* the venue gives the last of them and pu what it says of the one before. *)
(* Bybit begins to count again when its service restarts.  The runners     *)
(* take no notice of a reconnection: the venue's next message is a         *)
(* snapshot.  What LocalBook buffers here is never read, and left out.     *)
(***************************************************************************)
EXTENDS LocalBook

CONSTANTS MaxFaults,  \* bound: messages lost, repeated or damaged
          MaxDrops    \* bound: reconnections and restarts of the venue

VARIABLES
  exchange,   \* "BYBIT" or "OKX"
  head, sent, \* the venue: last update made, last update sent in a message
  base,       \* the update after which it began to count
  owes,       \* its next message is a snapshot
  last,       \* its last message, which it may repeat
  wire,       \* the book
  holed,      \* a message was lost that no snapshot the book took makes good
  faults, drops

venue  == <<head, sent, base, owes, last>>
bounds == <<faults, drops>>
vars   == <<exchange, venue, wire, holed, bounds>>

Missing    == -2   \* an id that the message does not have
NoPrevious == -1   \* prevSeqId of a snapshot

Nothing == [from |-> NoId, to |-> NoId, u |-> NoId, pu |-> NoId, snap |-> FALSE, form |-> "ok"]

\* prev is the u of the last message applied, at the update it reached.
Empties == [state |-> "RECOVERING", prev |-> NoId, at |-> NoId, levels |-> Empty]

Init ==
  /\ exchange \in {"BYBIT", "OKX"} /\ head = 1 /\ sent = 1 /\ base = 0 /\ owes = TRUE
  /\ last = Nothing /\ wire = Empties /\ holed = FALSE /\ faults = 0 /\ drops = 0

Fault == faults < MaxFaults /\ faults' = faults + 1

\* Mutant: OKX's ids are only asked to grow, as Bybit's.
WireCheckGrows(prev, m) ==
  IF Missing \in {m.u, prev} THEN "gap"
  ELSE IF m.u < prev THEN "resync"
  ELSE IF m.u = prev THEN "stale" ELSE "next"

\* The comparators of the two: Bybit promises no more than that u grows, OKX
\* names the message before.
WireCheck(prev, m) ==
  IF exchange = "OKX" THEN IF prev # NoId /\ m.pu = prev THEN "next" ELSE "gap"
  ELSE IF Missing \in {m.u, prev} THEN "gap"
  ELSE IF m.u < prev THEN "resync"
  ELSE IF m.u = prev THEN "stale" ELSE "next"

\* A delta meets a book that is not trusted: Bybit's waits for a snapshot, OKX's too
\* unless nothing was ever applied, and then the comparator refuses the delta.
Discards(b) == b.state # "VALID" /\ (exchange = "BYBIT" \/ b.prev # NoId)

\* apply.
ApplyWire(b, m) ==
  LET levels  == Restate(IF m.snap THEN Empty ELSE b.levels, m.from, m.to)
      applied == [b EXCEPT !.levels = levels, !.prev = m.u, !.at = m.to]
      verdict == WireCheck(b.prev, m)
  IN IF m.snap THEN IF m.form = "bad_levels" THEN Gap(b) ELSE [applied EXCEPT !.state = "VALID"]
     ELSE IF Discards(b) \/ verdict = "stale" THEN b
     ELSE IF verdict = "resync" THEN Resync(b)
     ELSE IF verdict = "gap" \/ m.form = "bad_levels" THEN Gap(b)
     ELSE applied

\* The handler: _apply_orderbook of the Bybit runner.
Handles(m) ==
  /\ last' = m /\ wire' = ApplyWire(wire, m)
  /\ holed' = (holed /\ ~(m.snap /\ wire'.state = "VALID" /\ m.to = sent'))

Update ==
  /\ head < MaxId /\ head' = head + 1
  /\ UNCHANGED <<exchange, sent, base, owes, last, wire, holed, bounds>>

\* The next message of the venue: a snapshot if it owes one.
NextMessage(form) ==
  LET id(n) == IF form = "no_ids" THEN Missing ELSE n - base
  IN [from |-> IF owes THEN 1 ELSE sent + 1, to |-> head, u |-> id(head), snap |-> owes,
      pu |-> IF owes THEN NoPrevious ELSE id(sent), form |-> form]

Due == owes \/ sent < head

MessageArrives ==
  /\ Due /\ sent' = head /\ owes' = FALSE /\ UNCHANGED <<exchange, head, base, drops>>
  /\ \E form \in {"ok", "bad_levels", "no_ids"} :
       /\ Handles(NextMessage(form))
       /\ IF form = "ok" THEN UNCHANGED faults ELSE Fault

MessageLost ==
  /\ Due /\ sent' = head /\ owes' = FALSE /\ holed' = TRUE /\ Fault
  /\ UNCHANGED <<exchange, head, base, last, wire, drops>>

MessageRepeated ==
  /\ last # Nothing /\ UNCHANGED <<exchange, head, sent, base, owes, drops>>
  /\ Handles(last) /\ Fault

\* The client connects again, or Bybit's service restarts and counts from one.
Reconnects ==
  /\ drops < MaxDrops /\ drops' = drops + 1 /\ owes' = TRUE
  /\ base' \in {base} \cup (IF exchange = "BYBIT" THEN {head - 1} ELSE {})
  /\ last' = Nothing /\ UNCHANGED <<exchange, head, sent, wire, holed, faults>>

Next == Update \/ MessageArrives \/ MessageLost \/ MessageRepeated \/ Reconnects

Spec == Init /\ [][Next]_vars

(***************************************************************************)
(* Properties                                                              *)
(***************************************************************************)

TypeOK ==
  /\ exchange \in {"BYBIT", "OKX"} /\ head \in Id /\ sent \in Id /\ base \in Id \cup {0}
  /\ wire.state \in States /\ wire.levels \in [Level -> Id \cup {NoId}]
  /\ owes \in BOOLEAN /\ holed \in BOOLEAN

\* A VALID book is the venue's book at the last message applied, through damaged and
\* repeated messages, reconnections and restarts: for OKX also when messages are lost,
\* as long as the book has an id to compare; Bybit's stream does not show a loss.
WireFaithful ==
  wire.state = "VALID" /\ ~(holed /\ (exchange = "BYBIT" \/ wire.prev = Missing))
    => wire.levels = VenueBook[wire.at]
=============================================================================
