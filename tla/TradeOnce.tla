----------------------------- MODULE TradeOnce -----------------------------
(***************************************************************************)
(* What the deduplication of a trade stream promises, whatever the writer, *)
(* the index and the restarts do: a row is accepted only for an identity   *)
(* that no segment of the stream holds and that the open segment does not  *)
(* hold either.  stored[k] counts the segments with a row of identity k;   *)
(* held are the identities of the open segment.                            *)
(***************************************************************************)
EXTENDS Naturals

CONSTANT Ids  \* trade identities

VARIABLES stored, held

once == <<stored, held>>

Init == stored \in [Ids -> Nat] /\ held = {}

Accept(k) ==
  /\ k \notin held /\ stored[k] = 0
  /\ held' = held \cup {k} /\ UNCHANGED stored

\* The open segment becomes a segment of the stream.
Store ==
  /\ stored' = [k \in Ids |-> IF k \in held THEN stored[k] + 1 ELSE stored[k]]
  /\ held' = {}

\* A stop loses the open segment, and a power loss or an operator segments.
Lose ==
  /\ held' = {} /\ stored' \in [Ids -> Nat]
  /\ \A k \in Ids : stored'[k] <= stored[k]

Next == Store \/ Lose \/ \E k \in Ids : Accept(k)

Spec == Init /\ [][Next]_once
=============================================================================
