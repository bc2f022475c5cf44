------------------------------ MODULE Coverage ------------------------------
(***************************************************************************)
(* collector/coverage.py: how much of a window a set of observations       *)
(* proves, each of them for a tolerance after it; and the verdict          *)
(* scripts/gap_report.py draws from it.  Times are milliseconds, a window  *)
(* is the half-open interval [from, to).                                   *)
(***************************************************************************)
EXTENDS Integers, FiniteSets, SequencesExt

Null == -1  \* no usable timestamp

\* normalize_observations, of a set of them; the sweep below takes them in order.
Normalized(values) == values \ {Null}

\* The last observation before the window, when it is still fresh as the window opens.
CarriedIn(stamps, from, tolerance) ==
  LET before == {x \in stamps : x < from}
  IN IF before # {} /\ Max(before) + tolerance > from THEN {Max(before)} ELSE {}

Contributing(stamps, from, to, tolerance) ==
  CarriedIn(stamps, from, tolerance) \cup {x \in stamps : from <= x /\ x < to}

\* The evidence of one observation in the window, joined to what came before it.
Span(x, from, to, tolerance) ==
  <<IF x < from THEN from ELSE x, IF x + tolerance < to THEN x + tolerance ELSE to>>

Merge(merged, iv) ==
  LET n == Len(merged)
  IN IF n > 0 /\ iv[1] <= merged[n][2]
     THEN [merged EXCEPT ![n] = <<@[1], IF @[2] < iv[2] THEN iv[2] ELSE @[2]>>]
     ELSE Append(merged, iv)

\* The merged intervals: those of the observations before n, for n up to the window's end.
Evidence(stamps, from, to, tolerance) ==
  LET used == Contributing(stamps, from, to, tolerance)
      merged[n \in 0 .. to] ==
        IF n = 0 THEN <<>>
        ELSE IF n - 1 \in used THEN Merge(merged[n - 1], Span(n - 1, from, to, tolerance))
        ELSE merged[n - 1]
  IN merged[to]

\* What the merged intervals leave of the window.
Gaps(merged, from, to) ==
  LET n         == Len(merged)
      Cursor(i) == IF i = 1 THEN from ELSE merged[i - 1][2]
  IN IF n = 0 THEN {<<from, to, "absent">>}
     ELSE {<<Cursor(i), merged[i][1], IF Cursor(i) = from THEN "leading" ELSE "interior">> :
             i \in {j \in 1 .. n : Cursor(j) < merged[j][1]}}
          \cup (IF merged[n][2] < to THEN {<<merged[n][2], to, "trailing">>} ELSE {})

Milliseconds(merged) ==
  LET covered[i \in 0 .. Len(merged)] ==
        IF i = 0 THEN 0 ELSE covered[i - 1] + (merged[i][2] - merged[i][1])
  IN covered[Len(merged)]

\* CoverageReport, with the status and the trust drawn from it.
Report(values, from, to, tolerance, sources, unreadable) ==
  LET merged  == Evidence(Normalized(values), from, to, tolerance)
      covered == Milliseconds(merged)
  IN [gaps |-> Gaps(merged, from, to), covered |-> covered,
      status |-> IF sources = 0 THEN "no_sources"
                 ELSE IF covered = 0 THEN "absent"
                 ELSE IF covered = to - from THEN "complete" ELSE "partial",
      trusted |-> covered = to - from /\ unreadable = 0]
=============================================================================
