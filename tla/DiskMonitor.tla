---------------------------- MODULE DiskMonitor ----------------------------
(***************************************************************************)
(* The free-space monitor of collector/collector/disk_pressure.py: the     *)
(* severity with its hysteresis, the alert that announces an escalation,   *)
(* and the two latches that stop a runner, for confirmed low space and for *)
(* space that nobody could measure.  A monitor is a record.                *)
(***************************************************************************)
EXTENDS Integers, FiniteSets

CONSTANTS Warning, Critical, Emergency,   \* thresholds on the free space
          Hysteresis,                     \* the margin a recovery needs
          Grace,                          \* unknown_grace_s, in polls
          MaxFree                         \* bound: the free space

\* DiskPressureConfig.__post_init__
ASSUME DiskAssumption ==
  /\ {Warning, Critical, Emergency, Hysteresis, MaxFree} \subseteq Nat /\ Grace \in Nat \ {0}
  /\ Warning > Critical /\ Critical > Emergency
  /\ Hysteresis < Warning - Critical /\ Hysteresis < Critical - Emergency

Free       == 0 .. MaxFree
Unmeasured == -1
Severities == 0 .. 3      \* OK, WARNING, CRITICAL, EMERGENCY
NoLevel    == -1

Threshold(severity) ==
  CASE severity = 1 -> Warning [] severity = 2 -> Critical [] severity = 3 -> Emergency

\* classify
Severity(free, margin) ==
  Cardinality({s \in Severities \ {0} : free < Threshold(s) + margin})

\* Mutant: recovery needs no margin.
NextLevelFlapping(level, free) == Severity(free, 0)

\* _next_level: worse at once, better only past the margin.
NextLevel(level, free) ==
  LET raw    == Severity(free, 0)
      sticky == Severity(free, Hysteresis)
  IN  IF level = NoLevel \/ raw >= level THEN raw
      ELSE IF sticky < level THEN sticky ELSE level

Monitor == [level : Severities \cup {NoLevel},
            free : Free \cup {Unmeasured}, unknown : 0 .. Grace + 1,
            emergency : BOOLEAN, unavailable : BOOLEAN, handled : BOOLEAN,
            told : Severities, relieved : SUBSET Severities]

\* told: the severity this poll alerted of (0: none).  relieved, for the record:
\* the severities the free space was clear of since the last alert of them.
NewMonitor == [level |-> NoLevel, free |-> Unmeasured, unknown |-> 0, emergency |-> FALSE,
               unavailable |-> FALSE, handled |-> FALSE, told |-> 0, relieved |-> Severities]

\* The poll measured.
Measured(m, free) ==
  LET new  == NextLevel(m.level, free)
      told == IF new > m.level /\ new > 0 THEN new ELSE 0
  IN  [m EXCEPT !.level = new, !.free = free, !.unknown = 0,
                !.emergency = @ \/ new = 3, !.told = told,
                !.relieved = (@ \cup {s \in Severities \ {0} :
                                        free >= Threshold(s) + Hysteresis}) \ {told}]

\* _record_error: it did not; the grace period runs from the first failure of a row.
Failed(m) ==
  [m EXCEPT !.free = Unmeasured, !.unknown = IF @ > Grace THEN @ ELSE @ + 1, !.told = 0,
            !.unavailable = @ \/ m.unknown >= Grace]

\* _poll
Polls(m) == {Measured(m, free) : free \in Free} \cup {Failed(m)}

\* What a monitor remembers is explained by what it measured: its severity is never
\* better than the measurement nor worse than the margin explains, a severity whose
\* threshold was never cleared since its alert still holds, and space that nobody
\* measured for longer than the grace period is latched.
Explained(m) ==
  /\ m.free # Unmeasured => m.level \in Severity(m.free, 0) .. Severity(m.free, Hysteresis)
  /\ \A s \in Severities \ {0} : s \notin m.relieved => s <= m.level
  /\ m.unknown > Grace => m.unavailable
=============================================================================
