----------------------- MODULE StandaloneRunnerProofs -----------------------
(***************************************************************************)
(* The standalone runners, proved for every set of thresholds, every grace *)
(* period and every number of failures and events: first the monitor and   *)
(* the failure policy, each for itself, then the runner around them.       *)
(***************************************************************************)
EXTENDS StandaloneRunner, FiniteSetTheorems, TLAPS

(***************************************************************************)
(* The monitor                                                             *)
(***************************************************************************)

\* The severities below whose thresholds the space is are the first so many.
LEMMA SeverityIs ==
  ASSUME NEW free \in Free, NEW margin \in {0, Hysteresis}
  PROVE  Severity(free, margin) = IF free < Emergency + margin THEN 3
                                  ELSE IF free < Critical + margin THEN 2
                                  ELSE IF free < Warning + margin THEN 1 ELSE 0
<1> USE DiskAssumption
<1>1. /\ free \in Nat /\ margin \in Nat /\ Warning \in Nat /\ Critical \in Nat /\ Emergency \in Nat
      /\ Threshold(1) = Warning /\ Threshold(2) = Critical /\ Threshold(3) = Emergency
  BY DEF Free, Threshold
<1> DEFINE S == {s \in Severities \ {0} : free < Threshold(s) + margin}
<1>2. \A s \in S : s \in {1, 2, 3}
  BY DEF Severities
<1>3. /\ 1 \in S <=> free < Warning + margin
      /\ 2 \in S <=> free < Critical + margin
      /\ 3 \in S <=> free < Emergency + margin
  BY <1>1 DEF Severities
<1>4. /\ Cardinality(1 .. 3) = 3 /\ Cardinality(1 .. 2) = 2 /\ Cardinality(1 .. 1) = 1
      /\ Cardinality(1 .. 0) = 0
  <2>1. ASSUME NEW k \in 0 .. 3 PROVE Cardinality(1 .. k) = k
    <3>1. k \in Int /\ 1 \in Int
      OBVIOUS
    <3>2. Cardinality(1 .. k) = IF 1 > k THEN 0 ELSE k - 1 + 1
      BY <3>1, FS_Interval
    <3> QED
      BY <3>2
  <2> QED
    BY <2>1
<1> HIDE DEF S
<1>5. CASE free < Emergency + margin
  <2>1. S = 1 .. 3
    BY <1>1, <1>2, <1>3, <1>5
  <2> QED
    BY <1>4, <1>5, <2>1 DEF Severity, S
<1>6. CASE ~(free < Emergency + margin) /\ free < Critical + margin
  <2>1. S = 1 .. 2
    BY <1>1, <1>2, <1>3, <1>6
  <2> QED
    BY <1>4, <1>6, <2>1 DEF Severity, S
<1>7. CASE ~(free < Emergency + margin) /\ ~(free < Critical + margin) /\ free < Warning + margin
  <2>1. S = 1 .. 1
    BY <1>1, <1>2, <1>3, <1>7
  <2> QED
    BY <1>4, <1>7, <2>1 DEF Severity, S
<1>8. CASE /\ ~(free < Emergency + margin) /\ ~(free < Critical + margin)
           /\ ~(free < Warning + margin)
  <2>1. S = 1 .. 0
    BY <1>1, <1>2, <1>3, <1>8
  <2> QED
    BY <1>4, <1>8, <2>1 DEF Severity, S
<1> QED
  BY <1>5, <1>6, <1>7, <1>8

\* A margin makes it no better, and every threshold not cleared counts.
LEMMA SeverityOrder ==
  ASSUME NEW free \in Free
  PROVE  /\ Severity(free, 0) \in 0 .. 3 /\ Severity(free, Hysteresis) \in 0 .. 3
         /\ Severity(free, 0) <= Severity(free, Hysteresis)
         /\ \A s \in Severities \ {0} :
              ~(free >= Threshold(s) + Hysteresis) => s <= Severity(free, Hysteresis)
<1> USE DiskAssumption
<1>1. /\ free \in Nat /\ Hysteresis \in Nat
      /\ Warning \in Nat /\ Critical \in Nat /\ Emergency \in Nat
      /\ Threshold(1) = Warning /\ Threshold(2) = Critical /\ Threshold(3) = Emergency
  BY DEF Free, Threshold
<1>2. \A s \in Severities \ {0} : s \in {1, 2, 3}
  BY DEF Severities
<1>3. \A s \in {1, 2, 3} :
        ~(free >= Threshold(s) + Hysteresis) => s <= Severity(free, Hysteresis)
  BY <1>1, SeverityIs
<1> QED
  BY <1>1, <1>2, <1>3, SeverityIs

\* The level that is remembered lies between the two, and no severity that still
\* holds by the margin is forgotten.
LEMMA LevelBetween ==
  ASSUME NEW level \in Severities \cup {NoLevel}, NEW free \in Free
  PROVE  LET new == NextLevel(level, free)
         IN /\ new \in Severities
            /\ new \in Severity(free, 0) .. Severity(free, Hysteresis)
            /\ \A s \in Severities \ {0} :
                 s <= level /\ s <= Severity(free, Hysteresis) => s <= new
BY SeverityOrder DEF NextLevel, Severities, NoLevel

\* What one poll does to a monitor.
LEMMA PollDoes ==
  ASSUME NEW m \in Monitor, Explained(m), NEW n \in Polls(m)
  PROVE  /\ n \in Monitor /\ Explained(n) /\ n.handled = m.handled
         /\ n.told # 0 => n.told \in m.relieved
         /\ n.level = 3 /\ n.unknown = 0 => n.emergency
         /\ n.emergency => m.emergency \/ (n.level = 3 /\ n.unknown = 0)
         /\ n.unavailable => m.unavailable \/ n.unknown > Grace
<1>1. Grace \in Nat \ {0}
  BY DiskAssumption
<1>2. /\ m.level \in Severities \cup {NoLevel} /\ m.free \in Free \cup {Unmeasured}
      /\ m.unknown \in 0 .. Grace + 1 /\ m.emergency \in BOOLEAN /\ m.unavailable \in BOOLEAN
      /\ m.handled \in BOOLEAN /\ m.told \in Severities /\ m.relieved \in SUBSET Severities
  BY DEF Monitor
<1>3. CASE n = Failed(m)
  <2> DEFINE u == IF m.unknown > Grace THEN m.unknown ELSE m.unknown + 1
  <2>1. /\ n.level = m.level /\ n.free = Unmeasured /\ n.unknown = u /\ n.told = 0
        /\ n.emergency = m.emergency /\ n.handled = m.handled /\ n.relieved = m.relieved
        /\ n.unavailable <=> m.unavailable \/ m.unknown >= Grace
    BY <1>3 DEF Failed, Monitor
  <2>2. u \in 1 .. Grace + 1 /\ (u > Grace <=> m.unknown >= Grace)
    BY <1>1, <1>2
  <2>3. n \in Monitor
    <3>1. 0 \in Severities /\ Unmeasured \in Free \cup {Unmeasured}
          /\ (m.unavailable \/ m.unknown >= Grace) \in BOOLEAN /\ u \in 0 .. Grace + 1
      BY <2>2 DEF Severities
    <3>2. n = [m EXCEPT !.free = Unmeasured, !.unknown = u, !.told = 0,
                        !.unavailable = m.unavailable \/ m.unknown >= Grace]
      BY <1>3 DEF Failed, Monitor
    <3> HIDE DEF u
    <3> QED
      BY <3>1, <3>2 DEF Monitor
  <2> HIDE DEF u
  <2>4. Explained(n)
    BY <2>1, <2>2 DEF Explained
  <2> QED
    BY <1>1, <1>2, <2>1, <2>2, <2>3, <2>4
<1>4. ASSUME NEW free \in Free, n = Measured(m, free)
      PROVE  /\ n \in Monitor /\ Explained(n) /\ n.handled = m.handled
             /\ n.told # 0 => n.told \in m.relieved
             /\ n.level = 3 /\ n.unknown = 0 => n.emergency
             /\ n.emergency => m.emergency \/ (n.level = 3 /\ n.unknown = 0)
             /\ n.unavailable => m.unavailable \/ n.unknown > Grace
  <2> DEFINE new == NextLevel(m.level, free)
             told == IF new > m.level /\ new > 0 THEN new ELSE 0
             clear == {s \in Severities \ {0} : free >= Threshold(s) + Hysteresis}
             left == (m.relieved \cup clear) \ {told}
  <2>1. /\ n.level = new /\ n.free = free /\ n.unknown = 0 /\ n.told = told
        /\ n.emergency <=> m.emergency \/ new = 3
        /\ n.handled = m.handled /\ n.relieved = left /\ n.unavailable = m.unavailable
    BY <1>4 DEF Measured, Monitor
  <2>2. /\ new \in Severities
        /\ new \in Severity(free, 0) .. Severity(free, Hysteresis)
        /\ \A s \in Severities \ {0} :
             s <= m.level /\ s <= Severity(free, Hysteresis) => s <= new
    BY <1>2, LevelBetween
  <2>3. told \in Severities
    BY <2>2 DEF Severities
  <2>4. left \in SUBSET Severities
    BY <1>2
  <2>5. n \in Monitor
    <3>1. (m.emergency \/ new = 3) \in BOOLEAN /\ 0 \in 0 .. Grace + 1
      BY <1>1
    <3>2. n = [m EXCEPT !.level = new, !.free = free, !.unknown = 0,
                        !.emergency = m.emergency \/ new = 3, !.told = told, !.relieved = left]
      BY <1>4 DEF Measured, Monitor
    <3> HIDE DEF new, told, left
    <3> QED
      BY <2>2, <2>3, <2>4, <3>1, <3>2 DEF Monitor
  <2>6. \A s \in Severities \ {0} : s \notin m.relieved => s <= m.level
    BY DEF Explained
  <2>7. ASSUME NEW s \in Severities \ {0}, s \notin left PROVE s <= new
    <3>1. CASE s = told
      BY <2>2, <2>7, <3>1 DEF Severities
    <3>2. CASE s # told
      <4>1. s <= m.level /\ ~(free >= Threshold(s) + Hysteresis)
        BY <2>6, <2>7, <3>2
      <4> QED
        BY <2>2, <4>1, SeverityOrder
    <3> QED
      BY <3>1, <3>2
  <2>8. told # 0 => told \in m.relieved
    <3>1. ASSUME told # 0 PROVE told = new /\ new > m.level /\ new \in Severities \ {0}
      BY <2>2, <3>1
    <3>2. m.level \in Int /\ new \in Int
      BY <1>2, <2>2 DEF Severities, NoLevel
    <3> QED
      BY <2>6, <3>1, <3>2
  <2> HIDE DEF new, told, clear, left
  <2>9. Explained(n)
    BY <1>1, <2>1, <2>2, <2>7 DEF Explained
  <2> QED
    BY <2>1, <2>5, <2>8, <2>9
<1> QED
  BY <1>3, <1>4 DEF Polls
(***************************************************************************)
(* The failure policy                                                      *)
(***************************************************************************)

\* The policy and the counters of an application, each in agreement with itself.
AppOK(a) ==
  /\ DOMAIN a = DOMAIN NewApp
  /\ a.lost \in Nat /\ a.unconfirmed \in Nat /\ a.gone \in Nat /\ a.unsure \in Nat
  /\ a.degraded \in BOOLEAN /\ a.terminal \in BOOLEAN /\ a.held \in BOOLEAN
  /\ LatchesActed(a) /\ a.lost = a.gone /\ a.unconfirmed = a.unsure

\* What was not stored was latched.
Latching(a) == a.gone + a.unsure > 0 => a.degraded \/ a.held

\* A step of the quality channel: nothing of the policy changes but its degradation.
Keeps(a, d) ==
  /\ AppOK(d) /\ d.isolated = a.isolated /\ d.terminal = a.terminal /\ d.held = a.held
  /\ Latching(a) => Latching(d)

\* The fields of an application.
LEMMA Fields ==
  DOMAIN NewApp = {"failed", "isolated", "degraded", "terminal", "held", "lost",
                   "unconfirmed", "gone", "unsure"}
BY DEF NewApp

\* A verdict and the route it is about, as the classification makes them.
Verdict(exc, record) ==
  \/ record.verdict = "isolate" /\ record.route # None
  \/ record.verdict = "degrade" /\ record.route = None /\ exc.stream = "quality"
  \/ record.verdict = "terminate" /\ record.route = None /\ exc.stream # "quality"

\* Latching a component does what its verdict says, the second time as well.
LEMMA LatchDoes ==
  ASSUME NEW a, AppOK(a), NEW exc, NEW record, Verdict(exc, record),
         NEW d, d = EnterTerminalMode(a, exc, record)
  PROVE  /\ AppOK(d)
         /\ d.isolated = a.isolated
              \cup (IF record.verdict = "isolate" THEN {record.route} ELSE {})
         /\ d.degraded <=> a.degraded \/ record.verdict = "degrade"
         /\ d.terminal <=> a.terminal \/ record.verdict = "terminate"
         /\ d.held = a.held /\ d.lost = a.lost /\ d.unconfirmed = a.unconfirmed
         /\ d.gone = a.gone /\ d.unsure = a.unsure
<1> DEFINE key == <<exc.component, exc.stream, record.route>>
<1>1. key[2] = exc.stream /\ key[3] = record.route
  OBVIOUS
<1>2. CASE key \in a.failed
  <2>1. d = a
    BY <1>2 DEF EnterTerminalMode, Latched, Key
  <2>2. IF record.route # None THEN record.route \in a.isolated
        ELSE IF exc.stream = "quality" THEN a.degraded ELSE a.terminal
    <3>1. IF key[3] # None THEN key[3] \in a.isolated
          ELSE IF key[2] = "quality" THEN a.degraded ELSE a.terminal
      BY <1>2 DEF AppOK, LatchesActed
    <3> QED
      BY <1>1, <3>1
  <2> QED
    BY <2>1, <2>2 DEF Verdict, AppOK
<1>3. CASE key \notin a.failed
  <2>1. /\ d.failed = a.failed \cup {key}
        /\ d.isolated = IF record.verdict = "isolate" THEN a.isolated \cup {record.route}
                        ELSE a.isolated
        /\ d.degraded = (a.degraded \/ record.verdict = "degrade")
        /\ d.terminal = (a.terminal \/ record.verdict = "terminate")
        /\ d.held = a.held /\ d.lost = a.lost /\ d.unconfirmed = a.unconfirmed
        /\ d.gone = a.gone /\ d.unsure = a.unsure /\ DOMAIN d = DOMAIN NewApp
    BY <1>3, Fields DEF AppOK, EnterTerminalMode, Latched, Key
  <2>2. /\ d.degraded <=> a.degraded \/ record.verdict = "degrade"
        /\ d.terminal <=> a.terminal \/ record.verdict = "terminate"
    BY <2>1
  <2>3. LatchesActed(d)
    <3>1. ASSUME NEW k \in d.failed
          PROVE  IF k[3] # None THEN k[3] \in d.isolated
                 ELSE IF k[2] = "quality" THEN d.degraded ELSE d.terminal
      <4>1. CASE k = key
        BY <1>1, <2>1, <2>2, <4>1 DEF Verdict
      <4>2. CASE k \in a.failed
        <5>1. IF k[3] # None THEN k[3] \in a.isolated
              ELSE IF k[2] = "quality" THEN a.degraded ELSE a.terminal
          BY <4>2 DEF AppOK, LatchesActed
        <5> QED
          BY <2>1, <2>2, <5>1
      <4> QED
        BY <2>1, <4>1, <4>2
    <3> QED
      BY <3>1 DEF LatchesActed
  <2>4. d.degraded \in BOOLEAN /\ d.terminal \in BOOLEAN
    BY <2>1
  <2>5. AppOK(d)
    BY <2>1, <2>3, <2>4 DEF AppOK
  <2> QED
    BY <2>1, <2>2, <2>5
<1> QED
  BY <1>2, <1>3

\* Counting events that nobody takes.
LEMMA LoseDoes ==
  ASSUME NEW a, AppOK(a), NEW n \in Nat, NEW d, d = Lose(a, n)
  PROVE  /\ AppOK(d) /\ d.isolated = a.isolated /\ d.terminal = a.terminal /\ d.held = a.held
         /\ d.degraded = a.degraded
<1>1. /\ d.failed = a.failed /\ d.isolated = a.isolated /\ d.terminal = a.terminal
      /\ d.held = a.held /\ d.degraded = a.degraded /\ d.lost = a.lost + n /\ d.gone = a.gone + n
      /\ d.unconfirmed = a.unconfirmed /\ d.unsure = a.unsure /\ DOMAIN d = DOMAIN NewApp
  BY Fields DEF AppOK, Lose
<1> QED
  BY <1>1 DEF AppOK, LatchesActed

\* The record of a write that failed counts the event as the disk has it.
LEMMA AccountDoes ==
  ASSUME NEW a, AppOK(a), NEW stage \in Stages, NEW d, d = Account(Witness(a, stage), stage)
  PROVE  /\ AppOK(d) /\ d.isolated = a.isolated /\ d.terminal = a.terminal /\ d.held = a.held
         /\ d.degraded = a.degraded
<1> DEFINE w == Witness(a, stage)
<1>1. /\ w.failed = a.failed /\ w.isolated = a.isolated /\ w.terminal = a.terminal
      /\ w.held = a.held /\ w.degraded = a.degraded /\ w.lost = a.lost
      /\ w.unconfirmed = a.unconfirmed /\ DOMAIN w = DOMAIN NewApp
      /\ w.gone = IF stage \in {"admit", "rename"} THEN a.gone + 1 ELSE a.gone
      /\ w.unsure = IF stage = "dirsync" THEN a.unsure + 1 ELSE a.unsure
  BY Fields DEF AppOK, Witness
<1> HIDE DEF w
<1>2. Disposition(Evidence(stage)) = IF stage \in {"admit", "rename"} THEN "lost"
                                     ELSE IF stage = "dirsync" THEN "unconfirmed" ELSE "published"
  BY DEF Stages, Evidence, Disposition
<1>3. /\ d.failed = w.failed /\ d.isolated = w.isolated /\ d.terminal = w.terminal
      /\ d.held = w.held /\ d.degraded = w.degraded /\ d.gone = w.gone /\ d.unsure = w.unsure
      /\ DOMAIN d = DOMAIN NewApp
      /\ d.lost = IF stage \in {"admit", "rename"} THEN w.lost + 1 ELSE w.lost
      /\ d.unconfirmed = IF stage = "dirsync" THEN w.unconfirmed + 1 ELSE w.unconfirmed
  BY <1>1, <1>2, Fields DEF Account, w
<1>4. LatchesActed(d)
  BY <1>1, <1>3 DEF AppOK, LatchesActed
<1> QED
  BY <1>1, <1>3, <1>4 DEF AppOK, Stages

\* The quality writer's failure degrades the channel and nothing else.
LEMMA QualityLatchDoes ==
  ASSUME NEW a, AppOK(a), NEW b, b = QualityFails(a, TRUE)
  PROVE  /\ AppOK(b) /\ b.isolated = a.isolated /\ b.terminal = a.terminal /\ b.held = a.held
         /\ b.degraded
<1>1. PICK exc, record : /\ exc = Fatal("parquet_writer", "quality", None)
                         /\ record = Entry("degrade", None)
  OBVIOUS
<1>2. Verdict(exc, record)
  BY <1>1 DEF Verdict, Fatal, Entry
<1>3. PICK c : c = EnterTerminalMode(a, exc, record)
  OBVIOUS
<1>4. /\ AppOK(c)
      /\ c.isolated = a.isolated
           \cup (IF record.verdict = "isolate" THEN {record.route} ELSE {})
      /\ c.degraded <=> a.degraded \/ record.verdict = "degrade"
      /\ c.terminal <=> a.terminal \/ record.verdict = "terminate"
      /\ c.held = a.held
  BY <1>2, <1>3, LatchDoes
<1>5. record.verdict = "degrade"
  BY <1>1 DEF Entry
<1>6. c.isolated = a.isolated /\ c.degraded /\ (c.terminal <=> a.terminal)
  BY <1>4, <1>5
<1>7. b = c
  BY <1>1, <1>3 DEF QualityFails
<1> QED
  BY <1>4, <1>6, <1>7 DEF AppOK

\* Losing events to a channel that failed leaves the policy as it was.
LEMMA LoseKeeps ==
  ASSUME NEW a, AppOK(a), a.degraded \/ a.held, NEW n \in Nat, NEW d, d = Lose(a, n)
  PROVE  Keeps(a, d) /\ (d.degraded \/ d.held)
<1>1. AppOK(d) /\ d.isolated = a.isolated /\ d.terminal = a.terminal /\ d.held = a.held
      /\ d.degraded = a.degraded
  BY LoseDoes
<1>2. d.degraded \/ d.held
  BY <1>1
<1> QED
  BY <1>1, <1>2 DEF Keeps, Latching

\* One event, once the policy exists.
LEMMA PersistDoes ==
  ASSUME NEW a, AppOK(a), NEW how \in Outcomes, NEW d, d = Persist(a, how, TRUE)
  PROVE  Keeps(a, d) /\ (how \in Stages => d.degraded \/ d.held)
<1>1. CASE a.degraded \/ a.held
  <2>1. d = Lose(a, 1) /\ 1 \in Nat
    BY <1>1 DEF Persist
  <2> QED
    BY <1>1, <2>1, LoseKeeps
<1>2. CASE ~(a.degraded \/ a.held) /\ how \in {"stored", "dropped"}
  <2>1. d = a /\ how \notin Stages
    BY <1>2 DEF Persist, Stages
  <2> QED
    BY <2>1 DEF Keeps
<1>3. CASE ~(a.degraded \/ a.held) /\ how \in Stages
  <2>1. PICK b : b = QualityFails(a, TRUE)
    OBVIOUS
  <2>2. d = Account(Witness(b, how), how)
    BY <1>3, <2>1 DEF Persist, Stages
  <2>3. /\ AppOK(b) /\ b.isolated = a.isolated /\ b.terminal = a.terminal /\ b.held = a.held
        /\ b.degraded
    BY <2>1, QualityLatchDoes
  <2>4. AppOK(b)
    BY <2>3
  <2>5. AppOK(d) /\ d.isolated = b.isolated /\ d.terminal = b.terminal /\ d.held = b.held
        /\ d.degraded = b.degraded
    BY <1>3, <2>2, <2>4, AccountDoes
  <2>6. d.degraded
    BY <2>3, <2>5
  <2> QED
    BY <2>3, <2>5, <2>6 DEF Keeps, Latching
<1>4. how \in {"stored", "dropped"} \/ how \in Stages
  BY DEF Outcomes
<1> QED
  BY <1>1, <1>2, <1>3, <1>4

\* So many of them.
LEMMA PersistRowDoes ==
  ASSUME NEW a, AppOK(a), NEW n \in Nat, NEW d \in PersistRow(a, n, TRUE)
  PROVE  Keeps(a, d)
<1>1. CASE a.degraded \/ a.held
  <2>1. PersistRow(a, n, TRUE) = {Lose(a, n)}
    BY <1>1 DEF PersistRow
  <2>2. d = Lose(a, n)
    BY <2>1
  <2> QED
    BY <1>1, <2>2, LoseKeeps
<1>2. CASE ~(a.degraded \/ a.held)
  <2>0. PersistRow(a, n, TRUE) =
          {a} \cup {Lose(Persist(a, met[1], TRUE), met[2]) : met \in Stages \X (0 .. n - 1)}
    BY <1>2 DEF PersistRow
  <2>1. CASE d = a
    BY <2>1 DEF Keeps
  <2>2. ASSUME NEW stage \in Stages, NEW m \in 0 .. n - 1, d = Lose(Persist(a, stage, TRUE), m)
        PROVE  Keeps(a, d)
    <3>0. PICK b : b = Persist(a, stage, TRUE)
      OBVIOUS
    <3>1. Keeps(a, b) /\ (b.degraded \/ b.held)
      BY <3>0, PersistDoes DEF Outcomes
    <3>2. AppOK(b) /\ m \in Nat /\ d = Lose(b, m)
      <4>1. m \in Nat
        OBVIOUS
      <4>2. d = Lose(b, m)
        BY <2>2, <3>0
      <4> QED
        BY <3>1, <4>1, <4>2 DEF Keeps
    <3>3. Keeps(b, d) /\ (d.degraded \/ d.held)
      BY <3>1, <3>2, LoseKeeps
    <3> QED
      BY <3>1, <3>3 DEF Keeps, Latching
  <2>3. CASE d # a
    <3>1. PICK met \in Stages \X (0 .. n - 1) : d = Lose(Persist(a, met[1], TRUE), met[2])
      BY <2>0, <2>3
    <3> QED
      BY <2>2, <3>1
  <2> QED
    BY <2>1, <2>3
<1> QED
  BY <1>1, <1>2
(***************************************************************************)
(* The runner's tables                                                     *)
(***************************************************************************)

\* The routes of the parts, and what is no part of any runner.
LEMMA PartsAre ==
  ASSUME NEW v \in {"BYBIT", "OKX", "BINANCE_SPOT"}
  PROVE  /\ DOMAIN Parts(v) = DOMAIN Derived(v) \cup DOMAIN Indexes(v)
         /\ DOMAIN Derived(v) \cap {"raw", "unlisted", "quality", "trades", "dedup", "dedup_all",
                                    "raw_wire", "raw_rest"} = {}
         /\ DOMAIN Indexes(v) \subseteq {"dedup", "dedup_all"}
         /\ \A p \in DOMAIN Parts(v) :
              Parts(v)[p] = IF p \in DOMAIN Indexes(v) THEN Indexes(v)[p] ELSE Derived(v)[p]
         /\ \A p \in DOMAIN Parts(v) : Parts(v)[p] # None
<1>1. /\ DOMAIN Parts(v) = DOMAIN Derived(v) \cup DOMAIN Indexes(v)
      /\ \A p \in DOMAIN Parts(v) :
           Parts(v)[p] = IF p \in DOMAIN Indexes(v) THEN Indexes(v)[p] ELSE Derived(v)[p]
  BY DEF Parts
<1>2. CASE v = "BYBIT"
  <2>1. /\ DOMAIN Derived(v) = {"bybit_orderbook", "bybit_trades", "bybit_markprice",
                                "bybit_openinterest", "bybit_liquidation"}
        /\ DOMAIN Indexes(v) = {"dedup"} /\ Indexes(v)["dedup"] # None
        /\ \A p \in DOMAIN Derived(v) : Derived(v)[p] # None
    BY <1>2 DEF Derived, Indexes, None
  <2> QED
    BY <1>1, <2>1
<1>3. CASE v = "OKX"
  <2>1. /\ DOMAIN Derived(v) = {"okx_trades", "okx_trades_all", "okx_markprice", "okx_indextickers",
                                "okx_fundingrate", "okx_openinterest", "okx_liquidation"}
        /\ DOMAIN Indexes(v) = {"dedup", "dedup_all"}
        /\ Indexes(v)["dedup"] # None /\ Indexes(v)["dedup_all"] # None
        /\ \A p \in DOMAIN Derived(v) : Derived(v)[p] # None
    BY <1>3 DEF Derived, Indexes, None
  <2> QED
    BY <1>1, <2>1
<1>4. CASE v = "BINANCE_SPOT"
  <2>1. /\ DOMAIN Derived(v) = {"spot_trades", "spot_orderbook_raw"}
        /\ DOMAIN Indexes(v) = {"dedup"} /\ Indexes(v)["dedup"] # None
        /\ \A p \in DOMAIN Derived(v) : Derived(v)[p] # None
    BY <1>4 DEF Derived, Indexes, None
  <2> QED
    BY <1>1, <2>1
<1> QED
  BY <1>2, <1>3, <1>4

\* What the table says of the streams.
LEMMA TableSays ==
  ASSUME NEW v \in {"BYBIT", "OKX", "BINANCE_SPOT"}
  PROVE  /\ DOMAIN Table(v) = {"quality", "trades"} \cup DOMAIN Derived(v) \cup Raw(v)
         /\ Table(v)["trades"].verdict = "isolate"
         /\ \A s \in DOMAIN Derived(v) : Table(v)[s].verdict = "isolate"
<1>1. Raw(v) \subseteq {"raw_wire", "raw_rest"}
  BY DEF Raw
<1>2. Table(v) =
        [s \in {"quality"} \cup DOMAIN Derived(v) \cup Raw(v) \cup {"trades"} |->
          IF s \in {"quality"} THEN Entry("degrade", None)
          ELSE IF s \in DOMAIN Derived(v) THEN Entry("isolate", Derived(v)[s])
          ELSE IF s \in Raw(v) THEN Entry("terminate", None) ELSE Entry("isolate", "trades")]
  BY DEF Table, StreamTable, None
<1> QED
  BY <1>1, <1>2, PartsAre DEF Entry

\* A part that failed cuts off its own route, whatever the generic name it failed under.
LEMMA RaisedIsolates ==
  ASSUME venue \in {"BYBIT", "OKX", "BINANCE_SPOT"}, NEW p \in DOMAIN Parts(venue),
         NEW origin \in {"handler", "route:orderbook"}
  PROVE  Record(Table(venue), Raised(p), origin) = Entry("isolate", Parts(venue)[p])
<1>1. PICK exc : exc = Raised(p)
  OBVIOUS
<1>2. exc.tag = Parts(venue)[p] /\ exc.tag # None
  BY <1>1, PartsAre DEF Raised, Fatal
<1>3. exc.stream \in DOMAIN Table(venue) /\ Table(venue)[exc.stream].verdict = "isolate"
  BY <1>1, PartsAre, TableSays DEF Raised, Fatal
<1>4. Classify(Table(venue), exc, origin) = Table(venue)[exc.stream]
  BY <1>3 DEF Classify, Forced
<1> QED
  BY <1>1, <1>2, <1>3, <1>4 DEF Record

\* Evidence that was lost, and what nobody listed, terminates.
LEMMA RestTerminates ==
  ASSUME venue \in {"BYBIT", "OKX", "BINANCE_SPOT"}, NEW exc, NEW origin,
         origin \in Forced \/ exc = Unlisted
  PROVE  Record(Table(venue), exc, origin) = Entry("terminate", None)
<1>1. Classify(Table(venue), exc, origin) = Entry("terminate", None)
  <2>1. CASE origin \in Forced
    BY <2>1 DEF Classify
  <2>2. CASE exc = Unlisted
    <3>1. exc.stream = "unlisted"
      BY <2>2 DEF Unlisted, Fatal
    <3>2. "unlisted" \notin DOMAIN Table(venue)
      BY PartsAre, TableSays DEF Raw
    <3> QED
      BY <3>1, <3>2 DEF Classify
  <2> QED
    BY <2>1, <2>2
<1> QED
  BY <1>1 DEF Record, Entry

\* One failure, told to the policy: what it cuts off, and that it stays in order.
After(a, d, cut, ends) ==
  /\ AppOK(d) /\ Latching(d) /\ d.isolated = a.isolated \cup cut /\ d.held = a.held
  /\ d.terminal <=> a.terminal \/ ends

\* What on_fatal leaves, by the verdict of its record.
LEMMA OnFatalDoes ==
  ASSUME NEW a, AppOK(a), Latching(a), NEW table, NEW exc, NEW origin, NEW how \in Outcomes,
         NEW record, record = Record(table, exc, origin), Verdict(exc, record),
         record.verdict # "degrade", NEW d, d = OnFatal(a, table, exc, origin, how)
  PROVE  After(a, d, IF record.verdict = "isolate" THEN {record.route} ELSE {},
               record.verdict = "terminate")
<1>1. PICK b : b = EnterTerminalMode(a, exc, record)
  OBVIOUS
<1>2. /\ AppOK(b)
      /\ b.isolated = a.isolated
           \cup (IF record.verdict = "isolate" THEN {record.route} ELSE {})
      /\ b.degraded <=> a.degraded \/ record.verdict = "degrade"
      /\ b.terminal <=> a.terminal \/ record.verdict = "terminate"
      /\ b.held = a.held /\ b.gone = a.gone /\ b.unsure = a.unsure
  BY <1>1, LatchDoes
<1>3. Latching(b)
  BY <1>2 DEF Latching
<1>4. d = b \/ d = Persist(b, how, TRUE)
  BY <1>1 DEF OnFatal
<1>5. AppOK(d) /\ Latching(d) /\ d.isolated = b.isolated /\ d.terminal = b.terminal
      /\ d.held = b.held
  <2>1. CASE d = b
    BY <1>2, <1>3, <2>1
  <2>2. CASE d = Persist(b, how, TRUE)
    <3>1. Keeps(b, d)
      BY <1>2, <2>2, PersistDoes
    <3> QED
      BY <1>3, <3>1 DEF Keeps
  <2> QED
    BY <1>4, <2>1, <2>2
<1> QED
  BY <1>2, <1>5 DEF After
\* The constructor's events, before there is a policy to latch.
LEMMA RowBeforePolicy ==
  ASSUME NEW n \in Nat, NEW d \in PersistRow(NewApp, n, FALSE)
  PROVE  AppOK(d) /\ Latching(d) /\ d.isolated = {} /\ ~d.terminal
<1>1. AppOK(NewApp) /\ Latching(NewApp) /\ NewApp.isolated = {} /\ ~NewApp.terminal
      /\ ~NewApp.degraded /\ ~NewApp.held
  BY DEF NewApp, AppOK, Latching, LatchesActed
<1>2. PersistRow(NewApp, n, FALSE) =
        {NewApp} \cup
          {Lose(Persist(NewApp, met[1], FALSE), met[2]) : met \in Stages \X (0 .. n - 1)}
  BY <1>1 DEF PersistRow
<1>3. CASE d = NewApp
  BY <1>1, <1>3
<1>4. CASE d # NewApp
  <2>1. PICK met \in Stages \X (0 .. n - 1) : d = Lose(Persist(NewApp, met[1], FALSE), met[2])
    BY <1>2, <1>4
  <2>2. PICK how, m, b, h : /\ how = met[1] /\ m = met[2] /\ h = [NewApp EXCEPT !.held = TRUE]
                            /\ b = Account(Witness(h, how), how)
    OBVIOUS
  <2>3. how \in Stages /\ m \in Nat
    BY <2>2
  <2>4. Persist(NewApp, how, FALSE) = b
    BY <1>1, <2>2, <2>3 DEF Persist, QualityFails, Stages
  <2>5. AppOK(h) /\ h.isolated = {} /\ ~h.terminal /\ h.held
    BY <2>2 DEF NewApp, AppOK, LatchesActed
  <2>6. AppOK(b) /\ b.isolated = h.isolated /\ b.terminal = h.terminal /\ b.held = h.held
    <3>1. AppOK(h) /\ how \in Stages
      BY <2>3, <2>5
    <3>2. b = Account(Witness(h, how), how)
      BY <2>2
    <3> QED
      BY <3>1, <3>2, AccountDoes
  <2>7. d = Lose(b, m)
    BY <2>1, <2>2, <2>4
  <2>8. AppOK(d) /\ d.isolated = b.isolated /\ d.terminal = b.terminal /\ d.held = b.held
    BY <2>3, <2>6, <2>7, LoseDoes
  <2> QED
    BY <2>5, <2>6, <2>8 DEF Latching
<1> QED
  BY <1>3, <1>4

\* The failure that was held is latched when the policy exists.
LEMMA AdoptHeldDoes ==
  ASSUME NEW a, AppOK(a), Latching(a), a.isolated = {}, ~a.terminal, NEW d, d = AdoptHeld(a)
  PROVE  AppOK(d) /\ Latching(d) /\ d.isolated = {} /\ ~d.terminal /\ ~d.held
<1>1. CASE ~a.held
  BY <1>1 DEF AdoptHeld
<1>2. CASE a.held
  <2>1. PICK b : b = QualityFails(a, TRUE)
    OBVIOUS
  <2>2. AppOK(b) /\ b.isolated = a.isolated /\ b.terminal = a.terminal /\ b.degraded
    BY <2>1, QualityLatchDoes
  <2>3. d = [b EXCEPT !.held = FALSE]
    BY <1>2, <2>1 DEF AdoptHeld
  <2>4. /\ d.failed = b.failed /\ d.isolated = b.isolated /\ d.degraded = b.degraded
        /\ d.terminal = b.terminal /\ d.held = FALSE /\ d.lost = b.lost /\ d.gone = b.gone
        /\ d.unconfirmed = b.unconfirmed /\ d.unsure = b.unsure /\ DOMAIN d = DOMAIN NewApp
    BY <2>2, <2>3, Fields DEF AppOK
  <2> QED
    BY <2>2, <2>4 DEF AppOK, Latching, LatchesActed
<1> QED
  BY <1>1, <1>2

(***************************************************************************)
(* The invariant                                                           *)
(***************************************************************************)

\* The record of the runner, what it cuts off and the status it leaves, together.
IInv == RunnerInv /\ IsolatesTheBroken /\ ExitTellsTheTruth

\* The application of a runner that lives.
LEMMA Alive ==
  ASSUME IInv
  PROVE  /\ venue \in {"BYBIT", "OKX", "BINANCE_SPOT"} /\ AppOK(app)
         /\ pc \notin {"boot", "exited"} => Latching(app) /\ ~app.held
<1>1. venue \in {"BYBIT", "OKX", "BINANCE_SPOT"}
  BY RunnerAssumption DEF IInv, RunnerInv, TypeOK
<1>2. AppOK(app)
  BY DEF IInv, RunnerInv, TypeOK, CountersHonest, AppOK
<1>3. pc \notin {"boot", "exited"} => Latching(app) /\ ~app.held
  BY DEF IInv, RunnerInv, EndTells, NothingHeldBack, Latching
<1> QED
  BY <1>1, <1>2, <1>3

\* What the invariant asks of the application that a step leaves.
LEMMA AppLeft ==
  ASSUME AppOK(app'), Latching(app'), app'.held => "unbuilt" \in seen'
  PROVE  /\ DOMAIN app' = DOMAIN NewApp
         /\ {app'.lost, app'.unconfirmed, app'.gone, app'.unsure} \subseteq Nat
         /\ {app'.degraded, app'.terminal, app'.held} \subseteq BOOLEAN
         /\ CountersHonest' /\ LatchesActed(app') /\ NothingHeldBack'
BY DEF AppOK, Latching, CountersHonest, NothingHeldBack

\* A component of the running application fails.
LEMMA FailureStep ==
  ASSUME IInv, Ingesting, Quiet, NEW part \in DOMAIN Parts(venue) \cup {"raw", "unlisted"},
         dead' = dead \cup {part}, NEW ends \in BOOLEAN,
         ends <=> part \notin DOMAIN Parts(venue),
         seen' = seen \cup (IF ends THEN {"evidence"} ELSE {}),
         After(app, app', IF ends THEN {} ELSE {Parts(venue)[part]}, ends)
  PROVE  IInv'
<1>1. /\ venue' = venue /\ pc' = pc /\ pc = "running" /\ task' = task /\ stop' = stop
      /\ disk' = disk /\ verdicts' = verdicts /\ events' = events /\ crashed' = crashed
      /\ status' = status
  BY DEF Quiet, life, Ingesting
<1>2. AppOK(app') /\ Latching(app') /\ ~app'.held /\ (app'.terminal <=> app.terminal \/ ends)
      /\ app'.isolated = app.isolated \cup (IF ends THEN {} ELSE {Parts(venue)[part]})
  BY <1>1, Alive DEF After
<1>3. /\ DOMAIN app' = DOMAIN NewApp
      /\ {app'.lost, app'.unconfirmed, app'.gone, app'.unsure} \subseteq Nat
      /\ {app'.degraded, app'.terminal, app'.held} \subseteq BOOLEAN
      /\ CountersHonest' /\ LatchesActed(app') /\ NothingHeldBack'
  BY <1>2, AppLeft
<1>4. TypeOK'
  <2>1. TypeOK
    BY DEF IInv, RunnerInv
  <2>2. IsFiniteSet(dead')
    BY <2>1, FS_AddElement DEF TypeOK
  <2>3. dead' \subseteq DOMAIN Parts(venue) \cup {"raw", "unlisted"}
    BY <2>1 DEF TypeOK
  <2>4. seen' \subseteq {"unbuilt", "evidence", "crash", "signal", "emergency", "unmeasured"}
    BY <2>1 DEF TypeOK
  <2> QED
    BY <1>1, <1>3, <2>1, <2>2, <2>3, <2>4 DEF TypeOK
<1>5. Unbuilt' /\ Explained(disk') /\ VerdictsTell' /\ EndTells'
  <2>1. VerdictsTell /\ EndTells /\ Explained(disk)
    BY DEF IInv, RunnerInv
  <2>2. \A e : e # "evidence" => (e \in seen' <=> e \in seen)
    OBVIOUS
  <2>3. VerdictsTell'
    BY <1>1, <2>1, <2>2 DEF VerdictsTell
  <2>4. EndTells'
    BY <1>1, <1>2, <2>1, <2>2 DEF EndTells
  <2>5. Unbuilt' /\ Explained(disk')
    BY <1>1, <2>1 DEF Unbuilt, Explained
  <2> QED
    BY <2>3, <2>4, <2>5
<1>6. IsolatesTheBroken'
  <2>1. /\ app.isolated = {Parts(venue)[p] : p \in dead \cap DOMAIN Parts(venue)}
        /\ app.terminal <=> "evidence" \in seen
    BY <1>1 DEF IInv, IsolatesTheBroken
  <2>2. app'.isolated = {Parts(venue)[p] : p \in dead' \cap DOMAIN Parts(venue)}
    BY <1>2, <2>1
  <2>3. app'.terminal <=> "evidence" \in seen'
    BY <1>2, <2>1
  <2> QED
    BY <1>1, <2>2, <2>3 DEF IsolatesTheBroken
<1>7. ExitTellsTheTruth'
  BY <1>1 DEF ExitTellsTheTruth
<1> QED
  BY <1>3, <1>4, <1>5, <1>6, <1>7 DEF IInv, RunnerInv
\* A part's failure, as the policy hears of it.
LEMMA PartTold ==
  ASSUME venue \in {"BYBIT", "OKX", "BINANCE_SPOT"}, NEW a, AppOK(a), Latching(a),
         NEW p \in DOMAIN Parts(venue), NEW origin \in {"handler", "route:orderbook"},
         NEW how \in Outcomes, NEW d, d = OnFatal(a, Table(venue), Raised(p), origin, how)
  PROVE  After(a, d, {Parts(venue)[p]}, FALSE)
<1>1. PICK exc, table, record : /\ exc = Raised(p) /\ table = Table(venue)
                                /\ record = Record(table, exc, origin)
  OBVIOUS
<1>2. record.verdict = "isolate" /\ record.route = Parts(venue)[p] /\ record.route # None
  BY <1>1, RaisedIsolates, PartsAre DEF Entry
<1>3. Verdict(exc, record) /\ record.verdict # "degrade"
  BY <1>2 DEF Verdict
<1>4. PICK e : e = OnFatal(a, table, exc, origin, how)
  OBVIOUS
<1>5. After(a, e, IF record.verdict = "isolate" THEN {record.route} ELSE {},
               record.verdict = "terminate")
  BY <1>1, <1>3, <1>4, OnFatalDoes
<1>6. d = e
  BY <1>1, <1>4
<1> QED
  BY <1>2, <1>5, <1>6 DEF After

\* The failure of what holds the raw evidence, or of nobody knows what.
LEMMA RestTold ==
  ASSUME venue \in {"BYBIT", "OKX", "BINANCE_SPOT"}, NEW a, AppOK(a), Latching(a),
         NEW exc, exc.stream # "quality", NEW origin, origin \in Forced \/ exc = Unlisted,
         NEW how \in Outcomes, NEW d, d = OnFatal(a, Table(venue), exc, origin, how)
  PROVE  After(a, d, {}, TRUE)
<1>1. PICK table, record : table = Table(venue) /\ record = Record(table, exc, origin)
  OBVIOUS
<1>2. record.verdict = "terminate" /\ record.route = None
  BY <1>1, RestTerminates DEF Entry
<1>3. Verdict(exc, record) /\ record.verdict # "degrade"
  BY <1>2 DEF Verdict
<1>4. PICK e : e = OnFatal(a, table, exc, origin, how)
  OBVIOUS
<1>5. After(a, e, IF record.verdict = "isolate" THEN {record.route} ELSE {},
               record.verdict = "terminate")
  BY <1>1, <1>3, <1>4, OnFatalDoes
<1>6. d = e
  BY <1>1, <1>4
<1> QED
  BY <1>2, <1>5, <1>6 DEF After

(***************************************************************************)
(* The steps                                                               *)
(***************************************************************************)

\* A part of a served route fails, in a frame or in a recovery.
LEMMA PartFailsSafe ==
  ASSUME IInv, Ingesting, Quiet, UNCHANGED seen, NEW p \in DOMAIN Parts(venue), Fails(p),
         NEW origin \in {"handler", "route:orderbook"}, NEW how \in Outcomes,
         app' = OnFatal(app, Table(venue), Raised(p), origin, how)
  PROVE  IInv'
<1>1. venue \in {"BYBIT", "OKX", "BINANCE_SPOT"} /\ AppOK(app) /\ Latching(app)
  BY Alive DEF Ingesting
<1>2. After(app, app', {Parts(venue)[p]}, FALSE)
  BY <1>1, PartTold
<1>3. After(app, app', IF FALSE THEN {} ELSE {Parts(venue)[p]}, FALSE)
  BY <1>2 DEF After
<1>4. dead' = dead \cup {p}
  BY DEF Fails
<1>5. seen' = seen \cup (IF FALSE THEN {"evidence"} ELSE {})
  OBVIOUS
<1> QED
  BY <1>3, <1>4, <1>5, FailureStep

\* Something else does.
LEMMA RestFailsSafe ==
  ASSUME IInv, Ingesting, Quiet, seen' = seen \cup {"evidence"}, NEW part \in {"raw", "unlisted"},
         Fails(part), NEW exc, exc.stream # "quality", NEW origin,
         origin \in Forced \/ exc = Unlisted, NEW how \in Outcomes,
         app' = OnFatal(app, Table(venue), exc, origin, how)
  PROVE  IInv'
<1>1. venue \in {"BYBIT", "OKX", "BINANCE_SPOT"} /\ AppOK(app) /\ Latching(app)
  BY Alive DEF Ingesting
<1>2. After(app, app', {}, TRUE)
  BY <1>1, RestTold
<1>3. After(app, app', IF TRUE THEN {} ELSE {Parts(venue)[part]}, TRUE)
  BY <1>2 DEF After
<1>4. dead' = dead \cup {part}
  BY DEF Fails
<1>5. seen' = seen \cup (IF TRUE THEN {"evidence"} ELSE {}) /\ part \notin DOMAIN Parts(venue)
  BY <1>1, PartsAre
<1> QED
  BY <1>3, <1>4, <1>5, FailureStep

\* The failures of the running application keep the invariant.
LEMMA FailuresSafe ==
  ASSUME IInv, Frame \/ RawFails \/ UnlistedFails \/ RecoveryFails
  PROVE  IInv'
<1>1. CASE Frame
  <2>1. PICK p \in DOMAIN Parts(venue), how \in Outcomes :
          Fails(p) /\ app' = OnFatal(app, Table(venue), Raised(p), "handler", how)
    BY <1>1 DEF Frame
  <2>2. Ingesting /\ Quiet /\ UNCHANGED seen
    BY <1>1 DEF Frame
  <2>3. "handler" \in {"handler", "route:orderbook"}
    OBVIOUS
  <2> QED
    BY <2>1, <2>2, <2>3, PartFailsSafe
<1>2. CASE RawFails
  <2>1. PICK origin \in {"raw_frame", "raw_rest"}, stream \in Raw(venue), how \in Outcomes :
          app' = OnFatal(app, Table(venue), Fatal("parquet_writer", stream, None), origin, how)
    BY <1>2 DEF RawFails
  <2>2. PICK exc : exc = Fatal("parquet_writer", stream, None)
    OBVIOUS
  <2>3. exc.stream # "quality" /\ origin \in Forced
    BY <2>2 DEF Fatal, Raw, Forced
  <2>4. Ingesting /\ Quiet /\ seen' = seen \cup {"evidence"} /\ Fails("raw")
    BY <1>2 DEF RawFails
  <2>5. app' = OnFatal(app, Table(venue), exc, origin, how)
    BY <2>1, <2>2
  <2> QED
    BY <2>3, <2>4, <2>5, RestFailsSafe
<1>3. CASE UnlistedFails
  <2>1. PICK how \in Outcomes : app' = OnFatal(app, Table(venue), Unlisted, "handler", how)
    BY <1>3 DEF UnlistedFails
  <2>2. Ingesting /\ Quiet /\ seen' = seen \cup {"evidence"} /\ Fails("unlisted")
    BY <1>3 DEF UnlistedFails
  <2>3. Unlisted.stream # "quality"
    BY DEF Unlisted, Fatal
  <2> QED
    BY <2>1, <2>2, <2>3, RestFailsSafe
<1>4. CASE RecoveryFails
  <2>1. PICK how \in Outcomes : app' = OnFatal(app, Table(venue), Raised("spot_orderbook_raw"),
                                               "route:orderbook", how)
    BY <1>4 DEF RecoveryFails
  <2>2. Ingesting /\ Quiet /\ UNCHANGED seen /\ Fails("spot_orderbook_raw")
    BY <1>4 DEF RecoveryFails
  <2>3. "spot_orderbook_raw" \in DOMAIN Parts(venue)
    BY <1>4 DEF RecoveryFails, Parts, Derived
  <2>4. "route:orderbook" \in {"handler", "route:orderbook"}
    OBVIOUS
  <2> QED
    BY <2>1, <2>2, <2>3, <2>4, PartFailsSafe
<1> QED
  BY <1>1, <1>2, <1>3, <1>4
\* The parts of the invariant, by name.
LEMMA PartsOfIInv ==
  ASSUME IInv
  PROVE  /\ TypeOK /\ Unbuilt /\ CountersHonest /\ NothingHeldBack /\ LatchesActed(app)
         /\ Explained(disk) /\ VerdictsTell /\ EndTells /\ IsolatesTheBroken
         /\ ExitTellsTheTruth
BY DEF IInv, RunnerInv

\* An event of a component.
LEMMA QualityEventSafe ==
  ASSUME IInv, QualityEvent
  PROVE  IInv'
<1>1. /\ pc = "running" /\ events' = events + 1 /\ events < MaxEvents
      /\ UNCHANGED <<venue, pc, dead, task, stop, crashed, disk, verdicts, seen, status>>
  BY DEF QualityEvent
<1>2. Keeps(app, app')
  <2>1. PICK how \in Outcomes : app' = Persist(app, how, TRUE)
    BY DEF QualityEvent
  <2> QED
    BY <2>1, Alive, PersistDoes
<1>3. /\ AppOK(app') /\ Latching(app') /\ ~app'.held /\ app'.isolated = app.isolated
      /\ app'.terminal = app.terminal
  BY <1>1, <1>2, Alive DEF Keeps
<1>4. /\ DOMAIN app' = DOMAIN NewApp
      /\ {app'.lost, app'.unconfirmed, app'.gone, app'.unsure} \subseteq Nat
      /\ {app'.degraded, app'.terminal, app'.held} \subseteq BOOLEAN
      /\ CountersHonest' /\ LatchesActed(app') /\ NothingHeldBack'
  BY <1>3, AppLeft
<1>5. TypeOK'
  <2>1. events' \in 0 .. MaxEvents
    BY <1>1, RunnerAssumption, PartsOfIInv DEF TypeOK
  <2> QED
    BY <1>1, <1>4, <2>1, PartsOfIInv DEF TypeOK
<1>6. Unbuilt' /\ Explained(disk') /\ VerdictsTell' /\ EndTells'
  BY <1>1, <1>3, PartsOfIInv DEF Unbuilt, VerdictsTell, EndTells
<1>7. IsolatesTheBroken' /\ ExitTellsTheTruth'
  BY <1>1, <1>3, PartsOfIInv DEF IsolatesTheBroken, ExitTellsTheTruth
<1> QED
  BY <1>4, <1>5, <1>6, <1>7 DEF IInv, RunnerInv

\* The construction, with the events it has before the policy.
LEMMA ConstructSafe ==
  ASSUME IInv, Construct
  PROVE  IInv'
<1>1. /\ pc = "boot" /\ events' \in 0 .. MaxEvents
      /\ UNCHANGED <<venue, dead, stop, crashed, disk, verdicts>>
      /\ app = NewApp /\ dead = {} /\ seen = {} /\ verdicts = {} /\ disk = NewMonitor
      /\ task = "none" /\ ~stop /\ ~crashed
  BY PartsOfIInv DEF Construct, Unbuilt
<1>2. PICK after \in PersistRow(app, events', FALSE) :
        IF venue = "BYBIT" /\ after.held
        THEN Exit(1) /\ app' = after /\ seen' = {"unbuilt"} /\ task' = task
        ELSE /\ app' = AdoptHeld(after) /\ UNCHANGED <<seen, status>>
             /\ pc' = IF venue = "BYBIT" THEN "preflight" ELSE "running"
             /\ task' = IF venue = "BYBIT" THEN "none" ELSE "running"
  BY DEF Construct
<1>3. AppOK(after) /\ Latching(after) /\ after.isolated = {} /\ ~after.terminal
  <2>1. events' \in Nat
    BY <1>1, RunnerAssumption
  <2> QED
    BY <1>1, <1>2, <2>1, RowBeforePolicy
<1>4. AppOK(app') /\ Latching(app') /\ app'.isolated = {} /\ ~app'.terminal
      /\ (app'.held => "unbuilt" \in seen')
  <2>1. CASE app' = after /\ seen' = {"unbuilt"}
    BY <1>3, <2>1
  <2>2. CASE app' = AdoptHeld(after)
    <3>1. PICK d : d = AdoptHeld(after)
      OBVIOUS
    <3>2. AppOK(d) /\ Latching(d) /\ d.isolated = {} /\ ~d.terminal /\ ~d.held
      BY <1>3, <3>1, AdoptHeldDoes
    <3> QED
      BY <2>2, <3>1, <3>2
  <2> QED
    BY <1>2, <2>1, <2>2
<1>5. /\ DOMAIN app' = DOMAIN NewApp
      /\ {app'.lost, app'.unconfirmed, app'.gone, app'.unsure} \subseteq Nat
      /\ {app'.degraded, app'.terminal, app'.held} \subseteq BOOLEAN
      /\ CountersHonest' /\ LatchesActed(app') /\ NothingHeldBack'
  BY <1>4, AppLeft
<1>6. \/ pc' = "exited" /\ status' = 1 /\ seen' = {"unbuilt"} /\ task' = "none"
      \/ pc' = "preflight" /\ status' = status /\ seen' = {} /\ task' = "none"
      \/ pc' = "running" /\ status' = status /\ seen' = {} /\ task' = "running"
  BY <1>1, <1>2 DEF Exit
<1>7. TypeOK'
  <2>1. IsFiniteSet(dead')
    BY <1>1, FS_EmptySet
  <2> QED
    BY <1>1, <1>5, <1>6, <2>1, PartsOfIInv DEF TypeOK
<1>8. Unbuilt' /\ Explained(disk') /\ VerdictsTell' /\ EndTells'
  <2>1. ~disk.handled /\ ~disk.emergency /\ ~disk.unavailable
    BY <1>1 DEF NewMonitor
  <2>2. VerdictsTell'
    BY <1>1, <1>6, <2>1 DEF VerdictsTell
  <2>3. EndTells'
    BY <1>1, <1>4, <1>6 DEF EndTells
  <2>4. Unbuilt'
    BY <1>1, <1>6, <2>1 DEF Unbuilt
  <2> QED
    BY <1>1, <2>2, <2>3, <2>4, PartsOfIInv
<1>9. IsolatesTheBroken'
  BY <1>1, <1>4, <1>6 DEF IsolatesTheBroken
<1>10. ExitTellsTheTruth'
  BY <1>6 DEF ExitTellsTheTruth
<1> QED
  BY <1>5, <1>7, <1>8, <1>9, <1>10 DEF IInv, RunnerInv

\* The poll that decides whether the client is started.
LEMMA PreflightSafe ==
  ASSUME IInv, Preflight
  PROVE  IInv'
<1>1. /\ pc = "preflight" /\ disk' \in Polls(disk) /\ UNCHANGED <<life, app, dead, stop>>
      /\ task = "none" /\ ~disk.handled /\ seen \subseteq {"signal"} /\ verdicts = {}
      /\ ~disk.emergency /\ ~disk.unavailable
  BY PartsOfIInv DEF Preflight, Unbuilt, VerdictsTell
<1>2. /\ venue' = venue /\ events' = events /\ crashed' = crashed /\ status' = status
      /\ app' = app /\ dead' = dead /\ stop' = stop /\ ~crashed
  BY <1>1, PartsOfIInv DEF life, EndTells
<1>3. /\ disk' \in Monitor /\ Explained(disk') /\ ~disk'.handled
      /\ disk'.level = 3 /\ disk'.unknown = 0 => disk'.emergency
      /\ disk'.emergency => disk'.level = 3 /\ disk'.unknown = 0
      /\ disk'.unavailable => disk'.unknown > Grace
  BY <1>1, PartsOfIInv, PollDoes DEF TypeOK
<1>4. \/ /\ disk'.unknown = 0 /\ disk'.level # 3 /\ pc' = "running" /\ task' = "running"
         /\ UNCHANGED <<verdicts, seen>>
      \/ /\ pc' = "refused" /\ verdicts' = {"emergency"} /\ seen' = {"emergency"} /\ task' = task
      \/ /\ pc' = "refused" /\ verdicts' = {"unavailable"} /\ seen' = {"unmeasured"} /\ task' = task
      \/ /\ disk'.unknown # 0 /\ ~disk'.unavailable /\ UNCHANGED <<pc, task, verdicts, seen>>
  <2>1. CASE disk'.unknown = 0 /\ disk'.level # 3
    BY <2>1 DEF Preflight
  <2>2. CASE disk'.unknown = 0 /\ disk'.level = 3
    BY <2>2 DEF Preflight
  <2>3. CASE disk'.unknown # 0 /\ disk'.unavailable
    BY <1>3, <2>3 DEF Preflight
  <2>4. CASE disk'.unknown # 0 /\ ~disk'.unavailable
    BY <2>4 DEF Preflight
  <2> QED
    BY <2>1, <2>2, <2>3, <2>4
<1>5. Grace \in Nat \ {0}
  BY DiskAssumption
<1>6. TypeOK'
  <2>1. TypeOK
    BY PartsOfIInv
  <2>2. /\ pc' \in {"boot", "preflight", "refused", "running", "joining", "judging", "exited"}
        /\ task' \in Over \cup {"none", "running", "ended", "stuck"}
        /\ verdicts' \subseteq {"emergency", "unavailable"}
        /\ seen' \subseteq {"unbuilt", "evidence", "crash", "signal", "emergency", "unmeasured"}
    BY <1>1, <1>4
  <2> QED
    BY <1>2, <1>3, <2>1, <2>2 DEF TypeOK
<1>7. VerdictsTell'
  BY <1>1, <1>2, <1>3, <1>4, <1>5, PartsOfIInv DEF VerdictsTell
<1>8. EndTells'
  BY <1>1, <1>2, <1>4, PartsOfIInv DEF EndTells
<1>9. Unbuilt' /\ CountersHonest' /\ LatchesActed(app') /\ NothingHeldBack'
  BY <1>1, <1>2, <1>3, <1>4, PartsOfIInv DEF Unbuilt, CountersHonest, NothingHeldBack
<1>10. IsolatesTheBroken' /\ ExitTellsTheTruth'
  BY <1>1, <1>2, <1>4, PartsOfIInv DEF IsolatesTheBroken, ExitTellsTheTruth
<1> QED
  BY <1>3, <1>6, <1>7, <1>8, <1>9, <1>10 DEF IInv, RunnerInv
\* The end of the application task.
LEMMA TaskEndsSafe ==
  ASSUME IInv, TaskEnds
  PROVE  IInv'
<1>1. /\ pc = "running" /\ task = "running"
      /\ task' \in {"ended", "crashed", "fatal", "cancelled"}
      /\ seen' = IF task' = "crashed" THEN seen \cup {"crash"} ELSE seen
      /\ venue' = venue /\ events' = events /\ crashed' = crashed /\ status' = status
      /\ pc' = pc /\ app' = app /\ dead' = dead /\ stop' = stop /\ disk' = disk
      /\ verdicts' = verdicts
  BY DEF TaskEnds, life
<1>2. TypeOK'
  <2>1. TypeOK
    BY PartsOfIInv
  <2>2. /\ task' \in Over \cup {"none", "running", "ended", "stuck"}
        /\ seen' \subseteq {"unbuilt", "evidence", "crash", "signal", "emergency", "unmeasured"}
    BY <1>1, <2>1 DEF TypeOK, Over
  <2> QED
    BY <1>1, <2>1, <2>2 DEF TypeOK
<1>3. \A e : e # "crash" => (e \in seen' <=> e \in seen)
  BY <1>1
<1>4. VerdictsTell' /\ Unbuilt' /\ Explained(disk')
  BY <1>1, <1>3, PartsOfIInv DEF VerdictsTell, Unbuilt
<1>5. EndTells'
  BY <1>1, <1>3, PartsOfIInv DEF EndTells
<1>6. CountersHonest' /\ LatchesActed(app') /\ NothingHeldBack'
  BY <1>1, <1>3, PartsOfIInv DEF CountersHonest, NothingHeldBack
<1>7. IsolatesTheBroken' /\ ExitTellsTheTruth'
  BY <1>1, <1>3, PartsOfIInv DEF IsolatesTheBroken, ExitTellsTheTruth
<1> QED
  BY <1>2, <1>4, <1>5, <1>6, <1>7 DEF IInv, RunnerInv

\* A signal.
LEMMA SignalSafe ==
  ASSUME IInv, Signal
  PROVE  IInv'
<1>1. /\ pc \in {"preflight", "running"} /\ stop' = TRUE /\ seen' = seen \cup {"signal"}
      /\ venue' = venue /\ events' = events /\ crashed' = crashed /\ status' = status
      /\ pc' = pc /\ app' = app /\ dead' = dead /\ task' = task /\ disk' = disk
      /\ verdicts' = verdicts
  BY DEF Signal, life
<1>2. TypeOK'
  BY <1>1, PartsOfIInv DEF TypeOK
<1>3. \A e : e # "signal" => (e \in seen' <=> e \in seen)
  BY <1>1
<1>4. VerdictsTell'
  BY <1>1, <1>3, PartsOfIInv DEF VerdictsTell
<1>5. EndTells'
  BY <1>1, <1>3, PartsOfIInv DEF EndTells
<1>6. Unbuilt' /\ Explained(disk')
  BY <1>1, <1>3, PartsOfIInv DEF Unbuilt
<1>7. CountersHonest' /\ LatchesActed(app') /\ NothingHeldBack'
  BY <1>1, <1>3, PartsOfIInv DEF CountersHonest, NothingHeldBack
<1>8. IsolatesTheBroken' /\ ExitTellsTheTruth'
  BY <1>1, <1>3, PartsOfIInv DEF IsolatesTheBroken, ExitTellsTheTruth
<1> QED
  BY <1>2, <1>4, <1>5, <1>6, <1>7, <1>8 DEF IInv, RunnerInv

\* A poll of the running monitor, with the stop it may ask for.
LEMMA DiskPollSafe ==
  ASSUME IInv, DiskPoll
  PROVE  IInv'
<1>1. /\ pc = "running" /\ ~disk.handled /\ ~disk.emergency /\ ~disk.unavailable
      /\ venue' = venue /\ events' = events /\ crashed' = crashed /\ status' = status
      /\ pc' = pc /\ app' = app /\ dead' = dead /\ task' = task
  BY PartsOfIInv DEF DiskPoll, life, VerdictsTell
<1>2. PICK next \in Polls(disk) :
        /\ disk' = [next EXCEPT !.handled = next.emergency \/ next.unavailable]
        /\ stop' = (stop \/ disk'.handled)
        /\ verdicts' = IF next.emergency THEN verdicts \cup {"emergency"}
                       ELSE IF next.unavailable THEN verdicts \cup {"unavailable"} ELSE verdicts
        /\ seen' = IF next.level = 3 /\ next.unknown = 0 THEN seen \cup {"emergency"}
                   ELSE IF next.unknown > Grace THEN seen \cup {"unmeasured"} ELSE seen
  BY DEF DiskPoll
<1>3. /\ next \in Monitor /\ Explained(next)
      /\ next.emergency <=> next.level = 3 /\ next.unknown = 0
      /\ next.unavailable <=> next.unknown > Grace
  <2>1. /\ next \in Monitor /\ Explained(next)
        /\ next.level = 3 /\ next.unknown = 0 => next.emergency
        /\ next.emergency => disk.emergency \/ (next.level = 3 /\ next.unknown = 0)
        /\ next.unavailable => disk.unavailable \/ next.unknown > Grace
    BY PartsOfIInv, PollDoes DEF TypeOK
  <2>2. next.unknown > Grace => next.unavailable
    BY <2>1 DEF Explained
  <2> QED
    BY <1>1, <2>1, <2>2
<1>4. /\ disk'.emergency = next.emergency /\ disk'.unavailable = next.unavailable
      /\ disk'.handled = (next.emergency \/ next.unavailable)
      /\ disk'.free = next.free /\ disk'.level = next.level /\ disk'.relieved = next.relieved
      /\ disk'.unknown = next.unknown /\ disk'.told = next.told
  BY <1>2, <1>3 DEF Monitor
<1>5. disk' \in Monitor /\ Explained(disk')
  <2>1. (next.emergency \/ next.unavailable) \in BOOLEAN
    OBVIOUS
  <2>2. disk' \in Monitor
    BY <1>2, <1>3, <2>1 DEF Monitor
  <2>3. Explained(disk')
    BY <1>3, <1>4 DEF Explained
  <2> QED
    BY <2>2, <2>3
<1>6. Grace \in Nat \ {0}
  BY DiskAssumption
<1>7. ~(next.emergency /\ next.unavailable)
  <2>1. 0 > Grace => FALSE
    BY <1>6
  <2> QED
    BY <1>3, <2>1
<1>8. /\ verdicts' = verdicts \cup (IF next.emergency THEN {"emergency"} ELSE {})
                              \cup (IF next.unavailable THEN {"unavailable"} ELSE {})
      /\ seen' = seen \cup (IF next.emergency THEN {"emergency"} ELSE {})
                      \cup (IF next.unavailable THEN {"unmeasured"} ELSE {})
  BY <1>2, <1>3, <1>7
<1>9. TypeOK'
  <2>1. TypeOK
    BY PartsOfIInv
  <2>2. /\ verdicts' \subseteq {"emergency", "unavailable"}
        /\ seen' \subseteq {"unbuilt", "evidence", "crash", "signal", "emergency", "unmeasured"}
    BY <1>8, <2>1 DEF TypeOK
  <2>3. stop' \in BOOLEAN
    BY <1>2
  <2> QED
    BY <1>1, <1>5, <2>1, <2>2, <2>3 DEF TypeOK
<1>10. \A e : e \notin {"emergency", "unmeasured"} => (e \in seen' <=> e \in seen)
  BY <1>8
<1>11. VerdictsTell'
  <2>1. VerdictsTell
    BY PartsOfIInv
  <2>2. stop' <=> stop \/ next.emergency \/ next.unavailable
    BY <1>2, <1>4
  <2> QED
    BY <1>1, <1>4, <1>8, <2>1, <2>2 DEF VerdictsTell
<1>12. EndTells'
  BY <1>1, <1>10, PartsOfIInv DEF EndTells
<1>13. Unbuilt' /\ CountersHonest' /\ LatchesActed(app') /\ NothingHeldBack'
  BY <1>1, <1>10, PartsOfIInv DEF Unbuilt, CountersHonest, NothingHeldBack
<1>14. IsolatesTheBroken' /\ ExitTellsTheTruth'
  BY <1>1, <1>10, PartsOfIInv DEF IsolatesTheBroken, ExitTellsTheTruth
<1> QED
  BY <1>5, <1>9, <1>11, <1>12, <1>13, <1>14 DEF IInv, RunnerInv
\* The closing of the writers, each of which may fail.
LEMMA ShutdownDoes ==
  ASSUME IInv, NEW from, AppOK(from), Shutdown(from)
  PROVE  Keeps(from, app')
<1>1. PICK late \in 0 .. 1 : app' \in PersistRow(from, Cardinality(Refusing) + late, TRUE)
  BY DEF Shutdown
<1>2. Cardinality(Refusing) \in Nat
  <2>1. IsFiniteSet(dead)
    BY PartsOfIInv DEF TypeOK
  <2>2. IsFiniteSet(Refusing)
    BY <2>1, FS_Difference DEF Refusing
  <2> QED
    BY <2>2, FS_CardinalityType
<1>3. Cardinality(Refusing) + late \in Nat
  BY <1>2
<1> QED
  BY <1>1, <1>3, PersistRowDoes

\* The end of the task, observed or latched late.
LEMMA TaskFatalTold ==
  ASSUME IInv, pc \notin {"boot", "exited"}, NEW how \in Outcomes,
         NEW d, d = OnFatal(app, Table(venue), Unlisted, "run_task", how)
  PROVE  AppOK(d) /\ Latching(d) /\ ~d.held /\ d.terminal /\ d.isolated = app.isolated
<1>1. Unlisted.stream # "quality"
  BY DEF Unlisted, Fatal
<1>2. venue \in {"BYBIT", "OKX", "BINANCE_SPOT"} /\ AppOK(app) /\ Latching(app) /\ ~app.held
  BY Alive
<1>3. After(app, d, {}, TRUE)
  BY <1>1, <1>2, RestTold
<1> QED
  BY <1>2, <1>3 DEF After

\* The supervisor stops a running runner.
LEMMA StopRunningSafe ==
  ASSUME IInv, StopRunning
  PROVE  IInv'
<1>1. /\ pc = "running" /\ Wakes /\ pc' = "joining"
      /\ crashed' = (Observed /\ task \in {"cancelled", "crashed"})
      /\ venue' = venue /\ events' = events /\ status' = status /\ dead' = dead
      /\ task' = task /\ stop' = stop /\ disk' = disk /\ verdicts' = verdicts
  BY DEF StopRunning
<1>2. /\ seen' = seen \cup (IF Observed /\ task = "fatal" THEN {"evidence"} ELSE {})
      /\ AppOK(app') /\ Latching(app') /\ ~app'.held /\ app'.isolated = app.isolated
      /\ app'.terminal <=> app.terminal \/ (Observed /\ task = "fatal")
  <2>1. CASE Observed /\ task = "fatal"
    <3>1. PICK how \in Outcomes :
            Shutdown(OnFatal(app, Table(venue), Unlisted, "run_task", how))
      BY <2>1 DEF StopRunning
    <3>2. PICK from : from = OnFatal(app, Table(venue), Unlisted, "run_task", how)
      OBVIOUS
    <3>3. AppOK(from) /\ Latching(from) /\ ~from.held /\ from.terminal
          /\ from.isolated = app.isolated
      BY <1>1, <3>2, TaskFatalTold
    <3>4. Keeps(from, app')
      BY <3>1, <3>2, <3>3, ShutdownDoes
    <3>5. seen' = seen \cup {"evidence"}
      BY <2>1 DEF StopRunning
    <3> QED
      BY <2>1, <3>3, <3>4, <3>5 DEF Keeps
  <2>2. CASE ~(Observed /\ task = "fatal")
    <3>1. Shutdown(app) /\ seen' = seen
      BY <2>2 DEF StopRunning
    <3>2. AppOK(app) /\ Latching(app) /\ ~app.held
      BY <1>1, Alive
    <3>3. Keeps(app, app')
      BY <3>1, <3>2, ShutdownDoes
    <3> QED
      BY <2>2, <3>1, <3>2, <3>3 DEF Keeps
  <2> QED
    BY <2>1, <2>2
<1>3. /\ DOMAIN app' = DOMAIN NewApp
      /\ {app'.lost, app'.unconfirmed, app'.gone, app'.unsure} \subseteq Nat
      /\ {app'.degraded, app'.terminal, app'.held} \subseteq BOOLEAN
      /\ CountersHonest' /\ LatchesActed(app') /\ NothingHeldBack'
  BY <1>2, AppLeft
<1>4. TypeOK'
  <2>1. TypeOK
    BY PartsOfIInv
  <2>2. seen' \subseteq {"unbuilt", "evidence", "crash", "signal", "emergency", "unmeasured"}
    BY <1>2, <2>1 DEF TypeOK
  <2>3. crashed' \in BOOLEAN
    BY <1>1
  <2> QED
    BY <1>1, <1>3, <2>1, <2>2, <2>3 DEF TypeOK
<1>5. \A e : e # "evidence" => (e \in seen' <=> e \in seen)
  BY <1>2
<1>6. VerdictsTell' /\ Unbuilt' /\ Explained(disk')
  BY <1>1, <1>5, PartsOfIInv DEF VerdictsTell, Unbuilt
<1>7. EndTells'
  <2>1. EndTells /\ VerdictsTell
    BY PartsOfIInv
  <2>2. app'.terminal \/ crashed' \/ verdicts' # {} \/ "signal" \in seen'
    <3>1. CASE stop
      BY <1>1, <1>5, <2>1, <3>1 DEF VerdictsTell
    <3>2. CASE app.terminal
      BY <1>2, <3>2
    <3>3. CASE ~stop /\ ~app.terminal
      BY <1>1, <1>2, <3>3 DEF Wakes, Observed, Over
    <3> QED
      BY <3>1, <3>2, <3>3
  <2>3. crashed' => task' \in {"cancelled", "crashed"}
    BY <1>1
  <2>4. "unbuilt" \notin seen'
    BY <1>1, <1>5, <2>1 DEF EndTells
  <2>5. task' = "crashed" => "crash" \in seen'
    BY <1>1, <1>5, <2>1 DEF EndTells
  <2> QED
    BY <1>1, <1>2, <2>2, <2>3, <2>4, <2>5 DEF EndTells
<1>8. IsolatesTheBroken' /\ ExitTellsTheTruth'
  BY <1>1, <1>2, PartsOfIInv DEF IsolatesTheBroken, ExitTellsTheTruth
<1> QED
  BY <1>3, <1>4, <1>6, <1>7, <1>8 DEF IInv, RunnerInv

\* The task is waited for after its cancellation.
LEMMA JoinSafe ==
  ASSUME IInv, Join
  PROVE  IInv'
<1>1. /\ pc = "joining" /\ pc' = "judging"
      /\ task' \in IF task = "running"
                   THEN {"cancelled", "ended", "crashed", "fatal", "stuck"} ELSE {task}
      /\ venue' = venue /\ events' = events /\ crashed' = crashed /\ status' = status
      /\ dead' = dead /\ stop' = stop /\ disk' = disk /\ verdicts' = verdicts
  BY DEF Join, life
<1>2. /\ seen' = seen \cup (IF task' = "fatal" /\ ~app.terminal THEN {"evidence"} ELSE {})
                      \cup (IF task' = "crashed" THEN {"crash"} ELSE {})
      /\ AppOK(app') /\ Latching(app') /\ ~app'.held /\ app'.isolated = app.isolated
      /\ app'.terminal <=> app.terminal \/ task' = "fatal"
  <2>1. CASE task' = "fatal" /\ ~app.terminal
    <3>1. PICK how \in Outcomes :
            app' = OnFatal(app, Table(venue), Unlisted, "run_task", how)
      BY <2>1 DEF Join
    <3>2. PICK from : from = OnFatal(app, Table(venue), Unlisted, "run_task", how)
      OBVIOUS
    <3>3. AppOK(from) /\ Latching(from) /\ ~from.held /\ from.terminal
          /\ from.isolated = app.isolated
      BY <1>1, <3>2, TaskFatalTold
    <3>4. seen' = seen \cup {"evidence"}
      BY <2>1 DEF Join
    <3> QED
      BY <2>1, <3>1, <3>2, <3>3, <3>4
  <2>2. CASE ~(task' = "fatal" /\ ~app.terminal)
    <3>1. app' = app /\ seen' = IF task' = "crashed" THEN seen \cup {"crash"} ELSE seen
      BY <2>2 DEF Join
    <3>2. AppOK(app) /\ Latching(app) /\ ~app.held
      BY <1>1, Alive
    <3> QED
      BY <2>2, <3>1, <3>2
  <2> QED
    BY <2>1, <2>2
<1>3. /\ DOMAIN app' = DOMAIN NewApp
      /\ {app'.lost, app'.unconfirmed, app'.gone, app'.unsure} \subseteq Nat
      /\ {app'.degraded, app'.terminal, app'.held} \subseteq BOOLEAN
      /\ CountersHonest' /\ LatchesActed(app') /\ NothingHeldBack'
  BY <1>2, AppLeft
<1>4. TypeOK'
  <2>1. TypeOK
    BY PartsOfIInv
  <2>2. seen' \subseteq {"unbuilt", "evidence", "crash", "signal", "emergency", "unmeasured"}
    BY <1>2, <2>1 DEF TypeOK
  <2>3. task' \in Over \cup {"none", "running", "ended", "stuck"}
    BY <1>1, <2>1 DEF TypeOK, Over
  <2> QED
    BY <1>1, <1>3, <2>1, <2>2, <2>3 DEF TypeOK
<1>5. \A e : e \notin {"evidence", "crash"} => (e \in seen' <=> e \in seen)
  BY <1>2
<1>6. VerdictsTell' /\ Unbuilt' /\ Explained(disk')
  BY <1>1, <1>5, PartsOfIInv DEF VerdictsTell, Unbuilt
<1>7. EndTells'
  <2>1. EndTells
    BY PartsOfIInv
  <2>2. crashed => task' = task
    BY <1>1, <2>1 DEF EndTells
  <2> QED
    BY <1>1, <1>2, <1>5, <2>1, <2>2 DEF EndTells
<1>8. IsolatesTheBroken'
  <2>1. /\ app.isolated = {Parts(venue)[p] : p \in dead \cap DOMAIN Parts(venue)}
        /\ app.terminal <=> "evidence" \in seen
    BY <1>1, PartsOfIInv DEF IsolatesTheBroken
  <2>2. app'.terminal <=> "evidence" \in seen'
    BY <1>2, <2>1
  <2> QED
    BY <1>1, <1>2, <2>1, <2>2 DEF IsolatesTheBroken
<1>9. ExitTellsTheTruth'
  BY <1>1 DEF ExitTellsTheTruth
<1> QED
  BY <1>3, <1>4, <1>6, <1>7, <1>8, <1>9 DEF IInv, RunnerInv

\* A runner that was refused is shut down as well.
LEMMA ShutRefusedSafe ==
  ASSUME IInv, ShutRefused
  PROVE  IInv'
<1>1. /\ pc = "refused" /\ pc' = "judging" /\ Shutdown(app) /\ seen' = seen
      /\ venue' = venue /\ events' = events /\ crashed' = crashed /\ status' = status
      /\ dead' = dead /\ task' = task /\ stop' = stop /\ disk' = disk /\ verdicts' = verdicts
  BY DEF ShutRefused, life
<1>2. AppOK(app) /\ Latching(app) /\ ~app.held
  BY <1>1, Alive
<1>3. AppOK(app') /\ Latching(app') /\ ~app'.held /\ app'.isolated = app.isolated
      /\ app'.terminal = app.terminal
  BY <1>1, <1>2, ShutdownDoes DEF Keeps
<1>4. /\ DOMAIN app' = DOMAIN NewApp
      /\ {app'.lost, app'.unconfirmed, app'.gone, app'.unsure} \subseteq Nat
      /\ {app'.degraded, app'.terminal, app'.held} \subseteq BOOLEAN
      /\ CountersHonest' /\ LatchesActed(app') /\ NothingHeldBack'
  BY <1>3, AppLeft
<1>5. TypeOK'
  <2>1. TypeOK
    BY PartsOfIInv
  <2> QED
    BY <1>1, <1>4, <2>1 DEF TypeOK
<1>6. VerdictsTell' /\ Unbuilt' /\ Explained(disk')
  BY <1>1, PartsOfIInv DEF VerdictsTell, Unbuilt
<1>7. EndTells'
  BY <1>1, <1>3, PartsOfIInv DEF EndTells, VerdictsTell
<1>8. IsolatesTheBroken' /\ ExitTellsTheTruth'
  BY <1>1, <1>3, PartsOfIInv DEF IsolatesTheBroken, ExitTellsTheTruth
<1> QED
  BY <1>4, <1>5, <1>6, <1>7, <1>8 DEF IInv, RunnerInv

\* The exit.
LEMMA JudgeSafe ==
  ASSUME IInv, Judge
  PROVE  IInv'
<1>1. /\ pc = "judging" /\ pc' = "exited" /\ status' = Status
      /\ UNCHANGED <<venue, app, dead, events, task, stop, crashed, disk, verdicts, seen>>
  BY DEF Judge, Exit
<1>2. Status \in {0, 1, 69, 70}
  BY DEF Status
<1>3. TypeOK'
  BY <1>1, <1>2, PartsOfIInv DEF TypeOK
<1>4. VerdictsTell' /\ EndTells' /\ Unbuilt' /\ Explained(disk')
  BY <1>1, PartsOfIInv DEF VerdictsTell, EndTells, Unbuilt
<1>5. CountersHonest' /\ LatchesActed(app') /\ NothingHeldBack'
  BY <1>1, PartsOfIInv DEF CountersHonest, NothingHeldBack
<1>6. IsolatesTheBroken'
  BY <1>1, PartsOfIInv DEF IsolatesTheBroken
<1>7. ExitTellsTheTruth'
  <2>1. app.terminal <=> "evidence" \in seen
    BY <1>1, PartsOfIInv DEF IsolatesTheBroken
  <2>2. /\ "emergency" \in verdicts <=> "emergency" \in seen
        /\ "unavailable" \in verdicts => "unmeasured" \in seen
        /\ "unmeasured" \in seen => verdicts # {}
    BY PartsOfIInv DEF VerdictsTell
  <2>3. /\ crashed => task = "cancelled" \/ "crash" \in seen
        /\ app.terminal \/ crashed \/ verdicts # {} \/ "signal" \in seen
        /\ "unbuilt" \notin seen
    BY <1>1, PartsOfIInv DEF EndTells
  <2>4. /\ verdicts \subseteq {"emergency", "unavailable"}
        /\ seen \subseteq {"unbuilt", "evidence", "crash", "signal", "emergency", "unmeasured"}
    BY PartsOfIInv DEF TypeOK
  <2>5. CASE app.terminal
    BY <1>1, <2>1, <2>5 DEF ExitTellsTheTruth, Status
  <2>6. CASE ~app.terminal /\ (crashed \/ "emergency" \in verdicts)
    BY <1>1, <2>1, <2>2, <2>3, <2>6 DEF ExitTellsTheTruth, Status
  <2>7. CASE ~app.terminal /\ ~(crashed \/ "emergency" \in verdicts) /\ "unavailable" \in verdicts
    BY <1>1, <2>1, <2>2, <2>7 DEF ExitTellsTheTruth, Status
  <2>8. CASE /\ ~app.terminal /\ ~(crashed \/ "emergency" \in verdicts)
             /\ "unavailable" \notin verdicts
    <3>1. verdicts = {}
      BY <2>4, <2>8
    <3>2. "signal" \in seen /\ seen \subseteq {"signal", "crash"}
      BY <2>1, <2>2, <2>3, <2>4, <2>8, <3>1
    <3>3. status' = 0
      BY <1>1, <2>8 DEF Status
    <3> QED
      BY <1>1, <2>1, <2>8, <3>2, <3>3 DEF ExitTellsTheTruth
  <2> QED
    BY <2>5, <2>6, <2>7, <2>8
<1> QED
  BY <1>3, <1>4, <1>5, <1>6, <1>7 DEF IInv, RunnerInv

(***************************************************************************)
(* The theorems                                                            *)
(***************************************************************************)

\* The invariant holds of a runner that was not built.
LEMMA InitSafe ==
  ASSUME Init
  PROVE  IInv
<1>1. /\ venue \in Venues /\ pc = "boot" /\ app = NewApp /\ dead = {} /\ events = 0
      /\ task = "none" /\ stop = FALSE /\ crashed = FALSE /\ disk = NewMonitor
      /\ verdicts = {} /\ seen = {} /\ status = 0
  BY DEF Init
<1>2. AppOK(app) /\ Latching(app) /\ ~app.held
  BY <1>1 DEF NewApp, AppOK, Latching, LatchesActed
<1>3. disk \in Monitor /\ Explained(disk)
  <2>1. Grace \in Nat
    BY DiskAssumption
  <2>2. /\ disk.level = NoLevel /\ disk.free = Unmeasured /\ disk.unknown = 0
        /\ disk.relieved = Severities
    BY <1>1 DEF NewMonitor
  <2>3. disk \in Monitor
    BY <1>1, <2>1 DEF NewMonitor, Monitor, Severities
  <2>4. Explained(disk)
    BY <2>1, <2>2 DEF Explained
  <2> QED
    BY <2>3, <2>4
<1>4. TypeOK
  <2>1. events \in 0 .. MaxEvents
    BY <1>1, RunnerAssumption
  <2>2. IsFiniteSet(dead)
    BY <1>1, FS_EmptySet
  <2> QED
    BY <1>1, <1>2, <1>3, <2>1, <2>2 DEF TypeOK, AppOK
<1>5. /\ Unbuilt /\ CountersHonest /\ NothingHeldBack /\ LatchesActed(app) /\ VerdictsTell
      /\ EndTells /\ IsolatesTheBroken /\ ExitTellsTheTruth
  <2>1. disk.handled = FALSE /\ disk.emergency = FALSE /\ disk.unavailable = FALSE
    BY <1>1 DEF NewMonitor
  <2>2. VerdictsTell
    BY <1>1, <2>1 DEF VerdictsTell
  <2>3. Unbuilt /\ EndTells
    BY <1>1, <1>2 DEF Unbuilt, EndTells
  <2> QED
    BY <1>1, <1>2, <2>2, <2>3 DEF AppOK, CountersHonest, NothingHeldBack, IsolatesTheBroken,
      ExitTellsTheTruth
<1> QED
  BY <1>3, <1>4, <1>5 DEF IInv, RunnerInv

\* Every step keeps the invariant.
LEMMA NextSafe ==
  ASSUME IInv, [Next]_vars
  PROVE  IInv'
<1>1. CASE UNCHANGED vars
  BY <1>1 DEF vars, IInv, RunnerInv, TypeOK, Unbuilt, CountersHonest, NothingHeldBack, VerdictsTell,
    EndTells, IsolatesTheBroken, ExitTellsTheTruth, Explained
<1>2. CASE Next
  <2>1. CASE Frame \/ RawFails \/ UnlistedFails \/ RecoveryFails
    BY <2>1, FailuresSafe
  <2>2. CASE Construct
    BY <2>2, ConstructSafe
  <2>3. CASE Preflight
    BY <2>3, PreflightSafe
  <2>4. CASE QualityEvent
    BY <2>4, QualityEventSafe
  <2>5. CASE TaskEnds
    BY <2>5, TaskEndsSafe
  <2>6. CASE Signal
    BY <2>6, SignalSafe
  <2>7. CASE DiskPoll
    BY <2>7, DiskPollSafe
  <2>8. CASE StopRunning
    BY <2>8, StopRunningSafe
  <2>9. CASE Join
    BY <2>9, JoinSafe
  <2>10. CASE ShutRefused
    BY <2>10, ShutRefusedSafe
  <2>11. CASE Judge
    BY <2>11, JudgeSafe
  <2> QED
    BY <1>2, <2>1, <2>2, <2>3, <2>4, <2>5, <2>6, <2>7, <2>8, <2>9, <2>10, <2>11 DEF Next
<1> QED
  BY <1>1, <1>2

\* The runner's record agrees with what happened to it: its counters with the disk, its
\* latches with what it did about them, its verdicts with its monitor's measurements.
THEOREM RunnerInvariant == Spec => []RunnerInv
<1>1. Init => IInv
  BY InitSafe
<1>2. IInv /\ [Next]_vars => IInv'
  BY NextSafe
<1>3. IInv => RunnerInv
  BY DEF IInv
<1> QED
  BY <1>1, <1>2, <1>3, PTL DEF Spec

\* The exit status of supervise_standalone_runner tells the worst that happened.
THEOREM ExitAlwaysTells == Spec => []ExitTellsTheTruth
<1>1. Init => IInv
  BY InitSafe
<1>2. IInv /\ [Next]_vars => IInv'
  BY NextSafe
<1>3. IInv => ExitTellsTheTruth
  BY DEF IInv
<1> QED
  BY <1>1, <1>2, <1>3, PTL DEF Spec

\* The policy cuts off the routes of the parts that failed and no other, and ends the
\* runner for lost evidence and for nothing less.
THEOREM BrokenAlwaysIsolated == Spec => []IsolatesTheBroken
<1>1. Init => IInv
  BY InitSafe
<1>2. IInv /\ [Next]_vars => IInv'
  BY NextSafe
<1>3. IInv => IsolatesTheBroken
  BY DEF IInv
<1> QED
  BY <1>1, <1>2, <1>3, PTL DEF Spec

\* The monitor alerts of a severity again only after the space was clear of its threshold
\* by the margin.
THEOREM NeverAlertStorm == Spec => NoAlertStorm
<1>1. Init => IInv
  BY InitSafe
<1>2. IInv /\ [Next]_vars => IInv'
  BY NextSafe
<1>3. ASSUME IInv, [Next]_vars
      PROVE  [disk' # disk /\ disk'.told # 0 => disk'.told \in disk.relieved]_vars
  <2>1. disk \in Monitor /\ Explained(disk)
    BY <1>3, PartsOfIInv DEF TypeOK
  <2>2. CASE Preflight
    <3>1. disk' \in Polls(disk)
      BY <2>2 DEF Preflight
    <3> QED
      BY <2>1, <3>1, PollDoes
  <2>3. CASE DiskPoll
    <3>1. PICK next \in Polls(disk) :
            disk' = [next EXCEPT !.handled = next.emergency \/ next.unavailable]
      BY <2>3 DEF DiskPoll
    <3>2. next \in Monitor /\ (next.told # 0 => next.told \in disk.relieved)
      BY <2>1, PollDoes
    <3>3. disk'.told = next.told
      BY <3>1, <3>2 DEF Monitor
    <3> QED
      BY <3>2, <3>3
  <2>4. CASE disk' = disk
    BY <2>4
  <2>5. Preflight \/ DiskPoll \/ disk' = disk
    BY <1>3 DEF Next, vars, life, Quiet, Construct, Frame, RawFails, UnlistedFails, RecoveryFails,
      QualityEvent, TaskEnds, Signal, StopRunning, Join, ShutRefused, Judge
  <2> QED
    BY <2>2, <2>3, <2>4, <2>5
<1> QED
  BY <1>1, <1>2, <1>3, PTL DEF Spec, NoAlertStorm
=============================================================================
