--------------------------- MODULE OfflineProofs ---------------------------
(***************************************************************************)
(* The tools of MCOffline, proved for every value of the constants.        *)
(***************************************************************************)
EXTENDS MCOffline, FiniteSetTheorems, WellFoundedInduction, TLAPS

\* A set of numbers that is not empty has a smallest one.
LEMMA Smallest ==
  ASSUME NEW S, S \subseteq Nat, S # {}
  PROVE  \E n \in S : \A m \in S : n <= m
<1> DEFINE Less == {p \in Nat \X Nat : p[1] < p[2]}
<1>1. IsWellFoundedOn(Less, Nat)
  BY NatLessThanWellFounded DEF OpToRel
<1>2. \A m, n \in Nat : m < n => <<m, n>> \in Less
  OBVIOUS
<1> HIDE DEF Less
<1>3. PICK n \in S : \A m \in S : <<m, n>> \notin Less
  BY <1>1, WFMin
<1>4. \A m \in S : m \in Nat /\ n \in Nat /\ ~(m < n)
  BY <1>2, <1>3
<1> QED
  BY <1>4

\* The smallest and the largest number of a bounded set.
LEMMA Extremes ==
  ASSUME NEW N \in Nat, NEW S, S \subseteq 0 .. N, S # {}
  PROVE  /\ \E x \in S : \A y \in S : x <= y
         /\ \E x \in S : \A y \in S : x >= y
<1>1. \A n \in S : n \in Nat /\ N - n \in Nat
  OBVIOUS
<1>2. \E x \in S : \A y \in S : x <= y
  BY <1>1, Smallest
<1>3. \E x \in S : \A y \in S : x >= y
  <2> DEFINE T == {N - n : n \in S}
  <2>1. T \subseteq Nat /\ T # {}
    BY <1>1
  <2>2. PICK t \in T : \A u \in T : t <= u
    BY <2>1, Smallest
  <2>3. PICK m \in S : t = N - m
    OBVIOUS
  <2>4. \A n \in S : N - m <= N - n
    BY <2>2, <2>3
  <2> QED
    BY <1>1, <2>4
<1> QED
  BY <1>2, <1>3

\* So has a finite one a largest.
LEMMA Largest ==
  ASSUME NEW S, S \subseteq Nat, IsFiniteSet(S), S # {}
  PROVE  Max(S) \in S /\ \A y \in S : y <= Max(S)
<1> DEFINE Topless(T) == T \subseteq Nat /\ T # {} /\ ~ \E x \in T : \A y \in T : x >= y
           Sizes == {n \in Nat : \E T : IsFiniteSet(T) /\ Cardinality(T) = n /\ Topless(T)}
<1>1. Sizes = {}
  <2> SUFFICES ASSUME Sizes # {} PROVE FALSE
    OBVIOUS
  <2>1. PICK n \in Sizes : \A m \in Sizes : n <= m
    BY Smallest
  <2>2. PICK T : IsFiniteSet(T) /\ Cardinality(T) = n /\ Topless(T)
    OBVIOUS
  <2>3. PICK x \in T : TRUE
    BY <2>2
  <2>4. IsFiniteSet(T \ {x}) /\ Cardinality(T \ {x}) = n - 1
    BY <2>2, <2>3, FS_RemoveElement
  <2>5. Cardinality(T \ {x}) \in Nat /\ n \in Nat
    BY <2>4, FS_CardinalityType
  <2>6. n - 1 \notin Sizes
    BY <2>1, <2>4, <2>5
  <2>7. ~Topless(T \ {x})
    BY <2>4, <2>5, <2>6
  <2>8. CASE T \ {x} = {}
    <3>1. \A y \in T : x >= y
      BY <2>2, <2>3, <2>8
    <3> QED
      BY <2>2, <2>3, <3>1
  <2>9. CASE T \ {x} # {}
    <3>1. PICK z \in T \ {x} : \A y \in T \ {x} : z >= y
      BY <2>2, <2>7, <2>9
    <3>2. \A y \in T : x >= y \/ z >= y
      BY <2>2, <3>1
    <3>3. x \in Nat /\ z \in Nat /\ z \in T
      BY <2>2, <2>3, <3>1
    <3>4. CASE x >= z
      <4>1. \A y \in T : y \in Nat /\ x >= y
        BY <2>2, <3>2, <3>3, <3>4
      <4> QED
        BY <2>2, <2>3, <4>1
    <3>5. CASE ~(x >= z)
      <4>1. \A y \in T : y \in Nat /\ z >= y
        BY <2>2, <3>2, <3>3, <3>5
      <4> QED
        BY <2>2, <3>3, <4>1
    <3> QED
      BY <3>4, <3>5
  <2> QED
    BY <2>8, <2>9
<1>2. Cardinality(S) \in Nat
  BY FS_CardinalityType
<1>3. \E x \in S : \A y \in S : x >= y
  BY <1>1, <1>2
<1>4. Max(S) \in S /\ \A y \in S : Max(S) >= y
  BY <1>3 DEF Max
<1> QED
  BY <1>4

\* A function defined by recursion on 0 .. N, each value drawn from the one before.
IsNext(next, S) == next \in [S \X Nat -> S]

Recurs(g, N, S, start, next) ==
  /\ g \in [0 .. N -> S] /\ g[0] = start
  /\ \A n \in 1 .. N : g[n] = next[<<g[n - 1], n>>]

LEMMA Recursion ==
  ASSUME NEW N \in Nat, NEW S, NEW start \in S, NEW next, IsNext(next, S)
  PROVE  \E g : Recurs(g, N, S, start, next)
<1>0. next \in [S \X Nat -> S]
  BY DEF IsNext
<1> DEFINE Is(g, k) == /\ g \in [0 .. k -> S] /\ g[0] = start
                       /\ \A n \in 1 .. k : g[n] = next[<<g[n - 1], n>>]
           T == {k \in Nat : ~ \E g : Is(g, k)}
<1>1. T = {}
  <2> SUFFICES ASSUME T # {} PROVE FALSE
    OBVIOUS
  <2>1. PICK k \in T : \A m \in T : k <= m
    BY Smallest
  <2>2. k # 0
    <3> DEFINE g == [n \in 0 .. 0 |-> start]
    <3>1. Is(g, 0)
      OBVIOUS
    <3> QED
      BY <2>1, <3>1
  <2>3. PICK g : Is(g, k - 1)
    <3>1. k - 1 \in Nat /\ ~(k <= k - 1)
      BY <2>1, <2>2
    <3>2. k - 1 \notin T
      BY <2>1, <3>1
    <3> QED
      BY <3>1, <3>2
  <2> DEFINE x == next[<<g[k - 1], k>>]
             h == [n \in 0 .. k |-> IF n = k THEN x ELSE g[n]]
  <2>4. k \in Nat /\ k - 1 \in 0 .. k - 1 /\ g[k - 1] \in S
    BY <2>1, <2>2, <2>3
  <2>5. x \in S
    BY <1>0, <2>4
  <2> HIDE DEF x
  <2>6. h \in [0 .. k -> S]
    BY <2>3, <2>4, <2>5
  <2>7. h[0] = start
    BY <2>2, <2>3, <2>4
  <2>8. ASSUME NEW n \in 1 .. k PROVE h[n] = next[<<h[n - 1], n>>]
    <3>1. n - 1 \in 0 .. k /\ n - 1 # k /\ h[n - 1] = g[n - 1]
      BY <2>4
    <3>2. CASE n = k
      BY <2>4, <3>1, <3>2 DEF x
    <3>3. CASE n # k
      <4>1. n \in 1 .. k - 1 /\ h[n] = g[n]
        BY <2>4, <3>3
      <4>2. g[n] = next[<<g[n - 1], n>>]
        BY <2>3, <4>1
      <4> QED
        BY <3>1, <4>1, <4>2
    <3> QED
      BY <3>2, <3>3
  <2>9. Is(h, k)
    BY <2>6, <2>7, <2>8
  <2> QED
    BY <2>1, <2>9
<1>2. PICK g : Is(g, N)
  BY <1>1
<1>3. Recurs(g, N, S, start, next)
  BY <1>2 DEF Recurs
<1> QED
  BY <1>3

(***************************************************************************)
(* The daily compaction                                                    *)
(***************************************************************************)

RowType == [ts : 0 .. LastHour, id : TradeIds \cup {"row"}]

Segments == [hour : Int, seq : Int, rows : Seq(RowType) \ {<<>>}]

\* The extremes of a segment's rows are timestamps of some of them.
LEMMA SpanIs ==
  ASSUME LastHour \in Nat, NEW s \in Segments
  PROVE  /\ Compact!MinTs(s) \in Compact!Stamps(s) /\ Compact!MaxTs(s) \in Compact!Stamps(s)
         /\ Compact!Stamps(s) \subseteq 0 .. LastHour
         /\ \A x \in Compact!Stamps(s) : Compact!MinTs(s) <= x /\ x <= Compact!MaxTs(s)
<1> DEFINE S == Compact!Stamps(s)
<1>1. s.rows \in Seq(RowType) /\ s.rows # <<>>
  BY DEF Segments
<1>2. S \subseteq 0 .. LastHour
  <2>1. \A i \in DOMAIN s.rows : s.rows[i] \in RowType
    BY <1>1
  <2>2. \A i \in DOMAIN s.rows : s.rows[i].ts \in 0 .. LastHour
    BY <2>1 DEF RowType
  <2> QED
    BY <2>2 DEF Compact!Stamps
<1>3. S # {}
  <2>1. 1 \in DOMAIN s.rows
    BY <1>1
  <2> QED
    BY <2>1 DEF Compact!Stamps
<1> HIDE DEF S
<1>4. (\E x \in S : \A y \in S : x <= y) /\ (\E x \in S : \A y \in S : x >= y)
  BY <1>2, <1>3, Extremes
<1>5. Compact!Min(S) \in S /\ \A x \in S : Compact!Min(S) <= x
  BY <1>4 DEF Compact!Min
<1>6. Compact!Max(S) \in S /\ \A x \in S : Compact!Max(S) >= x
  BY <1>4 DEF Compact!Max
<1>7. \A x \in S : x <= Compact!Max(S)
  BY <1>2, <1>6
<1> QED
  BY <1>2, <1>5, <1>6, <1>7 DEF Compact!MinTs, Compact!MaxTs, S

\* What a run checks of the sources it is about to write, and what follows for any two of
\* them: neighbours in order put all in order.
Checked(q) ==
  /\ q \in Seq(Segments) /\ Compact!CrossSourceOrder(q)
  /\ \A i, j \in DOMAIN q : i # j => q[i] # q[j]

InOrder(file) ==
  \A i, j \in DOMAIN file : i < j =>
    LET s == file[i]  t == file[j]
    IN /\ s # t
       /\ IF stream = "trades" THEN Compact!MaxTs(s) <= Compact!MinTs(t)
                               ELSE Compact!MaxTs(s) < Compact!MinTs(t)
       /\ Compact!Range(s.rows) \cap Compact!Range(t.rows) # {} =>
            j > i + 1 /\ \A k \in i + 1 .. j - 1 : Compact!Stamps(file[k]) = {Compact!MaxTs(s)}

LEMMA NeighboursSuffice ==
  ASSUME LastHour \in Nat, NEW q, Checked(q)
  PROVE  \A i, j \in DOMAIN q : i < j =>
           IF stream = "trades" THEN Compact!MaxTs(q[i]) <= Compact!MinTs(q[j])
                                ELSE Compact!MaxTs(q[i]) < Compact!MinTs(q[j])
<1> DEFINE lo(i) == Compact!MinTs(q[i])
           hi(i) == Compact!MaxTs(q[i])
           Bad(i) == {j \in i + 1 .. Len(q) : ~(IF stream = "trades" THEN hi(i) <= lo(j) ELSE hi(i) < lo(j))}
<1>1. q \in Seq(Segments) /\ Len(q) \in Nat /\ DOMAIN q = 1 .. Len(q)
  BY DEF Checked
<1>2. \A i \in DOMAIN q : lo(i) \in Nat /\ hi(i) \in Nat /\ lo(i) <= hi(i)
  <2> SUFFICES ASSUME NEW i \in DOMAIN q PROVE lo(i) \in Nat /\ hi(i) \in Nat /\ lo(i) <= hi(i)
    OBVIOUS
  <2>1. q[i] \in Segments
    BY <1>1
  <2> QED
    BY <2>1, SpanIs
<1>3. \A i \in 2 .. Len(q) : IF stream = "trades" THEN hi(i - 1) <= lo(i) ELSE hi(i - 1) < lo(i)
  <2> SUFFICES ASSUME NEW i \in 2 .. Len(q)
               PROVE IF stream = "trades" THEN hi(i - 1) <= lo(i) ELSE hi(i - 1) < lo(i)
    OBVIOUS
  <2>1. IF stream = "trades" THEN lo(i) >= hi(i - 1) ELSE lo(i) > hi(i - 1)
    BY DEF Checked, Compact!CrossSourceOrder
  <2>2. i \in DOMAIN q /\ i - 1 \in DOMAIN q
    BY <1>1
  <2> QED
    BY <1>2, <2>1, <2>2
<1> HIDE DEF lo, hi
<1>4. ASSUME NEW i \in DOMAIN q PROVE Bad(i) = {}
  <2> SUFFICES ASSUME Bad(i) # {} PROVE FALSE
    OBVIOUS
  <2>1. i \in Nat /\ Bad(i) \subseteq Nat
    BY <1>1
  <2>2. PICK j \in Bad(i) : \A k \in Bad(i) : j <= k
    BY <2>1, Smallest
  <2>3. j \in i + 1 .. Len(q) /\ ~(IF stream = "trades" THEN hi(i) <= lo(j) ELSE hi(i) < lo(j))
    OBVIOUS
  <2>4. j - 1 \in DOMAIN q /\ j \in 2 .. Len(q) /\ j \in DOMAIN q
    BY <1>1, <2>1, <2>3
  <2>5. IF stream = "trades" THEN hi(j - 1) <= lo(j) ELSE hi(j - 1) < lo(j)
    BY <1>3, <2>4
  <2>6. CASE j = i + 1
    BY <2>3, <2>5, <2>6, <2>1
  <2>7. CASE j # i + 1
    <3>1. j - 1 \in i + 1 .. Len(q) /\ ~(j <= j - 1)
      BY <1>1, <2>1, <2>3, <2>7
    <3>2. j - 1 \notin Bad(i)
      BY <2>2, <3>1
    <3> HIDE <2>2 DEF Bad
    <3>3. IF stream = "trades" THEN hi(i) <= lo(j - 1) ELSE hi(i) < lo(j - 1)
      BY <3>1, <3>2 DEF Bad
    <3> QED
      BY <1>2, <2>3, <2>4, <2>5, <3>3
  <2> QED
    BY <2>6, <2>7
<1> QED
  <2> SUFFICES ASSUME NEW i \in DOMAIN q, NEW j \in DOMAIN q, i < j
               PROVE  IF stream = "trades" THEN hi(i) <= lo(j) ELSE hi(i) < lo(j)
    BY DEF lo, hi
  <2>1. j \in i + 1 .. Len(q)
    BY <1>1
  <2> QED
    BY <1>4, <2>1

LEMMA CheckedInOrder ==
  ASSUME LastHour \in Nat, NEW q, Checked(q)
  PROVE  InOrder(q)
<1>1. q \in Seq(Segments) /\ Len(q) \in Nat /\ DOMAIN q = 1 .. Len(q)
  BY DEF Checked
<1> SUFFICES ASSUME NEW i \in DOMAIN q, NEW j \in DOMAIN q, i < j
             PROVE  /\ q[i] # q[j]
                    /\ IF stream = "trades" THEN Compact!MaxTs(q[i]) <= Compact!MinTs(q[j])
                                            ELSE Compact!MaxTs(q[i]) < Compact!MinTs(q[j])
                    /\ Compact!Range(q[i].rows) \cap Compact!Range(q[j].rows) # {} =>
                         /\ j > i + 1
                         /\ \A k \in i + 1 .. j - 1 : Compact!Stamps(q[k]) = {Compact!MaxTs(q[i])}
  BY DEF InOrder
<1>2. q[i] # q[j]
  BY <1>1 DEF Checked
<1>3. \A a, b \in DOMAIN q : a < b =>
        IF stream = "trades" THEN Compact!MaxTs(q[a]) <= Compact!MinTs(q[b])
                             ELSE Compact!MaxTs(q[a]) < Compact!MinTs(q[b])
  BY NeighboursSuffice
<1>4. ASSUME NEW row, row \in Compact!Range(q[i].rows), row \in Compact!Range(q[j].rows)
      PROVE  /\ j > i + 1
             /\ \A k \in i + 1 .. j - 1 : Compact!Stamps(q[k]) = {Compact!MaxTs(q[i])}
  <2>1. \A k \in DOMAIN q :
          /\ Compact!MinTs(q[k]) \in Compact!Stamps(q[k]) /\ Compact!MaxTs(q[k]) \in Compact!Stamps(q[k])
          /\ Compact!Stamps(q[k]) \subseteq Nat
          /\ \A x \in Compact!Stamps(q[k]) : Compact!MinTs(q[k]) <= x /\ x <= Compact!MaxTs(q[k])
    <3> SUFFICES ASSUME NEW k \in DOMAIN q
                 PROVE  /\ Compact!MinTs(q[k]) \in Compact!Stamps(q[k])
                        /\ Compact!MaxTs(q[k]) \in Compact!Stamps(q[k])
                        /\ Compact!Stamps(q[k]) \subseteq Nat
                        /\ \A x \in Compact!Stamps(q[k]) :
                             Compact!MinTs(q[k]) <= x /\ x <= Compact!MaxTs(q[k])
      OBVIOUS
    <3>1. q[k] \in Segments
      BY <1>1
    <3> QED
      BY <3>1, SpanIs
  <2>2. row.ts \in Compact!Stamps(q[i]) /\ row.ts \in Compact!Stamps(q[j])
    BY <1>4 DEF Compact!Range, Compact!Stamps
  <2> DEFINE x == row.ts
  <2>3. x \in Nat /\ x <= Compact!MaxTs(q[i]) /\ Compact!MinTs(q[j]) <= x
    BY <2>1, <2>2
  <2> HIDE DEF x
  <2>4. Compact!MaxTs(q[i]) \in Nat /\ Compact!MinTs(q[j]) \in Nat
    BY <2>1
  <2>5. stream = "trades" /\ Compact!MaxTs(q[i]) = x /\ Compact!MinTs(q[j]) = x
    BY <1>3, <2>3, <2>4
  <2>6. j # i + 1
    <3> SUFFICES ASSUME j = i + 1 PROVE FALSE
      OBVIOUS
    <3>1. j \in 2 .. Len(q) /\ i = j - 1
      BY <1>1
    <3>2. Compact!Range(q[j].rows) \cap Compact!Range(q[j - 1].rows) = {}
      BY <2>5, <3>1 DEF Checked, Compact!CrossSourceOrder
    <3> QED
      BY <1>4, <3>1, <3>2
  <2>7. ASSUME NEW k \in i + 1 .. j - 1 PROVE Compact!Stamps(q[k]) = {Compact!MaxTs(q[i])}
    <3>1. k \in DOMAIN q /\ i < k /\ k < j
      BY <1>1
    <3>2. Compact!MaxTs(q[i]) <= Compact!MinTs(q[k]) /\ Compact!MaxTs(q[k]) <= Compact!MinTs(q[j])
      BY <1>3, <2>5, <3>1
    <3>3. \A y \in Compact!Stamps(q[k]) : y = x
      BY <2>1, <2>3, <2>5, <3>1, <3>2
    <3> QED
      BY <2>1, <2>5, <3>1, <3>3
  <2>8. j > i + 1
    BY <1>1, <2>6
  <2> QED
    BY <2>7, <2>8
<1> QED
  BY <1>2, <1>3, <1>4

\* A run leaves nothing out that was there when it began, but what it says.
Accounted(s, listed, skipped) ==
  \/ s \in listed \/ s.hour \in skipped
  \/ s.seq = Compact!Legacy /\ Compact!OfHour(s.hour, FALSE) # {}

Found == [present : SUBSET Segments, sources : Seq(Segments), missing : SUBSET Compact!Day,
          skipped : SUBSET Compact!Day, basis : SUBSET Segments]

CompactTypes ==
  /\ step \in {"idle", "discover", "write", "sidecar"}
  /\ now \in 1 .. LastHour + 1 /\ at \in 1 .. LastHour + 1 /\ clock \in 1 .. LastHour + 1
  /\ spoiled \in BOOLEAN /\ cut \in BOOLEAN
  /\ stream \in {"trades", "markprice"}
  /\ IsFiniteSet(raw) /\ raw \subseteq Segments /\ \A s \in raw : s.hour \in Compact!Day
  /\ open \in {<<>>} \cup {<<s>> : s \in {s \in Segments : s.hour \in Compact!Day}}
  /\ found \in Found /\ found.present \subseteq raw /\ found.basis \subseteq raw
  /\ daily \in Seq(Segments) /\ Compact!Range(daily) \subseteq raw

\* The hours a run has looked into.
Discovered ==
  step # "idle" => \A s \in found.basis : s.hour < at => Accounted(s, found.present, found.skipped)

\* What a run writes are all the segments it found, checked.
Writing ==
  step \in {"write", "sidecar"} =>
    /\ at = LastHour + 1
    /\ Checked(found.sources) /\ Compact!Range(found.sources) = found.present
    /\ step = "write" => /\ tmp \in Seq(Segments) /\ Len(tmp) <= Len(found.sources)
                         /\ \A i \in 1 .. Len(tmp) : tmp[i] = found.sources[i]
    /\ step = "sidecar" => daily = found.sources

SidecarTrue ==
  ~cut /\ meta # <<>> =>
    \A s \in meta[1].basis : Accounted(s, Compact!Range(daily), meta[1].skipped)

CompactIInv == CompactTypes /\ Discovered /\ Writing /\ InOrder(daily) /\ SidecarTrue

LEMMA CompactStarts ==
  ASSUME Compact!Init PROVE CompactIInv
<1>1. LastHour \in Nat /\ 1 \in Compact!Day /\ 1 \in 1 .. LastHour + 1
  BY CompactBounds DEF Compact!CompactAssumption, Compact!Day
<1>2. /\ stream \in {"trades", "markprice"} /\ open = <<>> /\ clock = 1 /\ spoiled = FALSE
      /\ step = "idle" /\ now = 1 /\ at = 1 /\ found = Compact!Nothing
      /\ daily = <<>> /\ meta = <<>> /\ cut = FALSE
  BY DEF Compact!Init, Compact!None
<1>3. IsFiniteSet(raw) /\ raw \subseteq Segments /\ \A s \in raw : s.hour \in Compact!Day
  <2>1. CASE raw = {}
    BY <2>1, FS_EmptySet
  <2>2. CASE raw # {}
    <3>1. PICK row \in [ts : {1}, id : Compact!Ids] :
            raw = {[hour |-> 1, seq |-> Compact!Legacy, rows |-> <<row>>]}
      BY <2>2 DEF Compact!Init
    <3>2. row \in RowType
      <4>1. 1 \in 0 .. LastHour
        BY <1>1 DEF Compact!Day
      <4>2. Compact!Ids \subseteq TradeIds \cup {"row"}
        BY DEF Compact!Ids
      <4> QED
        BY <4>1, <4>2 DEF RowType
    <3>3. <<row>> \in Seq(RowType) \ {<<>>} /\ Compact!Legacy \in Int
      BY <3>2 DEF Compact!Legacy
    <3>4. [hour |-> 1, seq |-> Compact!Legacy, rows |-> <<row>>] \in Segments
      BY <3>3 DEF Segments
    <3>5. IsFiniteSet(raw)
      BY ONLY <3>1, FS_Singleton
    <3> QED
      BY <1>1, <3>1, <3>4, <3>5
  <2> QED
    BY <2>1, <2>2
<1>4. found \in Found /\ found.present \subseteq raw /\ found.basis \subseteq raw
  BY <1>2 DEF Compact!Nothing, Found
<1>5. daily \in Seq(Segments) /\ Compact!Range(daily) \subseteq raw /\ InOrder(daily)
  BY <1>2 DEF Compact!Range, InOrder
<1>6. CompactTypes
  BY <1>1, <1>2, <1>3, <1>4, <1>5 DEF CompactTypes
<1> QED
  BY <1>2, <1>5, <1>6 DEF CompactIInv, Discovered, Writing, SidecarTrue

\* What a step of the collector leaves true: it only adds segments.
LEMMA MoreSegments ==
  ASSUME CompactIInv, raw \subseteq raw', raw' \subseteq Segments, IsFiniteSet(raw'),
         \A s \in raw' : s.hour \in Compact!Day,
         clock' \in 1 .. LastHour + 1, spoiled' \in BOOLEAN,
         open' \in {<<>>} \cup {<<s>> : s \in {s \in Segments : s.hour \in Compact!Day}},
         UNCHANGED <<stream, step, now, at, found, daily, tmp, meta, cut>>
  PROVE  CompactIInv'
<1>1. CompactTypes'
  BY DEF CompactIInv, CompactTypes
<1>2. \A s, listed, skipped : Accounted(s, listed, skipped) => Accounted(s, listed, skipped)'
  BY DEF Accounted, Compact!OfHour
<1>3. Discovered'
  BY <1>2 DEF CompactIInv, Discovered
<1>4. Writing'
  BY DEF CompactIInv, Writing, Checked, Compact!CrossSourceOrder
<1>5. InOrder(daily)'
  BY DEF CompactIInv, InOrder
<1>6. SidecarTrue'
  BY <1>2 DEF CompactIInv, SidecarTrue
<1> QED
  BY <1>1, <1>3, <1>4, <1>5, <1>6 DEF CompactIInv

LEMMA CardIs == \A S : Compact!Cardinality(S) = Cardinality(S)
  BY DEF Compact!Cardinality, Cardinality

LEMMA CollectorStep ==
  ASSUME CompactIInv, Compact!Writes \/ Compact!Publishes \/ Compact!HourEnds
  PROVE  CompactIInv'
<1> DEFINE Opens == {<<>>} \cup {<<s>> : s \in {s \in Segments : s.hour \in Compact!Day}}
<1>1. /\ LastHour \in Nat /\ clock \in 1 .. LastHour + 1 /\ spoiled \in BOOLEAN
      /\ IsFiniteSet(raw) /\ raw \subseteq Segments /\ \A s \in raw : s.hour \in Compact!Day
      /\ open \in Opens
  BY CompactBounds DEF Compact!CompactAssumption, CompactIInv, CompactTypes
<1>2. CASE Compact!Writes
  <2>1. /\ clock \in Compact!Day
        /\ UNCHANGED <<stream, raw, clock, spoiled, step, now, at, found, daily, tmp, meta, cut>>
    BY <1>2 DEF Compact!Writes, Compact!run, Compact!files
  <2>2. PICK ts \in clock - 1 .. clock, id \in Compact!Ids :
          open' = IF open = <<>>
                  THEN << [hour |-> clock, seq |-> Compact!Cardinality(Compact!OfHour(clock, FALSE)),
                           rows |-> << [ts |-> ts, id |-> id] >>] >>
                  ELSE << [open[1] EXCEPT !.rows = Append(@, [ts |-> ts, id |-> id])] >>
    BY <1>2 DEF Compact!Writes, Compact!None
  <2> DEFINE row == [ts |-> ts, id |-> id]
  <2>3. row \in RowType
    <3>1. ts \in 0 .. LastHour
      BY <1>1, <2>1 DEF Compact!Day
    <3>2. id \in TradeIds \cup {"row"}
      BY DEF Compact!Ids
    <3> QED
      BY <3>1, <3>2 DEF RowType
  <2>4. open' = IF open = <<>>
                THEN << [hour |-> clock, seq |-> Compact!Cardinality(Compact!OfHour(clock, FALSE)),
                         rows |-> <<row>>] >>
                ELSE << [open[1] EXCEPT !.rows = Append(@, row)] >>
    BY <2>2
  <2> HIDE DEF row
  <2>5. open' \in Opens
    <3>1. CASE open = <<>>
      <4>1. Compact!OfHour(clock, FALSE) \in SUBSET raw
        BY DEF Compact!OfHour
      <4>2. Compact!Cardinality(Compact!OfHour(clock, FALSE)) \in Int
        <5> DEFINE hour == Compact!OfHour(clock, FALSE)
        <5>1. IsFiniteSet(hour)
          BY <1>1, <4>1, FS_Subset
        <5> HIDE DEF hour
        <5>2. Cardinality(hour) \in Nat
          BY <5>1, FS_CardinalityType
        <5>3. Compact!Cardinality(hour) = Cardinality(hour)
          BY CardIs
        <5>4. Compact!Cardinality(hour) \in Int
          BY <5>2, <5>3
        <5> QED
          BY <5>4 DEF hour
      <4>3. <<row>> \in Seq(RowType) \ {<<>>} /\ clock \in Int
        BY <1>1, <2>3
      <4>4. [hour |-> clock, seq |-> Compact!Cardinality(Compact!OfHour(clock, FALSE)),
             rows |-> <<row>>] \in Segments
        BY <4>2, <4>3 DEF Segments
      <4> QED
        BY <2>1, <2>4, <3>1, <4>4
    <3>2. CASE open # <<>>
      <4>1. PICK s \in Segments : s.hour \in Compact!Day /\ open = <<s>>
        BY <1>1, <3>2
      <4>2. open' = << [s EXCEPT !.rows = Append(@, row)] >>
        BY <2>4, <4>1
      <4>3. Append(s.rows, row) \in Seq(RowType) \ {<<>>}
        BY <2>3 DEF Segments
      <4>4. [s EXCEPT !.rows = Append(@, row)] \in Segments /\ [s EXCEPT !.rows = Append(@, row)].hour = s.hour
        BY <4>3 DEF Segments
      <4> QED
        BY <4>1, <4>2, <4>4
    <3> QED
      BY <3>1, <3>2
  <2> QED
    BY <1>1, <2>1, <2>5, MoreSegments
<1>3. CASE Compact!Publishes
  <2>1. /\ open # <<>> /\ open' = <<>> /\ raw' = raw \cup {open[1]}
        /\ UNCHANGED <<stream, clock, spoiled, step, now, at, found, daily, tmp, meta, cut>>
    BY <1>3 DEF Compact!Publishes, Compact!run, Compact!files, Compact!None
  <2>2. PICK s \in Segments : s.hour \in Compact!Day /\ open = <<s>>
    BY <1>1, <2>1
  <2>3. raw' = raw \cup {s}
    BY <2>1, <2>2
  <2>4. IsFiniteSet(raw')
    BY <1>1, <2>3, FS_AddElement
  <2> QED
    BY <1>1, <2>1, <2>2, <2>3, <2>4, MoreSegments
<1>4. CASE Compact!HourEnds
  <2>1. /\ clock \in Compact!Day /\ clock' = clock + 1
        /\ UNCHANGED <<stream, raw, open, spoiled, step, now, at, found, daily, tmp, meta, cut>>
    BY <1>4 DEF Compact!HourEnds, Compact!run, Compact!files
  <2>2. clock' \in 1 .. LastHour + 1
    BY <1>1, <2>1 DEF Compact!Day
  <2> QED
    BY <1>1, <2>1, <2>2, MoreSegments
<1> QED
  BY <1>2, <1>3, <1>4

\* The sequences a run sorts its segments into hold each of them once.
LEMMA SortedIs ==
  ASSUME NEW segments, IsFiniteSet(segments), NEW q \in Compact!Sorted(segments)
  PROVE  /\ q \in Seq(segments) /\ Compact!Range(q) = segments
         /\ \A i, j \in DOMAIN q : i # j => q[i] # q[j]
<1>1. Cardinality(segments) \in Nat
  BY FS_CardinalityType
<1>2. q \in Compact!Bijection(1 .. Cardinality(segments), segments)
  BY CardIs DEF Compact!Sorted
<1>3. /\ q \in [1 .. Cardinality(segments) -> segments]
      /\ \A a, b \in DOMAIN q : q[a] = q[b] => a = b
      /\ \A t \in segments : \E i \in 1 .. Cardinality(segments) : q[i] = t
  BY <1>2 DEF Compact!Bijection, Compact!Injection, Compact!Surjection, Compact!IsInjective
<1>4. q \in Seq(segments)
  BY <1>1, <1>3
<1> QED
  BY <1>3, <1>4 DEF Compact!Range

LEMMA RunStep ==
  ASSUME CompactIInv, UNCHANGED Compact!collector,
         Compact!Discover \/ Compact!Inspect \/ Compact!WriteGroup \/ Compact!Replace
           \/ Compact!Sidecar \/ Compact!Killed
  PROVE  CompactIInv'
<1>0. UNCHANGED <<stream, raw, open, clock, spoiled>>
  BY DEF Compact!collector
<1>1. /\ LastHour \in Nat /\ at \in 1 .. LastHour + 1 /\ now \in 1 .. LastHour + 1
      /\ IsFiniteSet(raw) /\ raw \subseteq Segments /\ \A s \in raw : s.hour \in Compact!Day
      /\ found \in Found /\ found.present \subseteq raw /\ found.basis \subseteq raw
      /\ cut \in BOOLEAN
  BY CompactBounds DEF Compact!CompactAssumption, CompactIInv, CompactTypes
<1>2. \A s, listed, skipped : Accounted(s, listed, skipped)' = Accounted(s, listed, skipped)
  BY <1>0 DEF Accounted, Compact!OfHour
<1>3. ASSUME Compact!Ends
      PROVE  /\ step' = "idle" /\ now' = 1 /\ at' = 1 /\ found' = Compact!Nothing /\ found' \in Found
             /\ found'.present = {} /\ found'.basis = {} /\ Discovered' /\ Writing'
  BY <1>3 DEF Compact!Ends, Compact!Nothing, Found, Discovered, Writing
<1>4. UNCHANGED daily => InOrder(daily)'
  BY <1>0 DEF CompactIInv, InOrder
<1>5. UNCHANGED <<daily, meta, cut>> => SidecarTrue'
  BY <1>2 DEF CompactIInv, SidecarTrue
<1>6. ASSUME step' \in {"idle", "discover", "write", "sidecar"}, now' \in 1 .. LastHour + 1,
             at' \in 1 .. LastHour + 1, cut' \in BOOLEAN,
             found' \in Found, found'.present \subseteq raw, found'.basis \subseteq raw,
             daily' \in Seq(Segments), Compact!Range(daily') \subseteq raw
      PROVE  CompactTypes'
  BY <1>0, <1>6 DEF CompactIInv, CompactTypes, Compact!Day
<1>7. daily \in Seq(Segments) /\ Compact!Range(daily) \subseteq raw
  BY DEF CompactIInv, CompactTypes
<1>8. CASE Compact!Discover
  <2> DEFINE paths == Compact!IterSegments(at)
  <2>1. /\ at \in Compact!Day /\ at' = at + 1 /\ step = "discover"
        /\ UNCHANGED <<step, now, daily, tmp, meta, cut>>
    BY <1>8 DEF Compact!Discover, Compact!files
  <2>2. \/ found' = [found EXCEPT !.skipped = @ \cup {at}]
        \/ paths = {} /\ found' = [found EXCEPT !.missing = @ \cup {at}]
        \/ found' = [found EXCEPT !.present = @ \cup paths]
    BY <1>8 DEF Compact!Discover
  <2>3. paths \subseteq raw
    BY DEF Compact!IterSegments, Compact!OfHour
  <2>4. ASSUME NEW s \in raw, s.hour = at
        PROVE  \/ s \in paths
               \/ s.seq = Compact!Legacy /\ Compact!OfHour(s.hour, FALSE) # {}
    <3>1. CASE s.seq # Compact!Legacy
      <4>1. s \in Compact!OfHour(at, FALSE)
        BY <2>4, <3>1 DEF Compact!OfHour
      <4> QED
        BY <4>1 DEF Compact!IterSegments
    <3>2. CASE s.seq = Compact!Legacy
      <4>1. s \in Compact!OfHour(at, TRUE)
        BY <2>4, <3>2 DEF Compact!OfHour
      <4> QED
        BY <2>4, <3>2, <4>1 DEF Compact!IterSegments
    <3> QED
      BY <3>1, <3>2
  <2> HIDE DEF paths
  <2>5. at \in Nat /\ at' \in 1 .. LastHour + 1
    BY <1>1, <2>1 DEF Compact!Day
  <2>6. /\ found' \in Found /\ found'.basis = found.basis /\ found'.present \subseteq raw
        /\ found.present \subseteq found'.present /\ found.skipped \subseteq found'.skipped
        /\ at \in found'.skipped \/ paths \subseteq found'.present
    <3>1. CASE found' = [found EXCEPT !.skipped = @ \cup {at}]
      BY <1>1, <2>1, <3>1 DEF Found
    <3>2. CASE paths = {} /\ found' = [found EXCEPT !.missing = @ \cup {at}]
      BY <1>1, <2>1, <3>2 DEF Found
    <3>3. CASE found' = [found EXCEPT !.present = @ \cup paths]
      BY <1>1, <2>3, <3>3 DEF Found
    <3> QED
      BY <2>2, <3>1, <3>2, <3>3
  <2>7. Discovered'
    <3> SUFFICES ASSUME NEW s \in found.basis, s.hour < at + 1
                 PROVE  Accounted(s, found'.present, found'.skipped)
      BY <1>2, <2>1, <2>6 DEF Discovered
    <3>1. s \in raw /\ s.hour \in Int
      BY <1>1 DEF Segments
    <3>2. CASE s.hour < at
      <4>1. Accounted(s, found.present, found.skipped)
        BY <2>1, <3>2 DEF CompactIInv, Discovered
      <4> QED
        BY <2>6, <4>1 DEF Accounted
    <3>3. CASE s.hour = at
      BY <2>4, <2>6, <3>1, <3>3 DEF Accounted
    <3> QED
      BY <2>5, <3>1, <3>2, <3>3
  <2>8. Writing'
    BY <2>1 DEF Writing
  <2>9. CompactTypes'
    BY <1>1, <1>6, <1>7, <2>1, <2>5, <2>6
  <2> QED
    BY <1>4, <1>5, <2>1, <2>7, <2>8, <2>9 DEF CompactIInv
<1>9. CASE Compact!Inspect
  <2>1. /\ step = "discover" /\ at \notin Compact!Day /\ UNCHANGED <<daily, meta, cut>>
    BY <1>9 DEF Compact!Inspect
  <2>2. PICK q \in Compact!Sorted(found.present) :
          \/ /\ Compact!CrossSourceOrder(q)
             /\ step' = "write" /\ tmp' = <<>> /\ UNCHANGED <<now, at>>
             /\ found' = [found EXCEPT !.sources = q]
          \/ Compact!Ends
    BY <1>9 DEF Compact!Inspect, Compact!None
  <2>3. at = LastHour + 1
    BY <1>1, <2>1 DEF Compact!Day
  <2>4. CASE Compact!Ends
    <3>1. CompactTypes'
      BY <1>1, <1>3, <1>6, <1>7, <2>1, <2>4
    <3> QED
      BY <1>3, <1>4, <1>5, <2>1, <2>4, <3>1 DEF CompactIInv
  <2>5. CASE /\ Compact!CrossSourceOrder(q)
             /\ step' = "write" /\ tmp' = <<>> /\ UNCHANGED <<now, at>>
             /\ found' = [found EXCEPT !.sources = q]
    <3>1. /\ q \in Seq(found.present) /\ Compact!Range(q) = found.present
          /\ \A i, j \in DOMAIN q : i # j => q[i] # q[j]
      <4>1. IsFiniteSet(found.present)
        BY <1>1, FS_Subset
      <4> QED
        BY <4>1, SortedIs
    <3>2. q \in Seq(Segments)
      <4>1. found.present \subseteq Segments
        BY <1>1
      <4> QED
        BY <3>1, <4>1
    <3>3. /\ found' \in Found /\ found'.sources = q /\ found'.present = found.present
          /\ found'.basis = found.basis /\ found'.skipped = found.skipped
      BY <1>1, <2>5, <3>2 DEF Found
    <3>4. Checked(q)
      BY <2>5, <3>1, <3>2 DEF Checked
    <3>5. Checked(q)'
      BY <1>0, <3>4 DEF Checked, Compact!CrossSourceOrder
    <3>6. Checked(found.sources)'
      BY <3>3, <3>5 DEF Checked, Compact!CrossSourceOrder
    <3>7. Writing'
      <4>1. tmp' \in Seq(Segments) /\ Len(tmp') = 0 /\ Len(q) \in Nat
        BY <2>5, <3>2
      <4> QED
        BY <2>3, <2>5, <3>1, <3>3, <3>6, <4>1 DEF Writing
    <3>8. Discovered'
      BY <1>2, <2>1, <2>5, <3>3 DEF CompactIInv, Discovered
    <3>9. CompactTypes'
      BY <1>1, <1>6, <1>7, <2>1, <2>5, <3>3
    <3> QED
      BY <1>4, <1>5, <2>1, <3>7, <3>8, <3>9 DEF CompactIInv
  <2> QED
    BY <2>2, <2>4, <2>5
<1>10. CASE Compact!WriteGroup
  <2>1. /\ step = "write" /\ Len(tmp) < Len(found.sources)
        /\ tmp' = Append(tmp, found.sources[Len(tmp) + 1])
        /\ UNCHANGED <<step, now, at, found, daily, meta, cut>>
    BY <1>10 DEF Compact!WriteGroup, Compact!run
  <2>2. /\ at = LastHour + 1 /\ Checked(found.sources) /\ Compact!Range(found.sources) = found.present
        /\ tmp \in Seq(Segments) /\ \A i \in 1 .. Len(tmp) : tmp[i] = found.sources[i]
        /\ found.sources \in Seq(Segments)
    BY <2>1 DEF CompactIInv, Writing, Checked
  <2> DEFINE n == Len(tmp)
             x == found.sources[n + 1]
  <2>3. n \in Nat /\ n + 1 \in 1 .. Len(found.sources) /\ Len(found.sources) \in Nat /\ x \in Segments
    BY <2>1, <2>2
  <2>4. /\ tmp' \in Seq(Segments) /\ Len(tmp') = n + 1
        /\ \A i \in 1 .. n + 1 : tmp'[i] = IF i = n + 1 THEN x ELSE tmp[i]
    BY <2>1, <2>2, <2>3
  <2>5. \A i \in 1 .. Len(tmp') : tmp'[i] = found.sources[i]
    BY <2>2, <2>3, <2>4
  <2>6. Checked(found.sources)'
    BY <1>0, <2>1, <2>2 DEF Checked, Compact!CrossSourceOrder
  <2>7. Writing'
    <3>1. Len(tmp') <= Len(found.sources)
      BY <2>3, <2>4
    <3> QED
      BY <2>1, <2>2, <2>4, <2>5, <2>6, <3>1 DEF Writing
  <2>8. Discovered'
    BY <1>2, <2>1 DEF CompactIInv, Discovered
  <2>9. CompactTypes'
    BY <1>0, <2>1 DEF CompactIInv, CompactTypes, Compact!Day
  <2> QED
    BY <1>4, <1>5, <2>1, <2>7, <2>8, <2>9 DEF CompactIInv
<1>11. CASE Compact!Replace
  <2>1. /\ step = "write" /\ Len(tmp) = Len(found.sources) /\ UNCHANGED meta
        /\ \/ /\ step' = "sidecar" /\ daily' = tmp /\ cut' = TRUE
              /\ UNCHANGED <<now, at, found>>
           \/ Compact!Ends /\ UNCHANGED <<daily, cut>>
    BY <1>11 DEF Compact!Replace
  <2>2. CASE Compact!Ends /\ UNCHANGED <<daily, cut>>
    <3>1. CompactTypes'
      BY <1>1, <1>3, <1>6, <1>7, <2>2
    <3> QED
      BY <1>3, <1>4, <1>5, <2>1, <2>2, <3>1 DEF CompactIInv
  <2>3. CASE /\ step' = "sidecar" /\ daily' = tmp /\ cut' = TRUE
             /\ UNCHANGED <<now, at, found>>
    <3>1. /\ at = LastHour + 1 /\ Checked(found.sources) /\ Compact!Range(found.sources) = found.present
          /\ tmp \in Seq(Segments) /\ \A i \in 1 .. Len(tmp) : tmp[i] = found.sources[i]
          /\ found.sources \in Seq(Segments)
      BY <2>1 DEF CompactIInv, Writing, Checked
    <3>2. tmp = found.sources
      BY <2>1, <3>1
    <3>3. daily' = found.sources
      BY <2>3, <3>2
    <3>4. InOrder(found.sources)
      BY <1>1, <3>1, CheckedInOrder
    <3>5. InOrder(daily)'
      BY <1>0, <3>3, <3>4 DEF InOrder
    <3>6. Checked(found.sources)'
      BY <1>0, <2>3, <3>1 DEF Checked, Compact!CrossSourceOrder
    <3>7. Writing'
      BY <2>3, <3>1, <3>3, <3>6 DEF Writing
    <3>8. Discovered'
      BY <1>2, <2>1, <2>3 DEF CompactIInv, Discovered
    <3>9. CompactTypes'
      BY <1>1, <1>6, <2>3, <3>1, <3>3
    <3> QED
      BY <2>3, <3>5, <3>7, <3>8, <3>9 DEF CompactIInv, SidecarTrue
  <2> QED
    BY <2>1, <2>2, <2>3
<1>12. CASE Compact!Sidecar
  <2>1. /\ step = "sidecar" /\ Compact!Ends /\ UNCHANGED daily
        /\ \/ meta' = Compact!BuildMetadata /\ cut' = FALSE
           \/ UNCHANGED <<meta, cut>>
    BY <1>12 DEF Compact!Sidecar
  <2>2. CompactTypes'
    <3>1. cut' \in BOOLEAN
      BY <1>1, <2>1
    <3> QED
      BY <1>1, <1>3, <1>6, <1>7, <2>1, <3>1
  <2>3. CASE UNCHANGED <<meta, cut>>
    BY <1>3, <1>4, <1>5, <2>1, <2>2, <2>3 DEF CompactIInv
  <2>4. CASE meta' = Compact!BuildMetadata /\ cut' = FALSE
    <3>1. meta'[1].basis = found.basis /\ meta'[1].skipped = found.skipped
      BY <2>4 DEF Compact!BuildMetadata
    <3>2. at = LastHour + 1 /\ Compact!Range(found.sources) = found.present /\ daily = found.sources
      BY <2>1 DEF CompactIInv, Writing
    <3>3. ASSUME NEW s \in found.basis PROVE Accounted(s, Compact!Range(daily), found.skipped)
      <4>1. s.hour < at
        BY <1>1, <3>2 DEF Compact!Day
      <4> QED
        BY <2>1, <3>2, <4>1 DEF CompactIInv, Discovered
    <3>4. SidecarTrue'
      BY <1>2, <2>1, <3>1, <3>3 DEF SidecarTrue
    <3> QED
      BY <1>3, <1>4, <2>1, <2>2, <3>4 DEF CompactIInv
  <2> QED
    BY <2>1, <2>3, <2>4
<1>13. CASE Compact!Killed
  <2>1. Compact!Ends /\ UNCHANGED <<daily, meta, cut>>
    BY <1>13 DEF Compact!Killed, Compact!files
  <2>2. CompactTypes'
    BY <1>1, <1>3, <1>6, <1>7, <2>1
  <2> QED
    BY <1>3, <1>4, <1>5, <2>1, <2>2 DEF CompactIInv
<1> QED
  BY <1>8, <1>9, <1>10, <1>11, <1>12, <1>13

LEMMA StartsStep ==
  ASSUME CompactIInv, NEW force \in BOOLEAN, Compact!Starts(force)
  PROVE  CompactIInv'
<1>1. UNCHANGED <<stream, raw, open, clock, daily, meta, cut>>
  BY DEF Compact!Starts
<1>2. \A s, listed, skipped : Accounted(s, listed, skipped)' = Accounted(s, listed, skipped)
  BY <1>1 DEF Accounted, Compact!OfHour
<1>3. InOrder(daily)' /\ SidecarTrue'
  BY <1>1, <1>2 DEF CompactIInv, InOrder, SidecarTrue
<1>4. CASE UNCHANGED <<step, now, at, found, tmp, spoiled>>
  <2>1. CompactTypes'
    BY <1>1, <1>4 DEF CompactIInv, CompactTypes, Compact!Day
  <2>2. Discovered' /\ Writing'
    BY <1>1, <1>2, <1>4 DEF CompactIInv, Discovered, Writing, Checked, Compact!CrossSourceOrder
  <2> QED
    BY <1>3, <2>1, <2>2 DEF CompactIInv
<1>5. CASE ~UNCHANGED <<step, now, at, found, tmp, spoiled>>
  <2>1. /\ step' = "discover" /\ now' = clock /\ at' = 1
        /\ found' = [Compact!Nothing EXCEPT !.basis = raw]
        /\ spoiled' = (spoiled \/ (force /\ open # Compact!None))
    BY <1>5 DEF Compact!Starts
  <2>2. /\ LastHour \in Nat /\ clock \in 1 .. LastHour + 1 /\ spoiled \in BOOLEAN
        /\ raw \subseteq Segments /\ \A s \in raw : s.hour \in Compact!Day
    BY CompactBounds DEF Compact!CompactAssumption, CompactIInv, CompactTypes
  <2>3. found' \in Found /\ found'.present = {} /\ found'.basis = raw
    <3>1. found' = [present |-> {}, sources |-> <<>>, missing |-> {}, skipped |-> {}, basis |-> raw]
      BY <2>1 DEF Compact!Nothing
    <3> QED
      BY <2>2, <3>1 DEF Found
  <2>4. CompactTypes'
    <3>1. at' \in 1 .. LastHour + 1 /\ now' \in 1 .. LastHour + 1 /\ spoiled' \in BOOLEAN
      BY <2>1, <2>2
    <3> QED
      BY <1>1, <2>1, <2>3, <3>1 DEF CompactIInv, CompactTypes, Compact!Day
  <2>5. Discovered'
    <3>1. \A s \in found'.basis : ~(s.hour < at')
      BY <2>1, <2>2, <2>3 DEF Compact!Day
    <3> QED
      BY <3>1 DEF Discovered
  <2>6. Writing'
    BY <2>1 DEF Writing
  <2> QED
    BY <1>3, <2>4, <2>5, <2>6 DEF CompactIInv
<1> QED
  BY <1>4, <1>5

LEMMA CompactStep ==
  ASSUME CompactIInv, [Compact!Next]_compactVars
  PROVE  CompactIInv'
<1>1. CASE Compact!Writes \/ Compact!Publishes \/ Compact!HourEnds
  BY <1>1, CollectorStep
<1>2. CASE \E force \in BOOLEAN : Compact!Starts(force)
  BY <1>2, StartsStep
<1>3. CASE Compact!Discover \/ Compact!Inspect \/ Compact!WriteGroup \/ Compact!Replace
             \/ Compact!Sidecar \/ Compact!Killed
  <2>1. UNCHANGED Compact!collector
    BY <1>3 DEF Compact!Discover, Compact!Inspect, Compact!WriteGroup, Compact!Replace,
                Compact!Sidecar, Compact!Killed
  <2> QED
    BY <1>3, <2>1, RunStep
<1>4. CASE UNCHANGED compactVars
  <2>1. UNCHANGED <<stream, raw, open, clock, spoiled, step, now, at, found, daily, tmp, meta, cut>>
    BY <1>4 DEF compactVars
  <2>2. \A s, listed, skipped : Accounted(s, listed, skipped)' = Accounted(s, listed, skipped)
    BY <2>1 DEF Accounted, Compact!OfHour
  <2>3. InOrder(daily)' /\ SidecarTrue'
    BY <2>1, <2>2 DEF CompactIInv, InOrder, SidecarTrue
  <2>4. CompactTypes'
    BY <2>1 DEF CompactIInv, CompactTypes, Compact!Day
  <2>5. Discovered' /\ Writing'
    BY <2>1, <2>2 DEF CompactIInv, Discovered, Writing, Checked, Compact!CrossSourceOrder
  <2> QED
    BY <2>3, <2>4, <2>5 DEF CompactIInv
<1> QED
  BY <1>1, <1>2, <1>3, <1>4 DEF Compact!Next

LEMMA CompactSound ==
  ASSUME CompactIInv PROVE Compact!CompactInv /\ Compact!DayComplete
<1>1. Compact!TypeOK
  BY DEF CompactIInv, CompactTypes, Compact!TypeOK, Found
<1>2. Compact!DailyInOrder
  BY DEF CompactIInv, CompactTypes, Compact!DailyInOrder, InOrder
<1>3. Compact!DayComplete
  BY DEF CompactIInv, SidecarTrue, Accounted, Compact!DayComplete, Compact!None
<1> QED
  BY <1>1, <1>2, <1>3 DEF Compact!CompactInv

\* The daily file of every run, however many were killed or failed half way: whole segments,
\* in order, and nothing left out unsaid (DailyFileSound).
THEOREM DailyFileAlwaysSound == MCSpec => []DailyFileSound
<1>1. MCInit => CompactIInv
  BY CompactStarts DEF MCInit, NoCompact
<1>2. CompactIInv /\ [MCNext]_<<vars, compactVars, alignVars, tool>> => CompactIInv'
  BY CompactStep DEF MCNext
<1>3. CompactIInv => DailyFileSound
  BY CompactSound DEF DailyFileSound
<1> QED
  BY <1>1, <1>2, <1>3, PTL DEF MCSpec

(***************************************************************************)
(* Labels and splits                                                       *)
(***************************************************************************)

\* The dates of some days are those days.
LEMMA DatesAre ==
  ASSUME NEW days, days \subseteq Nat, IsFiniteSet(days)
  PROVE  ParseDates(days) \in Seq(days)
<1> DEFINE N == Max(days \cup {0})
           next == [p \in Seq(days) \X Nat |-> IF p[2] \in days THEN Append(p[1], p[2]) ELSE p[1]]
           Body(f) == [n \in 0 .. N |-> IF n = 0 THEN <<>>
                         ELSE IF n \in days THEN Append(f[n - 1], n) ELSE f[n - 1]]
           upto == CHOOSE f : f = Body(f)
<1>1. ParseDates(days) = upto[N]
  BY DEF ParseDates
<1>2. N \in Nat
  <2> DEFINE D == days \cup {0}
  <2>1. IsFiniteSet(D)
    BY FS_AddElement
  <2>2. D \subseteq Nat /\ D # {}
    OBVIOUS
  <2> HIDE DEF D
  <2>3. Max(D) \in Nat
    BY <2>1, <2>2, Largest
  <2> QED
    BY <2>3 DEF D
<1>3. next \in [Seq(days) \X Nat -> Seq(days)]
  <2>1. ASSUME NEW p \in Seq(days) \X Nat
        PROVE  (IF p[2] \in days THEN Append(p[1], p[2]) ELSE p[1]) \in Seq(days)
    OBVIOUS
  <2> QED
    BY <2>1
<1>4. <<>> \in Seq(days)
  OBVIOUS
<1> HIDE DEF N
<1>5. \A s \in Seq(days), n \in Nat : next[<<s, n>>] = IF n \in days THEN Append(s, n) ELSE s
  OBVIOUS
<1> HIDE DEF next
<1>6. PICK g \in [0 .. N -> Seq(days)] :
         g[0] = <<>> /\ \A n \in 1 .. N : g[n] = next[<<g[n - 1], n>>]
  <2> DEFINE S == Seq(days)  start == <<>>
  <2>1. start \in S /\ IsNext(next, S)
    BY <1>3, <1>4 DEF IsNext
  <2> HIDE DEF S, start
  <2>2. PICK g : Recurs(g, N, S, start, next)
    BY <1>2, <2>1, Recursion
  <2>3. g \in [0 .. N -> S] /\ g[0] = start /\ \A n \in 1 .. N : g[n] = next[<<g[n - 1], n>>]
    BY <2>2 DEF Recurs
  <2> QED
    BY <2>3 DEF S, start
<1>7. g = Body(g)
  <2>1. ASSUME NEW n \in 0 .. N
        PROVE  g[n] = IF n = 0 THEN <<>> ELSE IF n \in days THEN Append(g[n - 1], n) ELSE g[n - 1]
    <3>1. CASE n = 0
      BY <1>6, <3>1
    <3>2. CASE n # 0
      <4>1. n \in 1 .. N /\ n - 1 \in 0 .. N /\ n \in Nat
        BY <1>2, <3>2
      <4>2. g[n - 1] \in Seq(days)
        BY <1>6, <4>1
      <4> QED
        BY <1>5, <1>6, <3>2, <4>1, <4>2
    <3> QED
      BY <3>1, <3>2
  <2> QED
    BY <1>6, <2>1
<1>8. upto = Body(upto)
  BY <1>7
<1> HIDE DEF upto
<1> DEFINE Bad == {n \in 0 .. N : upto[n] \notin Seq(days)}
<1>9. Bad = {}
  <2> SUFFICES ASSUME Bad # {} PROVE FALSE
    OBVIOUS
  <2>1. PICK n \in Bad : \A k \in Bad : n <= k
    <3>1. Bad \subseteq Nat
      BY <1>2
    <3> HIDE DEF Bad
    <3> QED
      BY <3>1, Smallest
  <2>2. n \in 0 .. N /\ upto[n] \notin Seq(days)
    OBVIOUS
  <2>3. upto[n] = IF n = 0 THEN <<>> ELSE IF n \in days THEN Append(upto[n - 1], n) ELSE upto[n - 1]
    BY <1>8, <2>2
  <2>4. n # 0
    BY <2>2, <2>3
  <2>5. n - 1 \in 0 .. N /\ ~(n <= n - 1) /\ n \in Nat
    BY <1>2, <2>2, <2>4
  <2>6. upto[n - 1] \in Seq(days)
    BY <2>1, <2>5
  <2> QED
    BY <2>2, <2>3, <2>5, <2>6
<1> QED
  BY <1>1, <1>2, <1>9

\* A sequence whose neighbours are in order is in order.
LEMMA Ascending ==
  ASSUME NEW q \in Seq(Nat), \A i \in 2 .. Len(q) : q[i - 1] <= q[i]
  PROVE  \A i, j \in 1 .. Len(q) : i <= j => q[i] <= q[j]
<1> SUFFICES ASSUME NEW i \in 1 .. Len(q) PROVE \A j \in 1 .. Len(q) : i <= j => q[i] <= q[j]
  OBVIOUS
<1> DEFINE Bad == {j \in 1 .. Len(q) : i <= j /\ ~(q[i] <= q[j])}
<1>1. Bad = {}
  <2> SUFFICES ASSUME Bad # {} PROVE FALSE
    OBVIOUS
  <2>1. PICK j \in Bad : \A k \in Bad : j <= k
    <3>1. Bad \subseteq Nat
      OBVIOUS
    <3> HIDE DEF Bad
    <3> QED
      BY <3>1, Smallest
  <2>2. j \in 1 .. Len(q) /\ i <= j /\ ~(q[i] <= q[j])
    OBVIOUS
  <2>3. j # i /\ i \in Nat /\ j \in Nat /\ q[i] \in Nat
    BY <2>2
  <2>4. j - 1 \in 1 .. Len(q) /\ i <= j - 1 /\ ~(j <= j - 1) /\ j \in 2 .. Len(q)
    BY <2>2, <2>3
  <2>5. q[i] <= q[j - 1]
    BY <2>1, <2>4
  <2>6. q[j - 1] <= q[j] /\ q[j - 1] \in Nat /\ q[j] \in Nat
    BY <2>4, <2>2
  <2> QED
    BY <2>2, <2>3, <2>5, <2>6
<1> QED
  BY <1>1

\* The days of the gap, in seconds, are no fewer than the horizon's.
LEMMA PurgeCovers ==
  ASSUME NEW h \in Nat
  PROVE  RequiredPurge(h) \in Nat /\ RequiredPurge(h) * Day >= h
<1>1. CASE h <= 0
  BY <1>1 DEF RequiredPurge, Day
<1>2. CASE ~(h <= 0)
  <2> DEFINE n == (h + Day - 1) \div Day
             S == {1, n}
  <2>1. n \in Nat /\ n * Day >= h
    BY DEF Day
  <2>2. RequiredPurge(h) = Max(S)
    BY <1>2 DEF RequiredPurge
  <2> HIDE DEF n
  <2>3. S \subseteq Nat /\ S # {} /\ IsFiniteSet(S)
    <3>1. IsFiniteSet({1, n})
      <4>1. IsFiniteSet({1}) /\ {1, n} = {1} \cup {n}
        BY FS_Singleton
      <4> QED
        BY <4>1, FS_AddElement
    <3> QED
      BY <2>1, <3>1
  <2>4. Max(S) \in S /\ n <= Max(S)
    BY <2>3, Largest
  <2> HIDE DEF S
  <2>5. Max(S) \in Nat
    BY <2>3, <2>4
  <2>6. Max(S) * Day >= n * Day
    BY <2>1, <2>4, <2>5 DEF Day
  <2> QED
    BY <2>1, <2>2, <2>5, <2>6 DEF Day
<1> QED
  BY <1>1, <1>2

LEMMA Wider == ASSUME NEW S, NEW T, S \subseteq T, NEW q \in Seq(S) PROVE q \in Seq(T)
<1>1. /\ Len(q) \in Nat /\ DOMAIN q = 1 .. Len(q) /\ \A i \in 1 .. Len(q) : q[i] \in T
      /\ q = [i \in 1 .. Len(q) |-> q[i]]
  OBVIOUS
<1> QED
  BY <1>1

\* The three splits.
LEMMA SplitNames ==
  /\ DOMAIN Splits = 1 .. 3 /\ Splits[1] = "train" /\ Splits[2] = "val" /\ Splits[3] = "test"
  /\ Range(Splits) = {"train", "val", "test"}
BY DEF Splits, Range

\* Each is of days that are labelled, and without a warning none is empty or too near.
LEMMA SplitsAreDates ==
  ASSUME NEW days, days \subseteq Nat, IsFiniteSet(days), NEW a \in Options, NEW h \in Nat
  PROVE  LET m == BuildManifest(days, a, h)
         IN /\ m.splits.train \in Seq(days) /\ m.splits.val \in Seq(days) /\ m.splits.test \in Seq(days)
            /\ m.gap \in Nat
            /\ ~m.warned =>
                 /\ m.gap >= RequiredPurge(h)
                 /\ m.splits.train # <<>> /\ m.splits.val # <<>> /\ m.splits.test # <<>>
                 /\ GapDays(m.splits.train, m.splits.val) >= m.gap
                 /\ GapDays(m.splits.val, m.splits.test) >= m.gap
<1> DEFINE dates    == ParseDates(days)
           total    == Len(dates)
           trainEnd == (total * 70) \div 100
           valEnd   == (total * 85) \div 100
           purge    == IF a.purge = None THEN RequiredPurge(h) ELSE a.purge[1]
           gap      == purge + a.embargo
           train    == SubSeq(dates, 1, Max({trainEnd - gap, 0}))
           val      == SubSeq(dates, trainEnd + 1, Max({valEnd - gap, trainEnd}))
           test     == SubSeq(dates, valEnd + 1, total)
           splits   == [train |-> train, val |-> val, test |-> test]
           achieved == <<GapDays(splits.train, splits.val), GapDays(splits.val, splits.test)>>
           warned   == \/ purge < RequiredPurge(h)
                       \/ \E s \in Range(Splits) : splits[s] = <<>>
                       \/ \E g \in Range(achieved) : g < gap
           m        == BuildManifest(days, a, h)
<1>1. m.splits = splits /\ m.gap = gap /\ m.warned = warned
  BY DEF BuildManifest
<1>2. dates \in Seq(days) /\ total \in Nat
  <2>1. dates \in Seq(days)
    BY DatesAre
  <2> HIDE DEF dates
  <2> QED
    BY <2>1
<1>3. purge \in Nat /\ a.embargo \in Nat /\ RequiredPurge(h) \in Nat
  <2>1. a.purge \in Seq(Nat) /\ a.embargo \in Nat
    BY SplitAssumption
  <2>2. a.purge # None => a.purge[1] \in Nat
    BY <2>1 DEF None
  <2> QED
    BY <2>1, <2>2, PurgeCovers
<1>4. gap \in Nat /\ gap >= purge
  BY <1>3
<1>5. trainEnd \in Nat /\ valEnd \in Nat /\ trainEnd <= valEnd /\ valEnd <= total
  BY <1>2
<1> HIDE DEF dates, total, trainEnd, valEnd, purge, gap
<1>6. \A x, y \in Int : Max({x, y}) \in {x, y}
  <2> SUFFICES ASSUME NEW x \in Int, NEW y \in Int PROVE Max({x, y}) \in {x, y}
    OBVIOUS
  <2>1. \E z \in {x, y} : \A w \in {x, y} : z >= w
    OBVIOUS
  <2> QED
    BY <2>1 DEF Max
<1>7. train \in Seq(days) /\ val \in Seq(days) /\ test \in Seq(days)
  <2>1. \A i \in Nat \ {0} : \A j \in Int : j <= total => SubSeq(dates, i, j) \in Seq(days)
    BY <1>2 DEF total
  <2> DEFINE x == Max({trainEnd - gap, 0})
             y == Max({valEnd - gap, trainEnd})
  <2>2. x \in Int /\ x <= total /\ y \in Int /\ y <= total
    <3>1. /\ trainEnd - gap \in Int /\ valEnd - gap \in Int /\ trainEnd \in Int /\ 0 \in Int
          /\ trainEnd - gap <= total /\ valEnd - gap <= total /\ trainEnd <= total /\ 0 <= total
      BY <1>2, <1>4, <1>5
    <3> QED
      BY <1>6, <3>1
  <2>3. train = SubSeq(dates, 1, x) /\ val = SubSeq(dates, trainEnd + 1, y)
    OBVIOUS
  <2> HIDE DEF x, y
  <2>4. 1 \in Nat \ {0} /\ trainEnd + 1 \in Nat \ {0} /\ valEnd + 1 \in Nat \ {0} /\ total \in Int
        /\ total <= total
    BY <1>2, <1>5
  <2>5. SubSeq(dates, 1, x) \in Seq(days) /\ SubSeq(dates, trainEnd + 1, y) \in Seq(days)
    BY <2>1, <2>2, <2>4
  <2>6. test \in Seq(days)
    BY <2>1, <2>4
  <2> QED
    BY <2>3, <2>5, <2>6
<1> HIDE DEF train, val, test
<1>8. ASSUME ~warned
      PROVE  /\ gap >= RequiredPurge(h) /\ train # <<>> /\ val # <<>> /\ test # <<>>
             /\ GapDays(train, val) >= gap /\ GapDays(val, test) >= gap
  <2>1. purge >= RequiredPurge(h)
    BY <1>3, <1>8
  <2>2. splits["train"] # <<>> /\ splits["val"] # <<>> /\ splits["test"] # <<>>
    BY <1>8, SplitNames
  <2>3. ~(GapDays(train, val) < gap) /\ ~(GapDays(val, test) < gap)
    <3>1. achieved[1] \in Range(achieved) /\ achieved[2] \in Range(achieved)
      BY DEF Range
    <3> QED
      BY <1>8, <3>1
  <2>4. train # <<>> /\ val # <<>> /\ test # <<>>
    BY <2>2
  <2>5. GapDays(train, val) \in Int /\ GapDays(val, test) \in Int
    <3>1. \A q \in Seq(Nat) : q # <<>> => q[1] \in Nat /\ q[Len(q)] \in Nat
      OBVIOUS
    <3>2. train \in Seq(Nat) /\ val \in Seq(Nat) /\ test \in Seq(Nat)
      BY <1>7, Wider
    <3> QED
      BY <2>4, <3>1, <3>2 DEF GapDays, Last
  <2> QED
    BY <1>3, <1>4, <2>1, <2>3, <2>4, <2>5
<1>9. m.splits.train = train /\ m.splits.val = val /\ m.splits.test = test
  BY <1>1
<1> HIDE DEF m, warned
<1>10. /\ m.splits.train \in Seq(days) /\ m.splits.val \in Seq(days) /\ m.splits.test \in Seq(days)
       /\ m.gap \in Nat
  BY <1>1, <1>4, <1>7, <1>9
<1>11. ASSUME ~m.warned
       PROVE  /\ m.gap >= RequiredPurge(h)
              /\ m.splits.train # <<>> /\ m.splits.val # <<>> /\ m.splits.test # <<>>
              /\ GapDays(m.splits.train, m.splits.val) >= m.gap
              /\ GapDays(m.splits.val, m.splits.test) >= m.gap
  BY <1>1, <1>8, <1>9, <1>11
<1> QED
  BY <1>10, <1>11 DEF m

\* Days a gap apart are clear of each other, if the gap was asked of the horizon.
LEMMA GapClears ==
  ASSUME NEW p \in Seq(Nat), NEW q \in Seq(Nat), p # <<>>, q # <<>>,
         \A i, j \in 1 .. Len(p) : i <= j => p[i] <= p[j],
         \A i, j \in 1 .. Len(q) : i <= j => q[i] <= q[j],
         NEW g \in Nat, NEW h \in Nat, GapDays(p, q) >= g, g >= RequiredPurge(h)
  PROVE  /\ \A d \in Range(p), e \in Range(q) : Clear(d, e, h)
         /\ \A d \in Range(p) : d < q[1]
<1>1. \A d \in Range(p) : d \in Nat /\ d <= p[Len(p)]
  BY DEF Range
<1>2. \A e \in Range(q) : e \in Nat /\ q[1] <= e
  BY DEF Range
<1>3. q[1] - p[Len(p)] - 1 >= g /\ q[1] \in Nat /\ p[Len(p)] \in Nat
  BY DEF GapDays, Last
<1>4. RequiredPurge(h) \in Nat /\ RequiredPurge(h) * Day >= h
  BY PurgeCovers
<1>5. ASSUME NEW d \in Range(p), NEW e \in Range(q) PROVE Clear(d, e, h)
  <2>1. d \in Nat /\ d <= p[Len(p)] /\ e \in Nat /\ q[1] <= e
    BY <1>1, <1>2
  <2>2. e - d - 1 >= RequiredPurge(h)
    BY ONLY <1>3, <1>4, <2>1, g \in Nat, g >= RequiredPurge(h)
  <2> QED
    BY <1>4, <2>1, <2>2 DEF Clear, Day
<1>6. ASSUME NEW d \in Range(p) PROVE d < q[1]
  BY <1>1, <1>3
<1> QED
  BY <1>5, <1>6

\* A labelled file: its labels are of its horizons, and of a strict run they span them.
LabelFile(f) ==
  /\ f = [horizons |-> f.horizons, strict |-> f.strict, schema |-> f.schema, body |-> f.body,
          labels |-> f.labels]
  /\ f.horizons \subseteq Nat /\ IsFiniteSet(f.horizons)
  /\ \A l \in f.labels : /\ l.h \in f.horizons
                         /\ f.strict => l.to - l.at = l.h * 1000

\* Days of two splits are clear of each other by the longest horizon.
DatesClear(m) ==
  m.safe /\ m.source = "derived" =>
    \A i, j \in DOMAIN Splits : i < j =>
      \A d \in Range(m.splits[Splits[i]]), e \in Range(m.splits[Splits[j]]) :
        Clear(d, e, m.longest)

\* The artifacts of a generation are of the days of their split, and none is labelled
\* further than was measured.
FilesWithin(m, g) ==
  ~m.raced => \A s \in DOMAIN g : \A file \in g[s] :
    /\ file[1] \in Range(m.splits[s])
    /\ \A l \in file[2] : l.h \in Nat /\ l.h <= m.longest

Manifested(m) ==
  /\ m = [splits |-> m.splits, gap |-> m.gap, horizon |-> m.horizon, warned |-> m.warned,
          safe |-> m.safe, dropped |-> m.dropped, generation |-> m.generation,
          source |-> m.source, longest |-> m.longest, raced |-> m.raced]
  /\ \A s \in Range(Splits) : m.splits[s] \in Seq(Nat)
  /\ m.longest \in Nat
  /\ DatesClear(m)
  /\ m.generation # None => FilesWithin(m, m.generation[1])

\* The generation it names is there, and a power cut does not take it.
Survives(m) ==
  m.generation # None => m.generation[1] \in DOMAIN gens /\ gens[m.generation[1]] # "linked"

SplitTypes ==
  /\ pc \in {"idle", "horizon", "read", "publish", "sync", "manifest", "flush"}
  /\ reported \in BOOLEAN /\ raced \in BOOLEAN
  /\ DOMAIN aligned \subseteq Nat \ {0} /\ IsFiniteSet(DOMAIN aligned)
  /\ \A d \in DOMAIN aligned : aligned[d] \in Seq(Nat)
  /\ DOMAIN labeled \subseteq DOMAIN aligned
  /\ \A d \in DOMAIN labeled : LabelFile(labeled[d])
  /\ \A g \in DOMAIN gens : gens[g] \in {"linked", "durable", "altered"}
  /\ pc # "idle" => \E a \in Options : arg = <<a>>

\* What a run holds at each of its steps.
RunHolds ==
  /\ pc \in {"read", "publish", "sync", "manifest", "flush"} =>
       mem = <<mem[1]>> /\ Manifested(mem[1])
  /\ pc = "read" =>
       /\ mem[1].generation = None
       /\ \A s \in Range(Splits) : Range(mem[1].splits[s]) \subseteq DOMAIN labeled
       /\ ~raced => \A d \in DOMAIN labeled : \A h \in labeled[d].horizons : h <= mem[1].longest
  /\ pc = "publish" =>
       mem[1].generation = None /\ blobs = <<blobs[1]>> /\ FilesWithin(mem[1], blobs[1])
  /\ pc = "sync" =>
       blobs = <<blobs[1]>> /\ mem[1].generation = blobs /\ blobs[1] \in DOMAIN gens
  /\ pc \in {"manifest", "flush"} => Survives(mem[1])
  /\ pc = "flush" => manifest = mem
  /\ pc # "idle" => ~reported

\* The manifest on disk, and the one a power cut would leave.
DiskHolds ==
  /\ \A m \in {manifest, stable} : m # None => m = <<m[1]>> /\ Manifested(m[1]) /\ Survives(m[1])
  /\ reported => manifest = stable

SplitIInv == SplitTypes /\ RunHolds /\ DiskHolds

\* A manifest without a warning that verifies leaves its splits clear of each other.
LEMMA BuiltClear ==
  ASSUME NEW days, days \subseteq Nat, IsFiniteSet(days), NEW a \in Options, NEW h \in Nat,
         NEW m, m = BuildManifest(days, a, h), ~m.warned, VerifyManifest(m)
  PROVE  \A i, j \in DOMAIN Splits : i < j =>
           \A d \in Range(m.splits[Splits[i]]), e \in Range(m.splits[Splits[j]]) : Clear(d, e, h)
<1> DEFINE p == m.splits.train  q == m.splits.val  r == m.splits.test
<1>1. /\ p \in Seq(Nat) /\ q \in Seq(Nat) /\ r \in Seq(Nat) /\ m.gap \in Nat
      /\ m.gap >= RequiredPurge(h) /\ p # <<>> /\ q # <<>> /\ r # <<>>
      /\ GapDays(p, q) >= m.gap /\ GapDays(q, r) >= m.gap
  <2>1. \A x \in Seq(days) : x \in Seq(Nat)
    BY Wider
  <2> QED
    BY <2>1, SplitsAreDates
<1>2. \A s \in Range(Splits) : \A i \in 2 .. Len(m.splits[s]) : m.splits[s][i - 1] <= m.splits[s][i]
  BY DEF VerifyManifest
<1>3. m.splits["train"] = p /\ m.splits["val"] = q /\ m.splits["test"] = r
  OBVIOUS
<1> HIDE DEF p, q, r
<1>4. /\ \A i, j \in 1 .. Len(p) : i <= j => p[i] <= p[j]
      /\ \A i, j \in 1 .. Len(q) : i <= j => q[i] <= q[j]
      /\ \A i, j \in 1 .. Len(r) : i <= j => r[i] <= r[j]
  <2>1. /\ \A i \in 2 .. Len(p) : p[i - 1] <= p[i]
        /\ \A i \in 2 .. Len(q) : q[i - 1] <= q[i]
        /\ \A i \in 2 .. Len(r) : r[i - 1] <= r[i]
    BY <1>2, <1>3, SplitNames
  <2> QED
    BY <1>1, <2>1, Ascending
<1>5. /\ \A d \in Range(p), e \in Range(q) : Clear(d, e, h)
      /\ \A d \in Range(p) : d < q[1]
  BY <1>1, <1>4, GapClears
<1>6. \A d \in Range(q), e \in Range(r) : Clear(d, e, h)
  BY <1>1, <1>4, GapClears
<1>7. ASSUME NEW d \in Range(p), NEW e \in Range(r) PROVE Clear(d, e, h)
  <2>1. q[1] \in Range(q) /\ q[1] \in Nat
    BY <1>1 DEF Range
  <2>2. d < q[1] /\ Clear(q[1], e, h)
    BY <1>5, <1>6, <2>1
  <2>3. d \in Nat /\ e \in Nat
    BY <1>1 DEF Range
  <2> QED
    BY <2>1, <2>2, <2>3 DEF Clear, Day
<1> QED
  <2> SUFFICES ASSUME NEW i \in DOMAIN Splits, NEW j \in DOMAIN Splits, i < j,
                      NEW d \in Range(m.splits[Splits[i]]), NEW e \in Range(m.splits[Splits[j]])
               PROVE  Clear(d, e, h)
    OBVIOUS
  <2>1. (i = 1 /\ j = 2) \/ (i = 2 /\ j = 3) \/ (i = 1 /\ j = 3)
    BY SplitNames
  <2>2. CASE i = 1 /\ j = 2
    BY <1>3, <1>5, <2>2, SplitNames
  <2>3. CASE i = 2 /\ j = 3
    BY <1>3, <1>6, <2>3, SplitNames
  <2>4. CASE i = 1 /\ j = 3
    BY <1>3, <1>7, <2>4, SplitNames
  <2> QED
    BY <2>1, <2>2, <2>3, <2>4

\* The longest horizon of some labelled files.
LEMMA LongestIs ==
  ASSUME NEW D, D \subseteq DOMAIN labeled, IsFiniteSet(D), \A d \in D : LabelFile(labeled[d])
  PROVE  /\ LongestHorizon(D) \in Nat
         /\ \A d \in D : \A h \in labeled[d].horizons : h <= LongestHorizon(D)
<1> DEFINE T == {labeled[d].horizons : d \in D}
           f == [d \in D |-> labeled[d].horizons]
           U == {0} \cup UNION T
<1>1. f \in Surjection(D, T)
  BY DEF Surjection
<1>2. IsFiniteSet(T)
  <2> HIDE DEF T, f
  <2> QED
    BY <1>1, FS_Surjection
<1>3. ASSUME NEW t \in T PROVE IsFiniteSet(t) /\ t \subseteq Nat
  <2>1. PICK d \in D : t = labeled[d].horizons
    OBVIOUS
  <2>2. LabelFile(labeled[d])
    OBVIOUS
  <2> QED
    BY <2>1, <2>2 DEF LabelFile
<1>4. IsFiniteSet(U)
  <2> HIDE DEF T
  <2>1. IsFiniteSet(UNION T)
    BY <1>2, <1>3, FS_UNION
  <2>2. IsFiniteSet({0})
    BY FS_Singleton
  <2> QED
    BY <2>1, <2>2, FS_Union
<1>5. U \subseteq Nat /\ U # {}
  BY <1>3
<1>6. \A d \in D : \A h \in labeled[d].horizons : h \in U
  OBVIOUS
<1>7. LongestHorizon(D) = Max(U)
  BY DEF LongestHorizon
<1> HIDE DEF U
<1>8. Max(U) \in U /\ \A y \in U : y <= Max(U)
  BY <1>4, <1>5, Largest
<1> QED
  BY <1>5, <1>6, <1>7, <1>8

\* On a grid that was verified k rows are k steps.
LEMMA GridSteps ==
  ASSUME NEW frame \in Seq(Nat), VerifiedGrid(frame)
  PROVE  \A i \in DOMAIN frame : \A k \in Nat :
           i + k \in DOMAIN frame => frame[i + k] - frame[i] = k * GridMs
<1>0. GridMs \in Nat /\ DOMAIN frame = 1 .. Len(frame) /\ Len(frame) \in Nat
  BY SplitAssumption
<1> SUFFICES ASSUME NEW i \in DOMAIN frame
             PROVE  \A k \in Nat : i + k \in DOMAIN frame => frame[i + k] - frame[i] = k * GridMs
  OBVIOUS
<1> DEFINE Bad == {k \in Nat : i + k \in DOMAIN frame /\ frame[i + k] - frame[i] # k * GridMs}
<1>1. Bad = {}
  <2> SUFFICES ASSUME Bad # {} PROVE FALSE
    OBVIOUS
  <2>1. PICK k \in Bad : \A n \in Bad : k <= n
    <3>1. Bad \subseteq Nat
      OBVIOUS
    <3> HIDE DEF Bad
    <3> QED
      BY <3>1, Smallest
  <2>2. k \in Nat /\ i + k \in DOMAIN frame /\ frame[i + k] - frame[i] # k * GridMs
    OBVIOUS
  <2>0. i \in Nat \ {0} /\ i <= Len(frame) /\ i + k <= Len(frame)
    BY <1>0, <2>2
  <2>3. k # 0
    <3>1. i + 0 = i /\ frame[i] - frame[i] = 0 /\ 0 * GridMs = 0
      BY <1>0
    <3> QED
      BY <2>2, <3>1
  <2>4. /\ k - 1 \in Nat /\ i + (k - 1) \in DOMAIN frame /\ ~(k <= k - 1) /\ i + k \in 2 .. Len(frame)
        /\ i + k - 1 = i + (k - 1)
    <3>1. /\ k - 1 \in Nat /\ i + (k - 1) \in 1 .. Len(frame) /\ ~(k <= k - 1)
          /\ i + k \in 2 .. Len(frame) /\ i + k - 1 = i + (k - 1)
      BY ONLY <1>0, <2>0, <2>2, <2>3
    <3> QED
      BY <1>0, <3>1
  <2>5. frame[i + (k - 1)] - frame[i] = (k - 1) * GridMs
    <3>1. k - 1 \notin Bad
      BY <2>1, <2>4
    <3> QED
      BY <2>4, <3>1
  <2>6. frame[i + k] - frame[i + (k - 1)] = GridMs
    BY <2>4 DEF VerifiedGrid
  <2>7. (k - 1) * GridMs + GridMs = k * GridMs
    BY <1>0, <2>2
  <2>8. frame[i + k] \in Int /\ frame[i] \in Int /\ frame[i + (k - 1)] \in Int
    <3>1. \A n \in DOMAIN frame : frame[n] \in Nat
      OBVIOUS
    <3> QED
      BY <2>2, <2>4, <3>1
  <2>9. (k - 1) * GridMs \in Int /\ k * GridMs \in Int
    BY <1>0, <2>4
  <2> DEFINE a == frame[i]  b == frame[i + (k - 1)]  c == frame[i + k]
             x == (k - 1) * GridMs  y == k * GridMs
  <2>10. a \in Int /\ b \in Int /\ c \in Int /\ x \in Int /\ y \in Int /\ GridMs \in Int
    BY <1>0, <2>8, <2>9
  <2>11. b - a = x /\ c - b = GridMs /\ x + GridMs = y /\ c - a # y
    BY <2>2, <2>5, <2>6, <2>7
  <2> HIDE DEF a, b, c, x, y
  <2> QED
    BY ONLY <2>10, <2>11
<1> QED
  BY <1>1

LEMMA ShiftSpans ==
  ASSUME NEW h \in Nat, (h * 1000) % GridMs = 0
  PROVE  ShiftRows(h) \in Nat /\ ShiftRows(h) * GridMs = h * 1000
<1>1. GridMs \in Nat \ {0} /\ h * 1000 \in Nat
  BY SplitAssumption
<1> DEFINE n == h * 1000
<1> HIDE DEF n
<1>2. n \in Nat /\ n % GridMs = 0 => n \div GridMs \in Nat /\ (n \div GridMs) * GridMs = n
  BY <1>1
<1> QED
  BY <1>1, <1>2 DEF ShiftRows, n

\* What a labelling run writes.
LEMMA Labelled ==
  ASSUME NEW frame \in Seq(Nat), NEW hs \in HorizonSets, NEW strict, NEW whole,
         strict => VerifiedGrid(frame) /\ \A h \in hs : (h * 1000) % GridMs = 0
  PROVE  LabelFile([horizons |-> hs, strict |-> strict, schema |-> whole, body |-> whole,
                    labels |-> LabelColumns(frame, hs)])
<1>1. hs \subseteq Nat /\ IsFiniteSet(hs)
  BY SplitAssumption
<1>2. ASSUME NEW l \in LabelColumns(frame, hs)
      PROVE  l.h \in hs /\ (strict => l.to - l.at = l.h * 1000)
  <2>1. PICK h \in hs, i \in DOMAIN frame :
          /\ \A k \in hs : i + ShiftRows(k) \in DOMAIN frame
          /\ l = [h |-> h, at |-> frame[i], to |-> frame[i + ShiftRows(h)]]
    BY DEF LabelColumns
  <2>2. l.h = h /\ l.at = frame[i] /\ l.to = frame[i + ShiftRows(h)]
    BY <2>1
  <2>3. ASSUME strict PROVE frame[i + ShiftRows(h)] - frame[i] = h * 1000
    <3>1. ShiftRows(h) \in Nat /\ ShiftRows(h) * GridMs = h * 1000
      BY <1>1, <2>3, ShiftSpans
    <3>2. frame[i + ShiftRows(h)] - frame[i] = ShiftRows(h) * GridMs
      BY <2>1, <2>3, <3>1, GridSteps
    <3> QED
      BY <3>1, <3>2
  <2> QED
    BY <2>2, <2>3
<1> QED
  BY <1>1, <1>2 DEF LabelFile

LEMMA SplitStarts == ASSUME Init PROVE SplitIInv
<1>1. PICK days \in Calendars, odd \in OddDays, frame \in Frames, hs \in HorizonSets,
           other \in HorizonSets :
        LET usual == [i \in 1 .. 3 |-> i * GridMs]
            Horizons(d) == IF d = odd THEN other ELSE hs
        IN /\ odd \in days
           /\ \A h \in hs \cup other : ShiftRows(h) > 0 /\ (h * 1000) % GridMs = 0
           /\ aligned = [d \in days |-> IF d = odd THEN frame ELSE usual]
           /\ labeled = [d \in days \ (IF VerifiedGrid(frame) THEN {} ELSE {odd}) |->
                [horizons |-> Horizons(d), strict |-> TRUE, schema |-> TRUE, body |-> TRUE,
                 labels |-> LabelColumns(aligned[d], Horizons(d))]]
  BY DEF Init
<1>2. /\ pc = "idle" /\ arg = None /\ mem = None /\ blobs = None
      /\ gens = <<>> /\ manifest = None /\ stable = None /\ reported = FALSE /\ raced = FALSE
  BY DEF Init
<1> DEFINE usual == [i \in 1 .. 3 |-> i * GridMs]
<1>3. GridMs \in Nat /\ frame \in Seq(Nat) /\ days \subseteq Nat \ {0} /\ IsFiniteSet(days)
  BY SplitAssumption
<1>4. usual \in Seq(Nat)
  <2>1. \A i \in 1 .. 3 : i * GridMs \in Nat
    BY <1>3
  <2> QED
    BY <2>1
<1>5. VerifiedGrid(usual)
  <2>1. Len(usual) = 3
    BY <1>4
  <2>2. \A i \in 2 .. 3 : usual[i] - usual[i - 1] = GridMs
    <3>1. usual[1] = 1 * GridMs /\ usual[2] = 2 * GridMs /\ usual[3] = 3 * GridMs
      OBVIOUS
    <3>2. ASSUME NEW i \in 2 .. 3 PROVE usual[i] - usual[i - 1] = GridMs
      <4>1. i = 2 \/ i = 3
        OBVIOUS
      <4>2. 2 - 1 = 1 /\ 3 - 1 = 2
        OBVIOUS
      <4> QED
        BY <1>3, <3>1, <4>1, <4>2
    <3> QED
      BY <3>2
  <2> QED
    BY <2>1, <2>2 DEF VerifiedGrid
<1>6. aligned = [d \in days |-> IF d = odd THEN frame ELSE usual]
  BY <1>1
<1> HIDE DEF usual
<1>7. /\ DOMAIN aligned = days /\ odd \in days
      /\ \A d \in days : aligned[d] = IF d = odd THEN frame ELSE usual
      /\ \A d \in days : aligned[d] \in Seq(Nat)
  <2>1. DOMAIN aligned = days /\ \A d \in days : aligned[d] = IF d = odd THEN frame ELSE usual
    BY <1>6
  <2>2. odd \in days
    BY <1>1
  <2>3. ASSUME NEW d \in days PROVE aligned[d] \in Seq(Nat)
    <3>1. aligned[d] = frame \/ aligned[d] = usual
      BY <2>1
    <3> QED
      BY <1>3, <1>4, <3>1
  <2> QED
    BY <2>1, <2>2, <2>3
<1>8. DOMAIN labeled \subseteq days
  BY <1>1
<1>9. ASSUME NEW d \in DOMAIN labeled PROVE LabelFile(labeled[d])
  <2> DEFINE H == IF d = odd THEN other ELSE hs
  <2>1. labeled[d] = [horizons |-> H, strict |-> TRUE, schema |-> TRUE, body |-> TRUE,
                      labels |-> LabelColumns(aligned[d], H)]
    BY <1>1, <1>9
  <2>2. H \in HorizonSets /\ \A h \in H : (h * 1000) % GridMs = 0
    BY <1>1
  <2>3. aligned[d] \in Seq(Nat) /\ VerifiedGrid(aligned[d])
    <3>1. d \in days /\ (d = odd => VerifiedGrid(frame))
      BY <1>1, <1>9
    <3> QED
      BY <1>5, <1>7, <3>1
  <2> HIDE DEF H
  <2> QED
    BY <2>1, <2>2, <2>3, Labelled
<1>10. SplitTypes
  <2>1. DOMAIN aligned \subseteq Nat \ {0} /\ IsFiniteSet(DOMAIN aligned) /\ DOMAIN labeled \subseteq DOMAIN aligned
    BY <1>3, <1>7, <1>8
  <2>2. \A g \in DOMAIN gens : gens[g] \in {"linked", "durable", "altered"}
    BY <1>2
  <2> QED
    BY <1>2, <1>7, <1>9, <2>1, <2>2 DEF SplitTypes
<1>11. RunHolds
  BY <1>2 DEF RunHolds
<1>12. DiskHolds
  BY <1>2 DEF DiskHolds
<1> QED
  BY <1>10, <1>11, <1>12 DEF SplitIInv

\* A labelling run, and a page that rots, leave what is on disk.
LEMMA LabelStep ==
  ASSUME SplitIInv,
         \/ \E d \in DOMAIN aligned, hs \in HorizonSets, strict \in BOOLEAN :
              GenerateLabels(d, hs, strict)
         \/ \E d \in DOMAIN labeled : Rots(d)
  PROVE  SplitIInv'
<1>1. UNCHANGED <<aligned, run, disk, reported>>
  BY DEF GenerateLabels, Rots
<1>2. UNCHANGED <<aligned, pc, arg, mem, blobs, gens, manifest, stable, reported>>
  BY <1>1 DEF run, disk
<1> DEFINE Kept ==
      /\ DOMAIN labeled' \subseteq DOMAIN aligned
      /\ \A d \in DOMAIN labeled' : LabelFile(labeled'[d])
      /\ raced' \in BOOLEAN /\ DOMAIN labeled \subseteq DOMAIN labeled'
      /\ ~raced' /\ pc = "read" =>
           ~raced /\ DOMAIN labeled' = DOMAIN labeled
             /\ \A d \in DOMAIN labeled : labeled'[d].horizons = labeled[d].horizons
<1>3. Kept
  <2>1. ASSUME NEW d \in DOMAIN aligned, NEW hs \in HorizonSets, NEW strict \in BOOLEAN,
               GenerateLabels(d, hs, strict)
        PROVE  Kept
    <3>1. PICK whole \in BOOLEAN :
            labeled' = [x \in DOMAIN labeled \cup {d} |->
                          IF x # d THEN labeled[x]
                          ELSE [horizons |-> hs, strict |-> strict, schema |-> whole,
                                body |-> whole, labels |-> LabelColumns(aligned[d], hs)]]
      BY <2>1 DEF GenerateLabels
    <3>2. strict => VerifiedGrid(aligned[d]) /\ \A h \in hs : (h * 1000) % GridMs = 0
      BY <2>1 DEF GenerateLabels
    <3>3. raced' = (raced \/ pc # "idle")
      BY <2>1 DEF GenerateLabels
    <3>4. LabelFile([horizons |-> hs, strict |-> strict, schema |-> whole, body |-> whole,
                     labels |-> LabelColumns(aligned[d], hs)])
      BY <3>2, Labelled DEF SplitIInv, SplitTypes
    <3> QED
      BY <3>1, <3>3, <3>4 DEF SplitIInv, SplitTypes
  <2>2. ASSUME NEW d \in DOMAIN labeled, Rots(d) PROVE Kept
    <3>1. labeled' = [labeled EXCEPT ![d].body = FALSE] /\ UNCHANGED raced
      BY <2>2 DEF Rots
    <3>2. LabelFile(labeled[d])
      BY DEF SplitIInv, SplitTypes
    <3>3. /\ labeled'[d] = [horizons |-> labeled[d].horizons, strict |-> labeled[d].strict,
                            schema |-> labeled[d].schema, body |-> FALSE,
                            labels |-> labeled[d].labels]
          /\ DOMAIN labeled' = DOMAIN labeled
          /\ \A x \in DOMAIN labeled : x # d => labeled'[x] = labeled[x]
      <4>1. labeled' = [x \in DOMAIN labeled |-> IF x = d THEN [labeled[d] EXCEPT !.body = FALSE]
                                                          ELSE labeled[x]]
        BY <3>1
      <4>2. labeled'[d] = [labeled[d] EXCEPT !.body = FALSE]
        BY <4>1
      <4>3. DOMAIN labeled' = DOMAIN labeled
            /\ \A x \in DOMAIN labeled : x # d => labeled'[x] = labeled[x]
        BY <4>1
      <4> DEFINE f == labeled[d]
      <4>4. f = [horizons |-> f.horizons, strict |-> f.strict, schema |-> f.schema,
                 body |-> f.body, labels |-> f.labels]
        BY <3>2 DEF LabelFile
      <4> HIDE DEF f
      <4>5. [f EXCEPT !.body = FALSE] =
              [horizons |-> f.horizons, strict |-> f.strict, schema |-> f.schema,
               body |-> FALSE, labels |-> f.labels]
        <5>1. ASSUME NEW no
              PROVE  [f EXCEPT !.body = no] =
                       [horizons |-> f.horizons, strict |-> f.strict, schema |-> f.schema,
                        body |-> no, labels |-> f.labels]
          BY <4>4
        <5> QED
          BY <5>1, Zenon
      <4> QED
        BY <4>2, <4>3, <4>5 DEF f
    <3>4. LabelFile(labeled'[d])
      BY <3>2, <3>3 DEF LabelFile
    <3>5. \A x \in DOMAIN labeled : labeled'[x].horizons = labeled[x].horizons
      BY <3>3
    <3>6. \A x \in DOMAIN labeled : LabelFile(labeled'[x])
      BY <3>3, <3>4 DEF SplitIInv, SplitTypes
    <3> QED
      BY <3>1, <3>3, <3>5, <3>6 DEF SplitIInv, SplitTypes
  <2> QED
    BY <2>1, <2>2
<1>4. SplitTypes'
  BY <1>2, <1>3 DEF SplitIInv, SplitTypes
<1>5. RunHolds'
  <2>1. RunHolds
    BY DEF SplitIInv
  <2>2. /\ ~raced' /\ pc = "read" =>
             \A d \in DOMAIN labeled' : \A h \in labeled'[d].horizons : h <= mem[1].longest
    BY <1>3, <2>1 DEF RunHolds
  <2>4. pc = "read" => \A s \in Range(Splits) : Range(mem[1].splits[s]) \subseteq DOMAIN labeled'
    BY <1>3, <2>1 DEF RunHolds
  <2>3. \A m : Survives(m)' = Survives(m)
    BY <1>2 DEF Survives
  <2> QED
    BY <1>2, <2>1, <2>2, <2>3, <2>4 DEF RunHolds
<1>6. DiskHolds'
  <2>1. \A m : Survives(m)' = Survives(m)
    BY <1>2 DEF Survives
  <2> QED
    BY <1>2, <2>1 DEF SplitIInv, DiskHolds
<1> QED
  BY <1>4, <1>5, <1>6 DEF SplitIInv

\* What a run reads stays as it was; what else the types ask of a step of it.
LEMMA TypesKept ==
  ASSUME SplitTypes, UNCHANGED <<aligned, labeled>>, reported' \in BOOLEAN, raced' \in BOOLEAN,
         pc' \in {"idle", "horizon", "read", "publish", "sync", "manifest", "flush"},
         \A g \in DOMAIN gens' : gens'[g] \in {"linked", "durable", "altered"},
         pc' # "idle" => \E a \in Options : arg' = <<a>>
  PROVE  SplitTypes'
BY DEF SplitTypes

LEMMA StartsSplit == ASSUME SplitIInv, NEW a \in Options, Starts(a) PROVE SplitIInv'
<1>1. /\ pc' = "horizon" /\ arg' = <<a>> /\ raced' = FALSE /\ reported' = FALSE
      /\ UNCHANGED <<aligned, labeled, mem, blobs, gens, manifest, stable>>
  BY DEF Starts, inputs, disk
<1>2. SplitTypes'
  BY <1>1, TypesKept DEF SplitIInv, SplitTypes
<1>3. RunHolds'
  BY <1>1 DEF RunHolds
<1>4. \A m : Survives(m)' = Survives(m)
  BY <1>1 DEF Survives
<1>5. DiskHolds'
  BY <1>1, <1>4 DEF SplitIInv, DiskHolds
<1> QED
  BY <1>2, <1>3, <1>5 DEF SplitIInv

\* A run that ends, however, while the disk stays.
LEMMA EndsKept ==
  ASSUME SplitIInv, Ends, UNCHANGED <<aligned, labeled, gens, manifest, stable, reported, raced>>
  PROVE  SplitIInv'
<1>1. SplitTypes'
  BY TypesKept DEF SplitIInv, SplitTypes, Ends
<1>2. RunHolds'
  BY DEF RunHolds, Ends
<1>3. \A m : Survives(m)' = Survives(m)
  BY DEF Survives
<1>4. DiskHolds'
  BY <1>3 DEF SplitIInv, DiskHolds
<1> QED
  BY <1>1, <1>2, <1>4 DEF SplitIInv

\* The fields of a manifest, and what an update of some of them leaves.
Fields(m) ==
  m = [splits |-> m.splits, gap |-> m.gap, horizon |-> m.horizon, warned |-> m.warned,
       safe |-> m.safe, dropped |-> m.dropped, generation |-> m.generation,
       source |-> m.source, longest |-> m.longest, raced |-> m.raced]

LEMMA SafeSet ==
  ASSUME NEW m, Fields(m), NEW s
  PROVE  [m EXCEPT !.safe = s] =
           [splits |-> m.splits, gap |-> m.gap, horizon |-> m.horizon, warned |-> m.warned,
            safe |-> s, dropped |-> m.dropped, generation |-> m.generation,
            source |-> m.source, longest |-> m.longest, raced |-> m.raced]
BY DEF Fields

LEMMA WarnedSet ==
  ASSUME NEW m, Fields(m), NEW w
  PROVE  [m EXCEPT !.warned = w] =
           [splits |-> m.splits, gap |-> m.gap, horizon |-> m.horizon, warned |-> w,
            safe |-> m.safe, dropped |-> m.dropped, generation |-> m.generation,
            source |-> m.source, longest |-> m.longest, raced |-> m.raced]
BY DEF Fields

LEMMA Judged ==
  ASSUME NEW m, Fields(m), NEW s, NEW w, NEW o
  PROVE  [m EXCEPT !.safe = s, !.warned = w, !.source = o] =
           [splits |-> m.splits, gap |-> m.gap, horizon |-> m.horizon, warned |-> w,
            safe |-> s, dropped |-> m.dropped, generation |-> m.generation,
            source |-> o, longest |-> m.longest, raced |-> m.raced]
<1> DEFINE x == [m EXCEPT !.safe = s]
           y == [x EXCEPT !.warned = w]
           z == [y EXCEPT !.source = o]
<1>1. [m EXCEPT !.safe = s, !.warned = w, !.source = o] = z
  OBVIOUS
<1>2. x = [splits |-> m.splits, gap |-> m.gap, horizon |-> m.horizon, warned |-> m.warned,
           safe |-> s, dropped |-> m.dropped, generation |-> m.generation,
           source |-> m.source, longest |-> m.longest, raced |-> m.raced]
  BY SafeSet
<1> HIDE DEF x
<1>3. Fields(x)
  BY <1>2 DEF Fields
<1>4. y = [splits |-> x.splits, gap |-> x.gap, horizon |-> x.horizon, warned |-> w,
           safe |-> x.safe, dropped |-> x.dropped, generation |-> x.generation,
           source |-> x.source, longest |-> x.longest, raced |-> x.raced]
  BY <1>3, WarnedSet
<1> HIDE DEF y
<1>5. y = [splits |-> m.splits, gap |-> m.gap, horizon |-> m.horizon, warned |-> w,
           safe |-> s, dropped |-> m.dropped, generation |-> m.generation,
           source |-> m.source, longest |-> m.longest, raced |-> m.raced]
  BY <1>2, <1>4
<1>6. z = [splits |-> m.splits, gap |-> m.gap, horizon |-> m.horizon, warned |-> w,
           safe |-> s, dropped |-> m.dropped, generation |-> m.generation,
           source |-> o, longest |-> m.longest, raced |-> m.raced]
  BY <1>5
<1> HIDE DEF z
<1> QED
  BY <1>1, <1>6

LEMMA Written ==
  ASSUME NEW m, Fields(m), NEW d, NEW w, NEW r
  PROVE  [m EXCEPT !.dropped = d, !.warned = w, !.raced = r] =
           [splits |-> m.splits, gap |-> m.gap, horizon |-> m.horizon, warned |-> w,
            safe |-> m.safe, dropped |-> d, generation |-> m.generation,
            source |-> m.source, longest |-> m.longest, raced |-> r]
<1> DEFINE x == [m EXCEPT !.dropped = d]
           y == [x EXCEPT !.warned = w]
           z == [y EXCEPT !.raced = r]
<1>1. [m EXCEPT !.dropped = d, !.warned = w, !.raced = r] = z
  OBVIOUS
<1>2. x = [splits |-> m.splits, gap |-> m.gap, horizon |-> m.horizon, warned |-> m.warned,
           safe |-> m.safe, dropped |-> d, generation |-> m.generation,
           source |-> m.source, longest |-> m.longest, raced |-> m.raced]
  BY DEF Fields
<1> HIDE DEF x
<1>3. Fields(x)
  BY <1>2 DEF Fields
<1>4. y = [splits |-> x.splits, gap |-> x.gap, horizon |-> x.horizon, warned |-> w,
           safe |-> x.safe, dropped |-> x.dropped, generation |-> x.generation,
           source |-> x.source, longest |-> x.longest, raced |-> x.raced]
  BY <1>3, WarnedSet
<1> HIDE DEF y
<1>5. y = [splits |-> m.splits, gap |-> m.gap, horizon |-> m.horizon, warned |-> w,
           safe |-> m.safe, dropped |-> d, generation |-> m.generation,
           source |-> m.source, longest |-> m.longest, raced |-> m.raced]
  BY <1>2, <1>4
<1>6. z = [splits |-> m.splits, gap |-> m.gap, horizon |-> m.horizon, warned |-> w,
           safe |-> m.safe, dropped |-> d, generation |-> m.generation,
           source |-> m.source, longest |-> m.longest, raced |-> r]
  BY <1>5
<1> HIDE DEF z
<1> QED
  BY <1>1, <1>6

LEMMA Named ==
  ASSUME NEW m, Fields(m), NEW g
  PROVE  [m EXCEPT !.generation = g] =
           [splits |-> m.splits, gap |-> m.gap, horizon |-> m.horizon, warned |-> m.warned,
            safe |-> m.safe, dropped |-> m.dropped, generation |-> g,
            source |-> m.source, longest |-> m.longest, raced |-> m.raced]
BY DEF Fields

LEMMA ManifestStep == ASSUME SplitIInv, Manifest PROVE SplitIInv'
<1> DEFINE days == DOMAIN labeled
<1>1. PICK listed \in BOOLEAN :
        LET a        == arg[1]
            supplied == a.horizon # None
            files    == IF supplied THEN <<{}>> ELSE DiscoverLabeledFiles(listed)
            unread   == {d \in files[1] : ~labeled[d].schema}
            h        == IF supplied THEN a.horizon[1]
                        ELSE LongestHorizon(files[1] \ unread)
            m        == BuildManifest(DOMAIN labeled, a, h)
            good     == unread = {} /\ VerifyManifest(m)
        IN IF files = None \/ (a.strict /\ (m.warned \/ ~good)) THEN Ends
           ELSE /\ pc' = "read" /\ UNCHANGED <<arg, blobs>>
                /\ mem' = << [m EXCEPT !.safe = @ /\ good, !.warned = @ \/ ~good,
                                       !.source = IF supplied THEN @ ELSE "derived"] >>
  BY DEF Manifest
<1>2. /\ pc = "horizon"
      /\ UNCHANGED <<aligned, labeled, gens, manifest, stable, reported, raced>>
  BY DEF Manifest, inputs, disk
<1> DEFINE a        == arg[1]
           supplied == a.horizon # None
           files    == IF supplied THEN <<{}>> ELSE DiscoverLabeledFiles(listed)
           unread   == {d \in files[1] : ~labeled[d].schema}
           h        == IF supplied THEN a.horizon[1] ELSE LongestHorizon(files[1] \ unread)
           m        == BuildManifest(days, a, h)
           good     == unread = {} /\ VerifyManifest(m)
           x        == [m EXCEPT !.safe = @ /\ good, !.warned = @ \/ ~good,
                                 !.source = IF supplied THEN @ ELSE "derived"]
<1>3. CASE Ends
  BY <1>2, <1>3, EndsKept
<1>4. CASE files # None /\ pc' = "read" /\ UNCHANGED <<arg, blobs>> /\ mem' = <<x>>
  <2>1. PICK b \in Options : arg = <<b>>
    BY <1>2 DEF SplitIInv, SplitTypes
  <2>2. a \in Options /\ (supplied => a.horizon[1] \in Nat)
    <3>1. a = b /\ b.horizon \in Seq(Nat)
      BY <2>1, SplitAssumption
    <3> QED
      BY <3>1 DEF None
  <2>3. files[1] \subseteq days /\ (~supplied => files[1] = days)
    BY <1>4 DEF DiscoverLabeledFiles
  <2>4. days \subseteq Nat /\ IsFiniteSet(days) /\ \A d \in days : LabelFile(labeled[d])
    <3>1. days \subseteq DOMAIN aligned /\ DOMAIN aligned \subseteq Nat /\ IsFiniteSet(DOMAIN aligned)
      BY DEF SplitIInv, SplitTypes
    <3>2. IsFiniteSet(days)
      BY <3>1, FS_Subset
    <3> QED
      BY <3>1, <3>2 DEF SplitIInv, SplitTypes
  <2>5. h \in Nat
    <3>1. CASE supplied
      BY <2>2, <3>1
    <3>2. CASE ~supplied
      <4> DEFINE D == files[1] \ unread
      <4>1. D \subseteq days
        BY <2>3
      <4> HIDE DEF D
      <4>2. IsFiniteSet(D)
        BY <2>4, <4>1, FS_Subset
      <4>3. LongestHorizon(D) \in Nat
        BY <2>4, <4>1, <4>2, LongestIs
      <4> QED
        BY <3>2, <4>3 DEF D
    <3> QED
      BY <3>1, <3>2
  <2>6. /\ LongestHorizon(days) \in Nat
        /\ \A d \in days : \A k \in labeled[d].horizons : k <= LongestHorizon(days)
    BY <2>4, LongestIs
  <2>7. good /\ ~supplied => h = LongestHorizon(days)
    <3>1. ASSUME good, ~supplied PROVE h = LongestHorizon(days)
      <4>1. files[1] \ unread = days
        BY <2>3, <3>1
      <4> QED
        BY <3>1, <4>1
    <3> QED
      BY <3>1
  <2>8. Fields(m)
    BY DEF Fields, BuildManifest
  <2>9. /\ m.longest = LongestHorizon(days) /\ m.generation = None /\ m.source = "supplied"
        /\ m.raced = FALSE /\ m.safe = (~m.warned)
    BY DEF BuildManifest
  <2>10. m.splits.train \in Seq(days) /\ m.splits.val \in Seq(days) /\ m.splits.test \in Seq(days)
    BY <2>2, <2>4, <2>5, SplitsAreDates
  <2>11. \A s \in Range(Splits) : m.splits[s] \in Seq(days)
    BY <2>10, SplitNames
  <2> DEFINE safe   == m.safe /\ good
             warned == m.warned \/ ~good
             source == IF supplied THEN m.source ELSE "derived"
             Clears == \A i, j \in DOMAIN Splits : i < j =>
                         \A d \in Range(m.splits[Splits[i]]), e \in Range(m.splits[Splits[j]]) :
                           Clear(d, e, m.longest)
  <2>12. safe /\ source = "derived" => Clears
    <3>1. ASSUME safe, source = "derived" PROVE Clears
      <4>1. ~m.warned /\ VerifyManifest(m) /\ ~supplied
        BY <2>9, <3>1
      <4>2. h = m.longest
        BY <2>7, <2>9, <3>1, <4>1
      <4>3. \A i, j \in DOMAIN Splits : i < j =>
              \A d \in Range(m.splits[Splits[i]]), e \in Range(m.splits[Splits[j]]) : Clear(d, e, h)
        BY <2>2, <2>4, <2>5, <4>1, BuiltClear
      <4> QED
        BY <4>2, <4>3
    <3> QED
      BY <3>1
  <2>13. x = [m EXCEPT !.safe = safe, !.warned = warned, !.source = source]
    OBVIOUS
  <2> HIDE DEF m, safe, warned, source, good, h, unread, supplied, files, x
  <2>14. x = [splits |-> m.splits, gap |-> m.gap, horizon |-> m.horizon, warned |-> warned,
              safe |-> safe, dropped |-> m.dropped, generation |-> m.generation,
              source |-> source, longest |-> m.longest, raced |-> m.raced]
    BY <2>8, <2>13, Judged
  <2>15. /\ x.splits = m.splits /\ x.longest = m.longest /\ x.generation = None
         /\ x.safe = safe /\ x.source = source
    BY <2>9, <2>14
  <2>16. Manifested(x)
    <3>1. \A s \in Range(Splits) : x.splits[s] \in Seq(Nat)
      BY <2>4, <2>11, <2>15, Wider
    <3>2. DatesClear(x)
      BY <2>12, <2>15 DEF DatesClear
    <3>3. Fields(x)
      BY <2>14 DEF Fields
    <3> QED
      BY <2>6, <2>9, <2>15, <3>1, <3>2, <3>3 DEF Manifested, Fields
  <2>17. mem'[1] = x /\ mem' = <<mem'[1]>> /\ pc' = "read" /\ labeled' = labeled
    BY <1>2, <1>4
  <2>18. \A s \in Range(Splits) : Range(x.splits[s]) \subseteq days
    <3>1. \A q \in Seq(days) : Range(q) \subseteq days
      BY DEF Range
    <3> QED
      BY <2>11, <2>15, <3>1
  <2>19. \A d \in days : \A k \in labeled[d].horizons : k <= x.longest
    BY <2>6, <2>9, <2>15
  <2>20. ~reported'
    BY <1>2 DEF SplitIInv, RunHolds
  <2>21. RunHolds'
    BY <2>15, <2>16, <2>17, <2>18, <2>19, <2>20 DEF RunHolds
  <2>22. SplitTypes'
    BY <1>2, <1>4, <2>1, TypesKept DEF SplitIInv, SplitTypes
  <2>23. \A r : Survives(r)' = Survives(r)
    BY <1>2 DEF Survives
  <2>24. DiskHolds'
    BY <1>2, <2>23 DEF SplitIInv, DiskHolds
  <2> QED
    BY <2>21, <2>22, <2>24 DEF SplitIInv
<1> QED
  BY <1>1, <1>3, <1>4

LEMMA ReadStep == ASSUME SplitIInv, ReadFrames PROVE SplitIInv'
<1> DEFINE m       == mem[1]
           Good(s) == {d \in Range(m.splits[s]) : labeled[d].body}
           lost    == UNION {Range(m.splits[s]) \ Good(s) : s \in Range(Splits)}
           written == {s \in Range(Splits) : Good(s) # {}}
           files   == [s \in written |-> {<<d, labeled[d].labels>> : d \in Good(s)}]
           x       == [m EXCEPT !.dropped = lost, !.warned = @ \/ lost # {}, !.raced = raced]
<1>1. /\ pc = "read"
      /\ UNCHANGED <<aligned, labeled, arg, gens, manifest, stable, reported, raced>>
  BY DEF ReadFrames, inputs, disk
<1>2. /\ mem = <<m>> /\ Manifested(m) /\ m.generation = None /\ ~reported
      /\ \A s \in Range(Splits) : Range(m.splits[s]) \subseteq DOMAIN labeled
      /\ ~raced => \A d \in DOMAIN labeled : \A h \in labeled[d].horizons : h <= m.longest
  BY <1>1 DEF SplitIInv, RunHolds
<1>3. \A r : Survives(r)' = Survives(r)
  BY <1>1 DEF Survives
<1>4. DiskHolds'
  BY <1>1, <1>3 DEF SplitIInv, DiskHolds
<1>5. pc' \in {"manifest", "publish"}
  BY DEF ReadFrames
<1>6. SplitTypes'
  BY <1>1, <1>5, TypesKept DEF SplitIInv, SplitTypes
<1>7. CASE pc' = "manifest" /\ UNCHANGED <<mem, blobs>>
  <2>1. Survives(m)
    BY <1>2 DEF Survives
  <2>2. RunHolds'
    BY <1>1, <1>2, <1>3, <1>7, <2>1 DEF RunHolds
  <2> QED
    BY <1>4, <1>6, <2>2 DEF SplitIInv
<1>8. CASE blobs' = <<files>> /\ mem' = <<x>>
  <2>1. x = [splits |-> m.splits, gap |-> m.gap, horizon |-> m.horizon,
             warned |-> m.warned \/ lost # {}, safe |-> m.safe, dropped |-> lost,
             generation |-> m.generation, source |-> m.source, longest |-> m.longest,
             raced |-> raced]
    <3> DEFINE w == m.warned \/ lost # {}
    <3>1. x = [m EXCEPT !.dropped = lost, !.warned = w, !.raced = raced]
      OBVIOUS
    <3>2. Fields(m)
      BY <1>2 DEF Manifested, Fields
    <3> HIDE DEF m, lost, w, x
    <3>3. x = [splits |-> m.splits, gap |-> m.gap, horizon |-> m.horizon, warned |-> w,
               safe |-> m.safe, dropped |-> lost, generation |-> m.generation,
               source |-> m.source, longest |-> m.longest, raced |-> raced]
      BY <3>1, <3>2, Written
    <3> QED
      BY <3>3 DEF w
  <2>2. FilesWithin(x, files)
    <3> SUFFICES ASSUME ~raced, NEW s \in written, NEW file \in files[s]
                 PROVE  /\ file[1] \in Range(m.splits[s])
                        /\ \A l \in file[2] : l.h \in Nat /\ l.h <= m.longest
      <4> HIDE DEF x, Good, lost
      <4>1. x.raced = raced /\ x.splits = m.splits /\ x.longest = m.longest
        BY <2>1
      <4>2. DOMAIN files = written
        OBVIOUS
      <4> HIDE DEF files, written
      <4> QED
        BY <4>1, <4>2 DEF FilesWithin
    <3>1. PICK d \in Good(s) : file = <<d, labeled[d].labels>>
      OBVIOUS
    <3>2. d \in Range(m.splits[s]) /\ d \in DOMAIN labeled
      BY <1>2
    <3>3. LabelFile(labeled[d])
      BY <3>2 DEF SplitIInv, SplitTypes
    <3>4. \A l \in labeled[d].labels : l.h \in Nat /\ l.h <= m.longest
      BY <1>2, <3>2, <3>3 DEF LabelFile
    <3> QED
      BY <3>1, <3>2, <3>4
  <2> HIDE DEF files, x, Good, written, lost
  <2>3. Manifested(x)
    <3>1. x.splits = m.splits /\ x.longest = m.longest /\ x.generation = None
          /\ x.safe = m.safe /\ x.source = m.source
      BY <1>2, <2>1
    <3>2. Fields(x)
      BY <2>1 DEF Fields
    <3>3. DatesClear(x)
      BY <1>2, <3>1 DEF DatesClear, Manifested
    <3> QED
      BY <1>2, <3>1, <3>2, <3>3 DEF Manifested, Fields
  <2>4. x.generation = None
    BY <1>2, <2>1
  <2>5. mem'[1] = x /\ mem' = <<mem'[1]>> /\ blobs'[1] = files /\ blobs' = <<blobs'[1]>>
    BY <1>8
  <2>6. Survives(mem[1])'
    BY <2>4, <2>5 DEF Survives
  <2>7. RunHolds'
    BY <1>1, <1>2, <1>5, <2>2, <2>3, <2>4, <2>5, <2>6 DEF RunHolds
  <2> QED
    BY <1>4, <1>6, <2>7 DEF SplitIInv
<1> QED
  BY <1>7, <1>8 DEF ReadFrames

\* The manifest that names a generation it wrote.
LEMMA NamedHolds ==
  ASSUME NEW m, Manifested(m), NEW g, FilesWithin(m, g)
  PROVE  /\ Manifested([m EXCEPT !.generation = <<g>>])
         /\ [m EXCEPT !.generation = <<g>>].generation = <<g>>
<1> DEFINE x == [m EXCEPT !.generation = <<g>>]
<1>1. x = [splits |-> m.splits, gap |-> m.gap, horizon |-> m.horizon, warned |-> m.warned,
           safe |-> m.safe, dropped |-> m.dropped, generation |-> <<g>>,
           source |-> m.source, longest |-> m.longest, raced |-> m.raced]
  <2>1. Fields(m)
    BY DEF Manifested, Fields
  <2> QED
    BY <2>1, Named
<1> HIDE DEF x
<1>2. x.splits = m.splits /\ x.longest = m.longest /\ x.generation = <<g>> /\ x.safe = m.safe
      /\ x.source = m.source /\ x.raced = m.raced
  BY <1>1
<1>3. Fields(x)
  BY <1>1 DEF Fields
<1>4. DatesClear(x)
  BY <1>2 DEF DatesClear, Manifested
<1>5. FilesWithin(x, x.generation[1])
  BY <1>2 DEF FilesWithin
<1>6. Manifested(x)
  BY <1>2, <1>3, <1>4, <1>5 DEF Manifested, Fields
<1> QED
  BY <1>2, <1>6 DEF x

LEMMA PublishStep == ASSUME SplitIInv, ReuseGeneration \/ RenameGeneration PROVE SplitIInv'
<1> DEFINE b == blobs[1]
           x == [mem[1] EXCEPT !.generation = blobs]
<1>1. /\ pc = "publish" /\ UNCHANGED <<aligned, labeled, manifest, stable, reported, raced>>
  BY DEF ReuseGeneration, RenameGeneration, inputs, disk
<1>2. /\ mem = <<mem[1]>> /\ Manifested(mem[1]) /\ blobs = <<b>> /\ FilesWithin(mem[1], b)
      /\ ~reported
  BY <1>1 DEF SplitIInv, RunHolds
<1>3. CASE Ends /\ ReuseGeneration
  BY <1>1, <1>3, EndsKept DEF ReuseGeneration, disk
<1>4. CASE /\ pc' = "sync" /\ mem' = <<x>> /\ UNCHANGED <<arg, blobs>>
           /\ \/ gens' = gens
              \/ /\ b \notin DOMAIN gens
                 /\ gens' = [g \in DOMAIN gens \cup {b} |-> IF g = b THEN "linked" ELSE gens[g]]
           /\ b \in DOMAIN gens'
  <2>1. /\ DOMAIN gens \subseteq DOMAIN gens' /\ \A g \in DOMAIN gens : gens'[g] = gens[g]
        /\ \A g \in DOMAIN gens' : gens'[g] \in {"linked", "durable", "altered"}
    <3>1. \A g \in DOMAIN gens : gens[g] \in {"linked", "durable", "altered"}
      BY DEF SplitIInv, SplitTypes
    <3> QED
      BY <1>4, <3>1
  <2>2. Manifested(x) /\ x.generation = blobs
    BY <1>2, NamedHolds
  <2>3. SplitTypes'
    BY <1>1, <1>4, <2>1, TypesKept DEF SplitIInv, SplitTypes
  <2>4. RunHolds'
    <3>1. mem'[1] = x /\ mem' = <<mem'[1]>> /\ blobs' = blobs
      BY <1>4
    <3> HIDE DEF x
    <3> QED
      BY <1>1, <1>2, <1>4, <2>2, <3>1 DEF RunHolds
  <2>5. \A r : Survives(r) => Survives(r)'
    BY <2>1 DEF Survives
  <2>6. DiskHolds'
    BY <1>1, <2>5 DEF SplitIInv, DiskHolds
  <2> QED
    BY <2>3, <2>4, <2>6 DEF SplitIInv
<1>5. CASE ReuseGeneration /\ ~Ends
  <2>1. gens' = gens /\ b \in DOMAIN gens
    BY <1>5 DEF ReuseGeneration, disk
  <2>2. pc' = "sync" /\ mem' = <<x>> /\ UNCHANGED <<arg, blobs>>
    BY <1>5 DEF ReuseGeneration
  <2> QED
    BY <1>4, <2>1, <2>2
<1>6. CASE RenameGeneration
  <2>1. /\ b \notin DOMAIN gens
        /\ gens' = [g \in DOMAIN gens \cup {b} |-> IF g = b THEN "linked" ELSE gens[g]]
    BY <1>6 DEF RenameGeneration
  <2>2. b \in DOMAIN gens'
    BY <2>1
  <2>3. pc' = "sync" /\ mem' = <<x>> /\ UNCHANGED <<arg, blobs>>
    BY <1>6 DEF RenameGeneration
  <2> QED
    BY <1>4, <2>1, <2>2, <2>3
<1> QED
  BY <1>3, <1>5, <1>6

LEMMA SyncStep == ASSUME SplitIInv, SyncGeneration PROVE SplitIInv'
<1> DEFINE b == blobs[1]
<1>1. pc = "sync" /\ UNCHANGED <<aligned, labeled, manifest, stable, reported, raced>>
  BY DEF SyncGeneration, inputs
<1>2. CASE Ends /\ UNCHANGED gens
  BY <1>1, <1>2, EndsKept
<1>3. CASE gens' = [gens EXCEPT ![b] = "durable"] /\ pc' = "manifest" /\ UNCHANGED <<arg, mem, blobs>>
  <2>1. /\ mem = <<mem[1]>> /\ Manifested(mem[1]) /\ mem[1].generation = blobs /\ b \in DOMAIN gens
        /\ ~reported
    BY <1>1 DEF SplitIInv, RunHolds
  <2>2. /\ DOMAIN gens' = DOMAIN gens /\ gens'[b] = "durable"
        /\ \A g \in DOMAIN gens : g # b => gens'[g] = gens[g]
    BY <1>3, <2>1
  <2>3. SplitTypes'
    <3>1. \A g \in DOMAIN gens : gens[g] \in {"linked", "durable", "altered"}
      BY DEF SplitIInv, SplitTypes
    <3>2. \A g \in DOMAIN gens' : gens'[g] \in {"linked", "durable", "altered"}
      BY <2>2, <3>1
    <3> QED
      BY <1>1, <1>3, <3>2, TypesKept DEF SplitIInv, SplitTypes
  <2>4. \A r : Survives(r) => Survives(r)'
    BY <2>2 DEF Survives
  <2>5. Survives(mem[1])'
    BY <1>3, <2>1, <2>2 DEF Survives
  <2>6. RunHolds'
    BY <1>1, <1>3, <2>1, <2>5 DEF RunHolds
  <2>7. DiskHolds'
    BY <1>1, <2>4 DEF SplitIInv, DiskHolds
  <2> QED
    BY <2>3, <2>6, <2>7 DEF SplitIInv
<1> QED
  BY <1>2, <1>3 DEF SyncGeneration

LEMMA WriteStep == ASSUME SplitIInv, WriteManifest PROVE SplitIInv'
<1>1. /\ pc = "manifest" /\ pc' = "flush" /\ manifest' = mem
      /\ UNCHANGED <<aligned, labeled, arg, mem, blobs, gens, stable, reported, raced>>
  BY DEF WriteManifest, inputs
<1>2. mem = <<mem[1]>> /\ Manifested(mem[1]) /\ Survives(mem[1]) /\ ~reported
  BY <1>1 DEF SplitIInv, RunHolds
<1>3. \A r : Survives(r)' = Survives(r)
  BY <1>1 DEF Survives
<1>4. SplitTypes'
  BY <1>1, TypesKept DEF SplitIInv, SplitTypes
<1>5. RunHolds'
  BY <1>1, <1>2, <1>3 DEF RunHolds
<1>6. DiskHolds'
  BY <1>1, <1>2, <1>3 DEF SplitIInv, DiskHolds
<1> QED
  BY <1>4, <1>5, <1>6 DEF SplitIInv

LEMMA FlushStep == ASSUME SplitIInv, SyncManifest PROVE SplitIInv'
<1>1. /\ pc = "flush" /\ Ends /\ UNCHANGED <<aligned, labeled, gens, manifest, raced>>
      /\ \/ stable' = manifest /\ reported' = TRUE
         \/ UNCHANGED <<stable, reported>>
  BY DEF SyncManifest, inputs
<1>2. \A r : Survives(r)' = Survives(r)
  BY <1>1 DEF Survives
<1>3. SplitTypes'
  BY <1>1, TypesKept DEF SplitIInv, SplitTypes, Ends
<1>4. RunHolds'
  BY <1>1 DEF RunHolds, Ends
<1>5. DiskHolds'
  BY <1>1, <1>2 DEF SplitIInv, DiskHolds
<1> QED
  BY <1>3, <1>4, <1>5 DEF SplitIInv

LEMMA CutStep == ASSUME SplitIInv, PowerCut PROVE SplitIInv'
<1>1. /\ Ends /\ UNCHANGED <<aligned, labeled, reported, raced>>
      /\ manifest' \in {manifest, stable} /\ stable' = manifest'
  BY DEF PowerCut, inputs
<1>2. PICK gone \in SUBSET {g \in DOMAIN gens : gens[g] = "linked"} :
        gens' = [g \in DOMAIN gens \ gone |-> IF gens[g] = "linked" THEN "durable" ELSE gens[g]]
  BY DEF PowerCut
<1>3. \A g \in DOMAIN gens : gens[g] \in {"linked", "durable", "altered"}
  BY DEF SplitIInv, SplitTypes
<1>4. \A g \in DOMAIN gens' : gens'[g] \in {"linked", "durable", "altered"}
  BY <1>2, <1>3
<1>5. \A g \in DOMAIN gens : gens[g] # "linked" => g \in DOMAIN gens' /\ gens'[g] = gens[g]
  BY <1>2
<1>6. \A r : Survives(r) => Survives(r)'
  BY <1>5 DEF Survives
<1>7. SplitTypes'
  BY <1>1, <1>4, TypesKept DEF SplitIInv, SplitTypes, Ends
<1>8. RunHolds'
  BY <1>1 DEF RunHolds, Ends
<1>9. DiskHolds'
  BY <1>1, <1>6 DEF SplitIInv, DiskHolds
<1> QED
  BY <1>7, <1>8, <1>9 DEF SplitIInv

LEMMA DamageStep == ASSUME SplitIInv, NEW g \in DOMAIN gens, Damaged(g) PROVE SplitIInv'
<1>1. /\ pc = "idle" /\ gens' = [gens EXCEPT ![g] = "altered"]
      /\ UNCHANGED <<aligned, labeled, pc, arg, mem, blobs, manifest, stable, reported, raced>>
  BY DEF Damaged, inputs, run
<1>2. /\ DOMAIN gens' = DOMAIN gens /\ gens'[g] = "altered"
      /\ \A k \in DOMAIN gens : k # g => gens'[k] = gens[k]
  BY <1>1
<1>3. \A k \in DOMAIN gens' : gens'[k] \in {"linked", "durable", "altered"}
  BY <1>2 DEF SplitIInv, SplitTypes
<1>4. \A r : Survives(r) => Survives(r)'
  BY <1>2 DEF Survives
<1>5. SplitTypes'
  BY <1>1, <1>3, TypesKept DEF SplitIInv, SplitTypes
<1>6. RunHolds'
  BY <1>1 DEF RunHolds
<1>7. DiskHolds'
  BY <1>1, <1>4 DEF SplitIInv, DiskHolds
<1> QED
  BY <1>5, <1>6, <1>7 DEF SplitIInv

LEMMA SplitStutters == ASSUME SplitIInv, UNCHANGED vars PROVE SplitIInv'
<1>1. UNCHANGED <<aligned, labeled, pc, arg, mem, blobs, gens, manifest, stable, reported, raced>>
  BY DEF vars, inputs, run, disk
<1>2. \A r : Survives(r)' = Survives(r)
  BY <1>1 DEF Survives
<1>3. SplitTypes' /\ RunHolds' /\ DiskHolds'
  BY <1>1, <1>2 DEF SplitIInv, SplitTypes, RunHolds, DiskHolds
<1> QED
  BY <1>3 DEF SplitIInv

LEMMA SplitSteps == ASSUME SplitIInv, [Next]_vars PROVE SplitIInv'
<1>1. CASE Killed
  BY <1>1, EndsKept DEF Killed, inputs, disk
<1>2. CASE \/ \E d \in DOMAIN aligned, hs \in HorizonSets, strict \in BOOLEAN :
                GenerateLabels(d, hs, strict)
           \/ \E d \in DOMAIN labeled : Rots(d)
  BY <1>2, LabelStep
<1>3. CASE \E a \in Options : Starts(a)
  BY <1>3, StartsSplit
<1> QED
  BY <1>1, <1>2, <1>3, ManifestStep, ReadStep, PublishStep, SyncStep, WriteStep, FlushStep,
     CutStep, DamageStep, SplitStutters DEF Next

LEMMA SplitSoundness == ASSUME SplitIInv PROVE SplitInv /\ NoLeak
<1>1. TypeOK
  BY DEF SplitIInv, SplitTypes, TypeOK
<1>2. CommitRecord
  BY DEF SplitIInv, DiskHolds, Survives, CommitRecord
<1>3. ASSUME NEW m \in Range(manifest), m.safe, m.source = "derived",
             NEW i \in DOMAIN Splits, NEW j \in DOMAIN Splits, i < j,
             NEW e \in Range(m.splits[Splits[j]])
      PROVE  /\ \A d \in Range(m.splits[Splits[i]]) : Clear(d, e, m.longest)
             /\ m.generation # None /\ ~m.raced /\ Splits[i] \in DOMAIN m.generation[1] =>
                  \A file \in m.generation[1][Splits[i]] :
                    \A l \in file[2] : Clear(file[1], e, l.h)
  <2>1. Manifested(m)
    <3>1. manifest # None
      BY <1>3 DEF Range, None
    <3>2. manifest = <<manifest[1]>> /\ Manifested(manifest[1])
      BY <3>1 DEF SplitIInv, DiskHolds
    <3>3. m = manifest[1]
      BY <1>3, <3>2 DEF Range
    <3> QED
      BY <3>2, <3>3
  <2>2. \A d \in Range(m.splits[Splits[i]]) : Clear(d, e, m.longest)
    BY <1>3, <2>1 DEF Manifested, DatesClear
  <2>3. ASSUME m.generation # None, ~m.raced, Splits[i] \in DOMAIN m.generation[1],
               NEW file \in m.generation[1][Splits[i]], NEW l \in file[2]
        PROVE  Clear(file[1], e, l.h)
    <3>1. file[1] \in Range(m.splits[Splits[i]]) /\ l.h \in Nat /\ l.h <= m.longest
      BY <2>1, <2>3 DEF Manifested, FilesWithin
    <3>2. Clear(file[1], e, m.longest)
      BY <2>2, <3>1
    <3>3. file[1] \in Nat /\ e \in Nat /\ m.longest \in Nat
      <4>1. Splits[i] \in Range(Splits) /\ Splits[j] \in Range(Splits)
        BY <1>3 DEF Range
      <4>2. m.splits[Splits[i]] \in Seq(Nat) /\ m.splits[Splits[j]] \in Seq(Nat)
        BY <2>1, <4>1 DEF Manifested
      <4>3. \A q \in Seq(Nat) : Range(q) \subseteq Nat
        BY DEF Range
      <4> QED
        BY <1>3, <2>1, <3>1, <4>2, <4>3 DEF Manifested
    <3> QED
      BY <3>1, <3>2, <3>3 DEF Clear, Day
  <2> QED
    BY <2>2, <2>3
<1>4. \A d \in DOMAIN labeled : labeled[d].strict =>
        \A l \in labeled[d].labels : l.to - l.at = l.h * 1000
  BY DEF SplitIInv, SplitTypes, LabelFile
<1>5. NoLeak
  BY <1>3, <1>4 DEF NoLeak
<1> QED
  BY <1>1, <1>2, <1>5 DEF SplitInv

\* Whatever was killed, failed or lost its power, in every order of runs, relabellings and
\* damage: the manifest names a generation that survives, and one that calls itself
\* leakage-safe has no label that reaches a later split (SplitsSound).
THEOREM SplitsAlwaysSound == MCSpec => []SplitsSound
<1> DEFINE Sound == tool = "split" => SplitIInv
<1>1. MCInit => Sound
  BY SplitStarts DEF MCInit
<1>2. Sound /\ [MCNext]_<<vars, compactVars, alignVars, tool>> => Sound'
  <2>1. ASSUME Sound, tool = "split", [MCNext]_<<vars, compactVars, alignVars, tool>>
        PROVE  [Next]_vars
    BY <2>1 DEF MCNext
  <2>2. [MCNext]_<<vars, compactVars, alignVars, tool>> => tool' = tool
    BY DEF MCNext
  <2> QED
    BY <2>1, <2>2, SplitSteps
<1>3. Sound => SplitsSound
  BY SplitSoundness DEF SplitsSound
<1> HIDE DEF Sound
<1> QED
  BY <1>1, <1>2, <1>3, PTL DEF MCSpec

(***************************************************************************)
(* The dataset and its evidence                                            *)
(***************************************************************************)

AlignRow == [local : Nat \cup {-1}, process : Nat, exchange : {-1, 1}, own : BOOLEAN]

AlignTypes ==
  /\ rows \in [Align!Streams -> Seq(AlignRow)]
  /\ broken \subseteq Align!Streams \X Nat
  /\ legacy \in BOOLEAN

LEMMA RowTyped ==
  ASSUME NEW t \in Nat, NEW e \in {-1, 1}, NEW own \in BOOLEAN
  PROVE  /\ Align!Row(t, e, own) \in AlignRow
         /\ [Align!Row(t, e, own) EXCEPT !.local = -1] \in AlignRow
         /\ Align!Row(t, e, own).local = t /\ Align!Row(t, e, own).process = t + Delay
<1>1. Delay \in Nat
  BY AlignBounds DEF Align!AlignAssumption
<1>2. t + Delay \in Nat
  BY <1>1
<1> QED
  BY <1>1, <1>2 DEF Align!Row, AlignRow

LEMMA AlignStarts == ASSUME Align!Init PROVE AlignTypes
<1>1. PICK book \in FirstTimes, mark \in FirstTimes :
        rows = [s \in Align!Streams |->
                  IF s = "orderbook" THEN <<Align!Row(book, -1, TRUE)>>
                  ELSE IF s = "markprice" THEN <<Align!Row(mark, -1, TRUE)>> ELSE <<>>]
  BY DEF Align!Init, Align!Null
<1>2. book \in Nat /\ mark \in Nat
  BY AlignBounds DEF Align!AlignAssumption
<1>3. Align!Row(book, -1, TRUE) \in AlignRow /\ Align!Row(mark, -1, TRUE) \in AlignRow
  BY <1>2, RowTyped
<1>4. /\ <<Align!Row(book, -1, TRUE)>> \in Seq(AlignRow)
      /\ <<Align!Row(mark, -1, TRUE)>> \in Seq(AlignRow) /\ <<>> \in Seq(AlignRow)
  <2>1. \A r \in AlignRow : <<r>> \in Seq(AlignRow)
    OBVIOUS
  <2>2. <<>> \in Seq(AlignRow)
    OBVIOUS
  <2> QED
    BY <1>3, <2>1, <2>2
<1>5. \A s \in Align!Streams : rows[s] \in Seq(AlignRow)
  <2> SUFFICES ASSUME NEW s \in Align!Streams PROVE rows[s] \in Seq(AlignRow)
    OBVIOUS
  <2>1. rows[s] = IF s = "orderbook" THEN <<Align!Row(book, -1, TRUE)>>
                  ELSE IF s = "markprice" THEN <<Align!Row(mark, -1, TRUE)>> ELSE <<>>
    BY <1>1
  <2> HIDE <1>1
  <2> QED
    BY <1>4, <2>1
<1>6. rows \in [Align!Streams -> Seq(AlignRow)]
  BY <1>1, <1>5
<1> QED
  BY <1>6 DEF AlignTypes, Align!Init

\* A row on disk: where it goes, and when it became known.
Added(s, row) ==
  /\ s \in Align!Streams /\ row \in AlignRow
  /\ rows' = [rows EXCEPT ![s] = Append(@, row)]
  /\ UNCHANGED <<broken, legacy>>

LEMMA CollectsAdds ==
  ASSUME AlignTypes, NEW s \in Align!Streams, Align!Collects(s)
  PROVE  \E row : Added(s, row)
<1>1. PICK t \in Times, exchange \in {-1, 1}, own \in BOOLEAN, known \in BOOLEAN :
        rows' = [rows EXCEPT ![s] = Append(@,
                   [Align!Row(t, exchange, own) EXCEPT !.local = IF known THEN @ ELSE -1])]
  BY DEF Align!Collects, Align!Null
<1> DEFINE r == Align!Row(t, exchange, own)
           row == [r EXCEPT !.local = IF known THEN @ ELSE -1]
<1>2. t \in Nat
  BY AlignBounds DEF Align!AlignAssumption
<1>3. r \in AlignRow /\ [r EXCEPT !.local = -1] \in AlignRow
  BY <1>2, RowTyped
<1> HIDE DEF r
<1>4. row \in AlignRow
  <2>1. CASE known
    <3>1. row = r
      BY <1>3, <2>1 DEF AlignRow
    <3> QED
      BY <1>3, <3>1
  <2>2. CASE ~known
    BY <1>3, <2>2
  <2> QED
    BY <2>1, <2>2
<1>5. rows' = [rows EXCEPT ![s] = Append(@, row)]
  BY <1>1 DEF r
<1> HIDE DEF row
<1>6. UNCHANGED <<broken, legacy>>
  BY DEF Align!Collects
<1> QED
  BY <1>4, <1>5, <1>6 DEF Added

LEMMA AddedKeeps ==
  ASSUME AlignTypes, NEW s, NEW row, Added(s, row)
  PROVE  /\ AlignTypes'
         /\ \A x \in Align!Streams : x # s => rows'[x] = rows[x]
         /\ rows'[s] = Append(rows[s], row)
<1>1. rows \in [Align!Streams -> Seq(AlignRow)] /\ s \in Align!Streams /\ row \in AlignRow
  BY DEF AlignTypes, Added
<1>2. Append(rows[s], row) \in Seq(AlignRow)
  BY <1>1
<1>3. rows' = [rows EXCEPT ![s] = Append(rows[s], row)]
  BY DEF Added
<1>4. /\ rows' \in [Align!Streams -> Seq(AlignRow)] /\ rows'[s] = Append(rows[s], row)
      /\ \A x \in Align!Streams : x # s => rows'[x] = rows[x]
  BY <1>1, <1>2, <1>3
<1> QED
  BY <1>4 DEF AlignTypes, Added

LEMMA AlignStep == ASSUME AlignTypes, [Align!Next]_alignVars PROVE AlignTypes'
<1>1. CASE UNCHANGED alignVars
  BY <1>1 DEF AlignTypes, alignVars
<1>2. ASSUME NEW s \in Align!Streams, Align!Collects(s) PROVE AlignTypes'
  <2>1. PICK row : Added(s, row)
    BY <1>2, CollectsAdds
  <2> QED
    BY <2>1, AddedKeeps
<1>3. ASSUME NEW s \in Align!Streams, Align!Breaks(s) PROVE AlignTypes'
  <2>1. PICK i \in DOMAIN rows[s] : broken' = {<<s, i>>}
    BY <1>3 DEF Align!Breaks
  <2>2. i \in Nat
    BY DEF AlignTypes
  <2> QED
    BY <1>3, <2>1, <2>2 DEF AlignTypes, Align!Breaks
<1> QED
  BY <1>1, <1>2, <1>3 DEF Align!Next

\* A prepared row is one of the file, with the time it became available.
LEMMA PreparedAre ==
  ASSUME AlignTypes, NEW s \in Align!Streams
  PROVE  /\ DOMAIN rows[s] = 1 .. Len(rows[s]) /\ Len(rows[s]) \in Nat
         /\ Align!Prepared(s) \subseteq DOMAIN rows[s]
         /\ \A i \in Align!Prepared(s) : i \in Nat \ {0} /\ Align!Available(s, i) \in Nat
<1>1. rows[s] \in Seq(AlignRow) /\ \A i \in DOMAIN rows[s] : rows[s][i] \in AlignRow
  BY DEF AlignTypes
<1>2. DOMAIN rows[s] = 1 .. Len(rows[s]) /\ Len(rows[s]) \in Nat
  BY <1>1
<1>3. ASSUME NEW i \in Align!Prepared(s)
      PROVE  i \in DOMAIN rows[s] /\ Align!Available(s, i) \in Nat
  <2>1. i \in DOMAIN rows[s] /\ (legacy \/ rows[s][i].local # -1)
    BY DEF Align!Prepared, Align!Null
  <2>2. rows[s][i] \in AlignRow
    BY <1>1, <2>1
  <2>3. rows[s][i].process \in Nat /\ rows[s][i].local \in Nat \cup {-1}
    BY <2>2 DEF AlignRow
  <2> QED
    BY <2>1, <2>3 DEF Align!Available
<1> QED
  BY <1>2, <1>3

\* The multiple of g at or above x, and those below it.
LEMMA RoundedUp ==
  ASSUME NEW g \in Nat \ {0}, NEW x \in Nat, NEW k \in Nat, x <= k * g
  PROVE  LET c == (x + g - 1) \div g
         IN c \in Nat /\ c * g \in Nat /\ x <= c * g /\ c * g <= k * g
<1> DEFINE n == x + g - 1
           c == n \div g
           r == n % g
<1>1. n \in Nat /\ n >= x
  OBVIOUS
<1> HIDE DEF n
<1>2. c \in Nat /\ r \in 0 .. g - 1 /\ n = g * c + r
  BY <1>1
<1> HIDE DEF c, r
<1>3. c * g \in Nat /\ g * c = c * g
  BY <1>2
<1>4. c * g + r = x + g - 1
  BY <1>2, <1>3 DEF n
<1> DEFINE y == c * g
<1>5. y \in Nat /\ y + r = x + g - 1 /\ r \in 0 .. g - 1
  BY <1>2, <1>3, <1>4
<1> HIDE DEF y
<1>6. x <= y /\ y <= x + g - 1
  BY <1>5
<1>7. c <= k
  <2> SUFFICES ASSUME ~(c <= k) PROVE FALSE
    OBVIOUS
  <2>1. c - (k + 1) \in Nat
    BY <1>2
  <2>2. (c - (k + 1)) * g \in Nat
    BY <2>1
  <2>3. (c - (k + 1)) * g = c * g - (k * g + g)
    BY <1>2
  <2> DEFINE z == k * g
  <2>4. z \in Nat /\ x <= z
    OBVIOUS
  <2>5. y - (z + g) \in Nat
    BY <2>2, <2>3 DEF y
  <2> HIDE DEF z
  <2> QED
    BY <1>5, <1>6, <2>4, <2>5
<1>8. c * g <= k * g
  <2>1. k - c \in Nat
    BY <1>2, <1>7
  <2>2. (k - c) * g \in Nat
    BY <2>1
  <2>3. (k - c) * g = k * g - c * g
    BY <1>2
  <2> DEFINE z == k * g  w == c * g
  <2>4. z \in Nat /\ w \in Nat /\ z - w \in Nat
    BY <1>3, <2>2, <2>3
  <2>5. w <= z
    <3> HIDE DEF z, w
    <3> QED
      BY <2>4
  <2> QED
    BY <2>5
<1> QED
  BY <1>2, <1>3, <1>6, <1>8 DEF c, n, y

LEMMA Multiples == ASSUME NEW g \in Nat \ {0}, NEW c \in Nat PROVE (c * g) % g = 0
<1> DEFINE n == c * g  q == n \div g  r == n % g
<1>1. n \in Nat
  OBVIOUS
<1>2. q \in Nat /\ r \in 0 .. g - 1 /\ n = g * q + r
  <2> HIDE DEF n
  <2> QED
    BY <1>1
<1> HIDE DEF q, r
<1>3. (c - q) * g = r /\ c - q \in Int
  <2>1. (c - q) * g = c * g - q * g /\ g * q = q * g
    BY <1>2
  <2>2. q * g \in Int /\ c * g \in Int /\ c * g = q * g + r
    BY <1>2, <2>1
  <2> DEFINE a == c * g  b == q * g
  <2>3. a \in Int /\ b \in Int /\ a = b + r /\ r \in Int
    BY <1>2, <2>2
  <2>4. a - b = r
    <3> HIDE DEF a, b
    <3> QED
      BY <2>3
  <2> QED
    BY <1>2, <2>1, <2>4
<1> DEFINE d == c - q
<1>4. d \in Int /\ d * g = r
  BY <1>3
<1> HIDE DEF d
<1>5. CASE d = 0
  BY <1>4, <1>5 DEF r, n
<1>6. CASE d > 0
  <2>1. (d - 1) * g \in Nat /\ d * g = (d - 1) * g + g
    BY <1>4, <1>6
  <2> DEFINE e == (d - 1) * g
  <2>2. e \in Nat /\ r = e + g
    BY <1>4, <2>1
  <2> HIDE DEF e
  <2> QED
    BY <1>2, <2>2
<1>7. CASE d < 0
  <2>1. (-d) \in Nat \ {0} /\ (-d - 1) * g \in Nat /\ d * g = -((-d - 1) * g) - g
    BY <1>4, <1>7
  <2> DEFINE e == (-d - 1) * g
  <2>2. e \in Nat /\ r = -e - g
    BY <1>4, <2>1
  <2> HIDE DEF e
  <2> QED
    BY <1>2, <2>2
<1> QED
  BY <1>4, <1>5, <1>6, <1>7

\* The grid: the bin of a time within it is a grid time, and not before it.
LEMMA GridBinIs ==
  ASSUME NEW ts \in Nat
  PROVE  /\ Align!GridTimes \subseteq Nat /\ Align!GridTimes \subseteq StartTs .. EndTs - 1
         /\ ts \in StartTs .. Align!LastGrid =>
              Align!GridBin(ts) \in Align!GridTimes /\ ts <= Align!GridBin(ts)
         /\ ts \notin StartTs .. Align!LastGrid => Align!GridBin(ts) \notin Align!GridTimes
<1>1. StartTs \in Nat /\ EndTs \in Nat /\ StartTs < EndTs /\ AlignGrid \in Nat \ {0}
  BY AlignBounds DEF Align!AlignAssumption
<1> DEFINE w == EndTs - StartTs - 1
           k == w \div AlignGrid
           r == w % AlignGrid
           z == k * AlignGrid
<1>2. w \in Nat
  BY <1>1
<1>3. k \in Nat /\ r \in Nat /\ w = AlignGrid * k + r
  <2> HIDE DEF w
  <2> QED
    BY <1>1, <1>2
<1>4. z \in Nat /\ z <= w /\ Align!LastGrid = StartTs + z
  <2>1. z \in Nat /\ AlignGrid * k = k * AlignGrid
    <3> HIDE DEF k
    <3> QED
      BY <1>1, <1>3
  <2>2. w = z + r
    BY <1>3, <2>1
  <2>3. z <= w
    <3> HIDE DEF z, w, r
    <3> QED
      BY <1>2, <1>3, <2>1, <2>2
  <2> QED
    BY <2>1, <2>3 DEF Align!LastGrid
<1>5. Align!GridTimes \subseteq StartTs .. EndTs - 1
  <2> HIDE DEF z, k
  <2> QED
    BY <1>1, <1>4 DEF Align!GridTimes
<1>6. ASSUME ts \in StartTs .. Align!LastGrid
      PROVE  Align!GridBin(ts) \in Align!GridTimes /\ ts <= Align!GridBin(ts)
  <2> DEFINE x == ts - StartTs
             c == (x + AlignGrid - 1) \div AlignGrid
  <2>1. x \in Nat /\ x <= z
    <3> HIDE DEF z
    <3> QED
      BY <1>1, <1>4, <1>6
  <2>2. c \in Nat /\ c * AlignGrid \in Nat /\ x <= c * AlignGrid /\ c * AlignGrid <= k * AlignGrid
    <3> HIDE DEF x, k
    <3> QED
      BY <1>1, <1>3, <2>1, RoundedUp
  <2>3. Align!GridBin(ts) = StartTs + c * AlignGrid
    BY <1>6 DEF Align!GridBin
  <2> HIDE DEF c
  <2>4. (c * AlignGrid) % AlignGrid = 0
    BY <1>1, <2>2, Multiples
  <2> DEFINE y == c * AlignGrid
  <2>5. y \in Nat /\ x <= y /\ y <= z /\ y % AlignGrid = 0 /\ Align!GridBin(ts) = StartTs + y
    BY <2>2, <2>3, <2>4
  <2> HIDE DEF y, z
  <2>6. StartTs + y \in StartTs .. Align!LastGrid /\ StartTs + y - StartTs = y /\ ts <= StartTs + y
    BY <1>1, <1>4, <2>5
  <2>7. PICK b : b = StartTs + y
    OBVIOUS
  <2>8. /\ b \in StartTs .. Align!LastGrid /\ (b - StartTs) % AlignGrid = 0 /\ ts <= b
        /\ Align!GridBin(ts) = b
    <3>1. b \in StartTs .. Align!LastGrid /\ b - StartTs = y /\ ts <= b
      BY <1>1, <2>5, <2>6, <2>7
    <3>2. (b - StartTs) % AlignGrid = y % AlignGrid
      BY ONLY <3>1, Zenon
    <3> QED
      BY <2>5, <2>7, <3>1, <3>2
  <2>9. b \in Align!GridTimes
    BY <2>8 DEF Align!GridTimes
  <2> QED
    BY <2>8, <2>9
<1>7. ts \notin StartTs .. Align!LastGrid => Align!GridBin(ts) \notin Align!GridTimes
  BY <1>1, <1>5 DEF Align!GridBin, Align!Null
<1> QED
  BY <1>1, <1>5, <1>6, <1>7

LEMMA RowsCounted == ASSUME AlignTypes PROVE Align!EachRowOnce
<1> SUFFICES ASSUME NEW s \in {"trades", "liquidation"}, NEW i \in Align!Prepared(s)
             PROVE  LET bins == {t \in Align!GridTimes : i \in Align!Binned(s, t)}
                    IN IF Align!Available(s, i) \in StartTs .. Align!LastGrid
                       THEN \E t \in bins : bins = {t} ELSE bins = {}
  BY DEF Align!EachRowOnce
<1> DEFINE bins == {t \in Align!GridTimes : i \in Align!Binned(s, t)}
           a == Align!Available(s, i)
<1>1. s \in Align!Streams
  BY DEF Align!Streams
<1>2. a \in Nat
  BY <1>1, PreparedAre
<1>3. bins = {t \in Align!GridTimes : Align!GridBin(a) = t}
  BY DEF Align!Binned
<1> HIDE DEF bins, a
<1>4. CASE a \in StartTs .. Align!LastGrid
  <2>1. Align!GridBin(a) \in Align!GridTimes
    BY <1>2, <1>4, GridBinIs
  <2>2. bins = {Align!GridBin(a)}
    BY <1>3, <2>1
  <2> QED
    BY <1>4, <2>2 DEF bins, a
<1>5. CASE a \notin StartTs .. Align!LastGrid
  <2>1. Align!GridBin(a) \notin Align!GridTimes
    BY <1>2, <1>5, GridBinIs
  <2>2. bins = {}
    BY <1>3, <2>1
  <2> QED
    BY <1>5, <2>2 DEF bins, a
<1> QED
  BY <1>4, <1>5

\* The latest of some rows that became available by a time.
LEMMA LatestIs ==
  ASSUME AlignTypes, NEW s \in Align!Streams, NEW t \in Nat,
         NEW E, E \subseteq Align!Prepared(s), E # {}, \A i \in E : Align!Available(s, i) <= t
  PROVE  /\ Align!Latest(s, E) \in E
         /\ \A j \in E \ {Align!Latest(s, E)} : Align!Before(s, j, Align!Latest(s, E))
         /\ \A i \in E : (\A j \in E \ {i} : Align!Before(s, j, i)) => i = Align!Latest(s, E)
<1> DEFINE A(i) == Align!Available(s, i)
<1>1. Len(rows[s]) \in Nat /\ \A i \in E : A(i) \in Nat /\ i \in 0 .. Len(rows[s])
  BY PreparedAre
<1> DEFINE Age == {t - A(i) : i \in E}
<1>2. Age \subseteq Nat /\ Age # {}
  BY <1>1
<1>3. PICK i0 \in E : \A j \in E : A(j) <= A(i0)
  <2>1. PICK g \in Age : \A h \in Age : g <= h
    <3> HIDE DEF Age
    <3> QED
      BY <1>2, Smallest
  <2>2. PICK i0 \in E : g = t - A(i0)
    OBVIOUS
  <2>3. \A j \in E : t - A(i0) <= t - A(j)
    BY <2>1, <2>2
  <2>4. \A j \in E : A(j) <= A(i0)
    <3> HIDE DEF A
    <3> QED
      BY <1>1, <2>3
  <2> QED
    BY <2>4
<1> DEFINE Top == {i \in E : A(i) = A(i0)}
<1>4. PICK i1 \in Top : \A j \in Top : i1 >= j
  <2>1. Top \subseteq 0 .. Len(rows[s]) /\ Top # {}
    BY <1>1
  <2> HIDE DEF Top
  <2> QED
    BY <1>1, <2>1, Extremes
<1>5. i1 \in E /\ A(i1) = A(i0)
  OBVIOUS
<1>6. \A j \in E \ {i1} : Align!Before(s, j, i1)
  <2> SUFFICES ASSUME NEW j \in E \ {i1} PROVE A(j) < A(i1) \/ (A(j) = A(i1) /\ j < i1)
    BY DEF Align!Before
  <2>1. A(j) \in Nat /\ A(i1) \in Nat /\ j \in Nat /\ i1 \in Nat /\ j # i1 /\ A(j) <= A(i1)
    BY <1>1, <1>3, <1>5
  <2>2. A(j) = A(i1) => i1 >= j
    BY <1>4, <1>5
  <2> HIDE DEF A
  <2> QED
    BY <2>1, <2>2
<1>7. ASSUME NEW i \in E, NEW k \in E, \A j \in E \ {i} : Align!Before(s, j, i),
             \A j \in E \ {k} : Align!Before(s, j, k)
      PROVE  i = k
  <2> SUFFICES ASSUME i # k PROVE FALSE
    OBVIOUS
  <2>1. Align!Before(s, k, i) /\ Align!Before(s, i, k)
    BY <1>7
  <2>2. A(i) \in Nat /\ A(k) \in Nat /\ i \in Nat /\ k \in Nat
    BY <1>1
  <2>3. /\ A(k) < A(i) \/ (A(k) = A(i) /\ k < i)
        /\ A(i) < A(k) \/ (A(i) = A(k) /\ i < k)
    BY <2>1 DEF Align!Before
  <2> HIDE DEF A
  <2> QED
    BY <2>2, <2>3
<1> DEFINE L == CHOOSE i \in E : \A j \in E \ {i} : Align!Before(s, j, i)
<1>8. L \in E /\ \A j \in E \ {L} : Align!Before(s, j, L)
  BY <1>5, <1>6
<1>9. Align!Latest(s, E) = L
  BY DEF Align!Latest
<1> HIDE DEF L
<1> QED
  BY <1>7, <1>8, <1>9

LEMMA SnapshotsAgree == ASSUME AlignTypes PROVE Align!SnapshotAgrees
<1> SUFFICES ASSUME NEW s \in Align!Joined, NEW t \in Align!GridTimes
             PROVE  Align!AsOf(s, t) = LET seen == Align!CausallyAlign(s, t)
                                       IN IF seen.status = "AVAILABLE" THEN seen.event ELSE Align!Null
  BY DEF Align!SnapshotAgrees
<1> DEFINE A(i) == Align!Available(s, i)
           E == {i \in Align!Prepared(s) : A(i) <= t}
           F == {i \in Align!Prepared(s) : A(i) \in t - Stale[s] .. t}
<1>1. s \in Align!Streams /\ t \in Nat /\ Stale[s] \in Nat
  <2>1. t \in Nat
    BY GridBinIs
  <2>2. s \in Align!Streams /\ Stale[s] \in Nat
    BY AlignBounds DEF Align!Joined, Align!Streams, Align!AlignAssumption
  <2> QED
    BY <2>1, <2>2
<1>2. \A i \in Align!Prepared(s) : A(i) \in Nat
  BY <1>1, PreparedAre
<1>3. F \subseteq E /\ E \subseteq Align!Prepared(s) /\ \A i \in E : A(i) <= t
  <2> HIDE DEF A
  <2> QED
    BY <1>1, <1>2
<1>4. \A i \in E : i \in F <=> t - A(i) <= Stale[s]
  <2> HIDE DEF A
  <2> QED
    BY <1>1, <1>2
<1>5. Align!AsOf(s, t) = IF F = {} THEN Align!Null ELSE Align!Latest(s, F)
  BY DEF Align!AsOf
<1>6. Align!CausallyAlign(s, t) =
        IF E = {} THEN [event |-> Align!Null, status |-> "NEVER_OBSERVED"]
        ELSE [event |-> Align!Latest(s, E),
              status |-> IF t - A(Align!Latest(s, E)) <= Stale[s] THEN "AVAILABLE" ELSE "STALE"]
  BY DEF Align!CausallyAlign
<1> DEFINE l == Align!Latest(s, E)
<1>7. E # {} => l \in E /\ \A j \in E \ {l} : Align!Before(s, j, l)
  <2> HIDE DEF E
  <2> QED
    BY <1>1, <1>3, LatestIs
<1>8. CASE E = {}
  <2>1. F = {}
    BY <1>3, <1>8
  <2>2. Align!CausallyAlign(s, t).status = "NEVER_OBSERVED"
    BY <1>6, <1>8
  <2> QED
    BY <1>5, <2>1, <2>2
<1>9. CASE E # {} /\ t - A(l) <= Stale[s]
  <2>1. l \in F
    BY <1>4, <1>7, <1>9
  <2>2. \A j \in F \ {l} : Align!Before(s, j, l)
    BY <1>3, <1>7, <1>9
  <2> HIDE DEF l, E, F
  <2>3. l = Align!Latest(s, F)
    <3>1. F \subseteq Align!Prepared(s) /\ F # {} /\ \A i \in F : Align!Available(s, i) <= t
      BY <1>3, <2>1
    <3> QED
      BY <1>1, <2>1, <2>2, <3>1, LatestIs
  <2>4. Align!CausallyAlign(s, t) = [event |-> l, status |-> "AVAILABLE"]
    BY <1>6, <1>9 DEF l
  <2> QED
    BY <1>5, <2>1, <2>3, <2>4
<1>10. CASE E # {} /\ ~(t - A(l) <= Stale[s])
  <2>1. ASSUME NEW i \in F PROVE FALSE
    <3>1. i \in E /\ l \in E /\ A(i) \in Nat /\ A(l) \in Nat /\ t - A(i) <= Stale[s]
      BY <1>2, <1>3, <1>4, <1>7, <1>10
    <3>2. A(i) <= A(l)
      <4>1. CASE i = l
        BY <3>1, <4>1
      <4>2. CASE i # l
        <5>1. Align!Before(s, i, l)
          BY <1>7, <1>10, <3>1, <4>2
        <5>2. A(i) < A(l) \/ A(i) = A(l)
          BY <5>1 DEF Align!Before
        <5> HIDE DEF A, l
        <5> QED
          BY <3>1, <5>2
      <4> QED
        BY <4>1, <4>2
    <3> HIDE DEF A, l
    <3> QED
      BY <1>1, <1>10, <3>1, <3>2
  <2>2. F = {}
    BY <2>1
  <2> HIDE DEF l, E, F
  <2>3. Align!CausallyAlign(s, t).status = "STALE"
    BY <1>6, <1>10 DEF l
  <2> QED
    BY <1>5, <2>2, <2>3
<1> QED
  BY <1>8, <1>9, <1>10

\* A window and a tolerance; a millisecond that some observation, or some interval, covers.
Window(from, to, tol) == from \in Nat /\ to \in Nat /\ from < to /\ tol \in Nat \ {0}
Covers(stamps, tol, ms) == \E e \in stamps : e <= ms /\ ms < e + tol
Inside(m, ms) == \E i \in 1 .. Len(m) : m[i][1] <= ms /\ ms < m[i][2]

LEMMA UsedCover ==
  ASSUME NEW from, NEW to, NEW tol, Window(from, to, tol), NEW stamps, stamps \subseteq Nat
  PROVE  LET used == Align!Contributing(stamps, from, to, tol)
         IN /\ \A x \in used : x \in Nat /\ x < to /\ x + tol > from
            /\ \A ms \in from .. to - 1 : Covers(stamps, tol, ms) <=> Covers(used, tol, ms)
<1> DEFINE before == {x \in stamps : x < from}
           used == Align!Contributing(stamps, from, to, tol)
           M == Align!Max(before)
<1>0. from \in Nat /\ to \in Nat /\ from < to /\ tol \in Nat \ {0}
  BY DEF Window
<1>1. before # {} => M \in before /\ \A x \in before : x <= M
  <2> SUFFICES ASSUME before # {} PROVE M \in before /\ \A x \in before : x <= M
    OBVIOUS
  <2>1. before \subseteq 0 .. from
    <3> SUFFICES ASSUME NEW x \in stamps, x < from PROVE x \in 0 .. from
      OBVIOUS
    <3>1. x \in Nat
      OBVIOUS
    <3> QED
      BY <1>0, <3>1
  <2>2. \E x \in before : \A y \in before : x >= y
    <3> HIDE DEF before
    <3> QED
      BY <1>0, <2>1, Extremes
  <2>3. M \in before /\ \A y \in before : M >= y
    BY <2>2 DEF Align!Max
  <2>4. \A x \in before : x \in Nat
    BY <2>1
  <2> HIDE DEF before, M
  <2> QED
    BY <2>3, <2>4
<1>2. \A x : x \in used <=> \/ before # {} /\ M + tol > from /\ x = M
                            \/ x \in stamps /\ from <= x /\ x < to
  BY DEF Align!Contributing, Align!CarriedIn
<1> HIDE DEF used
<1>3. ASSUME NEW x \in used PROVE x \in Nat /\ x < to /\ x + tol > from /\ x \in stamps
  <2>1. CASE x \in stamps /\ from <= x /\ x < to
    BY <1>0, <2>1
  <2>2. CASE before # {} /\ M + tol > from /\ x = M
    <3>1. x \in before
      BY <1>1, <2>2
    <3>2. x \in stamps /\ x < from /\ x \in Nat
      BY <3>1
    <3> HIDE DEF M, before
    <3> QED
      BY <1>0, <2>2, <3>2
  <2> QED
    BY <1>2, <2>1, <2>2
<1>4. ASSUME NEW ms \in from .. to - 1, Covers(stamps, tol, ms) PROVE Covers(used, tol, ms)
  <2>1. PICK e \in stamps : e <= ms /\ ms < e + tol
    BY <1>4 DEF Covers
  <2>2. e \in Nat /\ ms \in Nat /\ from <= ms /\ ms < to
    BY <1>0
  <2>3. CASE from <= e
    <3>0. e < to
      BY <1>0, <2>1, <2>2
    <3>1. e \in used
      BY <1>2, <2>1, <2>3, <3>0
    <3> QED
      BY <2>1, <3>1 DEF Covers
  <2>4. CASE ~(from <= e)
    <3>1. e \in before
      BY <1>0, <2>2, <2>4
    <3>2. M \in Nat /\ M < from /\ e <= M
      BY <1>1, <3>1
    <3>3. before # {}
      BY <3>1
    <3> HIDE DEF M, before
    <3>4. M + tol > from /\ M <= ms /\ ms < M + tol
      BY <1>0, <2>1, <2>2, <3>2
    <3>5. M \in used
      BY <1>2, <3>3, <3>4
    <3> QED
      BY <3>4, <3>5 DEF Covers
  <2> QED
    BY <2>3, <2>4
<1>5. ASSUME NEW ms \in from .. to - 1, Covers(used, tol, ms) PROVE Covers(stamps, tol, ms)
  BY <1>3, <1>5 DEF Covers
<1> QED
  BY <1>3, <1>4, <1>5 DEF used

\* Intervals that are apart and in order, and cover what the observations before n cover.
Apart(m, from, to) ==
  /\ m \in Seq(Nat \X Nat)
  /\ \A i \in 1 .. Len(m) : /\ m[i][1] \in Nat /\ m[i][2] \in Nat
                            /\ from <= m[i][1] /\ m[i][1] < m[i][2] /\ m[i][2] <= to
  /\ \A i \in 2 .. Len(m) : m[i - 1][2] < m[i][1]

Upto(m, n, used, from, to, tol) ==
  /\ Apart(m, from, to)
  /\ \A i \in 1 .. Len(m) : m[i][1] = from \/ m[i][1] < n
  /\ \A ms \in from .. to - 1 : Inside(m, ms) <=> Covers({x \in used : x < n}, tol, ms)

Joined(r, m, k, a, b) ==
  /\ r \in Seq(Nat \X Nat)
  /\ k > 0 /\ a <= m[k][2] =>
       /\ Len(r) = k /\ r[k][1] = m[k][1]
       /\ r[k][2] = IF m[k][2] < b THEN b ELSE m[k][2]
       /\ \A i \in 1 .. k : i # k => r[i] = m[i]
  /\ ~(k > 0 /\ a <= m[k][2]) =>
       /\ Len(r) = k + 1 /\ r[k + 1][1] = a /\ r[k + 1][2] = b
       /\ \A i \in 1 .. k : r[i] = m[i]

LEMMA Merged ==
  ASSUME NEW m \in Seq(Nat \X Nat), NEW a \in Nat, NEW b \in Nat
  PROVE  Joined(Align!Merge(m, <<a, b>>), m, Len(m), a, b)
<1> DEFINE n == Len(m)
           r == Align!Merge(m, <<a, b>>)
           e == IF m[n][2] < b THEN b ELSE m[n][2]
<1>1. n \in Nat /\ DOMAIN m = 1 .. n /\ \A i \in 1 .. n : m[i] \in Nat \X Nat
  OBVIOUS
<1>2. CASE n > 0 /\ a <= m[n][2]
  <2>1. n \in 1 .. n /\ m[n] \in Nat \X Nat
    BY <1>1, <1>2
  <2>2. m[n][1] \in Nat /\ e \in Nat
    BY <2>1
  <2>3. r = [m EXCEPT ![n] = <<m[n][1], e>>]
    BY <1>2 DEF Align!Merge
  <2> DEFINE p == <<m[n][1], e>>
  <2>4. p \in Nat \X Nat /\ p[1] = m[n][1] /\ p[2] = e
    BY <2>2
  <2> HIDE DEF p, e, r
  <2>5. r = [m EXCEPT ![n] = p]
    BY <2>3 DEF p
  <2>6. r \in Seq(Nat \X Nat) /\ Len(r) = n /\ r[n] = p /\ \A i \in 1 .. n : i # n => r[i] = m[i]
    <3>1. /\ r \in [1 .. n -> Nat \X Nat] /\ r[n] = p
          /\ \A i \in 1 .. n : i # n => r[i] = m[i]
      <4>1. m \in [1 .. n -> Nat \X Nat]
        OBVIOUS
      <4> HIDE DEF n
      <4> QED
        BY <2>1, <2>4, <2>5, <4>1
    <3>2. r \in Seq(Nat \X Nat) /\ Len(r) = n
      <4>1. \A S, k : k \in Nat => \A f \in [1 .. k -> S] : f \in Seq(S) /\ Len(f) = k
        OBVIOUS
      <4> HIDE DEF n
      <4> QED
        BY <1>1, <3>1, <4>1
    <3> QED
      BY <3>1, <3>2
  <2> QED
    BY <1>2, <2>4, <2>6 DEF e, r, Joined
<1>3. CASE ~(n > 0 /\ a <= m[n][2])
  <2>1. r = Append(m, <<a, b>>)
    BY <1>3 DEF Align!Merge
  <2> DEFINE p == <<a, b>>
  <2>2. p \in Nat \X Nat /\ p[1] = a /\ p[2] = b /\ r = Append(m, p)
    BY <2>1
  <2> HIDE DEF p, r
  <2>3. /\ r \in Seq(Nat \X Nat) /\ Len(r) = n + 1 /\ r[n + 1] = p
        /\ \A i \in 1 .. n : r[i] = m[i]
    BY <1>1, <2>2
  <2> QED
    BY <1>3, <2>2, <2>3 DEF r, Joined
<1> QED
  BY <1>2, <1>3 DEF Joined

LEMMA SpanIsNat ==
  ASSUME NEW from, NEW to, NEW tol, Window(from, to, tol), NEW x \in Nat
  PROVE  \E a, b \in Nat :
           /\ Align!Span(x, from, to, tol) = <<a, b>>
           /\ a = IF x < from THEN from ELSE x
           /\ b = IF x + tol < to THEN x + tol ELSE to
<1> DEFINE a == IF x < from THEN from ELSE x
           b == IF x + tol < to THEN x + tol ELSE to
<1>1. a \in Nat /\ b \in Nat
  BY DEF Window
<1>2. Align!Span(x, from, to, tol) = <<a, b>>
  BY DEF Align!Span
<1> QED
  BY <1>1, <1>2

\* An observation that joins the intervals of those before it.
LEMMA MergeKeeps ==
  ASSUME NEW from, NEW to, NEW tol, Window(from, to, tol),
         NEW used, NEW n \in used, n \in Nat, n < to, n + tol > from,
         \A x \in used : x \in Nat,
         NEW m, Upto(m, n, used, from, to, tol)
  PROVE  Upto(Align!Merge(m, Align!Span(n, from, to, tol)), n + 1, used, from, to, tol)
<1>0. from \in Nat /\ to \in Nat /\ from < to /\ tol \in Nat \ {0}
  BY DEF Window
<1>1. PICK a \in Nat, b \in Nat :
        /\ Align!Span(n, from, to, tol) = <<a, b>>
        /\ a = IF n < from THEN from ELSE n
        /\ b = IF n + tol < to THEN n + tol ELSE to
  BY SpanIsNat
<1> DEFINE r == Align!Merge(m, <<a, b>>)
           k == Len(m)
<1>2. /\ m \in Seq(Nat \X Nat) /\ k \in Nat
      /\ \A i \in 1 .. k : /\ m[i][1] \in Nat /\ m[i][2] \in Nat
                           /\ from <= m[i][1] /\ m[i][1] < m[i][2] /\ m[i][2] <= to
                           /\ m[i][1] = from \/ m[i][1] < n
      /\ \A i \in 2 .. k : m[i - 1][2] < m[i][1]
      /\ \A ms \in from .. to - 1 : Inside(m, ms) <=> Covers({x \in used : x < n}, tol, ms)
  <2>1. Apart(m, from, to) /\ \A i \in 1 .. k : m[i][1] = from \/ m[i][1] < n
    BY DEF Upto
  <2>2. m \in Seq(Nat \X Nat)
    BY <2>1 DEF Apart
  <2>3. k \in Nat
    BY <2>2
  <2>4. /\ \A i \in 1 .. k : /\ m[i][1] \in Nat /\ m[i][2] \in Nat
                              /\ from <= m[i][1] /\ m[i][1] < m[i][2] /\ m[i][2] <= to
        /\ \A i \in 2 .. k : m[i - 1][2] < m[i][1]
    BY <2>1 DEF Apart
  <2>5. \A ms \in from .. to - 1 : Inside(m, ms) <=> Covers({x \in used : x < n}, tol, ms)
    BY DEF Upto
  <2> HIDE DEF k
  <2> QED
    BY <2>1, <2>2, <2>3, <2>4, <2>5
<1>3. Joined(r, m, k, a, b)
  <2>1. m \in Seq(Nat \X Nat)
    BY <1>2
  <2> QED
    BY <2>1, Merged
<1>4. from <= a /\ a < b /\ b <= to /\ (a = from \/ a < n + 1)
  BY <1>0, <1>1
<1>5. \A ms \in from .. to - 1 : a <= ms /\ ms < b <=> n <= ms /\ ms < n + tol
  BY <1>0, <1>1
<1>6. \A ms \in from .. to - 1 :
        Covers({x \in used : x < n + 1}, tol, ms) <=>
          Covers({x \in used : x < n}, tol, ms) \/ (n <= ms /\ ms < n + tol)
  <2> SUFFICES ASSUME NEW ms \in from .. to - 1
               PROVE  Covers({x \in used : x < n + 1}, tol, ms) <=>
                        Covers({x \in used : x < n}, tol, ms) \/ (n <= ms /\ ms < n + tol)
    OBVIOUS
  <2>1. \A x \in used : x < n + 1 <=> x < n \/ x = n
    OBVIOUS
  <2> QED
    BY <2>1 DEF Covers
<1> HIDE DEF r
<1>7. CASE k > 0 /\ a <= m[k][2]
  <2>1. /\ Len(r) = k /\ r[k][1] = m[k][1] /\ r[k][2] = IF m[k][2] < b THEN b ELSE m[k][2]
        /\ \A i \in 1 .. k : i # k => r[i] = m[i]
    BY <1>3, <1>7 DEF Joined
  <2>2. /\ k \in 1 .. k /\ m[k][1] \in Nat /\ m[k][2] \in Nat /\ m[k][1] <= a /\ from <= m[k][1]
        /\ m[k][1] < m[k][2] /\ m[k][2] <= to /\ (m[k][1] = from \/ m[k][1] < n)
    <3>1. k \in 1 .. k
      BY <1>2, <1>7
    <3>2. /\ m[k][1] \in Nat /\ m[k][2] \in Nat /\ from <= m[k][1]
          /\ m[k][1] < m[k][2] /\ m[k][2] <= to /\ (m[k][1] = from \/ m[k][1] < n)
      BY <1>2, <3>1
    <3>3. m[k][1] <= a
      BY <1>0, <1>1, <3>2
    <3> QED
      BY <3>1, <3>2, <3>3
  <2> DEFINE p == m[k][1]  q == m[k][2]  e == r[k][2]
  <2>3. /\ p \in Nat /\ q \in Nat /\ p <= a /\ a <= q /\ from <= p /\ p < q /\ q <= to
        /\ p = from \/ p < n
        /\ e = IF q < b THEN b ELSE q
    BY <1>7, <2>1, <2>2
  <2>4. e \in Nat /\ p < e /\ q <= e /\ e <= to /\ (p = from \/ p < n + 1)
    <3> HIDE DEF p, q, e
    <3> QED
      BY <1>0, <1>4, <2>3
  <2>5. \A i \in 1 .. k : /\ r[i][1] \in Nat /\ r[i][2] \in Nat
                          /\ from <= r[i][1] /\ r[i][1] < r[i][2] /\ r[i][2] <= to
                          /\ r[i][1] = from \/ r[i][1] < n + 1
    <3> SUFFICES ASSUME NEW i \in 1 .. k
                 PROVE  /\ r[i][1] \in Nat /\ r[i][2] \in Nat
                        /\ from <= r[i][1] /\ r[i][1] < r[i][2] /\ r[i][2] <= to
                        /\ r[i][1] = from \/ r[i][1] < n + 1
      OBVIOUS
    <3>1. CASE i = k
      BY <2>1, <2>3, <2>4, <3>1
    <3>2. CASE i # k
      <4>1. r[i] = m[i]
        BY <2>1, <3>2
      <4> QED
        BY <1>2, <4>1
    <3> QED
      BY <3>1, <3>2
  <2>6. \A i \in 2 .. k : r[i - 1][2] < r[i][1]
    <3> SUFFICES ASSUME NEW i \in 2 .. k PROVE r[i - 1][2] < r[i][1]
      OBVIOUS
    <3>1. i - 1 \in 1 .. k /\ i - 1 # k /\ i \in 1 .. k
      BY <1>2
    <3>2. r[i - 1] = m[i - 1] /\ r[i][1] = m[i][1]
      BY <2>1, <3>1
    <3> QED
      BY <1>2, <3>2
  <2>7. \A ms \in from .. to - 1 : Inside(r, ms) <=> Inside(m, ms) \/ (a <= ms /\ ms < b)
    <3> SUFFICES ASSUME NEW ms \in from .. to - 1
                 PROVE  Inside(r, ms) <=> Inside(m, ms) \/ (a <= ms /\ ms < b)
      OBVIOUS
    <3>1. p <= ms /\ ms < e <=> (p <= ms /\ ms < q) \/ (a <= ms /\ ms < b)
      <4>1. ms \in Nat
        BY <1>0
      <4> HIDE DEF p, q, e
      <4> QED
        BY <1>4, <2>3, <2>4, <4>1
    <3>2. Inside(r, ms) <=> (\E i \in 1 .. k : i # k /\ m[i][1] <= ms /\ ms < m[i][2])
                              \/ (p <= ms /\ ms < e)
      BY <2>1, <2>2 DEF Inside
    <3>3. Inside(m, ms) <=> (\E i \in 1 .. k : i # k /\ m[i][1] <= ms /\ ms < m[i][2])
                              \/ (p <= ms /\ ms < q)
      BY <2>2 DEF Inside
    <3> HIDE DEF p, q, e
    <3> QED
      BY <3>1, <3>2, <3>3
  <2>8. Apart(r, from, to)
    BY <1>3, <2>1, <2>5, <2>6 DEF Apart, Joined
  <2>9. \A ms \in from .. to - 1 : Inside(r, ms) <=> Covers({x \in used : x < n + 1}, tol, ms)
    BY <1>2, <1>5, <1>6, <2>7
  <2>10. Upto(r, n + 1, used, from, to, tol)
    BY <2>1, <2>5, <2>8, <2>9 DEF Upto
  <2> QED
    BY <1>1, <2>10 DEF r
<1>8. CASE ~(k > 0 /\ a <= m[k][2])
  <2>1. /\ Len(r) = k + 1 /\ r[k + 1][1] = a /\ r[k + 1][2] = b
        /\ \A i \in 1 .. k : r[i] = m[i]
    BY <1>3, <1>8 DEF Joined
  <2>2. \A i \in 1 .. k + 1 : i \in 1 .. k \/ i = k + 1
    BY <1>2
  <2>3. \A i \in 1 .. k + 1 : /\ r[i][1] \in Nat /\ r[i][2] \in Nat
                              /\ from <= r[i][1] /\ r[i][1] < r[i][2] /\ r[i][2] <= to
                              /\ r[i][1] = from \/ r[i][1] < n + 1
    <3> SUFFICES ASSUME NEW i \in 1 .. k + 1
                 PROVE  /\ r[i][1] \in Nat /\ r[i][2] \in Nat
                        /\ from <= r[i][1] /\ r[i][1] < r[i][2] /\ r[i][2] <= to
                        /\ r[i][1] = from \/ r[i][1] < n + 1
      OBVIOUS
    <3>1. CASE i \in 1 .. k
      <4>1. r[i] = m[i]
        BY <2>1, <3>1
      <4> QED
        BY <1>2, <3>1, <4>1
    <3>2. CASE i = k + 1
      BY <1>4, <2>1, <3>2
    <3> QED
      BY <2>2, <3>1, <3>2
  <2>4. \A i \in 2 .. k + 1 : r[i - 1][2] < r[i][1]
    <3> SUFFICES ASSUME NEW i \in 2 .. k + 1 PROVE r[i - 1][2] < r[i][1]
      OBVIOUS
    <3>0. i - 1 \in 1 .. k
      <4>1. k \in Nat
        BY <1>2
      <4> HIDE DEF k
      <4> QED
        BY <4>1
    <3>1. i - 1 \in 1 .. k /\ r[i - 1] = m[i - 1]
      BY <2>1, <3>0
    <3>2. CASE i \in 2 .. k
      <4>1. r[i] = m[i]
        BY <1>2, <2>1, <3>2
      <4> QED
        BY <1>2, <3>1, <3>2, <4>1
    <3>3. CASE i = k + 1
      <4>1. k \in 1 .. k /\ i - 1 = k /\ k > 0
        BY <1>2, <3>1, <3>3
      <4>2. m[k][2] \in Nat /\ r[i - 1][2] = m[k][2] /\ r[i][1] = a
        BY <1>2, <2>1, <3>1, <3>3, <4>1
      <4>3. ~(a <= m[k][2])
        BY <1>8, <4>1
      <4> QED
        BY <4>2, <4>3
    <3> QED
      BY <1>2, <3>2, <3>3
  <2>5. \A ms \in from .. to - 1 : Inside(r, ms) <=> Inside(m, ms) \/ (a <= ms /\ ms < b)
    <3> SUFFICES ASSUME NEW ms \in from .. to - 1
                 PROVE  Inside(r, ms) <=> Inside(m, ms) \/ (a <= ms /\ ms < b)
      OBVIOUS
    <3>1. k + 1 \in 1 .. k + 1 /\ \A i \in 1 .. k : i \in 1 .. k + 1
      BY <1>2
    <3> QED
      BY <2>1, <2>2, <3>1 DEF Inside
  <2>6. Apart(r, from, to)
    BY <1>3, <2>1, <2>3, <2>4 DEF Apart, Joined
  <2>7. \A ms \in from .. to - 1 : Inside(r, ms) <=> Covers({x \in used : x < n + 1}, tol, ms)
    BY <1>2, <1>5, <1>6, <2>5
  <2>8. Upto(r, n + 1, used, from, to, tol)
    BY <2>1, <2>3, <2>6, <2>7 DEF Upto
  <2> QED
    BY <1>1, <2>8 DEF r
<1> QED
  BY <1>7, <1>8

LEMMA SkipKeeps ==
  ASSUME NEW from, NEW to, NEW tol, Window(from, to, tol),
         NEW used, NEW n \in Nat, n \notin used, \A x \in used : x \in Nat,
         NEW m, Upto(m, n, used, from, to, tol)
  PROVE  Upto(m, n + 1, used, from, to, tol)
<1>1. \A x \in used : x < n <=> x < n + 1
  BY DEF Window
<1>2. {x \in used : x < n} = {x \in used : x < n + 1}
  BY <1>1
<1>3. \A i \in 1 .. Len(m) : m[i][1] = from \/ m[i][1] < n + 1
  <2> SUFFICES ASSUME NEW i \in 1 .. Len(m) PROVE m[i][1] = from \/ m[i][1] < n + 1
    OBVIOUS
  <2>1. m[i][1] \in Nat /\ (m[i][1] = from \/ m[i][1] < n)
    BY DEF Upto, Apart
  <2> QED
    BY <2>1
<1> QED
  BY <1>2, <1>3 DEF Upto

LEMMA MergedSeq ==
  ASSUME NEW from, NEW to, NEW tol, Window(from, to, tol), NEW x \in Nat
  PROVE  \A m \in Seq(Nat \X Nat) : Align!Merge(m, Align!Span(x, from, to, tol)) \in Seq(Nat \X Nat)
<1>1. \E a, b \in Nat : Align!Span(x, from, to, tol) = <<a, b>>
  BY SpanIsNat
<1>2. PICK a \in Nat, b \in Nat : Align!Span(x, from, to, tol) = <<a, b>>
  BY <1>1
<1>3. \A m \in Seq(Nat \X Nat) : Joined(Align!Merge(m, <<a, b>>), m, Len(m), a, b)
  BY Merged
<1> QED
  BY <1>2, <1>3 DEF Joined

\* The sweep: what the merged intervals hold are the milliseconds that are covered.
LEMMA EvidenceIs ==
  ASSUME NEW from, NEW to, NEW tol, Window(from, to, tol), NEW stamps, stamps \subseteq Nat
  PROVE  LET m == Align!Evidence(stamps, from, to, tol)
         IN /\ Apart(m, from, to)
            /\ \A ms \in from .. to - 1 : Inside(m, ms) <=> Covers(stamps, tol, ms)
<1> DEFINE used == Align!Contributing(stamps, from, to, tol)
           S == Seq(Nat \X Nat)
           Add(s, n) == IF n - 1 \in used THEN Align!Merge(s, Align!Span(n - 1, from, to, tol)) ELSE s
           next == [p \in S \X Nat |-> IF p[2] = 0 THEN p[1] ELSE Add(p[1], p[2])]
           Body(f) == [n \in 0 .. to |-> IF n = 0 THEN <<>>
                         ELSE IF n - 1 \in used
                              THEN Align!Merge(f[n - 1], Align!Span(n - 1, from, to, tol))
                              ELSE f[n - 1]]
           upto == CHOOSE f : f = Body(f)
<1>0. to \in Nat /\ from \in Nat /\ from < to /\ tol \in Nat \ {0}
  BY DEF Window
<1>1. Align!Evidence(stamps, from, to, tol) = upto[to]
  BY DEF Align!Evidence
<1>2. /\ \A x \in used : x \in Nat /\ x < to /\ x + tol > from
      /\ \A ms \in from .. to - 1 : Covers(stamps, tol, ms) <=> Covers(used, tol, ms)
  BY UsedCover
<1> HIDE DEF used
<1>3. ASSUME NEW s \in S, NEW n \in Nat, n # 0 PROVE Add(s, n) \in S
  <2>1. n - 1 \in Nat
    BY <1>3
  <2>2. Align!Merge(s, Align!Span(n - 1, from, to, tol)) \in S
    BY <2>1, MergedSeq
  <2> QED
    BY <2>2
<1>4. <<>> \in S
  OBVIOUS
<1> HIDE DEF S
<1>5. next \in [S \X Nat -> S]
  <2>1. ASSUME NEW p \in S \X Nat PROVE (IF p[2] = 0 THEN p[1] ELSE Add(p[1], p[2])) \in S
    <3>1. p[1] \in S /\ p[2] \in Nat
      OBVIOUS
    <3> HIDE DEF Add
    <3> QED
      BY <1>3, <3>1
  <2> HIDE DEF Add
  <2> QED
    BY <2>1
<1>6. \A s \in S, n \in Nat : n # 0 => next[<<s, n>>] = Add(s, n)
  <2> HIDE DEF Add
  <2> QED
    OBVIOUS
<1> HIDE DEF next, Add
<1>7. PICK g : Recurs(g, to, S, <<>>, next)
  <2>1. IsNext(next, S)
    BY <1>5 DEF IsNext
  <2> QED
    BY <1>0, <1>4, <2>1, Recursion
<1>8. g \in [0 .. to -> S] /\ g[0] = <<>> /\ \A n \in 1 .. to : g[n] = next[<<g[n - 1], n>>]
  BY <1>7 DEF Recurs
<1>9. g = Body(g)
  <2>1. ASSUME NEW n \in 0 .. to
        PROVE  g[n] = IF n = 0 THEN <<>>
                      ELSE IF n - 1 \in used
                           THEN Align!Merge(g[n - 1], Align!Span(n - 1, from, to, tol))
                           ELSE g[n - 1]
    <3>1. CASE n = 0
      BY <1>8, <3>1
    <3>2. CASE n # 0
      <4>1. n \in 1 .. to /\ n - 1 \in 0 .. to /\ n \in Nat
        BY <1>0, <3>2
      <4>2. g[n - 1] \in S
        BY <1>8, <4>1
      <4>3. g[n] = Add(g[n - 1], n)
        BY <1>6, <1>8, <3>2, <4>1, <4>2
      <4> QED
        BY <3>2, <4>3 DEF Add
    <3> QED
      BY <3>1, <3>2
  <2> QED
    BY <1>8, <2>1
<1>10. upto = Body(upto)
  BY <1>9
<1> HIDE DEF upto
<1> DEFINE Holds(n) == Upto(upto[n], n, used, from, to, tol)
           Bad == {n \in 0 .. to : ~Holds(n)}
<1>11. Bad = {}
  <2> SUFFICES ASSUME Bad # {} PROVE FALSE
    OBVIOUS
  <2>1. PICK n \in Bad : \A k \in Bad : n <= k
    <3>1. Bad \subseteq Nat
      BY <1>0
    <3> HIDE DEF Bad
    <3> QED
      BY <3>1, Smallest
  <2>2. n \in 0 .. to /\ ~Holds(n)
    OBVIOUS
  <2>3. upto[n] = IF n = 0 THEN <<>>
                  ELSE IF n - 1 \in used
                       THEN Align!Merge(upto[n - 1], Align!Span(n - 1, from, to, tol))
                       ELSE upto[n - 1]
    BY <1>10, <2>2
  <2>4. n # 0
    <3> SUFFICES ASSUME n = 0 PROVE FALSE
      OBVIOUS
    <3>1. upto[n] = <<>> /\ Len(upto[n]) = 0
      BY <2>3
    <3>2. Apart(upto[n], from, to)
      <4>1. <<>> \in Seq(Nat \X Nat) /\ Len(<<>>) = 0
        OBVIOUS
      <4>2. 1 .. 0 = {} /\ 2 .. 0 = {}
        OBVIOUS
      <4> QED
        BY <3>1, <4>1, <4>2 DEF Apart
    <3>3. \A ms \in from .. to - 1 : ~Inside(upto[n], ms) /\ ~Covers({x \in used : x < n}, tol, ms)
      <4>1. \A x \in used : ~(x < n)
        BY <1>2
      <4>2. 1 .. 0 = {}
        OBVIOUS
      <4> QED
        BY <3>1, <4>1, <4>2 DEF Inside, Covers
    <3>4. Holds(n)
      <4>1. \A i \in 1 .. Len(upto[n]) : upto[n][i][1] = from \/ upto[n][i][1] < n
        <5>1. 1 .. 0 = {}
          OBVIOUS
        <5> QED
          BY <3>1, <5>1
      <4> QED
        BY <3>2, <3>3, <4>1 DEF Upto
    <3> QED
      BY <2>2, <3>4
  <2>5. n - 1 \in 0 .. to /\ ~(n <= n - 1) /\ n - 1 \in Nat /\ n - 1 < to /\ n - 1 + 1 = n /\ n \in Nat
    BY <1>0, <2>2, <2>4
  <2>6. Holds(n - 1)
    BY <2>1, <2>5
  <2> DEFINE k == n - 1
  <2>7. k \in Nat /\ k < to /\ Upto(upto[k], k, used, from, to, tol) /\ k + 1 = n
    BY <2>5, <2>6
  <2> HIDE DEF k
  <2>8. CASE k \in used
    <3>1. upto[n] = Align!Merge(upto[k], Align!Span(k, from, to, tol))
      BY <2>3, <2>4, <2>8 DEF k
    <3>2. k + tol > from
      BY <1>2, <2>8
    <3>3. Upto(Align!Merge(upto[k], Align!Span(k, from, to, tol)), k + 1, used, from, to, tol)
      BY <1>2, <2>7, <2>8, <3>2, MergeKeeps
    <3> QED
      BY <2>2, <2>7, <3>1, <3>3
  <2>9. CASE k \notin used
    <3>1. upto[n] = upto[k]
      BY <2>3, <2>4, <2>9 DEF k
    <3>2. Upto(upto[k], k + 1, used, from, to, tol)
      BY <1>2, <2>7, <2>9, SkipKeeps
    <3> QED
      BY <2>2, <2>7, <3>1, <3>2
  <2> QED
    BY <2>8, <2>9
<1>12. Upto(upto[to], to, used, from, to, tol)
  <2>1. to \in 0 .. to
    BY <1>0
  <2> QED
    BY <1>11, <2>1
<1>13. {x \in used : x < to} = used
  BY <1>2
<1> QED
  BY <1>1, <1>2, <1>12, <1>13 DEF Upto

\* Of intervals that are apart an earlier one ends before a later one begins.
LEMMA ApartAll ==
  ASSUME NEW from, NEW to, NEW m, Apart(m, from, to)
  PROVE  \A i, j \in 1 .. Len(m) : i < j => m[i][2] < m[j][1]
<1>1. /\ Len(m) \in Nat
      /\ \A i \in 1 .. Len(m) : m[i][1] \in Nat /\ m[i][2] \in Nat /\ m[i][1] < m[i][2]
      /\ \A i \in 2 .. Len(m) : m[i - 1][2] < m[i][1]
  <2>1. m \in Seq(Nat \X Nat)
    BY DEF Apart
  <2>2. Len(m) \in Nat
    BY <2>1
  <2> QED
    BY <2>2 DEF Apart
<1> DEFINE k == Len(m)
<1> HIDE DEF k
<1>2. k \in Nat
  BY <1>1 DEF k
<1> SUFFICES ASSUME NEW i \in 1 .. k PROVE \A j \in 1 .. k : i < j => m[i][2] < m[j][1]
  BY DEF k
<1> DEFINE Bad == {j \in i + 1 .. k : ~(m[i][2] < m[j][1])}
<1>3. Bad = {}
  <2> SUFFICES ASSUME Bad # {} PROVE FALSE
    OBVIOUS
  <2>1. PICK j \in Bad : \A h \in Bad : j <= h
    <3>1. Bad \subseteq Nat
      BY <1>2
    <3> HIDE DEF Bad
    <3> QED
      BY <3>1, Smallest
  <2>2. j \in i + 1 .. k /\ ~(m[i][2] < m[j][1])
    OBVIOUS
  <2>3. j \in 2 .. k /\ j - 1 \in 1 .. k /\ j \in 1 .. k
    BY <1>2, <2>2
  <2>4. m[j - 1][2] < m[j][1]
    BY <1>1, <2>3 DEF k
  <2>5. CASE j - 1 = i
    BY <2>2, <2>4, <2>5
  <2>6. CASE j - 1 # i
    <3>1. j - 1 \in i + 1 .. k /\ ~(j <= j - 1)
      BY <1>2, <2>2, <2>6
    <3>2. m[i][2] < m[j - 1][1]
      BY <2>1, <3>1
    <3>3. /\ m[i][2] \in Nat /\ m[j - 1][1] \in Nat /\ m[j - 1][2] \in Nat /\ m[j][1] \in Nat
          /\ m[j - 1][1] < m[j - 1][2]
      BY <1>1, <2>3 DEF k
    <3> QED
      BY <2>2, <2>4, <3>2, <3>3
  <2> QED
    BY <2>5, <2>6
<1> QED
  <2> SUFFICES ASSUME NEW j \in 1 .. k, i < j PROVE m[i][2] < m[j][1]
    OBVIOUS
  <2>1. j \in i + 1 .. k
    BY <1>2
  <2> QED
    BY <1>3, <2>1

\* A gap is a stretch of the window: where it begins and ends.
Stretch(m, from, to, i, a, b) ==
  LET n == Len(m)
  IN \/ n = 0 /\ i = 1 /\ a = from /\ b = to
     \/ i \in 1 .. n /\ a < b /\ a = (IF i = 1 THEN from ELSE m[i - 1][2]) /\ b = m[i][1]
     \/ n > 0 /\ i = n + 1 /\ a < b /\ a = m[n][2] /\ b = to

LEMMA GapsAre ==
  ASSUME NEW from, NEW to, NEW m, Apart(m, from, to)
  PROVE  /\ \A g \in Align!Gaps(m, from, to) : \E i \in Nat : Stretch(m, from, to, i, g[1], g[2])
         /\ \A i \in Nat : \A a, b : Stretch(m, from, to, i, a, b) =>
              \E g \in Align!Gaps(m, from, to) : g[1] = a /\ g[2] = b
<1> DEFINE n == Len(m)
           C(i) == IF i = 1 THEN from ELSE m[i - 1][2]
           K(i) == IF C(i) = from THEN "leading" ELSE "interior"
           Inner == {<<C(i), m[i][1], K(i)>> : i \in {j \in 1 .. n : C(j) < m[j][1]}}
           Rest == IF m[n][2] < to THEN {<<m[n][2], to, "trailing">>} ELSE {}
           G == Align!Gaps(m, from, to)
<1>1. G = IF n = 0 THEN {<<from, to, "absent">>} ELSE Inner \cup Rest
  BY DEF Align!Gaps
<1>2. n \in Nat
  <2>1. m \in Seq(Nat \X Nat)
    BY DEF Apart
  <2> QED
    BY <2>1
<1>3. \A x, y, z : <<x, y, z>>[1] = x /\ <<x, y, z>>[2] = y
  OBVIOUS
<1> HIDE DEF G
<1>4. ASSUME NEW g \in G PROVE \E i \in Nat : Stretch(m, from, to, i, g[1], g[2])
  <2>1. CASE n = 0
    <3>1. g[1] = from /\ g[2] = to
      BY <1>1, <1>3, <2>1
    <3>2. Stretch(m, from, to, 1, g[1], g[2])
      BY <2>1, <3>1 DEF Stretch
    <3> QED
      BY <3>2
  <2>2. CASE n # 0 /\ g \in Inner
    <3>1. PICK i \in 1 .. n : C(i) < m[i][1] /\ g = <<C(i), m[i][1], K(i)>>
      BY <2>2
    <3>2. g[1] = C(i) /\ g[2] = m[i][1]
      BY <3>1
    <3>3. i \in Nat
      OBVIOUS
    <3>4. Stretch(m, from, to, i, g[1], g[2])
      BY <3>1, <3>2 DEF Stretch
    <3> QED
      BY <3>3, <3>4
  <2>3. CASE n # 0 /\ g \in Rest
    <3>1. m[n][2] < to /\ g = <<m[n][2], to, "trailing">>
      BY <2>3
    <3>2. g[1] = m[n][2] /\ g[2] = to
      BY <3>1
    <3>3. n > 0 /\ n + 1 \in Nat
      BY <1>2, <2>3
    <3>4. Stretch(m, from, to, n + 1, g[1], g[2])
      BY <3>1, <3>2, <3>3 DEF Stretch
    <3> QED
      BY <3>3, <3>4
  <2> HIDE DEF Inner, Rest, n
  <2> QED
    BY <1>1, <1>4, <2>1, <2>2, <2>3
<1>5. ASSUME NEW i \in Nat, NEW a, NEW b, Stretch(m, from, to, i, a, b)
      PROVE  \E g \in G : g[1] = a /\ g[2] = b
  <2>1. CASE n = 0
    <3>1. a = from /\ b = to
      BY <1>5, <2>1 DEF Stretch
    <3>2. <<from, to, "absent">> \in G
      BY <1>1, <2>1
    <3> QED
      BY <1>3, <3>1, <3>2
  <2>2. CASE n # 0 /\ i \in 1 .. n /\ a < b /\ a = C(i) /\ b = m[i][1]
    <3>1. <<C(i), m[i][1], K(i)>> \in Inner
      BY <2>2
    <3>2. <<a, b, K(i)>> \in G
      BY <1>1, <2>2, <3>1
    <3> QED
      BY <1>3, <3>2
  <2>3. CASE n # 0 /\ a < b /\ a = m[n][2] /\ b = to
    <3>1. <<m[n][2], to, "trailing">> \in G
      BY <1>1, <2>3
    <3> QED
      BY <1>3, <2>3, <3>1
  <2>4. \/ n = 0 
        \/ n # 0 /\ i \in 1 .. n /\ a < b /\ a = C(i) /\ b = m[i][1]
        \/ n # 0 /\ a < b /\ a = m[n][2] /\ b = to
    BY <1>2, <1>5 DEF Stretch
  <2> QED
    BY <2>1, <2>2, <2>3, <2>4
<1> QED
  BY <1>4, <1>5 DEF G

\* The gaps are the complement: those that meet a stretch of the window are none exactly
\* when each of its milliseconds is in an interval.
LEMMA Complement ==
  ASSUME NEW from \in Nat, NEW to \in Nat, from < to, NEW m, Apart(m, from, to),
         NEW lo \in from .. to - 1, NEW t \in lo .. to - 1
  PROVE  (\A g \in Align!Gaps(m, from, to) : ~(g[1] <= t /\ lo < g[2])) <=>
           \A ms \in lo .. t : Inside(m, ms)
<1> DEFINE k == Len(m)
           G == Align!Gaps(m, from, to)
<1>1. /\ k \in Nat
      /\ \A i \in 1 .. k : /\ m[i][1] \in Nat /\ m[i][2] \in Nat
                           /\ from <= m[i][1] /\ m[i][1] < m[i][2] /\ m[i][2] <= to
  <2>1. m \in Seq(Nat \X Nat)
    BY DEF Apart
  <2>2. k \in Nat
    BY <2>1
  <2> QED
    BY <2>2 DEF Apart
<1>2. lo \in Nat /\ t \in Nat /\ from <= lo /\ lo <= t /\ t < to
  OBVIOUS
<1>3. \A i, j \in 1 .. k : i < j => m[i][2] < m[j][1]
  BY ApartAll
<1>4. /\ Inside(m, 0) \in BOOLEAN
      /\ \A ms : Inside(m, ms) <=> \E i \in 1 .. k : m[i][1] <= ms /\ ms < m[i][2]
  BY DEF Inside
<1> HIDE DEF k, G
<1>5. ASSUME NEW g \in G, g[1] <= t, lo < g[2] PROVE \E ms \in lo .. t : ~Inside(m, ms)
  <2> DEFINE a == g[1]  b == g[2]
  <2>1. PICK i \in Nat : Stretch(m, from, to, i, a, b)
    BY GapsAre DEF G
  <2> HIDE DEF a, b
  <2>2. a \in Nat /\ b \in Nat /\ a < b /\ a <= t /\ lo < b
    <3>1. a <= t /\ lo < b
      BY <1>5 DEF a, b
    <3>2. CASE k = 0
      BY <2>1, <3>1, <3>2 DEF Stretch, k
    <3>3. CASE /\ k # 0 /\ i \in 1 .. k /\ a < b
               /\ a = (IF i = 1 THEN from ELSE m[i - 1][2]) /\ b = m[i][1]
      <4>1. i # 1 => i - 1 \in 1 .. k
        BY <1>1, <3>3
      <4>2. a \in Nat
        BY <1>1, <3>3, <4>1
      <4> QED
        BY <1>1, <3>1, <3>3, <4>2
    <3>4. CASE k # 0 /\ a < b /\ a = m[k][2] /\ b = to
      <4>1. k \in 1 .. k
        BY <1>1, <3>4
      <4> QED
        BY <1>1, <3>1, <3>4, <4>1
    <3> QED
      BY <1>1, <2>1, <3>2, <3>3, <3>4 DEF Stretch, k
  <2> DEFINE ms == IF a < lo THEN lo ELSE a
  <2>3. ms \in lo .. t /\ a <= ms /\ ms < b
    BY <1>2, <2>2
  <2> HIDE DEF ms
  <2>4. ASSUME NEW j \in 1 .. k, m[j][1] <= ms, ms < m[j][2] PROVE FALSE
    <3>0. m[j][1] \in Nat /\ m[j][2] \in Nat /\ ms \in Nat /\ k > 0
      BY <1>1, <1>2, <2>3
    <3>1. CASE i \in 1 .. k /\ a = (IF i = 1 THEN from ELSE m[i - 1][2]) /\ b = m[i][1]
      <4>1. CASE j = i
        BY <2>2, <2>3, <2>4, <3>0, <3>1, <4>1
      <4>2. CASE i < j
        <5>1. m[i][2] < m[j][1] /\ m[i][1] < m[i][2] /\ m[i][2] \in Nat /\ m[i][1] \in Nat
          BY <1>1, <1>3, <3>1, <4>2
        <5> QED
          BY <2>2, <2>3, <2>4, <3>0, <3>1, <5>1
      <4>3. CASE j < i
        <5>1. i - 1 \in 1 .. k /\ i # 1 /\ (j = i - 1 \/ j < i - 1)
          BY <1>1, <3>1, <4>3
        <5>2. a = m[i - 1][2]
          BY <3>1, <5>1
        <5>3. m[j][2] <= a
          <6>1. CASE j = i - 1
            BY <2>2, <5>2, <6>1
          <6>2. CASE j < i - 1
            <7>1. m[j][2] < m[i - 1][1] /\ m[i - 1][1] < m[i - 1][2]
                  /\ m[i - 1][1] \in Nat /\ m[i - 1][2] \in Nat
              BY <1>1, <1>3, <5>1, <6>2
            <7> QED
              BY <3>0, <5>2, <7>1
          <6> QED
            BY <5>1, <6>1, <6>2
        <5> QED
          BY <2>2, <2>3, <2>4, <3>0, <5>3
      <4> QED
        BY <3>1, <4>1, <4>2, <4>3
    <3>2. CASE a = m[k][2]
      <4>1. m[j][2] <= a
        <5>1. k \in 1 .. k /\ (j = k \/ j < k)
          BY <1>1, <3>0
        <5>2. CASE j = k
          BY <2>2, <3>2, <5>2
        <5>3. CASE j < k
          <6>1. m[j][2] < m[k][1] /\ m[k][1] < m[k][2] /\ m[k][1] \in Nat /\ m[k][2] \in Nat
            BY <1>1, <1>3, <5>1, <5>3
          <6> QED
            BY <3>0, <3>2, <6>1
        <5> QED
          BY <5>1, <5>2, <5>3
      <4> QED
        BY <2>2, <2>3, <2>4, <3>0, <4>1
    <3> QED
      BY <2>1, <3>0, <3>1, <3>2 DEF Stretch, k
  <2> QED
    BY <1>4, <2>3, <2>4
<1>6. ASSUME NEW ms \in lo .. t, ~Inside(m, ms)
      PROVE  \E g \in G : g[1] <= t /\ lo < g[2]
  <2>0. ms \in Nat /\ lo <= ms /\ ms <= t /\ from <= ms /\ ms < to
    BY <1>2
  <2>1. ASSUME NEW i \in Nat, NEW a, NEW b, Stretch(m, from, to, i, a, b), a \in Nat, b \in Nat,
               a <= ms, ms < b
        PROVE  \E g \in G : g[1] <= t /\ lo < g[2]
    <3>1. PICK g \in G : g[1] = a /\ g[2] = b
      BY <2>1, GapsAre DEF G
    <3>2. a <= t /\ lo < b
      BY <1>2, <2>0, <2>1
    <3> QED
      BY <3>1, <3>2
  <2>2. CASE k = 0
    <3>1. Stretch(m, from, to, 1, from, to)
      BY <2>2 DEF Stretch, k
    <3> QED
      BY <2>0, <2>1, <3>1
  <2> DEFINE After == {j \in 1 .. k : ms < m[j][2]}
  <2>3. CASE k # 0 /\ After = {}
    <3>1. k \in 1 .. k /\ k > 0 /\ m[k][2] \in Nat /\ k + 1 \in Nat
      BY <1>1, <2>3
    <3>2. m[k][2] <= ms
      <4>1. ~(ms < m[k][2])
        BY <2>3, <3>1
      <4> QED
        BY <2>0, <3>1, <4>1
    <3>3. m[k][2] < to
      BY <2>0, <3>1, <3>2
    <3>4. Stretch(m, from, to, k + 1, m[k][2], to)
      BY <3>1, <3>3 DEF Stretch, k
    <3> QED
      BY <2>0, <2>1, <3>1, <3>2, <3>4
  <2>4. CASE k # 0 /\ After # {}
    <3>1. PICK i \in After : \A j \in After : i <= j
      <4>1. After \subseteq Nat /\ After # {}
        BY <1>1, <2>4
      <4> HIDE DEF After
      <4> QED
        BY <4>1, Smallest
    <3>2. i \in 1 .. k /\ ms < m[i][2] /\ m[i][1] \in Nat /\ m[i][2] \in Nat /\ i \in Nat
      BY <1>1
    <3>3. ms < m[i][1]
      <4>1. ~(m[i][1] <= ms)
        BY <1>4, <1>6, <3>2
      <4> QED
        BY <2>0, <3>2, <4>1
    <3> DEFINE a == IF i = 1 THEN from ELSE m[i - 1][2]
    <3>4. a \in Nat /\ a <= ms
      <4>1. CASE i = 1
        BY <2>0, <4>1
      <4>2. CASE i # 1
        <5>1. i - 1 \in 1 .. k /\ ~(i <= i - 1)
          BY <1>1, <3>2, <4>2
        <5>2. i - 1 \notin After
          BY <3>1, <5>1
        <5>3. m[i - 1][2] \in Nat /\ ~(ms < m[i - 1][2])
          BY <1>1, <5>1, <5>2
        <5>4. m[i - 1][2] <= ms
          BY <2>0, <5>3
        <5> QED
          BY <4>2, <5>3, <5>4
      <4> QED
        BY <4>1, <4>2
    <3>5. Stretch(m, from, to, i, a, m[i][1])
      <4>1. a < m[i][1]
        <5> HIDE DEF a
        <5> QED
          BY <2>0, <3>2, <3>3, <3>4
      <4> QED
        BY <3>2, <4>1 DEF Stretch, k
    <3> HIDE DEF a
    <3> QED
      BY <2>1, <3>2, <3>3, <3>4, <3>5
  <2> HIDE DEF After
  <2> QED
    BY <2>2, <2>3, <2>4
<1> QED
  BY <1>5, <1>6 DEF G

\* Intervals that are apart sum up to the window only if there is one, the window itself.
LEMMA SumIs ==
  ASSUME NEW from \in Nat, NEW to \in Nat, from < to, NEW m, Apart(m, from, to),
         Align!Milliseconds(m) = to - from
  PROVE  \A ms \in from .. to - 1 : Inside(m, ms)
<1> DEFINE k == Len(m)
           w(i) == m[i][2] - m[i][1]
           next == [p \in Int \X Nat |-> IF p[2] \in 1 .. k THEN p[1] + w(p[2]) ELSE 0]
           Body(f) == [i \in 0 .. k |-> IF i = 0 THEN 0 ELSE f[i - 1] + w(i)]
           c == CHOOSE f : f = Body(f)
<1>1. Align!Milliseconds(m) = c[k]
  BY DEF Align!Milliseconds
<1>2. /\ k \in Nat
      /\ \A i \in 1 .. k : /\ m[i][1] \in Nat /\ m[i][2] \in Nat
                           /\ from <= m[i][1] /\ m[i][1] < m[i][2] /\ m[i][2] <= to
      /\ \A i \in 2 .. k : m[i - 1][2] < m[i][1]
  <2>1. m \in Seq(Nat \X Nat)
    BY DEF Apart
  <2>2. k \in Nat
    BY <2>1
  <2> QED
    BY <2>2 DEF Apart
<1>3. \A i \in 1 .. k : w(i) \in Int
  BY <1>2
<1> HIDE DEF k, w
<1>4. next \in [Int \X Nat -> Int]
  <2>1. ASSUME NEW p \in Int \X Nat PROVE (IF p[2] \in 1 .. k THEN p[1] + w(p[2]) ELSE 0) \in Int
    <3>1. p[1] \in Int
      OBVIOUS
    <3> QED
      BY <1>3, <3>1
  <2> QED
    BY <2>1
<1>5. \A v \in Int, i \in 1 .. k : next[<<v, i>>] = v + w(i)
  <2> SUFFICES ASSUME NEW v \in Int, NEW i \in 1 .. k PROVE next[<<v, i>>] = v + w(i)
    OBVIOUS
  <2>1. <<v, i>> \in Int \X Nat
    BY <1>2
  <2> QED
    BY <2>1
<1> HIDE DEF next
<1> DEFINE S == Int
<1>6. PICK g : Recurs(g, k, S, 0, next)
  <2>1. IsNext(next, S) /\ 0 \in S
    BY <1>4 DEF IsNext
  <2> HIDE DEF S
  <2> QED
    BY <1>2, <2>1, Recursion
<1>7. g \in [0 .. k -> Int] /\ g[0] = 0 /\ \A i \in 1 .. k : g[i] = next[<<g[i - 1], i>>]
  BY <1>6 DEF Recurs
<1>8. g = Body(g)
  <2>1. ASSUME NEW i \in 0 .. k PROVE g[i] = IF i = 0 THEN 0 ELSE g[i - 1] + w(i)
    <3>1. CASE i = 0
      BY <1>7, <3>1
    <3>2. CASE i # 0
      <4>1. i \in 1 .. k /\ i - 1 \in 0 .. k
        BY <1>2, <3>2
      <4>2. g[i - 1] \in Int
        BY <1>7, <4>1
      <4> QED
        BY <1>5, <1>7, <3>2, <4>1, <4>2
    <3> QED
      BY <3>1, <3>2
  <2> QED
    BY <1>7, <2>1
<1>9. c = Body(c)
  BY <1>8
<1> HIDE DEF c
<1>10. c[0] = 0 /\ \A i \in 1 .. k : c[i] = c[i - 1] + (m[i][2] - m[i][1])
  <2>1. c[0] = 0
    BY <1>2, <1>9
  <2>2. ASSUME NEW i \in 1 .. k PROVE c[i] = c[i - 1] + w(i)
    <3>1. i \in 0 .. k /\ i # 0
      BY <1>2
    <3> QED
      BY <1>9, <3>1
  <2> QED
    BY <2>1, <2>2 DEF w
<1> DEFINE Fits(i) == /\ c[i] \in Int /\ c[i] <= m[i][2] - m[1][1]
                      /\ i # 1 => c[i] < m[i][2] - m[1][1]
           Bad == {i \in 1 .. k : ~Fits(i)}
<1>11. Bad = {}
  <2> SUFFICES ASSUME Bad # {} PROVE FALSE
    OBVIOUS
  <2>1. PICK i \in Bad : \A j \in Bad : i <= j
    <3>1. Bad \subseteq Nat
      BY <1>2
    <3> HIDE DEF Bad
    <3> QED
      BY <3>1, Smallest
  <2>2. i \in 1 .. k /\ ~Fits(i)
    OBVIOUS
  <2>3. /\ c[i] = c[i - 1] + (m[i][2] - m[i][1]) /\ m[i][1] \in Nat /\ m[i][2] \in Nat
        /\ 1 \in 1 .. k /\ m[1][1] \in Nat
    <3>1. 1 \in 1 .. k
      BY <1>2, <2>2
    <3> QED
      BY <1>2, <1>10, <2>2, <3>1
  <2>4. CASE i = 1
    BY <1>10, <2>2, <2>3, <2>4
  <2>5. CASE i # 1
    <3>1. i - 1 \in 1 .. k /\ i \in 2 .. k /\ ~(i <= i - 1)
      BY <1>2, <2>2, <2>5
    <3>2. Fits(i - 1)
      BY <2>1, <3>1
    <3>3. m[i - 1][2] < m[i][1] /\ m[i - 1][2] \in Nat
      BY <1>2, <3>1
    <3>4. c[i - 1] \in Int /\ c[i - 1] <= m[i - 1][2] - m[1][1]
      BY <3>2
    <3>5. c[i] \in Int /\ c[i] < m[i][2] - m[1][1]
      BY <2>3, <3>3, <3>4
    <3> QED
      BY <2>2, <2>3, <3>5
  <2> QED
    BY <2>4, <2>5
<1>12. k # 0
  BY <1>1, <1>10
<1>13. 1 \in 1 .. k /\ k \in 1 .. k /\ Fits(k)
  <2>1. 1 \in 1 .. k /\ k \in 1 .. k
    BY <1>2, <1>12
  <2> QED
    BY <1>11, <2>1
<1>14. /\ m[1][1] \in Nat /\ from <= m[1][1] /\ m[k][2] \in Nat /\ m[k][2] <= to
       /\ c[k] = to - from /\ c[k] \in Int /\ c[k] <= m[k][2] - m[1][1]
       /\ k # 1 => c[k] < m[k][2] - m[1][1]
  BY <1>1, <1>2, <1>13
<1>15. k = 1 /\ m[1][1] = from /\ m[1][2] = to
  BY <1>14
<1>16. 1 \in 1 .. Len(m)
  BY <1>15 DEF k
<1> QED
  BY <1>15, <1>16 DEF Inside

\* The grid and the day.
LEMMA DayIs ==
  /\ StartTs \in Nat /\ EndTs \in Nat /\ StartTs < EndTs /\ AlignGrid \in Nat \ {0}
  /\ Align!LastGrid \in Nat /\ Align!LastGrid < EndTs
  /\ Window(StartTs, EndTs, Alive.trades) /\ Window(StartTs, EndTs, Alive.connection)
<1>1. /\ StartTs \in Nat /\ EndTs \in Nat /\ StartTs < EndTs /\ AlignGrid \in Nat \ {0}
      /\ Alive.trades \in Nat \ {0} /\ Alive.connection \in Nat \ {0}
  BY AlignBounds DEF Align!AlignAssumption
<1> DEFINE d == EndTs - StartTs - 1
           q == d \div AlignGrid
<1>2. d \in Nat
  BY <1>1
<1>3. q \in Nat /\ q * AlignGrid <= d /\ q * AlignGrid \in Nat
  <2> HIDE DEF d
  <2> QED
    BY <1>1, <1>2
<1>4. Align!LastGrid = StartTs + q * AlignGrid
  BY DEF Align!LastGrid
<1> DEFINE p == q * AlignGrid
<1>5. p \in Nat /\ p <= d /\ Align!LastGrid = StartTs + p
  BY <1>3, <1>4
<1> HIDE DEF q, p
<1>6. Align!LastGrid \in Nat /\ Align!LastGrid < EndTs
  BY <1>1, <1>5
<1> QED
  BY <1>1, <1>6 DEF Window

\* The last milliseconds of the grid before t, within the day.
BinStart(t) == Align!Max({t - AlignGrid + 1, StartTs})

LEMMA BinStartIs ==
  ASSUME NEW t \in Align!GridTimes
  PROVE  /\ t \in Nat /\ StartTs <= t /\ t < EndTs
         /\ BinStart(t) \in StartTs .. EndTs - 1 /\ t \in BinStart(t) .. EndTs - 1
<1>1. /\ StartTs \in Nat /\ EndTs \in Nat /\ AlignGrid \in Nat \ {0}
      /\ Align!LastGrid \in Nat /\ Align!LastGrid < EndTs
  BY DayIs
<1>2. t \in StartTs .. Align!LastGrid
  BY DEF Align!GridTimes
<1>3. t \in Nat /\ StartTs <= t /\ t < EndTs
  <2> HIDE DEF Align!LastGrid
  <2> QED
    BY <1>1, <1>2
<1> DEFINE a == t - AlignGrid + 1
           S == {a, StartTs}
<1>4. a \in Int /\ a <= t
  BY <1>1, <1>3
<1> HIDE DEF a
<1>5. \E x \in S : \A y \in S : x >= y
  <2>1. CASE a >= StartTs
    BY <1>1, <1>4, <2>1
  <2>2. CASE StartTs >= a
    BY <1>1, <1>4, <2>2
  <2> QED
    BY <1>1, <1>4, <2>1, <2>2
<1>6. Align!Max(S) \in S /\ \A y \in S : Align!Max(S) >= y
  <2> HIDE DEF S
  <2> QED
    BY <1>5 DEF Align!Max
<1>7. BinStart(t) = Align!Max(S)
  BY DEF BinStart, a
<1> DEFINE lo == Align!Max(S)
<1>8. (lo = a \/ lo = StartTs) /\ lo >= StartTs
  BY <1>6
<1> HIDE DEF S, lo
<1>9. lo \in Int /\ StartTs <= lo /\ lo <= t
  BY <1>1, <1>3, <1>4, <1>8
<1>10. lo \in StartTs .. EndTs - 1 /\ t \in lo .. EndTs - 1
  BY <1>1, <1>3, <1>9
<1> QED
  BY <1>3, <1>7, <1>10 DEF lo

\* A bin is called observed exactly when each of its milliseconds is covered.
LEMMA BinObservedIs ==
  ASSUME NEW tol, Window(StartTs, EndTs, tol), NEW evidence, evidence \subseteq Nat,
         NEW t \in Align!GridTimes
  PROVE  Align!BinObserved(evidence, tol, t) <=>
           \A ms \in BinStart(t) .. t : Covers(evidence, tol, ms)
<1> DEFINE lo == BinStart(t)
           m == Align!Evidence(evidence, StartTs, EndTs, tol)
<1>1. /\ StartTs \in Nat /\ EndTs \in Nat /\ StartTs < EndTs
      /\ t \in Nat /\ lo \in StartTs .. EndTs - 1 /\ t \in lo .. EndTs - 1
  BY DayIs, BinStartIs
<1>2. Apart(m, StartTs, EndTs)
      /\ \A ms \in StartTs .. EndTs - 1 : Inside(m, ms) <=> Covers(evidence, tol, ms)
  BY EvidenceIs
<1>3. Align!EvidenceGaps(evidence, tol) = Align!Gaps(m, StartTs, EndTs)
  BY DEF Align!EvidenceGaps
<1>4. Align!BinObserved(evidence, tol, t) <=>
        evidence # {} /\ \A g \in Align!Gaps(m, StartTs, EndTs) : ~(g[1] <= t /\ lo < g[2])
  BY <1>3 DEF Align!BinObserved, BinStart
<1> HIDE DEF m, lo
<1>5. (\A g \in Align!Gaps(m, StartTs, EndTs) : ~(g[1] <= t /\ lo < g[2])) <=>
        \A ms \in lo .. t : Inside(m, ms)
  BY <1>1, <1>2, Complement
<1>6. \A ms \in lo .. t : ms \in StartTs .. EndTs - 1
  BY <1>1
<1>7. t \in lo .. t
  BY <1>1
<1>8. evidence = {} => ~Covers(evidence, tol, t)
  BY DEF Covers
<1> QED
  BY <1>2, <1>4, <1>5, <1>6, <1>7, <1>8 DEF lo

LEMMA StampsAre ==
  ASSUME AlignTypes
  PROVE  /\ \A s \in Align!Streams : Align!Stamps(s) \subseteq Nat
         /\ Align!Connection \subseteq Nat
<1>1. \A s \in Align!Streams : Align!Stamps(s) \subseteq Nat
  BY PreparedAre DEF Align!Stamps
<1>2. "trades" \in Align!Streams /\ "markprice" \in Align!Streams /\ "liquidation" \in Align!Streams
  BY DEF Align!Streams, Align!Joined
<1> QED
  BY <1>1, <1>2 DEF Align!Connection

LEMMA BinsCovered == ASSUME AlignTypes PROVE Align!ObservedMeansCovered
<1> DEFINE Covered(ms, evidence, tolerance) == \E e \in evidence : ms \in e .. e + tolerance - 1
<1>1. ASSUME NEW tol, Window(StartTs, EndTs, tol), NEW evidence, evidence \subseteq Nat,
             NEW t \in Align!GridTimes
      PROVE  Align!BinObserved(evidence, tol, t) <=>
               \A ms \in BinStart(t) .. t : Covered(ms, evidence, tol)
  <2>1. tol \in Nat /\ \A ms \in BinStart(t) .. t : ms \in Int
    BY <1>1 DEF Window
  <2>2. ASSUME NEW ms \in BinStart(t) .. t
        PROVE  Covered(ms, evidence, tol) <=> Covers(evidence, tol, ms)
    <3>1. \A e \in evidence : ms \in e .. e + tol - 1 <=> e <= ms /\ ms < e + tol
      BY <1>1, <2>1
    <3> QED
      BY <3>1 DEF Covers
  <2>3. Align!BinObserved(evidence, tol, t) <=>
          \A ms \in BinStart(t) .. t : Covers(evidence, tol, ms)
    BY <1>1, BinObservedIs
  <2> HIDE DEF Covered
  <2> QED
    BY <2>2, <2>3
<1>2. /\ Window(StartTs, EndTs, Alive.trades) /\ Window(StartTs, EndTs, Alive.connection)
      /\ Align!Stamps("trades") \subseteq Nat /\ Align!Connection \subseteq Nat
  BY DayIs, StampsAre DEF Align!Streams, Align!Joined
<1> HIDE DEF Covered
<1>3. ASSUME NEW t \in Align!GridTimes, rows["trades"] # <<>>
      PROVE  Align!TradesObserved(t) <=>
               \A ms \in BinStart(t) .. t : Covered(ms, Align!Stamps("trades"), Alive.trades)
  BY <1>1, <1>2, <1>3 DEF Align!TradesObserved
<1>4. ASSUME NEW t \in Align!GridTimes, rows["liquidation"] # <<>>
      PROVE  Align!LiquidationObserved(t) <=>
               \A ms \in BinStart(t) .. t : Covered(ms, Align!Connection, Alive.connection)
  BY <1>1, <1>2, <1>4 DEF Align!LiquidationObserved
<1> QED
  BY <1>3, <1>4 DEF Align!ObservedMeansCovered, BinStart, Covered

LEMMA CountIs == \A S : Align!Cardinality(S) = Cardinality(S)
  BY DEF Align!Cardinality, Cardinality

LEMMA TrustIs ==
  ASSUME NEW values, NEW from, NEW to, NEW tol, NEW sources, NEW unreadable
  PROVE  Align!Report(values, from, to, tol, sources, unreadable).trusted =
           (/\ Align!Milliseconds(Align!Evidence(Align!Normalized(values), from, to, tol)) = to - from
            /\ unreadable = 0)
BY Zenon DEF Align!Report

LEMMA ReportsTrue == ASSUME AlignTypes PROVE Align!ReportTrue
<1> SUFFICES ASSUME NEW s \in Align!Streams, Align!GapReport(s).trusted,
                    NEW ms \in StartTs .. EndTs - 1
             PROVE  \E i \in DOMAIN rows[s] :
                      /\ \A j \in DOMAIN rows[s] : <<s, j>> \notin broken
                      /\ ms \in rows[s][i].process .. rows[s][i].process + Alive.trades - 1
  BY DEF Align!ReportTrue
<1> DEFINE Stamp(i) == IF <<s, i>> \in broken THEN -1 ELSE rows[s][i].process
           values == {Stamp(i) : i \in DOMAIN rows[s]}
           unread == {i \in DOMAIN rows[s] : <<s, i>> \in broken}
           stamps == Align!Normalized(values)
           m == Align!Evidence(stamps, StartTs, EndTs, Alive.trades)
<1>1. Align!GapReport(s) =
        Align!Report(values, StartTs, EndTs, Alive.trades, Len(rows[s]), Align!Cardinality(unread))
  BY DEF Align!GapReport, Align!Null
<1>2. Align!Report(values, StartTs, EndTs, Alive.trades, Len(rows[s]),
                   Align!Cardinality(unread)).trusted
  BY <1>1
<1>3. Align!Milliseconds(m) = EndTs - StartTs /\ Align!Cardinality(unread) = 0
  <2> HIDE DEF values, unread
  <2> DEFINE full == Align!Milliseconds(Align!Evidence(Align!Normalized(values), StartTs, EndTs,
                                                       Alive.trades)) = EndTs - StartTs
  <2>1. Align!Report(values, StartTs, EndTs, Alive.trades, Len(rows[s]),
                     Align!Cardinality(unread)).trusted
          = (full /\ Align!Cardinality(unread) = 0)
    BY TrustIs, Zenon
  <2>2. full /\ Align!Cardinality(unread) = 0
    BY <1>2, <2>1, Zenon
  <2> QED
    BY <2>2
<1>4. /\ StartTs \in Nat /\ EndTs \in Nat /\ StartTs < EndTs /\ Window(StartTs, EndTs, Alive.trades)
      /\ Alive.trades \in Nat
  BY DayIs DEF Window
<1>5. /\ DOMAIN rows[s] = 1 .. Len(rows[s]) /\ Len(rows[s]) \in Nat
      /\ \A i \in DOMAIN rows[s] : rows[s][i].process \in Nat
  <2>1. rows[s] \in Seq(AlignRow)
    BY DEF AlignTypes
  <2>2. \A i \in DOMAIN rows[s] : rows[s][i] \in AlignRow
    BY <2>1
  <2>3. \A i \in DOMAIN rows[s] : rows[s][i].process \in Nat
    BY <2>2 DEF AlignRow
  <2> QED
    BY <2>3, PreparedAre
<1>6. \A j \in DOMAIN rows[s] : <<s, j>> \notin broken
  <2>1. IsFiniteSet(1 .. Len(rows[s])) /\ unread \subseteq 1 .. Len(rows[s])
    BY <1>5, FS_Interval
  <2>2. IsFiniteSet(unread)
    BY <2>1, FS_Subset
  <2>3. Cardinality(unread) = 0
    BY <1>3, CountIs
  <2>4. unread = {}
    BY <2>2, <2>3, FS_EmptySet
  <2> QED
    BY <2>4
<1>7. stamps \subseteq Nat /\ \A e \in stamps : \E i \in DOMAIN rows[s] : e = rows[s][i].process
  BY <1>5, <1>6 DEF Align!Normalized, Align!Null
<1> HIDE DEF stamps, m
<1>8. Apart(m, StartTs, EndTs)
      /\ \A x \in StartTs .. EndTs - 1 : Inside(m, x) <=> Covers(stamps, Alive.trades, x)
  BY <1>4, <1>7, EvidenceIs DEF m
<1>9. Inside(m, ms)
  BY <1>3, <1>4, <1>8, SumIs
<1>10. PICK e \in stamps : e <= ms /\ ms < e + Alive.trades
  BY <1>8, <1>9 DEF Covers
<1>11. PICK i \in DOMAIN rows[s] : e = rows[s][i].process
  BY <1>7
<1>12. e \in Nat /\ ms \in Nat
  BY <1>4, <1>7
<1>13. ms \in e .. e + Alive.trades - 1
  BY <1>4, <1>10, <1>12
<1> QED
  BY <1>6, <1>11, <1>13

LEMMA AlignSound == ASSUME AlignTypes PROVE Align!AlignInv
<1>1. Align!TypeOK
  <2>1. "trades" \in Align!Streams
    BY DEF Align!Streams, Align!Joined
  <2>2. \A t : Align!Binned("trades", t) \subseteq DOMAIN rows["trades"]
    BY <2>1, PreparedAre DEF Align!Binned
  <2> QED
    BY <2>2 DEF Align!TypeOK, AlignTypes
<1> QED
  BY <1>1, RowsCounted, BinsCovered, SnapshotsAgree, ReportsTrue DEF Align!AlignInv

\* Whatever rows a day holds, in whatever order of time they lie in the files: each received
\* within the grid is counted in one bin, a bin is called observed exactly when evidence covers
\* each of its milliseconds, a snapshot agrees with the dataset, and a report that is trusted
\* leaves no millisecond unwatched (assemble_dataset, causally_align, compute_coverage).
THEOREM DatasetAlwaysSound == MCSpec => []DatasetSound
<1>1. MCInit => AlignTypes
  BY AlignStarts DEF MCInit, NoAlign
<1>2. AlignTypes /\ [MCNext]_<<vars, compactVars, alignVars, tool>> => AlignTypes'
  BY AlignStep DEF MCNext
<1>3. AlignTypes => DatasetSound
  BY AlignSound DEF DatasetSound
<1> QED
  BY <1>1, <1>2, <1>3, PTL DEF MCSpec

\* What a stream gains after time t: its prepared rows stay, and a new one is available later.
Later(x, t) ==
  /\ Align!Prepared(x) \subseteq Align!Prepared(x)'
  /\ \A i \in Align!Prepared(x) :
       rows'[x][i] = rows[x][i] /\ Align!Available(x, i)' = Align!Available(x, i)
  /\ \A i \in Align!Prepared(x)' \ Align!Prepared(x) :
       Align!Available(x, i)' \in Nat /\ t < Align!Available(x, i)'

LEMMA LaterIs ==
  ASSUME AlignTypes, NEW s, NEW row, Added(s, row), NEW t \in Nat, t < Align!Known(row),
         NEW x \in Align!Streams
  PROVE  Later(x, t)
<1>1. /\ s \in Align!Streams /\ row \in AlignRow /\ legacy' = legacy
      /\ rows'[s] = Append(rows[s], row)
      /\ \A y \in Align!Streams : y # s => rows'[y] = rows[y]
  BY AddedKeeps DEF Added
<1>2. CASE x # s
  <2>1. rows'[x] = rows[x]
    BY <1>1, <1>2
  <2>2. Align!Prepared(x)' = Align!Prepared(x)
    BY <1>1, <2>1 DEF Align!Prepared
  <2>3. \A i : Align!Available(x, i)' = Align!Available(x, i)
    BY <1>1, <2>1 DEF Align!Available
  <2> QED
    BY <2>1, <2>2, <2>3 DEF Later
<1>3. CASE x = s
  <2> DEFINE q == rows[x]  r == rows'[x]
  <2>0. PICK n : n = Len(q) + 1
    OBVIOUS
  <2>1. q \in Seq(AlignRow) /\ r = Append(q, row)
    BY <1>1, <1>3 DEF AlignTypes
  <2> HIDE DEF q, r
  <2>2. /\ DOMAIN q = 1 .. Len(q) /\ Len(q) \in Nat /\ DOMAIN r = 1 .. n
        /\ r[n] = row /\ \A i \in DOMAIN q : i \in DOMAIN r /\ r[i] = q[i]
        /\ \A i \in DOMAIN r : i \notin DOMAIN q => i = n
    BY <1>1, <2>0, <2>1
  <2>3. Align!Prepared(x) = {i \in DOMAIN q : q[i].own /\ (legacy \/ q[i].local # -1)}
    BY DEF Align!Prepared, Align!Null, q
  <2>4. Align!Prepared(x)' = {i \in DOMAIN r : r[i].own /\ (legacy \/ r[i].local # -1)}
    BY <1>1 DEF Align!Prepared, Align!Null, r
  <2>5. \A i : /\ Align!Available(x, i) = (IF legacy THEN q[i].process ELSE q[i].local)
               /\ Align!Available(x, i)' = (IF legacy THEN r[i].process ELSE r[i].local)
    BY <1>1 DEF Align!Available, q, r
  <2>6. row.process \in Nat /\ row.local \in Nat \cup {-1}
    BY <1>1 DEF AlignRow
  <2>7. n \in Align!Prepared(x)' => t < (IF legacy THEN row.process ELSE row.local)
                                    /\ (IF legacy THEN row.process ELSE row.local) \in Nat
    BY <2>2, <2>4, <2>6 DEF Align!Known, Align!Null
  <2>8. Align!Prepared(x) \subseteq Align!Prepared(x)'
    BY <2>2, <2>3, <2>4
  <2>9. \A i \in Align!Prepared(x) : r[i] = q[i] /\ Align!Available(x, i)' = Align!Available(x, i)
    BY <2>2, <2>3, <2>5
  <2>10. \A i \in Align!Prepared(x)' \ Align!Prepared(x) : i = n
    BY <2>2, <2>3, <2>4
  <2>11. Align!Available(x, n)' = (IF legacy THEN row.process ELSE row.local)
    BY <2>2, <2>5
  <2>12. \A i \in Align!Prepared(x)' \ Align!Prepared(x) :
           Align!Available(x, i)' \in Nat /\ t < Align!Available(x, i)'
    BY <2>7, <2>10, <2>11
  <2> QED
    BY <2>8, <2>9, <2>12 DEF Later, q, r
<1> QED
  BY <1>2, <1>3

\* The value joined at t, the rows binned at t, and which liquidations are kept.
LEMMA AsOfKept ==
  ASSUME AlignTypes, NEW x \in Align!Joined, NEW t \in Nat, Later(x, t)
  PROVE  Align!AsOf(x, t)' = Align!AsOf(x, t)
<1> DEFINE F == {i \in Align!Prepared(x) : Align!Available(x, i) \in t - Stale[x] .. t}
           G == {i \in Align!Prepared(x)' : Align!Available(x, i)' \in t - Stale[x] .. t}
<1>1. x \in Align!Streams /\ Stale[x] \in Nat
  BY AlignBounds DEF Align!Joined, Align!Streams, Align!AlignAssumption
<1>2. \A i \in Align!Prepared(x) : Align!Available(x, i) \in Nat
  BY <1>1, PreparedAre
<1>3. G = F
  <2>1. ASSUME NEW i \in F PROVE i \in G
    BY DEF Later
  <2>2. ASSUME NEW i \in G PROVE i \in F
    <3>1. i \in Align!Prepared(x)
      BY <1>1 DEF Later
    <3> QED
      BY <3>1 DEF Later
  <2> HIDE DEF F, G
  <2> QED
    BY <2>1, <2>2
<1>4. Align!AsOf(x, t) = IF F = {} THEN -1 ELSE Align!Latest(x, F)
  BY DEF Align!AsOf, Align!Null
<1>5. Align!AsOf(x, t)' = IF G = {} THEN -1
                          ELSE CHOOSE i \in G : \A j \in G \ {i} : Align!Before(x, j, i)'
  BY DEF Align!AsOf, Align!Null, Align!Latest
<1>6. F \subseteq Align!Prepared(x) /\ \A i \in F : Align!Available(x, i) <= t
  BY <1>1, <1>2
<1>7. \A i, j \in F : Align!Before(x, j, i)' <=> Align!Before(x, j, i)
  BY <1>6 DEF Align!Before, Later
<1> HIDE DEF F, G
<1>8. CASE F = {}
  BY <1>3, <1>4, <1>5, <1>8
<1>9. CASE F # {}
  <2>1. PICK l \in F : l = Align!Latest(x, F) /\ \A j \in F \ {l} : Align!Before(x, j, l)
    BY <1>1, <1>6, <1>9, LatestIs
  <2>2. \A i \in F : (\A j \in F \ {i} : Align!Before(x, j, i)) => i = l
    BY <1>1, <1>6, <1>9, <2>1, LatestIs
  <2>3. \A j \in F \ {l} : Align!Before(x, j, l)'
    BY <1>7, <2>1
  <2>4. \A i \in F : (\A j \in F \ {i} : Align!Before(x, j, i)') => i = l
    BY <1>7, <2>2
  <2> DEFINE c == CHOOSE i \in F : \A j \in F \ {i} : Align!Before(x, j, i)'
  <2>5. c = l
    BY <2>3, <2>4
  <2>6. Align!AsOf(x, t)' = c
    BY <1>3, <1>5, <1>9
  <2> HIDE DEF c
  <2> QED
    BY <1>4, <1>9, <2>1, <2>5, <2>6
<1> QED
  BY <1>8, <1>9

LEMMA BinnedKept ==
  ASSUME AlignTypes, NEW x \in Align!Streams, NEW t \in Align!GridTimes, Later(x, t)
  PROVE  /\ Align!Binned(x, t)' = Align!Binned(x, t)
         /\ \A i \in Align!Binned(x, t) : i \in Align!Prepared(x) /\ Align!Available(x, i) <= t
<1>1. \A a \in Nat : Align!GridBin(a) = t => a <= t
  BY GridBinIs
<1>2. t \in Nat
  BY BinStartIs
<1>3. \A i \in Align!Prepared(x) : Align!Available(x, i) \in Nat
  BY PreparedAre
<1>4. Align!Binned(x, t) = {i \in Align!Prepared(x) : Align!GridBin(Align!Available(x, i)) = t}
  BY DEF Align!Binned
<1>5. Align!Binned(x, t)' = {i \in Align!Prepared(x)' : Align!GridBin(Align!Available(x, i)') = t}
  BY DEF Align!Binned
<1>6. ASSUME NEW i \in Align!Prepared(x)' \ Align!Prepared(x)
      PROVE  Align!GridBin(Align!Available(x, i)') # t
  <2>1. Align!Available(x, i)' \in Nat /\ t < Align!Available(x, i)'
    BY DEF Later
  <2> QED
    BY <1>1, <1>2, <2>1
<1>7. \A i \in Align!Prepared(x) :
        i \in Align!Prepared(x)' /\ Align!Available(x, i)' = Align!Available(x, i)
  BY DEF Later
<1>8. Align!Binned(x, t)' = Align!Binned(x, t)
  BY <1>4, <1>5, <1>6, <1>7
<1> QED
  BY <1>1, <1>3, <1>4, <1>8

LEMMA KeptKept ==
  ASSUME AlignTypes, NEW t \in Align!GridTimes, Later("liquidation", t),
         NEW i \in Align!Binned("liquidation", t)
  PROVE  Align!Kept(i)' <=> Align!Kept(i)
<1> DEFINE P == Align!Prepared("liquidation")
           q == rows["liquidation"]
           B(j) == Align!Before("liquidation", j, i)
           Free(j) == q[i].exchange = -1 \/ q[j].exchange # q[i].exchange
<1>0. "liquidation" \in Align!Streams
  BY DEF Align!Streams, Align!Joined
<1>1. i \in P /\ Align!Available("liquidation", i) <= t
  BY <1>0, BinnedKept
<1>2. t \in Nat /\ Align!Available("liquidation", i) \in Nat
  BY <1>0, <1>1, PreparedAre, BinStartIs
<1>3. Align!Kept(i) <=> \A j \in P \ {i} : B(j) => Free(j)
  BY DEF Align!Kept, Align!Null
<1>4. Align!Kept(i)' <=> \A j \in P' \ {i} : B(j)' => Free(j)'
  BY DEF Align!Kept, Align!Null
<1>5. \A j \in P : /\ j \in P' /\ (B(j)' <=> B(j)) /\ (Free(j)' <=> Free(j))
  BY <1>1 DEF Later, Align!Before
<1>6. ASSUME NEW j \in P' \ P PROVE ~B(j)'
  <2>1. /\ Align!Available("liquidation", j)' \in Nat /\ t < Align!Available("liquidation", j)'
        /\ Align!Available("liquidation", i)' = Align!Available("liquidation", i)
    BY <1>1 DEF Later
  <2>2. B(j)' <=> \/ Align!Available("liquidation", j)' < Align!Available("liquidation", i)'
                  \/ Align!Available("liquidation", j)' = Align!Available("liquidation", i)' /\ j < i
    BY DEF Align!Before
  <2> QED
    BY <1>1, <1>2, <2>1, <2>2
<1> HIDE DEF P, B, Free
<1> QED
  BY <1>3, <1>4, <1>5, <1>6

LEMMA WatchKept ==
  ASSUME AlignTypes, NEW t \in Align!GridTimes, Later("trades", t),
         rows'["trades"] = rows["trades"] \/ rows'["trades"] # <<>>
  PROVE  Align!TradesObserved(t)' = Align!TradesObserved(t)
<1> DEFINE A == Align!Stamps("trades")
           P == Align!Prepared("trades")
<1>0. "trades" \in Align!Streams
  BY DEF Align!Streams, Align!Joined
<1>1. /\ t \in Nat /\ Window(StartTs, EndTs, Alive.trades)
      /\ \A ms \in BinStart(t) .. t : ms \in Int /\ ms <= t
  BY BinStartIs, DayIs
<1>2. A \subseteq Nat
  BY <1>0, StampsAre
<1>3. /\ A \subseteq A' /\ A' \subseteq Nat
      /\ \A e \in A' : e \in A \/ t < e
  <2>1. A = {Align!Available("trades", i) : i \in P}
    BY DEF Align!Stamps
  <2>2. A' = {Align!Available("trades", i)' : i \in P'}
    BY DEF Align!Stamps
  <2>3. \A i \in P : i \in P' /\ Align!Available("trades", i)' = Align!Available("trades", i)
    BY DEF Later
  <2>4. \A i \in P' : i \notin P => /\ Align!Available("trades", i)' \in Nat
                                   /\ t < Align!Available("trades", i)'
    BY DEF Later
  <2> HIDE DEF A, P
  <2> QED
    BY <1>2, <2>1, <2>2, <2>3, <2>4
<1> HIDE DEF A, P
<1>4. \A ms \in BinStart(t) .. t : Covers(A', Alive.trades, ms) <=> Covers(A, Alive.trades, ms)
  BY <1>1, <1>2, <1>3 DEF Covers
<1>5. /\ Align!BinObserved(A, Alive.trades, t) <=>
           \A ms \in BinStart(t) .. t : Covers(A, Alive.trades, ms)
      /\ Align!BinObserved(A', Alive.trades, t) <=>
           \A ms \in BinStart(t) .. t : Covers(A', Alive.trades, ms)
  BY <1>1, <1>2, <1>3, BinObservedIs
<1>6. rows["trades"] = <<>> => ~Align!BinObserved(A, Alive.trades, t)
  <2> SUFFICES ASSUME rows["trades"] = <<>> PROVE A = {}
    BY DEF Align!BinObserved
  <2>1. P = {}
    BY <1>0, PreparedAre DEF P
  <2> QED
    BY <2>1 DEF Align!Stamps, A, P
<1>7. rows'["trades"] = <<>> => rows["trades"] = <<>>
  OBVIOUS
<1>8. Align!TradesObserved(t) <=> Align!BinObserved(A, Alive.trades, t)
  BY <1>6 DEF Align!TradesObserved, A
<1>9. Align!TradesObserved(t)' <=> Align!BinObserved(A', Alive.trades, t)
  <2>1. Align!TradesObserved(t)' <=> rows'["trades"] # <<>> /\ Align!BinObserved(A', Alive.trades, t)
    BY DEF Align!TradesObserved, A
  <2> QED
    BY <1>4, <1>5, <1>6, <1>7, <2>1
<1>10. Align!TradesObserved(t)' <=> Align!TradesObserved(t)
  BY <1>4, <1>5, <1>8, <1>9
<1>11. Align!TradesObserved(t)' \in BOOLEAN /\ Align!TradesObserved(t) \in BOOLEAN
  BY Zenon DEF Align!TradesObserved
<1>12. \A a, b \in BOOLEAN : (a <=> b) => a = b
  BY Zenon
<1>13. PICK a \in BOOLEAN, b \in BOOLEAN :
         a = Align!TradesObserved(t) /\ b = Align!TradesObserved(t)'
  BY <1>11, Zenon
<1>14. a <=> b
  BY <1>10, <1>13, Zenon
<1>15. a = b
  BY <1>12, <1>14, Zenon
<1> QED
  BY <1>13, <1>15, Zenon

\* What the connection's frames prove of a bin does not change either.
LEMMA ConnectionKept ==
  ASSUME AlignTypes, NEW t \in Align!GridTimes, \A x \in Align!Streams : Later(x, t)
  PROVE  Align!BinObserved(Align!Connection', Alive.connection, t)
           = Align!BinObserved(Align!Connection, Alive.connection, t)
<1> DEFINE A == Align!Connection
<1>1. /\ t \in Nat /\ Window(StartTs, EndTs, Alive.connection)
      /\ \A ms \in BinStart(t) .. t : ms \in Int /\ ms <= t
  BY BinStartIs, DayIs
<1>2. A \subseteq Nat
  BY StampsAre
<1>3. ASSUME NEW x \in Align!Streams
      PROVE  /\ Align!Stamps(x) \subseteq Align!Stamps(x)' /\ Align!Stamps(x)' \subseteq Nat
             /\ \A e \in Align!Stamps(x)' : e \in Align!Stamps(x) \/ t < e
  <2> DEFINE P == Align!Prepared(x)
             S == Align!Stamps(x)
  <2>1. S = {Align!Available(x, i) : i \in P} /\ S \subseteq Nat
    BY StampsAre DEF Align!Stamps
  <2>2. S' = {Align!Available(x, i)' : i \in P'}
    BY DEF Align!Stamps
  <2>3. \A i \in P : i \in P' /\ Align!Available(x, i)' = Align!Available(x, i)
    BY DEF Later
  <2>4. \A i \in P' : i \notin P => Align!Available(x, i)' \in Nat /\ t < Align!Available(x, i)'
    BY DEF Later
  <2> HIDE DEF P, S
  <2>5. S \subseteq S' /\ S' \subseteq Nat /\ \A e \in S' : e \in S \/ t < e
    BY <2>1, <2>2, <2>3, <2>4
  <2> QED
    BY <2>5 DEF S
<1>4. A \subseteq A' /\ A' \subseteq Nat /\ \A e \in A' : e \in A \/ t < e
  <2>1. "trades" \in Align!Streams /\ "markprice" \in Align!Streams /\ "liquidation" \in Align!Streams
    BY DEF Align!Streams, Align!Joined
  <2> QED
    BY <1>3, <2>1 DEF Align!Connection
<1> HIDE DEF A
<1>5. \A ms \in BinStart(t) .. t : Covers(A', Alive.connection, ms) <=> Covers(A, Alive.connection, ms)
  BY <1>1, <1>2, <1>4 DEF Covers
<1>6. /\ Align!BinObserved(A, Alive.connection, t) <=>
           \A ms \in BinStart(t) .. t : Covers(A, Alive.connection, ms)
      /\ Align!BinObserved(A', Alive.connection, t) <=>
           \A ms \in BinStart(t) .. t : Covers(A', Alive.connection, ms)
  BY <1>1, <1>2, <1>4, BinObservedIs
<1>7. Align!BinObserved(A', Alive.connection, t) <=> Align!BinObserved(A, Alive.connection, t)
  BY <1>5, <1>6
<1>8. Align!BinObserved(A', Alive.connection, t) = Align!BinObserved(A, Alive.connection, t)
  BY <1>7, Zenon DEF Align!BinObserved
<1> QED
  BY <1>8 DEF A

\* The flag of a joined value is the same as before, unless the open interest gets its first row.
LEMMA FlagKept ==
  ASSUME NEW x \in Align!Joined, NEW t, Align!AsOf(x, t)' = Align!AsOf(x, t), legacy' = legacy
  PROVE  /\ \/ x # "openinterest"
            \/ Align!Prepared(x)' = Align!Prepared(x)
            \/ Align!Prepared(x) # {} /\ Align!Prepared(x)' # {}
            => Align!TimeUnknown(x, t)' = Align!TimeUnknown(x, t)
         /\ Align!Prepared(x) = {} /\ Align!Prepared(x)' # {} => Align!TimeUnknown(x, t)' = -1
<1>1. Align!TimeUnknown(x, t) =
        IF Align!AsOf(x, t) # -1 THEN IF legacy THEN 1 ELSE 0
        ELSE IF x = "openinterest" /\ Align!Prepared(x) = {} THEN 0 ELSE -1
  BY DEF Align!TimeUnknown, Align!Null
<1>2. Align!TimeUnknown(x, t)' =
        IF Align!AsOf(x, t)' # -1 THEN IF legacy' THEN 1 ELSE 0
        ELSE IF x = "openinterest" /\ Align!Prepared(x)' = {} THEN 0 ELSE -1
  BY DEF Align!TimeUnknown, Align!Null
<1>3. Align!Prepared(x) = {} => Align!AsOf(x, t) = -1
  <2>1. Align!AsOf(x, t) = LET E == {i \in Align!Prepared(x) : Align!Available(x, i) \in t - Stale[x] .. t}
                           IN IF E = {} THEN -1 ELSE Align!Latest(x, E)
    BY DEF Align!AsOf, Align!Null
  <2> QED
    BY <2>1
<1> QED
  BY <1>1, <1>2, <1>3

\* The row of t with its columns by name, and the columns Hindsight replaces.
Columns(j, u, t, to, ta, l, c, lo, la) ==
  [joined |-> j, unknown |-> u, trades |-> t, trades_bin_observed |-> to,
   trades_stream_available |-> ta, liquidations |-> l, copies |-> c,
   liquidation_bin_observed |-> lo, liquidation_stream_available |-> la]

LEMMA TradesSet ==
  \A j, u, t, to, ta, l, c, lo, la, p :
    [Columns(j, u, t, to, ta, l, c, lo, la) EXCEPT !.trades_stream_available = p]
      = Columns(j, u, t, to, p, l, c, lo, la)
  BY DEF Columns

LEMMA AvailableSet ==
  \A j, u, t, to, ta, l, c, lo, la, p :
    [Columns(j, u, t, to, ta, l, c, lo, la) EXCEPT !.liquidation_stream_available = p]
      = Columns(j, u, t, to, ta, l, c, lo, p)
  BY DEF Columns

LEMMA ObservedSet ==
  \A j, u, t, to, ta, l, c, lo, la, p :
    [Columns(j, u, t, to, ta, l, c, lo, la) EXCEPT !.liquidation_bin_observed = p]
      = Columns(j, u, t, to, ta, l, c, p, la)
  BY DEF Columns

LEMMA UnknownSet ==
  /\ \A j, u, t, to, ta, l, c, lo, la, p :
       [Columns(j, u, t, to, ta, l, c, lo, la) EXCEPT !.unknown = p]
         = Columns(j, p, t, to, ta, l, c, lo, la)
  /\ \A j, u, t, to, ta, l, c, lo, la : Columns(j, u, t, to, ta, l, c, lo, la).unknown = u
  BY DEF Columns

LEMMA RowsStay ==
  ASSUME AlignTypes, NEW s, NEW row, Added(s, row), NEW t \in Align!GridTimes, t < Align!Known(row)
  PROVE  Align!AlignedRow(t)' = Align!Hindsight(Align!AlignedRow(t), s, t)
<1>1. t \in Nat
  BY BinStartIs
<1>2. \A x \in Align!Streams : Later(x, t)
  BY <1>1, LaterIs
<1>3. /\ "trades" \in Align!Streams /\ "liquidation" \in Align!Streams
      /\ \A x \in Align!Joined : x \in Align!Streams
  BY DEF Align!Streams, Align!Joined
<1>4. \A x \in Align!Joined : Align!AsOf(x, t)' = Align!AsOf(x, t)
  BY <1>1, <1>2, <1>3, AsOfKept
<1>5. legacy' = legacy
  BY DEF Added
<1>6. Align!Binned("trades", t)' = Align!Binned("trades", t)
  BY <1>2, <1>3, BinnedKept
<1>7. Align!TradesObserved(t)' = Align!TradesObserved(t)
  <2>1. rows'["trades"] = rows["trades"] \/ rows'["trades"] # <<>>
    <3>1. CASE s # "trades"
      BY <1>3, <3>1, AddedKeeps
    <3>2. CASE s = "trades"
      <4>1. rows["trades"] \in Seq(AlignRow) /\ rows'["trades"] = Append(rows["trades"], row)
        BY <1>3, <3>2, AddedKeeps DEF AlignTypes
      <4> QED
        BY <4>1
    <3> QED
      BY <3>1, <3>2
  <2> QED
    BY <1>2, <1>3, <2>1, WatchKept
<1> DEFINE L == {i \in Align!Binned("liquidation", t) : Align!Kept(i)}
           C == {i \in Align!Binned("liquidation", t) : ~Align!Kept(i)}
           J == [x \in Align!Joined |-> Align!AsOf(x, t)]
           U == [x \in Align!Joined |-> Align!TimeUnknown(x, t)]
           T == Align!Binned("trades", t)
           TO == Align!TradesObserved(t)
           TA == rows["trades"] # <<>>
           LO == Align!LiquidationObserved(t)
           LA == rows["liquidation"] # <<>>
           B == Align!BinObserved(Align!Connection, Alive.connection, t)
<1>8. L' = L /\ C' = C
  <2>1. Align!Binned("liquidation", t)' = Align!Binned("liquidation", t)
    BY <1>2, <1>3, BinnedKept
  <2>2. \A i \in Align!Binned("liquidation", t) : Align!Kept(i)' <=> Align!Kept(i)
    BY <1>2, <1>3, KeptKept
  <2> QED
    BY <2>1, <2>2
<1>9. J' = J
  BY <1>4
<1>10. /\ rows[s] \in Seq(AlignRow) /\ rows'[s] # <<>>
       /\ \A x \in Align!Streams : x # s => rows'[x] = rows[x]
  <2>1. rows[s] \in Seq(AlignRow) /\ rows'[s] = Append(rows[s], row)
        /\ \A x \in Align!Streams : x # s => rows'[x] = rows[x]
    BY AddedKeeps DEF AlignTypes, Added
  <2> QED
    BY <2>1
<1>11. \A x \in Align!Streams : x # s => Align!Prepared(x)' = Align!Prepared(x)
  BY <1>5, <1>10 DEF Align!Prepared
<1>12. \A x \in Align!Joined : Align!Prepared(x) # {} => Align!Prepared(x)' # {}
  BY <1>2, <1>3 DEF Later
<1>13. /\ s = "openinterest" /\ Align!Prepared(s) = {} /\ Align!Prepared(s)' # {} =>
            U' = [x \in Align!Joined |-> IF x = s THEN -1 ELSE U[x]]
       /\ ~(s = "openinterest" /\ Align!Prepared(s) = {} /\ Align!Prepared(s)' # {}) => U' = U
  <2>1. \A x \in Align!Joined : x # s => Align!TimeUnknown(x, t)' = Align!TimeUnknown(x, t)
    BY <1>3, <1>4, <1>5, <1>11, FlagKept
  <2>2. s \in Align!Joined /\ Align!Prepared(s) = {} /\ Align!Prepared(s)' # {} =>
          Align!TimeUnknown(s, t)' = -1
    BY <1>4, <1>5, FlagKept
  <2>3. s \in Align!Joined
        /\ ~(s = "openinterest" /\ Align!Prepared(s) = {} /\ Align!Prepared(s)' # {}) =>
          Align!TimeUnknown(s, t)' = Align!TimeUnknown(s, t)
    BY <1>4, <1>5, <1>12, FlagKept
  <2>4. "openinterest" \in Align!Joined
    BY DEF Align!Joined
  <2> QED
    BY <2>1, <2>2, <2>3, <2>4
<1>14. TA' = IF s = "trades" /\ rows[s] = <<>> THEN TRUE ELSE TA
  <2>1. CASE s = "trades"
    <3>1. rows'["trades"] # <<>>
      BY <1>10, <2>1
    <3> QED
      BY <2>1, <3>1, Zenon
  <2>2. CASE s # "trades"
    <3>1. rows'["trades"] = rows["trades"]
      BY <1>3, <1>10, <2>2
    <3> QED
      BY <2>2, <3>1, Zenon
  <2> QED
    BY <2>1, <2>2, Zenon
<1>15. LA' = IF s = "liquidation" /\ rows[s] = <<>> THEN TRUE ELSE LA
  <2>1. CASE s = "liquidation"
    <3>1. rows'["liquidation"] # <<>>
      BY <1>10, <2>1
    <3> QED
      BY <2>1, <3>1, Zenon
  <2>2. CASE s # "liquidation"
    <3>1. rows'["liquidation"] = rows["liquidation"]
      BY <1>3, <1>10, <2>2
    <3> QED
      BY <2>2, <3>1, Zenon
  <2> QED
    BY <2>1, <2>2, Zenon
<1>16. LO' = IF s = "liquidation" /\ rows[s] = <<>> THEN B ELSE LO
  <2>1. B' = B
    BY <1>2, ConnectionKept
  <2>2. LO = (LA /\ B) /\ LO' = (LA' /\ B')
    BY Zenon DEF Align!LiquidationObserved
  <2>3. B \in BOOLEAN
    BY Zenon DEF Align!BinObserved
  <2> HIDE DEF B, LO, LA
  <2>4. CASE s = "liquidation" /\ rows[s] = <<>>
    <3>1. (TRUE /\ B) = B
      BY <2>3, Zenon
    <3> QED
      BY <1>15, <2>1, <2>2, <2>4, <3>1, Zenon
  <2>5. CASE ~(s = "liquidation" /\ rows[s] = <<>>)
    <3>1. LA' = LA
      BY <1>15, <2>5, Zenon
    <3> QED
      BY <2>1, <2>2, <2>5, <3>1, Zenon
  <2> QED
    BY <2>4, <2>5, Zenon
<1>17. Align!AlignedRow(t) = Columns(J, U, T, TO, TA, L, C, LO, LA)
  BY Zenon DEF Align!AlignedRow, Columns
<1>18. Align!AlignedRow(t)' = Columns(J', U', T', TO', TA', L', C', LO', LA')
  BY Zenon DEF Align!AlignedRow, Columns
<1> DEFINE R == Align!AlignedRow(t)
<1>19. Align!Hindsight(R, s, t) =
         IF s = "trades" /\ rows[s] = <<>> THEN [R EXCEPT !.trades_stream_available = TRUE]
         ELSE IF s = "liquidation" /\ rows[s] = <<>>
              THEN [R EXCEPT !.liquidation_stream_available = TRUE, !.liquidation_bin_observed = B]
         ELSE IF s = "openinterest" /\ Align!Prepared(s) = {} /\ Align!Prepared(s)' # {}
              THEN [R EXCEPT !.unknown = [x \in Align!Joined |-> IF x = s THEN -1 ELSE @[x]]]
         ELSE R
  BY Zenon DEF Align!Hindsight, Align!Null
<1> HIDE DEF J, U, T, TO, TA, L, C, LO, LA, B
<1>20. J' = J /\ T' = T /\ TO' = TO /\ L' = L /\ C' = C
  BY <1>6, <1>7, <1>8, <1>9, Zenon DEF T, TO
<1>21. R = Columns(J, U, T, TO, TA, L, C, LO, LA)
  BY <1>17
<1> HIDE DEF R
<1>22. CASE s = "trades" /\ rows[s] = <<>>
  <2>1. TA' = TRUE /\ U' = U /\ LA' = LA /\ LO' = LO
    <3>1. s # "liquidation" /\ s # "openinterest"
      BY <1>22
    <3> QED
      BY <1>13, <1>14, <1>15, <1>16, <1>22, <3>1, Zenon
  <2>2. Align!Hindsight(R, s, t) = [R EXCEPT !.trades_stream_available = TRUE]
    BY <1>19, <1>22, Zenon
  <2>3. [R EXCEPT !.trades_stream_available = TRUE] = Columns(J, U, T, TO, TRUE, L, C, LO, LA)
    <3>1. \A v : [R EXCEPT !.trades_stream_available = v] = Columns(J, U, T, TO, v, L, C, LO, LA)
      BY <1>21, TradesSet
    <3> QED
      BY <3>1, Zenon
  <2> QED
    BY <1>18, <1>20, <2>1, <2>2, <2>3, Zenon DEF R
<1>23. CASE s = "liquidation" /\ rows[s] = <<>>
  <2>1. s # "trades" /\ s # "openinterest"
    BY <1>23
  <2>2. TA' = TA /\ U' = U /\ LA' = TRUE /\ LO' = B
    BY <1>13, <1>14, <1>15, <1>16, <1>23, <2>1, Zenon
  <2>3. Align!Hindsight(R, s, t) =
          [R EXCEPT !.liquidation_stream_available = TRUE, !.liquidation_bin_observed = B]
    BY <1>19, <1>23, <2>1, Zenon
  <2>4. [R EXCEPT !.liquidation_stream_available = TRUE, !.liquidation_bin_observed = B]
          = Columns(J, U, T, TO, TA, L, C, B, TRUE)
    <3>1. ASSUME NEW v, NEW w
          PROVE  [R EXCEPT !.liquidation_stream_available = v, !.liquidation_bin_observed = w]
                   = Columns(J, U, T, TO, TA, L, C, w, v)
      <4>1. PICK V : V = [R EXCEPT !.liquidation_stream_available = v]
        OBVIOUS
      <4>2. V = Columns(J, U, T, TO, TA, L, C, LO, v)
        BY <1>21, <4>1, AvailableSet
      <4>3. [V EXCEPT !.liquidation_bin_observed = w] = Columns(J, U, T, TO, TA, L, C, w, v)
        BY <4>2, ObservedSet
      <4>4. [R EXCEPT !.liquidation_stream_available = v, !.liquidation_bin_observed = w]
              = [V EXCEPT !.liquidation_bin_observed = w]
        BY <4>1
      <4> QED
        BY <4>3, <4>4
    <3> QED
      BY <3>1, Zenon
  <2> QED
    BY <1>18, <1>20, <2>2, <2>3, <2>4, Zenon DEF R
<1>24. CASE s = "openinterest" /\ Align!Prepared(s) = {} /\ Align!Prepared(s)' # {}
  <2>1. s # "trades" /\ s # "liquidation"
    BY <1>24
  <2>2. /\ TA' = TA /\ LA' = LA /\ LO' = LO
        /\ U' = [x \in Align!Joined |-> IF x = s THEN -1 ELSE U[x]]
    BY <1>13, <1>14, <1>15, <1>16, <1>24, <2>1, Zenon
  <2>3. Align!Hindsight(R, s, t) =
          [R EXCEPT !.unknown = [x \in Align!Joined |-> IF x = s THEN -1 ELSE @[x]]]
    BY <1>19, <1>24, <2>1, Zenon
  <2>4. [R EXCEPT !.unknown = [x \in Align!Joined |-> IF x = s THEN -1 ELSE @[x]]]
          = Columns(J, [x \in Align!Joined |-> IF x = s THEN -1 ELSE U[x]], T, TO, TA, L, C, LO, LA)
    <3>1. R.unknown = U
      BY <1>21, UnknownSet
    <3>2. \A v : [R EXCEPT !.unknown = v] = Columns(J, v, T, TO, TA, L, C, LO, LA)
      BY <1>21, UnknownSet
    <3> QED
      BY <3>1, <3>2
  <2> QED
    BY <1>18, <1>20, <2>2, <2>3, <2>4, Zenon DEF R
<1>25. CASE /\ ~(s = "trades" /\ rows[s] = <<>>) /\ ~(s = "liquidation" /\ rows[s] = <<>>)
            /\ ~(s = "openinterest" /\ Align!Prepared(s) = {} /\ Align!Prepared(s)' # {})
  <2>1. TA' = TA /\ U' = U /\ LA' = LA /\ LO' = LO
    BY <1>13, <1>14, <1>15, <1>16, <1>25, Zenon
  <2>2. Align!Hindsight(R, s, t) = R
    BY <1>19, <1>25, Zenon
  <2> QED
    BY <1>18, <1>20, <1>21, <2>1, <2>2, Zenon DEF R
<1> QED
  BY <1>22, <1>23, <1>24, <1>25, Zenon

LEMMA AlignCausal == ASSUME AlignTypes, Align!Next PROVE Align!RowsKept
<1> SUFFICES ASSUME NEW x \in Align!Streams, Len(rows'[x]) > Len(rows[x]),
                    NEW t \in Align!GridTimes, t < Align!Known(Align!Last(rows'[x]))
             PROVE  Align!AlignedRow(t)' = Align!Hindsight(Align!AlignedRow(t), x, t)
  BY DEF Align!RowsKept
<1>1. PICK s \in Align!Streams : Align!Collects(s) \/ Align!Breaks(s)
  BY DEF Align!Next
<1>2. \A y \in Align!Streams : rows[y] \in Seq(AlignRow) /\ Len(rows[y]) \in Nat
  BY DEF AlignTypes
<1>3. CASE Align!Breaks(s)
  <2>1. rows' = rows
    BY <1>3 DEF Align!Breaks
  <2> QED
    BY <1>2, <2>1
<1>4. CASE Align!Collects(s)
  <2>1. PICK row : Added(s, row)
    BY <1>4, CollectsAdds
  <2>2. x = s
    <3>1. x # s => rows'[x] = rows[x]
      BY <2>1, AddedKeeps
    <3> QED
      BY <1>2, <3>1
  <2>3. rows'[s] = Append(rows[s], row) /\ row \in AlignRow
    BY <2>1, AddedKeeps DEF Added
  <2>4. Align!Last(rows'[s]) = row
    BY <1>2, <2>3 DEF Align!Last
  <2> QED
    BY <2>1, <2>2, <2>4, RowsStay
<1> QED
  BY <1>1, <1>3, <1>4

\* A row that comes to be known after grid time t changes nothing in the dataset's row of t, but
\* for the columns of Hindsight, and those only when it is the first row of its stream: neither
\* the joined values, nor the counts, nor which liquidations are copies, nor whether the trades
\* were watched (assemble_dataset).
THEOREM NeverLooksAhead == MCSpec => NoLookAhead
<1>1. MCInit => AlignTypes
  BY AlignStarts DEF MCInit, NoAlign
<1>2. AlignTypes /\ [MCNext]_<<vars, compactVars, alignVars, tool>> => AlignTypes'
  BY AlignStep DEF MCNext
<1>3. AlignTypes /\ [MCNext]_<<vars, compactVars, alignVars, tool>>
        => [tool = "align" => Align!RowsKept]_alignVars
  BY AlignCausal DEF MCNext
<1> QED
  BY <1>1, <1>2, <1>3, PTL DEF MCSpec, NoLookAhead
=============================================================================
