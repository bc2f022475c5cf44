----------------------------- MODULE BookProofs -----------------------------
(***************************************************************************)
(* The books, proved for any number of updates, price levels and faults    *)
(* and any buffer: what the runners of USD-M and Spot write is the venue's *)
(* book, and no generation has a hole; a VALID book of Bybit or OKX is the *)
(* venue's; so is a book replayed from whatever was recorded.  Each method  *)
(* of LocalBook is a lemma (Outcome); a bridge, which is a chain over the  *)
(* buffer, and a replay, which is one over the frames, rest on there being *)
(* no shortest chain that is wrong.                                        *)
(***************************************************************************)
EXTENDS MCBooks, FiniteSetTheorems, SequenceTheorems, WellFoundedInduction, TLAPS

(***************************************************************************)
(* Numbers and levels                                                      *)
(***************************************************************************)

\* A set of numbers that is not empty has a smallest one.
LEMMA Smallest ==
  ASSUME NEW S, S \subseteq Nat, S # {}
  PROVE  \E n \in S : \A m \in S : n <= m
<1> DEFINE Less == {p \in Nat \X Nat : p[1] < p[2]}
<1>1. IsWellFoundedOn(Less, Nat)
  BY NatLessThanWellFounded DEF OpToRel
<1>2. \A m, n \in Nat : m < n => <<m, n>> \in Less
  OBVIOUS
<1> HIDE DEF Less
<1>3. PICK n \in S : \A m \in S : <<m, n>> \notin Less
  BY <1>1, WFMin
<1>4. \A m \in S : m \in Nat /\ n \in Nat /\ ~(m < n)
  BY <1>2, <1>3
<1> QED
  BY <1>4

\* The last of some updates.
LEMMA Latest ==
  ASSUME NEW S, S \subseteq Id, S # {}
  PROVE  Max(S) \in S /\ \A n \in S : n <= Max(S)
<1>1. \A n \in S : n \in Nat /\ MaxId - n \in Nat
  BY BookAssumption DEF Id
<1>2. \E m \in S : \A n \in S : n <= m
  <2> DEFINE T == {MaxId - n : n \in S}
  <2>1. T \subseteq Nat /\ T # {}
    BY <1>1
  <2>2. PICK t \in T : \A r \in T : t <= r
    BY <2>1, Smallest
  <2>3. PICK m \in S : t = MaxId - m
    OBVIOUS
  <2>4. \A n \in S : MaxId - m <= MaxId - n
    BY <2>2, <2>3
  <2>5. MaxId \in Nat
    BY BookAssumption
  <2> QED
    BY <1>1, <2>4, <2>5
<1>3. \E m \in S : \A n \in S : m >= n
  BY <1>1, <1>2
<1> QED
  BY <1>1, <1>3 DEF Max

\* The updates that touched a level.
Hits(l, from, to) == {i \in from .. to : i % NLevels = l}

LEMMA RestateIs ==
  ASSUME NEW levels, NEW from, NEW to
  PROVE  Restate(levels, from, to) =
           [l \in Level |-> IF Hits(l, from, to) = {} THEN levels[l] ELSE Max(Hits(l, from, to))]
BY DEF Restate, Hits

LEMMA RestateType ==
  ASSUME NEW levels \in [Level -> Id \cup {NoId}], NEW from \in Id, NEW to \in Id
  PROVE  Restate(levels, from, to) \in [Level -> Id \cup {NoId}]
<1>1. \A l \in Level : Hits(l, from, to) \subseteq Id
  BY BookAssumption DEF Hits, Id
<1>2. \A l \in Level : Hits(l, from, to) # {} => Max(Hits(l, from, to)) \in Id
  BY <1>1, Latest
<1> QED
  BY <1>2, RestateIs

LEMMA VenueBookIs ==
  ASSUME NEW n \in Id
  PROVE  /\ VenueBook[n] \in [Level -> Id \cup {NoId}]
         /\ \A l \in Level : VenueBook[n][l] = IF Hits(l, 1, n) = {} THEN NoId ELSE Max(Hits(l, 1, n))
<1>1. VenueBook[n] = Restate(Empty, 1, n)
  BY DEF VenueBook
<1>2. Empty \in [Level -> Id \cup {NoId}] /\ \A l \in Level : Empty[l] = NoId
  BY DEF Empty
<1>3. 1 \in Id
  BY BookAssumption DEF Id
<1> QED
  BY <1>1, <1>2, <1>3, RestateType, RestateIs

\* Restating what followed the venue's book at one update, and maybe some of what came
\* before, gives its book at a later one.
LEMMA Restated ==
  ASSUME NEW m \in Id, NEW U \in Id, NEW u \in Id, U <= m + 1, U <= u, m <= u
  PROVE  Restate(VenueBook[m], U, u) = VenueBook[u]
<1>1. m \in Nat /\ U \in Nat /\ u \in Nat /\ 1 <= m /\ 1 <= U /\ 1 <= u
  BY DEF Id
<1>2. ASSUME NEW l \in Level
      PROVE  (IF Hits(l, U, u) = {} THEN VenueBook[m][l] ELSE Max(Hits(l, U, u))) = VenueBook[u][l]
  <2> DEFINE new == Hits(l, U, u)
             all == Hits(l, 1, u)
             old == Hits(l, 1, m)
  <2>1. /\ new \subseteq all /\ old \subseteq all /\ all \subseteq Id
        /\ \A i \in all \ new : i < U /\ i \in old
    <3>1. all \subseteq Id
      BY <1>1, BookAssumption DEF Hits, Id
    <3> QED
      BY <1>1, <3>1 DEF Hits
  <2>2. CASE new = {}
    <3>1. old = all
      BY <2>1, <2>2
    <3> QED
      BY <2>2, <3>1, VenueBookIs
  <2>3. CASE new # {}
    <3>1. all # {} /\ new \subseteq Id
      BY <2>1, <2>3
    <3>2. Max(new) \in new /\ (\A i \in new : i <= Max(new))
      BY <2>3, <3>1, Latest
    <3>3. Max(all) \in all /\ (\A i \in all : i <= Max(all))
      BY <2>1, <3>1, Latest
    <3>4. U <= Max(new) /\ Max(new) \in Int
      BY <1>1, <3>2 DEF Hits
    <3>5. Max(all) \in new
      <4> SUFFICES ASSUME Max(all) \notin new PROVE FALSE
        OBVIOUS
      <4>1. Max(all) < U /\ Max(new) <= Max(all) /\ Max(all) \in Int
        BY <2>1, <3>2, <3>3 DEF Id
      <4> HIDE DEF new, all, old
      <4> QED
        BY <1>1, <3>4, <4>1
    <3>6. Max(all) <= Max(new) /\ Max(new) <= Max(all) /\ Max(all) \in Int
      BY <2>1, <3>2, <3>3, <3>5 DEF Id
    <3>7. Max(all) = Max(new)
      <4> HIDE DEF new, all, old
      <4> QED
        BY <3>4, <3>6
    <3> QED
      BY <2>3, <3>1, <3>7, VenueBookIs
  <2> QED
    BY <2>2, <2>3
<1>3. VenueBook[u] \in [Level -> Id \cup {NoId}]
  BY VenueBookIs
<1> QED
  BY <1>2, <1>3, RestateIs

(***************************************************************************)
(* A bridge                                                                *)
(***************************************************************************)

Begun(b, L) ==
  [book |-> [b EXCEPT !.levels = VenueBook[L], !.prev = NoId, !.gen = @ + 1],
   candidates |-> <<>>, rows |-> <<>>, broken |-> FALSE]

Joined(b, c, d, L) == IF Survives(b.venue, d, L) THEN Chain(c, d) ELSE c

\* The chains are the function their equation says they are: a smallest length for
\* which no such function existed would have a predecessor for which one does.
LEMMA ChainsAre ==
  ASSUME NEW b, NEW L, Len(b.buf) \in Nat
  PROVE  /\ Chains(b, L)[0] = Begun(b, L)
         /\ \A n \in 1 .. Len(b.buf) : Chains(b, L)[n] = Joined(b, Chains(b, L)[n - 1], b.buf[n], L)
<1> DEFINE Body(g, n) == IF n = 0 THEN Begun(b, L) ELSE Joined(b, g[n - 1], b.buf[n], L)
           Is(g, k) == g = [n \in 0 .. k |-> Body(g, n)]
           T == {k \in Nat : ~ \E g : Is(g, k)}
<1>1. T = {}
  <2> SUFFICES ASSUME T # {} PROVE FALSE
    OBVIOUS
  <2>1. PICK k \in T : \A m \in T : k <= m
    BY Smallest
  <2>2. k # 0
    <3> DEFINE g == [n \in 0 .. 0 |-> Begun(b, L)]
    <3>1. Is(g, 0)
      <4>1. \A n \in 0 .. 0 : n = 0
        OBVIOUS
      <4> QED
        BY <4>1
    <3>2. \E f : Is(f, 0)
      BY <3>1
    <3> QED
      BY <2>1, <3>2
  <2>3. PICK g : Is(g, k - 1)
    <3>1. k - 1 \in Nat /\ ~(k <= k - 1)
      BY <2>1, <2>2
    <3>2. k - 1 \notin T
      BY <2>1, <3>1
    <3> QED
      BY <3>1, <3>2
  <2> DEFINE h == [n \in 0 .. k |-> IF n = k THEN Joined(b, g[k - 1], b.buf[k], L) ELSE g[n]]
  <2>4. Is(h, k)
    <3>1. \A n \in 0 .. k - 1 : g[n] = Body(g, n)
      BY <2>3
    <3>2. k \in Nat /\ k # 0
      BY <2>1, <2>2
    <3>3. ASSUME NEW n \in 0 .. k - 1 PROVE h[n] = Body(h, n)
      <4>1. n # k /\ n \in 0 .. k /\ (n # 0 => n - 1 \in 0 .. k /\ n - 1 # k)
        BY <3>2
      <4>2. h[n] = g[n] /\ (n # 0 => h[n - 1] = g[n - 1])
        BY <4>1
      <4> QED
        BY <3>1, <4>2
    <3>4. h[k] = Body(h, k)
      <4>1. k \in 0 .. k /\ k - 1 \in 0 .. k /\ k - 1 # k
        BY <3>2
      <4>2. h[k] = Joined(b, g[k - 1], b.buf[k], L) /\ h[k - 1] = g[k - 1]
        BY <4>1
      <4> QED
        BY <3>2, <4>2
    <3>5. \A n \in 0 .. k : n \in 0 .. k - 1 \/ n = k
      BY <3>2
    <3>6. \A n \in 0 .. k : h[n] = Body(h, n)
      BY <3>3, <3>4, <3>5
    <3>7. h = [n \in 0 .. k |-> h[n]]
      OBVIOUS
    <3> HIDE DEF h, Body
    <3> QED
      BY <3>6, <3>7
  <2> QED
    BY <2>1, <2>4
<1>2. PICK g : Is(g, Len(b.buf))
  BY <1>1
<1>3. Chains(b, L) = CHOOSE f : Is(f, Len(b.buf))
  BY DEF Chains, Joined, Begun
<1>4. Is(Chains(b, L), Len(b.buf))
  BY <1>2, <1>3
<1>5. \A n \in 0 .. Len(b.buf) : Chains(b, L)[n] = Body(Chains(b, L), n)
  BY <1>4
<1> QED
  BY <1>5

\* Rows that lead to what a book holds.
Linked(b, new) ==
  /\ new # <<>> /\ b.prev # NoId /\ b.levels = VenueBook[b.prev] /\ new[Len(new)].u = b.prev
  /\ \A i \in DOMAIN new : new[i].gen = b.gen /\ new[i].levels = VenueBook[new[i].u]
  /\ \A i \in 1 .. Len(new) - 1 : Continues(new[i], new[i + 1])

\* What a chain over n diffs is: if its first candidate bridges, its rows follow
\* the venue.
ChainOK(b, L, n, c) ==
  /\ c \in [book : Book, candidates : Seq(Diff), rows : Seq(Row), broken : BOOLEAN]
  /\ c.book.gen = b.gen + 1 /\ c.book.venue = b.venue /\ Len(c.candidates) <= n
  /\ \A i \in DOMAIN c.candidates : Numbered(b.venue, c.candidates[i])
  /\ c.candidates = <<>> => c.rows = <<>> /\ ~c.broken
  /\ c.rows = <<>> => c.book.levels = VenueBook[L] /\ (c.candidates # <<>> => c.broken)
  /\ c.rows # <<>> /\ Bridges(b.venue, c.candidates[1], L) => Linked(c.book, c.rows)

LEMMA BegunOK ==
  ASSUME NEW b \in Book, NEW L \in Id PROVE ChainOK(b, L, 0, Begun(b, L))
<1>1. VenueBook[L] \in [Level -> Id \cup {NoId}]
  BY VenueBookIs
<1> DEFINE bare == [b EXCEPT !.levels = VenueBook[L], !.prev = NoId, !.gen = @ + 1]
<1>2. b.gen + 1 \in Nat /\ NoId \in Id \cup {NoId}
  BY DEF Book
<1>3. PICK g \in Nat, v \in [Level -> Id \cup {NoId}] : g = b.gen + 1 /\ v = VenueBook[L]
  BY <1>1, <1>2
<1>4. bare = [b EXCEPT !.levels = v, !.prev = NoId, !.gen = g]
  BY <1>3
<1>5. bare \in Book /\ bare.gen = b.gen + 1 /\ bare.venue = b.venue /\ bare.levels = VenueBook[L]
  BY <1>2, <1>3, <1>4 DEF Book
<1> HIDE DEF bare
<1>6. <<>> \in Seq(Diff) /\ <<>> \in Seq(Row) /\ Len(<<>>) = 0 /\ DOMAIN <<>> = {}
  OBVIOUS
<1> QED
  <2>1. Begun(b, L) = [book |-> bare, candidates |-> <<>>, rows |-> <<>>, broken |-> FALSE]
    BY DEF Begun, bare
  <2> QED
    BY <1>5, <1>6, <2>1 DEF ChainOK

\* A diff that the book advances over.
LEMMA AdvanceOK ==
  ASSUME NEW b \in Book, NEW d \in Diff
  PROVE  /\ Advance(b, d) \in Book /\ RowOf(Advance(b, d), d) \in Row
         /\ Advance(b, d).gen = b.gen /\ Advance(b, d).venue = b.venue
<1>1. Restate(b.levels, d.U, d.u) \in [Level -> Id \cup {NoId}]
  BY RestateType DEF Book, Diff
<1>2. Advance(b, d) \in Book
  BY <1>1 DEF Advance, Book, Diff
<1>3. Advance(b, d).gen = b.gen /\ Advance(b, d).venue = b.venue
  <2>1. b = [venue |-> b.venue, state |-> b.state, prev |-> b.prev, levels |-> b.levels, buf |-> b.buf,
             over |-> b.over, pend |-> b.pend, gen |-> b.gen]
    BY DEF Book
  <2> QED
    BY <2>1 DEF Advance
<1>4. /\ Advance(b, d).levels \in [Level -> Id \cup {NoId}] /\ b.gen \in Nat
      /\ d.U \in Id /\ d.u \in Id /\ d.pu \in Id \cup {NoId}
  BY <1>2 DEF Book, Diff
<1> QED
  BY <1>2, <1>3, <1>4 DEF RowOf, Row

\* A diff in sequence restates the venue's next updates.
LEMMA NextFaithful ==
  ASSUME NEW b \in Book, NEW d \in Diff, Numbered(b.venue, d), b.prev # NoId,
         b.levels = VenueBook[b.prev], Check(b.venue, b.prev, d) = "next"
  PROVE  /\ Advance(b, d).levels = VenueBook[d.u] /\ Advance(b, d).prev = d.u /\ d.u # NoId
         /\ \A row : row.u = b.prev => Continues(row, RowOf(Advance(b, d), d))
<1>1. b.prev \in Id /\ d.U \in Id /\ d.u \in Id /\ d.U <= d.u
  BY DEF Book, Diff, Numbered
<1>2. IF b.venue = "BINANCE" THEN d.pu = b.prev ELSE d.U = b.prev + 1
  BY DEF Check
<1>3. d.U = b.prev + 1
  BY <1>1, <1>2 DEF Numbered, Id
<1>4. d.U <= b.prev + 1 /\ b.prev <= d.u
  BY <1>1, <1>3 DEF Id
<1>5. Restate(VenueBook[b.prev], d.U, d.u) = VenueBook[d.u]
  BY <1>1, <1>4, Restated
<1>6. Advance(b, d).levels = VenueBook[d.u] /\ Advance(b, d).prev = d.u /\ d.u # NoId
  <2>1. d.u # NoId
    BY <1>1 DEF Id, NoId
  <2>2. /\ Advance(b, d) = [b EXCEPT !.levels = VenueBook[d.u], !.prev = d.u]
        /\ b = [venue |-> b.venue, state |-> b.state, prev |-> b.prev, levels |-> b.levels, buf |-> b.buf,
                over |-> b.over, pend |-> b.pend, gen |-> b.gen]
    BY <1>5 DEF Advance, Book
  <2> QED
    BY <2>1, <2>2
<1>7. ASSUME NEW row, row.u = b.prev PROVE Continues(row, RowOf(Advance(b, d), d))
  BY <1>2, <1>3, <1>7 DEF Numbered, Continues, RowOf
<1> QED
  BY <1>6, <1>7

\* The same of the diff that bridges a snapshot.
LEMMA BridgeFaithful ==
  ASSUME NEW b \in Book, NEW d \in Diff, Numbered(b.venue, d), NEW L \in Id,
         b.levels = VenueBook[L], Bridges(b.venue, d, L)
  PROVE  Advance(b, d).levels = VenueBook[d.u] /\ Advance(b, d).prev = d.u /\ d.u # NoId
<1>1. d.U \in Id /\ d.u \in Id /\ d.U <= d.u
  BY DEF Diff, Numbered
<1>2. d.U <= L + 1 /\ L <= d.u
  BY <1>1 DEF Bridges, Id
<1>3. Restate(VenueBook[L], d.U, d.u) = VenueBook[d.u]
  BY <1>1, <1>2, Restated
<1>4. d.u # NoId
  BY <1>1 DEF Id, NoId
<1>5. /\ Advance(b, d) = [b EXCEPT !.levels = VenueBook[d.u], !.prev = d.u]
      /\ b = [venue |-> b.venue, state |-> b.state, prev |-> b.prev, levels |-> b.levels, buf |-> b.buf,
              over |-> b.over, pend |-> b.pend, gen |-> b.gen]
  BY <1>3 DEF Advance, Book
<1> QED
  BY <1>4, <1>5

\* Rows with one more at the end.
LEMMA LinkedMore ==
  ASSUME NEW b \in Book, NEW d \in Diff, NEW new \in Seq(Row),
         LET a == Advance(b, d)
         IN  /\ a.levels = VenueBook[d.u] /\ a.prev = d.u /\ d.u # NoId
             /\ new # <<>> => Linked(b, new) /\ Continues(new[Len(new)], RowOf(a, d))
  PROVE  Linked(Advance(b, d), Append(new, RowOf(Advance(b, d), d)))
<1> DEFINE a == Advance(b, d)
           row == RowOf(a, d)
           more == Append(new, row)
<1>1. /\ a \in Book /\ row \in Row /\ a.gen = b.gen /\ a.venue = b.venue
      /\ row.u = d.u /\ row.gen = a.gen /\ row.levels = a.levels
  BY AdvanceOK DEF RowOf
<1>2. a.levels = VenueBook[d.u] /\ a.prev = d.u /\ d.u # NoId
  OBVIOUS
<1>3. new # <<>> => Linked(b, new) /\ Continues(new[Len(new)], row)
  OBVIOUS
<1> HIDE DEF a, row
<1>4. /\ more \in Seq(Row) /\ more # <<>> /\ Len(more) = Len(new) + 1 /\ more[Len(more)] = row
      /\ \A i \in 1 .. Len(new) : more[i] = new[i]
  <2>1. /\ more \in Seq(Row) /\ Len(more) = Len(new) + 1 /\ more[Len(new) + 1] = row
        /\ \A i \in 1 .. Len(new) : more[i] = new[i]
    BY <1>1
  <2> QED
    BY <2>1
<1>5. \A i \in DOMAIN more : i = Len(more) \/ (i \in DOMAIN new /\ new # <<>>)
  BY <1>4
<1>6. ASSUME NEW i \in DOMAIN more PROVE more[i].gen = a.gen /\ more[i].levels = VenueBook[more[i].u]
  <2>1. CASE i = Len(more)
    BY <1>1, <1>2, <1>4, <2>1
  <2>2. CASE i \in DOMAIN new /\ new # <<>>
    BY <1>1, <1>3, <1>4, <2>2 DEF Linked
  <2> QED
    BY <1>5, <2>1, <2>2
<1>7. ASSUME NEW i \in 1 .. Len(more) - 1 PROVE Continues(more[i], more[i + 1])
  <2>1. i \in 1 .. Len(new) /\ new # <<>> /\ more[i] = new[i]
    BY <1>4
  <2>2. CASE i = Len(new)
    BY <1>3, <1>4, <2>1, <2>2
  <2>3. CASE i # Len(new)
    <3>1. i \in 1 .. Len(new) - 1 /\ more[i + 1] = new[i + 1]
      BY <1>4, <2>1, <2>3
    <3> QED
      BY <1>3, <2>1, <3>1 DEF Linked
  <2> QED
    BY <2>2, <2>3
<1>8. Linked(a, more)
  BY <1>1, <1>2, <1>4, <1>6, <1>7 DEF Linked
<1> QED
  BY <1>8 DEF a, row

LEMMA CheckIs == \A v, prev, d : Check(v, prev, d) \in {"next", "gap", "stale"}
BY DEF Check

LEMMA JoinedOK ==
  ASSUME NEW b \in Book, NEW L \in Id, NEW n \in Nat, NEW c, ChainOK(b, L, n, c),
         NEW d \in Diff, Numbered(b.venue, d)
  PROVE  ChainOK(b, L, n + 1, Joined(b, c, d, L))
<1> DEFINE e == Append(c.candidates, d)
           seen == [c EXCEPT !.candidates = e]
           verdict == IF c.rows = <<>> THEN "next" ELSE Check(b.venue, c.book.prev, d)
           a == Advance(c.book, d)
           row == RowOf(a, d)
           joins == [seen EXCEPT !.book = a, !.rows = Append(c.rows, row)]
<1>1. /\ c.book \in Book /\ c.candidates \in Seq(Diff) /\ c.rows \in Seq(Row) /\ c.broken \in BOOLEAN
      /\ c = [book |-> c.book, candidates |-> c.candidates, rows |-> c.rows, broken |-> c.broken]
      /\ c.book.gen = b.gen + 1 /\ c.book.venue = b.venue /\ Len(c.candidates) <= n
      /\ \A i \in DOMAIN c.candidates : Numbered(b.venue, c.candidates[i])
      /\ c.candidates = <<>> => c.rows = <<>> /\ ~c.broken
      /\ c.rows = <<>> => c.book.levels = VenueBook[L] /\ (c.candidates # <<>> => c.broken)
      /\ c.rows # <<>> /\ Bridges(b.venue, c.candidates[1], L) => Linked(c.book, c.rows)
  BY DEF ChainOK
<1>2. CASE ~Survives(b.venue, d, L)
  BY <1>2 DEF Joined, ChainOK
<1>3. /\ e \in Seq(Diff) /\ e # <<>> /\ Len(e) <= n + 1
      /\ \A i \in DOMAIN e : Numbered(b.venue, e[i])
      /\ c.candidates # <<>> => e[1] = c.candidates[1]
      /\ c.candidates = <<>> => e[1] = d
  <2>1. /\ e \in Seq(Diff) /\ Len(e) = Len(c.candidates) + 1 /\ e[Len(e)] = d
        /\ \A i \in 1 .. Len(c.candidates) : e[i] = c.candidates[i]
    BY <1>1
  <2>2. \A i \in DOMAIN e : i = Len(e) \/ i \in 1 .. Len(c.candidates)
    BY <1>1, <2>1
  <2>3. \A i \in DOMAIN e : Numbered(b.venue, e[i])
    BY <1>1, <2>1, <2>2
  <2> HIDE DEF e
  <2> QED
    BY <1>1, <2>1, <2>3
<1>4. a \in Book /\ row \in Row /\ a.gen = c.book.gen /\ a.venue = b.venue
  BY <1>1, AdvanceOK
<1>5. ASSUME NEW r \in BOOLEAN, r \/ c.rows # <<>>
      PROVE  ChainOK(b, L, n + 1, [book |-> c.book, candidates |-> e, rows |-> c.rows, broken |-> r])
  <2> HIDE DEF e
  <2> QED
    BY <1>1, <1>3, <1>5 DEF ChainOK
<1>6. CASE Survives(b.venue, d, L) /\ (c.broken \/ verdict = "stale")
  <2>1. Joined(b, c, d, L) = [book |-> c.book, candidates |-> e, rows |-> c.rows, broken |-> c.broken]
    BY <1>1, <1>6 DEF Joined, Chain
  <2> QED
    BY <1>1, <1>5, <1>6, <2>1
<1>7. CASE /\ Survives(b.venue, d, L) /\ ~(c.broken \/ verdict = "stale")
           /\ verdict = "gap" \/ d.form = "bad_levels"
  <2>1. Joined(b, c, d, L) = [book |-> c.book, candidates |-> e, rows |-> c.rows, broken |-> TRUE]
    BY <1>1, <1>7 DEF Joined, Chain
  <2> QED
    BY <1>5, <2>1
<1>8. CASE /\ Survives(b.venue, d, L) /\ ~c.broken /\ verdict # "stale"
           /\ verdict # "gap" /\ d.form # "bad_levels"
  <2>1. Joined(b, c, d, L) = [book |-> a, candidates |-> e, rows |-> Append(c.rows, row), broken |-> FALSE]
    BY <1>1, <1>8 DEF Joined, Chain
  <2>2. verdict = "next"
    BY <1>8, CheckIs
  <2>3. ASSUME Bridges(b.venue, e[1], L) PROVE Linked(a, Append(c.rows, row))
    <3>1. /\ a.levels = VenueBook[d.u] /\ a.prev = d.u /\ d.u # NoId
          /\ c.rows # <<>> => Linked(c.book, c.rows) /\ Continues(c.rows[Len(c.rows)], row)
      <4>1. CASE c.rows = <<>>
        <5>1. c.candidates = <<>> /\ e[1] = d
          BY <1>1, <1>3, <1>8, <4>1
        <5>2. Bridges(b.venue, d, L) /\ c.book.levels = VenueBook[L]
          BY <1>1, <2>3, <4>1, <5>1
        <5> QED
          BY <1>1, <4>1, <5>2, BridgeFaithful
      <4>2. CASE c.rows # <<>>
        <5>1. Linked(c.book, c.rows)
          BY <1>1, <1>3, <2>3, <4>2
        <5>2. Check(b.venue, c.book.prev, d) = "next"
          BY <2>2, <4>2
        <5> QED
          BY <1>1, <5>1, <5>2, NextFaithful DEF Linked
      <4> QED
        BY <4>1, <4>2
    <3> QED
      BY <1>1, <3>1, LinkedMore
  <2>4. Append(c.rows, row) \in Seq(Row) /\ Append(c.rows, row) # <<>>
    BY <1>1, <1>4
  <2> HIDE DEF e, a, row
  <2> QED
    BY <1>1, <1>3, <1>4, <2>1, <2>3, <2>4 DEF ChainOK
<1> QED
  BY <1>2, <1>6, <1>7, <1>8

\* Every chain of a bridge is sound: the smallest one that is not would follow one
\* that is.
LEMMA ChainsOK ==
  ASSUME NEW b \in Book, NEW L \in Id, \A i \in DOMAIN b.buf : Numbered(b.venue, b.buf[i])
  PROVE  /\ ChainOK(b, L, Len(b.buf), Chains(b, L)[Len(b.buf)])
         /\ \A n \in 0 .. Len(b.buf) : ChainOK(b, L, n, Chains(b, L)[n])
<1> DEFINE c(n) == Chains(b, L)[n]
           T == {n \in 0 .. Len(b.buf) : ~ChainOK(b, L, n, c(n))}
<1>1. b.buf \in Seq(Diff) /\ Len(b.buf) \in Nat
  BY DEF Book
<1>2. T = {}
  <2> SUFFICES ASSUME T # {} PROVE FALSE
    OBVIOUS
  <2>1. PICK n \in T : \A m \in T : n <= m
    <3>1. T \subseteq Nat
      BY <1>1
    <3> QED
      BY <3>1, Smallest
  <2>2. n # 0
    BY <1>1, <2>1, BegunOK, ChainsAre
  <2>3. n - 1 \in Nat /\ n - 1 \in 0 .. Len(b.buf) /\ n \in 1 .. Len(b.buf) /\ ~(n <= n - 1)
    BY <1>1, <2>1, <2>2
  <2>4. ChainOK(b, L, n - 1, c(n - 1))
    BY <2>1, <2>3
  <2>5. c(n) = Joined(b, c(n - 1), b.buf[n], L) /\ b.buf[n] \in Diff /\ Numbered(b.venue, b.buf[n])
    BY <1>1, <2>3, ChainsAre
  <2>6. ChainOK(b, L, n - 1 + 1, c(n)) /\ n - 1 + 1 = n
    <3> HIDE DEF c
    <3> QED
      BY <2>3, <2>4, <2>5, JoinedOK
  <2> QED
    BY <2>1, <2>6
<1> QED
  BY <1>1, <1>2

(***************************************************************************)
(* The methods of the book                                                 *)
(***************************************************************************)

LEMMA BookIs ==
  ASSUME NEW b \in Book
  PROVE  /\ b = [venue |-> b.venue, state |-> b.state, prev |-> b.prev, levels |-> b.levels, buf |-> b.buf,
                 over |-> b.over, pend |-> b.pend, gen |-> b.gen]
         /\ b.venue \in Venues /\ b.state \in States /\ b.prev \in Id \cup {NoId} /\ b.levels \in [Level -> Id \cup {NoId}]
         /\ b.buf \in Seq(Diff) /\ b.over \in BOOLEAN /\ b.pend \in Snap \cup {NoSnap}
         /\ b.gen \in Nat
BY DEF Book

\* What a method makes of a book: a sound one, and rows that lead to it from what the
\* book held, or from a snapshot, which begins a generation.
Outcome(b, res) ==
  /\ Trusted(res.book) /\ res.book.venue = b.venue /\ res.rows \in Seq(Row)
  /\ res.rows = <<>> =>
       /\ res.book.gen = b.gen
       /\ res.book.state = "VALID" => b.state = "VALID" /\ res.book.prev = b.prev
  /\ res.rows # <<>> =>
       /\ Linked(res.book, res.rows)
       /\ \/ res.book.gen > b.gen
          \/ /\ res.book.gen = b.gen /\ b.state = "VALID"
             /\ \A row : row.u = b.prev => Continues(row, res.rows[1])

\* Most of what a method does costs trust or leaves it lost.
LEMMA Distrust ==
  ASSUME NEW b, Trusted(b), NEW res, NEW c \in Book, res.book = c, res.rows = <<>>,
         c.state # "VALID", c.gen = b.gen, c.venue = b.venue, Len(c.buf) <= MaxBuffer,
         \A i \in DOMAIN c.buf : Numbered(c.venue, c.buf[i])
  PROVE  Outcome(b, res)
BY DEF Outcome, Trusted, BookOK

LEMMA GapOK ==
  ASSUME NEW b, Trusted(b)
  PROVE  /\ Trusted(Gap(b)) /\ Gap(b).state # "VALID" /\ Gap(b).gen = b.gen /\ Gap(b).venue = b.venue
         /\ Trusted(Resync(b)) /\ Resync(b).state # "VALID" /\ Resync(b).gen = b.gen /\ Resync(b).venue = b.venue
<1>1. b \in Book
  BY DEF Trusted, BookOK
<1>2. /\ Gap(b) = [venue |-> b.venue, state |-> "SEQUENCE_GAP", prev |-> b.prev, levels |-> b.levels, buf |-> b.buf,
                   over |-> b.over, pend |-> b.pend, gen |-> b.gen]
      /\ Resync(b) = [venue |-> b.venue, state |-> "RECOVERING", prev |-> b.prev, levels |-> b.levels, buf |-> b.buf,
                   over |-> b.over, pend |-> b.pend, gen |-> b.gen]
  BY <1>1, BookIs DEF Gap, Resync
<1>3. Gap(b) \in Book /\ Resync(b) \in Book
  BY <1>1, <1>2, BookIs DEF Book, States
<1> QED
  BY <1>2, <1>3 DEF Trusted, BookOK

LEMMA BufferOK ==
  ASSUME NEW b, Trusted(b), b.state # "VALID", NEW d \in Diff, Numbered(b.venue, d)
  PROVE  /\ Trusted(Buffer(b, d)) /\ Buffer(b, d).state # "VALID" /\ Buffer(b, d).gen = b.gen /\ Buffer(b, d).venue = b.venue
<1>1. b \in Book /\ Len(b.buf) <= MaxBuffer /\ \A i \in DOMAIN b.buf : Numbered(b.venue, b.buf[i])
  BY DEF Trusted, BookOK
<1>2. CASE Len(b.buf) < MaxBuffer
  <2> DEFINE e == Append(b.buf, d)
             c == [venue |-> b.venue, state |-> b.state, prev |-> b.prev, levels |-> b.levels, buf |-> e,
                   over |-> b.over, pend |-> b.pend, gen |-> b.gen]
  <2>1. Buffer(b, d) = c
    <3>1. Buffer(b, d) = [b EXCEPT !.buf = e]
      BY <1>2 DEF Buffer
    <3> HIDE DEF e
    <3> QED
      BY <1>1, <3>1, BookIs
  <2>2. /\ e \in Seq(Diff) /\ Len(e) = Len(b.buf) + 1 /\ e[Len(b.buf) + 1] = d
        /\ \A i \in 1 .. Len(b.buf) : e[i] = b.buf[i]
    BY <1>1, BookIs
  <2>3. Len(b.buf) \in Nat /\ b.buf \in Seq(Diff)
    BY <1>1, BookIs
  <2>4. Len(e) <= MaxBuffer
    BY <1>2, <2>2, <2>3, BookAssumption
  <2> HIDE DEF e
  <2>5. \A i \in DOMAIN e : i = Len(b.buf) + 1 \/ i \in DOMAIN b.buf
    BY <2>2, <2>3
  <2>6. \A i \in DOMAIN e : Numbered(b.venue, e[i])
    BY <1>1, <2>2, <2>3, <2>5
  <2>7. c \in Book
    BY <1>1, <2>2, BookIs DEF Book
  <2> QED
    BY <2>1, <2>4, <2>6, <2>7 DEF Trusted, BookOK
<1>3. CASE ~(Len(b.buf) < MaxBuffer) /\ b.over
  BY <1>3 DEF Buffer
<1>4. CASE ~(Len(b.buf) < MaxBuffer) /\ ~b.over
  <2> DEFINE c == [venue |-> b.venue, state |-> "SEQUENCE_GAP", prev |-> b.prev, levels |-> b.levels, buf |-> <<>>,
                   over |-> TRUE, pend |-> b.pend, gen |-> b.gen]
  <2>1. Buffer(b, d) = c
    <3>1. Buffer(b, d) = [Gap(b) EXCEPT !.buf = <<>>, !.over = TRUE]
      BY <1>4 DEF Buffer
    <3>2. Gap(b) \in Book /\ Gap(b) = [b EXCEPT !.state = "SEQUENCE_GAP"]
      BY GapOK DEF Gap, Trusted, BookOK
    <3>3. PICK g \in Book : g = Gap(b)
      BY <3>2
    <3>4. Buffer(b, d) = [g EXCEPT !.buf = <<>>, !.over = TRUE]
      BY <3>1, <3>3
    <3>5. /\ g.venue = b.venue /\ g.state = "SEQUENCE_GAP" /\ g.prev = b.prev /\ g.levels = b.levels
          /\ g.pend = b.pend /\ g.gen = b.gen
      BY <1>1, <3>2, <3>3, BookIs
    <3> QED
      BY <3>4, <3>5, BookIs
  <2>2. c \in Book
    BY <1>1, BookIs DEF Book, States
  <2> QED
    BY <2>1, <2>2, BookAssumption DEF Trusted, BookOK
<1> QED
  BY <1>2, <1>3, <1>4

LEMMA InvalidateOK ==
  ASSUME NEW b, Trusted(b)
  PROVE  Trusted(Invalidate(b)) /\ Invalidate(b).state # "VALID" /\ Invalidate(b).gen = b.gen /\ Invalidate(b).venue = b.venue
<1> DEFINE c == [venue |-> b.venue, state |-> "RECOVERING", prev |-> NoId, levels |-> b.levels, buf |-> <<>>,
                 over |-> FALSE, pend |-> NoSnap, gen |-> b.gen]
<1>1. b \in Book
  BY DEF Trusted, BookOK
<1>2. Invalidate(b) = c
  <2>1. PICK g \in Book : g = Resync(b)
    BY GapOK DEF Trusted, BookOK
  <2>2. Invalidate(b) = [g EXCEPT !.prev = NoId, !.buf = <<>>, !.over = FALSE, !.pend = NoSnap]
    BY <2>1 DEF Invalidate
  <2>3. g.venue = b.venue /\ g.state = "RECOVERING" /\ g.levels = b.levels /\ g.gen = b.gen
    BY <1>1, <2>1, BookIs DEF Resync
  <2> QED
    BY <2>2, <2>3, BookIs
<1>3. c \in Book
  BY <1>1, BookIs DEF Book, States
<1> QED
  BY <1>2, <1>3, BookAssumption DEF Trusted, BookOK

LEMMA ApplyOK ==
  ASSUME NEW b, Trusted(b), NEW d \in Diff, Numbered(b.venue, d)
  PROVE  Outcome(b, Apply(b, d))
<1> DEFINE verdict == Check(b.venue, b.prev, d)
           a == Advance(b, d)
           row == RowOf(a, d)
<1>1. b \in Book
  BY DEF Trusted, BookOK
<1>2. CASE b.state # "VALID" \/ b.prev = NoId
  <2>1. Apply(b, d) = [book |-> Buffer(b, d), rows |-> <<>>] /\ b.state # "VALID"
    BY <1>2 DEF Apply, Trusted
  <2> QED
    BY <2>1, BufferOK DEF Outcome
<1>3. CASE b.state = "VALID" /\ b.prev # NoId /\ verdict = "gap"
  <2>1. Apply(b, d) = [book |-> Buffer(Gap(b), d), rows |-> <<>>]
    BY <1>3 DEF Apply
  <2> QED
    BY <2>1, GapOK, BufferOK DEF Outcome
<1>4. CASE b.state = "VALID" /\ b.prev # NoId /\ verdict = "stale"
  <2>1. Apply(b, d) = [book |-> b, rows |-> <<>>]
    BY <1>4 DEF Apply
  <2> QED
    BY <1>4, <2>1 DEF Outcome
<1>5. CASE b.state = "VALID" /\ b.prev # NoId /\ verdict = "next" /\ d.form = "bad_levels"
  <2>1. Apply(b, d) = [book |-> Gap(b), rows |-> <<>>]
    BY <1>5 DEF Apply
  <2> QED
    BY <2>1, GapOK DEF Outcome
<1>6. CASE b.state = "VALID" /\ b.prev # NoId /\ verdict = "next" /\ d.form # "bad_levels"
  <2>1. Apply(b, d) = [book |-> a, rows |-> <<row>>]
    BY <1>6 DEF Apply
  <2>2. /\ a \in Book /\ row \in Row /\ a.gen = b.gen /\ a.venue = b.venue
        /\ a.levels = VenueBook[d.u] /\ a.prev = d.u /\ d.u # NoId
        /\ \A r : r.u = b.prev => Continues(r, row)
    BY <1>1, <1>6, AdvanceOK, NextFaithful DEF Trusted
  <2>3. a.state = "VALID" /\ a.buf = b.buf
    BY <1>1, <1>6, BookIs DEF Advance
  <2>4. Trusted(a)
    <3>1. a.gen > 0 /\ Len(a.buf) <= MaxBuffer /\ \A i \in DOMAIN a.buf : Numbered(a.venue, a.buf[i])
      BY <1>6, <2>2, <2>3 DEF Trusted, BookOK
    <3> HIDE DEF a
    <3> QED
      BY <2>2, <3>1 DEF Trusted, BookOK
  <2>5. row.u = d.u /\ row.gen = a.gen /\ row.levels = a.levels
    BY DEF RowOf
  <2> HIDE DEF a, row
  <2>6. Linked(a, <<row>>)
    <3>1. <<row>> # <<>> /\ Len(<<row>>) = 1 /\ <<row>>[1] = row /\ DOMAIN <<row>> = {1}
      OBVIOUS
    <3>2. 1 .. Len(<<row>>) - 1 = {}
      BY <3>1
    <3> QED
      BY <2>2, <2>5, <3>1, <3>2 DEF Linked
  <2> QED
    BY <1>6, <2>1, <2>2, <2>4, <2>6 DEF Outcome
<1> QED
  BY <1>2, <1>3, <1>4, <1>5, <1>6, CheckIs

LEMMA AttemptOK ==
  ASSUME NEW b, Trusted(b), NEW snap \in Snap
  PROVE  Outcome(b, Attempt(b, snap))
<1> DEFINE L == snap.id
           chain == Chains(b, L)[Len(b.buf)]
           res == Attempt(b, snap)
<1> SUFFICES Outcome(b, res)
  OBVIOUS
<1>1. /\ b \in Book /\ Len(b.buf) <= MaxBuffer /\ Len(b.buf) \in Nat /\ L \in Id
      /\ \A i \in DOMAIN b.buf : Numbered(b.venue, b.buf[i])
  BY BookIs DEF Trusted, BookOK, Snap
<1>2. ChainOK(b, L, Len(b.buf), chain)
  BY <1>1, ChainsOK
<1>3. /\ chain.book \in Book /\ chain.candidates \in Seq(Diff) /\ chain.rows \in Seq(Row)
      /\ Len(chain.candidates) <= MaxBuffer /\ chain.book.gen = b.gen + 1 /\ chain.book.venue = b.venue
      /\ \A i \in DOMAIN chain.candidates : Numbered(b.venue, chain.candidates[i])
  BY <1>1, <1>2, BookAssumption DEF ChainOK
<1>4. \/ res.book = b /\ res.rows = <<>>
      \/ res.book = [Resync(b) EXCEPT !.pend = snap] /\ res.rows = <<>>
      \/ res.book = [Resync(b) EXCEPT !.pend = NoSnap] /\ res.rows = <<>>
      \/ res.book = Gap(b) /\ res.rows = <<>>
      \/ res.book = [Gap(b) EXCEPT !.buf = chain.candidates, !.pend = NoSnap] /\ res.rows = <<>>
      \/ /\ res.book = [chain.book EXCEPT !.state = "VALID", !.buf = <<>>, !.over = FALSE,
                                          !.pend = NoSnap]
         /\ res.rows = chain.rows /\ chain.candidates # <<>> /\ ~chain.broken
         /\ Bridges(b.venue, chain.candidates[1], L)
  <2> HIDE DEF chain
  <2> QED
    BY DEF Attempt, chain
<1> HIDE DEF chain, res
<1>5. CASE res.book = b /\ res.rows = <<>>
  BY <1>5 DEF Outcome
<1>6. ASSUME NEW s \in Snap \cup {NoSnap}, res.book = [Resync(b) EXCEPT !.pend = s], res.rows = <<>>
      PROVE  Outcome(b, res)
  <2> DEFINE c == [venue |-> b.venue, state |-> "RECOVERING", prev |-> b.prev, levels |-> b.levels, buf |-> b.buf,
                   over |-> b.over, pend |-> s, gen |-> b.gen]
  <2>1. res.book = c
    BY <1>1, <1>6, BookIs DEF Resync
  <2>2. c \in Book
    BY <1>1, BookIs DEF Book, States
  <2> QED
    BY <1>1, <1>6, <2>1, <2>2, Distrust
<1>7. CASE res.book = Gap(b) /\ res.rows = <<>>
  BY <1>7, GapOK DEF Outcome
<1>8. CASE res.book = [Gap(b) EXCEPT !.buf = chain.candidates, !.pend = NoSnap] /\ res.rows = <<>>
  <2> DEFINE c == [venue |-> b.venue, state |-> "SEQUENCE_GAP", prev |-> b.prev, levels |-> b.levels,
                   buf |-> chain.candidates, over |-> b.over, pend |-> NoSnap, gen |-> b.gen]
  <2>1. res.book = c
    BY <1>1, <1>8, BookIs DEF Gap
  <2>2. c \in Book
    BY <1>1, <1>3, BookIs DEF Book, States
  <2> QED
    BY <1>3, <1>8, <2>1, <2>2, Distrust
<1>9. CASE /\ res.book = [chain.book EXCEPT !.state = "VALID", !.buf = <<>>, !.over = FALSE,
                                            !.pend = NoSnap]
           /\ res.rows = chain.rows /\ chain.candidates # <<>> /\ ~chain.broken
           /\ Bridges(b.venue, chain.candidates[1], L)
  <2> DEFINE k == chain.book
             c == [venue |-> k.venue, state |-> "VALID", prev |-> k.prev, levels |-> k.levels, buf |-> <<>>,
                   over |-> FALSE, pend |-> NoSnap, gen |-> k.gen]
  <2>1. res.book = c
    BY <1>3, <1>9, BookIs
  <2>2. c \in Book
    BY <1>3, BookIs DEF Book, States
  <2>3. chain.rows # <<>> /\ Linked(k, chain.rows)
    BY <1>2, <1>9 DEF ChainOK
  <2>4. Linked(c, chain.rows) /\ c.levels = VenueBook[c.prev] /\ c.prev # NoId
    BY <2>3 DEF Linked
  <2>5. b.gen \in Nat /\ c.gen = b.gen + 1
    BY <1>1, <1>3, BookIs
  <2>6. Trusted(c)
    BY <2>2, <2>4, <2>5, BookAssumption DEF Trusted, BookOK
  <2> QED
    BY <1>3, <1>9, <2>1, <2>3, <2>4, <2>5, <2>6 DEF Outcome
<1> QED
  BY <1>4, <1>5, <1>6, <1>7, <1>8, <1>9

\* A book that a method made a row of is VALID.
LEMMA BridgedIsValid ==
  ASSUME NEW b, Trusted(b), Retry(b).why = "bridged"
  PROVE  Retry(b).book.state = "VALID"
<1> DEFINE snap == b.pend
           chain == Chains(b, snap.id)[Len(b.buf)]
<1>1. b \in Book /\ snap \in Snap /\ snap.id \in Id /\ \A i \in DOMAIN b.buf : Numbered(b.venue, b.buf[i])
  BY BookIs DEF Retry, Trusted, BookOK, Snap
<1>2. chain.book \in Book
  BY <1>1, ChainsOK DEF ChainOK
<1>3. Retry(b).book = [chain.book EXCEPT !.state = "VALID", !.buf = <<>>, !.over = FALSE,
                                         !.pend = NoSnap]
  BY DEF Retry, Attempt
<1> HIDE DEF chain
<1> QED
  BY <1>2, <1>3, BookIs

LEMMA AppliedIsValid ==
  ASSUME NEW b, Trusted(b), NEW d
  PROVE  Apply(b, d).rows # <<>> => Apply(b, d).book.state = "VALID"
<1>1. SUFFICES ASSUME Apply(b, d).rows # <<>> PROVE Apply(b, d).book.state = "VALID"
  OBVIOUS
<1>2. b.state = "VALID" /\ Apply(b, d).book = Advance(b, d)
  BY <1>1 DEF Apply
<1>3. b \in Book
  BY DEF Trusted, BookOK
<1> QED
  BY <1>2, <1>3, BookIs DEF Advance

LEMMA RetryOK == ASSUME NEW b, Trusted(b) PROVE Outcome(b, Retry(b))
<1>1. CASE b.pend = NoSnap
  BY <1>1 DEF Retry, Outcome
<1>2. CASE b.pend # NoSnap
  <2>1. b.pend \in Snap
    BY <1>2, BookIs DEF Trusted, BookOK
  <2> QED
    BY <1>2, <2>1, AttemptOK DEF Retry
<1> QED
  BY <1>1, <1>2

\* A method that makes no row, and then another.
LEMMA ThenOK ==
  ASSUME NEW b, Trusted(b), NEW one, Outcome(b, one), one.rows = <<>>, NEW two, Outcome(one.book, two)
  PROVE  Outcome(b, two)
BY DEF Outcome

(***************************************************************************)
(* The inductive invariant                                                 *)
(***************************************************************************)

\* The book and what it wrote, part of FeedKept and FeedSound.
BookInv(v) ==
  /\ book.venue = v
  /\ rows \in Seq(Row) /\ lastRow \in Row \cup {NoRow}
  /\ Trusted(book) /\ Tip.gen <= book.gen
  /\ book.state = "VALID" /\ ~isolated /\ Tip.gen = book.gen => Tip.u = book.prev
  /\ FeedSound

\* The venue, and when a snapshot in flight was asked for.
VenueInv(v) ==
  /\ head \in Id /\ sent \in Id /\ lastDiff \in Diff \cup {NoDiff}
  /\ lastDiff # NoDiff => Numbered(v, lastDiff)

TaskInv(t) == t.st = "rest" => t.from \in Id

Inv == BookInv("BINANCE") /\ VenueInv("BINANCE") /\ TaskInv(task) /\ TaskInv(startup)

LEMMA TipIs ==
  ASSUME rows \in Seq(Row), lastRow \in Row \cup {NoRow}
  PROVE  /\ Tip \in Row \cup {NoRow} /\ Tip.gen \in Nat
         /\ rows # <<>> => Tip = rows[Len(rows)] /\ Len(rows) \in DOMAIN rows
         /\ rows = <<>> => Tip = lastRow
<1>1. \A r \in Row \cup {NoRow} : r.gen \in Nat
  BY DEF Row, NoRow
<1>2. rows # <<>> => rows[Len(rows)] \in Row /\ Len(rows) \in DOMAIN rows
  OBVIOUS
<1> QED
  BY <1>1, <1>2 DEF Tip, Last

\* A step that persists no row.
LEMMA Quiet ==
  ASSUME NEW v, BookInv(v), Persist(<<>>), NEW res, Outcome(book, res), book' = res.book,
         isolated' \/ (res.rows = <<>> /\ isolated' = isolated)
  PROVE  BookInv(v)'
<1>1. rows' = <<>> /\ lastRow' = Tip
  BY DEF Persist
<1>2. Tip \in Row \cup {NoRow} /\ Tip.gen \in Nat
  BY TipIs DEF BookInv
<1>3. rows' \in Seq(Row) /\ lastRow' \in Row \cup {NoRow}
  BY <1>1, <1>2
<1>4. Tip' = Tip
  BY <1>1 DEF Tip
<1>5. /\ Trusted(book)' /\ book'.venue = v
      /\ book'.gen \in Nat /\ book.gen \in Nat /\ book'.gen >= book.gen
  <2>1. Trusted(res.book)
    BY DEF Outcome
  <2> QED
    BY <2>1, BookIs DEF Outcome, BookInv, Trusted, BookOK
<1>6. Tip'.gen <= book'.gen
  BY <1>2, <1>4, <1>5 DEF BookInv
<1>7. book'.state = "VALID" /\ ~isolated' /\ Tip'.gen = book'.gen => Tip'.u = book'.prev
  BY <1>4 DEF BookInv, Outcome
<1>8. FeedSound'
  BY <1>1, <1>5 DEF FeedSound, BookFaithful, RowsChained, Trusted
<1> QED
  BY <1>3, <1>5, <1>6, <1>7, <1>8 DEF BookInv

\* A step that persists the rows of a method.
LEMMA Written ==
  ASSUME NEW v, BookInv(v), NEW res, Outcome(book, res), book' = res.book, res.rows # <<>>,
         Persist(res.rows), ~isolated, isolated' = isolated
  PROVE  BookInv(v)'
<1>1. rows' = res.rows /\ lastRow' = Tip /\ rows' # <<>>
  BY DEF Persist
<1>2. Tip \in Row \cup {NoRow} /\ Tip.gen \in Nat
  BY TipIs DEF BookInv
<1>3. rows' \in Seq(Row) /\ lastRow' \in Row \cup {NoRow}
  BY <1>1, <1>2 DEF Outcome
<1>4. Linked(book', rows') /\ Trusted(book') /\ book'.venue = v /\ Len(rows') \in DOMAIN rows'
  BY <1>1, <1>3 DEF Outcome, BookInv
<1>5. Tip' = rows'[Len(rows')]
  BY <1>1 DEF Tip, Last
<1>6. Tip'.gen = book'.gen /\ Tip'.u = book'.prev
  BY <1>4, <1>5 DEF Linked
<1>7. book'.gen \in Nat /\ book.gen \in Nat
  BY <1>4, BookIs DEF BookInv, Trusted, BookOK
<1>8. BookFaithful'
  BY <1>4 DEF BookFaithful, Trusted, Linked
<1>9. RowsChained'
  <2>1. \A i \in 1 .. Len(rows') - 1 : Follows(rows'[i], rows'[i + 1])
    BY <1>4 DEF Linked, Follows
  <2>2. ASSUME Tip # NoRow, Tip.gen = rows'[1].gen PROVE Continues(Tip, rows'[1])
    <3>1. rows'[1].gen = book'.gen
      BY <1>1, <1>3, <1>4 DEF Linked
    <3>2. ~(book'.gen > book.gen)
      BY <1>2, <1>7, <2>2, <3>1 DEF BookInv
    <3>3. /\ book'.gen = book.gen /\ book.state = "VALID"
          /\ \A row : row.u = book.prev => Continues(row, rows'[1])
      BY <1>1, <3>2 DEF Outcome
    <3>4. Tip.u = book.prev
      BY <2>2, <3>1, <3>3 DEF BookInv
    <3> QED
      BY <3>3, <3>4
  <2> QED
    BY <1>1, <2>1, <2>2 DEF RowsChained, Follows
<1> QED
  BY <1>3, <1>4, <1>6, <1>7, <1>8, <1>9 DEF BookInv, FeedSound

\* Rows that reach the writer, or cut it off.
LEMMA Taken ==
  ASSUME NEW v, BookInv(v), NEW res, Outcome(book, res), book' = res.book,
         NEW sound \in BOOLEAN, PersistOrIsolate(res.rows, sound)
  PROVE  BookInv(v)'
<1>1. CASE ~sound \/ res.rows = <<>>
  BY <1>1, Quiet DEF PersistOrIsolate
<1>2. CASE sound /\ res.rows # <<>>
  BY <1>2, Written DEF PersistOrIsolate
<1> QED
  BY <1>1, <1>2

\* Nothing happens to the book.
LEMMA Idles ==
  ASSUME NEW v, BookInv(v), Persist(<<>>), UNCHANGED <<book, isolated>> PROVE BookInv(v)'
<1> DEFINE res == [book |-> book, rows |-> <<>>]
<1>1. Outcome(book, res)
  BY DEF Outcome, BookInv
<1> QED
  BY <1>1, Quiet

\* The book loses its trust.
LEMMA Loses ==
  ASSUME NEW v, BookInv(v), Persist(<<>>), isolated' = isolated,
         book' \in {Gap(book), Resync(book), Invalidate(book)}
  PROVE  BookInv(v)'
<1> DEFINE res == [book |-> book', rows |-> <<>>]
<1>1. Outcome(book, res)
  BY GapOK, InvalidateOK DEF Outcome, BookInv
<1> QED
  BY <1>1, Quiet

\* Before the first row.
LEMMA FreshInv == ASSUME NEW v \in Venues, book = Fresh(v), rows = <<>>, lastRow = NoRow PROVE BookInv(v)
<1>1. Empty \in [Level -> Id \cup {NoId}]
  BY DEF Empty
<1>2. Fresh(v) \in Book
  BY <1>1 DEF Fresh, Book, States
<1>3. Trusted(book)
  BY <1>2, BookAssumption DEF Trusted, BookOK, Fresh
<1>4. Tip = NoRow /\ Tip.gen = 0 /\ book.gen = 0 /\ book.venue = v /\ book.state = "RECOVERING"
  BY DEF Tip, NoRow, Fresh
<1>5. FeedSound
  BY <1>4 DEF FeedSound, BookFaithful, RowsChained
<1> QED
  BY <1>3, <1>4, <1>5 DEF BookInv

(***************************************************************************)
(* The environment                                                         *)
(***************************************************************************)

LEMMA NextDiffOK ==
  ASSUME NEW v, VenueInv(v), book.venue = v, sent < head, NEW form \in {"ok", "bad_levels", "no_ids"}
  PROVE  NextDiff(form) \in Diff /\ Numbered(v, NextDiff(form)) /\ NextDiff(form) # NoDiff
<1>1. sent \in Nat /\ head \in Nat /\ 1 <= sent /\ head <= MaxId /\ MaxId \in Nat
  BY BookAssumption DEF VenueInv, Id
<1>2. sent + 1 \in Id /\ head \in Id /\ sent \in Id /\ sent + 1 <= head /\ sent + 1 # NoId
  BY <1>1 DEF VenueInv, Id, NoId
<1>3. sent = sent + 1 - 1
  BY <1>1
<1> DEFINE d == NextDiff(form)
<1>4. d.U = sent + 1 /\ d.U \in Id /\ d.u = head /\ d.u \in Id
  BY <1>2 DEF NextDiff
<1>5. d.pu = (IF v = "BINANCE" THEN sent ELSE NoId) /\ d.pu \in Id \cup {NoId}
  BY <1>2 DEF NextDiff
<1>6. d = [U |-> d.U, u |-> d.u, form |-> d.form, pu |-> d.pu] /\ d.form = form
  BY DEF NextDiff
<1>7. d \in Diff
  <2> HIDE DEF d
  <2> QED
    BY <1>4, <1>5, <1>6 DEF Diff
<1>8. Numbered(v, d)
  <2> HIDE DEF d
  <2>1. d.U - 1 = sent /\ d.U <= d.u
    BY <1>1, <1>2, <1>4
  <2> QED
    BY <1>5, <2>1 DEF Numbered
<1>9. d # NoDiff
  <2> HIDE DEF d
  <2> QED
    BY <1>2, <1>4 DEF NoDiff
<1> QED
  BY <1>7, <1>8, <1>9

LEMMA ArrivesOK ==
  ASSUME NEW v, VenueInv(v), book.venue = v, NEW d, Arrives(d)
  PROVE  d \in Diff /\ Numbered(v, d) /\ VenueInv(v)'
<1>1. CASE d \in Delivers \cup Damages /\ sent' = head /\ lastDiff' = d /\ head' = head
  <2>1. d \in Diff /\ Numbered(v, d)
    BY <1>1, NextDiffOK DEF Delivers, Damages
  <2> QED
    BY <1>1, <2>1 DEF VenueInv
<1>2. CASE d \in Repeats /\ UNCHANGED venue
  BY <1>2 DEF Repeats, venue, VenueInv
<1> QED
  BY <1>1, <1>2 DEF Arrives

LEMMA AnswersOK == ASSUME NEW v, VenueInv(v), NEW t, t.from \in Id PROVE Answers(t) \subseteq Snap
<1>1. t.from .. head \subseteq Id
  BY BookAssumption DEF VenueInv, Id
<1> QED
  BY <1>1 DEF Answers, Snap

(***************************************************************************)
(* The steps of the futures runner                                         *)
(***************************************************************************)

LEMMA HandleOK ==
  ASSUME Inv, NEW d \in Diff, Numbered("BINANCE", d), Handle(d)
  PROVE  BookInv("BINANCE")' /\ TaskInv(task')
<1> DEFINE one == Apply(book, d)
           two == Retry(one.book)
<1>1. BookInv("BINANCE") /\ TaskInv(task) /\ Trusted(book) /\ Numbered(book.venue, d)
  BY DEF Inv, BookInv
<1>2. Outcome(book, one)
  BY <1>1, ApplyOK
<1>3. one.rows = <<>> => Outcome(book, two)
  <2>1. Outcome(one.book, two)
    BY <1>2, RetryOK DEF Outcome
  <2> HIDE DEF one, two
  <2> QED
    BY <1>1, <1>2, <2>1, ThenOK
<1>4. CASE isolated
  BY <1>1, <1>4, Idles DEF Handle
<1>5. CASE ~isolated /\ NeedsRecovery(one) /\ two.why # "bridged"
  <2>1. book' = two.book /\ Schedule /\ Persist(<<>>) /\ UNCHANGED isolated
    BY <1>5 DEF Handle
  <2>2. two.rows = <<>>
    BY <1>5 DEF Retry, Attempt
  <2>3. TaskInv(task')
    BY <1>1, <2>1 DEF Schedule, TaskInv
  <2>4. one.rows = <<>>
    BY <1>5 DEF NeedsRecovery
  <2> HIDE DEF one, two
  <2>5. Outcome(book, two)
    BY <1>3, <2>4
  <2> QED
    BY <1>1, <2>1, <2>2, <2>3, <2>5, Quiet
<1>6. CASE ~isolated /\ NeedsRecovery(one) /\ two.why = "bridged"
  <2>1. /\ book' = two.book /\ UNCHANGED task
        /\ \E sound \in BOOLEAN : PersistOrIsolate(two.rows, sound)
    BY <1>6 DEF Handle
  <2>2. one.rows = <<>>
    BY <1>6 DEF NeedsRecovery
  <2> HIDE DEF one, two
  <2>3. Outcome(book, two)
    BY <1>3, <2>2
  <2> QED
    BY <1>1, <2>1, <2>3, Taken
<1>7. CASE ~isolated /\ ~NeedsRecovery(one)
  <2>1. /\ book' = one.book /\ UNCHANGED task
        /\ \E sound \in BOOLEAN : PersistOrIsolate(one.rows, sound)
    BY <1>7 DEF Handle
  <2> HIDE DEF one, two
  <2> QED
    BY <1>1, <1>2, <2>1, Taken
<1> QED
  BY <1>4, <1>5, <1>6, <1>7

LEMMA HandleDiffOK == ASSUME Inv, HandleDiff PROVE Inv'
<1>1. PICK d \in Delivers \cup Damages \cup Repeats : Arrives(d) /\ Handle(d)
  BY DEF HandleDiff
<1>2. d \in Diff /\ Numbered("BINANCE", d) /\ VenueInv("BINANCE")'
  BY <1>1, ArrivesOK DEF Inv, BookInv
<1>3. BookInv("BINANCE")' /\ TaskInv(task')
  BY <1>1, <1>2, HandleOK
<1>4. startup' = startup
  BY DEF HandleDiff
<1> QED
  BY <1>2, <1>3, <1>4 DEF Inv, TaskInv

\* The answer to a request, for the recovery t.
LEMMA AnswerOK ==
  ASSUME Inv, NEW t, t.from \in Id, Answer(t)
  PROVE  BookInv("BINANCE")'
<1>1. BookInv("BINANCE") /\ Trusted(book) /\ VenueInv("BINANCE")
  BY DEF Inv, BookInv
<1>2. CASE Refused \/ Failed
  BY <1>1, <1>2, Loses DEF Refused, Failed
<1>3. CASE Uncaptured
  BY <1>1, <1>3, Idles DEF Uncaptured
<1>4. CASE Answered(t)
  <2>1. PICK snap \in Answers(t) :
          LET result == Attempt(book, snap)
          IN  /\ book' = result.book
              /\ \E sound \in BOOLEAN :
                   IF result.why = "bridged"
                   THEN PersistOrIsolate(result.rows, sound)
                   ELSE sound /\ Persist(<<>>) /\ UNCHANGED isolated
    BY <1>4 DEF Answered
  <2> DEFINE result == Attempt(book, snap)
  <2>2. Outcome(book, result)
    BY <1>1, AnswersOK, AttemptOK
  <2>3. result.why # "bridged" => result.rows = <<>>
    BY DEF Attempt
  <2>4. book' = result.book
    BY <2>1
  <2>5. CASE result.why = "bridged"
    <3>1. \E sound \in BOOLEAN : PersistOrIsolate(result.rows, sound)
      BY <2>1, <2>5
    <3> HIDE DEF result
    <3> QED
      BY <1>1, <2>2, <2>4, <3>1, Taken
  <2>6. CASE result.why # "bridged"
    <3>1. Persist(<<>>) /\ UNCHANGED isolated /\ result.rows = <<>>
      BY <2>1, <2>3, <2>6
    <3> HIDE DEF result
    <3> QED
      BY <1>1, <2>2, <2>4, <3>1, Quiet
  <2> QED
    BY <2>5, <2>6
<1> QED
  BY <1>2, <1>3, <1>4 DEF Answer

LEMMA StepInv == ASSUME Inv, [Next]_vars PROVE Inv'
<1>1. BookInv("BINANCE") /\ VenueInv("BINANCE") /\ TaskInv(task) /\ TaskInv(startup)
  BY DEF Inv
<1>2. CASE HandleDiff
  BY <1>2, HandleDiffOK
<1>3. CASE TaskStart
  <2>1. BookInv("BINANCE")'
    BY <1>1, <1>3, Loses DEF TaskStart, Request
  <2>2. VenueInv("BINANCE")' /\ TaskInv(task)' /\ TaskInv(startup)'
    BY <1>1, <1>3 DEF TaskStart, venue, VenueInv, TaskInv
  <2> QED
    BY <2>1, <2>2 DEF Inv
<1>4. CASE TaskAnswer
  <2>1. BookInv("BINANCE")'
    BY <1>1, <1>4, AnswerOK DEF TaskAnswer, TaskInv
  <2>2. VenueInv("BINANCE")' /\ TaskInv(task)' /\ TaskInv(startup)'
    BY <1>1, <1>4 DEF TaskAnswer, NoTask, venue, VenueInv, TaskInv
  <2> QED
    BY <2>1, <2>2 DEF Inv
<1>5. CASE StartupRequest
  <2>1. BookInv("BINANCE")'
    BY <1>1, <1>5, Loses DEF StartupRequest, Request
  <2>2. VenueInv("BINANCE")' /\ TaskInv(task)' /\ TaskInv(startup)'
    BY <1>1, <1>5 DEF StartupRequest, venue, VenueInv, TaskInv
  <2> QED
    BY <2>1, <2>2 DEF Inv
<1>6. CASE StartupAnswer
  <2>1. BookInv("BINANCE")'
    BY <1>1, <1>6, AnswerOK DEF StartupAnswer, TaskInv
  <2>2. VenueInv("BINANCE")' /\ TaskInv(task)' /\ TaskInv(startup)'
    BY <1>1, <1>6 DEF StartupAnswer, NoTask, venue, VenueInv, TaskInv
  <2> QED
    BY <2>1, <2>2 DEF Inv
<1>7. CASE Reconnect
  <2>1. BookInv("BINANCE")'
    BY <1>1, <1>7, Loses DEF Reconnect
  <2>2. VenueInv("BINANCE")' /\ TaskInv(task)' /\ TaskInv(startup)'
    BY <1>1, <1>7 DEF Reconnect, VenueInv, TaskInv
  <2> QED
    BY <2>1, <2>2 DEF Inv
<1>8. CASE (Update \/ Lose \/ Time) /\ UNCHANGED startup
  <2>1. BookInv("BINANCE")'
    BY <1>1, <1>8, Idles DEF Update, Lose, Time
  <2>2. VenueInv("BINANCE")'
    BY <1>1, <1>8, BookAssumption DEF Update, Lose, Time, venue, VenueInv, Id
  <2>3. TaskInv(task)' /\ TaskInv(startup)'
    BY <1>1, <1>8 DEF Update, Lose, Time, TaskInv
  <2> QED
    BY <2>1, <2>2, <2>3 DEF Inv
<1>9. CASE UNCHANGED vars
  <2>1. BookInv("BINANCE")'
    BY <1>1, <1>9 DEF vars, out, BookInv, FeedSound, BookFaithful, RowsChained, Tip
  <2>2. VenueInv("BINANCE")' /\ TaskInv(task)' /\ TaskInv(startup)'
    BY <1>1, <1>9 DEF vars, venue, VenueInv, TaskInv
  <2> QED
    BY <2>1, <2>2 DEF Inv
<1> QED
  BY <1>2, <1>3, <1>4, <1>5, <1>6, <1>7, <1>8, <1>9 DEF Next

LEMMA InitInv == Init => Inv
<1> SUFFICES ASSUME Init PROVE Inv
  OBVIOUS
<1>1. /\ head = 1 /\ sent = 1 /\ lastDiff = NoDiff /\ book = Fresh("BINANCE") /\ task = NoTask
      /\ startup = Waiting /\ rows = <<>> /\ lastRow = NoRow
  BY DEF Init, FeedInit
<1>2. VenueInv("BINANCE") /\ TaskInv(task) /\ TaskInv(startup)
  BY <1>1, BookAssumption DEF VenueInv, TaskInv, NoTask, Waiting, Id
<1> QED
  BY <1>1, <1>2, FreshInv DEF Inv, Venues

\* The raw-book files of USD-M futures (BookFaithful, RowsChained), and what they rest on.
THEOREM FuturesRowsFaithful == Spec => [](FeedSound /\ FeedKept)
<1>1. Init => Inv
  BY InitInv
<1>2. Inv /\ [Next]_vars => Inv'
  BY StepInv
<1>3. Inv => FeedSound /\ FeedKept
  BY DEF Inv, BookInv, VenueInv, TaskInv, FeedKept, Id, NoId
<1> QED
  BY <1>1, <1>2, <1>3, PTL DEF Spec

LEMMA FuturesAsk ==
  ASSUME Inv, [Next]_vars, lastDiff' # lastDiff, ~isolated, book'.state # "VALID"
  PROVE  task' # NoTask \/ ~Allows(ctl)
<1>1. HandleDiff
  BY DEF Next, vars, venue, TaskStart, TaskAnswer, StartupRequest, StartupAnswer,
       Reconnect, Update, Lose, Time
<1>2. PICK d : Arrives(d) /\ Handle(d)
  BY <1>1 DEF HandleDiff
<1> DEFINE one == Apply(book, d)
           two == Retry(one.book)
<1>3. two.why = "bridged" => two.book.state = "VALID"
  <2>1. Trusted(one.book)
    BY <1>2, ArrivesOK, ApplyOK DEF Inv, BookInv, Outcome
  <2> HIDE DEF one
  <2> QED
    BY <2>1, BridgedIsValid
<1>4. ~NeedsRecovery(one) => one.book.state = "VALID"
  BY AppliedIsValid DEF NeedsRecovery, Inv, BookInv
<1>5. NeedsRecovery(one) /\ two.why # "bridged"
  <2>1. CASE ~NeedsRecovery(one)
    BY <1>2, <1>4, <2>1 DEF Handle
  <2>2. CASE NeedsRecovery(one) /\ two.why = "bridged"
    BY <1>2, <1>3, <2>2 DEF Handle
  <2> QED
    BY <2>1, <2>2
<1>6. Schedule
  BY <1>2, <1>5 DEF Handle
<1> QED
  BY <1>6 DEF Schedule, NoTask

\* A diff that leaves the futures book untrusted leaves a recovery under way, or the
\* controller did not allow one (UntrustedAsks, part of LossesAsk).
THEOREM UntrustedAlwaysAsks == Spec => UntrustedAsks
<1> DEFINE A == lastDiff' # lastDiff /\ ~isolated /\ book'.state # "VALID"
                  => task' # NoTask \/ ~Allows(ctl)
<1>1. Init => Inv
  BY InitInv
<1>2. Inv /\ [Next]_vars => Inv'
  BY StepInv
<1>3. ASSUME Inv, [Next]_vars PROVE A \/ UNCHANGED vars
  BY <1>3, FuturesAsk
<1> QED
  BY <1>1, <1>2, <1>3, PTL DEF Spec, UntrustedAsks

\* The types of the futures runner.  Its window holds one attempt too many at most: a task
\* that was created begins its attempt again when the startup recovery ended it.
Controllers == [inFlight : BOOLEAN, recent : Nat, cooling : BOOLEAN, limited : BOOLEAN,
                failures : 0 .. MaxAttempts]

Paced(c, t, s) ==
  /\ c \in Controllers /\ c.recent <= MaxPerWindow + 1
  /\ t.st = "created" => c.recent <= MaxPerWindow
  /\ s = Waiting => c.recent <= MaxPerWindow /\ (t.st = "created" => c.inFlight)

FuturesTypes ==
  /\ Paced(ctl, task, startup) /\ task \in Tasks /\ startup \in Tasks \cup {Waiting}
  /\ isolated \in BOOLEAN /\ terminal \in BOOLEAN /\ faults \in Nat /\ drops \in Nat

\* The methods of the controller.
LEMMA Methods ==
  ASSUME NEW c \in Controllers
  PROVE  /\ Begin(c) \in Controllers /\ Begin(c).inFlight /\ Begin(c).recent = c.recent + 1
         /\ \A d \in {Succeed(c), Fail(c), RateLimit(c)} : d \in Controllers /\ d.recent = c.recent
         /\ \A d : TimePasses(c, d) =>
              d \in Controllers /\ d.recent <= c.recent /\ d.inFlight = c.inFlight
<1>1. c.recent \in Nat /\ c.failures \in 0 .. MaxAttempts /\ MaxAttempts \in Nat \ {0}
  BY ControlAssumption DEF Controllers
<1>2. Begin(c) \in Controllers /\ Begin(c).inFlight /\ Begin(c).recent = c.recent + 1
  <2>1. PICK n \in Nat : n = c.recent + 1
    BY <1>1
  <2> QED
    BY <2>1, Zenon DEF Begin, Controllers
<1>3. Succeed(c) \in Controllers /\ Succeed(c).recent = c.recent
  <2>1. 0 \in 0 .. MaxAttempts
    BY <1>1
  <2> QED
    BY <2>1, Zenon DEF Succeed, Controllers
<1>4. Fail(c) \in Controllers /\ Fail(c).recent = c.recent
  <2>1. PICK n \in 0 .. MaxAttempts :
          n = IF c.failures < MaxAttempts THEN c.failures + 1 ELSE c.failures
    BY <1>1
  <2> QED
    BY <2>1, Zenon DEF Fail, Controllers
<1>5. RateLimit(c) \in Controllers /\ RateLimit(c).recent = c.recent
  BY <1>1 DEF RateLimit, Controllers
<1>6. ASSUME NEW d, TimePasses(c, d)
      PROVE  d \in Controllers /\ d.recent <= c.recent /\ d.inFlight = c.inFlight
  <2>1. CASE c.recent > 0 /\ d = [c EXCEPT !.recent = @ - 1]
    <3>1. PICK n \in Nat : n = c.recent - 1 /\ n <= c.recent
      BY <1>1, <2>1
    <3> QED
      BY <2>1, <3>1, Zenon DEF Controllers
  <2>2. CASE d = [c EXCEPT !.cooling = FALSE] \/ d = [c EXCEPT !.limited = FALSE]
    <3>1. d \in Controllers /\ d.recent = c.recent /\ d.inFlight = c.inFlight
      BY <2>2, Zenon DEF Controllers
    <3> QED
      BY <1>1, <3>1
  <2> QED
    BY <1>6, <2>1, <2>2 DEF TimePasses
<1> QED
  BY <1>2, <1>3, <1>4, <1>5, <1>6

\* An answer ends the attempt and counts no other.
LEMMA AnswerPaced ==
  ASSUME FuturesTypes, NEW t, Answer(t)
  PROVE  /\ ctl' \in Controllers /\ ctl'.recent = ctl.recent
         /\ isolated' \in BOOLEAN /\ terminal' \in BOOLEAN /\ faults' \in Nat
<1>1. ctl \in Controllers /\ isolated \in BOOLEAN /\ terminal \in BOOLEAN /\ faults \in Nat
  BY DEF FuturesTypes, Paced
<1>2. CASE Refused \/ Failed \/ Uncaptured
  <2>1. /\ ctl' \in {ctl, RateLimit(ctl), Fail(ctl)} /\ isolated' = isolated
        /\ terminal' = terminal \/ terminal' = TRUE
        /\ faults' = faults \/ faults' = faults + 1
    BY <1>2 DEF Refused, Failed, Uncaptured, Fault
  <2>2. faults' \in Nat
    BY <1>1, <2>1
  <2>3. ctl' \in Controllers /\ ctl'.recent = ctl.recent
    BY <1>1, <2>1, Methods
  <2> QED
    BY <1>1, <2>1, <2>2, <2>3, Zenon
<1>3. CASE Answered(t)
  <2>1. /\ terminal' = terminal /\ (faults' = faults \/ faults' = faults + 1)
        /\ isolated' = isolated \/ isolated' = TRUE
        /\ ctl' \in {ctl, Succeed(ctl), Fail(ctl)}
    BY <1>3 DEF Answered, PersistOrIsolate, Fault
  <2>2. faults' \in Nat
    BY <1>1, <2>1
  <2>3. ctl' \in Controllers /\ ctl'.recent = ctl.recent
    BY <1>1, <2>1, Methods
  <2> QED
    BY <1>1, <2>1, <2>2, <2>3, Zenon
<1> QED
  BY <1>2, <1>3 DEF Answer

LEMMA TypesStep == ASSUME FuturesTypes, head \in Id, [Next]_vars PROVE FuturesTypes'
<1>1. /\ ctl \in Controllers /\ ctl.recent \in Nat /\ MaxPerWindow \in Nat
      /\ Paced(ctl, task, startup) /\ task \in Tasks /\ startup \in Tasks \cup {Waiting}
      /\ isolated \in BOOLEAN /\ terminal \in BOOLEAN /\ faults \in Nat /\ drops \in Nat
  BY ControlAssumption DEF FuturesTypes, Paced, Controllers
<1>2. NoTask \in Tasks /\ NoTask.st = "none" /\ Waiting.st = "waiting"
      /\ \A t \in Tasks : t.st \in {"none", "created", "rest"} /\ t # Waiting
  BY DEF NoTask, Tasks, Waiting, NoId
<1>3. CASE HandleDiff
  <2>1. PICK d : Arrives(d) /\ Handle(d)
    BY <1>3 DEF HandleDiff
  <2>2. /\ (faults' = faults \/ faults' = faults + 1) /\ UNCHANGED <<terminal, drops, startup>>
        /\ isolated' = isolated \/ isolated' = TRUE
        /\ Schedule \/ UNCHANGED <<ctl, task>>
    BY <1>3, <2>1 DEF HandleDiff, Arrives, Fault, Handle, PersistOrIsolate
  <2>5. isolated' \in BOOLEAN /\ faults' \in Nat
    <3>1. isolated' \in BOOLEAN
      BY <1>1, <2>2, Zenon
    <3> QED
      BY <1>1, <2>2, <3>1
  <2>3. CASE Allows(ctl) /\ task' = [st |-> "created", from |-> NoId] /\ ctl' = Begin(ctl)
    <3>1. task' \in Tasks /\ ctl' \in Controllers /\ ctl'.recent = ctl.recent + 1 /\ ctl'.inFlight
      BY <1>1, <2>3, Methods DEF Tasks
    <3>2. ctl.recent < MaxPerWindow
      BY <2>3 DEF Allows
    <3>3. ctl'.recent <= MaxPerWindow /\ ctl'.recent <= MaxPerWindow + 1
      BY <1>1, <3>1, <3>2
    <3>4. Paced(ctl, task, startup)'
      BY <3>1, <3>3 DEF Paced, Waiting
    <3> QED
      BY <1>1, <2>2, <2>5, <3>1, <3>4 DEF FuturesTypes
  <2>4. CASE UNCHANGED <<ctl, task>>
    <3>1. Paced(ctl, task, startup)'
      BY <1>1, <2>2, <2>4 DEF Paced, Waiting
    <3> QED
      BY <1>1, <2>2, <2>4, <2>5, <3>1 DEF FuturesTypes
  <2> QED
    BY <2>2, <2>3, <2>4 DEF Schedule
<1>4. CASE TaskStart
  <2>1. /\ task.st = "created" /\ task' = [st |-> "rest", from |-> head]
        /\ ctl' = (IF ctl.inFlight THEN ctl ELSE Begin(ctl))
        /\ UNCHANGED <<isolated, terminal, faults, drops, startup>>
    BY <1>4 DEF TaskStart, Request, bounds
  <2>2. task'.st = "rest"
    BY <2>1
  <2>3. ctl' \in Controllers /\ ctl'.recent <= MaxPerWindow + 1
        /\ (startup = Waiting => ctl'.recent <= MaxPerWindow)
    BY <1>1, <2>1, Methods DEF Paced
  <2>4. Paced(ctl, task, startup)'
    BY <1>1, <2>1, <2>2, <2>3 DEF Paced, Waiting
  <2>5. task' \in Tasks /\ startup' \in Tasks \cup {Waiting}
    BY <1>1, <2>1 DEF Tasks, Waiting
  <2> QED
    BY <1>1, <2>1, <2>4, <2>5 DEF FuturesTypes
<1>5. CASE StartupRequest
  <2>1. /\ startup = Waiting /\ startup' = [st |-> "rest", from |-> head]
        /\ ctl' = (IF ctl.inFlight THEN ctl ELSE Begin(ctl))
        /\ UNCHANGED <<isolated, terminal, faults, drops, task>>
    BY <1>5 DEF StartupRequest, Request, bounds
  <2>2. startup'.st = "rest" /\ startup' # Waiting
    BY <2>1 DEF Waiting
  <2>3. ctl' \in Controllers /\ ctl'.recent <= MaxPerWindow + 1
        /\ (task.st = "created" => ctl'.recent <= MaxPerWindow)
    BY <1>1, <2>1, Methods DEF Paced
  <2>4. Paced(ctl, task, startup)'
    BY <1>1, <2>1, <2>2, <2>3 DEF Paced, Waiting
  <2>5. startup' \in Tasks \cup {Waiting}
    BY <1>1, <2>1 DEF Tasks, Waiting
  <2> QED
    BY <1>1, <2>1, <2>4, <2>5 DEF FuturesTypes
<1>6. CASE TaskAnswer
  <2>1. task.st = "rest" /\ Answer(task) /\ task' = NoTask /\ UNCHANGED <<drops, startup>>
    BY <1>6 DEF TaskAnswer
  <2>2. /\ ctl' \in Controllers /\ ctl'.recent = ctl.recent
        /\ isolated' \in BOOLEAN /\ terminal' \in BOOLEAN /\ faults' \in Nat
    BY <2>1, AnswerPaced
  <2> QED
    BY <1>1, <1>2, <2>1, <2>2 DEF FuturesTypes, Paced
<1>7. CASE StartupAnswer
  <2>1. startup.st = "rest" /\ Answer(startup) /\ startup' = NoTask /\ UNCHANGED <<drops, task>>
    BY <1>7 DEF StartupAnswer
  <2>2. /\ ctl' \in Controllers /\ ctl'.recent = ctl.recent
        /\ isolated' \in BOOLEAN /\ terminal' \in BOOLEAN /\ faults' \in Nat
    BY <2>1, AnswerPaced
  <2>3. startup' \in Tasks /\ startup' # Waiting
    BY <1>2, <2>1
  <2> QED
    BY <1>1, <2>1, <2>2, <2>3 DEF FuturesTypes, Paced
<1>8. CASE Time /\ UNCHANGED startup
  <2>1. TimePasses(ctl, ctl') /\ UNCHANGED <<task, isolated, terminal, faults, drops, startup>>
    BY <1>8 DEF Time, bounds
  <2>2. ctl' \in Controllers /\ ctl'.recent <= ctl.recent /\ ctl'.inFlight = ctl.inFlight
        /\ ctl'.recent \in Nat
    BY <1>1, <2>1, Methods DEF Controllers
  <2> QED
    BY <1>1, <2>1, <2>2 DEF FuturesTypes, Paced
<1>9. CASE Reconnect \/ ((Update \/ Lose) /\ UNCHANGED startup) \/ UNCHANGED vars
  <2>1. /\ UNCHANGED <<ctl, task, isolated, terminal, startup>>
        /\ (faults' = faults \/ faults' = faults + 1) /\ (drops' = drops \/ drops' = drops + 1)
    BY <1>9 DEF Reconnect, Update, Lose, Fault, bounds, vars
  <2> QED
    BY <1>1, <2>1 DEF FuturesTypes, Paced
<1> QED
  BY <1>3, <1>4, <1>5, <1>6, <1>7, <1>8, <1>9 DEF Next

LEMMA TypesInit == Init => FuturesTypes
<1> SUFFICES ASSUME Init PROVE FuturesTypes
  OBVIOUS
<1>1. /\ ctl = Idle /\ task = NoTask /\ startup = Waiting /\ isolated = FALSE
      /\ terminal = FALSE /\ faults = 0 /\ drops = 0
  BY DEF Init, FeedInit
<1>2. ctl \in Controllers /\ ctl.recent = 0 /\ MaxPerWindow \in Nat
  BY <1>1, ControlAssumption DEF Idle, Controllers
<1>3. task \in Tasks /\ task.st = "none"
  BY <1>1 DEF NoTask, Tasks
<1>4. Paced(ctl, task, startup)
  BY <1>1, <1>2, <1>3 DEF Paced
<1> QED
  BY <1>1, <1>3, <1>4, Zenon DEF FuturesTypes

\* The futures runner keeps its types, and FeedSound of its book rests on what it keeps
\* (TypeOK, FeedKept), wherever MCBooks runs it.
LEMMA FuturesAlwaysKept == MCSpec => []FuturesKept
<1> DEFINE I == which = "futures" => Inv /\ FuturesTypes
           all == <<vars, stream, tape, which>>
<1>1. MCInit => I
  BY InitInv, TypesInit DEF MCInit
<1>2. I /\ [MCNext]_all => I'
  <2> SUFFICES ASSUME I, [MCNext]_all, which' = "futures" PROVE Inv' /\ FuturesTypes'
    OBVIOUS
  <2>1. which = "futures" /\ [Next]_vars
    BY DEF MCNext
  <2> QED
    BY <2>1, StepInv, TypesStep DEF Inv, VenueInv
<1>3. I => FuturesKept
  <2> SUFFICES ASSUME Inv, FuturesTypes PROVE TypeOK /\ FeedKept
    BY DEF FuturesKept
  <2>1. FeedKept
    BY DEF Inv, BookInv, VenueInv, TaskInv, FeedKept, Id, NoId
  <2>2. ControlOK(ctl)
    BY DEF FuturesTypes, Paced, ControlOK, Controllers
  <2>3. FeedOK
    BY <2>2 DEF FeedOK, Inv, BookInv, VenueInv, Trusted, FuturesTypes
  <2>4. TypeOK
    BY <2>3 DEF TypeOK, FuturesTypes, Paced
  <2> QED
    BY <2>1, <2>4
<1> QED
  BY <1>1, <1>2, <1>3, PTL DEF MCSpec

(***************************************************************************)
(* The steps of the Spot runner                                            *)
(***************************************************************************)

SpotInv == BookInv("BINANCE_SPOT") /\ VenueInv("BINANCE_SPOT") /\ TaskInv(task)

LEMMA AppliedOK ==
  ASSUME Trusted(book), NEW d \in Diff, Numbered(book.venue, d)
  PROVE  Outcome(book, Applied(d))
<1> DEFINE one == Apply(book, d)
<1>1. Outcome(book, one)
  BY ApplyOK
<1>2. CASE one.rows = <<>> /\ one.book.prev = NoId
  <2>1. Applied(d) = Retry(one.book)
    BY <1>2 DEF Applied
  <2> HIDE DEF one
  <2>2. Outcome(one.book, Retry(one.book))
    BY <1>1, RetryOK DEF Outcome
  <2> QED
    BY <1>1, <1>2, <2>1, <2>2, ThenOK
<1>3. CASE ~(one.rows = <<>> /\ one.book.prev = NoId)
  BY <1>1, <1>3 DEF Applied
<1> QED
  BY <1>2, <1>3

LEMMA HandleMessageOK == ASSUME SpotInv, HandleMessage PROVE SpotInv'
<1>1. PICK d : /\ Arrives(d)
               /\ IF isolated
                  THEN Persist(<<>>) /\ UNCHANGED <<book, ctl, task, isolated>>
                  ELSE LET result == Applied(d)
                       IN  /\ book' = result.book
                           /\ \E sound \in BOOLEAN : PersistOrIsolate(result.rows, sound)
                           /\ IF Asks(result) THEN ScheduleRecovery ELSE UNCHANGED <<ctl, task>>
  BY DEF HandleMessage
<1>2. /\ BookInv("BINANCE_SPOT") /\ Trusted(book) /\ d \in Diff
      /\ Numbered(book.venue, d) /\ VenueInv("BINANCE_SPOT")'
  BY <1>1, ArrivesOK DEF SpotInv, BookInv
<1>3. CASE isolated
  BY <1>1, <1>2, <1>3, Idles DEF SpotInv
<1>4. CASE ~isolated
  <2> DEFINE result == Applied(d)
  <2>1. /\ book' = result.book
        /\ \E sound \in BOOLEAN : PersistOrIsolate(result.rows, sound)
        /\ IF Asks(result) THEN ScheduleRecovery ELSE UNCHANGED <<ctl, task>>
    BY <1>1, <1>4
  <2>2. Outcome(book, result)
    BY <1>2, AppliedOK
  <2>3. TaskInv(task)'
    BY <2>1 DEF ScheduleRecovery, Created, SpotInv, TaskInv
  <2> HIDE DEF result
  <2>4. BookInv("BINANCE_SPOT")'
    BY <1>2, <2>1, <2>2, Taken
  <2> QED
    BY <1>2, <2>3, <2>4 DEF SpotInv
<1> QED
  BY <1>3, <1>4

LEMMA RecoverAnsweredOK == ASSUME SpotInv, RecoverAnswered PROVE SpotInv'
<1>1. /\ BookInv("BINANCE_SPOT") /\ Trusted(book) /\ VenueInv("BINANCE_SPOT")
      /\ task.from \in Id /\ task' = NoTask /\ UNCHANGED venue
  BY DEF SpotInv, BookInv, TaskInv, RecoverAnswered
<1>2. VenueInv("BINANCE_SPOT")' /\ TaskInv(task)'
  BY <1>1 DEF venue, VenueInv, TaskInv, NoTask
<1>3. CASE RequestFailed
  BY <1>1, <1>2, <1>3, Loses DEF RequestFailed, SpotInv
<1>4. CASE SnapshotUncaptured
  BY <1>1, <1>2, <1>4, Idles DEF SnapshotUncaptured, SpotInv
<1>5. CASE SnapshotArrived
  <2>1. PICK snap \in Answers(task), sound \in BOOLEAN :
          book' = Attempt(book, snap).book /\ PersistOrIsolate(Attempt(book, snap).rows, sound)
    BY <1>5 DEF SnapshotArrived
  <2>2. Outcome(book, Attempt(book, snap))
    BY <1>1, AnswersOK, AttemptOK
  <2>3. BookInv("BINANCE_SPOT")'
    BY <1>1, <2>1, <2>2, Taken
  <2> QED
    BY <1>2, <2>3 DEF SpotInv
<1> QED
  BY <1>3, <1>4, <1>5 DEF RecoverAnswered

LEMMA SpotStepInv == ASSUME SpotInv, [SpotNext]_spot PROVE SpotInv'
<1>1. BookInv("BINANCE_SPOT") /\ VenueInv("BINANCE_SPOT") /\ TaskInv(task)
  BY DEF SpotInv
<1>2. CASE HandleMessage
  BY <1>2, HandleMessageOK
<1>3. CASE RecoverAnswered
  BY <1>3, RecoverAnsweredOK
<1>4. CASE RecoverStarts
  <2>1. BookInv("BINANCE_SPOT")'
    BY <1>1, <1>4, Idles DEF RecoverStarts
  <2>2. VenueInv("BINANCE_SPOT")' /\ TaskInv(task)'
    BY <1>1, <1>4 DEF RecoverStarts, venue, VenueInv, TaskInv
  <2> QED
    BY <2>1, <2>2 DEF SpotInv
<1>5. CASE SpotReconnect \/ Update \/ Lose \/ Time
  <2>1. BookInv("BINANCE_SPOT")'
    BY <1>1, <1>5, Idles DEF SpotReconnect, Update, Lose, Time
  <2>2. VenueInv("BINANCE_SPOT")'
    BY <1>1, <1>5, BookAssumption DEF SpotReconnect, Update, Lose, Time, venue, VenueInv, Id
  <2>3. TaskInv(task)'
    BY <1>1, <1>5 DEF SpotReconnect, Update, Lose, Time, TaskInv
  <2> QED
    BY <2>1, <2>2, <2>3 DEF SpotInv
<1>6. CASE UNCHANGED spot
  <2>1. BookInv("BINANCE_SPOT")'
    BY <1>1, <1>6 DEF spot, out, BookInv, FeedSound, BookFaithful, RowsChained, Tip
  <2>2. VenueInv("BINANCE_SPOT")' /\ TaskInv(task)'
    BY <1>1, <1>6 DEF spot, venue, VenueInv, TaskInv
  <2> QED
    BY <2>1, <2>2 DEF SpotInv
<1> QED
  BY <1>2, <1>3, <1>4, <1>5, <1>6 DEF SpotNext

LEMMA SpotInitInv == SpotInit => SpotInv
<1> SUFFICES ASSUME SpotInit PROVE SpotInv
  OBVIOUS
<1>1. /\ head = 1 /\ sent = 1 /\ lastDiff = NoDiff /\ book = Fresh("BINANCE_SPOT") /\ task = Created
      /\ rows = <<>> /\ lastRow = NoRow
  BY DEF SpotInit
<1>2. VenueInv("BINANCE_SPOT") /\ TaskInv(task)
  BY <1>1, BookAssumption DEF VenueInv, TaskInv, Created, Id
<1> QED
  BY <1>1, <1>2, FreshInv DEF SpotInv, Venues

\* The raw-book files of Spot (BookFaithful, RowsChained), and what they rest on.
THEOREM SpotRowsFaithful == SpotSpec => [](FeedSound /\ FeedKept)
<1>1. SpotInit => SpotInv
  BY SpotInitInv
<1>2. SpotInv /\ [SpotNext]_spot => SpotInv'
  BY SpotStepInv
<1>3. SpotInv => FeedSound /\ FeedKept
  BY DEF SpotInv, BookInv, VenueInv, TaskInv, FeedKept, Id, NoId
<1> QED
  BY <1>1, <1>2, <1>3, PTL DEF SpotSpec

\* The same of a diff that costs the Spot book its trust, or finds it never bridged
\* (LossAsks, the other part).
THEOREM SpotLossAlwaysAsks == SpotSpec => LossAsks
<1> DEFINE A == lastDiff' # lastDiff /\ ~isolated /\ AsksOf(book, book')
                  => task' # NoTask \/ ~Allows(ctl)
<1>1. SpotInit => SpotInv
  BY SpotInitInv
<1>2. SpotInv /\ [SpotNext]_spot => SpotInv'
  BY SpotStepInv
<1>3. ASSUME SpotInv, [SpotNext]_spot PROVE A \/ UNCHANGED spot
  <2>1. SUFFICES ASSUME lastDiff' # lastDiff, ~isolated, AsksOf(book, book')
                 PROVE  task' # NoTask \/ ~Allows(ctl)
    OBVIOUS
  <2>2. HandleMessage
    BY <1>3, <2>1 DEF SpotNext, spot, venue, RecoverStarts, RecoverAnswered, SpotReconnect,
         Update, Lose, Time
  <2>3. PICK d : /\ book' = Applied(d).book /\ ~terminal
                 /\ IF Asks(Applied(d)) THEN ScheduleRecovery ELSE UNCHANGED <<ctl, task>>
    BY <2>1, <2>2 DEF HandleMessage
  <2>4. ScheduleRecovery
    BY <2>1, <2>3 DEF Asks, AsksOf
  <2> QED
    BY <2>1, <2>3, <2>4 DEF ScheduleRecovery, Created, NoTask
<1> QED
  BY <1>1, <1>2, <1>3, PTL DEF SpotSpec, LossAsks

\* The types of the Spot runner, whose window never holds an attempt too many.
SpotTypes ==
  /\ ctl \in Controllers /\ ctl.recent <= MaxPerWindow /\ task \in Tasks
  /\ isolated \in BOOLEAN /\ terminal \in BOOLEAN /\ faults \in Nat /\ drops \in Nat

LEMMA SpotTypesStep == ASSUME SpotTypes, head \in Id, [SpotNext]_spot PROVE SpotTypes'
<1>1. /\ ctl \in Controllers /\ ctl.recent \in Nat /\ MaxPerWindow \in Nat
      /\ ctl.recent <= MaxPerWindow /\ task \in Tasks
      /\ isolated \in BOOLEAN /\ terminal \in BOOLEAN /\ faults \in Nat /\ drops \in Nat
  BY ControlAssumption DEF SpotTypes, Controllers
<1>2. NoTask \in Tasks /\ Created \in Tasks
  BY DEF NoTask, Created, Tasks
<1>3. CASE HandleMessage
  <2>1. PICK d : /\ Arrives(d)
                 /\ isolated' = isolated \/ isolated' = TRUE
                 /\ ScheduleRecovery \/ UNCHANGED <<ctl, task>>
    BY <1>3 DEF HandleMessage, PersistOrIsolate
  <2>2. /\ faults' = faults \/ faults' = faults + 1
        /\ UNCHANGED <<terminal, drops>>
    BY <1>3, <2>1 DEF HandleMessage, Arrives, Fault
  <2>3. isolated' \in BOOLEAN
    BY <1>1, <2>1, Zenon
  <2>4. faults' \in Nat
    BY <1>1, <2>2
  <2>5. CASE Allows(ctl) /\ task' = Created /\ ctl' = Begin(ctl)
    <3>1. ctl' \in Controllers /\ ctl'.recent = ctl.recent + 1
      BY <1>1, <2>5, Methods
    <3>2. ctl.recent < MaxPerWindow
      BY <2>5 DEF Allows
    <3>3. ctl'.recent <= MaxPerWindow
      BY <1>1, <3>1, <3>2
    <3> QED
      BY <1>1, <1>2, <2>2, <2>3, <2>4, <2>5, <3>1, <3>3 DEF SpotTypes
  <2>6. CASE UNCHANGED <<ctl, task>>
    BY <1>1, <2>2, <2>3, <2>4, <2>6 DEF SpotTypes
  <2> QED
    BY <2>1, <2>5, <2>6 DEF ScheduleRecovery
<1>4. CASE RecoverAnswered
  <2>1. /\ task' = NoTask /\ drops' = drops
        /\ terminal' = terminal \/ terminal' = TRUE
        /\ isolated' = isolated \/ isolated' = TRUE
        /\ faults' = faults \/ faults' = faults + 1
        /\ ctl' \in {Fail(ctl), Succeed(ctl), Fail(Succeed(ctl))}
    BY <1>4 DEF RecoverAnswered, RequestFailed, SnapshotUncaptured, SnapshotArrived, Fault,
         PersistOrIsolate
  <2>2. Succeed(ctl) \in Controllers /\ Succeed(ctl).recent = ctl.recent
    BY <1>1, Methods
  <2>3. Fail(Succeed(ctl)) \in Controllers /\ Fail(Succeed(ctl)).recent = ctl.recent
    BY <2>2, Methods
  <2>4. ctl' \in Controllers /\ ctl'.recent = ctl.recent
    BY <1>1, <2>1, <2>2, <2>3, Methods
  <2>5. terminal' \in BOOLEAN /\ isolated' \in BOOLEAN
    BY <1>1, <2>1, Zenon
  <2>6. faults' \in Nat
    BY <1>1, <2>1
  <2> QED
    BY <1>1, <1>2, <2>1, <2>4, <2>5, <2>6 DEF SpotTypes
<1>5. CASE RecoverStarts
  <2>1. task' = [st |-> "rest", from |-> head] /\ UNCHANGED <<ctl, isolated, terminal, faults, drops>>
    BY <1>5 DEF RecoverStarts, bounds
  <2>2. task' \in Tasks
    BY <2>1 DEF Tasks
  <2> QED
    BY <1>1, <2>1, <2>2 DEF SpotTypes
<1>6. CASE Time
  <2>1. TimePasses(ctl, ctl') /\ UNCHANGED <<task, isolated, terminal, faults, drops>>
    BY <1>6 DEF Time, bounds
  <2>2. ctl' \in Controllers /\ ctl'.recent <= ctl.recent /\ ctl'.recent \in Nat
    BY <1>1, <2>1, Methods DEF Controllers
  <2> QED
    BY <1>1, <2>1, <2>2 DEF SpotTypes
<1>7. CASE SpotReconnect \/ Update \/ Lose \/ UNCHANGED spot
  <2>1. /\ UNCHANGED <<ctl, task, isolated, terminal>>
        /\ (faults' = faults \/ faults' = faults + 1) /\ (drops' = drops \/ drops' = drops + 1)
    BY <1>7 DEF SpotReconnect, Update, Lose, Fault, bounds, spot
  <2> QED
    BY <1>1, <2>1 DEF SpotTypes
<1> QED
  BY <1>3, <1>4, <1>5, <1>6, <1>7 DEF SpotNext

LEMMA SpotTypesInit == SpotInit => SpotTypes
<1> SUFFICES ASSUME SpotInit PROVE SpotTypes
  OBVIOUS
<1>1. /\ ctl = Begin(Idle) /\ task = Created /\ isolated = FALSE /\ terminal = FALSE
      /\ faults = 0 /\ drops = 0
  BY DEF SpotInit
<1>2. Idle \in Controllers /\ Idle.recent = 0 /\ MaxPerWindow \in Nat \ {0}
  BY ControlAssumption DEF Idle, Controllers
<1>3. ctl \in Controllers /\ ctl.recent = 1
  BY <1>1, <1>2, Methods
<1>4. ctl.recent <= MaxPerWindow
  BY <1>2, <1>3
<1>5. task \in Tasks
  BY <1>1 DEF Created, Tasks
<1>6. isolated \in BOOLEAN /\ terminal \in BOOLEAN
  BY <1>1, Zenon
<1> QED
  BY <1>1, <1>3, <1>4, <1>5, <1>6 DEF SpotTypes

\* The same of the Spot runner.
LEMMA SpotAlwaysKept == MCSpec => []SpotKept
<1> DEFINE I == which = "spot" => SpotInv /\ SpotTypes
           all == <<vars, stream, tape, which>>
<1>1. MCInit => I
  BY SpotInitInv, SpotTypesInit DEF MCInit
<1>2. I /\ [MCNext]_all => I'
  <2> SUFFICES ASSUME I, [MCNext]_all, which' = "spot" PROVE SpotInv' /\ SpotTypes'
    OBVIOUS
  <2>1. which = "spot" /\ [SpotNext]_spot
    BY DEF MCNext, vars, spot
  <2> QED
    BY <2>1, SpotStepInv, SpotTypesStep DEF SpotInv, VenueInv
<1>3. I => SpotKept
  <2> SUFFICES ASSUME SpotInv, SpotTypes PROVE SpotTypeOK /\ FeedKept
    BY DEF SpotKept
  <2>1. FeedKept
    BY DEF SpotInv, BookInv, VenueInv, TaskInv, FeedKept, Id, NoId
  <2>2. ControlOK(ctl)
    BY DEF SpotTypes, ControlOK, Controllers
  <2>3. FeedOK
    BY <2>2 DEF FeedOK, SpotInv, BookInv, VenueInv, Trusted, SpotTypes
  <2>4. SpotTypeOK
    BY <2>3 DEF SpotTypeOK, SpotTypes
  <2> QED
    BY <2>1, <2>4
<1> QED
  BY <1>1, <1>2, <1>3, PTL DEF MCSpec

\* Every row of the raw-book files, of either runner, is the venue's book, and no generation
\* has a hole, wherever MCBooks runs them (FeedSound).
THEOREM FeedAlwaysSound == MCSpec => []FeedSound
<1> DEFINE I == /\ which = "futures" => Inv
                /\ which = "spot" => SpotInv
                /\ which \in {"wire", "replay"} => BookInv("BINANCE")
                /\ which \in {"futures", "spot", "wire", "replay"}
           all == <<vars, stream, tape, which>>
<1>1. MCInit => I
  BY InitInv, SpotInitInv DEF MCInit, Inv
<1>2. ASSUME I, [MCNext]_all PROVE I'
  <2>1. CASE which = "futures" /\ which' = which /\ [Next]_vars
    BY <1>2, <2>1, StepInv
  <2>2. CASE which = "spot" /\ which' = which /\ [SpotNext]_spot
    BY <1>2, <2>2, SpotStepInv
  <2>3. CASE which \in {"wire", "replay"} /\ which' = which /\ UNCHANGED runner
    BY <1>2, <2>3 DEF runner, BookInv, FeedSound, BookFaithful, RowsChained, Tip
  <2> QED
    BY <1>2, <2>1, <2>2, <2>3 DEF MCNext, runner, vars, spot, venue, out, bounds
<1>3. I => FeedSound
  BY DEF Inv, SpotInv, BookInv
<1> QED
  BY <1>1, <1>2, <1>3, PTL DEF MCSpec

\* A diff that leaves the futures book untrusted, or costs the Spot book its trust or finds
\* it never bridged, leaves a recovery under way, or the controller did not allow one,
\* wherever MCBooks runs the two (LossesAsk).
THEOREM LossesAlwaysAsk == MCSpec => LossesAsk
<1> DEFINE I == which = "futures" => Inv
           all == <<vars, stream, tape, which>>
           A == /\ lastDiff' # lastDiff /\ ~isolated
                /\ IF which = "futures" THEN book'.state # "VALID" ELSE AsksOf(book, book')
                => task' # NoTask \/ ~Allows(ctl)
<1>1. MCInit => I
  BY InitInv DEF MCInit
<1>2. I /\ [MCNext]_all => I'
  <2> SUFFICES ASSUME I, [MCNext]_all, which' = "futures" PROVE Inv'
    OBVIOUS
  <2>1. which = "futures" /\ [Next]_vars
    BY DEF MCNext
  <2> QED
    BY <2>1, StepInv
<1>3. ASSUME I, [MCNext]_all PROVE A \/ UNCHANGED <<vars, which>>
  <2>1. SUFFICES ASSUME lastDiff' # lastDiff, ~isolated,
                        IF which = "futures" THEN book'.state # "VALID" ELSE AsksOf(book, book')
                 PROVE  task' # NoTask \/ ~Allows(ctl)
    OBVIOUS
  <2>2. CASE which = "futures" /\ Next
    BY <1>3, <2>1, <2>2, FuturesAsk
  <2>3. CASE which = "spot" /\ SpotNext
    <3>1. AsksOf(book, book')
      BY <2>1, <2>3
    <3>2. HandleMessage
      BY <2>1, <2>3 DEF SpotNext, venue, RecoverStarts, RecoverAnswered,
           SpotReconnect, Update, Lose, Time
    <3>3. PICK d : /\ book' = Applied(d).book /\ ~terminal
                   /\ IF Asks(Applied(d)) THEN ScheduleRecovery
                                                   ELSE UNCHANGED <<ctl, task>>
      BY <2>1, <3>2 DEF HandleMessage
    <3>4. ScheduleRecovery
      BY <3>1, <3>3 DEF Asks, AsksOf, NoId
    <3> QED
      BY <2>1, <3>3, <3>4 DEF ScheduleRecovery, Created, NoTask, NoTask, NoId,
           NoId, Allows, Allows
  <2>4. CASE which \in {"wire", "replay"} /\ UNCHANGED runner
    BY <2>1, <2>4 DEF runner
  <2>5. \/ which = "futures" /\ Next
        \/ which = "spot" /\ SpotNext
        \/ which \in {"wire", "replay"} /\ UNCHANGED runner
    BY <1>3, <2>1 DEF MCNext, vars, venue
  <2> QED
    BY <2>2, <2>3, <2>4, <2>5
<1> QED
  BY <1>1, <1>2, <1>3, PTL DEF MCSpec, LossesAsk

(***************************************************************************)
(* The book of Bybit and OKX (WireBook, on variables of its own but for    *)
(* those of the venue and the bounds)                                      *)
(***************************************************************************)

Missing == -2

\* A message as the venue numbers it.
Told(m) ==
  /\ m.from \in Id /\ m.to \in Id /\ m.from <= m.to /\ base < m.to
  /\ m.snap \in BOOLEAN /\ m.u \in {m.to - base, Missing}
  /\ m.snap => m.from = 1
  /\ ~m.snap => /\ m.from > 1 /\ base < m.from - 1
                /\ m.pu = IF m.u = Missing THEN Missing ELSE m.from - 1 - base

WireBooks == [state : States, prev : Int, at : Int, levels : [Level -> Id \cup {NoId}]]

\* Where a VALID book stands when the last message sent reached the update top: at that
\* update, unless a message is missing; and which books the venue has to answer for.
Stands(b, top, hole, due) ==
  /\ b \in WireBooks
  /\ b.state = "VALID" =>
       /\ b.at \in 1 .. top
       /\ exchange = "OKX" => b.prev \in {b.at, Missing}
       /\ ~hole => b.at = top /\ (due \/ b.prev \in {b.at - base, Missing})
       /\ ~hole \/ (exchange = "OKX" /\ b.prev # Missing) => b.levels = VenueBook[b.at]

WireInv ==
  /\ exchange \in {"BYBIT", "OKX"} /\ head \in Id /\ sent \in Id /\ base \in Nat
  /\ owes \in BOOLEAN /\ holed \in BOOLEAN
  /\ exchange = "OKX" => base = 0
  /\ sent <= head /\ base < head /\ (~owes => base < sent)
  /\ last # Stream!Nothing => ~owes /\ Told(last) /\ last.to <= sent /\ (~holed => last.to = sent)
  /\ Stands(wire, sent, holed, owes)

LEMMA StreamSame ==
  /\ Stream!Missing = Missing /\ Stream!NoId = NoId /\ Stream!Empty = Empty
  /\ \A levels, from, to : Stream!Restate(levels, from, to) = Restate(levels, from, to)
  /\ \A n \in Id : Stream!VenueBook[n] = VenueBook[n]
<1>1. Stream!Missing = Missing /\ Stream!NoId = NoId /\ Stream!Empty = Empty
  BY DEF Stream!Missing, Missing, Stream!NoId, NoId, Stream!Empty, Empty, Stream!Level, Level
<1>2. \A levels, from, to : Stream!Restate(levels, from, to) = Restate(levels, from, to)
  BY DEF Stream!Restate, Restate, Stream!Level, Level, Stream!Max, Max
<1>3. \A n \in Id : Stream!VenueBook[n] = VenueBook[n]
  BY <1>1, <1>2 DEF Stream!VenueBook, VenueBook, Stream!Id, Id
<1> QED
  BY <1>1, <1>2, <1>3

\* What apply makes of a message.
LEMMA WireApplied ==
  ASSUME exchange \in {"BYBIT", "OKX"}, NEW b \in WireBooks, NEW m, Told(m), base \in Nat,
         NEW r, r = Stream!ApplyWire(b, m)
  PROVE  \/ r = b /\ ~m.snap
            /\ (b.state = "VALID" => exchange = "BYBIT" /\ m.u = b.prev /\ m.u # Missing)
         \/ r \in WireBooks /\ r.state # "VALID"
         \/ /\ r \in WireBooks /\ r.state = "VALID" /\ r.prev = m.u /\ r.at = m.to
            /\ r.levels = Restate(IF m.snap THEN Empty ELSE b.levels, m.from, m.to)
            /\ ~m.snap => /\ b.state = "VALID"
                          /\ exchange = "OKX" => m.pu = b.prev /\ b.prev # NoId
                          /\ exchange = "BYBIT" => b.prev < m.u /\ Missing \notin {m.u, b.prev}
<1> DEFINE levels  == Restate(IF m.snap THEN Empty ELSE b.levels, m.from, m.to)
           applied == [b EXCEPT !.levels = levels, !.prev = m.u, !.at = m.to]
           verdict == Stream!WireCheck(b.prev, m)
<1>1. levels \in [Level -> Id \cup {NoId}]
  <2>1. (IF m.snap THEN Empty ELSE b.levels) \in [Level -> Id \cup {NoId}]
    BY DEF Empty, WireBooks
  <2> QED
    BY <2>1, RestateType DEF Told
<1>2. m.u \in Int /\ m.to \in Int
  BY DEF Told, Id, Missing
<1> HIDE DEF levels
<1>3. /\ applied \in WireBooks /\ applied.state = b.state /\ applied.prev = m.u
      /\ applied.at = m.to /\ applied.levels = levels
  BY <1>1, <1>2 DEF WireBooks
<1>4. r = IF m.snap THEN IF m.form = "bad_levels" THEN Stream!Gap(b) ELSE [applied EXCEPT !.state = "VALID"]
          ELSE IF Stream!Discards(b) \/ verdict = "stale" THEN b
          ELSE IF verdict = "resync" THEN Stream!Resync(b)
          ELSE IF verdict = "gap" \/ m.form = "bad_levels" THEN Stream!Gap(b)
          ELSE applied
  BY StreamSame DEF Stream!ApplyWire, levels
<1> HIDE DEF applied, verdict
<1>5. /\ Stream!Gap(b) \in WireBooks /\ Stream!Gap(b).state # "VALID"
      /\ Stream!Resync(b) \in WireBooks /\ Stream!Resync(b).state # "VALID"
  BY DEF Stream!Gap, Stream!Resync, WireBooks, States
<1>6. /\ verdict \in {"next", "gap", "stale", "resync"}
      /\ exchange = "OKX" => verdict = IF b.prev # NoId /\ m.pu = b.prev THEN "next" ELSE "gap"
      /\ exchange = "BYBIT" /\ verdict = "stale" => m.u = b.prev /\ m.u # Missing
      /\ exchange = "BYBIT" /\ verdict = "next" => b.prev < m.u /\ Missing \notin {m.u, b.prev}
  BY <1>2, StreamSame DEF verdict, Stream!WireCheck, WireBooks
<1>7. Stream!Discards(b) <=> b.state # "VALID" /\ (exchange = "BYBIT" \/ b.prev # NoId)
  BY StreamSame DEF Stream!Discards
<1>8. CASE m.snap
  <2>1. CASE m.form = "bad_levels"
    BY <1>4, <1>5, <1>8, <2>1
  <2>2. CASE m.form # "bad_levels"
    <3>1. r = [applied EXCEPT !.state = "VALID"]
      BY <1>4, <1>8, <2>2
    <3>2. /\ r \in WireBooks /\ r.state = "VALID" /\ r.prev = m.u /\ r.at = m.to
          /\ r.levels = levels
      BY <1>3, <3>1 DEF WireBooks, States
    <3> QED
      BY <1>8, <3>2 DEF levels
  <2> QED
    BY <2>1, <2>2
<1>9. CASE ~m.snap
  <2>1. CASE Stream!Discards(b) \/ verdict = "stale"
    BY <1>4, <1>6, <1>7, <1>9, <2>1
  <2>2. CASE ~(Stream!Discards(b) \/ verdict = "stale") /\ (verdict # "next" \/ m.form = "bad_levels")
    BY <1>4, <1>5, <1>6, <1>9, <2>2
  <2>3. CASE ~Stream!Discards(b) /\ verdict = "next" /\ m.form # "bad_levels"
    <3>1. r = applied
      BY <1>4, <1>9, <2>3
    <3>2. b.state = "VALID"
      BY <1>6, <1>7, <2>3
    <3> QED
      BY <1>3, <1>6, <1>9, <2>3, <3>1, <3>2 DEF levels
  <2> QED
    BY <1>6, <2>1, <2>2, <2>3
<1> QED
  BY <1>8, <1>9

\* The book after a message: one that continues the stream, or the last one again.
LEMMA HandlesOK ==
  ASSUME WireInv, NEW m, Told(m), NEW top \in Id, sent <= top, m.to <= top, ~holed => m.to = top,
         m.snap \/ (~owes /\ (top = sent \/ (m.from = sent + 1 /\ m.to = top))),
         NEW r, r = Stream!ApplyWire(wire, m),
         NEW hole \in BOOLEAN, hole <=> (holed /\ ~(m.snap /\ r.state = "VALID" /\ m.to = top))
  PROVE  Stands(r, top, hole, FALSE)
<1> DEFINE b == wire
<1>1. /\ exchange \in {"BYBIT", "OKX"} /\ base \in Nat /\ b \in WireBooks
      /\ sent \in Nat /\ top \in Nat /\ m.to \in Nat /\ m.from \in Nat /\ 1 <= m.to
      /\ (exchange = "OKX" => base = 0)
  BY DEF WireInv, Stands, Told, Id
<1>2. /\ b.state = "VALID" => b.at \in 1 .. sent
      /\ b.state = "VALID" /\ exchange = "OKX" => b.prev \in {b.at, Missing}
      /\ b.state = "VALID" /\ ~holed => b.at = sent /\ (owes \/ b.prev \in {b.at - base, Missing})
      /\ b.state = "VALID" /\ (~holed \/ (exchange = "OKX" /\ b.prev # Missing))
           => b.levels = VenueBook[b.at]
  BY DEF WireInv, Stands
<1>3. CASE r = b /\ ~m.snap /\ (b.state = "VALID" => exchange = "BYBIT" /\ m.u = b.prev /\ m.u # Missing)
  <2>1. (hole <=> holed) /\ ~owes
    BY <1>3
  <2>2. b.state = "VALID" /\ ~holed => b.at = top
    <3> SUFFICES ASSUME b.state = "VALID", ~holed PROVE b.at = top
      OBVIOUS
    <3>1. b.at = sent /\ b.prev = sent - base /\ m.u = m.to - base /\ m.u = b.prev /\ m.to = top
      BY <1>2, <1>3, <2>1 DEF Told
    <3> QED
      BY <1>1, <3>1
  <2>3. b.state = "VALID" => b.at \in 1 .. top
    BY <1>1, <1>2
  <2> QED
    BY <1>1, <1>2, <1>3, <2>1, <2>2, <2>3 DEF Stands
<1>4. CASE r \in WireBooks /\ r.state # "VALID"
  BY <1>4 DEF Stands
<1>5. CASE /\ r \in WireBooks /\ r.state = "VALID" /\ r.prev = m.u /\ r.at = m.to
           /\ r.levels = Restate(IF m.snap THEN Empty ELSE b.levels, m.from, m.to)
           /\ ~m.snap => /\ b.state = "VALID"
                         /\ exchange = "OKX" => m.pu = b.prev /\ b.prev # NoId
                         /\ exchange = "BYBIT" => b.prev < m.u /\ Missing \notin {m.u, b.prev}
  <2>1. r.at \in 1 .. top /\ (exchange = "OKX" => r.prev \in {r.at, Missing})
        /\ r.prev \in {r.at - base, Missing}
    BY <1>1, <1>5 DEF Told
  <2>2. ~hole => r.at = top
    BY <1>5
  <2>3. CASE m.snap
    <3>1. r.levels = VenueBook[m.to]
      BY <1>5, <2>3 DEF Told, VenueBook
    <3> QED
      BY <1>5, <2>1, <2>2, <3>1 DEF Stands
  <2>4. CASE ~m.snap
    <3>1. b.state = "VALID" /\ (hole <=> holed) /\ ~owes /\ m.from <= m.to
          /\ r.levels = Restate(b.levels, m.from, m.to)
          /\ m.pu = IF m.u = Missing THEN Missing ELSE m.from - 1 - base
      BY <1>5, <2>4 DEF Told
    <3>2. ASSUME ~holed \/ (exchange = "OKX" /\ r.prev # Missing)
          PROVE  b.levels = VenueBook[b.at] /\ m.from <= b.at + 1 /\ b.at <= m.to
      <4>1. CASE ~holed
        <5>1. b.at = sent /\ b.levels = VenueBook[b.at] /\ m.to = top
          BY <1>2, <3>1, <4>1
        <5> QED
          BY <1>1, <2>4, <3>1, <5>1
      <4>2. CASE exchange = "OKX" /\ r.prev # Missing
        <5>1. b.prev = m.from - 1 /\ base = 0 /\ m.pu = b.prev
          BY <1>1, <1>5, <2>4, <3>1, <4>2
        <5>2. b.prev # Missing
          BY <1>1, <5>1 DEF Missing
        <5>3. b.prev = b.at /\ b.levels = VenueBook[b.at]
          BY <1>2, <3>1, <4>2, <5>2
        <5> QED
          BY <1>1, <3>1, <5>1, <5>3
      <4> QED
        BY <3>2, <4>1, <4>2
    <3>3. ASSUME ~holed \/ (exchange = "OKX" /\ r.prev # Missing)
          PROVE  r.levels = VenueBook[r.at]
      <4>1. b.at \in Id
        <5>1. b.at \in 1 .. sent /\ sent \in 1 .. MaxId /\ MaxId \in Nat
          BY <1>2, <3>1, BookAssumption DEF WireInv, Id
        <5> QED
          BY <1>1, <5>1 DEF Id
      <4> QED
        BY <1>5, <3>1, <3>2, <3>3, <4>1, Restated DEF Told
    <3> QED
      BY <1>5, <2>1, <2>2, <3>1, <3>3 DEF Stands
  <2> QED
    BY <2>3, <2>4
<1> QED
  <2>1. \/ r = b /\ ~m.snap /\ (b.state = "VALID" => exchange = "BYBIT" /\ m.u = b.prev /\ m.u # Missing)
        \/ r \in WireBooks /\ r.state # "VALID"
        \/ /\ r \in WireBooks /\ r.state = "VALID" /\ r.prev = m.u /\ r.at = m.to
           /\ r.levels = Restate(IF m.snap THEN Empty ELSE b.levels, m.from, m.to)
           /\ ~m.snap => /\ b.state = "VALID"
                         /\ exchange = "OKX" => m.pu = b.prev /\ b.prev # NoId
                         /\ exchange = "BYBIT" => b.prev < m.u /\ Missing \notin {m.u, b.prev}
    BY <1>1, WireApplied
  <2> QED
    BY <1>3, <1>4, <1>5, <2>1

\* The next message is numbered as the venue numbers.
LEMMA NextMessageTold ==
  ASSUME WireInv, Stream!Due, NEW form, NEW m, m = Stream!NextMessage(form)
  PROVE  /\ Told(m) /\ m.to = head /\ m # Stream!Nothing
         /\ m.snap \/ (~owes /\ m.from = sent + 1)
<1>1. /\ m.from = IF owes THEN 1 ELSE sent + 1
      /\ m.to = head /\ m.snap = owes
      /\ m.u = IF form = "no_ids" THEN Missing ELSE head - base
      /\ ~owes => m.pu = IF form = "no_ids" THEN Missing ELSE sent - base
  BY StreamSame DEF Stream!NextMessage
<1>2. /\ head \in Id /\ sent \in Id /\ base \in Nat /\ owes \in BOOLEAN /\ base < head
      /\ (~owes => base < sent /\ sent < head)
  BY DEF WireInv, Stream!Due, Id
<1>3. /\ head \in 1 .. MaxId /\ sent \in 1 .. MaxId /\ MaxId \in Nat /\ 1 \in Id
  BY <1>2, BookAssumption DEF Id
<1>4. m.to # NoId
  BY <1>1, <1>3 DEF NoId
<1>5. m # Stream!Nothing
  BY <1>4, StreamSame DEF Stream!Nothing
<1>6. CASE owes
  BY <1>1, <1>2, <1>3, <1>5, <1>6 DEF Told
<1>7. CASE ~owes
  <2>1. sent + 1 \in Id /\ sent + 1 <= head /\ sent + 1 > 1 /\ sent + 1 - 1 = sent
    BY <1>2, <1>3, <1>7 DEF Id
  <2>2. head - base # Missing
    BY <1>2, <1>3 DEF Missing
  <2> QED
    BY <1>1, <1>2, <1>3, <1>5, <1>7, <2>1, <2>2 DEF Told
<1> QED
  BY <1>2, <1>6, <1>7

LEMMA WireStep == ASSUME WireInv, [Stream!Next]_(Stream!vars) PROVE WireInv'
<1>1. /\ head \in Nat /\ sent \in Nat /\ base \in Nat /\ 1 <= sent /\ sent <= head
      /\ wire \in WireBooks /\ owes \in BOOLEAN /\ holed \in BOOLEAN
  BY DEF WireInv, Stands, Id
<1>2. CASE Stream!Update
  <2>1. /\ head' = head + 1 /\ head < MaxId
        /\ UNCHANGED <<exchange, sent, base, owes, last, wire, holed>>
    BY <1>2 DEF Stream!Update
  <2>2. head' \in Id /\ sent <= head' /\ base < head'
    BY <1>1, <2>1, BookAssumption DEF Id, WireInv
  <2> QED
    BY <2>1, <2>2 DEF WireInv, Stands, Told
<1>3. CASE Stream!MessageArrives
  <2>1. PICK form \in {"ok", "bad_levels", "no_ids"} : Stream!Handles(Stream!NextMessage(form))
    BY <1>3 DEF Stream!MessageArrives
  <2> DEFINE m == Stream!NextMessage(form)
  <2>2. /\ Stream!Due /\ sent' = head /\ owes' = FALSE /\ UNCHANGED <<exchange, head, base>>
        /\ last' = m /\ wire' = Stream!ApplyWire(wire, m)
        /\ holed' = (holed /\ ~(m.snap /\ wire'.state = "VALID" /\ m.to = sent'))
    BY <1>3, <2>1 DEF Stream!MessageArrives, Stream!Handles
  <2> HIDE DEF m
  <2>3. Told(m) /\ m.to = head /\ m # Stream!Nothing /\ (m.snap \/ (~owes /\ m.from = sent + 1))
    BY <2>2, NextMessageTold DEF m
  <2>4. holed' \in BOOLEAN /\ Stands(wire', head, holed', FALSE)
    <3>1. head \in Id /\ sent <= head /\ m.to <= head
      BY <1>1, <2>3 DEF WireInv
    <3>2. holed' \in BOOLEAN /\ (holed' <=> (holed /\ ~(m.snap /\ wire'.state = "VALID" /\ m.to = head)))
      BY <2>2
    <3>3. Stands(wire', head, holed', FALSE)
      BY <2>2, <2>3, <3>1, <3>2, HandlesOK
    <3> QED
      BY <3>2, <3>3
  <2>5. Stands(wire, sent, holed, owes)'
    BY <2>2, <2>4 DEF Stands
  <2>6. Told(last)'
    BY <2>2, <2>3 DEF Told
  <2>7. last'.to = sent' /\ last'.to <= sent' /\ sent' = head'
    BY <1>1, <2>2, <2>3
  <2>8. /\ exchange' \in {"BYBIT", "OKX"} /\ head' \in Id /\ sent' \in Id /\ base' \in Nat
        /\ sent' <= head' /\ base' < head' /\ base' < sent' /\ (exchange' = "OKX" => base' = 0)
    BY <1>1, <2>2 DEF WireInv
  <2>9. owes' \in BOOLEAN /\ ~owes'
    BY <2>2, Zenon
  <2> QED
    BY <2>4, <2>5, <2>6, <2>7, <2>8, <2>9 DEF WireInv
<1>4. CASE Stream!MessageLost
  <2>1. /\ sent' = head /\ owes' = FALSE /\ holed' = TRUE
        /\ UNCHANGED <<exchange, head, base, last, wire>>
    BY <1>4 DEF Stream!MessageLost
  <2>2. wire.state = "VALID" => wire.at \in 1 .. head
    BY <1>1 DEF WireInv, Stands
  <2>3. Stands(wire, sent, holed, owes)'
    BY <2>1, <2>2 DEF WireInv, Stands
  <2>4. last # Stream!Nothing => Told(last)' /\ last.to <= head
    <3>1. last # Stream!Nothing => Told(last) /\ last.to \in Int /\ last.to <= sent
      BY DEF WireInv, Told, Id
    <3> QED
      BY <1>1, <2>1, <3>1 DEF Told
  <2>5. /\ last' # Stream!Nothing' => Told(last)' /\ last'.to <= sent'
        /\ head' \in Id /\ sent' \in Id /\ sent' = head' /\ base' \in Nat /\ base' < head'
        /\ exchange' \in {"BYBIT", "OKX"} /\ (exchange' = "OKX" => base' = 0)
    BY <1>1, <2>1, <2>4 DEF WireInv, Stream!Nothing
  <2>6. owes' \in BOOLEAN /\ ~owes' /\ holed' \in BOOLEAN /\ holed'
    BY <2>1, Zenon
  <2>7. sent' <= head' /\ (~owes' => base' < sent')
    BY <1>1, <2>1, <2>5
  <2> QED
    BY <2>3, <2>5, <2>6, <2>7 DEF WireInv
<1>5. CASE Stream!MessageRepeated
  <2>1. /\ last # Stream!Nothing /\ UNCHANGED <<exchange, head, sent, base, owes>>
        /\ last' = last /\ wire' = Stream!ApplyWire(wire, last)
        /\ holed' = (holed /\ ~(last.snap /\ wire'.state = "VALID" /\ last.to = sent'))
    BY <1>5 DEF Stream!MessageRepeated, Stream!Handles
  <2>2. ~owes /\ Told(last) /\ last.to <= sent /\ (~holed => last.to = sent)
    BY <2>1 DEF WireInv
  <2>3. holed' \in BOOLEAN /\ Stands(wire', sent, holed', FALSE)
    <3>1. sent \in Id /\ sent <= sent
      BY <1>1 DEF WireInv
    <3>2. /\ holed' \in BOOLEAN
          /\ holed' <=> (holed /\ ~(last.snap /\ wire'.state = "VALID" /\ last.to = sent))
      BY <2>1
    <3>3. Stands(wire', sent, holed', FALSE)
      BY <2>1, <2>2, <3>1, <3>2, HandlesOK
    <3> QED
      BY <3>2, <3>3
  <2>4. Stands(wire, sent, holed, owes)'
    BY <2>1, <2>2, <2>3 DEF Stands
  <2>5. Told(last)'
    BY <2>1, <2>2 DEF Told
  <2> QED
    BY <1>1, <2>1, <2>2, <2>4, <2>5 DEF WireInv
<1>6. CASE Stream!Reconnects
  <2>1. /\ owes' = TRUE /\ last' = Stream!Nothing
        /\ base' \in {base} \cup (IF exchange = "BYBIT" THEN {head - 1} ELSE {})
        /\ UNCHANGED <<exchange, head, sent, wire, holed>>
    BY <1>6 DEF Stream!Reconnects
  <2>2. Stream!Nothing' = Stream!Nothing
    BY DEF Stream!Nothing
  <2>3. Stands(wire, sent, holed, owes)'
    BY <2>1 DEF WireInv, Stands
  <2>4. base' \in Nat /\ base' < head
    BY <1>1, <2>1 DEF WireInv
  <2> QED
    BY <1>1, <2>1, <2>2, <2>3, <2>4 DEF WireInv
<1>7. CASE UNCHANGED Stream!vars
  BY <1>7 DEF Stream!vars, Stream!venue, WireInv, Stands, Told
<1> QED
  BY <1>2, <1>3, <1>4, <1>5, <1>6, <1>7 DEF Stream!Next

LEMMA WireStarts == Stream!Init => WireInv
<1> SUFFICES ASSUME Stream!Init PROVE WireInv
  OBVIOUS
<1>1. /\ exchange \in {"BYBIT", "OKX"} /\ head = 1 /\ sent = 1 /\ base = 0 /\ owes = TRUE
      /\ last = Stream!Nothing /\ wire = Stream!Empties /\ holed = FALSE
  BY DEF Stream!Init
<1>2. wire.state = "RECOVERING" /\ wire \in WireBooks
  BY <1>1, StreamSame DEF Stream!Empties, WireBooks, States, Empty, NoId
<1>3. 1 \in Id
  BY BookAssumption DEF Id
<1> QED
  <2>1. /\ head \in Id /\ sent \in Id /\ base \in Nat /\ base = 0 /\ sent <= head /\ base < head
        /\ exchange \in {"BYBIT", "OKX"} /\ last = Stream!Nothing
    BY <1>1, <1>3
  <2>2. owes \in BOOLEAN /\ owes /\ holed \in BOOLEAN
    BY <1>1, Zenon
  <2>3. Stands(wire, sent, holed, owes)
    BY <1>2 DEF Stands
  <2> QED
    BY <2>1, <2>2, <2>3 DEF WireInv

LEMMA WireTrue == WireInv => Stream!WireFaithful
<1> SUFFICES ASSUME WireInv, wire.state = "VALID", ~(holed /\ (exchange = "BYBIT" \/ wire.prev = Missing))
             PROVE  wire.levels = Stream!VenueBook[wire.at]
  BY StreamSame DEF Stream!WireFaithful
<1>1. wire.at \in Id /\ wire.levels = VenueBook[wire.at]
  <2>1. wire.at \in 1 .. sent /\ sent \in 1 .. MaxId /\ MaxId \in Nat
    BY BookAssumption DEF WireInv, Stands, Id
  <2>2. wire.at \in Id
    BY <2>1 DEF Id
  <2> QED
    BY <2>2 DEF WireInv, Stands, Missing
<1> QED
  BY <1>1, StreamSame

\* Bybit and OKX: a VALID book is the venue's at the last message applied, through damaged
\* and repeated messages, reconnections and restarts of the numbering; for OKX also when
\* messages are lost and the book has an id to compare (WireFaithful, part of WireKept).
THEOREM WireBookFaithful == Stream!Spec => []Stream!WireFaithful
<1>1. Stream!Init => WireInv
  BY WireStarts
<1>2. WireInv /\ [Stream!Next]_(Stream!vars) => WireInv'
  BY WireStep
<1>3. WireInv => Stream!WireFaithful
  BY WireTrue
<1> QED
  BY <1>1, <1>2, <1>3, PTL DEF Stream!Spec

\* The same wherever MCBooks runs such a book, and its state keeps its types.
LEMMA WireAlwaysKept == MCSpec => []WireKept
<1> DEFINE I == which = "wire" => WireInv
           all == <<vars, stream, tape, which>>
<1>1. MCInit => I
  BY WireStarts DEF MCInit
<1>2. I /\ [MCNext]_all => I'
  <2> SUFFICES ASSUME I, [MCNext]_all, which' = "wire" PROVE WireInv'
    OBVIOUS
  <2>1. which = "wire" /\ [Stream!Next]_(Stream!vars)
    BY DEF MCNext, vars, venue, bounds, stream, Stream!vars, Stream!venue, Stream!bounds
  <2> QED
    BY <2>1, WireStep
<1>3. I => WireKept
  <2> SUFFICES ASSUME WireInv PROVE Stream!TypeOK /\ Stream!WireFaithful
    BY DEF WireKept
  <2>1. Stream!WireFaithful
    BY WireTrue
  <2>2. wire.state \in States /\ wire.levels \in [Level -> Id \cup {NoId}]
    BY DEF WireInv, Stands, WireBooks
  <2>3. base \in Id \cup {0}
    BY BookAssumption DEF WireInv, Id
  <2> QED
    BY <2>1, <2>2, <2>3 DEF Stream!TypeOK, WireInv, Stream!Id, Id, Stream!States, States, Stream!Level,
                            Level, Stream!NoId, NoId
<1> QED
  BY <1>1, <1>2, <1>3, PTL DEF MCSpec

\* The state of each runner in MCBooks (BooksKept).
THEOREM BooksAlwaysKept == MCSpec => []BooksKept
BY FuturesAlwaysKept, SpotAlwaysKept, WireAlwaysKept, PTL DEF BooksKept

(***************************************************************************)
(* A replayed recording                                                    *)
(***************************************************************************)
TapeFrames == [kind : {"wire", "rest"}, tick : Nat, body : Diff \cup Snap, form : Tape!Forms,
               index : Nat]

\* A frame brings what the venue sends.
FrameOK(f) ==
  /\ f \in TapeFrames
  /\ f.kind = "wire" => f.body \in Diff /\ Numbered(Venue, f.body)
  /\ f.kind = "rest" => f.body \in Snap

TapeRow == [row : Row, ms : Int]

\* An engine that has handled frames up to the millisecond m.
EngineOK(e, m) ==
  /\ e = [book |-> e.book, rows |-> e.rows, issues |-> e.issues, left |-> e.left]
  /\ Trusted(e.book) /\ e.book.venue = Venue /\ e.rows \in Seq(TapeRow)
  /\ \A i \in DOMAIN e.rows :
       /\ e.rows[i].row.levels = VenueBook[e.rows[i].row.u]
       /\ e.rows[i].ms <= m /\ e.rows[i].row.gen <= e.book.gen
  /\ \A i \in 1 .. Len(e.rows) - 1 :
       /\ e.rows[i].ms <= e.rows[i + 1].ms
       /\ Follows(e.rows[i].row, e.rows[i + 1].row)
  /\ e.rows # <<>> /\ e.book.state = "VALID" /\ e.rows[Len(e.rows)].row.gen = e.book.gen
       => e.rows[Len(e.rows)].row.u = e.book.prev

TapeClock ==
  /\ head \in Id /\ sent \in Id /\ asked \in Id \cup {NoId} /\ tick \in 0 .. MaxTick
  /\ mode \in {"recording", "replayed"} /\ hidden \in BOOLEAN /\ overtook \in BOOLEAN

TapeQueue == queue \in Seq(Diff) /\ \A i \in DOMAIN queue : Numbered(Venue, queue[i])

TapeLog == /\ log \in Seq(TapeFrames) /\ Len(log) <= MaxFrames
           /\ \A i \in DOMAIN log : FrameOK(log[i]) /\ log[i].index = i

\* The recording and its replay.
TapeInv == /\ TapeClock /\ TapeQueue /\ TapeLog /\ Trusted(live) /\ live.venue = Venue
           /\ \E m \in Int : EngineOK(replay, m)

LEMMA TapeSame ==
  /\ Tape!Id = Id /\ Tape!NoId = NoId /\ Tape!Venues = Venues /\ Tape!NoSnap = NoSnap
  /\ Tape!VenueBook = VenueBook
  /\ \A v : Tape!Fresh(v) = Fresh(v)
  /\ \A b : Tape!BookOK(b) = BookOK(b)
  /\ \A b : Tape!Gap(b) = Gap(b) /\ Tape!Resync(b) = Resync(b) /\ Tape!Invalidate(b) = Invalidate(b)
  /\ \A b, d : Tape!Apply(b, d) = Apply(b, d)
  /\ \A b, s : Tape!Attempt(b, s) = Attempt(b, s)
  /\ \A b : Tape!Retry(b) = Retry(b)
  /\ \A r, s : Tape!Follows(r, s) = Follows(r, s)
<1>1. Tape!Id = Id /\ Tape!NoId = NoId /\ Tape!Venues = Venues /\ Tape!NoSnap = NoSnap
  BY DEF Tape!Id, Id, Tape!NoId, NoId, Tape!Venues, Venues, Tape!NoSnap, NoSnap
<1>2. Tape!VenueBook = VenueBook
  BY DEF Tape!VenueBook, VenueBook, Tape!Id, Id, Tape!Empty, Empty, Tape!NoId, NoId,
         Tape!Restate, Restate, Tape!Level, Level, Tape!Max, Max
<1>9. \A v : Tape!Fresh(v) = Fresh(v)
  BY DEF Tape!Fresh, Fresh, Tape!Empty, Empty, Tape!NoId, NoId, Tape!NoSnap, NoSnap, Tape!Level, Level
<1>3. \A b : Tape!BookOK(b) = BookOK(b)
  BY DEF Tape!BookOK, BookOK, Tape!Book, Book, Tape!Id, Id, Tape!NoId, NoId, Tape!Level, Level,
         Tape!Venues, Venues, Tape!States, States, Tape!Diff, Diff, Tape!Snap, Snap, Tape!NoSnap, NoSnap
<1>4. \A b : Tape!Gap(b) = Gap(b) /\ Tape!Resync(b) = Resync(b) /\ Tape!Invalidate(b) = Invalidate(b)
  BY DEF Tape!Gap, Gap, Tape!Resync, Resync, Tape!Invalidate, Invalidate, Tape!NoId, NoId,
         Tape!NoSnap, NoSnap
<1>5. \A b, d : Tape!Apply(b, d) = Apply(b, d)
  BY DEF Tape!Apply, Apply, Tape!Check, Check, Tape!Advance, Advance, Tape!Restate, Restate,
         Tape!Level, Level, Tape!NoId, NoId, Tape!Buffer, Buffer, Tape!Gap, Gap, Tape!RowOf, RowOf,
         Tape!Max, Max
<1>6. \A b, s : Tape!Attempt(b, s) = Attempt(b, s)
  BY DEF Tape!Attempt, Attempt, Tape!Chains, Chains, Tape!Chain, Chain, Tape!VenueBook, VenueBook,
         Tape!Id, Id, Tape!Empty, Empty, Tape!NoId, NoId, Tape!Survives, Survives, Tape!Check, Check,
         Tape!Advance, Advance, Tape!Restate, Restate, Tape!Level, Level, Tape!RowOf, RowOf,
         Tape!Max, Max, Tape!Gap, Gap, Tape!Resync, Resync, Tape!NoSnap, NoSnap, Tape!Bridges, Bridges
<1>7. \A b : Tape!Retry(b) = Retry(b)
  BY <1>1, <1>6 DEF Tape!Retry, Retry
<1>8. \A r, s : Tape!Follows(r, s) = Follows(r, s)
  BY DEF Tape!Follows, Follows, Tape!Continues, Continues, Tape!NoId, NoId
<1> QED
  BY <1>1, <1>2, <1>3, <1>4, <1>5, <1>6, <1>7, <1>8, <1>9

\* What a method made of the engine's book is recorded.
LEMMA RecordOK ==
  ASSUME NEW e, NEW m \in Int, EngineOK(e, m), NEW now \in Int, m <= now,
         NEW res, Outcome(e.book, res), NEW stamped, NEW issues, NEW left, NEW r,
         stamped = [i \in DOMAIN res.rows |-> [row |-> res.rows[i], ms |-> now]],
         r = [book |-> res.book, rows |-> e.rows \o stamped, issues |-> issues, left |-> left]
  PROVE  EngineOK(r, now)
<1>1. /\ e.rows \in Seq(TapeRow) /\ Len(e.rows) \in Nat /\ res.rows \in Seq(Row)
      /\ Len(res.rows) \in Nat /\ DOMAIN res.rows = 1 .. Len(res.rows)
      /\ DOMAIN e.rows = 1 .. Len(e.rows)
  BY DEF EngineOK, Outcome
<1>2. stamped \in Seq(TapeRow) /\ Len(stamped) = Len(res.rows)
      /\ \A i \in 1 .. Len(res.rows) : stamped[i] = [row |-> res.rows[i], ms |-> now]
  <2>1. \A i \in 1 .. Len(res.rows) : [row |-> res.rows[i], ms |-> now] \in TapeRow
    BY <1>1 DEF TapeRow
  <2> QED
    BY <1>1, <2>1
<1> DEFINE n == Len(e.rows)
           k == Len(res.rows)
           rs == e.rows \o stamped
<1>3. /\ n \in Nat /\ k \in Nat /\ rs \in Seq(TapeRow) /\ Len(rs) = n + k
      /\ \A i \in 1 .. n + k : rs[i] = IF i <= n THEN e.rows[i] ELSE stamped[i - n]
      /\ \A i \in 1 .. k : stamped[i].row = res.rows[i] /\ stamped[i].ms = now
  <2>1. /\ rs \in Seq(TapeRow) /\ Len(rs) = n + k
        /\ \A i \in 1 .. n + k : rs[i] = IF i <= n THEN e.rows[i] ELSE stamped[i - n]
    <3>1. PICK new \in Seq(TapeRow) : new = stamped
      BY <1>2
    <3>2. PICK old \in Seq(TapeRow) : old = e.rows
      BY <1>1
    <3>3. /\ old \o new \in Seq(TapeRow) /\ Len(old \o new) = Len(old) + Len(new)
          /\ \A i \in 1 .. Len(old) + Len(new) :
               (old \o new)[i] = IF i <= Len(old) THEN old[i] ELSE new[i - Len(old)]
      BY ConcatProperties
    <3> QED
      BY <1>2, <3>1, <3>2, <3>3
  <2>2. \A i \in 1 .. k : stamped[i].row = res.rows[i] /\ stamped[i].ms = now
    BY <1>2
  <2> QED
    BY <1>1, <2>1, <2>2
<1>4. /\ r.rows = rs /\ r.book = res.book
      /\ r = [book |-> r.book, rows |-> r.rows, issues |-> r.issues, left |-> r.left]
      /\ (n = 0 <=> e.rows = <<>>) /\ (k = 0 <=> res.rows = <<>>)
  <2>1. (n = 0 <=> e.rows = <<>>) /\ (k = 0 <=> res.rows = <<>>)
    BY <1>1
  <2> HIDE DEF rs, n, k
  <2>2. r = [book |-> res.book, rows |-> rs, issues |-> issues, left |-> left]
    BY DEF rs
  <2>3. r.book = res.book /\ r.rows = rs
    BY <2>2
  <2>4. r = [book |-> r.book, rows |-> r.rows, issues |-> r.issues, left |-> r.left]
    BY <2>2
  <2> QED
    BY <2>1, <2>3, <2>4
<1> HIDE DEF rs, n, k
<1>5. /\ DOMAIN rs = 1 .. n + k
      /\ \A i \in 1 .. n : rs[i] = e.rows[i]
      /\ \A i \in n + 1 .. n + k : /\ i - n \in 1 .. k
                                   /\ rs[i].row = res.rows[i - n] /\ rs[i].ms = now
  <2>1. DOMAIN rs = 1 .. n + k
    BY <1>3
  <2>2. \A i \in 1 .. n : rs[i] = e.rows[i]
    BY <1>3
  <2>3. \A i \in n + 1 .. n + k : i - n \in 1 .. k /\ rs[i] = stamped[i - n]
    BY <1>3
  <2> QED
    BY <1>3, <2>1, <2>2, <2>3
<1>6. /\ Trusted(r.book) /\ r.book.gen \in Nat /\ e.book.gen \in Nat /\ e.book.gen <= r.book.gen
  <2>1. Trusted(r.book) /\ Trusted(e.book)
    BY <1>4 DEF Outcome, EngineOK
  <2>2. r.book.gen \in Nat /\ e.book.gen \in Nat
    BY <2>1, BookIs DEF Trusted, BookOK
  <2> QED
    BY <1>4, <2>1, <2>2 DEF Outcome
<1>7. \A i \in 1 .. k : /\ res.rows[i].levels = VenueBook[res.rows[i].u]
                        /\ res.rows[i].gen = r.book.gen
  <2>1. CASE k = 0
    BY <2>1
  <2>2. CASE k # 0
    <3>1. Linked(res.book, res.rows) /\ DOMAIN res.rows = 1 .. k
      BY <1>1, <1>4, <2>2 DEF Outcome, k
    <3> QED
      BY <1>4, <3>1 DEF Linked
  <2> QED
    BY <2>1, <2>2
<1>8. \A i \in 1 .. n : /\ e.rows[i].row.levels = VenueBook[e.rows[i].row.u]
                        /\ e.rows[i].ms <= m /\ e.rows[i].row.gen <= e.book.gen
                        /\ e.rows[i] \in TapeRow /\ e.rows[i].ms \in Int /\ e.rows[i].row.gen \in Nat
  <2>1. \A i \in 1 .. n : e.rows[i] \in TapeRow
    BY <1>1 DEF n
  <2>2. \A i \in 1 .. n : e.rows[i].ms \in Int /\ e.rows[i].row.gen \in Nat
    BY <2>1 DEF TapeRow, Row
  <2> QED
    BY <1>1, <2>1, <2>2 DEF EngineOK, n
<1>9. ASSUME NEW i \in 1 .. n + k
      PROVE  /\ rs[i].row.levels = VenueBook[rs[i].row.u]
             /\ rs[i].ms <= now /\ rs[i].row.gen <= r.book.gen
  <2>1. CASE i \in 1 .. n
    <3>1. /\ rs[i] = e.rows[i] /\ e.rows[i].row.levels = VenueBook[e.rows[i].row.u]
          /\ e.rows[i].ms <= m /\ e.rows[i].row.gen <= e.book.gen
          /\ e.rows[i].ms \in Int /\ e.rows[i].row.gen \in Nat
      BY <1>5, <1>8, <2>1
    <3>2. e.rows[i].ms <= now /\ e.rows[i].row.gen <= r.book.gen
      BY <1>6, <3>1
    <3> QED
      BY <3>1, <3>2
  <2>2. CASE i \in n + 1 .. n + k
    BY <1>5, <1>6, <1>7, <2>2
  <2> QED
    BY <1>3, <2>1, <2>2
<1>10. ASSUME NEW i \in 1 .. n + k - 1
       PROVE  rs[i].ms <= rs[i + 1].ms /\ Follows(rs[i].row, rs[i + 1].row)
  <2>1. CASE i + 1 <= n
    <3>1. i \in 1 .. n - 1 /\ i \in 1 .. n /\ i + 1 \in 1 .. n
      BY <1>3, <2>1
    <3>2. e.rows[i].ms <= e.rows[i + 1].ms /\ Follows(e.rows[i].row, e.rows[i + 1].row)
      BY <3>1 DEF EngineOK, n
    <3> QED
      BY <1>5, <3>1, <3>2
  <2>2. CASE i = n
    <3>1. n \in 1 .. n /\ n + 1 \in n + 1 .. n + k /\ n + 1 - n = 1 /\ 1 \in 1 .. k
      BY <1>3, <2>2
    <3>2. rs[n] = e.rows[n] /\ rs[n + 1].row = res.rows[1] /\ rs[n + 1].ms = now
      BY <1>5, <3>1
    <3>3. Follows(e.rows[n].row, res.rows[1])
      <4> SUFFICES ASSUME e.rows[n].row.gen = res.rows[1].gen
                   PROVE  Continues(e.rows[n].row, res.rows[1])
        BY DEF Follows
      <4>1. res.rows # <<>> /\ e.rows # <<>>
        BY <1>3, <1>4, <3>1
      <4>2. e.rows[n].row.gen <= e.book.gen /\ res.rows[1].gen = r.book.gen
        BY <1>7, <1>8, <3>1
      <4>3. ~(r.book.gen > e.book.gen)
        BY <1>6, <4>2
      <4>4. /\ r.book.gen = e.book.gen /\ e.book.state = "VALID"
            /\ \A row : row.u = e.book.prev => Continues(row, res.rows[1])
        BY <1>4, <4>1, <4>3 DEF Outcome
      <4>5. e.rows[n].row.u = e.book.prev
        BY <4>1, <4>2, <4>4 DEF EngineOK, n
      <4> QED
        BY <4>4, <4>5
    <3> QED
      BY <1>8, <2>2, <3>1, <3>2, <3>3
  <2>3. CASE i > n
    <3>1. /\ i \in n + 1 .. n + k /\ i + 1 \in n + 1 .. n + k /\ i - n \in 1 .. k - 1
          /\ i + 1 - n = i - n + 1
      BY <1>3, <2>3
    <3>2. res.rows # <<>>
      BY <1>3, <1>4, <3>1
    <3>3. Continues(res.rows[i - n], res.rows[i - n + 1])
      BY <3>1, <3>2 DEF Outcome, Linked, k
    <3>4. rs[i].row = res.rows[i - n] /\ rs[i + 1].row = res.rows[i - n + 1]
          /\ rs[i].ms = now /\ rs[i + 1].ms = now
      <4>1. \A j \in n + 1 .. n + k : rs[j].row = res.rows[j - n] /\ rs[j].ms = now
        BY <1>5
      <4>2. rs[i].row = res.rows[i - n] /\ rs[i].ms = now
        BY <3>1, <4>1
      <4> DEFINE j == i + 1
      <4>3. j \in n + 1 .. n + k /\ j - n = i - n + 1
        BY <1>3, <3>1
      <4> HIDE DEF j
      <4>4. rs[j].row = res.rows[i - n + 1] /\ rs[j].ms = now
        BY <4>1, <4>3
      <4> QED
        BY <4>2, <4>4 DEF j
    <3> QED
      BY <3>3, <3>4 DEF Follows
  <2> QED
    BY <1>3, <2>1, <2>2, <2>3
<1>11. ASSUME rs # <<>>, r.book.state = "VALID", rs[Len(rs)].row.gen = r.book.gen
       PROVE  rs[Len(rs)].row.u = r.book.prev
  <2>1. CASE k = 0
    <3>1. res.rows = <<>> /\ Len(rs) = n
      BY <1>3, <1>4, <2>1
    <3>2. n # 0
      BY <1>3, <1>11, <3>1
    <3>3. n \in 1 .. n /\ e.rows # <<>>
      BY <1>3, <1>4, <3>2
    <3>4. rs[n] = e.rows[n]
      BY <1>5, <3>3
    <3>5. r.book.gen = e.book.gen /\ e.book.state = "VALID" /\ r.book.prev = e.book.prev
      BY <1>4, <1>11, <3>1 DEF Outcome
    <3> QED
      BY <1>11, <3>1, <3>3, <3>4, <3>5 DEF EngineOK, n
  <2>2. CASE k # 0
    <3>1. n + k \in n + 1 .. n + k /\ n + k - n = k /\ res.rows # <<>>
      BY <1>3, <1>4, <2>2
    <3>2. rs[n + k].row = res.rows[k] /\ Len(rs) = n + k
      BY <1>3, <1>5, <3>1
    <3> QED
      BY <1>4, <3>1, <3>2 DEF Outcome, Linked, k
  <2> QED
    BY <2>1, <2>2
<1> QED
  <2>1. r.rows \in Seq(TapeRow) /\ DOMAIN r.rows = 1 .. n + k /\ Len(r.rows) = n + k
    BY <1>3, <1>5, <1>4
  <2>2. \A i \in DOMAIN r.rows : /\ r.rows[i].row.levels = VenueBook[r.rows[i].row.u]
                                /\ r.rows[i].ms <= now /\ r.rows[i].row.gen <= r.book.gen
    BY <1>4, <1>9, <2>1
  <2>3. \A i \in 1 .. Len(r.rows) - 1 : /\ r.rows[i].ms <= r.rows[i + 1].ms
                                        /\ Follows(r.rows[i].row, r.rows[i + 1].row)
    <3> SUFFICES ASSUME NEW i \in 1 .. Len(r.rows) - 1
                 PROVE  /\ r.rows[i].ms <= r.rows[i + 1].ms
                        /\ Follows(r.rows[i].row, r.rows[i + 1].row)
      OBVIOUS
    <3>1. i \in 1 .. n + k - 1
      BY <1>3, <2>1
    <3>2. rs[i].ms <= rs[i + 1].ms /\ Follows(rs[i].row, rs[i + 1].row)
      BY <1>10, <3>1
    <3>3. r.rows = rs
      BY <1>4, Zenon
    <3> QED
      BY <3>2, <3>3, Zenon
  <2>4. r.rows # <<>> /\ r.book.state = "VALID" /\ r.rows[Len(r.rows)].row.gen = r.book.gen
          => r.rows[Len(r.rows)].row.u = r.book.prev
    BY <1>4, <1>11
  <2>5. r = [book |-> r.book, rows |-> r.rows, issues |-> r.issues, left |-> r.left] /\ Trusted(r.book)
    BY <1>4, <1>6, Zenon
  <2>6. r.rows \in Seq(TapeRow)
    BY <2>1, Zenon
  <2>7. r.book.venue = Venue
    BY <1>4 DEF Outcome, EngineOK
  <2> QED
    BY <2>2, <2>3, <2>4, <2>5, <2>6, <2>7, ZenonT(40) DEF EngineOK

\* Or nothing is.
LEMMA PassedOK ==
  ASSUME NEW e, NEW m \in Int, EngineOK(e, m), NEW now \in Int, m <= now, NEW r,
         NEW issues, NEW left, r = [book |-> e.book, rows |-> e.rows, issues |-> issues, left |-> left]
  PROVE  EngineOK(r, now)
<1>1. \A i \in DOMAIN e.rows : e.rows[i].ms \in Int /\ e.rows[i].ms <= m
  <2>1. \A i \in DOMAIN e.rows : e.rows[i] \in TapeRow /\ e.rows[i].ms <= m
    BY DEF EngineOK
  <2> QED
    BY <2>1 DEF TapeRow
<1>2. \A i \in DOMAIN e.rows : e.rows[i].ms <= now
  BY <1>1
<1>3. r.book = e.book /\ r.rows = e.rows
      /\ r = [book |-> r.book, rows |-> r.rows, issues |-> r.issues, left |-> r.left]
  OBVIOUS
<1> QED
  BY <1>2, <1>3 DEF EngineOK

\* Some frame has the least of a key.
LEMMA LeastBy ==
  ASSUME NEW S, S # {}, NEW key, \A f \in S : key[f] \in Int /\ key[f] >= -1
  PROVE  \E f \in S : \A g \in S : key[f] <= key[g]
<1> DEFINE T == {key[f] + 1 : f \in S}
<1>1. T \subseteq Nat /\ T # {}
  OBVIOUS
<1>2. PICK t \in T : \A u \in T : t <= u
  BY <1>1, Smallest
<1>3. PICK f \in S : t = key[f] + 1
  OBVIOUS
<1>4. \A g \in S : key[f] + 1 <= key[g] + 1
  BY <1>2, <1>3
<1> QED
  BY <1>3, <1>4

LEMMA KeyIs ==
  ASSUME NEW f, FrameOK(f), NEW legacy
  PROVE  /\ Tape!Ms(f.tick) \in Nat
         /\ Tape!OrderKey(f, legacy)[1] = Tape!Ms(f.tick)
         /\ Tape!OrderKey(f, legacy)[4] = f.index
         /\ \A i \in 1 .. 4 : Tape!OrderKey(f, legacy)[i] \in Int /\ Tape!OrderKey(f, legacy)[i] >= -1
<1>1. f.tick \in Nat /\ f.index \in Nat
  BY DEF FrameOK, TapeFrames
<1>2. Tape!Ms(f.tick) \in Nat
  BY <1>1 DEF Tape!Ms
<1> QED
  BY <1>1, <1>2 DEF Tape!OrderKey

\* The first of some frames is one of them, and none is of an earlier millisecond.
LEMMA FirstIs ==
  ASSUME NEW S, S # {}, \A f \in S : FrameOK(f), \A f, g \in S : f.index = g.index => f = g, NEW legacy
  PROVE  /\ Tape!First(S, legacy) \in S
         /\ \A g \in S : Tape!Ms(Tape!First(S, legacy).tick) <= Tape!Ms(g.tick)
<1> DEFINE K(f) == Tape!OrderKey(f, legacy)
<1>1. \A f \in S : /\ K(f)[1] = Tape!Ms(f.tick) /\ K(f)[4] = f.index
                   /\ K(f)[1] \in Int /\ K(f)[2] \in Int /\ K(f)[3] \in Int /\ K(f)[4] \in Int
                   /\ K(f)[1] >= -1 /\ K(f)[2] >= -1 /\ K(f)[3] >= -1 /\ K(f)[4] >= -1
  BY KeyIs
<1> HIDE DEF K
<1>2. ASSUME NEW A, A \subseteq S, A # {}, NEW i \in 1 .. 4
      PROVE  \E f \in A : \A g \in A : K(f)[i] <= K(g)[i]
  <2> DEFINE key == [f \in A |-> K(f)[i]]
  <2>1. \A f \in A : key[f] = K(f)[i]
    OBVIOUS
  <2>2. \A f \in A : key[f] \in Int /\ key[f] >= -1
    BY <1>1, <1>2
  <2> HIDE DEF key
  <2>3. \E f \in A : \A g \in A : key[f] <= key[g]
    BY <1>2, <2>2, LeastBy
  <2> QED
    BY <2>1, <2>3
<1>3. PICK f1 \in S : \A g \in S : K(f1)[1] <= K(g)[1]
  <2>1. S \subseteq S /\ 1 \in 1 .. 4
    OBVIOUS
  <2> QED
    BY <1>2, <2>1
<1> DEFINE A2 == {g \in S : K(g)[1] = K(f1)[1]}
<1>4. PICK f2 \in A2 : \A g \in A2 : K(f2)[2] <= K(g)[2]
  <2>1. A2 \subseteq S /\ A2 # {} /\ 2 \in 1 .. 4
    <3>1. f1 \in A2 /\ A2 \subseteq S
      OBVIOUS
    <3> QED
      BY <3>1
  <2> HIDE DEF A2
  <2> QED
    BY <1>2, <2>1
<1> DEFINE A3 == {g \in A2 : K(g)[2] = K(f2)[2]}
<1>5. PICK f3 \in A3 : \A g \in A3 : K(f3)[3] <= K(g)[3]
  <2>1. A3 \subseteq S /\ A3 # {} /\ 3 \in 1 .. 4
    <3>1. f2 \in A3 /\ A3 \subseteq S
      OBVIOUS
    <3> QED
      BY <3>1
  <2> HIDE DEF A3
  <2> QED
    BY <1>2, <2>1
<1> DEFINE A4 == {g \in A3 : K(g)[3] = K(f3)[3]}
<1>6. PICK f4 \in A4 : \A g \in A4 : K(f4)[4] <= K(g)[4]
  <2>1. A4 \subseteq S /\ A4 # {} /\ 4 \in 1 .. 4
    <3>1. f3 \in A4 /\ A4 \subseteq S
      OBVIOUS
    <3> QED
      BY <3>1
  <2> HIDE DEF A4
  <2> QED
    BY <1>2, <2>1
<1>7. ASSUME NEW g \in S PROVE g = f4 \/ Tape!Before(K(f4), K(g))
  <2>1. /\ f4 \in S /\ f4 \in A4
        /\ K(f4)[1] = K(f1)[1] /\ K(f4)[2] = K(f2)[2] /\ K(f4)[3] = K(f3)[3]
    OBVIOUS
  <2>2. CASE g \notin A2
    <3>1. K(f4)[1] < K(g)[1]
      BY <1>1, <1>3, <2>1, <2>2
    <3> QED
      BY <3>1 DEF Tape!Before
  <2>3. CASE g \in A2 /\ g \notin A3
    <3>1. K(f4)[1] = K(g)[1] /\ K(f4)[2] < K(g)[2]
      BY <1>1, <1>4, <2>1, <2>3
    <3> QED
      BY <3>1 DEF Tape!Before
  <2>4. CASE g \in A3 /\ g \notin A4
    <3>1. K(f4)[1] = K(g)[1] /\ K(f4)[2] = K(g)[2] /\ K(f4)[3] < K(g)[3]
      BY <1>1, <1>5, <2>1, <2>4
    <3> QED
      BY <3>1 DEF Tape!Before
  <2>5. CASE g \in A4 /\ g # f4
    <3>1. K(f4)[1] = K(g)[1] /\ K(f4)[2] = K(g)[2] /\ K(f4)[3] = K(g)[3]
      BY <2>1, <2>5
    <3>2. K(f4)[4] <= K(g)[4] /\ K(f4)[4] # K(g)[4]
      BY <1>1, <1>6, <2>1, <2>5
    <3>3. K(f4)[4] < K(g)[4]
      BY <1>1, <2>1, <3>2
    <3> QED
      BY <3>1, <3>3 DEF Tape!Before
  <2> QED
    BY <2>2, <2>3, <2>4, <2>5
<1>8. f4 \in S
  OBVIOUS
<1> DEFINE first == Tape!First(S, legacy)
<1>9. first = CHOOSE f \in S : \A g \in S : g = f \/ Tape!Before(K(f), K(g))
  BY DEF Tape!First, K
<1>10. first \in S /\ \A g \in S : g = first \/ Tape!Before(K(first), K(g))
  <2> HIDE DEF first
  <2> QED
    BY <1>7, <1>8, <1>9
<1>11. ASSUME NEW g \in S PROVE K(first)[1] <= K(g)[1]
  <2> HIDE DEF first
  <2>1. CASE g = first
    BY <1>1, <1>10, <2>1
  <2>2. CASE Tape!Before(K(first), K(g))
    BY <1>1, <1>10, <2>2 DEF Tape!Before
  <2> QED
    BY <1>10, <2>1, <2>2
<1> QED
  <2> HIDE DEF first
  <2>1. \A g \in S : Tape!Ms(first.tick) <= Tape!Ms(g.tick)
    BY <1>1, <1>10, <1>11
  <2> QED
    BY <1>10, <2>1 DEF first

LEMMA TapeCard == \A S : Tape!Cardinality(S) = Cardinality(S)
  BY DEF Tape!Cardinality, Cardinality

\* A retained snapshot is tried once more, or twice, after the book has taken a diff.
LEMMA RetryPendingOK ==
  ASSUME NEW b, Trusted(b), NEW res, Outcome(b, res)
  PROVE  Outcome(b, Tape!RetryPending(res))
<1> DEFINE none  == [book |-> res.book, rows |-> <<>>, why |-> "none"]
           first == IF res.book.prev = NoId THEN Retry(res.book) ELSE none
           again == Retry(first.book)
<1>1. Tape!RetryPending(res) = IF res.rows # <<>> THEN res
                               ELSE IF first.why = "bridged" \/ res.book.state = "VALID" THEN first
                               ELSE again
  BY TapeSame DEF Tape!RetryPending
<1>2. Trusted(res.book)
  BY DEF Outcome
<1>3. Outcome(res.book, first)
  <2>1. Outcome(res.book, none)
    BY <1>2 DEF Outcome
  <2> QED
    BY <1>2, <2>1, RetryOK
<1>4. first.why # "bridged" => first.rows = <<>>
  BY DEF Retry, Attempt
<1> HIDE DEF first
<1>5. Outcome(first.book, again)
  <2>1. Trusted(first.book)
    BY <1>3 DEF Outcome
  <2> QED
    BY <2>1, RetryOK
<1> HIDE DEF again
<1>6. CASE res.rows = <<>>
  <2>1. Outcome(b, first)
    BY <1>3, <1>6, ThenOK
  <2>2. first.why # "bridged" => Outcome(b, again)
    BY <1>4, <1>5, <2>1, ThenOK
  <2> QED
    BY <1>1, <1>6, <2>1, <2>2
<1> QED
  BY <1>1, <1>6

\* An engine's fields, when it is done with a frame.
LEMMA LeftIs ==
  ASSUME NEW bk, NEW rs, NEW is, NEW lf, NEW f, NEW c,
         c = [book |-> bk, rows |-> rs, issues |-> is, left |-> lf]
  PROVE  [c EXCEPT !.left = @ \ {f}] = [book |-> bk, rows |-> rs, issues |-> is, left |-> lf \ {f}]
OBVIOUS

\* The engine handles the next of its frames.
LEMMA DispatchedOK ==
  ASSUME NEW e, NEW m \in Int, EngineOK(e, m), NEW f, FrameOK(f), m <= Tape!Ms(f.tick),
         NEW r, r = [Tape!Dispatch(e, f) EXCEPT !.left = @ \ {f}]
  PROVE  EngineOK(r, Tape!Ms(f.tick)) /\ r.left = e.left \ {f}
<1> DEFINE now == Tape!Ms(f.tick)
<1>1. /\ e = [book |-> e.book, rows |-> e.rows, issues |-> e.issues, left |-> e.left]
      /\ Trusted(e.book) /\ e.book.venue = Venue /\ now \in Int /\ m <= now
  <2>1. now \in Nat
    BY KeyIs
  <2> QED
    BY <2>1 DEF EngineOK
<1>2. PICK bk, rs, js, lf : e = [book |-> bk, rows |-> rs, issues |-> js, left |-> lf]
  BY <1>1
<1>3. bk = e.book /\ rs = e.rows /\ lf = e.left
  BY <1>2
<1>4. ASSUME NEW c, NEW is, c = [e EXCEPT !.issues = is]
      PROVE  /\ EngineOK([c EXCEPT !.left = @ \ {f}], now)
             /\ [c EXCEPT !.left = @ \ {f}].left = e.left \ {f}
  <2>1. c = [book |-> e.book, rows |-> e.rows, issues |-> is, left |-> e.left]
    BY <1>1, <1>4
  <2> DEFINE s == [book |-> e.book, rows |-> e.rows, issues |-> is, left |-> e.left \ {f}]
  <2>2. [c EXCEPT !.left = @ \ {f}] = s
    <3>1. c = [book |-> bk, rows |-> rs, issues |-> is, left |-> lf]
      BY <1>3, <2>1
    <3>2. [c EXCEPT !.left = @ \ {f}] = [book |-> bk, rows |-> rs, issues |-> is, left |-> lf \ {f}]
      BY <3>1, LeftIs
    <3> QED
      BY <1>3, <3>2
  <2>3. s.left = e.left \ {f}
    OBVIOUS
  <2>4. EngineOK(s, now)
    <3> HIDE DEF now
    <3> QED
      BY <1>1, PassedOK
  <2> QED
    BY <2>2, <2>3, <2>4, Zenon
<1>5. ASSUME NEW c, NEW is, c = [e EXCEPT !.issues = is], NEW x, Outcome(e.book, x)
      PROVE  /\ EngineOK([Tape!Record(c, x, f) EXCEPT !.left = @ \ {f}], now)
             /\ [Tape!Record(c, x, f) EXCEPT !.left = @ \ {f}].left = e.left \ {f}
  <2>1. c = [book |-> e.book, rows |-> e.rows, issues |-> is, left |-> e.left]
    BY <1>1, <1>5
  <2> DEFINE stamped == [i \in DOMAIN x.rows |-> [row |-> x.rows[i], ms |-> now]]
             all == e.rows \o stamped
             s   == [book |-> x.book, rows |-> all, issues |-> is, left |-> e.left \ {f}]
  <2>2. [Tape!Record(c, x, f) EXCEPT !.left = @ \ {f}] = s
    <3>1. c = [book |-> bk, rows |-> rs, issues |-> is, left |-> lf]
      BY <1>3, <2>1
    <3> DEFINE filed == c.rows \o stamped
               bk2   == x.book
               d     == Tape!Record(c, x, f)
    <3>2. d = [c EXCEPT !.book = bk2, !.rows = filed]
      BY DEF Tape!Record
    <3>3. filed = all
      BY <2>1
    <3> HIDE DEF filed, bk2, all, d
    <3>4. [d EXCEPT !.left = @ \ {f}] = [book |-> bk2, rows |-> filed, issues |-> is, left |-> lf \ {f}]
      <4>1. d \in [book : {bk2}, rows : {filed}, issues : {is}, left : {lf}]
        <5>1. c \in [book : {bk}, rows : {rs}, issues : {is}, left : {lf}]
          BY ONLY <3>1
        <5> QED
          BY ONLY <3>2, <5>1
      <4>2. d = [book |-> d.book, rows |-> d.rows, issues |-> d.issues, left |-> d.left]
        BY ONLY <4>1
      <4>3. d.book = bk2 /\ d.rows = filed /\ d.issues = is /\ d.left = lf
        BY ONLY <4>1
      <4>4. d = [book |-> bk2, rows |-> filed, issues |-> is, left |-> lf]
        BY ONLY <4>2, <4>3, Zenon
      <4> QED
        BY ONLY <4>4, LeftIs
    <3> QED
      BY <1>3, <3>3, <3>4 DEF bk2, d
  <2>3. s.left = e.left \ {f}
    OBVIOUS
  <2>4. EngineOK(s, now)
    <3> HIDE DEF now
    <3> QED
      BY <1>1, <1>5, RecordOK
  <2> QED
    BY <2>2, <2>3, <2>4, Zenon
<1>6. e = [e EXCEPT !.issues = e.issues]
  BY <1>1
<1> HIDE DEF now
<1>7. CASE f.kind = "wire"
  <2>1. r = [Tape!HandleWire(e, f) EXCEPT !.left = @ \ {f}]
    BY <1>7 DEF Tape!Dispatch
  <2>2. CASE f.form = "ok"
    <3> DEFINE x == Tape!RetryPending(Apply(e.book, f.body))
    <3>1. Outcome(e.book, x)
      <4>1. Outcome(e.book, Apply(e.book, f.body))
        BY <1>1, <1>7, ApplyOK DEF FrameOK
      <4> QED
        BY <1>1, <4>1, RetryPendingOK
    <3>2. r = [Tape!Record(e, x, f) EXCEPT !.left = @ \ {f}]
      BY <2>1, <2>2, TapeSame DEF Tape!HandleWire
    <3> HIDE DEF x
    <3> QED
      BY <1>5, <1>6, <3>1, <3>2, Zenon DEF now
  <2>3. CASE f.form # "ok"
    <3>1. \E is : Tape!HandleWire(e, f) = [e EXCEPT !.issues = is]
      BY <2>3 DEF Tape!HandleWire
    <3> QED
      BY <1>4, <2>1, <3>1, Zenon DEF now
  <2> QED
    BY <2>2, <2>3
<1>8. CASE f.kind # "wire"
  <2> DEFINE x == Attempt(e.book, f.body)
             rejected == [e EXCEPT !.issues = @ \cup {"snapshots_rejected"}]
  <2>1. f.body \in Snap
    BY <1>8 DEF FrameOK, TapeFrames
  <2>2. Outcome(e.book, x)
    BY <1>1, <2>1, AttemptOK
  <2>3. PICK is : rejected = [e EXCEPT !.issues = is]
    OBVIOUS
  <2>4. \/ r = [rejected EXCEPT !.left = @ \ {f}]
        \/ r = [Tape!Record(e, x, f) EXCEPT !.left = @ \ {f}]
        \/ r = [Tape!Record(rejected, x, f) EXCEPT !.left = @ \ {f}]
    BY <1>8, TapeSame DEF Tape!Dispatch, Tape!HandleSnapshot
  <2> HIDE DEF x, rejected
  <2>5. CASE r = [rejected EXCEPT !.left = @ \ {f}]
    <3>1. /\ EngineOK([rejected EXCEPT !.left = @ \ {f}], now)
          /\ [rejected EXCEPT !.left = @ \ {f}].left = e.left \ {f}
      BY <1>4, <2>3
    <3> QED
      BY <2>5, <3>1, Zenon DEF now
  <2>6. CASE r = [Tape!Record(e, x, f) EXCEPT !.left = @ \ {f}]
    BY <1>5, <1>6, <2>2, <2>6, Zenon DEF now
  <2>7. CASE r = [Tape!Record(rejected, x, f) EXCEPT !.left = @ \ {f}]
    <3>1. /\ EngineOK([Tape!Record(rejected, x, f) EXCEPT !.left = @ \ {f}], now)
          /\ [Tape!Record(rejected, x, f) EXCEPT !.left = @ \ {f}].left = e.left \ {f}
      BY <1>5, <2>2, <2>3
    <3> QED
      BY <2>7, <3>1, Zenon DEF now
  <2> QED
    BY <2>4, <2>5, <2>6, <2>7
<1> QED
  BY <1>7, <1>8

\* The engine that reads the recording is a fold over its frames.
LEMMA EngineAre ==
  ASSUME NEW issues, NEW legacy, NEW N \in Nat, N = Cardinality(Tape!Readable)
  PROVE  LET after == Tape!Engine(issues, legacy) IN
         /\ after[0] = [book |-> Fresh(Venue), rows |-> <<>>, issues |-> issues, left |-> Tape!Readable]
         /\ \A n \in 1 .. N :
              after[n] = [Tape!Dispatch(after[n - 1], Tape!First(after[n - 1].left, legacy))
                            EXCEPT !.left = @ \ {Tape!First(after[n - 1].left, legacy)}]
<1> DEFINE Start == [book |-> Fresh(Venue), rows |-> <<>>, issues |-> issues, left |-> Tape!Readable]
           Turn(e) == [Tape!Dispatch(e, Tape!First(e.left, legacy))
                         EXCEPT !.left = @ \ {Tape!First(e.left, legacy)}]
           Body(g, n) == IF n = 0 THEN Start ELSE Turn(g[n - 1])
           Is(g, k) == g = [n \in 0 .. k |-> Body(g, n)]
           T == {k \in Nat : ~ \E g : Is(g, k)}
<1>1. Tape!Engine(issues, legacy) = CHOOSE g : Is(g, N)
  BY TapeSame, TapeCard DEF Tape!Engine
<1> HIDE DEF Start, Turn
<1>2. T = {}
  <2> SUFFICES ASSUME T # {} PROVE FALSE
    OBVIOUS
  <2>1. PICK k \in T : \A m \in T : k <= m
    BY Smallest
  <2>2. k # 0
    <3> DEFINE g == [n \in 0 .. 0 |-> Start]
    <3>1. Is(g, 0)
      <4>1. \A n \in 0 .. 0 : n = 0
        OBVIOUS
      <4> QED
        BY <4>1
    <3>2. \E f : Is(f, 0)
      BY <3>1
    <3> QED
      BY <2>1, <3>2
  <2>3. PICK g : Is(g, k - 1)
    <3>1. k - 1 \in Nat /\ ~(k <= k - 1)
      BY <2>1, <2>2
    <3>2. k - 1 \notin T
      BY <2>1, <3>1
    <3> QED
      BY <3>1, <3>2
  <2> DEFINE h == [n \in 0 .. k |-> IF n = k THEN Turn(g[k - 1]) ELSE g[n]]
  <2>4. Is(h, k)
    <3>1. \A n \in 0 .. k - 1 : g[n] = Body(g, n)
      BY <2>3
    <3>2. k \in Nat /\ k # 0
      BY <2>1, <2>2
    <3>3. ASSUME NEW n \in 0 .. k - 1 PROVE h[n] = Body(h, n)
      <4>1. n # k /\ n \in 0 .. k /\ (n # 0 => n - 1 \in 0 .. k /\ n - 1 # k)
        BY <3>2
      <4>2. h[n] = g[n] /\ (n # 0 => h[n - 1] = g[n - 1])
        BY <4>1
      <4> QED
        BY <3>1, <4>2
    <3>4. h[k] = Body(h, k)
      <4>1. k \in 0 .. k /\ k - 1 \in 0 .. k /\ k - 1 # k
        BY <3>2
      <4>2. h[k] = Turn(g[k - 1]) /\ h[k - 1] = g[k - 1]
        BY <4>1
      <4> QED
        BY <3>2, <4>2
    <3>5. \A n \in 0 .. k : n \in 0 .. k - 1 \/ n = k
      BY <3>2
    <3>6. \A n \in 0 .. k : h[n] = Body(h, n)
      BY <3>3, <3>4, <3>5
    <3>7. h = [n \in 0 .. k |-> h[n]]
      OBVIOUS
    <3> HIDE DEF h, Body
    <3> QED
      BY <3>6, <3>7
  <2> QED
    BY <2>1, <2>4
<1>3. PICK g : Is(g, N)
  BY <1>2
<1> DEFINE after == Tape!Engine(issues, legacy)
<1>4. Is(after, N)
  BY <1>1, <1>3
<1> HIDE DEF after
<1>5. \A n \in 0 .. N : after[n] = Body(after, n)
  BY <1>4
<1>6. after[0] = Start /\ \A n \in 1 .. N : after[n] = Turn(after[n - 1])
  BY <1>5
<1> QED
  BY <1>6 DEF after, Start, Turn

LEMMA TapeMade ==
  ASSUME log \in Seq(TapeFrames), \A i \in DOMAIN log : FrameOK(log[i]) /\ log[i].index = i
  PROVE  /\ IsFiniteSet(Tape!Readable) /\ \A f \in Tape!Readable : FrameOK(f)
         /\ \A f, g \in Tape!Readable : f.index = g.index => f = g
<1> DEFINE R == Tape!Readable
<1>1. \A f \in R : f.index \in 1 .. Len(log) /\ f = log[f.index] /\ FrameOK(f)
  BY DEF Tape!Readable, Tape!Range
<1> HIDE DEF R
<1>2. \A f, g \in R : f.index = g.index => f = g
  BY <1>1
<1>3. IsFiniteSet(R)
  <2> DEFINE index == [f \in R |-> f.index]
  <2>1. index \in Injection(R, 1 .. Len(log))
    BY <1>1, <1>2 DEF Injection, IsInjective
  <2>2. IsFiniteSet(1 .. Len(log))
    BY FS_Interval
  <2> QED
    BY <2>1, <2>2, FS_Injection
<1> QED
  BY <1>1, <1>2, <1>3 DEF R

LEMMA FreshOK ==
  ASSUME NEW issues, NEW left
  PROVE  /\ Trusted(Fresh(Venue))
         /\ \A m \in Int : EngineOK([book |-> Fresh(Venue), rows |-> <<>>, issues |-> issues, left |-> left], m)
<1> DEFINE e == [book |-> Fresh(Venue), rows |-> <<>>, issues |-> issues, left |-> left]
<1>1. Trusted(Fresh(Venue))
  <2>1. Empty \in [Level -> Id \cup {NoId}]
    BY DEF Empty
  <2>2. Venue \in Venues
    BY TapeAssumption, TapeSame DEF Tape!ReplayAssumption
  <2>3. Fresh(Venue) \in Book
    BY <2>1, <2>2 DEF Fresh, Book, States
  <2> QED
    BY <2>3, BookAssumption DEF Trusted, BookOK, Fresh
<1>2. e.book = Fresh(Venue) /\ e.rows = <<>> /\ e.issues = issues /\ e.left = left
  OBVIOUS
<1> HIDE DEF e
<1>3. e = [book |-> e.book, rows |-> e.rows, issues |-> e.issues, left |-> e.left]
  BY <1>2 DEF e
<1>4. e.book.venue = Venue
  BY <1>2 DEF Fresh
<1>5. \A m \in Int : EngineOK(e, m)
  BY <1>1, <1>2, <1>3, <1>4 DEF EngineOK
<1> QED
  BY <1>1, <1>5 DEF e

\* The engine after the last frame, as after each.
LEMMA ReplayOK ==
  ASSUME log \in Seq(TapeFrames), \A i \in DOMAIN log : FrameOK(log[i]) /\ log[i].index = i,
         NEW issues, NEW legacy
  PROVE  \E m \in Int : EngineOK(Tape!Engine(issues, legacy)[Tape!Cardinality(Tape!Readable)], m)
<1> DEFINE R     == Tape!Readable
           N     == Cardinality(R)
           after == Tape!Engine(issues, legacy)
           Good(n) == LET e == after[n] IN
                      /\ e.left \subseteq R /\ IsFiniteSet(e.left) /\ Cardinality(e.left) = N - n
                      /\ \E m \in Int : EngineOK(e, m) /\ \A f \in e.left : m <= Tape!Ms(f.tick)
           Bad   == {n \in 0 .. N : ~Good(n)}
<1>1. /\ IsFiniteSet(R) /\ N \in Nat /\ \A f \in R : FrameOK(f)
      /\ \A f, g \in R : f.index = g.index => f = g
  BY TapeMade, FS_CardinalityType
<1>2. /\ after[0] = [book |-> Fresh(Venue), rows |-> <<>>, issues |-> issues, left |-> R]
      /\ \A n \in 1 .. N : after[n] = [Tape!Dispatch(after[n - 1], Tape!First(after[n - 1].left, legacy))
                            EXCEPT !.left = @ \ {Tape!First(after[n - 1].left, legacy)}]
  BY <1>1, EngineAre
<1> HIDE DEF R, N, after
<1>3. Good(0)
  <2>1. \A f \in R : Tape!Ms(f.tick) \in Nat
    BY <1>1, KeyIs
  <2>2. after[0].left = R /\ EngineOK(after[0], 0) /\ 0 \in Int /\ \A f \in R : 0 <= Tape!Ms(f.tick)
    BY <1>2, <2>1, FreshOK
  <2> QED
    BY <1>1, <2>2 DEF N
<1>4. ASSUME NEW n \in 1 .. N, Good(n - 1) PROVE Good(n)
  <2> DEFINE e == after[n - 1]
             f == Tape!First(e.left, legacy)
             r == after[n]
  <2>1. /\ e.left \subseteq R /\ IsFiniteSet(e.left) /\ Cardinality(e.left) = N - (n - 1)
        /\ r = [Tape!Dispatch(e, f) EXCEPT !.left = @ \ {f}]
    BY <1>2, <1>4
  <2>2. PICK m \in Int : EngineOK(e, m) /\ \A g \in e.left : m <= Tape!Ms(g.tick)
    BY <1>4
  <2> HIDE DEF e, r
  <2>3. e.left # {}
    <3>1. Cardinality(e.left) # 0
      BY <1>1, <2>1
    <3> QED
      BY <3>1, FS_EmptySet
  <2>4. f \in e.left /\ \A g \in e.left : Tape!Ms(f.tick) <= Tape!Ms(g.tick)
    <3>1. /\ \A g \in e.left : FrameOK(g)
          /\ \A g, h \in e.left : g.index = h.index => g = h
      BY <1>1, <2>1
    <3> QED
      BY <2>3, <3>1, FirstIs
  <2> HIDE DEF f
  <2>5. FrameOK(f) /\ m <= Tape!Ms(f.tick) /\ Tape!Ms(f.tick) \in Int
    <3>1. FrameOK(f) /\ m <= Tape!Ms(f.tick)
      BY <1>1, <2>1, <2>2, <2>4
    <3> QED
      BY <3>1, KeyIs
  <2>6. EngineOK(r, Tape!Ms(f.tick)) /\ r.left = e.left \ {f}
    BY <2>1, <2>2, <2>5, DispatchedOK
  <2>7. IsFiniteSet(r.left) /\ Cardinality(r.left) = N - n
    <3>1. IsFiniteSet(e.left \ {f}) /\ Cardinality(e.left \ {f}) = Cardinality(e.left) - 1
      BY <2>1, <2>4, FS_RemoveElement
    <3>2. Cardinality(e.left) - 1 = N - n
      BY <1>1, <2>1
    <3> QED
      BY <2>6, <3>1, <3>2
  <2>8. r.left \subseteq R /\ \A g \in r.left : Tape!Ms(f.tick) <= Tape!Ms(g.tick)
    BY <2>1, <2>4, <2>6
  <2> QED
    BY <2>5, <2>6, <2>7, <2>8 DEF r
<1> HIDE DEF Good
<1>5. Bad = {}
  <2> SUFFICES ASSUME Bad # {} PROVE FALSE
    OBVIOUS
  <2>1. Bad \subseteq Nat
    OBVIOUS
  <2>2. PICK n \in Bad : \A k \in Bad : n <= k
    BY <2>1, Smallest
  <2>3. n \in 1 .. N
    BY <1>1, <1>3, <2>2
  <2>4. n - 1 \in 0 .. N /\ ~(n <= n - 1)
    BY <1>1, <2>3
  <2>5. Good(n - 1)
    BY <2>2, <2>4
  <2> QED
    BY <1>4, <2>2, <2>3, <2>5
<1>6. Good(N)
  <2>1. N \in 0 .. N
    BY <1>1
  <2> QED
    BY <1>5, <2>1
<1>7. \E m \in Int : EngineOK(after[N], m)
  BY <1>6 DEF Good
<1> QED
  BY <1>7, TapeCard DEF after, N, R

LEMMA TapeStarts ==
  ASSUME Tape!ReplayAssumption, Tape!Init
  PROVE  TapeInv
<1>1. /\ head = 1 /\ sent = 1 /\ asked = NoId /\ tick = 0 /\ queue = <<>> /\ live = Fresh(Venue) /\ log = <<>>
      /\ hidden = FALSE /\ overtook = FALSE /\ mode = "recording"
      /\ replay = [book |-> Fresh(Venue), rows |-> <<>>, issues |-> {}, left |-> {}]
  BY TapeSame DEF Tape!Init
<1>2. MaxFrames \in Nat /\ MaxTick \in Nat /\ MaxId \in Nat \ {0}
  BY BookAssumption DEF Tape!ReplayAssumption
<1>3. TapeClock
  <2>1. head \in Id /\ sent \in Id /\ tick \in 0 .. MaxTick
    BY <1>1, <1>2 DEF Id
  <2> QED
    BY <1>1, <2>1 DEF TapeClock
<1>4. TapeQueue /\ TapeLog
  BY <1>1, <1>2 DEF TapeQueue, TapeLog
<1>5. Trusted(live) /\ EngineOK(replay, 0)
  BY <1>1, FreshOK
<1>6. live.venue = Venue
  BY <1>1 DEF Fresh
<1> QED
  BY <1>3, <1>4, <1>5, <1>6 DEF TapeInv

\* What a diff's handlers make of the collector's book.
LEMMA LiveApplyOK ==
  ASSUME NEW b, Trusted(b), NEW d \in Diff, Numbered(b.venue, d)
  PROVE  Trusted(Tape!LiveApply(b, d).book) /\ Tape!LiveApply(b, d).book.venue = b.venue
<1> DEFINE res == Apply(b, d)
<1>1. Trusted(res.book) /\ res.book.venue = b.venue
  BY ApplyOK DEF Outcome
<1>2. Tape!LiveApply(b, d) \in {res, Retry(res.book)}
  BY TapeSame DEF Tape!LiveApply
<1> HIDE DEF res
<1>3. Trusted(Retry(res.book).book) /\ Retry(res.book).book.venue = b.venue
  BY <1>1, RetryOK DEF Outcome
<1> QED
  BY <1>1, <1>2, <1>3

LEMMA TapeDiffOK ==
  ASSUME TapeClock, sent < head
  PROVE  Tape!NextDiff \in Diff /\ Numbered(Venue, Tape!NextDiff)
<1> DEFINE d == Tape!NextDiff
<1>1. sent \in Nat /\ head \in Nat /\ 1 <= sent /\ head <= MaxId /\ MaxId \in Nat
  BY BookAssumption DEF TapeClock, Id
<1>2. sent + 1 \in Id /\ head \in Id /\ sent \in Id /\ sent + 1 <= head /\ sent = sent + 1 - 1
  BY <1>1 DEF TapeClock, Id
<1>3. d = [U |-> sent + 1, u |-> head, form |-> "ok", pu |-> IF Venue = "BINANCE" THEN sent ELSE NoId]
  BY TapeSame DEF Tape!NextDiff
<1> DEFINE pu == IF Venue = "BINANCE" THEN sent ELSE NoId
<1>4. pu \in Id \cup {NoId}
  BY <1>2
<1> HIDE DEF pu
<1>5. d \in Diff
  BY <1>2, <1>3, <1>4 DEF Diff, pu
<1>6. Numbered(Venue, d)
  <2>1. d.U = sent + 1 /\ d.u = head /\ d.pu = pu
    BY <1>3 DEF pu
  <2> HIDE DEF d
  <2>2. d.U - 1 = sent /\ d.U <= d.u
    BY <1>1, <1>2, <2>1
  <2> QED
    BY <2>1, <2>2 DEF Numbered, pu
<1> QED
  BY <1>5, <1>6

LEMMA ClockOK ==
  ASSUME Tape!ReplayAssumption, tick \in 0 .. MaxTick, NEW steady \in BOOLEAN, Tape!Clock(steady)
  PROVE  tick' \in 0 .. MaxTick /\ tick' \in Nat
BY DEF Tape!Clock, Tape!ReplayAssumption

\* A frame is recorded, or lost.
LEMMA RecordedOK ==
  ASSUME Tape!ReplayAssumption, TapeLog, hidden \in BOOLEAN, tick' \in Nat,
         NEW kind \in {"wire", "rest"}, NEW body, NEW form \in Tape!Forms, NEW lost \in BOOLEAN,
         kind = "wire" => body \in Diff /\ Numbered(Venue, body), kind = "rest" => body \in Snap,
         Tape!Recorded(Tape!Frame(kind, body, form), lost)
  PROVE  TapeLog' /\ hidden' \in BOOLEAN
<1>1. CASE lost
  BY <1>1 DEF Tape!Recorded, TapeLog
<1>2. CASE ~lost
  <2> DEFINE f == [kind |-> kind, tick |-> tick', body |-> body, form |-> form, index |-> Len(log) + 1]
  <2>1. Len(log) < MaxFrames /\ hidden' = hidden /\ log' = Append(log, f)
    BY <1>2 DEF Tape!Recorded, Tape!Frame
  <2>2. log \in Seq(TapeFrames) /\ Len(log) \in Nat /\ MaxFrames \in Nat
    BY DEF TapeLog, Tape!ReplayAssumption
  <2>3. f \in TapeFrames /\ f.kind = kind /\ f.body = body /\ f.index = Len(log) + 1
    BY <2>2 DEF TapeFrames
  <2>4. FrameOK(f)
    BY <2>3 DEF FrameOK
  <2> HIDE DEF f
  <2>5. /\ log' \in Seq(TapeFrames) /\ Len(log') = Len(log) + 1 /\ DOMAIN log' = 1 .. Len(log) + 1
        /\ DOMAIN log = 1 .. Len(log)
        /\ \A i \in 1 .. Len(log) + 1 : log'[i] = IF i = Len(log) + 1 THEN f ELSE log[i]
    BY <2>1, <2>2, <2>3
  <2>6. ASSUME NEW i \in DOMAIN log' PROVE FrameOK(log'[i]) /\ log'[i].index = i
    <3>1. CASE i = Len(log) + 1
      BY <2>3, <2>4, <2>5, <3>1
    <3>2. CASE i # Len(log) + 1
      <4>1. i \in DOMAIN log /\ log'[i] = log[i]
        BY <2>2, <2>5, <3>2
      <4> QED
        BY <4>1 DEF TapeLog
    <3> QED
      BY <3>1, <3>2
  <2> QED
    BY <2>1, <2>2, <2>5, <2>6 DEF TapeLog
<1> QED
  BY <1>1, <1>2

LEMMA TapeStep ==
  ASSUME Tape!ReplayAssumption, TapeInv, [Tape!Next]_(Tape!vars)
  PROVE  TapeInv'
<1> DEFINE Engine == \E m \in Int : EngineOK(replay, m)
<1>1. /\ TapeClock /\ TapeQueue /\ TapeLog /\ Trusted(live) /\ live.venue = Venue /\ Engine
      /\ hidden \in BOOLEAN /\ tick \in 0 .. MaxTick /\ MaxTick \in Nat /\ MaxId \in Nat
      /\ head \in Id /\ sent \in Id /\ asked \in Id \cup {NoId} /\ Tape!NoId = NoId
  BY BookAssumption, TapeSame DEF TapeInv, TapeClock, Tape!ReplayAssumption
<1> HIDE DEF Engine
<1>2. UNCHANGED queue => TapeQueue'
  BY <1>1 DEF TapeQueue
<1>3. UNCHANGED log => TapeLog'
  BY <1>1 DEF TapeLog
<1>4. UNCHANGED replay => Engine'
  BY <1>1 DEF Engine
<1>5. ASSUME Tape!Recording
      PROVE  UNCHANGED <<replay, mode>> /\ Engine' /\ mode' \in {"recording", "replayed"}
  BY <1>1, <1>4, <1>5 DEF Tape!Recording, TapeClock
<1>6. ASSUME TapeClock', TapeQueue', TapeLog', Trusted(live)', live'.venue = Venue, Engine' PROVE TapeInv'
  BY <1>6 DEF TapeInv, Engine
<1>7. CASE Tape!Update
  <2>1. /\ head' = head + 1 /\ head < MaxId /\ Tape!Recording
        /\ UNCHANGED <<sent, asked, tick, queue, live, log, hidden, overtook>>
    BY <1>7 DEF Tape!Update, Tape!capture
  <2>2. TapeClock'
    BY <1>1, <1>5, <2>1 DEF TapeClock, Id
  <2> QED
    BY <1>1, <1>2, <1>3, <1>5, <1>6, <2>1, <2>2
<1>8. CASE Tape!WireArrives
  <2>1. /\ Tape!Recording /\ sent < head /\ sent' = head
        /\ UNCHANGED <<head, asked, live, liveRows, overtook>>
    BY <1>8 DEF Tape!WireArrives
  <2>2. PICK form \in {"ok", "undecodable", "truncated"}, steady \in BOOLEAN, lost \in BOOLEAN :
          /\ Tape!Clock(steady) /\ Tape!Recorded(Tape!Frame("wire", Tape!NextDiff, form), lost)
          /\ queue' = IF form = "undecodable" THEN queue ELSE Append(queue, Tape!NextDiff)
    BY <1>8 DEF Tape!WireArrives
  <2>3. Tape!NextDiff \in Diff /\ Numbered(Venue, Tape!NextDiff) /\ form \in Tape!Forms
    BY <1>1, <2>1, TapeDiffOK DEF Tape!Forms
  <2>4. tick' \in 0 .. MaxTick /\ tick' \in Nat
    BY <1>1, <2>2, ClockOK
  <2>5. TapeLog' /\ hidden' \in BOOLEAN
    BY <1>1, <2>2, <2>3, <2>4, RecordedOK
  <2>6. TapeClock'
    BY <1>1, <1>5, <2>1, <2>4, <2>5 DEF TapeClock
  <2>7. TapeQueue'
    BY <1>1, <1>2, <2>2, <2>3 DEF TapeQueue
  <2> QED
    BY <1>1, <1>5, <1>6, <2>1, <2>5, <2>6, <2>7
<1>9. CASE Tape!WireHandled
  <2>1. /\ Tape!Recording /\ queue # <<>> /\ queue' = Tail(queue)
        /\ live' = Tape!LiveApply(live, Head(queue)).book
        /\ UNCHANGED <<head, sent, asked, tick, log, hidden, overtook>>
    BY <1>9 DEF Tape!WireHandled, Tape!Take, Tape!venue
  <2>2. Head(queue) \in Diff /\ Numbered(Venue, Head(queue)) /\ TapeQueue'
    BY <1>1, <2>1 DEF TapeQueue
  <2>3. Trusted(live)' /\ live'.venue = Venue
    BY <1>1, <2>1, <2>2, LiveApplyOK
  <2>4. TapeClock'
    BY <1>1, <1>5, <2>1 DEF TapeClock
  <2> QED
    BY <1>3, <1>5, <1>6, <2>1, <2>2, <2>3, <2>4
<1>10. CASE Tape!Requests
  <2>1. /\ Tape!Recording /\ asked' = head /\ hidden' \in BOOLEAN
        /\ live' = live \/ live' = Resync(live)
        /\ UNCHANGED <<head, sent, tick, queue, log, overtook>>
    BY <1>1, <1>10, TapeSame DEF Tape!Requests
  <2>2. Trusted(live)' /\ live'.venue = Venue
    BY <1>1, <2>1, GapOK
  <2>3. TapeClock'
    BY <1>1, <1>5, <2>1 DEF TapeClock
  <2> QED
    BY <1>2, <1>3, <1>5, <1>6, <2>1, <2>2, <2>3
<1>11. CASE Tape!Responds
  <2>1. /\ Tape!Recording /\ asked # Tape!NoId /\ asked' = Tape!NoId
        /\ UNCHANGED <<head, sent, queue>> /\ Tape!Clock(TRUE)
        /\ overtook' = (overtook \/ queue # <<>>)
    BY <1>11 DEF Tape!Responds
  <2>2. PICK id \in asked .. head, form \in Tape!Forms \ {"undecodable"},
             good \in BOOLEAN, lost \in BOOLEAN :
          /\ Tape!Recorded(Tape!Frame("rest", [id |-> id, good |-> good], form), lost)
          /\ \/ live' = Attempt(live, [id |-> id, good |-> good]).book
             \/ live' = Gap(live)
    BY <1>11, TapeSame DEF Tape!Responds, Tape!Take
  <2>3. [id |-> id, good |-> good] \in Snap
    BY <1>1, <2>1 DEF Snap, Id
  <2>4. tick' \in 0 .. MaxTick /\ tick' \in Nat
    BY <1>1, <2>1, ClockOK
  <2>5. TapeLog' /\ hidden' \in BOOLEAN
    BY <1>1, <2>2, <2>3, <2>4, RecordedOK
  <2>6. Trusted(live)' /\ live'.venue = Venue
    BY <1>1, <2>2, <2>3, AttemptOK, GapOK DEF Outcome
  <2>7. TapeClock'
    BY <1>1, <1>5, <2>1, <2>4, <2>5 DEF TapeClock
  <2> QED
    BY <1>2, <1>5, <1>6, <2>1, <2>5, <2>6, <2>7
<1>12. CASE Tape!Skips
  <2>1. Tape!Recording /\ sent' = head /\ UNCHANGED <<head, asked, tick, queue, live, log, hidden, overtook>>
    BY <1>12 DEF Tape!Skips, Tape!capture
  <2>2. TapeClock'
    BY <1>1, <1>5, <2>1 DEF TapeClock
  <2> QED
    BY <1>1, <1>2, <1>3, <1>5, <1>6, <2>1, <2>2
<1>13. CASE Tape!Reconnects
  <2>1. /\ Tape!Recording /\ sent' \in {sent, head} /\ hidden' \in BOOLEAN
        /\ live' = live \/ live' = Invalidate(live)
        /\ UNCHANGED <<head, asked, tick, queue, log, overtook>>
    BY <1>1, <1>13, TapeSame DEF Tape!Reconnects
  <2>2. Trusted(live)' /\ live'.venue = Venue
    BY <1>1, <2>1, InvalidateOK
  <2>3. TapeClock'
    BY <1>1, <1>5, <2>1 DEF TapeClock
  <2> QED
    BY <1>2, <1>3, <1>5, <1>6, <2>1, <2>2, <2>3
<1>14. CASE Tape!Replays
  <2>1. /\ mode' = "replayed"
        /\ UNCHANGED <<head, sent, asked, tick, queue, live, log, hidden, overtook>>
    BY <1>14 DEF Tape!Replays, Tape!venue, Tape!capture
  <2>2. PICK issues, legacy :
          replay' = Tape!Engine(issues, legacy)[Tape!Cardinality(Tape!Readable)]
    BY <1>14 DEF Tape!Replays
  <2>3. Engine'
    <3>1. \E m \in Int : EngineOK(replay', m)
      BY <1>1, <2>2, ReplayOK DEF TapeLog
    <3> QED
      BY <3>1 DEF Engine, EngineOK, Trusted, BookOK, TapeRow
  <2>4. TapeClock'
    BY <1>1, <2>1 DEF TapeClock
  <2> QED
    BY <1>1, <1>2, <1>3, <1>6, <2>1, <2>3, <2>4
<1>15. CASE UNCHANGED Tape!vars
  <2>1. UNCHANGED <<head, sent, asked, tick, queue, live, log, hidden, overtook, replay, mode>>
    BY <1>15 DEF Tape!vars, Tape!venue, Tape!capture
  <2>2. TapeClock'
    BY <1>1, <2>1 DEF TapeClock
  <2> QED
    BY <1>1, <1>2, <1>3, <1>4, <1>6, <2>1, <2>2
<1> QED
  BY <1>7, <1>8, <1>9, <1>10, <1>11, <1>12, <1>13, <1>14, <1>15 DEF Tape!Next

LEMMA ReplayTrue == TapeInv => Tape!ReplayFaithful
<1> SUFFICES ASSUME TapeInv PROVE Tape!ReplayFaithful
  OBVIOUS
<1>1. PICK m \in Int : EngineOK(replay, m)
  BY DEF TapeInv
<1>2. Tape!TypeOK
  <2>1. BookOK(live) /\ BookOK(replay.book)
    BY <1>1 DEF TapeInv, Trusted, EngineOK
  <2>2. \A i \in DOMAIN log : log[i].form \in Tape!Forms
    BY DEF TapeInv, TapeLog, FrameOK, TapeFrames
  <2> QED
    BY <2>1, <2>2, TapeSame DEF Tape!TypeOK, TapeInv, TapeClock, TapeLog
<1>3. replay.book.state = "VALID" => replay.book.levels = VenueBook[replay.book.prev]
  BY <1>1 DEF EngineOK, Trusted
<1>4. ASSUME NEW i \in DOMAIN replay.rows
      PROVE  /\ replay.rows[i].row.levels = VenueBook[replay.rows[i].row.u]
             /\ i > 1 => /\ replay.rows[i - 1].ms <= replay.rows[i].ms
                         /\ Follows(replay.rows[i - 1].row, replay.rows[i].row)
  <2>1. replay.rows[i].row.levels = VenueBook[replay.rows[i].row.u]
    BY <1>1 DEF EngineOK
  <2>2. ASSUME i > 1
        PROVE  /\ replay.rows[i - 1].ms <= replay.rows[i].ms
               /\ Follows(replay.rows[i - 1].row, replay.rows[i].row)
    <3> DEFINE j == i - 1
    <3>1. replay.rows \in Seq(TapeRow)
      BY <1>1 DEF EngineOK
    <3>2. j \in 1 .. Len(replay.rows) - 1 /\ j + 1 = i
      BY <2>2, <3>1
    <3> HIDE DEF j
    <3>3. replay.rows[j].ms <= replay.rows[j + 1].ms /\ Follows(replay.rows[j].row, replay.rows[j + 1].row)
      BY <1>1, <3>2 DEF EngineOK
    <3> QED
      BY <3>2, <3>3 DEF j
  <2> QED
    BY <2>1, <2>2
<1> QED
  BY <1>2, <1>3, <1>4, TapeSame DEF Tape!ReplayFaithful

\* A replay, whatever the recording lost, clipped or put in another order (ReplayFaithful).
THEOREM ReplayAlwaysFaithful == MCSpec => []ReplayFaithful
<1> DEFINE I == which = "replay" => TapeInv
           all == <<vars, stream, tape, which>>
<1>1. MCInit => I
  BY TapeStarts, TapeAssumption DEF MCInit
<1>2. I /\ [MCNext]_all => I'
  <2> SUFFICES ASSUME I, [MCNext]_all, which' = "replay" PROVE TapeInv'
    OBVIOUS
  <2>1. which = "replay" /\ [Tape!Next]_(Tape!vars)
    BY DEF MCNext, vars, venue, bounds, tape, Tape!vars, Tape!venue, Tape!capture
  <2> QED
    BY <2>1, TapeStep, TapeAssumption
<1>3. I => ReplayFaithful
  BY ReplayTrue DEF ReplayFaithful
<1> QED
  BY <1>1, <1>2, <1>3, PTL DEF MCSpec

(***************************************************************************)
(* Parity: a pristine replay of a futures recording ends in the            *)
(* collector's book.  The two books meet the same frames in the same       *)
(* order; what tells them apart is how they are not VALID, because only    *)
(* the collector marks its book when it asks for a snapshot, and how often *)
(* a retained snapshot is tried.                                           *)
(***************************************************************************)

\* Two books that hold the same.
Same(a, b) ==
  /\ a.venue = b.venue /\ a.prev = b.prev /\ a.levels = b.levels /\ a.buf = b.buf
  /\ a.over = b.over /\ a.pend = b.pend /\ a.gen = b.gen

\* They differ at most in the state of a book that is not VALID.
Alike(a, b) ==
  /\ Trusted(a) /\ Trusted(b) /\ Same(a, b) /\ (a.state = "VALID" <=> b.state = "VALID")

LEMMA Trusts == ASSUME NEW b, Trusted(b)
                PROVE  b \in Book /\ b.buf \in Seq(Diff) /\ Len(b.buf) \in Nat
BY BookIs DEF Trusted, BookOK

\* What gives a book up, or puts its chain aside.
LEMMA SameMarks ==
  ASSUME NEW a \in Book, NEW b \in Book, Same(a, b)
  PROVE  /\ Same(Gap(a), Gap(b)) /\ Same(Resync(a), Resync(b))
         /\ Same(Gap(a), a) /\ Same(Resync(a), a)
         /\ Gap(a).state = "SEQUENCE_GAP" /\ Resync(a).state = "RECOVERING"
         /\ Gap(a) \in Book /\ Resync(a) \in Book
<1>1. ASSUME NEW c \in Book
      PROVE  /\ Gap(c) \in Book /\ Gap(c).state = "SEQUENCE_GAP" /\ Same(Gap(c), c)
             /\ Resync(c) \in Book /\ Resync(c).state = "RECOVERING" /\ Same(Resync(c), c)
  <2>1. /\ Gap(c) = [venue |-> c.venue, state |-> "SEQUENCE_GAP", prev |-> c.prev, levels |-> c.levels,
                     buf |-> c.buf, over |-> c.over, pend |-> c.pend, gen |-> c.gen]
        /\ Resync(c) = [venue |-> c.venue, state |-> "RECOVERING", prev |-> c.prev, levels |-> c.levels,
                        buf |-> c.buf, over |-> c.over, pend |-> c.pend, gen |-> c.gen]
    BY BookIs DEF Gap, Resync
  <2> QED
    BY <2>1, BookIs DEF Book, States, Same
<1>2. \A c, d, e, f : Same(c, d) /\ Same(e, f) /\ Same(d, f) => Same(c, e)
  BY DEF Same
<1> QED
  BY <1>1, <1>2

LEMMA SameBuffer ==
  ASSUME NEW a \in Book, NEW b \in Book, Same(a, b), NEW d
  PROVE  /\ Same(Buffer(a, d), Buffer(b, d))
         /\ a.state # "VALID" => Buffer(a, d).state # "VALID"
<1> DEFINE e == Append(a.buf, d)
<1>1. CASE Len(a.buf) < MaxBuffer
  <2>1. Buffer(a, d) = [a EXCEPT !.buf = e] /\ Buffer(b, d) = [b EXCEPT !.buf = e]
    BY <1>1, BookIs DEF Buffer, Same
  <2> HIDE DEF e
  <2> QED
    BY <2>1, BookIs DEF Same
<1>2. CASE ~(Len(a.buf) < MaxBuffer) /\ a.over
  BY <1>2 DEF Buffer, Same
<1>3. CASE ~(Len(a.buf) < MaxBuffer) /\ ~a.over
  <2>1. /\ Buffer(a, d) = [Gap(a) EXCEPT !.buf = <<>>, !.over = TRUE]
        /\ Buffer(b, d) = [Gap(b) EXCEPT !.buf = <<>>, !.over = TRUE]
    BY <1>3 DEF Buffer, Same
  <2>2. PICK g \in Book, h \in Book : g = Gap(a) /\ h = Gap(b) /\ Same(g, h) /\ g.state = "SEQUENCE_GAP"
    BY SameMarks DEF Same
  <2> QED
    BY <2>1, <2>2, BookIs DEF Same
<1> QED
  BY <1>1, <1>2, <1>3

LEMMA SameAdvance ==
  ASSUME NEW a \in Book, NEW b \in Book, Same(a, b), NEW d
  PROVE  /\ Same(Advance(a, d), Advance(b, d)) /\ RowOf(Advance(a, d), d) = RowOf(Advance(b, d), d)
         /\ Advance(a, d).state = a.state
<1> DEFINE levels == Restate(a.levels, d.U, d.u)
           u == d.u
<1>1. /\ Advance(a, d) = [a EXCEPT !.levels = levels, !.prev = u]
      /\ Advance(b, d) = [b EXCEPT !.levels = levels, !.prev = u]
  BY DEF Advance, Same
<1> HIDE DEF levels, u
<1>2. Same(Advance(a, d), Advance(b, d)) /\ Advance(a, d).state = a.state
  BY <1>1, BookIs DEF Same
<1> QED
  BY <1>2 DEF Same, RowOf

\* A diff does the same to both.
LEMMA AlikeApply ==
  ASSUME NEW a, NEW b, Alike(a, b), NEW d \in Diff, Numbered(a.venue, d)
  PROVE  Alike(Apply(a, d).book, Apply(b, d).book) /\ Apply(a, d).rows = Apply(b, d).rows
<1>1. /\ a \in Book /\ b \in Book /\ Same(a, b) /\ (a.state = "VALID" <=> b.state = "VALID")
      /\ a.prev = b.prev /\ a.venue = b.venue /\ Trusted(a) /\ Trusted(b)
  BY Trusts DEF Alike, Same
<1>2. Trusted(Apply(a, d).book) /\ Trusted(Apply(b, d).book)
  BY <1>1, ApplyOK DEF Outcome
<1> DEFINE ra == Apply(a, d)
           rb == Apply(b, d)
           verdict == Check(a.venue, a.prev, d)
<1> SUFFICES Same(ra.book, rb.book) /\ ra.rows = rb.rows
             /\ (ra.book.state = "VALID" <=> rb.book.state = "VALID")
  BY <1>2 DEF Alike
<1>3. verdict = Check(b.venue, b.prev, d)
  BY <1>1
<1>4. CASE a.state # "VALID" \/ a.prev = NoId
  <2>1. ra = [book |-> Buffer(a, d), rows |-> <<>>] /\ rb = [book |-> Buffer(b, d), rows |-> <<>>]
        /\ a.state # "VALID" /\ b.state # "VALID"
    BY <1>1, <1>4 DEF Apply, Trusted
  <2>2. Same(b, a)
    BY <1>1 DEF Same
  <2> QED
    BY <1>1, <2>1, <2>2, SameBuffer
<1>5. CASE a.state = "VALID" /\ a.prev # NoId /\ verdict = "gap"
  <2>1. ra = [book |-> Buffer(Gap(a), d), rows |-> <<>>] /\ rb = [book |-> Buffer(Gap(b), d), rows |-> <<>>]
    BY <1>1, <1>3, <1>5 DEF Apply
  <2>2. /\ Gap(a) \in Book /\ Gap(b) \in Book /\ Same(Gap(a), Gap(b)) /\ Same(Gap(b), Gap(a))
        /\ Gap(a).state # "VALID" /\ Gap(b).state # "VALID"
    BY <1>1, SameMarks DEF Same
  <2> QED
    BY <2>1, <2>2, SameBuffer
<1>6. CASE a.state = "VALID" /\ a.prev # NoId /\ verdict = "stale"
  <2>1. ra = [book |-> a, rows |-> <<>>] /\ rb = [book |-> b, rows |-> <<>>]
    BY <1>1, <1>3, <1>6 DEF Apply
  <2> QED
    BY <1>1, <2>1
<1>7. CASE a.state = "VALID" /\ a.prev # NoId /\ verdict = "next" /\ d.form = "bad_levels"
  <2>1. ra = [book |-> Gap(a), rows |-> <<>>] /\ rb = [book |-> Gap(b), rows |-> <<>>]
    BY <1>1, <1>3, <1>7 DEF Apply
  <2>2. Same(Gap(a), Gap(b)) /\ Gap(a).state # "VALID" /\ Gap(b).state # "VALID"
    BY <1>1, SameMarks DEF Same
  <2> QED
    BY <2>1, <2>2
<1>8. CASE a.state = "VALID" /\ a.prev # NoId /\ verdict = "next" /\ d.form # "bad_levels"
  <2>1. /\ ra = [book |-> Advance(a, d), rows |-> <<RowOf(Advance(a, d), d)>>]
        /\ rb = [book |-> Advance(b, d), rows |-> <<RowOf(Advance(b, d), d)>>]
    BY <1>1, <1>3, <1>8 DEF Apply
  <2>2. /\ Same(Advance(a, d), Advance(b, d)) /\ RowOf(Advance(a, d), d) = RowOf(Advance(b, d), d)
        /\ Advance(a, d).state = a.state /\ Advance(b, d).state = b.state
    BY <1>1, SameAdvance DEF Same
  <2> QED
    BY <1>1, <2>1, <2>2
<1> QED
  BY <1>4, <1>5, <1>6, <1>7, <1>8, CheckIs

\* Two chains that hold the same.
Even(x, y) ==
  /\ Same(x.book, y.book) /\ x.candidates = y.candidates /\ x.rows = y.rows /\ x.broken = y.broken

Chainlike == [book : Book, candidates : Seq(Diff), rows : Seq(Row), broken : BOOLEAN]

LEMMA EvenChain ==
  ASSUME NEW x \in Chainlike, NEW y \in Chainlike, Even(x, y), NEW d
  PROVE  Even(Chain(x, d), Chain(y, d))
<1> DEFINE verdict == IF x.rows = <<>> THEN "next" ELSE Check(x.book.venue, x.book.prev, d)
           seen == Append(x.candidates, d)
           row == RowOf(Advance(x.book, d), d)
           more == Append(x.rows, row)
<1>1. /\ x = [book |-> x.book, candidates |-> x.candidates, rows |-> x.rows, broken |-> x.broken]
      /\ y = [book |-> y.book, candidates |-> x.candidates, rows |-> x.rows, broken |-> x.broken]
      /\ x.book \in Book /\ y.book \in Book /\ Same(x.book, y.book)
  BY DEF Even, Chainlike
<1>2. verdict = IF y.rows = <<>> THEN "next" ELSE Check(y.book.venue, y.book.prev, d)
  BY <1>1 DEF Even, Same
<1>3. Same(Advance(x.book, d), Advance(y.book, d)) /\ row = RowOf(Advance(y.book, d), d)
  BY <1>1, SameAdvance
<1>4. y.rows = x.rows /\ y.candidates = x.candidates /\ y.broken = x.broken
  BY DEF Even
<1> DEFINE ax == Advance(x.book, d)
           ay == Advance(y.book, d)
<1>5. /\ Chain(x, d) =
           IF x.broken \/ verdict = "stale" THEN [x EXCEPT !.candidates = seen]
           ELSE IF verdict = "gap" \/ d.form = "bad_levels"
           THEN [[x EXCEPT !.candidates = seen] EXCEPT !.broken = TRUE]
           ELSE [[x EXCEPT !.candidates = seen] EXCEPT !.book = ax, !.rows = more]
      /\ Chain(y, d) =
           IF x.broken \/ verdict = "stale" THEN [y EXCEPT !.candidates = seen]
           ELSE IF verdict = "gap" \/ d.form = "bad_levels"
           THEN [[y EXCEPT !.candidates = seen] EXCEPT !.broken = TRUE]
           ELSE [[y EXCEPT !.candidates = seen] EXCEPT !.book = ay, !.rows = more]
  <2>1. /\ [x EXCEPT !.candidates = seen].rows = x.rows
        /\ [y EXCEPT !.candidates = seen].rows = x.rows
    BY <1>1
  <2> QED
    BY <1>2, <1>3, <1>4, <2>1 DEF Chain
<1> HIDE DEF verdict, seen, row, more, ax, ay
<1>6. Same(ax, ay)
  BY <1>3 DEF ax, ay
<1> QED
  BY <1>1, <1>5, <1>6 DEF Even

LEMMA EvenBegun ==
  ASSUME NEW a \in Book, NEW b \in Book, Same(a, b), NEW L
  PROVE  Even(Begun(a, L), Begun(b, L))
<1> DEFINE levels == VenueBook[L]
           ga == a.gen + 1
<1>1. /\ Begun(a, L) = [book |-> [a EXCEPT !.levels = levels, !.prev = NoId, !.gen = ga],
                        candidates |-> <<>>, rows |-> <<>>, broken |-> FALSE]
      /\ Begun(b, L) = [book |-> [b EXCEPT !.levels = levels, !.prev = NoId, !.gen = ga],
                        candidates |-> <<>>, rows |-> <<>>, broken |-> FALSE]
  BY DEF Begun, Same
<1> HIDE DEF levels, ga
<1>2. Same([a EXCEPT !.levels = levels, !.prev = NoId, !.gen = ga],
           [b EXCEPT !.levels = levels, !.prev = NoId, !.gen = ga])
  BY BookIs DEF Same
<1> QED
  BY <1>1, <1>2 DEF Even

\* Over the same snapshot both buffers give the same chain.
LEMMA EvenChains ==
  ASSUME NEW a \in Book, NEW b \in Book, Same(a, b), NEW L \in Id,
         \A i \in DOMAIN b.buf : Numbered(b.venue, b.buf[i])
  PROVE  Even(Chains(a, L)[Len(a.buf)], Chains(b, L)[Len(b.buf)])
<1> DEFINE x(n) == Chains(a, L)[n]
           y(n) == Chains(b, L)[n]
           T == {n \in 0 .. Len(b.buf) : ~Even(x(n), y(n))}
<1>1. /\ a.buf = b.buf /\ Len(a.buf) = Len(b.buf) /\ a.venue = b.venue /\ Len(b.buf) \in Nat
      /\ \A i \in DOMAIN a.buf : Numbered(a.venue, a.buf[i])
  BY BookIs DEF Same
<1>2. \A n \in 0 .. Len(b.buf) : x(n) \in Chainlike /\ y(n) \in Chainlike
  BY <1>1, ChainsOK DEF ChainOK, Chainlike
<1>3. T = {}
  <2> SUFFICES ASSUME T # {} PROVE FALSE
    OBVIOUS
  <2>1. PICK n \in T : \A m \in T : n <= m
    <3>1. T \subseteq Nat
      BY <1>1
    <3> QED
      BY <3>1, Smallest
  <2>2. n # 0
    BY <1>1, <2>1, EvenBegun, ChainsAre
  <2>3. n - 1 \in 0 .. Len(b.buf) /\ n \in 1 .. Len(b.buf) /\ ~(n <= n - 1)
    BY <1>1, <2>1, <2>2
  <2>4. Even(x(n - 1), y(n - 1))
    BY <2>1, <2>3
  <2>5. /\ x(n) = Joined(a, x(n - 1), a.buf[n], L)
        /\ y(n) = Joined(b, y(n - 1), b.buf[n], L)
    BY <1>1, <2>3, ChainsAre
  <2>6. Even(x(n), y(n))
    <3> HIDE DEF x, y
    <3> QED
      BY <1>1, <1>2, <2>3, <2>4, <2>5, EvenChain DEF Joined
  <2> QED
    BY <2>1, <2>6
<1> QED
  BY <1>1, <1>3

\* So a snapshot does the same to both.
LEMMA AlikeAttempt ==
  ASSUME NEW a, NEW b, Alike(a, b), NEW snap \in Snap
  PROVE  /\ Alike(Attempt(a, snap).book, Attempt(b, snap).book)
         /\ Attempt(a, snap).rows = Attempt(b, snap).rows /\ Attempt(a, snap).why = Attempt(b, snap).why
<1> DEFINE ca == Chains(a, snap.id)[Len(a.buf)]
           cb == Chains(b, snap.id)[Len(b.buf)]
           ra == Attempt(a, snap)
           rb == Attempt(b, snap)
<1>1. /\ a \in Book /\ b \in Book /\ Same(a, b) /\ (a.state = "VALID" <=> b.state = "VALID")
      /\ a.buf = b.buf /\ a.venue = b.venue /\ Trusted(a) /\ Trusted(b) /\ snap.id \in Id
      /\ \A i \in DOMAIN b.buf : Numbered(b.venue, b.buf[i])
      /\ \A i \in DOMAIN a.buf : Numbered(a.venue, a.buf[i])
  BY Trusts DEF Alike, Same, Trusted, Snap
<1>2. Even(ca, cb) /\ ca \in Chainlike /\ cb \in Chainlike
  BY <1>1, EvenChains, ChainsOK DEF ChainOK, Chainlike
<1>3. Trusted(ra.book) /\ Trusted(rb.book)
  BY <1>1, AttemptOK DEF Outcome
<1> SUFFICES /\ Same(ra.book, rb.book) /\ (ra.book.state = "VALID" <=> rb.book.state = "VALID")
             /\ ra.rows = rb.rows /\ ra.why = rb.why
  BY <1>3 DEF Alike
<1>4. PICK ga \in Book, gb \in Book, ya \in Book, yb \in Book :
        /\ ga = Gap(a) /\ gb = Gap(b) /\ Same(ga, gb) /\ ga.state = gb.state
        /\ ya = Resync(a) /\ yb = Resync(b) /\ Same(ya, yb) /\ ya.state = yb.state
  <2>1. Same(b, b)
    BY DEF Same
  <2>2. /\ Gap(a) \in Book /\ Gap(b) \in Book /\ Same(Gap(a), Gap(b)) /\ Gap(a).state = Gap(b).state
        /\ Resync(a) \in Book /\ Resync(b) \in Book /\ Same(Resync(a), Resync(b))
        /\ Resync(a).state = Resync(b).state
    BY <1>1, <2>1, SameMarks
  <2> QED
    BY <2>2
<1>5. PICK ka \in Book, kb \in Book : ka = ca.book /\ kb = cb.book /\ Same(ka, kb)
  BY <1>2 DEF Even, Chainlike
<1> DEFINE malformed == \E i \in DOMAIN a.buf : a.buf[i].form = "no_ids"
           late == ~Bridges(a.venue, ca.candidates[1], snap.id)
           cs == ca.candidates
           rs == ca.rows
<1>6. /\ ra = IF malformed THEN [book |-> a, rows |-> <<>>, why |-> "malformed_update_ids"]
              ELSE IF cs = <<>>
              THEN [book |-> [ya EXCEPT !.pend = snap], rows |-> <<>>, why |-> "snapshot_ahead_of_buffer"]
              ELSE IF late
              THEN [book |-> [ya EXCEPT !.pend = NoSnap], rows |-> <<>>, why |-> "snapshot_bridge_not_found"]
              ELSE IF ~snap.good THEN [book |-> ga, rows |-> <<>>, why |-> "invalid_snapshot"]
              ELSE IF ca.broken
              THEN [book |-> [ga EXCEPT !.buf = cs, !.pend = NoSnap], rows |-> <<>>, why |-> "broken_chain"]
              ELSE [book |-> [ka EXCEPT !.state = "VALID", !.buf = <<>>, !.over = FALSE, !.pend = NoSnap],
                    rows |-> rs, why |-> "bridged"]
      /\ rb = IF malformed THEN [book |-> b, rows |-> <<>>, why |-> "malformed_update_ids"]
              ELSE IF cs = <<>>
              THEN [book |-> [yb EXCEPT !.pend = snap], rows |-> <<>>, why |-> "snapshot_ahead_of_buffer"]
              ELSE IF late
              THEN [book |-> [yb EXCEPT !.pend = NoSnap], rows |-> <<>>, why |-> "snapshot_bridge_not_found"]
              ELSE IF ~snap.good THEN [book |-> gb, rows |-> <<>>, why |-> "invalid_snapshot"]
              ELSE IF ca.broken
              THEN [book |-> [gb EXCEPT !.buf = cs, !.pend = NoSnap], rows |-> <<>>, why |-> "broken_chain"]
              ELSE [book |-> [kb EXCEPT !.state = "VALID", !.buf = <<>>, !.over = FALSE, !.pend = NoSnap],
                    rows |-> rs, why |-> "bridged"]
  <2>1. cb.candidates = cs /\ cb.rows = rs /\ cb.broken = ca.broken
    BY <1>2 DEF Even
  <2> HIDE DEF ca, cb
  <2>2. /\ ra = IF malformed THEN [book |-> a, rows |-> <<>>, why |-> "malformed_update_ids"]
              ELSE IF cs = <<>>
              THEN [book |-> [ya EXCEPT !.pend = snap], rows |-> <<>>, why |-> "snapshot_ahead_of_buffer"]
              ELSE IF late
              THEN [book |-> [ya EXCEPT !.pend = NoSnap], rows |-> <<>>, why |-> "snapshot_bridge_not_found"]
              ELSE IF ~snap.good THEN [book |-> ga, rows |-> <<>>, why |-> "invalid_snapshot"]
              ELSE IF ca.broken
              THEN [book |-> [ga EXCEPT !.buf = cs, !.pend = NoSnap], rows |-> <<>>, why |-> "broken_chain"]
              ELSE [book |-> [ka EXCEPT !.state = "VALID", !.buf = <<>>, !.over = FALSE, !.pend = NoSnap],
                    rows |-> rs, why |-> "bridged"]
    BY <1>4, <1>5 DEF Attempt, ca
  <2> QED
    BY <1>1, <1>4, <1>5, <2>1, <2>2 DEF Attempt, cb
<1> HIDE DEF ca, cb, ra, rb, malformed, late, cs, rs
<1> DEFINE K(k) == [k EXCEPT !.state = "VALID", !.buf = <<>>, !.over = FALSE, !.pend = NoSnap]
           G(g) == [g EXCEPT !.buf = cs, !.pend = NoSnap]
           Y(y, p) == [y EXCEPT !.pend = p]
<1>7. /\ Same(Y(ya, snap), Y(yb, snap)) /\ Y(ya, snap).state = Y(yb, snap).state
      /\ Same(Y(ya, NoSnap), Y(yb, NoSnap)) /\ Y(ya, NoSnap).state = Y(yb, NoSnap).state
  BY <1>4, BookIs DEF Same
<1>8. Same(G(ga), G(gb)) /\ G(ga).state = G(gb).state
  BY <1>4, BookIs DEF Same
<1>9. Same(K(ka), K(kb)) /\ K(ka).state = K(kb).state
  BY <1>5, BookIs DEF Same
<1> HIDE DEF K, G, Y
<1>10. \/ ra.book = a /\ rb.book = b
       \/ ra.book = Y(ya, snap) /\ rb.book = Y(yb, snap)
       \/ ra.book = Y(ya, NoSnap) /\ rb.book = Y(yb, NoSnap)
       \/ ra.book = ga /\ rb.book = gb
       \/ ra.book = G(ga) /\ rb.book = G(gb)
       \/ ra.book = K(ka) /\ rb.book = K(kb)
  BY <1>6 DEF K, G, Y
<1>11. ra.rows = rb.rows /\ ra.why = rb.why
  BY <1>6
<1> QED
  BY <1>1, <1>4, <1>7, <1>8, <1>9, <1>10, <1>11

LEMMA AlikeRetry ==
  ASSUME NEW a, NEW b, Alike(a, b)
  PROVE  /\ Alike(Retry(a).book, Retry(b).book)
         /\ Retry(a).rows = Retry(b).rows /\ Retry(a).why = Retry(b).why
<1>1. a.pend = b.pend /\ b.pend \in Snap \cup {NoSnap}
  BY Trusts, BookIs DEF Alike, Same
<1>2. CASE b.pend = NoSnap
  BY <1>1, <1>2 DEF Retry
<1>3. CASE b.pend # NoSnap
  BY <1>1, <1>3, AlikeAttempt DEF Retry
<1> QED
  BY <1>2, <1>3

\* A snapshot that does not bridge is given up, or leaves the book as it was.
LEMMA NotBridged ==
  ASSUME NEW b, Trusted(b), b.state # "VALID", Retry(b).why # "bridged"
  PROVE  /\ Retry(b).rows = <<>> /\ Retry(b).book.state # "VALID"
         /\ Alike(Retry(b).book, b) \/ Retry(b).book.pend = NoSnap
<1> DEFINE r == Retry(b)
           chain == Chains(b, b.pend.id)[Len(b.buf)]
<1>1. /\ b \in Book /\ Trusted(r.book) /\ Trusted(b) /\ Same(b, b)
  BY Trusts, RetryOK DEF Outcome, Same
<1>2. PICK g \in Book, y \in Book :
        /\ g = Gap(b) /\ Same(g, b) /\ g.state = "SEQUENCE_GAP"
        /\ y = Resync(b) /\ Same(y, b) /\ y.state = "RECOVERING"
  BY <1>1, SameMarks
<1>3. r.rows = <<>>
  BY DEF Retry, Attempt
<1>4. \/ r.book = b
      \/ r.book = [y EXCEPT !.pend = b.pend]
      \/ r.book = [y EXCEPT !.pend = NoSnap]
      \/ r.book = g
      \/ r.book = [g EXCEPT !.buf = chain.candidates, !.pend = NoSnap]
  <2> HIDE DEF chain
  <2> QED
    BY <1>2 DEF Retry, Attempt, chain
<1> DEFINE cs == chain.candidates
<1> HIDE DEF r, chain, cs
<1>5. CASE r.book = b
  BY <1>1, <1>3, <1>5 DEF Alike, r
<1>6. CASE r.book = [y EXCEPT !.pend = b.pend]
  <2>1. Same(r.book, b) /\ r.book.state = "RECOVERING"
    BY <1>2, <1>6, BookIs DEF Same
  <2> QED
    BY <1>1, <1>3, <2>1 DEF Alike, r
<1>7. CASE r.book = [y EXCEPT !.pend = NoSnap]
  <2>1. r.book.pend = NoSnap /\ r.book.state = "RECOVERING"
    BY <1>2, <1>7, BookIs
  <2> QED
    BY <1>3, <2>1 DEF r
<1>8. CASE r.book = g
  BY <1>1, <1>2, <1>3, <1>8 DEF Alike, r
<1>9. CASE r.book = [g EXCEPT !.buf = cs, !.pend = NoSnap]
  <2>1. r.book.pend = NoSnap /\ r.book.state = "SEQUENCE_GAP"
    BY <1>2, <1>9, BookIs
  <2> QED
    BY <1>3, <2>1 DEF r
<1> QED
  BY <1>4, <1>5, <1>6, <1>7, <1>8, <1>9 DEF cs

\* So trying it a second time changes nothing.
LEMMA TwiceIsOnce ==
  ASSUME NEW b, Trusted(b), b.state # "VALID", Retry(b).why # "bridged"
  PROVE  /\ Alike(Retry(Retry(b).book).book, Retry(b).book)
         /\ Retry(Retry(b).book).rows = <<>>
<1> DEFINE c == Retry(b).book
<1>1. Trusted(c) /\ c.state # "VALID" /\ Retry(b).rows = <<>>
      /\ (Alike(c, b) \/ c.pend = NoSnap)
  BY NotBridged, RetryOK DEF Outcome
<1>2. CASE Alike(c, b)
  BY <1>1, <1>2, AlikeRetry
<1>3. CASE c.pend = NoSnap
  <2>1. Retry(c).book = c /\ Retry(c).rows = <<>> /\ Alike(c, c)
    BY <1>1, <1>3 DEF Retry, Alike, Same
  <2> QED
    BY <2>1
<1> QED
  BY <1>1, <1>2, <1>3

LEMMA AlikeTrans ==
  ASSUME NEW a, NEW b, NEW c, Alike(a, b), Alike(b, c) PROVE Alike(a, c)
BY DEF Alike, Same

\* A diff, and the snapshot retained, on the replayed book and on the collector's.
LEMMA AlikeHandled ==
  ASSUME Venue = "BINANCE", NEW a, NEW b, Alike(a, b), NEW d \in Diff, Numbered(a.venue, d)
  PROVE  /\ Alike(Tape!RetryPending(Apply(a, d)).book, Tape!LiveApply(b, d).book)
         /\ Tape!RetryPending(Apply(a, d)).rows = Tape!LiveApply(b, d).rows
<1> DEFINE x == Apply(a, d)
           y == Apply(b, d)
           first == IF x.book.prev = NoId THEN Retry(x.book) ELSE [book |-> x.book, rows |-> <<>>, why |-> "none"]
           px == Tape!RetryPending(x)
           ly == Tape!LiveApply(b, d)
<1>1. Alike(x.book, y.book) /\ x.rows = y.rows
  BY AlikeApply
<1>2. /\ px = IF x.rows # <<>> THEN x
              ELSE IF first.why = "bridged" \/ x.book.state = "VALID" THEN first
              ELSE Retry(first.book)
      /\ ly = IF y.rows = <<>> /\ y.book.state # "VALID" THEN Retry(y.book) ELSE y
  BY TapeSame DEF Tape!RetryPending, Tape!LiveApply
<1>3. /\ Trusted(x.book) /\ Trusted(y.book) /\ (x.book.state = "VALID" <=> y.book.state = "VALID")
      /\ (x.book.state = "VALID" => x.book.prev # NoId)
  BY <1>1 DEF Alike, Trusted
<1> HIDE DEF x, y, px, ly
<1>4. CASE x.rows # <<>>
  BY <1>1, <1>2, <1>4 DEF px, ly, x, y
<1>5. CASE x.rows = <<>> /\ x.book.state = "VALID"
  <2>1. first = [book |-> x.book, rows |-> <<>>, why |-> "none"]
    BY <1>3, <1>5
  <2>2. px = first /\ ly = y
    BY <1>1, <1>2, <1>3, <1>5
  <2>3. px.book = x.book /\ px.rows = <<>>
    <3>1. px = [book |-> x.book, rows |-> <<>>, why |-> "none"]
      BY <2>1, <2>2, Zenon
    <3> QED
      BY ONLY <3>1
  <2>5. ly.book = y.book /\ ly.rows = <<>>
    BY <1>1, <1>5, <2>2, Zenon
  <2>4. Alike(px.book, ly.book) /\ px.rows = ly.rows
    BY <1>1, <2>3, <2>5
  <2> QED
    BY <2>4 DEF px, ly, x, y
<1>6. CASE x.rows = <<>> /\ x.book.state # "VALID"
  <2>1. ly = Retry(y.book)
    BY <1>1, <1>2, <1>3, <1>6
  <2>2. /\ Alike(Retry(x.book).book, Retry(y.book).book) /\ Retry(x.book).rows = Retry(y.book).rows
    BY <1>1, AlikeRetry
  <2>3. px = Retry(x.book) \/ (Retry(x.book).why # "bridged" /\ px = Retry(Retry(x.book).book))
    <3>1. CASE x.book.prev = NoId
      BY <1>2, <1>6, <3>1
    <3>2. CASE x.book.prev # NoId
      BY <1>2, <1>6, <3>2
    <3> QED
      BY <3>1, <3>2
  <2>4. Alike(px.book, Retry(x.book).book) /\ px.rows = Retry(x.book).rows
    <3>1. CASE px = Retry(x.book)
      <4>1. Trusted(Retry(x.book).book)
        BY <2>2 DEF Alike
      <4> QED
        BY <3>1, <4>1 DEF Alike, Same
    <3>2. CASE Retry(x.book).why # "bridged" /\ px = Retry(Retry(x.book).book)
      BY <1>3, <1>6, <3>2, TwiceIsOnce, NotBridged
    <3> QED
      BY <2>3, <3>1, <3>2
  <2>5. Alike(px.book, ly.book) /\ px.rows = ly.rows
    BY <2>1, <2>2, <2>4, AlikeTrans
  <2> QED
    BY <2>5 DEF px, ly, x, y
<1> QED
  BY <1>4, <1>5, <1>6

\* What a frame makes of a book: the book, and the rows.
Met(b, f) ==
  IF f.form # "ok" THEN [book |-> b, rows |-> <<>>]
  ELSE IF f.kind = "wire"
       THEN [book |-> Tape!RetryPending(Apply(b, f.body)).book,
             rows |-> Tape!RetryPending(Apply(b, f.body)).rows]
       ELSE [book |-> Attempt(b, f.body).book, rows |-> Attempt(b, f.body).rows]

\* The issues it raises.
Blamed(b, f) ==
  CASE f.kind = "wire" /\ f.form = "ok" -> {}
    [] f.kind = "wire" /\ f.form = "undecodable" -> {"frames_undecodable"}
    [] f.kind = "wire" /\ f.form # "ok" /\ f.form # "undecodable"
         -> {"frames_undecodable", "frames_truncated"}
    [] f.kind # "wire"
         -> IF /\ f.form = "ok"
               /\ Attempt(b, f.body).why \in {"bridged", "snapshot_ahead_of_buffer"}
            THEN {} ELSE {"snapshots_rejected"}

\* Rows with the time of the frame that brought them.
Stamp(new, f) == [i \in DOMAIN new |-> [row |-> new[i], ms |-> Tape!Ms(f.tick)]]

\* An engine, and one with more issues.
EngineOf(b, rs, js, lf) == [book |-> b, rows |-> rs, issues |-> js, left |-> lf]
Joining(js, more) == js \cup more
Blaming(e, more) == [e EXCEPT !.issues = Joining(@, more)]

LEMMA BlamedOK == \A b, f : f.kind \in {"wire", "rest"} /\ Blamed(b, f) = {} => f.form = "ok"
BY DEF Blamed

LEMMA MetOK ==
  ASSUME NEW b, Trusted(b), b.venue = Venue, NEW f, FrameOK(f)
  PROVE  Outcome(b, Met(b, f))
<1>1. CASE f.form # "ok"
  <2>1. Met(b, f) = [book |-> b, rows |-> <<>>]
    BY <1>1 DEF Met
  <2> QED
    BY <2>1 DEF Outcome
<1>2. CASE f.form = "ok" /\ f.kind = "wire"
  <2> DEFINE x == Tape!RetryPending(Apply(b, f.body))
  <2>1. Outcome(b, x)
    <3>1. Outcome(b, Apply(b, f.body))
      BY <1>2, ApplyOK DEF FrameOK
    <3> QED
      BY <3>1, RetryPendingOK
  <2>2. Met(b, f).book = x.book /\ Met(b, f).rows = x.rows
    BY <1>2 DEF Met
  <2> HIDE DEF x
  <2> QED
    BY <2>1, <2>2 DEF Outcome
<1>3. CASE f.form = "ok" /\ f.kind # "wire"
  <2> DEFINE x == Attempt(b, f.body)
  <2>1. Outcome(b, x)
    BY <1>3, AttemptOK DEF FrameOK, TapeFrames
  <2>2. Met(b, f).book = x.book /\ Met(b, f).rows = x.rows
    BY <1>3 DEF Met
  <2> HIDE DEF x
  <2> QED
    BY <2>1, <2>2 DEF Outcome
<1> QED
  BY <1>1, <1>2, <1>3

\* What Record and an issue make of an engine.
LEMMA RecordIs ==
  \A b, rs, js, lf, x, f :
    Tape!Record(EngineOf(b, rs, js, lf), x, f) = EngineOf(x.book, rs \o Stamp(x.rows, f), js, lf)
<1> SUFFICES ASSUME NEW b, NEW rs, NEW js, NEW lf, NEW x, NEW f
             PROVE  Tape!Record(EngineOf(b, rs, js, lf), x, f)
                      = EngineOf(x.book, rs \o Stamp(x.rows, f), js, lf)
  OBVIOUS
<1> DEFINE e == EngineOf(b, rs, js, lf)
           more == rs \o Stamp(x.rows, f)
           bk == x.book
           d == [e EXCEPT !.book = bk, !.rows = more]
<1>1. e \in [book : {b}, rows : {rs}, issues : {js}, left : {lf}] /\ e.rows = rs
  BY DEF EngineOf
<1>2. Tape!Record(e, x, f) = d
  BY <1>1 DEF Tape!Record, Stamp
<1> HIDE DEF more, bk, e
<1>3. d \in [book : {bk}, rows : {more}, issues : {js}, left : {lf}]
  BY ONLY <1>1
<1> HIDE DEF d
<1>4. d = [book |-> d.book, rows |-> d.rows, issues |-> d.issues, left |-> d.left]
  BY ONLY <1>3
<1>5. d.book = bk /\ d.rows = more /\ d.issues = js /\ d.left = lf
  BY ONLY <1>3
<1>6. d = EngineOf(bk, more, js, lf)
  BY <1>4, <1>5, Zenon DEF EngineOf
<1> QED
  BY <1>2, <1>6 DEF more, bk, e

LEMMA BlameIs ==
  \A b, rs, js, lf, more :
    Blaming(EngineOf(b, rs, js, lf), more) = EngineOf(b, rs, Joining(js, more), lf)
BY DEF EngineOf, Blaming

\* The engine keeps of a frame what the book made of it.
LEMMA DispatchIs ==
  \A b, js, lf, f : \A rs \in Seq(TapeRow) :
    Tape!Dispatch(EngineOf(b, rs, js, lf), f)
      = EngineOf(Met(b, f).book, rs \o Stamp(Met(b, f).rows, f), Joining(js, Blamed(b, f)), lf)
<1> SUFFICES ASSUME NEW b, NEW js, NEW lf, NEW f, NEW rs \in Seq(TapeRow)
             PROVE  Tape!Dispatch(EngineOf(b, rs, js, lf), f)
                      = EngineOf(Met(b, f).book, rs \o Stamp(Met(b, f).rows, f),
                                 Joining(js, Blamed(b, f)), lf)
  OBVIOUS
<1> DEFINE e == EngineOf(b, rs, js, lf)
<1>1. Joining(js, {}) = js /\ rs \o <<>> = rs /\ e.book = b
  BY DEF EngineOf, Joining
<1>2. f.form # "ok" => Met(b, f).book = b /\ Stamp(Met(b, f).rows, f) = <<>>
  BY DEF Met, Stamp
<1>3. CASE f.form # "ok"
  <2>1. Tape!Dispatch(e, f) = Blaming(e, Blamed(b, f))
    BY <1>3 DEF Tape!Dispatch, Tape!HandleWire, Tape!HandleSnapshot, Blamed, Blaming, Joining
  <2>2. Blaming(e, Blamed(b, f)) = EngineOf(b, rs, Joining(js, Blamed(b, f)), lf)
    BY BlameIs
  <2>3. Met(b, f).book = b /\ rs \o Stamp(Met(b, f).rows, f) = rs
    BY <1>1, <1>2, <1>3
  <2> QED
    BY <2>1, <2>2, <2>3
<1>4. CASE f.kind = "wire" /\ f.form = "ok"
  <2> DEFINE x == Tape!RetryPending(Apply(b, f.body))
  <2>1. Tape!Dispatch(e, f) = Tape!Record(e, x, f)
    BY <1>1, <1>4, TapeSame DEF Tape!Dispatch, Tape!HandleWire
  <2>2. Met(b, f).book = x.book /\ Met(b, f).rows = x.rows /\ Blamed(b, f) = {}
    BY <1>4 DEF Met, Blamed
  <2> HIDE DEF x
  <2> QED
    BY <1>1, <2>1, <2>2, RecordIs
<1>5. CASE f.kind # "wire" /\ f.form = "ok"
  <2> DEFINE x == Attempt(b, f.body)
  <2>1. Met(b, f).book = x.book /\ Met(b, f).rows = x.rows
    BY <1>5 DEF Met
  <2>2. CASE x.why \in {"bridged", "snapshot_ahead_of_buffer"}
    <3>1. Tape!Dispatch(e, f) = Tape!Record(e, x, f) /\ Blamed(b, f) = {}
      BY <1>1, <1>5, <2>2, TapeSame DEF Tape!Dispatch, Tape!HandleSnapshot, Blamed
    <3> HIDE DEF x
    <3> QED
      BY <1>1, <2>1, <3>1, RecordIs
  <2>3. CASE x.why \notin {"bridged", "snapshot_ahead_of_buffer"}
    <3>1. Tape!Dispatch(e, f) = Tape!Record(Blaming(e, Blamed(b, f)), x, f)
      BY <1>1, <1>5, <2>3, TapeSame DEF Tape!Dispatch, Tape!HandleSnapshot, Blamed, Blaming, Joining
    <3> HIDE DEF x
    <3>2. Blaming(e, Blamed(b, f)) = EngineOf(b, rs, Joining(js, Blamed(b, f)), lf)
      BY BlameIs
    <3> QED
      BY <2>1, <3>1, <3>2, RecordIs
  <2> QED
    BY <2>2, <2>3
<1> QED
  BY <1>3, <1>4, <1>5

\* What a book would have met that took the frames of a log in their order, and
\* what it would have made of them.
View(h, l) ==
  /\ h[0] = [book |-> Fresh(Venue), rows |-> <<>>, issues |-> {}]
  /\ \A n \in 1 .. Len(l) :
       h[n] = [book   |-> Met(h[n - 1].book, l[n]).book,
               rows   |-> h[n - 1].rows \o Met(h[n - 1].book, l[n]).rows,
               issues |-> h[n - 1].issues \cup Blamed(h[n - 1].book, l[n])]
  /\ \A n \in 0 .. Len(l) :
       /\ Trusted(h[n].book) /\ h[n].book.venue = Venue /\ h[n].rows \in Seq(Row)
       /\ h[n].issues = {} => \A i \in 1 .. n : l[i].form = "ok"

\* One frame more.
LEMMA ViewMore ==
  ASSUME NEW l \in Seq(TapeFrames), NEW h, View(h, l), NEW f, FrameOK(f)
  PROVE  \E g : View(g, Append(l, f)) /\ \A n \in 0 .. Len(l) : g[n] = h[n]
<1> DEFINE k == Len(l)
           x == Met(h[k].book, f)
           last3 == [book |-> x.book, rows |-> h[k].rows \o x.rows,
                     issues |-> h[k].issues \cup Blamed(h[k].book, f)]
           g == [n \in 0 .. k + 1 |-> IF n = k + 1 THEN last3 ELSE h[n]]
           m == Append(l, f)
<1>1. /\ k \in Nat /\ k \in 0 .. k /\ Len(m) = k + 1 /\ m[k + 1] = f /\ \A i \in 1 .. k : m[i] = l[i]
  BY DEF FrameOK
<1>2. /\ Trusted(h[k].book) /\ h[k].book.venue = Venue /\ h[k].rows \in Seq(Row)
      /\ h[k].issues = {} => \A i \in 1 .. k : l[i].form = "ok"
  BY <1>1 DEF View
<1>3. Outcome(h[k].book, x)
  BY <1>2, MetOK
<1>4. /\ last3.book = x.book /\ last3.rows = h[k].rows \o x.rows
      /\ last3.issues = h[k].issues \cup Blamed(h[k].book, f)
  OBVIOUS
<1> HIDE DEF x, last3
<1>5. g[k + 1] = last3 /\ \A n \in 0 .. k : g[n] = h[n]
  BY <1>1
<1> HIDE DEF g, m
<1>6. g[0] = [book |-> Fresh(Venue), rows |-> <<>>, issues |-> {}]
  BY <1>1, <1>5 DEF View
<1>7. ASSUME NEW n \in 1 .. k + 1
      PROVE  g[n] = [book   |-> Met(g[n - 1].book, m[n]).book,
                     rows   |-> g[n - 1].rows \o Met(g[n - 1].book, m[n]).rows,
                     issues |-> g[n - 1].issues \cup Blamed(g[n - 1].book, m[n])]
  <2>1. CASE n = k + 1
    <3>1. g[n - 1] = h[k] /\ m[n] = f /\ g[n] = last3
      BY <1>1, <1>5, <2>1
    <3> QED
      BY <3>1 DEF last3, x
  <2>2. CASE n # k + 1
    <3>1. n \in 1 .. k /\ n - 1 \in 0 .. k /\ n \in 0 .. k
      BY <1>1, <2>2
    <3>2. g[n - 1] = h[n - 1] /\ m[n] = l[n] /\ g[n] = h[n]
      BY <1>1, <1>5, <3>1
    <3> QED
      BY <3>1, <3>2 DEF View
  <2> QED
    BY <2>1, <2>2
<1>8. ASSUME NEW n \in 0 .. k + 1
      PROVE  /\ Trusted(g[n].book) /\ g[n].book.venue = Venue /\ g[n].rows \in Seq(Row)
             /\ g[n].issues = {} => \A i \in 1 .. n : m[i].form = "ok"
  <2>1. CASE n = k + 1
    <3>1. Trusted(last3.book) /\ last3.book.venue = Venue /\ x.rows \in Seq(Row)
      BY <1>2, <1>3, <1>4 DEF Outcome
    <3>2. last3.rows \in Seq(Row)
      BY <1>2, <1>4, <3>1
    <3>3. ASSUME last3.issues = {}, NEW i \in 1 .. k + 1 PROVE m[i].form = "ok"
      <4>1. h[k].issues = {} /\ Blamed(h[k].book, f) = {}
        BY <1>4, <3>3
      <4>2. f.form = "ok"
        <5>1. f.kind \in {"wire", "rest"}
          BY DEF FrameOK, TapeFrames
        <5> QED
          BY <4>1, <5>1, BlamedOK, Zenon
      <4>3. i = k + 1 \/ i \in 1 .. k
        BY <1>1
      <4> QED
        BY <1>1, <1>2, <4>1, <4>2, <4>3
    <3> QED
      BY <1>5, <2>1, <3>1, <3>2, <3>3
  <2>2. CASE n # k + 1
    <3>1. n \in 0 .. k /\ \A i \in 1 .. n : i \in 1 .. k
      BY <1>1, <2>2
    <3>2. g[n] = h[n] /\ \A i \in 1 .. n : m[i] = l[i]
      BY <1>1, <1>5, <3>1
    <3> QED
      BY <3>1, <3>2 DEF View
  <2> QED
    BY <2>1, <2>2
<1>9. View(g, m)
  BY <1>1, <1>6, <1>7, <1>8 DEF View
<1> QED
  BY <1>5, <1>9 DEF m

\* Rows without the time at which they became available.
Plain(stamped) == [i \in DOMAIN stamped |-> stamped[i].row]

LEMMA PlainMore ==
  ASSUME NEW rs \in Seq(TapeRow), NEW new \in Seq(Row), NEW f, Tape!Ms(f.tick) \in Int
  PROVE  rs \o Stamp(new, f) \in Seq(TapeRow) /\ Plain(rs \o Stamp(new, f)) = Plain(rs) \o new
<1> DEFINE st == Stamp(new, f)
           n == Len(rs)
           k == Len(new)
<1>1. /\ n \in Nat /\ k \in Nat /\ DOMAIN rs = 1 .. n /\ DOMAIN new = 1 .. k
      /\ \A i \in 1 .. k : new[i] \in Row
  OBVIOUS
<1>2. st = [i \in 1 .. k |-> [row |-> new[i], ms |-> Tape!Ms(f.tick)]]
  BY <1>1 DEF Stamp
<1> HIDE DEF st
<1>3. /\ st \in Seq(TapeRow) /\ Len(st) = k /\ \A i \in 1 .. k : st[i].row = new[i]
  <2>1. \A i \in 1 .. k : [row |-> new[i], ms |-> Tape!Ms(f.tick)] \in TapeRow
    BY <1>1 DEF TapeRow
  <2> QED
    BY <1>1, <1>2, <2>1
<1>4. /\ rs \o st \in Seq(TapeRow) /\ Len(rs \o st) = n + k
      /\ \A i \in 1 .. n + k : (rs \o st)[i] = IF i <= n THEN rs[i] ELSE st[i - n]
  <2>1. PICK s \in Seq(TapeRow) : s = st
    BY <1>3
  <2>2. /\ rs \o s \in Seq(TapeRow) /\ Len(rs \o s) = Len(rs) + Len(s)
        /\ \A i \in 1 .. Len(rs) + Len(s) : (rs \o s)[i] = IF i <= Len(rs) THEN rs[i] ELSE s[i - Len(rs)]
    BY ConcatProperties
  <2> QED
    BY <1>3, <2>1, <2>2
<1> DEFINE p == [i \in 1 .. n |-> rs[i].row]
<1>5. Plain(rs) = p /\ p \in Seq(Row) /\ Len(p) = n /\ \A i \in 1 .. n : p[i] = rs[i].row
  <2>1. \A i \in 1 .. n : rs[i].row \in Row
    <3>1. \A i \in 1 .. n : rs[i] \in TapeRow
      BY <1>1
    <3> QED
      BY <3>1 DEF TapeRow
  <2> QED
    BY <1>1, <2>1 DEF Plain
<1> HIDE DEF p
<1>6. /\ p \o new \in Seq(Row) /\ Len(p \o new) = n + k
      /\ \A i \in 1 .. n + k : (p \o new)[i] = IF i <= n THEN p[i] ELSE new[i - n]
  <2>1. PICK s \in Seq(Row) : s = p
    BY <1>5
  <2>2. /\ s \o new \in Seq(Row) /\ Len(s \o new) = Len(s) + Len(new)
        /\ \A i \in 1 .. Len(s) + Len(new) : (s \o new)[i] = IF i <= Len(s) THEN s[i] ELSE new[i - Len(s)]
    BY ConcatProperties
  <2> QED
    BY <1>1, <1>5, <2>1, <2>2
<1>7. DOMAIN (rs \o st) = 1 .. n + k
  BY <1>4
<1> DEFINE q == p \o new
           w == rs \o st
<1>8. Plain(w) = [i \in 1 .. n + k |-> w[i].row]
  BY <1>7 DEF Plain
<1> HIDE DEF q, w
<1>9. q = [i \in 1 .. n + k |-> q[i]]
  <2>1. q \in Seq(Row) /\ Len(q) = n + k
    BY <1>6 DEF q
  <2> QED
    BY <2>1
<1>10. ASSUME NEW i \in 1 .. n + k PROVE w[i].row = q[i]
  <2>1. CASE i <= n
    <3>1. i \in 1 .. n
      BY <1>1, <2>1
    <3> QED
      BY <1>4, <1>5, <1>6, <2>1, <3>1 DEF q, w
  <2>2. CASE ~(i <= n)
    <3>1. i - n \in 1 .. k
      BY <1>1, <2>2
    <3> QED
      BY <1>3, <1>4, <1>6, <2>2, <3>1 DEF q, w
  <2> QED
    BY <2>1, <2>2
<1>11. Plain(w) = q
  BY <1>8, <1>9, <1>10
<1> QED
  BY <1>4, <1>5, <1>11 DEF q, w, st

\* The clock was not stepped, no response shares its millisecond with a websocket
\* frame, and each request was answered.
Ordered ==
  /\ Tape!Monotone /\ Tape!Ties = {} /\ Tape!Readable = {log[i] : i \in DOMAIN log}

\* Then the order of the keys is that of the recording.
LEMMA KeysAscend ==
  ASSUME TapeLog, Ordered, NEW i \in DOMAIN log, NEW j \in DOMAIN log, i < j, NEW legacy
  PROVE  /\ Tape!Before(Tape!OrderKey(log[i], legacy), Tape!OrderKey(log[j], legacy))
         /\ ~ Tape!Before(Tape!OrderKey(log[j], legacy), Tape!OrderKey(log[i], legacy))
<1> DEFINE f == log[i]
           g == log[j]
           a == Tape!OrderKey(f, legacy)
           b == Tape!OrderKey(g, legacy)
<1>1. /\ f.kind \in {"wire", "rest"} /\ g.kind \in {"wire", "rest"} /\ f.tick \in Nat /\ g.tick \in Nat
      /\ f.index = i /\ g.index = j /\ i \in Int /\ j \in Int /\ f.tick <= g.tick
      /\ f \in Tape!Readable /\ g \in Tape!Readable
  BY DEF TapeLog, FrameOK, TapeFrames, Ordered, Tape!Monotone
<1>2. Tape!Ms(f.tick) \in Nat /\ Tape!Ms(g.tick) \in Nat /\ Tape!Ms(f.tick) <= Tape!Ms(g.tick)
  BY <1>1 DEF Tape!Ms
<1>3. Tape!Ms(f.tick) = Tape!Ms(g.tick) => f.kind = g.kind
  BY <1>1 DEF Ordered, Tape!Ties
<1>4. /\ a[1] = Tape!Ms(f.tick) /\ a[2] = IF f.kind = "wire" THEN 0 ELSE 1
      /\ a[3] = (IF f.kind # "wire" \/ legacy THEN -1 ELSE f.tick) /\ a[4] = i
      /\ b[1] = Tape!Ms(g.tick) /\ b[2] = IF g.kind = "wire" THEN 0 ELSE 1
      /\ b[3] = (IF g.kind # "wire" \/ legacy THEN -1 ELSE g.tick) /\ b[4] = j
  BY <1>1 DEF Tape!OrderKey
<1> HIDE DEF a, b, f, g
<1>5. /\ a[1] \in Int /\ b[1] \in Int /\ a[2] \in Int /\ b[2] \in Int /\ a[3] \in Int /\ b[3] \in Int
      /\ a[4] \in Int /\ b[4] \in Int /\ a[4] < b[4]
      /\ a[1] <= b[1] /\ (a[1] = b[1] => a[2] = b[2] /\ a[3] <= b[3])
  BY <1>1, <1>2, <1>3, <1>4
<1>6. Tape!Before(a, b)
  <2>1. CASE a[1] < b[1]
    BY <2>1 DEF Tape!Before
  <2>2. CASE a[1] = b[1] /\ a[3] < b[3]
    BY <1>5, <2>2 DEF Tape!Before
  <2>3. CASE a[1] = b[1] /\ a[3] = b[3]
    BY <1>5, <2>3 DEF Tape!Before
  <2> QED
    BY <1>5, <2>1, <2>2, <2>3
<1>7. ~ Tape!Before(b, a)
  <2> SUFFICES ASSUME NEW x \in 1 .. 4, b[x] < a[x], \A y \in 1 .. x - 1 : b[y] = a[y] PROVE FALSE
    BY DEF Tape!Before
  <2>1. CASE x = 1
    BY <1>5, <2>1
  <2>2. CASE x = 2
    BY <1>5, <2>2
  <2>3. CASE x = 3
    BY <1>5, <2>3
  <2>4. CASE x = 4
    BY <1>5, <2>4
  <2> QED
    BY <2>1, <2>2, <2>3, <2>4
<1> QED
  BY <1>6, <1>7 DEF a, b, f, g

Rest(n) == {log[i] : i \in n + 1 .. Len(log)}

\* The first of the last frames is the next.
LEMMA NextIs ==
  ASSUME TapeLog, Ordered, NEW n \in 0 .. Len(log) - 1, NEW legacy
  PROVE  Tape!First(Rest(n), legacy) = log[n + 1] /\ Rest(n) \ {log[n + 1]} = Rest(n + 1)
<1>1. /\ Len(log) \in Nat /\ DOMAIN log = 1 .. Len(log) /\ n + 1 \in DOMAIN log /\ n \in Nat
      /\ \A i \in DOMAIN log : log[i].index = i
  BY DEF TapeLog
<1> DEFINE K(f) == Tape!OrderKey(f, legacy)
           S == Rest(n)
<1>2. log[n + 1] \in S /\ \A f \in S : \E i \in DOMAIN log : i >= n + 1 /\ f = log[i]
  BY <1>1 DEF Rest
<1>3. \A f \in S : f = log[n + 1] \/ (Tape!Before(K(log[n + 1]), K(f)) /\ ~Tape!Before(K(f), K(log[n + 1])))
  <2> SUFFICES ASSUME NEW f \in S, f # log[n + 1]
               PROVE  Tape!Before(K(log[n + 1]), K(f)) /\ ~Tape!Before(K(f), K(log[n + 1]))
    OBVIOUS
  <2>1. PICK i \in DOMAIN log : i >= n + 1 /\ f = log[i]
    BY <1>2
  <2>2. n + 1 < i
    BY <1>1, <2>1
  <2> QED
    BY <1>1, <2>1, <2>2, KeysAscend
<1> HIDE DEF K, S
<1>4. Tape!First(S, legacy) = CHOOSE f \in S : \A g \in S : g = f \/ Tape!Before(K(f), K(g))
  BY DEF Tape!First, K
<1>5. \A g \in S : g = log[n + 1] \/ Tape!Before(K(log[n + 1]), K(g))
  BY <1>3
<1> DEFINE first == Tape!First(S, legacy)
<1>6. first \in S /\ \A g \in S : g = first \/ Tape!Before(K(first), K(g))
  <2> HIDE DEF first
  <2> QED
    BY <1>2, <1>4, <1>5 DEF first
<1>7. first = log[n + 1]
  <2> HIDE DEF first
  <2> QED
    BY <1>2, <1>3, <1>6
<1>8. S \ {log[n + 1]} = Rest(n + 1)
  <2>1. S = {log[i] : i \in n + 1 .. Len(log)} /\ Rest(n + 1) = {log[i] : i \in n + 1 + 1 .. Len(log)}
    BY DEF S, Rest
  <2>2. \A i \in n + 1 .. Len(log) : i \in n + 1 + 1 .. Len(log) \/ i = n + 1
    BY <1>1
  <2>3. \A i \in n + 1 + 1 .. Len(log) : i \in n + 1 .. Len(log) /\ log[i] # log[n + 1]
    BY <1>1
  <2> QED
    BY <2>1, <2>2, <2>3
<1> QED
  BY <1>7, <1>8 DEF S

\* The engine before a recording, what it makes of the first of the frames left,
\* and the issues it adds.
Started(issues) == EngineOf(Fresh(Venue), <<>>, issues, Tape!Readable)
Without(lf, f) == lf \ {f}
Turned(e, legacy) ==
  [Tape!Dispatch(e, Tape!First(e.left, legacy)) EXCEPT !.left = Without(@, Tape!First(e.left, legacy))]

LEMMA AfterIs ==
  \A issues, legacy, N :
    N \in Nat /\ N = Cardinality(Tape!Readable) =>
      /\ Tape!Engine(issues, legacy)[0] = Started(issues)
      /\ \A n \in 1 .. N :
           Tape!Engine(issues, legacy)[n] = Turned(Tape!Engine(issues, legacy)[n - 1], legacy)
<1> SUFFICES ASSUME NEW issues, NEW legacy, NEW N \in Nat, N = Cardinality(Tape!Readable)
             PROVE  /\ Tape!Engine(issues, legacy)[0] = Started(issues)
                    /\ \A n \in 1 .. N :
                         Tape!Engine(issues, legacy)[n] = Turned(Tape!Engine(issues, legacy)[n - 1], legacy)
  OBVIOUS
<1> DEFINE after == Tape!Engine(issues, legacy)
<1>1. /\ after[0] = [book |-> Fresh(Venue), rows |-> <<>>, issues |-> issues, left |-> Tape!Readable]
      /\ \A n \in 1 .. N :
           after[n] = [Tape!Dispatch(after[n - 1], Tape!First(after[n - 1].left, legacy))
                         EXCEPT !.left = @ \ {Tape!First(after[n - 1].left, legacy)}]
  BY EngineAre
<1> QED
  BY <1>1, Zenon DEF Started, EngineOf, Turned, Without

\* A turn of an engine that dispatch makes another.
LEMMA TurnedIs ==
  \A b, rs, js, lf, c, qs, ks, legacy :
    Tape!Dispatch(EngineOf(b, rs, js, lf), Tape!First(lf, legacy)) = EngineOf(c, qs, ks, lf)
      => Turned(EngineOf(b, rs, js, lf), legacy) = EngineOf(c, qs, ks, Without(lf, Tape!First(lf, legacy)))
<1> SUFFICES ASSUME NEW b, NEW rs, NEW js, NEW lf, NEW c, NEW qs, NEW ks, NEW legacy,
                    Tape!Dispatch(EngineOf(b, rs, js, lf), Tape!First(lf, legacy)) = EngineOf(c, qs, ks, lf)
             PROVE  Turned(EngineOf(b, rs, js, lf), legacy)
                      = EngineOf(c, qs, ks, Without(lf, Tape!First(lf, legacy)))
  OBVIOUS
<1> DEFINE e == EngineOf(b, rs, js, lf)
           d == EngineOf(c, qs, ks, lf)
           f == Tape!First(lf, legacy)
           rest == Without(lf, f)
<1>1. e.left = lf /\ d.left = lf
  BY DEF EngineOf
<1>2. Turned(e, legacy) = [d EXCEPT !.left = rest]
  BY <1>1 DEF Turned
<1> HIDE DEF rest
<1>3. [d EXCEPT !.left = rest] = EngineOf(c, qs, ks, rest)
  BY DEF EngineOf
<1> QED
  BY <1>2, <1>3 DEF rest

\* No issue is taken back.
Grown(issues, e) == \E b, rs, js, lf : e = EngineOf(b, rs, js, lf) /\ issues \subseteq js

LEMMA GrownMore ==
  \A issues, e, legacy : Grown(issues, e) => Grown(issues, Turned(e, legacy))
<1> SUFFICES ASSUME NEW issues, NEW e, NEW legacy, Grown(issues, e)
             PROVE  Grown(issues, Turned(e, legacy))
  OBVIOUS
<1>1. PICK b, rs, js, lf : e = EngineOf(b, rs, js, lf) /\ issues \subseteq js
  BY DEF Grown
<1> DEFINE f == Tape!First(lf, legacy)
           Made(d) == \E c, qs, ks : d = EngineOf(c, qs, ks, lf) /\ issues \subseteq ks
<1>2. \A x : Made(Tape!Record(e, x, f))
  BY <1>1, RecordIs
<1>3. \A more : Made(Blaming(e, more)) /\ \A x : Made(Tape!Record(Blaming(e, more), x, f))
  <2> SUFFICES ASSUME NEW more PROVE Made(Blaming(e, more)) /\ \A x : Made(Tape!Record(Blaming(e, more), x, f))
    OBVIOUS
  <2> DEFINE ks == Joining(js, more)
  <2>1. Blaming(e, more) = EngineOf(b, rs, ks, lf)
    <3>1. Blaming(EngineOf(b, rs, js, lf), more) = EngineOf(b, rs, ks, lf)
      BY BlameIs
    <3> QED
      BY <1>1, <3>1
  <2>2. issues \subseteq ks
    BY <1>1 DEF Joining
  <2> HIDE DEF ks
  <2> QED
    BY <2>1, <2>2, RecordIs
<1> HIDE DEF Made
<1>4. Made(Tape!Dispatch(e, f))
  <2> DEFINE x == Tape!RetryPending(Tape!Apply(e.book, f.body))
             y == Tape!Attempt(e.book, f.body)
             two == {"frames_undecodable", "frames_truncated"}
  <2>1. \/ Tape!Dispatch(e, f) = Tape!Record(e, x, f)
        \/ Tape!Dispatch(e, f) = Blaming(e, {"frames_undecodable"})
        \/ Tape!Dispatch(e, f) = Blaming(e, two)
        \/ Tape!Dispatch(e, f) = Blaming(e, {"snapshots_rejected"})
        \/ Tape!Dispatch(e, f) = Tape!Record(e, y, f)
        \/ Tape!Dispatch(e, f) = Tape!Record(Blaming(e, {"snapshots_rejected"}), y, f)
    BY Zenon DEF Tape!Dispatch, Tape!HandleWire, Tape!HandleSnapshot, Blaming, Joining
  <2> HIDE DEF x, y, two
  <2> QED
    BY <1>2, <1>3, <2>1, Zenon
<1>5. PICK c, qs, ks : Tape!Dispatch(e, f) = EngineOf(c, qs, ks, lf) /\ issues \subseteq ks
  BY <1>4 DEF Made
<1>6. Turned(e, legacy) = EngineOf(c, qs, ks, Without(lf, f))
  <2>1. Tape!Dispatch(EngineOf(b, rs, js, lf), f) = EngineOf(c, qs, ks, lf)
    BY <1>1, <1>5
  <2>2. Turned(EngineOf(b, rs, js, lf), legacy) = EngineOf(c, qs, ks, Without(lf, f))
    BY <2>1, TurnedIs
  <2> QED
    BY <1>1, <2>2
<1> QED
  BY <1>5, <1>6, Zenon DEF Grown

LEMMA ReplayGrows ==
  ASSUME TapeLog, NEW issues, NEW legacy
  PROVE  issues \subseteq Tape!Engine(issues, legacy)[Tape!Cardinality(Tape!Readable)].issues
<1> DEFINE N == Cardinality(Tape!Readable)
           after == Tape!Engine(issues, legacy)
           Bad == {n \in 0 .. N : ~Grown(issues, after[n])}
<1>1. N \in Nat
  BY TapeMade, FS_CardinalityType DEF TapeLog
<1>2. after[0] = Started(issues) /\ \A n \in 1 .. N : after[n] = Turned(after[n - 1], legacy)
  BY <1>1, AfterIs, Zenon
<1> HIDE DEF after, N
<1>3. Grown(issues, after[0])
  BY <1>2 DEF Grown, Started
<1>4. Bad = {}
  <2> SUFFICES ASSUME Bad # {} PROVE FALSE
    OBVIOUS
  <2>1. Bad \subseteq Nat
    BY <1>1
  <2>2. PICK n \in Bad : \A k \in Bad : n <= k
    BY <2>1, Smallest
  <2>3. n \in 1 .. N /\ n - 1 \in 0 .. N /\ ~(n <= n - 1)
    BY <1>1, <1>3, <2>2
  <2>4. Grown(issues, after[n - 1])
    BY <2>2, <2>3
  <2> QED
    BY <1>2, <2>2, <2>3, <2>4, GrownMore
<1>5. Grown(issues, after[N])
  BY <1>1, <1>4
<1>6. issues \subseteq after[N].issues
  BY <1>5 DEF Grown, EngineOf
<1> QED
  BY <1>6, TapeCard DEF after, N

LEMMA MsIs == \A f : FrameOK(f) => Tape!Ms(f.tick) \in Int
BY KeyIs

\* The engine of an ordered recording after n frames: what the view holds of them.
Seen(e, v, n, issues) ==
  \E rs \in Seq(TapeRow) :
    e = EngineOf(v.book, rs, Joining(issues, v.issues), Rest(n)) /\ Plain(rs) = v.rows

LEMMA SeenMore ==
  ASSUME TapeLog, Ordered, NEW h, View(h, log), NEW n \in 1 .. Len(log), NEW issues, NEW legacy,
         NEW e, Seen(e, h[n - 1], n - 1, issues)
  PROVE  Seen(Turned(e, legacy), h[n], n, issues)
<1> DEFINE v == h[n - 1]
           f == log[n]
           b == v.book
           js == Joining(issues, v.issues)
           x == Met(b, f)
<1>1. PICK rs \in Seq(TapeRow) : e = EngineOf(b, rs, js, Rest(n - 1)) /\ Plain(rs) = v.rows
  BY DEF Seen
<1>2. /\ n \in DOMAIN log /\ n - 1 \in 0 .. Len(log) - 1 /\ n - 1 \in 0 .. Len(log) /\ (n - 1) + 1 = n
      /\ FrameOK(f)
  BY DEF TapeLog
<1>3. Tape!First(Rest(n - 1), legacy) = f /\ Without(Rest(n - 1), f) = Rest(n)
  BY <1>2, NextIs DEF Without
<1>4. /\ h[n].book = x.book /\ h[n].rows = v.rows \o x.rows
      /\ h[n].issues = v.issues \cup Blamed(b, f)
      /\ Trusted(b) /\ b.venue = Venue
  <2>1. Trusted(b) /\ b.venue = Venue
    BY <1>2 DEF View
  <2>2. h[n] = [book |-> x.book, rows |-> v.rows \o x.rows, issues |-> v.issues \cup Blamed(b, f)]
    BY DEF View
  <2> DEFINE p == x.book
             q == v.rows \o x.rows
             r == v.issues \cup Blamed(b, f)
  <2>3. h[n] = [book |-> p, rows |-> q, issues |-> r]
    BY <2>2
  <2> HIDE DEF p, q, r
  <2>4. h[n].book = p /\ h[n].rows = q /\ h[n].issues = r
    BY <2>3
  <2> QED
    BY <2>1, <2>4 DEF p, q, r
<1> DEFINE more == Stamp(x.rows, f)
           qs == rs \o more
           ks == Joining(js, Blamed(b, f))
<1>5. qs \in Seq(TapeRow) /\ Plain(qs) = Plain(rs) \o x.rows
  <2>1. Outcome(b, x)
    BY <1>2, <1>4, MetOK
  <2>2. x.rows \in Seq(Row)
    BY <2>1 DEF Outcome
  <2>3. Tape!Ms(f.tick) \in Int
    BY <1>2, MsIs
  <2> HIDE DEF x
  <2> QED
    BY <2>2, <2>3, PlainMore
<1>6. Tape!Dispatch(EngineOf(b, rs, js, Rest(n - 1)), f) = EngineOf(x.book, qs, ks, Rest(n - 1))
  BY DispatchIs
<1>7. Turned(EngineOf(b, rs, js, Rest(n - 1)), legacy) = EngineOf(x.book, qs, ks, Rest(n))
  <2> HIDE DEF x, qs, ks, f, js, b
  <2>1. Turned(EngineOf(b, rs, js, Rest(n - 1)), legacy)
          = EngineOf(x.book, qs, ks, Without(Rest(n - 1), Tape!First(Rest(n - 1), legacy)))
    BY <1>3, <1>6, TurnedIs
  <2> QED
    BY <1>3, <2>1
<1>8. ks = Joining(issues, h[n].issues)
  BY <1>4 DEF Joining
<1> HIDE DEF x, qs, ks, f, js, b
<1>9. Turned(e, legacy) = EngineOf(h[n].book, qs, Joining(issues, h[n].issues), Rest(n))
  BY <1>1, <1>4, <1>7, <1>8
<1>10. Plain(qs) = h[n].rows
  BY <1>1, <1>4, <1>5
<1> QED
  BY <1>5, <1>9, <1>10 DEF Seen

LEMMA AllReadable ==
  ASSUME TapeLog, Ordered
  PROVE  Cardinality(Tape!Readable) = Len(log) /\ Len(log) \in Nat /\ Tape!Readable = Rest(0)
<1> DEFINE R == Tape!Readable
           index == [f \in R |-> f.index]
<1>1. /\ log \in Seq(TapeFrames) /\ Len(log) \in Nat /\ DOMAIN log = 1 .. Len(log)
      /\ \A i \in 1 .. Len(log) : log[i].index = i
  BY DEF TapeLog
<1>2. R = {log[i] : i \in 1 .. Len(log)}
  BY <1>1 DEF Ordered
<1> HIDE DEF R
<1>3. index \in Injection(R, 1 .. Len(log))
  BY <1>1, <1>2 DEF Injection, IsInjective
<1>4. index \in Surjection(R, 1 .. Len(log))
  <2>1. index \in [R -> 1 .. Len(log)]
    BY <1>1, <1>2
  <2>2. \A i \in 1 .. Len(log) : log[i] \in R /\ index[log[i]] = i
    BY <1>1, <1>2
  <2> QED
    BY <2>1, <2>2 DEF Surjection
<1>5. IsFiniteSet(1 .. Len(log)) /\ Cardinality(1 .. Len(log)) = Len(log)
  BY <1>1, FS_Interval
<1> HIDE DEF index
<1>6. Cardinality(R) = Len(log)
  BY <1>3, <1>4, <1>5, FS_Injection
<1>7. R = Rest(0)
  <2>1. 0 + 1 = 1
    OBVIOUS
  <2> QED
    BY <1>2, <2>1 DEF Rest
<1> QED
  BY <1>1, <1>6, <1>7 DEF R

\* A replay of an ordered recording is the view of it.
LEMMA ReplayIsView ==
  ASSUME TapeLog, Ordered, NEW h, View(h, log), NEW issues, NEW legacy
  PROVE  Seen(Tape!Engine(issues, legacy)[Tape!Cardinality(Tape!Readable)], h[Len(log)], Len(log), issues)
<1> DEFINE N == Len(log)
           after == Tape!Engine(issues, legacy)
           Bad == {n \in 0 .. N : ~Seen(after[n], h[n], n, issues)}
<1>1. N \in Nat /\ N = Cardinality(Tape!Readable) /\ Tape!Readable = Rest(0)
  BY AllReadable
<1>2. after[0] = Started(issues) /\ \A n \in 1 .. N : after[n] = Turned(after[n - 1], legacy)
  BY <1>1, AfterIs, Zenon
<1> HIDE DEF after
<1>3. Seen(after[0], h[0], 0, issues)
  <2>1. h[0].book = Fresh(Venue) /\ h[0].rows = <<>> /\ h[0].issues = {}
    BY DEF View
  <2>2. Joining(issues, h[0].issues) = issues
    BY <2>1 DEF Joining
  <2>3. <<>> \in Seq(TapeRow) /\ Plain(<<>>) = <<>>
    BY DEF Plain
  <2>4. after[0] = EngineOf(h[0].book, <<>>, Joining(issues, h[0].issues), Rest(0))
    BY <1>1, <1>2, <2>1, <2>2 DEF Started
  <2> QED
    BY <2>1, <2>3, <2>4 DEF Seen
<1>4. Bad = {}
  <2> SUFFICES ASSUME Bad # {} PROVE FALSE
    OBVIOUS
  <2>1. Bad \subseteq Nat
    BY <1>1
  <2>2. PICK n \in Bad : \A k \in Bad : n <= k
    BY <2>1, Smallest
  <2>3. n \in 1 .. N /\ n - 1 \in 0 .. N /\ ~(n <= n - 1)
    BY <1>1, <1>3, <2>2
  <2>4. Seen(after[n - 1], h[n - 1], n - 1, issues)
    BY <2>2, <2>3
  <2>5. Seen(Turned(after[n - 1], legacy), h[n], n, issues)
    BY <2>3, <2>4, SeenMore
  <2> QED
    BY <1>2, <2>2, <2>3, <2>5
<1>5. Seen(after[N], h[N], N, issues)
  BY <1>1, <1>4
<1> QED
  BY <1>1, <1>5, TapeCard DEF after

\* The collector has handled all the frames of a log but those that wait, and its
\* book and rows are the view's.
Shadows(h, q, l, b, rs) ==
  LET n == Len(l) - Len(q) IN
  /\ Len(q) <= Len(l) /\ \A i \in 1 .. Len(q) : l[n + i].kind = "wire" /\ l[n + i].body = q[i]
  /\ Alike(h[n].book, b) /\ h[n].rows = rs

AllOk(l) == \A i \in DOMAIN l : l[i].form = "ok"

\* A frame is recorded and waits.
LEMMA ShadowArrives ==
  ASSUME NEW l \in Seq(TapeFrames), NEW q \in Seq(Diff), NEW h, NEW b, NEW rs, Shadows(h, q, l, b, rs),
         NEW f, FrameOK(f), f.kind = "wire", NEW g, \A n \in 0 .. Len(l) : g[n] = h[n]
  PROVE  Shadows(g, Append(q, f.body), Append(l, f), b, rs)
<1> DEFINE m == Append(l, f)
           d == f.body
           p == Append(q, d)
           n == Len(l) - Len(q)
<1>1. f \in TapeFrames /\ d \in Diff
  BY DEF FrameOK
<1>2. /\ Len(l) \in Nat /\ Len(q) \in Nat /\ Len(q) <= Len(l) /\ n \in 0 .. Len(l)
      /\ \A i \in 1 .. Len(q) : l[n + i].kind = "wire" /\ l[n + i].body = q[i]
      /\ Alike(h[n].book, b) /\ h[n].rows = rs
  BY DEF Shadows
<1> HIDE DEF d
<1>3. /\ Len(m) = Len(l) + 1 /\ Len(p) = Len(q) + 1 /\ Len(m) - Len(p) = n
      /\ m[Len(l) + 1] = f /\ p[Len(q) + 1] = d
      /\ \A i \in 1 .. Len(l) : m[i] = l[i]
      /\ \A i \in 1 .. Len(q) : p[i] = q[i]
  BY <1>1, <1>2
<1> HIDE DEF m, p
<1>4. ASSUME NEW i \in 1 .. Len(p) PROVE m[n + i].kind = "wire" /\ m[n + i].body = p[i]
  <2>1. CASE i = Len(q) + 1
    <3>1. n + i = Len(l) + 1
      BY <1>2, <2>1
    <3> QED
      BY <1>3, <2>1, <3>1 DEF d
  <2>2. CASE i # Len(q) + 1
    <3>1. i \in 1 .. Len(q) /\ n + i \in 1 .. Len(l)
      BY <1>2, <1>3, <2>2
    <3> QED
      BY <1>2, <1>3, <3>1
  <2> QED
    BY <2>1, <2>2
<1>5. Alike(g[n].book, b) /\ g[n].rows = rs
  BY <1>2
<1>6. Len(p) <= Len(m)
  BY <1>2, <1>3
<1>7. Shadows(g, p, m, b, rs)
  <2> HIDE DEF n
  <2> QED
    BY <1>3, <1>4, <1>5, <1>6 DEF Shadows
<1> QED
  BY <1>7 DEF m, p, d

\* The worker hands over the first that waits.
LEMMA ShadowHandles ==
  ASSUME Venue = "BINANCE", NEW l \in Seq(TapeFrames), \A i \in DOMAIN l : FrameOK(l[i]), AllOk(l),
         NEW q \in Seq(Diff), q # <<>>, NEW h, View(h, l), NEW b, NEW rs, Shadows(h, q, l, b, rs)
  PROVE  Shadows(h, Tail(q), l, Tape!LiveApply(b, Head(q)).book, rs \o Tape!LiveApply(b, Head(q)).rows)
<1> DEFINE n == Len(l) - Len(q)
           f == l[n + 1]
           a == h[n].book
           d == Head(q)
           ly == Tape!LiveApply(b, d)
           px == Tape!RetryPending(Apply(a, d))
<1>1. /\ Len(l) \in Nat /\ Len(q) \in Nat /\ Len(q) >= 1 /\ Len(q) <= Len(l) /\ n \in 0 .. Len(l)
      /\ n + 1 \in 1 .. Len(l) /\ n + 1 \in DOMAIN l /\ d = q[1] /\ d \in Diff
      /\ Tail(q) \in Seq(Diff) /\ Len(Tail(q)) = Len(q) - 1 /\ Len(l) - Len(Tail(q)) = n + 1
      /\ \A i \in 1 .. Len(q) - 1 : Tail(q)[i] = q[i + 1]
  BY DEF Shadows
<1>2. /\ \A i \in 1 .. Len(q) : l[n + i].kind = "wire" /\ l[n + i].body = q[i]
      /\ Alike(a, b) /\ h[n].rows = rs
  BY DEF Shadows
<1>3. f.kind = "wire" /\ f.body = d /\ f.form = "ok" /\ FrameOK(f)
  BY <1>1, <1>2 DEF AllOk
<1>4. Trusted(a) /\ a.venue = Venue /\ Numbered(Venue, d)
  BY <1>1, <1>3 DEF View, FrameOK
<1>5. Alike(px.book, ly.book) /\ px.rows = ly.rows
  BY <1>1, <1>2, <1>4, AlikeHandled
<1>6. Met(a, f).book = px.book /\ Met(a, f).rows = px.rows
  BY <1>3 DEF Met
<1>7. h[n + 1].book = Met(a, f).book /\ h[n + 1].rows = h[n].rows \o Met(a, f).rows
  <2>1. (n + 1) - 1 = n
    BY <1>1
  <2> DEFINE x == Met(a, f).book
             y == h[n].rows \o Met(a, f).rows
             z == h[n].issues \cup Blamed(a, f)
  <2>2. h[n + 1] = [book |-> x, rows |-> y, issues |-> z]
    BY <1>1, <2>1 DEF View
  <2> HIDE DEF x, y, z
  <2>3. h[n + 1].book = x /\ h[n + 1].rows = y
    BY <2>2
  <2> QED
    BY <2>3 DEF x, y
<1> HIDE DEF px, ly, f, a, d
<1>8. Alike(h[n + 1].book, ly.book) /\ h[n + 1].rows = rs \o ly.rows
  BY <1>2, <1>5, <1>6, <1>7
<1>9. ASSUME NEW i \in 1 .. Len(q) - 1
      PROVE  l[n + 1 + i].kind = "wire" /\ l[n + 1 + i].body = Tail(q)[i]
  <2>1. i + 1 \in 1 .. Len(q) /\ n + (i + 1) = n + 1 + i
    BY <1>1
  <2> QED
    BY <1>1, <1>2, <2>1
<1> DEFINE t == Tail(q)
           bk == ly.book
           more == rs \o ly.rows
<1>10. Len(t) <= Len(l) /\ Len(l) - Len(t) = n + 1 /\ Len(t) = Len(q) - 1
  BY <1>1
<1> HIDE DEF n, t, bk, more
<1>11. Shadows(h, t, l, bk, more)
  BY <1>8, <1>9, <1>10 DEF Shadows, t, bk, more
<1> QED
  BY <1>11 DEF t, bk, more, ly, d

\* A response is recorded and handled while nothing waits.
LEMMA ShadowAnswers ==
  ASSUME NEW l \in Seq(TapeFrames), NEW h, NEW b, NEW rs, Shadows(h, <<>>, l, b, rs),
         NEW f, FrameOK(f), f.kind = "rest", f.form = "ok",
         NEW g, View(g, Append(l, f)), \A n \in 0 .. Len(l) : g[n] = h[n]
  PROVE  Shadows(g, <<>>, Append(l, f), Attempt(b, f.body).book, rs \o Attempt(b, f.body).rows)
<1> DEFINE n == Len(l)
           m == Append(l, f)
           a == h[n].book
           s == f.body
           x == Attempt(a, s)
           y == Attempt(b, s)
<1>1. f \in TapeFrames /\ s \in Snap
  BY DEF FrameOK
<1>2. n \in Nat /\ Len(m) = n + 1 /\ m[n + 1] = f /\ n + 1 \in 1 .. n + 1 /\ (n + 1) - 1 = n /\ n \in 0 .. n
  BY <1>1
<1>3. Alike(a, b) /\ h[n].rows = rs /\ g[n] = h[n]
  <2>1. Len(<<>>) = 0 /\ n - 0 = n
    BY <1>2
  <2> QED
    BY <1>2, <2>1 DEF Shadows
<1>4. Alike(x.book, y.book) /\ x.rows = y.rows
  BY <1>1, <1>3, AlikeAttempt
<1>5. Met(a, f).book = x.book /\ Met(a, f).rows = x.rows
  BY DEF Met
<1>6. g[n + 1].book = Met(a, f).book /\ g[n + 1].rows = h[n].rows \o Met(a, f).rows
  <2> DEFINE u == Met(a, f).book
             v == h[n].rows \o Met(a, f).rows
             w == h[n].issues \cup Blamed(a, f)
  <2>1. g[n + 1] = [book |-> u, rows |-> v, issues |-> w]
    <3>1. View(g, m)
      OBVIOUS
    <3> HIDE DEF m
    <3>2. g[n + 1] = [book |-> Met(g[n].book, f).book, rows |-> g[n].rows \o Met(g[n].book, f).rows,
                      issues |-> g[n].issues \cup Blamed(g[n].book, f)]
      BY <1>2, <3>1 DEF View
    <3> QED
      BY <1>3, <3>2
  <2> HIDE DEF u, v, w
  <2>2. g[n + 1].book = u /\ g[n + 1].rows = v
    BY <2>1
  <2> QED
    BY <2>2 DEF u, v
<1> HIDE DEF x, y, a, s, m
<1>7. Alike(g[n + 1].book, y.book) /\ g[n + 1].rows = rs \o y.rows
  BY <1>3, <1>4, <1>5, <1>6
<1> DEFINE bk == y.book
           more == rs \o y.rows
<1>8. Len(<<>>) = 0 /\ Len(m) - 0 = n + 1 /\ 0 <= Len(m)
  BY <1>2
<1> HIDE DEF n, bk, more
<1>9. Shadows(g, <<>>, m, bk, more)
  BY <1>7, <1>8 DEF Shadows, bk, more
<1> QED
  BY <1>9 DEF m, bk, more, y, s

\* A book that is not VALID is marked.
LEMMA ShadowMarked ==
  ASSUME NEW h, NEW q, NEW l, NEW b, NEW rs, Trusted(b), Shadows(h, q, l, b, rs), b.state # "VALID"
  PROVE  Shadows(h, q, l, Resync(b), rs)
<1> DEFINE a == h[Len(l) - Len(q)].book
           c == Resync(b)
<1>1. Alike(a, b)
  BY DEF Shadows
<1>2. b \in Book /\ Trusted(c)
  BY Trusts, GapOK
<1>3. Same(c, b) /\ c.state = "RECOVERING"
  <2>1. Same(b, b)
    BY DEF Same
  <2> QED
    BY <1>2, <2>1, SameMarks
<1> HIDE DEF c
<1>4. Alike(a, c)
  BY <1>1, <1>2, <1>3 DEF Alike, Same
<1> QED
  BY <1>4 DEF Shadows, c

\* While it records, a collector whose recording tells all is the shadow of its view.
Shadowed ==
  \E h : /\ View(h, log)
         /\ ~hidden /\ ~overtook /\ AllOk(log) => Shadows(h, queue, log, live, liveRows)

ParityInv == (mode = "recording" => Shadowed) /\ Tape!PristineParity

\* The raw writers keep a frame, or it never reaches the disk.
Kept(kind, body, form) ==
  \/ hidden' = TRUE /\ log' = log
  \/ /\ hidden' = hidden
     /\ \E f : /\ FrameOK(f) /\ f.kind = kind /\ f.body = body /\ f.form = form
               /\ log' = Append(log, f)

LEMMA RecordedIs ==
  ASSUME Tape!ReplayAssumption, TapeLog, tick' \in Nat,
         NEW kind \in {"wire", "rest"}, NEW body, NEW form \in Tape!Forms, NEW lost \in BOOLEAN,
         kind = "wire" => body \in Diff /\ Numbered(Venue, body), kind = "rest" => body \in Snap,
         Tape!Recorded(Tape!Frame(kind, body, form), lost)
  PROVE  Kept(kind, body, form)
<1>1. CASE lost
  BY <1>1 DEF Tape!Recorded, Kept
<1>2. CASE ~lost
  <2> DEFINE f == [kind |-> kind, tick |-> tick', body |-> body, form |-> form, index |-> Len(log) + 1]
  <2>1. hidden' = hidden /\ log' = Append(log, f)
    BY <1>2 DEF Tape!Recorded, Tape!Frame
  <2>2. log \in Seq(TapeFrames) /\ Len(log) \in Nat
    BY DEF TapeLog
  <2>3. f \in TapeFrames /\ f.kind = kind /\ f.body = body /\ f.form = form
    BY <2>2 DEF TapeFrames
  <2>4. FrameOK(f)
    BY <2>3 DEF FrameOK
  <2> HIDE DEF f
  <2> QED
    BY <2>1, <2>3, <2>4 DEF Kept
<1> QED
  BY <1>1, <1>2

\* A frame more only tells more.
LEMMA OkBefore ==
  ASSUME NEW l \in Seq(TapeFrames), NEW f, FrameOK(f)
  PROVE  AllOk(Append(l, f)) => AllOk(l) /\ f.form = "ok"
<1> DEFINE m == Append(l, f)
<1>1. /\ Len(m) = Len(l) + 1 /\ m[Len(l) + 1] = f /\ DOMAIN m = 1 .. Len(l) + 1 /\ Len(l) \in Nat
      /\ DOMAIN l = 1 .. Len(l) /\ \A i \in 1 .. Len(l) : m[i] = l[i]
  BY DEF FrameOK
<1> HIDE DEF m
<1>2. AllOk(m) => AllOk(l) /\ f.form = "ok"
  BY <1>1 DEF AllOk
<1> QED
  BY <1>2 DEF m

LEMMA ShadowedArrives ==
  ASSUME Tape!ReplayAssumption, TapeInv, TapeLog', Shadowed, Tape!WireArrives
  PROVE  Shadowed'
<1>1. /\ TapeClock /\ TapeLog /\ log \in Seq(TapeFrames) /\ queue \in Seq(Diff) /\ tick \in 0 .. MaxTick
      /\ sent < head /\ UNCHANGED <<live, liveRows, overtook>>
  BY DEF TapeInv, TapeClock, TapeQueue, TapeLog, Tape!WireArrives
<1> DEFINE d == Tape!NextDiff
<1>2. PICK form \in {"ok", "undecodable", "truncated"}, steady \in BOOLEAN, lost \in BOOLEAN :
        /\ Tape!Clock(steady) /\ Tape!Recorded(Tape!Frame("wire", d, form), lost)
        /\ queue' = IF form = "undecodable" THEN queue ELSE Append(queue, d)
  BY DEF Tape!WireArrives
<1>3. d \in Diff /\ Numbered(Venue, d) /\ form \in Tape!Forms
  BY <1>1, TapeDiffOK DEF Tape!Forms
<1> HIDE DEF d
<1>4. tick' \in Nat
  BY <1>1, <1>2, ClockOK
<1>5. PICK h : /\ View(h, log)
               /\ ~hidden /\ ~overtook /\ AllOk(log) => Shadows(h, queue, log, live, liveRows)
  BY DEF Shadowed
<1>6. CASE hidden' = TRUE /\ log' = log
  BY <1>5, <1>6 DEF Shadowed
<1>7. ASSUME hidden' = hidden, NEW f, FrameOK(f), f.kind = "wire", f.body = d, f.form = form,
             log' = Append(log, f)
      PROVE  Shadowed'
  <2>1. PICK g : View(g, Append(log, f)) /\ \A n \in 0 .. Len(log) : g[n] = h[n]
    BY <1>1, <1>5, <1>7, ViewMore
  <2>2. ASSUME ~hidden', ~overtook', AllOk(log') PROVE Shadows(g, queue', log', live', liveRows')
    <3>1. AllOk(log) /\ form = "ok"
      BY <1>1, <1>7, <2>2, OkBefore
    <3>2. Shadows(h, queue, log, live, liveRows)
      BY <1>1, <1>5, <1>7, <2>2, <3>1
    <3>3. Shadows(g, Append(queue, f.body), Append(log, f), live, liveRows)
      BY <1>1, <1>7, <2>1, <3>2, ShadowArrives
    <3>4. queue' = Append(queue, f.body)
      BY <1>2, <1>7, <3>1
    <3> QED
      BY <1>1, <1>7, <3>3, <3>4
  <2> QED
    BY <1>7, <2>1, <2>2 DEF Shadowed
<1>8. Kept("wire", d, form)
  BY <1>1, <1>2, <1>3, <1>4, RecordedIs
<1> QED
  BY <1>6, <1>7, <1>8 DEF Kept

LEMMA ShadowedHandles ==
  ASSUME Venue = "BINANCE", TapeInv, Shadowed, Tape!WireHandled
  PROVE  Shadowed'
<1> DEFINE x == Tape!LiveApply(live, Head(queue))
<1>1. /\ log \in Seq(TapeFrames) /\ \A i \in DOMAIN log : FrameOK(log[i])
      /\ queue \in Seq(Diff) /\ queue # <<>> /\ queue' = Tail(queue)
      /\ live' = x.book /\ liveRows' = liveRows \o x.rows /\ UNCHANGED <<log, hidden, overtook>>
  BY DEF TapeInv, TapeLog, TapeQueue, Tape!WireHandled, Tape!Take
<1>2. PICK h : /\ View(h, log)
               /\ ~hidden /\ ~overtook /\ AllOk(log) => Shadows(h, queue, log, live, liveRows)
  BY DEF Shadowed
<1>3. ASSUME ~hidden, ~overtook, AllOk(log) PROVE Shadows(h, queue', log, live', liveRows')
  <2>1. Shadows(h, queue, log, live, liveRows)
    BY <1>2, <1>3
  <2>2. Shadows(h, Tail(queue), log, x.book, liveRows \o x.rows)
    BY <1>1, <1>2, <1>3, <2>1, ShadowHandles
  <2> QED
    BY <1>1, <2>2
<1> QED
  BY <1>1, <1>2, <1>3 DEF Shadowed

LEMMA ShadowedRequests ==
  ASSUME Venue = "BINANCE", TapeInv, Shadowed, Tape!Requests
  PROVE  Shadowed'
<1>1. /\ live' = Resync(live) /\ hidden' = (hidden \/ live.state = "VALID")
      /\ UNCHANGED <<queue, liveRows, log, overtook>> /\ Trusted(live) /\ hidden \in BOOLEAN
  BY TapeSame DEF Tape!Requests, TapeInv, TapeClock
<1>2. PICK h : /\ View(h, log)
               /\ ~hidden /\ ~overtook /\ AllOk(log) => Shadows(h, queue, log, live, liveRows)
  BY DEF Shadowed
<1>3. ASSUME ~hidden', ~overtook, AllOk(log) PROVE Shadows(h, queue, log, Resync(live), liveRows)
  <2>1. ~hidden /\ live.state # "VALID"
    BY <1>1, <1>3
  <2> QED
    BY <1>1, <1>2, <1>3, <2>1, ShadowMarked
<1> QED
  BY <1>1, <1>2, <1>3 DEF Shadowed

LEMMA ShadowedResponds ==
  ASSUME Tape!ReplayAssumption, TapeInv, TapeLog', Shadowed, Tape!Responds
  PROVE  Shadowed'
<1>1. /\ TapeClock /\ TapeLog /\ log \in Seq(TapeFrames) /\ queue \in Seq(Diff) /\ tick \in 0 .. MaxTick
      /\ asked # NoId /\ UNCHANGED queue /\ Tape!Clock(TRUE)
      /\ overtook' = (overtook \/ queue # <<>>)
      /\ head \in Id /\ asked \in Id \cup {NoId}
  BY TapeSame DEF TapeInv, TapeClock, TapeQueue, TapeLog, Tape!Responds
<1>2. PICK id \in asked .. head, form \in Tape!Forms \ {"undecodable"}, good \in BOOLEAN, lost \in BOOLEAN :
        /\ Tape!Recorded(Tape!Frame("rest", [id |-> id, good |-> good], form), lost)
        /\ form \in {"ok", "truncated"} =>
             /\ live' = Attempt(live, [id |-> id, good |-> good]).book
             /\ liveRows' = liveRows \o Attempt(live, [id |-> id, good |-> good]).rows
  BY TapeSame DEF Tape!Responds, Tape!Take
<1> DEFINE s == [id |-> id, good |-> good]
<1>3. s \in Snap
  BY <1>1, <1>2, BookAssumption DEF Snap, Id
<1> HIDE DEF s
<1>4. tick' \in Nat
  BY <1>1, ClockOK
<1>5. PICK h : /\ View(h, log)
               /\ ~hidden /\ ~overtook /\ AllOk(log) => Shadows(h, queue, log, live, liveRows)
  BY DEF Shadowed
<1>6. CASE hidden' = TRUE /\ log' = log
  BY <1>5, <1>6 DEF Shadowed
<1>7. ASSUME hidden' = hidden, NEW f, FrameOK(f), f.kind = "rest", f.body = s, f.form = form,
             log' = Append(log, f)
      PROVE  Shadowed'
  <2>1. PICK g : View(g, Append(log, f)) /\ \A n \in 0 .. Len(log) : g[n] = h[n]
    BY <1>1, <1>5, <1>7, ViewMore
  <2>2. ASSUME ~hidden', ~overtook', AllOk(log') PROVE Shadows(g, queue', log', live', liveRows')
    <3>1. AllOk(log) /\ form = "ok"
      BY <1>1, <1>7, <2>2, OkBefore
    <3>2. queue = <<>> /\ ~overtook
      BY <1>1, <2>2
    <3>3. Shadows(h, <<>>, log, live, liveRows)
      BY <1>5, <1>7, <2>2, <3>1, <3>2
    <3>4. Shadows(g, <<>>, Append(log, f), Attempt(live, f.body).book, liveRows \o Attempt(live, f.body).rows)
      BY <1>1, <1>7, <2>1, <3>1, <3>3, ShadowAnswers
    <3>5. live' = Attempt(live, s).book /\ liveRows' = liveRows \o Attempt(live, s).rows
      BY <1>2, <3>1 DEF s
    <3> QED
      BY <1>1, <1>7, <3>2, <3>4, <3>5
  <2> QED
    BY <1>7, <2>1, <2>2 DEF Shadowed
<1>8. Kept("rest", s, form)
  <2>1. Tape!Recorded(Tape!Frame("rest", s, form), lost) /\ form \in Tape!Forms
    BY <1>2 DEF s
  <2> QED
    BY <1>1, <1>3, <1>4, <2>1, RecordedIs
<1> QED
  BY <1>6, <1>7, <1>8 DEF Kept

LEMMA NoneJoined == \A js, more : Joining(js, more) = {} <=> js = {} /\ more = {}
BY DEF Joining

\* A replay without an issue reads the view of its recording.
LEMMA PristineSeen ==
  ASSUME TapeLog, Tape!Monotone, NEW h, View(h, log), NEW issues, NEW legacy,
         Tape!Ties # {} => issues # {}, Tape!Readable # Tape!Range(log) => issues # {},
         NEW e, e = Tape!Engine(issues, legacy)[Tape!Cardinality(Tape!Readable)], e.issues = {}
  PROVE  /\ AllOk(log) /\ e.book = h[Len(log)].book /\ Plain(e.rows) = h[Len(log)].rows
<1> DEFINE n == Len(log)
           v == h[n]
<1>1. issues = {}
  <2>1. issues \subseteq e.issues
    BY ReplayGrows
  <2> QED
    BY <2>1
<1>2. Ordered
  <2>1. Tape!Range(log) = {log[i] : i \in DOMAIN log}
    BY DEF Tape!Range
  <2> QED
    BY <1>1, <2>1 DEF Ordered
<1>3. Seen(e, v, n, issues)
  BY <1>2, ReplayIsView
<1>4. PICK rs \in Seq(TapeRow) : e = EngineOf(v.book, rs, Joining(issues, v.issues), Rest(n)) /\ Plain(rs) = v.rows
  BY <1>3 DEF Seen
<1>5. e.book = v.book /\ e.rows = rs /\ e.issues = Joining(issues, v.issues)
  <2> DEFINE js == Joining(issues, v.issues)
             lf == Rest(n)
             b == v.book
  <2>1. e = [book |-> b, rows |-> rs, issues |-> js, left |-> lf]
    BY <1>4 DEF EngineOf
  <2> HIDE DEF js, lf, b
  <2>2. e.book = b /\ e.rows = rs /\ e.issues = js
    BY ONLY <2>1
  <2> QED
    BY <2>2 DEF js, b
<1>6. v.issues = {}
  BY <1>5, NoneJoined
<1>7. n \in 0 .. n /\ DOMAIN log = 1 .. n
  BY DEF TapeLog
<1>8. AllOk(log)
  BY <1>6, <1>7 DEF View, AllOk
<1> QED
  BY <1>4, <1>5, <1>8

LEMMA ShadowedReplays ==
  ASSUME TapeInv, Shadowed, Tape!Replays
  PROVE  Tape!PristineParity'
<1> DEFINE issues == (IF Tape!Ties # {} THEN {"ties"} ELSE {})
                       \cup (IF Tape!Readable # Tape!Range(log) THEN {"dropped_rest_rows"} ELSE {})
                       \cup (IF Tape!Readable = {} THEN {"empty_replay"} ELSE {})
<1>1. PICK legacy \in BOOLEAN : replay' = Tape!Engine(issues, legacy)[Tape!Cardinality(Tape!Readable)]
  BY DEF Tape!Replays
<1>2. queue = <<>> /\ UNCHANGED <<live, liveRows, log, hidden, overtook>> /\ TapeLog
  BY DEF Tape!Replays, Tape!capture, TapeInv
<1>3. (Tape!Ties # {} => issues # {}) /\ (Tape!Readable # Tape!Range(log) => issues # {})
  OBVIOUS
<1> HIDE DEF issues
<1> SUFFICES ASSUME replay'.issues = {}, ~hidden, Tape!Monotone', ~overtook PROVE Tape!EndsAsLive'
  BY <1>2 DEF Tape!PristineParity
<1>4. Tape!Monotone
  BY <1>2 DEF Tape!Monotone
<1>5. PICK h : /\ View(h, log)
               /\ ~hidden /\ ~overtook /\ AllOk(log) => Shadows(h, queue, log, live, liveRows)
  BY DEF Shadowed
<1>6. /\ AllOk(log) /\ replay'.book = h[Len(log)].book /\ Plain(replay'.rows) = h[Len(log)].rows
  BY <1>1, <1>2, <1>3, <1>4, <1>5, PristineSeen
<1>7. Alike(h[Len(log)].book, live) /\ h[Len(log)].rows = liveRows
  <2>1. Shadows(h, <<>>, log, live, liveRows)
    BY <1>2, <1>5, <1>6
  <2>2. Len(<<>>) = 0 /\ Len(log) - 0 = Len(log)
    BY <1>2 DEF TapeLog
  <2> QED
    BY <2>1, <2>2 DEF Shadows
<1>8. /\ Plain(replay'.rows) = liveRows
      /\ replay'.book.levels = live.levels /\ replay'.book.prev = live.prev
      /\ (replay'.book.state = "VALID" <=> live.state = "VALID")
  BY <1>6, <1>7 DEF Alike, Same
<1> QED
  BY <1>2, <1>8 DEF Tape!EndsAsLive, Plain

LEMMA ShadowedStarts == Tape!Init => ParityInv
<1> SUFFICES ASSUME Tape!Init PROVE ParityInv
  OBVIOUS
<1>1. live = Fresh(Venue) /\ liveRows = <<>> /\ log = <<>> /\ queue = <<>> /\ mode = "recording"
  BY TapeSame DEF Tape!Init
<1> DEFINE h == [n \in {0} |-> [book |-> Fresh(Venue), rows |-> <<>>, issues |-> {}]]
<1>2. Trusted(Fresh(Venue)) /\ Fresh(Venue).venue = Venue
  BY FreshOK DEF Fresh
<1>3. h[0] = [book |-> Fresh(Venue), rows |-> <<>>, issues |-> {}]
  OBVIOUS
<1>4. h[0].book = Fresh(Venue) /\ h[0].rows = <<>> /\ h[0].issues = {}
  OBVIOUS
<1> HIDE DEF h
<1>5. Len(<<>>) = 0 /\ <<>> \in Seq(Row)
  OBVIOUS
<1>6. View(h, log)
  <2>1. /\ Len(log) = 0 /\ \A n \in 1 .. 0 : FALSE
        /\ \A n \in 0 .. 0 : n = 0 /\ \A i \in 1 .. n : FALSE
    BY <1>1, <1>5
  <2>2. \A n \in 0 .. Len(log) :
          /\ Trusted(h[n].book) /\ h[n].book.venue = Venue /\ h[n].rows \in Seq(Row)
          /\ h[n].issues = {} => \A i \in 1 .. n : log[i].form = "ok"
    BY <1>2, <1>4, <1>5, <2>1
  <2>3. \A n \in 1 .. Len(log) : FALSE
    BY <2>1
  <2> QED
    BY <1>3, <2>2, <2>3 DEF View
<1>7. Shadows(h, queue, log, live, liveRows)
  <2>1. Alike(Fresh(Venue), Fresh(Venue))
    BY <1>2 DEF Alike, Same
  <2> QED
    BY <1>1, <1>4, <1>5, <2>1 DEF Shadows
<1> QED
  BY <1>1, <1>6, <1>7 DEF ParityInv, Shadowed, Tape!PristineParity

LEMMA ParityStep ==
  ASSUME Tape!ReplayAssumption, Venue = "BINANCE", TapeInv, TapeLog', ParityInv, [Tape!Next]_(Tape!vars)
  PROVE  ParityInv'
<1>1. ASSUME Tape!Recording, Shadowed' PROVE ParityInv'
  BY <1>1 DEF Tape!Recording, ParityInv, Tape!PristineParity
<1>2. ASSUME UNCHANGED <<queue, live, liveRows, log, hidden, overtook>>, Shadowed PROVE Shadowed'
  BY <1>2 DEF Shadowed
<1>3. ASSUME Tape!Recording PROVE Shadowed
  BY <1>3 DEF Tape!Recording, ParityInv
<1>4. CASE Tape!Update
  BY <1>1, <1>2, <1>3, <1>4 DEF Tape!Update, Tape!capture
<1>5. CASE Tape!WireArrives
  <2>1. Tape!Recording
    BY <1>5 DEF Tape!WireArrives
  <2> QED
    BY <1>1, <1>3, <1>5, <2>1, ShadowedArrives
<1>6. CASE Tape!WireHandled
  <2>1. Tape!Recording
    BY <1>6 DEF Tape!WireHandled
  <2> QED
    BY <1>1, <1>3, <1>6, <2>1, ShadowedHandles
<1>7. CASE Tape!Requests
  <2>1. Tape!Recording
    BY <1>7 DEF Tape!Requests
  <2> QED
    BY <1>1, <1>3, <1>7, <2>1, ShadowedRequests
<1>8. CASE Tape!Responds
  <2>1. Tape!Recording
    BY <1>8 DEF Tape!Responds
  <2> QED
    BY <1>1, <1>3, <1>8, <2>1, ShadowedResponds
<1>9. CASE Tape!Skips
  BY <1>1, <1>2, <1>3, <1>9 DEF Tape!Skips, Tape!capture
<1>10. CASE Tape!Reconnects
  <2>1. Tape!Recording /\ hidden' = TRUE /\ log' = log
    BY <1>10 DEF Tape!Reconnects
  <2>2. Shadowed'
    BY <1>3, <2>1 DEF Shadowed
  <2> QED
    BY <1>1, <2>1, <2>2
<1>11. CASE Tape!Replays
  <2>1. Shadowed /\ mode' = "replayed"
    BY <1>11 DEF Tape!Replays, ParityInv
  <2> QED
    BY <1>11, <2>1, ShadowedReplays DEF ParityInv
<1>12. CASE UNCHANGED Tape!vars
  <2>1. UNCHANGED <<queue, live, liveRows, log, hidden, overtook, replay, mode>>
    BY <1>12 DEF Tape!vars, Tape!capture
  <2> QED
    BY <1>2, <2>1 DEF ParityInv, Tape!PristineParity, Tape!EndsAsLive, Tape!Monotone
<1> QED
  BY <1>4, <1>5, <1>6, <1>7, <1>8, <1>9, <1>10, <1>11, <1>12 DEF Tape!Next

\* A replay of a futures recording with no integrity issue ends in the collector's book
\* by its rows, when the recording kept every frame and no response overtook the queue
\* (PristineParity).  On Spot it may not: the engine tries a retained snapshot on an
\* untrusted book, the runner only on one never bridged.
THEOREM PristineAlwaysParity == Venue = "BINANCE" => (MCSpec => []PristineParity)
<1> SUFFICES ASSUME Venue = "BINANCE" PROVE MCSpec => []PristineParity
  OBVIOUS
<1> DEFINE I == which = "replay" => TapeInv /\ ParityInv
           all == <<vars, stream, tape, which>>
<1>1. MCInit => I
  BY TapeStarts, TapeAssumption, ShadowedStarts DEF MCInit
<1>2. I /\ [MCNext]_all => I'
  <2> SUFFICES ASSUME I, [MCNext]_all, which' = "replay" PROVE (TapeInv /\ ParityInv)'
    OBVIOUS
  <2>1. which = "replay" /\ [Tape!Next]_(Tape!vars)
    BY DEF MCNext, vars, venue, bounds, tape, Tape!vars, Tape!venue, Tape!capture
  <2>2. TapeInv' /\ TapeLog'
    BY <2>1, TapeStep, TapeAssumption DEF TapeInv
  <2> QED
    BY <2>1, <2>2, ParityStep, TapeAssumption
<1>3. I => PristineParity
  BY DEF PristineParity, ParityInv
<1> QED
  BY <1>1, <1>2, <1>3, PTL DEF MCSpec
=============================================================================
