------------------------ MODULE CollectorStopProofs ------------------------
(***************************************************************************)
(* The collector's stop, proved for every number of clients and frames and *)
(* every queue: each step of a client keeps it sound (its first part),     *)
(* and what joins the clients is that a refusal latches all of them.       *)
(***************************************************************************)
EXTENDS CollectorStop, FiniteSetTheorems, TLAPS

(***************************************************************************)
(* A client: what each operation of FrameClient does to it                 *)
(***************************************************************************)

\* A client with every property of FrameClient, its queue within its bound.
Sound(c) ==
  /\ c \in Client /\ Len(c.queue) <= QueueMax
  /\ InOrder(c) /\ NotStranded(c) /\ Consistent(c)

\* The pipeline taken apart: which frames follow which, and which frames are in it.
Ordered(c) ==
  /\ \A i, j \in 1 .. Len(c.queue) : i < j => c.queue[i] < c.queue[j]
  /\ \A i \in 1 .. Len(c.queue) :
       (c.work # NoFrame => c.work < c.queue[i]) /\ (c.held # NoFrame => c.queue[i] < c.held)
  /\ c.work # NoFrame /\ c.held # NoFrame => c.work < c.held
  /\ \A f \in Frame :
       c.fate[f] = "piped" <=>
         f = c.work \/ f = c.held \/ \E i \in 1 .. Len(c.queue) : c.queue[i] = f

\* The places of three sequences in their concatenation.
LEMMA Concat ==
  ASSUME NEW w \in Seq(Frame), NEW q \in Seq(Frame), NEW h \in Seq(Frame),
         NEW p, p = w \o q \o h
  PROVE  /\ DOMAIN p = 1 .. Len(w) + Len(q) + Len(h)
         /\ \A i \in 1 .. Len(w) : p[i] = w[i]
         /\ \A i \in 1 .. Len(q) : p[Len(w) + i] = q[i]
         /\ \A i \in 1 .. Len(h) : p[Len(w) + Len(q) + i] = h[i]
  OBVIOUS

\* The two descriptions of the pipeline say the same.
LEMMA PipelineParts == ASSUME NEW c \in Client PROVE InOrder(c) <=> Ordered(c)
<1> DEFINE w == IF c.work = NoFrame THEN <<>> ELSE <<c.work>>
           h == IF c.held = NoFrame THEN <<>> ELSE <<c.held>>
           q == c.queue
           p == w \o q \o h
<1>1. /\ w \in Seq(Frame) /\ q \in Seq(Frame) /\ h \in Seq(Frame)
      /\ Len(w) \in Nat /\ Len(q) \in Nat /\ Len(h) \in Nat
      /\ c.work \in Frame \cup {NoFrame} /\ c.held \in Frame \cup {NoFrame}
  BY DEF Client
<1>2. /\ IF c.work = NoFrame THEN Len(w) = 0 ELSE Len(w) = 1 /\ w[1] = c.work
      /\ IF c.held = NoFrame THEN Len(h) = 0 ELSE Len(h) = 1 /\ h[1] = c.held
  OBVIOUS
<1>3. p = Pipeline(c) /\ p = w \o q \o h
  BY DEF Pipeline
<1> HIDE DEF w, h, p, q
<1>4. /\ DOMAIN p = 1 .. Len(w) + Len(q) + Len(h)
      /\ \A i \in 1 .. Len(w) : p[i] = w[i]
      /\ \A i \in 1 .. Len(q) : p[Len(w) + i] = q[i]
      /\ \A i \in 1 .. Len(h) : p[Len(w) + Len(q) + i] = h[i]
  BY <1>1, <1>3, Concat
<1>5. InOrder(c) <=> /\ \A i, j \in DOMAIN p : i < j => p[i] < p[j]
                     /\ {p[i] : i \in DOMAIN p} = {f \in Frame : c.fate[f] = "piped"}
  BY <1>3 DEF InOrder, Range
<1> USE <1>1, <1>2, <1>4
<1>6. 0 \notin Frame /\ Frame \subseteq Int
  BY ClientAssumption DEF Frame
<1>7. ASSUME NEW f \in Frame
      PROVE  f \in {p[i] : i \in DOMAIN p} <=>
               f = c.work \/ f = c.held \/ \E i \in 1 .. Len(q) : q[i] = f
  <2>1. ASSUME NEW i \in DOMAIN p, f = p[i]
        PROVE  f = c.work \/ f = c.held \/ \E k \in 1 .. Len(q) : q[k] = f
    <3>1. CASE i <= Len(w)
      BY <2>1, <3>1
    <3>2. CASE i > Len(w) /\ i <= Len(w) + Len(q)
      <4>1. i - Len(w) \in 1 .. Len(q) /\ p[Len(w) + (i - Len(w))] = q[i - Len(w)]
        BY <3>2
      <4> QED
        BY <2>1, <4>1
    <3>3. CASE i > Len(w) + Len(q)
      <4>1. i = Len(w) + Len(q) + 1 /\ Len(h) = 1
        BY <3>3
      <4> QED
        BY <2>1, <4>1
    <3> QED
      BY <3>1, <3>2, <3>3
  <2>2. ASSUME f = c.work PROVE f \in {p[i] : i \in DOMAIN p}
    <3>1. Len(w) = 1 /\ 1 \in DOMAIN p /\ p[1] = f
      BY <1>6, <2>2, SMTT(30) DEF NoFrame
    <3> QED
      BY <3>1
  <2>3. ASSUME f = c.held PROVE f \in {p[i] : i \in DOMAIN p}
    <3>1. /\ Len(w) + Len(q) + 1 \in DOMAIN p /\ p[Len(w) + Len(q) + 1] = f
      BY <1>6, <2>3 DEF NoFrame
    <3> QED
      BY <3>1
  <2>4. ASSUME NEW i \in 1 .. Len(q), q[i] = f PROVE f \in {p[k] : k \in DOMAIN p}
    <3>1. Len(w) + i \in DOMAIN p /\ p[Len(w) + i] = f
      BY <2>4
    <3> QED
      BY <3>1
  <2> QED
    BY <2>1, <2>2, <2>3, <2>4
<1>8. \A i \in DOMAIN p : p[i] \in Frame
  <2> SUFFICES ASSUME NEW i \in DOMAIN p PROVE p[i] \in Frame
    OBVIOUS
  <2>1. CASE i <= Len(w)
    BY <2>1
  <2>2. CASE i > Len(w) /\ i <= Len(w) + Len(q)
    <3>1. i - Len(w) \in 1 .. Len(q) /\ p[Len(w) + (i - Len(w))] = q[i - Len(w)]
      BY <2>2
    <3> QED
      BY <3>1
  <2>3. CASE i > Len(w) + Len(q)
    <3>1. i - (Len(w) + Len(q)) \in 1 .. Len(h)
          /\ p[Len(w) + Len(q) + (i - (Len(w) + Len(q)))] = h[i - (Len(w) + Len(q))]
      BY <2>3
    <3> QED
      BY <3>1
  <2> QED
    BY <2>1, <2>2, <2>3
<1>9. {p[i] : i \in DOMAIN p} = {f \in Frame : c.fate[f] = "piped"} <=>
        \A f \in Frame : c.fate[f] = "piped" <=>
          f = c.work \/ f = c.held \/ \E i \in 1 .. Len(q) : q[i] = f
  BY <1>7, <1>8
<1>10. ASSUME \A i, j \in DOMAIN p : i < j => p[i] < p[j]
       PROVE  /\ \A i, j \in 1 .. Len(q) : i < j => q[i] < q[j]
              /\ \A i \in 1 .. Len(q) :
                   (c.work # NoFrame => c.work < q[i]) /\ (c.held # NoFrame => q[i] < c.held)
              /\ c.work # NoFrame /\ c.held # NoFrame => c.work < c.held
  <2>1. \A i \in 1 .. Len(q) : Len(w) + i \in DOMAIN p /\ p[Len(w) + i] = q[i]
    OBVIOUS
  <2>2. c.work # NoFrame => 1 \in DOMAIN p /\ p[1] = c.work /\ Len(w) = 1
    OBVIOUS
  <2>3. c.held # NoFrame => Len(w) + Len(q) + 1 \in DOMAIN p /\ p[Len(w) + Len(q) + 1] = c.held
    OBVIOUS
  <2>4. ASSUME NEW i \in 1 .. Len(q), NEW j \in 1 .. Len(q), i < j PROVE q[i] < q[j]
    <3>1. Len(w) + i < Len(w) + j
      BY <2>4
    <3>2. p[Len(w) + i] < p[Len(w) + j]
      BY <1>10, <2>1, <3>1
    <3> QED
      BY <2>1, <3>2
  <2>5. ASSUME NEW i \in 1 .. Len(q), c.work # NoFrame PROVE c.work < q[i]
    <3>1. 1 < Len(w) + i
      <4>1. Len(w) = 1
        BY <2>2, <2>5
      <4> QED
        BY <4>1
    <3>2. p[1] < p[Len(w) + i]
      BY <1>10, <2>1, <2>2, <2>5, <3>1
    <3> QED
      BY <2>1, <2>2, <2>5, <3>2
  <2>6. ASSUME NEW i \in 1 .. Len(q), c.held # NoFrame PROVE q[i] < c.held
    <3>1. Len(w) + i < Len(w) + Len(q) + 1
      OBVIOUS
    <3>2. p[Len(w) + i] < p[Len(w) + Len(q) + 1]
      BY <1>10, <2>1, <2>3, <2>6, <3>1
    <3> QED
      BY <2>1, <2>3, <2>6, <3>2
  <2>7. ASSUME c.work # NoFrame, c.held # NoFrame PROVE c.work < c.held
    <3>1. 1 < Len(w) + Len(q) + 1
      BY <2>2, <2>7
    <3> QED
      BY <1>10, <2>2, <2>3, <2>7, <3>1
  <2> QED
    BY <2>4, <2>5, <2>6, <2>7
<1>11. ASSUME \A i, j \in 1 .. Len(q) : i < j => q[i] < q[j],
              \A i \in 1 .. Len(q) :
                (c.work # NoFrame => c.work < q[i]) /\ (c.held # NoFrame => q[i] < c.held),
              c.work # NoFrame /\ c.held # NoFrame => c.work < c.held,
              NEW i \in DOMAIN p, NEW j \in DOMAIN p, i < j
       PROVE  p[i] < p[j]
  <2>1. ASSUME NEW k \in DOMAIN p
        PROVE  \/ k = 1 /\ Len(w) = 1 /\ c.work # NoFrame /\ p[k] = c.work
               \/ k - Len(w) \in 1 .. Len(q) /\ p[k] = q[k - Len(w)]
               \/ k = Len(w) + Len(q) + 1 /\ c.held # NoFrame /\ p[k] = c.held
    <3>1. CASE k <= Len(w)
      BY <3>1
    <3>2. CASE k > Len(w) /\ k <= Len(w) + Len(q)
      <4>1. k - Len(w) \in 1 .. Len(q) /\ p[Len(w) + (k - Len(w))] = q[k - Len(w)]
        BY <3>2, SMTT(30)
      <4> QED
        BY <4>1
    <3>3. CASE k > Len(w) + Len(q)
      <4>1. k \in 1 .. Len(w) + Len(q) + Len(h)
        OBVIOUS
      <4>2. Len(h) = 1 /\ c.held # NoFrame /\ h[1] = c.held
        BY <3>3, <4>1
      <4>3. k = Len(w) + Len(q) + 1
        BY <3>3, <4>1, <4>2
      <4> QED
        BY <4>2, <4>3
    <3> QED
      BY <3>1, <3>2, <3>3
  <2>2. CASE i = 1 /\ Len(w) = 1 /\ c.work # NoFrame /\ p[i] = c.work
    BY <1>11, <2>1, <2>2
  <2>3. CASE i - Len(w) \in 1 .. Len(q) /\ p[i] = q[i - Len(w)]
    <3>1. CASE j - Len(w) \in 1 .. Len(q) /\ p[j] = q[j - Len(w)]
      BY <1>11, <2>3, <3>1
    <3>2. CASE j = Len(w) + Len(q) + 1 /\ c.held # NoFrame /\ p[j] = c.held
      BY <1>11, <2>3, <3>2
    <3> QED
      BY <1>11, <2>1, <2>3, <3>1, <3>2
  <2>4. ~(i = Len(w) + Len(q) + 1 /\ c.held # NoFrame)
    BY <1>11
  <2> QED
    BY <2>1, <2>2, <2>3, <2>4
<1> QED
  BY <1>5, <1>9, <1>10, <1>11 DEF Ordered, q
\* What a step of a client other than a refusal leaves alone: the frames that were
\* refused, and of a latched client the latch, what it took in and what it began on.
Settles(c, d) ==
  /\ \A f \in Frame : d.fate[f] = "refused" <=> c.fate[f] = "refused"
  /\ c.discard => /\ d.discard /\ Received(d) = Received(c)
                  /\ d.work \in {c.work, NoFrame}

\* A sound client by the parts of its pipeline.
LEMMA SoundParts ==
  ASSUME NEW c
  PROVE  Sound(c) <=> /\ c \in Client /\ Len(c.queue) <= QueueMax
                      /\ Ordered(c) /\ NotStranded(c) /\ Consistent(c)
BY PipelineParts DEF Sound

\* A step that moves no frame: what is left to show is how its places fit together.
LEMMA Control ==
  ASSUME NEW c, Sound(c), NEW d, d \in Client,
         d.queue = c.queue, d.held = c.held, d.work = c.work, d.fate = c.fate,
         c.discard => d.discard, NotStranded(d),
         d.discard => ~d.running /\ ~d.connected,
         d.at = "idle" => d.worker = "none",
         d.worker = "busy" => d.work # NoFrame,
         d.work # NoFrame => d.worker = "busy" \/ (d.worker = "none" /\ d.at = "ended"),
         d.held # NoFrame => d.at \in {"receiving", "cancelled"}
  PROVE  Sound(d) /\ Settles(c, d)
<1>1. Ordered(c) /\ Consistent(c) /\ Len(c.queue) <= QueueMax
  BY SoundParts
<1>2. Received(d) = Received(c)
  BY DEF Received
<1>3. Consistent(d)
  BY <1>1, <1>2 DEF Consistent
<1>4. Ordered(d)
  BY <1>1 DEF Ordered
<1> QED
  BY <1>1, <1>2, <1>3, <1>4, SoundParts DEF Settles

\* stop, and the latch.
LEMMA StopSound == ASSUME NEW c, Sound(c) PROVE Sound(Stop(c)) /\ Settles(c, Stop(c))
<1>1. c \in Client /\ NotStranded(c) /\ Consistent(c)
  BY DEF Sound
<1>2. Stop(c) \in Client
  BY <1>1 DEF Stop, Client
<1> QED
  BY <1>1, <1>2, Control DEF Stop, NotStranded, Consistent, Client

\* A latched client takes in nothing any more.
LEMMA LatchSound ==
  ASSUME NEW c, Sound(c) PROVE Sound(Latch(c)) /\ Settles(c, Latch(c)) /\ Latch(c).discard
<1>1. c \in Client /\ NotStranded(c) /\ Consistent(c)
  BY DEF Sound
<1>2. Latch(c) \in Client
  BY <1>1 DEF Latch, Stop, Client
<1>3. Latch(c).discard
  BY <1>1 DEF Latch, Stop, Client
<1> QED
  BY <1>1, <1>2, <1>3, Control DEF Latch, Stop, NotStranded, Consistent, Client

\* start.
LEMMA BeginSound ==
  ASSUME NEW c, Sound(c), c.at = "idle" PROVE Sound(Begin(c)) /\ Settles(c, Begin(c))
<1>1. c \in Client /\ NotStranded(c) /\ Consistent(c)
  BY DEF Sound
<1>2. Begin(c) \in Client
  BY <1>1 DEF Begin, Stop, Client, Places
<1> QED
  BY <1>1, <1>2, Control DEF Begin, Stop, NotStranded, Consistent, Client

\* The end of one round of the connection loop, with a frame in front of the queue or not.
LEMMA LeaveSound ==
  ASSUME NEW c, Sound(c), c.held = NoFrame, c.at \in {"connecting", "receiving"}
  PROVE  Sound(Leave(c)) /\ Settles(c, Leave(c))
<1>1. c \in Client /\ NotStranded(c) /\ Consistent(c)
  BY DEF Sound
<1>2. CASE ~c.running
  <2>1. Leave(c) = [c EXCEPT !.at = "draining"]
    BY <1>2 DEF Leave
  <2>2. Leave(c) \in Client
    BY <1>1, <2>1 DEF Client, Places
  <2> QED
    BY <1>1, <2>1, <2>2, Control DEF NotStranded, Consistent, Client
<1>3. CASE c.running /\ c.attempts >= MaxAttempts
  <2>1. Leave(c) = [c EXCEPT !.at = "draining", !.running = FALSE]
    BY <1>3 DEF Leave
  <2>2. Leave(c) \in Client
    BY <1>1, <2>1 DEF Client, Places
  <2> QED
    BY <1>1, <2>1, <2>2, Control DEF NotStranded, Consistent, Client
<1>4. CASE c.running /\ ~(c.attempts >= MaxAttempts)
  <2>1. Leave(c) = [c EXCEPT !.at = "backoff", !.attempts = @ + 1]
    BY <1>4 DEF Leave
  <2>2. c.attempts + 1 \in 0 .. MaxAttempts
    BY <1>1, <1>4, ClientAssumption DEF Client
  <2>3. Leave(c) \in Client
    BY <1>1, <2>1, <2>2 DEF Client, Places
  <2> QED
    BY <1>1, <2>1, <2>3, Control DEF NotStranded, Consistent, Client
<1> QED
  BY <1>2, <1>3, <1>4

\* A connection that fails or breaks.
LEMMA DisconnectSound ==
  ASSUME NEW c, Sound(c), c.held = NoFrame, c.at \in {"connecting", "receiving"}
  PROVE  Sound(Disconnect(c)) /\ Settles(c, Disconnect(c))
<1> DEFINE d == [c EXCEPT !.connected = FALSE]
<1>1. c \in Client /\ NotStranded(c) /\ Consistent(c)
  BY DEF Sound
<1>2. d \in Client
  BY <1>1 DEF Client
<1>3. Sound(d) /\ Settles(c, d)
  BY <1>1, <1>2, Control DEF NotStranded, Consistent, Client
<1>4. d.held = NoFrame /\ d.at \in {"connecting", "receiving"} /\ Disconnect(c) = Leave(d)
  BY <1>1 DEF Disconnect, Client
<1> HIDE DEF d
<1>5. Sound(Leave(d)) /\ Settles(d, Leave(d))
  BY <1>3, <1>4, LeaveSound
<1> QED
  BY <1>3, <1>4, <1>5 DEF Settles

\* A connection that is made.
LEMMA ConnectSound ==
  ASSUME NEW c, Sound(c), c.at = "connecting" PROVE Sound(Connect(c)) /\ Settles(c, Connect(c))
<1>1. c \in Client /\ NotStranded(c) /\ Consistent(c)
  BY DEF Sound
<1>2. Connect(c) \in Client
  <2>1. CASE c.discard
    BY <1>1, <2>1 DEF Connect, Client, Places
  <2>2. CASE ~c.discard
    <3>1. 0 \in 0 .. MaxAttempts
      BY ClientAssumption
    <3> QED
      BY <1>1, <2>2, <3>1 DEF Connect, Client, Places, Workers
  <2> QED
    BY <2>1, <2>2
<1> QED
  BY <1>1, <1>2, Control, ZenonT(30) DEF Connect, NotStranded, Consistent, Client

\* The delay between two attempts.
LEMMA RetrySound ==
  ASSUME NEW c, Sound(c), c.at = "backoff" PROVE Sound(Retry(c)) /\ Settles(c, Retry(c))
<1>1. c \in Client /\ NotStranded(c) /\ Consistent(c)
  BY DEF Sound
<1>2. Retry(c) \in Client
  BY <1>1 DEF Retry, Client, Places
<1> QED
  BY <1>1, <1>2, Control DEF Retry, NotStranded, Consistent, Client
\* The drain's end.
LEMMA DrainedSound ==
  ASSUME NEW c, Sound(c), c.at = "draining",
         c.worker = "none" \/ (c.queue = <<>> /\ c.work = NoFrame)
  PROVE  Sound(Drained(c)) /\ Settles(c, Drained(c))
<1>1. c \in Client /\ NotStranded(c) /\ Consistent(c)
  BY DEF Sound
<1>2. Drained(c) \in Client
  BY <1>1 DEF Drained, Client, Places, Workers
<1> QED
  BY <1>1, <1>2, Control DEF Drained, NotStranded, Consistent, Client

\* The worker leaves its loop.
LEMMA ExitSound ==
  ASSUME NEW c, Sound(c), c.worker = "waiting", MayExit(c)
  PROVE  /\ Sound([c EXCEPT !.worker = "exited"])
         /\ Settles(c, [c EXCEPT !.worker = "exited"])
<1>1. c \in Client /\ NotStranded(c) /\ Consistent(c)
  BY DEF Sound
<1>2. [c EXCEPT !.worker = "exited"] \in Client
  BY <1>1 DEF Client, Workers
<1> QED
  BY <1>1, <1>2, Control DEF MayExit, NotStranded, Consistent, Client

\* The shutdown stops a client and cancels its task.
LEMMA CancelSound ==
  ASSUME NEW c, Sound(c), NEW d,
         d = [Stop(c) EXCEPT !.at = IF @ = "ended" THEN @ ELSE "cancelled"]
  PROVE  Sound(d) /\ Settles(c, d)
<1>1. c \in Client /\ NotStranded(c) /\ Consistent(c)
  BY DEF Sound
<1>2. d \in Client
  BY <1>1 DEF Stop, Client, Places
<1>3. /\ d.at = (IF c.at = "ended" THEN "ended" ELSE "cancelled")
      /\ d.queue = c.queue /\ d.held = c.held /\ d.work = c.work /\ d.fate = c.fate
      /\ d.discard = c.discard /\ d.worker = c.worker /\ ~d.running /\ ~d.connected
  BY <1>1 DEF Stop, Client
<1>4. /\ c.work # NoFrame => c.worker = "busy" \/ (c.worker = "none" /\ c.at = "ended")
      /\ c.worker = "busy" => c.work # NoFrame
      /\ c.held # NoFrame => c.at \in {"receiving", "cancelled"}
  BY <1>1 DEF Consistent
<1>5. NotStranded(d) /\ d.at # "idle"
  BY <1>1, <1>3 DEF NotStranded
<1> QED
  BY <1>2, <1>3, <1>4, <1>5, Control, ZenonT(30)

\* A step that moves frames: what is left to show is the pipeline and how the frames
\* that were received fit together.
LEMMA Moves ==
  ASSUME NEW c, Sound(c), NEW d, d \in Client, Len(d.queue) <= QueueMax, Ordered(d),
         NotStranded(d), d.discard = c.discard, d.discard => ~d.running /\ ~d.connected,
         \A f \in Frame : d.fate[f] = "none" <=> c.fate[f] = "none",
         \A f \in Frame : d.fate[f] = "refused" <=> c.fate[f] = "refused",
         c.discard => d.work \in {c.work, NoFrame},
         d.at = "idle" => d.worker = "none",
         d.worker = "busy" => d.work # NoFrame,
         d.work # NoFrame => d.worker = "busy" \/ (d.worker = "none" /\ d.at = "ended"),
         d.held # NoFrame => d.at \in {"receiving", "cancelled"}
  PROVE  Sound(d) /\ Settles(c, d)
<1>1. Consistent(c)
  BY DEF Sound
<1>2. Received(d) = Received(c)
  BY DEF Received
<1>3. Consistent(d)
  BY <1>1, <1>2 DEF Consistent
<1> QED
  BY <1>2, <1>3, SoundParts DEF Settles

\* What the parts of a sound client's pipeline are.
LEMMA Parts ==
  ASSUME NEW c, Sound(c)
  PROVE  /\ 0 \notin Frame /\ Frame \subseteq Nat /\ NoFrame = 0
         /\ c \in Client /\ Ordered(c) /\ Consistent(c) /\ NotStranded(c)
         /\ Len(c.queue) \in Nat /\ Len(c.queue) <= QueueMax
         /\ DOMAIN c.queue = 1 .. Len(c.queue)
         /\ \A i \in 1 .. Len(c.queue) : c.queue[i] \in Frame /\ c.fate[c.queue[i]] = "piped"
         /\ c.work # NoFrame => c.work \in Frame /\ c.fate[c.work] = "piped"
         /\ c.held # NoFrame => c.held \in Frame /\ c.fate[c.held] = "piped"
         /\ c.fate \in [Frame -> Fates]
<1>1. 0 \notin Frame /\ Frame \subseteq Nat /\ NoFrame = 0
  BY ClientAssumption DEF Frame, NoFrame
<1>2. /\ c \in Client /\ Ordered(c) /\ Consistent(c) /\ NotStranded(c)
      /\ Len(c.queue) <= QueueMax
  BY SoundParts DEF Sound
<1>3. /\ c.queue \in Seq(Frame) /\ c.work \in Frame \cup {NoFrame}
      /\ c.held \in Frame \cup {NoFrame} /\ c.fate \in [Frame -> Fates]
  BY <1>2 DEF Client
<1>4. /\ Len(c.queue) \in Nat /\ DOMAIN c.queue = 1 .. Len(c.queue)
      /\ \A i \in 1 .. Len(c.queue) : c.queue[i] \in Frame
  BY <1>3
<1> QED
  BY <1>1, <1>2, <1>3, <1>4 DEF Ordered

\* The head of the queue goes and the rest moves up.
LEMMA TailParts ==
  ASSUME NEW q \in Seq(Frame), q # <<>>
  PROVE  /\ Head(q) = q[1] /\ q[1] \in Frame /\ 1 \in 1 .. Len(q)
         /\ Tail(q) \in Seq(Frame) /\ Len(Tail(q)) = Len(q) - 1 /\ Len(q) \in Nat \ {0}
         /\ \A i \in 1 .. Len(Tail(q)) : Tail(q)[i] = q[i + 1] /\ i + 1 \in 2 .. Len(q)
         /\ \A i \in 2 .. Len(q) : i - 1 \in 1 .. Len(Tail(q)) /\ q[i] = Tail(q)[i - 1]
OBVIOUS

\* Without its head the queue is in order, and the head is nowhere else.
LEMMA TailOrdered ==
  ASSUME NEW c, Sound(c), c.queue # <<>>
  PROVE  /\ Head(c.queue) \in Frame /\ c.fate[Head(c.queue)] = "piped"
         /\ Head(c.queue) # c.held /\ Head(c.queue) # c.work
         /\ \A i \in 1 .. Len(Tail(c.queue)) :
              /\ Head(c.queue) < Tail(c.queue)[i]
              /\ c.held # NoFrame => Tail(c.queue)[i] < c.held
         /\ c.held # NoFrame => Head(c.queue) < c.held
         /\ \A i, j \in 1 .. Len(Tail(c.queue)) :
              i < j => Tail(c.queue)[i] < Tail(c.queue)[j]
         /\ \A f \in Frame : c.fate[f] = "piped" /\ f # Head(c.queue) <=>
              f = c.work \/ f = c.held
                \/ \E i \in 1 .. Len(Tail(c.queue)) : Tail(c.queue)[i] = f
<1> DEFINE q == c.queue
           t == Tail(c.queue)
<1>1. /\ q \in Seq(Frame) /\ Ordered(c) /\ 0 \notin Frame /\ Frame \subseteq Nat
      /\ c.work \in Frame \cup {NoFrame} /\ c.held \in Frame \cup {NoFrame}
      /\ c.fate[q[1]] = "piped" /\ NoFrame = 0
  BY Parts, TailParts DEF Client
<1>2. /\ Head(q) = q[1] /\ q[1] \in Frame /\ 1 \in 1 .. Len(q)
      /\ t \in Seq(Frame) /\ Len(t) = Len(q) - 1 /\ Len(q) \in Nat \ {0}
      /\ \A i \in 1 .. Len(t) : t[i] = q[i + 1] /\ i + 1 \in 2 .. Len(q)
      /\ \A i \in 2 .. Len(q) : i - 1 \in 1 .. Len(t) /\ q[i] = t[i - 1]
  BY <1>1, TailParts
<1>3. /\ \A i, j \in 1 .. Len(q) : i < j => q[i] < q[j]
      /\ \A i \in 1 .. Len(q) :
           (c.work # NoFrame => c.work < q[i]) /\ (c.held # NoFrame => q[i] < c.held)
      /\ \A f \in Frame : c.fate[f] = "piped" <=>
           f = c.work \/ f = c.held \/ \E i \in 1 .. Len(q) : q[i] = f
  BY <1>1 DEF Ordered
<1> HIDE DEF q, t
<1>4. \A i \in 1 .. Len(t) : q[1] < t[i] /\ (c.held # NoFrame => t[i] < c.held)
  BY <1>2, <1>3
<1>5. q[1] # c.held /\ q[1] # c.work /\ (c.held # NoFrame => q[1] < c.held)
  <2>1. (c.work # NoFrame => c.work < q[1]) /\ (c.held # NoFrame => q[1] < c.held)
    BY <1>2, <1>3
  <2>2. q[1] \in Nat /\ q[1] # 0 /\ c.work \in Nat /\ c.held \in Nat
    BY <1>1, <1>2
  <2> QED
    BY <1>1, <2>1, <2>2
<1>6. \A i, j \in 1 .. Len(t) : i < j => t[i] < t[j]
  <2> SUFFICES ASSUME NEW i \in 1 .. Len(t), NEW j \in 1 .. Len(t), i < j
               PROVE  t[i] < t[j]
    OBVIOUS
  <2>1. i + 1 \in 1 .. Len(q) /\ j + 1 \in 1 .. Len(q) /\ i + 1 < j + 1
    BY <1>2
  <2> QED
    BY <1>2, <1>3, <2>1
<1>7. ASSUME NEW f \in Frame
      PROVE  (\E i \in 1 .. Len(t) : t[i] = f) <=> f # q[1] /\ \E i \in 1 .. Len(q) : q[i] = f
  <2>1. ASSUME NEW i \in 1 .. Len(t), t[i] = f
        PROVE  f # q[1] /\ \E k \in 1 .. Len(q) : q[k] = f
    <3>1. i + 1 \in 1 .. Len(q) /\ q[i + 1] = f /\ q[1] < f
      BY <1>2, <1>4, <2>1
    <3> QED
      BY <1>1, <1>2, <3>1
  <2>2. ASSUME NEW i \in 1 .. Len(q), q[i] = f, f # q[1] PROVE \E k \in 1 .. Len(t) : t[k] = f
    <3>1. i \in 2 .. Len(q)
      BY <1>2, <2>2
    <3> QED
      BY <1>2, <2>2, <3>1
  <2> QED
    BY <2>1, <2>2
<1>8. \A f \in Frame : c.fate[f] = "piped" /\ f # q[1] <=>
        f = c.work \/ f = c.held \/ \E i \in 1 .. Len(t) : t[i] = f
  BY <1>3, <1>5, <1>7
<1> QED
  BY <1>1, <1>2, <1>4, <1>5, <1>6, <1>8 DEF q, t

\* The worker takes a frame, to process it or to count it.
LEMMA TakeSound ==
  ASSUME NEW c, Sound(c), c.worker = "waiting", c.queue # <<>>
  PROVE  Sound(Take(c)) /\ Settles(c, Take(c))
<1> DEFINE q == c.queue
           t == Tail(c.queue)
           h == Head(c.queue)
           d == Take(c)
<1>1. /\ c \in Client /\ q \in Seq(Frame) /\ c.work = NoFrame /\ Len(q) <= QueueMax
      /\ 0 \notin Frame /\ Frame \subseteq Nat /\ NoFrame = 0 /\ QueueMax \in Nat
      /\ c.fate \in [Frame -> Fates] /\ NotStranded(c) /\ Consistent(c)
  BY Parts, ClientAssumption DEF Client, Consistent
<1>2. t \in Seq(Frame) /\ Len(t) = Len(q) - 1 /\ Len(q) \in Nat /\ Len(t) <= QueueMax
  BY <1>1, TailParts
<1>3. /\ h \in Frame /\ c.fate[h] = "piped" /\ h # c.held
      /\ \A i \in 1 .. Len(t) : h < t[i] /\ (c.held # NoFrame => t[i] < c.held)
      /\ c.held # NoFrame => h < c.held
      /\ \A i, j \in 1 .. Len(t) : i < j => t[i] < t[j]
      /\ \A f \in Frame : c.fate[f] = "piped" /\ f # h <=>
           f = c.work \/ f = c.held \/ \E i \in 1 .. Len(t) : t[i] = f
  BY TailOrdered
<1> HIDE DEF q, t, h
<1>4. CASE c.discard
  <2>1. d = [c EXCEPT !.fate[h] = "discarded", !.queue = t]
    BY <1>1, <1>4 DEF Take, h, t, Client
  <2>2. /\ d.queue = t /\ d.held = c.held /\ d.work = NoFrame /\ d.at = c.at
        /\ d.worker = c.worker /\ d.running = c.running /\ d.connected = c.connected
        /\ d.discard = c.discard /\ d.fate = [c.fate EXCEPT ![h] = "discarded"]
    BY <1>1, <2>1 DEF Client
  <2>3. \A f \in Frame : d.fate[f] = IF f = h THEN "discarded" ELSE c.fate[f]
    BY <1>1, <1>3, <2>2
  <2>4. d \in Client
    <3>1. [c.fate EXCEPT ![h] = "discarded"] \in [Frame -> Fates]
      BY <1>1, <1>3 DEF Fates
    <3>2. d = [c EXCEPT !.fate = [c.fate EXCEPT ![h] = "discarded"], !.queue = t]
      BY <1>1, <2>1 DEF Client
    <3> QED
      BY <1>1, <1>2, <3>1, <3>2 DEF Client
  <2> HIDE DEF d
  <2>5. Ordered(d)
    BY <1>1, <1>3, <2>2, <2>3 DEF Ordered
  <2> QED
    BY <1>1, <1>2, <1>3, <2>2, <2>3, <2>4, <2>5, Moves, SMTT(30) DEF NotStranded, Consistent, d
<1>5. CASE ~c.discard
  <2>1. d = [c EXCEPT !.worker = "busy", !.work = h, !.queue = t]
    BY <1>1, <1>5 DEF Take, h, t, Client
  <2>2. /\ d.queue = t /\ d.held = c.held /\ d.work = h /\ d.at = c.at
        /\ d.worker = "busy" /\ d.running = c.running /\ d.connected = c.connected
        /\ d.discard = c.discard /\ d.fate = c.fate
    BY <1>1, <2>1 DEF Client
  <2>3. d \in Client
    <3>1. "busy" \in Workers /\ h \in Frame \cup {NoFrame}
      BY <1>3 DEF Workers
    <3> QED
      BY <1>1, <1>2, <2>1, <3>1 DEF Client
  <2> HIDE DEF d
  <2>4. Ordered(d)
    <3>1. h # NoFrame
      BY <1>1, <1>3
    <3>2. \A f \in Frame : c.fate[f] = "piped" <=>
            f = h \/ f = c.held \/ \E i \in 1 .. Len(t) : t[i] = f
      BY <1>1, <1>3
    <3> QED
      BY <1>3, <2>2, <3>1, <3>2 DEF Ordered
  <2> QED
    BY <1>1, <1>2, <1>3, <1>5, <2>2, <2>3, <2>4, Moves DEF NotStranded, Consistent, d
<1> QED
  BY <1>4, <1>5
\* The worker is done with its frame.
LEMMA FinishSound ==
  ASSUME NEW c, Sound(c), c.worker = "busy", NEW fate \in {"processed", "error"}
  PROVE  Sound(Finish(c, fate)) /\ Settles(c, Finish(c, fate))
<1> DEFINE d == Finish(c, fate)
           w == c.work
<1>1. /\ c \in Client /\ c.queue \in Seq(Frame) /\ Len(c.queue) <= QueueMax
      /\ 0 \notin Frame /\ Frame \subseteq Nat /\ NoFrame = 0
      /\ c.fate \in [Frame -> Fates] /\ NotStranded(c) /\ Consistent(c) /\ Ordered(c)
  BY Parts DEF Client
<1>2. w \in Frame /\ w # NoFrame /\ c.fate[w] = "piped"
  BY <1>1, Parts DEF Consistent
<1>3. /\ d.queue = c.queue /\ d.held = c.held /\ d.work = NoFrame /\ d.at = c.at
      /\ d.worker = "waiting" /\ d.running = c.running /\ d.connected = c.connected
      /\ d.discard = c.discard /\ d.fate = [c.fate EXCEPT ![w] = fate]
  BY <1>1 DEF Finish, Client
<1>4. \A f \in Frame : d.fate[f] = IF f = w THEN fate ELSE c.fate[f]
  BY <1>1, <1>2, <1>3
<1>5. d \in Client
  <2>1. [c.fate EXCEPT ![w] = fate] \in [Frame -> Fates]
    BY <1>1, <1>2 DEF Fates
  <2>2. d = [c EXCEPT !.fate = [c.fate EXCEPT ![w] = fate], !.work = NoFrame,
                      !.worker = "waiting"]
    BY <1>1 DEF Finish, Client
  <2> QED
    BY <1>1, <2>1, <2>2 DEF Client, Workers
<1>6. /\ \A i, j \in 1 .. Len(c.queue) : i < j => c.queue[i] < c.queue[j]
      /\ \A i \in 1 .. Len(c.queue) :
           w < c.queue[i] /\ c.queue[i] \in Frame /\ (c.held # NoFrame => c.queue[i] < c.held)
      /\ c.held # NoFrame => w < c.held
      /\ \A f \in Frame : c.fate[f] = "piped" <=>
           f = w \/ f = c.held \/ \E i \in 1 .. Len(c.queue) : c.queue[i] = f
  BY <1>1, <1>2 DEF Ordered
<1>7. w # c.held /\ \A i \in 1 .. Len(c.queue) : c.queue[i] # w
  <2>1. c.held \in Frame \cup {NoFrame}
    BY <1>1 DEF Client
  <2>2. w \in Nat /\ c.held \in Nat
    <3>1. Frame \subseteq Nat /\ NoFrame \in Nat
      BY <1>1
    <3> QED
      BY <1>2, <2>1, <3>1
  <2>3. w # c.held
    BY <1>2, <1>6, <2>2
  <2>4. ASSUME NEW i \in 1 .. Len(c.queue) PROVE c.queue[i] # w
    <3>1. c.queue[i] \in Frame /\ w < c.queue[i]
      BY <1>6
    <3>2. c.queue[i] \in Nat
      BY <1>1, <3>1
    <3> QED
      BY <2>2, <3>1, <3>2
  <2> QED
    BY <2>3, <2>4
<1> HIDE DEF d, w
<1>8. Ordered(d)
  <2>1. \A f \in Frame : d.fate[f] = "piped" <=>
          f = c.held \/ \E i \in 1 .. Len(c.queue) : c.queue[i] = f
    BY <1>4, <1>6, <1>7
  <2> QED
    BY <1>1, <1>3, <1>6, <2>1 DEF Ordered
<1> QED
  BY <1>1, <1>2, <1>3, <1>4, <1>5, <1>8, Moves DEF NotStranded, Consistent, d

\* The drain gives up on what is queued.
LEMMA GiveUpSound ==
  ASSUME NEW c, Sound(c), c.at = "draining" PROVE Sound(GiveUp(c)) /\ Settles(c, GiveUp(c))
<1> DEFINE d == GiveUp(c)
           q == c.queue
           fates == [f \in Frame |-> IF Contains(q, f) THEN "abandoned" ELSE c.fate[f]]
<1>1. /\ c \in Client /\ q \in Seq(Frame) /\ Len(q) \in Nat /\ QueueMax \in Nat
      /\ 0 \notin Frame /\ Frame \subseteq Nat /\ NoFrame = 0
      /\ c.fate \in [Frame -> Fates] /\ NotStranded(c) /\ Consistent(c) /\ Ordered(c)
  BY Parts, ClientAssumption DEF Client
<1>2. c.held = NoFrame /\ (c.work # NoFrame => c.work \in Frame)
  BY <1>1, Parts DEF Consistent
<1>3. d = [c EXCEPT !.at = "ended", !.worker = "none", !.queue = <<>>, !.fate = fates]
  BY <1>1 DEF GiveUp, Client
<1>4. /\ d.queue = <<>> /\ d.held = NoFrame /\ d.work = c.work /\ d.at = "ended"
      /\ d.worker = "none" /\ d.running = c.running /\ d.connected = c.connected
      /\ d.discard = c.discard /\ d.fate = fates
  BY <1>1, <1>2, <1>3 DEF Client
<1>5. \A f \in Frame : Contains(q, f) <=> \E i \in 1 .. Len(q) : q[i] = f
  BY <1>1 DEF Contains
<1>6. /\ \A i \in 1 .. Len(q) : c.work # NoFrame => c.work < q[i]
      /\ \A f \in Frame : c.fate[f] = "piped" <=>
           f = c.work \/ f = c.held \/ \E i \in 1 .. Len(q) : q[i] = f
  BY <1>1 DEF Ordered
<1>7. c.work # NoFrame => ~Contains(q, c.work)
  <2>1. ASSUME NEW i \in 1 .. Len(q), c.work # NoFrame PROVE q[i] # c.work
    <3>0. q[i] \in Frame /\ c.work \in Frame
      BY <1>1, <1>2, <2>1
    <3>1. q[i] \in Nat /\ c.work \in Nat /\ c.work < q[i]
      BY <1>1, <1>6, <2>1, <3>0
    <3> QED
      BY <3>1
  <2> QED
    BY <1>2, <1>5, <2>1
<1>8. \A f \in Frame : Contains(q, f) => c.fate[f] = "piped"
  BY <1>5, <1>6
<1>9. fates \in [Frame -> Fates]
  <2>1. "abandoned" \in Fates
    BY DEF Fates
  <2> QED
    BY <1>1, <2>1
<1>10. d \in Client
  <2>1. "ended" \in Places /\ "none" \in Workers /\ <<>> \in Seq(Frame)
    BY DEF Places, Workers
  <2> HIDE DEF fates
  <2> QED
    BY <1>1, <1>3, <1>9, <2>1 DEF Client
<1>11. \A f \in Frame : d.fate[f] = IF Contains(q, f) THEN "abandoned" ELSE c.fate[f]
  BY <1>4
<1>12. Len(d.queue) = 0
  BY <1>4
<1> HIDE DEF d, q, fates
<1>13. Ordered(d)
  <2>1. \A f \in Frame : d.fate[f] = "piped" <=> f = c.work
    BY <1>1, <1>2, <1>5, <1>6, <1>7, <1>11
  <2>2. 1 .. Len(d.queue) = {}
    BY <1>12
  <2> QED
    BY <1>1, <1>4, <2>1, <2>2 DEF Ordered
<1>14. /\ \A f \in Frame : d.fate[f] = "none" <=> c.fate[f] = "none"
       /\ \A f \in Frame : d.fate[f] = "refused" <=> c.fate[f] = "refused"
  BY <1>8, <1>11
<1> QED
  BY <1>1, <1>4, <1>10, <1>12, <1>13, <1>14, Moves DEF NotStranded, Consistent, d

\* The frame that comes next is the first that was not received.
LEMMA NextFrame ==
  ASSUME NEW c, Sound(c), NEW f \in Frame, f = Cardinality(Received(c)) + 1
  PROVE  /\ f - 1 \in 0 .. MaxFrames
         /\ \A g \in Frame : c.fate[g] # "none" <=> g < f
<1>1. PICK n \in 0 .. MaxFrames : Received(c) = 1 .. n
  BY Parts DEF Consistent
<1>2. Cardinality(1 .. n) = n
  <2>1. n \in Nat
    BY <1>1, ClientAssumption
  <2> QED
    BY <2>1, FS_Interval
<1>3. f = n + 1
  BY <1>1, <1>2
<1>4. \A g \in Frame : c.fate[g] # "none" <=> g \in 1 .. n
  BY <1>1 DEF Received
<1>5. n \in Nat /\ \A g \in Frame : g \in Nat \ {0}
  BY ClientAssumption DEF Frame
<1> QED
  BY <1>3, <1>4, <1>5

\* A queue with one more frame at its end.
LEMMA AppendParts ==
  ASSUME NEW q \in Seq(Frame), NEW f \in Frame
  PROVE  /\ Append(q, f) \in Seq(Frame) /\ Len(Append(q, f)) = Len(q) + 1
         /\ Len(q) \in Nat /\ Append(q, f)[Len(q) + 1] = f
         /\ \A i \in 1 .. Len(q) : Append(q, f)[i] = q[i]
OBVIOUS
\* A frame that was captured raw enters the queue, or waits in front of it.
LEMMA AcceptSound ==
  ASSUME NEW c, Sound(c), c.at = "receiving", c.held = NoFrame, c.running,
         NEW f \in Frame, f = Cardinality(Received(c)) + 1
  PROVE  Sound(Accept(c, f)) /\ Settles(c, Accept(c, f))
<1> DEFINE d == Accept(c, f)
           q == c.queue
<1>1. /\ c \in Client /\ q \in Seq(Frame) /\ Len(q) \in Nat /\ Len(q) <= QueueMax
      /\ QueueMax \in Nat /\ 0 \notin Frame /\ Frame \subseteq Nat /\ NoFrame = 0
      /\ c.fate \in [Frame -> Fates] /\ NotStranded(c) /\ Consistent(c) /\ Ordered(c)
      /\ c.work \in Frame \cup {NoFrame}
  BY Parts, ClientAssumption DEF Client
<1>2. ~c.discard /\ c.worker # "exited" /\ \A g \in Frame : c.fate[g] # "refused"
  BY <1>1 DEF NotStranded, Consistent
<1>3. f - 1 \in 0 .. MaxFrames /\ f \in Nat /\ \A g \in Frame : c.fate[g] # "none" <=> g < f
  BY <1>1, NextFrame
<1>4. /\ \A i, j \in 1 .. Len(q) : i < j => q[i] < q[j]
      /\ \A i \in 1 .. Len(q) : (c.work # NoFrame => c.work < q[i]) /\ q[i] \in Frame
      /\ \A g \in Frame : c.fate[g] = "piped" <=>
           g = c.work \/ \E i \in 1 .. Len(q) : q[i] = g
  <2>1. \A i \in 1 .. Len(q) : q[i] \in Frame
    BY <1>1
  <2> QED
    BY <1>1, <2>1 DEF Ordered
<1>5. \A i \in 1 .. Len(q) : q[i] < f
  BY <1>3, <1>4
<1>6. c.work # NoFrame => c.work < f
  BY <1>1, <1>3, <1>4
<1> DEFINE e == [c EXCEPT !.fate[f] = "piped"]
<1>7. /\ e = [c EXCEPT !.fate = [c.fate EXCEPT ![f] = "piped"]]
      /\ d = Offer(e, f)
  BY <1>1 DEF Accept, Client
<1>8. [c.fate EXCEPT ![f] = "piped"] \in [Frame -> Fates]
  BY <1>1 DEF Fates
<1>9. /\ e \in Client /\ e.queue = q /\ e.held = NoFrame /\ e.work = c.work /\ e.at = "receiving"
      /\ e.worker = c.worker /\ e.running /\ e.discard = FALSE
      /\ e.fate = [c.fate EXCEPT ![f] = "piped"]
  BY <1>1, <1>2, <1>7, <1>8 DEF Client
<1>10. \A g \in Frame : e.fate[g] = IF g = f THEN "piped" ELSE c.fate[g]
  BY <1>1, <1>9
<1> HIDE DEF d, e, q
<1>11. /\ d \in Client /\ Len(d.queue) <= QueueMax /\ Ordered(d)
       /\ d.at = "receiving" /\ d.worker = c.worker /\ d.running /\ ~d.discard
       /\ d.fate = e.fate /\ d.work = c.work
  <2>1. CASE Len(q) < QueueMax
    <3>1. d = [e EXCEPT !.queue = Append(q, f), !.held = NoFrame]
      BY <1>7, <1>9, <2>1 DEF Offer, Client
    <3>2. /\ Append(q, f) \in Seq(Frame) /\ Len(Append(q, f)) = Len(q) + 1
          /\ Append(q, f)[Len(q) + 1] = f
          /\ \A i \in 1 .. Len(q) : Append(q, f)[i] = q[i]
      BY <1>1, AppendParts
    <3> DEFINE a == Append(q, f)
    <3> HIDE DEF a
    <3>3. /\ d \in Client /\ d.queue = a /\ d.held = NoFrame /\ d.at = "receiving"
          /\ d.worker = c.worker /\ d.running /\ ~d.discard
          /\ d.fate = e.fate /\ d.work = c.work
      BY <1>9, <3>1, <3>2 DEF Client, a
    <3>4. \A i, j \in 1 .. Len(a) : i < j => a[i] < a[j]
      BY <1>1, <1>4, <1>5, <3>2 DEF a
    <3>5. \A i \in 1 .. Len(a) : c.work # NoFrame => c.work < a[i]
      BY <1>1, <1>4, <1>6, <3>2 DEF a
    <3>6. \A g \in Frame : (\E i \in 1 .. Len(a) : a[i] = g) <=>
                             g = f \/ \E i \in 1 .. Len(q) : q[i] = g
      BY <1>1, <3>2 DEF a
    <3>7. \A g \in Frame : d.fate[g] = "piped" <=>
            g = c.work \/ \E i \in 1 .. Len(a) : a[i] = g
      BY <1>4, <1>10, <3>3, <3>6
    <3>8. Ordered(d)
      BY <1>1, <3>3, <3>4, <3>5, <3>7 DEF Ordered
    <3> QED
      BY <1>1, <2>1, <3>2, <3>3, <3>8 DEF a
  <2>2. CASE ~(Len(q) < QueueMax)
    <3>1. d = [e EXCEPT !.held = f]
      BY <1>7, <1>9, <2>2 DEF Offer
    <3>2. /\ d \in Client /\ d.queue = q /\ d.held = f /\ d.at = "receiving"
          /\ d.worker = c.worker /\ d.running /\ ~d.discard
          /\ d.fate = e.fate /\ d.work = c.work
      BY <1>9, <3>1 DEF Client
    <3>3. \A g \in Frame : d.fate[g] = "piped" <=>
            g = c.work \/ g = f \/ \E i \in 1 .. Len(q) : q[i] = g
      BY <1>4, <1>10, <3>2
    <3>4. Ordered(d)
      BY <1>1, <1>4, <1>5, <1>6, <3>2, <3>3 DEF Ordered
    <3> QED
      BY <1>1, <3>2, <3>4
  <2> QED
    BY <2>1, <2>2
<1>12. Received(d) = 1 .. f /\ f \in 0 .. MaxFrames
  <2>1. \A g \in Frame : d.fate[g] # "none" <=> g <= f
    BY <1>1, <1>3, <1>10, <1>11
  <2>2. 1 .. f \subseteq Frame /\ f \in 0 .. MaxFrames /\ \A g \in Frame : g >= 1
    BY <1>3, ClientAssumption DEF Frame
  <2>3. \A g \in Frame : g \in 1 .. f <=> g <= f
    BY <1>1, <1>3, <2>2
  <2>4. \A g \in Received(d) : g \in 1 .. f
    BY <2>1, <2>3 DEF Received
  <2>5. \A g \in 1 .. f : g \in Received(d)
    BY <2>1, <2>2, <2>3 DEF Received
  <2> QED
    BY <2>2, <2>4, <2>5
<1>13. \A g \in Frame : d.fate[g] # "refused"
  BY <1>2, <1>10, <1>11
<1>14. Consistent(d) /\ NotStranded(d)
  <2>1. /\ c.worker = "busy" => c.work # NoFrame
        /\ c.work # NoFrame => c.worker = "busy"
    BY <1>1 DEF Consistent
  <2> QED
    BY <1>2, <1>11, <1>12, <1>13, <2>1 DEF Consistent, NotStranded
<1>15. Sound(d)
  BY <1>11, <1>14, SoundParts
<1>16. Settles(c, d)
  BY <1>2, <1>13 DEF Settles
<1> QED
  BY <1>15, <1>16 DEF d
\* A frame that could not be captured: its client is latched and leaves its loop.
LEMMA RefuseSound ==
  ASSUME NEW c, Sound(c), c.at = "receiving", c.held = NoFrame, c.running,
         NEW f \in Frame, f = Cardinality(Received(c)) + 1
  PROVE  /\ Sound(Refuse(c, f)) /\ Refuse(c, f).discard
         /\ \A g \in Frame : Refuse(c, f).fate[g] = "refused" <=> g = f
<1> DEFINE e == [c EXCEPT !.fate[f] = "refused"]
           d == Latch(e)
<1>1. /\ c \in Client /\ c.queue \in Seq(Frame) /\ Len(c.queue) <= QueueMax
      /\ Frame \subseteq Nat /\ c.fate \in [Frame -> Fates]
      /\ NotStranded(c) /\ Consistent(c) /\ Ordered(c)
  BY Parts DEF Client
<1>2. ~c.discard /\ \A g \in Frame : c.fate[g] # "refused"
  BY <1>1 DEF Consistent
<1>3. f - 1 \in 0 .. MaxFrames /\ f \in Nat /\ \A g \in Frame : c.fate[g] # "none" <=> g < f
  BY <1>1, NextFrame
<1>4. e = [c EXCEPT !.fate = [c.fate EXCEPT ![f] = "refused"]]
  BY <1>1 DEF Client
<1>5. [c.fate EXCEPT ![f] = "refused"] \in [Frame -> Fates]
  BY <1>1 DEF Fates
<1>6. /\ e \in Client /\ e.queue = c.queue /\ e.held = NoFrame /\ e.work = c.work
      /\ e.at = "receiving" /\ e.worker = c.worker
      /\ e.fate = [c.fate EXCEPT ![f] = "refused"]
  BY <1>1, <1>4, <1>5 DEF Client
<1> HIDE DEF e
<1>7. /\ d \in Client /\ d.queue = c.queue /\ d.held = NoFrame /\ d.work = c.work
      /\ d.at = "receiving" /\ d.worker = c.worker /\ d.discard /\ ~d.running /\ ~d.connected
      /\ d.fate = [c.fate EXCEPT ![f] = "refused"]
  BY <1>6 DEF Latch, Stop, Client
<1>8. \A g \in Frame : d.fate[g] = IF g = f THEN "refused" ELSE c.fate[g]
  BY <1>1, <1>7
<1>9. Refuse(c, f) = Leave(d)
  BY DEF Refuse, e
<1> HIDE DEF d
<1>10. Ordered(d)
  <2>1. c.fate[f] # "piped"
    BY <1>3
  <2>2. \A g \in Frame : d.fate[g] = "piped" <=> c.fate[g] = "piped"
    BY <1>8, <2>1
  <2> QED
    BY <1>1, <1>7, <2>2 DEF Ordered
<1>11. Received(d) = 1 .. f /\ f \in 0 .. MaxFrames
  <2>1. \A g \in Frame : d.fate[g] # "none" <=> g <= f
    BY <1>1, <1>3, <1>8
  <2>2. 1 .. f \subseteq Frame /\ f \in 0 .. MaxFrames /\ \A g \in Frame : g >= 1
    BY <1>3, ClientAssumption DEF Frame
  <2>3. \A g \in Frame : g \in 1 .. f <=> g <= f
    BY <1>1, <1>3, <2>2
  <2>4. \A g \in Received(d) : g \in 1 .. f
    BY <2>1, <2>3 DEF Received
  <2>5. \A g \in 1 .. f : g \in Received(d)
    BY <2>1, <2>2, <2>3 DEF Received
  <2> QED
    BY <2>2, <2>4, <2>5
<1>12. Consistent(d)
  <2>1. /\ c.worker = "busy" => c.work # NoFrame
        /\ c.work # NoFrame => c.worker = "busy"
    BY <1>1 DEF Consistent
  <2>2. \A g, h \in Frame : d.fate[g] = "refused" => d.discard /\ (h > g => d.fate[h] = "none")
    BY <1>1, <1>2, <1>3, <1>7, <1>8
  <2> QED
    BY <1>7, <1>11, <2>1, <2>2 DEF Consistent
<1>13. Sound(d)
  BY <1>1, <1>7, <1>10, <1>12, SoundParts DEF NotStranded
<1>14. Sound(Leave(d)) /\ Settles(d, Leave(d))
  BY <1>7, <1>13, LeaveSound
<1> QED
  BY <1>2, <1>7, <1>8, <1>9, <1>14 DEF Settles

\* A wait in front of the queue ends: the frame enters, waits on, or is given up.
LEMMA RepollSound ==
  ASSUME NEW c, Sound(c), c.at = "receiving", c.held # NoFrame
  PROVE  Sound(Repoll(c)) /\ Settles(c, Repoll(c))
<1> DEFINE q == c.queue
           h == c.held
<1>1. /\ c \in Client /\ q \in Seq(Frame) /\ Len(q) \in Nat /\ Len(q) <= QueueMax
      /\ QueueMax \in Nat /\ 0 \notin Frame /\ Frame \subseteq Nat /\ NoFrame = 0
      /\ c.fate \in [Frame -> Fates] /\ NotStranded(c) /\ Consistent(c) /\ Ordered(c)
      /\ c.work \in Frame \cup {NoFrame} /\ h \in Frame /\ c.fate[h] = "piped"
      /\ \A i \in 1 .. Len(q) : q[i] \in Frame
  BY Parts, ClientAssumption DEF Client
<1>2. /\ \A i, j \in 1 .. Len(q) : i < j => q[i] < q[j]
      /\ \A i \in 1 .. Len(q) : (c.work # NoFrame => c.work < q[i]) /\ q[i] < h
      /\ c.work # NoFrame => c.work < h
      /\ \A g \in Frame : c.fate[g] = "piped" <=>
           g = c.work \/ g = h \/ \E i \in 1 .. Len(q) : q[i] = g
  BY <1>1 DEF Ordered
<1>3. c.work # h /\ \A i \in 1 .. Len(q) : q[i] # h
  <2>1. h \in Nat /\ c.work \in Nat /\ \A i \in 1 .. Len(q) : q[i] \in Nat
    <3>1. Frame \subseteq Nat /\ NoFrame \in Nat
      BY <1>1
    <3>2. /\ h \in Frame /\ c.work \in Frame \cup {NoFrame}
          /\ \A i \in 1 .. Len(q) : q[i] \in Frame
      BY <1>1
    <3> QED
      BY <3>1, <3>2
  <2> QED
    BY <1>1, <1>2, <2>1
<1> HIDE DEF q, h
<1>4. CASE c.running /\ Len(q) < QueueMax
  <2> DEFINE a == Append(q, h)
             d == [c EXCEPT !.queue = a, !.held = NoFrame]
  <2>1. Repoll(c) = d
    BY <1>1, <1>4 DEF Repoll, Offer, Client, q, h
  <2>2. /\ a \in Seq(Frame) /\ Len(a) = Len(q) + 1 /\ a[Len(q) + 1] = h
        /\ \A i \in 1 .. Len(q) : a[i] = q[i]
    BY <1>1, AppendParts
  <2> HIDE DEF a
  <2>3. /\ d \in Client /\ d.queue = a /\ d.held = NoFrame /\ d.at = c.at
        /\ d.worker = c.worker /\ d.running = c.running /\ d.discard = c.discard
        /\ d.connected = c.connected /\ d.fate = c.fate /\ d.work = c.work
    BY <1>1, <2>2 DEF Client
  <2> HIDE DEF d
  <2>4. \A i, j \in 1 .. Len(a) : i < j => a[i] < a[j]
    BY <1>1, <1>2, <2>2
  <2>5. \A i \in 1 .. Len(a) : c.work # NoFrame => c.work < a[i]
    BY <1>1, <1>2, <2>2
  <2>6. \A g \in Frame : (\E i \in 1 .. Len(a) : a[i] = g) <=>
                           g = h \/ \E i \in 1 .. Len(q) : q[i] = g
    BY <1>1, <2>2
  <2>7. \A g \in Frame : d.fate[g] = "piped" <=>
          g = c.work \/ \E i \in 1 .. Len(a) : a[i] = g
    BY <1>2, <2>3, <2>6
  <2>8. Ordered(d)
    BY <1>1, <2>3, <2>4, <2>5, <2>7 DEF Ordered
  <2>9. Len(d.queue) <= QueueMax
    BY <1>1, <1>4, <2>2, <2>3
  <2> QED
    BY <1>1, <1>4, <2>1, <2>3, <2>8, <2>9, Moves DEF NotStranded, Consistent
<1>5. CASE c.running /\ ~(Len(q) < QueueMax)
  <2>1. Repoll(c) = c
    BY <1>1, <1>5 DEF Repoll, Offer, Client, q
  <2> QED
    BY <2>1 DEF Settles
<1>6. CASE ~c.running
  <2> DEFINE d == [c EXCEPT !.fate[h] = "abandoned", !.held = NoFrame]
  <2>1. Repoll(c) = Leave(d)
    BY <1>6 DEF Repoll, h
  <2>2. d = [c EXCEPT !.fate = [c.fate EXCEPT ![h] = "abandoned"], !.held = NoFrame]
    BY <1>1 DEF Client
  <2>3. [c.fate EXCEPT ![h] = "abandoned"] \in [Frame -> Fates]
    BY <1>1 DEF Fates
  <2>4. /\ d \in Client /\ d.queue = q /\ d.held = NoFrame /\ d.at = c.at
        /\ d.worker = c.worker /\ d.running = c.running /\ d.discard = c.discard
        /\ d.connected = c.connected /\ d.work = c.work
        /\ d.fate = [c.fate EXCEPT ![h] = "abandoned"]
    BY <1>1, <2>2, <2>3 DEF Client, q
  <2>5. \A g \in Frame : d.fate[g] = IF g = h THEN "abandoned" ELSE c.fate[g]
    BY <1>1, <2>4
  <2> HIDE DEF d
  <2>6. \A g \in Frame : d.fate[g] = "piped" <=>
          g = c.work \/ \E i \in 1 .. Len(q) : q[i] = g
    BY <1>2, <1>3, <2>5
  <2>7. Ordered(d)
    BY <1>1, <1>2, <2>4, <2>6 DEF Ordered
  <2>8. Sound(d) /\ Settles(c, d)
    <3>1. /\ \A g \in Frame : d.fate[g] = "none" <=> c.fate[g] = "none"
          /\ \A g \in Frame : d.fate[g] = "refused" <=> c.fate[g] = "refused"
      BY <1>1, <2>5
    <3>2. /\ c.discard => ~c.running /\ ~c.connected
          /\ c.at = "idle" => c.worker = "none"
          /\ c.worker = "busy" => c.work # NoFrame
          /\ c.work # NoFrame => c.worker = "busy" \/ (c.worker = "none" /\ c.at = "ended")
      BY <1>1 DEF Consistent
    <3>3. NotStranded(d)
      BY <1>1, <2>4 DEF NotStranded, q
    <3>4. Len(d.queue) <= QueueMax
      BY <1>1, <2>4
    <3> QED
      BY <2>4, <2>7, <3>1, <3>2, <3>3, <3>4, Moves
  <2>9. Sound(Leave(d)) /\ Settles(d, Leave(d))
    BY <2>4, <2>8, LeaveSound
  <2> QED
    BY <2>1, <2>4, <2>8, <2>9 DEF Settles
<1> QED
  BY <1>4, <1>5, <1>6

(***************************************************************************)
(* The collector: the clients and what joins them                          *)
(***************************************************************************)

\* What TypeOK says of everything but the clients.
Rest ==
  /\ broken \subseteq Clients \cup {"raw"} /\ isolated \subseteq Clients
  /\ terminalFailure \in BOOLEAN /\ supervisor \in BOOLEAN /\ alive \in BOOLEAN
  /\ shutdown \in {"no", "begun", "done"}

\* No two frames were refused.
OneRefusal ==
  \A c, d \in Clients : \A f, g \in Frame :
    clients[c].fate[f] = "refused" /\ clients[d].fate[g] = "refused" => c = d /\ f = g

\* The inductive invariant.
StopIInv ==
  /\ clients \in [Clients -> Client] /\ Rest
  /\ \A c \in Clients : Sound(clients[c])
  /\ RefusalLatches /\ OneRefusal

\* What a step may do to a latched client.
LatchStep ==
  \A c \in Clients : clients[c].discard =>
    /\ Received(clients'[c]) = Received(clients[c])
    /\ clients'[c].work \in {clients[c].work, NoFrame}
    /\ clients'[c].discard /\ ~clients'[c].connected /\ ~clients'[c].running

\* The invariant is what the runs check, said with Sound.
LEMMA StopIInvIs == StopIInv <=> StopInv /\ EvidenceFirst
<1>1. ASSUME StopIInv PROVE StopInv /\ EvidenceFirst
  <2>1. StopTypeOK
    BY <1>1 DEF StopIInv, Rest, StopTypeOK, Sound
  <2>2. StopInv
    BY <1>1, <2>1 DEF StopIInv, StopInv, Sound
  <2>3. EvidenceFirst
    BY <1>1 DEF StopIInv, EvidenceFirst, OneRefusal, Sound, Consistent
  <2> QED
    BY <2>2, <2>3
<1>2. ASSUME StopInv, EvidenceFirst PROVE StopIInv
  <2>1. Rest /\ clients \in [Clients -> Client]
    BY <1>2 DEF StopInv, StopTypeOK, Rest
  <2>2. \A c \in Clients : Sound(clients[c])
    BY <1>2, <2>1 DEF StopInv, StopTypeOK, Sound
  <2>3. OneRefusal /\ RefusalLatches
    BY <1>2 DEF StopInv, EvidenceFirst, OneRefusal
  <2> QED
    BY <2>1, <2>2, <2>3 DEF StopIInv
<1> QED
  BY <1>1, <1>2

\* Nothing happens to a client that nothing happens to.
LEMMA NothingSettles == ASSUME NEW c PROVE Settles(c, c)
BY DEF Settles

\* A step in which every client does what a sound client may.
LEMMA Everyone ==
  ASSUME StopIInv, Rest', clients' \in [Clients -> Client],
         \A c \in Clients : Sound(clients'[c]) /\ Settles(clients[c], clients'[c])
  PROVE  StopIInv' /\ LatchStep
<1>1. RefusalLatches' /\ OneRefusal'
  BY DEF StopIInv, RefusalLatches, OneRefusal, Settles
<1>2. LatchStep
  BY DEF LatchStep, Settles, Sound, Consistent
<1> QED
  BY <1>1, <1>2 DEF StopIInv

\* A step of one client.
LEMMA OneClient ==
  ASSUME StopIInv, Rest', NEW c \in Clients, NEW d, ClientBecomes(c, d), Sound(d), Settles(clients[c], d)
  PROVE  StopIInv' /\ LatchStep
<1>1. d \in Client
  BY DEF Sound
<1>2. clients' \in [Clients -> Client] /\ clients'[c] = d
      /\ \A e \in Clients \ {c} : clients'[e] = clients[e]
  BY <1>1 DEF ClientBecomes, StopIInv
<1>3. \A e \in Clients : Sound(clients'[e]) /\ Settles(clients[e], clients'[e])
  BY <1>2, NothingSettles DEF StopIInv
<1> QED
  BY <1>2, <1>3, Everyone

\* The same where nothing else changes.
LEMMA QuietClient ==
  ASSUME StopIInv, NEW c \in Clients, NEW d, Quietly(c, d), Sound(d), Settles(clients[c], d)
  PROVE  StopIInv' /\ LatchStep
<1>1. Rest'
  BY DEF StopIInv, Rest, Quietly, failure, process
<1> QED
  BY <1>1, OneClient DEF Quietly

\* The first states.
LEMMA StopStarts == StopInit => StopIInv
<1> SUFFICES ASSUME StopInit PROVE StopIInv
  OBVIOUS
<1> USE ClientAssumption DEF StopInit
<1>1. /\ New \in Client /\ New.queue = <<>> /\ New.held = NoFrame /\ New.work = NoFrame
      /\ New.at = "idle" /\ New.worker = "none" /\ New.running = FALSE
      /\ New.connected = FALSE /\ New.discard = FALSE
      /\ \A f \in Frame : New.fate[f] = "none"
  BY DEF New, Client, Places, Workers, Fates
<1>2. Len(New.queue) = 0 /\ 0 <= QueueMax
  BY <1>1
<1>3. Ordered(New)
  <2>1. \A f \in Frame : f # NoFrame
    BY DEF Frame, NoFrame
  <2> QED
    BY <1>1, <1>2, <2>1 DEF Ordered
<1>4. Received(New) = 1 .. 0 /\ 0 \in 0 .. MaxFrames
  BY <1>1 DEF Received
<1>5. Consistent(New) /\ NotStranded(New)
  BY <1>1, <1>4 DEF Consistent, NotStranded
<1>6. Sound(New)
  BY <1>1, <1>2, <1>3, <1>5, SoundParts
<1>7. \A c \in Clients : clients[c] = New
  OBVIOUS
<1>8. clients \in [Clients -> Client]
  BY <1>1
<1>9. Rest
  BY DEF Rest
<1>10. RefusalLatches /\ OneRefusal
  BY <1>1, <1>7 DEF RefusalLatches, OneRefusal
<1> QED
  BY <1>6, <1>7, <1>8, <1>9, <1>10 DEF StopIInv
\* The client's own actions.
LEMMA ClientMovesSoundly ==
  ASSUME StopIInv, NEW c \in Clients, ClientMoves(c) PROVE StopIInv' /\ LatchStep
<1> DEFINE k == clients[c]
<1>1. Sound(k) /\ Consistent(k)
  BY DEF StopIInv, Sound
<1>2. CASE ClientStarts(c)
  <2>1. Sound(Begin(k)) /\ Settles(k, Begin(k)) /\ Quietly(c, Begin(k))
    BY <1>1, <1>2, BeginSound DEF ClientStarts
  <2> QED
    BY <2>1, QuietClient
<1>3. CASE ClientConnects(c)
  <2>1. k.at = "connecting" /\ k.held = NoFrame
    BY <1>1, <1>3 DEF ClientConnects, Consistent
  <2>2. CASE Quietly(c, Connect(k))
    <3>1. Sound(Connect(k)) /\ Settles(k, Connect(k))
      BY <1>1, <2>1, ConnectSound
    <3> QED
      BY <2>2, <3>1, QuietClient
  <2>3. CASE Quietly(c, Disconnect(k))
    <3>1. Sound(Disconnect(k)) /\ Settles(k, Disconnect(k))
      BY <1>1, <2>1, DisconnectSound
    <3> QED
      BY <2>3, <3>1, QuietClient
  <2> QED
    BY <1>3, <2>2, <2>3 DEF ClientConnects
<1>4. CASE BackoffEnds(c)
  <2>1. Sound(Retry(k)) /\ Settles(k, Retry(k)) /\ Quietly(c, Retry(k))
    BY <1>1, <1>4, RetrySound DEF BackoffEnds
  <2> QED
    BY <2>1, QuietClient
<1>5. CASE ConnectionCloses(c)
  <2>1. CASE Quietly(c, Leave(k))
    <3>1. Sound(Leave(k)) /\ Settles(k, Leave(k))
      BY <1>1, <1>5, LeaveSound DEF ConnectionCloses, Reads
    <3> QED
      BY <2>1, <3>1, QuietClient
  <2>2. CASE Quietly(c, Disconnect(k))
    <3>1. Sound(Disconnect(k)) /\ Settles(k, Disconnect(k))
      BY <1>1, <1>5, DisconnectSound DEF ConnectionCloses, Reads
    <3> QED
      BY <2>2, <3>1, QuietClient
  <2> QED
    BY <1>5, <2>1, <2>2 DEF ConnectionCloses
<1>6. CASE FrameTooLate(c)
  <2>1. Sound(Leave(k)) /\ Settles(k, Leave(k)) /\ Quietly(c, Leave(k))
    BY <1>1, <1>6, LeaveSound DEF FrameTooLate, Reads
  <2> QED
    BY <2>1, QuietClient
<1>7. CASE FrameCaptured(c)
  <2>1. PICK f \in Frame : f = Cardinality(Received(k)) + 1 /\ Quietly(c, Accept(k, f))
    BY <1>7 DEF FrameCaptured
  <2>2. Sound(Accept(k, f)) /\ Settles(k, Accept(k, f))
    BY <1>1, <1>7, <2>1, AcceptSound DEF FrameCaptured, Reads
  <2> QED
    BY <2>1, <2>2, QuietClient
<1>8. CASE FrameRefused(c)
  <2>1. PICK f \in Frame : /\ f = Cardinality(Received(k)) + 1
                           /\ Terminate([clients EXCEPT ![c] = Refuse(k, f)])
    BY <1>8 DEF FrameRefused
  <2>2. /\ Sound(Refuse(k, f)) /\ Refuse(k, f).discard
        /\ \A g \in Frame : Refuse(k, f).fate[g] = "refused" <=> g = f
    BY <1>1, <1>8, <2>1, RefuseSound DEF FrameRefused, Reads
  <2>3. /\ clients'[c] = Latch(Refuse(k, f))
        /\ \A e \in Clients \ {c} : clients'[e] = Latch(clients[e])
        /\ DOMAIN clients' = Clients /\ clients' = [e \in Clients |-> clients'[e]]
    BY <2>1 DEF Terminate, StopIInv
  <2>4. /\ Sound(clients'[c]) /\ clients'[c].discard
        /\ \A g \in Frame : clients'[c].fate[g] = "refused" <=> g = f
    BY <2>2, <2>3, LatchSound DEF Settles
  <2>5. \A e \in Clients \ {c} :
          Sound(clients'[e]) /\ Settles(clients[e], clients'[e]) /\ clients'[e].discard
    BY <2>3, LatchSound DEF StopIInv
  <2>6. ~k.discard /\ \A e \in Clients, g \in Frame : clients[e].fate[g] # "refused"
    BY <1>1, <1>8 DEF FrameRefused, Consistent, StopIInv, RefusalLatches
  <2>7. clients' \in [Clients -> Client]
    BY <2>3, <2>4, <2>5 DEF Sound
  <2>8. RefusalLatches' /\ OneRefusal'
    BY <2>4, <2>5, <2>6 DEF RefusalLatches, OneRefusal, Settles
  <2>9. LatchStep
    BY <2>5, <2>6 DEF LatchStep, Settles, Sound, Consistent
  <2>10. Rest'
    <3>1. broken' \subseteq Clients \cup {"raw"}
      BY <1>8 DEF FrameRefused, Breaks, StopIInv, Rest
    <3>2. terminalFailure' \in BOOLEAN
      BY <2>1 DEF Terminate
    <3> QED
      BY <1>8, <3>1, <3>2 DEF FrameRefused, process, StopIInv, Rest
  <2> QED
    BY <2>4, <2>5, <2>7, <2>8, <2>9, <2>10 DEF StopIInv
<1>9. CASE FullQueueWaitEnds(c)
  <2>1. Sound(Repoll(k)) /\ Settles(k, Repoll(k)) /\ Quietly(c, Repoll(k))
    BY <1>1, <1>9, RepollSound DEF FullQueueWaitEnds
  <2> QED
    BY <2>1, QuietClient
<1>10. CASE WorkerTakes(c)
  <2>1. Sound(Take(k)) /\ Settles(k, Take(k)) /\ Quietly(c, Take(k))
    BY <1>1, <1>10, TakeSound DEF WorkerTakes
  <2> QED
    BY <2>1, QuietClient
<1>11. CASE WorkerEnds(c)
  <2>1. /\ Sound([k EXCEPT !.worker = "exited"]) /\ Settles(k, [k EXCEPT !.worker = "exited"])
        /\ Quietly(c, [k EXCEPT !.worker = "exited"])
    BY <1>1, <1>11, ExitSound DEF WorkerEnds
  <2> QED
    BY <2>1, QuietClient
<1>12. CASE WorkerFinishes(c)
  <2>1. PICK fate \in {"processed", "error"} : ClientBecomes(c, Finish(k, fate))
    BY <1>12 DEF WorkerFinishes
  <2>2. Sound(Finish(k, fate)) /\ Settles(k, Finish(k, fate))
    BY <1>1, <1>12, FinishSound DEF WorkerFinishes
  <2>3. Rest'
    <3>1. broken' \subseteq Clients \cup {"raw"} /\ isolated' \subseteq Clients
      BY <1>12 DEF WorkerFinishes, Breaks, StopIInv, Rest
    <3> QED
      BY <1>12, <3>1 DEF WorkerFinishes, process, StopIInv, Rest
  <2> QED
    BY <2>1, <2>2, <2>3, OneClient
<1>13. CASE DrainReturns(c)
  <2>1. Sound(Drained(k)) /\ Settles(k, Drained(k)) /\ Quietly(c, Drained(k))
    BY <1>1, <1>13, DrainedSound DEF DrainReturns
  <2> QED
    BY <2>1, QuietClient
<1>14. CASE DrainTimesOut(c)
  <2>1. Sound(GiveUp(k)) /\ Settles(k, GiveUp(k)) /\ Quietly(c, GiveUp(k))
    BY <1>1, <1>14, GiveUpSound DEF DrainTimesOut
  <2> QED
    BY <2>1, QuietClient
<1> QED
  BY <1>2, <1>3, <1>4, <1>5, <1>6, <1>7, <1>8, <1>9, <1>10, <1>11, <1>12, <1>13, <1>14
  DEF ClientMoves

\* The latch of every client at once.
LEMMA TerminateAll ==
  ASSUME StopIInv, Rest', Terminate(clients) PROVE StopIInv' /\ LatchStep
<1>1. \A c \in Clients : clients'[c] = Latch(clients[c])
  BY DEF Terminate
<1>2. \A c \in Clients : Sound(clients'[c]) /\ Settles(clients[c], clients'[c])
  BY <1>1, LatchSound DEF StopIInv
<1>3. clients' \in [Clients -> Client]
  BY <1>2 DEF Terminate, Sound
<1> QED
  BY <1>2, <1>3, Everyone

\* No step breaks the invariant, or takes a latched client back.
LEMMA StopSteps == ASSUME StopIInv, [StopNext]_stopVars PROVE StopIInv' /\ LatchStep
<1>1. ASSUME Rest', UNCHANGED clients PROVE StopIInv' /\ LatchStep
  <2>1. \A c \in Clients : Sound(clients'[c]) /\ Settles(clients[c], clients'[c])
    BY <1>1, NothingSettles DEF StopIInv
  <2> QED
    BY <1>1, <2>1, Everyone DEF StopIInv
<1>2. ASSUME NEW c \in Clients, ClientMoves(c) PROVE StopIInv' /\ LatchStep
  BY <1>2, ClientMovesSoundly
<1>3. CASE BreaksSilently
  <2>1. broken' \subseteq Clients \cup {"raw"}
    BY <1>3 DEF BreaksSilently, Breaks, StopIInv, Rest
  <2>2. Rest'
    BY <1>3, <2>1 DEF BreaksSilently, process, StopIInv, Rest
  <2> QED
    BY <1>1, <1>3, <2>2 DEF BreaksSilently
<1>4. CASE Supervise
  <2>1. shutdown' \in {"no", "begun", "done"} /\ alive' \in BOOLEAN
        /\ broken' \subseteq Clients \cup {"raw"}
    BY <1>4 DEF Supervise, StopIInv, Rest
  <2>2. isolated' \subseteq Clients
    BY <1>4 DEF Supervise, Latches, StopIInv, Rest
  <2>3. terminalFailure' \in BOOLEAN
    BY <1>4 DEF Supervise, Latches, Terminate, StopIInv, Rest
  <2>4. supervisor' \in BOOLEAN
    BY <1>4, <2>3 DEF Supervise
  <2>5. Rest'
    BY <2>1, <2>2, <2>3, <2>4 DEF Rest
  <2>6. CASE Terminate(clients)
    BY <2>5, <2>6, TerminateAll
  <2>7. CASE UNCHANGED clients
    BY <1>1, <2>5, <2>7
  <2> QED
    BY <1>4, <2>6, <2>7 DEF Supervise, Latches
<1>5. CASE ShutdownAsked
  <2>1. Rest'
    BY <1>5 DEF ShutdownAsked, failure, StopIInv, Rest
  <2> QED
    BY <1>1, <1>5, <2>1 DEF ShutdownAsked
<1>6. CASE ShutdownEnds
  <2>1. Rest'
    BY <1>6 DEF ShutdownEnds, failure, StopIInv, Rest
  <2>2. \A c \in Clients :
          clients'[c] = [Stop(clients[c]) EXCEPT !.at = IF @ = "ended" THEN @ ELSE "cancelled"]
    BY <1>6 DEF ShutdownEnds
  <2>3. \A c \in Clients : Sound(clients'[c]) /\ Settles(clients[c], clients'[c])
    BY <2>2, CancelSound DEF StopIInv
  <2>4. clients' \in [Clients -> Client]
    <3>1. clients' = [c \in Clients |-> clients'[c]]
      BY <1>6 DEF ShutdownEnds
    <3> QED
      BY <2>3, <3>1 DEF Sound
  <2> QED
    BY <2>1, <2>3, <2>4, Everyone
<1>7. CASE Exit
  <2>1. Rest'
    BY <1>7 DEF Exit, failure, StopIInv, Rest
  <2> QED
    BY <1>1, <1>7, <2>1 DEF Exit
<1>8. CASE UNCHANGED stopVars
  <2>1. Rest'
    BY <1>8 DEF stopVars, StopIInv, Rest
  <2> QED
    BY <1>1, <1>8, <2>1 DEF stopVars
<1> QED
  BY <1>2, <1>3, <1>4, <1>5, <1>6, <1>7, <1>8 DEF StopNext

(***************************************************************************)
(* The theorems                                                            *)
(***************************************************************************)

\* What the runs check of every state holds of every number of clients: each client's
\* pipeline is in order, nothing is stranded, a refusal latches everyone (_consume,
\* _process_queue, _enter_terminal_mode).
THEOREM StopInvariant == StopSpec => []StopInv
<1>1. StopInit => StopIInv
  BY StopStarts
<1>2. StopIInv /\ [StopNext]_stopVars => StopIInv'
  BY StopSteps
<1>3. StopIInv => StopInv
  BY StopIInvIs
<1> QED
  BY <1>1, <1>2, <1>3, PTL DEF StopSpec

\* The first frame that could not be captured raw is the last that any client takes in
\* (_consume's fatal branch and _enter_terminal_mode, between two awaits).
THEOREM FirstRefusalIsLast == StopSpec => []EvidenceFirst
<1>1. StopInit => StopIInv
  BY StopStarts
<1>2. StopIInv /\ [StopNext]_stopVars => StopIInv'
  BY StopSteps
<1>3. StopIInv => EvidenceFirst
  BY StopIInvIs
<1> QED
  BY <1>1, <1>2, <1>3, PTL DEF StopSpec

\* A latched client takes in nothing, begins on nothing and is not connected again, in
\* whatever order its connection, its worker and the shutdown go on (enter_discard_mode).
THEOREM LatchAlwaysHolds == StopSpec => LatchHolds
<1>1. StopInit => StopIInv
  BY StopStarts
<1>2. StopIInv /\ [StopNext]_stopVars => StopIInv' /\ [LatchStep]_stopVars
  BY StopSteps
<1>3. LatchHolds <=> [][LatchStep]_stopVars
  BY PTL DEF LatchHolds, LatchStep
<1> QED
  BY <1>1, <1>2, <1>3, PTL DEF StopSpec
=============================================================================
