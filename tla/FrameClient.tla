---------------------------- MODULE FrameClient ----------------------------
(***************************************************************************)
(* The websocket client of collector/collector/websocket_client.py: the    *)
(* connection loop of start(), the receive loop that captures each frame   *)
(* raw before it queues it, and the one worker that takes frames from the  *)
(* bounded queue.  Everything between two awaits is one step of the event  *)
(* loop.  A client is a record and what its code does to it an operator;   *)
(* CollectorStop composes the clients with the application around them.    *)
(***************************************************************************)
EXTENDS Integers, Sequences, SequencesExt, FiniteSets

CONSTANTS MaxFrames,    \* bound: frames a client receives
          QueueMax,     \* ingest_queue_maxsize
          MaxAttempts   \* the reconnect budget

ASSUME ClientAssumption ==
  MaxFrames \in Nat /\ QueueMax \in Nat \ {0} /\ MaxAttempts \in Nat \ {0}

Frame   == 1 .. MaxFrames
NoFrame == 0

\* at: where start() is.  worker: the task of _process_queue.  fate: what became
\* of each frame; "piped" is received and not settled, "refused" not captured raw.
Places  == {"idle", "connecting", "receiving", "backoff", "draining", "ended", "cancelled"}
Workers == {"none", "waiting", "busy", "exited"}
Fates   == {"none", "piped", "processed", "error", "discarded", "abandoned", "refused"}

Client == [at : Places, running : BOOLEAN, connected : BOOLEAN, discard : BOOLEAN,
           attempts : 0 .. MaxAttempts, queue : Seq(Frame), held : Frame \cup {NoFrame},
           worker : Workers, work : Frame \cup {NoFrame}, fate : [Frame -> Fates]]

New == [at |-> "idle", running |-> FALSE, connected |-> FALSE, discard |-> FALSE,
        attempts |-> 0, queue |-> <<>>, held |-> NoFrame,
        worker |-> "none", work |-> NoFrame, fate |-> [f \in Frame |-> "none"]]

Received(c) == {f \in Frame : c.fate[f] # "none"}

\* What was received and not settled, in the order in which it will be processed.
Pipeline(c) ==
  (IF c.work = NoFrame THEN <<>> ELSE <<c.work>>) \o c.queue
    \o (IF c.held = NoFrame THEN <<>> ELSE <<c.held>>)

(***************************************************************************)
(* Stopping                                                                *)
(***************************************************************************)

\* stop and enter_discard_mode.
Stop(c)  == [c EXCEPT !.running = FALSE, !.connected = FALSE]
Latch(c) == [Stop(c) EXCEPT !.discard = TRUE]

(***************************************************************************)
(* start: the connection loop                                              *)
(***************************************************************************)

\* A latched client is not revived.
Begin(c) ==
  IF c.discard THEN [Stop(c) EXCEPT !.at = "draining"]
  ELSE [c EXCEPT !.running = TRUE, !.at = "connecting"]

\* The end of one round of the loop: a delay, the budget's end, or the loop's.
Leave(c) ==
  CASE ~c.running -> [c EXCEPT !.at = "draining"]
    [] c.running /\ c.attempts >= MaxAttempts -> [c EXCEPT !.at = "draining", !.running = FALSE]
    [] OTHER -> [c EXCEPT !.at = "backoff", !.attempts = @ + 1]

\* The connection failed or ended with an error.
Disconnect(c) == Leave([c EXCEPT !.connected = FALSE])

\* Mutant: a connection that completes late revives a latched client.
ConnectRevives(c) ==
  [c EXCEPT !.at = "receiving", !.connected = TRUE, !.attempts = 0,
            !.worker = IF @ \in {"none", "exited"} THEN "waiting" ELSE @]

\* The connection is up; the worker is made once.
Connect(c) ==
  IF c.discard THEN [c EXCEPT !.at = "draining", !.connected = FALSE]
  ELSE [c EXCEPT !.at = "receiving", !.connected = TRUE, !.attempts = 0,
                 !.worker = IF @ \in {"none", "exited"} THEN "waiting" ELSE @]

\* After the delay.
Retry(c) == [c EXCEPT !.at = IF c.running THEN "connecting" ELSE "draining"]

(***************************************************************************)
(* _consume                                                                *)
(***************************************************************************)

\* The frame enters the queue, or waits in front of it.
Offer(c, f) ==
  IF Len(c.queue) < QueueMax THEN [c EXCEPT !.queue = Append(@, f), !.held = NoFrame]
  ELSE [c EXCEPT !.held = f]

\* A frame whose raw capture went through, and one whose raw capture is fatal:
\* the client is latched and the loop left.
Accept(c, f) == Offer([c EXCEPT !.fate[f] = "piped"], f)
Refuse(c, f) == Leave(Latch([c EXCEPT !.fate[f] = "refused"]))

\* Mutant: a stop is looked for before the wait and not after it.
RepollBlind(c) ==
  IF c.running \/ Len(c.queue) < QueueMax THEN Offer(c, c.held)
  ELSE Leave([c EXCEPT !.fate[c.held] = "abandoned", !.held = NoFrame])

\* A wait in front of the queue is over.
Repoll(c) ==
  IF c.running THEN Offer(c, c.held)
  ELSE Leave([c EXCEPT !.fate[c.held] = "abandoned", !.held = NoFrame])

(***************************************************************************)
(* _process_queue                                                          *)
(***************************************************************************)

\* The worker takes a frame; in discard mode it only counts it.
Take(c) ==
  IF c.discard THEN [c EXCEPT !.fate[Head(c.queue)] = "discarded", !.queue = Tail(@)]
  ELSE [c EXCEPT !.worker = "busy", !.work = Head(c.queue), !.queue = Tail(@)]

\* on_message came back, or raised.
Finish(c, fate) ==
  [c EXCEPT !.fate[c.work] = fate, !.work = NoFrame, !.worker = "waiting"]

\* The loop's condition, looked at between two frames.
MayExit(c) == ~c.running /\ c.queue = <<>>

(***************************************************************************)
(* _drain_and_stop_worker                                                  *)
(***************************************************************************)

\* join() came back: nothing is unfinished.
Drained(c) == [c EXCEPT !.at = "ended", !.worker = "none"]

\* The wait for it timed out: what is queued is counted, and nobody will take it;
\* the worker is cancelled, and a frame it was busy with is not counted.
GiveUp(c) ==
  [c EXCEPT !.at = "ended", !.worker = "none", !.queue = <<>>,
            !.fate = [f \in Frame |-> IF Contains(c.queue, f) THEN "abandoned" ELSE @[f]]]

(***************************************************************************)
(* What is true of a client at every step                                  *)
(***************************************************************************)

\* Nothing slips out of the pipeline or out of order: what was received and not
\* settled is at the worker, in the queue, or in front of it, oldest first.
InOrder(c) ==
  LET p == Pipeline(c)
  IN /\ \A i, j \in DOMAIN p : i < j => p[i] < p[j]
     /\ Range(p) = {f \in Frame : c.fate[f] = "piped"}

\* No frame is left behind a worker that is gone, so join() cannot wait for one.
NotStranded(c) == c.worker = "exited" => ~c.running /\ c.queue = <<>>

\* A latched client neither runs nor is connected, a frame is held by the one who
\* has it, and after a frame that was refused none is taken in.
Consistent(c) ==
  /\ c.discard => ~c.running /\ ~c.connected
  /\ c.at = "idle" => c.worker = "none"
  /\ c.worker = "busy" => c.work # NoFrame
  /\ c.work # NoFrame => c.worker = "busy" \/ (c.worker = "none" /\ c.at = "ended")
  /\ c.held # NoFrame => c.at \in {"receiving", "cancelled"}
  /\ \E n \in 0 .. MaxFrames : Received(c) = 1 .. n
  /\ \A f, g \in Frame :
       c.fate[f] = "refused" => c.discard /\ (g > f => c.fate[g] = "none")
=============================================================================
