----------------------------- MODULE OkxCapture -----------------------------
(***************************************************************************)
(* The raw capture of OKX's public channels: collector/okx_capture.py with *)
(* the application around it, collector/run_okx_capture.py.  One client of *)
(* FrameClient subscribes on every connection; the worker keeps a ledger of *)
(* the venue's answers.  The queue and the worker outlive a connection.    *)
(*                                                                         *)
(* _on_message never suspends, so a worker that is woken by a frame empties *)
(* the queue before any other task of the event loop goes on (asyncio's    *)
(* ready queue is first in, first out): Turn, in every step that needs one. *)
(***************************************************************************)
EXTENDS FrameClient

CONSTANTS Channels,        \* the channels asked for
          MaxConnections   \* bound: connections made

VARIABLES
  client,      \* the websocket client
  wire,        \* the frames received: what each says and on which connection
  serial,      \* _connection_serial
  venue,       \* the venue's side of the connection: channels asked, granted, refused
  ledger,      \* SubscriptionLedger
  ping,        \* keepalive: a ping is unanswered
  terminal,    \* terminal_failure is latched
  why,         \* what the application's wait returned for
  app,         \* the application: "running", "stopping", "cancelling", "closed"
  status       \* the exit status

capture == <<client, wire, serial, venue, ledger, ping, terminal, why, app, status>>
link == <<wire, serial, venue, ledger, ping>>
proc == <<terminal, why, app, status>>

Unattributed == "<unattributed>"  \* the key of an error that names no channel

ASSUME CaptureAssumption == Unattributed \notin Channels /\ MaxConnections \in Nat

Message(kind, ch) == [kind |-> kind, channel |-> ch, conn |-> serial]
\* classify_frame; "pong" is a control frame, "notice" stands for every other one.
Kinds == {"subscribe", "error", "data", "notice", "pong"}
Messages == [kind : Kinds, channel : Channels \cup {Unattributed}, conn : Nat]

NoVenue == [asked |-> {}, granted |-> {}, refused |-> {}]
Empty   == [requested |-> {}, acknowledged |-> {}, rejected |-> {}]

CaptureInit ==
  /\ client = Begin(New) /\ wire = <<>> /\ serial = 0 /\ venue = NoVenue /\ ledger = Empty
  /\ ping = FALSE /\ terminal = FALSE /\ why = "none" /\ app = "running" /\ status = 0

Becomes(next) == client' = next

\* The worker has run: a task that waited goes on.
Turn == client.worker = "waiting" => client.queue = <<>>

(***************************************************************************)
(* SubscriptionLedger                                                      *)
(***************************************************************************)

Request(l)         == [l EXCEPT !.requested = @ \cup Channels]
Acknowledge(l, ch) == [l EXCEPT !.acknowledged = @ \cup {ch}, !.rejected = @ \ {ch}]
Reject(l, key)     == [l EXCEPT !.rejected = @ \cup {key}]

\* Mutant: the refusals of the last connection are kept.
ResetKeepsRejected(l) == [l EXCEPT !.acknowledged = {}]

\* reset_for_new_connection.
Reset(l) == [l EXCEPT !.acknowledged = {}, !.rejected = {}]

PendingChannels(l) == l.requested \ (l.acknowledged \cup l.rejected)

\* _on_message: an acknowledgement, an error (which may name no channel), or a
\* frame the ledger does not care for.
OnMessage(l, frame) ==
  CASE frame.kind = "subscribe" -> Acknowledge(l, frame.channel)
    [] frame.kind = "error"     -> Reject(l, frame.channel)
    [] OTHER                    -> l

\* The ledger after each frame of a queue.
Processed(l, q) ==
  LET after[n \in 0 .. Len(q)] == IF n = 0 THEN l ELSE OnMessage(after[n - 1], wire[q[n]])
  IN after

(***************************************************************************)
(* The connection                                                          *)
(***************************************************************************)

\* websockets.connect fails; or it completes, the ledger is reset and the
\* subscription is sent, which may fail in its turn.
ConnectFails ==
  Turn /\ client.at = "connecting" /\ Becomes(Disconnect(client)) /\ UNCHANGED <<link, proc>>

Connects ==
  /\ Turn /\ client.at = "connecting" /\ serial < MaxConnections
  /\ IF client.discard
     THEN Becomes(Connect(client)) /\ UNCHANGED link
     ELSE /\ serial' = serial + 1 /\ ping' = FALSE /\ UNCHANGED wire
          /\ \/ /\ Becomes(Connect(client)) /\ ledger' = Request(Reset(ledger))
                /\ venue' = [NoVenue EXCEPT !.asked = Channels]
             \/ /\ Becomes(Disconnect(client)) /\ ledger' = Reset(ledger) /\ venue' = NoVenue
  /\ UNCHANGED proc

DelayEnds == Turn /\ client.at = "backoff" /\ Becomes(Retry(client)) /\ UNCHANGED <<link, proc>>

Receiving == client.at = "receiving" /\ client.held = NoFrame

\* What the venue may send next, by its documentation: one answer for every channel
\* asked, pushes of the channels granted, notices, and pongs.
Says(kind, ch) ==
  CASE kind = "subscribe" ->
         /\ ch \in venue.asked
         /\ venue' = [venue EXCEPT !.asked = @ \ {ch}, !.granted = @ \cup {ch}]
    [] kind = "error" -> \E c \in venue.asked :
                           /\ ch \in {c, Unattributed}
                           /\ venue' = [venue EXCEPT !.asked = @ \ {c}, !.refused = @ \cup {ch}]
    [] kind = "data"  -> ch \in venue.granted /\ UNCHANGED venue
    [] OTHER          -> ch = Unattributed /\ UNCHANGED venue

\* A frame arrives: too late, captured raw and queued, or the raw writer is broken
\* for good, which is terminal.
FrameArrives ==
  LET f == Len(wire) + 1
  IN  /\ Receiving /\ f \in Frame
      /\ IF ~client.running
         THEN Becomes(Leave(client)) /\ UNCHANGED <<link, terminal>>
         ELSE \E kind \in Kinds, ch \in Channels \cup {Unattributed} :
                /\ Says(kind, ch) /\ wire' = Append(wire, Message(kind, ch))
                /\ ping' = (ping /\ kind # "pong")
                /\ \/ Becomes(Accept(client, f)) /\ UNCHANGED terminal
                   \/ Becomes(Refuse(client, f)) /\ terminal' = TRUE
                /\ UNCHANGED <<serial, ledger>>
      /\ UNCHANGED <<why, app, status>>

QueueWaitEnds ==
  /\ Turn /\ client.at = "receiving" /\ client.held # NoFrame
  /\ Becomes(Repoll(client)) /\ UNCHANGED <<link, proc>>

\* The socket closes, in order or not; what waits in front of the queue keeps waiting.
SocketCloses ==
  /\ Receiving /\ \E next \in {Leave(client), Disconnect(client)} : Becomes(next)
  /\ UNCHANGED <<link, proc>>

\* _keepalive_loop: a quiet link is pinged, and an unanswered ping closes it.
Ping ==
  /\ Turn /\ client.at = "receiving" /\ client.running /\ ~ping /\ ping' = TRUE
  /\ UNCHANGED <<client, wire, serial, venue, ledger, proc>>

PongOverdue ==
  /\ Turn /\ Receiving /\ client.running /\ ping /\ ping' = FALSE /\ Becomes(Disconnect(client))
  /\ UNCHANGED <<wire, serial, venue, ledger, proc>>

\* _process_queue, until the queue is empty; in discard mode frames are counted.
WorkerDrains ==
  /\ client.worker = "waiting" /\ client.queue # <<>>
  /\ LET fate == IF client.discard THEN "discarded" ELSE "processed"
     IN  Becomes([client EXCEPT !.queue = <<>>,
           !.fate = [f \in Frame |-> IF Contains(client.queue, f) THEN fate ELSE @[f]]])
  /\ ledger' = IF client.discard THEN ledger
               ELSE Processed(ledger, client.queue)[Len(client.queue)]
  /\ UNCHANGED <<wire, serial, venue, ping, proc>>

\* The wait for a frame ends after half a second.
WorkerLeaves ==
  /\ client.worker = "waiting" /\ MayExit(client)
  /\ Becomes([client EXCEPT !.worker = "exited"]) /\ UNCHANGED <<link, proc>>

\* _drain_and_stop_worker; its limit is never met, because the worker empties the queue.
JoinReturns ==
  Turn /\ client.at = "draining" /\ Becomes(Drained(client)) /\ UNCHANGED <<link, proc>>

(***************************************************************************)
(* The application: run and main                                           *)
(***************************************************************************)

\* A signal stops the client and nothing else.
Signal ==
  Turn /\ app = "running" /\ client.running /\ Becomes(Stop(client)) /\ UNCHANGED <<link, proc>>

\* What the wait of run() may return for.
Reasons ==
  {r \in {"duration", "task", "terminal"} : /\ r = "task" => client.at = "ended"
                                            /\ r = "terminal" => terminal}

\* The wait is over: the client is stopped.  The task is waited for, with a limit
\* if the failure is terminal by now.
WaitEnds(reason) ==
  /\ Turn /\ app = "running" /\ reason \in Reasons /\ why' = reason /\ Becomes(Stop(client))
  /\ app' = IF terminal THEN "cancelling" ELSE "stopping"
  /\ UNCHANGED <<link, terminal, status>>

\* Ten seconds passed and the task is cancelled, wherever it is.
CancelTask ==
  /\ Turn /\ app = "cancelling" /\ client.at \notin {"ended", "cancelled"}
  /\ Becomes([client EXCEPT !.at = "cancelled"]) /\ UNCHANGED <<link, proc>>

\* Mutant: a failure counts if it ended the wait.
StatusOfReason == IF why = "terminal" THEN 70 ELSE 0

\* exit_code of the policy, after the writers were closed.
ExitCode == IF terminal THEN 70 ELSE 0

\* close() and main's return; what is left of the event loop goes with it.
Close ==
  /\ Turn /\ app \in {"stopping", "cancelling"} /\ client.at \in {"ended", "cancelled"}
  /\ app' = "closed" /\ status' = ExitCode /\ UNCHANGED <<client, link, terminal, why>>

ClientStep ==
  \/ ConnectFails \/ Connects \/ DelayEnds \/ FrameArrives \/ QueueWaitEnds \/ SocketCloses
  \/ Ping \/ PongOverdue \/ WorkerDrains \/ WorkerLeaves \/ JoinReturns

CaptureNext ==
  /\ app # "closed"
  /\ ClientStep \/ Signal \/ CancelTask \/ Close
     \/ \E reason \in {"duration", "task", "terminal"} : WaitEnds(reason)

CaptureSpec == CaptureInit /\ [][CaptureNext]_capture

(***************************************************************************)
(* Properties                                                              *)
(***************************************************************************)

CaptureTypeOK ==
  /\ client \in Client /\ Len(wire) <= MaxFrames /\ serial \in 0 .. MaxConnections
  /\ ledger.requested \subseteq Channels /\ ledger.acknowledged \subseteq Channels
  /\ ledger.rejected \subseteq Channels \cup {Unattributed}
  /\ app \in {"running", "stopping", "cancelling", "closed"} /\ status \in {0, 70}

\* reset_for_new_connection: acknowledgements belong to a connection.  On an open
\* connection the ledger claims nothing the venue has not granted on it, and
\* once everything received was processed it holds its answers and no others.
LedgerOfThisConnection ==
  client.at = "receiving" /\ client.running =>
    /\ ledger.acknowledged \subseteq venue.granted /\ ledger.rejected \subseteq venue.refused
    /\ Pipeline(client) = <<>> =>
         /\ ledger.acknowledged = venue.granted /\ ledger.rejected = venue.refused
         /\ Unattributed \notin venue.refused => PendingChannels(ledger) = venue.asked

\* A client that is sound (FrameClient), whose worker is between two frames whenever
\* anything else happens, and which received what is on the wire.
ClientKept ==
  /\ client \in Client /\ Len(client.queue) <= QueueMax
  /\ InOrder(client) /\ NotStranded(client) /\ Consistent(client)
  /\ client.worker # "busy" /\ client.work = NoFrame
  /\ client.worker = "none" => client.queue = <<>> /\ client.at # "receiving"
  /\ wire \in Seq(Messages) /\ serial \in Nat /\ Received(client) = 1 .. Len(wire)

\* How a stop comes to its end: only a terminal failure latches the client or lets its
\* task be cancelled, the frame in front of a full queue is given up by a client that
\* stopped and goes on to its drain, and a drain ends on an empty queue.
StopKept ==
  /\ client.discard \/ client.at = "cancelled" \/ app = "cancelling" => terminal
  /\ \A f \in Frame :
       /\ client.fate[f] # "error" /\ (client.fate[f] = "discarded" => client.discard)
       /\ client.fate[f] = "abandoned" =>
            /\ client.at \in {"draining", "ended", "cancelled"}
            /\ \A g \in Frame : client.fate[g] = "abandoned" => f = g
  /\ client.at = "ended" => client.queue = <<>>
  /\ app = "closed" => status = ExitCode /\ client.at \in {"ended", "cancelled"}

CaptureInv == CaptureTypeOK /\ LedgerOfThisConnection /\ ClientKept /\ StopKept

\* A process that met a raw frame it could not store exits 70, whatever ended its
\* wait and whenever the failure came.
RefusedFrameExits70 ==
  app = "closed" /\ (\E f \in Frame : client.fate[f] = "refused") => status = 70

\* DRAIN PROCESSING QUEUE before EXIT, as start() promises: when a stop that is not
\* terminal has ended, every frame taken in was processed, but for the one that
\* was waiting in front of a full queue.
StopDrains ==
  app = "closed" /\ ~terminal =>
    /\ \A f \in Frame : client.fate[f] \in {"none", "processed", "abandoned"}
    /\ Cardinality({f \in Frame : client.fate[f] = "abandoned"}) <= 1

\* How a process ends.
OkxStops == RefusedFrameExits70 /\ StopDrains
=============================================================================
