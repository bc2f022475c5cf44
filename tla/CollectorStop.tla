--------------------------- MODULE CollectorStop ---------------------------
(***************************************************************************)
(* How collector/run_collector.py runs and stops its websocket clients:    *)
(* the latched failures, the supervisor that finds the silent ones, the    *)
(* controlled shutdown and the end of the process.                         *)
(*                                                                         *)
(* Each client serves one derived route here; the raw writer is shared.  A *)
(* writer is broken once it latched FAILED: it raises at its next use.     *)
(***************************************************************************)
EXTENDS FrameClient

CONSTANTS Clients,      \* the websocket clients
          MaxBroken     \* bound: writers that break

ASSUME StopAssumption == IsFiniteSet(Clients) /\ MaxBroken \in Nat /\ "raw" \notin Clients

VARIABLES
  clients,         \* the clients
  broken,          \* writers that latched FAILED: "raw", or a client for its route's
  isolated,        \* routes cut off
  terminalFailure, \* terminal_failure is set
  shutdown,        \* the controlled shutdown: "no", "begun" or "done"
  supervisor,      \* the supervisor loop is running
  alive            \* the process is

stopVars == <<clients, broken, isolated, terminalFailure, shutdown, supervisor, alive>>
failure  == <<broken, isolated, terminalFailure>>
process  == <<shutdown, supervisor, alive>>

StopTypeOK ==
  /\ clients \in [Clients -> Client]
  /\ broken \subseteq Clients \cup {"raw"} /\ isolated \subseteq Clients
  /\ terminalFailure \in BOOLEAN /\ supervisor \in BOOLEAN /\ alive \in BOOLEAN
  /\ shutdown \in {"no", "begun", "done"}
  /\ \A c \in Clients : Len(clients[c].queue) <= QueueMax

StopInit ==
  /\ clients = [c \in Clients |-> New] /\ broken = {} /\ isolated = {} /\ terminalFailure = FALSE
  /\ shutdown = "no" /\ supervisor = TRUE /\ alive = TRUE

ClientBecomes(c, next) == clients' = [clients EXCEPT ![c] = next]

\* The step of one client that nothing else notices.
Quietly(c, next) == ClientBecomes(c, next) /\ UNCHANGED <<failure, process>>

Breaks(w) == Cardinality(broken) < MaxBroken /\ w \notin broken /\ broken' = broken \cup {w}

\* Mutant: only the client whose frame it was is latched.
TerminateOne(reached) == terminalFailure' = TRUE /\ clients' = reached

\* _enter_terminal_mode: every client is latched.
Terminate(reached) ==
  /\ terminalFailure' = TRUE /\ clients' = [c \in Clients |-> Latch(reached[c])]

(***************************************************************************)
(* The clients                                                             *)
(***************************************************************************)

ClientStarts(c) == clients[c].at = "idle" /\ Quietly(c, Begin(clients[c]))

ClientConnects(c) ==
  /\ clients[c].at = "connecting"
  /\ \E next \in {Connect(clients[c]), Disconnect(clients[c])} : Quietly(c, next)

BackoffEnds(c) == clients[c].at = "backoff" /\ Quietly(c, Retry(clients[c]))

Reads(c) == clients[c].at = "receiving" /\ clients[c].held = NoFrame

\* The socket closes, in order (nothing is noted) or not.
ConnectionCloses(c) ==
  /\ Reads(c)
  /\ \E next \in {Leave(clients[c]), Disconnect(clients[c])} : Quietly(c, next)

\* A frame arrives and the client was stopped,
FrameTooLate(c) == Reads(c) /\ ~clients[c].running /\ Quietly(c, Leave(clients[c]))

\* or it is captured raw and queued,
FrameCaptured(c) ==
  /\ Reads(c) /\ clients[c].running /\ "raw" \notin broken
  /\ \E f \in Frame : /\ f = Cardinality(Received(clients[c])) + 1
                      /\ Quietly(c, Accept(clients[c], f))

\* or the raw writer is broken, or breaks.
FrameRefused(c) ==
  /\ Reads(c) /\ clients[c].running
  /\ IF "raw" \in broken THEN UNCHANGED broken ELSE Breaks("raw")
  /\ \E f \in Frame : /\ f = Cardinality(Received(clients[c])) + 1
                      /\ Terminate([clients EXCEPT ![c] = Refuse(clients[c], f)])
  /\ UNCHANGED <<isolated, process>>

FullQueueWaitEnds(c) ==
  clients[c].at = "receiving" /\ clients[c].held # NoFrame /\ Quietly(c, Repoll(clients[c]))

WorkerTakes(c) ==
  /\ clients[c].worker = "waiting" /\ clients[c].queue # <<>>
  /\ Quietly(c, Take(clients[c]))

WorkerEnds(c) ==
  /\ clients[c].worker = "waiting" /\ MayExit(clients[c])
  /\ Quietly(c, [clients[c] EXCEPT !.worker = "exited"])

\* handle_message: a frame of a route that is cut off ends there; a closed or
\* an ordinary failing writer raises; a broken one cuts the route off.
WorkerFinishes(c) ==
  /\ clients[c].worker = "busy" /\ UNCHANGED <<terminalFailure, process>>
  /\ \/ /\ c \in isolated \/ (shutdown # "done" /\ c \notin broken)
        /\ ClientBecomes(c, Finish(clients[c], "processed")) /\ UNCHANGED <<broken, isolated>>
     \/ /\ c \notin isolated
        /\ ClientBecomes(c, Finish(clients[c], "error")) /\ UNCHANGED <<broken, isolated>>
     \/ /\ c \notin isolated
        /\ IF c \in broken THEN UNCHANGED broken ELSE shutdown # "done" /\ Breaks(c)
        /\ isolated' = isolated \cup {c} /\ ClientBecomes(c, Finish(clients[c], "processed"))

DrainReturns(c) ==
  /\ clients[c].at = "draining"
  /\ clients[c].worker = "none" \/ (clients[c].queue = <<>> /\ clients[c].work = NoFrame)
  /\ Quietly(c, Drained(clients[c]))

DrainTimesOut(c) ==
  clients[c].at = "draining" /\ clients[c].worker # "none" /\ Quietly(c, GiveUp(clients[c]))

(***************************************************************************)
(* The application                                                         *)
(***************************************************************************)

\* A writer breaks where nobody looks, at a publication hook.
BreaksSilently ==
  \E w \in Clients \cup {"raw"} :
    Breaks(w) /\ UNCHANGED <<clients, isolated, terminalFailure, process>>

\* Mutant: a terminal failure waits for the next frame.
LatchesDerived ==
  isolated' = isolated \cup (broken \cap Clients) /\ UNCHANGED <<terminalFailure, clients>>

\* supervise_once: every broken writer is latched.
Latches ==
  /\ isolated' = isolated \cup (broken \cap Clients)
  /\ IF "raw" \in broken THEN Terminate(clients) ELSE UNCHANGED <<terminalFailure, clients>>

\* _failure_supervisor_loop: one round; on a terminal failure it begins the shutdown.
Supervise ==
  /\ supervisor
  /\ IF shutdown = "no"
     THEN /\ Latches
          /\ supervisor' = ~terminalFailure'
          /\ shutdown' = IF terminalFailure' THEN "begun" ELSE "no"
     ELSE supervisor' = FALSE /\ UNCHANGED <<clients, isolated, terminalFailure, shutdown>>
  /\ UNCHANGED <<broken, alive>>

\* A signal, or a disk emergency.
ShutdownAsked ==
  /\ shutdown = "no" /\ shutdown' = "begun" /\ UNCHANGED <<clients, failure, supervisor, alive>>

\* shutdown: the clients are stopped, their tasks cancelled and the writers
\* closed in one step; a cancelled start() does not drain.
ShutdownEnds ==
  /\ shutdown = "begun" /\ shutdown' = "done"
  /\ clients' = [c \in Clients |->
       [Stop(clients[c]) EXCEPT !.at = IF @ = "ended" THEN @ ELSE "cancelled"]]
  /\ UNCHANGED <<failure, supervisor, alive>>

\* start() returns and asyncio.run ends every task left.
Exit ==
  /\ shutdown = "done" /\ alive' = FALSE
  /\ UNCHANGED <<clients, failure, shutdown, supervisor>>

ClientMoves(c) ==
  \/ ClientStarts(c) \/ ClientConnects(c) \/ BackoffEnds(c) \/ ConnectionCloses(c)
  \/ FrameTooLate(c) \/ FrameCaptured(c) \/ FrameRefused(c) \/ FullQueueWaitEnds(c)
  \/ WorkerTakes(c) \/ WorkerEnds(c) \/ WorkerFinishes(c) \/ DrainReturns(c) \/ DrainTimesOut(c)

StopNext ==
  /\ alive
  /\ \/ \E c \in Clients : ClientMoves(c)
     \/ BreaksSilently \/ Supervise \/ ShutdownAsked \/ ShutdownEnds \/ Exit

StopSpec == StopInit /\ [][StopNext]_stopVars

\* The event loop runs what is ready: the supervisor's rounds, a worker that has
\* a frame, a wait that ends, and the shutdown.
StopFairSpec ==
  /\ StopSpec
  /\ WF_stopVars(alive /\ Supervise)
  /\ WF_stopVars(alive /\ ShutdownEnds)
  /\ WF_stopVars(alive /\ Exit)
  /\ \A c \in Clients :
       /\ WF_stopVars(alive /\ WorkerTakes(c))
       /\ WF_stopVars(alive /\ WorkerFinishes(c))
       /\ WF_stopVars(alive /\ FullQueueWaitEnds(c))

(***************************************************************************)
(* Properties                                                              *)
(***************************************************************************)

\* A frame that could not be captured latches every client.
RefusalLatches ==
  \A c, d \in Clients, f \in Frame : clients[c].fate[f] = "refused" => clients[d].discard

\* Types, that latch, and what is true of each client: its pipeline is in order, no
\* frame is stranded behind its worker (_consume, _process_queue).
StopInv ==
  /\ StopTypeOK /\ RefusalLatches
  /\ \A c \in Clients :
       InOrder(clients[c]) /\ NotStranded(clients[c]) /\ Consistent(clients[c])

\* The first frame that could not be captured raw is the last one that any client
\* takes in: no other frame is refused, and none follows it.
EvidenceFirst ==
  \A c, d \in Clients : \A f, g \in Frame :
    /\ clients[c].fate[f] = "refused" /\ clients[d].fate[g] = "refused" => c = d /\ f = g
    /\ clients[c].fate[f] = "refused" /\ g > f => clients[c].fate[g] = "none"

\* After the terminal latch a client takes in no frame, begins on none and is not
\* connected again.
LatchHolds ==
  [][\A c \in Clients : clients[c].discard =>
       /\ Received(clients'[c]) = Received(clients[c])
       /\ clients'[c].work \in {clients[c].work, NoFrame}
       /\ clients'[c].discard /\ ~clients'[c].connected /\ ~clients'[c].running]_stopVars

\* A broken raw writer ends the process even if no frame ever meets it.
RawFailureEnds == "raw" \in broken ~> ~alive

\* A stopped client's queue empties without the drain's timeout: the worker does
\* not leave before it, and the producer in front of a full queue gives up.
StoppedDrains ==
  \A c \in Clients :
    clients[c].at # "idle" /\ ~clients[c].running
      ~> clients[c].queue = <<>> \/ clients[c].at = "ended" \/ ~alive

\* Every stop comes to its end: that of a broken raw writer, and that of a client's
\* drain (_stop_and_drain, start()'s finally).
StopEnds == RawFailureEnds /\ StoppedDrains

\* The documents' claim: at a stop that is not terminal the queued frames are
\* drained by the worker.
DrainedAtStop ==
  ~alive /\ ~terminalFailure =>
    \A c \in Clients, f \in Frame : clients[c].fate[f] # "piped"
=============================================================================
