-------------------------- MODULE RecoveryControl --------------------------
(***************************************************************************)
(* The recovery controller of collector/collector/recovery_control.py with *)
(* the failure budget of backoff.py.  Its deadlines are monotonic times;   *)
(* each is represented by whether it has passed, and time may make any of  *)
(* them pass at any moment.  A controller is a record and each method an   *)
(* operator.                                                               *)
(***************************************************************************)
EXTENDS Integers

CONSTANTS MaxPerWindow,  \* max_per_window: attempts begun in one window
          MaxAttempts    \* the backoff's budget of consecutive failures

ASSUME ControlAssumption == MaxPerWindow \in Nat \ {0} /\ MaxAttempts \in Nat \ {0}

\* inFlight; recent: attempts in the rolling window; cooling: the cooldown or
\* backoff delay has not passed; limited: the venue's penalty has not passed.
Idle == [inFlight |-> FALSE, recent |-> 0, cooling |-> FALSE, limited |-> FALSE,
         failures |-> 0]

ControlOK(c) ==
  /\ c.inFlight \in BOOLEAN /\ c.cooling \in BOOLEAN /\ c.limited \in BOOLEAN
  /\ c.recent \in Nat /\ c.failures \in 0 .. MaxAttempts

\* request answered ALLOW.
Allows(c) ==
  /\ ~c.inFlight /\ ~c.limited /\ c.failures < MaxAttempts
  /\ c.recent < MaxPerWindow /\ ~c.cooling

Begin(c) == [c EXCEPT !.inFlight = TRUE, !.recent = @ + 1]

Succeed(c) == [c EXCEPT !.inFlight = FALSE, !.cooling = TRUE, !.failures = 0]

\* A failure beyond the budget raises BackoffExhausted inside and counts no more.
Fail(c) ==
  [c EXCEPT !.inFlight = FALSE, !.cooling = TRUE,
            !.failures = IF @ < MaxAttempts THEN @ + 1 ELSE @]

\* Mutant: the attempt the venue refused stays in flight.
RateLimitKeepsFlight(c) == [c EXCEPT !.limited = TRUE]

\* note_rate_limit.
RateLimit(c) == [c EXCEPT !.inFlight = FALSE, !.limited = TRUE]

\* Some deadline passes: the window slides, a delay or a penalty ends.
TimePasses(c, d) ==
  \/ c.recent > 0 /\ d = [c EXCEPT !.recent = @ - 1]
  \/ c.cooling /\ d = [c EXCEPT !.cooling = FALSE]
  \/ c.limited /\ d = [c EXCEPT !.limited = FALSE]
=============================================================================
