------------------------------- MODULE Delivery -------------------------------
(***************************************************************************)
(* Delivery of notifications to one channel (safeSendToChannel,            *)
(* sendWithRetry, attemptSend and getOrCreateBreaker in                    *)
(* api/internal/notification/engine.go, and the PerKeyLimiter in           *)
(* ratelimit.go).                                                          *)
(*                                                                         *)
(* Each delivery runs on its own goroutine.  All of them share the         *)
(* channel's token bucket and its circuit breaker (the gobreaker library,  *)
(* modelled from its settings and use).  attemptSend reads the breaker's   *)
(* state after Execute has returned, in a second critical section.         *)
(***************************************************************************)
EXTENDS Integers, FiniteSets

CONSTANTS
  Deliveries,               \* the goroutines started by dispatchWorker
  RetryDelays,              \* len(retrySchedule)
  Burst,                    \* the channel type's bucket size
  TripAfter,                \* ReadyToTrip: consecutive failures
  MaxRequests               \* half-open probes

ASSUME DeliveryAssumption ==
  /\ RetryDelays \in Nat
  /\ Burst \in Nat \ {0}
  /\ TripAfter \in Nat \ {0}
  /\ MaxRequests \in Nat \ {0}

VARIABLES
  pc, attempt, outcome,     \* of each delivery
  registered,               \* a backend exists for the channel's type
  cancelled,                \* the engine's context
  tokens,                   \* the channel's rate limiter
  breaker,                  \* the channel's circuit breaker
  current,                  \* requests of the breaker's present generation
  \* Observation only.
  failedRows,               \* "failed" rows handed to recordLog
  finalRow,                 \* the "sent" or "suppressed" row, if any
  delivered                 \* successful backend.Send calls

progress == <<pc, attempt, outcome>>
guards   == <<registered, cancelled>>
seen     == <<failedRows, finalRow, delivered>>
vars     == <<progress, guards, tokens, breaker, current, seen>>

maxAttempts == RetryDelays + 1

Closed == [state |-> "closed", failures |-> 0, requests |-> 0, successes |-> 0]
Fresh(s) == [Closed EXCEPT !.state = s]

Init ==
  /\ pc = [d \in Deliveries |-> "gate"]
  /\ attempt = [d \in Deliveries |-> 0]
  /\ outcome = [d \in Deliveries |-> "none"]
  /\ registered \in BOOLEAN
  /\ cancelled = FALSE
  /\ tokens = Burst
  /\ breaker = Closed
  /\ current = {}
  /\ failedRows = [d \in Deliveries |-> 0]
  /\ finalRow = [d \in Deliveries |-> "none"]
  /\ delivered = [d \in Deliveries |-> 0]

-----------------------------------------------------------------------------
(* gobreaker *)

\* toNewGeneration: counts start again and running requests no longer count.
NewGeneration(s) == breaker' = Fresh(s) /\ current' = {}

Admits ==
  \/ breaker.state = "closed"
  \/ breaker.state = "half-open" /\ breaker.requests < MaxRequests

beforeRequest(d) ==
  /\ breaker' = IF breaker.state = "half-open"
                 THEN [breaker EXCEPT !.requests = breaker.requests + 1]
                 ELSE breaker
  /\ current' = current \cup {d}

afterFailure(d) ==
  IF d \notin current
  THEN UNCHANGED <<breaker, current>>
  ELSE IF breaker.state = "half-open" \/ breaker.failures + 1 >= TripAfter
       THEN NewGeneration("open")
       ELSE /\ breaker' = [breaker EXCEPT !.failures = @ + 1]
            /\ current' = current \ {d}

afterSuccess(d) ==
  IF d \notin current
  THEN UNCHANGED <<breaker, current>>
  ELSE IF breaker.state = "half-open" /\ breaker.successes + 1 >= MaxRequests
       THEN NewGeneration("closed")
       ELSE /\ breaker' = IF breaker.state = "half-open"
                          THEN [breaker EXCEPT !.successes = @ + 1]
                          ELSE [breaker EXCEPT !.failures = 0]
            /\ current' = current \ {d}

\* Timeout: an open breaker starts probing.  Interval: a closed one forgets.
BreakerTimeout ==
  /\ breaker.state = "open"
  /\ NewGeneration("half-open")
  /\ UNCHANGED <<progress, guards, tokens, seen>>

BreakerInterval ==
  /\ breaker.state = "closed"
  /\ breaker # Closed \/ current # {}
  /\ NewGeneration("closed")
  /\ UNCHANGED <<progress, guards, tokens, seen>>

\* evictStaleBreakers: only a breaker unused for limiterTTL, longer than the
\* longest backoff and the send timeout, so no delivery is under way.
EvictBreaker ==
  /\ \A d \in Deliveries : pc[d] \in {"gate", "done"}
  /\ ~cancelled
  /\ breaker # Closed
  /\ NewGeneration("closed")
  /\ UNCHANGED <<progress, guards, tokens, seen>>

-----------------------------------------------------------------------------
(* sendWithRetry *)

Finish(d, o) ==
  /\ pc' = [pc EXCEPT ![d] = "done"]
  /\ outcome' = [outcome EXCEPT ![d] = o]

LogFinal(d, status) == finalRow' = [finalRow EXCEPT ![d] = status]

\* The rate limiter is asked once per notification.
GateAllow(d) ==
  /\ pc[d] = "gate"
  /\ tokens > 0
  /\ tokens' = tokens - 1
  /\ pc' = [pc EXCEPT ![d] = "ready"]
  /\ attempt' = [attempt EXCEPT ![d] = 1]
  /\ UNCHANGED <<outcome, guards, breaker, current, seen>>

GateDeny(d) ==
  /\ pc[d] = "gate"
  /\ tokens = 0
  /\ Finish(d, "rate_limited")
  /\ LogFinal(d, "suppressed")
  /\ UNCHANGED <<attempt, guards, tokens, breaker, current, failedRows,
                 delivered>>

Refill ==
  /\ tokens < Burst
  /\ tokens' = tokens + 1
  /\ UNCHANGED <<progress, guards, breaker, current, seen>>

\* ctx.Err() at the top of the loop, or ctx.Done() during the backoff.
GiveUpCancelled(d) ==
  /\ pc[d] \in {"ready", "backoff"}
  /\ cancelled
  /\ Finish(d, "cancelled")
  /\ UNCHANGED <<attempt, guards, tokens, breaker, current, seen>>

\* Mutant: the breaker is not asked.
AttemptStartsUnasked(d) ==
  /\ pc[d] = "ready"
  /\ ~cancelled
  /\ registered
  /\ beforeRequest(d)
  /\ pc' = [pc EXCEPT ![d] = "sending"]
  /\ UNCHANGED <<attempt, outcome, guards, tokens, failedRows, finalRow,
                 delivered>>

AttemptStarts(d) ==
  /\ pc[d] = "ready"
  /\ ~cancelled
  /\ registered
  /\ Admits
  /\ beforeRequest(d)
  /\ pc' = [pc EXCEPT ![d] = "sending"]
  /\ UNCHANGED <<attempt, outcome, guards, tokens, failedRows, finalRow,
                 delivered>>

\* Mutant: an attempt the breaker refuses is not counted.
AttemptRejectedUncounted(d) ==
  /\ pc[d] = "ready"
  /\ ~cancelled
  /\ registered
  /\ ~Admits
  /\ pc' = [pc EXCEPT ![d] = "backoff"]
  /\ attempt' = [attempt EXCEPT ![d] = @ - 1]
  /\ UNCHANGED <<outcome, guards, tokens, breaker, current, seen>>

\* ErrOpenState or ErrTooManyRequests: the backend is not called.
AttemptRejected(d) ==
  /\ pc[d] = "ready"
  /\ ~cancelled
  /\ registered
  /\ ~Admits
  /\ pc' = [pc EXCEPT ![d] = "errored"]
  /\ UNCHANGED <<attempt, outcome, guards, tokens, breaker, current,
                 failedRows, finalRow, delivered>>

SendSucceeds(d) ==
  /\ pc[d] = "sending"
  /\ afterSuccess(d)
  /\ Finish(d, "sent")
  /\ LogFinal(d, "sent")
  /\ delivered' = [delivered EXCEPT ![d] = @ + 1]
  /\ UNCHANGED <<attempt, guards, tokens, failedRows>>

SendFails(d) ==
  /\ pc[d] = "sending"
  /\ afterFailure(d)
  /\ pc' = [pc EXCEPT ![d] = "errored"]
  /\ UNCHANGED <<attempt, outcome, guards, tokens, seen>>

\* backend.Send panics: Execute counts a failure and panics again, and
\* safeSendToChannel recovers.  The delivery ends and has no row for the attempt.
SendPanics(d) ==
  /\ pc[d] = "sending"
  /\ afterFailure(d)
  /\ Finish(d, "panicked")
  /\ UNCHANGED <<attempt, guards, tokens, seen>>

\* cb.State() is open: suppressed, whatever the error was.
Suppress(d) ==
  /\ pc[d] = "errored"
  /\ breaker.state = "open"
  /\ Finish(d, "suppressed")
  /\ LogFinal(d, "suppressed")
  /\ UNCHANGED <<attempt, guards, tokens, breaker, current, failedRows,
                 delivered>>

\* Mutant: failures are not logged.
FailAttemptUnlogged(d) ==
  /\ IF attempt[d] >= maxAttempts
     THEN Finish(d, "exhausted")
     ELSE /\ pc' = [pc EXCEPT ![d] = "backoff"]
          /\ UNCHANGED outcome
  /\ UNCHANGED <<attempt, guards, tokens, breaker, current, failedRows, finalRow,
                 delivered>>

\* attemptFailed: log it, then give up or back off.
FailAttempt(d) ==
  /\ failedRows' = [failedRows EXCEPT ![d] = @ + 1]
  /\ IF attempt[d] >= maxAttempts
     THEN Finish(d, "exhausted")
     ELSE /\ pc' = [pc EXCEPT ![d] = "backoff"]
          /\ UNCHANGED outcome
  /\ UNCHANGED <<attempt, guards, tokens, breaker, current, finalRow, delivered>>

AttemptFailed(d) ==
  /\ pc[d] = "errored"
  /\ breaker.state # "open"
  /\ FailAttempt(d)

AttemptNoBackend(d) ==
  /\ pc[d] = "ready"
  /\ ~cancelled
  /\ ~registered
  /\ FailAttempt(d)

BackoffElapses(d) ==
  /\ pc[d] = "backoff"
  /\ pc' = [pc EXCEPT ![d] = "ready"]
  /\ attempt' = [attempt EXCEPT ![d] = @ + 1]
  /\ UNCHANGED <<outcome, guards, tokens, breaker, current, seen>>

\* Engine.Shutdown cancels the context.
Cancel ==
  /\ ~cancelled
  /\ cancelled' = TRUE
  /\ UNCHANGED <<progress, registered, tokens, breaker, current, seen>>

-----------------------------------------------------------------------------
Step(d) ==
  \/ GateAllow(d) \/ GateDeny(d)
  \/ GiveUpCancelled(d)
  \/ AttemptStarts(d) \/ AttemptRejected(d) \/ AttemptNoBackend(d)
  \/ SendSucceeds(d) \/ SendFails(d) \/ SendPanics(d)
  \/ Suppress(d) \/ AttemptFailed(d)
  \/ BackoffElapses(d)

Next ==
  \/ \E d \in Deliveries : Step(d)
  \/ BreakerTimeout \/ BreakerInterval \/ EvictBreaker
  \/ Refill
  \/ Cancel

Spec == Init /\ [][Next]_vars

\* Sends are bounded by SendTimeout and backoffs by their timers; the bucket,
\* the breaker's clock and Shutdown are left to chance.
FairSpec == Spec /\ \A d \in Deliveries : WF_vars(Step(d))

-----------------------------------------------------------------------------
(* Properties *)

\* The state of the deliveries, the bucket and the breaker keeps its types.
TypeOK ==
  /\ pc \in [Deliveries ->
               {"gate", "ready", "sending", "errored", "backoff", "done"}]
  /\ attempt \in [Deliveries -> 0..maxAttempts]
  /\ outcome \in [Deliveries -> {"none", "rate_limited", "sent", "suppressed",
                                 "exhausted", "cancelled", "panicked"}]
  /\ registered \in BOOLEAN
  /\ cancelled \in BOOLEAN
  /\ tokens \in 0..Burst
  /\ breaker \in [state : {"closed", "open", "half-open"},
                  failures : 0..TripAfter, requests : 0..MaxRequests,
                  successes : 0..MaxRequests]
  /\ current \subseteq Deliveries
  /\ failedRows \in [Deliveries -> 0..maxAttempts]
  /\ finalRow \in [Deliveries -> {"none", "sent", "suppressed"}]
  /\ delivered \in [Deliveries -> Nat]

\* "Every attempt is logged to notification_log": a delivery under way has
\* exactly the rows of its earlier attempts, all of which failed.
EveryAttemptLogged ==
  \A d \in Deliveries :
    /\ pc[d] \in {"ready", "sending", "errored"} => failedRows[d] = attempt[d] - 1
    /\ pc[d] = "backoff" => failedRows[d] = attempt[d]
    /\ pc[d] # "done" => finalRow[d] = "none"

\* How a delivery may end: sent exactly once; denied only before its first
\* attempt; exhausted only with all attempts logged as failed; suppressed with a
\* row that says so.  A shutdown or a panic of the backend ends it without a row
\* of its own: its earlier failures are logged, and nothing claims an outcome.
OutcomeExplained ==
  \A d \in Deliveries :
    /\ delivered[d] = IF outcome[d] = "sent" THEN 1 ELSE 0
    /\ outcome[d] = "none" <=> pc[d] # "done"
    /\ outcome[d] = "sent" => finalRow[d] = "sent"
    /\ outcome[d] = "rate_limited" => /\ attempt[d] = 0
                                      /\ finalRow[d] = "suppressed"
    /\ outcome[d] = "suppressed" => finalRow[d] = "suppressed"
    /\ outcome[d] = "exhausted" => failedRows[d] = maxAttempts
    /\ outcome[d] = "cancelled" => cancelled
    /\ outcome[d] = "panicked" => failedRows[d] = attempt[d] - 1
    /\ outcome[d] \in {"exhausted", "cancelled", "panicked"} => finalRow[d] = "none"

\* What a delivery left behind explains how it ended: the notification_log has
\* its failed attempts and its outcome, except for an attempt that panicked,
\* whatever the others do to the shared bucket and breaker.
AttemptsExplained == EveryAttemptLogged /\ OutcomeExplained

\* A half-open breaker never lets more than MaxRequests probes reach the
\* backend at a time, and an open one has no request of its own generation.
ProbesBounded ==
  /\ breaker.state = "half-open" =>
       Cardinality({d \in current : pc[d] = "sending"}) <= MaxRequests
  /\ breaker.state = "open" => current = {}

\* Every notification handed to a channel comes to an end, even if the
\* backend never recovers.
DeliveryEnds == \A d \in Deliveries : <>(pc[d] = "done")

=============================================================================
