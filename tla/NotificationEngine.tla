-------------------------- MODULE NotificationEngine --------------------------
(***************************************************************************)
(* The notification engine around the suppressor                           *)
(* (api/internal/notification/engine.go): events are matched against a     *)
(* cached copy of the rules, matches go to the suppressor, its flushes     *)
(* become jobs on the bounded queue dispatchCh, dispatch workers start one *)
(* delivery per enabled channel, and Shutdown takes it all down.           *)
(*                                                                         *)
(* The suppressor is an instance of Suppressor over the same variables;    *)
(* here its onFlush callback is spelled out.  What one delivery does is    *)
(* the subject of Delivery: here it is tried, and ends.                    *)
(***************************************************************************)
EXTENDS Integers, Sequences, FiniteSets

CONSTANTS
  Rules, Groups, maxFingerprintsPerRule, maxFingerprintsGlobal, MaxMatches,
  Channels,
  RuleRows,                 \* what the store may say of a rule
  DefaultWindows,           \* Config.DefaultSilence, -SilenceMax, -Coalesce
  Handlers,                 \* goroutines that call Handle*Event
  Workers,                  \* dispatch workers
  DispatchBuffer,
  MaxEdits                  \* bound: edits of rules and channels

\* Durations of a rule may be unset, the engine's defaults may not; at least one
\* worker is configured.  These are the defaults of config.go, which a
\* configuration may change unchecked.
ASSUME EngineAssumption ==
  /\ IsFiniteSet(Rules) /\ IsFiniteSet(Groups)
  /\ {maxFingerprintsPerRule, maxFingerprintsGlobal, MaxMatches} \subseteq Nat
  /\ DefaultWindows \in [silence : Nat \ {0}, silenceMax : Nat, coalesce : Nat]
  /\ \A row \in RuleRows :
       /\ row.channels \subseteq Channels
       /\ row.windows \in [silence : Int, silenceMax : Int, coalesce : Int]
  /\ Workers # {} /\ "refresh" \notin Workers

VARIABLES
  fingerprints, ruleFingerprintCount, stopped, armed, fired, inflight,
  stopReturned, offered, reported, refused, discarded,   \* the suppressor
  stored, edits,            \* rules and channels in the database
  cached,                   \* Engine.rules and Engine.channels
  loading,                  \* rules read by a refreshCache under way
  handling,                 \* matches an event's handler has yet to record
  within,                   \* the flush a handler's Record is busy with
  resolved,                 \* onFlush calls about to send on dispatchCh
  dispatchCh, closed,
  panicked,                 \* a send on the closed channel
  working,                  \* the deliveries a worker has yet to start
  deliveries, tried,        \* delivery goroutines; those that attempted a send
  loops,                    \* workers and the refresh loop, counted by wg
  cancelled,                \* the engine's context
  shutdown,                 \* how far Shutdown is
  \* Observation only.
  emitted, dropped, dispatched, concluded, untried

suppressorVars ==
  <<fingerprints, ruleFingerprintCount, stopped, armed, fired, inflight,
    stopReturned, offered, reported, refused, discarded>>
cacheVars    == <<stored, edits, cached, loading>>
handlerVars  == <<handling, within>>
queueVars    == <<resolved, dispatchCh, closed, panicked>>
deliveryVars == <<deliveries, tried>>
seen         == <<emitted, dropped, dispatched, concluded, untried>>
vars == <<suppressorVars, cacheVars, handlerVars, queueVars, working,
          deliveryVars, loops, cancelled, shutdown, seen>>

\* A rule's unset durations fall back to the engine's defaults.
windowsFor(w) ==
  [f \in {"silence", "silenceMax", "coalesce"} |->
     IF w[f] <= 0 THEN DefaultWindows[f] ELSE w[f]]

S == INSTANCE Suppressor
       WITH Windows <- {windowsFor(row.windows) : row \in RuleRows}

NoRules == [r \in Rules |-> [state |-> "absent", channels |-> {},
                             windows |-> DefaultWindows]]
Empty   == [rules |-> NoRules, channels |-> [c \in Channels |-> "absent"]]
NoLoad  == [r \in {} |-> 0]

\* Start has loaded the cache, or failed to.
Init ==
  /\ S!Init
  /\ stored \in [rules : [Rules -> RuleRows],
                 channels : [Channels -> {"enabled", "disabled"}]]
  /\ edits = 0
  /\ cached \in {stored, Empty}
  /\ loading = NoLoad
  /\ handling = [h \in Handlers |-> {}]
  /\ within = [h \in Handlers |-> {}]
  /\ resolved = {}
  /\ dispatchCh = <<>>
  /\ closed = FALSE
  /\ panicked = FALSE
  /\ working = [w \in Workers |-> {}]
  /\ deliveries = {}
  /\ tried = {}
  /\ loops = Workers \cup {"refresh"}
  /\ cancelled = FALSE
  /\ shutdown = "no"
  /\ emitted = {}
  /\ dropped = {}
  /\ dispatched = {}
  /\ concluded = {}
  /\ untried = {}

-----------------------------------------------------------------------------
(* The rule and channel cache *)

\* The notification API edits the store; the engine is not told.
Edit ==
  /\ edits < MaxEdits
  /\ edits' = edits + 1
  /\ \/ \E r \in Rules : \E row \in RuleRows \cup {NoRules[r]} :
          stored' = [stored EXCEPT !.rules[r] = row]
     \/ \E c \in Channels : \E s \in {"enabled", "disabled", "absent"} :
          stored' = [stored EXCEPT !.channels[c] = s]
  /\ stored' # stored
  /\ UNCHANGED <<suppressorVars, cached, loading, handlerVars, queueVars,
                 working, deliveryVars, loops, cancelled, shutdown, seen>>

\* refreshCache reads the rules, then the channels, then replaces both.
RefreshReadsRules ==
  /\ "refresh" \in loops
  /\ ~cancelled
  /\ loading = NoLoad
  /\ cached # stored
  /\ loading' = stored.rules
  /\ UNCHANGED <<suppressorVars, stored, edits, cached, handlerVars, queueVars,
                 working, deliveryVars, loops, cancelled, shutdown, seen>>

RefreshReadsChannels ==
  /\ loading # NoLoad
  /\ ~cancelled
  /\ cached' = [rules |-> loading, channels |-> stored.channels]
  /\ loading' = NoLoad
  /\ UNCHANGED <<suppressorVars, stored, edits, handlerVars, queueVars, working,
                 deliveryVars, loops, cancelled, shutdown, seen>>

\* The second query fails, or the context is gone: the old cache stays.
RefreshFails ==
  /\ loading # NoLoad
  /\ loading' = NoLoad
  /\ UNCHANGED <<suppressorVars, stored, edits, cached, handlerVars, queueVars,
                 working, deliveryVars, loops, cancelled, shutdown, seen>>

\* The loop ends with the context.
RefreshExits ==
  /\ "refresh" \in loops
  /\ cancelled
  /\ loading = NoLoad
  /\ loops' = loops \ {"refresh"}
  /\ UNCHANGED <<suppressorVars, cacheVars, handlerVars, queueVars, working,
                 deliveryVars, cancelled, shutdown, seen>>

-----------------------------------------------------------------------------
(* handleEvent and the suppressor *)

\* An event matches some enabled rules of the cache, each under one group key.
HandleEvent(h) ==
  /\ handling[h] = {}
  /\ within[h] \cap inflight = {}
  /\ \E matched \in SUBSET {r \in Rules : cached.rules[r].state = "enabled"} :
       \E g \in [matched -> Groups] :
         /\ matched # {}
         /\ handling' = [handling EXCEPT ![h] =
              {[key |-> <<r, g[r]>>, windows |-> cached.rules[r].windows] :
                 r \in matched}]
  /\ UNCHANGED <<suppressorVars, cacheVars, within, queueVars, working,
                 deliveryVars, loops, cancelled, shutdown, seen>>

\* Emit what a step of the suppressor started.
Emits == emitted' = emitted \cup inflight'

\* Record one match with the rule as it was in the cache.  An alert without a
\* coalesce window is flushed by the handler itself, which waits for onFlush.
RecordNext(h) ==
  /\ within[h] \cap inflight = {}
  /\ \E m \in handling[h] :
       /\ S!Record(m.key, windowsFor(m.windows))
       /\ handling' = [handling EXCEPT ![h] = @ \ {m}]
  /\ within' = [within EXCEPT ![h] = inflight' \ inflight]
  /\ Emits
  /\ UNCHANGED <<cacheVars, queueVars, working, deliveryVars, loops, cancelled,
                 shutdown, dropped, dispatched, concluded, untried>>

Timer(k) ==
  /\ S!TimerStep(k)
  /\ Emits
  /\ UNCHANGED <<cacheVars, handlerVars, queueVars, working, deliveryVars,
                 loops, cancelled, shutdown, dropped, dispatched, concluded,
                 untried>>

-----------------------------------------------------------------------------
(* onFlush *)

ruleOf(f) == cached.rules[S!RuleOf(f.key)]

\* The rule's channels that the cache knows, enabled or not.
resolveChannels(ids) == {c \in ids : cached.channels[c] # "absent"}

\* No rule or no channel: the flush is dropped with a warning.
FlushNoChannels(f) ==
  /\ f \in inflight
  /\ \A j \in resolved : j.flush # f
  /\ resolveChannels(ruleOf(f).channels) = {}
  /\ S!FlushReturns(f)
  /\ dropped' = dropped \cup {f}
  /\ UNCHANGED <<cacheVars, handlerVars, queueVars, working, deliveryVars,
                 loops, cancelled, shutdown, emitted, dispatched, concluded,
                 untried>>

FlushResolves(f) ==
  LET channels == resolveChannels(ruleOf(f).channels)
  IN  /\ f \in inflight
      /\ \A j \in resolved : j.flush # f
      /\ channels # {}
      /\ resolved' = resolved \cup
           {[flush |-> f,
             enabled |-> {c \in channels : cached.channels[c] = "enabled"}]}
      /\ UNCHANGED <<suppressorVars, cacheVars, handlerVars, dispatchCh, closed,
                     panicked, working, deliveryVars, loops, cancelled,
                     shutdown, seen>>

\* The select with a default: send, or drop when the queue is full.
FlushSends(j) ==
  /\ j \in resolved
  /\ resolved' = resolved \ {j}
  /\ S!FlushReturns(j.flush)
  /\ IF Len(dispatchCh) < DispatchBuffer \/ closed
     THEN dispatchCh' = Append(dispatchCh, j) /\ UNCHANGED dropped
     ELSE dropped' = dropped \cup {j.flush} /\ UNCHANGED dispatchCh
  /\ panicked' = closed
  /\ UNCHANGED <<cacheVars, handlerVars, closed, working, deliveryVars, loops,
                 cancelled, shutdown, emitted, dispatched, concluded, untried>>

-----------------------------------------------------------------------------
(* Dispatch workers and deliveries *)

\* Mutant: the job stays in the queue.
WorkerTakesKeeps(w) ==
  /\ w \in loops
  /\ working[w] = {}
  /\ dispatchCh # <<>>
  /\ dispatched' = dispatched \cup {Head(dispatchCh).flush}
  /\ UNCHANGED <<suppressorVars, cacheVars, handlerVars, queueVars, working,
                 deliveryVars, loops, cancelled, shutdown, emitted, dropped,
                 concluded, untried>>

WorkerTakes(w) ==
  /\ w \in loops
  /\ working[w] = {}
  /\ dispatchCh # <<>>
  /\ dispatchCh' = Tail(dispatchCh)
  /\ dispatched' = dispatched \cup {Head(dispatchCh).flush}
  /\ working' = [working EXCEPT ![w] =
                   {[flush |-> Head(dispatchCh).flush, channel |-> c] :
                      c \in Head(dispatchCh).enabled}]
  /\ UNCHANGED <<suppressorVars, cacheVars, handlerVars, resolved, closed,
                 panicked, deliveryVars, loops, cancelled, shutdown, emitted,
                 dropped, concluded, untried>>

\* wg.Go for the next enabled channel of the job.
WorkerStarts(w) ==
  /\ \E d \in working[w] :
       /\ deliveries' = deliveries \cup {d}
       /\ working' = [working EXCEPT ![w] = @ \ {d}]
  /\ UNCHANGED <<suppressorVars, cacheVars, handlerVars, queueVars, tried,
                 loops, cancelled, shutdown, seen>>

\* Mutant: a worker leaves without emptying the queue.
WorkerExitsEarly(w) ==
  /\ w \in loops
  /\ working[w] = {}
  /\ closed
  /\ loops' = loops \ {w}
  /\ UNCHANGED <<suppressorVars, cacheVars, handlerVars, queueVars, working,
                 deliveryVars, cancelled, shutdown, seen>>

\* The range over dispatchCh ends when it is closed and empty.
WorkerExits(w) ==
  /\ w \in loops
  /\ working[w] = {}
  /\ closed
  /\ dispatchCh = <<>>
  /\ loops' = loops \ {w}
  /\ UNCHANGED <<suppressorVars, cacheVars, handlerVars, queueVars, working,
                 deliveryVars, cancelled, shutdown, seen>>

\* sendWithRetry looks at the context before its first attempt.
DeliveryTries(d) ==
  /\ d \in deliveries \ tried
  /\ ~cancelled
  /\ tried' = tried \cup {d}
  /\ UNCHANGED <<suppressorVars, cacheVars, handlerVars, queueVars, working,
                 deliveries, loops, cancelled, shutdown, seen>>

\* It ends after a first attempt, when the rate limiter says no, or at once
\* when the context is gone.
DeliveryEnds(d) ==
  /\ d \in deliveries
  /\ deliveries' = deliveries \ {d}
  /\ tried' = tried \ {d}
  /\ \/ concluded' = concluded \cup {d} /\ UNCHANGED untried
     \/ /\ d \notin tried
        /\ cancelled
        /\ untried' = untried \cup {d}
        /\ UNCHANGED concluded
  /\ UNCHANGED <<suppressorVars, cacheVars, handlerVars, queueVars, working,
                 loops, cancelled, shutdown, emitted, dropped, dispatched>>

-----------------------------------------------------------------------------
(* Shutdown *)

\* serve cancels the context the engine was started with on a signal.
ContextCancelled ==
  /\ ~cancelled
  /\ cancelled' = TRUE
  /\ UNCHANGED <<suppressorVars, cacheVars, handlerVars, queueVars, working,
                 deliveryVars, loops, shutdown, seen>>

ShutdownStep(from, to) == shutdown = from /\ shutdown' = to

ShutdownStops ==
  /\ ShutdownStep("no", "stopping")
  /\ S!Stop
  /\ UNCHANGED <<cacheVars, handlerVars, queueVars, working, deliveryVars,
                 loops, cancelled, seen>>

\* Mutant: Stop does not wait for the flushes under way.
ShutdownStoppedEarly ==
  /\ ShutdownStep("stopping", "stopped")
  /\ stopReturned' = TRUE
  /\ UNCHANGED <<fingerprints, ruleFingerprintCount, stopped, armed, fired,
                 inflight, offered, reported, refused, discarded>>
  /\ UNCHANGED <<cacheVars, handlerVars, queueVars, working, deliveryVars,
                 loops, cancelled, seen>>

ShutdownStopped ==
  /\ ShutdownStep("stopping", "stopped")
  /\ S!StopReturns
  /\ UNCHANGED <<cacheVars, handlerVars, queueVars, working, deliveryVars,
                 loops, cancelled, seen>>

ShutdownCancels ==
  /\ ShutdownStep("stopped", "cancelled")
  /\ cancelled' = TRUE
  /\ UNCHANGED <<suppressorVars, cacheVars, handlerVars, queueVars, working,
                 deliveryVars, loops, seen>>

\* Mutant: dispatchCh is closed while Stop waits.
ShutdownClosesFirst ==
  /\ ShutdownStep("stopping", "waiting")
  /\ closed' = TRUE
  /\ UNCHANGED <<suppressorVars, cacheVars, handlerVars, resolved, dispatchCh,
                 panicked, working, deliveryVars, loops, cancelled, seen>>

ShutdownCloses ==
  /\ ShutdownStep("cancelled", "waiting")
  /\ closed' = TRUE
  /\ UNCHANGED <<suppressorVars, cacheVars, handlerVars, resolved, dispatchCh,
                 panicked, working, deliveryVars, loops, cancelled, seen>>

\* wg.Wait() returns.
ShutdownDone ==
  /\ ShutdownStep("waiting", "done")
  /\ loops = {}
  /\ deliveries = {}
  /\ UNCHANGED <<suppressorVars, cacheVars, handlerVars, queueVars, working,
                 deliveryVars, loops, cancelled, seen>>

\* The caller's deadline passes first.
ShutdownTimesOut ==
  /\ ShutdownStep("waiting", "timed out")
  /\ UNCHANGED <<suppressorVars, cacheVars, handlerVars, queueVars, working,
                 deliveryVars, loops, cancelled, seen>>

-----------------------------------------------------------------------------
Refresh == RefreshReadsRules \/ RefreshReadsChannels \/ RefreshFails
             \/ RefreshExits
OnFlush == \/ \E f \in inflight : FlushNoChannels(f) \/ FlushResolves(f)
           \/ \E j \in resolved : FlushSends(j)
Worker(w) == WorkerTakes(w) \/ WorkerStarts(w) \/ WorkerExits(w)
Shutdown == \/ ShutdownStops \/ ShutdownStopped \/ ShutdownCancels
            \/ ShutdownCloses \/ ShutdownDone \/ ShutdownTimesOut

Next ==
  \/ Edit
  \/ Refresh
  \/ \E h \in Handlers : HandleEvent(h) \/ RecordNext(h)
  \/ \E k \in S!Keys : Timer(k)
  \/ OnFlush
  \/ \E w \in Workers : Worker(w)
  \/ \E d \in deliveries : DeliveryTries(d) \/ DeliveryEnds(d)
  \/ ContextCancelled
  \/ Shutdown

Spec == Init /\ [][Next]_vars

\* Goroutines run; a send is bounded by SendTimeout and a backoff by its timer
\* or the context; a refresh that is repeated does not fail for ever.  Events,
\* edits, signals, the call of Shutdown and its deadline are left to chance.
Fairness ==
  /\ WF_vars(RefreshReadsRules)
  /\ SF_vars(RefreshReadsChannels)
  /\ WF_vars(RefreshFails \/ RefreshExits)
  /\ WF_vars(OnFlush)
  /\ \A w \in Workers : WF_vars(Worker(w))
  /\ WF_vars(\E d \in deliveries : DeliveryEnds(d))
  /\ WF_vars(ShutdownStopped \/ ShutdownCancels \/ ShutdownCloses \/ ShutdownDone)

FairSpec == Spec /\ Fairness

-----------------------------------------------------------------------------
(* Properties *)

\* Shutdown closes dispatchCh only when no onFlush is left to send on it: a
\* send on a closed channel would take the whole server down.
NoSendOnClosed ==
  /\ ~panicked
  /\ closed => inflight = {} /\ resolved = {}

\* The flushes waiting in the queue.
Queued == {dispatchCh[i].flush : i \in 1..Len(dispatchCh)}

\* A flush is in exactly one place: still in onFlush, dropped, queued, or
\* handed to a worker; none is queued twice and none vanishes.
FlushInOnePlace ==
  /\ emitted = inflight \cup dropped \cup Queued \cup dispatched
  /\ Cardinality(emitted) = Cardinality(inflight) + Cardinality(dropped)
                              + Len(dispatchCh) + Cardinality(dispatched)
  /\ {j.flush : j \in resolved} \subseteq inflight

Unstarted == UNION {working[w] : w \in Workers}

\* A channel is notified of a flush by one delivery only, however the workers
\* share the queue.
OneDeliveryPerChannel ==
  /\ Unstarted \cap (deliveries \cup concluded \cup untried) = {}
  /\ deliveries \cap (concluded \cup untried) = {}
  /\ concluded \cap untried = {}

\* When Shutdown returns without a timeout nothing of the engine runs and
\* every flush was dropped with a warning or handed to its deliveries.
CleanAfterShutdown ==
  shutdown = "done" =>
    /\ dispatchCh = <<>> /\ resolved = {} /\ Unstarted = {}
    /\ deliveries = {}
    /\ emitted = dropped \cup dispatched

\* A flush goes one way, to one delivery per channel of its rule.
FlushesDeliveredOnce == FlushInOnePlace /\ OneDeliveryPerChannel

\* Shutdown neither panics the server nor leaves work behind: dispatchCh is
\* closed after its last sender, and a Shutdown that was not cut short by its
\* timeout has waited for everything.
ShutdownIsClean == NoSendOnClosed /\ CleanAfterShutdown

\* The engine uses the suppressor as its specification allows.
SuppressorSpec == S!Spec

\* Every flush leaves onFlush, and every queued job reaches a worker.
FlushesAreHandled ==
  \A k \in S!Keys :
    (\E f \in emitted : f.key = k /\ f \notin dropped \cup dispatched)
      ~> (\A f \in emitted : f.key = k => f \in dropped \cup dispatched)

\* Shutdown comes to an end, with deliveries in backoff as without.
ShutdownEnds == shutdown = "stopping" ~> shutdown \in {"done", "timed out"}

\* Edits reach the cache, unless the engine is being stopped.
EditsTakeEffect == []<>(cached = stored \/ cancelled)

\* The engine gets on: flushes are handled, edits take effect, Shutdown ends.
EngineProgress == FlushesAreHandled /\ ShutdownEnds /\ EditsTakeEffect
=============================================================================
