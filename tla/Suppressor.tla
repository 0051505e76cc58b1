------------------------------ MODULE Suppressor ------------------------------
(***************************************************************************)
(* The notification suppressor (api/internal/notification/suppressor.go).  *)
(*                                                                         *)
(* Every match of a rule is recorded under a fingerprint, the pair of the  *)
(* rule and a group key.  A clean fingerprint alerts at once, or at the    *)
(* end of a coalesce window; while it is silenced, matches are counted;    *)
(* at the end of a silence window the count becomes one digest, or, if it  *)
(* is zero, the fingerprint is closed.                                     *)
(*                                                                         *)
(* Each action is one critical section of Suppressor.mu.  What happens     *)
(* outside the lock is kept apart: a timer that has fired but whose        *)
(* callback still waits for mu (fired), and a flush that was decided under *)
(* the lock but whose onFlush call has not returned (inflight).            *)
(***************************************************************************)
EXTENDS Integers, FiniteSets

CONSTANTS
  Rules,                    \* rule ids
  Groups,                   \* group keys
  Windows,                  \* the window settings a rule may be evaluated with
  maxFingerprintsPerRule,
  maxFingerprintsGlobal,
  MaxMatches                \* bound: matches offered per fingerprint

\* The caller passes windows as time.Duration: silence > 0, the rest >= 0.
ASSUME ConstantsAssumption ==
  /\ IsFiniteSet(Rules)
  /\ IsFiniteSet(Groups)
  /\ Windows \subseteq [silence : Nat \ {0}, silenceMax : Nat, coalesce : Nat]
  /\ maxFingerprintsPerRule \in Nat
  /\ maxFingerprintsGlobal \in Nat
  /\ MaxMatches \in Nat

VARIABLES
  fingerprints,             \* the map, total: a key that is absent is "clean"
  ruleFingerprintCount,
  stopped,
  armed,                    \* timers that run: <<key, callback>>
  fired,                    \* timer callbacks that wait for mu
  inflight,                 \* onFlush calls counted by inflightWg
  stopReturned,             \* Stop() has returned
  \* Observation only: what became of the matches of each key.
  offered,                  \* matches passed to Record
  reported,                 \* the sum of the EventCounts flushed
  refused,                  \* turned away by a cap or after Stop
  discarded                 \* counted, then thrown away by Stop

mapVars   == <<fingerprints, ruleFingerprintCount>>
timerVars == <<armed, fired>>
tally     == <<offered, reported, refused, discarded>>
vars      == <<mapVars, stopped, timerVars, inflight, stopReturned, tally>>

Keys      == Rules \X Groups
RuleOf(k) == k[1]

\* type fingerprint struct; a payload is the number of the match it came from.
Clean == [phase |-> "clean", first |-> 0, last |-> 0, count |-> 0,
          currentSilence |-> 0, baseSilence |-> 0, maxSilence |-> 0]

Fingerprint ==
  [phase : {"clean", "coalesce", "silence"}, first : Nat, last : Nat,
   count : Nat, currentSilence : Nat, baseSilence : Nat, maxSilence : Nat]

\* A payload handed to onFlush. upto (observation) is the last match so far.
Flush ==
  [key : Keys, digest : BOOLEAN, count : Nat, event : Nat, window : Nat,
   upto : Nat]

Live       == {k \in Keys : fingerprints[k].phase # "clean"}
LiveOf(r)  == {k \in Live : RuleOf(k) = r}

Init ==
  /\ fingerprints = [k \in Keys |-> Clean]
  /\ ruleFingerprintCount = [r \in Rules |-> 0]
  /\ stopped = FALSE
  /\ armed = {}
  /\ fired = {}
  /\ inflight = {}
  /\ stopReturned = FALSE
  /\ offered = [k \in Keys |-> 0]
  /\ reported = [k \in Keys |-> 0]
  /\ refused = [k \in Keys |-> 0]
  /\ discarded = [k \in Keys |-> 0]

-----------------------------------------------------------------------------
(* Record *)

\* The flush decided under the lock: inflightWg.Add(1) before mu.Unlock().
StartFlush(k, digest, count, event, window) ==
  /\ inflight' = inflight \cup
       {[key |-> k, digest |-> digest, count |-> count, event |-> event,
         window |-> window, upto |-> offered'[k]]}
  /\ reported' = [reported EXCEPT ![k] = @ + count]

Offer(k) ==
  /\ offered[k] < MaxMatches
  /\ offered' = [offered EXCEPT ![k] = @ + 1]

Refuse(k) ==
  /\ refused' = [refused EXCEPT ![k] = @ + 1]
  /\ UNCHANGED <<mapVars, stopped, timerVars, inflight, stopReturned,
                 reported, discarded>>

RecordStopped(k) ==
  /\ Offer(k)
  /\ stopped
  /\ Refuse(k)

\* Already tracking this fingerprint: just accumulate.
RecordTracked(k) ==
  /\ Offer(k)
  /\ ~stopped
  /\ k \in Live
  /\ fingerprints' = [fingerprints EXCEPT
                        ![k] = [@ EXCEPT !.count = fingerprints[k].count + 1,
                                         !.last = offered'[k]]]
  /\ UNCHANGED <<ruleFingerprintCount, stopped, timerVars, inflight,
                 stopReturned, reported, refused, discarded>>

AtCap(r) ==
  \/ ruleFingerprintCount[r] >= maxFingerprintsPerRule
  \/ Cardinality(Live) >= maxFingerprintsGlobal

RecordCapped(k) ==
  /\ Offer(k)
  /\ ~stopped
  /\ k \notin Live
  /\ AtCap(RuleOf(k))
  /\ Refuse(k)

Install(k, fp) ==
  /\ fingerprints' = [fingerprints EXCEPT ![k] = fp]
  /\ ruleFingerprintCount' = [ruleFingerprintCount EXCEPT ![RuleOf(k)] = @ + 1]

NewFingerprint(k, w) ==
  [Clean EXCEPT !.last = offered'[k], !.count = 1, !.baseSilence = w.silence,
                !.currentSilence = w.silence, !.maxSilence = w.silenceMax]

\* coalesce > 0: hold the first alert back until the window closes.
RecordCoalesce(k, w) ==
  /\ Offer(k)
  /\ ~stopped
  /\ k \notin Live
  /\ ~AtCap(RuleOf(k))
  /\ w.coalesce > 0
  /\ Install(k, [NewFingerprint(k, w) EXCEPT !.phase = "coalesce",
                                             !.first = offered'[k]])
  /\ armed' = armed \cup {<<k, "flushInitial">>}
  /\ UNCHANGED <<stopped, fired, inflight, stopReturned, reported, refused,
                 discarded>>

\* Mutant: Record does not look at stopped.
RecordImmediateAnyway(k, w) ==
  /\ Offer(k)
  /\ k \notin Live
  /\ ~AtCap(RuleOf(k))
  /\ w.coalesce = 0
  /\ Install(k, [NewFingerprint(k, w) EXCEPT !.phase = "silence", !.count = 0])
  /\ armed' = armed \cup {<<k, "flushSilence">>}
  /\ StartFlush(k, FALSE, 1, offered'[k], 0)
  /\ UNCHANGED <<stopped, fired, stopReturned, refused, discarded>>

\* coalesce = 0: install in the silence phase and alert at once.
RecordImmediate(k, w) ==
  /\ Offer(k)
  /\ ~stopped
  /\ k \notin Live
  /\ ~AtCap(RuleOf(k))
  /\ w.coalesce = 0
  /\ Install(k, [NewFingerprint(k, w) EXCEPT !.phase = "silence", !.count = 0])
  /\ armed' = armed \cup {<<k, "flushSilence">>}
  /\ StartFlush(k, FALSE, 1, offered'[k], 0)
  /\ UNCHANGED <<stopped, fired, stopReturned, refused, discarded>>

Record(k, w) ==
  \/ RecordStopped(k)
  \/ RecordTracked(k)
  \/ RecordCapped(k)
  \/ RecordCoalesce(k, w)
  \/ RecordImmediate(k, w)

-----------------------------------------------------------------------------
(* Timers and their callbacks *)

\* The runtime starts the callback's goroutine: Timer.Stop is too late now.
TimerFires(k, f) ==
  /\ <<k, f>> \in armed
  /\ armed' = armed \ {<<k, f>>}
  /\ fired' = fired \cup {<<k, f>>}
  /\ UNCHANGED <<mapVars, stopped, inflight, stopReturned, tally>>

Callback(k, f) ==
  /\ <<k, f>> \in fired
  /\ fired' = fired \ {<<k, f>>}

\* Both callbacks return at once when stopped or when the key is gone.
CallbackTooLate(k, f) ==
  /\ Callback(k, f)
  /\ stopped \/ k \notin Live
  /\ UNCHANGED <<mapVars, stopped, armed, inflight, stopReturned, tally>>

\* Mutants: the count is not reset; the silence timer is not started.
flushInitialAs(k, count, timers) ==
  /\ Callback(k, "flushInitial")
  /\ ~stopped
  /\ k \in Live
  /\ UNCHANGED <<ruleFingerprintCount, stopped, stopReturned, offered, refused,
                 discarded>>
  /\ fingerprints' = [fingerprints EXCEPT
                        ![k] = [@ EXCEPT !.phase = "silence", !.first = 0,
                                         !.count = count]]
  /\ armed' = armed \cup timers
  /\ StartFlush(k, FALSE, fingerprints[k].count, fingerprints[k].first, 0)
flushInitialNoReset(k) ==
  flushInitialAs(k, fingerprints[k].count, {<<k, "flushSilence">>})
flushInitialNoTimer(k) == flushInitialAs(k, 0, {})

flushInitial(k) ==
  /\ Callback(k, "flushInitial")
  /\ ~stopped
  /\ k \in Live
  /\ UNCHANGED <<ruleFingerprintCount, stopped, stopReturned, offered, refused,
                 discarded>>
  /\ fingerprints' = [fingerprints EXCEPT
                        ![k] = [@ EXCEPT !.phase = "silence", !.first = 0,
                                         !.count = 0]]
  /\ armed' = armed \cup {<<k, "flushSilence">>}
  /\ StartFlush(k, FALSE, fingerprints[k].count, fingerprints[k].first, 0)

\* Linear bump of the silence window, capped at maxSilence.
NextSilence(fp) ==
  LET next == fp.currentSilence + fp.baseSilence
  IN  IF fp.maxSilence > 0 /\ next > fp.maxSilence THEN fp.maxSilence ELSE next

\* Mutant: the rule keeps the closed fingerprint's slot.
flushSilenceCloseLeaks(k) ==
  /\ Callback(k, "flushSilence")
  /\ ~stopped
  /\ k \in Live
  /\ fingerprints[k].count = 0
  /\ fingerprints' = [fingerprints EXCEPT ![k] = Clean]
  /\ UNCHANGED <<ruleFingerprintCount, stopped, armed, inflight, stopReturned, tally>>

\* A fully quiet window closes the fingerprint.
flushSilenceClose(k) ==
  /\ Callback(k, "flushSilence")
  /\ ~stopped
  /\ k \in Live
  /\ fingerprints[k].count = 0
  /\ fingerprints' = [fingerprints EXCEPT ![k] = Clean]
  /\ ruleFingerprintCount' =
       [ruleFingerprintCount EXCEPT ![RuleOf(k)] = IF @ > 0 THEN @ - 1 ELSE @]
  /\ UNCHANGED <<stopped, armed, inflight, stopReturned, tally>>

\* A digest of the window's matches, and a longer window.
flushSilenceDigest(k) ==
  /\ Callback(k, "flushSilence")
  /\ ~stopped
  /\ k \in Live
  /\ fingerprints[k].count > 0
  /\ UNCHANGED <<ruleFingerprintCount, stopped, stopReturned, offered, refused,
                 discarded>>
  /\ fingerprints' = [fingerprints EXCEPT
                        ![k] = [@ EXCEPT !.currentSilence = NextSilence(fingerprints[k]),
                                         !.count = 0]]
  /\ armed' = armed \cup {<<k, "flushSilence">>}
  /\ StartFlush(k, TRUE, fingerprints[k].count, fingerprints[k].last,
                fingerprints[k].currentSilence)

\* onFlush returns and the deferred inflightWg.Done() runs.
FlushReturns(f) ==
  /\ f \in inflight
  /\ inflight' = inflight \ {f}
  /\ UNCHANGED <<mapVars, stopped, timerVars, stopReturned, tally>>

-----------------------------------------------------------------------------
(* Stop *)

\* The critical section: set stopped, stop the timers, empty the maps.
Stop ==
  /\ ~stopped
  /\ stopped' = TRUE
  /\ armed' = {}
  /\ fingerprints' = [k \in Keys |-> Clean]
  /\ ruleFingerprintCount' = [r \in Rules |-> 0]
  /\ discarded' = [k \in Keys |-> discarded[k] + fingerprints[k].count]
  /\ UNCHANGED <<fired, inflight, stopReturned, offered, reported, refused>>

\* inflightWg.Wait() lets Stop return.
StopReturns ==
  /\ stopped
  /\ ~stopReturned
  /\ inflight = {}
  /\ stopReturned' = TRUE
  /\ UNCHANGED <<mapVars, stopped, timerVars, inflight, tally>>

-----------------------------------------------------------------------------
TimerStep(k) ==
  \/ \E f \in {"flushInitial", "flushSilence"} :
       TimerFires(k, f) \/ CallbackTooLate(k, f)
  \/ flushInitial(k)
  \/ flushSilenceClose(k)
  \/ flushSilenceDigest(k)

Next ==
  \/ \E k \in Keys : \E w \in Windows : Record(k, w)
  \/ \E k \in Keys : TimerStep(k)
  \/ \E f \in inflight : FlushReturns(f)
  \/ Stop
  \/ StopReturns

Spec == Init /\ [][Next]_vars

\* Timers fire, callbacks get the lock and flushes return; matches may cease
\* and Stop may never be called.
Fairness ==
  /\ \A k \in Keys : WF_vars(TimerStep(k))
  /\ WF_vars(\E f \in inflight : FlushReturns(f))
  /\ WF_vars(StopReturns)

FairSpec == Spec /\ Fairness

-----------------------------------------------------------------------------
(* Properties *)

\* The state stays within the types of struct Suppressor.
TypeOK ==
  /\ fingerprints \in [Keys -> Fingerprint]
  /\ ruleFingerprintCount \in [Rules -> Nat]
  /\ stopped \in BOOLEAN
  /\ armed \subseteq Keys \X {"flushInitial", "flushSilence"}
  /\ fired \subseteq Keys \X {"flushInitial", "flushSilence"}
  /\ inflight \subseteq Flush
  /\ stopReturned \in BOOLEAN
  /\ offered \in [Keys -> Nat]
  /\ reported \in [Keys -> Nat]
  /\ refused \in [Keys -> Nat]
  /\ discarded \in [Keys -> Nat]

\* No match is lost or counted twice: each one offered to Record is in exactly
\* one alert or digest, or still pending, or refused, or discarded by Stop.
EveryMatchAccountedFor ==
  \A k \in Keys :
    offered[k] = reported[k] + fingerprints[k].count + refused[k] + discarded[k]

\* ruleFingerprintCount, kept by hand beside the map, never drifts from it,
\* so neither cap can be exceeded nor block a rule that has room.
CountsMatchMap ==
  /\ \A r \in Rules :
       /\ ruleFingerprintCount[r] = Cardinality(LiveOf(r))
       /\ Cardinality(LiveOf(r)) <= maxFingerprintsPerRule
  /\ Cardinality(Live) <= maxFingerprintsGlobal

\* A tracked fingerprint has exactly one timer or waiting callback, the one
\* its phase needs; an untracked one has none, except a callback that Stop
\* came too late to cancel.
Pending(k)    == {f \in {"flushInitial", "flushSilence"} :
                    <<k, f>> \in armed \cup fired}
CallbackOf(k) == IF fingerprints[k].phase = "coalesce" THEN "flushInitial"
                                                       ELSE "flushSilence"
OneTimerPerFingerprint ==
  /\ armed \cap fired = {}
  /\ \A k \in Live : Pending(k) = {CallbackOf(k)}
  /\ ~stopped => \A k \in Keys \ Live : Pending(k) = {}
  /\ stopped => armed = {} /\ Live = {}

\* What is sent describes what was counted: never an empty notification, an
\* alert shows the first match it counts, a digest the last one.
FlushDescribesItsMatches ==
  \A f \in inflight :
    /\ f.count > 0
    /\ f.event = IF f.digest THEN f.upto ELSE f.upto - f.count + 1
    /\ f.digest <=> f.window > 0

\* Every match is reported once, by a notification that describes it: however
\* Record, the timers and Stop interleave, the counts of the alerts and digests
\* add up to the matches and the event each shows is one of those it counts.
MatchesReported == EveryMatchAccountedFor /\ FlushDescribesItsMatches

\* The map, the counters and the timers of the suppressor agree: its caps hold
\* and no fingerprint is left without the callback that will close it.
TrackingConsistent == CountsMatchMap /\ OneTimerPerFingerprint

\* What the properties above rest on: while a fingerprint is tracked it has
\* accepted every match offered, a coalesce window is never empty, and no
\* window has length zero; an untracked one keeps nothing.
ShapeOf(k) ==
  IF k \in Live
  THEN /\ fingerprints[k].last = offered[k]
       /\ fingerprints[k].baseSilence > 0
       /\ fingerprints[k].currentSilence > 0
       /\ fingerprints[k].phase = "coalesce" =>
            /\ fingerprints[k].count > 0
            /\ fingerprints[k].first = offered[k] - fingerprints[k].count + 1
  ELSE fingerprints[k] = Clean
FingerprintShape == \A k \in Keys : ShapeOf(k)

\* Once Stop has returned no onFlush call is running, so Engine.Shutdown may
\* close dispatchCh after it.
NoFlushAfterStop == stopReturned => stopped /\ inflight = {}

\* What was begun ends: when matches cease (MaxMatches bounds them), every
\* counted match is flushed or discarded and every fingerprint closes, so that
\* the next match alerts again; and Stop does not wait for ever.
SuppressionEnds ==
  /\ <>[](Live = {} /\ \A k \in Keys : fingerprints[k].count = 0)
  /\ stopped ~> stopReturned

\* The window only grows while a fingerprint keeps firing digests.  Nothing
\* checks that silence <= silence_max (windowsFor may mix a rule's silence with
\* the default maximum): where it is not, the first digest, and no later one,
\* cuts the window to the maximum.
Lengthens(fp, next) ==
  \/ next >= fp.currentSilence
  \/ fp.currentSilence = fp.baseSilence /\ next = fp.maxSilence /\ fp.maxSilence > 0
SilenceOnlyGrows ==
  [][\A k \in Keys :
       fingerprints[k].phase = "silence" /\ fingerprints'[k].phase = "silence"
         => Lengthens(fingerprints[k], fingerprints'[k].currentSilence)]_vars
=============================================================================
