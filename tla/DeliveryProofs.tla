---------------------------- MODULE DeliveryProofs ----------------------------
(***************************************************************************)
(* Proofs about the delivery of notifications to a channel, for any number *)
(* of concurrent deliveries and any retry schedule, bucket and breaker.    *)
(***************************************************************************)
EXTENDS Delivery, FiniteSetTheorems, TLAPS

Breakers == [state : {"closed", "open", "half-open"}, failures : 0..TripAfter,
             requests : 0..MaxRequests, successes : 0..MaxRequests]

\* Together with TypeOK and EveryAttemptLogged this is inductive: the loop of
\* sendWithRetry runs with 1 <= attempt <= maxAttempts.
LoopBounds ==
  \A d \in Deliveries :
    /\ pc[d] = "gate" => attempt[d] = 0 /\ failedRows[d] = 0
    /\ pc[d] \in {"ready", "sending", "errored", "backoff"} => attempt[d] > 0
    /\ pc[d] = "backoff" => attempt[d] < maxAttempts

LoopInv == TypeOK /\ EveryAttemptLogged /\ LoopBounds

\* A new generation of the breaker is a breaker.
LEMMA FreshType ==
  ASSUME NEW s \in {"closed", "open", "half-open"}
  PROVE  Fresh(s) \in Breakers
  BY DeliveryAssumption DEF Fresh, Closed, Breakers

\* The library's bookkeeping keeps the breaker's counts within its settings.
LEMMA BreakerTypes ==
  ASSUME TypeOK, NEW d \in Deliveries,
         (Admits /\ beforeRequest(d)) \/ afterFailure(d) \/ afterSuccess(d)
  PROVE  breaker' \in Breakers /\ current' \subseteq Deliveries
<1>1. breaker \in Breakers /\ current \subseteq Deliveries
  BY DEF TypeOK, Breakers
<1>2. CASE Admits /\ beforeRequest(d)
  BY <1>1, <1>2, DeliveryAssumption DEF Admits, beforeRequest, Breakers
<1>3. CASE afterFailure(d)
  BY <1>1, <1>3, FreshType, DeliveryAssumption
     DEF afterFailure, NewGeneration, Breakers
<1>4. CASE afterSuccess(d)
  BY <1>1, <1>4, FreshType, DeliveryAssumption
     DEF afterSuccess, NewGeneration, Breakers
<1> QED
  BY <1>2, <1>3, <1>4

\* Every attempt is logged, and no delivery attempts more than
\* len(retrySchedule) + 1 times, whatever the breaker, the limiter and the
\* other deliveries do.
THEOREM LoopCorrect == Spec => []LoopInv
<1> USE DEF maxAttempts
<1>1. Init => LoopInv
  <2> SUFFICES ASSUME Init PROVE LoopInv
    OBVIOUS
  <2>1. breaker \in Breakers
    BY DeliveryAssumption DEF Init, Closed, Breakers
  <2>2. tokens \in 0..Burst /\ 0 \in 0..maxAttempts
    BY DeliveryAssumption DEF Init
  <2>3. TypeOK
    BY <2>1, <2>2 DEF Init, TypeOK, Breakers
  <2> QED
    BY <2>3 DEF Init, LoopInv, EveryAttemptLogged, LoopBounds
<1>2. LoopInv /\ [Next]_vars => LoopInv'
  <2> SUFFICES ASSUME LoopInv, [Next]_vars PROVE LoopInv'
    OBVIOUS
  <2>0. TypeOK /\ maxAttempts \in Nat
    BY DeliveryAssumption DEF LoopInv
  <2> USE <2>0 DEF LoopInv, TypeOK, EveryAttemptLogged, LoopBounds, progress,
                guards, seen
  <2>1. ASSUME NEW d \in Deliveries, GateAllow(d) PROVE LoopInv'
    BY <2>1, DeliveryAssumption DEF GateAllow
  <2>2. ASSUME NEW d \in Deliveries, GateDeny(d) PROVE LoopInv'
    BY <2>2 DEF GateDeny, Finish, LogFinal
  <2>3. ASSUME NEW d \in Deliveries, GiveUpCancelled(d) PROVE LoopInv'
    BY <2>3 DEF GiveUpCancelled, Finish
  <2>4. ASSUME NEW d \in Deliveries, AttemptStarts(d) PROVE LoopInv'
    <3>1. breaker' \in Breakers /\ current' \subseteq Deliveries
      BY <2>4, BreakerTypes DEF AttemptStarts
    <3> QED
      BY <2>4, <3>1 DEF AttemptStarts, Breakers
  <2>5. ASSUME NEW d \in Deliveries, AttemptRejected(d) PROVE LoopInv'
    BY <2>5 DEF AttemptRejected
  <2>6. ASSUME NEW d \in Deliveries, SendSucceeds(d) PROVE LoopInv'
    <3>1. breaker' \in Breakers /\ current' \subseteq Deliveries
      BY <2>6, BreakerTypes DEF SendSucceeds
    <3> QED
      BY <2>6, <3>1 DEF SendSucceeds, Finish, LogFinal, Breakers
  <2>7. ASSUME NEW d \in Deliveries, SendFails(d) PROVE LoopInv'
    <3>1. breaker' \in Breakers /\ current' \subseteq Deliveries
      BY <2>7, BreakerTypes DEF SendFails
    <3> QED
      BY <2>7, <3>1 DEF SendFails, Breakers
  <2>16. ASSUME NEW d \in Deliveries, SendPanics(d) PROVE LoopInv'
    <3>1. breaker' \in Breakers /\ current' \subseteq Deliveries
      BY <2>16, BreakerTypes DEF SendPanics
    <3> QED
      BY <2>16, <3>1 DEF SendPanics, Finish, Breakers
  <2>8. ASSUME NEW d \in Deliveries, Suppress(d) PROVE LoopInv'
    BY <2>8 DEF Suppress, Finish, LogFinal
  <2>9. ASSUME NEW d \in Deliveries, AttemptFailed(d) PROVE LoopInv'
    BY <2>9 DEF AttemptFailed, FailAttempt, Finish
  <2>10. ASSUME NEW d \in Deliveries, AttemptNoBackend(d) PROVE LoopInv'
    BY <2>10 DEF AttemptNoBackend, FailAttempt, Finish
  <2>11. ASSUME NEW d \in Deliveries, BackoffElapses(d) PROVE LoopInv'
    BY <2>11 DEF BackoffElapses
  <2>12. CASE BreakerTimeout \/ BreakerInterval \/ EvictBreaker
    <3>1. breaker' \in Breakers /\ current' \subseteq Deliveries
      BY <2>12, FreshType DEF BreakerTimeout, BreakerInterval, EvictBreaker,
                              NewGeneration
    <3> QED
      BY <2>12, <3>1 DEF BreakerTimeout, BreakerInterval, EvictBreaker, Breakers
  <2>13. CASE Refill
    <3>1. tokens' \in 0..Burst
      BY <2>13, DeliveryAssumption DEF Refill
    <3> QED
      BY <2>13, <3>1 DEF Refill
  <2>15. CASE Cancel
    BY <2>15 DEF Cancel
  <2>14. CASE UNCHANGED vars
    BY <2>14 DEF vars
  <2> QED
    BY <2>1, <2>2, <2>3, <2>4, <2>5, <2>6, <2>7, <2>8, <2>9, <2>10, <2>11,
       <2>12, <2>13, <2>14, <2>15, <2>16
       DEF Next, Step
<1> QED
  BY <1>1, <1>2, PTL DEF Spec

\* TypeOK and EveryAttemptLogged are parts of that invariant.
THEOREM EveryAttemptIsLogged == Spec => [](TypeOK /\ EveryAttemptLogged)
<1>1. LoopInv => TypeOK /\ EveryAttemptLogged
  BY DEF LoopInv
<1> QED
  BY <1>1, LoopCorrect, PTL

\* A notification is delivered at most once per channel, is never denied by
\* the rate limiter after its first attempt, and is given up as exhausted only
\* after its full retry budget; a panic of the backend leaves only the rows of
\* the attempts before it.
THEOREM OutcomesCorrect == Spec => []OutcomeExplained
<1> USE DEF maxAttempts
<1>1. Init => OutcomeExplained
  BY DEF Init, OutcomeExplained
<1>2. LoopInv /\ OutcomeExplained /\ [Next]_vars => OutcomeExplained'
  <2> SUFFICES ASSUME LoopInv, OutcomeExplained, [Next]_vars
               PROVE  OutcomeExplained'
    OBVIOUS
  <2>0. maxAttempts \in Nat
    BY DeliveryAssumption
  <2> USE <2>0 DEF LoopInv, TypeOK, EveryAttemptLogged, LoopBounds,
                   OutcomeExplained, progress, guards, seen
  <2>1. ASSUME NEW d \in Deliveries, GateAllow(d) PROVE OutcomeExplained'
    BY <2>1 DEF GateAllow
  <2>2. ASSUME NEW d \in Deliveries, GateDeny(d) PROVE OutcomeExplained'
    BY <2>2 DEF GateDeny, Finish, LogFinal
  <2>3. ASSUME NEW d \in Deliveries, GiveUpCancelled(d)
        PROVE  OutcomeExplained'
    BY <2>3 DEF GiveUpCancelled, Finish
  <2>4. ASSUME NEW d \in Deliveries, AttemptStarts(d) \/ AttemptRejected(d)
        PROVE  OutcomeExplained'
    BY <2>4 DEF AttemptStarts, AttemptRejected
  <2>5. ASSUME NEW d \in Deliveries, SendSucceeds(d) PROVE OutcomeExplained'
    BY <2>5 DEF SendSucceeds, Finish, LogFinal
  <2>6. ASSUME NEW d \in Deliveries, SendFails(d) PROVE OutcomeExplained'
    BY <2>6 DEF SendFails
  <2>11. ASSUME NEW d \in Deliveries, SendPanics(d) PROVE OutcomeExplained'
    BY <2>11 DEF SendPanics, Finish
  <2>7. ASSUME NEW d \in Deliveries, Suppress(d) PROVE OutcomeExplained'
    BY <2>7 DEF Suppress, Finish, LogFinal
  <2>8. ASSUME NEW d \in Deliveries, AttemptFailed(d) \/ AttemptNoBackend(d)
        PROVE  OutcomeExplained'
    BY <2>8 DEF AttemptFailed, AttemptNoBackend, FailAttempt, Finish
  <2>9. ASSUME NEW d \in Deliveries, BackoffElapses(d) PROVE OutcomeExplained'
    BY <2>9 DEF BackoffElapses
  <2>10. CASE BreakerTimeout \/ BreakerInterval \/ EvictBreaker \/ Refill
                \/ Cancel \/ UNCHANGED vars
    BY <2>10 DEF BreakerTimeout, BreakerInterval, EvictBreaker, Refill, Cancel,
                 vars
  <2> QED
    BY <2>1, <2>2, <2>3, <2>4, <2>5, <2>6, <2>7, <2>8, <2>9, <2>10, <2>11
       DEF Next, Step
<1> QED
  BY <1>1, <1>2, LoopCorrect, PTL DEF Spec
\* The requests a half-open breaker still waits for are among those it counted.
ProbesCounted ==
  /\ breaker.state = "half-open" =>
       IsFiniteSet(current) /\ Cardinality(current) <= breaker.requests
  /\ breaker.state = "open" => current = {}

\* A new generation waits for nobody.
LEMMA FreshProbes ==
  ASSUME NEW s \in {"closed", "open", "half-open"}, NewGeneration(s)
  PROVE  ProbesCounted'
<1>1. current' = {} /\ breaker' = Fresh(s)
  BY DEF NewGeneration
<1>2. breaker'.requests = 0
  BY <1>1 DEF Fresh, Closed
<1>3. IsFiniteSet({}) /\ Cardinality({}) = 0
  BY FS_EmptySet
<1> QED
  BY <1>1, <1>2, <1>3 DEF ProbesCounted

\* A request that returns is no longer waited for, an admitted one is counted.
LEMMA FewerProbes ==
  ASSUME NEW S, NEW d, NEW n \in Nat, IsFiniteSet(S), Cardinality(S) <= n
  PROVE  /\ IsFiniteSet(S \ {d}) /\ Cardinality(S \ {d}) <= n
         /\ IsFiniteSet(S \cup {d}) /\ Cardinality(S \cup {d}) <= n + 1
<1>1. Cardinality(S) \in Nat
  BY FS_CardinalityType
<1>2. IsFiniteSet(S \ {d}) /\ Cardinality(S \ {d}) <= Cardinality(S)
         /\ Cardinality(S \ {d}) \in Nat
  BY FS_Subset, FS_CardinalityType
<1>3. /\ IsFiniteSet(S \cup {d})
      /\ Cardinality(S \cup {d}) = IF d \in S THEN Cardinality(S)
                                   ELSE Cardinality(S) + 1
  BY FS_AddElement
<1> QED
  BY <1>1, <1>2, <1>3

\* A half-open breaker lets at most MaxRequests probes reach the backend at a
\* time, for any number of deliveries and whatever their order.
THEOREM ProbesCorrect == Spec => []ProbesBounded
<1>1. Init => ProbesCounted
  BY DEF Init, Closed, ProbesCounted
<1>2. LoopInv /\ ProbesCounted /\ [Next]_vars => ProbesCounted'
  <2> SUFFICES ASSUME LoopInv, ProbesCounted, [Next]_vars PROVE ProbesCounted'
    OBVIOUS
  <2>0. breaker \in Breakers /\ breaker.requests \in Nat
    BY DeliveryAssumption DEF LoopInv, TypeOK, Breakers
  <2>1. ASSUME NEW d \in Deliveries, beforeRequest(d), Admits
        PROVE  ProbesCounted'
    <3>1. CASE breaker.state = "half-open"
      <4>1. /\ breaker'.requests = breaker.requests + 1
            /\ breaker'.state = "half-open"
        BY <2>0, <2>1, <3>1 DEF beforeRequest, Breakers
      <4>2. current' = current \cup {d}
        BY <2>1 DEF beforeRequest
      <4>3. IsFiniteSet(current) /\ Cardinality(current) <= breaker.requests
        BY <3>1 DEF ProbesCounted
      <4>4. /\ IsFiniteSet(current \cup {d})
            /\ Cardinality(current \cup {d}) <= breaker.requests + 1
        BY <2>0, <4>3, FewerProbes
      <4> QED
        BY <4>1, <4>2, <4>4 DEF ProbesCounted
    <3>2. CASE breaker.state = "closed"
      BY <2>1, <3>2 DEF beforeRequest, ProbesCounted
    <3> QED
      BY <2>1, <3>1, <3>2 DEF Admits
  <2>2. ASSUME NEW d \in Deliveries, afterFailure(d) \/ afterSuccess(d)
        PROVE  ProbesCounted'
    <3>1. CASE UNCHANGED <<breaker, current>>
      BY <3>1 DEF ProbesCounted
    <3>2. CASE NewGeneration("open") \/ NewGeneration("closed")
      BY <3>2, FreshProbes
    <3>3. CASE /\ current' = current \ {d}
               /\ breaker'.state = breaker.state
               /\ breaker'.requests = breaker.requests
      BY <2>0, <3>3, FewerProbes DEF ProbesCounted
    <3> QED
      BY <2>0, <2>2, <3>1, <3>2, <3>3 DEF afterFailure, afterSuccess, Breakers
  <2>3. ASSUME BreakerTimeout \/ BreakerInterval \/ EvictBreaker
        PROVE  ProbesCounted'
    BY <2>3, FreshProbes DEF BreakerTimeout, BreakerInterval, EvictBreaker
  <2>4. ASSUME UNCHANGED <<breaker, current>>
        PROVE  ProbesCounted'
    BY <2>4 DEF ProbesCounted
  <2> QED
    BY <2>1, <2>2, <2>3, <2>4
       DEF Next, Step, GateAllow, GateDeny, GiveUpCancelled, AttemptStarts,
           AttemptRejected, AttemptNoBackend, SendSucceeds, SendFails, SendPanics,
           Suppress, AttemptFailed, FailAttempt, BackoffElapses, Refill, Cancel,
           vars
<1>3. LoopInv /\ ProbesCounted => ProbesBounded
  <2> SUFFICES ASSUME LoopInv, ProbesCounted, breaker.state = "half-open"
               PROVE  Cardinality({d \in current : pc[d] = "sending"})
                        <= MaxRequests
    BY DEF ProbesBounded, ProbesCounted
  <2> DEFINE P == {d \in current : pc[d] = "sending"}
  <2>1. /\ IsFiniteSet(current) /\ Cardinality(current) <= breaker.requests
        /\ breaker.requests \in 0..MaxRequests
    BY DEF LoopInv, TypeOK, ProbesCounted
  <2>2. P \subseteq current
    OBVIOUS
  <2>3. /\ Cardinality(P) <= Cardinality(current)
        /\ Cardinality(P) \in Nat /\ Cardinality(current) \in Nat
    BY <2>1, <2>2, FS_Subset, FS_CardinalityType
  <2> QED
    BY <2>1, <2>3, DeliveryAssumption
<1> QED
  BY <1>1, <1>2, <1>3, LoopCorrect, PTL DEF Spec

\* What a delivery left behind explains how it ended (AttemptsExplained), for any
\* number of deliveries, tokens, failures and probes.
THEOREM AttemptsCorrect == Spec => []AttemptsExplained
BY EveryAttemptIsLogged, OutcomesCorrect, PTL DEF AttemptsExplained
=============================================================================
