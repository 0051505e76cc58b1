--------------------------- MODULE SuppressorProofs ---------------------------
(***************************************************************************)
(* Proofs about the suppressor, for every set of rules and groups, every   *)
(* cap, every set of windows and any number of matches.                    *)
(***************************************************************************)
EXTENDS Suppressor, FiniteSetTheorems, TLAPS

Callbacks == {"flushInitial", "flushSilence"}

\* The window computed by flushSilence is a positive duration.
LEMMA NextSilenceType ==
  ASSUME NEW fp \in Fingerprint
  PROVE  /\ NextSilence(fp) \in Nat
         /\ fp.currentSilence > 0 => NextSilence(fp) > 0
  BY DEF NextSilence, Fingerprint

\* A fingerprint key names a rule.
LEMMA RuleOfType == \A k \in Keys : RuleOf(k) \in Rules
  BY DEF Keys, RuleOf

\* The record that stands for an untracked key is a fingerprint.
LEMMA CleanType == Clean \in Fingerprint
  BY DEF Clean, Fingerprint

\* The updates of a tracked fingerprint leave a fingerprint.
LEMMA UpdateTypes ==
  ASSUME NEW fp \in Fingerprint, NEW n \in Nat, NEW m \in Nat
  PROVE  /\ [fp EXCEPT !.count = n, !.last = m] \in Fingerprint
         /\ [fp EXCEPT !.phase = "silence", !.first = 0, !.count = 0]
              \in Fingerprint
         /\ [fp EXCEPT !.currentSilence = n, !.count = 0] \in Fingerprint
  BY DEF Fingerprint

\* A new fingerprint takes its silence from the rule's windows.
LEMMA NewFingerprintType ==
  ASSUME NEW k \in Keys, NEW w \in Windows, offered' \in [Keys -> Nat]
  PROVE  /\ [NewFingerprint(k, w) EXCEPT !.phase = "coalesce",
                                         !.first = offered'[k]] \in Fingerprint
         /\ [NewFingerprint(k, w) EXCEPT !.phase = "silence", !.count = 0]
              \in Fingerprint
  BY ConstantsAssumption DEF NewFingerprint, Clean, Fingerprint

\* The payload handed to onFlush, and the counts it adds to.
LEMMA StartFlushType ==
  ASSUME TypeOK, NEW k \in Keys, NEW d \in BOOLEAN, NEW c \in Nat,
         NEW e \in Nat, NEW w \in Nat, offered' \in [Keys -> Nat],
         StartFlush(k, d, c, e, w)
  PROVE  inflight' \subseteq Flush /\ reported' \in [Keys -> Nat]
<1>1. [key |-> k, digest |-> d, count |-> c, event |-> e, window |-> w,
       upto |-> offered'[k]] \in Flush
  BY DEF Flush
<1> QED
  BY <1>1 DEF StartFlush, TypeOK

\* struct Suppressor keeps its types through every critical section.
THEOREM TypeCorrect == Spec => []TypeOK
<1>1. Init => TypeOK
  <2> SUFFICES ASSUME Init PROVE TypeOK
    OBVIOUS
  <2>1. fingerprints \in [Keys -> Fingerprint]
    BY CleanType DEF Init
  <2> QED
    BY <2>1 DEF Init, TypeOK
<1>2. TypeOK /\ [Next]_vars => TypeOK'
  <2> SUFFICES ASSUME TypeOK, [Next]_vars PROVE TypeOK'
    OBVIOUS
  <2> USE DEF TypeOK
  <2>1. ASSUME NEW k \in Keys, RecordStopped(k) \/ RecordCapped(k)
        PROVE  TypeOK'
    BY <2>1 DEF RecordStopped, RecordCapped, Offer, Refuse, mapVars, timerVars
  <2>2. ASSUME NEW k \in Keys, RecordTracked(k) PROVE TypeOK'
    <3>1. offered' \in [Keys -> Nat]
      BY <2>2 DEF RecordTracked, Offer
    <3>2. fingerprints' \in [Keys -> Fingerprint]
      <4>1. fingerprints[k].count + 1 \in Nat
        BY DEF Fingerprint
      <4> QED
        BY <2>2, <3>1, <4>1, UpdateTypes DEF RecordTracked
    <3> QED
      BY <2>2, <3>1, <3>2 DEF RecordTracked, timerVars
  <2>3. ASSUME NEW k \in Keys, NEW w \in Windows, RecordCoalesce(k, w)
        PROVE  TypeOK'
    <3>1. offered' \in [Keys -> Nat]
      BY <2>3 DEF RecordCoalesce, Offer
    <3>2. fingerprints' \in [Keys -> Fingerprint]
      BY <2>3, <3>1, NewFingerprintType DEF RecordCoalesce, Install
    <3> QED
      BY <2>3, <3>1, <3>2, RuleOfType DEF RecordCoalesce, Install
  <2>4. ASSUME NEW k \in Keys, NEW w \in Windows, RecordImmediate(k, w)
        PROVE  TypeOK'
    <3>1. offered' \in [Keys -> Nat]
      BY <2>4 DEF RecordImmediate, Offer
    <3>2. fingerprints' \in [Keys -> Fingerprint]
      BY <2>4, <3>1, NewFingerprintType DEF RecordImmediate, Install
    <3>3. inflight' \subseteq Flush /\ reported' \in [Keys -> Nat]
      <4>1. offered'[k] \in Nat /\ StartFlush(k, FALSE, 1, offered'[k], 0)
        BY <2>4, <3>1 DEF RecordImmediate
      <4> QED
        BY <3>1, <4>1, StartFlushType, Zenon
    <3> QED
      BY <2>4, <3>1, <3>2, <3>3, RuleOfType DEF RecordImmediate, Install
  <2>5. ASSUME NEW k \in Keys, NEW f \in Callbacks,
               TimerFires(k, f) \/ CallbackTooLate(k, f)
        PROVE  TypeOK'
    BY <2>5 DEF TimerFires, CallbackTooLate, Callback, Callbacks, mapVars, tally
  <2>6. ASSUME NEW k \in Keys, flushInitial(k) PROVE TypeOK'
    <3>1. fingerprints' \in [Keys -> Fingerprint]
      BY <2>6, UpdateTypes DEF flushInitial
    <3>2. inflight' \subseteq Flush /\ reported' \in [Keys -> Nat]
      <4>1. fingerprints[k].count \in Nat /\ fingerprints[k].first \in Nat
        BY DEF Fingerprint
      <4> QED
        BY <2>6, <4>1, StartFlushType DEF flushInitial
    <3> QED
      BY <2>6, <3>1, <3>2 DEF flushInitial, Callback
  <2>7. ASSUME NEW k \in Keys, flushSilenceClose(k) PROVE TypeOK'
    BY <2>7, RuleOfType, CleanType DEF flushSilenceClose, Callback, tally
  <2>8. ASSUME NEW k \in Keys, flushSilenceDigest(k) PROVE TypeOK'
    <3>1. NextSilence(fingerprints[k]) \in Nat
      BY NextSilenceType
    <3>2. fingerprints' \in [Keys -> Fingerprint]
      BY <2>8, <3>1, UpdateTypes DEF flushSilenceDigest
    <3>3. inflight' \subseteq Flush /\ reported' \in [Keys -> Nat]
      <4>1. /\ fingerprints[k].count \in Nat
            /\ fingerprints[k].last \in Nat
            /\ fingerprints[k].currentSilence \in Nat
        BY DEF Fingerprint
      <4> QED
        BY <2>8, <4>1, StartFlushType DEF flushSilenceDigest
    <3> QED
      BY <2>8, <3>2, <3>3 DEF flushSilenceDigest, Callback
  <2>9. ASSUME NEW f \in inflight, FlushReturns(f) PROVE TypeOK'
    BY <2>9 DEF FlushReturns, mapVars, timerVars, tally
  <2>10. CASE Stop
    <3>1. discarded' \in [Keys -> Nat]
      BY <2>10 DEF Stop, Fingerprint
    <3> QED
      BY <2>10, <3>1, CleanType DEF Stop
  <2>11. CASE StopReturns
    BY <2>11 DEF StopReturns, mapVars, timerVars, tally
  <2>12. CASE UNCHANGED vars
    BY <2>12 DEF vars, mapVars, timerVars, tally
  <2> QED
    BY <2>1, <2>2, <2>3, <2>4, <2>5, <2>6, <2>7, <2>8, <2>9, <2>10, <2>11,
       <2>12
       DEF Next, Record, TimerStep, Callbacks
<1> QED
  BY <1>1, <1>2, PTL DEF Spec

-----------------------------------------------------------------------------
(* Stop and the flushes *)

\* No onFlush runs once Stop has returned: every flush starts under mu while
\* stopped is false, and stopped is never reset.
THEOREM StopIsFinal == Spec => []NoFlushAfterStop
<1>1. Init => NoFlushAfterStop
  BY DEF Init, NoFlushAfterStop
<1>2. NoFlushAfterStop /\ [Next]_vars => NoFlushAfterStop'
  <2> SUFFICES ASSUME NoFlushAfterStop, [Next]_vars PROVE NoFlushAfterStop'
    OBVIOUS
  <2> USE DEF NoFlushAfterStop
  <2>1. ASSUME NEW k \in Keys, NEW w \in Windows, Record(k, w)
        PROVE  NoFlushAfterStop'
    BY <2>1 DEF Record, RecordStopped, RecordTracked, RecordCapped,
                RecordCoalesce, RecordImmediate, Refuse
  <2>2. ASSUME NEW k \in Keys, TimerStep(k) PROVE NoFlushAfterStop'
    BY <2>2 DEF TimerStep, TimerFires, CallbackTooLate, flushInitial,
                flushSilenceClose, flushSilenceDigest
  <2>3. ASSUME NEW f \in inflight, FlushReturns(f) PROVE NoFlushAfterStop'
    BY <2>3 DEF FlushReturns
  <2>4. CASE Stop \/ StopReturns \/ UNCHANGED vars
    BY <2>4 DEF Stop, StopReturns, vars
  <2> QED
    BY <2>1, <2>2, <2>3, <2>4 DEF Next
<1> QED
  BY <1>1, <1>2, PTL DEF Spec

-----------------------------------------------------------------------------
(* Timers *)

\* Every tracked fingerprint has the one timer its phase needs.  The actions
\* are told apart by what they do to the phases and to the timers.
THEOREM TimersCorrect == Spec => []OneTimerPerFingerprint
<1> USE DEF Callbacks
<1>1. Init => OneTimerPerFingerprint
  BY DEF Init, OneTimerPerFingerprint, Live, Pending, Clean
<1>2. TypeOK /\ TypeOK' /\ OneTimerPerFingerprint /\ [Next]_vars
        => OneTimerPerFingerprint'
  <2> SUFFICES ASSUME TypeOK, TypeOK', OneTimerPerFingerprint, [Next]_vars
               PROVE  OneTimerPerFingerprint'
    OBVIOUS
  <2> DEFINE Phase(k) == fingerprints[k].phase
  <2> USE DEF OneTimerPerFingerprint, Live, Pending, CallbackOf
  <2>1. ASSUME \A k \in Keys : Phase(k)' = Phase(k),
               UNCHANGED <<stopped, armed, fired>>
        PROVE  OneTimerPerFingerprint'
    BY <2>1
  <2>2. ASSUME NEW k \in Keys, RecordStopped(k) \/ RecordCapped(k)
        PROVE  OneTimerPerFingerprint'
    BY <2>1, <2>2 DEF RecordStopped, RecordCapped, Refuse, mapVars, timerVars
  <2>3. ASSUME NEW k \in Keys, RecordTracked(k) PROVE OneTimerPerFingerprint'
    BY <2>1, <2>3 DEF RecordTracked, timerVars, TypeOK, Fingerprint
  <2>4. ASSUME NEW k \in Keys, NEW w \in Windows, RecordCoalesce(k, w)
        PROVE  OneTimerPerFingerprint'
    <3>1. /\ Phase(k)' = "coalesce"
          /\ \A j \in Keys \ {k} : Phase(j)' = Phase(j)
      BY <2>4 DEF RecordCoalesce, Install, NewFingerprint, Clean, TypeOK
    <3> QED
      BY <2>4, <3>1 DEF RecordCoalesce
  <2>5. ASSUME NEW k \in Keys, NEW w \in Windows, RecordImmediate(k, w)
        PROVE  OneTimerPerFingerprint'
    <3>1. /\ Phase(k)' = "silence"
          /\ \A j \in Keys \ {k} : Phase(j)' = Phase(j)
      BY <2>5 DEF RecordImmediate, Install, NewFingerprint, Clean, TypeOK
    <3> QED
      BY <2>5, <3>1 DEF RecordImmediate
  <2>6. ASSUME NEW k \in Keys, NEW f \in Callbacks, TimerFires(k, f)
        PROVE  OneTimerPerFingerprint'
    BY <2>6 DEF TimerFires, mapVars
  <2>7. ASSUME NEW k \in Keys, NEW f \in Callbacks, CallbackTooLate(k, f)
        PROVE  OneTimerPerFingerprint'
    BY <2>7 DEF CallbackTooLate, Callback, mapVars
  <2>8. ASSUME NEW k \in Keys, flushInitial(k) PROVE OneTimerPerFingerprint'
    <3>1. /\ Phase(k)' = "silence"
          /\ \A j \in Keys \ {k} : Phase(j)' = Phase(j)
      BY <2>8 DEF flushInitial, TypeOK, Fingerprint
    <3> QED
      BY <2>8, <3>1 DEF flushInitial, Callback
  <2>9. ASSUME NEW k \in Keys, flushSilenceClose(k)
        PROVE  OneTimerPerFingerprint'
    <3>1. /\ Phase(k)' = "clean"
          /\ \A j \in Keys \ {k} : Phase(j)' = Phase(j)
      BY <2>9 DEF flushSilenceClose, TypeOK, Clean
    <3> QED
      BY <2>9, <3>1 DEF flushSilenceClose, Callback
  <2>10. ASSUME NEW k \in Keys, flushSilenceDigest(k)
         PROVE  OneTimerPerFingerprint'
    <3>1. \A j \in Keys : Phase(j)' = Phase(j)
      BY <2>10 DEF flushSilenceDigest, TypeOK, Fingerprint
    <3> QED
      BY <2>10, <3>1 DEF flushSilenceDigest, Callback
  <2>11. ASSUME NEW f \in inflight, FlushReturns(f)
         PROVE  OneTimerPerFingerprint'
    BY <2>1, <2>11 DEF FlushReturns, mapVars, timerVars
  <2>12. CASE Stop
    BY <2>12 DEF Stop, Clean
  <2>13. CASE StopReturns
    BY <2>1, <2>13 DEF StopReturns, mapVars, timerVars
  <2>14. CASE UNCHANGED vars
    BY <2>1, <2>14 DEF vars, mapVars, timerVars
  <2> QED
    BY <2>2, <2>3, <2>4, <2>5, <2>6, <2>7, <2>8, <2>9, <2>10, <2>11, <2>12,
       <2>13, <2>14
       DEF Next, Record, TimerStep
<1> QED
  BY <1>1, <1>2, TypeCorrect, PTL DEF Spec

-----------------------------------------------------------------------------
(* Counts *)

\* What a step does to the fingerprint of its key; the others keep theirs.
LEMMA OtherKeysKeepTheirs ==
  ASSUME TypeOK, NEW k \in Keys, NEW fp,
         fingerprints' = [fingerprints EXCEPT ![k] = fp]
  PROVE  /\ fingerprints'[k] = fp
         /\ \A j \in Keys \ {k} : fingerprints'[j] = fingerprints[j]
  BY DEF TypeOK

\* A tracked fingerprint has accepted every match, and a flushInitial or
\* flushSilence callback finds the phase it was armed for.
THEOREM ShapeCorrect == Spec => []FingerprintShape
<1>1. Init => FingerprintShape
  BY DEF Init, FingerprintShape, ShapeOf, Live, Clean
<1>2. TypeOK /\ TypeOK' /\ OneTimerPerFingerprint /\ FingerprintShape
        /\ [Next]_vars => FingerprintShape'
  <2> SUFFICES ASSUME TypeOK, TypeOK', OneTimerPerFingerprint,
                      FingerprintShape, [Next]_vars
               PROVE  FingerprintShape'
    OBVIOUS
  <2> USE DEF FingerprintShape
  <2>0. ASSUME NEW j \in Keys, fingerprints'[j] = fingerprints[j],
               offered'[j] = offered[j]
        PROVE  ShapeOf(j)'
    BY <2>0 DEF ShapeOf, Live
  <2>1. CASE UNCHANGED <<fingerprints, offered>>
    BY <2>0, <2>1
  <2>2. ASSUME NEW k \in Keys, ShapeOf(k)',
               \A j \in Keys \ {k} : /\ fingerprints'[j] = fingerprints[j]
                                     /\ offered'[j] = offered[j]
        PROVE  FingerprintShape'
    BY <2>0, <2>2
  <2>3. ASSUME NEW k \in Keys, Offer(k)
        PROVE  /\ offered[k] \in Nat
               /\ offered'[k] = offered[k] + 1
               /\ \A j \in Keys \ {k} : offered'[j] = offered[j]
    BY <2>3 DEF Offer, TypeOK
  <2>4. ASSUME NEW k \in Keys, RecordStopped(k) \/ RecordCapped(k)
        PROVE  FingerprintShape'
    <3>1. k \notin Live /\ Offer(k) /\ UNCHANGED fingerprints
      BY <2>4 DEF RecordStopped, RecordCapped, OneTimerPerFingerprint, Refuse,
                  mapVars
    <3>2. ShapeOf(k)'
      BY <3>1 DEF ShapeOf, Live
    <3> QED
      BY <2>2, <2>3, <3>1, <3>2
  <2>5. ASSUME NEW k \in Keys, RecordTracked(k) PROVE FingerprintShape'
    <3>1. k \in Live /\ Offer(k)
      BY <2>5 DEF RecordTracked
    <3>2. /\ fingerprints'[k] = [fingerprints[k] EXCEPT
                                   !.count = fingerprints[k].count + 1,
                                   !.last = offered'[k]]
          /\ \A j \in Keys \ {k} : fingerprints'[j] = fingerprints[j]
      BY <2>5, OtherKeysKeepTheirs DEF RecordTracked
    <3>3. fingerprints[k] \in Fingerprint
      BY DEF TypeOK
    <3>4. /\ fingerprints'[k].count = fingerprints[k].count + 1
          /\ fingerprints'[k].last = offered'[k]
          /\ fingerprints'[k].phase = fingerprints[k].phase
          /\ fingerprints'[k].first = fingerprints[k].first
          /\ fingerprints'[k].baseSilence = fingerprints[k].baseSilence
          /\ fingerprints'[k].currentSilence = fingerprints[k].currentSilence
      BY <3>2, <3>3 DEF Fingerprint
    <3>5. fingerprints[k].count \in Nat /\ fingerprints[k].first \in Nat
      BY <3>3 DEF Fingerprint
    <3>6. ShapeOf(k)'
      BY <2>3, <3>1, <3>4, <3>5 DEF ShapeOf, Live
    <3> QED
      BY <2>2, <2>3, <3>1, <3>2, <3>6
  <2>6. ASSUME NEW k \in Keys, NEW w \in Windows,
               RecordCoalesce(k, w) \/ RecordImmediate(k, w)
        PROVE  FingerprintShape'
    <3>1. Offer(k)
      BY <2>6 DEF RecordCoalesce, RecordImmediate
    <3>2. \A j \in Keys \ {k} : fingerprints'[j] = fingerprints[j]
      BY <2>6, OtherKeysKeepTheirs DEF RecordCoalesce, RecordImmediate, Install
    <3>3. /\ fingerprints'[k].last = offered'[k]
          /\ fingerprints'[k].baseSilence > 0
          /\ fingerprints'[k].currentSilence > 0
          /\ \/ /\ fingerprints'[k].phase = "coalesce"
                /\ fingerprints'[k].count = 1
                /\ fingerprints'[k].first = offered'[k]
             \/ fingerprints'[k].phase = "silence"
      <4>1. w.silence \in Nat \ {0}
        BY ConstantsAssumption
      <4>2. CASE RecordCoalesce(k, w)
        <5>1. fingerprints'[k] =
                [NewFingerprint(k, w) EXCEPT !.phase = "coalesce", !.first = offered'[k]]
          BY <4>2, OtherKeysKeepTheirs DEF RecordCoalesce, Install
        <5> QED
          BY <4>1, <5>1 DEF NewFingerprint, Clean
      <4>3. CASE RecordImmediate(k, w)
        <5>1. fingerprints'[k] =
                [NewFingerprint(k, w) EXCEPT !.phase = "silence", !.count = 0]
          BY <4>3, OtherKeysKeepTheirs DEF RecordImmediate, Install
        <5> QED
          BY <4>1, <5>1 DEF NewFingerprint, Clean
      <4> QED
        BY <2>6, <4>2, <4>3
    <3>4. ShapeOf(k)'
      BY <2>3, <3>1, <3>3 DEF ShapeOf, Live
    <3> QED
      BY <2>2, <2>3, <3>1, <3>2, <3>4
  <2>7. ASSUME NEW k \in Keys, flushInitial(k) PROVE FingerprintShape'
    <3>1. /\ fingerprints'[k] = [fingerprints[k] EXCEPT
                                   !.phase = "silence", !.first = 0, !.count = 0]
          /\ \A j \in Keys \ {k} : fingerprints'[j] = fingerprints[j]
      BY <2>7, OtherKeysKeepTheirs DEF flushInitial
    <3>2. k \in Live /\ UNCHANGED offered /\ fingerprints[k] \in Fingerprint
      BY <2>7 DEF flushInitial, TypeOK
    <3>3. /\ fingerprints'[k].phase = "silence"
          /\ fingerprints'[k].last = fingerprints[k].last
          /\ fingerprints'[k].baseSilence = fingerprints[k].baseSilence
          /\ fingerprints'[k].currentSilence = fingerprints[k].currentSilence
      BY <3>1, <3>2 DEF Fingerprint
    <3>4. ShapeOf(k)'
      BY <3>2, <3>3 DEF ShapeOf, Live
    <3> QED
      BY <2>2, <3>1, <3>2, <3>4
  <2>8. ASSUME NEW k \in Keys, flushSilenceClose(k) PROVE FingerprintShape'
    <3>1. /\ fingerprints'[k] = Clean
          /\ \A j \in Keys \ {k} : fingerprints'[j] = fingerprints[j]
          /\ UNCHANGED offered
      BY <2>8, OtherKeysKeepTheirs DEF flushSilenceClose, tally
    <3>2. ShapeOf(k)'
      BY <3>1 DEF ShapeOf, Live, Clean
    <3> QED
      BY <2>2, <3>1, <3>2
  <2>9. ASSUME NEW k \in Keys, flushSilenceDigest(k) PROVE FingerprintShape'
    <3>1. /\ fingerprints'[k] = [fingerprints[k] EXCEPT
                                   !.currentSilence = NextSilence(fingerprints[k]),
                                   !.count = 0]
          /\ \A j \in Keys \ {k} : fingerprints'[j] = fingerprints[j]
      BY <2>9, OtherKeysKeepTheirs DEF flushSilenceDigest
    <3>2. k \in Live /\ UNCHANGED offered /\ fingerprints[k] \in Fingerprint
      BY <2>9 DEF flushSilenceDigest, TypeOK
    <3>3. fingerprints[k].phase = "silence"
      BY <2>9, <3>2 DEF flushSilenceDigest, Callback, OneTimerPerFingerprint,
                        Pending, CallbackOf, Fingerprint, Live
    <3>4. NextSilence(fingerprints[k]) > 0
      BY <3>2, NextSilenceType DEF ShapeOf
    <3>5. /\ fingerprints'[k].phase = fingerprints[k].phase
          /\ fingerprints'[k].last = fingerprints[k].last
          /\ fingerprints'[k].baseSilence = fingerprints[k].baseSilence
          /\ fingerprints'[k].currentSilence = NextSilence(fingerprints[k])
      BY <3>1, <3>2 DEF Fingerprint
    <3>6. ShapeOf(k)'
      BY <3>2, <3>3, <3>4, <3>5 DEF ShapeOf, Live
    <3> QED
      BY <2>2, <3>1, <3>2, <3>6
  <2>10. CASE Stop
    BY <2>10 DEF Stop, ShapeOf, Live, Clean
  <2> QED
    BY <2>1, <2>4, <2>5, <2>6, <2>7, <2>8, <2>9, <2>10
       DEF Next, Record, TimerStep, TimerFires, CallbackTooLate, FlushReturns,
           StopReturns, vars, mapVars, tally
<1> QED
  BY <1>1, <1>2, TypeCorrect, TimersCorrect, PTL DEF Spec

\* Every match offered to Record is in one flush, pending, refused or
\* discarded: a flush reports the count it resets.
THEOREM Conservation == Spec => []EveryMatchAccountedFor
<1>1. Init => EveryMatchAccountedFor
  BY DEF Init, EveryMatchAccountedFor, Clean
<1>2. TypeOK /\ FingerprintShape /\ EveryMatchAccountedFor /\ [Next]_vars
        => EveryMatchAccountedFor'
  <2> SUFFICES ASSUME TypeOK, FingerprintShape, EveryMatchAccountedFor,
                      [Next]_vars
               PROVE  EveryMatchAccountedFor'
    OBVIOUS
  <2>0. \A k \in Keys : fingerprints[k] \in Fingerprint
    BY DEF TypeOK
  <2> USE DEF EveryMatchAccountedFor
  <2>1. CASE UNCHANGED <<fingerprints, tally>>
    BY <2>1 DEF tally
  <2>2. ASSUME NEW k \in Keys, RecordStopped(k) \/ RecordCapped(k)
        PROVE  EveryMatchAccountedFor'
    BY <2>0, <2>2 DEF RecordStopped, RecordCapped, Offer, Refuse, mapVars,
                      TypeOK, Fingerprint
  <2>3. ASSUME NEW k \in Keys, RecordTracked(k) PROVE EveryMatchAccountedFor'
    <3>1. /\ fingerprints'[k] = [fingerprints[k] EXCEPT
                                   !.count = fingerprints[k].count + 1,
                                   !.last = offered'[k]]
          /\ \A j \in Keys \ {k} : fingerprints'[j] = fingerprints[j]
      BY <2>3, OtherKeysKeepTheirs DEF RecordTracked
    <3> QED
      BY <2>0, <2>3, <3>1 DEF RecordTracked, Offer, TypeOK, Fingerprint
  <2>4. ASSUME NEW k \in Keys, NEW w \in Windows,
               RecordCoalesce(k, w) \/ RecordImmediate(k, w)
        PROVE  EveryMatchAccountedFor'
    <3>0. \A j \in Keys \ {k} : fingerprints'[j] = fingerprints[j]
      BY <2>4, OtherKeysKeepTheirs DEF RecordCoalesce, RecordImmediate, Install
    <3>1. \/ /\ fingerprints'[k].count = 1
             /\ UNCHANGED reported
          \/ /\ fingerprints'[k].count = 0
             /\ reported' = [reported EXCEPT ![k] = @ + 1]
      <4>1. CASE RecordCoalesce(k, w)
        <5>1. fingerprints'[k] =
                [NewFingerprint(k, w) EXCEPT !.phase = "coalesce", !.first = offered'[k]]
          BY <4>1, OtherKeysKeepTheirs DEF RecordCoalesce, Install
        <5> QED
          BY <4>1, <5>1 DEF RecordCoalesce, NewFingerprint, Clean
      <4>2. CASE RecordImmediate(k, w)
        <5>1. fingerprints'[k] =
                [NewFingerprint(k, w) EXCEPT !.phase = "silence", !.count = 0]
          BY <4>2, OtherKeysKeepTheirs DEF RecordImmediate, Install
        <5> QED
          BY <4>2, <5>1 DEF RecordImmediate, NewFingerprint, Clean, StartFlush
      <4> QED
        BY <2>4, <4>1, <4>2
    <3>2. fingerprints[k].count = 0
      <4>1. k \notin Live
        BY <2>4 DEF RecordCoalesce, RecordImmediate
      <4> QED
        BY <4>1 DEF FingerprintShape, ShapeOf, Clean
    <3>3. /\ offered' = [offered EXCEPT ![k] = @ + 1]
          /\ UNCHANGED <<refused, discarded>>
      BY <2>4 DEF RecordCoalesce, RecordImmediate, Offer
    <3> QED
      BY <2>0, <3>0, <3>1, <3>2, <3>3 DEF TypeOK, Fingerprint
  <2>5. ASSUME NEW k \in Keys, flushInitial(k) \/ flushSilenceDigest(k)
        PROVE  EveryMatchAccountedFor'
    <3>0. \A j \in Keys \ {k} : fingerprints'[j] = fingerprints[j]
      BY <2>5, OtherKeysKeepTheirs DEF flushInitial, flushSilenceDigest
    <3>1. fingerprints'[k].count = 0
      <4>1. CASE flushInitial(k)
        <5>1. fingerprints'[k] = [fingerprints[k] EXCEPT
                                   !.phase = "silence", !.first = 0, !.count = 0]
          BY <4>1, OtherKeysKeepTheirs DEF flushInitial
        <5> QED
          BY <2>0, <5>1 DEF Fingerprint
      <4>2. CASE flushSilenceDigest(k)
        <5>1. fingerprints'[k] = [fingerprints[k] EXCEPT
                                   !.currentSilence = NextSilence(fingerprints[k]),
                                   !.count = 0]
          BY <4>2, OtherKeysKeepTheirs DEF flushSilenceDigest
        <5> QED
          BY <2>0, <5>1 DEF Fingerprint
      <4> QED
        BY <2>5, <4>1, <4>2
    <3>2. /\ reported' = [reported EXCEPT ![k] = @ + fingerprints[k].count]
          /\ UNCHANGED <<offered, refused, discarded>>
      BY <2>5 DEF flushInitial, flushSilenceDigest, StartFlush
    <3> QED
      BY <2>0, <3>0, <3>1, <3>2 DEF TypeOK, Fingerprint
  <2>6. ASSUME NEW k \in Keys, flushSilenceClose(k)
        PROVE  EveryMatchAccountedFor'
    BY <2>6, OtherKeysKeepTheirs DEF flushSilenceClose, tally, Clean
  <2>7. CASE Stop
    BY <2>0, <2>7 DEF Stop, Clean, TypeOK, Fingerprint
  <2> QED
    BY <2>1, <2>2, <2>3, <2>4, <2>5, <2>6, <2>7
       DEF Next, Record, TimerStep, TimerFires, CallbackTooLate, FlushReturns,
           StopReturns, vars, mapVars, tally
<1> QED
  BY <1>1, <1>2, TypeCorrect, ShapeCorrect, PTL DEF Spec

\* An alert or digest describes exactly the matches it counts.
THEOREM FlushesCorrect == Spec => []FlushDescribesItsMatches
<1>1. Init => FlushDescribesItsMatches
  BY DEF Init, FlushDescribesItsMatches
<1>2. TypeOK /\ TypeOK' /\ OneTimerPerFingerprint /\ FingerprintShape
        /\ FlushDescribesItsMatches /\ [Next]_vars
        => FlushDescribesItsMatches'
  <2> SUFFICES ASSUME TypeOK, TypeOK', OneTimerPerFingerprint,
                      FingerprintShape, FlushDescribesItsMatches, [Next]_vars
               PROVE  FlushDescribesItsMatches'
    OBVIOUS
  <2> USE DEF FlushDescribesItsMatches
  <2>1. CASE inflight' \subseteq inflight
    BY <2>1
  <2>2. ASSUME NEW k \in Keys, NEW d \in BOOLEAN, NEW c \in Nat, NEW e \in Nat,
               NEW w \in Nat, StartFlush(k, d, c, e, w), c > 0,
               e = (IF d THEN offered'[k] ELSE offered'[k] - c + 1),
               d <=> w > 0
        PROVE  FlushDescribesItsMatches'
    BY <2>2 DEF StartFlush
  <2>3. ASSUME NEW k \in Keys, NEW w \in Windows, RecordImmediate(k, w)
        PROVE  FlushDescribesItsMatches'
    <3>1. StartFlush(k, FALSE, 1, offered'[k], 0) /\ offered'[k] \in Nat
      BY <2>3 DEF RecordImmediate, TypeOK
    <3>2. offered'[k] = offered'[k] - 1 + 1
      BY <3>1
    <3>3. 1 > 0 /\ ~(0 > 0) /\ 1 \in Nat /\ 0 \in Nat
      OBVIOUS
    <3> HIDE DEF FlushDescribesItsMatches
    <3> QED
      BY <2>2, <3>1, <3>2, <3>3, Zenon
  <2>4. ASSUME NEW k \in Keys, flushInitial(k) PROVE FlushDescribesItsMatches'
    <3>1. /\ fingerprints[k].count \in Nat
          /\ fingerprints[k].first \in Nat
          /\ fingerprints[k].phase \in {"clean", "coalesce", "silence"}
      BY DEF TypeOK, Fingerprint
    <3>2. k \in Live /\ fingerprints[k].phase = "coalesce"
      BY <2>4, <3>1 DEF flushInitial, Callback, OneTimerPerFingerprint, Pending,
                        CallbackOf
    <3>3. /\ fingerprints[k].count > 0
          /\ fingerprints[k].first = offered'[k] - fingerprints[k].count + 1
      BY <2>4, <3>2 DEF flushInitial, FingerprintShape, ShapeOf
    <3>4. StartFlush(k, FALSE, fingerprints[k].count, fingerprints[k].first, 0)
      BY <2>4 DEF flushInitial
    <3>5. ~(0 > 0) /\ 0 \in Nat
      OBVIOUS
    <3> HIDE DEF FlushDescribesItsMatches
    <3> QED
      BY <2>2, <3>1, <3>3, <3>4, <3>5, Zenon
  <2>5. ASSUME NEW k \in Keys, flushSilenceDigest(k)
        PROVE  FlushDescribesItsMatches'
    <3>1. /\ fingerprints[k].count \in Nat
          /\ fingerprints[k].last \in Nat
          /\ fingerprints[k].currentSilence \in Nat
      BY DEF TypeOK, Fingerprint
    <3>2. /\ fingerprints[k].count > 0
          /\ fingerprints[k].last = offered'[k]
          /\ fingerprints[k].currentSilence > 0
      BY <2>5 DEF flushSilenceDigest, FingerprintShape, ShapeOf
    <3>3. StartFlush(k, TRUE, fingerprints[k].count, fingerprints[k].last,
                     fingerprints[k].currentSilence)
      BY <2>5 DEF flushSilenceDigest
    <3> HIDE DEF FlushDescribesItsMatches
    <3> QED
      BY <2>2, <3>1, <3>2, <3>3, Zenon
  <2> QED
    BY <2>1, <2>3, <2>4, <2>5
       DEF Next, Record, RecordStopped, RecordTracked, RecordCapped,
           RecordCoalesce, Refuse, TimerStep, TimerFires, CallbackTooLate,
           flushSilenceClose, FlushReturns, Stop, StopReturns, vars
<1> QED
  BY <1>1, <1>2, TypeCorrect, TimersCorrect, ShapeCorrect, PTL DEF Spec

\* The matches of a key that wait for no flush any more.
Settled(k) == offered[k] - fingerprints[k].count

\* A step starts one flush at most, never after Stop, and of matches that no
\* earlier flush of its key has counted: a flush settles what it counts.
LEMMA StepFlushes ==
  ASSUME TypeOK, TypeOK', OneTimerPerFingerprint, FingerprintShape, [Next]_vars
  PROVE  /\ \A j \in Keys : Settled(j) <= Settled(j)'
         /\ \A f \in inflight' \ inflight :
              /\ ~stopped
              /\ Settled(f.key) < f.upto
              /\ f.upto <= Settled(f.key)'
         /\ \E f : inflight' \subseteq inflight \cup {f}
<1> DEFINE Goal == /\ \A j \in Keys : Settled(j) <= Settled(j)'
                   /\ \A f \in inflight' \ inflight :
                        /\ ~stopped
                        /\ Settled(f.key) < f.upto
                        /\ f.upto <= Settled(f.key)'
                   /\ \E f : inflight' \subseteq inflight \cup {f}
<1>0. \A k \in Keys : /\ fingerprints[k] \in Fingerprint
                      /\ fingerprints[k].count \in Nat
                      /\ offered[k] \in Nat
  BY DEF TypeOK, Fingerprint
<1>1. ASSUME inflight' \subseteq inflight,
             \A j \in Keys : Settled(j) <= Settled(j)'
      PROVE  Goal
  BY <1>1
<1>2. ASSUME NEW k \in Keys, NEW d, NEW c, NEW e, NEW w,
             StartFlush(k, d, c, e, w), ~stopped,
             offered[k] - fingerprints[k].count < offered'[k],
             fingerprints'[k].count = 0,
             \A j \in Keys \ {k} : /\ fingerprints'[j] = fingerprints[j]
                                   /\ offered'[j] = offered[j]
      PROVE  Goal
  <2>1. offered'[k] \in Nat
    BY DEF TypeOK
  <2>2. Settled(k)' = offered'[k]
    BY <1>2, <2>1 DEF Settled
  <2>3. \A j \in Keys : Settled(j) <= Settled(j)'
    BY <1>0, <1>2, <2>1, <2>2 DEF Settled
  <2>4. \A f \in inflight' \ inflight : f.key = k /\ f.upto = offered'[k]
    BY <1>2 DEF StartFlush
  <2>5. \A f \in inflight' \ inflight :
          /\ ~stopped
          /\ Settled(f.key) < f.upto
          /\ f.upto <= Settled(f.key)'
    BY <1>2, <2>1, <2>2, <2>4 DEF Settled
  <2>6. \E f : inflight' \subseteq inflight \cup {f}
    BY <1>2 DEF StartFlush
  <2> QED
    BY <2>3, <2>5, <2>6
<1>3. ASSUME NEW k \in Keys, Offer(k)
      PROVE  /\ offered'[k] = offered[k] + 1
             /\ \A j \in Keys \ {k} : offered'[j] = offered[j]
  BY <1>3 DEF Offer, TypeOK
<1>4. ASSUME NEW k \in Keys, RecordStopped(k) \/ RecordCapped(k) PROVE Goal
  BY <1>0, <1>1, <1>3, <1>4
     DEF RecordStopped, RecordCapped, Refuse, mapVars, Settled
<1>5. ASSUME NEW k \in Keys, RecordTracked(k) PROVE Goal
  <2>0. /\ fingerprints'[k] = [fingerprints[k] EXCEPT
                                 !.count = fingerprints[k].count + 1,
                                 !.last = offered'[k]]
        /\ \A j \in Keys \ {k} : fingerprints'[j] = fingerprints[j]
    BY <1>5, OtherKeysKeepTheirs DEF RecordTracked
  <2>1. /\ fingerprints'[k].count = fingerprints[k].count + 1
        /\ \A j \in Keys \ {k} : fingerprints'[j] = fingerprints[j]
    BY <1>0, <2>0 DEF Fingerprint
  <2> QED
    BY <1>0, <1>1, <1>3, <1>5, <2>1 DEF RecordTracked, Settled
<1>6. ASSUME NEW k \in Keys, NEW w \in Windows, RecordCoalesce(k, w) PROVE Goal
  <2>1. /\ fingerprints'[k] =
             [NewFingerprint(k, w) EXCEPT !.phase = "coalesce", !.first = offered'[k]]
        /\ \A j \in Keys \ {k} : fingerprints'[j] = fingerprints[j]
    BY <1>6, OtherKeysKeepTheirs DEF RecordCoalesce, Install
  <2>2. fingerprints'[k].count = 1
    BY <2>1 DEF NewFingerprint, Clean
  <2>3. Offer(k) /\ UNCHANGED inflight
    BY <1>6 DEF RecordCoalesce
  <2>4. Settled(k) <= Settled(k)'
    BY <1>0, <1>3, <2>2, <2>3 DEF Settled
  <2>5. \A j \in Keys \ {k} : Settled(j) <= Settled(j)'
    BY <1>0, <1>3, <2>1, <2>3 DEF Settled
  <2> QED
    BY <1>1, <2>3, <2>4, <2>5
<1>7. ASSUME NEW k \in Keys, NEW w \in Windows, RecordImmediate(k, w) PROVE Goal
  <2>1. /\ fingerprints'[k] =
             [NewFingerprint(k, w) EXCEPT !.phase = "silence", !.count = 0]
        /\ \A j \in Keys \ {k} : fingerprints'[j] = fingerprints[j]
    BY <1>7, OtherKeysKeepTheirs DEF RecordImmediate, Install
  <2>2. fingerprints'[k].count = 0
    BY <2>1 DEF NewFingerprint, Clean
  <2>3. Offer(k) /\ ~stopped /\ StartFlush(k, FALSE, 1, offered'[k], 0)
    BY <1>7 DEF RecordImmediate
  <2>4. offered[k] - fingerprints[k].count < offered'[k]
    BY <1>0, <1>3, <2>3
  <2>5. \A j \in Keys \ {k} : offered'[j] = offered[j]
    BY <1>3, <2>3
  <2> HIDE DEF Goal
  <2> QED
    BY <1>2, <2>1, <2>2, <2>3, <2>4, <2>5
<1>8. ASSUME NEW k \in Keys, flushInitial(k) PROVE Goal
  <2>1. /\ fingerprints'[k] = [fingerprints[k] EXCEPT
                                 !.phase = "silence", !.first = 0, !.count = 0]
        /\ \A j \in Keys \ {k} : fingerprints'[j] = fingerprints[j]
    BY <1>8, OtherKeysKeepTheirs DEF flushInitial
  <2>2. fingerprints'[k].count = 0
    BY <1>0, <2>1 DEF Fingerprint
  <2>3. fingerprints[k].count > 0
    <3>1. k \in Live /\ fingerprints[k].phase = "coalesce"
      BY <1>0, <1>8 DEF flushInitial, Callback, OneTimerPerFingerprint, Pending,
                        CallbackOf
    <3> QED
      BY <3>1 DEF FingerprintShape, ShapeOf
  <2>4. /\ ~stopped /\ UNCHANGED offered
        /\ StartFlush(k, FALSE, fingerprints[k].count, fingerprints[k].first, 0)
    BY <1>8 DEF flushInitial
  <2>5. offered[k] - fingerprints[k].count < offered'[k]
    BY <1>0, <2>3, <2>4
  <2> HIDE DEF Goal
  <2> QED
    BY <1>2, <2>1, <2>2, <2>4, <2>5
<1>9. ASSUME NEW k \in Keys, flushSilenceClose(k) PROVE Goal
  <2>1. /\ fingerprints'[k].count = 0 /\ fingerprints[k].count = 0
        /\ \A j \in Keys \ {k} : fingerprints'[j] = fingerprints[j]
    BY <1>9, OtherKeysKeepTheirs DEF flushSilenceClose, Clean
  <2> QED
    BY <1>0, <1>1, <1>9, <2>1 DEF flushSilenceClose, tally, Settled
<1>10. ASSUME NEW k \in Keys, flushSilenceDigest(k) PROVE Goal
  <2>1. /\ fingerprints'[k] = [fingerprints[k] EXCEPT
                                 !.currentSilence = NextSilence(fingerprints[k]),
                                 !.count = 0]
        /\ \A j \in Keys \ {k} : fingerprints'[j] = fingerprints[j]
    BY <1>10, OtherKeysKeepTheirs DEF flushSilenceDigest
  <2>2. fingerprints'[k].count = 0
    BY <1>0, <2>1 DEF Fingerprint
  <2>3. /\ ~stopped /\ UNCHANGED offered /\ fingerprints[k].count > 0
        /\ StartFlush(k, TRUE, fingerprints[k].count, fingerprints[k].last,
                      fingerprints[k].currentSilence)
    BY <1>10 DEF flushSilenceDigest
  <2>4. offered[k] - fingerprints[k].count < offered'[k]
    BY <1>0, <2>3
  <2> HIDE DEF Goal
  <2> QED
    BY <1>2, <2>1, <2>2, <2>3, <2>4
<1>11. ASSUME Stop PROVE Goal
  BY <1>0, <1>1, <1>11 DEF Stop, Clean, Settled
<1>12. ASSUME inflight' \subseteq inflight, UNCHANGED <<fingerprints, offered>>
       PROVE  Goal
  BY <1>0, <1>1, <1>12 DEF Settled
<1> HIDE DEF Goal
<1>13. ASSUME \/ \E k \in Keys, f \in Callbacks :
                   TimerFires(k, f) \/ CallbackTooLate(k, f)
              \/ \E f \in inflight : FlushReturns(f)
              \/ StopReturns \/ UNCHANGED vars
       PROVE  Goal
  BY <1>12, <1>13
     DEF TimerFires, CallbackTooLate, FlushReturns, StopReturns, vars, mapVars, tally
<1>14. ASSUME NEW k \in Keys, NEW w \in Windows, Record(k, w) PROVE Goal
  BY <1>4, <1>5, <1>6, <1>7, <1>14 DEF Record
<1>15. ASSUME NEW k \in Keys, TimerStep(k) PROVE Goal
  BY <1>8, <1>9, <1>10, <1>13, <1>15 DEF TimerStep, Callbacks
<1>16. Goal
  BY <1>11, <1>13, <1>14, <1>15 DEF Next
<1> QED
  BY <1>16 DEF Goal

-----------------------------------------------------------------------------
(* The counters that enforce the caps *)

\* There are finitely many keys, so the number of fingerprints is a number.
LEMMA LiveFinite ==
  /\ IsFiniteSet(Live)
  /\ \A r \in Rules : IsFiniteSet(LiveOf(r))
<1>1. IsFiniteSet(Keys)
  BY ConstantsAssumption, FS_Product DEF Keys
<1> QED
  BY <1>1, FS_Subset DEF Live, LiveOf

\* What Record and flushSilence do to the size of the map.
LEMMA OneMoreOneLess ==
  ASSUME NEW S, IsFiniteSet(S), NEW x
  PROVE  /\ Cardinality(S) \in Nat
         /\ x \notin S => Cardinality(S \cup {x}) = Cardinality(S) + 1
         /\ x \in S => /\ Cardinality(S) > 0
                       /\ Cardinality(S \ {x}) = Cardinality(S) - 1
<1>1. Cardinality(S) \in Nat
  BY FS_CardinalityType
<1>2. x \notin S => Cardinality(S \cup {x}) = Cardinality(S) + 1
  BY FS_AddElement
<1>3. x \in S => Cardinality(S \ {x}) = Cardinality(S) - 1
  BY FS_RemoveElement
<1>4. x \in S => Cardinality(S) # 0
  BY FS_EmptySet
<1> QED
  BY <1>1, <1>2, <1>3, <1>4

\* The empty map is within the caps.
LEMMA EmptyMap ==
  /\ Cardinality({}) = 0
  /\ maxFingerprintsPerRule \in Nat
  /\ maxFingerprintsGlobal \in Nat
<1>1. Cardinality({}) = 0
  BY FS_EmptySet
<1> QED
  BY <1>1, ConstantsAssumption

\* ruleFingerprintCount is the number of tracked fingerprints of the rule, and
\* both caps hold: the count moves with the map in Record, flushSilence, Stop.
THEOREM CapsHold == Spec => []CountsMatchMap
<1>1. Init => CountsMatchMap
  <2> SUFFICES ASSUME Init PROVE CountsMatchMap
    OBVIOUS
  <2>1. Live = {} /\ \A r \in Rules : LiveOf(r) = {}
    BY DEF Init, Live, LiveOf, Clean
  <2> QED
    BY <2>1, EmptyMap DEF Init, CountsMatchMap
<1>2. TypeOK /\ CountsMatchMap /\ [Next]_vars => CountsMatchMap'
  <2> SUFFICES ASSUME TypeOK, CountsMatchMap, [Next]_vars
               PROVE  CountsMatchMap'
    OBVIOUS
  <2> USE DEF CountsMatchMap
  <2>1. ASSUME Live' = Live, UNCHANGED ruleFingerprintCount
        PROVE  CountsMatchMap'
    BY <2>1 DEF LiveOf
  <2>2. CASE UNCHANGED mapVars
    BY <2>1, <2>2 DEF mapVars, Live
  <2>3. ASSUME NEW k \in Keys, RecordTracked(k) \/ flushInitial(k)
                                  \/ flushSilenceDigest(k)
        PROVE  CountsMatchMap'
    <3>1. fingerprints[k] \in Fingerprint /\ k \in Live
      BY <2>3 DEF TypeOK, RecordTracked, flushInitial, flushSilenceDigest
    <3>2. \A j \in Keys \ {k} : fingerprints'[j] = fingerprints[j]
      BY <2>3, OtherKeysKeepTheirs
         DEF RecordTracked, flushInitial, flushSilenceDigest
    <3>3. fingerprints'[k].phase # "clean"
      <4>1. CASE RecordTracked(k)
        BY <3>1, <4>1 DEF RecordTracked, TypeOK, Fingerprint, Live
      <4>2. CASE flushInitial(k)
        BY <3>1, <4>2 DEF flushInitial, TypeOK, Fingerprint, Live
      <4>3. CASE flushSilenceDigest(k)
        BY <3>1, <4>3 DEF flushSilenceDigest, TypeOK, Fingerprint, Live
      <4> QED
        BY <2>3, <4>1, <4>2, <4>3
    <3>4. Live' = Live
      BY <3>1, <3>2, <3>3 DEF Live
    <3> QED
      BY <2>1, <2>3, <3>4 DEF RecordTracked, flushInitial, flushSilenceDigest
  <2>4. ASSUME NEW k \in Keys, NEW w \in Windows,
               RecordCoalesce(k, w) \/ RecordImmediate(k, w)
        PROVE  CountsMatchMap'
    <3>1. k \notin Live /\ ~AtCap(RuleOf(k))
      BY <2>4 DEF RecordCoalesce, RecordImmediate
    <3>2. /\ \A j \in Keys \ {k} : fingerprints'[j] = fingerprints[j]
          /\ ruleFingerprintCount' =
               [ruleFingerprintCount EXCEPT ![RuleOf(k)] = @ + 1]
      BY <2>4, OtherKeysKeepTheirs DEF RecordCoalesce, RecordImmediate, Install
    <3>3. fingerprints'[k].phase # "clean"
      <4>1. CASE RecordCoalesce(k, w)
        BY <4>1 DEF RecordCoalesce, Install, NewFingerprint, Clean, TypeOK
      <4>2. CASE RecordImmediate(k, w)
        BY <4>2 DEF RecordImmediate, Install, NewFingerprint, Clean, TypeOK
      <4> QED
        BY <2>4, <4>1, <4>2
    <3>4. /\ Live' = Live \cup {k}
          /\ LiveOf(RuleOf(k))' = LiveOf(RuleOf(k)) \cup {k}
          /\ \A r \in Rules \ {RuleOf(k)} : LiveOf(r)' = LiveOf(r)
      BY <3>2, <3>3 DEF Live, LiveOf
    <3>5. Cardinality(Live') = Cardinality(Live) + 1 /\ Cardinality(Live) \in Nat
      BY <3>1, <3>4, LiveFinite, OneMoreOneLess
    <3>6. k \notin LiveOf(RuleOf(k)) /\ RuleOf(k) \in Rules
      BY <3>1, RuleOfType DEF LiveOf
    <3>7. Cardinality(LiveOf(RuleOf(k))') = Cardinality(LiveOf(RuleOf(k))) + 1
      BY <3>4, <3>6, LiveFinite, OneMoreOneLess
    <3>8. /\ ~(Cardinality(Live) >= maxFingerprintsGlobal)
          /\ ~(ruleFingerprintCount[RuleOf(k)] >= maxFingerprintsPerRule)
      BY <3>1 DEF AtCap
    <3>9. /\ ruleFingerprintCount'[RuleOf(k)] = Cardinality(LiveOf(RuleOf(k))')
          /\ ruleFingerprintCount'[RuleOf(k)] <= maxFingerprintsPerRule
          /\ \A r \in Rules \ {RuleOf(k)} :
               ruleFingerprintCount'[r] = ruleFingerprintCount[r]
      BY <3>2, <3>6, <3>7, <3>8, EmptyMap DEF TypeOK
    <3>10. Cardinality(Live') <= maxFingerprintsGlobal
      BY <3>5, <3>8, EmptyMap
    <3> QED
      BY <3>4, <3>9, <3>10
  <2>5. ASSUME NEW k \in Keys, flushSilenceClose(k) PROVE CountsMatchMap'
    <3>1. k \in Live
      BY <2>5 DEF flushSilenceClose
    <3>2. /\ \A j \in Keys \ {k} : fingerprints'[j] = fingerprints[j]
          /\ fingerprints'[k].phase = "clean"
      <4>1. /\ \A j \in Keys \ {k} : fingerprints'[j] = fingerprints[j]
            /\ fingerprints'[k] = Clean
        BY <2>5, OtherKeysKeepTheirs DEF flushSilenceClose
      <4> QED
        BY <4>1 DEF Clean
    <3>3. /\ Live' = Live \ {k}
          /\ LiveOf(RuleOf(k))' = LiveOf(RuleOf(k)) \ {k}
          /\ \A r \in Rules \ {RuleOf(k)} : LiveOf(r)' = LiveOf(r)
      BY <3>2 DEF Live, LiveOf
    <3>4. Cardinality(Live') = Cardinality(Live) - 1 /\ Cardinality(Live) \in Nat
      BY <3>1, <3>3, LiveFinite, OneMoreOneLess
    <3>5. k \in LiveOf(RuleOf(k)) /\ RuleOf(k) \in Rules
      BY <3>1, RuleOfType DEF LiveOf
    <3>6. /\ Cardinality(LiveOf(RuleOf(k))') = Cardinality(LiveOf(RuleOf(k))) - 1
          /\ Cardinality(LiveOf(RuleOf(k))) > 0
      BY <3>3, <3>5, LiveFinite, OneMoreOneLess
    <3>7. /\ ruleFingerprintCount'[RuleOf(k)] = ruleFingerprintCount[RuleOf(k)] - 1
          /\ \A r \in Rules \ {RuleOf(k)} :
               ruleFingerprintCount'[r] = ruleFingerprintCount[r]
      BY <2>5, <3>5, <3>6 DEF flushSilenceClose, TypeOK
    <3>8. /\ ruleFingerprintCount'[RuleOf(k)] = Cardinality(LiveOf(RuleOf(k))')
          /\ ruleFingerprintCount'[RuleOf(k)] <= maxFingerprintsPerRule
      BY <3>5, <3>6, <3>7, EmptyMap DEF TypeOK
    <3>9. Cardinality(Live') <= maxFingerprintsGlobal
      BY <3>4, EmptyMap
    <3> QED
      BY <3>3, <3>7, <3>8, <3>9
  <2>6. CASE Stop
    <3>1. Live' = {} /\ \A r \in Rules : LiveOf(r)' = {}
      BY <2>6 DEF Stop, Live, LiveOf, Clean
    <3> QED
      <4>1. ruleFingerprintCount' = [r \in Rules |-> 0]
        BY <2>6 DEF Stop
      <4> QED
        BY <3>1, <4>1, EmptyMap
  <2> QED
    BY <2>2, <2>3, <2>4, <2>5, <2>6
       DEF Next, Record, RecordStopped, RecordCapped, Refuse, TimerStep,
           TimerFires, CallbackTooLate, FlushReturns, StopReturns, vars
<1> QED
  BY <1>1, <1>2, TypeCorrect, PTL DEF Spec

-----------------------------------------------------------------------------
(* The silence window *)

\* After its first digest a window is within its maximum, if there is one.
SilenceWithinMax ==
  \A k \in Keys :
    \/ fingerprints[k].maxSilence = 0
    \/ fingerprints[k].currentSilence <= fingerprints[k].maxSilence
    \/ fingerprints[k].currentSilence = fingerprints[k].baseSilence

\* The bump of flushSilence stays within the maximum, and goes down at most from
\* the rule's own silence.
LEMMA NextSilenceGrows ==
  ASSUME NEW fp \in Fingerprint,
         \/ fp.maxSilence = 0 \/ fp.currentSilence <= fp.maxSilence
         \/ fp.currentSilence = fp.baseSilence
  PROVE  /\ Lengthens(fp, NextSilence(fp))
         /\ fp.maxSilence = 0 \/ NextSilence(fp) <= fp.maxSilence
  BY DEF NextSilence, Lengthens, Fingerprint

\* For any windows, the silence of a fingerprint that keeps firing digests only
\* grows, except that the first digest cuts one that is above its maximum.
THEOREM SilenceGrows == Spec => SilenceOnlyGrows
<1> DEFINE Grows == \A k \in Keys :
      fingerprints[k].phase = "silence" /\ fingerprints'[k].phase = "silence"
        => Lengthens(fingerprints[k], fingerprints'[k].currentSilence)
<1>1. Init => SilenceWithinMax
  BY DEF Init, SilenceWithinMax, Clean
<1>2. TypeOK /\ SilenceWithinMax /\ [Next]_vars => SilenceWithinMax' /\ Grows
  <2> SUFFICES ASSUME TypeOK, SilenceWithinMax, [Next]_vars
               PROVE  SilenceWithinMax' /\ Grows
    OBVIOUS
  <2>0. \A k \in Keys : /\ fingerprints[k] \in Fingerprint
                        /\ fingerprints[k].currentSilence \in Nat
    BY DEF TypeOK, Fingerprint
  <2> USE DEF SilenceWithinMax
  <2>8. \A k \in Keys : Lengthens(fingerprints[k], fingerprints[k].currentSilence)
    BY <2>0 DEF Lengthens
  <2>1. CASE UNCHANGED fingerprints
    BY <2>1, <2>8
  <2>2. ASSUME NEW k \in Keys, NEW fp,
               fingerprints' = [fingerprints EXCEPT ![k] = fp],
               \/ fp.maxSilence = 0 \/ fp.currentSilence <= fp.maxSilence
               \/ fp.currentSilence = fp.baseSilence,
               k \in Live => fp.phase = "clean" \/
                               Lengthens(fingerprints[k], fp.currentSilence)
        PROVE  SilenceWithinMax' /\ Grows
    BY <2>2, <2>8, OtherKeysKeepTheirs DEF Live
  <2>3. ASSUME NEW k \in Keys, RecordTracked(k) \/ flushInitial(k)
        PROVE  SilenceWithinMax' /\ Grows
    <3>1. PICK fp : /\ fingerprints' = [fingerprints EXCEPT ![k] = fp]
                    /\ fp.currentSilence = fingerprints[k].currentSilence
                    /\ fp.maxSilence = fingerprints[k].maxSilence
                    /\ fp.baseSilence = fingerprints[k].baseSilence
      <4>1. CASE RecordTracked(k)
        <5> WITNESS [fingerprints[k] EXCEPT
                       !.count = fingerprints[k].count + 1, !.last = offered'[k]]
        <5> QED
          BY <2>0, <4>1 DEF RecordTracked, Fingerprint
      <4>2. CASE flushInitial(k)
        <5> WITNESS [fingerprints[k] EXCEPT
                       !.phase = "silence", !.first = 0, !.count = 0]
        <5> QED
          BY <2>0, <4>2 DEF flushInitial, Fingerprint
      <4> QED
        BY <2>3, <4>1, <4>2
    <3> QED
      BY <2>2, <2>8, <3>1
  <2>4. ASSUME NEW k \in Keys, NEW w \in Windows,
               RecordCoalesce(k, w) \/ RecordImmediate(k, w)
        PROVE  SilenceWithinMax' /\ Grows
    <3>1. k \notin Live
      BY <2>4 DEF RecordCoalesce, RecordImmediate
    <3>2. PICK fp : /\ fingerprints' = [fingerprints EXCEPT ![k] = fp]
                    /\ fp.currentSilence = w.silence
                    /\ fp.baseSilence = w.silence
      <4>1. CASE RecordCoalesce(k, w)
        <5> WITNESS [NewFingerprint(k, w) EXCEPT !.phase = "coalesce",
                                                 !.first = offered'[k]]
        <5> QED
          BY <4>1 DEF RecordCoalesce, Install, NewFingerprint, Clean
      <4>2. CASE RecordImmediate(k, w)
        <5> WITNESS [NewFingerprint(k, w) EXCEPT !.phase = "silence", !.count = 0]
        <5> QED
          BY <4>2 DEF RecordImmediate, Install, NewFingerprint, Clean
      <4> QED
        BY <2>4, <4>1, <4>2
    <3> QED
      BY <2>2, <3>1, <3>2
  <2>5. ASSUME NEW k \in Keys, flushSilenceClose(k)
        PROVE  SilenceWithinMax' /\ Grows
    BY <2>2, <2>5 DEF flushSilenceClose, Clean
  <2>6. ASSUME NEW k \in Keys, flushSilenceDigest(k)
        PROVE  SilenceWithinMax' /\ Grows
    <3>1. PICK fp : /\ fingerprints' = [fingerprints EXCEPT ![k] = fp]
                    /\ fp.currentSilence = NextSilence(fingerprints[k])
                    /\ fp.maxSilence = fingerprints[k].maxSilence
      <4> WITNESS [fingerprints[k] EXCEPT
                     !.currentSilence = NextSilence(fingerprints[k]), !.count = 0]
      <4> QED
        BY <2>0, <2>6 DEF flushSilenceDigest, Fingerprint
    <3>2. /\ Lengthens(fingerprints[k], NextSilence(fingerprints[k]))
          /\ \/ fingerprints[k].maxSilence = 0
             \/ NextSilence(fingerprints[k]) <= fingerprints[k].maxSilence
      BY <2>0, NextSilenceGrows
    <3> QED
      BY <2>2, <3>1, <3>2
  <2>7. CASE Stop
    BY <2>7 DEF Stop, Clean
  <2> QED
    BY <2>1, <2>3, <2>4, <2>5, <2>6, <2>7
       DEF Next, Record, RecordStopped, RecordCapped, Refuse, TimerStep,
           TimerFires, CallbackTooLate, FlushReturns, StopReturns, vars, mapVars
<1> QED
  BY <1>1, <1>2, TypeCorrect, PTL DEF Spec, SilenceOnlyGrows

\* Every match is in one notification that describes it (MatchesReported), for
\* any rules, groups, windows and caps.
THEOREM MatchesCorrect == Spec => []MatchesReported
BY Conservation, FlushesCorrect, PTL DEF MatchesReported

\* The map, its counters and the timers agree (TrackingConsistent).
THEOREM TrackingCorrect == Spec => []TrackingConsistent
BY CapsHold, TimersCorrect, PTL DEF TrackingConsistent
=============================================================================
