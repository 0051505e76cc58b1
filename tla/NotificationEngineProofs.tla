----------------------- MODULE NotificationEngineProofs -----------------------
(***************************************************************************)
(* Proofs about the notification engine, for every set of rules, channels, *)
(* handlers and workers and every size of the queue.  First what one step  *)
(* preserves, given what the suppressor promises; then the suppressor's    *)
(* theorems, which hold in the engine because it uses the suppressor as    *)
(* its specification allows; then the engine's own theorems.               *)
(***************************************************************************)
EXTENDS NotificationEngine, FiniteSetTheorems, SequenceTheorems, TLAPS

-----------------------------------------------------------------------------
(* The inductive invariants *)

AnyRow    == RuleRows \cup {NoRules[r] : r \in Rules}
RuleTable == [Rules -> AnyRow]
Tables    == [rules : RuleTable,
              channels : [Channels -> {"enabled", "disabled", "absent"}]]
Match     == [key : S!Keys, windows : {row.windows : row \in RuleRows}]

\* What is cached, being loaded and being handled are rules of the store.
CacheOK ==
  /\ stored \in Tables
  /\ cached \in Tables
  /\ loading = NoLoad \/ loading \in RuleTable
  /\ handling \in [Handlers -> SUBSET Match]

Job  == [flush : S!Flush, enabled : SUBSET Channels]
Task == [flush : S!Flush, channel : Channels]

Tasks == Unstarted \cup deliveries \cup concluded \cup untried

QueueOK ==
  /\ resolved \subseteq Job
  /\ dispatchCh \in Seq(Job)
  /\ closed \in BOOLEAN
  /\ working \in [Workers -> SUBSET Task]
  /\ deliveries \subseteq Task
  /\ shutdown \in {"no", "stopping", "stopped", "cancelled", "waiting", "done",
                   "timed out"}

\* Shutdown closes dispatchCh after Stop has returned; an onFlush call that is
\* about to send is in flight, once.
SendersOK ==
  /\ shutdown \in {"stopped", "cancelled", "waiting", "done", "timed out"}
       => stopReturned
  /\ closed <=> shutdown \in {"waiting", "done", "timed out"}
  /\ ~panicked
  /\ \A j \in resolved : j.flush \in inflight
  /\ \A i, j \in resolved : i.flush = j.flush => i = j

\* A worker that has exited left nothing, and nothing comes any more.
WorkersOK ==
  /\ \A w \in Workers \ loops :
       closed /\ dispatchCh = <<>> /\ working[w] = {}
  /\ shutdown = "done" => loops = {} /\ deliveries = {}

\* The places a flush can be in exclude each other.
PlacesOK ==
  /\ emitted = inflight \cup dropped \cup Queued \cup dispatched
  /\ inflight \cap (dropped \cup Queued \cup dispatched) = {}
  /\ dropped \cap (Queued \cup dispatched) = {}
  /\ Queued \cap dispatched = {}
  /\ \A i, j \in 1..Len(dispatchCh) :
       dispatchCh[i].flush = dispatchCh[j].flush => i = j
  /\ IsFiniteSet(emitted)

\* How many of a key's matches are flushed, refused or discarded.
Settled(k) == offered[k] - fingerprints[k].count

\* A flush is of matches that are settled: the next one of its key is another.
FlushesSettled ==
  \A f \in emitted : f \in S!Flush /\ f.upto <= Settled(f.key)

\* The tasks of a job are new when a worker takes it.
TasksOK ==
  /\ OneDeliveryPerChannel
  /\ \A v, w \in Workers : v # w => working[v] \cap working[w] = {}
  /\ \A d \in Tasks : d.flush \in dispatched

\* What the suppressor's theorems say of a state and of a step.
SuppressorOK == S!TypeOK /\ S!NoFlushAfterStop

FlushesAreNew ==
  /\ \A k \in S!Keys :
       Settled(k) \in Int /\ Settled(k)' \in Int /\ Settled(k) <= Settled(k)'
  /\ \A f \in inflight' \ inflight :
       f \in S!Flush /\ Settled(f.key) < f.upto /\ f.upto <= Settled(f.key)'
  /\ \E f : inflight' \subseteq inflight \cup {f}

-----------------------------------------------------------------------------
(* The cache, and what the engine asks of the suppressor *)

\* Every match to be recorded has a key and the windows of a rule of the store,
\* however edits and refreshes interleave with the handlers.
THEOREM CacheCorrect == Spec => []CacheOK
<1>0. \A r \in Rules : NoRules[r] \in AnyRow /\ NoRules[r].state = "absent"
  BY DEF NoRules, AnyRow
<1>1. Init => CacheOK
  <2> SUFFICES ASSUME Init PROVE CacheOK
    OBVIOUS
  <2>1. stored \in Tables
    BY DEF Init, Tables, RuleTable, AnyRow
  <2>2. Empty \in Tables
    BY <1>0 DEF Empty, Tables, RuleTable, NoRules
  <2> QED
    BY <2>1, <2>2 DEF Init, CacheOK
<1>2. CacheOK /\ [Next]_vars => CacheOK'
  <2> SUFFICES ASSUME CacheOK, [Next]_vars PROVE CacheOK'
    OBVIOUS
  <2> USE DEF CacheOK
  <2>1. CASE Edit
    <3>1. CASE \E r \in Rules : \E row \in RuleRows \cup {NoRules[r]} :
                 stored' = [stored EXCEPT !.rules[r] = row]
      BY <2>1, <3>1, <1>0 DEF Edit, Tables, RuleTable, AnyRow, handlerVars
    <3>2. CASE \E c \in Channels : \E s \in {"enabled", "disabled", "absent"} :
                 stored' = [stored EXCEPT !.channels[c] = s]
      BY <2>1, <3>2 DEF Edit, Tables, handlerVars
    <3> QED
      BY <2>1, <3>1, <3>2 DEF Edit
  <2>2. CASE Refresh
    BY <2>2 DEF Refresh, RefreshReadsRules, RefreshReadsChannels, RefreshFails,
                RefreshExits, Tables, cacheVars, handlerVars
  <2>3. ASSUME NEW h \in Handlers, HandleEvent(h) PROVE CacheOK'
    <3>0. PICK matched \in SUBSET {r \in Rules : cached.rules[r].state = "enabled"} :
            \E g \in [matched -> Groups] :
              handling' = [handling EXCEPT ![h] =
                {[key |-> <<r, g[r]>>, windows |-> cached.rules[r].windows] :
                   r \in matched}]
      BY <2>3, Zenon DEF HandleEvent
    <3>1. PICK g \in [matched -> Groups] :
            handling' = [handling EXCEPT ![h] =
              {[key |-> <<r, g[r]>>, windows |-> cached.rules[r].windows] :
                 r \in matched}]
      BY <3>0, Zenon
    <3>2. ASSUME NEW r \in matched
          PROVE  [key |-> <<r, g[r]>>, windows |-> cached.rules[r].windows] \in Match
      <4>1. cached.rules[r] \in RuleRows
        BY <1>0 DEF Tables, RuleTable, AnyRow
      <4>2. <<r, g[r]>> \in S!Keys
        BY DEF S!Keys
      <4> QED
        BY <4>1, <4>2 DEF Match
    <3>3. handling' \in [Handlers -> SUBSET Match]
      BY <3>1, <3>2
    <3> QED
      BY <2>3, <3>3 DEF HandleEvent, cacheVars
  <2>4. ASSUME NEW h \in Handlers, RecordNext(h) PROVE CacheOK'
    BY <2>4 DEF RecordNext, cacheVars
  <2>5. ASSUME NEW k \in S!Keys, Timer(k) PROVE CacheOK'
    BY <2>5 DEF Timer, cacheVars, handlerVars
  <2>6. CASE OnFlush
    BY <2>6 DEF OnFlush, FlushNoChannels, FlushResolves, FlushSends, cacheVars,
                handlerVars
  <2>7. ASSUME NEW w \in Workers, Worker(w) PROVE CacheOK'
    BY <2>7 DEF Worker, WorkerTakes, WorkerStarts, WorkerExits, cacheVars,
                handlerVars
  <2>8. ASSUME NEW d \in deliveries, DeliveryTries(d) \/ DeliveryEnds(d)
        PROVE  CacheOK'
    BY <2>8 DEF DeliveryTries, DeliveryEnds, cacheVars, handlerVars
  <2>9. CASE ContextCancelled \/ Shutdown
    BY <2>9, Zenon DEF ContextCancelled, Shutdown, ShutdownStops, ShutdownStopped,
                ShutdownCancels, ShutdownCloses, ShutdownDone, ShutdownTimesOut,
                cacheVars, handlerVars
  <2>10. CASE UNCHANGED vars
    BY <2>10 DEF vars, cacheVars, handlerVars
  <2> QED
    BY <2>1, <2>2, <2>3, <2>4, <2>5, <2>6, <2>7, <2>8, <2>9, <2>10 DEF Next
<1> QED
  BY <1>1, <1>2, PTL DEF Spec

\* A step of the engine is a step of the suppressor or leaves it alone.
LEMMA EngineStepsSuppressor ==
  ASSUME CacheOK, [Next]_vars
  PROVE  [S!Next]_(S!vars)
<1>0. ASSUME UNCHANGED suppressorVars PROVE UNCHANGED S!vars
  BY <1>0 DEF suppressorVars, S!vars, S!mapVars, S!timerVars, S!tally
<1>1. ASSUME NEW h \in Handlers, RecordNext(h) PROVE S!Next
  <2>1. PICK m \in handling[h] : S!Record(m.key, windowsFor(m.windows))
    BY <1>1 DEF RecordNext
  <2>2. m \in Match
    BY DEF CacheOK
  <2>3. /\ m.key \in S!Keys
        /\ windowsFor(m.windows) \in {windowsFor(row.windows) : row \in RuleRows}
    BY <2>2 DEF Match
  <2> QED
    BY <2>1, <2>3 DEF S!Next
<1>2. ASSUME NEW k \in S!Keys, Timer(k) PROVE S!Next
  BY <1>2 DEF Timer, S!Next
<1>3. CASE OnFlush
  BY <1>0, <1>3 DEF OnFlush, FlushNoChannels, FlushResolves, FlushSends, S!Next,
                    S!FlushReturns
<1>4. CASE ShutdownStops \/ ShutdownStopped
  BY <1>4 DEF ShutdownStops, ShutdownStopped, S!Next
<1>5. CASE \/ Edit \/ Refresh \/ ContextCancelled
           \/ \E h \in Handlers : HandleEvent(h)
           \/ \E w \in Workers : Worker(w)
           \/ \E d \in deliveries : DeliveryTries(d) \/ DeliveryEnds(d)
           \/ ShutdownCancels \/ ShutdownCloses \/ ShutdownDone \/ ShutdownTimesOut
  BY <1>0, <1>5, Zenon
     DEF Edit, Refresh, RefreshReadsRules, RefreshReadsChannels, RefreshFails,
         RefreshExits, ContextCancelled, HandleEvent, Worker, WorkerTakes,
         WorkerStarts, WorkerExits, DeliveryTries, DeliveryEnds, ShutdownCancels,
         ShutdownCloses, ShutdownDone, ShutdownTimesOut
<1>6. CASE UNCHANGED vars
  BY <1>0, <1>6 DEF vars
<1> QED
  BY <1>1, <1>2, <1>3, <1>4, <1>5, <1>6 DEF Next, Shutdown

\* The engine implements the suppressor's specification: handlers, timers,
\* onFlush and Shutdown use it only in ways that specification allows.
THEOREM UsesSuppressor == Spec => SuppressorSpec
<1>1. Init => S!Init
  BY DEF Init
<1> QED
  BY <1>1, EngineStepsSuppressor, CacheCorrect, PTL
     DEF Spec, SuppressorSpec, S!Spec

-----------------------------------------------------------------------------
(* The queue, its senders and its workers *)

\* Only enabled channels of the rule are in a job, and the rule is known.
LEMMA JobTyped ==
  ASSUME CacheOK, NEW f \in S!Flush
  PROVE  /\ resolveChannels(ruleOf(f).channels) \subseteq Channels
         /\ [flush |-> f,
             enabled |-> {c \in resolveChannels(ruleOf(f).channels) :
                            cached.channels[c] = "enabled"}] \in Job
<1>1. S!RuleOf(f.key) \in Rules
  BY DEF S!Flush, S!Keys, S!RuleOf
<1>2. ruleOf(f) \in AnyRow
  BY <1>1 DEF ruleOf, CacheOK, Tables, RuleTable
<1>3. ruleOf(f).channels \subseteq Channels
  BY <1>2, EngineAssumption DEF AnyRow, NoRules
<1> QED
  BY <1>3 DEF Job, resolveChannels

\* Every step keeps the queued and running jobs well formed.
LEMMA QueueStep ==
  ASSUME QueueOK, CacheOK, S!TypeOK, [Next]_vars
  PROVE  QueueOK'
<1> USE DEF QueueOK, queueVars, deliveryVars
<1>1. CASE \/ Edit \/ Refresh \/ ContextCancelled
           \/ \E h \in Handlers : HandleEvent(h) \/ RecordNext(h)
           \/ \E k \in S!Keys : Timer(k)
  BY <1>1, Zenon
     DEF Edit, Refresh, RefreshReadsRules, RefreshReadsChannels, RefreshFails,
         RefreshExits, ContextCancelled, HandleEvent, RecordNext, Timer
<1>2. ASSUME NEW f \in inflight, FlushNoChannels(f) PROVE QueueOK'
  BY <1>2, Zenon DEF FlushNoChannels
<1>3. ASSUME NEW f \in inflight, FlushResolves(f) PROVE QueueOK'
  <2>1. f \in S!Flush
    BY Zenon DEF S!TypeOK
  <2> QED
    BY <1>3, <2>1, JobTyped, Zenon DEF FlushResolves
<1>4. ASSUME NEW j \in resolved, FlushSends(j) PROVE QueueOK'
  <2>0. Append(dispatchCh, j) \in Seq(Job)
    BY AppendProperties, Zenon
  <2>1. dispatchCh' \in Seq(Job)
    BY <1>4, <2>0, Zenon DEF FlushSends
  <2> QED
    BY <1>4, <2>1, Zenon DEF FlushSends
<1>5. ASSUME NEW w \in Workers, WorkerTakes(w) PROVE QueueOK'
  <2>1. Head(dispatchCh) \in Job /\ Tail(dispatchCh) \in Seq(Job)
    BY <1>5, HeadTailProperties, Zenon DEF WorkerTakes
  <2>2. \A c \in Head(dispatchCh).enabled :
          [flush |-> Head(dispatchCh).flush, channel |-> c] \in Task
    BY <2>1, Zenon DEF Job, Task
  <2> QED
    BY <1>5, <2>1, <2>2, Zenon DEF WorkerTakes
<1>6. ASSUME NEW w \in Workers, WorkerStarts(w) \/ WorkerExits(w)
      PROVE  QueueOK'
  BY <1>6, Zenon DEF WorkerStarts, WorkerExits
<1>7. ASSUME NEW d \in deliveries, DeliveryTries(d) \/ DeliveryEnds(d)
      PROVE  QueueOK'
  BY <1>7, Zenon DEF DeliveryTries, DeliveryEnds
<1>8. CASE Shutdown
  BY <1>8, Zenon DEF Shutdown, ShutdownStep, ShutdownStops, ShutdownStopped,
              ShutdownCancels, ShutdownCloses, ShutdownDone, ShutdownTimesOut
<1>9. CASE UNCHANGED vars
  BY <1>9, Zenon DEF vars
<1> QED
  BY <1>1, <1>2, <1>3, <1>4, <1>5, <1>6, <1>7, <1>8, <1>9, Zenon
     DEF Next, OnFlush, Worker

\* The suppressor's steps under Record and the timers start flushes and never
\* end one, and leave Stop alone.
LEMMA SuppressorKeepsFlushes ==
  ASSUME NEW k, NEW w, S!Record(k, w) \/ S!TimerStep(k)
  PROVE  inflight \subseteq inflight' /\ UNCHANGED stopReturned
  BY DEF S!Record, S!RecordStopped, S!RecordTracked, S!RecordCapped,
         S!RecordCoalesce, S!RecordImmediate, S!Refuse, S!StartFlush, S!TimerStep,
         S!TimerFires, S!CallbackTooLate, S!flushInitial, S!flushSilenceClose,
         S!flushSilenceDigest

\* Every step keeps the order of Shutdown and at most one sender of each flush.
LEMMA SendersStep ==
  ASSUME SendersOK, SuppressorOK, [Next]_vars
  PROVE  SendersOK'
<1>0. ASSUME UNCHANGED <<shutdown, stopReturned, closed, panicked, resolved,
                         inflight>>
      PROVE  SendersOK'
  BY <1>0, Zenon DEF SendersOK
<1> USE DEF SendersOK, queueVars, suppressorVars
<1>1. CASE \/ Edit \/ Refresh \/ ContextCancelled
           \/ \E h \in Handlers : HandleEvent(h)
           \/ \E w \in Workers : Worker(w)
           \/ \E d \in deliveries : DeliveryTries(d) \/ DeliveryEnds(d)
  <2>1. UNCHANGED <<shutdown, stopReturned, closed, panicked, resolved, inflight>>
    BY <1>1, Zenon
       DEF Edit, Refresh, RefreshReadsRules, RefreshReadsChannels, RefreshFails,
           RefreshExits, ContextCancelled, HandleEvent, Worker, WorkerTakes,
           WorkerStarts, WorkerExits, DeliveryTries, DeliveryEnds
  <2> QED
    BY <2>1, <1>0, Zenon
<1>2. ASSUME NEW h \in Handlers, RecordNext(h) PROVE SendersOK'
  BY <1>2, SuppressorKeepsFlushes, Zenon DEF RecordNext
<1>3. ASSUME NEW k \in S!Keys, Timer(k) PROVE SendersOK'
  BY <1>3, SuppressorKeepsFlushes, Zenon DEF Timer
<1>4. ASSUME NEW f \in inflight, FlushNoChannels(f) PROVE SendersOK'
  BY <1>4, Zenon DEF FlushNoChannels, S!FlushReturns
<1>5. ASSUME NEW f \in inflight, FlushResolves(f) PROVE SendersOK'
  <2>1. /\ UNCHANGED <<shutdown, stopReturned, closed, panicked, inflight>>
        /\ \A j \in resolved : j.flush # f
        /\ \E n : n.flush = f /\ resolved' = resolved \cup {n}
    BY <1>5, Zenon DEF FlushResolves
  <2>2. /\ \A j \in resolved' : j.flush \in inflight'
        /\ \A i, j \in resolved' : i.flush = j.flush => i = j
    BY <2>1, Zenon
  <2> QED
    BY <2>1, <2>2, Zenon
<1>6. ASSUME NEW j \in resolved, FlushSends(j) PROVE SendersOK'
  <2>1. ~closed
    BY Zenon DEF SuppressorOK, S!NoFlushAfterStop
  <2> QED
    BY <1>6, <2>1, Zenon DEF FlushSends, S!FlushReturns
<1>7. CASE Shutdown
  <2>1. CASE ShutdownStops
    BY <2>1 DEF ShutdownStops, ShutdownStep, S!Stop
  <2>2. CASE ShutdownStopped
    BY <2>2 DEF ShutdownStopped, ShutdownStep, S!StopReturns
  <2>3. CASE ShutdownCancels
    BY <2>3 DEF ShutdownStep, ShutdownCancels
  <2>4. CASE ShutdownCloses
    BY <2>4 DEF ShutdownStep, ShutdownCloses
  <2>5. CASE ShutdownDone
    BY <2>5 DEF ShutdownStep, ShutdownDone
  <2>6. CASE ShutdownTimesOut
    BY <2>6, Zenon DEF ShutdownStep, ShutdownTimesOut
  <2> QED
    BY <1>7, <2>1, <2>2, <2>3, <2>4, <2>5, <2>6, Zenon DEF Shutdown
<1>8. CASE UNCHANGED vars
  BY <1>8, Zenon DEF vars
<1> QED
  BY <1>1, <1>2, <1>3, <1>4, <1>5, <1>6, <1>7, <1>8, Zenon DEF Next, OnFlush

\* Nothing is sent after a worker has exited, as Shutdown closed the channel
\* after the last send; and wg.Wait() outlives workers and deliveries.
LEMMA WorkersStep ==
  ASSUME WorkersOK, SendersOK, QueueOK, SuppressorOK, [Next]_vars
  PROVE  WorkersOK'
<1> USE DEF WorkersOK, queueVars, deliveryVars
<1>0. ASSUME UNCHANGED <<loops, closed, dispatchCh, working, shutdown, deliveries>>
      PROVE  WorkersOK'
  BY <1>0
<1>1. CASE \/ Edit \/ RefreshReadsRules \/ RefreshReadsChannels \/ RefreshFails
           \/ ContextCancelled
           \/ \E h \in Handlers : HandleEvent(h) \/ RecordNext(h)
           \/ \E k \in S!Keys : Timer(k)
           \/ \E f \in inflight : FlushNoChannels(f) \/ FlushResolves(f)
           \/ \E d \in deliveries : DeliveryTries(d)
           \/ UNCHANGED vars
  <2>1. UNCHANGED <<loops, closed, dispatchCh, working, shutdown, deliveries>>
    BY <1>1
       DEF Edit, RefreshReadsRules, RefreshReadsChannels, RefreshFails,
           ContextCancelled, HandleEvent, RecordNext, Timer, FlushNoChannels,
           FlushResolves, DeliveryTries, vars
  <2> QED
    BY <2>1, <1>0
<1>2. CASE RefreshExits
  <2>1. Workers \ loops' = Workers \ loops /\ loops # {}
    BY <1>2, EngineAssumption DEF RefreshExits
  <2> QED
    BY <1>2, <2>1 DEF RefreshExits
<1>3. ASSUME NEW j \in resolved, FlushSends(j) PROVE WorkersOK'
  <2>1. ~closed
    BY Zenon DEF SuppressorOK, S!NoFlushAfterStop, SendersOK
  <2>2. Workers \ loops' = {} /\ UNCHANGED <<shutdown, loops, deliveries>>
    BY <1>3, <2>1 DEF FlushSends
  <2> QED
    BY <2>2
<1>4. ASSUME NEW w \in Workers, WorkerTakes(w) PROVE WorkersOK'
  <2>1. Workers \ loops' = {} /\ UNCHANGED <<shutdown, loops, deliveries>>
    BY <1>4 DEF WorkerTakes
  <2> QED
    BY <2>1
<1>5. ASSUME NEW w \in Workers, WorkerStarts(w) PROVE WorkersOK'
  <2>1. w \in loops
    BY <1>5 DEF WorkerStarts
  <2>2. \A v \in Workers \ loops : working'[v] = working[v]
    BY <1>5, <2>1, Zenon DEF WorkerStarts, QueueOK
  <2> QED
    BY <1>5, <2>1, <2>2 DEF WorkerStarts
<1>6. ASSUME NEW w \in Workers, WorkerExits(w) PROVE WorkersOK'
  BY <1>6 DEF WorkerExits
<1>7. ASSUME NEW d \in deliveries, DeliveryEnds(d) PROVE WorkersOK'
  BY <1>7 DEF DeliveryEnds
<1>8. CASE Shutdown
  <2> USE DEF Shutdown, ShutdownStep, ShutdownStops, ShutdownStopped,
              ShutdownCancels, ShutdownCloses, ShutdownDone, ShutdownTimesOut
  <2>1. UNCHANGED <<loops, dispatchCh, working, deliveries>>
    BY <1>8, Zenon
  <2>2. closed' = closed \/ closed' = TRUE
    BY <1>8, Zenon
  <2>3. shutdown' = "done" => loops = {} /\ deliveries = {}
    BY <1>8
  <2> HIDE DEF Shutdown
  <2> QED
    BY <2>1, <2>2, <2>3
<1> QED
  BY <1>1, <1>2, <1>3, <1>4, <1>5, <1>6, <1>7, <1>8
     DEF Next, Refresh, OnFlush, Worker

-----------------------------------------------------------------------------
(* Where a flush is *)

FlushesOf(q) == {q[i].flush : i \in 1..Len(q)}
Distinct(q)  == \A i, j \in 1..Len(q) : q[i].flush = q[j].flush => i = j

\* A job sent on dispatchCh adds its flush to those queued.
LEMMA QueueAppend ==
  ASSUME NEW q \in Seq(Job), NEW j \in Job
  PROVE  /\ FlushesOf(Append(q, j)) = FlushesOf(q) \cup {j.flush}
         /\ Distinct(q) /\ j.flush \notin FlushesOf(q) => Distinct(Append(q, j))
<1> DEFINE a == Append(q, j)
<1>1. /\ Len(q) \in Nat
      /\ Len(a) = Len(q) + 1
      /\ \A i \in 1..Len(q) : a[i] = q[i]
      /\ a[Len(q) + 1] = j
  BY AppendProperties, LenProperties
<1> HIDE DEF a
<1>2. FlushesOf(a) = FlushesOf(q) \cup {j.flush}
  <2>1. \A i \in 1..Len(a) : i \in 1..Len(q) \/ i = Len(q) + 1
    BY <1>1
  <2>2. 1..Len(q) \subseteq 1..Len(a) /\ Len(q) + 1 \in 1..Len(a)
    BY <1>1
  <2> QED
    BY <1>1, <2>1, <2>2 DEF FlushesOf
<1>3. ASSUME Distinct(q), j.flush \notin FlushesOf(q) PROVE Distinct(a)
  BY <1>1, <1>3 DEF Distinct, FlushesOf
<1> QED
  BY <1>2, <1>3 DEF a

\* A job received from dispatchCh takes its flush from those queued.
LEMMA QueueTail ==
  ASSUME NEW q \in Seq(Job), q # <<>>, Distinct(q)
  PROVE  /\ FlushesOf(Tail(q)) = FlushesOf(q) \ {Head(q).flush}
         /\ Head(q).flush \in FlushesOf(q)
         /\ Distinct(Tail(q))
<1> DEFINE t == Tail(q)
<1>1. /\ Len(q) \in Nat
      /\ Len(t) = Len(q) - 1
      /\ \A i \in 1..Len(t) : t[i] = q[i + 1]
      /\ Head(q) = q[1]
      /\ 1 \in 1..Len(q)
  BY HeadTailProperties, LenProperties, EmptySeq
<1> HIDE DEF t
<1>2. ASSUME NEW f PROVE f \in FlushesOf(t) <=> f \in FlushesOf(q) /\ f # Head(q).flush
  <2>1. ASSUME f \in FlushesOf(t) PROVE f \in FlushesOf(q) /\ f # Head(q).flush
    <3>1. PICK i \in 1..Len(t) : f = t[i].flush
      BY <2>1 DEF FlushesOf
    <3>2. i + 1 \in 1..Len(q) /\ i + 1 # 1 /\ f = q[i + 1].flush
      BY <1>1, <3>1
    <3> QED
      BY <1>1, <3>2 DEF FlushesOf, Distinct
  <2>2. ASSUME f \in FlushesOf(q), f # Head(q).flush PROVE f \in FlushesOf(t)
    <3>1. PICK i \in 1..Len(q) : f = q[i].flush
      BY <2>2 DEF FlushesOf
    <3>2. i - 1 \in 1..Len(t) /\ t[i - 1] = q[(i - 1) + 1] /\ (i - 1) + 1 = i
      BY <1>1, <2>2, <3>1
    <3> QED
      BY <3>1, <3>2 DEF FlushesOf
  <2> QED
    BY <2>1, <2>2
<1>3. Distinct(t)
  <2> SUFFICES ASSUME NEW i \in 1..Len(t), NEW j \in 1..Len(t), t[i].flush = t[j].flush
               PROVE  i = j
    BY DEF Distinct
  <2>1. i + 1 \in 1..Len(q) /\ j + 1 \in 1..Len(q)
    BY <1>1
  <2>2. q[i + 1].flush = q[j + 1].flush
    BY <1>1
  <2>3. i + 1 = j + 1
    BY <2>1, <2>2 DEF Distinct
  <2> QED
    BY <1>1, <2>3
<1>4. FlushesOf(t) = FlushesOf(q) \ {Head(q).flush}
  BY <1>2
<1>5. Head(q).flush \in FlushesOf(q)
  BY <1>1 DEF FlushesOf
<1> QED
  BY <1>3, <1>4, <1>5 DEF t

\* A queue of distinct flushes holds as many as it is long.
LEMMA QueueCount ==
  ASSUME NEW q \in Seq(Job), Distinct(q)
  PROVE  IsFiniteSet(FlushesOf(q)) /\ Cardinality(FlushesOf(q)) = Len(q)
<1> DEFINE g == [i \in 1..Len(q) |-> q[i].flush]
<1>1. Len(q) \in Nat
  BY LenProperties
<1>2. g \in Bijection(1..Len(q), FlushesOf(q))
  <2>1. g \in [1..Len(q) -> FlushesOf(q)]
    BY DEF FlushesOf
  <2>2. \A i, j \in 1..Len(q) : g[i] = g[j] => i = j
    BY DEF Distinct
  <2>3. \A f \in FlushesOf(q) : \E i \in 1..Len(q) : g[i] = f
    BY DEF FlushesOf
  <2> HIDE DEF g
  <2> QED
    BY <2>1, <2>2, <2>3 DEF Bijection, Injection, IsInjective, Surjection
<1>3. ExistsBijection(1..Len(q), FlushesOf(q))
  BY <1>2 DEF ExistsBijection
<1>4. IsFiniteSet(1..Len(q)) /\ Cardinality(1..Len(q)) = Len(q)
  BY <1>1, FS_Interval
<1> QED
  BY <1>3, <1>4, FS_Bijection

\* A flush that a step starts was never emitted before: it covers a match that
\* no earlier flush of its key covers.
LEMMA NewFlushes ==
  ASSUME FlushesAreNew, FlushesSettled
  PROVE  /\ \A f \in inflight' \ inflight :
              f \notin emitted /\ f \in S!Flush /\ f.upto <= Settled(f.key)'
         /\ \A f \in emitted : f.upto <= Settled(f.key)'
<1>1. \A f \in S!Flush : f.key \in S!Keys /\ f.upto \in Nat
  BY DEF S!Flush
<1>2. ASSUME NEW f \in inflight' \ inflight PROVE f \notin emitted
  BY <1>1 DEF FlushesAreNew, FlushesSettled
<1>3. ASSUME NEW f \in emitted PROVE f.upto <= Settled(f.key)'
  BY <1>1 DEF FlushesAreNew, FlushesSettled
<1> QED
  BY <1>2, <1>3 DEF FlushesAreNew

\* Every step keeps each flush in one place only, and what is flushed settled.
LEMMA PlacesStep ==
  ASSUME PlacesOK, FlushesSettled, SendersOK, QueueOK, FlushesAreNew, [Next]_vars
  PROVE  PlacesOK' /\ FlushesSettled'
<1>0. /\ \A f \in inflight' \ inflight :
           f \notin emitted /\ f \in S!Flush /\ f.upto <= Settled(f.key)'
      /\ \A f \in emitted : f.upto <= Settled(f.key)'
      /\ \E f : inflight' \subseteq inflight \cup {f}
  BY NewFlushes DEF FlushesAreNew
<1>a. Queued = FlushesOf(dispatchCh) /\ Queued' = FlushesOf(dispatchCh')
  BY DEF Queued, FlushesOf
<1> DEFINE Places(fl, dr, q, di, em) ==
      /\ em = fl \cup dr \cup FlushesOf(q) \cup di
      /\ fl \cap (dr \cup FlushesOf(q) \cup di) = {}
      /\ dr \cap (FlushesOf(q) \cup di) = {}
      /\ FlushesOf(q) \cap di = {}
      /\ Distinct(q)
      /\ IsFiniteSet(em)
<1>b. Places(inflight, dropped, dispatchCh, dispatched, emitted)
  BY <1>a DEF PlacesOK, Distinct
<1>c. ASSUME Places(inflight', dropped', dispatchCh', dispatched', emitted')
      PROVE  PlacesOK'
  BY <1>c, <1>a DEF PlacesOK, Distinct
<1>d. ASSUME UNCHANGED emitted PROVE FlushesSettled'
  BY <1>0, <1>d DEF FlushesSettled
<1>1. ASSUME inflight \subseteq inflight', Emits,
             UNCHANGED <<dropped, dispatchCh, dispatched>>
      PROVE  PlacesOK' /\ FlushesSettled'
  <2>1. PICK f : inflight' \subseteq inflight \cup {f}
    BY <1>0
  <2>2. emitted' = emitted \/ emitted' = emitted \cup {f}
    BY <1>1, <1>b, <2>1 DEF Emits
  <2>3. IsFiniteSet(emitted')
    BY <1>b, <2>2, FS_AddElement
  <2>4. PlacesOK'
    BY <1>0, <1>1, <1>b, <1>c, <2>3 DEF Emits
  <2>5. FlushesSettled'
    BY <1>0, <1>1, <1>b DEF Emits, FlushesSettled
  <2> QED
    BY <2>4, <2>5
<1>2. ASSUME NEW h \in Handlers, RecordNext(h) PROVE PlacesOK' /\ FlushesSettled'
  <2>1. inflight \subseteq inflight'
    BY <1>2, SuppressorKeepsFlushes DEF RecordNext
  <2> QED
    BY <1>1, <1>2, <2>1 DEF RecordNext, queueVars
<1>3. ASSUME NEW k \in S!Keys, Timer(k) PROVE PlacesOK' /\ FlushesSettled'
  <2>1. inflight \subseteq inflight'
    BY <1>3, SuppressorKeepsFlushes DEF Timer
  <2> QED
    BY <1>1, <1>3, <2>1 DEF Timer, queueVars
<1>4. ASSUME NEW f \in inflight, FlushNoChannels(f)
      PROVE  PlacesOK' /\ FlushesSettled'
  <2>1. /\ inflight' = inflight \ {f}
        /\ dropped' = dropped \cup {f}
        /\ UNCHANGED <<dispatchCh, dispatched, emitted>>
    BY <1>4 DEF FlushNoChannels, S!FlushReturns, queueVars
  <2>2. PlacesOK'
    BY <2>1, <1>b, <1>c
  <2> QED
    BY <2>1, <2>2, <1>d
<1>5. ASSUME NEW j \in resolved, FlushSends(j) PROVE PlacesOK' /\ FlushesSettled'
  <2>1. /\ inflight' = inflight \ {j.flush}
        /\ j.flush \in inflight
        /\ UNCHANGED <<dispatched, emitted>>
    BY <1>5 DEF FlushSends, S!FlushReturns
  <2>2. CASE dispatchCh' = Append(dispatchCh, j) /\ UNCHANGED dropped
    <3>1. /\ FlushesOf(dispatchCh') = FlushesOf(dispatchCh) \cup {j.flush}
          /\ Distinct(dispatchCh')
      BY <1>b, <2>1, <2>2, QueueAppend, Zenon DEF QueueOK
    <3>2. PlacesOK'
      BY <1>b, <1>c, <2>1, <2>2, <3>1
    <3> QED
      BY <1>d, <2>1, <3>2
  <2>3. CASE dropped' = dropped \cup {j.flush} /\ UNCHANGED dispatchCh
    <3>1. PlacesOK'
      BY <1>b, <1>c, <2>1, <2>3
    <3> QED
      BY <1>d, <2>1, <3>1
  <2> QED
    BY <1>5, <2>2, <2>3 DEF FlushSends
<1>6. ASSUME NEW w \in Workers, WorkerTakes(w) PROVE PlacesOK' /\ FlushesSettled'
  <2>1. /\ dispatchCh # <<>>
        /\ dispatchCh' = Tail(dispatchCh)
        /\ dispatched' = dispatched \cup {Head(dispatchCh).flush}
        /\ UNCHANGED <<inflight, dropped, emitted>>
    BY <1>6 DEF WorkerTakes, suppressorVars
  <2>2. /\ FlushesOf(dispatchCh') = FlushesOf(dispatchCh) \ {Head(dispatchCh).flush}
        /\ Head(dispatchCh).flush \in FlushesOf(dispatchCh)
        /\ Distinct(dispatchCh')
    BY <1>b, <2>1, QueueTail, Zenon DEF QueueOK
  <2>3. PlacesOK'
    BY <1>b, <1>c, <2>1, <2>2
  <2> QED
    BY <1>d, <2>1, <2>3
<1>7. CASE \/ Edit \/ Refresh \/ ContextCancelled \/ Shutdown
           \/ \E h \in Handlers : HandleEvent(h)
           \/ \E f \in inflight : FlushResolves(f)
           \/ \E w \in Workers : WorkerStarts(w) \/ WorkerExits(w)
           \/ \E d \in deliveries : DeliveryTries(d) \/ DeliveryEnds(d)
           \/ UNCHANGED vars
  <2>1. UNCHANGED <<inflight, dropped, dispatchCh, dispatched, emitted>>
    BY <1>7, Zenon
       DEF Edit, Refresh, RefreshReadsRules, RefreshReadsChannels, RefreshFails,
           RefreshExits, ContextCancelled, HandleEvent, FlushResolves,
           WorkerStarts, WorkerExits, DeliveryTries, DeliveryEnds, Shutdown,
           ShutdownStops, ShutdownStopped, ShutdownCancels, ShutdownCloses,
           ShutdownDone, ShutdownTimesOut, S!Stop, S!StopReturns, vars,
           suppressorVars, queueVars, seen
  <2>2. PlacesOK'
    BY <2>1 DEF PlacesOK, Queued
  <2> QED
    BY <1>d, <2>1, <2>2
<1> QED
  BY <1>2, <1>3, <1>4, <1>5, <1>6, <1>7 DEF Next, OnFlush, Worker

-----------------------------------------------------------------------------
(* One delivery per channel *)

\* Every step keeps the deliveries of a job apart from those of the others.
LEMMA TasksStep ==
  ASSUME TasksOK, QueueOK, PlacesOK, [Next]_vars
  PROVE  TasksOK'
<1>0. /\ \A d : d \in Unstarted <=> \E w \in Workers : d \in working[w]
      /\ \A d : d \in Unstarted' <=> \E w \in Workers : d \in working'[w]
  BY DEF Unstarted
<1> USE DEF TasksOK, OneDeliveryPerChannel, Tasks
<1>1. CASE \/ Edit \/ Refresh \/ ContextCancelled \/ Shutdown \/ OnFlush
           \/ \E h \in Handlers : HandleEvent(h) \/ RecordNext(h)
           \/ \E k \in S!Keys : Timer(k)
           \/ \E w \in Workers : WorkerExits(w)
           \/ \E d \in deliveries : DeliveryTries(d)
           \/ UNCHANGED vars
  <2>1. UNCHANGED <<working, deliveries, concluded, untried, dispatched>>
    BY <1>1, Zenon
       DEF Edit, Refresh, RefreshReadsRules, RefreshReadsChannels, RefreshFails,
           RefreshExits, ContextCancelled, HandleEvent, RecordNext, Timer,
           OnFlush, FlushNoChannels, FlushResolves, FlushSends, WorkerExits,
           DeliveryTries, Shutdown, ShutdownStops, ShutdownStopped,
           ShutdownCancels, ShutdownCloses, ShutdownDone, ShutdownTimesOut,
           vars, deliveryVars, seen
  <2> QED
    BY <2>1 DEF Unstarted
<1>2. ASSUME NEW w \in Workers, WorkerTakes(w) PROVE TasksOK'
  <2> DEFINE f == Head(dispatchCh).flush
  <2> DEFINE new == {[flush |-> f, channel |-> c] : c \in Head(dispatchCh).enabled}
  <2>1. /\ \A d \in new : d.flush = f
        /\ working' = [working EXCEPT ![w] = new]
    BY <1>2 DEF WorkerTakes
  <2>2. /\ working[w] = {}
        /\ dispatched' = dispatched \cup {f}
        /\ UNCHANGED <<deliveries, concluded, untried>>
    BY <1>2 DEF WorkerTakes, deliveryVars
  <2>3. f \notin dispatched
    <3>1. f \in FlushesOf(dispatchCh)
      BY <1>2, QueueTail, Zenon DEF WorkerTakes, QueueOK, PlacesOK, Distinct
    <3> QED
      BY <3>1 DEF PlacesOK, Queued, FlushesOf
  <2> HIDE DEF f, new
  <2>4. \A v \in Workers : working'[v] = IF v = w THEN new ELSE working[v]
    BY <2>1, Zenon DEF QueueOK
  <2>5. new \cap Tasks = {}
    BY <2>1, <2>3
  <2>6. OneDeliveryPerChannel'
    BY <1>0, <2>2, <2>4, <2>5
  <2>7. \A u, v \in Workers : u # v => working'[u] \cap working'[v] = {}
    BY <1>0, <2>4, <2>5
  <2>8. \A d \in Tasks' : d.flush \in dispatched'
    BY <1>0, <2>1, <2>2, <2>4
  <2> QED
    BY <2>6, <2>7, <2>8
<1>3. ASSUME NEW w \in Workers, WorkerStarts(w) PROVE TasksOK'
  <2>1. PICK d \in working[w] :
          /\ deliveries' = deliveries \cup {d}
          /\ working' = [working EXCEPT ![w] = @ \ {d}]
    BY <1>3, Zenon DEF WorkerStarts
  <2>2. UNCHANGED <<concluded, untried, dispatched>>
    BY <1>3 DEF WorkerStarts, seen
  <2>3. \A v \in Workers :
          working'[v] = IF v = w THEN working[w] \ {d} ELSE working[v]
    BY <2>1, Zenon DEF QueueOK
  <2>4. \A e : e \in Unstarted' <=> e \in Unstarted /\ e # d
    BY <1>0, <2>1, <2>3
  <2> QED
    BY <1>0, <2>1, <2>2, <2>3, <2>4
<1>4. ASSUME NEW d \in deliveries, DeliveryEnds(d) PROVE TasksOK'
  <2>1. /\ UNCHANGED <<working, dispatched>>
        /\ deliveries' = deliveries \ {d}
        /\ \/ concluded' = concluded \cup {d} /\ untried' = untried
           \/ untried' = untried \cup {d} /\ concluded' = concluded
    BY <1>4 DEF DeliveryEnds
  <2>2. Unstarted' = Unstarted
    BY <2>1 DEF Unstarted
  <2> QED
    BY <2>1, <2>2
<1> QED
  BY <1>1, <1>2, <1>3, <1>4 DEF Next, Worker

-----------------------------------------------------------------------------
(* What the invariants imply *)

\* A flush in one place only, handled by one worker, is delivered once.
LEMMA DeliveredOnceState ==
  ASSUME PlacesOK, QueueOK, SendersOK, TasksOK
  PROVE  FlushesDeliveredOnce
<1>1. Queued = FlushesOf(dispatchCh) /\ Distinct(dispatchCh)
  BY DEF PlacesOK, Queued, FlushesOf, Distinct
<1>2. IsFiniteSet(Queued) /\ Cardinality(Queued) = Len(dispatchCh)
  BY <1>1, QueueCount, Zenon DEF QueueOK
<1>3. /\ IsFiniteSet(inflight)
      /\ IsFiniteSet(dropped)
      /\ IsFiniteSet(dispatched)
  BY FS_Subset DEF PlacesOK
<1>4. ASSUME NEW A, NEW B, IsFiniteSet(A), IsFiniteSet(B), A \cap B = {}
      PROVE  /\ IsFiniteSet(A \cup B)
             /\ Cardinality(A \cup B) = Cardinality(A) + Cardinality(B)
  <2>1. /\ IsFiniteSet(A \cup B)
        /\ Cardinality(A \cup B)
             = Cardinality(A) + Cardinality(B) - Cardinality(A \cap B)
    BY <1>4, FS_Union
  <2>2. Cardinality(A) \in Nat /\ Cardinality(B) \in Nat
    BY <1>4, FS_CardinalityType
  <2> QED
    BY <1>4, <2>1, <2>2, FS_EmptySet
<1>5. PICK A : A = Queued \cup dispatched
  BY Zenon
<1>6. /\ IsFiniteSet(A)
      /\ Cardinality(A) = Len(dispatchCh) + Cardinality(dispatched)
  <2>1. Queued \cap dispatched = {}
    BY DEF PlacesOK
  <2>2. IsFiniteSet(Queued)
    BY <1>2, Zenon
  <2>3. /\ IsFiniteSet(Queued \cup dispatched)
        /\ Cardinality(Queued \cup dispatched) = Cardinality(Queued) + Cardinality(dispatched)
    BY <1>3, <1>4, <2>1, <2>2
  <2> QED
    BY <1>2, <1>5, <2>3, Zenon
<1>7. PICK B : B = dropped \cup A
  BY Zenon
<1>8. /\ IsFiniteSet(B)
      /\ Cardinality(B) = Cardinality(dropped) + Cardinality(A)
  <2>1. dropped \cap A = {}
    BY <1>5 DEF PlacesOK
  <2> QED
    BY <1>3, <1>4, <1>6, <1>7, <2>1, Zenon
<1>9. emitted = inflight \cup B /\ inflight \cap B = {}
  BY <1>5, <1>7 DEF PlacesOK
<1>10. Cardinality(emitted) = Cardinality(inflight) + Cardinality(B)
  BY <1>3, <1>4, <1>8, <1>9
<1>11. /\ Cardinality(inflight) \in Nat
       /\ Cardinality(dropped) \in Nat
       /\ Cardinality(dispatched) \in Nat
       /\ Len(dispatchCh) \in Nat
  BY <1>3, FS_CardinalityType, LenProperties, Zenon DEF QueueOK
<1>12. Cardinality(emitted) = Cardinality(inflight) + Cardinality(dropped)
                                + Len(dispatchCh) + Cardinality(dispatched)
  BY <1>6, <1>8, <1>10, <1>11
<1>13. {j.flush : j \in resolved} \subseteq inflight
  BY Zenon DEF SendersOK
<1> QED
  BY <1>12, <1>13 DEF FlushesDeliveredOnce, FlushInOnePlace, PlacesOK, TasksOK

\* Once Shutdown has returned, nothing is left to send, queue or deliver.
LEMMA ShutdownState ==
  ASSUME SendersOK, WorkersOK, PlacesOK, SuppressorOK
  PROVE  ShutdownIsClean
<1>1. closed => inflight = {} /\ resolved = {}
  BY Zenon DEF SendersOK, SuppressorOK, S!NoFlushAfterStop
<1>2. NoSendOnClosed
  BY <1>1, Zenon DEF NoSendOnClosed, SendersOK
<1>3. ASSUME shutdown = "done"
      PROVE  /\ dispatchCh = <<>> /\ resolved = {} /\ Unstarted = {}
             /\ deliveries = {}
             /\ emitted = dropped \cup dispatched
  <2>1. loops = {} /\ deliveries = {} /\ closed
    BY <1>3 DEF WorkersOK, SendersOK
  <2>2. dispatchCh = <<>>
    BY <2>1, EngineAssumption DEF WorkersOK
  <2>3. Unstarted = {}
    BY <2>1 DEF WorkersOK, Unstarted
  <2>4. Queued = {}
    BY <2>2, EmptySeq DEF Queued
  <2> QED
    BY <1>1, <2>1, <2>2, <2>3, <2>4 DEF PlacesOK
<1> QED
  BY <1>2, <1>3 DEF ShutdownIsClean, CleanAfterShutdown

-----------------------------------------------------------------------------
(* The suppressor's theorems, in the engine *)

P == INSTANCE SuppressorProofs
       WITH Windows <- {windowsFor(row.windows) : row \in RuleRows}

\* The windows the engine evaluates rules with are as the suppressor needs them.
LEMMA SuppressorConstants ==
  /\ IsFiniteSet(Rules)
  /\ IsFiniteSet(Groups)
  /\ {windowsFor(row.windows) : row \in RuleRows}
       \subseteq [silence : Nat \ {0}, silenceMax : Nat, coalesce : Nat]
  /\ maxFingerprintsPerRule \in Nat
  /\ maxFingerprintsGlobal \in Nat
  /\ MaxMatches \in Nat
<1>1. ASSUME NEW row \in RuleRows
      PROVE  windowsFor(row.windows)
               \in [silence : Nat \ {0}, silenceMax : Nat, coalesce : Nat]
  BY <1>1, EngineAssumption DEF windowsFor
<1> QED
  BY <1>1, EngineAssumption

\* S and P are the same suppressor, and count alike.
LEMMA SameFinite == \A T : IsFiniteSet(T) <=> P!IsFiniteSet(T)
  BY DEF IsFiniteSet, P!IsFiniteSet

\* Both instances of the suppressor count with the same Cardinality.
LEMMA SameCardinality == \A T : S!Cardinality(T) = P!Cardinality(T)
  BY DEF S!Cardinality, P!Cardinality

\* Both instances start in the same states.
LEMMA SameInit == S!Init <=> P!Init
  BY DEF S!Init, P!Init, S!Keys, P!Keys, S!Clean, P!Clean

\* Record is the same action in both instances.
LEMMA SameRecord ==
  ASSUME NEW k, NEW w
  PROVE  S!Record(k, w) <=> P!Record(k, w)
<1>0. /\ S!Live = P!Live
      /\ S!RuleOf(k) = P!RuleOf(k)
      /\ S!AtCap(S!RuleOf(k)) <=> P!AtCap(P!RuleOf(k))
      /\ S!Offer(k) <=> P!Offer(k)
      /\ S!Refuse(k) <=> P!Refuse(k)
  <2>1. S!Live = P!Live
    BY Zenon DEF S!Live, P!Live, S!Keys, P!Keys
  <2>2. S!RuleOf(k) = P!RuleOf(k)
    BY DEF S!RuleOf, P!RuleOf
  <2>3. S!AtCap(S!RuleOf(k)) <=> P!AtCap(P!RuleOf(k))
    BY <2>1, <2>2, SameCardinality DEF S!AtCap, P!AtCap
  <2>4. S!Offer(k) <=> P!Offer(k)
    BY DEF S!Offer, P!Offer
  <2>5. S!Refuse(k) <=> P!Refuse(k)
    BY DEF S!Refuse, P!Refuse, S!mapVars, P!mapVars, S!timerVars, P!timerVars
  <2> QED
    BY <2>1, <2>2, <2>3, <2>4, <2>5
<1>1. S!RecordStopped(k) <=> P!RecordStopped(k)
  BY <1>0 DEF S!RecordStopped, P!RecordStopped
<1>2. S!RecordTracked(k) <=> P!RecordTracked(k)
  BY <1>0 DEF S!RecordTracked, P!RecordTracked, S!timerVars, P!timerVars
<1>3. S!RecordCapped(k) <=> P!RecordCapped(k)
  BY <1>0 DEF S!RecordCapped, P!RecordCapped
<1> USE DEF S!Install, P!Install, S!NewFingerprint, P!NewFingerprint, S!Clean,
            P!Clean
<1>4. S!RecordCoalesce(k, w) <=> P!RecordCoalesce(k, w)
  BY <1>0 DEF S!RecordCoalesce, P!RecordCoalesce
<1>5. S!RecordImmediate(k, w) <=> P!RecordImmediate(k, w)
  BY <1>0 DEF S!RecordImmediate, P!RecordImmediate, S!StartFlush, P!StartFlush
<1> QED
  BY <1>1, <1>2, <1>3, <1>4, <1>5 DEF S!Record, P!Record

\* The steps of a timer are the same in both instances.
LEMMA SameTimerStep ==
  ASSUME NEW k
  PROVE  S!TimerStep(k) <=> P!TimerStep(k)
<1> USE DEF S!mapVars, P!mapVars, S!timerVars, P!timerVars, S!tally, P!tally,
            S!Live, P!Live, S!Keys, P!Keys, S!RuleOf, P!RuleOf, S!Clean, P!Clean,
            S!Callback, P!Callback, S!StartFlush, P!StartFlush
<1>1. ASSUME NEW f
      PROVE  S!TimerFires(k, f) <=> P!TimerFires(k, f)
  BY DEF S!TimerFires, P!TimerFires
<1>2. ASSUME NEW f
      PROVE  S!CallbackTooLate(k, f) <=> P!CallbackTooLate(k, f)
  BY DEF S!CallbackTooLate, P!CallbackTooLate
<1>3. S!flushInitial(k) <=> P!flushInitial(k)
  BY DEF S!flushInitial, P!flushInitial
<1>4. S!flushSilenceClose(k) <=> P!flushSilenceClose(k)
  BY Zenon DEF S!flushSilenceClose, P!flushSilenceClose
<1>5. S!flushSilenceDigest(k) <=> P!flushSilenceDigest(k)
  BY DEF S!flushSilenceDigest, P!flushSilenceDigest, S!NextSilence, P!NextSilence
<1> QED
  BY <1>1, <1>2, <1>3, <1>4, <1>5 DEF S!TimerStep, P!TimerStep

\* Both instances take the same steps.
LEMMA SameNext == S!Next <=> P!Next
<1>1. \A f : S!FlushReturns(f) <=> P!FlushReturns(f)
  BY DEF S!FlushReturns, P!FlushReturns, S!mapVars, P!mapVars, S!timerVars,
         P!timerVars, S!tally, P!tally
<1>2. S!Stop <=> P!Stop
  BY DEF S!Stop, P!Stop, S!Keys, P!Keys, S!Clean, P!Clean
<1>3. S!StopReturns <=> P!StopReturns
  BY DEF S!StopReturns, P!StopReturns, S!mapVars, P!mapVars, S!timerVars,
         P!timerVars, S!tally, P!tally
<1>4. S!Keys = P!Keys
  BY DEF S!Keys, P!Keys
<1> QED
  BY <1>1, <1>2, <1>3, <1>4, SameRecord, SameTimerStep DEF S!Next, P!Next

\* A step of the engine is one of P or leaves it alone.
LEMMA SameSteps == [S!Next]_(S!vars) => [P!Next]_(P!vars)
  BY SameNext
     DEF S!vars, P!vars, S!mapVars, P!mapVars, S!timerVars, P!timerVars,
         S!tally, P!tally

PFacts == P!TypeOK /\ P!OneTimerPerFingerprint /\ P!FingerprintShape
            /\ P!NoFlushAfterStop

\* So all that is proved of the suppressor holds inside the engine.
LEMMA SuppressorFacts == Spec => []PFacts
<1>1. SuppressorSpec => P!Spec
  BY SameSteps, SameInit, PTL DEF SuppressorSpec, S!Spec, P!Spec
<1>2. /\ P!Spec => []P!TypeOK
      /\ P!Spec => []P!OneTimerPerFingerprint
      /\ P!Spec => []P!FingerprintShape
      /\ P!Spec => []P!NoFlushAfterStop
  BY SuppressorConstants, SameFinite, P!TypeCorrect, P!TimersCorrect,
     P!ShapeCorrect, P!StopIsFinal
<1> QED
  BY <1>1, <1>2, UsesSuppressor, PTL DEF PFacts

\* What SuppressorProofs proves, in the words of the engine's instance.
LEMMA FactsInEngine == PFacts => SuppressorOK
  BY DEF PFacts, SuppressorOK, S!TypeOK, P!TypeOK, S!Keys, P!Keys, S!Flush,
         P!Flush, S!Fingerprint, P!Fingerprint, S!NoFlushAfterStop,
         P!NoFlushAfterStop

\* A flush that a step of the engine starts is none of those that were made before.
LEMMA StepsAreNew ==
  ASSUME CacheOK, PFacts, PFacts', [Next]_vars
  PROVE  FlushesAreNew
<1>1. [P!Next]_(P!vars)
  BY EngineStepsSuppressor, SameSteps
<1>2. /\ \A j \in P!Keys : P!Settled(j) <= P!Settled(j)'
      /\ \A f \in inflight' \ inflight :
           P!Settled(f.key) < f.upto /\ f.upto <= P!Settled(f.key)'
      /\ \E f : inflight' \subseteq inflight \cup {f}
  BY <1>1, SuppressorConstants, SameFinite, P!StepFlushes DEF PFacts
<1>3. \A k \in P!Keys : P!Settled(k) \in Int /\ P!Settled(k)' \in Int
  BY DEF PFacts, P!TypeOK, P!Fingerprint, P!Settled
<1>4. S!Keys = P!Keys /\ inflight' \subseteq S!Flush
  BY DEF PFacts, P!TypeOK, S!Flush, P!Flush, S!Keys, P!Keys
<1>5. \A k : P!Settled(k) = Settled(k) /\ P!Settled(k)' = Settled(k)'
  BY DEF P!Settled, Settled
<1> QED
  BY <1>2, <1>3, <1>4, <1>5 DEF FlushesAreNew

-----------------------------------------------------------------------------
(* What the engine promises *)

\* The queued and running jobs are always well formed.
LEMMA QueueCorrect == Spec => []QueueOK
<1>1. Init => QueueOK
  <2>1. <<>> \in Seq(Job)
    BY EmptySeq
  <2> QED
    BY <2>1, Zenon DEF Init, QueueOK
<1>2. QueueOK /\ CacheOK /\ PFacts /\ [Next]_vars => QueueOK'
  BY QueueStep, FactsInEngine DEF SuppressorOK
<1> QED
  BY <1>1, <1>2, CacheCorrect, SuppressorFacts, PTL DEF Spec

\* The order of Shutdown, and at most one sender of each flush, always hold.
LEMMA SendersCorrect == Spec => []SendersOK
<1>1. Init => SendersOK
  BY DEF Init, SendersOK, S!Init
<1>2. SendersOK /\ PFacts /\ [Next]_vars => SendersOK'
  BY SendersStep, FactsInEngine
<1> QED
  BY <1>1, <1>2, SuppressorFacts, PTL DEF Spec

\* What is known of the dispatch workers always holds.
LEMMA WorkersCorrect == Spec => []WorkersOK
<1>1. Init => WorkersOK
  BY DEF Init, WorkersOK
<1>2. WorkersOK /\ SendersOK /\ QueueOK /\ PFacts /\ [Next]_vars => WorkersOK'
  BY WorkersStep, FactsInEngine
<1> QED
  BY <1>1, <1>2, QueueCorrect, SendersCorrect, SuppressorFacts, PTL DEF Spec

\* Each flush is always in one place only, and what is flushed is settled.
LEMMA PlacesCorrect == Spec => [](PlacesOK /\ FlushesSettled)
<1>1. Init => PlacesOK /\ FlushesSettled
  <2>1. Init => /\ emitted = {} /\ dropped = {} /\ dispatched = {}
                /\ dispatchCh = <<>>
    BY DEF Init
  <2>2. Init => inflight = {}
    BY DEF Init, S!Init
  <2>3. dispatchCh = <<>> => Queued = {}
    BY DEF Queued
  <2> QED
    BY <2>1, <2>2, <2>3, FS_EmptySet DEF PlacesOK, FlushesSettled
<1>2. /\ PlacesOK /\ FlushesSettled /\ SendersOK /\ QueueOK /\ CacheOK
      /\ PFacts /\ PFacts' /\ [Next]_vars
      => (PlacesOK /\ FlushesSettled)'
  BY PlacesStep, StepsAreNew
<1> QED
  BY <1>1, <1>2, QueueCorrect, SendersCorrect, CacheCorrect, SuppressorFacts, PTL
     DEF Spec

\* The deliveries of a job are always apart from those of the others.
LEMMA TasksCorrect == Spec => []TasksOK
<1>1. Init => TasksOK
  BY DEF Init, TasksOK, OneDeliveryPerChannel, Unstarted, Tasks
<1>2. TasksOK /\ QueueOK /\ PlacesOK /\ [Next]_vars => TasksOK'
  BY TasksStep
<1> QED
  BY <1>1, <1>2, QueueCorrect, PlacesCorrect, PTL DEF Spec

\* Every flush is in exactly one place and reaches a channel by one delivery,
\* whatever the handlers, timers, workers, refreshes and Shutdown do.
THEOREM DeliveredOnce == Spec => []FlushesDeliveredOnce
<1>1. PlacesOK /\ QueueOK /\ SendersOK /\ TasksOK => FlushesDeliveredOnce
  BY DeliveredOnceState
<1> QED
  BY <1>1, PlacesCorrect, QueueCorrect, SendersCorrect, TasksCorrect, PTL

\* Shutdown never lets onFlush send on the closed channel, and one that did not
\* time out has left no flush in a queue, a worker or a delivery.
THEOREM ShutdownCorrect == Spec => []ShutdownIsClean
<1>1. SendersOK /\ WorkersOK /\ PlacesOK /\ PFacts => ShutdownIsClean
  BY ShutdownState, FactsInEngine
<1> QED
  BY <1>1, SendersCorrect, WorkersCorrect, PlacesCorrect, SuppressorFacts, PTL
=============================================================================
