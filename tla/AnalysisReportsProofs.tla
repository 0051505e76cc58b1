------------------------ MODULE AnalysisReportsProofs ------------------------
(***************************************************************************)
(* Proofs about the analysis report pipeline, for every number of reports, *)
(* schedules and concurrent requests, every length of a day and of the     *)
(* firing window, and any number of faults and crashes.                    *)
(***************************************************************************)
EXTENDS AnalysisReports, SequenceTheorems, WellFoundedInduction, TLAPS

-----------------------------------------------------------------------------
(* The inductive invariants *)

Statuses  == {"pending", "running", "completed", "failed", "deleted"}
Feeds     == {"netlog", "srvlog", "applog"}
ReportRow ==
  [status : Statuses, notified : BOOLEAN, suffix : Nat, feed : Feeds,
   mode : {"daily", "weekly", "incident"}, scope : {"all", "services", "hosts"},
   end : Nat, notify : SUBSET EmailChannels, from : SchedIds \cup {None}]
SchedRow  ==
  [state : {"live"}, id : SchedIds, enabled : BOOLEAN, feed : Feeds,
   freq : {"daily", "weekly", "monthly"}, day : Nat \cup {None},
   at : 0 .. Day - 1, notify : SUBSET EmailChannels, lastRun : Nat \cup {None}]

RowsOK   == rows \in [Ids -> ReportRow \cup {Gone("none"), Gone("deleted")}]
SchedsOK ==
  /\ scheds \in [SchedIds -> SchedRow \cup {[state |-> "none"], Removed}]
  /\ \A s \in Live : scheds[s].id = s
\* The list of a tick: no schedule twice, and none that was never created.
TodoOK ==
  /\ todo \subseteq SchedRow
  /\ \A u, v \in todo : u.id = v.id => u = v
  /\ \A u \in todo : scheds[u.id].state # "none"
CallsOK ==
  /\ calls \in [Callers -> [pc : {"idle", "push", "rollback", "stamp"},
                            id : Ids \cup {None}, sched : SchedIds \cup {None}]]
  /\ \A p \in Callers : calls[p].pc # "idle" => calls[p].id \in Ids
WorkerOK ==
  /\ queue \in Seq(Ids)
  /\ worker \in [pc : {"idle", "mark", "run", "notify", "send"},
                  id : Ids \cup {None}, notify : SUBSET EmailChannels]
  /\ worker.pc # "idle" => worker.id \in Ids
  /\ mailed \subseteq Ids
ProcessOK ==
  /\ now \in Nat /\ faults \in Nat /\ crashes \in Nat
  /\ up \in {"up", "stopping", "down"}
  /\ crashes = 0 => up = "up"

DataOK == RowsOK /\ SchedsOK /\ TodoOK /\ CallsOK /\ WorkerOK /\ ProcessOK

\* The row of the report the worker is at, and of those it has mailed.
MailOK ==
  /\ worker.pc = "run" => rows[worker.id].status \in {"running", "deleted"}
  /\ worker.pc \in {"notify", "send"}
       => rows[worker.id].status \in {"completed", "deleted"}
  /\ up = "down" => worker = Resting
  /\ MailedReportsAreStored

\* A report the ticker inserted is still being enqueued, or its schedule and
\* every listed copy of it carry a later stamp.
Ran(s, i) == s.lastRun \in Nat /\ rows[i].end <= s.lastRun
Enqueuing(i) ==
  /\ calls[Scheduler].pc # "idle" /\ calls[Scheduler].id = i
  /\ calls[Scheduler].sched = rows[i].from
  /\ \A u \in todo : u.id # rows[i].from
Stamped(i) ==
  /\ rows[i].from \in Live => Ran(scheds[rows[i].from], i)
  /\ \A u \in todo : u.id = rows[i].from => Ran(u, i)
Settled(i) ==
  /\ rows[i].end <= now
  /\ scheds[rows[i].from].state # "none"
  /\ Enqueuing(i) \/ Stamped(i)
FiringOK ==
  faults = 0 /\ crashes = 0 =>
    (\A i \in Ids : rows[i].from # None => Settled(i)) /\ FiresOncePerWindow

\* A step that only loses firings, keeps the stamps of the schedules, shortens
\* the list and leaves the ticker's Enqueue in progress.
RowsCarried ==
  \A i \in Ids : \/ rows'[i].from = None
                 \/ rows'[i].from = rows[i].from /\ rows'[i].end = rows[i].end
SchedsCarried ==
  \A s \in SchedIds :
    /\ scheds[s].state # "none" => scheds'[s].state # "none"
    /\ s \in Live' => \/ scheds[s].state = "none"
                      \/ s \in Live /\ scheds'[s].lastRun = scheds[s].lastRun
CallCarried ==
  calls[Scheduler].pc # "idle" =>
    /\ calls'[Scheduler].pc # "idle"
    /\ calls'[Scheduler].id = calls[Scheduler].id
    /\ calls'[Scheduler].sched = calls[Scheduler].sched
Carried ==
  /\ now' \in Nat /\ now <= now' /\ todo' \subseteq todo
  /\ RowsCarried /\ SchedsCarried /\ CallCarried

-----------------------------------------------------------------------------
(* Operators *)

\* A non-empty set of naturals has a least element.
LEMMA HasLeast ==
  ASSUME NEW S, S \subseteq Nat, S # {}
  PROVE  \E x \in S : \A y \in S : x <= y
<1>1. PICK x \in S : \A y \in S : ~(<<y, x>> \in OpToRel(<, Nat))
  BY WFMin, NatLessThanWellFounded, Zenon
<1>2. ASSUME NEW y \in S PROVE x <= y
  <2>1. ~(y < x)
    BY <1>1, Zenon DEF OpToRel
  <2> QED
    BY <2>1
<1> QED
  BY <1>2

\* The least element of a non-empty set of naturals is in it.
LEMMA LeastIn ==
  ASSUME NEW S, S \subseteq Nat, S # {}
  PROVE  Least(S) \in S
  BY HasLeast, Zenon DEF Least

\* The schedule that the ticker takes next is one it has listed.
LEMMA NextListedIn ==
  ASSUME TodoOK, todo # {}
  PROVE  NextListed \in todo
<1> DEFINE I == {u.id : u \in todo}
<1>1. \A u \in todo : u.id \in Nat
  BY ReportsAssumption, Zenon DEF TodoOK, SchedRow
<1>2. I \subseteq Nat /\ I # {}
  BY <1>1
<1>3. \E x \in I : \A y \in I : x <= y
  <2> HIDE DEF I
  <2> QED
    BY <1>2, HasLeast, Zenon
<1>4. \E u \in todo : \A v \in todo : u.id <= v.id
  BY <1>3
<1> QED
  BY <1>4 DEF NextListed

Query == [feed : Feeds, mode : {"daily", "weekly", "incident"},
          scope : {"all", "services", "hosts"}, end : Nat,
          notify : SUBSET EmailChannels]

\* A time is the start of its day and a time within the day.
LEMMA DayParts ==
  ASSUME NEW t \in Nat
  PROVE  /\ Day \in Nat \ {0}
         /\ t \div Day \in Nat
         /\ t % Day \in 0 .. Day - 1
         /\ (t \div Day) * Day \in Nat
         /\ t = (t \div Day) * Day + (t % Day)
<1>1. Day \in Nat \ {0}
  BY ReportsAssumption
<1>2. t \div Day \in Nat /\ t % Day \in 0 .. Day - 1
  BY <1>1
<1>3. t = (t \div Day) * Day + (t % Day)
  BY <1>1
<1> QED
  BY <1>1, <1>2, <1>3

\* The report that a schedule asks for is a query the store can insert.
LEMMA ScheduledReportTyped ==
  ASSUME NEW s \in SchedRow, NEW t \in Nat
  PROVE  scheduledReport(s, t) \in Query
<1>1. scheduledPeriodEnd(s, t) \in Nat
  <2>1. s.at \in Nat
    BY DEF SchedRow
  <2>2. (t \div Day) * Day \in Nat
    BY DayParts
  <2> QED
    BY <2>1, <2>2 DEF scheduledPeriodEnd
<1>2. AnalysisModeForFrequency(s.freq) \in {"daily", "weekly"}
  BY DEF AnalysisModeForFrequency
<1>3. s.feed \in Feeds /\ s.notify \in SUBSET EmailChannels
  BY DEF SchedRow
<1> QED
  BY <1>1, <1>2, <1>3 DEF scheduledReport, Query

\* The window a due schedule reports on ended at most FiringWindow ago, and
\* after every earlier stamp: isDue asks for half a period since the last.
LEMMA DueWindow ==
  ASSUME NEW s \in SchedRow, NEW t \in Nat, isDue(s, t)
  PROVE  /\ scheduledReport(s, t).end <= t
         /\ s.lastRun \in Nat => s.lastRun < scheduledReport(s, t).end
<1> DEFINE e == scheduledPeriodEnd(s, t)
<1>0. scheduledReport(s, t).end = e
  BY DEF scheduledReport
<1>1. e \in Nat /\ e <= t /\ t - e <= FiringWindow
  <2>1. s.at \in Nat
    BY DEF SchedRow
  <2>2. t % Day >= s.at /\ (t % Day) - s.at <= FiringWindow
    BY DEF isDue
  <2> DEFINE d == (t \div Day) * Day
  <2>3. d \in Nat /\ t % Day \in Nat /\ t = d + (t % Day)
    BY DayParts
  <2>4. e = d + s.at
    BY DEF scheduledPeriodEnd
  <2> HIDE DEF d, e
  <2> QED
    BY <2>1, <2>2, <2>3, <2>4, ReportsAssumption
<1> HIDE DEF e
<1>2. ASSUME s.lastRun \in Nat PROVE s.lastRun < e
  <2>1. SchedulePeriod(s.freq) \in {Day, 7 * Day, 30 * Day}
    BY DEF SchedulePeriod
  <2>2. SchedulePeriod(s.freq) \div 2 >= Day \div 2
    BY <2>1, ReportsAssumption
  <2>3. t - s.lastRun >= SchedulePeriod(s.freq) \div 2
    BY <1>2, ReportsAssumption DEF isDue
  <2>4. SchedulePeriod(s.freq) \div 2 \in Nat /\ Day \div 2 \in Nat
    BY <2>1, ReportsAssumption
  <2> QED
    BY <1>1, <1>2, <2>2, <2>3, <2>4, ReportsAssumption
<1> QED
  BY <1>0, <1>1, <1>2

-----------------------------------------------------------------------------
(* The tables and the goroutines' locals *)

\* A stored id holds a row of analysis_reports.
LEMMA StoredRows ==
  ASSUME RowsOK, NEW i \in Stored
  PROVE  rows[i] \in ReportRow
  BY DEF RowsOK, Stored, Gone

\* The id of a schedule that exists holds that schedule's row.
LEMMA LiveRows ==
  ASSUME SchedsOK, NEW s \in Live
  PROVE  scheds[s] \in SchedRow /\ scheds[s].id = s
  BY DEF SchedsOK, Live, Removed

\* An insert takes an unused row and remembers it in the caller's record.
LEMMA InsertTyped ==
  ASSUME RowsOK, CallsOK, NEW p \in Callers, NEW q \in Query,
         NEW s \in SchedIds \cup {None}, InsertPendingReport(p, q, s)
  PROVE  /\ RowsOK' /\ CallsOK'
         /\ \E n \in Ids :
              /\ rows[n].status = "none"
              /\ calls' = [calls EXCEPT ![p] = [pc |-> "push", id |-> n, sched |-> s]]
              /\ \A i \in Ids \ {n} : rows'[i] = rows[i]
              /\ rows'[n].status = "pending"
              /\ rows'[n].end = q.end
              /\ rows'[n].from = IF p = Scheduler THEN s ELSE None
<1> DEFINE n == Least(Unused)
           x == Least(SlugsLeft(q))
           r == [status |-> "pending", notified |-> FALSE, suffix |-> x,
                 feed |-> q.feed, mode |-> q.mode, scope |-> q.scope, end |-> q.end,
                 notify |-> q.notify, from |-> IF p = Scheduler THEN s ELSE None]
<1>1. n \in Unused
  BY LeastIn, ReportsAssumption, Zenon DEF InsertPendingReport, CanInsert, Unused
<1>2. x \in Nat
  <2>1. SlugsLeft(q) \subseteq Nat /\ SlugsLeft(q) # {}
    BY DEF InsertPendingReport, CanInsert, SlugsLeft
  <2> QED
    BY <2>1, LeastIn
<1>3. /\ rows' = [rows EXCEPT ![n] = r]
      /\ calls' = [calls EXCEPT ![p] = [pc |-> "push", id |-> n, sched |-> s]]
  BY DEF InsertPendingReport
<1>4. n \in Ids /\ rows[n].status = "none"
  BY <1>1 DEF Unused
<1> HIDE DEF n, x
<1>5. r \in ReportRow
  BY <1>2 DEF ReportRow, Query, Statuses
<1>6. r.status = "pending" /\ r.end = q.end /\ r.from = IF p = Scheduler THEN s ELSE None
  OBVIOUS
<1> HIDE DEF r
<1>7. RowsOK'
  BY <1>3, <1>4, <1>5 DEF RowsOK
<1>8. CallsOK'
  BY <1>3, <1>4 DEF CallsOK
<1>9. \A i \in Ids \ {n} : rows'[i] = rows[i]
  BY <1>3, <1>4 DEF RowsOK
<1>10. rows'[n] = r
  BY <1>3, <1>4 DEF RowsOK
<1> QED
  BY <1>3, <1>4, <1>6, <1>7, <1>8, <1>9, <1>10, Zenon

\* What an insert of the ticker leaves behind.
LEMMA TickerInserts ==
  ASSUME RowsOK, CallsOK, NEW q \in Query, NEW s \in SchedIds,
         InsertPendingReport(Scheduler, q, s)
  PROVE  \E n \in Ids :
           /\ calls'[Scheduler].pc # "idle" /\ calls'[Scheduler].id = n
           /\ calls'[Scheduler].sched = s
           /\ \A i \in Ids \ {n} : rows'[i] = rows[i]
           /\ rows'[n].end = q.end /\ rows'[n].from = s
<1>1. Scheduler \in Callers /\ s \in SchedIds \cup {None}
  BY DEF Callers
<1>2. PICK n \in Ids :
        /\ calls' = [calls EXCEPT ![Scheduler] = [pc |-> "push", id |-> n, sched |-> s]]
        /\ \A i \in Ids \ {n} : rows'[i] = rows[i]
        /\ rows'[n].end = q.end /\ rows'[n].from = s
  BY <1>1, InsertTyped
<1>3. calls'[Scheduler] = [pc |-> "push", id |-> n, sched |-> s]
  BY <1>1, <1>2 DEF CallsOK
<1> QED
  BY <1>2, <1>3

\* A status update changes the status of one row that is still stored.
LEMMA BecameTyped ==
  ASSUME RowsOK, NEW i \in Ids, NEW status \in Statuses, Became(i, status)
  PROVE  /\ RowsOK'
         /\ \A j \in Ids :
              /\ rows'[j].status = IF j = i /\ i \in Stored THEN status
                                  ELSE rows[j].status
              /\ rows'[j].from = rows[j].from
              /\ rows'[j].end = rows[j].end
<1>1. CASE i \in Stored
  <2>1. rows[i] \in ReportRow
    BY <1>1, StoredRows
  <2>2. rows' = [rows EXCEPT ![i] = [rows[i] EXCEPT !.status = status]]
    BY <1>1 DEF Became
  <2> DEFINE r == [rows[i] EXCEPT !.status = status]
  <2>3. /\ r \in ReportRow
        /\ r.status = status /\ r.from = rows[i].from /\ r.end = rows[i].end
    BY <2>1 DEF ReportRow
  <2> HIDE DEF r
  <2> QED
    BY <1>1, <2>2, <2>3 DEF RowsOK, r
<1>2. CASE i \notin Stored
  <2>1. rows' = rows
    BY <1>2 DEF Became, RowsOK
  <2> QED
    BY <1>2, <2>1 DEF RowsOK
<1> QED
  BY <1>1, <1>2

\* A call of the store that succeeds or fails leaves the process as it was.
LEMMA StoreCalls ==
  ASSUME ProcessOK, StoreOK \/ StoreFails, UNCHANGED <<now, up, crashes>>
  PROVE  ProcessOK'
  BY DEF ProcessOK, StoreOK, StoreFails

\* Every step of the worker keeps the data well formed.
LEMMA WorkerKeepsTypes ==
  ASSUME DataOK, WorkerStep
  PROVE  DataOK'
<1> USE DEF DataOK
<1>0. ASSUME UNCHANGED <<scheds, todo>> PROVE SchedsOK' /\ TodoOK'
  BY <1>0 DEF SchedsOK, TodoOK, Live
<1>1. CASE Take
  <2>1. UNCHANGED <<rows, scheds, calls, todo, mailed, now, up, crashes>>
    BY <1>1 DEF Take
  <2>2. Head(queue) \in Ids /\ queue' \in Seq(Ids)
    BY <1>1, HeadTailProperties DEF Take, WorkerOK
  <2>3. Head(queue) \in Stored => rows[Head(queue)].notify \in SUBSET EmailChannels
    BY StoredRows DEF ReportRow
  <2>4. WorkerOK'
    BY <1>1, <2>1, <2>2, <2>3 DEF Take, WorkerOK, GiveUp, Resting
  <2>5. ProcessOK'
    BY <1>1, <2>1, StoreCalls DEF Take
  <2> QED
    BY <1>0, <2>1, <2>4, <2>5 DEF RowsOK, CallsOK
<1>2. CASE MarkReportRunning \/ MarkReportFailed \/ MarkReportCompleted
  <2> USE DEF MarkReportRunning, MarkReportFailed, MarkReportCompleted
  <2>1. UNCHANGED <<scheds, queue, calls, todo, mailed, now, up, crashes>>
    BY <1>2
  <2>2. worker.id \in Ids
    BY <1>2 DEF WorkerOK, At
  <2>3. WorkerOK'
    BY <1>2, <2>1, <2>2 DEF WorkerOK, GiveUp, Goto, Resting
  <2>4. ProcessOK'
    BY <1>2, <2>1, StoreCalls
  <2>5. \/ UNCHANGED rows
        \/ \E status \in Statuses : Became(worker.id, status)
    BY <1>2 DEF Statuses
  <2>6. RowsOK'
    BY <2>2, <2>5, BecameTyped DEF RowsOK
  <2> QED
    BY <1>0, <2>1, <2>3, <2>4, <2>6 DEF CallsOK
<1>3. CASE MarkReportNotified
  <2>1. UNCHANGED <<scheds, queue, calls, todo, mailed, now, up, crashes>>
    BY <1>3 DEF MarkReportNotified
  <2>2. worker.id \in Ids
    BY <1>3 DEF MarkReportNotified, WorkerOK, At
  <2>3. WorkerOK'
    BY <1>3, <2>1, <2>2 DEF MarkReportNotified, WorkerOK, GiveUp, Goto, Resting
  <2>4. ProcessOK'
    BY <1>3, <2>1, StoreCalls DEF MarkReportNotified
  <2>5. CASE UNCHANGED rows
    BY <1>0, <2>1, <2>3, <2>4, <2>5 DEF CallsOK, RowsOK
  <2>6. CASE worker.id \in Stored /\ rows' = [rows EXCEPT ![worker.id].notified = TRUE]
    <3>1. rows[worker.id] \in ReportRow
      BY <2>6, StoredRows
    <3>2. [rows[worker.id] EXCEPT !.notified = TRUE] \in ReportRow
      BY <3>1, Zenon DEF ReportRow
    <3>3. RowsOK'
      BY <2>2, <2>6, <3>2 DEF RowsOK
    <3> QED
      BY <1>0, <2>1, <2>3, <2>4, <3>3 DEF CallsOK
  <2> QED
    BY <1>3, <2>5, <2>6 DEF MarkReportNotified
<1>4. CASE SendAnalysisReport
  <2>1. /\ UNCHANGED <<rows, scheds, queue, calls, todo, now, up, faults, crashes>>
        /\ worker' = Resting
        /\ mailed' \subseteq Ids
    BY <1>4 DEF SendAnalysisReport, WorkerOK, At, GiveUp, processVars
  <2>2. WorkerOK'
    BY <2>1 DEF WorkerOK, Resting
  <2> QED
    BY <1>0, <2>1, <2>2 DEF CallsOK, RowsOK, ProcessOK
<1> QED
  BY <1>1, <1>2, <1>3, <1>4 DEF WorkerStep

\* Every step of the ticker keeps the data well formed.
LEMMA SchedulerKeepsTypes ==
  ASSUME DataOK, SchedulerStep
  PROVE  DataOK'
<1> USE DEF DataOK
<1>0. Scheduler \in Callers
  BY DEF Callers
<1>1. CASE Tick
  <2>1. /\ UNCHANGED <<rows, scheds, queue, worker, calls, mailed, now, up, crashes>>
        /\ todo' = todo \/ todo' = {scheds[s] : s \in Live}
    BY <1>1 DEF Tick, ListSchedules
  <2>2. TodoOK'
    <3>1. CASE todo' = todo
      BY <2>1, <3>1 DEF TodoOK
    <3>2. CASE todo' = {scheds[s] : s \in Live}
      <4>1. \A s \in Live : scheds[s] \in SchedRow /\ scheds[s].id = s
                            /\ scheds[s].state # "none"
        BY LiveRows DEF Live
      <4> QED
        BY <2>1, <3>2, <4>1 DEF TodoOK
    <3> QED
      BY <2>1, <3>1, <3>2
  <2>3. ProcessOK'
    BY <1>1, <2>1, StoreCalls DEF Tick
  <2> QED
    BY <2>1, <2>2, <2>3 DEF RowsOK, SchedsOK, Live, CallsOK, WorkerOK
<1>2. CASE TickSchedule
  <2> DEFINE s == NextListed
             q == scheduledReport(s, now)
  <2>1. s \in todo /\ s \in SchedRow
    BY <1>2, NextListedIn DEF TickSchedule, TodoOK
  <2>2. UNCHANGED <<scheds, queue, worker, mailed, now, up, crashes>>
    BY <1>2 DEF TickSchedule
  <2>3. todo' = todo \ {s}
    BY <1>2 DEF TickSchedule
  <2>4. \/ UNCHANGED <<rows, calls>>
        \/ InsertPendingReport(Scheduler, q, s.id)
    BY <1>2 DEF TickSchedule
  <2>5. ProcessOK'
    <3>1. UNCHANGED faults \/ StoreOK \/ StoreFails
      BY <1>2 DEF TickSchedule
    <3> QED
      BY <2>2, <3>1, StoreCalls DEF ProcessOK
  <2>6. s.id \in SchedIds /\ q \in Query
    BY <2>1, ScheduledReportTyped DEF SchedRow, ProcessOK
  <2> HIDE DEF s, q
  <2>7. RowsOK' /\ CallsOK'
    BY <1>0, <2>4, <2>6, InsertTyped DEF RowsOK, CallsOK
  <2> QED
    BY <2>2, <2>3, <2>5, <2>7 DEF SchedsOK, Live, TodoOK, WorkerOK
<1>3. CASE Stamp
  <2> DEFINE s == calls[Scheduler].sched
  <2>1. UNCHANGED <<rows, queue, worker, todo, mailed, now, up, crashes>>
    BY <1>3 DEF Stamp
  <2>2. calls' = [calls EXCEPT ![Scheduler] = Idle]
    BY <1>3 DEF Stamp, Return
  <2>3. CallsOK'
    BY <2>2, Zenon DEF CallsOK, Idle
  <2>4. ProcessOK'
    BY <1>3, <2>1, StoreCalls DEF Stamp
  <2>5. \/ UNCHANGED scheds
        \/ s \in Live /\ scheds' = [scheds EXCEPT ![s] = [scheds[s] EXCEPT !.lastRun = now]]
    BY <1>3 DEF Stamp, SchedsOK
  <2>6. SchedsOK' /\ TodoOK'
    <3>1. CASE UNCHANGED scheds
      BY <2>1, <3>1 DEF SchedsOK, TodoOK, Live
    <3>2. CASE s \in Live /\ scheds' = [scheds EXCEPT ![s] = [scheds[s] EXCEPT !.lastRun = now]]
      <4> DEFINE r == [scheds[s] EXCEPT !.lastRun = now]
      <4>1. r \in SchedRow /\ r.id = s /\ r.state = "live"
        BY <3>2, LiveRows DEF SchedRow, ProcessOK
      <4>2. s \in SchedIds /\ scheds' = [scheds EXCEPT ![s] = r]
        BY <3>2 DEF Live
      <4> HIDE DEF r, s
      <4>3. scheds' \in [SchedIds -> SchedRow \cup {[state |-> "none"], Removed}]
        BY <4>1, <4>2 DEF SchedsOK
      <4>4. \A u \in SchedIds : scheds'[u] = IF u = s THEN r ELSE scheds[u]
        BY <4>2 DEF SchedsOK
      <4>5. \A u \in Live' : scheds'[u].id = u
        BY <4>1, <4>4 DEF SchedsOK, Live
      <4>6. TodoOK'
        BY <2>1, <4>1, <4>4 DEF TodoOK, SchedRow
      <4> QED
        BY <4>3, <4>5, <4>6 DEF SchedsOK
    <3> QED
      BY <2>5, <3>1, <3>2
  <2> QED
    BY <2>1, <2>3, <2>4, <2>6 DEF RowsOK, WorkerOK
<1> QED
  BY <1>1, <1>2, <1>3 DEF SchedulerStep

\* A request that writes a schedule writes a typed row.
LEMMA WriteTyped ==
  ASSUME SchedsOK, TodoOK, NEW s \in SchedIds,
         NEW r \in SchedRow \cup {Removed}, r.state = "live" => r.id = s,
         WriteSchedule(s, r)
  PROVE  /\ SchedsOK' /\ TodoOK'
         /\ \A u \in SchedIds : scheds'[u] = IF u = s THEN r ELSE scheds[u]
<1>1. scheds' = [scheds EXCEPT ![s] = r] /\ UNCHANGED todo
  BY DEF WriteSchedule
<1>2. \A u \in SchedIds : scheds'[u] = IF u = s THEN r ELSE scheds[u]
  BY <1>1 DEF SchedsOK
<1>3. scheds' \in [SchedIds -> SchedRow \cup {[state |-> "none"], Removed}]
  BY <1>1 DEF SchedsOK
<1>4. \A u \in Live' : scheds'[u].id = u
  BY <1>2 DEF SchedsOK, Live
<1>5. r.state # "none"
  BY DEF SchedRow, Removed
<1>6. \A u \in todo : u.id \in SchedIds
  BY DEF TodoOK, SchedRow
<1>7. TodoOK'
  BY <1>1, <1>2, <1>5, <1>6 DEF TodoOK
<1> QED
  BY <1>2, <1>3, <1>4, <1>7 DEF SchedsOK

\* A validated request body makes a row of analysis_schedules.
LEMMA BodyRows ==
  ASSUME NEW b \in ScheduleInputs, decodeAndValidateSchedule(b), NEW s \in SchedIds,
         NEW l \in Nat \cup {None}
  PROVE  /\ Row(b, s, l) \in SchedRow
         /\ Row(b, s, l).id = s /\ Row(b, s, l).lastRun = l
<1>1. /\ b.enabled \in BOOLEAN /\ b.day \in Nat \cup {None} /\ b.at \in 0 .. Day - 1
      /\ b.feed \in Feeds /\ b.freq \in {"daily", "weekly", "monthly"}
      /\ b.notify \in SUBSET EmailChannels
  BY ReportsAssumption
     DEF decodeAndValidateSchedule, validateNotifyChannels, Feeds
<1> QED
  BY <1>1 DEF Row, SchedRow

\* The writes of the three schedule requests.
LEMMA ScheduleWrites ==
  ASSUME SchedsOK, NEW s \in SchedIds,
         \/ CreateAnalysisSchedule(s)
         \/ UpdateAnalysisSchedule(s)
         \/ DeleteAnalysisSchedule(s)
  PROVE  \E r \in SchedRow \cup {Removed} :
           /\ WriteSchedule(s, r)
           /\ r.state = "live" => r.id = s
           /\ r.state = "live" => (\/ scheds[s].state = "none"
                                   \/ s \in Live /\ r.lastRun = scheds[s].lastRun)
<1>1. CASE CreateAnalysisSchedule(s)
  <2>1. PICK b \in ScheduleInputs :
          decodeAndValidateSchedule(b) /\ WriteSchedule(s, Row(b, s, None))
    BY <1>1 DEF CreateAnalysisSchedule
  <2> DEFINE r == Row(b, s, None)
  <2>2. r \in SchedRow /\ r.id = s
    <3>1. decodeAndValidateSchedule(b)
      BY <2>1
    <3>2. None \in Nat \cup {None}
      OBVIOUS
    <3> QED
      BY <3>1, <3>2, BodyRows, Zenon
  <2>3. scheds[s].state = "none"
    BY <1>1 DEF CreateAnalysisSchedule
  <2>4. WriteSchedule(s, r)
    BY <2>1
  <2> HIDE DEF r
  <2> QED
    BY <2>2, <2>3, <2>4
<1>2. CASE UpdateAnalysisSchedule(s)
  <2>1. PICK b \in ScheduleInputs :
          decodeAndValidateSchedule(b) /\ WriteSchedule(s, Updated(b, s))
    BY <1>2 DEF UpdateAnalysisSchedule
  <2>2. s \in Live
    BY <1>2 DEF UpdateAnalysisSchedule
  <2>3. scheds[s].lastRun \in Nat \cup {None}
    BY <2>2, LiveRows DEF SchedRow
  <2> DEFINE r == Updated(b, s)
  <2>4. r \in SchedRow /\ r.id = s /\ r.lastRun = scheds[s].lastRun
    <3>1. decodeAndValidateSchedule(b)
      BY <2>1
    <3> DEFINE l == scheds[s].lastRun
    <3>2. l \in Nat \cup {None}
      BY <2>3
    <3>3. r = Row(b, s, l)
      BY DEF Updated
    <3> HIDE DEF l, r
    <3>4. r \in SchedRow /\ r.id = s /\ r.lastRun = l
      BY <3>1, <3>2, <3>3, BodyRows
    <3> QED
      BY <3>4 DEF l
  <2>5. WriteSchedule(s, r)
    BY <2>1
  <2> HIDE DEF r
  <2> QED
    BY <2>2, <2>4, <2>5
<1>3. CASE DeleteAnalysisSchedule(s)
  BY <1>3 DEF DeleteAnalysisSchedule, Removed
<1> QED
  BY <1>1, <1>2, <1>3

\* Every API request keeps the data well formed.
LEMMA RequestKeepsTypes ==
  ASSUME DataOK, Request
  PROVE  DataOK'
<1> USE DEF DataOK
<1>1. ASSUME NEW c \in Clients, CreateReport(c) PROVE DataOK'
  <2>1. UNCHANGED <<scheds, queue, worker, todo, mailed, now, up, faults, crashes>>
    BY <1>1 DEF CreateReport, processVars
  <2>2. PICK b \in ReportInputs :
          /\ ValidReport(b)
          /\ InsertPendingReport(c, [feed |-> b.feed, mode |-> b.mode,
                scope |-> b.scope, end |-> now, notify |-> {}], None)
    BY <1>1, Zenon DEF CreateReport
  <2>3. /\ b.feed \in Feeds /\ b.mode \in {"daily", "weekly", "incident"}
        /\ b.scope \in {"all", "services", "hosts"}
    BY <2>2 DEF ValidReport, ModesOf, validateScope, Feeds
  <2>4. [feed |-> b.feed, mode |-> b.mode, scope |-> b.scope, end |-> now,
         notify |-> {}] \in Query
    BY <2>3 DEF Query, ProcessOK
  <2>5. RowsOK' /\ CallsOK'
    BY <2>2, <2>4, InsertTyped DEF Callers
  <2> QED
    BY <2>1, <2>5 DEF SchedsOK, TodoOK, Live, WorkerOK, ProcessOK
<1>2. ASSUME NEW c \in Clients, NEW s \in SchedIds, RunSchedule(c, s) PROVE DataOK'
  <2>1. UNCHANGED <<scheds, queue, worker, todo, mailed, now, up, faults, crashes>>
    BY <1>2 DEF RunSchedule, processVars
  <2>2. s \in Live /\ InsertPendingReport(c, scheduledReport(scheds[s], now), s)
    BY <1>2 DEF RunSchedule, RunNow
  <2>3. scheduledReport(scheds[s], now) \in Query
    BY <2>2, LiveRows, ScheduledReportTyped DEF ProcessOK
  <2>4. RowsOK' /\ CallsOK'
    BY <2>2, <2>3, InsertTyped DEF Callers
  <2> QED
    BY <2>1, <2>4 DEF SchedsOK, TodoOK, Live, WorkerOK, ProcessOK
<1>3. ASSUME NEW i \in Ids, DeleteReport(i) PROVE DataOK'
  <2>1. /\ UNCHANGED <<scheds, queue, worker, calls, todo, mailed, now, up, faults,
                       crashes>>
        /\ Became(i, "deleted")
    BY <1>3 DEF DeleteReport, Became, processVars
  <2>2. RowsOK'
    BY <2>1, BecameTyped DEF Statuses
  <2> QED
    BY <2>1, <2>2 DEF SchedsOK, TodoOK, Live, CallsOK, WorkerOK, ProcessOK
<1>4. ASSUME NEW s \in SchedIds,
             \/ CreateAnalysisSchedule(s)
             \/ UpdateAnalysisSchedule(s)
             \/ DeleteAnalysisSchedule(s)
      PROVE  DataOK'
  <2>1. PICK r \in SchedRow \cup {Removed} :
          WriteSchedule(s, r) /\ (r.state = "live" => r.id = s)
    BY <1>4, ScheduleWrites
  <2>2. SchedsOK' /\ TodoOK'
    BY <2>1, WriteTyped
  <2>3. UNCHANGED <<rows, queue, worker, calls, mailed, now, up, faults, crashes>>
    BY <2>1 DEF WriteSchedule, processVars
  <2> QED
    BY <2>2, <2>3 DEF RowsOK, CallsOK, WorkerOK, ProcessOK
<1> QED
  BY <1>1, <1>2, <1>3, <1>4 DEF Request

\* The rows, the queue, the worker's job and the ticker's list stay well formed: what worker.go
\* and scheduler.go hold are rows that the store held.
THEOREM DataCorrect == Spec => []DataOK
<1>1. Init => DataOK
  <2> SUFFICES ASSUME Init PROVE DataOK
    OBVIOUS
  <2>1. RowsOK /\ SchedsOK /\ TodoOK
    BY DEF Init, RowsOK, SchedsOK, TodoOK, Live
  <2>2. CallsOK
    BY DEF Init, CallsOK, Idle
  <2>3. WorkerOK
    BY EmptySeq DEF Init, WorkerOK, Resting
  <2>4. ProcessOK
    BY DEF Init, ProcessOK
  <2> QED
    BY <2>1, <2>2, <2>3, <2>4 DEF DataOK
<1>2. DataOK /\ [Next]_vars => DataOK'
  <2> SUFFICES ASSUME DataOK, [Next]_vars PROVE DataOK'
    OBVIOUS
  <2> USE DEF DataOK
  <2>0. ASSUME UNCHANGED <<scheds, todo>> PROVE SchedsOK' /\ TodoOK'
    BY <2>0 DEF SchedsOK, TodoOK, Live
  <2>1. ASSUME NEW p \in Callers, Push(p) PROVE DataOK'
    <3>1. UNCHANGED <<rows, scheds, worker, todo, mailed, now, up, faults, crashes>>
      BY <2>1 DEF Push, processVars
    <3>2. calls[p].id \in Ids
      BY <2>1 DEF Push, CallsOK
    <3>3. Append(queue, calls[p].id) \in Seq(Ids)
      BY <3>2, AppendProperties DEF WorkerOK
    <3>4. WorkerOK'
      BY <2>1, <3>1, <3>3 DEF Push, WorkerOK
    <3>5. CallsOK'
      BY <2>1, <3>2 DEF Push, CallsOK, Return, Idle
    <3> QED
      BY <2>0, <3>1, <3>4, <3>5 DEF RowsOK, ProcessOK
  <2>2. ASSUME NEW p \in Callers, Rollback(p) PROVE DataOK'
    <3>1. UNCHANGED <<scheds, queue, worker, todo, mailed, now, up, crashes>>
      BY <2>2 DEF Rollback
    <3>2. RowsOK'
      BY <2>2 DEF Rollback, RowsOK
    <3>3. CallsOK'
      BY <2>2 DEF Rollback, Return, CallsOK, Idle
    <3>4. ProcessOK'
      BY <2>2, <3>1 DEF Rollback, ProcessOK
    <3> QED
      BY <2>0, <3>1, <3>2, <3>3, <3>4 DEF WorkerOK
  <2>3. CASE Advance \/ Signal
    <3>1. UNCHANGED <<rows, scheds, queue, worker, calls, todo, mailed>>
      BY <2>3 DEF Advance, Signal, analysisVars
    <3>2. ProcessOK'
      BY <2>3 DEF Advance, Signal, ProcessOK
    <3> QED
      BY <2>0, <3>1, <3>2 DEF RowsOK, CallsOK, WorkerOK
  <2>4. CASE Exit
    <3>1. /\ UNCHANGED <<rows, scheds, mailed>>
          /\ queue' = <<>> /\ worker' = Resting /\ todo' = {}
          /\ calls' = [p \in Callers |-> Idle]
      BY <2>4 DEF Exit, Forget
    <3>2. WorkerOK'
      BY <3>1, EmptySeq DEF WorkerOK, Resting
    <3>3. CallsOK'
      BY <3>1 DEF CallsOK, Idle
    <3>4. ProcessOK'
      BY <2>4 DEF Exit, ProcessOK
    <3> QED
      BY <3>1, <3>2, <3>3, <3>4 DEF RowsOK, SchedsOK, TodoOK, Live
  <2>5. CASE Boot
    <3>1. UNCHANGED <<scheds, queue, worker, calls, todo, mailed, now, crashes>>
      BY <2>5 DEF Boot
    <3>2. ProcessOK'
      BY <2>5, <3>1 DEF Boot, ProcessOK
    <3>3. RowsOK'
      <4>1. CASE ReconcileOrphanedReports
        <5>1. \A i \in Active : [rows[i] EXCEPT !.status = "failed"] \in ReportRow
          BY DEF Active, RowsOK, Gone, ReportRow, Statuses
        <5> QED
          BY <4>1, <5>1 DEF ReconcileOrphanedReports, RowsOK
      <4> QED
        BY <2>5, <4>1 DEF Boot, RowsOK
    <3> QED
      BY <2>0, <3>1, <3>2, <3>3 DEF CallsOK, WorkerOK
  <2>6. CASE UNCHANGED vars
    BY <2>0, <2>6 DEF vars, analysisVars, processVars, RowsOK, CallsOK, WorkerOK,
                      ProcessOK
  <2> QED
    BY <2>1, <2>2, <2>3, <2>4, <2>5, <2>6, WorkerKeepsTypes, SchedulerKeepsTypes,
       RequestKeepsTypes DEF Next, CallStep
<1> QED
  BY <1>1, <1>2, PTL DEF Spec

-----------------------------------------------------------------------------
(* Mails *)

\* A step that touches neither the worker nor a row it has run.
LEMMA MailKept ==
  ASSUME DataOK, MailOK, UNCHANGED <<worker, mailed>>,
         up' = "down" => worker = Resting,
         \A i \in Ids :
           /\ rows[i].status \in {"running", "deleted"} /\ worker # Resting
                => rows'[i].status \in {"running", "deleted"}
           /\ rows[i].status \in {"completed", "deleted"}
                => rows'[i].status \in {"completed", "deleted"}
  PROVE  MailOK'
  BY DEF MailOK, DataOK, WorkerOK, MailedReportsAreStored, Resting

\* Inserting a pending report keeps what is known of the reports that were mailed.
LEMMA InsertKeepsMail ==
  ASSUME DataOK, MailOK, UNCHANGED <<worker, mailed, up>>,
         NEW p \in Callers, NEW q \in Query, NEW s \in SchedIds \cup {None},
         InsertPendingReport(p, q, s)
  PROVE  MailOK'
<1>1. PICK n \in Ids : rows[n].status = "none" /\ \A i \in Ids \ {n} : rows'[i] = rows[i]
  BY InsertTyped DEF DataOK
<1>2. up' = "down" => worker = Resting
  BY DEF MailOK
<1> QED
  BY <1>1, <1>2, MailKept

\* Whatever is deleted, lost or reconciled meanwhile, the completion callback
\* runs only for a report whose row was written as completed.
THEOREM MailsCorrect == Spec => []MailedReportsAreStored
<1>1. Init => MailOK
  BY DEF Init, MailOK, MailedReportsAreStored, Resting
<1>2. DataOK /\ MailOK /\ [Next]_vars => MailOK'
  <2> SUFFICES ASSUME DataOK, MailOK, [Next]_vars PROVE MailOK'
    OBVIOUS
  <2>0. worker.pc # "idle" => up # "down" /\ worker.id \in Ids
    BY DEF MailOK, Resting, DataOK, WorkerOK
  <2>1. CASE Take
    <3>1. UNCHANGED <<rows, mailed, up>> /\ up # "down"
      BY <2>1 DEF Take, StoreOK, StoreFails
    <3>2. worker'.pc \in {"idle", "mark"}
      BY <2>1 DEF Take, GiveUp, Resting
    <3> QED
      BY <3>1, <3>2 DEF MailOK, MailedReportsAreStored
  <2>2. CASE MarkReportRunning
    <3>1. UNCHANGED <<mailed, up>> /\ up # "down" /\ worker.id \in Ids
      BY <2>0, <2>2 DEF MarkReportRunning, At
    <3>2. CASE worker' = Resting /\ UNCHANGED rows
      BY <3>1, <3>2 DEF MailOK, MailedReportsAreStored, Resting
    <3>3. CASE /\ rows[worker.id].status = "pending"
               /\ Became(worker.id, "running") /\ Goto("run")
      <4>1. worker.id \in Stored
        BY <3>1, <3>3 DEF Stored
      <4>2. \A j \in Ids : rows'[j].status = IF j = worker.id THEN "running"
                                             ELSE rows[j].status
        BY <3>1, <3>3, <4>1, BecameTyped DEF DataOK, Statuses
      <4>3. worker'.pc = "run" /\ worker'.id = worker.id
        BY <3>3 DEF Goto, DataOK, WorkerOK
      <4> QED
        BY <3>1, <3>3, <4>2, <4>3 DEF MailOK, MailedReportsAreStored, DataOK, WorkerOK
    <3> QED
      BY <2>2, <3>2, <3>3 DEF MarkReportRunning, GiveUp
  <2>3. CASE MarkReportFailed \/ MarkReportCompleted
    <3>1. /\ UNCHANGED <<mailed, up>> /\ up # "down" /\ worker.id \in Ids
          /\ worker.pc = "run"
      BY <2>0, <2>3 DEF MarkReportFailed, MarkReportCompleted, At
    <3>2. rows[worker.id].status \in {"running", "deleted"}
      BY <3>1 DEF MailOK
    <3>3. ASSUME NEW status \in {"failed", "completed"}, Became(worker.id, status)
          PROVE  \A j \in Ids :
                   rows'[j].status =
                     IF j = worker.id /\ rows[j].status # "deleted" THEN status
                     ELSE rows[j].status
      <4>1. status \in Statuses
        BY DEF Statuses
      <4>2. worker.id \in Stored <=> rows[worker.id].status # "deleted"
        BY <3>1, <3>2 DEF Stored
      <4> QED
        BY <3>1, <3>3, <4>1, <4>2, BecameTyped DEF DataOK
    <3>4. CASE worker' = Resting /\ UNCHANGED rows
      BY <3>1, <3>4 DEF MailOK, MailedReportsAreStored, Resting
    <3>5. CASE worker' = Resting /\ Became(worker.id, "failed")
      BY <3>1, <3>2, <3>3, <3>5
         DEF MailOK, MailedReportsAreStored, Resting, DataOK, WorkerOK
    <3>6. CASE Became(worker.id, "completed") /\ Goto("notify")
      <4>1. worker'.pc = "notify" /\ worker'.id = worker.id
        BY <3>6 DEF Goto, DataOK, WorkerOK
      <4> QED
        BY <3>1, <3>2, <3>3, <3>6, <4>1
           DEF MailOK, MailedReportsAreStored, DataOK, WorkerOK
    <3> QED
      BY <2>3, <3>4, <3>5, <3>6 DEF MarkReportFailed, MarkReportCompleted, GiveUp
  <2>4. CASE MarkReportNotified
    <3>1. /\ UNCHANGED <<mailed, up>> /\ up # "down" /\ worker.id \in Ids
          /\ worker.pc = "notify"
      BY <2>0, <2>4 DEF MarkReportNotified, At
    <3>2. CASE worker' = Resting /\ UNCHANGED rows
      BY <3>1, <3>2 DEF MailOK, MailedReportsAreStored, Resting
    <3>3. CASE rows' = [rows EXCEPT ![worker.id].notified = TRUE] /\ Goto("send")
      <4>1. worker'.pc = "send" /\ worker'.id = worker.id
        BY <3>3 DEF Goto, DataOK, WorkerOK
      <4>2. \A j \in Ids : rows'[j].status = rows[j].status
        BY <3>1, <3>3 DEF DataOK, RowsOK
      <4> QED
        BY <3>1, <4>1, <4>2 DEF MailOK, MailedReportsAreStored, DataOK, WorkerOK
    <3> QED
      BY <2>4, <3>2, <3>3 DEF MarkReportNotified, GiveUp
  <2>5. CASE SendAnalysisReport
    <3>1. /\ UNCHANGED <<rows, up>> /\ worker' = Resting
          /\ mailed' \subseteq mailed \cup {worker.id}
          /\ worker.pc = "send"
      BY <2>5 DEF SendAnalysisReport, GiveUp, At, processVars
    <3> QED
      BY <3>1 DEF MailOK, MailedReportsAreStored, Resting
  <2>6. ASSUME NEW c \in Clients, CreateReport(c) PROVE MailOK'
    <3>1. PICK b \in ReportInputs :
            /\ ValidReport(b)
            /\ InsertPendingReport(c, [feed |-> b.feed, mode |-> b.mode,
                  scope |-> b.scope, end |-> now, notify |-> {}], None)
      BY <2>6, Zenon DEF CreateReport
    <3>2. [feed |-> b.feed, mode |-> b.mode, scope |-> b.scope, end |-> now,
           notify |-> {}] \in Query
      BY <3>1 DEF ValidReport, ModesOf, validateScope, Feeds, Query, DataOK, ProcessOK
    <3> QED
      BY <2>6, <3>1, <3>2, InsertKeepsMail, Zenon DEF CreateReport, Callers, processVars
  <2>7. ASSUME NEW c \in Clients, NEW s \in SchedIds, RunSchedule(c, s) PROVE MailOK'
    <3>1. s \in Live /\ InsertPendingReport(c, scheduledReport(scheds[s], now), s)
      BY <2>7 DEF RunSchedule, RunNow
    <3>2. scheduledReport(scheds[s], now) \in Query
      BY <3>1, LiveRows, ScheduledReportTyped DEF DataOK, ProcessOK
    <3> QED
      BY <2>7, <3>1, <3>2, InsertKeepsMail DEF RunSchedule, Callers, processVars
  <2>8. CASE TickSchedule
    <3> DEFINE q == scheduledReport(NextListed, now)
    <3>1. UNCHANGED <<worker, mailed, up>>
      BY <2>8 DEF TickSchedule
    <3>2. UNCHANGED rows \/ InsertPendingReport(Scheduler, q, NextListed.id)
      BY <2>8 DEF TickSchedule
    <3>3. NextListed \in SchedRow
      BY <2>8, NextListedIn DEF TickSchedule, DataOK, TodoOK
    <3>4. q \in Query /\ NextListed.id \in SchedIds
      BY <3>3, ScheduledReportTyped DEF DataOK, ProcessOK, SchedRow
    <3> HIDE DEF q
    <3> QED
      BY <3>1, <3>2, <3>4, InsertKeepsMail
         DEF Callers, MailOK, MailedReportsAreStored
  <2>9. ASSUME NEW p \in Callers, Rollback(p) PROVE MailOK'
    <3>1. UNCHANGED <<worker, mailed, up>>
      BY <2>9 DEF Rollback
    <3>2. \A i \in Ids : rows'[i] = rows[i] \/ rows'[i].status = "deleted"
      BY <2>9 DEF Rollback, Gone, DataOK, RowsOK
    <3> QED
      BY <3>1, <3>2, MailKept DEF MailOK
  <2>10. ASSUME NEW i \in Ids, DeleteReport(i) PROVE MailOK'
    <3>1. UNCHANGED <<worker, mailed, up>> /\ Became(i, "deleted")
      BY <2>10 DEF DeleteReport, Became, processVars
    <3>2. \A j \in Ids : rows'[j].status \in {rows[j].status, "deleted"}
      BY <3>1, BecameTyped DEF Statuses, DataOK
    <3> QED
      BY <3>1, <3>2, MailKept DEF MailOK
  <2>11. CASE Boot
    <3>1. UNCHANGED <<worker, mailed>> /\ worker = Resting
      BY <2>11 DEF Boot, MailOK
    <3>2. \A i \in Ids : rows[i].status \in {"completed", "deleted"} => rows'[i] = rows[i]
      BY <2>11 DEF Boot, ReconcileOrphanedReports, Active
    <3> QED
      BY <3>1, <3>2, MailKept
  <2>12. CASE Exit
    BY <2>12 DEF Exit, Forget, MailOK, MailedReportsAreStored, Resting
  <2>13. CASE \/ Tick \/ Stamp \/ Advance \/ Signal \/ UNCHANGED vars
              \/ \E p \in Callers : Push(p)
              \/ \E s \in SchedIds : CreateAnalysisSchedule(s)
                   \/ UpdateAnalysisSchedule(s) \/ DeleteAnalysisSchedule(s)
    <3>1. UNCHANGED <<rows, worker, mailed>> /\ up' \in {up, "stopping"}
      BY <2>13 DEF Tick, Stamp, Advance, Signal, vars, analysisVars, processVars,
                   Push, CreateAnalysisSchedule, UpdateAnalysisSchedule,
                   DeleteAnalysisSchedule, WriteSchedule
    <3> QED
      BY <3>1 DEF MailOK, MailedReportsAreStored
  <2> QED
    BY <2>1, <2>2, <2>3, <2>4, <2>5, <2>6, <2>7, <2>8, <2>9, <2>10, <2>11, <2>12,
       <2>13 DEF Next, WorkerStep, SchedulerStep, CallStep, Request
<1>3. MailOK => MailedReportsAreStored
  BY DEF MailOK
<1> QED
  BY <1>1, <1>2, <1>3, DataCorrect, PTL DEF Spec

-----------------------------------------------------------------------------
(* Firings *)

\* Leaving the schedules alone carries them over.
LEMMA SameScheds == UNCHANGED scheds => SchedsCarried /\ Live' = Live
  BY DEF SchedsCarried, Live

\* Leaving the ticker's call alone carries it over.
LEMMA SameCall == calls'[Scheduler] = calls[Scheduler] => CallCarried
  BY DEF CallCarried

\* A report that a schedule asked for is a stored row with that schedule and an end.
LEMMA TypedRow ==
  ASSUME RowsOK, NEW i \in Ids, rows[i].from # None
  PROVE  /\ rows[i] \in ReportRow
         /\ rows[i].from \in SchedIds /\ rows[i].end \in Nat
<1>1. rows[i] \in ReportRow
  BY DEF RowsOK, Gone
<1> QED
  BY <1>1 DEF ReportRow

\* What makes up the invariant after a step without a fault.
LEMMA FiringIs ==
  ASSUME FiringOK, faults = 0, crashes = 0
  PROVE  FiresOncePerWindow /\ \A i \in Ids : rows[i].from # None => Settled(i)
  BY DEF FiringOK

\* A step that adds no report of a schedule adds no second one of a window.
LEMMA WindowsKept ==
  ASSUME RowsCarried, FiresOncePerWindow, faults = 0, crashes = 0
  PROVE  FiresOncePerWindow'
  BY DEF RowsCarried, FiresOncePerWindow

\* The reports stay settled in a step that carries them over.
LEMMA FiringKept ==
  ASSUME DataOK, FiringOK, faults = 0, crashes = 0, Carried
  PROVE  FiringOK'
<1>0. RowsOK /\ ProcessOK
  BY DEF DataOK
<1>1. FiresOncePerWindow /\ \A i \in Ids : rows[i].from # None => Settled(i)
  BY FiringIs
<1>2. RowsCarried /\ SchedsCarried /\ CallCarried
  BY DEF Carried
<1>3. ASSUME NEW i \in Ids, rows'[i].from # None
      PROVE  Settled(i)'
  <2>1. rows[i].from # None /\ rows'[i].from = rows[i].from /\ rows'[i].end = rows[i].end
    BY <1>2, <1>3 DEF RowsCarried
  <2>2. rows[i].from \in SchedIds /\ rows[i].end \in Nat
    BY <1>0, <2>1, TypedRow
  <2>3. Settled(i)
    BY <1>1, <2>1
  <2>4. /\ scheds'[rows[i].from].state # "none"
        /\ rows[i].from \in Live' =>
             /\ rows[i].from \in Live
             /\ scheds'[rows[i].from].lastRun = scheds[rows[i].from].lastRun
    BY <1>2, <2>2, <2>3 DEF SchedsCarried, Settled
  <2>5. rows'[i].end <= now'
    BY <1>0, <2>1, <2>2, <2>3 DEF Carried, Settled, ProcessOK
  <2>6. CASE Enqueuing(i)
    <3>1. Enqueuing(i)'
      BY <1>2, <2>1, <2>6 DEF Carried, CallCarried, Enqueuing
    <3> QED
      BY <2>1, <2>4, <2>5, <3>1 DEF Settled
  <2>7. CASE Stamped(i)
    <3>1. Stamped(i)'
      BY <2>1, <2>4, <2>7 DEF Carried, Stamped, Ran
    <3> QED
      BY <2>1, <2>4, <2>5, <3>1 DEF Settled
  <2> QED
    BY <2>3, <2>6, <2>7, Zenon DEF Settled
<1>4. FiresOncePerWindow'
  BY <1>1, <1>2, WindowsKept
<1> QED
  BY <1>3, <1>4 DEF FiringOK

\* A request's insert: the new row is not the ticker's.
LEMMA InsertKeepsFiring ==
  ASSUME DataOK, FiringOK, faults = 0, crashes = 0,
         UNCHANGED <<now, todo, scheds>>,
         NEW p \in Clients, NEW q \in Query, NEW s \in SchedIds \cup {None},
         InsertPendingReport(p, q, s)
  PROVE  FiringOK'
<1>0. p \in Callers /\ p # Scheduler /\ Scheduler \in Callers
  BY ReportsAssumption DEF Callers
<1>d. RowsOK /\ CallsOK /\ ProcessOK
  BY DEF DataOK
<1>1. PICK n \in Ids :
        /\ calls' = [calls EXCEPT ![p] = [pc |-> "push", id |-> n, sched |-> s]]
        /\ \A i \in Ids \ {n} : rows'[i] = rows[i]
        /\ rows'[n].from = None
  BY <1>0, <1>d, InsertTyped
<1>2. calls'[Scheduler] = calls[Scheduler]
  BY <1>0, <1>1, <1>d DEF CallsOK
<1>3. RowsCarried
  BY <1>1, Zenon DEF RowsCarried
<1>4. Carried
  BY <1>2, <1>3, <1>d, SameScheds, SameCall DEF Carried, ProcessOK
<1> QED
  BY <1>4, FiringKept

\* With the ticker idle every firing is stamped.
LEMMA IdleStamped ==
  ASSUME RowsOK, FiringOK, faults = 0, crashes = 0, calls[Scheduler] = Idle,
         NEW i \in Ids, rows[i].from # None
  PROVE  Settled(i) /\ Stamped(i) /\ rows[i].end \in Nat /\ rows[i].from \in SchedIds
<1>1. Settled(i)
  BY FiringIs
<1>2. ~Enqueuing(i)
  BY DEF Enqueuing, Idle
<1> QED
  BY <1>1, <1>2, TypedRow DEF Settled

\* The list a tick reads carries the stamps of the schedules.
LEMMA TickKeepsFiring ==
  ASSUME DataOK, FiringOK, faults = 0, crashes = 0, faults' = 0, Tick
  PROVE  FiringOK'
<1>d. RowsOK /\ SchedsOK /\ ProcessOK
  BY DEF DataOK
<1>1. /\ UNCHANGED <<rows, scheds, calls, now>>
      /\ calls[Scheduler] = Idle
      /\ todo' = {scheds[s] : s \in Live}
  BY <1>d DEF Tick, StoreFails, ListSchedules, ProcessOK
<1>2. RowsCarried
  BY <1>1 DEF RowsCarried
<1>3. FiresOncePerWindow'
  BY <1>2, FiringIs, WindowsKept
<1>4. \A u \in todo' : \E s \in Live : u = scheds[s] /\ u.id = s
  BY <1>1, <1>d, LiveRows
<1>5. ASSUME NEW i \in Ids, rows'[i].from # None
      PROVE  Settled(i)'
  <2>1. Settled(i) /\ Stamped(i)
    BY <1>1, <1>d, <1>5, IdleStamped
  <2>2. Live' = Live
    BY <1>1, SameScheds
  <2>3. Stamped(i)'
    BY <1>1, <1>4, <2>1, <2>2 DEF Stamped, Ran
  <2> QED
    BY <1>1, <2>1, <2>3 DEF Settled
<1> QED
  BY <1>3, <1>5 DEF FiringOK

\* A firing is of a window that no report of the schedule has, since all of them
\* ended before its stamp.
LEMMA NewWindow ==
  ASSUME DataOK, FiringOK, faults = 0, crashes = 0, calls[Scheduler] = Idle,
         NEW s \in todo, isDue(s, now),
         NEW e, e = scheduledReport(s, now).end
  PROVE  /\ e \in Nat /\ e <= now
         /\ \A i \in Ids : rows[i].from = s.id => rows[i].end # e
<1>d. RowsOK /\ TodoOK /\ ProcessOK
  BY DEF DataOK
<1>0. now \in Nat /\ s \in SchedRow
  BY <1>d DEF ProcessOK, TodoOK
<1>1. scheduledReport(s, now) \in Query
  BY <1>0, ScheduledReportTyped
<1>2. e \in Nat /\ e <= now /\ (s.lastRun \in Nat => s.lastRun < e)
  BY <1>0, <1>1, DueWindow DEF Query
<1>3. s.id \in SchedIds /\ s.id # None
  BY <1>0, ReportsAssumption, Zenon DEF SchedRow
<1>4. ASSUME NEW i \in Ids, rows[i].from = s.id PROVE rows[i].end # e
  <2>1. Stamped(i) /\ rows[i].end \in Nat
    BY <1>3, <1>4, <1>d, IdleStamped
  <2>2. Ran(s, i)
    BY <1>4, <2>1 DEF Stamped
  <2> QED
    BY <1>2, <2>1, <2>2 DEF Ran
<1> QED
  BY <1>2, <1>4

\* A new report of a schedule, with an end no other report of it has, adds no second one of a
\* window.
LEMMA WindowsApart ==
  ASSUME FiresOncePerWindow, faults = 0, crashes = 0,
         NEW n \in Ids, \A i \in Ids \ {n} : rows'[i] = rows[i],
         \A i \in Ids : rows[i].from = rows'[n].from => rows[i].end # rows'[n].end
  PROVE  FiresOncePerWindow'
  BY DEF FiresOncePerWindow

\* When the ticker inserts the report of a due schedule, no report of that schedule has the
\* same end.
LEMMA FiringInserted ==
  ASSUME DataOK, FiringOK, faults = 0, crashes = 0,
         calls[Scheduler] = Idle, UNCHANGED <<scheds, now>>,
         NEW s \in todo, todo' = todo \ {s}, isDue(s, now),
         InsertPendingReport(Scheduler, scheduledReport(s, now), s.id)
  PROVE  FiringOK'
<1>d. RowsOK /\ CallsOK /\ TodoOK /\ ProcessOK
  BY DEF DataOK
<1>0. now \in Nat /\ s \in SchedRow
  BY <1>d DEF ProcessOK, TodoOK
<1>1. PICK sid \in SchedIds : sid = s.id
  BY <1>0 DEF SchedRow
<1>2. scheduledReport(s, now) \in Query
  BY <1>0, ScheduledReportTyped
<1>3. PICK e : e = scheduledReport(s, now).end
  OBVIOUS
<1>4. e \in Nat /\ e <= now /\ \A i \in Ids : rows[i].from = sid => rows[i].end # e
  BY <1>1, <1>3, NewWindow, Zenon
<1>5. (\A u \in todo' : u.id # sid) /\ scheds[sid].state # "none"
  BY <1>1, <1>d DEF TodoOK
<1>6. PICK n \in Ids :
        /\ calls'[Scheduler].pc # "idle" /\ calls'[Scheduler].id = n
        /\ calls'[Scheduler].sched = sid
        /\ \A i \in Ids \ {n} : rows'[i] = rows[i]
        /\ rows'[n].end = e /\ rows'[n].from = sid
  BY <1>1, <1>2, <1>3, <1>d, TickerInserts, Zenon
<1>7. FiresOncePerWindow'
  <2>1. /\ \A i \in Ids \ {n} : rows'[i] = rows[i]
        /\ \A i \in Ids : rows[i].from = rows'[n].from => rows[i].end # rows'[n].end
    BY <1>4, <1>6, Zenon
  <2>2. FiresOncePerWindow
    BY FiringIs, Zenon
  <2> QED
    BY <2>1, <2>2, WindowsApart, Zenon
<1>8. Settled(n)'
  <2>1. Enqueuing(n)'
    BY <1>5, <1>6, Zenon DEF Enqueuing
  <2> QED
    BY <1>4, <1>5, <1>6, <2>1 DEF Settled
<1>9. ASSUME NEW i \in Ids, i # n, rows'[i].from # None PROVE Settled(i)'
  <2>1. rows'[i] = rows[i] /\ Live' = Live
    BY <1>6, <1>9, SameScheds, Zenon
  <2>2. Settled(i) /\ Stamped(i)
    BY <1>9, <1>d, <2>1, IdleStamped, Zenon
  <2>3. Stamped(i)'
    BY <2>1, <2>2, Zenon DEF Stamped, Ran
  <2> QED
    BY <2>1, <2>2, <2>3, Zenon DEF Settled
<1> QED
  BY <1>7, <1>8, <1>9 DEF FiringOK

\* Taking the next listed schedule keeps FiringOK.
LEMMA TickScheduleKeepsFiring ==
  ASSUME DataOK, FiringOK, faults = 0, crashes = 0, faults' = 0, TickSchedule
  PROVE  FiringOK'
<1>d. TodoOK /\ ProcessOK
  BY DEF DataOK
<1>1. /\ UNCHANGED <<scheds, now>>
      /\ calls[Scheduler] = Idle /\ todo' = todo \ {NextListed} /\ todo # {}
  BY DEF TickSchedule
<1>2. \/ UNCHANGED <<rows, calls>>
      \/ /\ isDue(NextListed, now)
         /\ InsertPendingReport(Scheduler, scheduledReport(NextListed, now), NextListed.id)
  BY DEF TickSchedule
<1>3. PICK s \in todo : s = NextListed
  BY <1>1, <1>d, NextListedIn
<1>4. CASE UNCHANGED <<rows, calls>>
  <2>1. RowsCarried /\ CallCarried
    BY <1>4, SameCall DEF RowsCarried
  <2>2. Carried
    BY <1>1, <1>d, <2>1, SameScheds DEF Carried, ProcessOK
  <2> QED
    BY <2>2, FiringKept
<1>5. CASE isDue(s, now) /\ InsertPendingReport(Scheduler, scheduledReport(s, now), s.id)
  BY <1>1, <1>3, <1>5, FiringInserted
<1> QED
  BY <1>2, <1>3, <1>4, <1>5

\* The stamp is not before the end of the window it is for.
LEMMA StampKeepsFiring ==
  ASSUME DataOK, FiringOK, faults = 0, crashes = 0, faults' = 0, Stamp
  PROVE  FiringOK'
<1>d. RowsOK /\ SchedsOK /\ ProcessOK
  BY DEF DataOK
<1>0. PICK s : s = calls[Scheduler].sched
  OBVIOUS
<1>1. /\ UNCHANGED <<rows, todo, now>>
      /\ scheds' = [scheds EXCEPT ![s] = IF s \in Live THEN [@ EXCEPT !.lastRun = now]
                                         ELSE @]
  BY <1>0, <1>d DEF Stamp, StoreFails, ProcessOK
<1>2. \A t \in SchedIds :
        /\ scheds'[t].state = scheds[t].state
        /\ t \in Live =>
             scheds'[t].lastRun = IF t = s THEN now ELSE scheds[t].lastRun
  <2> TAKE t \in SchedIds
  <2>1. t # s => scheds'[t] = scheds[t]
    BY <1>1, <1>d DEF SchedsOK
  <2>2. CASE t = s /\ t \in Live
    <3>1. scheds[t] \in SchedRow
      BY <1>d, <2>2, LiveRows
    <3>2. scheds'[t] = [scheds[t] EXCEPT !.lastRun = now]
      BY <1>1, <1>d, <2>2 DEF SchedsOK
    <3> QED
      BY <2>2, <3>1, <3>2 DEF SchedRow
  <2>3. CASE t = s /\ t \notin Live
    BY <1>1, <1>d, <2>3 DEF SchedsOK
  <2> QED
    BY <2>1, <2>2, <2>3
<1>3. Live' = Live /\ RowsCarried
  BY <1>1, <1>2 DEF Live, RowsCarried
<1>4. FiresOncePerWindow'
  BY <1>3, FiringIs, WindowsKept
<1>5. ASSUME NEW i \in Ids, rows'[i].from # None
      PROVE  Settled(i)'
  <2>1. rows[i].from \in SchedIds /\ Settled(i) /\ now \in Nat
    BY <1>1, <1>5, <1>d, TypedRow, FiringIs DEF ProcessOK
  <2>2. Enqueuing(i) => rows[i].from = s /\ \A u \in todo : u.id # rows[i].from
    BY <1>0 DEF Enqueuing
  <2>3. rows[i].end <= now /\ (Enqueuing(i) \/ Stamped(i))
    BY <2>1 DEF Settled
  <2>4. Stamped(i)'
    BY <1>1, <1>2, <1>3, <2>1, <2>2, <2>3 DEF Stamped, Ran
  <2> QED
    BY <1>1, <1>2, <2>1, <2>4 DEF Settled
<1> QED
  BY <1>4, <1>5 DEF FiringOK

\* Deleting a report that found the queue full keeps FiringOK.
LEMMA RollbackKeepsFiring ==
  ASSUME DataOK, FiringOK, faults = 0, crashes = 0, faults' = 0,
         NEW p \in Callers, Rollback(p)
  PROVE  FiringOK'
<1>d. RowsOK /\ CallsOK /\ ProcessOK
  BY DEF DataOK
<1>0. PICK n : n = calls[p].id
  OBVIOUS
<1>1. /\ UNCHANGED <<scheds, todo, now>>
      /\ rows' = [rows EXCEPT ![n] = Gone("deleted")]
      /\ calls' = [calls EXCEPT ![p] = Idle]
      /\ n \in Ids
  BY <1>0, <1>d DEF Rollback, Return, ProcessOK, CallsOK
<1>2. rows'[n].from = None /\ \A i \in Ids : i = n \/ rows'[i] = rows[i]
  BY <1>1, <1>d DEF RowsOK, Gone
<1>3. RowsCarried
  BY <1>2 DEF RowsCarried
<1>4. CASE p # Scheduler
  <2>1. calls'[Scheduler] = calls[Scheduler]
    BY <1>1, <1>4, <1>d DEF CallsOK, Callers
  <2>2. Carried
    BY <1>1, <1>3, <1>d, <2>1, SameScheds, SameCall DEF Carried, ProcessOK
  <2> QED
    BY <2>2, FiringKept
<1>5. CASE p = Scheduler
  <2>1. FiresOncePerWindow'
    BY <1>3, FiringIs, WindowsKept
  <2>2. ASSUME NEW i \in Ids, rows'[i].from # None PROVE Settled(i)'
    <3>1. rows'[i] = rows[i] /\ i # n
      BY <1>2, <2>2
    <3>2. Settled(i)
      BY <2>2, <3>1, FiringIs
    <3>3. ~Enqueuing(i)
      BY <1>0, <1>5, <3>1 DEF Enqueuing
    <3>4. Stamped(i)'
      BY <1>1, <3>1, <3>2, <3>3, SameScheds DEF Settled, Stamped, Ran
    <3> QED
      BY <1>1, <3>1, <3>2, <3>4 DEF Settled
  <2> QED
    BY <2>1, <2>2 DEF FiringOK
<1> QED
  BY <1>4, <1>5

\* The worker changes neither the ticker's rows nor their windows.
LEMMA WorkerKeepsFiring ==
  ASSUME DataOK, FiringOK, faults = 0, crashes = 0, WorkerStep
  PROVE  FiringOK'
<1>d. RowsOK /\ WorkerOK /\ ProcessOK
  BY DEF DataOK
<1>1. UNCHANGED <<scheds, todo, calls, now>>
  BY DEF WorkerStep, Take, MarkReportRunning, MarkReportFailed, MarkReportCompleted,
         MarkReportNotified, SendAnalysisReport, processVars
<1>2. \/ UNCHANGED rows
      \/ worker.id \in Ids /\ \E st \in Statuses : Became(worker.id, st)
      \/ worker.id \in Stored /\ rows' = [rows EXCEPT ![worker.id].notified = TRUE]
  BY <1>d DEF WorkerStep, Take, MarkReportRunning, MarkReportFailed,
              MarkReportCompleted, MarkReportNotified, SendAnalysisReport, At,
              Statuses, WorkerOK
<1>3. ASSUME worker.id \in Ids, NEW st \in Statuses, Became(worker.id, st)
      PROVE  RowsCarried
  BY <1>d, <1>3, BecameTyped DEF RowsCarried
<1>4. ASSUME worker.id \in Stored, rows' = [rows EXCEPT ![worker.id].notified = TRUE]
      PROVE  RowsCarried
  <2>1. PICK w \in Ids : w = worker.id /\ rows[w] \in ReportRow
    BY <1>4, <1>d, StoredRows DEF Stored
  <2>2. PICK r : r = [rows[w] EXCEPT !.notified = TRUE]
    BY Zenon
  <2>3. r.from = rows[w].from /\ r.end = rows[w].end
    BY <2>1, <2>2 DEF ReportRow
  <2>4. \A i \in Ids : rows'[i] = IF i = w THEN r ELSE rows[i]
    BY <1>4, <1>d, <2>1, <2>2 DEF RowsOK
  <2> QED
    BY <2>3, <2>4 DEF RowsCarried
<1>5. RowsCarried
  <2>1. UNCHANGED rows => RowsCarried
    BY DEF RowsCarried
  <2> QED
    BY <1>2, <1>3, <1>4, <2>1
<1>6. Carried
  BY <1>1, <1>5, <1>d, SameScheds, SameCall DEF Carried, ProcessOK
<1> QED
  BY <1>6, FiringKept

\* Putting a pending report on the queue keeps FiringOK.
LEMMA PushKeepsFiring ==
  ASSUME DataOK, FiringOK, faults = 0, crashes = 0, NEW p \in Callers, Push(p)
  PROVE  FiringOK'
<1>d. CallsOK /\ ProcessOK
  BY DEF DataOK
<1>1. UNCHANGED <<rows, scheds, todo, now>>
  BY DEF Push, processVars
<1>2. CallCarried
  BY <1>d DEF CallCarried, Push, Return, CallsOK, Callers
<1>3. RowsCarried
  BY <1>1 DEF RowsCarried
<1>4. Carried
  BY <1>1, <1>2, <1>3, <1>d, SameScheds DEF Carried, ProcessOK
<1> QED
  BY <1>4, FiringKept

\* A report that a client asks for keeps FiringOK.
LEMMA CreateReportKeepsFiring ==
  ASSUME DataOK, FiringOK, faults = 0, crashes = 0, NEW c \in Clients, CreateReport(c)
  PROVE  FiringOK'
<1>1. PICK b \in ReportInputs :
        /\ ValidReport(b)
        /\ InsertPendingReport(c, [feed |-> b.feed, mode |-> b.mode,
              scope |-> b.scope, end |-> now, notify |-> {}], None)
  BY Zenon DEF CreateReport
<1>2. PICK q : q = [feed |-> b.feed, mode |-> b.mode, scope |-> b.scope, end |-> now,
                    notify |-> {}]
  BY Zenon
<1>3. q \in Query
  BY <1>1, <1>2, Zenon DEF ValidReport, ModesOf, validateScope, Feeds, Query, DataOK, ProcessOK
<1>4. InsertPendingReport(c, q, None) /\ UNCHANGED <<now, todo, scheds>>
  BY <1>1, <1>2, Zenon DEF CreateReport, processVars
<1> QED
  BY <1>3, <1>4, InsertKeepsFiring

\* A schedule that a client runs by hand keeps FiringOK.
LEMMA RunScheduleKeepsFiring ==
  ASSUME DataOK, FiringOK, faults = 0, crashes = 0,
         NEW c \in Clients, NEW s \in SchedIds, RunSchedule(c, s)
  PROVE  FiringOK'
<1>1. s \in Live /\ InsertPendingReport(c, scheduledReport(scheds[s], now), s)
  BY DEF RunSchedule, RunNow
<1>2. PICK q : q = scheduledReport(scheds[s], now)
  OBVIOUS
<1>3. q \in Query
  BY <1>1, <1>2, LiveRows, ScheduledReportTyped DEF DataOK, ProcessOK
<1>4. InsertPendingReport(c, q, s) /\ UNCHANGED <<now, todo, scheds>>
  BY <1>1, <1>2 DEF RunSchedule, processVars
<1> QED
  BY <1>3, <1>4, InsertKeepsFiring

\* Deleting a report keeps FiringOK.
LEMMA DeleteReportKeepsFiring ==
  ASSUME DataOK, FiringOK, faults = 0, crashes = 0, NEW i \in Ids, DeleteReport(i)
  PROVE  FiringOK'
<1>d. RowsOK /\ ProcessOK
  BY DEF DataOK
<1>1. UNCHANGED <<scheds, todo, calls, now>> /\ Became(i, "deleted")
  BY DEF DeleteReport, Became, processVars
<1>2. RowsCarried
  BY <1>1, <1>d, BecameTyped, Zenon DEF Statuses, RowsCarried
<1>3. Carried
  BY <1>1, <1>2, <1>d, SameScheds, SameCall DEF Carried, ProcessOK
<1> QED
  BY <1>3, FiringKept

\* An edit keeps the stamp, and a deleted schedule is not created again.
LEMMA ScheduleEditKeepsFiring ==
  ASSUME DataOK, FiringOK, faults = 0, crashes = 0, NEW s \in SchedIds,
         \/ CreateAnalysisSchedule(s)
         \/ UpdateAnalysisSchedule(s)
         \/ DeleteAnalysisSchedule(s)
  PROVE  FiringOK'
<1>d. SchedsOK /\ TodoOK /\ ProcessOK
  BY DEF DataOK
<1>1. PICK r \in SchedRow \cup {Removed} :
        /\ WriteSchedule(s, r)
        /\ r.state = "live" => r.id = s
        /\ r.state = "live" => (\/ scheds[s].state = "none"
                                \/ s \in Live /\ r.lastRun = scheds[s].lastRun)
  BY <1>d, ScheduleWrites, Zenon
<1>2. UNCHANGED <<rows, calls, todo, now>>
  BY <1>1 DEF WriteSchedule, processVars
<1>3. \A u \in SchedIds : scheds'[u] = IF u = s THEN r ELSE scheds[u]
  BY <1>1, <1>d, WriteTyped
<1>4. r.state # "none"
  BY DEF SchedRow, Removed
<1>5. SchedsCarried
  BY <1>1, <1>3, <1>4, Zenon DEF Live, SchedsCarried
<1>6. RowsCarried /\ CallCarried
  BY <1>2, SameCall DEF RowsCarried
<1>7. Carried
  BY <1>2, <1>5, <1>6, <1>d DEF Carried, ProcessOK
<1> QED
  BY <1>7, FiringKept

\* The passing of time keeps FiringOK.
LEMMA IdleKeepsFiring ==
  ASSUME DataOK, FiringOK, faults = 0, crashes = 0, Advance \/ UNCHANGED vars
  PROVE  FiringOK'
<1>1. UNCHANGED <<rows, scheds, calls, todo>> /\ now' \in {now, now + 1}
  BY DEF Advance, vars, analysisVars, processVars
<1>2. RowsCarried /\ CallCarried /\ SchedsCarried
  BY <1>1, SameCall, SameScheds DEF RowsCarried
<1>3. Carried
  BY <1>1, <1>2 DEF Carried, DataOK, ProcessOK
<1> QED
  BY <1>3, FiringKept

\* Faults and crashes are only ever counted up, and the first crash comes before
\* the first exit.
LEMMA CountsGrow ==
  ASSUME DataOK, [Next]_vars, faults' = 0, crashes' = 0
  PROVE  faults = 0 /\ crashes = 0 /\ ~Signal /\ ~Exit /\ ~Boot
<1> USE DEF DataOK, ProcessOK
<1>1. CASE WorkerStep
  BY <1>1 DEF WorkerStep, Take, MarkReportRunning, MarkReportFailed, MarkReportCompleted,
              MarkReportNotified, SendAnalysisReport, StoreOK, StoreFails, processVars,
              Signal, Exit, Boot
<1>2. CASE SchedulerStep
  BY <1>2 DEF SchedulerStep, Tick, TickSchedule, Stamp, StoreOK, StoreFails,
              Signal, Exit, Boot
<1>3. ASSUME NEW p \in Callers, CallStep(p) PROVE faults = 0 /\ crashes = 0 /\ UNCHANGED up
  BY <1>3 DEF CallStep, Push, Rollback, processVars
<1>4. CASE Request
  BY <1>4 DEF Request, CreateReport, RunSchedule, DeleteReport, CreateAnalysisSchedule,
              UpdateAnalysisSchedule, DeleteAnalysisSchedule, WriteSchedule, processVars,
              Signal, Exit, Boot
<1>5. CASE Advance \/ Signal \/ Exit \/ Boot \/ UNCHANGED vars
  BY <1>5 DEF Advance, Signal, Exit, Boot, vars, processVars
<1> QED
  BY <1>1, <1>2, <1>3, <1>4, <1>5, Zenon DEF Next, Signal, Exit, Boot

\* While no store call has failed and nothing has crashed, no window of a
\* schedule is fired twice, whatever edits and "run now" requests race the ticker.
THEOREM FiringsCorrect == Spec => []FiresOncePerWindow
<1>1. Init => FiringOK
  <2>1. Init => \A i \in Ids : rows[i].from = None
    BY DEF Init, Gone
  <2> QED
    BY <2>1 DEF FiringOK, FiresOncePerWindow
<1>2. DataOK /\ FiringOK /\ [Next]_vars => FiringOK'
  <2> SUFFICES ASSUME DataOK, FiringOK, [Next]_vars, faults' = 0, crashes' = 0
               PROVE  FiringOK'
    BY Zenon DEF FiringOK
  <2>0. faults = 0 /\ crashes = 0 /\ ~Signal /\ ~Exit /\ ~Boot
    BY CountsGrow
  <2>1. WorkerStep => FiringOK'
    BY <2>0, WorkerKeepsFiring
  <2>2. SchedulerStep => FiringOK'
    BY <2>0, TickKeepsFiring, TickScheduleKeepsFiring, StampKeepsFiring
       DEF SchedulerStep
  <2>3. ASSUME NEW p \in Callers, CallStep(p) PROVE FiringOK'
    BY <2>0, <2>3, PushKeepsFiring, RollbackKeepsFiring DEF CallStep
  <2>4. Request => FiringOK'
    BY <2>0, CreateReportKeepsFiring, RunScheduleKeepsFiring, DeleteReportKeepsFiring,
       ScheduleEditKeepsFiring DEF Request
  <2>5. Advance \/ UNCHANGED vars => FiringOK'
    BY <2>0, IdleKeepsFiring
  <2> QED
    BY <2>0, <2>1, <2>2, <2>3, <2>4, <2>5 DEF Next
<1>3. FiringOK => FiresOncePerWindow
  BY DEF FiringOK, FiresOncePerWindow
<1> QED
  BY <1>1, <1>2, <1>3, DataCorrect, PTL DEF Spec
=============================================================================
