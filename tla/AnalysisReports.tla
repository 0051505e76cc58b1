---------------------------- MODULE AnalysisReports ----------------------------
(***************************************************************************)
(* The analysis report pipeline: report rows and schedules in the store,   *)
(* the HTTP handlers and the schedule ticker that enqueue reports, and the *)
(* single worker that runs them (internal/worker/analysis.go,              *)
(* internal/scheduler/analysis.go, internal/handler/analysis*.go and the   *)
(* two analysis stores).  The process may be shut down or killed at any    *)
(* moment and booted again; a store call may fail.                         *)
(*                                                                         *)
(* Time is counted in ticks of the scheduler's 60s ticker, Day of them to  *)
(* a day.  A request that fails validation, or whose insert is refused,    *)
(* changes nothing and is therefore not a step.                            *)
(***************************************************************************)
EXTENDS Naturals, Sequences, FiniteSets

CONSTANTS
  Ids,              \* report row ids, 1 .. n in insertion order
  SchedIds,         \* schedule row ids
  Clients,          \* concurrent HTTP requests
  Scheduler,        \* the schedule ticker's goroutine
  QueueDepth,       \* capacity of the work channel
  MaxSlugs,         \* slug suffixes InsertPendingReport tries
  Day, FiringWindow,
  ReportInputs,     \* bodies of POST /analysis/reports
  ScheduleInputs,   \* bodies of POST and PUT /analysis/schedules
  EmailChannels,    \* ids of the email notification channels
  None,
  MaxFaults, MaxCrashes, MaxEdits, MaxTime

\* The firing window is shorter than half a day, the shortest interval isDue
\* asks for; a body is decoded into a bool, an optional int and a time of day.
ASSUME ReportsAssumption ==
  /\ Ids \subseteq Nat /\ SchedIds \subseteq Nat /\ None \notin Nat
  /\ QueueDepth \in Nat \ {0}
  /\ Day \in Nat /\ FiringWindow \in Nat /\ FiringWindow < Day \div 2
  /\ \A b \in ScheduleInputs :
       b.enabled \in BOOLEAN /\ b.day \in Nat \cup {None} /\ b.at \in 0 .. Day - 1
  /\ Scheduler \notin Clients

VARIABLES
  rows,      \* analysis_reports, by id
  scheds,    \* analysis_schedules, by id
  queue,     \* the work channel
  worker,    \* [pc, id, notify]: the worker goroutine
  calls,     \* [pc, id, sched]: one Enqueue in progress per caller
  todo,      \* the schedules the current tick has still to look at
  ticked,    \* an undelivered tick sits in the ticker's channel
  edits,     \* HTTP requests that changed something so far
  mailed,    \* reports the completion callback handed to the engine
  now, up, faults, crashes

analysisVars == <<rows, scheds, queue, worker, calls, todo, ticked, edits, mailed>>
processVars  == <<now, up, faults, crashes>>

Callers == Clients \cup {Scheduler}
Idle    == [pc |-> "idle", id |-> None, sched |-> None]
Resting == [pc |-> "idle", id |-> None, notify |-> {}]
Gone(state) == [status |-> state, from |-> None]

Active == {i \in Ids : rows[i].status \in {"pending", "running"}}
Stored == {i \in Ids : rows[i].status \notin {"none", "deleted"}}
Live   == {s \in SchedIds : scheds[s].state = "live"}
Least(S) == CHOOSE i \in S : \A j \in S : i <= j

Init ==
  /\ rows = [i \in Ids |-> Gone("none")]
  /\ scheds = [s \in SchedIds |-> [state |-> "none"]]
  /\ queue = <<>>
  /\ worker = Resting
  /\ calls = [p \in Callers |-> Idle]
  /\ todo = {}
  /\ ticked = FALSE
  /\ edits = 0
  /\ mailed = {}
  /\ now = 0 /\ up = "up" /\ faults = 0 /\ crashes = 0

-----------------------------------------------------------------------------
(* Cadence: internal/model/schedule.go and isDue *)

SchedulePeriod(freq) ==
  CASE freq = "weekly"  -> 7 * Day
    [] freq = "monthly" -> 30 * Day
    [] OTHER            -> Day

\* Day 0 is a Sunday and the first of a month of 30 days.
FiresOn(s, t) ==
  CASE s.freq = "weekly"  -> s.day # None /\ (t \div Day) % 7 = s.day
    [] s.freq = "monthly" -> s.day # None /\ ((t \div Day) % 30) + 1 = s.day
    [] OTHER              -> TRUE

isDue(s, t) ==
  /\ t % Day >= s.at
  /\ (t % Day) - s.at <= FiringWindow
  /\ FiresOn(s, t)
  /\ s.lastRun # None => t - s.lastRun >= SchedulePeriod(s.freq) \div 2

scheduledPeriodEnd(s, t) == (t \div Day) * Day + s.at

AnalysisModeForFrequency(freq) ==
  IF freq \in {"weekly", "monthly"} THEN "weekly" ELSE "daily"

scheduledReport(s, t) ==
  [feed |-> s.feed, mode |-> AnalysisModeForFrequency(s.freq), scope |-> "all",
   end |-> scheduledPeriodEnd(s, t), notify |-> s.notify]

-----------------------------------------------------------------------------
(* What the handlers accept *)

ModesOf(feed) ==
  IF feed = "applog" THEN {"daily", "incident"} ELSE {"daily", "weekly", "incident"}

validateNotifyChannels(ids) == ids \subseteq EmailChannels

decodeAndValidateSchedule(b) ==
  /\ b.feed \in {"netlog", "srvlog", "applog"}
  /\ b.freq \in {"daily", "weekly", "monthly"}
  /\ b.freq = "weekly" => b.day \in 0 .. 6
  /\ b.freq = "monthly" => b.day \in 1 .. 28
  /\ AnalysisModeForFrequency(b.freq) \in ModesOf(b.feed)
  /\ validateNotifyChannels(b.notify)

\* Every name of a scope exists; the scope's kind is the feed's.
validateScope(feed, scope) ==
  scope \in {"all", IF feed = "applog" THEN "services" ELSE "hosts"}

ValidReport(b) ==
  /\ b.feed \in {"netlog", "srvlog", "applog"}
  /\ b.mode \in ModesOf(b.feed)
  /\ b.minutes \in 5 .. IF b.mode = "incident" THEN 6 * 60 ELSE 30 * 24 * 60
  /\ validateScope(b.feed, b.scope)

-----------------------------------------------------------------------------
(* The store *)

\* A call under the process context fails once it is cancelled, or by chance.
StoreOK == up = "up" /\ UNCHANGED faults
StoreFails ==
  \/ up = "stopping" /\ UNCHANGED faults
  \/ up = "up" /\ faults < MaxFaults /\ faults' = faults + 1

\* analysis_reports_active_uniq has the scope in its key; the slug does not,
\* and takes the first free suffix.
BuildAnalysisSlug(q) == <<q.feed, q.mode, q.end>>
SameSlug(q) == {i \in Stored : BuildAnalysisSlug(rows[i]) = BuildAnalysisSlug(q)}
Duplicate(q) == \E i \in Active \cap SameSlug(q) : rows[i].scope = q.scope
SlugsLeft(q) == 1 .. MaxSlugs \ {rows[i].suffix : i \in SameSlug(q)}
Unused == {i \in Ids : rows[i].status = "none"}

CanInsert(q) == ~Duplicate(q) /\ SlugsLeft(q) # {} /\ Unused # {}

\* The first half of Enqueue: caller p has inserted q and still has to queue it.
InsertPendingReport(p, q, s) ==
  /\ CanInsert(q)
  /\ rows' = [rows EXCEPT ![Least(Unused)] =
       [status |-> "pending", notified |-> FALSE, suffix |-> Least(SlugsLeft(q)),
        feed |-> q.feed, mode |-> q.mode, scope |-> q.scope, end |-> q.end,
        notify |-> q.notify, from |-> IF p = Scheduler THEN s ELSE None]]
  /\ calls' = [calls EXCEPT ![p] = [pc |-> "push", id |-> Least(Unused), sched |-> s]]

Became(i, status) ==
  rows' = [rows EXCEPT ![i] = IF i \in Stored THEN [@ EXCEPT !.status = status] ELSE @]

-----------------------------------------------------------------------------
(* HTTP: reports *)

Serving(c) == up # "down" /\ calls[c] = Idle /\ edits < MaxEdits /\ edits' = edits + 1

CreateReport(c) ==
  /\ Serving(c)
  /\ \E b \in ReportInputs :
       /\ ValidReport(b)
       /\ InsertPendingReport(c, [feed |-> b.feed, mode |-> b.mode, scope |-> b.scope,
                                  end |-> now, notify |-> {}], None)
  /\ UNCHANGED <<scheds, queue, worker, todo, ticked, mailed, processVars>>

Return(p) == calls' = [calls EXCEPT ![p] = Idle]

\* The ErrQueueFull branch is taken when the channel has no room.
Push(p) ==
  /\ calls[p].pc = "push"
  /\ IF Len(queue) < QueueDepth
     THEN /\ queue' = Append(queue, calls[p].id)
          /\ IF p = Scheduler THEN calls' = [calls EXCEPT ![p].pc = "stamp"] ELSE Return(p)
     ELSE /\ calls' = [calls EXCEPT ![p].pc = "rollback"]
          /\ UNCHANGED queue
  /\ UNCHANGED <<rows, scheds, worker, todo, ticked, edits, mailed, processVars>>

\* The rollback's context is never cancelled; the delete may fail all the same.
Rollback(p) ==
  /\ calls[p].pc = "rollback"
  /\ \/ rows' = [rows EXCEPT ![calls[p].id] = Gone("deleted")] /\ UNCHANGED faults
     \/ faults < MaxFaults /\ faults' = faults + 1 /\ UNCHANGED rows
  /\ Return(p)
  /\ UNCHANGED <<scheds, queue, worker, todo, ticked, edits, mailed, now, up, crashes>>

DeleteReport(i) ==
  /\ up # "down" /\ edits < MaxEdits
  /\ i \in Stored
  /\ rows' = [rows EXCEPT ![i] = [@ EXCEPT !.status = "deleted"]]
  /\ edits' = edits + 1
  /\ UNCHANGED <<scheds, queue, worker, calls, todo, ticked, mailed, processVars>>

-----------------------------------------------------------------------------
(* HTTP: schedules *)

WriteSchedule(s, sched) ==
  /\ up # "down" /\ edits < MaxEdits
  /\ scheds' = [scheds EXCEPT ![s] = sched]
  /\ edits' = edits + 1
  /\ UNCHANGED <<rows, queue, worker, calls, todo, ticked, mailed, processVars>>

\* The row an insert stores; an update stores the same and keeps last_run_at.
Row(b, s, lastRun) ==
  [state |-> "live", id |-> s, enabled |-> b.enabled, feed |-> b.feed, freq |-> b.freq,
   day |-> b.day, at |-> b.at, notify |-> b.notify, lastRun |-> lastRun]

CreateAnalysisSchedule(s) ==
  /\ scheds[s].state = "none"
  /\ \E b \in ScheduleInputs : decodeAndValidateSchedule(b) /\ WriteSchedule(s, Row(b, s, None))

Updated(b, s) == Row(b, s, scheds[s].lastRun)

\* Mutant: the update writes the body's last_run_at as well.
UpdateResetsLastRun(s) ==
  /\ s \in Live
  /\ \E b \in ScheduleInputs : decodeAndValidateSchedule(b) /\ WriteSchedule(s, Row(b, s, None))

UpdateAnalysisSchedule(s) ==
  /\ s \in Live
  /\ \E b \in ScheduleInputs :
       decodeAndValidateSchedule(b) /\ WriteSchedule(s, Updated(b, s))

Removed == [state |-> "deleted"]

DeleteAnalysisSchedule(s) == s \in Live /\ WriteSchedule(s, Removed)

\* "Run now" enqueues the tick's window and leaves last_run_at alone.
RunNow(c, s) == s \in Live /\ InsertPendingReport(c, scheduledReport(scheds[s], now), s)

RunSchedule(c, s) ==
  /\ Serving(c)
  /\ RunNow(c, s)
  /\ UNCHANGED <<scheds, queue, worker, todo, ticked, mailed, processVars>>

-----------------------------------------------------------------------------
(* The schedule ticker *)

\* ListAnalysisSchedules, to be looked at in id order.
ListSchedules == {scheds[s] : s \in Live}
NextListed == CHOOSE s \in todo : \A u \in todo : s.id <= u.id

Tick ==
  /\ ticked /\ calls[Scheduler] = Idle /\ todo = {}
  /\ ticked' = FALSE
  /\ \/ StoreOK /\ todo' = ListSchedules
     \/ StoreFails /\ UNCHANGED todo
  /\ UNCHANGED <<rows, scheds, queue, worker, calls, edits, mailed, now, up, crashes>>

\* One turn of tick's loop: skip the schedule, or enqueue its report.  A failed
\* enqueue leaves last_run_at, so a later tick of the window tries again.  No
\* store call separates isDue's reading of the clock from scheduledReport's, and
\* one reading stands for both.
TickSchedule ==
  LET s == NextListed
      q == scheduledReport(s, now)
  IN  /\ calls[Scheduler] = Idle /\ todo # {}
      /\ todo' = todo \ {s}
      /\ IF ~s.enabled \/ ~isDue(s, now)
         THEN UNCHANGED <<rows, calls, faults>>
         ELSE \/ StoreOK /\ InsertPendingReport(Scheduler, q, s.id)
              \/ StoreOK /\ ~CanInsert(q) /\ UNCHANGED <<rows, calls>>
              \/ StoreFails /\ UNCHANGED <<rows, calls>>
      /\ UNCHANGED <<scheds, queue, worker, ticked, edits, mailed, now, up, crashes>>

\* UpdateAnalysisScheduleLastRun after a successful Enqueue.
Stamp ==
  LET s == calls[Scheduler].sched
  IN  /\ calls[Scheduler].pc = "stamp"
      /\ \/ /\ StoreOK
            /\ scheds' = [scheds EXCEPT ![s] = IF s \in Live THEN [@ EXCEPT !.lastRun = now] ELSE @]
         \/ StoreFails /\ UNCHANGED scheds
      /\ Return(Scheduler)
      /\ UNCHANGED <<rows, queue, worker, todo, ticked, edits, mailed, now, up, crashes>>

-----------------------------------------------------------------------------
(* The worker: Start and process *)

At(pc) == worker.pc = pc
Goto(pc) == worker' = [worker EXCEPT !.pc = pc]
GiveUp == worker' = Resting

\* GetReport: the row may have been deleted while it was queued.
Take ==
  /\ At("idle") /\ queue # <<>>
  /\ queue' = Tail(queue)
  /\ \/ /\ StoreOK
        /\ IF Head(queue) \in Stored
           THEN worker' = [pc |-> "mark", id |-> Head(queue), notify |-> rows[Head(queue)].notify]
           ELSE GiveUp
     \/ StoreFails /\ GiveUp
  /\ UNCHANGED <<rows, scheds, calls, todo, ticked, edits, mailed, now, up, crashes>>

MarkReportRunning ==
  /\ At("mark")
  /\ \/ /\ StoreOK
        /\ IF rows[worker.id].status = "pending"
           THEN Became(worker.id, "running") /\ Goto("run")
           ELSE GiveUp /\ UNCHANGED rows
     \/ StoreFails /\ GiveUp /\ UNCHANGED rows
  /\ UNCHANGED <<scheds, queue, calls, todo, ticked, edits, mailed, now, up, crashes>>

\* The analyzer's run ends within runTimeout, in an error or in a report; Analyzer
\* models what it does.
MarkReportFailed ==
  /\ At("run")
  /\ \/ StoreOK /\ Became(worker.id, "failed")
     \/ StoreFails /\ UNCHANGED rows
  /\ GiveUp
  /\ UNCHANGED <<scheds, queue, calls, todo, ticked, edits, mailed, now, up, crashes>>

\* Mutant: the notification goes out although the row could not be written.
CompletesRegardless ==
  /\ At("run")
  /\ \/ StoreOK /\ Became(worker.id, "completed")
     \/ StoreFails /\ UNCHANGED rows
  /\ Goto("notify")
  /\ UNCHANGED <<scheds, queue, calls, todo, ticked, edits, mailed, now, up, crashes>>

MarkReportCompleted ==
  /\ At("run")
  /\ \/ StoreOK /\ Became(worker.id, "completed") /\ Goto("notify")
     \/ StoreFails /\ GiveUp /\ UNCHANGED rows
  /\ UNCHANGED <<scheds, queue, calls, todo, ticked, edits, mailed, now, up, crashes>>

\* The notified_at compare-and-set of fireCompletion.
MarkReportNotified ==
  /\ At("notify")
  /\ \/ /\ StoreOK
        /\ IF worker.id \in Stored /\ ~rows[worker.id].notified
           THEN rows' = [rows EXCEPT ![worker.id].notified = TRUE] /\ Goto("send")
           ELSE GiveUp /\ UNCHANGED rows
     \/ StoreFails /\ GiveUp /\ UNCHANGED rows
  /\ UNCHANGED <<scheds, queue, calls, todo, ticked, edits, mailed, now, up, crashes>>

\* The completion callback: a report without channels, as every manual one is,
\* is mailed to nobody.
SendAnalysisReport ==
  /\ At("send")
  /\ mailed' = IF worker.notify # {} THEN mailed \cup {worker.id} ELSE mailed
  /\ GiveUp
  /\ UNCHANGED <<rows, scheds, queue, calls, todo, ticked, edits, processVars>>

-----------------------------------------------------------------------------
(* The process *)

\* What is in memory is lost.
Forget ==
  /\ queue' = <<>> /\ worker' = Resting
  /\ calls' = [p \in Callers |-> Idle]
  /\ todo' = {} /\ ticked' = FALSE
  /\ UNCHANGED <<rows, scheds, edits, mailed>>

\* Mutant: only running rows are reconciled.
ReconcileRunningOnly ==
  rows' = [i \in Ids |-> IF rows[i].status = "running"
                         THEN [rows[i] EXCEPT !.status = "failed"] ELSE rows[i]]

ReconcileOrphanedReports ==
  rows' = [i \in Ids |-> IF i \in Active THEN [rows[i] EXCEPT !.status = "failed"] ELSE rows[i]]

\* A signal cancels the context; the process ends with whatever is in memory.
Signal ==
  /\ up = "up" /\ crashes < MaxCrashes
  /\ up' = "stopping" /\ crashes' = crashes + 1
  /\ UNCHANGED <<now, faults, analysisVars>>

Exit ==
  /\ \/ up = "stopping" /\ UNCHANGED crashes
     \/ up = "up" /\ crashes < MaxCrashes /\ crashes' = crashes + 1
  /\ up' = "down"
  /\ Forget
  /\ UNCHANGED <<now, faults>>

\* setupAnalysis reconciles before the worker starts, or logs that it could not.
Boot ==
  /\ up = "down" /\ up' = "up"
  /\ \/ ReconcileOrphanedReports /\ UNCHANGED faults
     \/ faults < MaxFaults /\ faults' = faults + 1 /\ UNCHANGED rows
  /\ UNCHANGED <<scheds, queue, worker, calls, todo, ticked, edits, mailed, now, crashes>>

\* The next minute.  The ticker's channel holds one tick; a goroutine that waits
\* for it gets it before the next is due.
Advance ==
  /\ now < MaxTime
  /\ up = "up" => ~(ticked /\ calls[Scheduler] = Idle /\ todo = {})
  /\ now' = now + 1
  /\ ticked' = (up = "up")
  /\ UNCHANGED <<rows, scheds, queue, worker, calls, todo, edits, mailed, up, faults, crashes>>

WorkerStep == Take \/ MarkReportRunning \/ MarkReportFailed
                \/ MarkReportCompleted \/ MarkReportNotified \/ SendAnalysisReport
SchedulerStep == Tick \/ TickSchedule \/ Stamp
CallStep(p) == Push(p) \/ Rollback(p)
Request ==
  \/ \E c \in Clients : CreateReport(c) \/ \E s \in SchedIds : RunSchedule(c, s)
  \/ \E i \in Ids : DeleteReport(i)
  \/ \E s \in SchedIds : CreateAnalysisSchedule(s) \/ UpdateAnalysisSchedule(s)
                           \/ DeleteAnalysisSchedule(s)

Next == WorkerStep \/ SchedulerStep \/ (\E p \in Callers : CallStep(p)) \/ Request
          \/ Advance \/ Signal \/ Exit \/ Boot

vars == <<analysisVars, processVars>>
Spec == Init /\ [][Next]_vars

\* Goroutines run, an analyzer run ends within its timeout, a stopping process
\* exits and a stopped one is started again.
FairSpec ==
  /\ Spec
  /\ WF_vars(WorkerStep)
  /\ \A p \in Callers : WF_vars(CallStep(p))
  /\ WF_vars(up = "stopping" /\ Exit)
  /\ WF_vars(Boot)

-----------------------------------------------------------------------------
TypeOK ==
  /\ \A i \in Ids : rows[i].status \in
        {"none", "pending", "running", "completed", "failed", "deleted"}
  /\ queue \in Seq(Ids) /\ Len(queue) <= QueueDepth
  /\ worker.pc \in {"idle", "mark", "run", "notify", "send"}
  /\ \A p \in Callers : calls[p].pc \in {"idle", "push", "rollback", "stamp"}
  /\ mailed \subseteq Ids /\ ticked \in BOOLEAN
  /\ up \in {"up", "stopping", "down"}

\* An email never announces a report the store does not have: at the moment the
\* callback runs, and ever after, the row is completed or somebody deleted it.
MailedReportsAreStored == \A i \in mailed : rows[i].status \in {"completed", "deleted"}

\* The ticker fires a schedule at most once per window, whatever edits, deletes
\* and "run now" requests happen in it, unless the last_run_at stamp was lost to
\* a failing store or to a crash.
FiresOncePerWindow ==
  faults = 0 /\ crashes = 0 =>
    \A i, j \in Ids : rows[i].from # None /\ rows[i].from = rows[j].from
                        /\ rows[i].end = rows[j].end => i = j

\* A report that was accepted ends: as long as no store call has failed, every
\* pending or running row is finished, deleted, or reconciled by the next boot.
ReportsSettle ==
  \A i \in Ids : (i \in Active /\ faults = 0) ~> (i \notin Active \/ faults > 0)
=============================================================================
