------------------------------ MODULE Summaries ------------------------------
(***************************************************************************)
(* The summary scheduler (internal/scheduler/summary.go), its schedules    *)
(* (internal/postgres/summary_store.go) and their handlers                 *)
(* (internal/handler/summary.go), on top of the channels they are sent to. *)
(* A due schedule is gathered, sent and stamped by the ticker's goroutine, *)
(* so while one summary is delivered the schedules behind it wait.         *)
(* A summary counts as sent once it is handed to the engine's SendSummary. *)
(***************************************************************************)
EXTENDS Settings, Integers, Sequences, Functions, TLC

CONSTANTS
  StartChannels,           \* the channels already in the database
  SumIds, Triggers,        \* schedule ids; concurrent "send now" requests
  Ticker,                  \* the ticker's goroutine
  SummaryInputs,           \* schedules clients type in
  Issues,                  \* the groups of log messages: [kind, sev, host, cnt]
  Day,                     \* minutes in a day
  MaxTime, MaxFaults       \* (failed queries and stops, together)

VARIABLES
  sums,                    \* summary_schedules with their channels, by id
                           \* (updated: not as CreateSchedule stored it)
  runs,                    \* [pc, todo, at, before]: a tick or a "send now"
  ticked,                  \* the ticker's channel holds a tick
  sent,                    \* summaries handed to the engine
  quiet,                   \* nothing but ticks in this minute
  late,                    \* a stamp replaced a later one
  now, up, faults, crashes

Runners == Triggers \cup {Ticker}
Resting == [pc |-> "idle", todo |-> <<>>, at |-> None, before |-> {}]
Live == {s \in SumIds : sums[s] \notin Absent}
Running == up \in {"up", "stopping"}
Kinds == {"srvlog", "netlog", "applog"}

-----------------------------------------------------------------------------
(* The top issues *)

appLogLevelToSeverity(level) ==
  CASE level = "FATAL" -> 0 [] level = "ERROR" -> 3 [] level = "WARN" -> 4 [] OTHER -> 6

Severity(i) == IF i.kind = "applog" THEN appLogLevelToSeverity(i.sev) ELSE i.sev

\* The first n of S when sorted; equals may come in any order.
Firsts(S, n, Before(_, _)) ==
  {T \in SUBSET S : /\ Cardinality(T) = IF n < Cardinality(S) THEN n ELSE Cardinality(S)
                    /\ \A x \in T, y \in S \ T : ~Before(y, x)}

BySeverity(x, y) ==
  IF Severity(x) # Severity(y) THEN Severity(x) < Severity(y) ELSE x.cnt > y.cnt

LevelRank(level) ==
  CASE level = "FATAL" -> 0 [] level = "ERROR" -> 1 [] level = "WARN" -> 2 [] OTHER -> 3
ByLevel(x, y) ==
  IF x.sev # y.sev THEN LevelRank(x.sev) < LevelRank(y.sev) ELSE x.cnt > y.cnt

OnHost(s, i) == s.host = "" \/ i.host = s.host

getTopSyslogIssues(s, kind) ==
  Firsts({i \in Issues : /\ i.kind = kind /\ OnHost(s, i)
                         /\ s.sevMax # None => i.sev <= s.sevMax}, s.topN, BySeverity)

getTopAppLogIssues(s) ==
  Firsts({i \in Issues : /\ i.kind = "applog" /\ OnHost(s, i)
                         /\ i.sev \notin {"DEBUG", "INFO"}}, s.topN, ByLevel)

TopOf(s, kind) ==
  CASE kind \in {"srvlog", "netlog"} -> getTopSyslogIssues(s, kind)
    [] kind = "applog"               -> getTopAppLogIssues(s)
    [] OTHER                         -> {{}}

\* What the queries, one per kind in the list and each cut at n, return together:
\* pairs of a place in event_kinds and an issue, for a kind may be there twice.
Answers(s) ==
  LET places == DOMAIN s.kinds
      tops   == [k \in places |-> TopOf(s, s.kinds[k])]
  IN  {UNION {{k} \X pick[k] : k \in places} :
         pick \in {f \in [places -> UNION {tops[k] : k \in places}] :
                     \A k \in places : f[k] \in tops[k]}}

\* Mutant: the lists are cut without being merged by severity.
CutsUnsorted(s) ==
  LET Early(x, y) == x[2].kind = "applog" /\ y[2].kind # "applog"
  IN  UNION {Firsts(U, s.topN, Early) : U \in Answers(s)}

\* The answers are merged, sorted and cut again.
GetTopIssues(s) ==
  LET Early(x, y) == BySeverity(x[2], y[2])
  IN  UNION {Firsts(U, s.topN, Early) : U \in Answers(s)}

\* With a negative n LIMIT is refused, so only a schedule none of whose kinds is
\* queried gets as far as cutting an empty list at n.
CutPanics(s) == s.topN < 0 /\ Range(s.kinds) \cap Kinds = {}

-----------------------------------------------------------------------------
(* Schedules *)

SchedulePeriod(freq) ==
  CASE freq = "weekly"  -> 7 * Day
    [] freq = "monthly" -> 30 * Day
    [] OTHER            -> Day

FiresOn(s, t) ==
  CASE s.freq = "weekly"  -> s.day # None /\ (t \div Day) % 7 = s.day
    [] s.freq = "monthly" -> s.day # None /\ ((t \div Day) % 30) + 1 = s.day
    [] OTHER              -> TRUE

\* The hour and the minute match, not a window after them.
isDue(s, t) ==
  /\ t % Day = s.at
  /\ FiresOn(s, t)
  /\ s.lastRun # None => t - s.lastRun >= SchedulePeriod(s.freq) \div 2

\* The row and its channels are one transaction, undone by a channel that does
\* not exist and by the CHECK on the frequency.
insertScheduleChannels(ids) == ids \subseteq Stored
CheckRow(b) == b.freq \in {"daily", "weekly", "monthly"}

CreateSummarySchedule(s, b) ==
  /\ sums[s] = None /\ \A i \in SumIds : i < s => sums[i] # None
  /\ CheckRow(b)
  /\ sums' = [sums EXCEPT ![s] = b @@ [id |-> s, lastRun |-> None, updated |-> FALSE]]
  /\ insertScheduleChannels(b.channels)

UpdateSummarySchedule(s, b) ==
  /\ s \in Live /\ CheckRow(b)
  /\ sums' = [sums EXCEPT ![s] = b @@ [id |-> s, lastRun |-> @.lastRun, updated |-> TRUE]]
  /\ insertScheduleChannels(b.channels)

DeleteSummarySchedule(s) ==
  /\ s \in Live
  /\ sums' = [sums EXCEPT ![s] = Deleted]

\* A request on the schedules, between ticks.
EditsSchedules ==
  /\ Running /\ Edits
  /\ quiet' = FALSE
  /\ UNCHANGED <<channels, rules, reqs, runs, ticked, sent, late, now, up, faults, crashes>>

\* Mutant: a top_n that is not positive is stored as it came.
KeepsTopN(s) ==
  /\ EditsSchedules
  /\ \E b \in SummaryInputs :
       b.kinds # <<>> /\ b.channels # {} /\ CreateSummarySchedule(s, b)

CreateSchedule(s) ==
  /\ EditsSchedules
  /\ \E b \in SummaryInputs :
       /\ b.kinds # <<>> /\ b.channels # {}
       /\ CreateSummarySchedule(s, [b EXCEPT !.topN = IF @ <= 0 THEN 25 ELSE @])

\* Neither the kinds, nor the channels, nor top_n are looked at again.
UpdateSchedule(s) ==
  /\ EditsSchedules
  /\ \E b \in SummaryInputs : UpdateSummarySchedule(s, b)

DeleteSchedule(s) == EditsSchedules /\ DeleteSummarySchedule(s)

-----------------------------------------------------------------------------
(* The ticker and "send now" *)

\* A signal cancels the ticker's context, not that of a request.
StoreOK(p) == (up = "up" \/ p # Ticker) /\ UNCHANGED faults
StoreFails(p) ==
  IF up = "stopping" /\ p = Ticker THEN UNCHANGED faults
  ELSE faults + crashes < MaxFaults /\ faults' = faults + 1

ListSummarySchedules ==
  CHOOSE l \in [1 .. Cardinality(Live) -> {sums[s] : s \in Live}] :
    \A i, j \in DOMAIN l : i < j => l[i].id < l[j].id

\* The summaries whose stamp is not under way.
Stamped ==
  {m \in sent : \A p \in Runners :
     ~(runs[p].pc = "stamp" /\ Head(runs[p].todo).id = m.id /\ runs[p].at = m.at)}

tick ==
  /\ up = "up" /\ ticked /\ runs[Ticker] = Resting
  /\ ticked' = FALSE
  /\ \/ /\ StoreOK(Ticker)
        /\ runs' = [runs EXCEPT ![Ticker] =
             [pc |-> "next", todo |-> ListSummarySchedules, at |-> None, before |-> Stamped]]
     \/ StoreFails(Ticker) /\ UNCHANGED runs
  /\ UNCHANGED <<sums, sent, quiet, late>>

\* Mutant: the tick ends at the first schedule that is not due.
EndsEarly ==
  LET r == runs[Ticker]
  IN  /\ r.pc = "next"
      /\ runs' = [runs EXCEPT ![Ticker] =
           IF r.todo # <<>> /\ Head(r.todo).enabled /\ isDue(Head(r.todo), now)
           THEN [r EXCEPT !.pc = "send", !.at = now] ELSE Resting]
      /\ UNCHANGED <<sums, ticked, sent, quiet, late, faults>>

tickSchedule ==
  LET r == runs[Ticker]
  IN  /\ r.pc = "next"
      /\ runs' = [runs EXCEPT ![Ticker] =
           IF r.todo = <<>> THEN Resting
           ELSE IF Head(r.todo).enabled /\ isDue(Head(r.todo), now)
                THEN [r EXCEPT !.pc = "send", !.at = now]
                ELSE [r EXCEPT !.todo = Tail(@)]]
      /\ UNCHANGED <<sums, ticked, sent, quiet, late, faults>>

\* "Send now" runs the schedule it finds in the list, enabled or not.
TriggerSchedule(p, s) ==
  /\ runs[p] = Resting /\ s \in Live
  /\ runs' = [runs EXCEPT ![p] = [Resting EXCEPT !.pc = "send", !.todo = <<sums[s]>>, !.at = now]]
  /\ quiet' = FALSE
  /\ UNCHANGED <<sums, ticked, sent, late, faults>>

\* The goroutine goes on with the next schedule, the request answers.
Done(p) ==
  runs' = [runs EXCEPT ![p] =
    IF p = Ticker THEN [@ EXCEPT !.pc = "next", !.todo = Tail(@), !.at = None] ELSE Resting]

\* A section per kind and the top issues, each left out when its query fails, go
\* to SendSummary, which returns when every channel was tried.
runSchedule(p) ==
  LET r == runs[p]
      s == Head(r.todo)
  IN  /\ r.pc = "send" /\ ~CutPanics(s)
      /\ StoreOK(p) \/ StoreFails(p)
      /\ sent' = sent \cup {[id |-> s.id, at |-> r.at]}
      /\ runs' = [runs EXCEPT ![p].pc = "stamp"]
      /\ UNCHANGED <<sums, ticked, quiet, late>>

\* Mutant: the stamp is forgotten.
StampsNothing(p) ==
  /\ runs[p].pc = "stamp"
  /\ Done(p)
  /\ UNCHANGED <<sums, ticked, sent, quiet, late, faults>>

\* The stamp of a slow summary may replace a later one; there is no row to stamp
\* when the schedule is gone.
UpdateSummaryScheduleLastRun(s, t) ==
  /\ sums' = [sums EXCEPT ![s] = IF @ \in Absent THEN @ ELSE [@ EXCEPT !.lastRun = t]]
  /\ late' = (late \/ (s \in Live /\ sums[s].lastRun # None /\ sums[s].lastRun > t))

stampSchedule(p) ==
  LET r == runs[p]
  IN  /\ r.pc = "stamp"
      /\ \/ StoreOK(p) /\ UpdateSummaryScheduleLastRun(Head(r.todo).id, r.at)
         \/ StoreFails(p) /\ UNCHANGED <<sums, late>>
      /\ Done(p)
      /\ quiet' = (quiet /\ p = Ticker)
      /\ UNCHANGED <<ticked, sent>>

\* The panic ends a request (chi's Recoverer) but, in the ticker, the process.
cutPanics(p) ==
  /\ runs[p].pc = "send" /\ CutPanics(Head(runs[p].todo))
  /\ IF p = Ticker
     THEN /\ up' = "panicked"
          /\ runs' = [r \in Runners |-> Resting]
          /\ reqs' = [q \in Requests |-> Idle]
          /\ ticked' = FALSE /\ quiet' = FALSE
     ELSE Done(p) /\ UNCHANGED <<up, reqs, ticked, quiet>>
  /\ UNCHANGED <<sums, sent, late, faults>>

-----------------------------------------------------------------------------
(* The process *)

Init ==
  /\ channels = StartChannels
  /\ rules = [r \in RuleIds |-> None]
  /\ reqs = [q \in Requests |-> Idle]
  /\ sums = [s \in SumIds |-> None]
  /\ runs = [p \in Runners |-> Resting]
  /\ ticked = FALSE /\ sent = {} /\ quiet = FALSE /\ late = FALSE
  /\ now = 0 /\ up = "up"
  /\ edits = 0 /\ faults = 0 /\ crashes = 0

\* A deleted channel leaves the schedules too (ON DELETE CASCADE).
EditSettings ==
  /\ Running /\ SettingsNext
  /\ sums' = [s \in SumIds |-> IF sums[s] \in Absent THEN sums[s]
       ELSE [sums[s] EXCEPT !.channels = {c \in @ : channels'[c] # Deleted}]]
  /\ UNCHANGED <<runs, ticked, sent, quiet, late, now, up, faults, crashes>>

\* A minute begins, whatever the ticker's goroutine is doing: the tick it has not
\* taken, or the schedules it has listed, are then looked at in this minute.  The
\* channel holds one tick, and another is dropped.
ClockTicks ==
  /\ now < MaxTime
  /\ now' = now + 1
  /\ ticked' = (up = "up") /\ quiet' = (up = "up")
  /\ UNCHANGED <<channels, rules, reqs, sums, runs, sent, late, edits, up, faults, crashes>>

Signal ==
  /\ up = "up" /\ faults + crashes < MaxFaults
  /\ up' = "stopping" /\ crashes' = crashes + 1
  /\ UNCHANGED <<channels, rules, reqs, sums, runs, ticked, sent, quiet, late, edits, now, faults>>

\* run does not wait for the scheduler.
Exit ==
  /\ up = "stopping"
  /\ up' = "down"
  /\ runs' = [p \in Runners |-> Resting]
  /\ reqs' = [q \in Requests |-> Idle]
  /\ ticked' = FALSE /\ quiet' = FALSE
  /\ UNCHANGED <<channels, rules, sums, sent, late, edits, now, faults, crashes>>

Boot ==
  /\ ~Running
  /\ up' = "up"
  /\ UNCHANGED <<channels, rules, reqs, sums, runs, ticked, sent, quiet, late, edits, now, faults, crashes>>

Next ==
  \/ EditSettings
  \/ \E s \in SumIds : CreateSchedule(s) \/ UpdateSchedule(s) \/ DeleteSchedule(s)
  \/ /\ tick \/ tickSchedule \/ \E p \in Runners : runSchedule(p) \/ stampSchedule(p)
     /\ UNCHANGED <<channels, rules, reqs, edits, now, up, crashes>>
  \/ /\ \E p \in Triggers, s \in SumIds : TriggerSchedule(p, s)
     /\ Running /\ Edits
     /\ UNCHANGED <<channels, rules, reqs, now, up, crashes>>
  \/ /\ \E p \in Runners : cutPanics(p)
     /\ UNCHANGED <<channels, rules, edits, now, crashes>>
  \/ ClockTicks \/ Signal \/ Exit \/ Boot

vars == <<channels, rules, reqs, edits, sums, runs, ticked, sent, quiet, late, now, up, faults, crashes>>
Spec == Init /\ [][Next]_vars

-----------------------------------------------------------------------------
\* The ticker sends no summary within half a period of an earlier one of the
\* same schedule that had been stamped when the tick listed the schedules, however
\* edits and "send now" requests fall (isDue's guard against firing twice), unless
\* a stamp was lost to a failing store or a stopped process, or replaced by the
\* older one of a slow "send now".
SummariesSpaced ==
  LET r == runs[Ticker]
  IN  r.pc = "send" /\ faults = 0 /\ crashes = 0 /\ ~late =>
        \A m \in r.before : m.id = Head(r.todo).id =>
          r.at - m.at >= SchedulePeriod(Head(r.todo).freq) \div 2

\* A schedule that is due goes out in its minute if the ticker's goroutine takes
\* that minute's tick and is through with it before the minute ends.  It is not
\* when it was late, the list of the schedules slow or another summary being
\* delivered; the schedule is then skipped for a whole period.  Nor need it go out
\* when the process is not up, the store has failed, or a schedule was edited,
\* triggered or stamped by a "send now" in that minute.
DueSummaryGoesOut ==
  [][now' # now /\ up = "up" /\ quiet /\ faults = 0 =>
       \A s \in Live : sums[s].enabled /\ isDue(sums[s], now) =>
         \/ ticked \/ runs[Ticker] # Resting
         \/ \E m \in sent : m.id = s /\ m.at = now]_vars

\* The issues of a summary are the top_n of all that match its schedule, not only
\* of each kind: the cut per kind loses none, and the levels of applog events sort
\* the same in SQL as by the severity GetTopIssues merges them by.  severity_max
\* bounds the syslog kinds only.  A kind that is listed twice brings its issues
\* twice, which leaves room for fewer, but for none that is not among the top_n.
TopIssuesAreTheTop ==
  \A p \in Runners : runs[p].pc = "send" =>
    LET s == Head(runs[p].todo)
        Matching == {i \in Issues : /\ i.kind \in Range(s.kinds) /\ OnHost(s, i)
                                    /\ IF i.kind = "applog" THEN i.sev \notin {"DEBUG", "INFO"}
                                       ELSE s.sevMax # None => i.sev <= s.sevMax}
        once     == Cardinality(Range(s.kinds)) = Len(s.kinds)
    IN  s.topN > 0 =>
          \A T \in GetTopIssues(s) : \E top \in Firsts(Matching, s.topN, BySeverity) :
            LET issues == {x[2] : x \in T}
            IN  issues \subseteq top /\ (once => issues = top)

\* A schedule as CreateSchedule stores it never brings the process down: only an
\* update, which checks no more than the time zone, leads GetTopIssues to cut an
\* empty list at a negative top_n.
CreatedSchedulesAreSafe == 
  [][up' = "panicked" /\ up # up' => Head(runs[Ticker].todo).updated]_vars
=============================================================================
