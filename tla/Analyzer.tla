------------------------------ MODULE Analyzer --------------------------------
(***************************************************************************)
(* One analysis run: gather the numbers of a window and of the baseline    *)
(* before it, one statement after another, put them in a prompt, and keep  *)
(* the model's reply or its one correction (internal/analyzer, with the    *)
(* analysis queries of internal/postgres).  Rows go on arriving meanwhile. *)
(*                                                                         *)
(* Rates are compared over a common denominator, so counts stay integers.  *)
(* Wording of the prompt, labels and attrs compaction are left out.        *)
(***************************************************************************)
EXTENDS Overview, ReportShape

CONSTANTS
  AnalysisRuns,        \* [feed, scope, mode, period]; scope {} is every host or service
  Replies,             \* [kind -> what the model may answer]
  FiveMinutes, SixHours, DayAndHalf, EightDays,
  topMsgIDLimit, topHostsPerMsgID, topHostLimit, topProgramLimit, topFacilityLimit,
  eventClusterLimit, newMsgIDLimit, topMsgIDSampleCount,
  caps,                \* AppLogCaps with its defaults
  newTemplateRankMin, applogNewTemplatesHardCap, hygieneDominantMinEvents, hygieneDominantLimit

Gathering == req.pc = "gather"
Analysing == req.pc \in {"gather", "chat", "retry"}
run == req.run

\* What a statement returned; nothing when it failed or was not needed.
Got(name) == Lookup(req.got, name, <<>>)

-----------------------------------------------------------------------------
(* The window *)

PeriodStart(r, end) ==
  IF r.feed = "applog" THEN Bucket(end - r.period, Hour) ELSE end - r.period

Source(r) == IF r.feed = "applog" THEN "Service" ELSE "Hostname"
InScope(r) == {w \in Table(r.feed) : r.scope = {} \/ w.e[Source(r)] \in r.scope}
CurrentRows(r, end) == {w \in InScope(r) : w.at >= PeriodStart(r, end)}
Current == CurrentRows(run, req.end)
Baseline ==
  {w \in InScope(run) : /\ w.at >= PeriodStart(run, req.end) - Week
                        /\ w.at < PeriodStart(run, req.end)}

pickBucket(period) ==
  IF period <= SixHours THEN FiveMinutes
  ELSE IF period <= DayAndHalf THEN Hour
  ELSE IF period <= EightDays THEN 6 * Hour ELSE Day

\* Buckets of s in order of time, from the times of its events in grains.
Timeline(s, grain, width, errors) ==
  LET Place(w) == Bucket(Bucket(w.at, grain), width)
      Of(t) == {w \in s : Place(w) = t}
  IN  [i \in 1..Cardinality({Place(w) : w \in s}) |->
         LET t == SetToSortSeq({Place(w) : w \in s}, <)[i]
         IN  [time |-> t, total |-> Cardinality(Of(t)),
              errors |-> Cardinality(Of(t) \cap errors)]]

\* A bar of eighths, at least one where something happened.
sparkline(counts) ==
  LET maxv == Max({0} \cup Range(counts))
  IN  [i \in DOMAIN counts |-> IF counts[i] <= 0 THEN 0 ELSE (counts[i] * 8 + maxv - 1) \div maxv]

topPeakBuckets(buckets, n) ==
  SelectSeq(FirstN(SortSeq(buckets, LAMBDA a, b : \/ a.errors > b.errors
                                                  \/ a.errors = b.errors /\ a.total > b.total), n),
            LAMBDA b : b.total > 0)

VolumeOf(buckets) ==
  [timeline |-> buckets, spark |-> sparkline([i \in DOMAIN buckets |-> buckets[i].total]),
   errorSpark |-> sparkline([i \in DOMAIN buckets |-> buckets[i].errors]),
   peaks |-> topPeakBuckets(buckets, 3)]

-----------------------------------------------------------------------------
(* Statements of the syslog feeds *)

\* The msgid, or the message's pattern for a row without one.
eventKey(w) == IF w.e.MsgID \in {"", "-"} THEN <<"-", w.e.Pattern>> ELSE <<w.e.MsgID, 0>>
NoKey == <<"-", 0>>
Keyed(s) == {w \in s : eventKey(w) # NoKey}
Errors(s) == {w \in s : w.e.Severity <= SeverityErr}
Severities(s) == Counts(s, LAMBDA w : w.e.Severity)
OfKey(s, k) == {w \in s : eventKey(w) = k}

topMsgIDs == TopCounts(Counts(Keyed(Current), eventKey), topMsgIDLimit)
topMsgIDSeverities == [k \in DOMAIN Got("top") |-> Severities(OfKey(Current, k))]
topMsgIDHosts ==
  [k \in DOMAIN Got("top") |->
     LET hosts == Counts(OfKey(Current, k), Host)
     IN  [HostCount |-> Cardinality(DOMAIN hosts), TopHosts |-> TopCounts(hosts, topHostsPerMsgID)]]

\* The rates of the window and of the baseline, by severity.
GetSeverityComparison ==
  LET cur == Got("severities")
      base == Got("baseline")
  IN  [s \in DOMAIN cur \cup DOMAIN base |->
         [Current |-> Lookup(cur, s, 0) * Week, BaselineAvg |-> Lookup(base, s, 0) * run.period]]

topErrorHosts ==
  LET counts == TopCounts(Counts(Errors(Current), Host), topHostLimit)
      keys(h) == Counts({w \in Keyed(Errors(Current)) : Host(w) = h}, eventKey)
  IN  [h \in DOMAIN counts |-> [Count |-> counts[h], TopMsgID |-> DOMAIN TopCounts(keys(h), 1)]]

newMsgIDs == SetToSeq({eventKey(w) : w \in Keyed(Current)} \ {eventKey(w) : w \in Baseline})

\* Buckets in which more than one host logged.
GetEventClusters ==
  LET At(t) == {w \in Current : Bucket(w.at, FiveMinutes) = t}
      many  == {w \in Current : Cardinality({Host(v) : v \in At(Bucket(w.at, FiveMinutes))}) > 1}
      top   == TopCounts(Counts(many, LAMBDA w : Bucket(w.at, FiveMinutes)), eventClusterLimit)
  IN  [t \in DOMAIN top |-> [Hosts |-> {Host(w) : w \in At(t)}, Total |-> top[t],
                             MsgIDs |-> {eventKey(w) : w \in Keyed(At(t))}]]

\* Severities of the newest rows of each key.
GetMsgIDSamples(keys, n) ==
  [k \in keys \cap {eventKey(w) : w \in Current} |->
     [i \in DOMAIN newest(OfKey(Current, k), n) |-> newest(OfKey(Current, k), n)[i].e.Severity]]

topBy(s, column, n) ==
  LET counts == TopCounts(Counts(s, LAMBDA w : w.e[column]), n)
  IN  [v \in DOMAIN counts |->
         [Count |-> counts[v], ErrorCount |-> Cardinality({w \in Errors(s) : w.e[column] = v})]]

Program(w) == w.e.Programname
topPrograms == topBy({w \in Current : Program(w) # <<>>}, "Programname", topProgramLimit)
topProgramSeverities ==
  [p \in DOMAIN Got("programs") |-> Severities({w \in Current : Program(w) = p})]
GetTopFacilities == topBy(Current, "Facility", topFacilityLimit)

\* From the hourly aggregates when an hour is fine enough and no host is chosen.
GetVolumeTimeline ==
  LET width == pickBucket(run.period)
      start == PeriodStart(run, req.end)
      hours == InHours(InScope(run), start) \ InHours(InScope(run), req.end)
  IN  IF width >= Hour /\ run.scope = {}
      THEN Timeline(hours, Hour, width, Errors(hours))
      ELSE Timeline({w \in Current : w.at < req.end}, 1, width, Errors(Current))

-----------------------------------------------------------------------------
(* Statements of applog *)

WarnPlus(s) == {w \in s : w.e.Level \in appLogLevelsAtOrAbove(AppLogLevelRank("WARN"))}
isErrorLevel(level) == AppLogLevelRank(level) >= AppLogLevelRank("ERROR")
Templates(s) ==
  Counts({w \in WarnPlus(s) : w.e.Pattern # 0},
         LAMBDA w : [Service |-> w.e.Service, Component |-> w.e.Component,
                     Pattern |-> w.e.Pattern, Level |-> w.e.Level])
Unleveled(k) == [Service |-> k.Service, Component |-> k.Component, Pattern |-> k.Pattern]

LevelCounts(s) ==
  LET n(l) == Cardinality({w \in s : NormalizeLevel(w.e.Level) = l})
  IN  [Total |-> Cardinality(s), Warn |-> n("WARN"), Error |-> n("ERROR"), Fatal |-> n("FATAL")]

\* From the hourly aggregate; the window starts on the hour.
GetAppLogServiceStats ==
  LET start == PeriodStart(run, req.end)
      both  == InHours(InScope(run), start - Week)
      Of(v) == {w \in both : w.e.Service = v}
  IN  [v \in {w.e.Service : w \in both} |->
         [Current |-> LevelCounts(InHours(Of(v), start)),
          Baseline |-> LevelCounts(Of(v) \ InHours(Of(v), start))]]

\* Templates of the window that the baseline has at no level from WARN on.
GetAppLogNewTemplates ==
  LET old == {Unleveled(k) : k \in DOMAIN Templates(Baseline)}
      all == Templates(Current)
      fresh == {[key |-> k, cnt |-> all[k]] : k \in {k \in DOMAIN all : Unleveled(k) \notin old}}
  IN  FirstN(SetToSortSeq(fresh, LAMBDA a, b :
                \/ isErrorLevel(a.key.Level) /\ ~isErrorLevel(b.key.Level)
                \/ isErrorLevel(a.key.Level) = isErrorLevel(b.key.Level) /\ a.cnt > b.cnt),
             applogNewTemplatesHardCap)

\* The most frequent templates of each service, of errors and of warnings.
GetAppLogTopTemplates(services) ==
  LET all == Templates({w \in CurrentRows([run EXCEPT !.scope = {}], req.end) : w.e.Service \in services})
      Of(v, errors) == {k \in DOMAIN all : k.Service = v /\ isErrorLevel(k.Level) = errors}
      Top(v, errors, n) == DOMAIN TopCounts(Restrict(all, Of(v, errors)), n)
  IN  Restrict(all, UNION {Top(v, TRUE, caps.ErrorTemplatesPerService)
                             \cup Top(v, FALSE, caps.WarnTemplatesPerService) : v \in services})

\* The keys of which a row, the newest, is found.
GetAppLogTemplateSamples(keys) == [k \in keys \cap DOMAIN Templates(Current) |-> TRUE]

GetAppLogVolumeTimeline ==
  LET width == Max({pickBucket(run.period), Hour})
      hours == InHours(InScope(run), PeriodStart(run, req.end)) \ InHours(InScope(run), req.end)
  IN  Timeline(hours, Hour, width, {w \in hours : isErrorLevel(w.e.Level)})

hygieneCounts ==
  LET s == WarnPlus(Current)
  IN  [WarnPlusRows |-> Cardinality(s),
       EmptyComponent |-> Cardinality({w \in s : w.e.Component = <<>>}),
       OversizeAttrs |-> Cardinality({w \in s : Len(w.e.Attrs) > AttrsPreviewLimit})]

\* Per service the WARN template that makes up 30% of its warnings.
dominantTemplates ==
  LET warns == {w \in Current : w.e.Level = "WARN" /\ w.e.Pattern # 0}
      Of(v) == Counts({w \in warns : w.e.Service = v}, LAMBDA w : <<w.e.Component, w.e.Pattern>>)
      Share(v) == Total(TopCounts(Of(v), 1))
      found == {v \in {w.e.Service : w \in warns} :
                  /\ Total(Of(v)) >= hygieneDominantMinEvents
                  /\ 10 * Share(v) >= 3 * Total(Of(v))}
  IN  TopCounts([v \in found |-> Share(v)], hygieneDominantLimit)

-----------------------------------------------------------------------------
(* What applog makes of them *)

serviceRows ==
  LET stats == Got("stats")
      New(v) == SelectSeq(Got("newTemplates"), LAMBDA t : t.cnt >= newTemplateRankMin /\ t.key.Service = v)
  IN  [v \in DOMAIN stats |-> [Current |-> stats[v].Current, Baseline |-> stats[v].Baseline,
                               NewTemplates |-> Len(New(v))]]

warnPlus(c) == c.Warn + c.Error + c.Fatal
Length == req.end - PeriodStart(run, req.end)
Delta(cur, base) == cur * Week - base * Length
errorDelta(r) == Delta(r.Current.Error + r.Current.Fatal, r.Baseline.Error + r.Baseline.Fatal)
warnDelta(r) == Delta(r.Current.Warn, r.Baseline.Warn)

activeServices(rs) == {v \in DOMAIN rs : warnPlus(rs[v].Current) > 0 \/ rs[v].NewTemplates > 0}

\* By what changed; ties are in the order of the names.
rankAppLogServices(rs) ==
  LET Rank(v) == <<rs[v].NewTemplates, errorDelta(rs[v]), warnDelta(rs[v])>>
  IN  SetToSortSeq(activeServices(rs), LAMBDA v, w :
        \E i \in 1..3 : Rank(v)[i] > Rank(w)[i] /\ \A j \in 1..(i - 1) : Rank(v)[j] = Rank(w)[j])

cutRanked(active) ==
  LET rest == From(active, caps.RankedServices + 1)
  IN  [ranked |-> FirstN(active, caps.RankedServices),
       longTail |-> FirstN(rest, caps.LongTailServices),
       rest |-> From(rest, caps.LongTailServices + 1)]

Ranked == cutRanked(rankAppLogServices(serviceRows)).ranked

\* Recurring before single, errors before warnings, then by count.
sortNewTemplates(ts) ==
  LET Rank(t) == <<IF t.cnt >= newTemplateRankMin THEN 1 ELSE 0,
                   IF isErrorLevel(t.key.Level) THEN 1 ELSE 0, t.cnt>>
  IN  SortSeq(ts, LAMBDA t, u :
        \E i \in 1..3 : Rank(t)[i] > Rank(u)[i] /\ \A j \in 1..(i - 1) : Rank(t)[j] = Rank(u)[j])

shownTemplates == FirstN(sortNewTemplates(Got("newTemplates")), caps.NewTemplates)

\* Ranked errors, then ranked warnings, up to the budget; every new one shown.
sampleKeys ==
  LET of(v, errors) == SetToSeq({k \in DOMAIN Got("templates") :
                                   k.Service = v /\ isErrorLevel(k.Level) = errors})
      all(errors) == FlattenSeq([i \in DOMAIN Ranked |-> of(Ranked[i], errors)])
  IN  ToSet(FirstN(all(TRUE) \o all(FALSE), caps.TemplateSamples))
        \cup {shownTemplates[i].key : i \in DOMAIN shownTemplates}

levelDrift(stats) ==
  LET Sum(when, l) == MapThenSumSet(LAMBDA v : stats[v][when][l], DOMAIN stats)
  IN  [l \in {"Total", "Warn", "Error", "Fatal"} |->
         [Current |-> Sum("Current", l) * Week, BaselineAvg |-> Sum("Baseline", l) * Length]]

\* Silent: the baseline predicts enough rows and none came.
silentAndNewServices(rs) ==
  LET silent == {v \in DOMAIN rs : /\ rs[v].Current.Total = 0
                                   /\ rs[v].Baseline.Total * Length >= caps.SilentMin * Week}
      fresh  == {v \in DOMAIN rs : rs[v].Current.Total > 0 /\ rs[v].Baseline.Total = 0}
      Most(s, when) == FirstN(SetToSortSeq(s, LAMBDA v, w : rs[v][when].Total > rs[w][when].Total),
                              caps.SilentServices)
  IN  [Silent |-> Most(silent, "Baseline"), NewServices |-> Most(fresh, "Current")]

-----------------------------------------------------------------------------
(* Gathering *)

syslogPlan(r) ==
  <<"top", "topSeverities", "topHosts", "severities", "baseline">>
    \o (IF r.scope = {} THEN <<"errorHosts", "clusters">> ELSE <<>>)
    \o <<"new", "topSamples", "timeline">>
    \o (IF r.feed # "netlog" THEN <<"programs", "programSeverities", "facilities">> ELSE <<>>)
    \o <<"newSamples">>
    \o (IF r.feed = "netlog" THEN <<"refs">> ELSE <<>>)

applogPlan ==
  <<"stats", "newTemplates", "templates", "samples", "volume", "hygiene", "dominant">>

\* A section of two statements is lost with either of them.
Section(name) ==
  IF name = "programSeverities" THEN "programs" ELSE IF name = "dominant" THEN "hygiene" ELSE name

LoadBearing == {"top", "topSeverities", "topHosts", "severities", "baseline", "stats", "templates"}

\* Whether the call queries the database at all.
Needed(name) ==
  CASE name \in {"topSeverities", "topHosts", "topSamples"} -> DOMAIN Got("top") # {}
    [] name = "programSeverities" -> DOMAIN Got("programs") # {}
    [] name = "newSamples"        -> Got("new") # <<>>
    [] name = "refs"              -> DOMAIN Got("top") # {} \/ Got("new") # <<>>
    [] name = "templates"         -> Ranked # <<>>
    [] name = "samples"           -> sampleKeys # {}
    [] name = "dominant"          -> "hygiene" \in DOMAIN req.got
    [] OTHER                      -> TRUE

Left ==
  SelectSeq(IF run.feed = "applog" THEN applogPlan ELSE syslogPlan(run),
            LAMBDA n : n \notin DOMAIN req.got /\ Section(n) \notin req.unavailable /\ Needed(n))

Statement(name) ==
  CASE name = "top"               -> topMsgIDs
    [] name = "topSeverities"     -> topMsgIDSeverities
    [] name = "topHosts"          -> topMsgIDHosts
    [] name = "severities"        -> Severities(Current)
    [] name = "baseline"          -> Severities(Baseline)
    [] name = "errorHosts"        -> topErrorHosts
    [] name = "clusters"          -> GetEventClusters
    [] name = "new"               -> newMsgIDs
    [] name = "topSamples"        -> GetMsgIDSamples(DOMAIN Got("top"), topMsgIDSampleCount)
    [] name = "timeline"          -> GetVolumeTimeline
    [] name = "programs"          -> topPrograms
    [] name = "programSeverities" -> topProgramSeverities
    [] name = "facilities"        -> GetTopFacilities
    [] name = "newSamples"        -> GetMsgIDSamples(ToSet(Got("new")), 1)
    [] name = "refs"              -> <<>>
    [] name = "stats"             -> GetAppLogServiceStats
    [] name = "newTemplates"      -> GetAppLogNewTemplates
    [] name = "templates"         -> GetAppLogTopTemplates(ToSet(Ranked))
    [] name = "samples"           -> GetAppLogTemplateSamples(sampleKeys)
    [] name = "volume"            -> GetAppLogVolumeTimeline
    [] name = "hygiene"           -> hygieneCounts
    [] name = "dominant"          -> dominantTemplates

\* Mutant: a section that failed looks like one that is empty.
bestEffortUnmarked(section) ==
  IF req.alive THEN [req EXCEPT !.got = (section :> <<>>) @@ @] ELSE Done([kind |-> "failed"])

\* A failure costs its own section, a dead context the run.
bestEffort(section) ==
  IF req.alive
  THEN [req EXCEPT !.unavailable = @ \cup {section}, !.got = Restrict(@, DOMAIN @ \ {section})]
  ELSE Done([kind |-> "failed"])

\* For a reason of its own, or because the context is dead.
StatementFails ==
  /\ Gathering /\ Left # <<>>
  /\ IF req.alive THEN Outside(1) ELSE UNCHANGED steps
  /\ req' = IF Head(Left) \in LoadBearing THEN Done([kind |-> "failed"])
            ELSE bestEffort(Section(Head(Left)))
  /\ UNCHANGED <<muteVars, rows, pending>>

StatementReturns ==
  /\ Gathering /\ Left # <<>> /\ req.alive
  /\ Proceeds([req EXCEPT !.got = @ @@ (Head(Left) :> Statement(Head(Left)))])

\* The worker's timeout, or its shutdown.
ContextEnds ==
  /\ Analysing /\ req.alive
  /\ Outside(1)
  /\ req' = [req EXCEPT !.alive = FALSE]
  /\ UNCHANGED <<muteVars, rows, pending>>

-----------------------------------------------------------------------------
(* The prompt *)

\* The most severe by their sample are kept; 8 is below debug.
capNewMsgIDs(ids, samples, limit) ==
  LET severity(id) == IF id \in DOMAIN samples THEN samples[id][1] ELSE 8
  IN  IF Len(ids) <= limit THEN [shown |-> ids, omitted |-> 0]
      ELSE [shown |-> FirstN(SortSeq(ids, LAMBDA a, b : severity(a) < severity(b)), limit),
            omitted |-> Len(ids) - limit]

syslogPrompt ==
  [top |-> Got("top"), topSeverities |-> Got("topSeverities"), topHosts |-> Got("topHosts"),
   topSamples |-> Got("topSamples"), severity |-> GetSeverityComparison,
   errorHosts |-> Got("errorHosts"), clusters |-> Got("clusters"),
   new |-> capNewMsgIDs(Got("new"), Got("newSamples"), newMsgIDLimit), newSamples |-> Got("newSamples"),
   volume |-> VolumeOf(Got("timeline")), programs |-> Got("programs"),
   programSeverities |-> Got("programSeverities"), facilities |-> Got("facilities")]

isEmptyData ==
  DOMAIN Got("top") = {} /\ Got("timeline") = <<>> /\ DOMAIN Got("severities") = {}

applogPrompt ==
  LET rs == serviceRows
      cut == cutRanked(rankAppLogServices(rs))
  IN  [active |-> Cardinality(activeServices(rs)), ranked |-> cut.ranked, longTail |-> cut.longTail,
       remainder |-> Len(cut.rest), drift |-> levelDrift(Got("stats")),
       remainderWarnPlus |-> MapThenSumSet(LAMBDA v : warnPlus(rs[v].Current), ToSet(cut.rest)),
       templates |-> Got("templates"), new |-> shownTemplates, samples |-> Got("samples"),
       volume |-> VolumeOf(Got("volume")), hygiene |-> Got("hygiene"), dominant |-> Got("dominant"),
       services |-> silentAndNewServices(rs)]

isEmptyAppLogData ==
  LET services == silentAndNewServices(serviceRows)
  IN  /\ activeServices(serviceRows) = {} /\ shownTemplates = <<>>
      /\ services.Silent = <<>> /\ services.NewServices = <<>>

\* The finished run; replies is a ghost, the whole replies in order.
Result(report, tokens, replies) ==
  Done([kind |-> "report", run |-> run, due |-> req.due, Report |-> report, Tokens |-> tokens,
        replies |-> replies])

\* An empty window gets a fixed body, here <<>>, and no model is asked.
GatherEnds(empty, prompt) ==
  Proceeds(IF empty THEN Result(<<>>, 0, <<>>)
           ELSE [pc |-> "chat", kind |-> "analysis", run |-> run, end |-> req.end, due |-> req.due,
                 alive |-> req.alive, unavailable |-> req.unavailable, prompt |-> prompt])

prepareSyslog ==
  Gathering /\ Left = <<>> /\ run.feed # "applog" /\ GatherEnds(isEmptyData, syslogPrompt)
prepareAppLog ==
  Gathering /\ Left = <<>> /\ run.feed = "applog" /\ GatherEnds(isEmptyAppLogData, applogPrompt)

\* A template that cannot be read or rendered.
PromptFails ==
  /\ Gathering /\ Left = <<>>
  /\ ~(IF run.feed = "applog" THEN isEmptyAppLogData ELSE isEmptyData)
  /\ Outside(1)
  /\ req' = Done([kind |-> "failed"])
  /\ UNCHANGED <<muteVars, rows, pending>>

-----------------------------------------------------------------------------
(* The model *)

\* The window ends when the run starts; nothing is read unless the server answers.
RunStarts ==
  \E r \in AnalysisRuns :
    /\ req = Idle /\ MutesAtStart
    /\ Proceeds([pc |-> "gather", kind |-> "analysis", run |-> r, end |-> now, alive |-> TRUE,
                 got |-> <<>>, unavailable |-> {}, due |-> CurrentRows(r, now)])

PingFails ==
  /\ req = Idle /\ MutesAtStart
  /\ Outside(1)
  /\ req' = Done([kind |-> "failed"])
  /\ UNCHANGED <<muteVars, rows, pending>>

Kind == reportKind(run.feed, run.mode)
CutOff == << <<"cut">> >>

\* A reply that was cut off fails the run; one that breaks the rules is corrected.
ChatReplies ==
  /\ req.pc = "chat" /\ req.alive
  /\ \E reply \in Replies[Kind] \cup {CutOff} :
       Proceeds(IF reply = CutOff THEN Done([kind |-> "failed"])
                ELSE IF validateReport(reply, Kind) THEN Result(reply, 1, <<reply>>)
                ELSE [pc |-> "retry", kind |-> "analysis", run |-> run, alive |-> TRUE,
                      due |-> req.due, first |-> reply])

ChatFails ==
  /\ req.pc = "chat"
  /\ IF req.alive THEN Outside(1) ELSE UNCHANGED steps
  /\ req' = Done([kind |-> "failed"])
  /\ UNCHANGED <<muteVars, rows, pending>>

\* The first reply is kept unless the second is whole and meets the rules.
RetryReplies ==
  /\ req.pc = "retry" /\ req.alive
  /\ \E reply \in Replies[Kind] \cup {CutOff} :
       Proceeds(IF reply = CutOff THEN Result(req.first, 1, <<req.first>>)
                ELSE IF validateReport(reply, Kind) THEN Result(reply, 1 + 2, <<req.first, reply>>)
                ELSE Result(req.first, 1, <<req.first, reply>>))

RetryFails ==
  /\ req.pc = "retry"
  /\ IF req.alive THEN Outside(1) ELSE UNCHANGED steps
  /\ req' = Result(req.first, 1, <<req.first>>)
  /\ UNCHANGED <<muteVars, rows, pending>>

Run ==
  \/ RunStarts \/ PingFails
  \/ StatementReturns \/ StatementFails \/ ContextEnds
  \/ prepareSyslog \/ prepareAppLog \/ PromptFails
  \/ ChatReplies \/ ChatFails \/ RetryReplies \/ RetryFails

AnalyzerNext == Next \/ Run
AnalyzerSpec == Init /\ [][AnalyzerNext]_vars

-----------------------------------------------------------------------------
(* Properties *)

\* What is stored is never reported as absent.  The fixed body for an empty
\* window means that no event was stored when the run began (for applog, no
\* warning or error), and a section of the prompt that is empty, and not marked
\* as unavailable, had nothing to show: a failed lookup is not taken for quiet.
SilenceIsTrue ==
  LET steady == req.due \cap rows
      start  == PeriodStart(run, req.end)
      Said(section) == section \notin req.unavailable
      Unseen(Same(_, _), w) == \A v \in {v \in StartRows : v.feed = run.feed} : Same(v, w) => v.at >= start
      Kept(p) == {p.new.shown[i] : i \in DOMAIN p.new.shown}
      SameTemplate(v, w) == \A k \in {"Service", "Component", "Pattern"} : v.e[k] = w.e[k]
  IN  /\ req.pc = "done" /\ req.kind = "report" =>
           (req.Report = <<>> => IF run.feed = "applog" THEN WarnPlus(steady) = {} ELSE steady = {})
      /\ req.pc = "chat" /\ run.feed # "applog" =>
           LET p == req.prompt
           IN  /\ Keyed(steady) # {} => DOMAIN p.top # {}
               /\ Said("topSamples") => DOMAIN p.top = DOMAIN p.topSamples
               /\ Said("new") => \A w \in Keyed(steady) :
                    Unseen(LAMBDA v, u : eventKey(v) = eventKey(u), w) =>
                      eventKey(w) \in Kept(p) \/ p.new.omitted > 0
               /\ Said("newSamples") => Kept(p) \subseteq DOMAIN p.newSamples
               /\ Said("errorHosts") /\ run.scope = {} /\ Errors(steady) # {} => DOMAIN p.errorHosts # {}
               /\ Said("clusters") /\ run.scope = {} =>
                    \A v, w \in steady : (v.at = w.at /\ Host(v) # Host(w)) => DOMAIN p.clusters # {}
               /\ Said("programs") /\ run.feed # "netlog" =>
                    \A w \in steady : Program(w) # <<>> => DOMAIN p.programs # {}
               /\ Said("facilities") /\ run.feed # "netlog" /\ steady # {} => DOMAIN p.facilities # {}
               /\ Said("timeline") => \A w \in steady :
                    (Bucket(w.at, Hour) >= start /\ w.at < req.end /\ Bucket(w.at, Hour) < req.end) =>
                      p.volume.timeline # <<>>
      /\ req.pc = "chat" /\ run.feed = "applog" =>
           LET p == req.prompt
           IN  /\ WarnPlus(steady) # {} => p.active > 0
               /\ Said("newTemplates") => \A w \in WarnPlus(steady) :
                    (w.e.Pattern # 0 /\ Unseen(SameTemplate, w)) => p.new # <<>>
               /\ Said("samples") => \A i \in DOMAIN p.new : p.new[i].key \in DOMAIN p.samples
               /\ Said("hygiene") => /\ "WarnPlusRows" \in DOMAIN p.hygiene
                                      /\ p.hygiene.WarnPlusRows >= Cardinality(WarnPlus(steady))
               /\ Said("volume") => \A w \in steady : Bucket(w.at, Hour) < req.end => p.volume.timeline # <<>>

\* The numbers of a prompt agree although each statement sees later rows than
\* the one before: the breakdowns of a count make up at least the count, every
\* active service is in one of the three lists, none of them is silent, and a
\* bar is blank exactly where nothing happened.
NumbersHangTogether ==
  req.pc = "chat" =>
    LET p == req.prompt
        Spark(bars, F(_)) == \A i \in DOMAIN bars : bars[i] \in 0..8 /\ (bars[i] = 0 <=> F(i) = 0)
    IN  /\ Spark(p.volume.spark, LAMBDA i : p.volume.timeline[i].total)
        /\ Spark(p.volume.errorSpark, LAMBDA i : p.volume.timeline[i].errors)
        /\ run.feed # "applog" =>
             /\ \A k \in DOMAIN p.top :
                  /\ p.top[k] <= Total(p.topSeverities[k])
                  /\ p.topHosts[k].HostCount <= topHostsPerMsgID =>
                       Total(p.topSeverities[k]) <= Total(p.topHosts[k].TopHosts)
             /\ \A n \in DOMAIN p.programs : /\ p.programs[n].Count <= Total(p.programSeverities[n])
                                             /\ p.programs[n].ErrorCount <= p.programs[n].Count
        /\ run.feed = "applog" =>
             /\ p.active = Len(p.ranked) + Len(p.longTail) + p.remainder
             /\ ToSet(p.services.Silent) \cap ToSet(p.ranked \o p.longTail) = {}

\* The correction never makes a report worse: the report is a whole reply of
\* the model, it meets the rules if any of the replies did, and its tokens
\* include the first reply's.
RetryNeverWorse ==
  req.pc = "done" /\ req.kind = "report" =>
    LET Fine(reply) == WellFormed(reply, reportShapes[Kind])
    IN  req.Report # <<>> =>
          /\ Contains(req.replies, req.Report) /\ req.Report # CutOff
          /\ (\E i \in DOMAIN req.replies : Fine(req.replies[i])) => Fine(req.Report)
          /\ req.Tokens = IF Fine(req.Report) /\ Len(req.replies) = 2 THEN 3 ELSE 1
===============================================================================
