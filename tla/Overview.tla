------------------------------ MODULE Overview --------------------------------
(***************************************************************************)
(* The views that aggregate events: a device, the hosts page, the totals   *)
(* and the volume charts (internal/postgres, internal/handler).  A view is *)
(* read by several statements; each of them sees the rows committed when   *)
(* it starts, also those sent together in one batch.                       *)
(***************************************************************************)
EXTENDS Events, Functions

CONSTANTS
  Hour, Quarter,           \* widths of the hourly and the 15-minute buckets
  Day, Week,
  Ranges,                  \* values of range, in time units, or Invalid
  topMessagesLimit, criticalLimit, topSourcesLimit, topErrorsPerHost

SeverityErr == 3
SeverityWarning == 4

Bucket(t, width) == width * (t \div width)
Counts(s, F(_)) == [v \in {F(r) : r \in s} |-> Cardinality({r \in s : F(r) = v})]
Total(counts) == MapThenSumSet(LAMBDA v : counts[v], DOMAIN counts)
TotalOf(counts, s) == MapThenSumSet(LAMBDA v : counts[v], DOMAIN counts \cap s)

\* An answer of ORDER BY cnt DESC LIMIT n, which leaves ties open.
TopCounts(counts, n) ==
  Restrict(counts, CHOOSE t \in SUBSET DOMAIN counts :
     /\ Cardinality(t) = Min({n, Cardinality(DOMAIN counts)})
     /\ \A v \in t, w \in DOMAIN counts \ t : counts[v] >= counts[w])

-----------------------------------------------------------------------------
(* One device: the statements of a batch, in order *)

\* Mutant: the counts are read after the rows they count.
SrvlogCountsLast == <<"last", "messages", "critical", "ip", "activity", "severity">>

SrvlogDeviceBatch == <<"last", "severity", "messages", "critical", "ip", "activity">>
NetlogDeviceBatch == <<"last", "severity", "messages", "critical", "ip", "activity">>
AppLogDeviceBatch == <<"last", "severity", "messages", "critical", "activity">>

\* agg joined with the row of its greatest id; pattern 0 is the empty one.
TopMessages(day, sev) ==
  LET counts == Counts({r \in day : r.e.Pattern # 0}, LAMBDA r : r.e.Pattern)
      ranked == SetToSortSeq(DOMAIN counts, LAMBDA p, q : \/ counts[p] > counts[q]
                                                          \/ counts[p] = counts[q] /\ p < q)
      Of(p)  == {r \in day : r.e.Pattern = p}
      latest(p) == CHOOSE r \in Of(p) : \A s \in Of(p) : s.id <= r.id
  IN  {[Pattern |-> p, Count |-> counts[p], LatestID |-> latest(p).id,
        LatestAt |-> Max({r.at : r \in Of(p)}), Severity |-> latest(p).e[sev]] :
          p \in ToSet(FirstN(ranked, topMessagesLimit))}

lastSeen(s) == IF s = {} THEN None ELSE Max({r.at : r \in s})
activity(day) == Counts(day, LAMBDA r : Bucket(r.at, Quarter))
newest(s, n) == FirstN(NewestFirst(s), n)

\* One statement over the rows of a host: all, of a week and of a day; sev is
\* the column of the severity or level.
DeviceRead(name, mine, week, day, sev, critical) ==
  CASE name = "last"     -> lastSeen(mine)
    [] name = "severity" -> Counts(week, LAMBDA r : r.e[sev])
    [] name = "messages" -> TopMessages(day, sev)
    [] name = "critical" -> newest({r \in week : r.e[sev] \in critical}, criticalLimit)
    [] name = "ip"       -> [i \in DOMAIN newest(mine, 1) |-> newest(mine, 1)[i].e.FromhostIP]
    [] name = "activity" -> activity(day)

CriticalOf(feed) == IF feed = "applog" THEN {"ERROR", "FATAL"} ELSE 0..SeverityErr

DeviceStarts(feed, host) ==
  /\ req = Idle /\ MutesAtStart
  /\ Proceeds([pc |-> "batch", kind |-> "device", feed |-> feed, host |-> host, asked |-> now,
               view |-> <<>>])

DeviceReads(feed, batch, host, sev) ==
  LET mine == {r \in Table(feed) : r.e[host] = req.host}
      name == batch[Len(req.view) + 1]
  IN  /\ req.pc = "batch" /\ req.kind = "device" /\ req.feed = feed
      /\ Len(req.view) < Len(batch)
      /\ Proceeds([req EXCEPT !.view = Append(@,
           DeviceRead(name, mine, {r \in mine : r.at >= req.asked - Week},
                      {r \in mine : r.at >= req.asked - Day}, sev, CriticalOf(feed)))])

ReadBy(batch, name) == req.view[CHOOSE i \in DOMAIN batch : batch[i] = name]

\* The summary, with its critical logs as they are shown, marked by the rules of
\* then.
DeviceAnswers(feed, batch, criticalLogs) ==
  LET At(name) == ReadBy(batch, name)
  IN  /\ req.pc = "batch" /\ req.kind = "device" /\ req.feed = feed
      /\ Len(req.view) = Len(batch)
      /\ Proceeds(Done([kind |-> "device", feed |-> feed, asked |-> req.asked,
           LastSeenAt |-> At("last"), SeverityBreakdown |-> At("severity"),
           TotalCount |-> Total(At("severity")),
           CriticalCount |-> TotalOf(At("severity"), CriticalOf(feed)),
           TopMessages |-> At("messages"), Activity |-> At("activity"),
           FromhostIP |-> IF "ip" \in ToSet(batch) THEN At("ip") ELSE None,
           CriticalLogs |-> criticalLogs]))

GetSrvlogDeviceSummary ==
  DeviceReads("srvlog", SrvlogDeviceBatch, "Hostname", "Severity")
GetNetlogDeviceSummary ==
  DeviceReads("netlog", NetlogDeviceBatch, "Hostname", "Severity")
GetAppLogDeviceSummary ==
  DeviceReads("applog", AppLogDeviceBatch, "Host", "Level")

Hostnames(feed) ==
  {IF feed = "applog" THEN r.e.Host ELSE r.e.Hostname :
     r \in {r \in StartRows \cup Incoming : r.feed = feed}}

SrvlogDevice ==
  \/ \E host \in Hostnames("srvlog") : DeviceStarts("srvlog", host)
  \/ GetSrvlogDeviceSummary
  \/ LET logs == ReadBy(SrvlogDeviceBatch, "critical")
     IN  DeviceAnswers("srvlog", SrvlogDeviceBatch, Marked(logs, markSrvlogs(Active, logs)))

NetlogDevice ==
  \/ \E host \in Hostnames("netlog") : DeviceStarts("netlog", host)
  \/ GetNetlogDeviceSummary
  \/ LET logs == ReadBy(NetlogDeviceBatch, "critical")
     IN  DeviceAnswers("netlog", NetlogDeviceBatch, Marked(logs, markNetlogs(Active, logs)))

AppLogDevice ==
  \/ \E host \in Hostnames("applog") : DeviceStarts("applog", host)
  \/ GetAppLogDeviceSummary
  \/ LET logs == ReadBy(AppLogDeviceBatch, "critical")
     IN  DeviceAnswers("applog", AppLogDeviceBatch,
                       Marked(previewAppLogAttrs(logs), [i \in DOMAIN logs |-> None]))

-----------------------------------------------------------------------------
(* The hosts page: five statements over both syslog feeds *)

ParseRange(v) == IF v = None THEN Day ELSE v

Syslog == {r \in rows : r.feed \in Feeds}
InHours(s, from) == {r \in s : Bucket(r.at, Hour) >= from}
Host(r) == r.e.Hostname

\* Rows of the hourly aggregates: per host and severity, with the feed.
hostSeverityQuery(since) ==
  LET cur   == InHours(Syslog, since)
      Of(k) == {r \in cur : Host(r) = k.host /\ r.e.Severity = k.sev}
      in(k) == {r.feed : r \in Of(k)}
  IN  {[host |-> k.host, sev |-> k.sev, cnt |-> Cardinality(Of(k)),
        feed |-> IF Cardinality(in(k)) > 1 THEN "both" ELSE CHOOSE f \in in(k) : TRUE,
        last |-> Max({Bucket(r.at, Hour) : r \in Of(k)})] :
          k \in {[host |-> Host(r), sev |-> r.e.Severity] : r \in cur}}

hostPrevTotalsQuery(prevStart, since) ==
  Counts(InHours(Syslog, prevStart) \ InHours(Syslog, since), Host)

hostHourlyQuery(since) ==
  Counts(InHours(Syslog, since), LAMBDA r : [host |-> Host(r), hr |-> Bucket(r.at, Hour)])

\* Ranked in each feed by itself.
hostTopErrorsQuery(since) ==
  LET errors(f, h) == {r \in Table(f) : /\ r.at >= since /\ r.e.Severity <= SeverityErr
                                        /\ r.e.Pattern # 0 /\ Host(r) = h}
  IN  [h \in {Host(r) : r \in Syslog} |->
         [f \in Feeds |-> TopCounts(Counts(errors(f, h), LAMBDA r : r.e.Pattern), topErrorsPerHost)]]

hostLastSeenQuery(since) ==
  LET cur == {r \in Syslog : r.at >= since}
  IN  [h \in {Host(r) : r \in cur} |-> Max({r.at : r \in {r \in cur : Host(r) = h}})]

\* What the first result holds of each host.
scanHostSeverities(result) ==
  [h \in {q.host : q \in result} |->
     LET mine == {q \in result : q.host = h}
         Sum(s) == MapThenSumSet(LAMBDA q : q.cnt, s)
     IN  [feeds |-> {q.feed : q \in mine}, last |-> Max({q.last : q \in mine}), total |-> Sum(mine),
          errors |-> Sum({q \in mine : q.sev <= SeverityErr}),
          sevCounts |-> {<<q.sev, q.cnt>> : q \in mine}]]

\* A map's value, or what Go gives for a missing key.
Lookup(f, h, missing) == IF h \in DOMAIN f THEN f[h] ELSE missing

scanHostPrevTotals(result, h) == Lookup(result, h, 0)
scanHostHourly(result, h) == Restrict(result, {k \in DOMAIN result : k.host = h})
scanHostTopErrors(result, h) == Lookup(result, h, [f \in Feeds |-> <<>>])
applyHostLastSeen(result, h, last) == Max({last, Lookup(result, h, last)})

feedBadge(feeds) ==
  IF {"srvlog", "netlog"} \subseteq feeds THEN "both"
  ELSE IF "netlog" \in feeds THEN "netlog" ELSE "srvlog"

\* More than 3% of the events are errors; some are; none is.
hostStatus(errors, total) ==
  IF 100 * errors > 3 * total THEN "critical" ELSE IF errors > 0 THEN "warning" ELSE "healthy"

assembleHostEntries(view) ==
  LET hosts == scanHostSeverities(view[1])
  IN  [h \in DOMAIN hosts |->
         [Feed |-> feedBadge(hosts[h].feeds), Status |-> hostStatus(hosts[h].errors, hosts[h].total),
          LastSeenAt |-> applyHostLastSeen(view[5], h, hosts[h].last),
          TotalCount |-> hosts[h].total, ErrorCount |-> hosts[h].errors,
          PrevTotal |-> scanHostPrevTotals(view[2], h),
          SeverityBreakdown |-> hosts[h].sevCounts,
          HourlyBuckets |-> scanHostHourly(view[3], h),
          TopErrors |-> scanHostTopErrors(view[4], h)]]

ViewStarts(kind, range) ==
  /\ req = Idle /\ MutesAtStart
  /\ IF range = Invalid THEN Proceeds(Done([kind |-> "refused"]))
     ELSE Proceeds([pc |-> "batch", kind |-> kind, asked |-> now, range |-> range, view |-> <<>>])

ViewReads(kind, n, result) ==
  /\ req.pc = "batch" /\ req.kind = kind
  /\ Len(req.view) = n - 1
  /\ Proceeds([req EXCEPT !.view = Append(@, result)])

ListHosts ==
  LET since == req.asked - req.range
  IN  \/ ViewReads("hosts", 1, hostSeverityQuery(since))
      \/ ViewReads("hosts", 2, hostPrevTotalsQuery(since - req.range, since))
      \/ ViewReads("hosts", 3, hostHourlyQuery(req.asked - Day))
      \/ ViewReads("hosts", 4, hostTopErrorsQuery(req.asked - Day))
      \/ ViewReads("hosts", 5, hostLastSeenQuery(since))

ViewAnswers(kind, n, answer) ==
  /\ req.pc = "batch" /\ req.kind = kind /\ Len(req.view) = n
  /\ Proceeds(Done([kind |-> kind, asked |-> req.asked, range |-> req.range, answer |-> answer]))

Hosts ==
  \/ \E v \in Ranges : ViewStarts("hosts", ParseRange(v))
  \/ ListHosts
  \/ ViewAnswers("hosts", 5, assembleHostEntries(req.view))

-----------------------------------------------------------------------------
(* Totals: three queries, each on its own *)

\* Counts of the current hours by severity, of the hours before, and by source.
SummaryReads(kind, hours, sev, source) ==
  LET since == req.asked - req.range
      cur   == InHours(hours, since)
  IN  \/ ViewReads(kind, 1, Counts(cur, LAMBDA r : r.e[sev]))
      \/ ViewReads(kind, 2, Cardinality(InHours(hours, since - req.range) \ cur))
      \/ ViewReads(kind, 3, TopCounts(Counts(cur, LAMBDA r : r.e[source]), topSourcesLimit))

SummaryAnswer(view, errors, warnings) ==
  [Total |-> Total(view[1]), Errors |-> TotalOf(view[1], errors),
   Warnings |-> TotalOf(view[1], warnings), PrevTotal |-> view[2],
   SeverityBreakdown |-> view[1], TopSources |-> view[3]]

getSyslogSummary(kind, feed) ==
  SummaryReads(kind, Table(feed), "Severity", "Hostname")

SrvlogSummary ==
  \/ \E v \in Ranges : ViewStarts("srvlog totals", ParseRange(v))
  \/ getSyslogSummary("srvlog totals", "srvlog")
  \/ ViewAnswers("srvlog totals", 3, SummaryAnswer(req.view, 0..SeverityErr, {SeverityWarning}))

NetlogSummary ==
  \/ \E v \in Ranges : ViewStarts("netlog totals", ParseRange(v))
  \/ getSyslogSummary("netlog totals", "netlog")
  \/ ViewAnswers("netlog totals", 3, SummaryAnswer(req.view, 0..SeverityErr, {SeverityWarning}))

GetAppLogSummary ==
  SummaryReads("applog totals", Table("applog"), "Level", "Service")

AppLogSummary ==
  \/ \E v \in Ranges : ViewStarts("applog totals", ParseRange(v))
  \/ GetAppLogSummary
  \/ ViewAnswers("applog totals", 3, SummaryAnswer(req.view, {"ERROR", "FATAL"}, {"WARN"}))

-----------------------------------------------------------------------------
(* Volume charts: one query, its rows gathered into buckets *)

\* Rows of the query: bucket, group and count, by bucket.
VolumeRows(s, group, width) ==
  LET counts == Counts(s, LAMBDA r : [time |-> Bucket(r.at, width), group |-> r.e[group]])
  IN  SetToSortSeq({[time |-> k.time, group |-> k.group, cnt |-> counts[k]] : k \in DOMAIN counts},
                   LAMBDA a, b : a.time < b.time)

Gather(result) ==
  FoldLeft(LAMBDA buckets, q :
             IF buckets # <<>> /\ Last(buckets).time = q.time
             THEN [buckets EXCEPT ![Len(buckets)] =
                     [@ EXCEPT !.total = @ + q.cnt, !.by = @ @@ (q.group :> q.cnt)]]
             ELSE Append(buckets, [time |-> q.time, total |-> q.cnt, by |-> q.group :> q.cnt]),
           <<>>, result)

getVolume(feed, group, width, range) ==
  Gather(VolumeRows({r \in Table(feed) : r.at >= now - range}, group, width))

GetVolume(width, range) == getVolume("srvlog", "Hostname", width, range)
GetNetlogVolume(width, range) == getVolume("netlog", "Hostname", width, range)
GetAppLogVolume(width, range) == getVolume("applog", "Service", width, range)
GetSeverityVolume(width, range) == getVolume("srvlog", "Severity", width, range)
GetNetlogSeverityVolume(width, range) == getVolume("netlog", "Severity", width, range)
GetAppLogSeverityVolume(width, range) == getVolume("applog", "Level", width, range)

ParseVolumeParams(interval, range) ==
  LET width == IF interval = None THEN Hour ELSE interval
  IN  IF width = Invalid \/ ParseRange(range) = Invalid THEN Invalid
      ELSE [Interval |-> width, RangeDur |-> ParseRange(range)]

\* counted is a ghost: the keys of the rows of the range.
Charts(feed, Get(_, _)) ==
  \E interval \in {None, Invalid, Quarter}, range \in Ranges :
    LET p == ParseVolumeParams(interval, range)
    IN  /\ req = Idle /\ MutesAtStart
        /\ IF p = Invalid THEN Proceeds(Done([kind |-> "refused"]))
           ELSE Proceeds(Done([kind |-> "volume", width |-> p.Interval,
                  counted |-> {Key(r) : r \in {r \in Table(feed) : r.at >= now - p.RangeDur}},
                  answer |-> Get(p.Interval, p.RangeDur)]))

Volume == Charts("srvlog", GetVolume)
NetlogVolume == Charts("netlog", GetNetlogVolume)
AppLogVolume == Charts("applog", GetAppLogVolume)
SeverityVolume == Charts("srvlog", GetSeverityVolume)
NetlogSeverityVolume == Charts("netlog", GetNetlogSeverityVolume)
AppLogSeverityVolume == Charts("applog", GetAppLogSeverityVolume)

-----------------------------------------------------------------------------
(* The system *)

Requests ==
  \/ SrvlogList \/ NetlogList \/ AppLogList \/ Leave
  \/ SrvlogGet \/ NetlogGet \/ AppLogGet
  \/ SrvlogStream \/ NetlogStream \/ AppLogStream
  \/ DispatchSrvlog \/ DispatchNetlog
  \/ ExportSrvlogs \/ ExportNetlogs \/ ExportAppLogs
  \/ Ingest
  \/ SrvlogDevice \/ NetlogDevice \/ AppLogDevice
  \/ Hosts
  \/ SrvlogSummary \/ NetlogSummary \/ AppLogSummary
  \/ Volume \/ NetlogVolume \/ AppLogVolume
  \/ SeverityVolume \/ NetlogSeverityVolume \/ AppLogSeverityVolume
  \/ Fails({"query", "mark", "batch"})
  \/ Finish

vars == <<muteVars, steps, eventVars>>

Init ==
  /\ MutesInit
  /\ rows = StartRows
  /\ pending = Incoming
  /\ req = Idle

\* A finished request only waits to be looked at: nothing else moves meanwhile.
Next ==
  \/ req.pc # "done" /\ (RowCommits \/ RowDropped)
  \/ ReadsMutes /\ MutesNext /\ UNCHANGED eventVars
  \/ req.pc # "done" /\ ~ReadsMutes /\ ClockAdvances /\ UNCHANGED eventVars
  \/ Requests

Spec == Init /\ [][Next]_vars

-----------------------------------------------------------------------------
(* Properties *)

\* The parts of a view agree although each is read by its own statement while
\* rows arrive.  A device with critical events lists them, its messages are
\* part of its activity, and a device seen this week has an address; a host's
\* total is within its hourly bars; when all sources fit, they make up at
\* least the total.
ViewsHangTogether ==
  req.pc = "done" =>
    /\ req.kind = "device" =>
         /\ Len(req.CriticalLogs) >= Min({criticalLimit, req.CriticalCount})
         /\ MapThenSumSet(LAMBDA m : m.Count, req.TopMessages) <= Total(req.Activity)
         /\ req.feed \in Feeds /\ req.LastSeenAt # None =>
              (req.LastSeenAt >= req.asked - Week => req.FromhostIP # <<>>)
    /\ req.kind = "hosts" =>
         \A h \in DOMAIN req.answer :
           /\ req.answer[h].TotalCount = MapThenSumSet(LAMBDA p : p[2], req.answer[h].SeverityBreakdown)
           /\ req.range <= Day => req.answer[h].TotalCount <= Total(req.answer[h].HourlyBuckets)
    /\ req.kind \in {"srvlog totals", "netlog totals", "applog totals"} =>
         (Cardinality(DOMAIN req.answer.TopSources) < topSourcesLimit =>
            Total(req.answer.TopSources) >= req.answer.Total)

\* A volume chart counts every event of its range once, in the bucket of its
\* time, the groups of a bucket add up to its total, and time goes forward.
ChartsCountOnce ==
  req.pc = "done" /\ req.kind = "volume" =>
    LET bars == req.answer
    IN  /\ \A k \in req.counted : \E i \in DOMAIN bars : bars[i].time = Bucket(k[1], req.width)
        /\ \A i \in DOMAIN bars :
             /\ bars[i].total = Cardinality({k \in req.counted : Bucket(k[1], req.width) = bars[i].time})
             /\ bars[i].total = Total(bars[i].by)
             /\ i > 1 => bars[i - 1].time < bars[i].time

\* The numbers of the dashboards add up.
ViewsAddUp == ViewsHangTogether /\ ChartsCountOnce

===============================================================================
