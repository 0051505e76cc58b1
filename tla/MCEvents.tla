------------------------------ MODULE MCEvents --------------------------------
EXTENDS Analyzer

CONSTANTS w1, tick

\* A database in the C locale.
MClocaleLowered == <<>>

\* Rows of the syslog feeds and of applog.
Sys(host, sev, msg, pattern) ==
  [Hostname |-> host, FromhostIP |-> "ip", Programname |-> <<"p">>, Severity |-> sev, Facility |-> 1,
   SyslogTag |-> "t", MsgID |-> IF pattern = 1 THEN "m" ELSE "-", Message |-> msg, Pattern |-> pattern]

App(host, level, msg, attrs, pattern) ==
  [Service |-> <<"s">>, Component |-> <<>>, Host |-> host, Level |-> level, Msg |-> msg,
   Source |-> <<>>, Attrs |-> attrs, Timestamp |-> 0, Pattern |-> pattern]

Row(feed, id, e) == [feed |-> feed, id |-> id, e |-> e]
Stored(feed, id, at, e) == Row(feed, id, e) @@ [at |-> at]

ab == <<"a", "b">>
a_ == <<"A", "_">>

MCStartRows ==
  {Stored("srvlog", 1, -4, Sys(ab, 6, <<"b">>, 1)),
   Stored("srvlog", 2, 0, Sys(a_, 3, <<"b", "%">>, 1)),
   Stored("srvlog", 4, 0, Sys(ab, 4, <<"a", "E'">>, 2)),
   Stored("netlog", 1, 0, Sys(a_, 3, <<"a", "b">>, 1)),
   Stored("applog", 1, 0, App(ab, "ERROR", <<"a">>, <<"a", "a">>, 1)),
   Stored("applog", 3, -4, [App(a_, "WARN", <<"b">>, <<>>, 1) EXCEPT !.Service = <<"t">>])}

MCIncoming ==
  {Row("srvlog", 3, Sys(ab, 3, <<"A">>, 1)),
   Row("applog", 2, [App(ab, "FATAL", <<"a", " ", "b">>, <<>>, 2) EXCEPT !.Service = <<"t">>])}

AllOf == NoFilter
Syslog1 == {[AllOf EXCEPT !.Hostname = <<"a", "_", "*">>],
            [AllOf EXCEPT !.From = -4, !.To = 0], [AllOf EXCEPT !.SeverityMax = 9]}
AppAll == [Service |-> None, Component |-> None, Host |-> None, Level |-> None,
           LevelExact |-> None, Search |-> None, From |-> None, To |-> None]

MCQueries ==
  [srvlog |-> Syslog1,
   netlog |-> {[AllOf EXCEPT !.Search = <<"B">>, !.From = -1, !.To = 1]},
   applog |-> {[AppAll EXCEPT !.Level = "ERR"], [AppAll EXCEPT !.Search = <<"A">>, !.From = -1, !.To = 1],
               [AppAll EXCEPT !.LevelExact = "LOUD"]}]

Entry(level, msg, attrs) == [App(ab, level, msg, attrs, 1) EXCEPT !.Service = <<"u">>]

MCBatches ==
  {Invalid, <<>>, <<Entry("LOUD", <<"a">>, <<>>)>>,
   <<Entry("WARNING", <<"a", "NUL">>, <<"a", "\\", "u0000">>),
     Entry("INFO", <<"b">>, <<"\\", "\\", "u0000">>)>>,
   <<Entry("INFO", <<"a">>, <<>>), Entry("INFO", <<"b">>, <<"\\", "ud800">>)>>,
   <<Entry("INFO", <<"a">>, <<>>), Entry("INFO", <<>>, <<>>)>>,
   <<Entry("INFO", <<"a">>, <<>>), Entry("INFO", <<"a">>, <<>>), Entry("INFO", <<"a">>, <<>>)>>}

MCapplogMaxLen == [Msg |-> 3, Service |-> 2, Component |-> 2, Host |-> 2, Source |-> 2, Attrs |-> 3]

\* The first rule mutes the hosts A_..., and runs.
Mute(feed, host, search) ==
  [Feed |-> feed, Hostname |-> host, Programname |-> None, Search |-> search, Reason |-> TRUE]

MCMuteIds == 1..2
MCStartMutes ==
  [i \in MCMuteIds |-> IF i = 1 THEN Mute("srvlog", <<"a", "_", "*">>, None) @@ [ExpiresAt |-> 1] ELSE None]
MCMuteInputs ==
  {Mute("srvlog", None, <<" ", "B">>), Mute("srvlog", None, <<"e'">>),
   [Mute("netlog", <<"*", "_">>, None) EXCEPT !.Programname = <<"p", " ">>],
   Mute("netlog", <<"*", " ">>, None)}

MCDurations == {-1, 0}
MCLimits == {5}
MCHide == {None, TRUE, Invalid}
MCRanges == {None, Invalid, 2}
MCWriters == {w1}

MCAnalysisRuns ==
  {[feed |-> "srvlog", scope |-> {}, mode |-> "daily", period |-> 2],
   [feed |-> "srvlog", scope |-> {ab}, mode |-> "weekly", period |-> 3],
   [feed |-> "netlog", scope |-> {a_}, mode |-> "incident", period |-> 1],
   [feed |-> "applog", scope |-> {}, mode |-> "daily", period |-> 1],
   [feed |-> "applog", scope |-> { <<"t">> }, mode |-> "incident", period |-> 1]}

MCcaps ==
  [RankedServices |-> 1, ErrorTemplatesPerService |-> 1, WarnTemplatesPerService |-> 1, NewTemplates |-> 1,
   TemplateSamples |-> 1, SilentServices |-> 1, SilentMin |-> 1, LongTailServices |-> 1]

\* A reply of a shape: good, with an extra title, and without the token.
Titled(t) == << <<"h2", t, "plain">>, <<"text", "">> >>
Good(shape) ==
  << <<"h2", shape.headers[1], "colon">>, <<"text", shape.firstRule>> >>
    \o FlattenSeq([i \in 1..(Len(shape.headers) - 1) |-> Titled(shape.headers[i + 1])])
MCReplies ==
  [k \in DOMAIN reportShapes |->
     {Good(reportShapes[k]), Good(reportShapes[k]) \o Titled("Appendix"),
      [Good(reportShapes[k]) EXCEPT ![2] = <<"text", "">>]}]

\* A host pattern and a search text mean the same in Matches as in ILIKE with
\* its escapes, for all short texts in ASCII, and a minimum level keeps the same
\* levels.
TextsAgree ==
  LET Texts(alphabet, n) == UNION {[1..k -> alphabet] : k \in 0..n}
  IN  /\ \A v \in Texts({"a", "A", "b", "_", "\\"}, 3),
            p \in Texts({"a", "B", "_", "%", "*", "\\"}, 3) \ {<<>>} :
           /\ matchField(v, p) = HostCond(v, p)
           /\ containsFold(v, searchNeedle(p)) = ILike(v, <<"%">> \o escapeLike(p) \o <<"%">>)
      /\ \A l \in DOMAIN ValidAppLogLevels \cup DOMAIN levelAliases, k \in DOMAIN ValidAppLogLevels :
           LET f == ParseAppLogFilter([AppAll EXCEPT !.Level = l])
               e == App(ab, k, <<"a">>, <<>>, 1)
           IN  AppLogMatches(f, e) = applyAppLogFilter(f, e)

\* The filters the queries parse to, their time ranges apart.
TimelessFilters ==
  LET Anytime(q) == [q EXCEPT !.From = None, !.To = None]
  IN  [feed \in DOMAIN Queries |->
         {IF feed = "applog" THEN ParseAppLogFilter(Anytime(q)) ELSE ParseSrvlogFilter(Anytime(q)) :
            q \in Queries[feed]} \ {Invalid}]

\* The search of applog is two: in SQL for words of the message, in Go for text
\* in the message or the attributes.
SelectedAlike(r) ==
  \A f \in TimelessFilters[r.feed] :
    LET e == Event(r)
    IN  CASE r.feed = "srvlog" -> FoldsAlike(f, e) => SrvlogMatches(f, e) = applySrvlogFilter(f, e)
          [] r.feed = "netlog" -> FoldsAlike(f, e) => NetlogMatches(f, e) = applyNetlogFilter(f, e)
          [] r.feed = "applog" -> f.Search = None => AppLogMatches(f, e) = applyAppLogFilter(f, e)

StartRowsAgree == \A r \in StartRows : SelectedAlike(r)

\* Live filters and SQL filters select the same events: Matches of
\* model.SrvlogFilter, NetlogFilter and AppLogFilter and the conditions of the
\* stores agree on every stored row, those of the start and those that come, and
\* every filter that parses, its time range apart, and on the texts that rows and
\* filters may contain.  Left out are the search of applog, and the case of letters
\* beyond ASCII, where the two differ.
FiltersAgree ==
  TextsAgree /\ StartRowsAgree /\ \A r \in rows \ StartRows : SelectedAlike(r)

\* The rules for replies accept what they mean, for all short replies.
ShapesAgree ==
  \A shape \in [headers : {<<"A", "B">>, <<"A">>}, firstRule : {"status"}, lineCap : {0, 4}],
     reply \in UNION {[1..n -> {<<"h2", "A", "plain">>, <<"h2", "B", "colon">>, <<"fence">>, <<"blank">>,
                               <<"text", "status">>}] : n \in 0..5} :
    validateShape(reply, shape) = WellFormed(reply, shape)

\* Reports say what the tables hold: what is stored is never reported as
\* absent, the numbers of a prompt agree, and the correction of a reply that
\* breaks the rules of structure.go never makes the report worse.
ReportsHonest == SilenceIsTrue /\ NumbersHangTogether /\ RetryNeverWorse /\ ShapesAgree
===============================================================================
